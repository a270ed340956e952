------------------------- MODULE Decompilation_proofs -------------------------
(***************************************************************************)
(* What holds of a decompilation for any functions, maturities, rules,     *)
(* instructions and number of passes: every state has its type, the guards *)
(* of the block manager keep the rules off the graph after a failure and   *)
(* after the pipeline, the pipeline runs once, and the memo of rule names  *)
(* is current.                                                             *)
(*                                                                         *)
(* The history in pass says nothing by itself: the three are inductive     *)
(* only with what the manager remembers of the same events (Shut, Once).   *)
(***************************************************************************)
EXTENDS Decompilation, FiniteSetTheorems, WellFoundedInduction, TLAPS

InsnManagers ==
  [maturity: Maturities \cup {Never}, seen: [Addresses -> SUBSET Forms],
   func: Funcs \cup {NoFunc}, names: [Maturities -> Answers \cup {NoAnswer}]]
Decompilers ==
  [func: Funcs \cup {NoFunc}, maturity: Maturities \cup {Never},
   todo: SUBSET Callbacks, dirty: BOOLEAN]
Histories ==
  [failed: BOOLEAN, fired: BOOLEAN, runs: Nat, ran: SUBSET FlowRules, saw: Facts,
   used: Answers \cup {NoAnswer}, abandoned: BOOLEAN]

Typed ==
  /\ bm \in Managers /\ im \in InsnManagers /\ form \in [Nodes -> Forms]
  /\ dec \in Decompilers /\ scope \in [Funcs -> Answers] /\ pass \in Histories
  /\ dec.func # NoFunc => dec.maturity \in Maturities
  /\ dec.func = NoFunc => dec = Idle

(* What the pass has seen the manager has noted in its guards.              *)
Shut ==
  /\ pass.fired => bm.justFired /\ pass.ran = {}
  /\ pass.failed => Suppressed(bm)

(* The manager looks whether the pipeline is due where it finds a maturity  *)
(* it was not at.  A pass that was given up leaves it at a maturity: if the *)
(* next pass began at the pipeline's, it would not look.                    *)
PipelineComesLater == PipelineMaturity > 1

(* The run of the pipeline is noted with its maturity, and happens at the   *)
(* first block of that maturity, which takes the manager there.             *)
PipelinePassed ==
  \/ dec.maturity > PipelineMaturity
  \/ dec.maturity = PipelineMaturity /\ bm.maturity = PipelineMaturity
Once ==
  /\ pass.runs <= 1
  /\ dec.func # NoFunc => \/ pass.runs = 0 /\ bm.pipelineLast = Never
                          \/ pass.runs = 1 /\ bm.pipelineLast = PipelineMaturity
  /\ dec.func # NoFunc => Blocks \subseteq dec.todo \/ bm.maturity = dec.maturity
  /\ dec.func # NoFunc /\ Passes > 0 /\ PipelineComesLater /\ PipelinePassed => pass.runs = 1

IInv == Typed /\ Shut /\ Once

-------------------------------------------------------------------------------
(* The methods of the block manager: each returns a manager, and what it    *)
(* leaves alone of the fields the guards read.                              *)

Kept(c, b) ==
  /\ c.maturity = b.maturity /\ c.passes = b.passes /\ c.limit = b.limit
  /\ c.pipelineLast = b.pipelineLast /\ c.justFired = b.justFired

LEMMA MaturityFacts ==
  /\ Maturities \subseteq Nat /\ Never = 0 /\ Never \notin Maturities
  /\ PipelineMaturity \in Maturities /\ LastMaturity \in Maturities
  /\ 1 \in Maturities
BY BlockOptimizerConstants DEF Maturities, Never

LEMMA GraphChangedKeeps ==
  ASSUME NEW b \in Managers
  PROVE  GraphChanged(b) \in Managers /\ Kept(GraphChanged(b), b)
<1>1. \A x \in Facts : Outdated(x) \in Facts
  BY DEF Outdated, Facts
<1>2. GraphChanged(b) \in Managers
  BY <1>1 DEF GraphChanged, Managers
<1>3. Kept(GraphChanged(b), b)
  BY DEF GraphChanged, Managers, Kept
<1> QED BY <1>2, <1>3

LEMMA OnStartedFacts ==
  ASSUME NEW b \in Managers
  PROVE  /\ OnStarted(b) \in Managers
         /\ OnStarted(b).pipelineLast = Never /\ OnStarted(b).justFired = FALSE
BY BlockOptimizerConstants
DEF OnStarted, ResetPipelineTracker, ResetPassCounter, Managers

LEMMA EnterMaturityFacts ==
  ASSUME NEW b \in Managers, NEW m \in Maturities
  PROVE  /\ EnterMaturity(b, m) \in Managers
         /\ EnterMaturity(b, m).maturity = m
         /\ EnterMaturity(b, m).pipelineLast = b.pipelineLast
         /\ b.maturity = m => EnterMaturity(b, m) = b
BY BlockOptimizerConstants
DEF EnterMaturity, InvalidateFlowContext, ResetPassCounter, Managers, NoContext, Facts, Never

(* A number of passes applied is counted, so that the flag it sets is one.  *)
LEMMA TotalType ==
  ASSUME NEW outcome
  PROVE  Total(outcome) \in Nat
<1> DEFINE S == {i \in 1..Passes : i < Stop(outcome) /\ outcome[i] = "applied"}
<1>1. IsFiniteSet(1..Passes)
  BY FS_Interval, BlockOptimizerConstants
<1>2. IsFiniteSet(S)
  BY <1>1, FS_Subset
<1>3. Cardinality(S) \in Nat
  BY <1>2, FS_CardinalityType
<1> QED BY <1>3 DEF Total

LEMMA RunPipelineFacts ==
  ASSUME NEW b \in Managers, NEW outcome
  PROVE  LET c == RunPipeline(b, outcome)
         IN /\ c \in Managers
            /\ c.maturity = b.maturity /\ c.passes = b.passes /\ c.limit = b.limit
            /\ c.pipelineLast = b.maturity
            /\ c.justFired = (b.justFired \/ Total(outcome) > 0)
<1> DEFINE marked == [b EXCEPT !.pipelineLast = b.maturity,
                               !.justFired = @ \/ Total(outcome) > 0]
<1>1. (Total(outcome) > 0) \in BOOLEAN
  BY TotalType
<1>2. marked \in Managers
  BY <1>1 DEF Managers
<1>3. /\ marked.maturity = b.maturity /\ marked.passes = b.passes /\ marked.limit = b.limit
      /\ marked.pipelineLast = b.maturity
      /\ marked.justFired = (b.justFired \/ Total(outcome) > 0)
  BY DEF Managers
<1>4. RunPipeline(b, outcome) = IF Changed(outcome) THEN GraphChanged(marked) ELSE marked
  BY DEF RunPipeline
<1> HIDE DEF marked
<1> QED BY <1>2, <1>3, <1>4, GraphChangedKeeps DEF Kept

LEMMA CountPassFacts ==
  ASSUME NEW b \in Managers, NEW f \in Funcs
  PROVE  LET c == CountPass(b, f)
         IN /\ c \in Managers
            /\ c.maturity = b.maturity /\ c.pipelineLast = b.pipelineLast
            /\ c.justFired = b.justFired
            /\ Suppressed(b) => Suppressed(c)
<1> DEFINE c == CountPass(b, f)
           l == IF b.passes = 0 THEN ScaledPasses[f] ELSE b.limit
           p == b.passes + 1
<1>1. /\ b.passes \in Nat /\ b.limit \in Nat /\ l \in Nat /\ p \in Nat
      /\ p = b.passes + 1 /\ (b.passes # 0 => l = b.limit)
  BY BlockOptimizerConstants DEF Managers
<1>2. c = [b EXCEPT !.limit = l, !.passes = p]
  BY DEF CountPass
<1> HIDE DEF c, l, p
<1>3. c \in Managers
  BY <1>1, <1>2 DEF Managers
<1>4. /\ c.maturity = b.maturity /\ c.pipelineLast = b.pipelineLast
      /\ c.justFired = b.justFired
      /\ c.passes = p /\ c.limit = l
  BY <1>1, <1>2 DEF Managers
<1>5. Suppressed(b) => Suppressed(c)
  BY <1>1, <1>4 DEF Suppressed
<1> QED BY <1>3, <1>4, <1>5 DEF c

LEMMA AnalyzeKeeps ==
  ASSUME NEW b \in Managers, NEW f \in Funcs
  PROVE  Analyze(b, f) \in Managers /\ Kept(Analyze(b, f), b)
BY DEF Analyze, Managers, Kept, Facts

LEMMA EnsureDispatcherKeeps ==
  ASSUME NEW b \in Managers, NEW f \in Funcs, NEW raises \in BOOLEAN
  PROVE  EnsureDispatcher(b, f, raises) \in Managers /\ Kept(EnsureDispatcher(b, f, raises), b)
<1>1. [b EXCEPT !.context.facts = "failed"] \in Managers
  BY DEF Managers, Facts
<1>2. Kept([b EXCEPT !.context.facts = "failed"], b)
  BY DEF Managers, Kept
<1> DEFINE a == Analyze(b, f)
<1>3. a \in Managers /\ Kept(a, b)
  BY AnalyzeKeeps
<1> HIDE DEF a
<1>4. [a EXCEPT !.context.facts = a.dispatcher[f].facts] \in Managers
  BY <1>3 DEF Managers
<1>5. Kept([a EXCEPT !.context.facts = a.dispatcher[f].facts], b)
  BY <1>3 DEF Managers, Kept
<1>6. Kept(b, b)
  BY DEF Kept
<1> QED BY <1>1, <1>2, <1>4, <1>5, <1>6 DEF EnsureDispatcher, a

LEMMA PrepareKeeps ==
  ASSUME NEW b \in Managers, NEW f \in Funcs, NEW rules, NEW priority, NEW raises \in BOOLEAN
  PROVE  /\ Prepare(b, f, rules, priority, raises) \in Managers
         /\ Kept(Prepare(b, f, rules, priority, raises), b)
<1> DEFINE c == GetOrCreateFlowContext(b, f)
<1>1. c \in Managers /\ Kept(c, b)
  BY DEF GetOrCreateFlowContext, Managers, Kept, Facts
<1> HIDE DEF c
<1>2. EnsureDispatcher(c, f, raises) \in Managers /\ Kept(EnsureDispatcher(c, f, raises), b)
  BY <1>1, EnsureDispatcherKeeps DEF Kept
<1> QED BY <1>1, <1>2 DEF Prepare, c

LEMMA PatchedKeeps ==
  ASSUME NEW b \in Managers
  PROVE  Patched(b) \in Managers /\ Kept(Patched(b), b)
<1> DEFINE c == [b EXCEPT !.generation = @ + 1]
<1>1. c \in Managers /\ Kept(c, b)
  BY DEF Managers, Kept
<1> HIDE DEF c
<1>2. GraphChanged(c) \in Managers /\ Kept(GraphChanged(c), b)
  BY <1>1, GraphChangedKeeps DEF Kept
<1>3. Patched(b) = [GraphChanged(c) EXCEPT !.context = NoContext]
  BY DEF Patched, InvalidateFlowContext, c
<1>4. NoContext \in [func: Funcs \cup {NoFunc}, maturity: Maturities \cup {Never}, facts: Facts]
  BY DEF NoContext, Facts
<1> QED BY <1>2, <1>3, <1>4 DEF Managers, Kept

LEMMA FailedFacts ==
  ASSUME NEW b \in Managers, NEW changed \in BOOLEAN
  PROVE  LET c == Failed(b, changed)
         IN /\ c \in Managers
            /\ c.maturity = b.maturity /\ c.pipelineLast = b.pipelineLast
            /\ c.justFired = b.justFired /\ Suppressed(c)
<1> DEFINE d == IF changed THEN GraphChanged(b) ELSE b
<1>1. d \in Managers /\ Kept(d, b)
  BY GraphChangedKeeps DEF Kept
<1>2. Failed(b, changed) = [d EXCEPT !.passes = d.limit + 1]
  BY DEF Failed, Suppress
<1> HIDE DEF d
<1> QED BY <1>1, <1>2 DEF Managers, Kept, Suppressed

-------------------------------------------------------------------------------
(* One callback for a block: the manager that has entered the maturity, and *)
(* the history up to the rules.                                             *)

LEMMA DueMeaning ==
  ASSUME Typed, dec.func # NoFunc
  PROVE  Due <=> /\ Passes > 0 /\ dec.maturity = PipelineMaturity
                 /\ bm.maturity # PipelineMaturity
                 /\ bm.pipelineLast # PipelineMaturity
<1>1. dec.maturity \in Maturities /\ bm \in Managers
  BY DEF Typed
<1> QED BY <1>1 DEF Due, PipelineDue

LEMMA EnteredFacts ==
  ASSUME Typed, dec.func # NoFunc, NEW outcome
  PROVE  LET e == Entered(outcome)
         IN /\ e \in Managers
            /\ e.maturity = dec.maturity
            /\ e.pipelineLast = IF Due THEN PipelineMaturity ELSE bm.pipelineLast
            /\ bm.maturity = dec.maturity =>
                  /\ Suppressed(bm) => Suppressed(e)
                  /\ bm.justFired => e.justFired
            /\ Due /\ Total(outcome) > 0 => e.justFired
<1> DEFINE at == EnterMaturity(bm, dec.maturity)
<1>1. dec.maturity \in Maturities /\ bm \in Managers
  BY DEF Typed
<1>2. /\ at \in Managers /\ at.maturity = dec.maturity
      /\ at.pipelineLast = bm.pipelineLast
      /\ bm.maturity = dec.maturity => at = bm
  BY <1>1, EnterMaturityFacts
<1>3. Due => dec.maturity = PipelineMaturity
  BY DEF Due, PipelineDue
<1>4. Entered(outcome) = IF Due THEN RunPipeline(at, outcome) ELSE at
  BY DEF Entered
<1> HIDE DEF at
<1>5. CASE Due
  <2> DEFINE e == RunPipeline(at, outcome)
  <2>1. /\ e \in Managers /\ e.maturity = at.maturity
        /\ e.passes = at.passes /\ e.limit = at.limit
        /\ e.pipelineLast = at.maturity
        /\ e.justFired = (at.justFired \/ Total(outcome) > 0)
    BY <1>2, RunPipelineFacts
  <2>2. at.maturity = PipelineMaturity
    BY <1>2, <1>3, <1>5
  <2> HIDE DEF e
  <2>3. Entered(outcome) = e
    BY <1>4, <1>5 DEF e
  <2> QED BY <1>2, <1>5, <2>1, <2>2, <2>3 DEF Suppressed
<1>6. CASE ~Due
  BY <1>2, <1>4, <1>6
<1> QED BY <1>5, <1>6

LEMMA NotedFacts ==
  ASSUME Typed, NEW outcome
  PROVE  LET h == Noted(outcome)
         IN /\ h \in Histories
            /\ h.ran = {}
            /\ h.runs = IF Due THEN pass.runs + 1 ELSE pass.runs
            /\ h.failed => pass.failed /\ bm.maturity = dec.maturity
            /\ h.fired => \/ Due /\ Total(outcome) > 0
                          \/ pass.fired /\ bm.maturity = dec.maturity
<1> DEFINE here == IF bm.maturity = dec.maturity THEN pass
                   ELSE [pass EXCEPT !.failed = FALSE, !.fired = FALSE]
           runs == IF Due THEN here.runs + 1 ELSE here.runs
           fired == here.fired \/ (Due /\ Total(outcome) > 0)
<1>1. /\ here \in Histories /\ here.runs = pass.runs
      /\ here.failed => pass.failed /\ bm.maturity = dec.maturity
      /\ here.fired => pass.fired /\ bm.maturity = dec.maturity
  BY DEF Typed, Histories
<1>2. Noted(outcome) = [here EXCEPT !.runs = runs, !.fired = fired, !.ran = {}, !.saw = "none"]
  BY DEF Noted
<1> HIDE DEF here
<1>3. runs \in Nat /\ here.fired \in BOOLEAN /\ "none" \in Facts
  BY <1>1 DEF Histories, Facts
<1>4. fired \in BOOLEAN
  BY <1>3
<1>5. fired => here.fired \/ (Due /\ Total(outcome) > 0)
  OBVIOUS
<1>6. runs = IF Due THEN pass.runs + 1 ELSE pass.runs
  BY <1>1
<1> HIDE DEF runs, fired
<1>7. Noted(outcome) \in Histories
  BY <1>1, <1>2, <1>3, <1>4 DEF Histories
<1>8. /\ Noted(outcome).ran = {} /\ Noted(outcome).runs = runs
      /\ Noted(outcome).fired = fired /\ Noted(outcome).failed = here.failed
  BY <1>1, <1>2 DEF Histories
<1> QED BY <1>1, <1>5, <1>6, <1>7, <1>8

(* What the callback returns keeps the shape: fired and failed imply guards.*)
LEMMA NotedShut ==
  ASSUME Typed, Shut, dec.func # NoFunc, NEW outcome
  PROVE  /\ Noted(outcome).fired => Entered(outcome).justFired
         /\ Noted(outcome).failed => Suppressed(Entered(outcome))
BY NotedFacts, EnteredFacts DEF Shut

LEMMA CountedFacts ==
  ASSUME Typed, dec.func # NoFunc, NEW outcome
  PROVE  LET c == CountPass(Entered(outcome), dec.func)
         IN /\ c \in Managers
            /\ c.maturity = dec.maturity
            /\ c.pipelineLast = Entered(outcome).pipelineLast
            /\ c.justFired = Entered(outcome).justFired
            /\ Suppressed(Entered(outcome)) => Suppressed(c)
<1>1. dec.func \in Funcs
  BY DEF Typed, Decompilers
<1>2. Entered(outcome) \in Managers /\ Entered(outcome).maturity = dec.maturity
  BY EnteredFacts
<1> QED BY <1>1, <1>2, CountPassFacts

(* The rules run only in a pass where nothing has failed or fired at the    *)
(* maturity of this callback.                                               *)
LEMMA RunningClean ==
  ASSUME Typed, Shut, NEW blk, NEW outcome, Running(blk, outcome)
  PROVE  ~Noted(outcome).fired /\ ~Noted(outcome).failed
BY NotedShut, CountedFacts DEF Running, CalledFor

LEMMA RunRulesFacts ==
  ASSUME Typed, NEW blk, NEW outcome, Running(blk, outcome), NEW r, NEW raises \in BOOLEAN
  PROVE  LET run == RunRules(outcome, r, raises)
         IN /\ run.manager \in Managers /\ run.ran \in SUBSET FlowRules
            /\ run.manager.maturity = dec.maturity
            /\ run.manager.pipelineLast = Entered(outcome).pipelineLast
            /\ run.manager.justFired = Entered(outcome).justFired
<1> DEFINE c == CountPass(Entered(outcome), dec.func)
           rules == Active[dec.func][dec.maturity]
           lowest == IF r \in rules THEN Priority[r] ELSE 0
           m == Prepare(c, dec.func, rules, lowest, raises)
<1>1. dec.func # NoFunc /\ dec.func \in Funcs /\ dec.maturity \in Maturities
  BY DEF Typed, Decompilers, Running, CalledFor
<1>2. rules \subseteq FlowRules
  BY <1>1, DecompilationConstants
<1>3. RunRules(outcome, r, raises) = [manager |-> m, ran |-> {x \in rules : Priority[x] >= lowest}]
  BY DEF RunRules
<1>4. /\ c \in Managers /\ c.maturity = dec.maturity
      /\ c.pipelineLast = Entered(outcome).pipelineLast
      /\ c.justFired = Entered(outcome).justFired
  BY <1>1, CountedFacts
<1> HIDE DEF c, rules, lowest
<1>5. m \in Managers /\ Kept(m, c)
  BY <1>1, <1>4, PrepareKeeps
<1> HIDE DEF m
<1> QED BY <1>2, <1>3, <1>4, <1>5 DEF Kept

LEMMA WitnessedFacts ==
  ASSUME Typed, NEW blk, NEW outcome, Running(blk, outcome), NEW r, NEW raises \in BOOLEAN
  PROVE  LET run == RunRules(outcome, r, raises)
             w   == Witnessed(outcome, run)
         IN /\ w \in Histories
            /\ w.runs = Noted(outcome).runs
            /\ w.failed = Noted(outcome).failed /\ w.fired = Noted(outcome).fired
<1> DEFINE run == RunRules(outcome, r, raises)
           h == Noted(outcome)
           saw == IF run.ran \cap NeedDispatcher # {} THEN run.manager.context.facts ELSE "none"
<1>1. run.manager \in Managers /\ run.ran \in SUBSET FlowRules
  BY RunRulesFacts
<1>2. saw \in Facts
  BY <1>1 DEF Managers, Facts
<1>3. h \in Histories
  BY NotedFacts
<1>4. Witnessed(outcome, run) = [h EXCEPT !.ran = run.ran, !.saw = saw]
  BY DEF Witnessed
<1> HIDE DEF run, h, saw
<1> QED BY <1>1, <1>2, <1>3, <1>4 DEF Histories, run, h

-------------------------------------------------------------------------------
(* The five ways a callback for a block ends.                               *)

QuietStep ==
  (pass.failed /\ dec.func # NoFunc /\ bm'.maturity = bm.maturity) => pass'.ran = {}

LEMMA CalledFacts ==
  ASSUME Typed, dec.func # NoFunc, NEW c, NEW changed \in BOOLEAN, Called(c, changed)
  PROVE  /\ dec' \in Decompilers
         /\ dec'.func = dec.func /\ dec'.maturity = dec.maturity
         /\ dec'.todo = dec.todo \ {c}
         /\ dec'.func # NoFunc /\ dec'.maturity \in Maturities
<1>1. dec \in Decompilers /\ dec.maturity \in Maturities /\ (dec.dirty \/ changed) \in BOOLEAN
  BY DEF Typed, Decompilers
<1>2. dec' = [dec EXCEPT !.todo = @ \ {c}, !.dirty = @ \/ changed]
  BY DEF Called
<1> QED BY <1>1, <1>2 DEF Decompilers

(* The pipeline is due at the first block of its maturity, and only there.  *)
LEMMA CallbackOnce ==
  ASSUME Typed, Once, NEW blk, CalledFor(blk), NEW outcome,
         pass'.runs = Noted(outcome).runs,
         bm'.pipelineLast = Entered(outcome).pipelineLast,
         bm'.maturity = dec.maturity,
         dec'.maturity = dec.maturity, dec'.func = dec.func
  PROVE  Once'
<1>1. dec.func # NoFunc
  BY DEF CalledFor
<1>2. dec.maturity \in Nat /\ PipelineMaturity \in Nat /\ Never # PipelineMaturity
  BY <1>1, MaturityFacts DEF Typed
<1>3. pass'.runs = IF Due THEN pass.runs + 1 ELSE pass.runs
  BY NotedFacts
<1>4. bm'.pipelineLast = IF Due THEN PipelineMaturity ELSE bm.pipelineLast
  BY <1>1, EnteredFacts
<1>5. CASE Due
  <2>1. pass.runs = 0
    BY <1>1, <1>5, DueMeaning DEF Once
  <2> QED BY <1>3, <1>4, <1>5, <2>1 DEF Once
<1>6. CASE ~Due
  <2>1. Passes > 0 /\ PipelineComesLater /\ dec.maturity = PipelineMaturity => pass.runs = 1
    BY <1>1, <1>2, <1>6, DueMeaning DEF Once, PipelinePassed
  <2> QED BY <1>1, <1>2, <1>3, <1>4, <1>6, <2>1 DEF Once, PipelinePassed
<1> QED BY <1>5, <1>6

LEMMA SkipBlockKeeps ==
  ASSUME IInv, NEW blk \in Blocks, SkipBlock(blk)
  PROVE  IInv' /\ QuietStep
<1> USE DEF IInv
<1>1. PICK outcome \in Outcomes :
        /\ CalledFor(blk)
        /\ \/ /\ Entered(outcome).justFired
              /\ bm' = Entered(outcome)
           \/ /\ ~Entered(outcome).justFired
              /\ Suppressed(CountPass(Entered(outcome), dec.func))
              /\ bm' = CountPass(Entered(outcome), dec.func)
        /\ pass' = Noted(outcome)
        /\ Called(blk, FALSE)
        /\ UNCHANGED <<im, form, scope>>
  BY Zenon DEF SkipBlock
<1>2. dec.func # NoFunc
  BY <1>1 DEF CalledFor
<1>3. /\ bm' \in Managers /\ bm'.pipelineLast = Entered(outcome).pipelineLast
      /\ bm'.maturity = dec.maturity
      /\ bm'.justFired = Entered(outcome).justFired
      /\ Suppressed(Entered(outcome)) => Suppressed(bm')
  BY <1>1, <1>2, EnteredFacts, CountedFacts
<1>4. pass' \in Histories /\ pass'.ran = {}
  BY <1>1, NotedFacts
<1>5. Typed'
  BY <1>1, <1>2, <1>3, <1>4, CalledFacts DEF Typed
<1>6. Shut'
  BY <1>1, <1>2, <1>3, <1>4, NotedShut DEF Shut, Suppressed
<1>7. Once'
  BY <1>1, <1>2, <1>3, CalledFacts, CallbackOnce
<1> QED BY <1>4, <1>5, <1>6, <1>7 DEF QuietStep

(* Where the rules run nothing has failed or fired at this maturity, so the *)
(* guards have nothing to remember but what this callback adds.             *)
LEMMA RunKeeps ==
  ASSUME IInv, NEW blk \in Blocks, NEW outcome \in Outcomes, Running(blk, outcome),
         NEW r, NEW raises \in BOOLEAN, NEW changed \in BOOLEAN,
         bm' \in Managers, bm'.maturity = dec.maturity,
         bm'.pipelineLast = Entered(outcome).pipelineLast,
         pass' \in Histories,
         pass'.runs = Noted(outcome).runs, pass'.fired = Noted(outcome).fired,
         \/ pass'.failed = Noted(outcome).failed
         \/ pass'.failed = TRUE /\ Suppressed(bm'),
         Called(blk, changed), form' \in [Nodes -> Forms], UNCHANGED <<im, scope>>
  PROVE  IInv' /\ QuietStep
<1> USE DEF IInv
<1>1. dec.func # NoFunc /\ CalledFor(blk)
  BY DEF Running, CalledFor
<1>2. ~Noted(outcome).fired /\ ~Noted(outcome).failed
  BY RunningClean
<1>3. Typed'
  BY <1>1, CalledFacts DEF Typed
<1>4. Shut'
  BY <1>2 DEF Shut, Suppressed
<1>5. Once'
  BY <1>1, CalledFacts, CallbackOnce
<1>6. QuietStep
  <2> SUFFICES ASSUME pass.failed, dec.func # NoFunc, bm'.maturity = bm.maturity
               PROVE  FALSE
    BY DEF QuietStep
  <2>1. Suppressed(bm) /\ bm.maturity = dec.maturity
    BY DEF Shut
  <2>2. Suppressed(Entered(outcome))
    BY <1>1, <2>1, EnteredFacts
  <2>3. Suppressed(CountPass(Entered(outcome), dec.func))
    BY <1>1, <2>2, CountedFacts
  <2> QED BY <2>3 DEF Running
<1> QED BY <1>3, <1>4, <1>5, <1>6

LEMMA NoPatchKeeps ==
  ASSUME IInv, NEW blk \in Blocks, NoPatch(blk)
  PROVE  IInv' /\ QuietStep
<1>1. PICK outcome \in Outcomes, raises \in BOOLEAN :
        /\ Running(blk, outcome)
        /\ bm' = RunRules(outcome, NoRule, raises).manager
        /\ pass' = Witnessed(outcome, RunRules(outcome, NoRule, raises))
        /\ Called(blk, FALSE)
        /\ UNCHANGED <<im, form, scope>>
  BY Zenon DEF NoPatch
<1>2. /\ bm' \in Managers /\ bm'.maturity = dec.maturity
      /\ bm'.pipelineLast = Entered(outcome).pipelineLast
  BY <1>1, RunRulesFacts DEF IInv
<1>3. /\ pass' \in Histories /\ pass'.runs = Noted(outcome).runs
      /\ pass'.failed = Noted(outcome).failed /\ pass'.fired = Noted(outcome).fired
  BY <1>1, WitnessedFacts DEF IInv
<1>4. form' \in [Nodes -> Forms]
  BY <1>1 DEF IInv, Typed
<1> QED BY <1>1, <1>2, <1>3, <1>4, RunKeeps

LEMMA PatchKeeps ==
  ASSUME IInv, NEW blk \in Blocks, Patch(blk)
  PROVE  IInv' /\ QuietStep
<1>1. PICK outcome \in Outcomes, r \in Active[dec.func][dec.maturity], raises \in BOOLEAN :
        /\ Running(blk, outcome)
        /\ bm' = Patched(RunRules(outcome, r, raises).manager)
        /\ pass' = Witnessed(outcome, RunRules(outcome, r, raises))
        /\ Called(blk, TRUE)
        /\ \/ UNCHANGED form
           \/ \E n \in Nodes, x \in Forms : form' = [form EXCEPT ![n] = x]
        /\ UNCHANGED <<im, scope>>
  BY Zenon DEF Patch
<1>2. /\ bm' \in Managers /\ bm'.maturity = dec.maturity
      /\ bm'.pipelineLast = Entered(outcome).pipelineLast
  BY <1>1, RunRulesFacts, PatchedKeeps DEF IInv, Kept
<1>3. /\ pass' \in Histories /\ pass'.runs = Noted(outcome).runs
      /\ pass'.failed = Noted(outcome).failed /\ pass'.fired = Noted(outcome).fired
  BY <1>1, WitnessedFacts DEF IInv
<1>4. form' \in [Nodes -> Forms]
  BY <1>1 DEF IInv, Typed
<1> QED BY <1>1, <1>2, <1>3, <1>4, RunKeeps

LEMMA RuleFailsKeeps ==
  ASSUME IInv, NEW blk \in Blocks, RuleFails(blk)
  PROVE  IInv' /\ QuietStep
<1>1. PICK outcome \in Outcomes, r \in Active[dec.func][dec.maturity],
           raises \in BOOLEAN, changed \in BOOLEAN :
        /\ Running(blk, outcome)
        /\ bm' = Failed(RunRules(outcome, r, raises).manager, changed)
        /\ pass' = [Witnessed(outcome, RunRules(outcome, r, raises)) EXCEPT !.failed = TRUE]
        /\ Called(blk, FALSE)
        /\ UNCHANGED <<im, form, scope>>
  BY Zenon DEF RuleFails
<1>2. /\ bm' \in Managers /\ bm'.maturity = dec.maturity
      /\ bm'.pipelineLast = Entered(outcome).pipelineLast /\ Suppressed(bm')
  BY <1>1, RunRulesFacts, FailedFacts DEF IInv
<1> DEFINE w == Witnessed(outcome, RunRules(outcome, r, raises))
<1>3. /\ w \in Histories /\ w.runs = Noted(outcome).runs
      /\ w.fired = Noted(outcome).fired
  BY <1>1, WitnessedFacts DEF IInv
<1> HIDE DEF w
<1>4. /\ pass' \in Histories /\ pass'.runs = Noted(outcome).runs
      /\ pass'.fired = Noted(outcome).fired /\ pass'.failed = TRUE
  BY <1>1, <1>3 DEF Histories, w
<1>5. form' \in [Nodes -> Forms]
  BY <1>1 DEF IInv, Typed
<1> QED BY <1>1, <1>2, <1>4, <1>5, RunKeeps

(* An exception leaves func: the pass is over with the callback.            *)
LEMMA RuleEscapesKeeps ==
  ASSUME IInv, NEW blk \in Blocks, RuleEscapes(blk)
  PROVE  IInv' /\ QuietStep
<1>1. PICK outcome \in Outcomes, r \in Active[dec.func][dec.maturity], raises \in BOOLEAN :
        /\ Running(blk, outcome)
        /\ bm' = GraphChanged(RunRules(outcome, r, raises).manager)
        /\ pass' = [Witnessed(outcome, RunRules(outcome, r, raises)) EXCEPT !.abandoned = TRUE]
        /\ dec' = Idle
        /\ UNCHANGED <<im, form, scope>>
  BY Zenon DEF RuleEscapes
<1>2. bm' \in Managers /\ bm'.maturity = dec.maturity
  BY <1>1, RunRulesFacts, GraphChangedKeeps DEF IInv, Kept
<1> DEFINE w == Witnessed(outcome, RunRules(outcome, r, raises))
<1>3. /\ w \in Histories /\ w.runs = Noted(outcome).runs
      /\ w.fired = Noted(outcome).fired /\ w.failed = Noted(outcome).failed
  BY <1>1, WitnessedFacts DEF IInv
<1> HIDE DEF w
<1>4. /\ pass' \in Histories /\ pass'.runs = Noted(outcome).runs
      /\ ~pass'.fired /\ ~pass'.failed
  BY <1>1, <1>3, RunningClean DEF Histories, w, IInv
<1>5. Typed'
  BY <1>1, <1>2, <1>4 DEF IInv, Typed, Idle, Decompilers
<1>6. Shut'
  BY <1>4 DEF Shut
<1>7. Once'
  <2>1. dec.func # NoFunc
    BY <1>1 DEF Running, CalledFor
  <2>2. pass'.runs <= 1
    <3>1. CASE Due
      BY <2>1, <1>4, <3>1, DueMeaning, NotedFacts DEF IInv, Once
    <3>2. CASE ~Due
      BY <1>4, <3>2, NotedFacts DEF IInv, Once
    <3> QED BY <3>1, <3>2
  <2> QED BY <1>1, <2>2 DEF Once, Idle
<1>8. QuietStep
  <2> SUFFICES ASSUME pass.failed, dec.func # NoFunc, bm'.maturity = bm.maturity
               PROVE  FALSE
    BY DEF QuietStep
  <2>1. Suppressed(bm) /\ bm.maturity = dec.maturity
    BY <1>2 DEF IInv, Shut
  <2>2. Suppressed(CountPass(Entered(outcome), dec.func))
    BY <2>1, EnteredFacts, CountedFacts DEF IInv
  <2> QED BY <1>1, <2>2 DEF Running
<1> QED BY <1>5, <1>6, <1>7, <1>8 DEF IInv

-------------------------------------------------------------------------------
(* One callback for an instruction.                                         *)

(* The node accepted is one of those visited: the first index is a minimum. *)
LEMMA LeastIndex ==
  ASSUME NEW S \in SUBSET Nat, S # {}
  PROVE  Min(S) \in S
<1>1. PICK x \in S : \A y \in S : ~(<<y, x>> \in OpToRel(<, Nat))
  BY NatLessThanWellFounded, WFMin
<1>2. \A y \in S : ~(y < x)
  BY <1>1, Zenon DEF OpToRel
<1>3. \A y \in S : x =< y
  BY <1>2
<1> QED BY <1>3 DEF Min

LEMMA AcceptedIsVisited ==
  ASSUME NEW m, NEW n \in Nodes, NEW proposal, form \in [Nodes -> Forms],
         proposal \in Proposals(form, n),
         NEW i, i = FirstAccepted(m, form, n, proposal), i # 0
  PROVE  Visited(n)[i] \in Nodes /\ proposal[Visited(n)[i]] \in Forms
<1> DEFINE seq == Visited(n)
           I == {j \in 1..Len(seq) : Accepts(m, form, seq[j], proposal[seq[j]])}
<1>1. seq \in Seq(Nodes)
  BY InstructionOptimizerConstants DEF Visited
<1>2. i = IF I # {} THEN Min(I) ELSE 0
  BY DEF FirstAccepted, SelectInSeq
<1>3. I \in SUBSET Nat
  BY <1>1
<1> HIDE DEF seq
<1>4. i \in I
  BY <1>2, <1>3, LeastIndex
<1>5. seq[i] \in Nodes /\ proposal[seq[i]] # NoForm
  BY <1>1, <1>4 DEF Accepts
<1>6. seq[i] \in ToSet(seq)
  BY <1>1, <1>4 DEF ToSet
<1>7. proposal[seq[i]] \in Rewrites[form[seq[i]]] \cup {NoForm}
  BY <1>6 DEF Proposals, seq
<1> QED BY <1>5, <1>7, InstructionOptimizerConstants DEF seq

LEMMA AskedType ==
  ASSUME Typed, dec.func # NoFunc
  PROVE  LET asked == ResolveNames(EnterInsnMaturity(im, dec.maturity),
                                   dec.func, scope[dec.func])
         IN /\ asked \in InsnManagers
            /\ asked.names[dec.maturity] \in Answers \cup {NoAnswer}
<1> DEFINE at == EnterInsnMaturity(im, dec.maturity)
           mine == IF at.func = dec.func THEN at
                   ELSE [at EXCEPT !.func = dec.func, !.names = [x \in DOMAIN @ |-> NoAnswer]]
<1>1. /\ dec.func \in Funcs /\ dec.maturity \in Maturities /\ im \in InsnManagers
      /\ scope[dec.func] \in Answers
  BY DEF Typed, Decompilers
<1>2. at \in InsnManagers /\ at.maturity = dec.maturity
  BY <1>1 DEF EnterInsnMaturity, ResetCycleDetection, NewSeen, InsnManagers
<1> HIDE DEF at
<1>3. mine \in InsnManagers /\ mine.maturity = dec.maturity
  BY <1>1, <1>2 DEF InsnManagers
<1>4. ResolveNames(at, dec.func, scope[dec.func])
        = IF mine.names[dec.maturity] # NoAnswer THEN mine
          ELSE [mine EXCEPT !.names[dec.maturity] = scope[dec.func]]
  BY <1>2 DEF ResolveNames
<1> HIDE DEF mine
<1> QED BY <1>1, <1>3, <1>4 DEF InsnManagers, at

(* A callback that leaves the block manager and the first block of the      *)
(* maturity alone leaves Shut and Once alone.                               *)
LEMMA InsnCallbackKeeps ==
  ASSUME IInv, NEW n \in Top, InsnCallback(n)
  PROVE  IInv' /\ QuietStep
<1> USE DEF IInv
<1> DEFINE asked == ResolveNames(EnterInsnMaturity(im, dec.maturity),
                                 dec.func, scope[dec.func])
           used == asked.names[dec.maturity]
<1>1. dec.func # NoFunc
  BY DEF InsnCallback
<1>2. PICK proposal \in Proposals(form, n), verifies \in BOOLEAN :
        LET i == IF used = NoRules THEN 0 ELSE FirstAccepted(asked, form, n, proposal)
            x == Visited(n)[i]
        IN \/ /\ i = 0
              /\ im' = asked
              /\ Called(n, FALSE)
              /\ UNCHANGED form
           \/ /\ i # 0
              /\ im' = Remember(asked, x, proposal[x])
              /\ form' = [form EXCEPT ![x] = proposal[x]]
              /\ Called(n, verifies)
  BY Zenon DEF InsnCallback
<1>3. /\ pass' = [pass EXCEPT !.used = used, !.ran = {}, !.saw = "none"]
      /\ UNCHANGED <<bm, scope>>
  BY Zenon DEF InsnCallback
<1>4. asked \in InsnManagers /\ used \in Answers \cup {NoAnswer}
  BY <1>1, AskedType
<1>5. n \in Nodes /\ form \in [Nodes -> Forms]
  BY DEF Top, Typed
<1> HIDE DEF asked, used
<1>6. /\ im' \in InsnManagers /\ form' \in [Nodes -> Forms]
      /\ \E changed \in BOOLEAN : Called(n, changed)
  <2> DEFINE i == IF used = NoRules THEN 0 ELSE FirstAccepted(asked, form, n, proposal)
             x == Visited(n)[i]
  <2>1. CASE i = 0
    <3>1. im' = asked /\ Called(n, FALSE) /\ form' = form
      BY <1>2, <2>1
    <3> QED BY <1>4, <1>5, <3>1
  <2>2. CASE i # 0
    <3>1. /\ im' = Remember(asked, x, proposal[x])
          /\ form' = [form EXCEPT ![x] = proposal[x]]
          /\ Called(n, verifies)
      BY <1>2, <2>2
    <3>2. i = FirstAccepted(asked, form, n, proposal)
      BY <2>2
    <3> HIDE DEF i
    <3>3. x \in Nodes /\ proposal[x] \in Forms
      BY <1>5, <2>2, <3>2, AcceptedIsVisited
    <3> HIDE DEF x
    <3>4. AddressOf[x] \in Addresses
      BY <3>3, InstructionOptimizerConstants
    <3>5. Remember(asked, x, proposal[x]) \in InsnManagers
      BY <1>4, <3>3, <3>4 DEF Remember, InsnManagers
    <3> QED BY <1>5, <3>1, <3>3, <3>5
  <2> QED BY <2>1, <2>2
<1>7. /\ dec' \in Decompilers /\ dec'.func = dec.func /\ dec'.maturity = dec.maturity
      /\ dec'.todo = dec.todo \ {n}
      /\ dec'.func # NoFunc /\ dec'.maturity \in Maturities
  BY <1>1, <1>6, CalledFacts
<1>8. pass \in Histories
  BY DEF Typed
<1>9. /\ pass' \in Histories /\ pass'.ran = {}
      /\ pass'.runs = pass.runs /\ pass'.fired = pass.fired /\ pass'.failed = pass.failed
  BY <1>3, <1>4, <1>8 DEF Histories, Facts
<1>10. Typed'
  BY <1>3, <1>6, <1>7, <1>9 DEF Typed
<1>11. Shut'
  BY <1>3, <1>9 DEF Shut, Suppressed
<1>12. Blocks \subseteq dec.todo => Blocks \subseteq dec'.todo
  BY <1>5, <1>7, DecompilationConstants
<1>13. Once'
  BY <1>1, <1>3, <1>7, <1>9, <1>12 DEF Once, PipelinePassed
<1> QED BY <1>9, <1>10, <1>11, <1>13 DEF QuietStep

-------------------------------------------------------------------------------
(* The decompiler's own steps, and the user's.                              *)

LEMMA RoundEndsKeeps ==
  ASSUME IInv, RoundEnds
  PROVE  IInv' /\ QuietStep
<1> USE DEF IInv
<1>1. /\ dec.func # NoFunc /\ dec.todo = {}
      /\ UNCHANGED <<im, scope>>
  BY DEF RoundEnds
<1>2. /\ dec \in Decompilers /\ pass \in Histories /\ dec.maturity \in Maturities
      /\ dec.maturity \in Nat /\ LastMaturity \in Nat
  BY <1>1, MaturityFacts DEF Typed
<1> DEFINE quiet == [pass EXCEPT !.ran = {}, !.saw = "none"]
<1>3. /\ quiet \in Histories /\ quiet.ran = {} /\ quiet.runs = pass.runs
      /\ quiet.failed = pass.failed /\ quiet.fired = pass.fired
  BY <1>2 DEF Histories, Facts
<1> HIDE DEF quiet
<1>4. CASE /\ dec.dirty
           /\ dec' = [dec EXCEPT !.todo = Callbacks, !.dirty = FALSE]
           /\ pass' = [pass EXCEPT !.ran = {}, !.saw = "none"]
           /\ UNCHANGED <<bm, form>>
  <2>1. /\ dec' \in Decompilers /\ dec'.func = dec.func /\ dec'.maturity = dec.maturity
    BY <1>2, <1>4 DEF Decompilers
  <2>2. pass' = quiet
    BY <1>4 DEF quiet
  <2>3. Typed'
    BY <1>1, <1>2, <1>3, <1>4, <2>1, <2>2 DEF Typed
  <2>4. Shut'
    BY <1>3, <1>4, <2>2 DEF Shut, Suppressed
  <2>5. Blocks \subseteq dec'.todo
    BY <1>2, <1>4 DEF Callbacks, Decompilers
  <2>6. Once'
    BY <1>1, <1>3, <1>4, <2>1, <2>2, <2>5 DEF Once, PipelinePassed
  <2> QED BY <1>3, <2>2, <2>3, <2>4, <2>6 DEF QuietStep
<1>5. CASE /\ ~dec.dirty /\ dec.maturity < LastMaturity
           /\ dec' = [dec EXCEPT !.maturity = @ + 1, !.todo = Callbacks]
           /\ bm' = GraphChanged(bm)
           /\ pass' = [pass EXCEPT !.ran = {}, !.saw = "none"]
           /\ UNCHANGED form
  <2>1. dec.maturity + 1 \in Maturities
    BY <1>2, <1>5 DEF Maturities
  <2>2. /\ dec' \in Decompilers /\ dec'.func = dec.func /\ dec'.maturity = dec.maturity + 1
        /\ dec'.todo = Callbacks
    BY <1>2, <1>5, <2>1 DEF Decompilers
  <2>3. bm' \in Managers /\ Kept(bm', bm)
    BY <1>5, GraphChangedKeeps DEF Typed
  <2>4. pass' = quiet
    BY <1>5 DEF quiet
  <2>5. Typed'
    BY <1>1, <1>3, <1>5, <2>1, <2>2, <2>3, <2>4 DEF Typed
  <2>6. Shut'
    BY <1>3, <2>3, <2>4 DEF Shut, Suppressed, Kept
  <2>7. Once'
    <3>1. Blocks \subseteq dec'.todo
      BY <2>2 DEF Callbacks
    <3>2. bm.maturity = dec.maturity
      BY <1>1, DecompilationConstants DEF Once
    <3>3. PipelinePassed' => PipelinePassed
      <4>1. bm'.maturity = dec.maturity /\ dec'.maturity = dec.maturity + 1
        BY <2>2, <2>3, <3>2 DEF Kept
      <4> QED BY <1>2, <3>2, <4>1, MaturityFacts DEF PipelinePassed
    <3> QED BY <1>1, <1>3, <2>2, <2>3, <2>4, <3>1, <3>3 DEF Once, Kept
  <2> QED BY <1>3, <2>4, <2>5, <2>6, <2>7 DEF QuietStep
<1>6. CASE /\ dec' = Idle
           /\ form' \in [Nodes -> Forms]
           /\ pass' = NewPass
           /\ UNCHANGED bm
  <2>1. pass' \in Histories /\ ~pass'.fired /\ ~pass'.failed /\ pass'.runs = 0 /\ pass'.ran = {}
    BY <1>6 DEF NewPass, Histories, Facts
  <2>2. Typed'
    BY <1>1, <1>6, <2>1 DEF Typed, Idle, Decompilers
  <2> QED BY <1>6, <2>1, <2>2 DEF Shut, Once, Idle, QuietStep
<1> QED BY <1>4, <1>5, <1>6 DEF RoundEnds

LEMMA AbandonKeeps ==
  ASSUME IInv, Abandon
  PROVE  IInv' /\ QuietStep
<1>1. /\ pass' \in Histories /\ ~pass'.fired /\ ~pass'.failed
      /\ pass'.runs = 0 /\ pass'.ran = {}
  BY DEF Abandon, NewPass, Histories, Facts
<1>2. dec' = Idle /\ UNCHANGED <<bm, im, form, scope>>
  BY DEF Abandon
<1>3. Typed'
  BY <1>1, <1>2 DEF IInv, Typed, Idle, Decompilers
<1> QED BY <1>1, <1>2, <1>3 DEF IInv, Shut, Once, Idle, QuietStep

LEMMA BeginKeeps ==
  ASSUME IInv, NEW f \in Funcs, Begin(f)
  PROVE  IInv' /\ QuietStep
<1> USE DEF IInv
<1>1. /\ dec = Idle
      /\ dec' = [func |-> f, maturity |-> 1, todo |-> Callbacks, dirty |-> FALSE]
      /\ bm' = GraphChanged(OnStarted(bm))
      /\ im' = ResetCycleDetection(im)
      /\ pass' = [NewPass EXCEPT !.abandoned = pass.abandoned]
      /\ UNCHANGED <<form, scope>>
  BY DEF Begin
<1>2. /\ bm' \in Managers /\ bm'.pipelineLast = Never
  BY <1>1, OnStartedFacts, GraphChangedKeeps DEF Typed, Kept
<1>3. /\ pass' \in Histories /\ ~pass'.fired /\ ~pass'.failed
      /\ pass'.runs = 0 /\ pass'.ran = {}
  BY <1>1 DEF Typed, NewPass, Histories, Facts
<1>4. im' \in InsnManagers
  BY <1>1 DEF Typed, InsnManagers, ResetCycleDetection, NewSeen
<1>5. /\ dec' \in Decompilers /\ dec'.func # NoFunc
      /\ dec'.maturity = 1 /\ dec'.maturity \in Maturities /\ dec'.todo = Callbacks
  BY <1>1, MaturityFacts, BlockOptimizerConstants DEF Decompilers
<1>6. Typed'
  BY <1>1, <1>2, <1>3, <1>4, <1>5 DEF Typed
<1>7. Blocks \subseteq dec'.todo /\ (PipelineComesLater => ~PipelinePassed')
  BY <1>5, BlockOptimizerConstants DEF PipelinePassed, PipelineComesLater, Callbacks, Maturities
<1> QED BY <1>1, <1>2, <1>3, <1>6, <1>7 DEF Shut, Once, QuietStep, Idle

LEMMA EditScopeKeeps ==
  ASSUME IInv, NEW f \in Funcs, EditScope(f)
  PROVE  IInv' /\ QuietStep
<1>1. /\ dec = Idle /\ UNCHANGED <<bm, im, form, dec, pass>>
      /\ \E answer \in Answers \ {scope[f]} : scope' = [scope EXCEPT ![f] = answer]
  BY DEF EditScope
<1>2. scope' \in [Funcs -> Answers]
  BY <1>1 DEF IInv, Typed
<1>3. Typed'
  BY <1>1, <1>2 DEF IInv, Typed
<1> QED BY <1>1, <1>3 DEF IInv, Shut, Once, PipelinePassed, Suppressed, QuietStep, Idle

-------------------------------------------------------------------------------
LEMMA InitHolds == Init => IInv
<1> SUFFICES ASSUME Init PROVE IInv
  OBVIOUS
<1>1. bm \in Managers
  BY BlockOptimizerConstants DEF Init, NewManager, Managers, NoContext, Facts
<1>2. im \in InsnManagers
  BY DEF Init, NewInstructionManager, InsnManagers, NewSeen
<1>3. pass \in Histories /\ ~pass.fired /\ ~pass.failed /\ pass.runs = 0
  BY DEF Init, NewPass, Histories, Facts
<1>4. Typed
  BY <1>1, <1>2, <1>3 DEF Init, Typed, Idle, Decompilers
<1> QED BY <1>3, <1>4 DEF Init, IInv, Shut, Once, Idle

(* Every step keeps the invariant, and none runs a rule after a failure.    *)
LEMMA StepKeeps == IInv /\ [Next]_vars => IInv' /\ [QuietStep]_vars
<1> SUFFICES ASSUME IInv, [Next]_vars PROVE IInv' /\ [QuietStep]_vars
  OBVIOUS
<1>1. ASSUME NEW blk \in Blocks, BlockCallback(blk)
      PROVE  IInv' /\ QuietStep
  BY <1>1, SkipBlockKeeps, NoPatchKeeps, PatchKeeps, RuleFailsKeeps, RuleEscapesKeeps
  DEF BlockCallback
<1>2. CASE DecompilerStep
  BY <1>1, <1>2, InsnCallbackKeeps, RoundEndsKeeps DEF DecompilerStep
<1>3. CASE Abandon
  BY <1>3, AbandonKeeps
<1>4. CASE \E f \in Funcs : Begin(f) \/ EditScope(f)
  BY <1>4, BeginKeeps, EditScopeKeeps
<1>5. CASE UNCHANGED vars
  <2>1. IInv'
    BY <1>5 DEF vars, IInv, Typed, Shut, Once, PipelinePassed, Suppressed
  <2> QED BY <1>5, <2>1
<1> QED BY <1>2, <1>3, <1>4, <1>5 DEF Next

(* The inductive invariant holds of every behaviour of the specification.   *)
THEOREM GuardsHold == Spec => []IInv
<1>1. IInv /\ [Next]_vars => IInv'
  BY StepKeeps
<1> QED BY InitHolds, <1>1, PTL DEF Spec

(* Every state of a decompilation has its type, for any rules and program.  *)
THEOREM TypeCorrect == Spec => []TypeOK
<1>1. IInv => TypeOK
  BY DEF IInv, Typed, TypeOK, InsnManagers, Decompilers
<1> QED BY <1>1, GuardsHold, PTL

(* The pipeline runs at most once in a pass, and has run in every pass that *)
(* got to a block of its maturity, when that is not the first of a pass     *)
(* (log_info_on_input, and the tracker that STARTED resets).                *)
THEOREM PipelineOnceAlways ==
  ASSUME PipelineComesLater
  PROVE  Spec => []PipelineOnce
<1>1. IInv => PipelineOnce
  <2> SUFFICES ASSUME IInv PROVE PipelineOnce
    OBVIOUS
  <2>1. dec.func = NoFunc => ~(dec.maturity > PipelineMaturity \/ dec.maturity = PipelineMaturity)
    BY BlockOptimizerConstants DEF IInv, Typed, Idle, Never, Maturities
  <2> QED BY <2>1 DEF IInv, Once, PipelinePassed, PipelineOnce
<1> QED BY <1>1, GuardsHold, PTL

(* Once the pipeline has changed the graph no rule runs at its maturity     *)
(* (the flag _pipeline_just_fired that func reads).                         *)
THEOREM RulesOffAlways == Spec => []RulesOffAfterPipeline
<1>1. IInv => RulesOffAfterPipeline
  BY DEF IInv, Shut, RulesOffAfterPipeline
<1> QED BY <1>1, GuardsHold, PTL

(* After a rule has failed no rule runs again at that maturity of the pass  *)
(* (the counter that the handler of the exception sets past its limit).     *)
THEOREM QuietAfterFailureAlways == Spec => QuietAfterFailure
<1>1. IInv /\ [Next]_vars => [QuietStep]_vars
  BY StepKeeps
<1>2. [QuietStep]_vars =>
        [(pass.failed /\ dec.func # NoFunc /\ bm'.maturity = bm.maturity) => pass'.ran = {}]_vars
  BY DEF QuietStep
<1> QED BY <1>1, <1>2, GuardsHold, PTL DEF Spec, QuietAfterFailure

-------------------------------------------------------------------------------
(* The memo of the rule names.  Nothing drops it between two passes but the  *)
(* first instruction of the next one, because that one is at another         *)
(* maturity than the last of the pass before: with one maturity only the     *)
(* names of the pass before would be used again, whatever was edited since.  *)

SeveralMaturities == LastMaturity > 1

(* The manager has been at the maturity of the pass as soon as one           *)
(* instruction has been visited; a pass that came to its end leaves it at    *)
(* the last one; and what the memo holds for the function and maturity of a  *)
(* pass is what the scope answers, or nothing.                               *)
NamesKept ==
  /\ dec.func # NoFunc => Top \subseteq dec.todo \/ im.maturity = dec.maturity
  /\ dec.func = NoFunc /\ ~pass.abandoned =>
       /\ pass.used = NoAnswer
       /\ Top # {} => im.maturity \in {Never, LastMaturity}
  /\ Top # {} /\ dec.func # NoFunc /\ ~pass.abandoned /\
     im.maturity = dec.maturity /\ im.func = dec.func =>
       im.names[dec.maturity] \in {NoAnswer, scope[dec.func]}
  /\ NamesAreCurrent

(* The names a callback for an instruction uses.                             *)
LEMMA AskedFacts ==
  ASSUME Typed, dec.func # NoFunc
  PROVE  LET asked == ResolveNames(EnterInsnMaturity(im, dec.maturity),
                                   dec.func, scope[dec.func])
         IN /\ asked.maturity = dec.maturity /\ asked.func = dec.func
            /\ asked.names[dec.maturity] = scope[dec.func]
                 \/ /\ im.maturity = dec.maturity /\ im.func = dec.func
                    /\ im.names[dec.maturity] # NoAnswer
                    /\ asked.names[dec.maturity] = im.names[dec.maturity]
<1> DEFINE at == EnterInsnMaturity(im, dec.maturity)
           mine == IF at.func = dec.func THEN at
                   ELSE [at EXCEPT !.func = dec.func, !.names = [x \in DOMAIN @ |-> NoAnswer]]
           asked == ResolveNames(at, dec.func, scope[dec.func])
<1>1. /\ dec.func \in Funcs /\ dec.maturity \in Maturities /\ im \in InsnManagers
      /\ scope[dec.func] \in Answers
  BY DEF Typed, Decompilers
<1>2. /\ at \in InsnManagers /\ at.maturity = dec.maturity /\ at.func = im.func
      /\ im.maturity = dec.maturity => at = im
      /\ im.maturity # dec.maturity => at.names[dec.maturity] = NoAnswer
  BY <1>1 DEF EnterInsnMaturity, ResetCycleDetection, NewSeen, InsnManagers
<1> HIDE DEF at
<1>3. /\ mine \in InsnManagers /\ mine.maturity = dec.maturity /\ mine.func = dec.func
      /\ im.func = dec.func => mine = at
      /\ im.func # dec.func => mine.names[dec.maturity] = NoAnswer
  BY <1>1, <1>2 DEF InsnManagers
<1>4. asked = IF mine.names[dec.maturity] # NoAnswer THEN mine
              ELSE [mine EXCEPT !.names[dec.maturity] = scope[dec.func]]
  BY <1>2 DEF ResolveNames
<1> HIDE DEF mine
<1>5. /\ asked.maturity = dec.maturity /\ asked.func = dec.func
      /\ mine.names[dec.maturity] # NoAnswer =>
           asked.names[dec.maturity] = mine.names[dec.maturity]
      /\ mine.names[dec.maturity] = NoAnswer =>
           asked.names[dec.maturity] = scope[dec.func]
  BY <1>1, <1>3, <1>4 DEF InsnManagers
<1> HIDE DEF asked
<1>6. asked.names[dec.maturity] = scope[dec.func]
        \/ /\ im.maturity = dec.maturity /\ im.func = dec.func
           /\ im.names[dec.maturity] # NoAnswer
           /\ asked.names[dec.maturity] = im.names[dec.maturity]
  BY <1>2, <1>3, <1>5
<1> QED BY <1>5, <1>6 DEF asked, at

(* A callback for a block is no matter of the names.                         *)
LEMMA BlockKeepsNames ==
  ASSUME Typed, NamesKept, NEW blk \in Blocks, NEW changed \in BOOLEAN,
         dec.func # NoFunc, Called(blk, changed), UNCHANGED <<im, scope>>,
         pass'.used = pass.used, pass'.abandoned = pass.abandoned
  PROVE  NamesKept'
<1>1. /\ dec'.func = dec.func /\ dec'.maturity = dec.maturity
      /\ dec'.todo = dec.todo \ {blk}
  BY CalledFacts
<1>2. blk \notin Top
  BY DecompilationConstants DEF Top
<1>3. Top' = Top
  BY DEF Top
<1> QED BY <1>1, <1>2, <1>3 DEF NamesKept, NamesAreCurrent

LEMMA HistoryOfNames ==
  ASSUME Typed, NEW outcome
  PROVE  /\ Noted(outcome).used = pass.used
         /\ Noted(outcome).abandoned = pass.abandoned
         /\ \A run : /\ Witnessed(outcome, run).used = pass.used
                     /\ Witnessed(outcome, run).abandoned = pass.abandoned
<1>1. Noted(outcome) \in Histories
  BY NotedFacts
<1>2. Noted(outcome).used = pass.used /\ Noted(outcome).abandoned = pass.abandoned
  <2> DEFINE here == IF bm.maturity = dec.maturity THEN pass
                     ELSE [pass EXCEPT !.failed = FALSE, !.fired = FALSE]
  <2>1. here \in Histories /\ here.used = pass.used /\ here.abandoned = pass.abandoned
    BY DEF Typed, Histories
  <2>2. PICK runs, fired : Noted(outcome) =
          [here EXCEPT !.runs = runs, !.fired = fired, !.ran = {}, !.saw = "none"]
    BY DEF Noted
  <2> HIDE DEF here
  <2> QED BY <2>1, <2>2 DEF Histories
<1>3. ASSUME NEW run
      PROVE  /\ Witnessed(outcome, run).used = Noted(outcome).used
             /\ Witnessed(outcome, run).abandoned = Noted(outcome).abandoned
  <2> DEFINE h == Noted(outcome)
  <2>1. PICK saw : Witnessed(outcome, run) = [h EXCEPT !.ran = run.ran, !.saw = saw]
    BY DEF Witnessed
  <2>2. h \in Histories
    BY <1>1
  <2> HIDE DEF h
  <2>3. /\ Witnessed(outcome, run).used = h.used
        /\ Witnessed(outcome, run).abandoned = h.abandoned
    BY <2>1, <2>2 DEF Histories
  <2> QED BY <2>3 DEF h
<1> QED BY <1>2, <1>3

LEMMA BlocksKeepNames ==
  ASSUME Typed, NamesKept, NEW blk \in Blocks, BlockCallback(blk)
  PROVE  NamesKept'
<1>1. CASE SkipBlock(blk)
  <2>1. PICK outcome : pass' = Noted(outcome)
    BY <1>1 DEF SkipBlock
  <2>2. dec.func # NoFunc /\ Called(blk, FALSE) /\ UNCHANGED <<im, scope>>
    BY <1>1 DEF SkipBlock, CalledFor
  <2> QED BY <2>1, <2>2, HistoryOfNames, BlockKeepsNames
<1>2. CASE NoPatch(blk)
  <2>1. PICK outcome, run : pass' = Witnessed(outcome, run)
    BY <1>2 DEF NoPatch
  <2>2. dec.func # NoFunc /\ Called(blk, FALSE) /\ UNCHANGED <<im, scope>>
    BY <1>2 DEF NoPatch, Running, CalledFor
  <2> QED BY <2>1, <2>2, HistoryOfNames, BlockKeepsNames
<1>3. CASE Patch(blk)
  <2>1. PICK outcome, run : pass' = Witnessed(outcome, run)
    BY <1>3 DEF Patch
  <2>2. dec.func # NoFunc /\ Called(blk, TRUE) /\ UNCHANGED <<im, scope>>
    BY <1>3 DEF Patch, Running, CalledFor
  <2> QED BY <2>1, <2>2, HistoryOfNames, BlockKeepsNames
<1>4. CASE RuleFails(blk)
  <2>1. PICK outcome, run : pass' = [Witnessed(outcome, run) EXCEPT !.failed = TRUE]
    BY <1>4 DEF RuleFails
  <2>2. pass'.used = pass.used /\ pass'.abandoned = pass.abandoned
    <3>1. PICK saw, ran : Witnessed(outcome, run) = [Noted(outcome) EXCEPT !.ran = ran, !.saw = saw]
      BY DEF Witnessed
    <3>2. Noted(outcome) \in Histories
      BY NotedFacts
    <3>3. pass' = [Noted(outcome) EXCEPT !.ran = ran, !.saw = saw, !.failed = TRUE]
      BY <2>1, <3>1, <3>2 DEF Histories
    <3>4. pass'.used = Noted(outcome).used /\ pass'.abandoned = Noted(outcome).abandoned
      BY <3>2, <3>3 DEF Histories
    <3> QED BY <3>4, HistoryOfNames
  <2>3. dec.func # NoFunc /\ Called(blk, FALSE) /\ UNCHANGED <<im, scope>>
    BY <1>4 DEF RuleFails, Running, CalledFor
  <2> QED BY <2>2, <2>3, BlockKeepsNames
<1>5. CASE RuleEscapes(blk)
  <2>1. PICK outcome, run : pass' = [Witnessed(outcome, run) EXCEPT !.abandoned = TRUE]
    BY <1>5 DEF RuleEscapes
  <2>2. pass'.abandoned = TRUE
    <3>1. PICK saw, ran : Witnessed(outcome, run) = [Noted(outcome) EXCEPT !.ran = ran, !.saw = saw]
      BY DEF Witnessed
    <3>2. Noted(outcome) \in Histories
      BY NotedFacts
    <3>3. pass' = [Noted(outcome) EXCEPT !.ran = ran, !.saw = saw, !.abandoned = TRUE]
      BY <2>1, <3>1, <3>2 DEF Histories
    <3> QED BY <3>2, <3>3 DEF Histories
  <2>3. dec' = Idle
    BY <1>5 DEF RuleEscapes
  <2> QED BY <2>2, <2>3 DEF NamesKept, NamesAreCurrent, Idle
<1> QED BY <1>1, <1>2, <1>3, <1>4, <1>5 DEF BlockCallback

LEMMA InsnKeepsNames ==
  ASSUME Typed, NamesKept, NEW n \in Top, InsnCallback(n)
  PROVE  NamesKept'
<1> DEFINE asked == ResolveNames(EnterInsnMaturity(im, dec.maturity),
                                 dec.func, scope[dec.func])
           used == asked.names[dec.maturity]
<1>1. dec.func # NoFunc /\ dec.maturity \in Maturities
  BY DEF InsnCallback, Typed
<1>2. /\ asked.maturity = dec.maturity /\ asked.func = dec.func
      /\ used = scope[dec.func]
           \/ /\ im.maturity = dec.maturity /\ im.func = dec.func
              /\ im.names[dec.maturity] # NoAnswer
              /\ used = im.names[dec.maturity]
  BY <1>1, AskedFacts
<1>3. asked \in InsnManagers /\ used \in Answers \cup {NoAnswer}
  BY <1>1, AskedType
<1>4. \E x, y : \E changed \in BOOLEAN :
        (im' = asked \/ im' = Remember(asked, x, y)) /\ Called(n, changed)
  <2>1. PICK proposal \in Proposals(form, n), verifies \in BOOLEAN :
          LET i == IF used = NoRules THEN 0 ELSE FirstAccepted(asked, form, n, proposal)
              x == Visited(n)[i]
          IN \/ /\ i = 0
                /\ im' = asked
                /\ Called(n, FALSE)
                /\ UNCHANGED form
             \/ /\ i # 0
                /\ im' = Remember(asked, x, proposal[x])
                /\ form' = [form EXCEPT ![x] = proposal[x]]
                /\ Called(n, verifies)
    BY Zenon DEF InsnCallback
  <2> DEFINE i == IF used = NoRules THEN 0 ELSE FirstAccepted(asked, form, n, proposal)
             x == Visited(n)[i]
  <2>2. \/ im' = asked /\ Called(n, FALSE)
        \/ im' = Remember(asked, x, proposal[x]) /\ Called(n, verifies)
    BY <2>1
  <2> HIDE DEF x, i, asked, used
  <2> QED BY <2>2
<1>5. pass' = [pass EXCEPT !.used = used, !.ran = {}, !.saw = "none"] /\ UNCHANGED scope
  BY Zenon DEF InsnCallback
<1> HIDE DEF asked, used
<1>6. pass'.used = used /\ pass'.abandoned = pass.abandoned
  BY <1>5 DEF Typed, Histories
<1>7. im'.maturity = asked.maturity /\ im'.func = asked.func /\ im'.names = asked.names
  BY <1>3, <1>4 DEF Remember, InsnManagers
<1>8. /\ dec'.func = dec.func /\ dec'.maturity = dec.maturity
      /\ dec'.todo = dec.todo \ {n}
  BY <1>1, <1>4, CalledFacts
<1>9. ~pass.abandoned => used = scope[dec.func]
  BY <1>1, <1>2 DEF NamesKept
<1>10. used = asked.names[dec.maturity]
  BY DEF used
<1> QED BY <1>1, <1>2, <1>5, <1>6, <1>7, <1>8, <1>9, <1>10 DEF NamesKept, NamesAreCurrent

LEMMA RoundEndsKeepsNames ==
  ASSUME Typed, NamesKept, RoundEnds
  PROVE  NamesKept'
<1>1. /\ dec.func # NoFunc /\ dec.todo = {} /\ UNCHANGED <<im, scope>>
  BY DEF RoundEnds
<1>2. /\ dec \in Decompilers /\ pass \in Histories /\ dec.maturity \in Nat
  BY <1>1, MaturityFacts DEF Typed
<1>3. Top # {} => im.maturity = dec.maturity
  BY <1>1 DEF NamesKept
<1> DEFINE quiet == [pass EXCEPT !.ran = {}, !.saw = "none"]
<1>4. quiet.used = pass.used /\ quiet.abandoned = pass.abandoned
  BY <1>2 DEF Histories
<1> HIDE DEF quiet
<1>5. CASE dec' = [dec EXCEPT !.todo = Callbacks, !.dirty = FALSE] /\ pass' = quiet
  <2>1. dec'.func = dec.func /\ dec'.maturity = dec.maturity /\ dec'.todo = Callbacks
    BY <1>2, <1>5 DEF Decompilers
  <2> QED BY <1>1, <1>4, <1>5, <2>1 DEF NamesKept, NamesAreCurrent, Callbacks
<1>6. CASE dec' = [dec EXCEPT !.maturity = @ + 1, !.todo = Callbacks] /\ pass' = quiet
  <2>1. dec'.func = dec.func /\ dec'.maturity = dec.maturity + 1 /\ dec'.todo = Callbacks
    BY <1>2, <1>6 DEF Decompilers
  <2>2. Top # {} => im'.maturity # dec'.maturity
    BY <1>1, <1>2, <1>3, <2>1
  <2> QED BY <1>1, <1>4, <1>6, <2>1, <2>2 DEF NamesKept, NamesAreCurrent, Callbacks
<1>7. CASE dec.maturity = LastMaturity /\ dec' = Idle /\ pass' = NewPass
  <2>1. pass'.used = NoAnswer
    BY <1>7 DEF NewPass
  <2> QED BY <1>1, <1>3, <1>7, <2>1 DEF NamesKept, NamesAreCurrent, Idle
<1> QED BY <1>5, <1>6, <1>7 DEF RoundEnds, quiet

LEMMA BeginKeepsNames ==
  ASSUME SeveralMaturities, Typed, NamesKept, NEW f \in Funcs, Begin(f)
  PROVE  NamesKept'
<1>1. /\ dec = Idle
      /\ dec' = [func |-> f, maturity |-> 1, todo |-> Callbacks, dirty |-> FALSE]
      /\ im' = ResetCycleDetection(im)
      /\ pass' = [NewPass EXCEPT !.abandoned = pass.abandoned]
  BY DEF Begin
<1>2. im'.maturity = im.maturity /\ pass'.used = NoAnswer /\ pass'.abandoned = pass.abandoned
  BY <1>1 DEF ResetCycleDetection, Typed, InsnManagers, NewPass
<1>3. ~pass.abandoned /\ Top # {} => im.maturity # 1
  BY <1>1, BlockOptimizerConstants DEF NamesKept, Idle, Never, SeveralMaturities
<1>4. f # NoFunc
  BY BlockOptimizerConstants
<1> QED BY <1>1, <1>2, <1>3, <1>4 DEF NamesKept, NamesAreCurrent, Callbacks

LEMMA StepKeepsNames ==
  ASSUME SeveralMaturities, Typed, NamesKept, [Next]_vars
  PROVE  NamesKept'
<1>1. ASSUME NEW blk \in Blocks, BlockCallback(blk) PROVE NamesKept'
  BY <1>1, BlocksKeepNames
<1>2. ASSUME NEW n \in Top, InsnCallback(n) PROVE NamesKept'
  BY <1>2, InsnKeepsNames
<1>3. CASE RoundEnds
  BY <1>3, RoundEndsKeepsNames
<1>4. CASE Abandon
  <2>1. dec' = Idle /\ pass'.abandoned = TRUE
    BY <1>4 DEF Abandon, NewPass
  <2> QED BY <2>1 DEF NamesKept, NamesAreCurrent, Idle
<1>5. ASSUME NEW f \in Funcs, Begin(f) PROVE NamesKept'
  BY <1>5, BeginKeepsNames
<1>6. ASSUME NEW f \in Funcs, EditScope(f) PROVE NamesKept'
  <2>1. dec = Idle /\ UNCHANGED <<im, dec, pass>>
    BY <1>6 DEF EditScope
  <2> QED BY <2>1 DEF NamesKept, NamesAreCurrent, Idle
<1>7. CASE UNCHANGED vars
  BY <1>7 DEF vars, NamesKept, NamesAreCurrent
<1> QED BY <1>1, <1>2, <1>3, <1>4, <1>5, <1>6, <1>7 DEF Next, DecompilerStep

LEMMA InitKeepsNames == Init => NamesKept
BY DEF Init, NamesKept, NamesAreCurrent, NewInstructionManager, NewPass, Idle, Never

(* With two maturities or more, the rule names an instruction is optimized   *)
(* with are those the rule scope answers at the time, however often they     *)
(* were edited, unless the pass or the one before it was given up            *)
(* (_resolve_active_instruction_rule_names and the memo log_info_on_input    *)
(* clears).                                                                  *)
THEOREM NamesAreCurrentAlways ==
  ASSUME SeveralMaturities
  PROVE  Spec => []NamesAreCurrent
<1>1. Typed /\ NamesKept /\ [Next]_vars => NamesKept'
  BY StepKeepsNames
<1>2. Spec => []Typed
  <2>1. IInv => Typed
    BY DEF IInv
  <2> QED BY <2>1, GuardsHold, PTL
<1>3. NamesKept => NamesAreCurrent
  BY DEF NamesKept
<1> QED BY InitKeepsNames, <1>1, <1>2, <1>3, PTL DEF Spec
=============================================================================
