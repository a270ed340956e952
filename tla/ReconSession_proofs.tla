-------------------------- MODULE ReconSession_proofs --------------------------
(***************************************************************************)
(* What holds of the recon pipeline for any functions, maturities, kinds   *)
(* of evidence and any set of store operations that may raise in a hook:   *)
(* every state has its type, the memory never runs ahead of the store, and *)
(* cached hints are the stored ones.                                       *)
(*                                                                         *)
(* The three are inductive together.  Each method of the runtime keeps     *)
(* them (the lemmas), so each hook does; Collected alone does not, since   *)
(* the store is ahead of the memory until the results are ingested.        *)
(*                                                                         *)
(* The second part is about the order in which the hooks drive the         *)
(* pipeline, the last about the reports kept of a function.                *)
(***************************************************************************)
EXTENDS ReconSession, TLAPS

Backed(q) ==
  \A f \in Funcs, s \in Stages : Saved(q.mem[f][s]) => q.rows[f][s] = q.mem[f][s]

Stored(q) ==
  \A f \in Funcs : q.cached[f] # None => f \notin q.dirty /\ q.cached[f] = q.hints[f]

Good(q) == q \in Pipelines /\ Backed(q) /\ Stored(q)

(* What the analysis makes of evidence is a set of hints. *)
LEMMA InterpretType ==
  ASSUME NEW e \in Evidence
  PROVE  Interpret(e) \in Hints
<1>1. \A s \in Stages : e[s] # None => e[s].pass \in 1 .. MaxPasses
  BY DEF Evidence, Results
<1>2. {e[s].pass : s \in {t \in Stages : e[t] # None /\ e[t].kind # "blank"}}
        \subseteq 1 .. MaxPasses
  BY <1>1
<1> QED BY <1>2 DEF Interpret, Hints

LEMMA UnionType ==
  ASSUME NEW a \in Evidence, NEW b \in Evidence
  PROVE  Union(a, b) \in Evidence
BY DEF Union, Evidence

LEMMA AnalyzeDirtyGood ==
  ASSUME NEW q, Good(q), NEW f \in Funcs
  PROVE  Good(AnalyzeDirty(q, f))
<1> DEFINE found == Interpret(Union(q.mem[f], q.rows[f]))
<1>1. found \in Hints
  BY InterpretType, UnionType DEF Good, Pipelines
<1> HIDE DEF found
<1>2. CASE f \notin q.dirty
  BY <1>2 DEF AnalyzeDirty
<1>3. CASE f \in q.dirty
  <2> DEFINE p == [q EXCEPT !.hints[f] = found, !.cached[f] = found, !.dirty = @ \ {f}]
  <2>1. AnalyzeDirty(q, f) = p
    BY <1>3 DEF AnalyzeDirty, found
  <2>2. p \in Pipelines
    BY <1>1 DEF Good, Pipelines
  <2>3. Backed(p)
    BY DEF Good, Backed, Pipelines
  <2>4. Stored(p)
    BY DEF Good, Stored, Pipelines
  <2> QED BY <2>1, <2>2, <2>3, <2>4 DEF Good
<1> QED BY <1>2, <1>3

-------------------------------------------------------------------------------
(* Leaving a function and entering the next *)

LEMMA NoneIsNoEvidence == NoEvidence \in Evidence
BY DEF NoEvidence, Evidence

LEMMA ForgetTyped ==
  ASSUME NEW q \in Pipelines, NEW f \in Funcs
  PROVE  Forget(q, f) \in Pipelines
BY NoneIsNoEvidence DEF Forget, Pipelines

LEMMA ForgetGood ==
  ASSUME NEW q, Good(q), NEW f \in Funcs
  PROVE  Good(Forget(q, f))
<1>1. Forget(q, f) \in Pipelines
  BY ForgetTyped DEF Good
<1>2. Backed(Forget(q, f))
  BY DEF Good, Forget, Backed, Pipelines, NoEvidence, Saved
<1>3. Stored(Forget(q, f))
  BY DEF Good, Forget, Stored, Pipelines
<1> QED BY <1>1, <1>2, <1>3 DEF Good

LEMMA PersistOutcomesGood ==
  ASSUME NEW q, Good(q), NEW f \in Funcs
  PROVE  Good(PersistOutcomes(q, f))
BY DEF Good, PersistOutcomes, Backed, Stored, Pipelines

LEMMA FlushGood ==
  ASSUME NEW q, Good(q), NEW faults
  PROVE  Good(Flush(q, faults))
<1>1. q.current # None => q.current \in Funcs
  BY DEF Good, Pipelines
<1> QED BY <1>1, AnalyzeDirtyGood DEF Flush

LEMMA LeaveGood ==
  ASSUME NEW q, Good(q)
  PROVE  Good(Leave(q))
<1>1. q.current # None => q.current \in Funcs
  BY DEF Good, Pipelines
<1> QED BY <1>1, PersistOutcomesGood, ForgetGood DEF Leave

LEMMA EnterGood ==
  ASSUME NEW q, Good(q), NEW f \in Funcs
  PROVE  Good(Enter(q, f))
<1> DEFINE p == Leave(q)
<1>1. Good(p)
  BY LeaveGood
<1> HIDE DEF p
<1>2. Good([p EXCEPT !.current = f, !.fired[f] = {}])
  BY <1>1 DEF Good, Backed, Stored, Pipelines
<1> QED BY <1>2 DEF Enter, p

LEMMA ClearFuncGood ==
  ASSUME NEW q \in Pipelines, Good(q), NEW f \in Funcs
  PROVE  Good(ClearFunc(q, f))
<1> DEFINE p == [q EXCEPT !.rows[f] = NoEvidence, !.hints[f] = None, !.outcomes[f] = {},
                          !.log[f] = {}]
<1>1. p \in Pipelines
  BY NoneIsNoEvidence DEF Pipelines
<1>2. ClearFunc(q, f) = Forget(p, f)
  BY DEF ClearFunc
<1>3. Forget(p, f) \in Pipelines
  BY <1>1, ForgetTyped
<1>4. Backed(Forget(p, f))
  BY DEF Good, Forget, Backed, Pipelines, NoEvidence, Saved
<1>5. Stored(Forget(p, f))
  BY DEF Good, Forget, Stored, Pipelines
<1> QED BY <1>2, <1>3, <1>4, <1>5 DEF Good

(* reset_for_func, wherever it is left by an exception. *)
LEMMA ResetForFuncGood ==
  ASSUME NEW q, Good(q), NEW f \in Funcs, NEW faults
  PROVE  /\ Good(ResetForFunc(q, f, faults).to)
         /\ ResetForFunc(q, f, faults).did \in BOOLEAN
<1> DEFINE flushed == Flush(q, faults)
           entered == Enter(flushed, f)
<1>1. Good(flushed)
  BY FlushGood
<1>2. Good(entered)
  BY <1>1, EnterGood
<1>3. Good(ClearFunc(entered, f))
  BY <1>2, ClearFuncGood DEF Good
<1> HIDE DEF flushed, entered
<1>4. \/ ResetForFunc(q, f, faults) = [to |-> q, did |-> FALSE]
      \/ ResetForFunc(q, f, faults) = [to |-> flushed, did |-> FALSE]
      \/ ResetForFunc(q, f, faults) = [to |-> entered, did |-> FALSE]
      \/ ResetForFunc(q, f, faults) = [to |-> ClearFunc(entered, f), did |-> TRUE]
  BY DEF ResetForFunc, flushed, entered
<1>5. CASE ResetForFunc(q, f, faults) = [to |-> q, did |-> FALSE]
  BY <1>5
<1>6. CASE ResetForFunc(q, f, faults) = [to |-> flushed, did |-> FALSE]
  BY <1>1, <1>6
<1>7. CASE ResetForFunc(q, f, faults) = [to |-> entered, did |-> FALSE]
  BY <1>2, <1>7
<1>8. CASE ResetForFunc(q, f, faults) = [to |-> ClearFunc(entered, f), did |-> TRUE]
  BY <1>3, <1>8
<1> QED BY <1>4, <1>5, <1>6, <1>7, <1>8

(* mark_decompilation_finished *)
LEMMA MarkFinishedGood ==
  ASSUME NEW q, Good(q), NEW faults
  PROVE  Good(MarkFinished(q, faults))
<1> DEFINE flushed == Flush(q, faults)
<1>1. Good(flushed)
  BY FlushGood
<1> HIDE DEF flushed
<1>2. CASE q.current = None \/ OutcomesRaise(flushed, faults)
  BY <1>1, <1>2 DEF MarkFinished, flushed
<1>3. CASE ~(q.current = None \/ OutcomesRaise(flushed, faults))
  <2>1. q.current \in Funcs
    BY <1>3 DEF Good, Pipelines
  <2> DEFINE p == PersistOutcomes(flushed, q.current)
  <2>2. Good(p)
    BY <1>1, <2>1, PersistOutcomesGood
  <2> HIDE DEF p
  <2>3. Good([p EXCEPT !.current = None])
    BY <2>2 DEF Good, Backed, Stored, Pipelines
  <2> QED BY <2>3, <1>3 DEF MarkFinished, flushed, p
<1> QED BY <1>2, <1>3

-------------------------------------------------------------------------------
(* Collecting and analyzing *)

(* Collecting changes the rows and the guard alone. *)
LEMMA CollectedTyped ==
  ASSUME NEW q \in Pipelines, NEW f \in Funcs, NEW s \in Stages,
         NEW result \in Results \cup {None}
  PROVE  LET c == Collected(q, f, s, result)
         IN  /\ c \in Pipelines
             /\ c.mem = q.mem /\ c.dirty = q.dirty /\ c.cached = q.cached /\ c.hints = q.hints
             /\ c.rows = [q.rows EXCEPT ![f] = [q.rows[f] EXCEPT ![s] =
                             IF Saved(result) THEN result ELSE q.rows[f][s]]]
<1> DEFINE kept  == IF Saved(result) THEN result ELSE q.rows[f][s]
           row   == [q.rows[f] EXCEPT ![s] = kept]
           rows  == [q.rows EXCEPT ![f] = row]
           fired == [q.fired EXCEPT ![f] = @ \cup {s}]
<1>1. q.rows \in [Funcs -> Evidence] /\ q.fired \in [Funcs -> SUBSET Stages]
  BY DEF Pipelines
<1>2. kept \in Results \cup {None}
  BY <1>1 DEF Evidence
<1>3. row \in Evidence
  BY <1>1, <1>2 DEF Evidence
<1>4. rows \in [Funcs -> Evidence]
  BY <1>1, <1>3
<1>5. fired \in [Funcs -> SUBSET Stages]
  BY <1>1
<1>6. Collected(q, f, s, result) = [q EXCEPT !.fired = fired, !.rows = rows]
  BY DEF Collected, Pipelines
<1> HIDE DEF fired, rows
<1> DEFINE c == [q EXCEPT !.fired = fired, !.rows = rows]
<1>7. c \in Pipelines
  BY <1>4, <1>5 DEF Pipelines
<1>8. c.mem = q.mem /\ c.dirty = q.dirty /\ c.cached = q.cached /\ c.hints = q.hints
  BY DEF Pipelines
<1>9. c.rows = rows
  BY DEF Pipelines
<1> HIDE DEF c
<1> QED BY <1>6, <1>7, <1>8, <1>9 DEF c, rows

(* Collected results that are ingested leave memory and store agreeing, with  *)
(* the function marked dirty and no hints cached for it.                      *)
LEMMA IngestGood ==
  ASSUME NEW q, Good(q), NEW f \in Funcs, NEW s \in Stages, NEW result \in Results
  PROVE  Good(Ingest(Collected(q, f, s, result), f, s, result))
<1> DEFINE c == Collected(q, f, s, result)
           p == Ingest(c, f, s, result)
<1>1. c \in Pipelines
  BY CollectedTyped DEF Good
<1>2. /\ c.mem = q.mem /\ c.dirty = q.dirty /\ c.cached = q.cached /\ c.hints = q.hints
      /\ c.rows = [q.rows EXCEPT ![f] = [q.rows[f] EXCEPT ![s] =
                      IF Saved(result) THEN result ELSE q.rows[f][s]]]
  BY CollectedTyped DEF Good
<1> HIDE DEF c
<1>3. p \in Pipelines
  BY <1>1 DEF Ingest, Pipelines, Evidence
<1>4. /\ p.mem = [c.mem EXCEPT ![f] = [c.mem[f] EXCEPT ![s] = result]]
      /\ p.rows = c.rows
      /\ p.dirty = c.dirty \cup {f}
      /\ p.cached = [c.cached EXCEPT ![f] = None]
      /\ p.hints = c.hints
  BY <1>1 DEF Ingest, Pipelines
<1> HIDE DEF p
<1>5. Backed(p)
  <2> SUFFICES ASSUME NEW g \in Funcs, NEW t \in Stages, Saved(p.mem[g][t])
               PROVE  p.rows[g][t] = p.mem[g][t]
    BY DEF Backed
  <2>1. /\ q.mem \in [Funcs -> [Stages -> Results \cup {None}]]
        /\ q.rows \in [Funcs -> [Stages -> Results \cup {None}]]
    BY DEF Good, Pipelines, Evidence
  <2>2. CASE g = f /\ t = s
    BY <1>2, <1>4, <2>1, <2>2
  <2>3. CASE ~(g = f /\ t = s)
    <3>1. p.mem[g][t] = q.mem[g][t] /\ p.rows[g][t] = q.rows[g][t]
      BY <1>2, <1>4, <2>1, <2>3
    <3> QED BY <3>1 DEF Good, Backed
  <2> QED BY <2>2, <2>3
<1>6. Stored(p)
  BY <1>2, <1>4 DEF Good, Stored, Pipelines
<1> QED BY <1>3, <1>5, <1>6 DEF Good, p, c

(* A hook's collectors and analysis, wherever an exception leaves them. *)
LEMMA CollectAndAnalyzeGood ==
  ASSUME NEW q, Good(q), NEW f \in Funcs, NEW s \in Stages,
         NEW result \in Results \cup {None}, NEW faults
  PROVE  LET done == CollectAndAnalyze(q, f, s, result, faults)
         IN  Good(done.to) /\ done.told \in BOOLEAN
<1> DEFINE collected == RunCollectors(q, f, s, result, faults)
           ingested  == Ingest(collected.to, f, s, result)
<1>1. CASE ~collected.found
  <2>1. CollectAndAnalyze(q, f, s, result, faults) = [to |-> collected.to, told |-> FALSE]
    BY <1>1 DEF CollectAndAnalyze
  <2>2. Good(collected.to)
    <3>1. CASE s \in q.fired[f] \/ (Saved(result) /\ "save" \in faults)
      BY <3>1 DEF RunCollectors
    <3>2. CASE ~(s \in q.fired[f] \/ (Saved(result) /\ "save" \in faults))
      <4>1. collected = [to |-> Collected(q, f, s, result), found |-> result # None]
        BY <3>2 DEF RunCollectors
      <4>2. collected.found = (result # None)
        BY <4>1
      <4>4. result = None
        BY <4>2, <1>1
      <4>3. Good(Collected(q, f, s, None))
        <5> DEFINE p == Collected(q, f, s, None)
        <5>1. p \in Pipelines
          BY CollectedTyped DEF Good
        <5>2. /\ p.mem = q.mem /\ p.dirty = q.dirty /\ p.cached = q.cached
              /\ p.hints = q.hints
              /\ p.rows = [q.rows EXCEPT ![f] = [q.rows[f] EXCEPT ![s] = q.rows[f][s]]]
          BY CollectedTyped DEF Good, Saved
        <5> HIDE DEF p
        <5>3. p.rows = q.rows
          <6>1. q.rows \in [Funcs -> [Stages -> Results \cup {None}]]
            BY DEF Good, Pipelines, Evidence
          <6>2. [q.rows[f] EXCEPT ![s] = q.rows[f][s]] = q.rows[f]
            BY <6>1
          <6>3. [q.rows EXCEPT ![f] = q.rows[f]] = q.rows
            BY <6>1
          <6> QED BY <5>2, <6>1, <6>2, <6>3
        <5> QED BY <5>1, <5>2, <5>3 DEF Good, Backed, Stored, p
      <4> QED BY <4>1, <4>4, <4>3
    <3> QED BY <3>1, <3>2
  <2> QED BY <2>1, <2>2
<1>2. CASE collected.found
  <2>1. ~(s \in q.fired[f] \/ (Saved(result) /\ "save" \in faults))
    BY <1>2 DEF RunCollectors
  <2>2. collected = [to |-> Collected(q, f, s, result), found |-> result # None]
    BY <2>1 DEF RunCollectors
  <2>8. collected.found = (result # None)
    BY <2>2
  <2>3. result \in Results
    BY <1>2, <2>8
  <2>4. Good(ingested)
    BY <2>2, <2>3, IngestGood
  <2>5. Good(AnalyzeDirty(ingested, f))
    BY <2>4, AnalyzeDirtyGood
  <2>6. CASE "analyze" \in faults
    BY <1>2, <2>4, <2>6 DEF CollectAndAnalyze
  <2>7. CASE "analyze" \notin faults
    BY <1>2, <2>5, <2>7 DEF CollectAndAnalyze
  <2> QED BY <2>6, <2>7
<1> QED BY <1>1, <1>2

-------------------------------------------------------------------------------
(* The three invariants are inductive together with: a pass under way has a   *)
(* number, which is what types the results it collects.                       *)
Numbered == func # None => pass \in 1 .. MaxPasses

Around ==
  /\ seen \in [Managers -> Micro \cup {None}]
  /\ applied \in [Funcs -> Hints \cup {None}]
  /\ context \in Contexts \cup {None}
  /\ func \in Funcs \cup {None}
  /\ at \in 1 .. NMicro + NCtree + 1
  /\ called \subseteq Managers
  /\ pass \in 0 .. MaxPasses
  /\ abandoned \in BOOLEAN

Inv == Good(r) /\ Around /\ Numbered

LEMMA InvType == Inv => TypeOK
BY DEF Inv, Good, Around, Pipelines, TypeOK

LEMMA InvBacked == Inv => MemoryIsBacked /\ CacheIsStored
BY DEF Inv, Good, Backed, Stored, MemoryIsBacked, CacheIsStored

LEMMA FindingsTyped ==
  ASSUME Numbered, func # None
  PROVE  Findings \subseteq Results \cup {None}
BY DEF Numbered, Findings, Results

(* A report joins the log, which no invariant looks at. *)
LEMMA LogGood ==
  ASSUME NEW q, Good(q), NEW f \in Funcs, NEW consumers \in SUBSET Consumers
  PROVE  Good([q EXCEPT !.log[f] = @ \cup consumers])
BY DEF Good, Backed, Stored, Pipelines

(* A new runtime over a store remembers nothing. *)
LEMMA NewPipelineGood ==
  ASSUME NEW store,
         store.rows \in [Funcs -> Evidence],
         store.hints \in [Funcs -> Hints \cup {None}],
         store.outcomes \in [Funcs -> SUBSET Consumers]
  PROVE  Good(NewPipeline(store))
<1>1. NewPipeline(store) \in Pipelines
  BY NoneIsNoEvidence DEF NewPipeline, Pipelines
<1>2. Backed(NewPipeline(store)) /\ Stored(NewPipeline(store))
  BY DEF NewPipeline, Backed, Stored, NoEvidence, Saved
<1> QED BY <1>1, <1>2 DEF Good

LEMMA InitInv == Init => Inv
<1> SUFFICES ASSUME Init
             PROVE  Inv
  OBVIOUS
<1>1. Good(r)
  <2>1. /\ EmptyStore.rows \in [Funcs -> Evidence]
        /\ EmptyStore.hints \in [Funcs -> Hints \cup {None}]
        /\ EmptyStore.outcomes \in [Funcs -> SUBSET Consumers]
    BY NoneIsNoEvidence DEF EmptyStore
  <2> QED BY <2>1, NewPipelineGood DEF Init
<1>2. at \in 1 .. NMicro + NCtree + 1 /\ pass \in 0 .. MaxPasses
  BY ReconAssumption DEF Init
<1>3. /\ seen \in [Managers -> Micro \cup {None}]
      /\ applied \in [Funcs -> Hints \cup {None}]
      /\ context \in Contexts \cup {None}
      /\ func \in Funcs \cup {None}
      /\ called \subseteq Managers
      /\ abandoned \in BOOLEAN
  BY DEF Init
<1>4. Numbered
  BY DEF Init, Numbered
<1> QED BY <1>1, <1>2, <1>3, <1>4 DEF Inv, Around

-------------------------------------------------------------------------------
(* The hooks *)

(* log_info_on_input at a new maturity. *)
LEMMA MaturityChangedInv ==
  ASSUME Inv, NEW m \in Managers, func # None, at \in CallsAt[m], MaturityChanged(m)
  PROVE  /\ Good(r')
         /\ seen' \in [Managers -> Micro \cup {None}]
         /\ applied' \in [Funcs -> Hints \cup {None}]
         /\ context' \in Contexts \cup {None}
<1>1. func \in Funcs /\ at \in Micro /\ at \in Stages
  BY SessionAssumption DEF Inv, Around, Stages
<1>2. PICK result \in Findings, faults \in FaultSets :
        LET reset == ResetForFunc(r, func, faults)
            done  == CollectAndAnalyze(reset.to, func, at, result, faults)
        IN /\ r' = IF done.told
                   THEN [done.to EXCEPT !.log[func] = @ \cup {"rule_scope"}]
                   ELSE done.to
           /\ applied' = [applied EXCEPT ![func] = HintsInForce(applied[func], reset, done)]
  BY DEF MaturityChanged
<1>3. result \in Results \cup {None}
  BY FindingsTyped DEF Inv
<1> DEFINE reset == ResetForFunc(r, func, faults)
           done  == CollectAndAnalyze(reset.to, func, at, result, faults)
<1>4. Good(reset.to)
  BY <1>1, ResetForFuncGood DEF Inv
<1>5. Good(done.to) /\ done.told \in BOOLEAN
  <2> HIDE DEF reset
  <2> QED BY <1>1, <1>3, <1>4, CollectAndAnalyzeGood
<1>6. /\ r' = IF done.told
              THEN [done.to EXCEPT !.log[func] = @ \cup {"rule_scope"}]
              ELSE done.to
      /\ applied' = [applied EXCEPT ![func] = HintsInForce(applied[func], reset, done)]
  BY <1>2
<1> HIDE DEF reset, done
<1>7. Good(r')
  <2>1. Good([done.to EXCEPT !.log[func] = @ \cup {"rule_scope"}])
    BY <1>1, <1>5, LogGood DEF Consumers
  <2> QED BY <1>5, <1>6, <2>1
<1>8. applied' \in [Funcs -> Hints \cup {None}]
  <2>1. done.to.cached[func] \in Hints \cup {None}
    BY <1>1, <1>5 DEF Good, Pipelines
  <2>2. HintsInForce(applied[func], reset, done) \in Hints \cup {None}
    BY <1>1, <2>1 DEF HintsInForce, Inv, Around
  <2> QED BY <1>6, <2>2 DEF Inv, Around
<1>9. seen' \in [Managers -> Micro \cup {None}]
  BY <1>1 DEF MaturityChanged, Inv, Around
<1>10. context' \in Contexts \cup {None}
  BY DEF MaturityChanged, ContextLeft, Inv, Around
<1> QED BY <1>7, <1>8, <1>9, <1>10

LEMMA CallManagerInv ==
  ASSUME Inv, NEW m \in Managers, CallManager(m)
  PROVE  Inv'
<1>1. Around' /\ Good(r')
  <2>1. CASE seen[m] # at
    BY <2>1, MaturityChangedInv DEF CallManager, Inv, Around
  <2>2. CASE seen[m] = at
    BY <2>2 DEF CallManager, Inv, Around
  <2> QED BY <2>1, <2>2
<1>2. Numbered'
  BY DEF CallManager, Inv, Numbered
<1> QED BY <1>1, <1>2 DEF Inv

LEMMA RunBlockRulesInv ==
  ASSUME Inv, RunBlockRules
  PROVE  Inv'
<1>1. func \in Funcs /\ at \in Micro
  BY DEF RunBlockRules, Inv, Around
<1>2. Good(r')
  <2>1. PICK gates \in SUBSET {"flow_gate"} : r' = [r EXCEPT !.log[func] = @ \cup gates]
    BY DEF RunBlockRules
  <2> QED BY <1>1, <2>1, LogGood DEF Inv, Consumers
<1>3. context' \in Contexts \cup {None}
  <2>1. r.hints[func] \in Hints \cup {None}
    BY <1>1 DEF Inv, Good, Pipelines
  <2>2. [func |-> func, at |-> at, summary |-> r.hints[func]] \in Contexts
    BY <1>1, <2>1 DEF Contexts
  <2> QED BY <2>2 DEF RunBlockRules, Inv, Around
<1> QED BY <1>2, <1>3 DEF RunBlockRules, decompiler, Inv, Around, Numbered

LEMMA FinishInv ==
  ASSUME Inv, Finish
  PROVE  Inv'
<1>1. Good(r')
  BY MarkFinishedGood DEF Finish, Inv
<1>2. at' \in 1 .. NMicro + NCtree + 1
  BY ReconAssumption DEF Finish, Inv, Around
<1> QED BY <1>1, <1>2 DEF Finish, Inv, Around, Numbered

LEMMA CtreeMaturityInv ==
  ASSUME Inv, CtreeMaturity
  PROVE  Inv'
<1>1. func \in Funcs /\ at \in Stages
  BY DEF CtreeMaturity, Inv, Around, Stages
<1>2. Good(r')
  <2>1. PICK result \in Findings, faults \in FaultSets :
          r' = CollectAndAnalyze(r, func, at, result, faults).to
    BY DEF CtreeMaturity
  <2>2. result \in Results \cup {None}
    BY FindingsTyped DEF CtreeMaturity, Inv
  <2> QED BY <1>1, <2>1, <2>2, CollectAndAnalyzeGood DEF Inv
<1>3. at' \in 1 .. NMicro + NCtree + 1
  BY ReconAssumption DEF CtreeMaturity, Ctree, Inv, Around
<1> QED BY <1>2, <1>3 DEF CtreeMaturity, Inv, Around, Numbered

LEMMA RestartInv ==
  ASSUME Inv, Restart
  PROVE  Inv'
<1>1. Good(r')
  BY NewPipelineGood DEF Restart, Inv, Good, Pipelines
<1> QED BY <1>1 DEF Restart, Inv, Around, Numbered

-------------------------------------------------------------------------------
LEMMA StepInv == Inv /\ [Next]_vars => Inv'
<1> SUFFICES ASSUME Inv, [Next]_vars
             PROVE  Inv'
  OBVIOUS
<1>1. ASSUME NEW f \in Funcs, Decompile(f)
      PROVE  Inv'
  BY <1>1, ReconAssumption DEF Decompile, Inv, Around, Numbered
<1>2. CASE Abort
  BY <1>2 DEF Abort, Inv, Around, Numbered
<1>3. CASE NextMaturity
  BY <1>3, ReconAssumption DEF NextMaturity, Micro, Inv, Around, Numbered
<1>4. CASE \E m \in Managers : CallManager(m)
  BY <1>4, CallManagerInv
<1>5. CASE RunBlockRules
  BY <1>5, RunBlockRulesInv
<1>6. CASE Finish
  BY <1>6, FinishInv
<1>7. CASE CtreeMaturity
  BY <1>7, CtreeMaturityInv
<1>8. CASE Done
  BY <1>8 DEF Done, Inv, Around, Numbered
<1>9. CASE Restart
  BY <1>9, RestartInv
<1>10. CASE UNCHANGED vars
  BY <1>10 DEF vars, decompiler, Inv, Around, Numbered
<1> QED BY <1>1, <1>2, <1>3, <1>4, <1>5, <1>6, <1>7, <1>8, <1>9, <1>10 DEF Next

(* Every reachable state of any session is well typed, whatever fails: the    *)
(* maturities and functions the hooks use as keys of the phase, the runtime   *)
(* and the store are the ones of the pass.                                    *)
THEOREM TypeCorrect == Spec => []TypeOK
<1>1. Spec => []Inv
  BY InitInv, StepInv, PTL DEF Spec
<1> QED BY <1>1, InvType, PTL

(* Evidence that is used from memory is in the store as well, for any store   *)
(* operations that raise in any hook: the save comes before the guard of the  *)
(* phase and before the results are handed to the runtime                     *)
(* (run_microcode_collectors, run_ctree_collectors), and no reset clears one  *)
(* without the other.                                                         *)
THEOREM MemoryIsAlwaysBacked == Spec => []MemoryIsBacked
<1>1. Spec => []Inv
  BY InitInv, StepInv, PTL DEF Spec
<1> QED BY <1>1, InvBacked, PTL

(* The hints a function's rules are given from the cache are the stored ones, *)
(* for any store operations that raise: analyze_dirty_and_persist caches what *)
(* it has saved and every other way drops the cache entry first.              *)
THEOREM CacheIsAlwaysStored == Spec => []CacheIsStored
<1>1. Spec => []Inv
  BY InitInv, StepInv, PTL DEF Spec
<1> QED BY <1>1, InvBacked, PTL
-------------------------------------------------------------------------------
(***************************************************************************)
(* The order in which the hooks drive the pipeline, as long as no          *)
(* operation of the store raises: a maturity is collected once in a pass,  *)
(* the stored hints are what the analysis makes of the evidence, and in a  *)
(* session without an abandoned pass nothing of an earlier pass decides    *)
(* anything in the present one.                                            *)
(***************************************************************************)

(* No operation of the store raises.  With one that may, none of the          *)
(* properties below holds: a reset cut short by it is made again at the next  *)
(* maturity, say, after results of this pass were collected.                  *)
NoFaults == FaultSets \subseteq {{}}

(* A manager is called at the first maturity, and no manager is called at one *)
(* maturity alone: it would not notice a new pass (its current_maturity).     *)
EveryPassNoticed ==
  /\ \E m \in Managers : 1 \in CallsAt[m]
  /\ \A m \in Managers, k \in Micro : CallsAt[m] # {k}

-------------------------------------------------------------------------------
(* What a reset and a collection do when nothing raises: p is reached from q  *)
(* by entering f anew, ...                                                    *)
EntersAnew(q, p, f) ==
  /\ p.current = f
  /\ p.dirty = {}
  /\ p.fired = [q.fired EXCEPT ![f] = {}]
  /\ p.rows = [q.rows EXCEPT ![f] = NoEvidence]
  /\ p.hints = [q.hints EXCEPT ![f] = None]
  /\ p.log = [q.log EXCEPT ![f] = {}]
  /\ p.mem[f] = NoEvidence
  /\ \A g \in Funcs \ {f} :
       /\ p.mem[g] = IF g = q.current THEN NoEvidence ELSE q.mem[g]
       /\ p.outcomes[g] = IF g = q.current THEN q.outcomes[g] \cup q.log[g]
                          ELSE q.outcomes[g]

(* ... by collecting something: saved if it is more than metadata, kept in    *)
(* memory and analyzed in the same step, ...                                  *)
Learns(q, p, f, s, result) ==
  /\ p.mem = [q.mem EXCEPT ![f] = [q.mem[f] EXCEPT ![s] = result]]
  /\ p.rows = [q.rows EXCEPT ![f] = [q.rows[f] EXCEPT ![s] =
                  IF Saved(result) THEN result ELSE q.rows[f][s]]]
  /\ p.hints = [q.hints EXCEPT ![f] = Interpret(Union(p.mem[f], p.rows[f]))]
  /\ p.cached[f] = p.hints[f]

(* ... by finding nothing, ...                                                *)
LearnsNothing(q, p) == p.mem = q.mem /\ p.rows = q.rows /\ p.hints = q.hints

(* ... and, with either, the guard set.                                       *)
Guards(q, p, f, s) ==
  /\ p.current = q.current /\ p.log = q.log /\ p.outcomes = q.outcomes
  /\ p.dirty = {}
  /\ p.fired = [q.fired EXCEPT ![f] = @ \cup {s}]

LEMMA CleanAnalysis ==
  ASSUME NEW q, q.dirty = {}, NEW f
  PROVE  AnalyzeDirty(q, f) = q
BY DEF AnalyzeDirty

LEMMA LeaveFields ==
  ASSUME NEW q \in Pipelines
  PROVE  LET p == Leave(q)
         IN  /\ p \in Pipelines
             /\ p.fired = q.fired /\ p.rows = q.rows /\ p.hints = q.hints /\ p.log = q.log
             /\ p.dirty \subseteq q.dirty
             /\ \A g \in Funcs : p.mem[g] = IF g = q.current THEN NoEvidence ELSE q.mem[g]
             /\ \A g \in Funcs : p.outcomes[g] = IF g = q.current THEN q.outcomes[g] \cup q.log[g]
                                                 ELSE q.outcomes[g]
<1>1. CASE q.current = None
  BY <1>1, ReconAssumption DEF Leave
<1>2. CASE q.current # None
  <2>1. q.current \in Funcs
    BY <1>2 DEF Pipelines
  <2> DEFINE p == [q EXCEPT !.outcomes[q.current] = @ \cup q.log[q.current]]
  <2>2. /\ p \in Pipelines
        /\ p.fired = q.fired /\ p.rows = q.rows /\ p.hints = q.hints /\ p.log = q.log
        /\ p.dirty = q.dirty /\ p.mem = q.mem
        /\ \A g \in Funcs : p.outcomes[g] = IF g = q.current THEN q.outcomes[g] \cup q.log[g]
                                            ELSE q.outcomes[g]
    BY <2>1 DEF Pipelines
  <2>3. Leave(q) = Forget(p, q.current)
    BY <1>2 DEF Leave, PersistOutcomes
  <2>5. Forget(p, q.current) \in Pipelines
    <3> HIDE DEF p
    <3> QED BY <2>1, <2>2, ForgetTyped
  <2>4. LET z == Forget(p, q.current)
        IN  /\ z.fired = p.fired /\ z.rows = p.rows /\ z.hints = p.hints /\ z.log = p.log
            /\ z.outcomes = p.outcomes
            /\ z.dirty = p.dirty \ {q.current}
            /\ z.mem = [p.mem EXCEPT ![q.current] = NoEvidence]
    <3> HIDE DEF p
    <3> QED BY <2>1, <2>2 DEF Forget, Pipelines
  <2> HIDE DEF p
  <2>6. q.mem \in [Funcs -> Evidence]
    BY DEF Pipelines
  <2> QED BY <2>1, <2>2, <2>3, <2>4, <2>5, <2>6
<1> QED BY <1>1, <1>2

(* reset_for_func for another function than the current one. *)
LEMMA ResetAnew ==
  ASSUME NEW q, Good(q), q.dirty = {}, NEW f \in Funcs, q.current # f
  PROVE  /\ ResetForFunc(q, f, {}).did = TRUE
         /\ EntersAnew(q, ResetForFunc(q, f, {}).to, f)
<1>1. q \in Pipelines
  BY DEF Good
<1>2. Flush(q, {}) = q
  BY CleanAnalysis DEF Flush
<1>3. ResetForFunc(q, f, {}) = [to |-> ClearFunc(Enter(q, f), f), did |-> TRUE]
  BY <1>2 DEF ResetForFunc, OutcomesRaise
<1> DEFINE l == Leave(q)
           e == [l EXCEPT !.current = f, !.fired[f] = {}]
           c == [e EXCEPT !.rows[f] = NoEvidence, !.hints[f] = None, !.outcomes[f] = {},
                          !.log[f] = {}]
           p == Forget(c, f)
<1>4. ResetForFunc(q, f, {}).to = p /\ ResetForFunc(q, f, {}).did = TRUE
  BY <1>3 DEF ClearFunc, Enter
<1>5. /\ l \in Pipelines
      /\ l.fired = q.fired /\ l.rows = q.rows /\ l.hints = q.hints /\ l.log = q.log
      /\ l.dirty = {}
      /\ \A g \in Funcs : l.mem[g] = IF g = q.current THEN NoEvidence ELSE q.mem[g]
      /\ \A g \in Funcs : l.outcomes[g] = IF g = q.current THEN q.outcomes[g] \cup q.log[g]
                                          ELSE q.outcomes[g]
  BY <1>1, LeaveFields
<1> HIDE DEF l
<1>6. /\ e.current = f /\ e.fired = [l.fired EXCEPT ![f] = {}]
      /\ e.rows = l.rows /\ e.hints = l.hints /\ e.log = l.log /\ e.dirty = l.dirty
      /\ e.mem = l.mem /\ e.outcomes = l.outcomes
      /\ e \in Pipelines
  BY <1>5 DEF Pipelines
<1> HIDE DEF e
<1>7. /\ c.current = e.current /\ c.fired = e.fired /\ c.dirty = e.dirty /\ c.mem = e.mem
      /\ c.rows = [e.rows EXCEPT ![f] = NoEvidence]
      /\ c.hints = [e.hints EXCEPT ![f] = None]
      /\ c.log = [e.log EXCEPT ![f] = {}]
      /\ c.outcomes = [e.outcomes EXCEPT ![f] = {}]
      /\ c \in Pipelines
  BY <1>6, NoneIsNoEvidence DEF Pipelines
<1> HIDE DEF c
<1>8. /\ p.current = c.current /\ p.fired = c.fired /\ p.dirty = c.dirty \ {f}
      /\ p.rows = c.rows /\ p.hints = c.hints /\ p.log = c.log /\ p.outcomes = c.outcomes
      /\ p.mem = [c.mem EXCEPT ![f] = NoEvidence]
  BY <1>7 DEF Forget, Pipelines
<1> HIDE DEF p
<1>9. l.mem \in [Funcs -> Evidence] /\ l.outcomes \in [Funcs -> SUBSET Consumers]
  BY <1>5 DEF Pipelines
<1>10. /\ p.current = f /\ p.dirty = {} /\ p.mem[f] = NoEvidence
       /\ p.fired = [q.fired EXCEPT ![f] = {}]
       /\ p.rows = [q.rows EXCEPT ![f] = NoEvidence]
       /\ p.hints = [q.hints EXCEPT ![f] = None]
       /\ p.log = [q.log EXCEPT ![f] = {}]
  BY <1>5, <1>6, <1>7, <1>8, <1>9
<1>11. ASSUME NEW g \in Funcs \ {f}
       PROVE  p.mem[g] = l.mem[g] /\ p.outcomes[g] = l.outcomes[g]
  BY <1>6, <1>7, <1>8, <1>9
<1>12. \A g \in Funcs \ {f} :
         /\ p.mem[g] = IF g = q.current THEN NoEvidence ELSE q.mem[g]
         /\ p.outcomes[g] = IF g = q.current THEN q.outcomes[g] \cup q.log[g]
                            ELSE q.outcomes[g]
  BY <1>5, <1>11
<1>13. EntersAnew(q, p, f)
  BY <1>10, <1>12 DEF EntersAnew
<1> QED BY <1>4, <1>13

LEMMA ResetAgain ==
  ASSUME NEW q, NEW f, q.current = f, NEW faults
  PROVE  ResetForFunc(q, f, faults) = [to |-> q, did |-> FALSE]
BY DEF ResetForFunc

(* A maturity that was collected is left alone. *)
LEMMA CollectAgain ==
  ASSUME NEW q, NEW f, NEW s, s \in q.fired[f], NEW result, NEW faults
  PROVE  CollectAndAnalyze(q, f, s, result, faults) = [to |-> q, told |-> FALSE]
BY DEF CollectAndAnalyze, RunCollectors

(* A maturity collected for the first time: nothing found. *)
LEMMA CollectNothing ==
  ASSUME NEW q, Good(q), NEW f \in Funcs, NEW s \in Stages, s \notin q.fired[f]
  PROVE  CollectAndAnalyze(q, f, s, None, {}) =
           [to |-> [q EXCEPT !.fired[f] = @ \cup {s}], told |-> FALSE]
<1> DEFINE c == Collected(q, f, s, None)
<1>1. CollectAndAnalyze(q, f, s, None, {}) = [to |-> c, told |-> FALSE]
  BY DEF CollectAndAnalyze, RunCollectors, Saved
<1>2. q.rows \in [Funcs -> Evidence]
  BY DEF Good, Pipelines
<1>3. [q.rows EXCEPT ![f] = [q.rows[f] EXCEPT ![s] = q.rows[f][s]]] = q.rows
  BY <1>2 DEF Evidence
<1>4. c = [q EXCEPT !.fired = [q.fired EXCEPT ![f] = @ \cup {s}], !.rows = q.rows]
  BY <1>3 DEF Collected, Saved, Good, Pipelines
<1>5. c = [q EXCEPT !.fired[f] = @ \cup {s}]
  BY <1>4 DEF Good, Pipelines
<1> QED BY <1>1, <1>5

(* Something found. *)
LEMMA CollectSomething ==
  ASSUME NEW q, Good(q), q.dirty = {}, NEW f \in Funcs, NEW s \in Stages,
         s \notin q.fired[f], NEW result \in Results
  PROVE  LET done == CollectAndAnalyze(q, f, s, result, {})
         IN  /\ done.told = TRUE
             /\ Guards(q, done.to, f, s)
             /\ Learns(q, done.to, f, s, result)
<1> DEFINE c == Collected(q, f, s, result)
           i == Ingest(c, f, s, result)
           found == Interpret(Union(i.mem[f], i.rows[f]))
           p == [i EXCEPT !.hints[f] = found, !.cached[f] = found, !.dirty = @ \ {f}]
<1>1. /\ c \in Pipelines
      /\ c.mem = q.mem /\ c.dirty = q.dirty /\ c.cached = q.cached /\ c.hints = q.hints
      /\ c.rows = [q.rows EXCEPT ![f] = [q.rows[f] EXCEPT ![s] =
                      IF Saved(result) THEN result ELSE q.rows[f][s]]]
  BY CollectedTyped DEF Good
<1>2. /\ c.current = q.current /\ c.log = q.log /\ c.outcomes = q.outcomes
      /\ c.fired = [q.fired EXCEPT ![f] = @ \cup {s}]
  BY DEF Collected, Good, Pipelines
<1>3. RunCollectors(q, f, s, result, {}) = [to |-> c, found |-> TRUE]
  BY NoneAssumption DEF RunCollectors
<1>4. i \in Pipelines
  BY IngestGood DEF Good
<1>5. /\ i.mem = [c.mem EXCEPT ![f] = [c.mem[f] EXCEPT ![s] = result]]
      /\ i.rows = c.rows /\ i.hints = c.hints /\ i.fired = c.fired
      /\ i.current = c.current /\ i.log = c.log /\ i.outcomes = c.outcomes
      /\ i.dirty = c.dirty \cup {f}
  <2> HIDE DEF c
  <2> QED BY <1>1 DEF Ingest, Pipelines
<1>6. CollectAndAnalyze(q, f, s, result, {}) = [to |-> AnalyzeDirty(i, f), told |-> TRUE]
  <2> HIDE DEF c
  <2>1. /\ RunCollectors(q, f, s, result, {}).found
        /\ RunCollectors(q, f, s, result, {}).to = c
    BY <1>3
  <2> QED BY <2>1 DEF CollectAndAnalyze
<1> HIDE DEF c, i
<1>7. AnalyzeDirty(i, f) = p
  BY <1>5 DEF AnalyzeDirty
<1> HIDE DEF found
<1>8. /\ p.mem = i.mem /\ p.rows = i.rows /\ p.fired = i.fired
      /\ p.current = i.current /\ p.log = i.log /\ p.outcomes = i.outcomes
      /\ p.dirty = i.dirty \ {f}
      /\ p.hints = [i.hints EXCEPT ![f] = found]
      /\ p.cached[f] = found /\ p.hints[f] = found
  BY <1>4 DEF Pipelines
<1> HIDE DEF p
<1>9. p.dirty = {}
  BY <1>1, <1>5, <1>8
<1>10. found = Interpret(Union(p.mem[f], p.rows[f]))
  BY <1>8 DEF found
<1>11. /\ CollectAndAnalyze(q, f, s, result, {}).to = p
       /\ CollectAndAnalyze(q, f, s, result, {}).told = TRUE
  BY <1>6, <1>7
<1>12. /\ p.current = q.current /\ p.log = q.log /\ p.outcomes = q.outcomes
       /\ p.fired = [q.fired EXCEPT ![f] = @ \cup {s}]
       /\ p.mem = [q.mem EXCEPT ![f] = [q.mem[f] EXCEPT ![s] = result]]
       /\ p.rows = [q.rows EXCEPT ![f] = [q.rows[f] EXCEPT ![s] =
                       IF Saved(result) THEN result ELSE q.rows[f][s]]]
  BY <1>1, <1>2, <1>5, <1>8
<1>13. p.hints = [q.hints EXCEPT ![f] = Interpret(Union(p.mem[f], p.rows[f]))]
  BY <1>1, <1>5, <1>8, <1>10
<1>14. p.cached[f] = p.hints[f]
  BY <1>8
<1>15. Guards(q, p, f, s) /\ Learns(q, p, f, s, result)
  BY <1>9, <1>12, <1>13, <1>14 DEF Guards, Learns
<1> QED BY <1>11, <1>15

(* The two cases and the maturity already collected, in one. *)
LEMMA Collecting ==
  ASSUME NEW q, Good(q), q.dirty = {}, NEW f \in Funcs, NEW s \in Stages,
         NEW result \in Results \cup {None}
  PROVE  LET done == CollectAndAnalyze(q, f, s, result, {})
         IN  /\ Good(done.to)
             /\ done.told = (s \notin q.fired[f] /\ result # None)
             /\ Guards(q, done.to, f, s)
             /\ ~done.told => LearnsNothing(q, done.to)
             /\ done.told => result \in Results /\ Learns(q, done.to, f, s, result)
<1>1. Good(CollectAndAnalyze(q, f, s, result, {}).to)
  BY CollectAndAnalyzeGood
<1>2. q \in Pipelines
  BY DEF Good
<1>3. CASE s \in q.fired[f]
  <2>1. CollectAndAnalyze(q, f, s, result, {}) = [to |-> q, told |-> FALSE]
    BY <1>3, CollectAgain
  <2>2. q.fired = [q.fired EXCEPT ![f] = @ \cup {s}]
    <3>1. q.fired \in [Funcs -> SUBSET Stages] /\ q.fired[f] \cup {s} = q.fired[f]
      BY <1>2, <1>3 DEF Pipelines
    <3> QED BY <3>1
  <2>3. /\ CollectAndAnalyze(q, f, s, result, {}).to = q
        /\ CollectAndAnalyze(q, f, s, result, {}).told = FALSE
    BY <2>1
  <2>4. Guards(q, q, f, s) /\ LearnsNothing(q, q)
    BY <2>2 DEF Guards, LearnsNothing
  <2> QED BY <1>1, <1>3, <2>3, <2>4
<1>4. CASE s \notin q.fired[f] /\ result = None
  <2> DEFINE p == [q EXCEPT !.fired[f] = @ \cup {s}]
  <2>3. CollectAndAnalyze(q, f, s, result, {}) = [to |-> p, told |-> FALSE]
    BY <1>4, CollectNothing
  <2>2. /\ p.current = q.current /\ p.log = q.log /\ p.outcomes = q.outcomes
        /\ p.dirty = {} /\ p.mem = q.mem /\ p.rows = q.rows /\ p.hints = q.hints
        /\ p.fired = [q.fired EXCEPT ![f] = @ \cup {s}]
    BY <1>2 DEF Pipelines
  <2> HIDE DEF p
  <2>1. /\ CollectAndAnalyze(q, f, s, result, {}).to = p
        /\ CollectAndAnalyze(q, f, s, result, {}).told = FALSE
    BY <2>3
  <2>4. Guards(q, p, f, s) /\ LearnsNothing(q, p)
    BY <2>2 DEF Guards, LearnsNothing
  <2> QED BY <1>1, <1>4, <2>1, <2>4
<1>5. CASE s \notin q.fired[f] /\ result # None
  <2>1. result \in Results
    BY <1>5
  <2> QED BY <1>1, <1>5, <2>1, CollectSomething
<1> QED BY <1>3, <1>4, <1>5

(* A hook of the microcode part: reset, collection, report. *)
LEMMA MaturityShape ==
  ASSUME NoFaults, Inv, r.dirty = {}, NEW m \in Managers, func # None, at \in CallsAt[m],
         MaturityChanged(m)
  PROVE  /\ func \in Funcs /\ at \in Micro /\ at \in Stages
         /\ \E result \in Results \cup {None} :
              LET reset == ResetForFunc(r, func, {})
                  done  == CollectAndAnalyze(reset.to, func, at, result, {})
              IN  /\ result # None => result.pass = pass
                  /\ r' = IF done.told
                          THEN [done.to EXCEPT !.log[func] = @ \cup {"rule_scope"}]
                          ELSE done.to
                  /\ applied' = [applied EXCEPT ![func] =
                                   HintsInForce(applied[func], reset, done)]
<1>1. func \in Funcs /\ at \in Micro /\ at \in Stages
  BY SessionAssumption DEF Inv, Around, Stages
<1>2. PICK result \in Findings, faults \in FaultSets :
        LET reset == ResetForFunc(r, func, faults)
            done  == CollectAndAnalyze(reset.to, func, at, result, faults)
        IN /\ r' = IF done.told
                   THEN [done.to EXCEPT !.log[func] = @ \cup {"rule_scope"}]
                   ELSE done.to
           /\ applied' = [applied EXCEPT ![func] = HintsInForce(applied[func], reset, done)]
  BY DEF MaturityChanged
<1>3. faults = {}
  BY DEF NoFaults
<1>4. result \in Results \cup {None}
  BY FindingsTyped DEF Inv
<1>5. result # None => result.pass = pass
  BY DEF Findings
<1> QED BY <1>1, <1>2, <1>3, <1>4, <1>5

(* A report joins the log and nothing else. *)
Logs(q, p, f, consumers) ==
  /\ p.current = q.current /\ p.fired = q.fired /\ p.mem = q.mem
  /\ p.dirty = q.dirty /\ p.rows = q.rows /\ p.hints = q.hints
  /\ p.cached = q.cached /\ p.outcomes = q.outcomes
  /\ p.log = [q.log EXCEPT ![f] = @ \cup consumers]

LEMMA LogFields ==
  ASSUME NEW q, Good(q), NEW f \in Funcs, NEW consumers
  PROVE  Logs(q, [q EXCEPT !.log[f] = @ \cup consumers], f, consumers)
BY DEF Good, Pipelines, Logs

-------------------------------------------------------------------------------
(* Collected once in a pass: the evidence of the present pass, numbered n, is *)
(* of the function decompiled and its maturities are guarded.                 *)

OfPass(q, n, f, s) ==
  \/ q.mem[f][s] # None /\ q.mem[f][s].pass = n
  \/ q.rows[f][s] # None /\ q.rows[f][s].pass = n

Dated(q, n) ==
  \A f \in Funcs, s \in Stages :
    /\ q.mem[f][s] # None => q.mem[f][s].pass <= n
    /\ q.rows[f][s] # None => q.rows[f][s].pass <= n

GuardedOf(q, n, f) ==
  \A g \in Funcs, s \in Stages : OfPass(q, n, g, s) => g = f /\ s \in q.fired[g]

Once ==
  /\ r.dirty = {}
  /\ Dated(r, pass)
  /\ func # None => GuardedOf(r, pass, func)
  /\ func # None /\ at \in Micro /\ r.current # func =>
       \A g \in Funcs, s \in Stages : ~OfPass(r, pass, g, s)

(* What changed of the evidence was missing, or of an earlier pass. *)
Succeeds(q, p) ==
  \A f \in Funcs, s \in Stages :
    /\ q.mem[f][s] # None /\ p.mem[f][s] # None /\ p.mem[f][s] # q.mem[f][s] =>
         p.mem[f][s].pass > q.mem[f][s].pass
    /\ q.rows[f][s] # None /\ p.rows[f][s] # None /\ p.rows[f][s] # q.rows[f][s] =>
         p.rows[f][s].pass > q.rows[f][s].pass

LEMMA EvidenceTypes ==
  ASSUME NEW q, Good(q)
  PROVE  /\ q.mem \in [Funcs -> [Stages -> Results \cup {None}]]
         /\ q.rows \in [Funcs -> [Stages -> Results \cup {None}]]
         /\ q.fired \in [Funcs -> SUBSET Stages]
         /\ q.hints \in [Funcs -> Hints \cup {None}]
         /\ q.current \in Funcs \cup {None}
         /\ \A f \in Funcs, s \in Stages :
              /\ q.mem[f][s] # None => q.mem[f][s].pass \in Nat
              /\ q.rows[f][s] # None => q.rows[f][s].pass \in Nat
<1>1. /\ q.mem \in [Funcs -> [Stages -> Results \cup {None}]]
      /\ q.rows \in [Funcs -> [Stages -> Results \cup {None}]]
      /\ q.fired \in [Funcs -> SUBSET Stages]
      /\ q.hints \in [Funcs -> Hints \cup {None}]
      /\ q.current \in Funcs \cup {None}
  BY DEF Good, Pipelines, Evidence
<1>2. \A result \in Results : result.pass \in Nat
  BY DEF Results
<1> QED BY <1>1, <1>2

(* Nothing at all is kept of the function entered anew. *)
LEMMA ResetOnce ==
  ASSUME NEW q, Good(q), q.dirty = {}, NEW f \in Funcs, q.current # f, NEW n \in Nat,
         Dated(q, n), \A g \in Funcs, s \in Stages : ~OfPass(q, n, g, s)
  PROVE  LET p == ResetForFunc(q, f, {}).to
         IN  /\ Good(p) /\ p.dirty = {} /\ p.current = f
             /\ Dated(p, n)
             /\ \A g \in Funcs, s \in Stages :
                  /\ ~OfPass(p, n, g, s)
                  /\ p.mem[g][s] \in {q.mem[g][s], None}
                  /\ p.rows[g][s] \in {q.rows[g][s], None}
<1> DEFINE p == ResetForFunc(q, f, {}).to
<1>1. Good(p)
  BY ResetForFuncGood
<1>2. EntersAnew(q, p, f)
  BY ResetAnew
<1> HIDE DEF p
<1>3. \A g \in Funcs, s \in Stages :
        /\ p.mem[g][s] \in {q.mem[g][s], None}
        /\ p.rows[g][s] \in {q.rows[g][s], None}
  <2> TAKE g \in Funcs, s \in Stages
  <2>1. p.rows[g] \in {q.rows[g], NoEvidence} /\ p.mem[g] \in {q.mem[g], NoEvidence}
    <3>1. q.rows \in [Funcs -> [Stages -> Results \cup {None}]]
      BY EvidenceTypes
    <3>2. CASE g = f
      BY <1>2, <3>1, <3>2 DEF EntersAnew
    <3>3. CASE g # f
      BY <1>2, <3>1, <3>3 DEF EntersAnew
    <3> QED BY <3>2, <3>3
  <2>2. NoEvidence[s] = None
    BY DEF NoEvidence
  <2> QED BY <2>1, <2>2
<1>4. Dated(p, n)
  BY <1>3 DEF Dated
<1>5. \A g \in Funcs, s \in Stages : ~OfPass(p, n, g, s)
  BY <1>3 DEF OfPass
<1> QED BY <1>1, <1>2, <1>3, <1>4, <1>5 DEF EntersAnew, p

(* A collection adds to the present pass what its guard did not hold back. *)
LEMMA CollectedOnce ==
  ASSUME NEW q, Good(q), q.dirty = {}, NEW f \in Funcs, NEW s \in Stages, NEW n \in Nat,
         NEW result \in Results \cup {None}, result # None => result.pass = n,
         Dated(q, n), GuardedOf(q, n, f)
  PROVE  LET p == CollectAndAnalyze(q, f, s, result, {}).to
         IN  /\ Good(p) /\ p.dirty = {} /\ p.current = q.current
             /\ Dated(p, n) /\ GuardedOf(p, n, f)
             /\ \A g \in Funcs, t \in Stages :
                  /\ p.mem[g][t] # q.mem[g][t] =>
                       g = f /\ ~OfPass(q, n, g, t) /\ p.mem[g][t] # None /\ p.mem[g][t].pass = n
                  /\ p.rows[g][t] # q.rows[g][t] =>
                       g = f /\ ~OfPass(q, n, g, t) /\ p.rows[g][t] # None /\ p.rows[g][t].pass = n
<1> DEFINE done == CollectAndAnalyze(q, f, s, result, {})
           p == done.to
<1>1. /\ Good(p)
      /\ done.told = (s \notin q.fired[f] /\ result # None)
      /\ Guards(q, p, f, s)
      /\ ~done.told => LearnsNothing(q, p)
      /\ done.told => Learns(q, p, f, s, result)
  BY Collecting
<1> HIDE DEF done
<1>2. /\ p.dirty = {} /\ p.current = q.current
      /\ \A g \in Funcs : q.fired[g] \subseteq p.fired[g]
      /\ s \in p.fired[f]
  BY <1>1, EvidenceTypes DEF Guards
<1>3. ASSUME NEW g \in Funcs, NEW t \in Stages
      PROVE  /\ p.mem[g][t] # q.mem[g][t] =>
                  g = f /\ t = s /\ ~OfPass(q, n, g, t) /\ p.mem[g][t] # None
                  /\ p.mem[g][t].pass = n
             /\ p.rows[g][t] # q.rows[g][t] =>
                  g = f /\ t = s /\ ~OfPass(q, n, g, t) /\ p.rows[g][t] # None
                  /\ p.rows[g][t].pass = n
  <2>1. CASE ~done.told
    BY <1>1, <2>1 DEF LearnsNothing
  <2>2. CASE done.told
    <3>1. ~OfPass(q, n, f, s)
      BY <1>1, <2>2 DEF GuardedOf
    <3>2. CASE g = f /\ t = s
      <4>1. /\ q.mem \in [Funcs -> [Stages -> Results \cup {None}]]
            /\ q.rows \in [Funcs -> [Stages -> Results \cup {None}]]
        BY EvidenceTypes
      <4>2. /\ p.mem[f][s] = result
            /\ p.rows[f][s] = IF Saved(result) THEN result ELSE q.rows[f][s]
        BY <1>1, <2>2, <4>1 DEF Learns
      <4>3. result # None /\ result.pass = n
        BY <1>1, <2>2
      <4> QED BY <3>1, <3>2, <4>2, <4>3
    <3>3. CASE ~(g = f /\ t = s)
      <4>1. p.mem[g][t] = q.mem[g][t] /\ p.rows[g][t] = q.rows[g][t]
        BY <1>1, <2>2, <3>3, EvidenceTypes DEF Learns
      <4> QED BY <4>1
    <3> QED BY <3>2, <3>3
  <2> QED BY <2>1, <2>2
<1>4. Dated(p, n)
  <2> SUFFICES ASSUME NEW g \in Funcs, NEW t \in Stages
               PROVE  /\ p.mem[g][t] # None => p.mem[g][t].pass <= n
                      /\ p.rows[g][t] # None => p.rows[g][t].pass <= n
    BY DEF Dated
  <2> QED BY <1>3 DEF Dated
<1>5. GuardedOf(p, n, f)
  <2> SUFFICES ASSUME NEW g \in Funcs, NEW t \in Stages, OfPass(p, n, g, t)
               PROVE  g = f /\ t \in p.fired[g]
    BY DEF GuardedOf
  <2>1. CASE p.mem[g][t] = q.mem[g][t] /\ p.rows[g][t] = q.rows[g][t]
    BY <1>2, <2>1 DEF OfPass, GuardedOf
  <2>2. CASE ~(p.mem[g][t] = q.mem[g][t] /\ p.rows[g][t] = q.rows[g][t])
    BY <1>2, <1>3, <2>2
  <2> QED BY <2>1, <2>2
<1> QED BY <1>1, <1>2, <1>3, <1>4, <1>5 DEF done

LEMMA SucceedsStep == Succeeds(r, r') => CollectOnceStep
<1> SUFFICES ASSUME Succeeds(r, r'), NEW kept \in {"mem", "rows"}, NEW f \in Funcs,
                    NEW s \in Stages,
                    r[kept][f][s] # None, r'[kept][f][s] # None,
                    r'[kept][f][s] # r[kept][f][s]
             PROVE  r'[kept][f][s].pass > r[kept][f][s].pass
  BY DEF CollectOnceStep
<1>1. CASE kept = "mem"
  BY <1>1 DEF Succeeds
<1>2. CASE kept = "rows"
  BY <1>2 DEF Succeeds
<1> QED BY <1>1, <1>2

LEMMA SameEvidence ==
  ASSUME r'.mem = r.mem, r'.rows = r.rows
  PROVE  Succeeds(r, r')
BY DEF Succeeds

LEMMA MaturityOnce ==
  ASSUME NoFaults, Inv, Once, NEW m \in Managers, func # None, at \in CallsAt[m],
         MaturityChanged(m), UNCHANGED <<func, at, pass>>
  PROVE  Once' /\ Succeeds(r, r')
<1> DEFINE reset == ResetForFunc(r, func, {})
<1>1. /\ func \in Funcs /\ at \in Micro /\ at \in Stages
      /\ Good(r) /\ r.dirty = {} /\ pass \in Nat
  BY MaturityShape, ReconAssumption DEF Once, Inv, Around
<1>2. PICK result \in Results \cup {None} :
        LET done == CollectAndAnalyze(reset.to, func, at, result, {})
        IN  /\ result # None => result.pass = pass
            /\ r' = IF done.told
                    THEN [done.to EXCEPT !.log[func] = @ \cup {"rule_scope"}]
                    ELSE done.to
  BY MaturityShape, <1>1
<1> DEFINE q == reset.to
           done == CollectAndAnalyze(q, func, at, result, {})
           p == done.to
<1>3. /\ Good(q) /\ q.dirty = {} /\ q.current = func /\ Dated(q, pass)
      /\ GuardedOf(q, pass, func)
      /\ \A g \in Funcs, t \in Stages :
           /\ q.mem[g][t] # r.mem[g][t] => q.mem[g][t] = None /\ ~OfPass(r, pass, g, t)
           /\ q.rows[g][t] # r.rows[g][t] => q.rows[g][t] = None /\ ~OfPass(r, pass, g, t)
      /\ \A g \in Funcs, t \in Stages : OfPass(r, pass, g, t) => OfPass(q, pass, g, t)
  <2>1. CASE r.current = func
    <3>1. q = r
      BY <2>1, ResetAgain
    <3> QED BY <1>1, <2>1, <3>1 DEF Once
  <2>2. CASE r.current # func
    <3>1. \A g \in Funcs, t \in Stages : ~OfPass(r, pass, g, t)
      BY <1>1, <2>2 DEF Once
    <3>2. Dated(r, pass)
      BY DEF Once
    <3>3. /\ Good(q) /\ q.dirty = {} /\ q.current = func
          /\ Dated(q, pass)
          /\ \A g \in Funcs, t \in Stages :
               /\ ~OfPass(q, pass, g, t)
               /\ q.mem[g][t] \in {r.mem[g][t], None}
               /\ q.rows[g][t] \in {r.rows[g][t], None}
      BY <1>1, <2>2, <3>1, <3>2, ResetOnce
    <3> HIDE DEF q
    <3> QED BY <3>1, <3>3 DEF GuardedOf
  <2> QED BY <2>1, <2>2
<1> HIDE DEF q
<1>10. result # None => result.pass = pass
  BY <1>2
<1>4. /\ Good(p) /\ p.dirty = {} /\ p.current = func
      /\ Dated(p, pass) /\ GuardedOf(p, pass, func)
      /\ \A g \in Funcs, t \in Stages :
           /\ p.mem[g][t] # q.mem[g][t] =>
                g = func /\ ~OfPass(q, pass, g, t)
                /\ p.mem[g][t] # None /\ p.mem[g][t].pass = pass
           /\ p.rows[g][t] # q.rows[g][t] =>
                g = func /\ ~OfPass(q, pass, g, t)
                /\ p.rows[g][t] # None /\ p.rows[g][t].pass = pass
  BY <1>1, <1>3, <1>10, CollectedOnce
<1>5. r' = IF done.told THEN [p EXCEPT !.log[func] = @ \cup {"rule_scope"}] ELSE p
  BY <1>2 DEF q
<1> HIDE DEF done
<1>6. /\ r'.dirty = p.dirty /\ r'.current = p.current /\ r'.fired = p.fired
      /\ r'.mem = p.mem /\ r'.rows = p.rows
  BY <1>1, <1>4, <1>5, LogFields DEF Logs
<1>7. Succeeds(r, p)
  <2> SUFFICES ASSUME NEW g \in Funcs, NEW t \in Stages
               PROVE  /\ r.mem[g][t] # None /\ p.mem[g][t] # None
                         /\ p.mem[g][t] # r.mem[g][t] => p.mem[g][t].pass > r.mem[g][t].pass
                      /\ r.rows[g][t] # None /\ p.rows[g][t] # None
                         /\ p.rows[g][t] # r.rows[g][t] =>
                           p.rows[g][t].pass > r.rows[g][t].pass
    BY DEF Succeeds
  <2>1. /\ r.mem[g][t] # None => r.mem[g][t].pass \in Nat /\ r.mem[g][t].pass <= pass
        /\ r.rows[g][t] # None => r.rows[g][t].pass \in Nat /\ r.rows[g][t].pass <= pass
    BY <1>1, EvidenceTypes DEF Once, Dated
  <2>2. /\ ~OfPass(r, pass, g, t) /\ r.mem[g][t] # None => r.mem[g][t].pass < pass
        /\ ~OfPass(r, pass, g, t) /\ r.rows[g][t] # None => r.rows[g][t].pass < pass
    BY <1>1, <2>1 DEF OfPass
  <2>3. ASSUME r.mem[g][t] # None, p.mem[g][t] # None, p.mem[g][t] # r.mem[g][t]
        PROVE  p.mem[g][t].pass > r.mem[g][t].pass
    BY <1>1, <1>3, <1>4, <2>1, <2>2, <2>3
  <2>4. ASSUME r.rows[g][t] # None, p.rows[g][t] # None, p.rows[g][t] # r.rows[g][t]
        PROVE  p.rows[g][t].pass > r.rows[g][t].pass
    BY <1>1, <1>3, <1>4, <2>1, <2>2, <2>4
  <2> QED BY <2>3, <2>4
<1>8. Succeeds(r, r')
  BY <1>6, <1>7 DEF Succeeds
<1>9. Once'
  BY <1>4, <1>6 DEF Once, Dated, GuardedOf, OfPass
<1> QED BY <1>8, <1>9

(* mark_decompilation_finished: the outcomes of the current function. *)
Leaves(q, p) ==
  /\ p.current = None /\ p.fired = q.fired /\ p.mem = q.mem /\ p.dirty = q.dirty
  /\ p.rows = q.rows /\ p.hints = q.hints /\ p.log = q.log
  /\ \A f \in Funcs : p.outcomes[f] = IF f = q.current THEN q.outcomes[f] \cup q.log[f]
                                       ELSE q.outcomes[f]

LEMMA FinishFields ==
  ASSUME NoFaults, Inv, r.dirty = {}, Finish
  PROVE  Leaves(r, r')
<1>1. r' = MarkFinished(r, {}) /\ r \in Pipelines
  BY DEF Finish, NoFaults, Inv, Good
<1>2. Flush(r, {}) = r
  BY CleanAnalysis DEF Flush
<1>3. CASE r.current = None
  <2>1. r' = r
    BY <1>1, <1>2, <1>3 DEF MarkFinished
  <2> QED BY <1>3, <2>1, ReconAssumption DEF Leaves
<1>4. CASE r.current # None
  <2>1. r' = [PersistOutcomes(r, r.current) EXCEPT !.current = None]
    BY <1>1, <1>2, <1>4 DEF MarkFinished, OutcomesRaise
  <2>2. r.current \in Funcs
    BY <1>1, <1>4 DEF Pipelines
  <2> DEFINE outcomes == [r.outcomes EXCEPT ![r.current] = @ \cup r.log[r.current]]
             p == [r EXCEPT !.outcomes = outcomes]
  <2>3. PersistOutcomes(r, r.current) = p
    BY <1>1 DEF PersistOutcomes, Pipelines
  <2>4. \A f \in Funcs : outcomes[f] = IF f = r.current THEN r.outcomes[f] \cup r.log[f]
                                       ELSE r.outcomes[f]
    BY <1>1, <2>2 DEF Pipelines
  <2> HIDE DEF outcomes
  <2>6. r' = [r EXCEPT !.outcomes = outcomes, !.current = None]
    BY <1>1, <2>1, <2>3 DEF Pipelines
  <2>7. /\ r'.current = None /\ r'.fired = r.fired /\ r'.mem = r.mem /\ r'.dirty = r.dirty
        /\ r'.rows = r.rows /\ r'.hints = r.hints /\ r'.log = r.log /\ r'.outcomes = outcomes
    BY <1>1, <2>6 DEF Pipelines
  <2> QED BY <2>4, <2>7 DEF Leaves
<1> QED BY <1>3, <1>4

LEMMA CtreeShape ==
  ASSUME NoFaults, Inv, CtreeMaturity
  PROVE  /\ func \in Funcs /\ at \in Stages /\ at \notin Micro /\ at' \notin Micro
         /\ \E result \in Results \cup {None} :
              /\ result # None => result.pass = pass
              /\ r' = CollectAndAnalyze(r, func, at, result, {}).to
<1>1. func \in Funcs /\ at \in Stages /\ at \notin Micro /\ at' \notin Micro
  BY ReconAssumption DEF CtreeMaturity, Ctree, Micro, Stages, Inv, Around
<1>2. PICK result \in Findings, faults \in FaultSets :
        r' = CollectAndAnalyze(r, func, at, result, faults).to
  BY DEF CtreeMaturity
<1>3. faults = {}
  BY DEF NoFaults
<1>4. result \in Results \cup {None}
  BY FindingsTyped DEF Inv, CtreeMaturity
<1>5. result # None => result.pass = pass
  BY DEF Findings
<1> QED BY <1>1, <1>2, <1>3, <1>4, <1>5

LEMMA RunBlockRulesShape ==
  ASSUME Inv, RunBlockRules
  PROVE  func \in Funcs /\ \E gates \in SUBSET {"flow_gate"} : Logs(r, r', func, gates)
<1>1. func \in Funcs /\ Good(r)
  BY DEF RunBlockRules, Inv, Around
<1>2. PICK gates \in SUBSET {"flow_gate"} : r' = [r EXCEPT !.log[func] = @ \cup gates]
  BY DEF RunBlockRules
<1>3. Logs(r, r', func, gates)
  BY <1>1, <1>2, LogFields
<1> QED BY <1>1, <1>3

LEMMA OnceInit == Init => Once
BY DEF Init, Once, NewPipeline, EmptyStore, NoEvidence, Dated

LEMMA OnceStep ==
  ASSUME NoFaults, Inv, Once, [Next]_vars
  PROVE  Once' /\ CollectOnceStep
<1> SUFFICES Once' /\ Succeeds(r, r')
  BY SucceedsStep
<1>1. Good(r) /\ pass \in Nat /\ NMicro \in Nat
  BY ReconAssumption DEF Inv, Around
<1>2. ASSUME NEW f \in Funcs, Decompile(f)
      PROVE  Once' /\ Succeeds(r, r')
  <2>1. r' = r /\ pass' = pass + 1 /\ func' = f /\ Dated(r, pass) /\ r.dirty = {}
    BY <1>2 DEF Decompile, Once
  <2>2. Dated(r, pass + 1) /\ \A g \in Funcs, s \in Stages : ~OfPass(r, pass + 1, g, s)
    BY <1>1, <2>1, EvidenceTypes DEF Dated, OfPass
  <2>3. Dated(r', pass') /\ \A g \in Funcs, s \in Stages : ~OfPass(r', pass', g, s)
    BY <2>1, <2>2
  <2> QED BY <2>1, <2>3, SameEvidence DEF Once, GuardedOf
<1>3. CASE Abort
  BY <1>3, SameEvidence DEF Abort, Once
<1>4. CASE NextMaturity
  BY <1>4, SameEvidence DEF NextMaturity, Once
<1>5. ASSUME NEW m \in Managers, CallManager(m)
      PROVE  Once' /\ Succeeds(r, r')
  <2>1. CASE seen[m] # at
    BY <1>5, <2>1, MaturityOnce DEF CallManager
  <2>2. CASE seen[m] = at
    BY <1>5, <2>2, SameEvidence DEF CallManager, Once
  <2> QED BY <2>1, <2>2
<1>6. CASE RunBlockRules
  <2>1. /\ r'.mem = r.mem /\ r'.rows = r.rows /\ r'.fired = r.fired /\ r'.dirty = r.dirty
        /\ r'.current = r.current
    BY <1>6, RunBlockRulesShape DEF Logs
  <2> QED BY <1>6, <2>1, SameEvidence
          DEF RunBlockRules, decompiler, Once, Dated, GuardedOf, OfPass
<1>7. CASE Finish
  <2>1. /\ r'.mem = r.mem /\ r'.rows = r.rows /\ r'.fired = r.fired /\ r'.dirty = r.dirty
    BY <1>7, FinishFields DEF Leaves, Once
  <2>2. at' \notin Micro /\ func' = func /\ pass' = pass
    BY <1>1, <1>7 DEF Finish, Micro
  <2> QED BY <2>1, <2>2, SameEvidence DEF Once, Dated, GuardedOf, OfPass
<1>8. CASE CtreeMaturity
  <2>1. PICK result \in Results \cup {None} :
          /\ result # None => result.pass = pass
          /\ r' = CollectAndAnalyze(r, func, at, result, {}).to
    BY <1>8, CtreeShape
  <2>2. /\ func \in Funcs /\ at \in Stages /\ at' \notin Micro /\ func' = func /\ pass' = pass
        /\ func # None
    BY <1>8, CtreeShape DEF CtreeMaturity
  <2>3. r.dirty = {} /\ Dated(r, pass) /\ GuardedOf(r, pass, func)
    BY <2>2 DEF Once
  <2>4. /\ r'.dirty = {}
        /\ Dated(r', pass) /\ GuardedOf(r', pass, func)
        /\ \A g \in Funcs, t \in Stages :
             /\ r'.mem[g][t] # r.mem[g][t] => ~OfPass(r, pass, g, t) /\ r'.mem[g][t].pass = pass
             /\ r'.rows[g][t] # r.rows[g][t] => ~OfPass(r, pass, g, t) /\ r'.rows[g][t].pass = pass
    BY <1>1, <2>1, <2>2, <2>3, CollectedOnce
  <2>5. Succeeds(r, r')
    <3> SUFFICES ASSUME NEW g \in Funcs, NEW t \in Stages
                 PROVE  /\ r.mem[g][t] # None /\ r'.mem[g][t] # None
                           /\ r'.mem[g][t] # r.mem[g][t] =>
                             r'.mem[g][t].pass > r.mem[g][t].pass
                        /\ r.rows[g][t] # None /\ r'.rows[g][t] # None
                           /\ r'.rows[g][t] # r.rows[g][t] =>
                             r'.rows[g][t].pass > r.rows[g][t].pass
      BY DEF Succeeds
    <3>1. /\ r.mem[g][t] # None => r.mem[g][t].pass \in Nat /\ r.mem[g][t].pass <= pass
          /\ r.rows[g][t] # None => r.rows[g][t].pass \in Nat /\ r.rows[g][t].pass <= pass
      BY <1>1, <2>3, EvidenceTypes DEF Dated
    <3>2. ~OfPass(r, pass, g, t) =>
            /\ r.mem[g][t] # None => r.mem[g][t].pass < pass
            /\ r.rows[g][t] # None => r.rows[g][t].pass < pass
      BY <1>1, <3>1 DEF OfPass
    <3> QED BY <1>1, <2>4, <3>1, <3>2
  <2> QED BY <2>2, <2>4, <2>5 DEF Once
<1>9. CASE Done
  BY <1>9, SameEvidence DEF Done, Once
<1>10. CASE Restart
  <2>1. /\ r'.mem = [f \in Funcs |-> NoEvidence] /\ r'.rows = r.rows /\ r'.dirty = {}
        /\ func' = None /\ pass' = pass
    BY <1>10 DEF Restart, NewPipeline
  <2>2. \A f \in Funcs, s \in Stages : r'.mem[f][s] = None
    BY <2>1 DEF NoEvidence
  <2> QED BY <2>1, <2>2 DEF Once, Dated, Succeeds
<1>11. CASE UNCHANGED vars
  BY <1>11, SameEvidence DEF vars, decompiler, Once
<1> QED BY <1>2, <1>3, <1>4, <1>5, <1>6, <1>7, <1>8, <1>9, <1>10, <1>11 DEF Next

(* As long as the store does not fail, no maturity is collected twice in one  *)
(* pass, whichever manager asks first and however passes are abandoned and    *)
(* the plugin restarted: the guard _fired of ReconPhase is lost only with the *)
(* evidence it guards (reset_for_func) or with the pass.                      *)
THEOREM MaturitiesAreCollectedOnce == ASSUME NoFaults PROVE Spec => CollectOnce
<1>1. Inv /\ Once /\ [Next]_vars => Inv' /\ Once' /\ CollectOnceStep
  BY StepInv, OnceStep
<1>2. Init => Inv /\ Once
  BY InitInv, OnceInit
<1> QED BY <1>1, <1>2, PTL DEF Spec, CollectOnce

-------------------------------------------------------------------------------
(* The hints are what the analysis makes of the evidence *)

(* What the analysis does not look at. *)
Quiet(result) == result = None \/ result.kind = "blank"

LEMMA InterpretQuiet ==
  ASSUME NEW a \in Evidence, NEW b \in Evidence,
         \A s \in Stages : a[s] = b[s] \/ (Quiet(a[s]) /\ Quiet(b[s]))
  PROVE  Interpret(a) = Interpret(b)
<1>1. Telling(a) = Telling(b)
  BY DEF Telling, Quiet, Stages
<1>2. \A s \in Telling(a) : a[s] = b[s]
  BY DEF Telling, Quiet, Stages
<1>3. {s \in Stages : a[s] # None /\ a[s].kind = "flat"}
      = {s \in Stages : b[s] # None /\ b[s].kind = "flat"}
  BY DEF Quiet
<1>4. {t \in Stages : a[t] # None /\ a[t].kind # "blank"}
      = {t \in Stages : b[t] # None /\ b[t].kind # "blank"}
  BY DEF Quiet
<1>5. \A s \in {t \in Stages : a[t] # None /\ a[t].kind # "blank"} : a[s] = b[s]
  BY DEF Quiet
<1>6. {a[s].pass : s \in {t \in Stages : a[t] # None /\ a[t].kind # "blank"}}
      = {b[s].pass : s \in {t \in Stages : b[t] # None /\ b[t].kind # "blank"}}
  BY <1>4, <1>5
<1>7. (\E s \in Telling(a) : a[s].kind = "flat" /\ \A t \in Telling(a) : t <= s)
      = (\E s \in Telling(b) : b[s].kind = "flat" /\ \A t \in Telling(b) : t <= s)
  BY <1>1, <1>2
<1> QED BY <1>3, <1>6, <1>7 DEF Interpret

(* Metadata is kept in memory only where the store has nothing: no evidence   *)
(* of an older analysis lies beneath it.                                      *)
BlankFits(q) ==
  \A f \in Funcs, s \in Stages :
    q.mem[f][s] # None /\ ~Saved(q.mem[f][s]) => q.rows[f][s] = None

Reflects(q) ==
  \A f \in Funcs : q.hints[f] # None => q.hints[f] = Interpret(Union(q.mem[f], q.rows[f]))

Steady(q) == q.dirty = {} /\ BlankFits(q) /\ Reflects(q)

(* What the store holds for f, f's guard holds back.                          *)
GuardedFor(q, f) == \A s \in Stages : q.rows[f][s] # None => s \in q.fired[f]

(* Forgetting the memory of a function does not change what its analysis says.*)
LEMMA ForgottenSame ==
  ASSUME NEW q, Good(q), BlankFits(q), NEW f \in Funcs
  PROVE  Interpret(Union(NoEvidence, q.rows[f])) = Interpret(Union(q.mem[f], q.rows[f]))
<1>1. q.mem[f] \in Evidence /\ q.rows[f] \in Evidence
  BY DEF Good, Pipelines
<1>2. Union(NoEvidence, q.rows[f]) \in Evidence /\ Union(q.mem[f], q.rows[f]) \in Evidence
  BY <1>1, UnionType, NoneIsNoEvidence
<1>3. ASSUME NEW s \in Stages
      PROVE  LET a == Union(NoEvidence, q.rows[f])[s]
                 b == Union(q.mem[f], q.rows[f])[s]
             IN  a = b \/ (Quiet(a) /\ Quiet(b))
  <2>1. Union(NoEvidence, q.rows[f])[s] = q.rows[f][s]
    BY DEF Union, NoEvidence
  <2>2. Union(q.mem[f], q.rows[f])[s] = IF q.mem[f][s] # None THEN q.mem[f][s] ELSE q.rows[f][s]
    BY DEF Union
  <2>3. CASE q.mem[f][s] = None
    BY <2>1, <2>2, <2>3
  <2>4. CASE Saved(q.mem[f][s])
    BY <2>1, <2>2, <2>4 DEF Good, Backed, Saved
  <2>5. CASE q.mem[f][s] # None /\ ~Saved(q.mem[f][s])
    BY <2>1, <2>2, <2>5 DEF BlankFits, Saved, Quiet
  <2> QED BY <2>3, <2>4, <2>5 DEF Saved
<1> QED BY <1>2, <1>3, InterpretQuiet

LEMMA ResetSteady ==
  ASSUME NEW q, Good(q), Steady(q), NEW f \in Funcs, q.current = f => GuardedFor(q, f)
  PROVE  LET p == ResetForFunc(q, f, {}).to
         IN  Good(p) /\ Steady(p) /\ GuardedFor(p, f) /\ p.current = f
<1>1. CASE q.current = f
  BY <1>1, ResetAgain
<1>2. CASE q.current # f
  <2> DEFINE p == ResetForFunc(q, f, {}).to
  <2>1. Good(p)
    BY ResetForFuncGood
  <2>2. EntersAnew(q, p, f)
    BY <1>2, ResetAnew DEF Steady
  <2> HIDE DEF p
  <2>3. /\ p.rows[f] = NoEvidence /\ p.hints[f] = None /\ p.mem[f] = NoEvidence
        /\ p.fired[f] = {} /\ p.dirty = {} /\ p.current = f
    BY <2>2, EvidenceTypes DEF EntersAnew
  <2>4. ASSUME NEW g \in Funcs \ {f}
        PROVE  /\ p.rows[g] = q.rows[g] /\ p.hints[g] = q.hints[g]
               /\ p.mem[g] \in {q.mem[g], NoEvidence}
    <3>1. /\ q.rows \in [Funcs -> [Stages -> Results \cup {None}]]
          /\ q.hints \in [Funcs -> Hints \cup {None}]
      BY EvidenceTypes
    <3> QED BY <2>2, <3>1 DEF EntersAnew
  <2>5. \A s \in Stages : NoEvidence[s] = None
    BY DEF NoEvidence
  <2>6. BlankFits(p)
    BY <2>3, <2>4, <2>5 DEF BlankFits, Steady
  <2>7. Reflects(p)
    <3> SUFFICES ASSUME NEW g \in Funcs, p.hints[g] # None
                 PROVE  p.hints[g] = Interpret(Union(p.mem[g], p.rows[g]))
      BY DEF Reflects
    <3>1. g # f
      BY <2>3
    <3>2. q.hints[g] = Interpret(Union(q.mem[g], q.rows[g]))
      BY <2>4, <3>1 DEF Steady, Reflects
    <3>3. Interpret(Union(NoEvidence, q.rows[g])) = Interpret(Union(q.mem[g], q.rows[g]))
      BY ForgottenSame DEF Steady
    <3> QED BY <2>4, <3>1, <3>2, <3>3
  <2>8. GuardedFor(p, f)
    BY <2>3, <2>5 DEF GuardedFor
  <2> QED BY <2>1, <2>3, <2>6, <2>7, <2>8 DEF Steady, p
<1> QED BY <1>1, <1>2

LEMMA CollectSteady ==
  ASSUME NEW q, Good(q), Steady(q), NEW f \in Funcs, NEW s \in Stages,
         NEW result \in Results \cup {None}, GuardedFor(q, f)
  PROVE  LET p == CollectAndAnalyze(q, f, s, result, {}).to
         IN  /\ Good(p) /\ Steady(p) /\ p.current = q.current
             /\ \A g \in Funcs : GuardedFor(q, g) => GuardedFor(p, g)
<1> DEFINE done == CollectAndAnalyze(q, f, s, result, {})
           p == done.to
<1>1. /\ Good(p)
      /\ done.told = (s \notin q.fired[f] /\ result # None)
      /\ Guards(q, p, f, s)
      /\ ~done.told => LearnsNothing(q, p)
      /\ done.told => result \in Results /\ Learns(q, p, f, s, result)
  BY Collecting DEF Steady
<1> HIDE DEF done
<1>2. /\ p.dirty = {} /\ p.current = q.current /\ s \in p.fired[f]
      /\ \A g \in Funcs : q.fired[g] \subseteq p.fired[g]
  BY <1>1, EvidenceTypes DEF Guards
<1>3. CASE ~done.told
  <2>1. p.mem = q.mem /\ p.rows = q.rows /\ p.hints = q.hints
    BY <1>1, <1>3 DEF LearnsNothing
  <2>2. Steady(p)
    BY <1>2, <2>1 DEF Steady, BlankFits, Reflects
  <2>3. \A g \in Funcs : GuardedFor(q, g) => GuardedFor(p, g)
    BY <1>2, <2>1 DEF GuardedFor
  <2> QED BY <1>1, <1>2, <2>2, <2>3 DEF done
<1>4. CASE done.told
  <2>1. s \notin q.fired[f] /\ result # None /\ result \in Results /\ q.rows[f][s] = None
    BY <1>1, <1>4 DEF GuardedFor
  <2>2. /\ q.mem \in [Funcs -> [Stages -> Results \cup {None}]]
        /\ q.rows \in [Funcs -> [Stages -> Results \cup {None}]]
        /\ q.hints \in [Funcs -> Hints \cup {None}]
    BY EvidenceTypes
  <2>3. /\ p.mem[f][s] = result
        /\ p.rows[f][s] = IF Saved(result) THEN result ELSE None
        /\ p.hints[f] = Interpret(Union(p.mem[f], p.rows[f]))
    BY <1>1, <1>4, <2>1, <2>2 DEF Learns
  <2>4. ASSUME NEW t \in Stages, t # s
        PROVE  p.mem[f][t] = q.mem[f][t] /\ p.rows[f][t] = q.rows[f][t]
    BY <1>1, <1>4, <2>2, <2>4 DEF Learns
  <2>5. ASSUME NEW g \in Funcs \ {f}
        PROVE  p.mem[g] = q.mem[g] /\ p.rows[g] = q.rows[g] /\ p.hints[g] = q.hints[g]
    BY <1>1, <1>4, <2>2 DEF Learns
  <2>6. BlankFits(p)
    <3> SUFFICES ASSUME NEW g \in Funcs, NEW t \in Stages, p.mem[g][t] # None,
                        ~Saved(p.mem[g][t])
                 PROVE  p.rows[g][t] = None
      BY DEF BlankFits
    <3>1. CASE g = f /\ t = s
      BY <2>3, <3>1
    <3>2. CASE g = f /\ t # s
      BY <2>4, <3>2 DEF Steady, BlankFits
    <3>3. CASE g # f
      BY <2>5, <3>3 DEF Steady, BlankFits
    <3> QED BY <3>1, <3>2, <3>3
  <2>7. Reflects(p)
    BY <2>3, <2>5 DEF Steady, Reflects
  <2>8. ASSUME NEW g \in Funcs, GuardedFor(q, g)
        PROVE  GuardedFor(p, g)
    <3> SUFFICES ASSUME NEW t \in Stages, p.rows[g][t] # None
                 PROVE  t \in p.fired[g]
      BY DEF GuardedFor
    <3>1. CASE g = f /\ t = s
      BY <1>2, <3>1
    <3>2. CASE g = f /\ t # s
      BY <1>2, <2>4, <2>8, <3>2 DEF GuardedFor
    <3>3. CASE g # f
      BY <1>2, <2>5, <2>8, <3>3 DEF GuardedFor
    <3> QED BY <3>1, <3>2, <3>3
  <2> QED BY <1>1, <1>2, <2>6, <2>7, <2>8 DEF Steady, done
<1> QED BY <1>3, <1>4

(* The maturities of the present pass a manager was called at. *)
Past(m) == {k \in CallsAt[m] : k < at \/ (k = at /\ m \in called)}

(* A manager knows the last of them, ...                                      *)
Watched ==
  func # None =>
    \A m \in Managers : \A k \in Past(m) : seen[m] \in Past(m) /\ k <= seen[m]

(* ... so that the second of them, if not the first, was new to it and made   *)
(* the function the current one.                                              *)
EnteredByTwo ==
  func # None /\ at \in Micro =>
    \A m \in Managers : \A j, k \in Past(m) : j < k => r.current = func

GuardsHold ==
  \A f \in Funcs : f = r.current \/ (f = func /\ at \notin Micro) => GuardedFor(r, f)

Reflected == Watched /\ EnteredByTwo /\ GuardsHold /\ Steady(r)

LEMMA CallsTyped ==
  ASSUME NEW m \in Managers, NEW k \in CallsAt[m]
  PROVE  k \in Micro /\ k \in Nat /\ 1 <= k /\ k <= NMicro
BY SessionAssumption, ReconAssumption DEF Micro

LEMMA WatchedStep ==
  ASSUME Inv, Watched, [Next]_vars
  PROVE  Watched'
<1> USE DEF Watched
<1>1. at \in Nat /\ NMicro \in Nat /\ called \subseteq Managers
      /\ seen \in [Managers -> Micro \cup {None}]
  BY ReconAssumption DEF Inv, Around
<1>2. ASSUME NEW f \in Funcs, Decompile(f)
      PROVE  Watched'
  <2>1. \A m \in Managers : Past(m)' = {}
    BY <1>2, CallsTyped DEF Decompile, Past
  <2> QED BY <2>1
<1>3. ASSUME func' = func, seen' = seen, \A m \in Managers : Past(m)' = Past(m)
      PROVE  Watched'
  BY <1>3
<1>4. CASE NextMaturity
  <2>1. \A m \in Managers : Past(m)' = Past(m)
    BY <1>1, <1>4, CallsTyped DEF NextMaturity, AllCalled, Past
  <2> QED BY <1>3, <1>4, <2>1 DEF NextMaturity
<1>5. ASSUME NEW m \in Managers, CallManager(m)
      PROVE  Watched'
  <2>1. seen'[m] = at /\ \A n \in Managers \ {m} : seen'[n] = seen[n]
    BY <1>1, <1>5 DEF CallManager, MaturityChanged
  <2>2. at \in CallsAt[m] /\ func' = func /\ func # None
    BY <1>5 DEF CallManager
  <2>3. Past(m)' = Past(m) \cup {at} /\ \A k \in Past(m) : k <= at
    BY <1>1, <1>5, <2>2, CallsTyped DEF CallManager, Past
  <2>4. \A n \in Managers \ {m} : Past(n)' = Past(n)
    BY <1>5 DEF CallManager, Past
  <2> QED BY <1>1, <2>1, <2>2, <2>3, <2>4
<1>6. CASE RunBlockRules
  BY <1>6 DEF RunBlockRules, decompiler, Past
<1>7. CASE Finish
  <2>1. \A m \in Managers : Past(m)' = Past(m)
    BY <1>1, <1>7, CallsTyped DEF Finish, AllCalled, Past
  <2> QED BY <1>3, <1>7, <2>1 DEF Finish
<1>8. CASE CtreeMaturity
  <2>1. \A m \in Managers : Past(m)' = Past(m)
    BY <1>1, <1>8, CallsTyped DEF CtreeMaturity, Ctree, Past
  <2> QED BY <1>3, <1>8, <2>1 DEF CtreeMaturity
<1>9. CASE Abort \/ Done \/ Restart
  BY <1>9 DEF Abort, Done, Restart
<1>10. CASE UNCHANGED vars
  BY <1>10 DEF vars, decompiler, Past
<1> QED BY <1>2, <1>4, <1>5, <1>6, <1>7, <1>8, <1>9, <1>10 DEF Next

(* By the end of the microcode part every pass was noticed. *)
LEMMA FinishEntered ==
  ASSUME EveryPassNoticed, Inv, EnteredByTwo, Finish
  PROVE  r.current = func
<1>1. PICK m \in Managers : 1 \in CallsAt[m]
  BY DEF EveryPassNoticed
<1>2. 1 \in Micro /\ CallsAt[m] # {1}
  BY <1>1, CallsTyped DEF EveryPassNoticed
<1>3. PICK k \in CallsAt[m] : k # 1
  BY <1>1, <1>2
<1>4. at = NMicro /\ NMicro \in Nat /\ at \in Micro /\ func # None /\ AllCalled
  BY <1>2, ReconAssumption DEF Finish, Micro
<1>5. 1 \in Past(m) /\ k \in Past(m) /\ 1 < k
  BY <1>1, <1>3, <1>4, CallsTyped DEF Past, AllCalled
<1> QED BY <1>4, <1>5 DEF EnteredByTwo

LEMMA MaturitySteady ==
  ASSUME NoFaults, Inv, Steady(r), GuardsHold, NEW m \in Managers, func # None,
         at \in CallsAt[m], MaturityChanged(m)
  PROVE  Steady(r') /\ GuardedFor(r', func) /\ r'.current = func
<1>1. func \in Funcs /\ at \in Stages /\ Good(r) /\ r.dirty = {}
  BY MaturityShape DEF Steady, Inv
<1> DEFINE reset == ResetForFunc(r, func, {})
           q == reset.to
<1>2. PICK result \in Results \cup {None} :
        LET done == CollectAndAnalyze(q, func, at, result, {})
        IN  r' = IF done.told THEN [done.to EXCEPT !.log[func] = @ \cup {"rule_scope"}]
                 ELSE done.to
  BY MaturityShape, <1>1
<1> DEFINE done == CollectAndAnalyze(q, func, at, result, {})
           p == done.to
<1>3. Good(q) /\ Steady(q) /\ GuardedFor(q, func) /\ q.current = func
  <2>1. r.current = func => GuardedFor(r, func)
    BY <1>1 DEF GuardsHold
  <2> QED BY <1>1, <2>1, ResetSteady
<1> HIDE DEF q
<1>4. Good(p) /\ Steady(p) /\ p.current = func /\ GuardedFor(p, func)
  BY <1>1, <1>3, CollectSteady
<1>5. r' = IF done.told THEN [p EXCEPT !.log[func] = @ \cup {"rule_scope"}] ELSE p
  BY <1>2 DEF q
<1> HIDE DEF done
<1>6. /\ r'.dirty = p.dirty /\ r'.current = p.current /\ r'.fired = p.fired
      /\ r'.mem = p.mem /\ r'.rows = p.rows /\ r'.hints = p.hints
  BY <1>1, <1>4, <1>5, LogFields DEF Logs
<1> QED BY <1>4, <1>6 DEF Steady, BlankFits, Reflects, GuardedFor

LEMMA ReflectedInit == EveryPassNoticed /\ Init => Reflected
<1> SUFFICES ASSUME EveryPassNoticed, Init
             PROVE  Reflected
  OBVIOUS
<1>1. 1 \in Micro
  BY CallsTyped DEF EveryPassNoticed
<1>2. func = None /\ at = 1 /\ Watched /\ EnteredByTwo
  BY DEF Init, Watched, EnteredByTwo
<1>3. \A f \in Funcs : /\ r.hints[f] = None
                       /\ \A s \in Stages : r.rows[f][s] = None /\ r.mem[f][s] = None
  BY DEF Init, NewPipeline, EmptyStore, NoEvidence
<1>4. r.dirty = {}
  BY DEF Init, NewPipeline
<1>5. GuardsHold
  BY <1>3 DEF GuardsHold, GuardedFor
<1>6. BlankFits(r) /\ Reflects(r)
  BY <1>3 DEF BlankFits, Reflects
<1> QED BY <1>2, <1>4, <1>5, <1>6 DEF Reflected, Steady

LEMMA ReflectedStep ==
  ASSUME NoFaults, EveryPassNoticed, Inv, Reflected, [Next]_vars
  PROVE  Reflected'
<1> DEFINE Rest == EnteredByTwo' /\ GuardsHold' /\ Steady(r')
<1>1. Watched'
  BY WatchedStep DEF Reflected
<1>2. /\ Good(r) /\ Watched /\ EnteredByTwo /\ GuardsHold /\ Steady(r)
      /\ at \in Nat /\ NMicro \in Nat /\ called \subseteq Managers
      /\ func \in Funcs \cup {None}
  BY ReconAssumption DEF Inv, Around, Reflected
<1>3. 1 \in Micro
  BY CallsTyped DEF EveryPassNoticed
<1> SUFFICES Rest
  BY <1>1 DEF Reflected
<1>4. ASSUME NEW f \in Funcs, Decompile(f)
      PROVE  Rest
  <2>1. r' = r /\ func' = f /\ at' = 1 /\ called' = {}
    BY <1>4 DEF Decompile
  <2>2. \A m \in Managers : Past(m)' = {}
    BY <2>1, CallsTyped DEF Past
  <2>3. EnteredByTwo'
    BY <2>2 DEF EnteredByTwo
  <2> QED BY <1>2, <1>3, <2>1, <2>3 DEF GuardsHold
<1>5. CASE Abort \/ Done
  <2>1. r' = r /\ func' = None
    BY <1>5 DEF Abort, Done
  <2>2. GuardsHold'
    BY <1>2, <2>1, ReconAssumption DEF GuardsHold
  <2> QED BY <1>2, <2>1, <2>2 DEF EnteredByTwo
<1>6. CASE NextMaturity
  <2>1. r' = r /\ func' = func /\ func # None /\ at \in Micro /\ at' \in Micro
    BY <1>2, <1>6 DEF NextMaturity, Micro
  <2>2. \A m \in Managers : Past(m)' = Past(m)
    BY <1>2, <1>6, CallsTyped DEF NextMaturity, AllCalled, Past
  <2>3. EnteredByTwo'
    BY <1>2, <2>1, <2>2 DEF EnteredByTwo
  <2>4. GuardsHold'
    BY <1>2, <2>1 DEF GuardsHold
  <2> QED BY <1>2, <2>1, <2>3, <2>4
<1>7. ASSUME NEW m \in Managers, CallManager(m)
      PROVE  Rest
  <2>1. /\ func' = func /\ at' = at /\ func # None /\ func \in Funcs
        /\ at \in CallsAt[m] /\ at \in Micro
    BY <1>2, <1>7, CallsTyped DEF CallManager
  <2>2. CASE seen[m] # at
    <3>1. Steady(r') /\ GuardedFor(r', func) /\ r'.current = func
      BY <1>2, <1>7, <2>1, <2>2, MaturitySteady DEF CallManager
    <3> QED BY <2>1, <3>1 DEF EnteredByTwo, GuardsHold
  <2>3. CASE seen[m] = at
    <3>1. r' = r
      BY <1>7, <2>3 DEF CallManager
    <3>2. \A n \in Managers \ {m} : Past(n)' = Past(n)
      BY <1>7 DEF CallManager, Past
    <3>3. Past(m) = {}
      BY <1>2, <1>7, <2>1, <2>3 DEF Watched, Past, CallManager
    <3>4. Past(m)' \subseteq {at}
      BY <1>7, <3>3 DEF CallManager, Past
    <3>5. EnteredByTwo'
      BY <1>2, <2>1, <3>1, <3>2, <3>4 DEF EnteredByTwo
    <3> QED BY <1>2, <2>1, <3>1, <3>5 DEF GuardsHold
  <2> QED BY <2>2, <2>3
<1>8. CASE RunBlockRules
  <2>1. /\ r'.mem = r.mem /\ r'.rows = r.rows /\ r'.fired = r.fired /\ r'.dirty = r.dirty
        /\ r'.current = r.current /\ r'.hints = r.hints
    BY <1>8, RunBlockRulesShape DEF Logs, Inv
  <2>2. func' = func /\ at' = at /\ called' = called
    BY <1>8 DEF RunBlockRules, decompiler
  <2>3. EnteredByTwo'
    BY <1>2, <2>1, <2>2 DEF EnteredByTwo, Past
  <2> QED BY <1>2, <2>1, <2>2, <2>3 DEF GuardsHold, GuardedFor, Steady, BlankFits, Reflects
<1>9. CASE Finish
  <2>1. Leaves(r, r')
    BY <1>2, <1>9, FinishFields DEF Steady
  <2>2. func' = func /\ at' \notin Micro
    BY <1>2, <1>9 DEF Finish, Micro
  <2>3. r.current = func
    BY <1>2, <1>9, FinishEntered
  <2>4. GuardsHold'
    BY <1>2, <2>1, <2>2, <2>3, ReconAssumption DEF GuardsHold, GuardedFor, Leaves
  <2> QED BY <1>2, <2>1, <2>2, <2>4 DEF EnteredByTwo, Steady, BlankFits, Reflects, Leaves
<1>10. CASE CtreeMaturity
  <2>1. /\ func \in Funcs /\ at \in Stages /\ at \notin Micro /\ at' \notin Micro
        /\ func' = func
    BY <1>10, CtreeShape DEF CtreeMaturity
  <2>2. PICK result \in Results \cup {None} :
          r' = CollectAndAnalyze(r, func, at, result, {}).to
    BY <1>10, CtreeShape
  <2>3. GuardedFor(r, func)
    BY <1>2, <2>1 DEF GuardsHold
  <2>4. /\ Steady(r') /\ r'.current = r.current
        /\ \A g \in Funcs : GuardedFor(r, g) => GuardedFor(r', g)
    BY <1>2, <2>1, <2>2, <2>3, CollectSteady
  <2> QED BY <1>2, <2>1, <2>4 DEF EnteredByTwo, GuardsHold
<1>11. CASE Restart
  <2>1. /\ r'.mem = [f \in Funcs |-> NoEvidence] /\ r'.rows = r.rows /\ r'.dirty = {}
        /\ r'.hints = r.hints /\ r'.current = None /\ func' = None
    BY <1>11 DEF Restart, NewPipeline
  <2>2. GuardsHold' /\ EnteredByTwo'
    BY <2>1, ReconAssumption DEF GuardsHold, EnteredByTwo
  <2>3. BlankFits(r')
    BY <2>1 DEF BlankFits, NoEvidence
  <2>4. Reflects(r')
    <3> SUFFICES ASSUME NEW f \in Funcs, r'.hints[f] # None
                 PROVE  r'.hints[f] = Interpret(Union(r'.mem[f], r'.rows[f]))
      BY DEF Reflects
    <3>1. r.hints[f] = Interpret(Union(r.mem[f], r.rows[f]))
      BY <1>2, <2>1 DEF Steady, Reflects
    <3>2. Interpret(Union(NoEvidence, r.rows[f])) = Interpret(Union(r.mem[f], r.rows[f]))
      BY <1>2, ForgottenSame DEF Steady
    <3> QED BY <2>1, <3>1, <3>2
  <2> QED BY <2>1, <2>2, <2>3, <2>4 DEF Steady
<1>12. CASE UNCHANGED vars
  BY <1>2, <1>12 DEF vars, decompiler, EnteredByTwo, GuardsHold, Past
<1> QED BY <1>4, <1>5, <1>6, <1>7, <1>8, <1>9, <1>10, <1>11, <1>12 DEF Next

(* The stored hints of every function that is not marked dirty are what the   *)
(* analysis makes of its evidence, in sessions of any length and with any     *)
(* passes abandoned: analyze_dirty_and_persist follows every ingest_results,  *)
(* reset_for_func clears rows and hints together, and the memory it forgets   *)
(* adds nothing the rows do not hold.                                         *)
THEOREM HintsAlwaysReflectEvidence ==
  ASSUME NoFaults, EveryPassNoticed
  PROVE  Spec => []HintsReflectEvidence
<1>1. Inv /\ Reflected /\ [Next]_vars => Inv' /\ Reflected'
  BY StepInv, ReflectedStep
<1>2. Init => Inv /\ Reflected
  BY InitInv, ReflectedInit
<1>3. Reflected => HintsReflectEvidence
  BY DEF Reflected, Steady, Reflects, HintsReflectEvidence
<1> QED BY <1>1, <1>2, <1>3, PTL DEF Spec

-------------------------------------------------------------------------------
(* Passes that are all completed *)

(* All of the evidence of a function is of the pass numbered n. *)
PassOnly(q, f, n) ==
  \A s \in Stages :
    /\ q.rows[f][s] # None => q.rows[f][s].pass = n
    /\ q.mem[f][s] # None => q.mem[f][s].pass = n

(* Between two passes a manager stands at the last of its maturities; before  *)
(* the first call of a pass no function is current.                           *)
SeenEnds ==
  \A m \in Managers :
    func = None \/ Past(m) = {} => seen[m] = None \/ \A k \in CallsAt[m] : k <= seen[m]

CurrentIsFunc == r.current = IF Begun THEN func ELSE None

InPass ==
  Begun =>
    /\ PassOnly(r, func, pass)
    /\ applied[func] = r.hints[func]
    /\ "block" \in called =>
         /\ at \in r.fired[func]
         /\ InContext => context.summary = r.hints[func]

Tidy == ~abandoned => SeenEnds /\ CurrentIsFunc /\ InPass

(* A manager notices every maturity it is called at. *)
LEMMA Notices ==
  ASSUME EveryPassNoticed, Inv, Watched, SeenEnds, NEW m \in Managers, CallManager(m)
  PROVE  seen[m] # at
<1> SUFFICES ASSUME seen[m] = at
             PROVE  FALSE
  OBVIOUS
<1>1. at \in CallsAt[m] /\ m \notin called /\ func # None /\ at \in Micro
  BY CallsTyped DEF CallManager
<1>2. at \notin Past(m)
  BY <1>1, CallsTyped DEF Past
<1>3. Past(m) = {}
  BY <1>1, <1>2 DEF Watched
<1>4. \A k \in CallsAt[m] : k <= at
  BY <1>1, <1>3, NoneAssumption DEF SeenEnds, Stages
<1>5. \A k \in CallsAt[m] : k = at
  BY <1>1, <1>3, <1>4, CallsTyped DEF Past
<1>6. CallsAt[m] = {at}
  BY <1>1, <1>5
<1> QED BY <1>1, <1>6 DEF EveryPassNoticed

LEMMA SeenEndsStep ==
  ASSUME Inv, Watched, SeenEnds, [Next]_vars, ~abandoned'
  PROVE  SeenEnds'
<1> USE DEF SeenEnds
<1>1. at \in Nat /\ NMicro \in Nat /\ NCtree \in Nat /\ called \subseteq Managers
      /\ seen \in [Managers -> Micro \cup {None}]
  BY ReconAssumption DEF Inv, Around
<1>2. ASSUME NEW f \in Funcs, Decompile(f)
      PROVE  SeenEnds'
  BY <1>2 DEF Decompile
<1>3. ASSUME func' = func, seen' = seen, \A m \in Managers : Past(m)' = Past(m)
      PROVE  SeenEnds'
  BY <1>3
<1>4. CASE NextMaturity
  <2>1. \A m \in Managers : Past(m)' = Past(m)
    BY <1>1, <1>4, CallsTyped DEF NextMaturity, AllCalled, Past
  <2> QED BY <1>3, <1>4, <2>1 DEF NextMaturity
<1>5. ASSUME NEW m \in Managers, CallManager(m)
      PROVE  SeenEnds'
  <2>1. \A n \in Managers \ {m} : seen'[n] = seen[n]
    BY <1>1, <1>5 DEF CallManager, MaturityChanged
  <2>2. func' = func /\ func # None
    BY <1>5 DEF CallManager
  <2>3. Past(m)' # {}
    BY <1>5, <1>1, CallsTyped DEF CallManager, Past
  <2>4. \A n \in Managers \ {m} : Past(n)' = Past(n)
    BY <1>5 DEF CallManager, Past
  <2> QED BY <2>1, <2>2, <2>3, <2>4
<1>6. CASE RunBlockRules
  BY <1>6 DEF RunBlockRules, decompiler, Past
<1>7. CASE Finish
  <2>1. \A m \in Managers : Past(m)' = Past(m)
    BY <1>1, <1>7, CallsTyped DEF Finish, AllCalled, Past
  <2> QED BY <1>3, <1>7, <2>1 DEF Finish
<1>8. CASE CtreeMaturity
  <2>1. \A m \in Managers : Past(m)' = Past(m)
    BY <1>1, <1>8, CallsTyped DEF CtreeMaturity, Ctree, Past
  <2> QED BY <1>3, <1>8, <2>1 DEF CtreeMaturity
<1>9. CASE Abort
  BY <1>9 DEF Abort
<1>10. CASE Done
  <2>1. \A m \in Managers : CallsAt[m] = Past(m)
    BY <1>1, <1>10, CallsTyped DEF Done, Past
  <2> QED BY <1>10, <2>1 DEF Done, Watched
<1>11. CASE Restart
  BY <1>11 DEF Restart
<1>12. CASE UNCHANGED vars
  BY <1>12 DEF vars, decompiler, Past
<1> QED BY <1>2, <1>4, <1>5, <1>6, <1>7, <1>8, <1>9, <1>10, <1>11, <1>12 DEF Next

(* A maturity of a pass the runtime has entered, or enters now. *)
LEMMA MaturityTidy ==
  ASSUME NoFaults, Inv, r.dirty = {}, CurrentIsFunc, InPass,
         NEW m \in Managers, func # None, at \in CallsAt[m], MaturityChanged(m)
  PROVE  /\ PassOnly(r', func, pass)
         /\ applied'[func] = r'.hints[func]
         /\ r'.current = func
         /\ at \in r'.fired[func]
         /\ Begun /\ at \in r.fired[func] => r'.hints[func] = r.hints[func]
<1>1. func \in Funcs /\ at \in Stages /\ Good(r)
  BY MaturityShape DEF Inv
<1> DEFINE reset == ResetForFunc(r, func, {})
           q == reset.to
<1>2. PICK result \in Results \cup {None} :
        LET done == CollectAndAnalyze(q, func, at, result, {})
        IN  /\ result # None => result.pass = pass
            /\ r' = IF done.told THEN [done.to EXCEPT !.log[func] = @ \cup {"rule_scope"}]
                    ELSE done.to
            /\ applied' = [applied EXCEPT ![func] = HintsInForce(applied[func], reset, done)]
  BY MaturityShape, <1>1
<1> DEFINE done == CollectAndAnalyze(q, func, at, result, {})
           p == done.to
<1>3. /\ Good(q) /\ q.dirty = {} /\ q.current = func
      /\ PassOnly(q, func, pass)
      /\ (IF reset.did THEN None ELSE applied[func]) = q.hints[func]
      /\ Begun => q = r
  <2>1. CASE Begun
    <3>1. reset = [to |-> r, did |-> FALSE] /\ r.current = func
      BY <2>1, ResetAgain DEF CurrentIsFunc
    <3> QED BY <1>1, <2>1, <3>1 DEF InPass
  <2>2. CASE ~Begun
    <3>1. r.current # func
      BY <1>1, <2>2, ReconAssumption DEF CurrentIsFunc
    <3>2. Good(q)
      BY <1>1, ResetForFuncGood
    <3>3. reset.did = TRUE /\ EntersAnew(r, q, func)
      BY <1>1, <3>1, ResetAnew
    <3> HIDE DEF reset
    <3>4. q.rows[func] = NoEvidence /\ q.mem[func] = NoEvidence /\ q.hints[func] = None
      BY <1>1, <3>3, EvidenceTypes DEF EntersAnew
    <3>5. PassOnly(q, func, pass)
      BY <3>4 DEF PassOnly, NoEvidence
    <3> QED BY <2>2, <3>2, <3>3, <3>4, <3>5 DEF EntersAnew
  <2> QED BY <2>1, <2>2
<1>4. /\ Good(p)
      /\ done.told = (at \notin q.fired[func] /\ result # None)
      /\ Guards(q, p, func, at)
      /\ ~done.told => LearnsNothing(q, p)
      /\ done.told => Learns(q, p, func, at, result)
  <2> HIDE DEF q
  <2> QED BY <1>1, <1>3, Collecting
<1>5. /\ r' = IF done.told THEN [p EXCEPT !.log[func] = @ \cup {"rule_scope"}] ELSE p
      /\ applied'[func] = HintsInForce(applied[func], reset, done)
      /\ result # None => result.pass = pass
  BY <1>1, <1>2 DEF Inv, Around
<1> HIDE DEF reset, done
<1>6. /\ r'.current = p.current /\ r'.fired = p.fired /\ r'.mem = p.mem /\ r'.rows = p.rows
      /\ r'.hints = p.hints /\ r'.cached = p.cached
  <2>1. CASE done.told
    <3>1. Logs(p, r', func, {"rule_scope"})
      BY <1>1, <1>4, <1>5, <2>1, LogFields
    <3> QED BY <3>1 DEF Logs
  <2>2. CASE ~done.told
    BY <1>5, <2>2
  <2> QED BY <2>1, <2>2
<1>7. r'.current = func /\ at \in r'.fired[func]
  <2>1. p.current = func
    BY <1>3, <1>4 DEF Guards
  <2>2. at \in p.fired[func]
    BY <1>1, <1>3, <1>4, EvidenceTypes DEF Guards
  <2> QED BY <1>6, <2>1, <2>2
<1>8. PassOnly(r', func, pass)
  <2>1. CASE ~done.told
    BY <1>3, <1>4, <1>6, <2>1 DEF LearnsNothing, PassOnly
  <2>2. CASE done.told
    <3> SUFFICES ASSUME NEW t \in Stages
                 PROVE  /\ p.rows[func][t] # None => p.rows[func][t].pass = pass
                        /\ p.mem[func][t] # None => p.mem[func][t].pass = pass
      BY <1>6 DEF PassOnly
    <3>1. /\ q.mem \in [Funcs -> [Stages -> Results \cup {None}]]
          /\ q.rows \in [Funcs -> [Stages -> Results \cup {None}]]
      BY <1>3, EvidenceTypes
    <3>2. /\ p.mem[func][t] = IF t = at THEN result ELSE q.mem[func][t]
          /\ p.rows[func][t] = IF t = at /\ Saved(result) THEN result ELSE q.rows[func][t]
      BY <1>1, <1>4, <2>2, <3>1 DEF Learns
    <3> QED BY <1>3, <1>5, <3>2 DEF PassOnly
  <2> QED BY <2>1, <2>2
<1>9. applied'[func] = r'.hints[func]
  <2>1. CASE ~done.told
    <3>1. applied'[func] = IF reset.did THEN None ELSE applied[func]
      BY <1>5, <2>1 DEF HintsInForce
    <3> QED BY <1>3, <1>4, <1>6, <2>1, <3>1 DEF LearnsNothing
  <2>2. CASE done.told
    <3>1. applied'[func] = p.cached[func]
      BY <1>5, <2>2 DEF HintsInForce
    <3> QED BY <1>4, <1>6, <2>2, <3>1 DEF Learns
  <2> QED BY <2>1, <2>2
<1>10. ASSUME Begun, at \in r.fired[func]
       PROVE  r'.hints[func] = r.hints[func]
  BY <1>3, <1>4, <1>6, <1>10 DEF LearnsNothing
<1> QED BY <1>7, <1>8, <1>9, <1>10

LEMMA TidyInit == Init => Tidy
<1> SUFFICES ASSUME Init
             PROVE  Tidy
  OBVIOUS
<1>1. /\ func = None /\ \A m \in Managers : seen[m] = None
      /\ r.current = None
  BY DEF Init, NewPipeline
<1> QED BY <1>1 DEF Tidy, SeenEnds, CurrentIsFunc, InPass, Begun

LEMMA TidyStep ==
  ASSUME NoFaults, EveryPassNoticed, Inv, Reflected, Tidy, [Next]_vars
  PROVE  Tidy'
<1> DEFINE Rest == CurrentIsFunc' /\ InPass'
<1> SUFFICES ASSUME ~abandoned'
             PROVE  SeenEnds' /\ Rest
  BY DEF Tidy
<1>1. CASE Restart
  <2>1. /\ \A m \in Managers : seen'[m] = None
        /\ func' = None /\ r'.current = None
    BY <1>1 DEF Restart, NewPipeline
  <2> QED BY <2>1 DEF SeenEnds, CurrentIsFunc, InPass, Begun
<1> SUFFICES ASSUME ~Restart
             PROVE  SeenEnds' /\ Rest
  BY <1>1
<1>2. CASE UNCHANGED vars
  BY <1>2 DEF vars, decompiler, Tidy, SeenEnds, CurrentIsFunc, InPass, Begun, InContext, Past
<1> SUFFICES ASSUME Next
             PROVE  SeenEnds' /\ Rest
  BY <1>2
<1>3. ~abandoned
  BY DEF Next, Decompile, Abort, NextMaturity, CallManager, RunBlockRules, Finish,
         CtreeMaturity, Done, decompiler
<1>4. SeenEnds /\ CurrentIsFunc /\ InPass /\ Watched /\ r.dirty = {}
  BY <1>3 DEF Tidy, Reflected, Steady
<1>5. SeenEnds'
  BY <1>4, SeenEndsStep
<1> SUFFICES Rest
  BY <1>5
<1>6. /\ at \in Nat /\ 1 <= at /\ NMicro \in Nat /\ called \subseteq Managers
      /\ func \in Funcs \cup {None} /\ Good(r)
  BY ReconAssumption DEF Inv, Around
<1>7. ASSUME NEW f \in Funcs, Decompile(f)
      PROVE  Rest
  <2>1. ~Begun /\ ~Begun' /\ r' = r
    BY <1>7 DEF Decompile, Begun
  <2> QED BY <1>4, <2>1 DEF CurrentIsFunc, InPass
<1>8. CASE Abort
  BY <1>8 DEF Abort
<1>9. CASE NextMaturity
  <2>1. r' = r /\ func' = func /\ pass' = pass /\ applied' = applied /\ called' = {}
    BY <1>9 DEF NextMaturity
  <2>2. Begun
    BY <1>6, <1>9 DEF NextMaturity, AllCalled, Begun, EveryPassNoticed
  <2>3. Begun'
    BY <1>6, <1>9 DEF NextMaturity, Begun, Micro
  <2> QED BY <1>4, <2>1, <2>2, <2>3 DEF CurrentIsFunc, InPass
<1>10. ASSUME NEW m \in Managers, CallManager(m)
       PROVE  Rest
  <2>1. seen[m] # at
    BY <1>4, <1>10, Notices
  <2>2. /\ MaturityChanged(m) /\ at \in CallsAt[m] /\ at \in Micro /\ func # None
        /\ func' = func /\ at' = at /\ pass' = pass /\ called' = called \cup {m}
    BY <1>10, <2>1, CallsTyped DEF CallManager
  <2>3. /\ PassOnly(r', func, pass)
        /\ applied'[func] = r'.hints[func]
        /\ r'.current = func
        /\ at \in r'.fired[func]
        /\ Begun /\ at \in r.fired[func] => r'.hints[func] = r.hints[func]
    BY <1>4, <2>2, MaturityTidy
  <2>4. Begun'
    BY <2>2 DEF Begun
  <2>5. "block" \in called' /\ InContext' => context'.summary = r'.hints[func]
    <3>1. CASE m = "block"
      BY <2>2, <3>1 DEF MaturityChanged, ContextLeft, InContext
    <3>2. CASE m # "block" /\ "block" \in called
      <4>1. Begun
        BY <2>2, <3>2 DEF Begun
      <4>2. context' = context
        BY <2>2, <3>2 DEF MaturityChanged, ContextLeft
      <4> QED BY <1>4, <2>2, <2>3, <3>2, <4>1, <4>2 DEF InPass, InContext
    <3>3. CASE m # "block" /\ "block" \notin called
      BY <2>2, <3>3
    <3> QED BY <3>1, <3>2, <3>3
  <2> QED BY <2>2, <2>3, <2>4, <2>5 DEF CurrentIsFunc, InPass
<1>11. CASE RunBlockRules
  <2>1. PICK gates \in SUBSET {"flow_gate"} : Logs(r, r', func, gates)
    BY <1>11, RunBlockRulesShape
  <2>2. /\ func' = func /\ at' = at /\ pass' = pass /\ called' = called /\ applied' = applied
        /\ "block" \in called /\ at \in Micro /\ func # None /\ func \in Funcs
    BY <1>6, <1>11 DEF RunBlockRules, decompiler
  <2>3. Begun /\ Begun'
    BY <2>2 DEF Begun
  <2>4. /\ r'.current = r.current /\ r'.fired = r.fired /\ r'.mem = r.mem
        /\ r'.rows = r.rows /\ r'.hints = r.hints /\ r'.outcomes = r.outcomes
    BY <2>1 DEF Logs
  <2>6. CurrentIsFunc'
    BY <1>4, <2>2, <2>3, <2>4 DEF CurrentIsFunc
  <2>7. InContext' => context'.summary = r.hints[func]
    BY <1>4, <1>11, <2>2, <2>3 DEF RunBlockRules, InContext, InPass
  <2> QED BY <1>4, <2>2, <2>3, <2>4, <2>6, <2>7 DEF InPass, PassOnly
<1>12. CASE Finish
  <2>1. Leaves(r, r') /\ r.current = func
    BY <1>4, <1>12, FinishFields, FinishEntered DEF Reflected
  <2>2. ~Begun'
    BY <1>6, <1>12 DEF Finish, Begun, Micro
  <2> QED BY <1>4, <2>1, <2>2 DEF CurrentIsFunc, InPass, Leaves
<1>13. CASE CtreeMaturity
  <2>1. /\ func \in Funcs /\ at \in Stages /\ at \notin Micro /\ at' \notin Micro
    BY <1>13, CtreeShape
  <2>2. PICK result \in Results \cup {None} :
          r' = CollectAndAnalyze(r, func, at, result, {}).to
    BY <1>13, CtreeShape
  <2>3. Guards(r, r', func, at)
    BY <1>4, <1>6, <2>1, <2>2, Collecting
  <2>4. ~Begun /\ ~Begun'
    BY <2>1 DEF Begun
  <2> QED BY <1>4, <2>3, <2>4 DEF CurrentIsFunc, InPass, Guards
<1>14. CASE Done
  <2>1. ~Begun /\ ~Begun' /\ r' = r
    BY <1>6, <1>14, ReconAssumption DEF Done, Begun, Micro
  <2> QED BY <1>4, <2>1 DEF CurrentIsFunc, InPass
<1> QED BY <1>7, <1>8, <1>9, <1>10, <1>11, <1>12, <1>13, <1>14 DEF Next

LEMMA TidyAlways ==
  ASSUME NoFaults, EveryPassNoticed
  PROVE  Spec => [](Inv /\ Reflected /\ Tidy)
<1>1. Inv /\ Reflected /\ Tidy /\ [Next]_vars => Inv' /\ Reflected' /\ Tidy'
  BY StepInv, ReflectedStep, TidyStep
<1>2. Init => Inv /\ Reflected /\ Tidy
  BY InitInv, ReflectedInit, TidyInit
<1> QED BY <1>1, <1>2, PTL DEF Spec

(* In a session without an abandoned pass, the rule scope applies to the      *)
(* function decompiled exactly the hints the store holds for it, at every     *)
(* maturity and whichever manager came first: clear_hint_state follows every  *)
(* effective reset_for_func, apply_hints every analysis.                      *)
THEOREM AppliedHintsAreStored ==
  ASSUME NoFaults, EveryPassNoticed
  PROVE  Spec => []AppliedIsStored
<1>1. Tidy => AppliedIsStored
  BY DEF Tidy, InPass, AppliedIsStored, Orderly
<1> QED BY <1>1, TidyAlways, PTL

(* And the hint summary in the flow context of a maturity is the one of those *)
(* hints: the block manager drops its context at a new maturity, and after it *)
(* no manager changes the hints there, the maturity having been collected.    *)
THEOREM SummariesAreCurrent ==
  ASSUME NoFaults, EveryPassNoticed
  PROVE  Spec => []SummaryIsCurrent
<1>1. Tidy => SummaryIsCurrent
  BY DEF Tidy, InPass, SummaryIsCurrent, Orderly
<1> QED BY <1>1, TidyAlways, PTL

(* And the rows of the store, the results in memory and the hints in force    *)
(* are all of the present pass: before its first call no function is current, *)
(* so that the call enters the function anew.                                 *)
THEOREM EveryOrderlyPassIsClean ==
  ASSUME NoFaults, EveryPassNoticed
  PROVE  Spec => []CleanSlate
<1>1. Inv /\ Reflected /\ Tidy => CleanSlate
  <2> SUFFICES ASSUME Inv, Reflected, Tidy, Orderly
               PROVE  OnlyThisPassCounts
    BY DEF CleanSlate
  <2>1. Good(r) /\ PassOnly(r, func, pass) /\ applied[func] = r.hints[func] /\ func \in Funcs
    BY DEF Tidy, InPass, Orderly, Begun, Inv, Around
  <2>2. ASSUME r.hints[func] # None
        PROVE  r.hints[func].passes \subseteq {pass}
    <3> DEFINE e == Union(r.mem[func], r.rows[func])
    <3>1. r.hints[func] = Interpret(e)
      BY <2>1, <2>2 DEF Reflected, Steady, Reflects
    <3>2. \A s \in Stages : e[s] # None => e[s].pass = pass
      BY <2>1 DEF PassOnly, Union
    <3> HIDE DEF e
    <3> QED BY <3>1, <3>2 DEF Interpret
  <2> QED BY <2>1, <2>2 DEF OnlyThisPassCounts, PassOnly
<1> QED BY <1>1, TidyAlways, PTL

-------------------------------------------------------------------------------
(* The reports of a function the runtime turns away from.  Nothing is assumed *)
(* of the store or of the passes: the methods below are taken wherever an     *)
(* exception leaves them.                                                     *)

(* The reports are told by three fields: q and p agree on them.               *)
SameReports(q, p) == p.current = q.current /\ p.log = q.log /\ p.outcomes = q.outcomes

(* p is reached from q by turning to f, or to no function: what was reported  *)
(* of the function before is written, the rest is left alone.                 *)
TurnsTo(q, p, f) ==
  /\ p.current = f /\ f # q.current
  /\ \A g \in Funcs \ {f} :
       /\ p.log[g] = q.log[g]
       /\ p.outcomes[g] = IF g = q.current THEN q.outcomes[g] \cup q.log[g]
                          ELSE q.outcomes[g]

LEMMA AnalyzeSameReports ==
  ASSUME NEW q, Good(q), NEW f \in Funcs
  PROVE  SameReports(q, AnalyzeDirty(q, f))
BY DEF SameReports, AnalyzeDirty, Good, Pipelines

LEMMA FlushSameReports ==
  ASSUME NEW q, Good(q), NEW faults
  PROVE  SameReports(q, Flush(q, faults))
<1>1. q.current # None => q.current \in Funcs
  BY DEF Good, Pipelines
<1> QED BY <1>1, AnalyzeSameReports DEF Flush, SameReports

(* Entering a function, with the clearing of it or without. *)
LEMMA EnterTurns ==
  ASSUME NEW q, Good(q), NEW f \in Funcs, q.current # f
  PROVE  TurnsTo(q, Enter(q, f), f) /\ TurnsTo(q, ClearFunc(Enter(q, f), f), f)
<1> DEFINE l == Leave(q)
           e == [l EXCEPT !.current = f, !.fired[f] = {}]
           c == [e EXCEPT !.rows[f] = NoEvidence, !.hints[f] = None, !.outcomes[f] = {},
                          !.log[f] = {}]
           p == Forget(c, f)
<1>1. Enter(q, f) = e /\ ClearFunc(Enter(q, f), f) = p
  BY DEF Enter, ClearFunc
<1>2. /\ l \in Pipelines /\ l.log = q.log
      /\ \A g \in Funcs : l.outcomes[g] = IF g = q.current THEN q.outcomes[g] \cup q.log[g]
                                          ELSE q.outcomes[g]
  BY LeaveFields DEF Good
<1> HIDE DEF l
<1>3. e.current = f /\ e.log = l.log /\ e.outcomes = l.outcomes /\ e \in Pipelines
  BY <1>2 DEF Pipelines
<1> HIDE DEF e
<1>4. /\ c.current = f /\ c \in Pipelines
      /\ c.log = [e.log EXCEPT ![f] = {}]
      /\ c.outcomes = [e.outcomes EXCEPT ![f] = {}]
  BY <1>3, NoneIsNoEvidence DEF Pipelines
<1> HIDE DEF c
<1>5. p.current = c.current /\ p.log = c.log /\ p.outcomes = c.outcomes
  BY <1>4 DEF Forget, Pipelines
<1> HIDE DEF p
<1>6. e.log \in [Funcs -> SUBSET Consumers] /\ e.outcomes \in [Funcs -> SUBSET Consumers]
  BY <1>3 DEF Pipelines
<1>7. TurnsTo(q, e, f)
  BY <1>2, <1>3 DEF TurnsTo
<1>8. \A g \in Funcs \ {f} : p.log[g] = e.log[g] /\ p.outcomes[g] = e.outcomes[g]
  BY <1>4, <1>5, <1>6
<1>9. TurnsTo(q, p, f)
  BY <1>4, <1>5, <1>7, <1>8 DEF TurnsTo
<1> QED BY <1>1, <1>7, <1>9

LEMMA TurnsFromSame ==
  ASSUME NEW q, NEW l, NEW p, NEW f, SameReports(q, l), TurnsTo(l, p, f)
  PROVE  TurnsTo(q, p, f)
<1>1. l.current = q.current /\ l.log = q.log /\ l.outcomes = q.outcomes
  BY DEF SameReports
<1>2. p.current = f /\ f # q.current
  BY <1>1 DEF TurnsTo
<1>3. ASSUME NEW g \in Funcs \ {f}
      PROVE  /\ p.log[g] = q.log[g]
             /\ p.outcomes[g] = IF g = q.current THEN q.outcomes[g] \cup q.log[g]
                                ELSE q.outcomes[g]
  BY <1>1 DEF TurnsTo
<1> QED BY <1>2, <1>3 DEF TurnsTo

(* reset_for_func: nothing turns if writing the outcomes raises. *)
LEMMA ResetReports ==
  ASSUME NEW q, Good(q), NEW f \in Funcs, NEW faults
  PROVE  LET p == ResetForFunc(q, f, faults).to IN SameReports(q, p) \/ TurnsTo(q, p, f)
<1> DEFINE flushed == Flush(q, faults)
           entered == Enter(flushed, f)
           cleared == ClearFunc(entered, f)
           p == ResetForFunc(q, f, faults).to
<1>1. Good(flushed) /\ SameReports(q, flushed)
  BY FlushGood, FlushSameReports
<1>2. CASE q.current = f
  BY <1>2 DEF ResetForFunc, SameReports
<1>3. CASE q.current # f
  <2>1. flushed.current # f
    BY <1>1, <1>3 DEF SameReports
  <2> HIDE DEF flushed
  <2>2. TurnsTo(flushed, entered, f) /\ TurnsTo(flushed, cleared, f)
    BY <1>1, <2>1, EnterTurns
  <2>3. p = flushed \/ p = entered \/ p = cleared
    BY <1>3 DEF ResetForFunc, flushed
  <2> HIDE DEF entered, cleared, p
  <2>4. TurnsTo(q, entered, f) /\ TurnsTo(q, cleared, f)
    BY <1>1, <2>2, TurnsFromSame
  <2> QED BY <1>1, <2>3, <2>4 DEF p
<1> QED BY <1>2, <1>3

(* The collectors and the analysis report nothing. *)
LEMMA CollectSameReports ==
  ASSUME NEW q, Good(q), NEW f \in Funcs, NEW s \in Stages,
         NEW result \in Results \cup {None}, NEW faults
  PROVE  SameReports(q, CollectAndAnalyze(q, f, s, result, faults).to)
<1> DEFINE collected == RunCollectors(q, f, s, result, faults)
           ingested  == Ingest(collected.to, f, s, result)
<1>1. SameReports(q, collected.to)
  <2>1. SameReports(q, Collected(q, f, s, result))
    BY DEF SameReports, Collected, Good, Pipelines
  <2> QED BY <2>1 DEF RunCollectors, SameReports
<1>2. CASE ~collected.found
  BY <1>1, <1>2 DEF CollectAndAnalyze
<1>3. CASE collected.found
  <2>1. ~(s \in q.fired[f] \/ (Saved(result) /\ "save" \in faults))
    BY <1>3 DEF RunCollectors
  <2>2. collected = [to |-> Collected(q, f, s, result), found |-> result # None]
    BY <2>1 DEF RunCollectors
  <2>3. result \in Results
    <3>1. collected.found = (result # None)
      BY <2>2
    <3> QED BY <1>3, <3>1
  <2>4. Good(ingested) /\ collected.to \in Pipelines
    <3>1. collected.to = Collected(q, f, s, result)
      BY <2>2
    <3>2. Collected(q, f, s, result) \in Pipelines
      BY CollectedTyped DEF Good
    <3> HIDE DEF collected
    <3> QED BY <2>3, <3>1, <3>2, IngestGood
  <2> HIDE DEF collected
  <2>5. SameReports(q, ingested)
    BY <1>1, <2>4 DEF SameReports, Ingest, Pipelines
  <2> HIDE DEF ingested
  <2>6. SameReports(q, AnalyzeDirty(ingested, f))
    BY <2>4, <2>5, AnalyzeSameReports DEF SameReports
  <2> QED BY <1>3, <2>5, <2>6 DEF CollectAndAnalyze, collected, ingested
<1> QED BY <1>2, <1>3

(* mark_decompilation_finished: nothing turns if writing the outcomes raises. *)
LEMMA FinishReports ==
  ASSUME NEW q, Good(q), NEW faults
  PROVE  LET p == MarkFinished(q, faults) IN SameReports(q, p) \/ TurnsTo(q, p, None)
<1> DEFINE flushed == Flush(q, faults)
<1>1. Good(flushed) /\ SameReports(q, flushed)
  BY FlushGood, FlushSameReports
<1> HIDE DEF flushed
<1>2. CASE q.current = None \/ OutcomesRaise(flushed, faults)
  BY <1>1, <1>2 DEF MarkFinished, flushed
<1>3. CASE ~(q.current = None \/ OutcomesRaise(flushed, faults))
  <2> DEFINE c == q.current
             outcomes == [flushed.outcomes EXCEPT ![c] = @ \cup flushed.log[c]]
             w == [flushed EXCEPT !.outcomes = outcomes]
             p == [w EXCEPT !.current = None]
  <2>1. c \in Funcs /\ flushed \in Pipelines
    BY <1>1, <1>3 DEF Good, Pipelines
  <2>2. MarkFinished(q, faults) = p
    BY <1>3, <2>1 DEF MarkFinished, PersistOutcomes, flushed, Pipelines
  <2>3. \A g \in Funcs : outcomes[g] = IF g = c THEN flushed.outcomes[g] \cup flushed.log[g]
                                       ELSE flushed.outcomes[g]
    BY <2>1 DEF Pipelines
  <2> HIDE DEF outcomes
  <2>4. p.current = None /\ p.log = flushed.log /\ p.outcomes = outcomes
    BY <2>1 DEF Pipelines
  <2> HIDE DEF p
  <2> QED BY <1>1, <1>3, <2>2, <2>3, <2>4 DEF TurnsTo, SameReports
<1> QED BY <1>2, <1>3

(* What a hook may do to the reports: turn to f, and add to the log of f.     *)
LEMMA TurningKeeps ==
  ASSUME Good(r), NEW f \in Funcs \cup {None}, NEW p,
         SameReports(r, p) \/ TurnsTo(r, p, f),
         r'.current = p.current, r'.outcomes = p.outcomes,
         \A g \in Funcs : g = f \/ r'.log[g] = p.log[g]
  PROVE  OutcomesKeptStep
<1> SUFFICES ASSUME NEW g \in Funcs
             PROVE  /\ r.current = g /\ r'.current # g => r'.log[g] \subseteq r'.outcomes[g]
                    /\ \/ r.outcomes[g] \subseteq r'.outcomes[g]
                       \/ r.current # g /\ r'.current = g
  BY DEF OutcomesKeptStep
<1>1. CASE SameReports(r, p)
  BY <1>1 DEF SameReports
<1>2. CASE TurnsTo(r, p, f)
  <2>1. CASE g = f
    BY <1>2, <2>1 DEF TurnsTo
  <2>2. CASE g # f
    <3>1. r'.log[g] = r.log[g] /\ r'.outcomes = p.outcomes
      BY <1>2, <2>2 DEF TurnsTo
    <3>2. CASE g = r.current
      <4>1. p.outcomes[g] = r.outcomes[g] \cup r.log[g]
        BY <1>2, <2>2, <3>2 DEF TurnsTo
      <4> QED BY <3>1, <3>2, <4>1, Zenon
    <3>3. CASE g # r.current
      <4>1. p.outcomes[g] = r.outcomes[g]
        BY <1>2, <2>2, <3>3 DEF TurnsTo
      <4> QED BY <3>1, <3>3, <4>1, Zenon
    <3> QED BY <3>2, <3>3
  <2> QED BY <2>1, <2>2
<1> QED BY <1>1, <1>2

LEMMA MaturityKeepsReports ==
  ASSUME Inv, NEW m \in Managers, func # None, at \in CallsAt[m], MaturityChanged(m)
  PROVE  OutcomesKeptStep
<1>1. func \in Funcs /\ at \in Stages /\ Good(r)
  BY SessionAssumption DEF Inv, Around, Stages
<1>2. PICK result \in Findings, faults \in FaultSets :
        LET reset == ResetForFunc(r, func, faults)
            done  == CollectAndAnalyze(reset.to, func, at, result, faults)
        IN r' = IF done.told
                THEN [done.to EXCEPT !.log[func] = @ \cup {"rule_scope"}]
                ELSE done.to
  BY DEF MaturityChanged
<1>3. result \in Results \cup {None}
  BY FindingsTyped DEF Inv
<1> DEFINE q == ResetForFunc(r, func, faults).to
           done == CollectAndAnalyze(q, func, at, result, faults)
           p == done.to
<1>4. Good(q) /\ (SameReports(r, q) \/ TurnsTo(r, q, func))
  BY <1>1, ResetForFuncGood, ResetReports
<1>5. Good(p) /\ SameReports(q, p)
  <2> HIDE DEF q
  <2> QED BY <1>1, <1>3, <1>4, CollectAndAnalyzeGood, CollectSameReports
<1>6. r' = IF done.told THEN [p EXCEPT !.log[func] = @ \cup {"rule_scope"}] ELSE p
  BY <1>2
<1> HIDE DEF q, done, p
<1>7. SameReports(r, p) \/ TurnsTo(r, p, func)
  BY <1>4, <1>5 DEF SameReports, TurnsTo
<1>8. /\ r'.current = p.current /\ r'.outcomes = p.outcomes
      /\ \A g \in Funcs : g = func \/ r'.log[g] = p.log[g]
  <2>1. CASE done.told
    <3>1. Logs(p, r', func, {"rule_scope"})
      BY <1>1, <1>5, <1>6, <2>1, LogFields
    <3>2. p.log \in [Funcs -> SUBSET Consumers]
      BY <1>5 DEF Good, Pipelines
    <3> QED BY <3>1, <3>2 DEF Logs
  <2>2. CASE ~done.told
    BY <1>6, <2>2
  <2> QED BY <2>1, <2>2
<1> QED BY <1>1, <1>7, <1>8, TurningKeeps

LEMMA SamePipelineKeeps ==
  ASSUME r' = r
  PROVE  OutcomesKeptStep
BY DEF OutcomesKeptStep

LEMMA ReportsStep ==
  ASSUME Inv, [Next]_vars
  PROVE  OutcomesKeptStep
<1>1. ASSUME NEW f \in Funcs, Decompile(f)
      PROVE  OutcomesKeptStep
  BY <1>1, SamePipelineKeeps DEF Decompile
<1>2. CASE Abort \/ NextMaturity \/ Done \/ UNCHANGED vars
  BY <1>2, SamePipelineKeeps DEF Abort, NextMaturity, Done, vars
<1>3. ASSUME NEW m \in Managers, CallManager(m)
      PROVE  OutcomesKeptStep
  BY <1>3, MaturityKeepsReports, SamePipelineKeeps DEF CallManager
<1>4. CASE RunBlockRules
  <2>1. func \in Funcs /\ Good(r)
    BY <1>4, RunBlockRulesShape DEF Inv
  <2>2. PICK gates \in SUBSET {"flow_gate"} : Logs(r, r', func, gates)
    BY <1>4, RunBlockRulesShape
  <2>3. r.log \in [Funcs -> SUBSET Consumers]
    BY <2>1 DEF Good, Pipelines
  <2>4. \A g \in Funcs : g = func \/ r'.log[g] = r.log[g]
    BY <2>1, <2>2, <2>3 DEF Logs
  <2>5. SameReports(r, r)
    BY DEF SameReports
  <2> QED BY <2>1, <2>2, <2>4, <2>5, TurningKeeps DEF Logs
<1>5. CASE Finish
  <2>1. Good(r)
    BY DEF Inv
  <2>2. PICK faults \in FaultSets : r' = MarkFinished(r, faults)
    BY <1>5 DEF Finish
  <2>3. SameReports(r, r') \/ TurnsTo(r, r', None)
    BY <2>1, <2>2, FinishReports
  <2> QED BY <2>1, <2>3, TurningKeeps
<1>6. CASE CtreeMaturity
  <2>1. func \in Funcs /\ at \in Stages /\ Good(r)
    BY <1>6 DEF CtreeMaturity, Inv, Around, Stages
  <2>2. PICK result \in Findings, faults \in FaultSets :
          r' = CollectAndAnalyze(r, func, at, result, faults).to
    BY <1>6 DEF CtreeMaturity
  <2>3. result \in Results \cup {None}
    BY <1>6, FindingsTyped DEF CtreeMaturity, Inv
  <2>4. SameReports(r, r')
    BY <2>1, <2>2, <2>3, CollectSameReports
  <2> QED BY <2>1, <2>4, TurningKeeps
<1>7. CASE Restart
  <2>1. r'.outcomes = r.outcomes /\ r'.log = [f \in Funcs |-> {}]
    BY <1>7 DEF Restart, NewPipeline
  <2> QED BY <2>1 DEF OutcomesKeptStep
<1> QED BY <1>1, <1>2, <1>3, <1>4, <1>5, <1>6, <1>7 DEF Next

(* What was reported of a function is in the store when the runtime turns     *)
(* away from it and stays until the function is entered again, whatever       *)
(* raises and whatever passes are given up: current_func_ea moves only behind *)
(* the writing of the outcomes (reset_for_func, mark_decompilation_finished). *)
THEOREM OutcomesAreKept == Spec => OutcomesKept
<1>1. Inv /\ [Next]_vars => Inv' /\ OutcomesKeptStep
  BY StepInv, ReportsStep
<1> QED BY InitInv, <1>1, PTL DEF Spec, OutcomesKept
===============================================================================
