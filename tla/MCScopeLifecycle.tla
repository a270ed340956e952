--------------------------- MODULE MCScopeLifecycle ---------------------------
(* A small instance of ScopeLifecycle: two functions, the two rules the       *)
(* inference "unflattening" is about, two projects.                           *)
EXTENDS ScopeLifecycle

CONSTANTS f1, f2, folding, unflattener, flat, instruction, flow, mA, mB, pA, pB,
          unflattening

(* The factory of recon/inferences.py: constant folding is suppressed when    *)
(* the hints are confident.                                                   *)
UnflatteningDeltas(confident) ==
  IF confident THEN {[rule |-> folding, action |-> "suppress"]} ELSE {}

MCPipelineOf == [r \in Rules |-> flow]
MCDeltasOf   == [d \in Registered \X BOOLEAN |-> UnflatteningDeltas(d[2])]

Plain == [maturities |-> {}, whitelisted |-> FALSE, allow |-> {}, deny |-> {},
          tagsAny |-> {}, tagsAll |-> {}]
Whitelisting(fs) == [Plain EXCEPT !.whitelisted = TRUE, !.allow = fs]

MCDefaultSelector == [r \in Rules |-> Plain]
MCActivated == [p \in Projects |-> IF p = pA THEN Rules ELSE {folding}]
(* Project A runs the unflattener at mA and on tagged functions only; project *)
(* B runs constant folding alone, on f1 alone, and leaves its maturities.     *)
MCConfigOf ==
  [p \in Projects |-> [r \in Rules |->
     IF r = unflattener
     THEN [selector |-> [Plain EXCEPT !.maturities = {mA}, !.tagsAny = Tags],
           keepsMaturities |-> FALSE]
     ELSE [selector |-> IF p = pA THEN Plain ELSE Whitelisting({f1}),
           keepsMaturities |-> p = pB]]]

MCInferenceChoices ==
  {[enabled |-> {unflattener}, disabled |-> {}, eas |-> {f1}, tagsAny |-> {}, tagsAll |-> {}]}

Hint(ea, recommended, suppress, confident) ==
  [ea |-> ea, recommended |-> recommended, suppress |-> suppress, confident |-> confident]

(* The session run: constant folding disabled by the user, and the answers of *)
(* AnalysisPhase.interpret for f1: nothing found, flattened, surely flattened.*)
SessionOverrides == {<<{}, {folding}>>}
SessionHints ==
  {Hint(f1, {}, {}, FALSE), Hint(f1, {unflattening}, {}, FALSE),
   Hint(f1, {unflattening}, {folding}, TRUE)}

(* The restart run. *)
RestartOverrides == {<<{}, {folding}>>, <<{folding}, {}>>}
RestartHints == {Hint(f1, {unflattening}, {folding}, TRUE)}
===============================================================================
