----------------------------- MODULE FlowEdits -----------------------------
(***************************************************************************)
(* What the edits of a function's graph promise, with nothing of how it is *)
(* stored: flow says where control may go from each block, and an edit     *)
(* changes that for the block it names and for the blocks it creates, and  *)
(* for no other.  Blocks are identities, not positions: that an insertion  *)
(* moves the exit block does not show.                                     *)
(***************************************************************************)

VARIABLES flow, edit

Ids == DOMAIN flow

(* The block that an edit makes was not there before. *)
New == DOMAIN flow' \ Ids

Created(id, targets) ==
    [i \in Ids \cup {id} |-> IF i = id THEN targets ELSE flow[i]]

(* The blocks control passes through when it leaves y along blocks that    *)
(* only jump: they are in every set that holds y and where those lead.     *)
Through(y, jumps) ==
    {z \in Ids : \A S \in SUBSET Ids :
        y \in S /\ (\A j \in S \cap jumps : flow[j] \subseteq S) => z \in S}

Goto(b, t) == flow' = [flow EXCEPT ![b] = {t}]

Replace(b, old, t) ==
    /\ old \in flow[b]
    /\ flow' = [flow EXCEPT ![b] = (@ \ {old}) \cup {t}]

Cut(b, old) ==
    /\ old \in flow[b]
    /\ flow' = [flow EXCEPT ![b] = @ \ {old}]

(* b goes to a new block instead of old. *)
Detour(b, old, targets) ==
    /\ old \in flow[b]
    /\ \E new \in New :
          flow' = [Created(new, targets) EXCEPT ![b] = (@ \ {old}) \cup {new}]

Create(targets) == \E new \in New : flow' = Created(new, targets)

(* A path through blocks that only jump may be cut short, never lost. *)
Shorten(jumps) ==
    /\ DOMAIN flow' = Ids
    /\ \A b \in Ids :
          /\ flow'[b] \subseteq UNION {Through(y, jumps) : y \in flow[b]}
          /\ \A y \in flow[b] : flow'[b] \cap Through(y, jumps) # {}

(* The step the edit claims to be. *)
Performed ==
    CASE edit'.kind = "goto"    -> Goto(edit'.at, edit'.to)
      [] edit'.kind = "replace" -> Replace(edit'.at, edit'.from, edit'.to)
      [] edit'.kind = "cut"     -> Cut(edit'.at, edit'.from)
      [] edit'.kind = "detour"  -> Detour(edit'.at, edit'.from, edit'.targets)
      [] edit'.kind = "create"  -> Create(edit'.targets)
      [] edit'.kind = "shorten" -> Shorten(edit'.jumps)
      [] edit'.kind = "refused" -> TRUE
      [] OTHER -> FALSE

Init == edit = [kind |-> "none"]

(* An edit that was refused half-way is the last. *)
Next == edit.kind # "refused" /\ Performed

Spec == Init /\ [][Next]_<<flow, edit>>
=============================================================================
