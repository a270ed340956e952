----------------------------- MODULE MCReconSession -----------------------------
(* A small instance of ReconSession: two functions, microcode maturities at   *)
(* which the decompiler calls both managers, in either order.                 *)
EXTENDS ReconSession, TLC

CONSTANTS f1, f2

MCCallsAt == [m \in Managers |-> Micro]

Healthy == {{}}
(* One operation raises, or the database is gone and all of them do. *)
Failing == {{}, Operations} \cup {{o} : o \in Operations}

Symmetry  == Permutations(Funcs)
===============================================================================
