------------------------------ MODULE MCCache ------------------------------
(* Cache on small instances.                                                *)
EXTENDS Cache, TLC

CONSTANTS k1, k2, k3, v1, v2

SymmetricKeys == Permutations(Keys)
Weights == [v \in Values |-> IF v = v1 THEN 2 ELSE 4]

Plain == [max_size |-> 2, max_weight |-> 0, expire_after_write |-> 0,
          expire_after_access |-> 0, eviction |-> "LRU", weak_values |-> FALSE,
          iterated |-> FALSE]
\* one cache for each way an entry can go, and one that is iterated over
SmallCaches == {
    [Plain EXCEPT !.expire_after_access = 2, !.expire_after_write = 3],
    [Plain EXCEPT !.eviction = "LRI", !.weak_values = TRUE],
    [Plain EXCEPT !.max_size = 3, !.max_weight = 3],
    [Plain EXCEPT !.max_size = 3, !.iterated = TRUE] }
FrequencyCache == {[Plain EXCEPT !.eviction = "LFU"]}

=============================================================================
