----------------------------- MODULE BoundedMap -----------------------------
(***************************************************************************)
(* What a cache promises its users: a map whose entries go only because    *)
(* they expired, their value died, they were replaced, deleted or cleared, *)
(* or had to make room; and what makes room is what the policy names.      *)
(* An expired entry is dropped by the next call, so no call answers with   *)
(* one.  Cache implements it with rings of links and a queue.              *)
(***************************************************************************)
EXTENDS Integers

CONSTANTS Keys, Values, Weigh, Configurations, MaxClock

VARIABLES
    conf,     \* the settings: limits, expiry and policy (LRU or LRI)
    entry,    \* key -> value, when it was written, when last used
    order,    \* pairs of keys, the first of which has to go before the second
    now, alive,
    answer

vars == <<conf, entry, order, now, alive, answer>>

Present(map) == DOMAIN map.entry
Only(map, keys) == [entry |-> [k \in keys |-> map.entry[k]],
                    order |-> map.order \cap (keys \X keys)]
Others(map, k) == Only(map, Present(map) \ {k})
\* the order in which k goes last
OrderWithLast(map, k) == map.order \cup (Present(map) \X {k})

Total(f) ==
    LET sum[S \in SUBSET DOMAIN f] ==
            IF S = {} THEN 0
            ELSE LET x == CHOOSE x \in S : TRUE IN f[x] + sum[S \ {x}]
    IN sum[DOMAIN f]
Size(map) == Total([k \in Present(map) |-> 1])
Weight(map) == Total([k \in Present(map) |-> Weigh[map.entry[k].value]])

Living(map, living) == {k \in Present(map) : map.entry[k].value \in living}
Valid(map) == {k \in Present(map) :
    /\ conf.expire_after_write # 0 => map.entry[k].written > now - conf.expire_after_write
    /\ conf.expire_after_access # 0 => map.entry[k].accessed > now - conf.expire_after_access}

Fits(map) == /\ Size(map) < conf.max_size
             /\ conf.max_weight # 0 => Weight(map) < conf.max_weight
\* an entry stays if it fits together with all that go after it
From(map, k) == Only(map, {k} \cup {x \in Present(map) : <<k, x>> \in map.order})
MadeRoom(map) == Only(map, {k \in Present(map) : Fits(From(map, k))})

Now == [entry |-> entry, order |-> order]
\* every call first drops what has expired and what is known to be dead
Current == Only(Now, Valid(Now) \cap Living(Now, alive))
Becomes(map) == entry' = map.entry /\ order' = map.order
Gone == IF conf.weak_values THEN {{}} \cup {{v} : v \in alive} ELSE {{}}

Init == /\ conf \in Configurations
        /\ entry = <<>> /\ order = {} /\ now = 0 /\ alive = Values
        /\ answer = [op |-> "none"]

\* an entry found dead is dropped at once; others that die wait
Looked(map, k, living) ==
    IF k \in Present(map) \ Living(map, living) THEN Others(map, k) ELSE map

Hit(k, living) ==
    /\ k \in Living(Current, living)
    /\ entry' = [Current.entry EXCEPT ![k].accessed = now]
    /\ order' = IF conf.eviction = "LRU" THEN OrderWithLast(Others(Current, k), k)
                ELSE Current.order
    /\ answer' = [op |-> "hit", key |-> k, value |-> Current.entry[k].value]

Miss(k, living) ==
    /\ k \notin Living(Current, living)
    /\ Becomes(Looked(Current, k, living))
    /\ answer' = [op |-> "miss", key |-> k]

Refuse(k, v) ==
    /\ conf.max_weight # 0 /\ Weigh[v] > conf.max_weight
    /\ Becomes(Current)
    /\ answer' = [op |-> "refused", key |-> k, value |-> v]

\* replacing an entry frees its own place before any other is asked to go
Store(k, v) ==
    LET room == MadeRoom(Others(Current, k))
    IN /\ ~(conf.max_weight # 0 /\ Weigh[v] > conf.max_weight)
       /\ entry' = [x \in Present(room) \cup {k} |->
                      IF x = k THEN [value |-> v, written |-> now, accessed |-> now]
                      ELSE room.entry[x]]
       /\ order' = OrderWithLast(room, k)
       /\ answer' = [op |-> "stored", key |-> k, value |-> v]

Erase(k, living) ==
    /\ k \in Living(Current, living)
    /\ Becomes(Others(Current, k))
    /\ answer' = [op |-> "deleted", key |-> k]

EraseMissing(k, living) ==
    /\ k \notin Living(Current, living)
    /\ Becomes(Looked(Current, k, living))
    /\ answer' = [op |-> "missing", key |-> k]

Member(k, living) ==
    /\ Becomes(Looked(Current, k, living))
    /\ answer' = [op |-> "in", key |-> k, answer |-> k \in Living(Current, living)]

Count == /\ Becomes(Current)
         /\ answer' = [op |-> "len", size |-> Size(Current)]

Empty == /\ entry' = <<>> /\ order' = {}
         /\ answer' = [op |-> "cleared"]

\* an iterator names keys that are there, and then stops or complains
Iterate ==
    /\ Becomes(Current) \/ Becomes(Now)
    /\ \/ \E k \in DOMAIN entry' : answer' = [op |-> "yield", key |-> k]
       \/ answer' \in {[op |-> "changed"], [op |-> "exhausted"]}

Call == /\ \E gone \in Gone, k \in Keys :
             /\ alive' = alive \ gone
             /\ \/ \/ Hit(k, alive') \/ Miss(k, alive')
                   \/ Erase(k, alive') \/ EraseMissing(k, alive')
                   \/ Member(k, alive')
                \/ \E v \in alive' : Store(k, v) \/ Refuse(k, v)
        /\ UNCHANGED <<conf, now>>
Whole == (Count \/ Empty \/ Iterate) /\ UNCHANGED <<conf, now, alive>>
Time == now < MaxClock /\ now' = now + 1 /\ UNCHANGED <<conf, entry, order, alive, answer>>
Death == /\ \E v \in alive : alive' = alive \ {v}
         /\ UNCHANGED <<conf, entry, order, now, answer>>

Next == Call \/ Whole \/ Time \/ Death
Spec == Init /\ [][Next]_vars
=============================================================================
