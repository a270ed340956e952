------------------------------- MODULE Cache -------------------------------
(***************************************************************************)
(* CacheImpl of core/cache.py: a table from keys to links, and three       *)
(* orders over the links in use.  ins is the order of writing, oldest      *)
(* first; lru the order of use, least recent first; lfu runs from          *)
(* root.lfu_next to root.lfu_prev.  A doubly linked ring is the sequence   *)
(* of its links, root left out; a link is its serial number.               *)
(*                                                                         *)
(* Every method takes the lock for its whole body, so it is one step; only *)
(* the iterator, a generator, is suspended between two keys.  A weakly     *)
(* held value may be collected at any moment, in the middle of a method    *)
(* too: each method has a parameter for what dies right after its reap.    *)
(***************************************************************************)
EXTENDS Integers, Sequences, FiniteSets, SequencesExt, FiniteSetsExt

CONSTANTS
    Keys, Values,
    Weigh,           \* the weigher: a function from values to weights
    Configurations,  \* the arguments of the constructor, see Settings
    MaxSeq,          \* bound: how many links are ever created
    MaxClock,        \* bound: the clock's last reading
    MaxHits          \* bound: hits of one link, the frequency count

\* 0 stands for None in the weight and the two times of expiry; iterated is
\* a bound: whether this cache's user ever iterates over it
Settings == [max_size: Nat \ {0}, max_weight: Nat, expire_after_write: Nat,
             expire_after_access: Nat, eviction: {"LRU", "LRI", "LFU"},
             weak_values: BOOLEAN, iterated: BOOLEAN]

ASSUME CacheConstants ==
    /\ Weigh \in [Values -> Nat \ {0}]
    /\ Configurations \subseteq Settings
    /\ {MaxSeq, MaxClock, MaxHits} \subseteq Nat

VARIABLES
    conf,    \* the settings, fixed when the cache is made
    cache,   \* the rings, the table and the counters
    now,     \* what the clock reads; it never goes back
    alive,   \* the values the program still holds
    cursor,  \* the suspended iterator
    result   \* what the last operation answered

vars == <<conf, cache, now, alive, cursor, result>>

Links == 1..MaxSeq
None == 0

Entries == [key: Keys, value: Values, written: 0..MaxClock,
            accessed: 0..MaxClock, hits: 0..MaxHits]
Orders == {s \in BoundedSeq(Links, conf.max_size) : IsInjective(s)}

Fresh == [table |-> <<>>, link |-> <<>>, ins |-> <<>>, lru |-> <<>>, lfu |-> <<>>,
          dead |-> <<>>, seq |-> 0, size |-> 0, weight |-> 0]

NoIterator == [at |-> None, seen |-> <<>>, from |-> 0]

Init ==
    /\ conf \in Configurations
    /\ cache = Fresh
    /\ now = 0
    /\ alive = Values
    /\ cursor = NoIterator
    /\ result = [op |-> "none"]

-----------------------------------------------------------------------------
(* The private helpers.  An unlinked link has left the domain of c.link.    *)

Without(f, x) == [y \in DOMAIN f \ {x} |-> f[y]]
With(f, x, v) == [y \in DOMAIN f \cup {x} |-> IF y = x THEN v ELSE f[y]]

Unlinked(c, l) == l \notin DOMAIN c.link

Unlink_KeepsLru(c, l) ==
    IF Unlinked(c, l) THEN c
    ELSE [c EXCEPT !.ins = RemoveFirst(@, l), !.lfu = RemoveFirst(@, l),
                   !.link = Without(@, l), !.size = @ - 1,
                   !.weight = @ - Weigh[c.link[l].value]]

\* _unlink: out of the three rings and of the counters, not out of the table
Unlink(c, l) ==
    IF Unlinked(c, l) THEN c
    ELSE [c EXCEPT !.ins = RemoveFirst(@, l), !.lru = RemoveFirst(@, l), !.lfu = RemoveFirst(@, l),
                   !.link = Without(@, l), !.size = @ - 1,
                   !.weight = @ - Weigh[c.link[l].value]]

\* _kill: the table forgets the key only if it still leads to this very link
Forget(c, l) ==
    IF ~Unlinked(c, l) /\ c.link[l].key \in DOMAIN c.table /\ c.table[c.link[l].key] = l
    THEN [c EXCEPT !.table = Without(@, c.link[l].key)]
    ELSE c
Kill(c, l) == Unlink(Forget(c, l), l)
KillAll(c, links) ==
    LET killed[i \in 0..Len(links)] ==
            IF i = 0 THEN c ELSE Kill(killed[i-1], links[i])
    IN killed[Len(links)]

\* the front of an order, up to the first link that has not expired
Leading(order, Expired(_)) ==
    LET n == Max({i \in 0..Len(order) : \A j \in 1..i : Expired(order[j])})
    IN SubSeq(order, 1, n)

ReapDead(c) == [KillAll(c, c.dead) EXCEPT !.dead = <<>>]
ReapWritten(c) ==
    IF conf.expire_after_write = 0 THEN c
    ELSE KillAll(c, Leading(c.ins, LAMBDA l : c.link[l].written <= now - conf.expire_after_write))
ReapAccessed_Late(c) ==
    IF conf.expire_after_access = 0 THEN c
    ELSE KillAll(c, Leading(c.lru, LAMBDA l : c.link[l].accessed < now - conf.expire_after_access))
ReapAccessed(c) ==
    IF conf.expire_after_access = 0 THEN c
    ELSE KillAll(c, Leading(c.lru, LAMBDA l : c.link[l].accessed <= now - conf.expire_after_access))
Reap(c) == ReapAccessed(ReapWritten(ReapDead(c)))

Full_SizeOnly(c) == c.size >= conf.max_size
Full(c) == c.size >= conf.max_size \/ (conf.max_weight # 0 /\ c.weight >= conf.max_weight)

\* the links in the order the eviction policy takes them
Victims(c) == CASE conf.eviction = "LRU" -> c.lru
                [] conf.eviction = "LRI" -> c.ins
                [] conf.eviction = "LFU" -> Reverse(c.lfu)
Evict(c, l) == IF Full(c) THEN Kill(c, l) ELSE c
MakeRoom(c) ==
    LET left[i \in 0..Len(Victims(c))] ==
            IF i = 0 THEN c ELSE Evict(left[i-1], Victims(c)[i])
    IN left[Len(Victims(c))]

\* the weak references' callback: every link that holds the value is queued
Die(c, gone) ==
    [c EXCEPT !.dead = @ \o SetToSeq({l \in DOMAIN c.link : c.link[l].value \in gone})]

\* _get_link: the table's link; a dead value makes it fail and drop the entry
Found(c, k, living) == k \in DOMAIN c.table /\ c.link[c.table[k]].value \in living
Dropped_StaysInTable(c, k, living) ==
    IF k \in DOMAIN c.table /\ ~Found(c, k, living) THEN Unlink(c, c.table[k]) ELSE c
Dropped(c, k, living) ==
    IF k \in DOMAIN c.table /\ ~Found(c, k, living)
    THEN [Unlink(c, c.table[k]) EXCEPT !.table = Without(@, k)]
    ELSE c

\* a hit moves the link to the end of lru, and in lfu past every link
\* that has at least as many hits, going along lfu_next
MoveLru(c, l) == [c EXCEPT !.lru = Append(RemoveFirst(@, l), l)]
LfuBehind(c, l) ==
    LET at    == SelectInSeq(c.lfu, LAMBDA x : x = l)
        after == SubSeq(c.lfu, at + 1, Len(c.lfu))
    IN at + Len(Leading(after, LAMBDA x : c.link[x].hits >= c.link[l].hits))
MoveLfu(c, l) ==
    IF conf.eviction # "LFU" THEN c
    ELSE [c EXCEPT !.lfu = RemoveFirst(SubSeq(@, 1, LfuBehind(c, l)), l) \o <<l>>
                             \o SubSeq(@, LfuBehind(c, l) + 1, Len(@))]
Touch(c, l) ==
    [c EXCEPT !.link[l].accessed = now,
              !.link[l].hits = IF @ < MaxHits THEN @ + 1 ELSE @]

\* the new link of __setitem__, at the end of the three orders
Insert(c, k, v) ==
    LET l == c.seq + 1
    IN [c EXCEPT !.seq = l,
          !.link = With(@, l, [key |-> k, value |-> v, written |-> now,
                               accessed |-> now, hits |-> 0]),
          !.ins = Append(@, l), !.lru = Append(@, l),
          !.lfu = IF conf.eviction = "LFU" THEN Append(@, l) ELSE @,
          !.size = @ + 1, !.weight = @ + Weigh[v], !.table = With(@, k, l)]

-----------------------------------------------------------------------------
(* The operations.  gone is what the collector takes right after the reap.  *)

Collected == IF conf.weak_values THEN {{}} \cup {{v} : v \in alive} ELSE {{}}
AfterReap(gone) == Die(Reap(cache), gone)
Collect(gone) == alive' = alive \ gone

Get(k) == \E gone \in Collected :
    LET c == AfterReap(gone)
        d == Dropped(c, k, alive \ gone)
    IN /\ Collect(gone)
       /\ IF Found(c, k, alive \ gone)
          THEN /\ cache' = Touch(MoveLfu(MoveLru(c, c.table[k]), c.table[k]), c.table[k])
               /\ result' = [op |-> "hit", key |-> k, value |-> c.link[c.table[k]].value]
          ELSE cache' = d /\ result' = [op |-> "miss", key |-> k]
       /\ UNCHANGED <<conf, now, cursor>>

Overweight(v) == conf.max_weight # 0 /\ Weigh[v] > conf.max_weight

\* the caller holds v, so v itself is not collected before the link exists
Set(k, v) == \E gone \in {g \in Collected : v \notin g} :
    LET c        == AfterReap(gone)
        existing == Dropped(c, k, alive \ gone)
        room     == MakeRoom(IF Found(c, k, alive \ gone)
                             THEN Unlink(c, c.table[k]) ELSE existing)
    IN /\ v \in alive
       /\ cache.seq < MaxSeq
       /\ Collect(gone)
       /\ IF Overweight(v)
          THEN cache' = c /\ result' = [op |-> "refused", key |-> k, value |-> v]
          ELSE /\ cache' = Insert(room, k, v)
               /\ result' = [op |-> "stored", key |-> k, value |-> v]
       /\ UNCHANGED <<conf, now, cursor>>

Delete(k) == \E gone \in Collected :
    LET c == AfterReap(gone)
    IN /\ Collect(gone)
       /\ IF Found(c, k, alive \ gone)
          THEN /\ cache' = Unlink([c EXCEPT !.table = Without(@, k)], c.table[k])
               /\ result' = [op |-> "deleted", key |-> k]
          ELSE cache' = Dropped(c, k, alive \ gone) /\ result' = [op |-> "missing", key |-> k]
       /\ UNCHANGED <<conf, now, cursor>>

ContainsKey(k) == \E gone \in Collected :
    LET c == AfterReap(gone)
    IN /\ Collect(gone)
       /\ cache' = Dropped(c, k, alive \ gone)
       /\ result' = [op |-> "in", key |-> k, answer |-> Found(c, k, alive \ gone)]
       /\ UNCHANGED <<conf, now, cursor>>

LenOf ==
    /\ cache' = Reap(cache)
    /\ result' = [op |-> "len", size |-> Reap(cache).size]
    /\ UNCHANGED <<conf, now, alive, cursor>>

\* the table first, then every link from the newest on
UnlinkAll(c, links) ==
    LET left[i \in 0..Len(links)] ==
            IF i = 0 THEN c ELSE Unlink(left[i-1], links[i])
    IN left[Len(links)]

Clear ==
    LET emptied == [cache EXCEPT !.table = <<>>]
    IN /\ cache' = UnlinkAll(emptied, Reverse(cache.ins))
       /\ result' = [op |-> "cleared"]
       /\ UNCHANGED <<conf, now, alive, cursor>>

Before_Forward(c, l) ==
    LET at == SelectInSeq(c.ins, LAMBDA x : x = l)
    IN IF at < Len(c.ins) THEN c.ins[at + 1] ELSE None
Before(c, l) == LET at == SelectInSeq(c.ins, LAMBDA x : x = l)
                IN IF at > 1 THEN c.ins[at - 1] ELSE None

\* __iter__ up to its first yield: reap, then the newest link
IterBegin ==
    LET c == Reap(cache)
    IN /\ conf.iterated /\ cursor.at = None
       /\ cache' = c
       /\ c.ins # <<>>
       /\ cursor' = [at |-> Last(c.ins), seen |-> <<c.link[Last(c.ins)].key>>,
                     from |-> c.seq]
       /\ result' = [op |-> "yield", key |-> c.link[Last(c.ins)].key]
       /\ UNCHANGED <<conf, now, alive>>

\* resumed: an unlinked link points at itself, which the iterator reports
IterNext ==
    /\ cursor.at # None
    /\ UNCHANGED <<conf, cache, now, alive>>
    /\ LET next == Before(cache, cursor.at)
       IN CASE Unlinked(cache, cursor.at) ->
                 /\ cursor' = NoIterator
                 /\ result' = [op |-> "changed"]
            [] ~Unlinked(cache, cursor.at) /\ next = None ->
                 /\ cursor' = NoIterator
                 /\ result' = [op |-> "exhausted", seen |-> cursor.seen, from |-> cursor.from]
            [] OTHER ->
                 /\ cursor' = [cursor EXCEPT !.at = next,
                                 !.seen = Append(@, cache.link[next].key)]
                 /\ result' = [op |-> "yield", key |-> cache.link[next].key]

\* the environment: time passes, and a value is collected between two calls
\* without an expiry the clock is the constant 0
Ticking == conf.expire_after_write # 0 \/ conf.expire_after_access # 0
Tick ==
    /\ Ticking /\ now < MaxClock
    /\ now' = now + 1
    /\ UNCHANGED <<conf, cache, alive, cursor, result>>

ValueDies == conf.weak_values /\ \E v \in alive :
    /\ alive' = alive \ {v}
    /\ cache' = Die(cache, {v})
    /\ UNCHANGED <<conf, now, cursor, result>>

Next ==
    \/ \E k \in Keys : Get(k) \/ Delete(k) \/ ContainsKey(k) \/ \E v \in Values : Set(k, v)
    \/ LenOf \/ Clear \/ IterBegin \/ IterNext \/ Tick \/ ValueDies

Spec == Init /\ [][Next]_vars

-----------------------------------------------------------------------------
(* Type.  One class of state for the rings, the table and the iterator.     *)
TypeOK ==
    /\ DOMAIN cache.link \subseteq Links
    /\ \A l \in DOMAIN cache.link : cache.link[l] \in Entries
    /\ DOMAIN cache.table \subseteq Keys
    /\ {cache.ins, cache.lru, cache.lfu} \subseteq Orders
    /\ cache.dead \in Seq(Links)
    /\ cache.size \in 0..conf.max_size /\ cache.weight \in Nat /\ cache.seq \in 0..MaxSeq
    /\ now \in 0..MaxClock /\ alive \subseteq Values
    /\ cursor.at \in Links \cup {None} /\ cursor.seen \in Seq(Keys)

\* what the links weigh together, summed by serial number
WeightOf(link) ==
    LET total[i \in 0..MaxSeq] ==
            IF i = 0 THEN 0
            ELSE total[i-1] + IF i \in DOMAIN link THEN Weigh[link[i].value] ELSE 0
    IN total[MaxSeq]

(* The three rings hold the same links, and the size and the weight that    *)
(* decide when to evict are those of the links in the rings: an unlink that *)
(* runs twice, or misses a ring, would let the cache grow for ever.         *)
Accounted ==
    /\ TypeOK
    /\ ToSet(cache.ins) = DOMAIN cache.link
    /\ ToSet(cache.lru) = DOMAIN cache.link
    /\ conf.eviction = "LFU" => ToSet(cache.lfu) = DOMAIN cache.link
    /\ cache.size = Cardinality(DOMAIN cache.link)
    /\ cache.weight = WeightOf(cache.link)

(* Between two calls the table leads to links in use only, each under its   *)
(* own key, and every link in use is the one its key leads to: a link the   *)
(* table lost would fill the cache and never be found, a link left in the   *)
(* table would make every later call with that key raise.                   *)
TableMatchesLinks ==
    /\ \A k \in DOMAIN cache.table : /\ ~Unlinked(cache, cache.table[k])
                                     /\ cache.link[cache.table[k]].key = k
    /\ \A l \in DOMAIN cache.link : /\ cache.link[l].key \in DOMAIN cache.table
                                    /\ cache.table[cache.link[l].key] = l

(* The weight may pass max_weight by less than one value that may be stored:  *)
(* the room is made before the new weight is counted.                       *)
WeightBound ==
    conf.max_weight # 0 =>
        cache.weight < conf.max_weight + Max({0} \cup {Weigh[v] : v \in {w \in Values : ~Overweight(w)}})

(* An iteration that ends without an error has yielded no key twice and     *)
(* every entry that was there when it began and has stayed.                 *)
IterationComplete ==
    result.op = "exhausted" =>
        /\ IsInjective(result.seen)
        /\ \A l \in DOMAIN cache.link :
              l <= result.from => cache.link[l].key \in ToSet(result.seen)

-----------------------------------------------------------------------------
(* What the rings, the table and the queue stand for.                        *)

EntriesOf(c) ==
    [k \in DOMAIN c.table |->
        LET l == c.link[c.table[k]]
        IN [value |-> l.value, written |-> l.written, accessed |-> l.accessed]]

InOrder(s, x, y) == \E i, j \in DOMAIN s : i < j /\ s[i] = x /\ s[j] = y

\* who is evicted before whom
GoesBefore(c, l, m) ==
    IF conf.eviction = "LRU" THEN InOrder(c.lru, l, m) ELSE InOrder(c.ins, l, m)
OrderOf(c) ==
    {<<c.link[p[1]].key, c.link[p[2]].key>> :
        p \in {q \in (DOMAIN c.link) \X (DOMAIN c.link) : GoesBefore(c, q[1], q[2])}}

AbstractAnswer ==
    IF result.op = "exhausted" THEN [op |-> "exhausted"] ELSE result

Map == INSTANCE BoundedMap WITH
           entry <- EntriesOf(cache), order <- OrderOf(cache), answer <- AbstractAnswer

(* The rings of links, the table and the queue of a cache that evicts what  *)
(* was used or written first implement the bounded map: every call answers  *)
(* and changes the entries as the map's call does.                          *)
ImplementsMap == Map!Spec
=============================================================================
