------------------------------ MODULE BlkCache ------------------------------
(***************************************************************************)
(* The LRU block cache of the accessors (blk/blk_cache.h).  A cache is the *)
(* list key_ as a sequence of units, the most recently used one first; the *)
(* map cache_ is the same set of units indexed by id.  The capacity is     *)
(* capacity_, which the constructor of the accessor chooses.               *)
(***************************************************************************)
EXTENDS SequenceHelpers

CacheUnit(Block, Data) == [id : Block, dirty : BOOLEAN, data : Data]

is_cached(cache, id) == \E i \in DOMAIN cache : cache[i].id = id

\* cache_[id]: where the unit of a cached block is in the list.
Position(cache, id) == CHOOSE i \in DOMAIN cache : cache[i].id = id

\* get(): the unit of a block that is cached.
get(cache, id) == cache[Position(cache, id)]

invalidate(cache, id) ==
    IF is_cached(cache, id) THEN RemoveAt(cache, Position(cache, id)) ELSE cache

\* read() of a cached block, and the end of write(): the unit moves to the front.
Touch(cache, unit) == <<unit>> \o invalidate(cache, unit.id)

\* write() of a block that is not cached: the new unit goes to the front and,
\* above the capacity, evict_unit() takes the last one.
Inserted(cache, id, data, dirty) ==
    <<[id |-> id, dirty |-> dirty, data |-> data]>> \o cache

\* Mutant: the bound is tested before the unit is inserted.
Evicted_late(cache, id, capacity) == ~is_cached(cache, id) /\ Len(cache) > capacity

Evicted(cache, id, capacity) == ~is_cached(cache, id) /\ Len(cache) + 1 > capacity

evict_unit(cache) == Last(cache)

\* write(): on a hit `unit' is a copy of the cached unit, whose data pointer
\* is shared and whose dirty flag is not: the cached unit keeps its flag.
write(cache, id, data, dirty, capacity) ==
    IF is_cached(cache, id)
    THEN Touch(cache, [get(cache, id) EXCEPT !.data = data])
    ELSE IF Evicted(cache, id, capacity) THEN Front(Inserted(cache, id, data, dirty))
    ELSE Inserted(cache, id, data, dirty)

=============================================================================
