------------------------------ MODULE LRUCache -------------------------------
(***************************************************************************)
(* gpl_util::LRUCache (gpl_util/base/lru_cache.h): entry_list_ as a        *)
(* sequence, the most recently used entry first.  entry_map_ points every  *)
(* key at its node of the list; here a key finds its entry by itself.      *)
(* The cache has no lock of its own: its owner has one.                    *)
(***************************************************************************)
EXTENDS Integers, SequencesExt

CONSTANT MaxEntries   \* max_entries_

ASSUME MaxEntriesAssumption == MaxEntries \in Nat \ {0}   \* CHECK_GT

Keys(cache) == {cache[i].key : i \in DOMAIN cache}

ValueOf(cache, k) == (CHOOSE e \in ToSet(cache) : e.key = k).value

\* entry_map_ knows the node of the key, which is erased.
RemoveKey(cache, k) ==
  IF k \in Keys(cache) THEN RemoveAt(cache, CHOOSE i \in DOMAIN cache : cache[i].key = k)
                       ELSE cache

\* Insert: the new entry goes to the front, the key's old one is erased, and the
\* entry at the back is evicted when there are too many.
Insert(cache, k, v) ==
  LET list == <<[key |-> k, value |-> v]>> \o RemoveKey(cache, k)
  IN IF Len(list) > MaxEntries THEN Front(list) ELSE list

\* Lookup: the cache it leaves, a hit moved to the front.
Lookup(cache, k) ==
  IF k \in Keys(cache)
    THEN <<[key |-> k, value |-> ValueOf(cache, k)]>> \o RemoveKey(cache, k)
    ELSE cache

=============================================================================
