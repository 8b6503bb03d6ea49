---------------------------- MODULE LruTtlCache ----------------------------
(***************************************************************************)
(* app/utils/cache.py: an ordered dictionary of entries with a time stamp. *)
(* A cache is a record: what it holds per key, and the keys in the order   *)
(* of the dictionary, least recently used first.  The age of an entry is   *)
(* abstracted to whether its TTL has run out.                              *)
(***************************************************************************)
EXTENDS Naturals, Sequences, FiniteSets

CONSTANT CacheSize          \* max_size, which the constructor keeps positive

ASSUME CacheAssumption == CacheSize \in Nat \ {0}

EmptyCache == [held |-> [k \in {} |-> k], order |-> << >>]

Without(order, key) == SelectSeq(order, LAMBDA k : k # key)

\* get() finds an entry that is not too old.
Hit(cache, key) == key \in DOMAIN cache.held /\ ~cache.held[key].old

\* After get() found the entry: it is now the most recently used one.
Touched(cache, key) ==
  [held |-> cache.held, order |-> Append(Without(cache.order, key), key)]

\* invalidate(key); get() does the same with an entry that is too old.
Invalidated(cache, key) ==
  [held |-> [k \in DOMAIN cache.held \ {key} |-> cache.held[k]],
   order |-> Without(cache.order, key)]

\* set(key, value): one entry too many makes the least recently used one go.
Stored(cache, key, value) ==
  LET order == Append(Without(cache.order, key), key)
      kept  == IF Len(order) > CacheSize THEN Tail(order) ELSE order
      keys  == IF Len(order) > CacheSize
               THEN (DOMAIN cache.held \cup {key}) \ {Head(order)}
               ELSE DOMAIN cache.held \cup {key}
  IN [held |-> [k \in keys |->
                  IF k = key THEN [value |-> value, old |-> FALSE]
                             ELSE cache.held[k]],
      order |-> kept]

\* The TTL of an entry runs out.
Aged(cache, key) ==
  [held |-> [cache.held EXCEPT ![key] = [value |-> @.value, old |-> TRUE]],
   order |-> cache.order]

\* The dictionary and its order agree, and the bound is kept.
CacheShape(cache) ==
  /\ Len(cache.order) <= CacheSize
  /\ DOMAIN cache.held = {cache.order[i] : i \in 1..Len(cache.order)}
  /\ Cardinality(DOMAIN cache.held) = Len(cache.order)
=============================================================================
