---------------------------- MODULE Deduplicator ----------------------------
(***************************************************************************)
(* app/utils/dedup.py: remembers each dedup key for ttl_seconds, counted   *)
(* from the delivery that was not a duplicate.  seen() never suspends, so  *)
(* a call is one step.  The queue calls it for every delivery.             *)
(***************************************************************************)
EXTENDS Clock, Sequences

CONSTANTS
  DedupKeys,     \* dedup keys; None is not one of them (seen(None) is False)
  Ttl            \* ttl_seconds, in ticks

ASSUME DedupAssumption == Ttl \in Nat

VARIABLES
  cache,         \* Deduplicator._cache: key -> time; partial function
  fresh          \* history: the times at which each key was reported new

dedupVars == <<now, cache, fresh>>

DedupTypeOK ==
  /\ ClockTypeOK
  /\ DOMAIN cache \subseteq DedupKeys
  /\ \A k \in DOMAIN cache : cache[k] \in 0..now
  /\ fresh \in [DedupKeys -> Seq(Nat)]

DedupInit ==
  /\ ClockInit
  /\ cache = [k \in {} |-> 0]
  /\ fresh = [k \in DedupKeys |-> << >>]

\* The keys whose entry is older than the TTL and is purged by any call.
Kept_Bug == {k \in DOMAIN cache : now - cache[k] < Ttl}

Kept == {k \in DOMAIN cache : now - cache[k] <= Ttl}

\* The entries with time now for the keys in S, as after a call.
Entries_Bug(S, key) == [k \in S \cup {key} |-> IF k = key THEN now ELSE cache[k]]

Entries(S, key) == [k \in S \cup {key} |-> IF k \in S THEN cache[k] ELSE now]

\* seen(key) returns True: the entry keeps its time.
SeenBefore(key) ==
  /\ key \in Kept
  /\ cache' = Entries(Kept, key)
  /\ UNCHANGED <<now, fresh>>

\* seen(key) returns False.
SeenFirst(key) ==
  /\ key \notin Kept
  /\ cache' = Entries(Kept, key)
  /\ fresh' = [fresh EXCEPT ![key] = Append(@, now)]
  /\ UNCHANGED now

\* seen(key) returns False for a key that no other delivery has, a random one:
\* nothing but the purge is of consequence.
SeenOnce ==
  /\ cache' = [k \in Kept |-> cache[k]]
  /\ UNCHANGED <<now, fresh>>

DedupWait == Tick /\ UNCHANGED <<cache, fresh>>

DedupNext ==
  \/ \E key \in DedupKeys : SeenBefore(key) \/ SeenFirst(key)
  \/ SeenOnce
  \/ DedupWait

DedupSpec == DedupInit /\ [][DedupNext]_dedupVars

-----------------------------------------------------------------------------
(* Properties *)

\* Two deliveries of one update are both let through only if more than the
\* TTL lies between them.
FreshApart ==
  \A k \in DedupKeys : \A i \in 1..(Len(fresh[k]) - 1) :
    fresh[k][i + 1] - fresh[k][i] > Ttl

\* A delivery would be called a duplicate, whenever it comes, only on account
\* of one that was let through at most a TTL ago: a stream of retries does not
\* keep its own key alive.
NotRefreshed ==
  \A k \in Kept :
    /\ fresh[k] # << >>
    /\ now - fresh[k][Len(fresh[k])] <= Ttl
=============================================================================
