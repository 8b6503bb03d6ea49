---------------------------- MODULE TimingProofs ----------------------------
(***************************************************************************)
(* Proofs about the two timed guards of the webhook: the sliding-window    *)
(* limiter and the deduplicator.  Each argument relates the short memory   *)
(* the code keeps (a deque, a dictionary) to the whole history: what has   *)
(* been forgotten is too old to matter.                                    *)
(***************************************************************************)
EXTENDS Intake, FiniteSetTheorems, TLAPS

-----------------------------------------------------------------------------
(* The limiter *)

\* Number of admissions the deque no longer holds.
Gone == Len(admitted) - Len(events)

\* The deque is the end of the history, and what it dropped is too old.
Suffix ==
  /\ Len(events) <= Len(admitted)
  /\ \A i \in 1..Len(events) : events[i] = admitted[Gone + i]
  /\ \A i \in 1..Gone : now - admitted[i] > Window

\* Admissions are recorded in the order of the clock.
Sorted ==
  /\ \A i \in 1..Len(admitted) : admitted[i] <= now
  /\ \A i, j \in 1..Len(admitted) : i <= j => admitted[i] <= admitted[j]

LimiterInv == LimiterTypeOK /\ Suffix /\ Sorted /\ NoBurst

\* What the clean-up of the deque leaves is still the end of the history,
\* and all it dropped is too old.
LEMMA CleanedSuffix ==
  ASSUME LimiterInv, NEW n \in 0..Len(events), Outdated(n)
  PROVE  /\ Without(n) \in Seq(Nat)
         /\ Len(Without(n)) = Len(events) - n
         /\ \A i \in 1..Len(Without(n)) :
              Without(n)[i] = admitted[Len(admitted) - Len(Without(n)) + i]
         /\ \A i \in 1..(Len(admitted) - Len(Without(n))) :
              now - admitted[i] > Window
<1>1. /\ events \in Seq(Nat) /\ admitted \in Seq(Nat) /\ Suffix
      /\ Len(events) \in Nat /\ Len(admitted) \in Nat /\ n \in Nat
  BY DEF LimiterInv, LimiterTypeOK
<1>2. /\ Without(n) \in Seq(Nat)
      /\ Len(Without(n)) = Len(events) - n
      /\ \A i \in 1..(Len(events) - n) : Without(n)[i] = events[n + i]
  BY <1>1 DEF Without
<1>3. ASSUME NEW i \in 1..Len(Without(n))
      PROVE  Without(n)[i] = admitted[Len(admitted) - Len(Without(n)) + i]
  <2>1. n + i \in 1..Len(events) /\ Without(n)[i] = events[n + i]
    BY <1>1, <1>2
  <2>2. events[n + i] = admitted[Gone + (n + i)]
    BY <1>1, <2>1 DEF Suffix
  <2>3. Gone + (n + i) = Len(admitted) - Len(Without(n)) + i
    BY <1>1, <1>2 DEF Gone
  <2> QED BY <2>1, <2>2, <2>3
<1>4. ASSUME NEW i \in 1..(Len(admitted) - Len(Without(n)))
      PROVE  now - admitted[i] > Window
  <2>1. CASE i \in 1..Gone
    BY <1>1, <2>1 DEF Suffix
  <2>2. CASE i \notin 1..Gone
    <3>1. i - Gone \in 1..n /\ i - Gone \in 1..Len(events)
      BY <1>1, <1>2, <2>2 DEF Gone, Suffix
    <3>2. now - events[i - Gone] > Window
      BY <3>1 DEF Outdated
    <3>3. events[i - Gone] = admitted[Gone + (i - Gone)]
      BY <1>1, <3>1 DEF Suffix
    <3>4. Gone + (i - Gone) = i
      BY <1>1, <3>1 DEF Gone
    <3> QED BY <3>2, <3>3, <3>4
  <2> QED BY <2>1, <2>2
<1> QED BY <1>2, <1>3, <1>4

LEMMA LimiterInitially == LimiterInit => LimiterInv
BY LimiterAssumption
   DEF LimiterInit, ClockInit, LimiterInv, LimiterTypeOK, ClockTypeOK, Suffix,
       Sorted, Gone, NoBurst

LEMMA AdmitKeeps ==
  ASSUME LimiterInv, Admit
  PROVE  LimiterInv'
<1>1. PICK n \in 0..Len(events) :
        Outdated(n) /\ HasRoom(n) /\ events' = Append(Without(n), now)
  BY DEF Admit
<1> DEFINE live == Without(n)
           past == Len(admitted)
<1>2. /\ live \in Seq(Nat)
      /\ Len(live) \in Nat
      /\ Len(live) < MaxRequests
      /\ Len(live) <= past
      /\ \A i \in 1..Len(live) : live[i] = admitted[past - Len(live) + i]
      /\ \A i \in 1..(past - Len(live)) : now - admitted[i] > Window
  <2>1. /\ live \in Seq(Nat)
        /\ \A i \in 1..Len(live) : live[i] = admitted[past - Len(live) + i]
        /\ \A i \in 1..(past - Len(live)) : now - admitted[i] > Window
    BY <1>1, CleanedSuffix
  <2>2. Len(live) = Len(events) - n /\ Len(live) < MaxRequests
    BY <1>1, CleanedSuffix DEF HasRoom
  <2>3. Len(events) \in Nat /\ n \in Nat /\ past \in Nat /\ Len(events) <= past
    BY DEF LimiterInv, LimiterTypeOK, Suffix
  <2>4. Len(live) \in Nat /\ Len(live) <= past
    BY <2>2, <2>3
  <2> QED BY <2>1, <2>2, <2>4
<1>3. /\ events' = Append(live, now) /\ now' = now
      /\ admitted' = Append(admitted, now)
      /\ admitted \in Seq(Nat) /\ now \in Nat /\ past \in Nat
  BY <1>1 DEF Admit, LimiterInv, LimiterTypeOK, ClockTypeOK
<1> HIDE DEF live
<1>4. /\ Len(events') = Len(live) + 1 /\ Len(admitted') = past + 1
      /\ \A i \in 1..Len(live) : events'[i] = live[i]
      /\ events'[Len(live) + 1] = now
      /\ \A i \in 1..past : admitted'[i] = admitted[i]
      /\ admitted'[past + 1] = now
  BY <1>2, <1>3
<1>5. LimiterTypeOK'
  BY <1>2, <1>3, <1>4, LimiterAssumption DEF LimiterTypeOK, ClockTypeOK
<1>6. Gone' = past - Len(live)
  BY <1>2, <1>3, <1>4 DEF Gone
<1> HIDE DEF past
<1>7. Suffix'
  <2>1. \A i \in 1..Len(events') : events'[i] = admitted'[Gone' + i]
    <3> SUFFICES ASSUME NEW i \in 1..Len(events')
                 PROVE  events'[i] = admitted'[Gone' + i]
      OBVIOUS
    <3>1. CASE i \in 1..Len(live)
      <4>1. /\ events'[i] = live[i]
            /\ live[i] = admitted[past - Len(live) + i]
        BY <1>2, <1>4, <3>1
      <4>2. past - Len(live) + i \in 1..past
        BY <1>2, <1>3, <3>1
      <4>3. admitted'[past - Len(live) + i] = admitted[past - Len(live) + i]
        BY <1>4, <4>2
      <4> QED BY <1>6, <4>1, <4>3
    <3>2. CASE i = Len(live) + 1
      <4>1. Gone' + i = past + 1
        BY <1>2, <1>3, <1>6, <3>2
      <4> QED BY <1>4, <3>2, <4>1
    <3> QED BY <1>2, <1>4, <3>1, <3>2
  <2>2. \A i \in 1..Gone' : now' - admitted'[i] > Window
    BY <1>2, <1>3, <1>4, <1>6
  <2>3. Len(events') <= Len(admitted')
    BY <1>2, <1>3, <1>4
  <2> QED BY <2>1, <2>2, <2>3 DEF Suffix
<1>8. Sorted'
  <2>1. \A i \in 1..past : admitted[i] <= now
    BY DEF past, LimiterInv, Sorted
  <2>2. \A i, j \in 1..past : i <= j => admitted[i] <= admitted[j]
    BY DEF past, LimiterInv, Sorted
  <2>3. \A i \in 1..Len(admitted') : admitted'[i] <= now'
    BY <1>3, <1>4, <2>1
  <2>4. \A i, j \in 1..Len(admitted') : i <= j => admitted'[i] <= admitted'[j]
    BY <1>3, <1>4, <2>1, <2>2
  <2> QED BY <2>3, <2>4 DEF Sorted
<1>9. NoBurst'
  <2> SUFFICES ASSUME NEW i \in 1..Len(admitted'),
                      i + MaxRequests <= Len(admitted')
               PROVE  admitted'[i + MaxRequests] - admitted'[i] > Window
    BY DEF NoBurst
  <2>1. CASE i + MaxRequests <= past
    <3>1. i \in 1..past /\ i + MaxRequests \in 1..past
      BY <1>3, <2>1, LimiterAssumption
    <3>2. admitted[i + MaxRequests] - admitted[i] > Window
      BY <2>1, <3>1 DEF NoBurst, LimiterInv, past
    <3> QED BY <1>4, <3>1, <3>2
  <2>2. CASE i + MaxRequests = past + 1
    <3>1. i \in 1..(past - Len(live)) /\ i \in 1..past
      BY <1>2, <1>3, <2>2, LimiterAssumption
    <3>2. now - admitted[i] > Window
      BY <1>2, <3>1
    <3> QED BY <1>4, <2>2, <3>1, <3>2
  <2>3. i \in Nat /\ i + MaxRequests <= past + 1 /\ past \in Nat
    BY <1>3, <1>4
  <2> QED BY <2>1, <2>2, <2>3, LimiterAssumption
<1> QED BY <1>5, <1>7, <1>8, <1>9 DEF LimiterInv

LEMMA RefuseKeeps ==
  ASSUME LimiterInv, Refuse
  PROVE  LimiterInv'
<1>1. PICK n \in 0..Len(events) : Outdated(n) /\ events' = Without(n)
  BY DEF Refuse
<1>2. now' = now /\ admitted' = admitted
  BY DEF Refuse
<1>3. /\ events' \in Seq(Nat) /\ Len(events') = Len(events) - n
      /\ \A i \in 1..Len(events') :
           events'[i] = admitted[Len(admitted) - Len(events') + i]
      /\ \A i \in 1..(Len(admitted) - Len(events')) : now - admitted[i] > Window
  BY <1>1, CleanedSuffix
<1>4. LimiterTypeOK' /\ Len(events') <= Len(admitted')
  BY <1>2, <1>3, LimiterAssumption
     DEF LimiterInv, LimiterTypeOK, ClockTypeOK, Suffix
<1>5. Gone' = Len(admitted) - Len(events')
  BY <1>2 DEF Gone
<1>6. Suffix'
  BY <1>2, <1>3, <1>4, <1>5 DEF Suffix
<1> QED BY <1>2, <1>4, <1>6 DEF LimiterInv, Sorted, NoBurst

LEMMA WaitKeeps ==
  ASSUME LimiterInv, Wait
  PROVE  LimiterInv'
<1>1. /\ now' = now + 1 /\ events' = events /\ admitted' = admitted
      /\ now \in Nat /\ admitted \in Seq(Nat) /\ Len(admitted) \in Nat
      /\ Len(events) \in Nat
  BY DEF Wait, Tick, LimiterInv, LimiterTypeOK, ClockTypeOK
<1>2. LimiterTypeOK'
  BY <1>1 DEF LimiterInv, LimiterTypeOK, ClockTypeOK
<1>3. Gone' = Gone /\ \A i \in 1..Gone : now' - admitted[i] > Window
  <2>1. \A i \in 1..Gone : i \in 1..Len(admitted)
    BY <1>1 DEF Gone, LimiterInv, Suffix
  <2>2. \A i \in 1..Gone : admitted[i] \in Nat /\ now - admitted[i] > Window
    BY <1>1, <2>1 DEF LimiterInv, Suffix
  <2> QED BY <1>1, <2>2, LimiterAssumption DEF Gone
<1>4. Suffix'
  BY <1>1, <1>3 DEF Suffix, LimiterInv
<1>5. Sorted'
  <2>1. \A i \in 1..Len(admitted) : admitted[i] \in Nat /\ admitted[i] <= now
    BY <1>1 DEF LimiterInv, Sorted
  <2> QED BY <1>1, <2>1 DEF LimiterInv, Sorted
<1> QED BY <1>1, <1>2, <1>4, <1>5 DEF LimiterInv, NoBurst

LEMMA LimiterStep == LimiterInv /\ [LimiterNext]_limiterVars => LimiterInv'
<1> SUFFICES ASSUME LimiterInv, [LimiterNext]_limiterVars
             PROVE  LimiterInv'
  OBVIOUS
<1>1. CASE UNCHANGED limiterVars
  BY <1>1 DEF limiterVars, LimiterInv, LimiterTypeOK, ClockTypeOK, Suffix,
              Gone, Sorted, NoBurst
<1> QED BY <1>1, AdmitKeeps, RefuseKeeps, WaitKeeps DEF LimiterNext

\* The deque is always exactly the part of the history that can still matter.
THEOREM LimiterInvariant == LimiterSpec => []LimiterInv
BY LimiterInitially, LimiterStep, PTL DEF LimiterSpec

\* RateLimiter.allow never lets a burst through, whatever the limit, the
\* window and the times of the requests.
THEOREM LimiterNoBurst == LimiterSpec => []NoBurst
BY LimiterInvariant, PTL DEF LimiterInv

\* If a request would be refused the budget of the last window is spent.
LEMMA RefuseMeansFull ==
  ASSUME LimiterInv, WouldRefuse
  PROVE  Cardinality(Recent) >= MaxRequests
<1>1. PICK n \in 0..Len(events) : Outdated(n) /\ ~HasRoom(n)
  BY DEF WouldRefuse
<1> DEFINE past == Len(admitted)
           len == Len(Without(n))
<1>2. /\ len = Len(events) - n /\ len \in Nat /\ len >= MaxRequests
      /\ past \in Nat /\ len <= past /\ n \in Nat /\ Len(events) \in Nat
      /\ now \in Nat
  <2>1. len = Len(events) - n /\ ~(len < MaxRequests)
    BY <1>1, CleanedSuffix DEF HasRoom
  <2> QED BY <2>1, LimiterAssumption
          DEF LimiterInv, LimiterTypeOK, ClockTypeOK, Suffix
<1> HIDE DEF len
<1>3. ((past - len) + 1)..past \subseteq Recent
  <2> SUFFICES ASSUME NEW i \in ((past - len) + 1)..past
               PROVE  now - admitted[i] <= Window
    BY <1>2 DEF Recent
  <2>1. n < Len(events) /\ now - events[n + 1] <= Window
    BY <1>1, <1>2 DEF Outdated
  <2>2. events[n + 1] = admitted[Gone + (n + 1)]
    BY <1>2, <2>1 DEF LimiterInv, Suffix
  <2>3. Gone + (n + 1) = (past - len) + 1
    BY <1>2 DEF Gone
  <2>4. /\ (past - len) + 1 \in 1..past /\ i \in 1..past
        /\ (past - len) + 1 <= i
    BY <1>2
  <2>5. admitted[(past - len) + 1] <= admitted[i]
    BY <2>4 DEF LimiterInv, Sorted
  <2>6. admitted[i] \in Nat /\ admitted[(past - len) + 1] \in Nat
    BY <2>4 DEF LimiterInv, LimiterTypeOK
  <2>7. now - admitted[(past - len) + 1] <= Window
    BY <2>1, <2>2, <2>3
  <2> QED BY <1>2, <2>5, <2>6, <2>7, LimiterAssumption
<1>4. IsFiniteSet(Recent)
  <2>1. IsFiniteSet(1..past)
    BY <1>2, FS_Interval
  <2>2. Recent \subseteq 1..past
    BY DEF Recent
  <2> QED BY <2>1, <2>2, FS_Subset
<1>5. Cardinality(((past - len) + 1)..past) = len
  <2> DEFINE low == (past - len) + 1
  <2>1. /\ low \in Int /\ past \in Int
        /\ (IF low > past THEN 0 ELSE past - low + 1) = len
    BY <1>2
  <2> HIDE DEF low
  <2>2. Cardinality(low..past) = IF low > past THEN 0 ELSE past - low + 1
    BY <2>1, FS_Interval
  <2> QED BY <2>1, <2>2 DEF low
<1>6. Cardinality(((past - len) + 1)..past) <= Cardinality(Recent)
  BY <1>3, <1>4, FS_Subset
<1>7. Cardinality(Recent) \in Nat
  BY <1>4, FS_CardinalityType
<1> QED BY <1>2, <1>5, <1>6, <1>7, LimiterAssumption

\* The limiter is exact: it refuses no request while fewer than the allowed
\* number were let through in the last window.
THEOREM LimiterRefusesOnlyWhenFull == LimiterSpec => []RefusedOnlyWhenFull
<1>1. LimiterInv => RefusedOnlyWhenFull
  BY RefuseMeansFull DEF RefusedOnlyWhenFull
<1> QED BY <1>1, LimiterInvariant, PTL

-----------------------------------------------------------------------------
(* The deduplicator *)

\* The time at which key k was last reported new.
LastFresh(k) == fresh[k][Len(fresh[k])]

\* An entry of the cache holds the last time its key was reported new; a key
\* without entry was reported new more than the TTL ago, if ever.
Remembers ==
  \A k \in DedupKeys :
    IF k \in DOMAIN cache
    THEN fresh[k] # << >> /\ cache[k] = LastFresh(k)
    ELSE fresh[k] # << >> => now - LastFresh(k) > Ttl

NotInFuture ==
  \A k \in DedupKeys : \A i \in 1..Len(fresh[k]) : fresh[k][i] <= now

DedupInv == DedupTypeOK /\ Remembers /\ NotInFuture /\ FreshApart

LEMMA DedupInitially == DedupInit => DedupInv
BY DedupAssumption
   DEF DedupInit, ClockInit, DedupInv, DedupTypeOK, ClockTypeOK, Remembers,
       NotInFuture, FreshApart

\* What the purge removes is too old to be a duplicate.
LEMMA Purged ==
  ASSUME DedupInv, NEW k \in DedupKeys
  PROVE  IF k \in Kept
         THEN fresh[k] # << >> /\ cache[k] = LastFresh(k)
         ELSE fresh[k] # << >> => now - LastFresh(k) > Ttl
<1>1. CASE k \in DOMAIN cache
  <2>1. fresh[k] # << >> /\ cache[k] = LastFresh(k)
    BY <1>1 DEF DedupInv, Remembers
  <2>2. cache[k] \in 0..now /\ now \in Nat
    BY <1>1 DEF DedupInv, DedupTypeOK, ClockTypeOK
  <2>3. k \notin Kept => now - cache[k] > Ttl
    BY <1>1, <2>2, DedupAssumption DEF Kept
  <2> QED BY <2>1, <2>3
<1>2. CASE k \notin DOMAIN cache
  <2>1. k \notin Kept
    BY <1>2 DEF Kept
  <2> QED BY <1>2, <2>1 DEF DedupInv, Remembers
<1> QED BY <1>1, <1>2

LEMMA SeenBeforeKeeps ==
  ASSUME DedupInv, NEW key \in DedupKeys, SeenBefore(key)
  PROVE  DedupInv'
<1>1. /\ key \in Kept /\ Kept \subseteq DOMAIN cache
      /\ now' = now /\ fresh' = fresh /\ cache' = Entries(Kept, key)
  BY DEF SeenBefore, Kept
<1>2. /\ DOMAIN cache' = Kept
      /\ \A k \in Kept : cache'[k] = cache[k]
  BY <1>1 DEF Entries
<1>3. DedupTypeOK'
  BY <1>1, <1>2 DEF DedupInv, DedupTypeOK, ClockTypeOK
<1>4. Remembers'
  BY <1>1, <1>2, Purged DEF Remembers, LastFresh
<1> QED BY <1>1, <1>3, <1>4 DEF DedupInv, NotInFuture, FreshApart

LEMMA SeenOnceKeeps ==
  ASSUME DedupInv, SeenOnce
  PROVE  DedupInv'
<1>1. /\ now' = now /\ fresh' = fresh
      /\ Kept \subseteq DOMAIN cache /\ DOMAIN cache' = Kept
      /\ \A k \in Kept : cache'[k] = cache[k]
  BY DEF SeenOnce, Kept
<1>2. DedupTypeOK'
  BY <1>1 DEF DedupInv, DedupTypeOK, ClockTypeOK
<1>3. Remembers'
  BY <1>1, Purged DEF Remembers, LastFresh
<1> QED BY <1>1, <1>2, <1>3 DEF DedupInv, NotInFuture, FreshApart

LEMMA SeenFirstKeeps ==
  ASSUME DedupInv, NEW key \in DedupKeys, SeenFirst(key)
  PROVE  DedupInv'
<1>1. /\ key \notin Kept /\ Kept \subseteq DOMAIN cache
      /\ now' = now /\ cache' = Entries(Kept, key)
      /\ fresh' = [fresh EXCEPT ![key] = Append(@, now)]
      /\ fresh \in [DedupKeys -> Seq(Nat)] /\ now \in Nat
  BY DEF SeenFirst, Kept, DedupInv, DedupTypeOK, ClockTypeOK
<1>2. /\ DOMAIN cache' = Kept \cup {key}
      /\ \A k \in Kept : cache'[k] = cache[k]
      /\ cache'[key] = now
  BY <1>1 DEF Entries
<1>3. /\ fresh'[key] = Append(fresh[key], now)
      /\ \A k \in DedupKeys \ {key} : fresh'[k] = fresh[k]
      /\ Len(fresh'[key]) = Len(fresh[key]) + 1 /\ Len(fresh[key]) \in Nat
      /\ \A i \in 1..Len(fresh[key]) : fresh'[key][i] = fresh[key][i]
      /\ fresh'[key][Len(fresh[key]) + 1] = now
  <2>1. fresh[key] \in Seq(Nat) /\ fresh'[key] = Append(fresh[key], now)
    BY <1>1
  <2>2. \A k \in DedupKeys \ {key} : fresh'[k] = fresh[k]
    BY <1>1
  <2>3. /\ Len(Append(fresh[key], now)) = Len(fresh[key]) + 1
        /\ Len(fresh[key]) \in Nat
        /\ \A i \in 1..Len(fresh[key]) : Append(fresh[key], now)[i] = fresh[key][i]
        /\ Append(fresh[key], now)[Len(fresh[key]) + 1] = now
    BY <1>1, <2>1
  <2> QED BY <2>1, <2>2, <2>3
<1>4. fresh[key] # << >> => now - LastFresh(key) > Ttl
  <2>1. CASE key \in DOMAIN cache
    <3>1. cache[key] = LastFresh(key) /\ cache[key] \in 0..now
      BY <2>1 DEF DedupInv, Remembers, DedupTypeOK
    <3>2. ~(now - cache[key] <= Ttl)
      BY <1>1, <2>1 DEF Kept
    <3> QED BY <1>1, <3>1, <3>2, DedupAssumption
  <2>2. CASE key \notin DOMAIN cache
    BY <2>2 DEF DedupInv, Remembers
  <2> QED BY <2>1, <2>2
<1>5. DedupTypeOK'
  <2>1. fresh' \in [DedupKeys -> Seq(Nat)]
    BY <1>1
  <2>2. DOMAIN cache' \subseteq DedupKeys
    BY <1>1, <1>2 DEF DedupInv, DedupTypeOK
  <2>3. \A k \in DOMAIN cache' : cache'[k] \in 0..now'
    BY <1>1, <1>2 DEF DedupInv, DedupTypeOK
  <2> QED BY <1>1, <2>1, <2>2, <2>3 DEF DedupTypeOK, ClockTypeOK
<1>6. Remembers'
  <2> SUFFICES ASSUME NEW k \in DedupKeys
               PROVE  IF k \in DOMAIN cache'
                      THEN fresh'[k] # << >> /\ cache'[k] = fresh'[k][Len(fresh'[k])]
                      ELSE fresh'[k] # << >> => now - fresh'[k][Len(fresh'[k])] > Ttl
    BY <1>1 DEF Remembers, LastFresh
  <2>1. CASE k = key
    BY <1>2, <1>3, <2>1
  <2>2. CASE k # key /\ k \in Kept
    <3>1. k \in DOMAIN cache /\ fresh[k] # << >> /\ cache[k] = LastFresh(k)
      BY <1>1, <2>2 DEF DedupInv, Remembers
    <3> QED BY <1>2, <1>3, <2>2, <3>1 DEF LastFresh
  <2>3. CASE k # key /\ k \notin Kept
    <3>1. fresh[k] # << >> => now - LastFresh(k) > Ttl
      <4>1. CASE k \in DOMAIN cache
        <5>1. cache[k] = LastFresh(k) /\ cache[k] \in 0..now
          BY <4>1 DEF DedupInv, Remembers, DedupTypeOK
        <5>2. ~(now - cache[k] <= Ttl)
          BY <2>3, <4>1 DEF Kept
        <5> QED BY <1>1, <5>1, <5>2, DedupAssumption
      <4>2. CASE k \notin DOMAIN cache
        BY <4>2 DEF DedupInv, Remembers
      <4> QED BY <4>1, <4>2
    <3> QED BY <1>2, <1>3, <2>3, <3>1 DEF LastFresh
  <2> QED BY <2>1, <2>2, <2>3
<1>7. NotInFuture'
  <2> SUFFICES ASSUME NEW k \in DedupKeys, NEW i \in 1..Len(fresh'[k])
               PROVE  fresh'[k][i] <= now
    BY <1>1 DEF NotInFuture
  <2>1. CASE k = key /\ i = Len(fresh[key]) + 1
    BY <1>1, <1>3, <2>1
  <2>2. CASE k = key /\ i \in 1..Len(fresh[key])
    BY <1>3, <2>2 DEF DedupInv, NotInFuture
  <2>3. CASE k # key
    BY <1>3, <2>3 DEF DedupInv, NotInFuture
  <2>4. k = key => i = Len(fresh[key]) + 1 \/ i \in 1..Len(fresh[key])
    BY <1>3
  <2> QED BY <2>1, <2>2, <2>3, <2>4
<1>8. FreshApart'
  <2> SUFFICES ASSUME NEW k \in DedupKeys, NEW i \in 1..(Len(fresh'[k]) - 1)
               PROVE  fresh'[k][i + 1] - fresh'[k][i] > Ttl
    BY DEF FreshApart
  <2>1. CASE k # key
    BY <1>3, <2>1 DEF DedupInv, FreshApart
  <2>2. CASE k = key /\ i = Len(fresh[key])
    <3>1. fresh[key] # << >> /\ i \in 1..Len(fresh[key])
      BY <1>1, <1>3, <2>2
    <3>2. fresh'[k][i + 1] = now /\ fresh'[k][i] = LastFresh(key)
      BY <1>3, <2>2, <3>1 DEF LastFresh
    <3> QED BY <1>4, <3>1, <3>2
  <2>3. CASE k = key /\ i # Len(fresh[key])
    <3>1. /\ i \in 1..(Len(fresh[key]) - 1)
          /\ i \in 1..Len(fresh[key]) /\ i + 1 \in 1..Len(fresh[key])
      BY <1>3, <2>3
    <3>2. fresh[key][i + 1] - fresh[key][i] > Ttl
      BY <3>1 DEF DedupInv, FreshApart
    <3> QED BY <1>3, <2>3, <3>1, <3>2
  <2> QED BY <2>1, <2>2, <2>3
<1> QED BY <1>5, <1>6, <1>7, <1>8 DEF DedupInv

LEMMA DedupWaitKeeps ==
  ASSUME DedupInv, DedupWait
  PROVE  DedupInv'
<1>1. /\ now' = now + 1 /\ cache' = cache /\ fresh' = fresh /\ now \in Nat
      /\ fresh \in [DedupKeys -> Seq(Nat)]
  BY DEF DedupWait, Tick, DedupInv, DedupTypeOK, ClockTypeOK
<1>2. DedupTypeOK'
  BY <1>1 DEF DedupInv, DedupTypeOK, ClockTypeOK
<1>3. NotInFuture'
  <2>1. \A k \in DedupKeys : \A i \in 1..Len(fresh[k]) :
          fresh[k][i] \in Nat /\ fresh[k][i] <= now
    BY <1>1 DEF DedupInv, NotInFuture
  <2> QED BY <1>1, <2>1 DEF NotInFuture
<1>4. Remembers'
  <2> SUFFICES ASSUME NEW k \in DedupKeys, k \notin DOMAIN cache, fresh[k] # << >>
               PROVE  now + 1 - LastFresh(k) > Ttl
    BY <1>1 DEF DedupInv, Remembers, LastFresh
  <2>1. now - LastFresh(k) > Ttl
    BY DEF DedupInv, Remembers
  <2>2. LastFresh(k) \in Nat
    BY <1>1 DEF LastFresh
  <2> QED BY <1>1, <2>1, <2>2, DedupAssumption
<1> QED BY <1>1, <1>2, <1>3, <1>4 DEF DedupInv, FreshApart

LEMMA DedupStep == DedupInv /\ [DedupNext]_dedupVars => DedupInv'
<1> SUFFICES ASSUME DedupInv, [DedupNext]_dedupVars
             PROVE  DedupInv'
  OBVIOUS
<1>1. CASE UNCHANGED dedupVars
  BY <1>1 DEF dedupVars, DedupInv, DedupTypeOK, ClockTypeOK, Remembers,
              LastFresh, NotInFuture, FreshApart
<1> QED BY <1>1, SeenBeforeKeeps, SeenFirstKeeps, SeenOnceKeeps, DedupWaitKeeps
        DEF DedupNext

\* The cache is always exactly the part of the history that can still matter.
THEOREM DedupInvariant == DedupSpec => []DedupInv
BY DedupInitially, DedupStep, PTL DEF DedupSpec

\* Deduplicator.seen lets two deliveries of one update through only if more
\* than the TTL lies between them, for any TTL and any number of keys.
THEOREM DedupFreshApart == DedupSpec => []FreshApart
BY DedupInvariant, PTL DEF DedupInv

\* A duplicate is called so only because of a delivery that was let through
\* at most a TTL ago: retries do not keep a key alive.
THEOREM DedupNotRefreshed == DedupSpec => []NotRefreshed
<1>1. DedupInv => NotRefreshed
  BY DEF Kept, DedupInv, DedupTypeOK, Remembers, LastFresh, NotRefreshed
<1> QED BY <1>1, DedupInvariant, PTL

-----------------------------------------------------------------------------
(* The webhook, which asks one after the other *)

LEMMA IntakeStepLimits ==
  ASSUME [IntakeNext]_intakeVars
  PROVE  [LimiterNext]_limiterVars
<1>1. CASE UNCHANGED intakeVars
  BY <1>1 DEF intakeVars, limiterVars
<1>2. CASE Quiet
  BY <1>2 DEF Quiet, LimiterNext, Wait
<1>3. ASSUME NEW u \in Updates, HandleRequest(u)
      PROVE  Admit \/ Refuse \/ UNCHANGED limiterVars
  BY <1>3 DEF HandleRequest, Unauthorized, TooMany, BadRequest, ServerError,
              Duplicate, Enqueued, Dropped, NewJob, limiterVars
<1> QED BY <1>1, <1>2, <1>3 DEF IntakeNext, LimiterNext

LEMMA IntakeStepDedups ==
  ASSUME [IntakeNext]_intakeVars
  PROVE  [DedupNext]_dedupVars
<1>1. CASE UNCHANGED intakeVars
  BY <1>1 DEF intakeVars, dedupVars
<1>2. CASE Quiet
  BY <1>2 DEF Quiet, DedupNext, DedupWait
<1>3. ASSUME NEW u \in Updates, HandleRequest(u)
      PROVE  DedupNext \/ UNCHANGED dedupVars
  <2>1. CASE Unauthorized(u) \/ TooMany(u) \/ BadRequest(u) \/ ServerError(u)
    BY <2>1 DEF Unauthorized, TooMany, BadRequest, ServerError, Refuse, Admit,
                dedupVars
  <2>2. CASE Duplicate(u)
    BY <2>2, KeyAssumption DEF Duplicate, DedupNext
  <2>3. CASE NewJob(u)
    BY <2>3, KeyAssumption DEF NewJob, DedupNext
  <2> QED BY <1>3, <2>1, <2>2, <2>3 DEF HandleRequest, Enqueued, Dropped
<1> QED BY <1>1, <1>2, <1>3 DEF IntakeNext

\* The webhook leaves the limiter's and the deduplicator's promises intact:
\* it asks each of them at most once per request and keeps to the answer.
THEOREM WebhookKeepsBoth == IntakeSpec => LimiterSpec /\ DedupSpec
<1>1. IntakeInit => LimiterInit /\ DedupInit
  BY DEF IntakeInit
<1> QED BY <1>1, IntakeStepLimits, IntakeStepDedups, PTL
        DEF IntakeSpec, LimiterSpec, DedupSpec

\* Hence, for any requests in any order at any time: no burst of jobs, no
\* refusal (429) with budget left, and an update is let through again, or a
\* retry swallowed, exactly as the TTL says.
THEOREM WebhookPromises ==
  IntakeSpec => [](NoBurst /\ RefusedOnlyWhenFull /\ FreshApart /\ NotRefreshed)
BY WebhookKeepsBoth, LimiterNoBurst, LimiterRefusesOnlyWhenFull,
   DedupFreshApart, DedupNotRefreshed, PTL

Jobs == [update : Updates, at : Nat, priority : {"high", "normal"}]

HandedInv == handed \in Seq(Jobs) /\ FreshIsHanded

\* What has been offered to the queue stays there, and is followed by the job.
LEMMA OfferedFacts ==
  ASSUME NEW u \in Updates, now \in Nat, handed \in Seq(Jobs), Offered(u)
  PROVE  /\ handed' \in Seq(Jobs)
         /\ Len(handed) + 1 \in DOMAIN handed'
         /\ handed'[Len(handed) + 1].update = u /\ handed'[Len(handed) + 1].at = now
         /\ \A n \in DOMAIN handed : n \in DOMAIN handed' /\ handed'[n] = handed[n]
<1> DEFINE job == [update |-> u, at |-> now, priority |-> Priority(u)]
<1>1. job \in Jobs /\ job.update = u /\ job.at = now
  BY DEF Jobs, Priority
<1>2. handed' = Append(handed, job)
  BY DEF Offered
<1> HIDE DEF job
<1> QED BY <1>1, <1>2

\* A new job's key is recorded with the job, and no other key is.
LEMMA NewJobHanded ==
  ASSUME HandedInv, DedupTypeOK, NEW u \in Updates, NewJob(u), Offered(u)
  PROVE  HandedInv'
<1>1. now \in Nat /\ handed \in Seq(Jobs) /\ fresh \in [DedupKeys -> Seq(Nat)]
  BY DEF HandedInv, DedupTypeOK, ClockTypeOK
<1>2. /\ handed' \in Seq(Jobs) /\ Len(handed) + 1 \in DOMAIN handed'
      /\ handed'[Len(handed) + 1].update = u /\ handed'[Len(handed) + 1].at = now
      /\ \A n \in DOMAIN handed : n \in DOMAIN handed' /\ handed'[n] = handed[n]
  BY <1>1, OfferedFacts
<1>3. ASSUME NEW k \in DedupKeys, NEW i \in DOMAIN fresh'[k]
      PROVE  \E n \in DOMAIN handed' :
               DedupKey(handed'[n].update) = k /\ handed'[n].at = fresh'[k][i]
  <2>1. CASE i \in DOMAIN fresh[k] /\ fresh'[k][i] = fresh[k][i]
    <3>1. PICK n \in DOMAIN handed :
            DedupKey(handed[n].update) = k /\ handed[n].at = fresh[k][i]
      BY <2>1 DEF HandedInv, FreshIsHanded
    <3> QED BY <3>1, <2>1, <1>2
  <2>2. CASE fresh'[k] = Append(fresh[k], now) /\ k = DedupKey(u)
    <3>1. fresh[k] \in Seq(Nat)
      BY <1>1
    <3>2. \/ i \in DOMAIN fresh[k] /\ fresh'[k][i] = fresh[k][i]
          \/ fresh'[k][i] = now
      BY <3>1, <2>2, <1>1
    <3>3. CASE fresh'[k][i] = now
      BY <3>3, <2>2, <1>2
    <3> QED BY <3>2, <3>3, <2>1
  <2>3. fresh'[k] = fresh[k] \/ (fresh'[k] = Append(fresh[k], now) /\ k = DedupKey(u))
    <3>1. CASE DedupKey(u) = None
      BY <3>1 DEF NewJob, SeenOnce
    <3>2. CASE DedupKey(u) # None
      BY <3>2, <1>1 DEF NewJob, SeenFirst
    <3> QED BY <3>1, <3>2
  <2> QED BY <2>1, <2>2, <2>3
<1> QED BY <1>2, <1>3 DEF HandedInv, FreshIsHanded

\* Nothing else records a key.
LEMMA HandedStep ==
  ASSUME HandedInv, DedupTypeOK, [IntakeNext]_intakeVars
  PROVE  HandedInv'
<1>1. CASE UNCHANGED <<fresh, handed>>
  BY <1>1 DEF HandedInv, FreshIsHanded
<1>2. CASE \E u \in Updates : NewJob(u) /\ Offered(u)
  BY <1>2, NewJobHanded
<1>3. ASSUME NEW u \in Updates, HandleRequest(u)
      PROVE  UNCHANGED <<fresh, handed>> \/ (NewJob(u) /\ Offered(u))
  BY <1>3 DEF HandleRequest, Unauthorized, TooMany, BadRequest, ServerError,
              Duplicate, Enqueued, Dropped, SeenBefore
<1> QED BY <1>1, <1>2, <1>3 DEF IntakeNext, Quiet, intakeVars

\* Whoever is turned away by the limiter, by the parser or by an exception
\* leaves no key behind: each key that is recorded came with a job.
THEOREM TurnedAwayLeavesNothing == IntakeSpec => []FreshIsHanded
<1>1. IntakeInit => HandedInv
  BY DEF IntakeInit, DedupInit, HandedInv, FreshIsHanded
<1>2. HandedInv /\ DedupTypeOK /\ [IntakeNext]_intakeVars => HandedInv'
  BY HandedStep
<1>3. IntakeSpec => []DedupTypeOK
  <2>1. DedupInv => DedupTypeOK
    BY DEF DedupInv
  <2> QED BY <2>1, WebhookKeepsBoth, DedupInvariant, PTL
<1>4. HandedInv => FreshIsHanded
  BY DEF HandedInv
<1> QED BY <1>1, <1>2, <1>3, <1>4, PTL DEF IntakeSpec

-----------------------------------------------------------------------------
(* A key says which message it is *)

LEMMA JoinIs ==
  ASSUME NEW S, NEW s \in Seq(S), NEW t \in Seq(S)
  PROVE  /\ s \o t \in Seq(S)
         /\ Len(s \o t) = Len(s) + Len(t)
         /\ \A i \in 1..Len(s) : (s \o t)[i] = s[i]
         /\ \A i \in 1..Len(t) : (s \o t)[Len(s) + i] = t[i]
OBVIOUS

LEMMA PartIs ==
  ASSUME NEW x, NEW S, x # None => x \in S
  PROVE  /\ Part(x) \in Seq(S)
         /\ Len(Part(x)) = IF x = None THEN 0 ELSE 1
         /\ x # None => Part(x)[1] = x
<1>1. CASE x = None
  BY <1>1 DEF Part
<1>2. CASE x # None
  BY <1>2 DEF Part
<1> QED BY <1>1, <1>2

Joined(a, b, c, d) == Part(a) \o Part(b) \o Part(c) \o Part(d)

\* The parts of a key: its first two are the chat and the message if these
\* are there; without a chat the first one is of another kind, and without a
\* message the second.
LEMMA PartsTell ==
  ASSUME NEW a, NEW b, NEW c, NEW d
  PROVE  /\ Joined(a, b, c, d) \in Seq({a, b, c, d})
         /\ a # None /\ b # None => Len(Joined(a, b, c, d)) >= 2
         /\ Len(Joined(a, b, c, d)) >= 2 =>
              /\ a = None => Joined(a, b, c, d)[1] \in {b, c, d}
              /\ a # None => Joined(a, b, c, d)[1] = a
              /\ a # None /\ b # None => Joined(a, b, c, d)[2] = b
              /\ a # None /\ b = None => Joined(a, b, c, d)[2] \in {c, d}
<1> DEFINE S == {a, b, c, d}
           A == Part(a)
           B == Part(b)
           C == Part(c)
           D == Part(d)
           X == A \o B
           Y == X \o C
           K == Y \o D
<1>1. a \in S /\ b \in S /\ c \in S /\ d \in S
  OBVIOUS
<1>2. K = Joined(a, b, c, d)
  BY DEF Joined
<1>3. /\ C \in Seq({c, d}) /\ D \in Seq({c, d}) /\ B \in Seq({b, c, d})
      /\ C \in Seq({b, c, d}) /\ D \in Seq({b, c, d})
  BY PartIs
<1> HIDE DEF S
<1>4. A \in Seq(S) /\ B \in Seq(S) /\ C \in Seq(S) /\ D \in Seq(S)
  BY <1>1, PartIs
<1>5. /\ Len(A) = (IF a = None THEN 0 ELSE 1) /\ (a # None => A[1] = a)
      /\ Len(B) = (IF b = None THEN 0 ELSE 1) /\ (b # None => B[1] = b)
  BY PartIs
<1> HIDE DEF A, B, C, D
<1>6. /\ X \in Seq(S) /\ Len(X) = Len(A) + Len(B)
      /\ \A i \in 1..Len(A) : X[i] = A[i]
      /\ \A i \in 1..Len(B) : X[Len(A) + i] = B[i]
  BY <1>4, JoinIs
<1>7. /\ a = None => X \in Seq({b, c, d})
      /\ b = None => \A i \in 2..Len(X) : FALSE
  <2>1. ASSUME a = None PROVE X \in Seq({b, c, d})
    <3>1. Len(A) = 0
      BY <1>5, <2>1
    <3>2. A \in Seq({b, c, d})
      BY <1>4, <3>1
    <3> QED BY <1>3, <3>2, JoinIs
  <2>2. b = None => Len(X) <= 1
    BY <1>5, <1>6
  <2>3. Len(X) \in Nat
    BY <1>6
  <2> HIDE DEF X
  <2> QED BY <2>1, <2>2, <2>3
<1> HIDE DEF X
<1>8. /\ Y \in Seq(S) /\ Len(Y) = Len(X) + Len(C)
      /\ \A i \in 1..Len(X) : Y[i] = X[i]
      /\ \A i \in 1..Len(C) : Y[Len(X) + i] = C[i]
      /\ a = None => Y \in Seq({b, c, d})
  <2>1. X \o C \in Seq(S) /\ Len(X \o C) = Len(X) + Len(C)
    BY <1>4, <1>6, JoinIs
  <2>2. /\ \A i \in 1..Len(X) : (X \o C)[i] = X[i]
        /\ \A i \in 1..Len(C) : (X \o C)[Len(X) + i] = C[i]
    BY <1>4, <1>6, JoinIs
  <2>3. ASSUME a = None PROVE X \o C \in Seq({b, c, d})
    BY <1>3, <1>7, <2>3, JoinIs
  <2> QED BY <2>1, <2>2, <2>3
<1> HIDE DEF Y
<1>9. /\ K \in Seq(S) /\ Len(K) = Len(Y) + Len(D)
      /\ \A i \in 1..Len(Y) : K[i] = Y[i]
      /\ \A i \in 1..Len(D) : K[Len(Y) + i] = D[i]
      /\ a = None => K \in Seq({b, c, d})
  <2>1. Y \o D \in Seq(S) /\ Len(Y \o D) = Len(Y) + Len(D)
    BY <1>4, <1>8, JoinIs
  <2>2. /\ \A i \in 1..Len(Y) : (Y \o D)[i] = Y[i]
        /\ \A i \in 1..Len(D) : (Y \o D)[Len(Y) + i] = D[i]
    BY <1>4, <1>8, JoinIs
  <2>3. ASSUME a = None PROVE Y \o D \in Seq({b, c, d})
    BY <1>3, <1>8, <2>3, JoinIs
  <2> QED BY <2>1, <2>2, <2>3
<1> HIDE DEF K
<1>10. /\ Len(A) \in Nat /\ Len(B) \in Nat /\ Len(C) \in Nat /\ Len(D) \in Nat
       /\ Len(X) \in Nat /\ Len(Y) \in Nat /\ Len(K) \in Nat
  BY <1>4, <1>6, <1>8, <1>9
<1>11. ASSUME a # None, b # None PROVE Len(K) >= 2 /\ K[2] = b
  <2>1. Len(A) = 1 /\ Len(B) = 1 /\ Len(X) = 2
    BY <1>5, <1>6, <1>11
  <2>2. X[2] = b
    <3>1. 1 \in 1..Len(B) /\ Len(A) + 1 = 2
      BY <2>1
    <3>2. X[Len(A) + 1] = B[1]
      BY <1>6, <3>1
    <3> QED BY <1>5, <1>11, <3>1, <3>2
  <2>3. 2 \in 1..Len(X) /\ 2 \in 1..Len(Y) /\ Len(K) >= 2
    BY <1>8, <1>9, <1>10, <2>1
  <2> QED BY <1>8, <1>9, <2>2, <2>3
<1>12. ASSUME a # None PROVE K[1] = a
  <2>1. 1 \in 1..Len(A) /\ 1 \in 1..Len(X) /\ 1 \in 1..Len(Y)
    BY <1>5, <1>6, <1>8, <1>10, <1>12
  <2> QED BY <1>5, <1>6, <1>8, <1>9, <1>12, <2>1
<1>13. ASSUME a = None, Len(K) >= 2 PROVE K[1] \in {b, c, d}
  <2>1. K \in Seq({b, c, d}) /\ 1 \in 1..Len(K)
    BY <1>9, <1>10, <1>13
  <2> QED BY <2>1
<1>14. ASSUME a # None, b = None, Len(K) >= 2 PROVE K[2] \in {c, d}
  <2>1. Len(X) = 1
    BY <1>5, <1>6, <1>14
  <2>2. CASE Len(Y) >= 2
    <3>1. 1 \in 1..Len(C) /\ 2 \in 1..Len(Y) /\ Len(X) + 1 = 2
      BY <1>8, <1>10, <2>1, <2>2
    <3>2. K[2] = Y[2] /\ Y[Len(X) + 1] = C[1] /\ C[1] \in {c, d}
      BY <1>3, <1>8, <1>9, <3>1
    <3> QED BY <3>1, <3>2
  <2>3. CASE ~(Len(Y) >= 2)
    <3>1. 1 \in 1..Len(D) /\ Len(Y) + 1 = 2
      BY <1>8, <1>9, <1>10, <1>14, <2>1, <2>3
    <3>2. K[Len(Y) + 1] = D[1] /\ D[1] \in {c, d}
      BY <1>3, <1>9, <3>1
    <3> QED BY <3>1, <3>2
  <2> QED BY <2>2, <2>3
<1>15. K \in Seq({a, b, c, d})
  BY <1>9 DEF S
<1>16. /\ a # None /\ b # None => Len(K) >= 2
       /\ Len(K) >= 2 =>
            /\ a = None => K[1] \in {b, c, d}
            /\ a # None => K[1] = a
            /\ a # None /\ b # None => K[2] = b
            /\ a # None /\ b = None => K[2] \in {c, d}
  BY <1>11, <1>12, <1>13, <1>14
<1> QED BY <1>2, <1>15, <1>16

\* If ids of different kinds differ, requests with the key of a message that
\* has both ids are about that message.
LEMMA SameKeySameMessage ==
  ASSUME KindsApart, NEW u \in Updates, NEW v \in Updates,
         u.chat # None, u.message # None, DedupKey(u) = DedupKey(v), DedupKey(u) # None
  PROVE  SameMessage(u, v)
<1> DEFINE K == Joined(u.chat, u.message, u.type, u.button)
           L == Joined(v.chat, v.message, v.type, v.button)
<1>1. K \in Seq({u.chat, u.message, u.type, u.button}) /\ Len(K) >= 2
  BY PartsTell
<1>2. DedupKey(u) = K
  <2>1. K # << >>
    <3> HIDE DEF K
    <3> QED BY <1>1
  <2> QED BY <2>1 DEF DedupKey, Joined
<1>3. L = K
  <2>1. DedupKey(v) = None \/ DedupKey(v) = <<v.id>> \/ DedupKey(v) = L
    BY DEF DedupKey, Joined
  <2>2. K # <<v.id>>
    <3> DEFINE one == <<v.id>>
    <3>1. Len(one) = 1
      OBVIOUS
    <3> HIDE DEF K, one
    <3>2. Len(K) # 1
      <4> DEFINE n == Len(K)
      <4>1. n \in Nat /\ n >= 2
        BY <1>1
      <4> HIDE DEF n
      <4>2. n # 1
        BY <4>1
      <4> QED BY <4>2 DEF n
    <3>3. K # one
      BY <3>1, <3>2, Zenon
    <3> QED BY <3>3 DEF one
  <2> HIDE DEF K, L
  <2> QED BY <1>2, <2>1, <2>2
<1>4. K[1] = u.chat /\ K[2] = u.message
  BY <1>1, PartsTell
<1>5. Len(L) >= 2 =>
        /\ v.chat = None => L[1] \in {v.message, v.type, v.button}
        /\ v.chat # None => L[1] = v.chat
        /\ v.chat # None /\ v.message # None => L[2] = v.message
        /\ v.chat # None /\ v.message = None => L[2] \in {v.type, v.button}
  BY PartsTell
<1>6. /\ u.chat \notin {v.message, v.type, v.button}
      /\ u.message \notin {v.type, v.button}
  BY DEF KindsApart
<1> HIDE DEF K, L
<1>7. Len(L) >= 2 /\ L[1] = u.chat /\ L[2] = u.message
  BY <1>1, <1>3, <1>4
<1> QED BY <1>5, <1>6, <1>7 DEF SameMessage

SwallowInv == HandedInv /\ NoForeignSwallow

LEMMA SwallowStep ==
  ASSUME KindsApart, SwallowInv, DedupInv, [IntakeNext]_intakeVars
  PROVE  SwallowInv'
<1>1. /\ HandedInv /\ NoForeignSwallow /\ DedupTypeOK
      /\ now \in Nat /\ handed \in Seq(Jobs)
  BY DEF SwallowInv, DedupInv, HandedInv, DedupTypeOK, ClockTypeOK
<1>2. HandedInv'
  BY <1>1, HandedStep
<1>3. ASSUME UNCHANGED <<answer, handed>> PROVE NoForeignSwallow'
  BY <1>1, <1>3 DEF NoForeignSwallow
<1>4. ASSUME NEW u \in Updates, Unauthorized(u) \/ TooMany(u) \/ BadRequest(u) \/ ServerError(u)
      PROVE  NoForeignSwallow'
  <2>1. answer' \in {<<u, 401>>, <<u, 429>>, <<u, 400>>, <<u, 500>>}
    BY <1>4 DEF Unauthorized, TooMany, BadRequest, ServerError, Answer
  <2>2. \A x : answer' # <<x, 200>>
    BY <2>1
  <2> QED BY <2>2 DEF NoForeignSwallow
<1>5. ASSUME NEW u \in Updates, Enqueued(u) \/ Dropped(u)
      PROVE  NoForeignSwallow'
  <2>1. Offered(u) /\ (answer' = <<u, 200>> \/ answer' = <<u, 503>>)
    BY <1>5 DEF Enqueued, Dropped, Answer
  <2>2. \A x : answer' = <<x, 200>> => x = u
    BY <2>1
  <2>3. /\ Len(handed) + 1 \in DOMAIN handed'
        /\ handed'[Len(handed) + 1].update = u
    BY <1>1, <2>1, OfferedFacts
  <2>4. \E n \in DOMAIN handed' : SameMessage(u, handed'[n].update)
    BY <2>3 DEF SameMessage
  <2> QED BY <2>2, <2>4 DEF NoForeignSwallow
<1>6. ASSUME NEW u \in Updates, Duplicate(u)
      PROVE  NoForeignSwallow'
  <2> DEFINE k == DedupKey(u)
  <2>1. answer' = <<u, 200>> /\ handed' = handed /\ k \in Kept /\ k # None
    BY <1>6 DEF Duplicate, Answer, SeenBefore
  <2>2. \A x : answer' = <<x, 200>> => x = u
    BY <2>1
  <2>3. ASSUME u.chat # None, u.message # None
        PROVE  \E n \in DOMAIN handed : SameMessage(u, handed[n].update)
    <3>1. k \in DedupKeys
      BY <2>1, KeyAssumption
    <3>2. fresh[k] # << >> /\ fresh[k] \in Seq(Nat)
      <4> HIDE DEF k
      <4> QED BY <1>1, <2>1, <3>1, Purged DEF DedupTypeOK
    <3>3. 1 \in DOMAIN fresh[k]
      <4> HIDE DEF k
      <4> QED BY <3>2
    <3>4. PICK n \in DOMAIN handed : DedupKey(handed[n].update) = k
      BY <1>1, <3>1, <3>3 DEF HandedInv, FreshIsHanded
    <3>5. handed[n].update \in Updates
      <4>1. handed[n] \in Jobs
        BY <1>1
      <4> QED BY <4>1 DEF Jobs
    <3>6. SameMessage(u, handed[n].update)
      BY <2>1, <2>3, <3>4, <3>5, SameKeySameMessage
    <3> QED BY <3>6
  <2> QED BY <2>1, <2>2, <2>3 DEF NoForeignSwallow
<1>7. NoForeignSwallow'
  <2>1. CASE Quiet \/ UNCHANGED intakeVars
    BY <1>3, <2>1 DEF Quiet, intakeVars
  <2>2. ASSUME NEW u \in Updates, HandleRequest(u) PROVE NoForeignSwallow'
    BY <1>4, <1>5, <1>6, <2>2 DEF HandleRequest
  <2> QED BY <2>1, <2>2 DEF IntakeNext
<1> QED BY <1>2, <1>7 DEF SwallowInv

\* A message that carries its chat and its id is answered 200 only if it, or
\* a request about the same message, was offered to the queue: the key of
\* handle_request in app/webhook/router.py confuses no two messages, for any
\* requests whose ids of different kinds differ.
THEOREM NothingForeignSwallows ==
  ASSUME KindsApart
  PROVE  IntakeSpec => []NoForeignSwallow
<1>1. IntakeInit => SwallowInv
  <2> SUFFICES ASSUME IntakeInit PROVE SwallowInv
    OBVIOUS
  <2>1. handed = << >> /\ answer = << >> /\ \A k \in DedupKeys : fresh[k] = << >>
    BY DEF IntakeInit, DedupInit
  <2>2. HandedInv
    BY <2>1 DEF HandedInv, FreshIsHanded
  <2>3. \A u : answer # <<u, 200>>
    BY <2>1
  <2> QED BY <2>2, <2>3 DEF SwallowInv, NoForeignSwallow
<1>2. SwallowInv /\ DedupInv /\ [IntakeNext]_intakeVars => SwallowInv'
  BY SwallowStep
<1>3. IntakeSpec => []DedupInv
  BY WebhookKeepsBoth, DedupInvariant, PTL
<1>4. SwallowInv => NoForeignSwallow
  BY DEF SwallowInv
<1> QED BY <1>1, <1>2, <1>3, <1>4, PTL DEF IntakeSpec
=============================================================================
