----------------------------- MODULE ApiProofs -----------------------------
(***************************************************************************)
(* The token bucket bounds the rate of requests, for every rate, burst,    *)
(* number of callers and of retries.  The invariant charges each request   *)
(* to the bucket: what was sent since the i-th request, plus what is left  *)
(* in the bucket, never exceeds the capacity and what was gained since.    *)
(* The argument needs that a sleeper's bucket is left alone (it holds the  *)
(* lock), for its sleep was measured by it.                                *)
(***************************************************************************)
EXTENDS ApiClient, TLAPS

Bucket ==
  /\ now \in Int
  /\ tokens \in Int
  /\ refilled \in Int
  /\ -One <= tokens
  /\ tokens <= Capacity
  /\ refilled <= now
  /\ wake \in [Callers -> Int]
  /\ pc \in [Callers -> {"idle", "queue", "sleep", "post", "backoff"}]

\* A sleeper has the lock and will wake when the missing ticks have passed.
Sleepers ==
  \A w \in Callers : pc[w] = "sleep" =>
    holder = w /\ wake[w] = refilled + (One - tokens)

\* What the requests from the i-th on have cost.
Cost(i) == (Len(sent) - i + 1) * One

Charged ==
  /\ sent \in Seq(Int)
  /\ \A i \in 1..Len(sent) :
       Cost(i) + tokens <= Capacity + (refilled - sent[i])

RateInv == Bucket /\ Sleepers /\ Charged /\ RateBound

LEMMA OneMore == \A n \in Int : (n + 1) * One = n * One + One
BY ApiAssumption

\* A cost that grows by the price the bucket loses is still paid for.
LEMMA StillPaid ==
  ASSUME NEW old \in Int, NEW left \in Int, NEW gain \in Int,
         NEW price \in Int, NEW after \in Int,
         old + left <= gain, after <= left - price
  PROVE  old + price + after <= gain
OBVIOUS

LEMMA CapacityType == Capacity \in Nat /\ One \in Nat /\ One > 0 /\ One <= Capacity
BY ApiAssumption DEF Capacity

LEMMA RefillBounds ==
  ASSUME Bucket
  PROVE  /\ Refill \in Int
         /\ -One <= Refill
         /\ Refill <= Capacity
         /\ Refill <= tokens + (now - refilled)
BY CapacityType DEF Refill, Bucket

\* One request more, at the present time, with the bucket at t: if t pays for
\* all that was sent before, the bound holds with the new request, too.
LEMMA SendKeeps ==
  ASSUME RateInv, NEW t \in Int, t <= Capacity,
         \A i \in 1..Len(sent) : Cost(i) + t <= Capacity + (now - sent[i]),
         \/ t >= One /\ tokens' = t - One
         \/ t = 0 /\ tokens' = -One
            /\ \A i \in 1..Len(sent) : Cost(i) + One <= Capacity + (now - sent[i]),
         sent' = Append(sent, now), refilled' = now
  PROVE  Charged' /\ RateBound'
<1> DEFINE n == Len(sent)
<1>1. /\ sent \in Seq(Int) /\ n \in Nat /\ now \in Int
      /\ Len(sent') = n + 1 /\ sent' \in Seq(Int)
      /\ \A i \in 1..n : sent'[i] = sent[i]
      /\ sent'[n + 1] = now
  BY DEF RateInv, Bucket, Charged
<1>2. \A i \in 1..n : sent[i] \in Int /\ Cost(i) \in Int
  BY <1>1, ApiAssumption DEF Cost
<1> HIDE DEF n
<1>3. \A i \in 1..n : (n + 1 - i + 1) * One = Cost(i) + One
  <2> SUFFICES ASSUME NEW i \in 1..n
               PROVE  (n + 1 - i + 1) * One = Cost(i) + One
    OBVIOUS
  <2>1. (n - i + 1) \in Int /\ n + 1 - i + 1 = (n - i + 1) + 1
    BY <1>1
  <2>2. ((n - i + 1) + 1) * One = (n - i + 1) * One + One
    BY <2>1, OneMore
  <2>3. Cost(i) = (n - i + 1) * One
    BY DEF Cost, n
  <2> QED BY <2>1, <2>2, <2>3
<1>4. (n + 1 - (n + 1) + 1) * One = One
  <2>1. n + 1 - (n + 1) + 1 = 1
    BY <1>1
  <2> QED BY <2>1, CapacityType
<1>5. \A i \in 1..(n + 1) :
        (n + 1 - i + 1) * One + tokens' <= Capacity + (now - sent'[i])
  <2> SUFFICES ASSUME NEW i \in 1..(n + 1)
               PROVE  (n + 1 - i + 1) * One + tokens' <= Capacity + (now - sent'[i])
    OBVIOUS
  <2>1. CASE i \in 1..n
    <3>1. Cost(i) + t <= Capacity + (now - sent[i])
      BY <2>1 DEF n
    <3>2. tokens' <= t - One
      BY CapacityType
    <3>3. tokens' \in Int
      BY CapacityType
    <3>4. /\ (n + 1 - i + 1) * One = Cost(i) + One /\ sent'[i] = sent[i]
          /\ Cost(i) \in Int /\ sent[i] \in Int /\ now \in Int
      BY <1>1, <1>2, <1>3, <2>1
    <3> DEFINE cost == (n + 1 - i + 1) * One
               old == Cost(i)
               gain == Capacity + (now - sent[i])
    <3>5. old \in Int /\ cost = old + One
      BY <3>4
    <3>6. sent[i] \in Int /\ now \in Int
      BY <3>4
    <3>7. One \in Int /\ Capacity \in Int
      BY CapacityType
    <3>9. gain \in Int
      BY <3>6, <3>7
    <3>10. old + t <= gain
      BY <3>1
    <3> HIDE DEF cost, old, gain
    <3>8. cost + tokens' <= gain
      BY <3>2, <3>3, <3>5, <3>7, <3>9, <3>10, StillPaid
    <3> QED BY <3>4, <3>8 DEF cost, gain
  <2>2. CASE i = n + 1
    <3>1. tokens' \in Int /\ tokens' + One <= Capacity
      BY CapacityType
    <3> QED BY <1>1, <1>4, <2>2, <3>1, CapacityType
  <2> QED BY <1>1, <2>1, <2>2
<1>6. Charged'
  BY <1>1, <1>5 DEF Charged, Cost
<1>7. \A i \in 1..n : Cost(i) + One <= Capacity + (now - sent[i])
  <2> SUFFICES ASSUME NEW i \in 1..n
               PROVE  Cost(i) + One <= Capacity + (now - sent[i])
    OBVIOUS
  <2>1. Cost(i) + t <= Capacity + (now - sent[i])
    BY DEF n
  <2>2. t >= One \/ Cost(i) + One <= Capacity + (now - sent[i])
    BY DEF n
  <2>3. Cost(i) \in Int /\ sent[i] \in Int /\ now \in Int
    BY <1>1, <1>2
  <2> HIDE DEF Cost
  <2> QED BY <2>1, <2>2, <2>3, CapacityType
<1>8. RateBound'
  <2> SUFFICES ASSUME NEW i \in 1..(n + 1), NEW j \in 1..(n + 1), i <= j
               PROVE  (j - i + 1) * One <= Capacity + (sent'[j] - sent'[i])
    BY <1>1 DEF RateBound
  <2>1. CASE j \in 1..n
    <3>1. i \in 1..n
      BY <1>1, <2>1
    <3>2. (j - i + 1) * One <= Capacity + (sent[j] - sent[i])
      BY <2>1, <3>1 DEF RateInv, RateBound, n
    <3> QED BY <1>1, <2>1, <3>1, <3>2
  <2>2. CASE j = n + 1 /\ i \in 1..n
    BY <1>1, <1>2, <1>3, <1>7, <2>2
  <2>3. CASE j = n + 1 /\ i = n + 1
    BY <1>1, <1>4, <2>3, CapacityType
  <2> QED BY <1>1, <2>1, <2>2, <2>3
<1> QED BY <1>6, <1>8

\* With the bucket refilled, all that was sent is still paid for.
LEMMA RefillCharged ==
  ASSUME RateInv
  PROVE  \A i \in 1..Len(sent) :
           Cost(i) + Refill <= Capacity + (now - sent[i])
<1> SUFFICES ASSUME NEW i \in 1..Len(sent)
             PROVE  Cost(i) + Refill <= Capacity + (now - sent[i])
  OBVIOUS
<1>1. Cost(i) + tokens <= Capacity + (refilled - sent[i])
  BY DEF RateInv, Charged
<1>2. Cost(i) \in Int /\ sent[i] \in Int
  BY ApiAssumption DEF Cost, RateInv, Charged
<1>3. Refill \in Int /\ Refill <= tokens + (now - refilled)
  BY RefillBounds DEF RateInv
<1>4. now \in Int /\ refilled \in Int /\ tokens \in Int
  BY DEF RateInv, Bucket
<1> HIDE DEF Cost, Refill
<1> QED BY <1>1, <1>2, <1>3, <1>4, CapacityType

\* Nothing was sent and the bucket holds t, which the refill justifies.
LEMMA PassKeeps ==
  ASSUME RateInv, NEW w \in Callers, Pass(w), refilled' = now, now' = now,
         holder = None
  PROVE  RateInv'
<1>1. /\ Refill \in Int /\ -One <= Refill /\ Refill <= Capacity
      /\ \A i \in 1..Len(sent) : Cost(i) + Refill <= Capacity + (now - sent[i])
  BY RefillBounds, RefillCharged DEF RateInv
<1>2. /\ now \in Int /\ wake \in [Callers -> Int]
      /\ pc \in [Callers -> {"idle", "queue", "sleep", "post", "backoff"}]
      /\ \A v \in Callers : pc[v] # "sleep"
  BY ApiAssumption DEF RateInv, Bucket, Sleepers
<1> HIDE DEF Refill
<1>3. CASE /\ Refill >= One
           /\ tokens' = Refill - One
           /\ sent' = Append(sent, now)
           /\ pc' = [pc EXCEPT ![w] = "post"]
           /\ UNCHANGED <<holder, wake>>
  <2>1. Bucket'
    <3>1. tokens' \in Int /\ -One <= tokens' /\ tokens' <= Capacity
      BY <1>1, <1>3, CapacityType
    <3> QED BY <1>2, <1>3, <3>1 DEF Bucket
  <2>2. Sleepers'
    BY <1>2, <1>3 DEF Sleepers
  <2>3. Charged' /\ RateBound'
    BY <1>1, <1>3, SendKeeps
  <2> QED BY <2>1, <2>2, <2>3 DEF RateInv
<1>4. CASE /\ Refill < One
           /\ tokens' = Refill
           /\ holder' = w
           /\ wake' = [wake EXCEPT ![w] = now + (One - Refill)]
           /\ pc' = [pc EXCEPT ![w] = "sleep"]
           /\ UNCHANGED sent
  <2>1. Bucket'
    <3>1. now + (One - Refill) \in Int
      BY <1>1, <1>2, CapacityType
    <3>2. wake' \in [Callers -> Int]
      BY <1>2, <1>4, <3>1
    <3> QED BY <1>1, <1>2, <1>4, <3>2 DEF Bucket
  <2>2. Sleepers'
    BY <1>2, <1>4 DEF Sleepers
  <2>3. Charged'
    BY <1>1, <1>4 DEF Charged, Cost, RateInv
  <2>4. RateBound'
    BY <1>4 DEF RateInv, RateBound
  <2> QED BY <2>1, <2>2, <2>3, <2>4 DEF RateInv
<1> QED BY <1>3, <1>4 DEF Pass

\* A step that leaves the bucket alone and puts nobody to sleep.
LEMMA OtherKeeps ==
  ASSUME RateInv,
         UNCHANGED <<now, tokens, refilled, holder, wake, sent>>,
         pc' \in [Callers -> {"idle", "queue", "sleep", "post", "backoff"}],
         \A w \in Callers : pc'[w] = "sleep" => pc[w] = "sleep"
  PROVE  RateInv'
BY DEF RateInv, Bucket, Sleepers, Charged, Cost, RateBound

LEMMA EnterKeeps ==
  ASSUME RateInv, NEW w \in Callers, Enter(w), now' = now
  PROVE  RateInv'
<1>1. CASE holder = None /\ Pass(w) /\ refilled' = now
  BY <1>1, PassKeeps
<1>2. CASE /\ pc' = [pc EXCEPT ![w] = "queue"]
           /\ UNCHANGED <<tokens, refilled, holder, wake, sent>>
  <2>1. /\ pc' \in [Callers -> {"idle", "queue", "sleep", "post", "backoff"}]
        /\ \A v \in Callers : pc'[v] = "sleep" => pc[v] = "sleep"
    BY <1>2 DEF RateInv, Bucket
  <2> QED BY <1>2, <2>1, OtherKeeps
<1> QED BY <1>1, <1>2 DEF Enter

LEMMA SleptKeeps ==
  ASSUME RateInv, NEW w \in Callers, Slept(w)
  PROVE  RateInv'
<1>1. /\ pc[w] = "sleep" /\ now >= wake[w] /\ tokens' = -One /\ refilled' = now
      /\ sent' = Append(sent, now) /\ pc' = [pc EXCEPT ![w] = "post"]
      /\ now' = now /\ wake' = wake
  BY DEF Slept
<1>2. /\ now \in Int /\ tokens \in Int /\ refilled \in Int
      /\ wake[w] = refilled + (One - tokens)
      /\ pc \in [Callers -> {"idle", "queue", "sleep", "post", "backoff"}]
      /\ \A v \in Callers : pc[v] = "sleep" => v = w
  BY <1>1 DEF RateInv, Bucket, Sleepers
<1>3. now - refilled >= One - tokens
  BY <1>1, <1>2, CapacityType
<1>4. \A i \in 1..Len(sent) : Cost(i) + One <= Capacity + (now - sent[i])
  <2> SUFFICES ASSUME NEW i \in 1..Len(sent)
               PROVE  Cost(i) + One <= Capacity + (now - sent[i])
    OBVIOUS
  <2>1. Cost(i) + tokens <= Capacity + (refilled - sent[i])
    BY DEF RateInv, Charged
  <2>2. Cost(i) \in Int /\ sent[i] \in Int
    BY ApiAssumption DEF Cost, RateInv, Charged
  <2> HIDE DEF Cost
  <2> QED BY <1>2, <1>3, <2>1, <2>2, CapacityType
<1>5. \A i \in 1..Len(sent) : Cost(i) + 0 <= Capacity + (now - sent[i])
  <2> SUFFICES ASSUME NEW i \in 1..Len(sent)
               PROVE  Cost(i) + 0 <= Capacity + (now - sent[i])
    OBVIOUS
  <2>1. Cost(i) \in Int /\ sent[i] \in Int /\ Cost(i) + One <= Capacity + (now - sent[i])
    BY <1>4, ApiAssumption DEF Cost, RateInv, Charged
  <2> HIDE DEF Cost
  <2> QED BY <1>2, <2>1, CapacityType
<1>6. Charged' /\ RateBound'
  BY <1>1, <1>4, <1>5, SendKeeps, CapacityType
<1>7. Bucket'
  BY <1>1, <1>2, CapacityType DEF Bucket, RateInv
<1>8. Sleepers'
  BY <1>1, <1>2 DEF Sleepers
<1> QED BY <1>6, <1>7, <1>8 DEF RateInv

LEMMA PauseKeeps ==
  ASSUME RateInv, Pause
  PROVE  RateInv'
<1>1. Bucket'
  BY DEF Pause, Tick, RateInv, Bucket
<1> QED BY <1>1 DEF Pause, RateInv, Sleepers, Charged, Cost, RateBound

LEMMA RateInitially == ApiInit => RateInv
<1> SUFFICES ASSUME ApiInit
             PROVE  RateInv
  OBVIOUS
<1>1. Bucket
  BY CapacityType DEF ApiInit, ClockInit, Bucket
<1>2. Sleepers
  BY DEF ApiInit, Sleepers
<1>3. Charged /\ RateBound
  BY DEF ApiInit, Charged, RateBound
<1> QED BY <1>1, <1>2, <1>3 DEF RateInv

LEMMA RateStep == RateInv /\ [ApiNext]_apiVars => RateInv'
<1> SUFFICES ASSUME RateInv, [ApiNext]_apiVars
             PROVE  RateInv'
  OBVIOUS
<1>1. CASE UNCHANGED apiVars
  BY <1>1, OtherKeeps DEF apiVars, RateInv, Bucket
<1>2. ASSUME NEW w \in Callers, Call(w) \/ Retry(w)
      PROVE  RateInv'
  BY <1>2, EnterKeeps DEF Call, Retry
<1>3. ASSUME NEW w \in Callers, Granted(w)
      PROVE  RateInv'
  BY <1>3, PassKeeps DEF Granted
<1>4. ASSUME NEW w \in Callers, Answer(w)
      PROVE  RateInv'
  <2>1. /\ UNCHANGED <<now, tokens, refilled, holder, wake, sent>>
        /\ \/ pc' = [pc EXCEPT ![w] = "idle"]
           \/ pc' = [pc EXCEPT ![w] = "backoff"]
    BY <1>4 DEF Answer, Succeeds, Fails, Unavailable, Lost, Raises, Again,
                   ReturnsFailure, Return, bucketVars
  <2>2. /\ pc' \in [Callers -> {"idle", "queue", "sleep", "post", "backoff"}]
        /\ \A v \in Callers : pc'[v] = "sleep" => pc[v] = "sleep"
    BY <2>1 DEF RateInv, Bucket
  <2> QED BY <2>1, <2>2, OtherKeeps
<1> QED BY <1>1, <1>2, <1>3, <1>4, SleptKeeps, PauseKeeps DEF ApiNext

\* The requests for one method of the API never exceed the burst plus the
\* configured rate, over any stretch of time, for any number of callers,
\* whatever they call and retry and however long the API takes.
THEOREM ApiRateBounded == ApiSpec => []RateBound
<1>1. RateInv => RateBound
  BY DEF RateInv
<1> QED BY <1>1, RateInitially, RateStep, PTL DEF ApiSpec

-----------------------------------------------------------------------------
(* What a caller is told *)

OkInv ==
  /\ result \in [Callers -> {"none", "ok", "error"}]
  /\ silent \in [Callers -> BOOLEAN]
  /\ applied \in [Callers -> Nat]
  /\ OkMeansApplied

\* An attempt that the API may have carried out, and that leaves the call
\* unanswered, ends it with an error or returns the body of a failure.
LEMMA AttemptKeepsOk ==
  ASSUME OkInv, NEW w \in Callers,
         applied' = applied \/ Arrived(w),
         \/ UNCHANGED <<result, silent>>
         \/ Return(w, "error") /\ UNCHANGED silent
         \/ ReturnsFailure(w)
  PROVE  OkInv'
<1>1. /\ result \in [Callers -> {"none", "ok", "error"}]
      /\ silent \in [Callers -> BOOLEAN]
      /\ applied \in [Callers -> Nat]
      /\ \A v \in Callers : result[v] = "ok" => applied[v] > 0 \/ silent[v]
  BY DEF OkInv, OkMeansApplied
<1>2. /\ applied' \in [Callers -> Nat]
      /\ \A v \in Callers : applied'[v] >= applied[v]
  <2>1. CASE applied' = applied
    BY <1>1, <2>1
  <2>2. CASE Arrived(w)
    <3>1. PICK n \in {0, 1} : applied' = [applied EXCEPT ![w] = @ + n]
      BY <2>2 DEF Arrived
    <3> QED BY <1>1, <3>1
  <2> QED BY <2>1, <2>2
<1>3. CASE UNCHANGED <<result, silent>>
  BY <1>1, <1>2, <1>3 DEF OkInv, OkMeansApplied
<1>4. CASE result' = [result EXCEPT ![w] = "error"] /\ UNCHANGED silent
  BY <1>1, <1>2, <1>4 DEF OkInv, OkMeansApplied
<1>5. CASE /\ result' = [result EXCEPT ![w] = "ok"]
           /\ silent' = [silent EXCEPT ![w] = TRUE]
  <2>1. /\ silent'[w] /\ silent' \in [Callers -> BOOLEAN]
        /\ \A v \in Callers \ {w} : silent'[v] = silent[v] /\ result'[v] = result[v]
    BY <1>1, <1>5
  <2>2. \A v \in Callers : result'[v] = "ok" => applied'[v] > 0 \/ silent'[v]
    BY <1>1, <1>2, <2>1
  <2>3. result' \in [Callers -> {"none", "ok", "error"}]
    BY <1>1, <1>5
  <2> QED BY <1>2, <2>1, <2>2, <2>3 DEF OkInv, OkMeansApplied
<1> QED BY <1>3, <1>4, <1>5 DEF ReturnsFailure, Return

\* No answer to an attempt makes a caller believe what did not happen.
LEMMA AnswerKeepsOk ==
  ASSUME OkInv, NEW w \in Callers, Answer(w)
  PROVE  OkInv'
<1>1. CASE Succeeds(w)
  <2>1. PICK answer \in {"ok", "error"} :
          /\ applied' = [applied EXCEPT ![w] = @ + 1]
          /\ result' = [result EXCEPT ![w] = answer]
          /\ silent' = silent
    BY <1>1 DEF Succeeds, Return
  <2> QED BY <2>1 DEF OkInv, OkMeansApplied
<1>2. CASE Fails(w)
  BY <1>2, AttemptKeepsOk DEF Fails
<1>3. CASE Unavailable(w) \/ Lost(w)
  BY <1>3, AttemptKeepsOk DEF Unavailable, Lost, Again
<1>4. CASE Raises(w)
  BY <1>4, AttemptKeepsOk DEF Raises
<1> QED BY <1>1, <1>2, <1>3, <1>4 DEF Answer

LEMMA OkStep == OkInv /\ [ApiNext]_apiVars => OkInv'
<1> SUFFICES ASSUME OkInv, [ApiNext]_apiVars PROVE OkInv'
  OBVIOUS
<1>1. ASSUME NEW w \in Callers, Call(w) PROVE OkInv'
  <2>1. /\ applied' = [applied EXCEPT ![w] = 0]
        /\ result' = [result EXCEPT ![w] = "none"]
        /\ silent' = [silent EXCEPT ![w] = FALSE]
    BY <1>1 DEF Call
  <2> QED BY <2>1 DEF OkInv, OkMeansApplied
<1>2. ASSUME UNCHANGED <<applied, result, silent>> PROVE OkInv'
  BY <1>2 DEF OkInv, OkMeansApplied
<1>3. ASSUME NEW w \in Callers, Granted(w) \/ Slept(w) \/ Retry(w) PROVE OkInv'
  BY <1>2, <1>3 DEF Granted, Slept, Retry
<1>4. CASE Pause \/ UNCHANGED apiVars
  BY <1>2, <1>4 DEF Pause, apiVars
<1> QED BY <1>1, <1>3, <1>4, AnswerKeepsOk DEF ApiNext

\* A caller of RubikaClient.api_call is told "ok" only when the API carried
\* the call out or refused it in a body that does not say so, whatever the
\* bodies of failures say and whatever attempts were lost, retried or answered
\* out of turn before.
THEOREM OkIsTrue == ApiSpec => []OkMeansApplied
<1>1. ApiInit => OkInv
  BY DEF ApiInit, OkInv, OkMeansApplied
<1>2. OkInv => OkMeansApplied
  BY DEF OkInv
<1> QED BY <1>1, <1>2, OkStep, PTL DEF ApiSpec
=============================================================================
