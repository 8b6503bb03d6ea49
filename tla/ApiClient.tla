----------------------------- MODULE ApiClient -----------------------------
(***************************************************************************)
(* app/core/rubika_client.py: calls of one method of the Rubika API.  Each *)
(* method has a limiter of its own (a token bucket behind an asyncio lock) *)
(* which every attempt passes, the retries included.                       *)
(*                                                                         *)
(* A token is worth One ticks: the bucket gains one tick per tick, so the  *)
(* rate is 1 / One tokens per tick and the arithmetic stays exact.  The    *)
(* time of an answer and of a backoff is arbitrary.                        *)
(***************************************************************************)
EXTENDS Clock, Sequences, FiniteSets

CONSTANTS
  Callers,       \* the tasks that call the method
  None,
  One,           \* ticks per token: 1 / rate_per_second
  Burst,         \* capacity, in tokens
  Retries,       \* retry_attempts
  Calls,         \* bound: how many calls each caller makes
  Leisure        \* bound: until then time passes at any moment, later only while
                 \* everybody waits for it

ASSUME ApiAssumption ==
  /\ None \notin Callers
  /\ One \in Nat \ {0}
  /\ Burst \in Nat \ {0}
  /\ Retries \in Nat
  /\ Calls \in Nat
  /\ Leisure \in Nat

Capacity == Burst * One

VARIABLES
  tokens,        \* ApiRateLimiter._tokens, in ticks
  refilled,      \* ApiRateLimiter._last_refill
  holder,        \* who holds ApiRateLimiter._lock
  waiting,       \* who waits for it, in the order of arrival
  pc,            \* what each caller does
  wake,          \* when its sleep in acquire() is over
  attempt,       \* attempt of the current call
  made,          \* calls made so far
  applied,       \* history: how often the API carried out the current call
  result,        \* what the last call returned; an exception is an "error", too
  silent,        \* history: whether it returned the body of a failure that does
                 \* not have "ok": false
  sent           \* history: the times of all the requests sent

apiVars == <<now, tokens, refilled, holder, waiting, pc, wake, attempt, made,
             applied, result, silent, sent>>
bucketVars == <<tokens, refilled, holder, waiting, wake, sent>>

ApiTypeOK ==
  /\ ClockTypeOK
  /\ tokens \in (-One)..Capacity
  /\ refilled \in 0..now
  /\ holder \in Callers \cup {None}
  /\ waiting \in Seq(Callers)
  /\ pc \in [Callers -> {"idle", "queue", "sleep", "post", "backoff"}]
  /\ wake \in [Callers -> Nat]
  /\ attempt \in [Callers -> 0..(Retries + 1)]
  /\ made \in [Callers -> 0..Calls]
  /\ applied \in [Callers -> 0..(Retries + 1)]
  /\ result \in [Callers -> {"none", "ok", "error"}]
  /\ silent \in [Callers -> BOOLEAN]
  /\ sent \in Seq(Nat)

ApiInit ==
  /\ ClockInit
  /\ tokens = Capacity
  /\ refilled = 0
  /\ holder = None
  /\ waiting = << >>
  /\ pc = [w \in Callers |-> "idle"]
  /\ wake = [w \in Callers |-> 0]
  /\ attempt = [w \in Callers |-> 0]
  /\ made = [w \in Callers |-> 0]
  /\ applied = [w \in Callers |-> 0]
  /\ result = [w \in Callers |-> "none"]
  /\ silent = [w \in Callers |-> FALSE]
  /\ sent = << >>

-----------------------------------------------------------------------------
(* ApiRateLimiter.acquire *)

\* The bucket is never full.
Refill_Bug == tokens + (now - refilled)

\* The tokens after the refill: at most the capacity.
Refill ==
  IF tokens + (now - refilled) > Capacity
  THEN Capacity
  ELSE tokens + (now - refilled)

\* With the lock: take a token and go on to send, or sleep with the lock.
Pass(w) ==
  \/ /\ Refill >= One
     /\ tokens' = Refill - One
     /\ sent' = Append(sent, now)
     /\ pc' = [pc EXCEPT ![w] = "post"]
     /\ UNCHANGED <<holder, wake>>
  \/ /\ Refill < One
     /\ tokens' = Refill
     /\ holder' = w
     /\ wake' = [wake EXCEPT ![w] = now + (One - Refill)]
     /\ pc' = [pc EXCEPT ![w] = "sleep"]
     /\ UNCHANGED sent

\* acquire() is called: the lock is taken without suspending if it is free
\* and nobody waits for it.
Enter(w) ==
  \/ /\ holder = None
     /\ waiting = << >>
     /\ Pass(w)
     /\ refilled' = now
     /\ UNCHANGED waiting
  \/ /\ holder # None \/ waiting # << >>
     /\ waiting' = Append(waiting, w)
     /\ pc' = [pc EXCEPT ![w] = "queue"]
     /\ UNCHANGED <<tokens, refilled, holder, wake, sent>>

\* The lock is free, and w is the first that waits for it.
Granted(w) ==
  /\ pc[w] = "queue"
  /\ holder = None
  /\ Head(waiting) = w
  /\ Pass(w)
  /\ refilled' = now
  /\ waiting' = Tail(waiting)
  /\ UNCHANGED <<now, attempt, made, applied, result, silent>>

\* The lock is not released after the sleep.
Slept_Bug(w) ==
  /\ pc[w] = "sleep"
  /\ now >= wake[w]
  /\ tokens' = -One
  /\ refilled' = now
  /\ sent' = Append(sent, now)
  /\ pc' = [pc EXCEPT ![w] = "post"]
  /\ UNCHANGED <<now, holder, waiting, wake, attempt, made, applied, result, silent>>

\* The sleep is over.  The token that was waited for is not in the bucket:
\* _tokens is set to 0 and one token is subtracted.
Slept(w) ==
  /\ pc[w] = "sleep"
  /\ now >= wake[w]
  /\ tokens' = -One
  /\ refilled' = now
  /\ holder' = None
  /\ sent' = Append(sent, now)
  /\ pc' = [pc EXCEPT ![w] = "post"]
  /\ UNCHANGED <<now, waiting, wake, attempt, made, applied, result, silent>>

-----------------------------------------------------------------------------
(* RubikaClient.api_call *)

Call(w) ==
  /\ pc[w] = "idle"
  /\ made[w] < Calls
  /\ Enter(w)
  /\ attempt' = [attempt EXCEPT ![w] = 1]
  /\ made' = [made EXCEPT ![w] = @ + 1]
  /\ applied' = [applied EXCEPT ![w] = 0]
  /\ result' = [result EXCEPT ![w] = "none"]
  /\ silent' = [silent EXCEPT ![w] = FALSE]
  /\ UNCHANGED now

\* The sleep before a retry is over.
Retry(w) ==
  /\ pc[w] = "backoff"
  /\ Enter(w)
  /\ attempt' = [attempt EXCEPT ![w] = @ + 1]
  /\ UNCHANGED <<now, made, applied, result, silent>>

MayRetry(w) == attempt[w] <= Retries

\* The request may have been carried out or not, whatever its answer says.
Arrived(w) ==
  \E n \in {0, 1} : applied' = [applied EXCEPT ![w] = @ + n]

Return(w, answer) ==
  /\ pc' = [pc EXCEPT ![w] = "idle"]
  /\ result' = [result EXCEPT ![w] = answer]

\* The body of a failure is returned.  Without an "ok" in it, the default that
\* all callers use, and api_call too, is that all is well.
ReturnsFailure(w) ==
  \/ Return(w, "error") /\ UNCHANGED silent
  \/ Return(w, "ok") /\ silent' = [silent EXCEPT ![w] = TRUE]

\* An answer that reports success; its body may still not parse.
Succeeds(w) ==
  /\ pc[w] = "post"
  /\ applied' = [applied EXCEPT ![w] = @ + 1]
  /\ \E answer \in {"ok", "error"} : Return(w, answer)
  /\ UNCHANGED <<now, attempt, made, silent, bucketVars>>

\* A final failure: a status that is not retried, or a body that says so.
Fails(w) ==
  /\ pc[w] = "post"
  /\ ReturnsFailure(w)
  /\ UNCHANGED <<now, attempt, made, applied, bucketVars>>

\* The request is to be repeated.
Again(w) ==
  /\ MayRetry(w)
  /\ pc' = [pc EXCEPT ![w] = "backoff"]
  /\ UNCHANGED <<result, silent>>

\* Status 408, 429 or 5xx: retried, or its body is the result.
Unavailable(w) ==
  /\ pc[w] = "post"
  /\ Arrived(w)
  /\ Again(w) \/ (~MayRetry(w) /\ ReturnsFailure(w))
  /\ UNCHANGED <<now, attempt, made, bucketVars>>

\* The last timeout is reported as if nothing had gone wrong.
Lost_Bug(w) ==
  /\ pc[w] = "post"
  /\ Arrived(w)
  /\ Again(w) \/ (~MayRetry(w) /\ Return(w, "ok") /\ UNCHANGED silent)
  /\ UNCHANGED <<now, attempt, made, bucketVars>>

\* A timeout or a transport error: retried, or reported as an error.
Lost(w) ==
  /\ pc[w] = "post"
  /\ Arrived(w)
  /\ Again(w) \/ (~MayRetry(w) /\ Return(w, "error") /\ UNCHANGED silent)
  /\ UNCHANGED <<now, attempt, made, bucketVars>>

\* Any other exception of the client, and a body that is not a JSON object,
\* end the call at once with an exception.
Raises(w) ==
  /\ pc[w] = "post"
  /\ Arrived(w)
  /\ Return(w, "error")
  /\ UNCHANGED <<now, attempt, made, silent, bucketVars>>

-----------------------------------------------------------------------------

\* Somebody sleeps, and until the sleep is over nobody has anything to do.
AllWait ==
  /\ \E w \in Callers : pc[w] = "sleep"
  /\ \A w \in Callers :
       \/ pc[w] = "idle"
       \/ pc[w] = "sleep" /\ now < wake[w]
       \/ pc[w] = "queue" /\ holder # None

Pause ==
  /\ Tick
  /\ now < Leisure \/ AllWait
  /\ UNCHANGED <<tokens, refilled, holder, waiting, pc, wake, attempt, made,
                 applied, result, silent, sent>>

Answer(w) == Succeeds(w) \/ Fails(w) \/ Unavailable(w) \/ Lost(w) \/ Raises(w)

ApiNext ==
  \/ \E w \in Callers :
       \/ Call(w) \/ Granted(w) \/ Slept(w) \/ Answer(w) \/ Retry(w)
  \/ Pause

ApiSpec == ApiInit /\ [][ApiNext]_apiVars

\* The event loop runs every task that is ready, an HTTP request is answered
\* or times out, and time passes.  Nothing forces a caller to call.
ApiFairness ==
  /\ \A w \in Callers :
       /\ WF_apiVars(Granted(w))
       /\ WF_apiVars(Slept(w))
       /\ WF_apiVars(Answer(w))
       /\ WF_apiVars(Retry(w))
  /\ WF_apiVars(Pause)

ApiFairSpec == ApiSpec /\ ApiFairness

-----------------------------------------------------------------------------
(* Properties *)

\* However the calls interleave, sleep and retry, the requests of any stretch
\* of time are at most the burst plus what the rate yields in that time.
RateBound ==
  \A i, j \in 1..Len(sent) :
    i <= j => (j - i + 1) * One <= Capacity + (sent[j] - sent[i])

\* A caller is told "ok" only if the API carried the call out, or refused it in
\* a body that does not say so: whatever was lost, timed out, was retried or
\* came too late, the client never makes an "ok" of it by itself.
OkMeansApplied ==
  \A w \in Callers : result[w] = "ok" => applied[w] > 0 \/ silent[w]

\* Every call returns, whatever the API does: no caller waits for ever for
\* the lock, a token or an answer.
CallReturns == \A w \in Callers : pc[w] # "idle" ~> pc[w] = "idle"
=============================================================================
