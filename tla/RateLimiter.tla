---------------------------- MODULE RateLimiter ----------------------------
(***************************************************************************)
(* app/utils/rate_limiter.py: the sliding-window limiter in front of the   *)
(* webhook (120 requests per 60 seconds by default).  allow() is called    *)
(* from request handlers of one event loop and never suspends, so a call   *)
(* is one step.                                                            *)
(***************************************************************************)
EXTENDS Clock, Sequences, FiniteSets

CONSTANTS
  MaxRequests,   \* max_requests
  Window         \* window_seconds, in ticks

ASSUME LimiterAssumption ==
  /\ MaxRequests \in Nat
  /\ Window \in Nat

VARIABLES
  events,        \* RateLimiter._events
  admitted       \* history: the times of all the requests ever let through

limiterVars == <<now, events, admitted>>

LimiterTypeOK ==
  /\ ClockTypeOK
  /\ events \in Seq(Nat)
  /\ Len(events) <= MaxRequests
  /\ admitted \in Seq(Nat)

LimiterInit ==
  /\ ClockInit
  /\ events = << >>
  /\ admitted = << >>

\* The loop that forgets old events stops one event too early.
Outdated_Bug(n) ==
  /\ \A i \in 1..n : now - events[i] > Window
  /\ n < Len(events) => now - events[n + 1] <= Window + 1

\* n is the number of events that
\*   while self._events and now - self._events[0] > self.window_seconds
\* removes from the front.
Outdated(n) ==
  /\ \A i \in 1..n : now - events[i] > Window
  /\ n < Len(events) => now - events[n + 1] <= Window

\* What is left of the events once the first n are gone.
Without(n) == SubSeq(events, n + 1, Len(events))

HasRoom_Bug(n) == Len(Without(n)) <= MaxRequests

HasRoom(n) == Len(Without(n)) < MaxRequests

\* allow() returns True.
Admit ==
  /\ \E n \in 0..Len(events) :
       /\ Outdated(n)
       /\ HasRoom(n)
       /\ events' = Append(Without(n), now)
  /\ admitted' = Append(admitted, now)
  /\ UNCHANGED now

\* allow() returns False.
Refuse ==
  /\ \E n \in 0..Len(events) :
       /\ Outdated(n)
       /\ ~HasRoom(n)
       /\ events' = Without(n)
  /\ UNCHANGED <<now, admitted>>

Wait == Tick /\ UNCHANGED <<events, admitted>>

LimiterNext == Admit \/ Refuse \/ Wait

LimiterSpec == LimiterInit /\ [][LimiterNext]_limiterVars

-----------------------------------------------------------------------------
(* Properties *)

\* No burst: whatever window of Window seconds one looks at, wherever it
\* starts, at most MaxRequests requests were let through in it; that is, any
\* MaxRequests + 1 successive admissions span more than a window.
NoBurst ==
  \A i \in 1..Len(admitted) :
    i + MaxRequests <= Len(admitted) =>
      admitted[i + MaxRequests] - admitted[i] > Window

\* Requests let through in the last Window seconds.
Recent == {i \in 1..Len(admitted) : now - admitted[i] <= Window}

\* allow() would return False if it were called now.
WouldRefuse == \E n \in 0..Len(events) : Outdated(n) /\ ~HasRoom(n)

\* A request is refused only when the budget of the last Window seconds is
\* really spent, at whatever time it comes; refused requests are not counted
\* against the sender.
RefusedOnlyWhenFull == WouldRefuse => Cardinality(Recent) >= MaxRequests
=============================================================================
