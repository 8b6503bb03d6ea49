------------------------------- MODULE Clock -------------------------------
(***************************************************************************)
(* time.monotonic(), as the rate limiter, the deduplicator and the other   *)
(* timed parts of the bot read it: a number that never decreases.  The     *)
(* model counts whole ticks; a tick stands for the smallest difference the *)
(* configured windows and TTLs can tell apart.                             *)
(***************************************************************************)
EXTENDS Integers

CONSTANT Horizon     \* bound: the clock stops here (Nat for no bound)

ASSUME ClockAssumption == Horizon \in Nat

VARIABLE now

ClockTypeOK == now \in Nat

ClockInit == now = 0

\* Time passes.
Tick ==
  /\ now < Horizon
  /\ now' = now + 1
=============================================================================
