------------------------------- MODULE MCLog -------------------------------
(* A small instance of MessageLog: two chats, two workers, trims to one or  *)
(* two rows per chat and one that never trims (a negative LIMIT).           *)
EXTENDS MessageLog

CONSTANTS c1, c2, m1, m2, w1, w2

MCLimits == {-1, 1, 3}
MCKeeps == {-1, 1, 2}
=============================================================================
