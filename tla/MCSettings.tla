----------------------------- MODULE MCSettings -----------------------------
(* Small instances of GroupSettings: two chats, two workers. *)
EXTENDS GroupSettings, TLC

CONSTANTS g1, g2, w1, w2

WorkerSymmetry == Permutations(Workers)
=============================================================================
