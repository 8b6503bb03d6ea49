----------------------------- MODULE JobLedger ------------------------------
(***************************************************************************)
(* What the queue and the worker pool promise, without queues or workers:  *)
(* a ledger with one entry per delivery.  A delivery is either             *)
(* acknowledged as a repetition of a remembered key, refused, or accepted; *)
(* an accepted one is begun at most once and then finished, or is dropped  *)
(* before it was begun.                                                    *)
(***************************************************************************)
CONSTANTS
  Jobs,     \* deliveries
  Keys,     \* what makes two deliveries the same update
  Key,      \* the key of each delivery
  Forgettable  \* keys whose memory may lapse

VARIABLES
  fate,        \* what became of each delivery
  remembered   \* keys for which a repetition is recognised

ledger == <<fate, remembered>>

Fates == {"new", "repeated", "refused", "accepted", "begun", "finished",
          "dropped"}

LedgerTypeOK ==
  /\ fate \in [Jobs -> Fates]
  /\ remembered \subseteq Keys

LedgerInit ==
  /\ fate = [j \in Jobs |-> "new"]
  /\ remembered = {}

\* What can be dropped: accepted and not begun.
Droppable == {k \in Jobs : fate[k] = "accepted"}

\* A delivery whose key is remembered is only acknowledged.
Repeat(j) ==
  /\ fate[j] = "new"
  /\ Key[j] \in remembered
  /\ fate' = [fate EXCEPT ![j] = "repeated"]
  /\ UNCHANGED remembered

\* A delivery with a new key is refused, or accepted while accepted ones in
\* `out` are dropped to make room.
Admit(j, out, answer) ==
  /\ fate[j] = "new"
  /\ Key[j] \notin remembered
  /\ fate' = [k \in Jobs |-> IF k = j THEN answer
                             ELSE IF k \in out THEN "dropped" ELSE fate[k]]
  /\ remembered' = remembered \cup {Key[j]}

Forget(k) ==
  /\ k \in remembered \cap Forgettable
  /\ remembered' = remembered \ {k}
  /\ UNCHANGED fate

Begin(j, out) ==
  /\ fate[j] = "accepted"
  /\ j \notin out
  /\ fate' = [k \in Jobs |-> IF k = j THEN "begun"
                             ELSE IF k \in out THEN "dropped" ELSE fate[k]]
  /\ UNCHANGED remembered

DropAll(out) ==
  /\ fate' = [k \in Jobs |-> IF k \in out THEN "dropped" ELSE fate[k]]
  /\ UNCHANGED remembered

Finish(j) ==
  /\ fate[j] = "begun"
  /\ fate' = [fate EXCEPT ![j] = "finished"]
  /\ UNCHANGED remembered

LedgerNext ==
  \/ \E j \in Jobs : Repeat(j) \/ Finish(j) \/ Admit(j, {}, "refused")
  \/ \E out \in SUBSET Droppable :
       \/ DropAll(out)
       \/ \E j \in Jobs : Admit(j, out, "accepted") \/ Begin(j, out)
  \/ \E k \in Keys : Forget(k)

LedgerSpec == LedgerInit /\ [][LedgerNext]_ledger
=============================================================================
