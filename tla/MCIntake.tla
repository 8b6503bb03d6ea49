------------------------------ MODULE MCIntake ------------------------------
(* A small instance of Intake: two messages of one chat, one of them also  *)
(* as a button press, a request with nothing but an update id, one without *)
(* any id, and requests that fail each of the checks.                      *)
EXTENDS Intake

CONSTANTS c1, m1, m2, new, b1, x1

MCIds == {c1, m1, m2, new, b1, x1}

Plain ==
  [signed |-> TRUE, json |-> TRUE, id |-> x1, chat |-> c1, message |-> m1,
   type |-> new, button |-> None, text |-> "plain"]

MCUpdates ==
  {Plain,
   [Plain EXCEPT !.message = m2, !.text = "link"],
   [Plain EXCEPT !.button = b1],
   [Plain EXCEPT !.message = m2, !.text = "blank"],
   [Plain EXCEPT !.chat = None, !.message = None, !.type = None],
   [Plain EXCEPT !.id = None, !.chat = None, !.message = None, !.type = None],
   [Plain EXCEPT !.signed = FALSE],
   [Plain EXCEPT !.json = FALSE]}

MCKeys == {DedupKey(u) : u \in Updates} \ {None}

\* What the ids must be like for NoForeignSwallow: each of its kind.
ASSUME MCKindsAssumption == KindsApart
=============================================================================
