---------------------------- MODULE MCModeration ----------------------------
(* Small instances of Moderation: s is a member, a an admin, o the owner.  *)
EXTENDS Moderation, TLC

CONSTANTS s, a, o, x, w1, w2

MCSenders == {s, a, o}

Blank ==
  [id |-> 0, from |-> s, link |-> FALSE, words |-> {}, command |-> None,
   on |-> FALSE, word |-> None, target |-> None]

\* Messages of a member in a row, one of them a command.
Crowd ==
  {[Blank EXCEPT !.id = 1], [Blank EXCEPT !.id = 2],
   [Blank EXCEPT !.id = 3, !.command = "info"]}

\* Commands and what they change, by everyone: a ban with a link and without
\* a sender; a command of a member, with the word it filters; a press of a
\* member, also with a link; the lifting of the ban, and a change of the
\* settings and of the filters.
Disputed ==
  {[Blank EXCEPT !.id = 1, !.from = None, !.link = TRUE, !.command = "ban",
                 !.target = s],
   [Blank EXCEPT !.id = 2, !.words = {x}, !.command = "filter", !.on = TRUE, !.word = x],
   [Blank EXCEPT !.id = 3, !.link = TRUE, !.command = "press", !.on = TRUE],
   [Blank EXCEPT !.id = 4, !.from = a, !.command = "unban", !.target = s],
   [Blank EXCEPT !.id = 5, !.from = a, !.link = TRUE, !.command = "antilink"],
   [Blank EXCEPT !.id = 6, !.from = o, !.command = "filter", !.on = TRUE, !.word = x]}

AllOn == {Flags}
FloodOn == {{"anti_flood"}}

WorkerSymmetry == Permutations(Workers)
=============================================================================
