----------------------------- MODULE MessageLog -----------------------------
(***************************************************************************)
(* The table messages of the database: the logging plugin adds a row per   *)
(* message, the janitor and "rubikactl db cleanup" trim the table, and     *)
(* /del reads the newest rows of its chat and deletes those messages, one  *)
(* API call after the other, while other workers go on.                    *)
(*                                                                         *)
(* The ids of the table are never reused (AUTOINCREMENT), so a row is the  *)
(* position in log of the message it was written for, and the table is the *)
(* set of the positions that are still there.                              *)
(***************************************************************************)
EXTENDS Integers, Sequences, FiniteSets

CONSTANTS
  Chats,
  Messages,      \* message ids, unique in a chat
  Workers,
  None,          \* a message without an id
  Limits,        \* the numbers /del is called with
  MaxDelete,     \* the most /del takes on at once
  Keeps,         \* how many rows per chat a trim leaves: the janitor's
                 \* setting and the CLI's option, which nothing checks
  MaxLog         \* bound: messages logged

ASSUME LogAssumption ==
  /\ None \notin Messages
  /\ Limits \subseteq Int
  /\ MaxDelete \in Nat
  /\ Keeps \subseteq Int
  /\ MaxLog \in Nat

VARIABLES
  log,           \* history: every message ever logged
  rows,          \* the table
  gone,          \* the messages the gateway has removed
  pc,            \* what each worker is doing
  chosen,        \* history: the rows its /del selected
  todo,          \* those it has not come to yet
  deleted,       \* its counters
  failed,
  misread        \* history: the rows that are counted as deleted because the
                 \* failure's body has no "ok"

logVars == <<log, rows, gone, pc, chosen, todo, deleted, failed, misread>>

LogTypeOK ==
  /\ log \in Seq([chat : Chats, id : Messages])
  /\ rows \subseteq 1..Len(log)
  /\ gone \subseteq [chat : Chats, id : Messages]
  /\ pc \in [Workers -> {"idle", "deleting"}]
  /\ chosen \in [Workers -> SUBSET (1..Len(log))]
  /\ \A w \in Workers : todo[w] \subseteq chosen[w]
  /\ deleted \in [Workers -> Nat]
  /\ failed \in [Workers -> Nat]
  /\ \A w \in Workers : misread[w] \subseteq chosen[w] \ todo[w]

LogInit ==
  /\ log = << >>
  /\ rows = {}
  /\ gone = {}
  /\ pc = [w \in Workers |-> "idle"]
  /\ chosen = [w \in Workers |-> {}]
  /\ todo = [w \in Workers |-> {}]
  /\ deleted = [w \in Workers |-> 0]
  /\ failed = [w \in Workers |-> 0]
  /\ misread = [w \in Workers |-> {}]

-----------------------------------------------------------------------------
(* The repository *)

\* The positions of a chat's messages.
Of(c, messages) == {r \in 1..Len(messages) : messages[r].chat = c}

\* ORDER BY id ASC instead of DESC.
Newest_Bug(S, n) ==
  IF n < 0 THEN S ELSE {r \in S : Cardinality({q \in S : q < r}) < n}

\* The first n rows of S, newest first; a negative LIMIT is no limit.
Newest(S, n) ==
  IF n < 0 THEN S ELSE {r \in S : Cardinality({q \in S : q > r}) < n}

\* save_message; a message without an id is not logged.
Saved(c, m) == IF m = None THEN log ELSE Append(log, [chat |-> c, id |-> m])
WithRow(m) == IF m = None THEN rows ELSE rows \cup {Len(log) + 1}

\* Any message but a /del.  The gateway may deliver one again after the TTL
\* of the deduplicator, so its id may be in the log already.
Log(w, c, m) ==
  /\ pc[w] = "idle"
  /\ Len(log) < MaxLog
  /\ log' = Saved(c, m)
  /\ rows' = WithRow(m)
  /\ UNCHANGED <<gone, pc, chosen, todo, deleted, failed, misread>>

\* The newest rows of the table as a whole are kept, not of each chat.
Trimmed_Bug(table, messages, n) == Newest(table, n)

\* trim_messages_per_chat(n), one transaction.
Trimmed(table, messages, n) ==
  {r \in table : r \in Newest(table \cap Of(messages[r].chat, messages), n)}

Trim(n) ==
  /\ rows' = Trimmed(rows, log, n)
  /\ UNCHANGED <<log, gone, pc, chosen, todo, deleted, failed, misread>>

-----------------------------------------------------------------------------
(* delete_handler *)

Clamped(n) ==
  CASE n < 0 -> 0
    [] n > MaxDelete -> MaxDelete
    [] OTHER -> n

\* /del n, itself the message m: it is logged, and in the same step of the
\* worker the rows are selected; only the CLI, a process of its own, may trim
\* the table between the two.
BulkDelete(w, c, m, n) ==
  /\ pc[w] = "idle"
  /\ Len(log) < MaxLog
  /\ log' = Saved(c, m)
  /\ \/ rows' = WithRow(m)
     \/ \E k \in Keeps : rows' = Trimmed(WithRow(m), log', k)
  /\ LET selected == Newest(rows' \cap Of(c, log'), Clamped(n))
     IN IF selected = {}
        THEN UNCHANGED <<pc, chosen, todo, deleted, failed, misread>>
        ELSE /\ pc' = [pc EXCEPT ![w] = "deleting"]
             /\ chosen' = [chosen EXCEPT ![w] = selected]
             /\ todo' = [todo EXCEPT ![w] = selected]
             /\ deleted' = [deleted EXCEPT ![w] = 0]
             /\ failed' = [failed EXCEPT ![w] = 0]
             /\ misread' = [misread EXCEPT ![w] = {}]
  /\ UNCHANGED gone

\* r is the newest row that is left to do.
IsNext(w, r) == r \in todo[w] /\ \A q \in todo[w] : q <= r

\* A failed call is counted as one that succeeded.
DeleteFails_Bug(w, r) ==
  /\ pc[w] = "deleting"
  /\ IsNext(w, r)
  /\ gone' \in {gone, gone \cup {log[r]}}
  /\ deleted' = [deleted EXCEPT ![w] = @ + 1]
  /\ todo' = [todo EXCEPT ![w] = @ \ {r}]
  /\ UNCHANGED <<log, rows, pc, chosen, failed, misread>>

\* The call reports a failure or raises; the message may be gone all the
\* same.  A failure whose body has no "ok" is counted as a success.
DeleteFails(w, r) ==
  /\ pc[w] = "deleting"
  /\ IsNext(w, r)
  /\ gone' \in {gone, gone \cup {log[r]}}
  /\ \/ /\ failed' = [failed EXCEPT ![w] = @ + 1]
        /\ UNCHANGED <<deleted, misread>>
     \/ /\ deleted' = [deleted EXCEPT ![w] = @ + 1]
        /\ misread' = [misread EXCEPT ![w] = @ \cup {r}]
        /\ UNCHANGED failed
  /\ todo' = [todo EXCEPT ![w] = @ \ {r}]
  /\ UNCHANGED <<log, rows, pc, chosen>>

DeleteSucceeds(w, r) ==
  /\ pc[w] = "deleting"
  /\ IsNext(w, r)
  /\ gone' = gone \cup {log[r]}
  /\ deleted' = [deleted EXCEPT ![w] = @ + 1]
  /\ todo' = [todo EXCEPT ![w] = @ \ {r}]
  /\ UNCHANGED <<log, rows, pc, chosen, failed, misread>>

\* The job only ends when no call has failed.
Report_Bug(w) ==
  /\ pc[w] = "deleting"
  /\ todo[w] = {}
  /\ failed[w] = 0
  /\ pc' = [pc EXCEPT ![w] = "idle"]
  /\ chosen' = [chosen EXCEPT ![w] = {}]
  /\ misread' = [misread EXCEPT ![w] = {}]
  /\ UNCHANGED <<log, rows, gone, todo, deleted, failed>>

\* The counts are sent to the chat.  A send that raises ends the job as well.
Report(w) ==
  /\ pc[w] = "deleting"
  /\ todo[w] = {}
  /\ pc' = [pc EXCEPT ![w] = "idle"]
  /\ chosen' = [chosen EXCEPT ![w] = {}]
  /\ misread' = [misread EXCEPT ![w] = {}]
  /\ UNCHANGED <<log, rows, gone, todo, deleted, failed>>

DeletesOne(w) == \E r \in todo[w] : DeleteSucceeds(w, r) \/ DeleteFails(w, r)

\* The process dies and starts again; the database stays.
LogRestart ==
  /\ pc' = [w \in Workers |-> "idle"]
  /\ chosen' = [w \in Workers |-> {}]
  /\ todo' = [w \in Workers |-> {}]
  /\ misread' = [w \in Workers |-> {}]
  /\ UNCHANGED <<log, rows, gone, deleted, failed>>

LogNext ==
  \/ \E w \in Workers :
       \/ \E c \in Chats, m \in Messages \cup {None} :
            Log(w, c, m) \/ \E n \in Limits : BulkDelete(w, c, m, n)
       \/ DeletesOne(w) \/ Report(w)
  \/ \E n \in Keeps : Trim(n)
  \/ LogRestart

LogSpec == LogInit /\ [][LogNext]_logVars

\* A worker that is deleting goes on: every API call returns.
LogFairness ==
  \A w \in Workers : WF_logVars(DeletesOne(w) \/ Report(w))

LogFairSpec == LogSpec /\ LogFairness

-----------------------------------------------------------------------------
(* Properties *)

\* How many rows a chat cannot lose: the least of the limits that are one.
Least == {n \in Keeps : n >= 0 /\ \A k \in Keeps : k >= 0 => n <= k}

\* However logging, bulk deletions and trims by the janitor and the CLI
\* interleave, the table holds the newest messages of each chat without a
\* gap: a message that is kept is never older than one that was trimmed.
NewestKept ==
  \A r \in rows : \A q \in r..Len(log) : log[q].chat = log[r].chat => q \in rows

\* ... and never fewer than every trim was told to leave.
EnoughKept ==
  \A c \in Chats, n \in Least :
    Of(c, log) \subseteq rows \/ Cardinality(rows \cap Of(c, log)) >= n

\* What /del reports is so.  Its counters add up to the rows it selected,
\* whatever happens to the table meanwhile, and it does not count more
\* deletions than there are rows it has come to whose messages are gone or
\* whose failure did not say so.
ReportTrue ==
  \A w \in Workers : pc[w] = "deleting" =>
    LET done == chosen[w] \ todo[w]
        explained == {r \in done : log[r] \in gone \/ r \in misread[w]}
    IN /\ deleted[w] + failed[w] + Cardinality(todo[w]) = Cardinality(chosen[w])
       /\ deleted[w] <= Cardinality(explained)

\* A /del comes to its end, however many messages are logged meanwhile.
BulkDeleteEnds == \A w \in Workers : pc[w] = "deleting" ~> pc[w] = "idle"
=============================================================================
