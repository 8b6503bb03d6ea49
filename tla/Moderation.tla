----------------------------- MODULE Moderation -----------------------------
(***************************************************************************)
(* What the workers do with a message: the plugins of                      *)
(* app/services/plugins in the order of app/main.py, each of which may end *)
(* the processing.  Everything up to the first call of the Rubika API is   *)
(* one step, for nothing before it suspends; the calls that follow are     *)
(* steps of their own, between which other workers run.                    *)
(*                                                                         *)
(* A text is abstracted to whether it has a link, to the filter words it   *)
(* contains and to the command it gives.  Settings are read as the         *)
(* database has them (GroupSettings shows that the cache agrees).  The     *)
(* commands that only answer are one command, "info"; "press" is a press   *)
(* of a button of the panel.  Messages are those of one group that has a   *)
(* row in the database; there can be messages without a sender among them. *)
(***************************************************************************)
EXTENDS Clock, Sequences, FiniteSets

CONSTANTS
  Messages,      \* the messages, with their contents: see MessageType
  Senders,
  None,          \* no sender, no command, no target, no message
  Owner,         \* the configured owner_id
  Admins,        \* the senders the table admins has for the chat
  Words,         \* words a filter may have
  Workers,
  FloodLimit,    \* flood_limit
  Window,        \* window_seconds of AntiFloodPlugin, in ticks
  MaxWait,       \* bound: how long a message waits in the queue, in ticks
  FirstFlags,    \* the flags the chat may have at the start
  MayFail        \* whether steps fail: the database, the API, the process

AdminCommands == {"antilink", "filter", "ban", "unban"}

MessageType ==
  [id : Nat,
   from : Senders \cup {None},
   link : BOOLEAN,               \* contains_link(text)
   words : SUBSET Words,         \* the words found in the text
   command : AdminCommands \cup {"info", "press", None},
   on : BOOLEAN,                 \* /antilink on; /filter add rather than del;
                                 \* a press of Anti Link rather than Anti Flood
   word : Words \cup {None},     \* the word of /filter
   target : Senders \cup {None}] \* of /ban and /unban

ASSUME ModerationAssumption ==
  /\ Messages \subseteq MessageType
  /\ None \notin Senders /\ None \notin Messages
  /\ Owner \in Senders \cup {None}
  /\ Admins \subseteq Senders
  /\ FloodLimit \in Nat
  /\ Window \in Nat
  /\ MaxWait \in Nat
  /\ MayFail \in BOOLEAN

Flags == {"anti_link", "anti_flood", "anti_badwords"}

ASSUME FirstFlagsAssumption == FirstFlags \subseteq SUBSET Flags

VARIABLES
  flags,         \* the flags of the chat that are on
  filters,       \* the table filters: word -> "black" or "white"; partial
  events,        \* AntiFloodPlugin._events
  queued,        \* the messages in the queue
  sent,          \* history: when each message was sent
  pc,            \* what each worker is about to do
  job,           \* the message it does it for, None if it is idle
  verdict,       \* history: what the plugins made of each message
  removed,       \* the messages the gateway has removed
  banned,        \* the senders it has banned
  failed,        \* history: the messages whose handling was cut short or
                 \* had a call that failed
  checked        \* history: the times of the messages of each sender that
                 \* came to the flood check since the process started

modVars == <<now, flags, filters, events, queued, sent, pc, job, verdict,
             removed, banned, failed, checked>>

Verdicts == {"none", "link", "flood", "word", "refused", "command", "passed", "error"}

ModTypeOK ==
  /\ ClockTypeOK
  /\ flags \subseteq Flags
  /\ DOMAIN filters \subseteq Words
  /\ \A x \in DOMAIN filters : filters[x] \in {"black", "white"}
  /\ events \in [Senders -> Seq(Nat)]
  /\ queued \subseteq Messages
  /\ DOMAIN sent \subseteq Messages
  /\ \A m \in DOMAIN sent : sent[m] \in 0..now
  /\ pc \in [Workers -> {"idle", "delete", "ban", "report", "act"}]
  /\ job \in [Workers -> Messages \cup {None}]
  /\ \A w \in Workers : job[w] = None <=> pc[w] = "idle"
  /\ verdict \in [Messages -> Verdicts]
  /\ removed \subseteq Messages
  /\ banned \subseteq Senders
  /\ failed \subseteq Messages
  /\ checked \in [Senders -> Seq(Nat)]

ModInit ==
  /\ ClockInit
  /\ flags \in FirstFlags
  /\ filters = [x \in {} |-> "black"]
  /\ events = [s \in Senders |-> << >>]
  /\ queued = {}
  /\ sent = [m \in {} |-> 0]
  /\ pc = [w \in Workers |-> "idle"]
  /\ job = [w \in Workers |-> None]
  /\ verdict = [m \in Messages |-> "none"]
  /\ removed = {}
  /\ banned = {}
  /\ failed = {}
  /\ checked = [s \in Senders |-> << >>]

-----------------------------------------------------------------------------
(* The plugins' questions *)

Admin(m) == m.from \in Admins

LinkHit(m) == "anti_link" \in flags /\ ~Admin(m) /\ m.link

\* The flood plugin looks at the message (once the link plugin let it pass).
FloodLooks(m) == "anti_flood" \in flags /\ m.from # None /\ ~Admin(m)

\* No event is ever forgotten.
Recent_Bug(s) == events[s]

\* The events that are left after the old ones have gone from the front.
Recent(s) ==
  LET old == {n \in 0..Len(events[s]) : \A i \in 1..n : now - events[s][i] > Window}
      n   == CHOOSE n \in old : \A k \in old : k <= n
  IN SubSeq(events[s], n + 1, Len(events[s]))

FloodHit_Bug(m) == FloodLooks(m) /\ Len(Recent(m.from)) + 2 > FloodLimit

\* This message makes more of them than the limit.
FloodHit(m) == FloodLooks(m) /\ Len(Recent(m.from)) + 1 > FloodLimit

Found(m, kind) == \E x \in DOMAIN filters \cap m.words : filters[x] = kind

\* A word of the white list saves the message wherever it stands in the list.
WordHit(m) ==
  /\ "anti_badwords" \in flags
  /\ ~Admin(m)
  /\ Found(m, "black")
  /\ ~Found(m, "white")

Refused(m) ==
  /\ m.command \in AdminCommands
  /\ m.from # None
  /\ m.from # Owner
  /\ ~Admin(m)

-----------------------------------------------------------------------------
(* The steps *)

\* A message reaches the queue.
Send(m) ==
  /\ m \notin DOMAIN sent
  /\ sent' = [k \in DOMAIN sent \cup {m} |-> IF k = m THEN now ELSE sent[k]]
  /\ queued' = queued \cup {m}
  /\ UNCHANGED <<now, flags, filters, events, pc, job, verdict, removed, banned, failed,
                 checked>>

\* w goes on with message m, or is done with it.
Goes(w, m, next) ==
  /\ pc' = [pc EXCEPT ![w] = next]
  /\ job' = [job EXCEPT ![w] = IF next = "idle" THEN None ELSE m]

Judged(w, m, v, next) ==
  /\ verdict' = [verdict EXCEPT ![m] = v]
  /\ Goes(w, m, next)

\* The flood plugin notes the message before it counts.
Noted(m) ==
  IF FloodLooks(m)
  THEN /\ events' = [events EXCEPT ![m.from] = Append(Recent(m.from), now)]
       /\ checked' = [checked EXCEPT ![m.from] = Append(@, now)]
  ELSE UNCHANGED <<events, checked>>

\* The exception ends the worker's task.
Raised_Bug(w, m) ==
  /\ MayFail
  /\ Judged(w, m, "error", "dead")
  /\ UNCHANGED <<flags, filters, events, checked>>

\* A plugin raises before anything is decided: a message that cannot be
\* logged, a setting, an admin or a filter that cannot be read or written, a
\* filter that is no regular expression.  The exception ends the job, before
\* the flood plugin has noted the message or after.
Raised(w, m) ==
  /\ MayFail
  /\ \/ UNCHANGED <<events, checked>>
     \/ ~LinkHit(m) /\ ~FloodHit(m) /\ Noted(m)
  /\ Judged(w, m, "error", "idle")
  /\ UNCHANGED <<flags, filters>>

ByLink(w, m) ==
  /\ LinkHit(m)
  /\ Judged(w, m, "link", "delete")
  /\ UNCHANGED <<flags, filters, events, checked>>

ByFlood(w, m) ==
  /\ ~LinkHit(m)
  /\ FloodHit(m)
  /\ Noted(m)
  /\ Judged(w, m, "flood", "delete")
  /\ UNCHANGED <<flags, filters>>

ByWord(w, m) ==
  /\ ~LinkHit(m)
  /\ ~FloodHit(m)
  /\ WordHit(m)
  /\ Noted(m)
  /\ Judged(w, m, "word", "delete")
  /\ UNCHANGED <<flags, filters>>

\* None of the moderating plugins has handled the message.
Clean(m) == ~LinkHit(m) /\ ~FloodHit(m) /\ ~WordHit(m)

Toggled(flag) == IF flag \in flags THEN flags \ {flag} ELSE flags \cup {flag}

\* /antilink, /filter and a press change the database before anything is sent.
\* A press is no text, so CommandsPlugin passes it on to PanelPlugin, the last.
Changes(m) ==
  CASE m.command = "antilink" ->
         /\ flags' = IF m.on THEN flags \cup {"anti_link"} ELSE flags \ {"anti_link"}
         /\ UNCHANGED filters
    [] m.command = "filter" /\ m.word # None ->
         /\ filters' = IF m.on
                       THEN [x \in DOMAIN filters \cup {m.word} |->
                               IF x = m.word THEN "black" ELSE filters[x]]
                       ELSE [x \in DOMAIN filters \ {m.word} |-> filters[x]]
         /\ UNCHANGED flags
    [] m.command = "press" ->
         /\ flags' = Toggled(IF m.on THEN "anti_link" ELSE "anti_flood")
         /\ UNCHANGED filters
    [] OTHER -> UNCHANGED <<flags, filters>>

\* Nobody's commands are refused.
ByCommand_Bug(w, m) ==
  /\ Clean(m)
  /\ m.command # None
  /\ Noted(m)
  /\ Changes(m)
  /\ Judged(w, m, "command", "act")

ByCommand(w, m) ==
  /\ Clean(m)
  /\ m.command # None
  /\ Noted(m)
  /\ \/ /\ Refused(m)
        /\ Judged(w, m, "refused", "report")
        /\ UNCHANGED <<flags, filters>>
     \/ /\ ~Refused(m)
        /\ Changes(m)
        /\ Judged(w, m, "command", "act")

Passes(w, m) ==
  /\ Clean(m)
  /\ m.command = None
  /\ Noted(m)
  /\ Judged(w, m, "passed", "idle")
  /\ UNCHANGED <<flags, filters>>

\* A worker takes a message and its plugins run up to the first API call.
Take(w, m) ==
  /\ pc[w] = "idle"
  /\ m \in queued
  /\ queued' = queued \ {m}
  /\ \/ Raised(w, m) \/ ByLink(w, m) \/ ByFlood(w, m) \/ ByWord(w, m)
     \/ ByCommand(w, m) \/ Passes(w, m)
  /\ UNCHANGED <<now, sent, removed, banned, failed>>

\* A flood is not banned.
AfterDelete_Bug(m) ==
  IF verdict[m] = "link" /\ m.from # None THEN "ban" ELSE "idle"

\* What follows the deletion.
AfterDelete(m) ==
  CASE verdict[m] \in {"link", "flood"} /\ m.from # None -> "ban"
    [] verdict[m] = "link" /\ m.from = None -> "report"
    [] OTHER -> "idle"

\* The call for w's message fails.
CallFails(w) == MayFail /\ failed' = failed \cup {job[w]}

\* The API call returns, and was carried out or, if it failed, may not have
\* been.  An answer that is not a JSON object raises and ends the job.
Delete(w) ==
  /\ pc[w] = "delete"
  /\ \/ /\ removed' = removed \cup {job[w]}
        /\ Goes(w, job[w], AfterDelete(job[w]))
        /\ UNCHANGED failed
     \/ /\ CallFails(w)
        /\ removed' \in {removed, removed \cup {job[w]}}
        /\ \E next \in {AfterDelete(job[w]), "idle"} : Goes(w, job[w], next)
  /\ UNCHANGED <<now, flags, filters, events, queued, sent, verdict, banned, checked>>

AfterBan(m) == IF verdict[m] = "link" THEN "report" ELSE "idle"

Ban(w) ==
  /\ pc[w] = "ban"
  /\ \/ /\ banned' = banned \cup {job[w].from}
        /\ Goes(w, job[w], AfterBan(job[w]))
        /\ UNCHANGED failed
     \/ /\ CallFails(w)
        /\ banned' \in {banned, banned \cup {job[w].from}}
        /\ \E next \in {AfterBan(job[w]), "idle"} : Goes(w, job[w], next)
  /\ UNCHANGED <<now, flags, filters, events, queued, sent, verdict, removed, checked>>

\* /ban takes the sender of the command, not of the message it replies to.
BanCommand_Bug(w) ==
  /\ pc[w] = "act"
  /\ job[w].command = "ban"
  /\ banned' = banned \cup {job[w].from}
  /\ Goes(w, job[w], "idle")
  /\ UNCHANGED <<now, flags, filters, events, queued, sent, verdict, removed,
                 failed, checked>>

\* /ban and /unban call the API, if they have a target.
BanCommand(w) ==
  /\ pc[w] = "act"
  /\ LET m      == job[w]
         whom   == {m.target} \ {None}
         effect == IF m.command = "ban" THEN banned \cup whom ELSE banned \ whom
     IN /\ m.command \in {"ban", "unban"}
        /\ \/ banned' = effect /\ UNCHANGED failed
           \/ banned' \in {effect, banned} /\ CallFails(w)
  /\ Goes(w, job[w], "idle")
  /\ UNCHANGED <<now, flags, filters, events, queued, sent, verdict, removed, checked>>

\* The other commands send a message, and nothing depends on whether it
\* arrives; so do the buttons of the panel.
Answered(w) ==
  /\ pc[w] = "act"
  /\ job[w].command \notin {"ban", "unban"}
  /\ Goes(w, job[w], "idle")
  /\ UNCHANGED <<now, flags, filters, events, queued, sent, verdict, removed,
                 banned, failed, checked>>

\* The report of a link ban, or the refusal, is sent.
Report(w) ==
  /\ pc[w] = "report"
  /\ Goes(w, job[w], "idle")
  /\ UNCHANGED <<now, flags, filters, events, queued, sent, verdict, removed,
                 banned, failed, checked>>

\* The process dies: the queue, the jobs and the flood plugin's events are in
\* memory only.
Crash ==
  /\ MayFail
  /\ queued' = {}
  /\ pc' = [w \in Workers |-> "idle"]
  /\ job' = [w \in Workers |-> None]
  /\ events' = [s \in Senders |-> << >>]
  /\ checked' = [s \in Senders |-> << >>]
  /\ failed' = failed \cup queued \cup ({job[w] : w \in Workers} \ {None})
  /\ UNCHANGED <<now, flags, filters, sent, verdict, removed, banned>>

\* Time passes, but no message waits in the queue for longer than MaxWait.
ModPause ==
  /\ Tick
  /\ \A m \in queued : now - sent[m] < MaxWait
  /\ UNCHANGED <<flags, filters, events, queued, sent, pc, job, verdict, removed,
                 banned, failed, checked>>

Works(w) ==
  \/ \E m \in Messages : Take(w, m)
  \/ Delete(w) \/ Ban(w) \/ Report(w) \/ BanCommand(w) \/ Answered(w)

ModNext ==
  \/ \E m \in Messages : Send(m)
  \/ \E w \in Workers : Works(w)
  \/ Crash
  \/ ModPause

ModSpec == ModInit /\ [][ModNext]_modVars

\* Workers that have something to do go on: the event loop runs every ready
\* task and every API call returns.
ModFairSpec == ModSpec /\ \A w \in Workers : WF_modVars(Works(w))

-----------------------------------------------------------------------------
(* Properties *)

Over(m) == m \in DOMAIN sent \ queued /\ \A w \in Workers : job[w] # m

\* An accepted /unban lifts the ban of s.
Lifted(s) == \E m \in Messages : m.command = "unban" /\ m.target = s /\ verdict[m] = "command"

\* What the plugins decide about a message is done by the time the job is
\* over, if none of its own calls failed and no crash interrupted it, whatever
\* the other workers and failures of other jobs do meanwhile: the message is
\* gone, and whom it bans is banned unless somebody lifted the ban.
DecisionsCarriedOut ==
  \A m \in Messages : Over(m) /\ m \notin failed =>
    /\ verdict[m] \in {"link", "flood", "word"} => m \in removed
    /\ verdict[m] \in {"link", "flood"} /\ m.from # None =>
         m.from \in banned \/ Lifted(m.from)
    /\ verdict[m] = "command" /\ m.command = "ban" /\ m.target # None =>
         m.target \in banned \/ Lifted(m.target)

\* Nothing else is ever removed, and nobody is banned but the sender of a
\* message judged a link or a flood and the target of an accepted /ban: no
\* job acts on the message of another, crashes and failures included.
OnlyDecisions ==
  /\ \A m \in removed : verdict[m] \in {"link", "flood", "word"}
  /\ \A s \in banned :
       \/ \E m \in Messages : m.from = s /\ verdict[m] \in {"link", "flood"}
       \/ \E m \in Messages : m.command = "ban" /\ m.target = s /\ verdict[m] = "command"

\* The plugins come to m in this step.
Decided(m) == verdict[m] = "none" /\ verdict'[m] \notin {"none", "error"}

\* The filters and, but for the panel's buttons, the settings only change by
\* commands of the owner, of an admin or of nobody in particular, and never
\* by a message that the plugins before have removed.
ChangedByCommand ==
  [][flags' # flags \/ filters' # filters =>
       \E m \in Messages :
         /\ Decided(m)
         /\ verdict'[m] = "command"
         /\ m.from \in Admins \cup {Owner, None} \/ (m.command = "press" /\ filters' = filters)
         /\ ~LinkHit(m)]_modVars

\* How many messages of s came to the flood check in the last Window ticks.
Lately(s) == Cardinality({i \in 1..Len(checked[s]) : now - checked[s][i] <= Window})

\* The flood plugin's queue of events forgets exactly what it may forget: it
\* acts if and only if the messages that came to its check in the last Window
\* seconds, this one included, are more than the limit.
FloodExact ==
  [][\A m \in Messages :
       Decided(m) /\ FloodLooks(m) /\ ~LinkHit(m) =>
         (verdict'[m] = "flood" <=> Lately(m.from) + 1 > FloodLimit)]_modVars

\* The check is made when a message is handled, not when it was sent, so a
\* queue that stalls pushes messages together.  Still, if no message waits
\* longer than MaxWait, a sender who is judged a flood sent more messages
\* than the limit within Window + MaxWait.
FloodWasSent ==
  [][\A m \in Messages : Decided(m) /\ verdict'[m] = "flood" =>
       Cardinality({k \in DOMAIN sent : k.from = m.from /\ now - sent[k] <= Window + MaxWait})
         > FloodLimit]_modVars

\* Every message in the queue is eventually judged and its job comes to an
\* end.
MessagesJudged == \A m \in Messages : m \in queued ~> Over(m)
=============================================================================
