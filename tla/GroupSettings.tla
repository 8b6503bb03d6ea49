--------------------------- MODULE GroupSettings ---------------------------
(***************************************************************************)
(* The settings of the groups: the table groups of the database, the cache *)
(* in front of it (app/db/repository.py), and the workers that read and    *)
(* change them: the moderation plugins, /settings, /antilink and the panel *)
(* (app/services/handlers.py, app/services/plugins/panel.py).              *)
(*                                                                         *)
(* The repository's calls are synchronous, so a worker's step reaches from *)
(* one call of the Rubika API to the next.  The API calls are made by all  *)
(* workers concurrently and take effect in any order.  A chat holds at     *)
(* most one panel message here.                                            *)
(***************************************************************************)
EXTENDS LruTtlCache

CONSTANTS
  Chats,
  Workers,
  NoRow,         \* the chat has no row in the table groups
  Registered,    \* chats that have a row from the start
  Joining,       \* chats that upsert_group may register (only the tests do)
  Commands,      \* subset of {"antilink", "panel", "press"}: what is used
  MayRestart     \* whether the process may crash and restart

ASSUME SettingsAssumption ==
  /\ Registered \subseteq Chats
  /\ Joining \subseteq Chats
  /\ Commands \subseteq {"antilink", "panel", "press"}
  /\ MayRestart \in BOOLEAN

\* The flags that can be changed; the other settings keep their defaults.
Flags == {"anti_link", "anti_flood"}
Settings == [Flags -> BOOLEAN]

\* GroupSettings(...) for a missing row, and the defaults of the columns.
Default == [f \in Flags |-> f = "anti_link"]

ASSUME NoRowAssumption == NoRow \notin Settings

VARIABLES
  rows,          \* the table groups
  cache,         \* Repository._group_cache
  pc,            \* what each worker is doing
  chat,          \* the chat it is doing it for
  keypad,        \* the settings it draws on the panel
  shown,         \* the settings the panel message of each chat displays
  late           \* history: workers whose panel is on its way while a change
                 \* of its settings has come after they were read

settingsVars == <<rows, cache, pc, chat, keypad, shown, late>>

SettingsTypeOK ==
  /\ rows \in [Chats -> Settings \cup {NoRow}]
  /\ DOMAIN cache.held \subseteq Chats
  /\ \A c \in DOMAIN cache.held :
       cache.held[c] \in [value : Settings, old : BOOLEAN]
  /\ CacheShape(cache)
  /\ pc \in [Workers -> {"idle", "confirm", "draw"}]
  /\ chat \in [Workers -> Chats]
  /\ keypad \in [Workers -> Settings]
  /\ shown \in [Chats -> Settings]
  /\ late \subseteq {w \in Workers : pc[w] = "draw"}

SettingsInit ==
  /\ rows = [c \in Chats |-> IF c \in Registered THEN Default ELSE NoRow]
  /\ cache = EmptyCache
  /\ pc = [w \in Workers |-> "idle"]
  /\ chat \in [Workers -> {CHOOSE c \in Chats : TRUE}]
  /\ keypad = [w \in Workers |-> Default]
  /\ shown = [c \in Chats |-> Default]
  /\ late = {}

-----------------------------------------------------------------------------
(* The repository *)

\* The settings the database gives a chat.
Effective(c) == IF rows[c] = NoRow THEN Default ELSE rows[c]

\* The settings get_group returns, and the cache it leaves behind.
Group(c) == IF Hit(cache, c) THEN cache.held[c].value ELSE Effective(c)
Looked(c) ==
  IF Hit(cache, c) THEN Touched(cache, c) ELSE Stored(cache, c, Effective(c))

\* UPDATE groups SET flag = value WHERE chat_id = c: no row, no effect.
Updated(c, flag, value) ==
  IF rows[c] = NoRow THEN rows ELSE [rows EXCEPT ![c][flag] = value]

\* The workers that have read c's settings and are sending its panel.
Drawing(c) == {w \in Workers : pc[w] = "draw" /\ chat[w] = c}

\* The row is written, the cached copy is kept.
SetGroupFlag_Bug(before, c, flag, value) ==
  /\ rows' = Updated(c, flag, value)
  /\ cache' = before
  /\ late' = late \cup Drawing(c)

SetGroupFlag(before, c, flag, value) ==
  /\ rows' = Updated(c, flag, value)
  /\ cache' = Invalidated(before, c)
  /\ late' = late \cup Drawing(c)

\* upsert_group(c, title): an existing row keeps its flags.  The entry is
\* invalidated and read again.
UpsertGroup(c) ==
  /\ c \in Joining
  /\ rows' = [rows EXCEPT ![c] = Effective(c)]
  /\ cache' = Stored(Invalidated(cache, c), c, Effective(c))
  /\ UNCHANGED <<pc, chat, keypad, shown, late>>

\* A moderation plugin or /settings reads the settings.
Read(w, c) ==
  /\ pc[w] = "idle"
  /\ cache' = Looked(c)
  /\ UNCHANGED <<rows, pc, chat, keypad, shown, late>>

-----------------------------------------------------------------------------
(* The commands and the panel *)

\* /antilink on|off; the answer follows, and nothing after it.
AntiLink(w, c, value) ==
  /\ "antilink" \in Commands
  /\ pc[w] = "idle"
  /\ SetGroupFlag(cache, c, "anti_link", value)
  /\ UNCHANGED <<pc, chat, keypad, shown>>

\* /panel: the settings are read, and sent with the message.
OpenPanel(w, c) ==
  /\ "panel" \in Commands
  /\ pc[w] = "idle"
  /\ cache' = Looked(c)
  /\ keypad' = [keypad EXCEPT ![w] = Group(c)]
  /\ pc' = [pc EXCEPT ![w] = "draw"]
  /\ chat' = [chat EXCEPT ![w] = c]
  /\ UNCHANGED <<rows, shown, late>>

\* A press of a flag's button: read, negate, write, with no await between.
Press(w, c, flag) ==
  /\ "press" \in Commands
  /\ pc[w] = "idle"
  /\ SetGroupFlag(Looked(c), c, flag, ~Group(c)[flag])
  /\ pc' = [pc EXCEPT ![w] = "confirm"]
  /\ chat' = [chat EXCEPT ![w] = c]
  /\ UNCHANGED <<keypad, shown>>

\* The write of a press fails (the database stays locked for the busy
\* timeout); the exception ends the job.
PressFails(w, c) ==
  /\ "press" \in Commands
  /\ pc[w] = "idle"
  /\ cache' = Looked(c)
  /\ UNCHANGED <<rows, pc, chat, keypad, shown, late>>

\* The panel is drawn with settings that nobody looked up again.
Refresh_Bug(w) ==
  /\ pc[w] = "confirm"
  /\ cache' = Looked(chat[w])
  /\ pc' = [pc EXCEPT ![w] = "draw"]
  /\ UNCHANGED <<rows, chat, keypad, shown, late>>

\* The press has been confirmed: _refresh_panel reads the settings again.
Refresh(w) ==
  /\ pc[w] = "confirm"
  /\ cache' = Looked(chat[w])
  /\ keypad' = [keypad EXCEPT ![w] = Group(chat[w])]
  /\ pc' = [pc EXCEPT ![w] = "draw"]
  /\ UNCHANGED <<rows, chat, shown, late>>

\* The gateway changes the panel message, or sends the new one.
Draw(w) ==
  /\ pc[w] = "draw"
  /\ shown' = [shown EXCEPT ![chat[w]] = keypad[w]]
  /\ pc' = [pc EXCEPT ![w] = "idle"]
  /\ late' = late \ {w}
  /\ UNCHANGED <<rows, cache, chat, keypad>>

Age(c) ==
  /\ Hit(cache, c)
  /\ cache' = Aged(cache, c)
  /\ UNCHANGED <<rows, pc, chat, keypad, shown, late>>

\* The process dies at any point and starts again with the same database.
Restart ==
  /\ MayRestart
  /\ cache' = EmptyCache
  /\ pc' = [w \in Workers |-> "idle"]
  /\ late' = {}
  /\ UNCHANGED <<rows, chat, keypad, shown>>

SettingsNext ==
  \/ \E w \in Workers, c \in Chats :
       \/ Read(w, c)
       \/ \E value \in BOOLEAN : AntiLink(w, c, value)
       \/ OpenPanel(w, c)
       \/ \E flag \in Flags : Press(w, c, flag)
       \/ PressFails(w, c)
  \/ \E w \in Workers : Refresh(w) \/ Draw(w)
  \/ \E c \in Chats : UpsertGroup(c) \/ Age(c)
  \/ Restart

SettingsSpec == SettingsInit /\ [][SettingsNext]_settingsVars

-----------------------------------------------------------------------------
(* Properties *)

\* Whatever the order of reads, presses, commands, registrations, evictions
\* and expiries, an entry of the cache equals what the database would give:
\* no plugin ever moderates by settings that are out of date.
CacheCoherent ==
  \A c \in DOMAIN cache.held : cache.held[c].value = Effective(c)

\* What the bot announces of chat c in this step is so: a press negates the
\* flag that was in force ("the setting was updated"), whichever copy of it
\* the press read, and /antilink leaves the flag at the value it answers with.
TrueAnswer(c) ==
  \A w \in Workers :
    /\ \A flag \in Flags : Press(w, c, flag) =>
         Effective(c)' = [Effective(c) EXCEPT ![flag] = ~@]
    /\ \A value \in BOOLEAN : AntiLink(w, c, value) =>
         Effective(c)' = [Effective(c) EXCEPT !["anti_link"] = value]

\* What the answers of the bot say: in every chat, they are true.
AnswersAreTrue == [][\A c \in Chats : TrueAnswer(c)]_settingsVars

\* In a chat that has a row in the database they are.
ChangesTakeEffect ==
  [][\A c \in Chats : rows[c] # NoRow => TrueAnswer(c)]_settingsVars

\* A panel message arrives with the settings in force, whoever has changed
\* them before, unless somebody changes them while it is on its way (then the
\* panel may be out of date until the next press; the later of two updates
\* may even arrive first).
PanelTruthful ==
  [][\A w \in Workers : Draw(w) /\ w \notin late =>
       shown'[chat[w]] = Effective(chat[w])]_settingsVars
=============================================================================
