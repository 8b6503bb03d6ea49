--------------------------- MODULE SettingsProofs ---------------------------
(***************************************************************************)
(* The cache in front of the table groups never disagrees with it, for any *)
(* number of chats and workers and any size of the cache.  The argument    *)
(* does not depend on which entries are evicted: an operation of the cache *)
(* keeps old values, drops them, or stores the value just read; and every  *)
(* write of a row drops the copy of that row.                              *)
(***************************************************************************)
EXTENDS GroupSettings, TLAPS

\* Every entry of ch is the value the table t gives.
Agrees(ch, t) ==
  \A c \in DOMAIN ch.held :
    ch.held[c].value = IF t[c] = NoRow THEN Default ELSE t[c]

\* The type of the part of the state the argument needs.
TableInv ==
  /\ rows \in [Chats -> Settings \cup {NoRow}]
  /\ chat \in [Workers -> Chats]

CoherenceInv == TableInv /\ CacheCoherent

LEMMA DefaultIsSettings == Default \in Settings
BY DEF Default, Settings

\* Looking a chat up leaves a coherent cache, and returns what is in force.
LEMMA LookedAgrees ==
  ASSUME CoherenceInv, NEW c \in Chats
  PROVE  Agrees(Looked(c), rows) /\ Group(c) = Effective(c)
<1>1. CASE Hit(cache, c)
  <2>1. Looked(c).held = cache.held
    BY <1>1 DEF Looked, Touched
  <2>2. Agrees(Looked(c), rows)
    BY <2>1 DEF Agrees, CoherenceInv, CacheCoherent, Effective
  <2>3. Group(c) = Effective(c)
    BY <1>1 DEF Group, Hit, CoherenceInv, CacheCoherent
  <2> QED BY <2>2, <2>3
<1>2. CASE ~Hit(cache, c)
  <2> DEFINE h == Looked(c).held
  <2>1. /\ DOMAIN h \subseteq DOMAIN cache.held \cup {c}
        /\ \A k \in DOMAIN h :
             h[k].value = IF k = c THEN Effective(c) ELSE cache.held[k].value
    BY <1>2 DEF Looked, Stored
  <2>2. Agrees(Looked(c), rows)
    BY <2>1 DEF Agrees, CoherenceInv, CacheCoherent, Effective
  <2> QED BY <1>2, <2>2 DEF Group
<1> QED BY <1>1, <1>2

\* A write that drops the copy of the written row keeps the rest coherent.
LEMMA SetGroupFlagKeeps ==
  ASSUME TableInv, NEW before, Agrees(before, rows), NEW c \in Chats,
         NEW flag \in Flags, NEW value \in BOOLEAN,
         SetGroupFlag(before, c, flag, value)
  PROVE  /\ rows' \in [Chats -> Settings \cup {NoRow}]
         /\ CacheCoherent'
         /\ rows[c] # NoRow =>
              Effective(c)' = [Effective(c) EXCEPT ![flag] = value]
<1>1. /\ rows' = IF rows[c] = NoRow THEN rows ELSE [rows EXCEPT ![c][flag] = value]
      /\ cache' = Invalidated(before, c)
  BY DEF SetGroupFlag, Updated
<1>2. /\ \A k \in Chats : k # c => rows'[k] = rows[k]
      /\ rows[c] = NoRow => rows' = rows
      /\ rows[c] # NoRow => rows'[c] = [rows[c] EXCEPT ![flag] = value]
  BY <1>1 DEF TableInv
<1>3. rows[c] # NoRow => [rows[c] EXCEPT ![flag] = value] \in Settings
  <2>1. rows[c] # NoRow => rows[c] \in [Flags -> BOOLEAN]
    BY DEF TableInv, Settings
  <2> QED BY <2>1 DEF Settings
<1>4. rows' \in [Chats -> Settings \cup {NoRow}]
  <2>1. CASE rows[c] = NoRow
    BY <1>2, <2>1 DEF TableInv
  <2>2. CASE rows[c] # NoRow
    <3> DEFINE r == [rows[c] EXCEPT ![flag] = value]
    <3>1. rows' = [rows EXCEPT ![c] = r]
      BY <1>1, <2>2
    <3>2. r \in Settings
      BY <1>3, <2>2
    <3> QED BY <3>1, <3>2 DEF TableInv
  <2> QED BY <2>1, <2>2
<1>5. CacheCoherent'
  <2>1. /\ DOMAIN cache'.held = DOMAIN before.held \ {c}
        /\ \A k \in DOMAIN cache'.held : cache'.held[k] = before.held[k]
    BY <1>1 DEF Invalidated
  <2>2. \A k : k # c => rows'[k] = rows[k]
    <3>1. \A k : k \notin Chats => rows'[k] = rows[k]
      BY <1>1, <1>2 DEF TableInv
    <3> QED BY <1>2, <3>1
  <2> QED BY <2>1, <2>2 DEF CacheCoherent, Effective, Agrees
<1>6. rows[c] # NoRow => Effective(c)' = [Effective(c) EXCEPT ![flag] = value]
  <2>1. rows[c] # NoRow => rows'[c] # NoRow
    BY <1>2, <1>3, NoRowAssumption
  <2> QED BY <1>2, <2>1 DEF Effective
<1> QED BY <1>4, <1>5, <1>6

LEMMA CoherenceInitially ==
  ASSUME SettingsInit, Chats # {}
  PROVE  CoherenceInv
<1>1. rows \in [Chats -> Settings \cup {NoRow}]
  BY DefaultIsSettings DEF SettingsInit
<1>2. chat \in [Workers -> Chats]
  BY DEF SettingsInit
<1>3. CacheCoherent
  BY DEF SettingsInit, EmptyCache, CacheCoherent
<1> QED BY <1>1, <1>2, <1>3 DEF CoherenceInv, TableInv

\* A lookup changes the cache only.
LEMMA LookupKeeps ==
  ASSUME CoherenceInv, NEW c \in Chats, cache' = Looked(c), rows' = rows,
         chat' \in [Workers -> Chats]
  PROVE  CoherenceInv'
<1>1. Agrees(Looked(c), rows)
  BY LookedAgrees
<1>2. CacheCoherent'
  BY <1>1 DEF Agrees, CacheCoherent, Effective
<1> QED BY <1>2 DEF CoherenceInv, TableInv

LEMMA PressKeeps ==
  ASSUME CoherenceInv, NEW w \in Workers, NEW c \in Chats, NEW flag \in Flags,
         Press(w, c, flag)
  PROVE  /\ CoherenceInv'
         /\ rows[c] # NoRow =>
              Effective(c)' = [Effective(c) EXCEPT ![flag] = ~@]
<1> DEFINE value == ~Group(c)[flag]
<1>1. Agrees(Looked(c), rows) /\ Group(c) = Effective(c)
  BY LookedAgrees
<1>2. Effective(c) \in Settings
  BY DefaultIsSettings DEF Effective, CoherenceInv, TableInv
<1>3. value \in BOOLEAN /\ value = ~Effective(c)[flag]
  BY <1>1, <1>2 DEF Settings
<1> HIDE DEF value
<1>4. SetGroupFlag(Looked(c), c, flag, value)
  BY DEF Press, value
<1>5. /\ rows' \in [Chats -> Settings \cup {NoRow}]
      /\ CacheCoherent'
      /\ rows[c] # NoRow => Effective(c)' = [Effective(c) EXCEPT ![flag] = value]
  BY <1>1, <1>3, <1>4, SetGroupFlagKeeps DEF CoherenceInv
<1>6. chat' \in [Workers -> Chats]
  BY DEF Press, CoherenceInv, TableInv
<1> QED BY <1>3, <1>5, <1>6 DEF CoherenceInv, TableInv

LEMMA AntiLinkKeeps ==
  ASSUME CoherenceInv, NEW w \in Workers, NEW c \in Chats, NEW value \in BOOLEAN,
         AntiLink(w, c, value)
  PROVE  /\ CoherenceInv'
         /\ rows[c] # NoRow =>
              Effective(c)' = [Effective(c) EXCEPT !["anti_link"] = value]
<1>1. Agrees(cache, rows)
  BY DEF Agrees, CoherenceInv, CacheCoherent, Effective
<1>2. "anti_link" \in Flags /\ SetGroupFlag(cache, c, "anti_link", value)
  BY DEF AntiLink, Flags
<1>3. /\ rows' \in [Chats -> Settings \cup {NoRow}]
      /\ CacheCoherent'
      /\ rows[c] # NoRow =>
           Effective(c)' = [Effective(c) EXCEPT !["anti_link"] = value]
  BY <1>1, <1>2, SetGroupFlagKeeps DEF CoherenceInv
<1> QED BY <1>3 DEF AntiLink, CoherenceInv, TableInv

LEMMA UpsertKeeps ==
  ASSUME CoherenceInv, NEW c \in Chats, UpsertGroup(c)
  PROVE  CoherenceInv'
<1>1. /\ rows' = [rows EXCEPT ![c] = Effective(c)] /\ chat' = chat
      /\ cache' = Stored(Invalidated(cache, c), c, Effective(c))
  BY DEF UpsertGroup
<1>2. Effective(c) \in Settings
  BY DefaultIsSettings DEF Effective, CoherenceInv, TableInv
<1>3. rows' \in [Chats -> Settings \cup {NoRow}]
  BY <1>1, <1>2 DEF CoherenceInv, TableInv
<1>4. \A k : Effective(k)' = Effective(k)
  BY <1>1, <1>2, NoRowAssumption DEF Effective, CoherenceInv, TableInv
<1>5. CacheCoherent'
  <2>1. /\ DOMAIN cache'.held \subseteq DOMAIN cache.held \cup {c}
        /\ \A k \in DOMAIN cache'.held :
             cache'.held[k].value = IF k = c THEN Effective(c)
                                             ELSE cache.held[k].value
    BY <1>1 DEF Stored, Invalidated
  <2> QED BY <1>4, <2>1 DEF CoherenceInv, CacheCoherent
<1> QED BY <1>1, <1>3, <1>5 DEF CoherenceInv, TableInv

LEMMA AgeKeeps ==
  ASSUME CoherenceInv, NEW c \in Chats, Age(c)
  PROVE  CoherenceInv'
<1>1. /\ DOMAIN cache'.held = DOMAIN cache.held
      /\ \A k \in DOMAIN cache.held : cache'.held[k].value = cache.held[k].value
  BY DEF Age, Aged, Hit
<1> QED BY <1>1 DEF Age, CoherenceInv, TableInv, CacheCoherent, Effective

LEMMA CoherenceStep == CoherenceInv /\ [SettingsNext]_settingsVars => CoherenceInv'
<1> SUFFICES ASSUME CoherenceInv, [SettingsNext]_settingsVars
             PROVE  CoherenceInv'
  OBVIOUS
<1>1. CASE UNCHANGED settingsVars
  BY <1>1 DEF settingsVars, CoherenceInv, TableInv, CacheCoherent, Effective
<1>2. ASSUME NEW w \in Workers, NEW c \in Chats,
             Read(w, c) \/ OpenPanel(w, c) \/ PressFails(w, c)
      PROVE  CoherenceInv'
  <2>1. cache' = Looked(c) /\ rows' = rows /\ chat' \in [Workers -> Chats]
    BY <1>2 DEF Read, OpenPanel, PressFails, CoherenceInv, TableInv
  <2> QED BY <2>1, LookupKeeps
<1>3. ASSUME NEW w \in Workers, Refresh(w)
      PROVE  CoherenceInv'
  <2>1. chat[w] \in Chats /\ chat' \in [Workers -> Chats]
    BY <1>3 DEF Refresh, CoherenceInv, TableInv
  <2> QED BY <1>3, <2>1, LookupKeeps DEF Refresh
<1>4. ASSUME NEW w \in Workers, Draw(w)
      PROVE  CoherenceInv'
  BY <1>4 DEF Draw, CoherenceInv, TableInv, CacheCoherent, Effective
<1>5. CASE Restart
  BY <1>5 DEF Restart, EmptyCache, CoherenceInv, TableInv, CacheCoherent
<1> QED
  BY <1>1, <1>2, <1>3, <1>4, <1>5, PressKeeps, AntiLinkKeeps, UpsertKeeps,
     AgeKeeps DEF SettingsNext

\* get_group never serves settings the database does not hold, whatever the
\* interleaving of workers, evictions, expiries, registrations and restarts.
THEOREM CacheIsCoherent == SettingsSpec /\ Chats # {} => []CacheCoherent
<1>1. ASSUME Chats # {}
      PROVE  SettingsSpec => []CacheCoherent
  <2>1. SettingsInit => CoherenceInv
    BY <1>1, CoherenceInitially
  <2>2. CoherenceInv => CacheCoherent
    BY DEF CoherenceInv
  <2> QED BY <2>1, <2>2, CoherenceStep, PTL DEF SettingsSpec
<1> QED BY <1>1

\* Where a chat has a row, what the bot announces is so.
THEOREM RowsObey == SettingsSpec /\ Chats # {} => ChangesTakeEffect
<1> DEFINE A == \A c \in Chats : rows[c] # NoRow => TrueAnswer(c)
<1>1. ASSUME Chats # {}
      PROVE  SettingsSpec => ChangesTakeEffect
  <2>1. SettingsInit => CoherenceInv
    BY <1>1, CoherenceInitially
  <2>2. CoherenceInv => A
    BY PressKeeps, AntiLinkKeeps DEF TrueAnswer
  <2> QED BY <2>1, <2>2, CoherenceStep, PTL DEF SettingsSpec, ChangesTakeEffect
<1> QED BY <1>1

-----------------------------------------------------------------------------
(* The panel *)

\* What a worker is about to draw is in force, or it is late.
DrawingInv ==
  /\ keypad \in [Workers -> Settings]
  /\ pc \in [Workers -> {"idle", "confirm", "draw"}]
  /\ late \subseteq Workers
  /\ \A w \in Workers : pc[w] = "draw" /\ w \notin late =>
       keypad[w] = Effective(chat[w])

PanelInv == CoherenceInv /\ DrawingInv

LEMMA EffectiveIsSettings ==
  ASSUME CoherenceInv, NEW c \in Chats
  PROVE  Effective(c) \in Settings
BY DefaultIsSettings DEF CoherenceInv, TableInv, Effective

\* A change of c's settings makes everyone late who is drawing them, and
\* leaves the settings of the other chats alone.
LEMMA ChangeMakesLate ==
  ASSUME PanelInv, NEW before, NEW c \in Chats, NEW flag \in Flags,
         NEW value \in BOOLEAN, SetGroupFlag(before, c, flag, value),
         keypad' = keypad, NEW w \in Workers, pc[w] = "draw",
         chat'[w] = chat[w], w \notin late'
  PROVE  keypad[w] = Effective(chat[w])'
<1>1. w \notin late /\ chat[w] # c
  BY DEF SetGroupFlag, Drawing
<1>2. keypad[w] = Effective(chat[w])
  BY <1>1 DEF PanelInv, DrawingInv
<1>3. chat[w] \in Chats
  BY DEF PanelInv, CoherenceInv, TableInv
<1>4. rows'[chat[w]] = rows[chat[w]]
  BY <1>1, <1>3 DEF SetGroupFlag, Updated, PanelInv, CoherenceInv, TableInv
<1> QED BY <1>2, <1>4 DEF Effective

LEMMA PanelStep == PanelInv /\ [SettingsNext]_settingsVars => PanelInv'
<1> SUFFICES ASSUME PanelInv, [SettingsNext]_settingsVars
             PROVE  DrawingInv'
  BY CoherenceStep DEF PanelInv
<1>1. CASE UNCHANGED settingsVars
  BY <1>1 DEF settingsVars, PanelInv, DrawingInv, Effective
<1>2. ASSUME NEW w \in Workers, NEW c \in Chats, Read(w, c) \/ PressFails(w, c)
      PROVE  DrawingInv'
  BY <1>2 DEF Read, PressFails, PanelInv, DrawingInv, Effective
<1>3. ASSUME NEW w \in Workers, NEW c \in Chats, OpenPanel(w, c)
      PROVE  DrawingInv'
  <2>1. Group(c) = Effective(c) /\ Effective(c) \in Settings
    BY LookedAgrees, EffectiveIsSettings DEF PanelInv
  <2>2. chat' = [chat EXCEPT ![w] = c] /\ chat \in [Workers -> Chats]
    BY <1>3 DEF OpenPanel, PanelInv, CoherenceInv, TableInv
  <2> QED BY <1>3, <2>1, <2>2 DEF OpenPanel, PanelInv, DrawingInv, Effective
<1>4. ASSUME NEW w \in Workers, Refresh(w)
      PROVE  DrawingInv'
  <2>1. chat[w] \in Chats
    BY DEF PanelInv, CoherenceInv, TableInv
  <2>2. Group(chat[w]) = Effective(chat[w]) /\ Effective(chat[w]) \in Settings
    BY <2>1, LookedAgrees, EffectiveIsSettings DEF PanelInv
  <2> QED BY <1>4, <2>2 DEF Refresh, PanelInv, DrawingInv, Effective
<1>5. ASSUME NEW w \in Workers, NEW c \in Chats, NEW flag \in Flags,
             Press(w, c, flag)
      PROVE  DrawingInv'
  <2> DEFINE value == ~Group(c)[flag]
  <2>1. value \in BOOLEAN
    OBVIOUS
  <2>2. SetGroupFlag(Looked(c), c, flag, value)
    BY <1>5 DEF Press
  <2> HIDE DEF value
  <2>3. /\ keypad' = keypad
        /\ pc' = [pc EXCEPT ![w] = "confirm"]
        /\ chat' = [chat EXCEPT ![w] = c]
    BY <1>5 DEF Press
  <2>4. /\ keypad' \in [Workers -> Settings]
        /\ pc' \in [Workers -> {"idle", "confirm", "draw"}]
        /\ late' \subseteq Workers
    BY <2>2, <2>3 DEF PanelInv, DrawingInv, SetGroupFlag, Drawing
  <2>5. ASSUME NEW v \in Workers, pc'[v] = "draw", v \notin late'
        PROVE  keypad'[v] = Effective(chat[v])'
    <3>1. pc[v] = "draw" /\ chat'[v] = chat[v]
      BY <2>3, <2>5 DEF PanelInv, DrawingInv, CoherenceInv, TableInv
    <3> QED BY <2>1, <2>2, <2>3, <2>5, <3>1, ChangeMakesLate
  <2> QED BY <2>4, <2>5 DEF DrawingInv
<1>6. ASSUME NEW w \in Workers, NEW c \in Chats, NEW value \in BOOLEAN,
             AntiLink(w, c, value)
      PROVE  DrawingInv'
  <2>1. "anti_link" \in Flags /\ SetGroupFlag(cache, c, "anti_link", value)
    BY <1>6 DEF AntiLink, Flags
  <2>2. UNCHANGED <<pc, chat, keypad>>
    BY <1>6 DEF AntiLink
  <2>3. late' \subseteq Workers
    BY <2>1 DEF PanelInv, DrawingInv, SetGroupFlag, Drawing
  <2>4. ASSUME NEW v \in Workers, pc'[v] = "draw", v \notin late'
        PROVE  keypad'[v] = Effective(chat[v])'
    BY <2>1, <2>2, <2>4, ChangeMakesLate
  <2> QED BY <2>2, <2>3, <2>4 DEF PanelInv, DrawingInv
<1>7. ASSUME NEW w \in Workers, Draw(w)
      PROVE  DrawingInv'
  BY <1>7 DEF Draw, PanelInv, DrawingInv, Effective
<1>8. ASSUME NEW c \in Chats, UpsertGroup(c)
      PROVE  DrawingInv'
  <2>1. rows' = [rows EXCEPT ![c] = Effective(c)]
        /\ UNCHANGED <<pc, chat, keypad, late>>
    BY <1>8 DEF UpsertGroup
  <2>2. Effective(c) # NoRow
    BY EffectiveIsSettings, NoRowAssumption DEF PanelInv
  <2>3. \A k \in Chats : Effective(k)' = Effective(k)
    BY <2>1, <2>2 DEF Effective, PanelInv, CoherenceInv, TableInv
  <2>4. \A v \in Workers : chat[v] \in Chats
    BY DEF PanelInv, CoherenceInv, TableInv
  <2> QED BY <2>1, <2>3, <2>4 DEF PanelInv, DrawingInv
<1>9. ASSUME NEW c \in Chats, Age(c)
      PROVE  DrawingInv'
  BY <1>9 DEF Age, PanelInv, DrawingInv, Effective
<1>10. CASE Restart
  BY <1>10 DEF Restart, PanelInv, DrawingInv
<1> QED
  BY <1>1, <1>2, <1>3, <1>4, <1>5, <1>6, <1>7, <1>8, <1>9, <1>10 DEF SettingsNext

\* A panel arrives with the settings in force unless they were changed while
\* it was on its way.
THEOREM PanelIsTruthful == SettingsSpec /\ Chats # {} => PanelTruthful
<1> DEFINE A == \A w \in Workers : Draw(w) /\ w \notin late =>
                  shown'[chat[w]] = Effective(chat[w])
           I == PanelInv /\ shown \in [Chats -> Settings]
<1>1. ASSUME Chats # {}
      PROVE  SettingsSpec => PanelTruthful
  <2>1. SettingsInit => I
    <3> SUFFICES ASSUME SettingsInit PROVE I
      OBVIOUS
    <3>1. CoherenceInv
      BY <1>1, CoherenceInitially
    <3>2. DrawingInv
      BY DefaultIsSettings DEF SettingsInit, DrawingInv
    <3> QED BY <3>1, <3>2, DefaultIsSettings DEF SettingsInit, PanelInv
  <2>2. I => A
    BY DEF Draw, PanelInv, DrawingInv, CoherenceInv, TableInv
  <2>3. I /\ [SettingsNext]_settingsVars => I'
    <3> SUFFICES ASSUME I, [SettingsNext]_settingsVars
                 PROVE  shown' \in [Chats -> Settings]
      BY PanelStep
    <3>1. ASSUME NEW w \in Workers, Draw(w)
          PROVE  shown' \in [Chats -> Settings]
      BY <3>1 DEF Draw, PanelInv, DrawingInv
    <3>2. ASSUME shown' = shown
          PROVE  shown' \in [Chats -> Settings]
      BY <3>2
    <3> QED
      BY <3>1, <3>2
         DEF SettingsNext, settingsVars, Read, AntiLink, OpenPanel, Press,
             PressFails, Refresh, UpsertGroup, Age, Restart
  <2> QED BY <2>1, <2>2, <2>3, PTL DEF SettingsSpec, PanelTruthful
<1> QED BY <1>1
=============================================================================
