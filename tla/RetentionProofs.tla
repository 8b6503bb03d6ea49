--------------------------- MODULE RetentionProofs ---------------------------
(***************************************************************************)
(* The table messages holds the newest messages of each chat without a     *)
(* gap, and what /del reports is so, for any number of chats, messages and *)
(* workers, any limits, and any interleaving of logging, trims and bulk    *)
(* deletions.                                                              *)
(***************************************************************************)
EXTENDS MessageLog, FiniteSetTheorems, WellFoundedInduction, TLAPS

Entries == [chat : Chats, id : Messages]

\* NewestKept of a log and a table.
Gapless(messages, table) ==
  \A r \in table : \A q \in r..Len(messages) :
    messages[q].chat = messages[r].chat => q \in table

\* The table holds positions of the log.
TableOf(messages, table) ==
  /\ messages \in Seq(Entries)
  /\ table \subseteq 1..Len(messages)

RetentionInv == TableOf(log, rows) /\ Gapless(log, rows)

LEMMA TableFinite ==
  ASSUME NEW messages, NEW table, TableOf(messages, table), NEW S \in SUBSET table
  PROVE  IsFiniteSet(S)
<1>1. IsFiniteSet(1..Len(messages))
  BY FS_Interval DEF TableOf
<1> QED BY <1>1, FS_Subset DEF TableOf

\* Of the rows of a chat, a selection of the newest has no gap.
LEMMA NewestHasNoGap ==
  ASSUME NEW S \in SUBSET Int, IsFiniteSet(S), NEW n \in Int,
         NEW r \in Newest(S, n), NEW q \in S, r <= q
  PROVE  q \in Newest(S, n)
<1>1. CASE n < 0
  BY <1>1 DEF Newest
<1>2. CASE ~(n < 0)
  <2> DEFINE above(p) == {k \in S : k > p}
  <2>1. Cardinality(above(r)) < n
    BY <1>2 DEF Newest
  <2>2. above(q) \subseteq above(r)
    <3>1. r \in Int /\ q \in Int /\ \A k \in S : k \in Int
      BY <1>2 DEF Newest
    <3>2. ASSUME NEW k \in S, k > q
          PROVE  k > r
      BY <3>1, <3>2
    <3> QED BY <3>2
  <2>3. IsFiniteSet(above(r))
    <3>1. above(r) \in SUBSET S
      OBVIOUS
    <3> HIDE DEF above
    <3> QED BY <3>1, FS_Subset
  <2>4. /\ Cardinality(above(q)) <= Cardinality(above(r))
        /\ Cardinality(above(r)) \in Nat
        /\ Cardinality(above(q)) \in Nat
    <3> HIDE DEF above
    <3>1. above(q) \in SUBSET above(r)
      BY <2>2
    <3>2. /\ IsFiniteSet(above(q))
          /\ Cardinality(above(q)) <= Cardinality(above(r))
      BY <2>3, <3>1, FS_Subset
    <3> QED BY <2>3, <3>2, FS_CardinalityType
  <2>5. Cardinality(above(q)) < n
    BY <2>1, <2>4
  <2> QED BY <1>2, <2>5 DEF Newest
<1> QED BY <1>1, <1>2

LEMMA NewestIsSubset ==
  ASSUME NEW S, NEW n
  PROVE  Newest(S, n) \subseteq S
BY DEF Newest

LEMMA TrimKeepsGapless ==
  ASSUME NEW messages, NEW table, NEW n \in Int,
         TableOf(messages, table), Gapless(messages, table)
  PROVE  /\ TableOf(messages, Trimmed(table, messages, n))
         /\ Gapless(messages, Trimmed(table, messages, n))
<1> DEFINE kept == Trimmed(table, messages, n)
<1>1. kept \subseteq table
  BY DEF Trimmed
<1>2. TableOf(messages, kept)
  BY <1>1 DEF TableOf
<1>3. ASSUME NEW r \in kept, NEW q \in r..Len(messages),
             messages[q].chat = messages[r].chat
      PROVE  q \in kept
  <2> DEFINE S == table \cap Of(messages[r].chat, messages)
  <2>1. r \in table /\ r \in Newest(S, n)
    BY DEF Trimmed
  <2>2. q \in table
    BY <2>1, <1>3 DEF Gapless
  <2>3. q \in S
    BY <2>2, <1>3 DEF Of, TableOf
  <2>4. S \in SUBSET Int
    <3>1. table \subseteq 1..Len(messages)
      BY DEF TableOf
    <3>2. 1..Len(messages) \subseteq Int
      OBVIOUS
    <3>3. S \subseteq table
      OBVIOUS
    <3> HIDE DEF S
    <3> QED BY <3>1, <3>2, <3>3
  <2>5. IsFiniteSet(S)
    <3>1. S \in SUBSET table
      OBVIOUS
    <3> HIDE DEF S
    <3> QED BY <3>1, TableFinite
  <2>6. r <= q
    BY <2>1, <1>3 DEF TableOf
  <2>7. q \in Newest(S, n)
    <3> HIDE DEF S
    <3> QED BY <2>1, <2>3, <2>4, <2>5, <2>6, NewestHasNoGap
  <2>8. table \cap Of(messages[q].chat, messages) = S
    BY <1>3
  <2> QED BY <2>2, <2>7, <2>8 DEF Trimmed
<1> QED BY <1>2, <1>3 DEF Gapless

LEMMA SaveKeepsGapless ==
  ASSUME RetentionInv, NEW c \in Chats, NEW m \in Messages \cup {None}
  PROVE  TableOf(Saved(c, m), WithRow(m)) /\ Gapless(Saved(c, m), WithRow(m))
<1>1. CASE m = None
  BY <1>1 DEF RetentionInv, Saved, WithRow
<1>2. CASE m # None
  <2> DEFINE e  == [chat |-> c, id |-> m]
             lg == Append(log, e)
             tb == rows \cup {Len(log) + 1}
  <2>1. Saved(c, m) = lg /\ WithRow(m) = tb
    BY <1>2 DEF Saved, WithRow
  <2>2. log \in Seq(Entries) /\ e \in Entries
    BY <1>2 DEF RetentionInv, TableOf, Entries
  <2>3. /\ lg \in Seq(Entries)
        /\ Len(lg) = Len(log) + 1
        /\ Len(log) \in Nat
        /\ \A i \in 1..Len(log) : lg[i] = log[i]
    BY <2>2
  <2>4. TableOf(lg, tb)
    <3>1. rows \subseteq 1..Len(log)
      BY DEF RetentionInv, TableOf
    <3>2. tb \subseteq 1..Len(lg)
      <4>1. 1..Len(log) \subseteq 1..(Len(log) + 1) /\ Len(log) + 1 \in 1..(Len(log) + 1)
        BY <2>3
      <4> HIDE DEF lg
      <4> QED BY <2>3, <3>1, <4>1
    <3> HIDE DEF lg, tb
    <3> QED BY <2>3, <3>2 DEF TableOf
  <2>5. ASSUME NEW r \in tb, NEW q \in r..Len(lg), lg[q].chat = lg[r].chat
        PROVE  q \in tb
    <3>1. CASE q = Len(log) + 1
      BY <3>1
    <3>2. CASE q # Len(log) + 1
      <4>1. r \in 1..(Len(log) + 1)
        BY <2>3, <2>4 DEF TableOf
      <4>2. q \in 1..Len(log) /\ r \in 1..Len(log) /\ q \in r..Len(log)
        BY <3>2, <4>1, <2>3, <2>5
      <4>3. r \in rows
        BY <4>2, <2>3
      <4>4. log[q].chat = log[r].chat
        BY <4>2, <2>3, <2>5
      <4> QED BY <4>2, <4>3, <4>4 DEF RetentionInv, Gapless
    <3> QED BY <3>1, <3>2
  <2> QED BY <2>1, <2>4, <2>5 DEF Gapless
<1> QED BY <1>1, <1>2

LEMMA RetentionStep == RetentionInv /\ [LogNext]_logVars => RetentionInv'
<1> SUFFICES ASSUME RetentionInv, [LogNext]_logVars
             PROVE  TableOf(log', rows') /\ Gapless(log', rows')
  BY DEF RetentionInv, TableOf, Gapless
<1> USE LogAssumption
<1>1. ASSUME NEW w \in Workers, NEW c \in Chats, NEW m \in Messages \cup {None},
             Log(w, c, m)
      PROVE  TableOf(log', rows') /\ Gapless(log', rows')
  BY <1>1, SaveKeepsGapless DEF Log
<1>2. ASSUME NEW w \in Workers, NEW c \in Chats, NEW m \in Messages \cup {None},
             NEW n \in Limits, BulkDelete(w, c, m, n)
      PROVE  TableOf(log', rows') /\ Gapless(log', rows')
  <2>1. /\ log' = Saved(c, m)
        /\ \/ rows' = WithRow(m)
           \/ \E k \in Keeps : rows' = Trimmed(WithRow(m), log', k)
    BY <1>2 DEF BulkDelete
  <2>2. TableOf(Saved(c, m), WithRow(m)) /\ Gapless(Saved(c, m), WithRow(m))
    BY SaveKeepsGapless
  <2>3. ASSUME NEW k \in Keeps, rows' = Trimmed(WithRow(m), Saved(c, m), k)
        PROVE  TableOf(Saved(c, m), rows') /\ Gapless(Saved(c, m), rows')
    <3>1. k \in Int
      OBVIOUS
    <3> QED BY <2>2, <2>3, <3>1, TrimKeepsGapless
  <2> QED BY <2>1, <2>2, <2>3
<1>3. ASSUME NEW n \in Keeps, Trim(n)
      PROVE  TableOf(log', rows') /\ Gapless(log', rows')
  <2>1. n \in Int
    OBVIOUS
  <2> QED BY <1>3, <2>1, TrimKeepsGapless DEF Trim, RetentionInv
<1>4. ASSUME UNCHANGED <<log, rows>>
      PROVE  TableOf(log', rows') /\ Gapless(log', rows')
  BY <1>4 DEF RetentionInv
<1>5. ASSUME NEW w \in Workers, DeletesOne(w) \/ Report(w)
      PROVE  UNCHANGED <<log, rows>>
  BY <1>5 DEF DeletesOne, DeleteSucceeds, DeleteFails, Report
<1> QED
  BY <1>1, <1>2, <1>3, <1>4, <1>5 DEF LogNext, LogRestart, logVars

\* However logging, bulk deletions, trims by the janitor and the CLI and
\* restarts interleave, a message the table keeps (Repository.save_message,
\* trim_messages_per_chat) is never older than one of its chat that was
\* trimmed.
THEOREM TableKeepsNewest == LogSpec => []NewestKept
<1>1. LogInit => RetentionInv
  BY DEF LogInit, RetentionInv, TableOf, Gapless
<1>2. RetentionInv /\ [LogNext]_logVars => RetentionInv'
  BY RetentionStep
<1>3. RetentionInv => NewestKept
  BY DEF RetentionInv, Gapless, NewestKept
<1> QED BY <1>1, <1>2, <1>3, PTL DEF LogSpec

-----------------------------------------------------------------------------
(* What /del reports *)

\* The rows whose deletion is explained by what the gateway has removed, gn,
\* or by the failures that did not say so, ms.
Explained(messages, gn, ms, done) == {r \in done : messages[r] \in gn \/ r \in ms}

\* The job that selected the rows ch and has the rows td before it, counted d
\* successes and f failures.
Sums(messages, gn, ch, td, d, f, ms) ==
  /\ ch \subseteq 1..Len(messages)
  /\ td \subseteq ch
  /\ d \in Nat
  /\ f \in Nat
  /\ d + f + Cardinality(td) = Cardinality(ch)
  /\ d <= Cardinality(Explained(messages, gn, ms, ch \ td))

ReportInv ==
  /\ RetentionInv
  /\ pc \in [Workers -> {"idle", "deleting"}]
  /\ chosen = [w \in Workers |-> chosen[w]]
  /\ todo = [w \in Workers |-> todo[w]]
  /\ deleted = [w \in Workers |-> deleted[w]]
  /\ failed = [w \in Workers |-> failed[w]]
  /\ misread = [w \in Workers |-> misread[w]]
  /\ \A w \in Workers : pc[w] = "deleting" =>
       Sums(log, gone, chosen[w], todo[w], deleted[w], failed[w], misread[w])

\* The log grows at its end, and what is removed stays removed.
Extends(messages, longer) ==
  /\ messages \in Seq(Entries)
  /\ longer \in Seq(Entries)
  /\ Len(messages) <= Len(longer)
  /\ \A i \in 1..Len(messages) : longer[i] = messages[i]

LEMMA SumsStay ==
  ASSUME NEW messages, NEW longer, NEW gn, NEW gx, NEW ch, NEW td, NEW d, NEW f,
         NEW ms, Extends(messages, longer), gn \subseteq gx,
         Sums(messages, gn, ch, td, d, f, ms)
  PROVE  Sums(longer, gx, ch, td, d, f, ms)
<1> DEFINE before == Explained(messages, gn, ms, ch \ td)
           after  == Explained(longer, gx, ms, ch \ td)
<1>1. Len(messages) \in Nat /\ Len(longer) \in Nat /\ Len(messages) <= Len(longer)
  BY DEF Extends
<1>2. ch \subseteq 1..Len(longer)
  <2>1. 1..Len(messages) \subseteq 1..Len(longer)
    BY <1>1
  <2> QED BY <2>1 DEF Sums
<1>3. before \subseteq after
  BY DEF Sums, Extends, Explained
<1>4. after \subseteq 1..Len(longer)
  BY <1>2 DEF Explained
<1> HIDE DEF before, after
<1>5. Cardinality(before) \in Nat /\ Cardinality(after) \in Nat
      /\ Cardinality(before) <= Cardinality(after)
  <2>1. IsFiniteSet(1..Len(longer))
    BY <1>1, FS_Interval
  <2>2. IsFiniteSet(after)
    BY <1>4, <2>1, FS_Subset
  <2> QED BY <1>3, <2>2, FS_Subset, FS_CardinalityType
<1>6. d \in Nat /\ d <= Cardinality(before)
  BY DEF Sums, before
<1>7. d <= Cardinality(after)
  BY <1>5, <1>6
<1> QED BY <1>2, <1>7 DEF Sums, after

LEMMA SavedExtends ==
  ASSUME RetentionInv, NEW c \in Chats, NEW m \in Messages \cup {None}
  PROVE  Extends(log, Saved(c, m))
<1>1. log \in Seq(Entries)
  BY DEF RetentionInv, TableOf
<1>2. CASE m = None
  BY <1>1, <1>2 DEF Saved, Extends
<1>3. CASE m # None
  <2> DEFINE e == [chat |-> c, id |-> m]
  <2>1. e \in Entries
    BY <1>3 DEF Entries
  <2>2. Saved(c, m) = Append(log, e)
    BY <1>3 DEF Saved
  <2> HIDE DEF e
  <2> QED BY <1>1, <2>1, <2>2 DEF Extends
<1> QED BY <1>2, <1>3

\* One row of those to be done is counted: the message is gone, or it is not
\* and the failure did not say so, or the failure is counted as one.
LEMMA SumsCount ==
  ASSUME NEW gn, NEW gx, NEW ch, NEW td, NEW d, NEW f, NEW ms, NEW d2, NEW f2, NEW mx,
         NEW r \in td,
         log \in Seq(Entries), Sums(log, gn, ch, td, d, f, ms),
         gn \subseteq gx, ms \subseteq mx,
         \/ d2 = d + 1 /\ f2 = f /\ (log[r] \in gx \/ r \in mx)
         \/ d2 = d /\ f2 = f + 1
  PROVE  Sums(log, gx, ch, td \ {r}, d2, f2, mx)
<1> DEFINE before == Explained(log, gn, ms, ch \ td)
           after  == Explained(log, gx, mx, ch \ (td \ {r}))
<1>1. IsFiniteSet(1..Len(log))
  BY FS_Interval
<1>2. IsFiniteSet(ch) /\ IsFiniteSet(td)
  <2>1. IsFiniteSet(ch)
    BY <1>1, FS_Subset DEF Sums
  <2> QED BY <2>1, FS_Subset DEF Sums
<1>3. /\ Cardinality(td) \in Nat
      /\ Cardinality(ch) \in Nat
      /\ Cardinality(td \ {r}) = Cardinality(td) - 1
  BY <1>2, FS_CardinalityType, FS_RemoveElement
<1>4. d \in Nat /\ f \in Nat /\ d + f + Cardinality(td) = Cardinality(ch)
  BY DEF Sums
<1>5. d2 \in Nat /\ f2 \in Nat /\ d2 + f2 + Cardinality(td \ {r}) = Cardinality(ch)
  BY <1>3, <1>4
<1>6. /\ before \subseteq after
      /\ r \notin before
      /\ d2 = d + 1 => r \in after
  <2>1. r \in ch
    BY DEF Sums
  <2>2. d2 = d + 1 => log[r] \in gx \/ r \in mx
    BY <1>4
  <2> QED BY <2>1, <2>2 DEF Explained
<1>7. IsFiniteSet(after)
  <2>1. after \subseteq ch
    BY DEF Explained
  <2> HIDE DEF after
  <2> QED BY <1>2, <2>1, FS_Subset
<1>8. d <= Cardinality(before)
  BY DEF Sums
<1>9. d2 <= Cardinality(after)
  <2> HIDE DEF before, after
  <2>1. IsFiniteSet(before)
    BY <1>6, <1>7, FS_Subset
  <2>2. Cardinality(before) \in Nat /\ Cardinality(after) \in Nat
    BY <1>7, <2>1, FS_CardinalityType
  <2>3. CASE d2 = d
    <3>1. Cardinality(before) <= Cardinality(after)
      BY <1>6, <1>7, FS_Subset
    <3> QED BY <1>4, <1>8, <2>2, <2>3, <3>1
  <2>4. CASE d2 = d + 1
    <3>1. before \cup {r} \subseteq after
      BY <1>6, <2>4
    <3>2. Cardinality(before \cup {r}) = Cardinality(before) + 1
      BY <1>6, <2>1, FS_AddElement
    <3>3. Cardinality(before \cup {r}) <= Cardinality(after)
      BY <1>7, <3>1, FS_Subset
    <3> QED BY <1>4, <1>8, <2>2, <2>4, <3>2, <3>3
  <2> QED BY <2>3, <2>4
<1>10. ch \subseteq 1..Len(log) /\ td \ {r} \subseteq ch
  BY DEF Sums
<1> HIDE DEF before
<1> QED BY <1>5, <1>9, <1>10 DEF Sums

LEMMA ReportStep == ReportInv /\ [LogNext]_logVars => ReportInv'
<1> SUFFICES ASSUME ReportInv, [LogNext]_logVars
             PROVE  ReportInv'
  OBVIOUS
<1> DEFINE Reports ==
      /\ pc' \in [Workers -> {"idle", "deleting"}]
      /\ chosen' = [w \in Workers |-> chosen'[w]]
      /\ todo' = [w \in Workers |-> todo'[w]]
      /\ deleted' = [w \in Workers |-> deleted'[w]]
      /\ failed' = [w \in Workers |-> failed'[w]]
      /\ misread' = [w \in Workers |-> misread'[w]]
      /\ \A w \in Workers : pc'[w] = "deleting" =>
           Sums(log', gone', chosen'[w], todo'[w], deleted'[w], failed'[w], misread'[w])
<1>1. RetentionInv /\ RetentionInv'
  BY RetentionStep DEF ReportInv
<1>2. log \in Seq(Entries) /\ log' \in Seq(Entries)
  BY <1>1 DEF RetentionInv, TableOf
<1>3. ASSUME UNCHANGED <<pc, chosen, todo, deleted, failed, misread, gone>>, Extends(log, log')
      PROVE  Reports
  <2>1. ASSUME NEW w \in Workers, pc[w] = "deleting"
        PROVE  Sums(log', gone, chosen[w], todo[w], deleted[w], failed[w], misread[w])
    BY <1>3, <2>1, SumsStay DEF ReportInv
  <2> QED BY <1>3, <2>1 DEF ReportInv
<1>4. ASSUME NEW v \in Workers, NEW c \in Chats, NEW m \in Messages \cup {None},
             Log(v, c, m)
      PROVE  Reports
  <2>1. log' = Saved(c, m) /\ UNCHANGED <<pc, chosen, todo, deleted, failed, misread, gone>>
    BY <1>4 DEF Log
  <2>2. Extends(log, log')
    BY <1>1, <2>1, SavedExtends
  <2> QED BY <1>3, <2>1, <2>2
<1>5. ASSUME NEW v \in Workers, NEW c \in Chats, NEW m \in Messages \cup {None},
             NEW n \in Limits, BulkDelete(v, c, m, n)
      PROVE  Reports
  <2> DEFINE S == Newest(rows' \cap Of(c, log'), Clamped(n))
  <2>1. /\ log' = Saved(c, m)
        /\ gone' = gone
    BY <1>5 DEF BulkDelete
  <2>2. Extends(log, log')
    BY <1>1, <2>1, SavedExtends
  <2>3. CASE S = {}
    <3>1. UNCHANGED <<pc, chosen, todo, deleted, failed, misread>>
      BY <1>5, <2>3 DEF BulkDelete
    <3> QED BY <1>3, <2>1, <2>2, <3>1
  <2>4. CASE S # {}
    <3>1. /\ pc' = [pc EXCEPT ![v] = "deleting"]
          /\ chosen' = [chosen EXCEPT ![v] = S]
          /\ todo' = [todo EXCEPT ![v] = S]
          /\ deleted' = [deleted EXCEPT ![v] = 0]
          /\ failed' = [failed EXCEPT ![v] = 0]
          /\ misread' = [misread EXCEPT ![v] = {}]
      BY <1>5, <2>4 DEF BulkDelete
    <3>2. S \subseteq 1..Len(log')
      <4>1. S \subseteq rows' \cap Of(c, log')
        BY NewestIsSubset
      <4> HIDE DEF S
      <4> QED BY <1>1, <4>1 DEF RetentionInv, TableOf
    <3>3. Cardinality(S) \in Nat
      <4>1. IsFiniteSet(1..Len(log'))
        BY <1>2, FS_Interval
      <4>2. IsFiniteSet(S)
        <5> HIDE DEF S
        <5> QED BY <3>2, <4>1, FS_Subset
      <4> HIDE DEF S
      <4> QED BY <4>2, FS_CardinalityType
    <3>4. Sums(log', gone', S, S, 0, 0, {})
      <4> HIDE DEF S
      <4>1. Explained(log', gone', {}, S \ S) = {}
        BY DEF Explained
      <4>2. Cardinality(Explained(log', gone', {}, S \ S)) = 0
        BY <4>1, FS_EmptySet
      <4> QED BY <3>2, <3>3, <4>2 DEF Sums
    <3> HIDE DEF S
    <3>5. ASSUME NEW w \in Workers, w # v, pc[w] = "deleting"
          PROVE  Sums(log', gone', chosen[w], todo[w], deleted[w], failed[w], misread[w])
      BY <2>1, <2>2, <3>5, SumsStay DEF ReportInv
    <3>6. /\ pc' \in [Workers -> {"idle", "deleting"}]
          /\ chosen' = [w \in Workers |-> chosen'[w]]
          /\ todo' = [w \in Workers |-> todo'[w]]
          /\ deleted' = [w \in Workers |-> deleted'[w]]
          /\ failed' = [w \in Workers |-> failed'[w]]
      /\ misread' = [w \in Workers |-> misread'[w]]
      BY <3>1 DEF ReportInv
    <3>7. ASSUME NEW w \in Workers, pc'[w] = "deleting"
          PROVE  Sums(log', gone', chosen'[w], todo'[w], deleted'[w], failed'[w], misread'[w])
      <4>1. CASE w = v
        <5>1. /\ chosen'[w] = S /\ todo'[w] = S /\ deleted'[w] = 0
              /\ failed'[w] = 0 /\ misread'[w] = {}
          BY <3>1, <4>1 DEF ReportInv
        <5> QED BY <3>4, <5>1
      <4>2. CASE w # v
        <5>1. /\ pc[w] = "deleting"
              /\ chosen'[w] = chosen[w] /\ todo'[w] = todo[w]
              /\ deleted'[w] = deleted[w] /\ failed'[w] = failed[w]
              /\ misread'[w] = misread[w]
          BY <3>1, <3>7, <4>2 DEF ReportInv
        <5> QED BY <3>5, <4>2, <5>1
      <4> QED BY <4>1, <4>2
    <3> QED BY <3>6, <3>7
  <2> QED BY <2>3, <2>4
<1>6. ASSUME NEW v \in Workers, NEW r \in todo[v],
             DeleteSucceeds(v, r) \/ DeleteFails(v, r)
      PROVE  Reports
  <2>1. /\ UNCHANGED <<log, pc, chosen>>
        /\ pc[v] = "deleting"
        /\ gone \subseteq gone'
        /\ todo' = [todo EXCEPT ![v] = todo[v] \ {r}]
    BY <1>6 DEF DeleteSucceeds, DeleteFails
  <2>2. \/ /\ deleted' = [deleted EXCEPT ![v] = deleted[v] + 1]
           /\ failed' = failed
           /\ \/ log[r] \in gone' /\ misread' = misread
              \/ misread' = [misread EXCEPT ![v] = misread[v] \cup {r}]
        \/ /\ deleted' = deleted
           /\ failed' = [failed EXCEPT ![v] = failed[v] + 1]
           /\ misread' = misread
    BY <1>6 DEF DeleteSucceeds, DeleteFails
  <2>3. /\ chosen'[v] = chosen[v]
        /\ todo'[v] = todo[v] \ {r}
        /\ misread[v] \subseteq misread'[v]
        /\ \/ /\ deleted'[v] = deleted[v] + 1
              /\ failed'[v] = failed[v]
              /\ log[r] \in gone' \/ r \in misread'[v]
           \/ /\ deleted'[v] = deleted[v]
              /\ failed'[v] = failed[v] + 1
    BY <2>1, <2>2 DEF ReportInv
  <2>4. Sums(log, gone, chosen[v], todo[v], deleted[v], failed[v], misread[v])
    BY <2>1 DEF ReportInv
  <2>5. Sums(log, gone', chosen[v], todo[v] \ {r}, deleted'[v], failed'[v], misread'[v])
    BY <1>2, <2>1, <2>3, <2>4, SumsCount
  <2>6. Extends(log, log)
    BY <1>2 DEF Extends
  <2>7. ASSUME NEW w \in Workers, pc'[w] = "deleting"
        PROVE  Sums(log', gone', chosen'[w], todo'[w], deleted'[w], failed'[w], misread'[w])
    <3>1. CASE w = v
      BY <2>1, <2>3, <2>5, <3>1
    <3>2. CASE w # v
      <4>1. /\ pc[w] = "deleting"
            /\ chosen'[w] = chosen[w] /\ todo'[w] = todo[w]
            /\ deleted'[w] = deleted[w] /\ failed'[w] = failed[w]
              /\ misread'[w] = misread[w]
        BY <2>1, <2>2, <2>7, <3>2 DEF ReportInv
      <4>2. Sums(log, gone, chosen[w], todo[w], deleted[w], failed[w], misread[w])
        BY <4>1 DEF ReportInv
      <4>3. Sums(log, gone', chosen[w], todo[w], deleted[w], failed[w], misread[w])
        BY <2>1, <2>6, <4>2, SumsStay
      <4> QED BY <2>1, <4>1, <4>3
    <3> QED BY <3>1, <3>2
  <2>8. /\ pc' \in [Workers -> {"idle", "deleting"}]
        /\ chosen' = [w \in Workers |-> chosen'[w]]
        /\ todo' = [w \in Workers |-> todo'[w]]
        /\ deleted' = [w \in Workers |-> deleted'[w]]
        /\ failed' = [w \in Workers |-> failed'[w]]
      /\ misread' = [w \in Workers |-> misread'[w]]
    BY <2>1, <2>2 DEF ReportInv
  <2> QED BY <2>7, <2>8
<1>7. ASSUME NEW v \in Workers, Report(v)
      PROVE  Reports
  <2>1. /\ UNCHANGED <<log, gone, todo, deleted, failed>>
        /\ misread' = [misread EXCEPT ![v] = {}]
        /\ pc' = [pc EXCEPT ![v] = "idle"]
        /\ chosen' = [chosen EXCEPT ![v] = {}]
    BY <1>7 DEF Report
  <2>2. ASSUME NEW w \in Workers, pc'[w] = "deleting"
        PROVE  pc[w] = "deleting" /\ chosen'[w] = chosen[w] /\ misread'[w] = misread[w]
    BY <2>1, <2>2 DEF ReportInv
  <2> QED BY <2>1, <2>2 DEF ReportInv
<1>8. ASSUME NEW n \in Keeps, Trim(n)
      PROVE  Reports
  <2>1. UNCHANGED <<log, gone, pc, chosen, todo, deleted, failed, misread>>
    BY <1>8 DEF Trim
  <2>2. Extends(log, log')
    BY <1>2, <2>1 DEF Extends
  <2> QED BY <1>3, <2>1, <2>2
<1>9. ASSUME LogRestart
      PROVE  Reports
  <2>1. /\ pc' = [w \in Workers |-> "idle"]
        /\ chosen' = [w \in Workers |-> {}]
        /\ todo' = [w \in Workers |-> {}]
        /\ misread' = [w \in Workers |-> {}]
        /\ UNCHANGED <<log, gone, deleted, failed>>
    BY <1>9 DEF LogRestart
  <2> QED BY <2>1 DEF ReportInv
<1>10. ASSUME UNCHANGED logVars
      PROVE  Reports
  <2>1. UNCHANGED <<log, gone, pc, chosen, todo, deleted, failed, misread>>
    BY <1>10 DEF logVars
  <2>2. Extends(log, log')
    BY <1>2, <2>1 DEF Extends
  <2> QED BY <1>3, <2>1, <2>2
<1>11. Reports
  <2> HIDE DEF Reports
  <2> QED BY <1>4, <1>5, <1>6, <1>7, <1>8, <1>9, <1>10 DEF LogNext, DeletesOne
<1> QED BY <1>1, <1>11 DEF ReportInv

\* The counts that delete_handler sends add up to the rows it selected, and it
\* never counts more deletions than there are messages gone or failures that
\* did not say so, whatever is logged, trimmed, restarted or refused meanwhile.
THEOREM ReportsAreTrue == LogSpec => []ReportTrue
<1>1. LogInit => ReportInv
  BY DEF LogInit, ReportInv, RetentionInv, TableOf, Gapless
<1>2. ReportInv /\ [LogNext]_logVars => ReportInv'
  BY ReportStep
<1>3. ReportInv => ReportTrue
  BY DEF ReportInv, Sums, Explained, ReportTrue
<1> QED BY <1>1, <1>2, <1>3, PTL DEF LogSpec

-----------------------------------------------------------------------------
(* No trim leaves too little *)

\* EnoughKept of a log and a table.
Enough(messages, table) ==
  \A c \in Chats, n \in Least :
    \/ Of(c, messages) \subseteq table
    \/ Cardinality(table \cap Of(c, messages)) >= n

EnoughInv == RetentionInv /\ Enough(log, rows)

\* A set of positions of the log has a last one.
LEMMA LastExists ==
  ASSUME NEW len \in Nat, NEW S \in SUBSET (1..len), S # {}
  PROVE  \E r \in S : \A q \in S : q <= r
<1> DEFINE T == {len - q : q \in S}
<1>1. T \subseteq Nat
  OBVIOUS
<1>2. T # {}
  OBVIOUS
<1> HIDE DEF T
<1>3. PICK t \in T : \A u \in T : <<u, t>> \notin OpToRel(<, Nat)
  BY <1>1, <1>2, WFMin, NatLessThanWellFounded, Zenon
<1>4. \A u \in T : ~(u < t)
  BY <1>1, <1>3, Zenon DEF OpToRel
<1>5. PICK r \in S : t = len - r
  BY DEF T
<1>6. ASSUME NEW q \in S PROVE q <= r
  <2>1. len - q \in T
    BY DEF T
  <2>2. ~(len - q < len - r)
    BY <1>4, <1>5, <2>1
  <2>3. q \in Nat /\ r \in Nat
    OBVIOUS
  <2> QED BY <2>2, <2>3
<1> QED BY <1>6

\* The newest n of S are all of S, or n of them at least: the newest one
\* left out would have fewer than n above it.
LEMMA NewestAreEnough ==
  ASSUME NEW len \in Nat, NEW S \in SUBSET (1..len), NEW n \in Nat
  PROVE  Newest(S, n) = S \/ Cardinality(Newest(S, n)) >= n
<1> DEFINE N == Newest(S, n)
           above(r) == {q \in S : q > r}
<1>1. N \subseteq S /\ \A r \in S : Cardinality(above(r)) < n => r \in N
  BY DEF Newest
<1>2. IsFiniteSet(S)
  <2>1. IsFiniteSet(1..len)
    BY FS_Interval
  <2> QED BY <2>1, FS_Subset
<1> HIDE DEF N
<1>3. IsFiniteSet(N) /\ Cardinality(N) \in Nat
  <2>1. IsFiniteSet(N)
    BY <1>1, <1>2, FS_Subset
  <2> QED BY <2>1, FS_CardinalityType
<1>4. ASSUME N # S PROVE Cardinality(N) >= n
  <2> DEFINE R == S \ N
  <2>1. R # {} /\ R \in SUBSET (1..len)
    BY <1>1, <1>4
  <2> HIDE DEF R
  <2>2. PICK r \in R : \A q \in R : q <= r
    BY <2>1, LastExists
  <2>3. \A q \in above(r) : q \in N
    <3> SUFFICES ASSUME NEW q \in S, q > r PROVE q \in N
      OBVIOUS
    <3>1. q \in 1..len /\ r \in 1..len
      BY <2>1
    <3>2. ~(q <= r)
      BY <3>1
    <3> QED BY <2>2, <3>2 DEF R
  <2>4. r \in S /\ r \notin N
    BY DEF R
  <2> DEFINE A == above(r)
  <2>5. A \in SUBSET N /\ ~(Cardinality(A) < n)
    BY <1>1, <2>3, <2>4
  <2> HIDE DEF A
  <2>6. IsFiniteSet(A) /\ Cardinality(A) <= Cardinality(N)
    BY <1>3, <2>5, FS_Subset
  <2>7. Cardinality(A) \in Nat
    BY <2>6, FS_CardinalityType
  <2> QED BY <1>3, <2>5, <2>6, <2>7
<1> QED BY <1>4 DEF N

LEMMA TrimKeepsEnough ==
  ASSUME NEW messages, NEW table, NEW k \in Keeps,
         TableOf(messages, table), Enough(messages, table)
  PROVE  Enough(messages, Trimmed(table, messages, k))
<1> SUFFICES ASSUME NEW c \in Chats, NEW n \in Least
             PROVE  \/ Of(c, messages) \subseteq Trimmed(table, messages, k)
                    \/ Cardinality(Trimmed(table, messages, k) \cap Of(c, messages)) >= n
  BY DEF Enough
<1> DEFINE S == table \cap Of(c, messages)
           kept == Trimmed(table, messages, k)
<1>1. kept \cap Of(c, messages) = Newest(S, k)
  BY DEF Trimmed, Of, Newest
<1>2. Len(messages) \in Nat /\ S \in SUBSET (1..Len(messages)) /\ k \in Int /\ n \in Int
  <2>1. messages \in Seq(Entries) /\ table \subseteq 1..Len(messages)
    BY DEF TableOf
  <2>2. Len(messages) \in Nat /\ S \subseteq table
    BY <2>1
  <2>3. k \in Int /\ n \in Int
    BY LogAssumption DEF Least
  <2> HIDE DEF S
  <2> QED BY <2>1, <2>2, <2>3
<1>3. Of(c, messages) \subseteq table \/ Cardinality(S) >= n
  BY DEF Enough
<1>4. Newest(S, k) = S \/ Cardinality(Newest(S, k)) >= n
  <2>1. CASE k < 0
    BY <2>1 DEF Newest
  <2>2. CASE ~(k < 0)
    <3>1. k \in Nat /\ n <= k /\ n \in Nat
      BY <1>2, <2>2 DEF Least
    <3> HIDE DEF S
    <3> DEFINE N == Newest(S, k)
    <3>2. N = S \/ Cardinality(N) >= k
      BY <1>2, <3>1, NewestAreEnough
    <3>3. Cardinality(N) \in Nat
      <4>1. IsFiniteSet(1..Len(messages))
        BY <1>2, FS_Interval
      <4>2. N \in SUBSET (1..Len(messages))
        BY <1>2 DEF Newest
      <4> HIDE DEF N
      <4>3. IsFiniteSet(N)
        BY <4>1, <4>2, FS_Subset
      <4> QED BY <4>3, FS_CardinalityType
    <3> HIDE DEF N
    <3>4. N = S \/ Cardinality(N) >= n
      BY <3>1, <3>2, <3>3
    <3> QED BY <3>4 DEF N
  <2> QED BY <2>1, <2>2
<1> HIDE DEF S, kept
<1>5. CASE Newest(S, k) = S
  <2>1. CASE Cardinality(S) >= n
    BY <1>1, <1>5, <2>1 DEF kept
  <2>2. CASE Of(c, messages) \subseteq table
    <3>1. S = Of(c, messages)
      BY <2>2 DEF S
    <3> QED BY <1>1, <1>5, <3>1 DEF kept
  <2> QED BY <1>3, <2>1, <2>2
<1>6. CASE Cardinality(Newest(S, k)) >= n
  BY <1>1, <1>6 DEF kept
<1> QED BY <1>4, <1>5, <1>6

LEMMA SaveKeepsEnough ==
  ASSUME EnoughInv, NEW c \in Chats, NEW m \in Messages \cup {None}
  PROVE  Enough(Saved(c, m), WithRow(m))
<1>1. CASE m = None
  BY <1>1 DEF EnoughInv, Saved, WithRow
<1>2. CASE m # None
  <2> DEFINE lg == Saved(c, m)
             tb == WithRow(m)
  <2>1. TableOf(log, rows) /\ TableOf(lg, tb) /\ Extends(log, lg)
    BY SaveKeepsGapless, SavedExtends DEF EnoughInv, RetentionInv
  <2>2. tb = rows \cup {Len(log) + 1} /\ Len(lg) = Len(log) + 1 /\ Len(log) \in Nat
    BY <1>2, <2>1 DEF Saved, WithRow, TableOf
  <2>3. \A i \in 1..Len(log) : lg[i] = log[i]
    BY <2>1 DEF Extends
  <2>4. rows \subseteq 1..Len(log) /\ tb \subseteq 1..Len(lg)
    BY <2>1 DEF TableOf
  <2> HIDE DEF lg, tb
  <2> SUFFICES ASSUME NEW d \in Chats, NEW n \in Least
               PROVE  Of(d, lg) \subseteq tb \/ Cardinality(tb \cap Of(d, lg)) >= n
    BY DEF Enough, lg, tb
  <2>5. CASE Of(d, log) \subseteq rows
    <3>1. ASSUME NEW r \in Of(d, lg) PROVE r \in tb
      <4>1. r \in 1..(Len(log) + 1) /\ lg[r].chat = d
        BY <2>2 DEF Of
      <4>2. CASE r = Len(log) + 1
        BY <2>2, <4>2
      <4>3. CASE r # Len(log) + 1
        <5>1. r \in 1..Len(log)
          BY <2>2, <4>1, <4>3
        <5> QED BY <2>2, <2>3, <2>5, <4>1, <5>1 DEF Of
      <4> QED BY <4>2, <4>3
    <3> QED BY <3>1
  <2>6. CASE Cardinality(rows \cap Of(d, log)) >= n
    <3> DEFINE A == rows \cap Of(d, log)
               B == tb \cap Of(d, lg)
    <3>1. A \subseteq B
      <4>1. ASSUME NEW r \in A PROVE r \in B
        <5>1. r \in 1..Len(log) /\ r \in tb /\ log[r].chat = d
          BY <2>2, <2>4 DEF Of
        <5>2. r \in 1..Len(lg) /\ lg[r].chat = d
          BY <2>2, <2>3, <5>1
        <5> QED BY <5>1, <5>2 DEF Of
      <4> QED BY <4>1
    <3>2. B \in SUBSET tb
      OBVIOUS
    <3>3. Cardinality(A) >= n
      BY <2>6
    <3>4. n \in Int
      BY LogAssumption DEF Least
    <3> HIDE DEF A, B
    <3>5. IsFiniteSet(B)
      BY <2>1, <3>2, TableFinite DEF lg, tb
    <3>6. IsFiniteSet(A) /\ Cardinality(A) <= Cardinality(B)
      BY <3>1, <3>5, FS_Subset
    <3>7. Cardinality(A) \in Nat /\ Cardinality(B) \in Nat
      BY <3>5, <3>6, FS_CardinalityType
    <3>8. Cardinality(B) >= n
      BY <3>3, <3>4, <3>6, <3>7
    <3> QED BY <3>8 DEF B
  <2>7. Of(d, log) \subseteq rows \/ Cardinality(rows \cap Of(d, log)) >= n
    BY DEF EnoughInv, Enough
  <2> QED BY <2>5, <2>6, <2>7
<1> QED BY <1>1, <1>2

LEMMA EnoughStep == EnoughInv /\ [LogNext]_logVars => EnoughInv'
<1> SUFFICES ASSUME EnoughInv, [LogNext]_logVars PROVE Enough(log', rows') /\ RetentionInv'
  BY DEF EnoughInv, Enough, Least
<1>1. RetentionInv /\ Enough(log, rows) /\ RetentionInv'
  BY RetentionStep DEF EnoughInv
<1>2. ASSUME NEW w \in Workers, NEW c \in Chats, NEW m \in Messages \cup {None},
             Log(w, c, m)
      PROVE  Enough(log', rows')
  BY <1>2, SaveKeepsEnough DEF Log
<1>3. ASSUME NEW w \in Workers, NEW c \in Chats, NEW m \in Messages \cup {None},
             NEW n \in Limits, BulkDelete(w, c, m, n)
      PROVE  Enough(log', rows')
  <2>1. /\ log' = Saved(c, m)
        /\ \/ rows' = WithRow(m)
           \/ \E k \in Keeps : rows' = Trimmed(WithRow(m), log', k)
    BY <1>3 DEF BulkDelete
  <2>2. TableOf(Saved(c, m), WithRow(m)) /\ Enough(Saved(c, m), WithRow(m))
    BY <1>1, SaveKeepsGapless, SaveKeepsEnough
  <2>3. ASSUME NEW k \in Keeps, rows' = Trimmed(WithRow(m), Saved(c, m), k)
        PROVE  Enough(Saved(c, m), rows')
    BY <2>2, <2>3, TrimKeepsEnough
  <2> QED BY <2>1, <2>2, <2>3
<1>4. ASSUME NEW n \in Keeps, Trim(n)
      PROVE  Enough(log', rows')
  BY <1>1, <1>4, TrimKeepsEnough DEF Trim, RetentionInv
<1>5. ASSUME NEW w \in Workers, DeletesOne(w) \/ Report(w)
      PROVE  UNCHANGED <<log, rows>>
  BY <1>5 DEF DeletesOne, DeleteSucceeds, DeleteFails, Report
<1>6. Enough(log', rows')
  BY <1>1, <1>2, <1>3, <1>4, <1>5 DEF LogNext, LogRestart, logVars
<1> QED BY <1>1, <1>6

\* However logging, bulk deletions, restarts and trims with different limits
\* interleave (the janitor's setting, the option of "rubikactl db cleanup"),
\* a chat never keeps fewer messages than the least of the limits, unless it
\* keeps all it ever had; and a negative limit trims nothing.
THEOREM TableKeepsEnough == LogSpec => []EnoughKept
<1>1. LogInit => EnoughInv
  <2> SUFFICES ASSUME LogInit PROVE EnoughInv
    OBVIOUS
  <2>1. log = << >> /\ rows = {}
    BY DEF LogInit
  <2>2. \A c \in Chats : Of(c, log) \subseteq rows
    BY <2>1 DEF Of
  <2> QED BY <2>1, <2>2 DEF EnoughInv, Enough, RetentionInv, TableOf, Gapless
<1>2. EnoughInv => EnoughKept
  BY DEF EnoughInv, Enough, EnoughKept
<1> QED BY <1>1, <1>2, EnoughStep, PTL DEF LogSpec
=============================================================================
