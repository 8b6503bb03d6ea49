----------------------------- MODULE HostProofs -----------------------------
(***************************************************************************)
(* Of every host, whatever the schema, the databases found, the rows and   *)
(* the bounds: a recorded version is true, handlers find their tables, and *)
(* a careful operator keeps a whole installation and the snapshots.        *)
(*                                                                         *)
(* The argument: a step of a command happens only right after the step it  *)
(* relies on (Ordered), which has taken whoever ran in the place that it   *)
(* overwrites out of the way (Vacant), and left the rows and the program   *)
(* of that place somewhere else (Spare).                                   *)
(***************************************************************************)
EXTENDS Deployment, SequenceTheorems, TLAPS

Steps == {"check", "stop", "start", "drop backup", "to backup", "copy",
          "drop path", "restore", "copy backup", "pull", "configure", "run", "wait"}

\* What a process has done to the database of the place it is in.
Done(p, ob, ve) ==
  LET l == proc[p].at IN
  /\ proc[p].pc = "schema" => \A i \in 1..proc[p].ran : Schema[i] \in ob[l]
  /\ proc[p].pc \notin {"down", "schema"} => ob[l] = Objects
  /\ proc[p].pc \in {"migrate", "record"} => ve[l] # {}
  /\ proc[p].pc \in {"ready", "serving", "stopping"} => \E v \in ve[l] : v >= Latest

AllDone == \A p \in Procs : proc[p].at # Removed => Done(p, objects, versions)

\* Whether a step b may come right after a step a.
Follows(a, b) ==
  /\ b \notin {"drop backup", "drop path"}
  /\ b \in {"to backup", "copy backup"} => a = "drop backup"
  /\ b = "restore" => a = "drop path"
  /\ b = "pull" => a = "copy backup"
  /\ Careful /\ b = "copy" => a = "to backup"

Precedes(s) == \A i \in 2..Len(s) : Follows(s[i - 1], s[i])

Ordered == todo \in Seq(Steps) /\ Precedes(todo)

Nobody(l) == \A p \in Procs : Up(p) => proc[p].at # l

Vacant ==
  /\ Next1 \in {"to backup", "copy backup"} => Nobody(Backup)
  /\ Next1 = "restore" => code[Home] = "none" /\ Nobody(Home)

Spare ==
  /\ Next1 \in {"drop backup", "to backup", "copy backup"} =>
       /\ code[Home] = "whole"
       /\ Nobody(Backup)
       /\ rows[Backup] \subseteq rows[Home] \cup old \cup spent
  /\ Next1 \in {"drop path", "restore", "pull", "copy"} => code[Backup] = "whole"
  /\ Next1 = "restore" => rows[Home] = {}

HostInv ==
  /\ DeploymentTypeOK
  /\ VersionTruthful
  /\ AllDone
  /\ Ordered
  /\ Vacant
  /\ Careful => Spare
  /\ IntactSomewhere
  /\ RowsKept

-----------------------------------------------------------------------------
(* What the steps of the model do to the state, fact by fact *)

\* The assumptions on the constants, in the form the proofs cite them.
LEMMA Constants ==
  /\ Home \in Places /\ Backup \in Places /\ Home # Backup
  /\ Removed \notin Places /\ Places = {Home, Backup}
  /\ Service \in Procs /\ Manual \in Procs
  /\ Latest \in Nat \ {0}
  /\ Schema \in Seq(Objects) /\ Objects = {Schema[i] : i \in 1..Len(Schema)}
BY MigrationAssumption, DeploymentAssumption DEF Objects

\* A process that goes on stays where it is.
LEMMA GoesFacts ==
  ASSUME MigTypeOK, NEW p \in Procs, NEW s, Goes(p, s)
  PROVE  /\ proc'[p].pc = s
         /\ \A q \in Procs : /\ proc'[q].at = proc[q].at
                             /\ proc'[q].ran = proc[q].ran
                             /\ proc'[q].seen = proc[q].seen
                             /\ q # p => proc'[q] = proc[q]
         /\ s \in {"insert", "migrate", "record", "ready", "serving", "stopping"} =>
              (objects' \in [Places -> SUBSET Objects] /\ versions' \in [Places -> SUBSET Nat]
                 => MigTypeOK')
BY DEF MigTypeOK, Goes

\* Who begins is at home and has run nothing.
LEMMA BeginFacts ==
  ASSUME MigTypeOK, NEW p \in Procs, Begin(p)
  PROVE  /\ proc'[p].pc = "schema" /\ proc'[p].at = Home /\ proc'[p].ran = 0
         /\ \A q \in Procs : q # p => proc'[q] = proc[q]
         /\ MigTypeOK'
<1> DEFINE S == [Stopped EXCEPT !.pc = "schema"]
<1>1. Len(Schema) \in Nat /\ S \in
        [pc : {"down", "schema", "insert", "migrate", "record",
               "ready", "serving", "stopping"},
         at : Places \cup {Removed}, ran : 0..Len(Schema), seen : Nat]
  BY Constants DEF Stopped
<1>2. S.pc = "schema" /\ S.at = Home /\ S.ran = 0
  BY DEF Stopped
<1>3. proc' = [proc EXCEPT ![p] = S] /\ UNCHANGED <<objects, versions>>
  BY DEF Begin
<1> HIDE DEF S
<1> QED
  BY <1>1, <1>2, <1>3 DEF MigTypeOK

\* What ends leaves no trace of itself.
LEMMA DiesFacts ==
  ASSUME MigTypeOK, NEW p \in Procs, Dies(p)
  PROVE  /\ proc'[p].pc = "down" /\ proc'[p].at = Home
         /\ \A q \in Procs : q # p => proc'[q] = proc[q]
         /\ MigTypeOK'
<1>1. Len(Schema) \in Nat /\ Stopped \in
        [pc : {"down", "schema", "insert", "migrate", "record",
               "ready", "serving", "stopping"},
         at : Places \cup {Removed}, ran : 0..Len(Schema), seen : Nat]
  BY Constants DEF Stopped
<1>2. Stopped.pc = "down" /\ Stopped.at = Home
  BY DEF Stopped
<1> QED
  BY <1>1, <1>2 DEF MigTypeOK, Dies

\* Whoever runs in a directory goes where it goes, and nothing else moves.
LEMMA RelocateFacts ==
  ASSUME DeploymentTypeOK, NEW from \in Places, NEW to \in Places \cup {Removed},
         to # from, Relocate(from, to)
  PROVE  /\ \A p \in Procs :
              /\ proc'[p].pc = proc[p].pc /\ proc'[p].ran = proc[p].ran
              /\ IF Up(p) /\ proc[p].at = from THEN proc'[p].at = to
                 ELSE proc'[p] = proc[p]
         /\ objects'[from] = {} /\ versions'[from] = {} /\ rows'[from] = {}
         /\ \A l \in Places : l # from => IF l = to
              THEN /\ objects'[l] = objects[from] /\ versions'[l] = versions[from]
                   /\ rows'[l] = rows[from]
              ELSE /\ objects'[l] = objects[l] /\ versions'[l] = versions[l]
                   /\ rows'[l] = rows[l]
         /\ MigTypeOK'
         /\ env' \in [Places -> BOOLEAN] /\ rows' \in [Places -> SUBSET Rows]
<1> USE DEF DeploymentTypeOK, MigTypeOK, Relocate
<1>1. \A p \in Procs :
        /\ proc'[p].pc = proc[p].pc /\ proc'[p].ran = proc[p].ran
        /\ proc'[p].seen = proc[p].seen
        /\ IF Up(p) /\ proc[p].at = from THEN proc'[p].at = to
           ELSE proc'[p] = proc[p]
  BY Constants
<1>2. proc' \in [Procs -> [pc : {"down", "schema", "insert", "migrate", "record",
                               "ready", "serving", "stopping"},
                         at : Places \cup {Removed}, ran : 0..Len(Schema), seen : Nat]]
  <2>1. \A p \in Procs : [proc[p] EXCEPT !.at = to] \in
          [pc : {"down", "schema", "insert", "migrate", "record",
                 "ready", "serving", "stopping"},
           at : Places \cup {Removed}, ran : 0..Len(Schema), seen : Nat]
    BY Constants
  <2> QED
    BY <2>1
<1>3. \A l \in Places :
        /\ objects'[l] = (IF l = to THEN objects[from] ELSE IF l = from THEN {} ELSE objects[l])
        /\ versions'[l] = (IF l = to THEN versions[from] ELSE IF l = from THEN {} ELSE versions[l])
        /\ rows'[l] = (IF l = to THEN rows[from] ELSE IF l = from THEN {} ELSE rows[l])
        /\ env'[l] = (IF l = to THEN env[from] ELSE IF l = from THEN FALSE ELSE env[l])
  BY DEF Moved
<1>4. objects' \in [Places -> SUBSET Objects] /\ versions' \in [Places -> SUBSET Nat]
  BY <1>3 DEF Moved
<1>5. rows' \in [Places -> SUBSET Rows]
  BY <1>3 DEF Moved
<1>6. env' \in [Places -> BOOLEAN]
  BY <1>3, Zenon DEF Moved
<1> QED
  BY <1>1, <1>2, <1>3, <1>4, <1>5, <1>6, Constants

-----------------------------------------------------------------------------
(* The databases *)

DbOK == MigTypeOK /\ VersionTruthful /\ AllDone

\* What a process has done stays done while its database only grows.
LEMMA StaysDone ==
  ASSUME MigTypeOK, NEW q \in Procs, NEW l \in Places, proc[q].at = l,
         Done(q, objects, versions),
         proc'[q].at = l, proc'[q].pc = proc[q].pc, proc'[q].ran = proc[q].ran,
         objects[l] \subseteq objects'[l], objects'[l] \subseteq Objects,
         versions[l] # {} => versions'[l] # {},
         (\E v \in versions[l] : v >= Latest) => \E v \in versions'[l] : v >= Latest
  PROVE  Done(q, objects, versions)'
<1>1. objects[l] = Objects => objects'[l] = Objects
  OBVIOUS
<1>2. proc[q].pc = "schema" => \A i \in 1..proc[q].ran : Schema[i] \in objects'[l]
  BY DEF Done
<1> QED
  BY <1>1, <1>2 DEF Done

\* A statement of ensure_schema that changes the database of p, and grows it.
LEMMA Grows ==
  ASSUME DbOK, MigTypeOK', NEW p \in Procs, NEW l \in Places, proc[p].at = l,
         \A q \in Procs : proc'[q].at = proc[q].at,
         \A q \in Procs : q # p => proc'[q] = proc[q],
         \A m \in Places : m # l => objects'[m] = objects[m] /\ versions'[m] = versions[m],
         objects[l] \subseteq objects'[l],
         versions[l] # {} => versions'[l] # {},
         (\E v \in versions[l] : v >= Latest) => \E v \in versions'[l] : v >= Latest,
         \A v \in versions'[l] : Needs(v) \subseteq objects'[l],
         Done(p, objects, versions)'
  PROVE  DbOK'
<1>1. VersionTruthful'
  BY DEF VersionTruthful, DbOK
<1>2. ASSUME NEW q \in Procs, proc'[q].at # Removed
      PROVE  Done(q, objects, versions)'
  <2>1. CASE q = p
    BY <2>1
  <2>2. CASE q # p
    <3>1. proc'[q] = proc[q] /\ Done(q, objects, versions)
      BY <1>2, <2>2 DEF DbOK, AllDone
    <3>2. proc[q].at \in Places
      BY <1>2, <3>1 DEF DbOK, MigTypeOK
    <3>3. objects'[proc[q].at] \subseteq Objects
      BY <3>2 DEF MigTypeOK
    <3>4. CASE proc[q].at = l
      BY <3>1, <3>3, <3>4, StaysDone DEF DbOK
    <3>5. CASE proc[q].at # l
      BY <3>1, <3>2, <3>3, <3>5, StaysDone DEF DbOK
    <3> QED
      BY <3>4, <3>5
  <2> QED
    BY <2>1, <2>2
<1> QED
  BY <1>1, <1>2 DEF DbOK, AllDone

\* No version needs more than the schema has.
LEMMA NeedsObjects == \A v : Needs(v) \subseteq Objects
BY DEF Needs

\* Where no database changes, only the process that moves on has to be looked at.
LEMMA OneMoves ==
  ASSUME DbOK, NEW p \in Procs, UNCHANGED <<objects, versions>>, MigTypeOK',
         \A q \in Procs : q # p => proc'[q] = proc[q],
         proc'[p].at # Removed => Done(p, objects, versions)'
  PROVE  DbOK'
<1>1. ASSUME NEW q \in Procs, proc'[q].at # Removed
      PROVE  Done(q, objects, versions)'
  BY <1>1 DEF DbOK, AllDone, Done
<1> QED
  BY <1>1 DEF DbOK, AllDone, VersionTruthful

\* Every step of ensure_schema keeps recorded versions true and leaves
\* everybody where he is.
LEMMA EnsureOK ==
  ASSUME DbOK, NEW p \in Procs, EnsureSchema(p)
  PROVE  DbOK' /\ \A q \in Procs : proc'[q].at = proc[q].at
<1> DEFINE l == proc[p].at
<1>0. MigTypeOK /\ (l # Removed => l \in Places /\ Done(p, objects, versions))
  BY DEF DbOK, AllDone, MigTypeOK
<1>1. CASE l = Removed
  <2>1. Goes(p, "ready") /\ UNCHANGED <<objects, versions>>
    BY <1>1 DEF EnsureSchema, InVain
  <2>2. MigTypeOK' /\ \A q \in Procs : proc'[q].at = proc[q].at /\ (q # p => proc'[q] = proc[q])
    BY <1>0, <2>1, GoesFacts DEF MigTypeOK
  <2> QED
    BY <1>1, <2>1, <2>2, OneMoves
<1>2. CASE l # Removed
  <2> l \in Places /\ Done(p, objects, versions)
    BY <1>0, <1>2
  <2>1. CASE Create(p)
    <3>1. /\ proc[p].pc = "schema" /\ proc[p].ran < Len(Schema)
          /\ objects' = [objects EXCEPT ![l] = @ \cup {Schema[proc[p].ran + 1]}]
          /\ proc' = [proc EXCEPT ![p].ran = @ + 1] /\ versions' = versions
      BY <2>1 DEF Create
    <3>2. proc[p].ran \in Nat /\ Len(Schema) \in Nat /\ proc[p].ran + 1 \in 1..Len(Schema)
      BY <1>0, <3>1, Constants DEF MigTypeOK
    <3>3. Schema[proc[p].ran + 1] \in Objects
      BY <3>2, Constants
    <3>4. proc' \in [Procs -> [pc : {"down", "schema", "insert", "migrate", "record",
                               "ready", "serving", "stopping"},
                         at : Places \cup {Removed}, ran : 0..Len(Schema), seen : Nat]]
      <4>1. proc[p].ran + 1 \in 0..Len(Schema)
        BY <3>2
      <4> DEFINE n == proc[p].ran + 1
      <4>2. proc' = [proc EXCEPT ![p].ran = n] /\ n \in 0..Len(Schema)
        BY <3>1, <4>1
      <4> HIDE DEF n
      <4> QED
        BY <1>0, <4>2 DEF MigTypeOK
    <3>5. MigTypeOK'
      BY <1>0, <3>1, <3>3, <3>4 DEF MigTypeOK
    <3>6. /\ proc'[p].pc = "schema" /\ proc'[p].ran = proc[p].ran + 1
          /\ \A q \in Procs : proc'[q].at = proc[q].at /\ (q # p => proc'[q] = proc[q])
      BY <1>0, <3>1 DEF MigTypeOK
    <3>7. /\ objects'[l] = objects[l] \cup {Schema[proc[p].ran + 1]}
          /\ \A m \in Places : m # l => objects'[m] = objects[m]
      BY <1>0, <3>1 DEF MigTypeOK
    <3>8. \A i \in 1..(proc[p].ran + 1) : Schema[i] \in objects'[l]
      BY <3>1, <3>2, <3>7 DEF Done
    <3>9. Done(p, objects, versions)'
      BY <3>6, <3>8 DEF Done
    <3>10. \A v \in versions'[l] : Needs(v) \subseteq objects'[l]
      BY <3>1, <3>7 DEF DbOK, VersionTruthful
    <3> HIDE DEF l
    <3> QED
      BY <3>1, <3>5, <3>6, <3>7, <3>9, <3>10, Grows DEF l
  <2>2. CASE Select(p)
    <3>1. UNCHANGED <<objects, versions>> /\ proc[p].pc = "schema" /\ proc[p].ran = Len(Schema)
      BY <2>2 DEF Select
    <3>2. objects[l] = Objects
      <4>1. \A i \in 1..Len(Schema) : Schema[i] \in objects[l]
        BY <3>1 DEF Done
      <4>2. objects[l] \subseteq Objects
        BY <1>0 DEF MigTypeOK
      <4>3. Objects \subseteq objects[l]
        BY <4>1 DEF Objects
      <4> QED
        BY <4>2, <4>3
    <3>3. \/ Goes(p, "insert")
          \/ Goes(p, "ready") /\ \E v \in versions[l] : v >= Latest
          \/ \E v \in versions[l] : proc' = [proc EXCEPT ![p].pc = "migrate", ![p].seen = v]
      BY <2>2 DEF Select
    <3>4. CASE Goes(p, "insert") \/ (Goes(p, "ready") /\ \E v \in versions[l] : v >= Latest)
      <4>1. \E s \in {"insert", "ready"} : Goes(p, s) /\ (s = "ready" => \E v \in versions[l] : v >= Latest)
        BY <3>4
      <4>2. PICK s \in {"insert", "ready"} :
              Goes(p, s) /\ (s = "ready" => \E v \in versions[l] : v >= Latest)
        BY <4>1
      <4>3. /\ MigTypeOK' /\ proc'[p].pc = s
            /\ \A q \in Procs : proc'[q].at = proc[q].at /\ (q # p => proc'[q] = proc[q])
        BY <1>0, <3>1, <4>2, GoesFacts DEF MigTypeOK
      <4>4. Done(p, objects, versions)'
        BY <3>1, <3>2, <4>2, <4>3 DEF Done
      <4> QED
        BY <3>1, <4>3, <4>4, OneMoves
    <3>5. CASE \E v \in versions[l] : proc' = [proc EXCEPT ![p].pc = "migrate", ![p].seen = v]
      <4>1. PICK v \in versions[l] : proc' = [proc EXCEPT ![p].pc = "migrate", ![p].seen = v]
        BY <3>5
      <4>2. v \in Nat
        BY <1>0 DEF MigTypeOK
      <4>3. proc' \in [Procs -> [pc : {"down", "schema", "insert", "migrate", "record",
                               "ready", "serving", "stopping"},
                         at : Places \cup {Removed}, ran : 0..Len(Schema), seen : Nat]]
        BY <1>0, <4>1, <4>2 DEF MigTypeOK
      <4>4. MigTypeOK'
        BY <1>0, <3>1, <4>3 DEF MigTypeOK
      <4>5. /\ proc'[p].pc = "migrate"
            /\ \A q \in Procs : proc'[q].at = proc[q].at /\ (q # p => proc'[q] = proc[q])
        BY <1>0, <4>1 DEF MigTypeOK
      <4>6. Done(p, objects, versions)'
        BY <3>1, <3>2, <4>1, <4>5 DEF Done
      <4> QED
        BY <3>1, <4>4, <4>5, <4>6, OneMoves
    <3> QED
      BY <3>3, <3>4, <3>5
  <2>3. CASE Insert(p)
    <3>1. /\ proc[p].pc = "insert" /\ objects' = objects /\ Goes(p, "ready")
          /\ versions' = [versions EXCEPT ![l] = @ \cup {Latest}]
      BY <2>3 DEF Insert
    <3>2. versions' \in [Places -> SUBSET Nat]
      BY <1>0, <3>1, Constants DEF MigTypeOK
    <3>3. /\ MigTypeOK' /\ proc'[p].pc = "ready"
          /\ \A q \in Procs : proc'[q].at = proc[q].at /\ (q # p => proc'[q] = proc[q])
      BY <1>0, <3>1, <3>2, GoesFacts DEF MigTypeOK
    <3>4. /\ versions'[l] = versions[l] \cup {Latest}
          /\ \A m \in Places : m # l => versions'[m] = versions[m]
      BY <1>0, <3>1 DEF MigTypeOK
    <3>5. objects[l] = Objects
      BY <3>1 DEF Done
    <3>6. Done(p, objects, versions)'
      <4>1. Latest \in versions'[l] /\ Latest >= Latest
        BY <3>4, Constants
      <4> QED
        BY <3>1, <3>3, <3>5, <4>1 DEF Done
    <3>7. \A v \in versions'[l] : Needs(v) \subseteq objects'[l]
      BY <3>1, <3>5, NeedsObjects
    <3> HIDE DEF l
    <3> QED
      BY <3>1, <3>3, <3>4, <3>6, <3>7, Grows DEF l
  <2>4. CASE Migrate(p)
    <3> DEFINE new == UNION {Added[u] : u \in {w \in 1..Latest : w > proc[p].seen}}
    <3>1. /\ proc[p].pc = "migrate" /\ versions' = versions /\ Goes(p, "record")
          /\ objects' = [objects EXCEPT ![l] = @ \cup new]
      BY <2>4 DEF Migrate
    <3>2. new \subseteq Objects
      BY MigrationAssumption
    <3> HIDE DEF new
    <3>3. objects[l] = Objects
      BY <3>1 DEF Done
    <3>4. /\ objects'[l] = objects[l] \cup new
          /\ \A m \in Places : m # l => objects'[m] = objects[m]
      BY <1>0, <3>1 DEF MigTypeOK
    <3>5. objects'[l] = Objects /\ objects' \in [Places -> SUBSET Objects]
      BY <1>0, <3>1, <3>2, <3>3, <3>4 DEF MigTypeOK
    <3>6. /\ MigTypeOK' /\ proc'[p].pc = "record"
          /\ \A q \in Procs : proc'[q].at = proc[q].at /\ (q # p => proc'[q] = proc[q])
      BY <1>0, <3>1, <3>5, GoesFacts DEF MigTypeOK
    <3>7. Done(p, objects, versions)'
      BY <3>1, <3>5, <3>6 DEF Done
    <3>8. \A v \in versions'[l] : Needs(v) \subseteq objects'[l]
      BY <3>5, NeedsObjects
    <3> HIDE DEF l
    <3> QED
      BY <3>1, <3>3, <3>4, <3>5, <3>6, <3>7, <3>8, Grows DEF l
  <2>5. CASE Record(p)
    <3>1. /\ proc[p].pc = "record" /\ objects' = objects /\ Goes(p, "ready")
          /\ versions' = [versions EXCEPT ![l] = {Latest : v \in @}]
      BY <2>5 DEF Record
    <3>2. /\ versions'[l] = {Latest : v \in versions[l]}
          /\ \A m \in Places : m # l => versions'[m] = versions[m]
      BY <1>0, <3>1 DEF MigTypeOK
    <3>3. versions' \in [Places -> SUBSET Nat]
      BY <1>0, <3>1, Constants DEF MigTypeOK
    <3>4. /\ MigTypeOK' /\ proc'[p].pc = "ready"
          /\ \A q \in Procs : proc'[q].at = proc[q].at /\ (q # p => proc'[q] = proc[q])
      BY <1>0, <3>1, <3>3, GoesFacts DEF MigTypeOK
    <3>5. objects[l] = Objects /\ versions[l] # {}
      BY <3>1 DEF Done
    <3>6. versions'[l] # {} /\ \E v \in versions'[l] : v >= Latest
      BY <3>2, <3>5, Constants
    <3>7. Done(p, objects, versions)'
      BY <3>1, <3>4, <3>5, <3>6 DEF Done
    <3>8. \A v \in versions'[l] : Needs(v) \subseteq objects'[l]
      BY <3>1, <3>5, NeedsObjects
    <3> HIDE DEF l
    <3> QED
      BY <3>1, <3>2, <3>4, <3>6, <3>7, <3>8, Grows DEF l
  <2> QED
    BY <1>2, <2>1, <2>2, <2>3, <2>4, <2>5 DEF EnsureSchema
<1> QED
  BY <1>1, <1>2

\* ... and so does its beginning,
LEMMA BeginOK ==
  ASSUME DbOK, NEW p \in Procs, Begin(p)
  PROVE  DbOK'
<1>1. UNCHANGED <<objects, versions>> /\ MigTypeOK
  BY DEF Begin, DbOK
<1>2. Done(p, objects, versions)'
  BY <1>1, BeginFacts DEF Done
<1> QED
  BY <1>1, <1>2, BeginFacts, OneMoves

\* ... and the end of a process, whatever it was doing.
LEMMA DiesOK ==
  ASSUME DbOK, NEW p \in Procs, Dies(p)
  PROVE  DbOK'
<1>1. UNCHANGED <<objects, versions>> /\ MigTypeOK
  BY DEF Dies, DbOK
<1>2. Done(p, objects, versions)'
  BY <1>1, DiesFacts DEF Done
<1> QED
  BY <1>1, <1>2, DiesFacts, OneMoves

\* What has started serves, and stops.
LEMMA GoesOn ==
  ASSUME DbOK, NEW p \in Procs, proc[p].pc \in {"ready", "serving", "stopping"},
         NEW s \in {"serving", "stopping"}, Goes(p, s), UNCHANGED <<objects, versions>>
  PROVE  DbOK' /\ \A q \in Procs : proc'[q].at = proc[q].at
<1>1. /\ MigTypeOK' /\ proc'[p].pc = s
      /\ \A q \in Procs : proc'[q].at = proc[q].at /\ (q # p => proc'[q] = proc[q])
  BY GoesFacts DEF DbOK, MigTypeOK
<1>2. proc'[p].at # Removed => Done(p, objects, versions)'
  BY <1>1 DEF DbOK, AllDone, Done
<1> QED
  BY <1>1, <1>2, OneMoves

\* A directory is removed, or moved to where nobody runs.
LEMMA RelocateOK ==
  ASSUME DbOK, DeploymentTypeOK, NEW from \in Places, NEW to \in Places \cup {Removed},
         to # from, Relocate(from, to),
         to \in Places => \A p \in Procs : Up(p) => proc[p].at # to
  PROVE  DbOK'
<1>1. ASSUME NEW l \in Places, NEW v \in versions'[l]
      PROVE  Needs(v) \subseteq objects'[l]
  <2>1. CASE l = from
    BY <1>1, <2>1, RelocateFacts
  <2>2. CASE l # from /\ l = to
    <3>1. v \in versions[from] /\ objects'[l] = objects[from]
      BY <1>1, <2>2, RelocateFacts
    <3> QED
      BY <3>1 DEF DbOK, VersionTruthful
  <2>3. CASE l # from /\ l # to
    <3>1. v \in versions[l] /\ objects'[l] = objects[l]
      BY <1>1, <2>3, RelocateFacts
    <3> QED
      BY <3>1 DEF DbOK, VersionTruthful
  <2> QED
    BY <2>1, <2>2, <2>3
<1>2. ASSUME NEW p \in Procs, proc'[p].at # Removed
      PROVE  Done(p, objects, versions)'
  <2>1. proc'[p].pc = proc[p].pc /\ proc'[p].ran = proc[p].ran
    BY RelocateFacts
  <2>2. CASE proc[p].pc = "down"
    BY <2>1, <2>2 DEF Done
  <2>3. CASE Up(p) /\ proc[p].at = from
    <3>1. to \in Places /\ proc'[p].at = to
      BY <1>2, <2>3, RelocateFacts
    <3>2. objects'[to] = objects[from] /\ versions'[to] = versions[from]
      BY <3>1, RelocateFacts
    <3>3. proc[p].at # Removed /\ Done(p, objects, versions)
      BY <2>3, Constants DEF DbOK, AllDone
    <3> QED
      BY <2>1, <2>3, <3>1, <3>2, <3>3 DEF Done
  <2>4. CASE Up(p) /\ proc[p].at # from
    <3>1. proc'[p] = proc[p] /\ proc[p].at \in Places /\ proc[p].at # to
      BY <1>2, <2>4, RelocateFacts DEF DbOK, MigTypeOK
    <3>2. objects'[proc[p].at] = objects[proc[p].at] /\ versions'[proc[p].at] = versions[proc[p].at]
      BY <2>4, <3>1, RelocateFacts
    <3>3. Done(p, objects, versions)
      BY <1>2, <3>1 DEF DbOK, AllDone
    <3> QED
      BY <3>1, <3>2, <3>3 DEF Done
  <2> QED
    BY <2>2, <2>3, <2>4 DEF Up
<1> QED
  BY <1>1, <1>2, RelocateFacts DEF DbOK, VersionTruthful, AllDone

\* A backup is written where nobody runs.
LEMMA CopyBackupOK ==
  ASSUME DbOK, DeploymentTypeOK, CopyBackup, Nobody(Backup)
  PROVE  DbOK'
<1>1. /\ objects' = [objects EXCEPT ![Backup] = objects[Home]]
      /\ versions' = [versions EXCEPT ![Backup] = versions[Home]]
      /\ proc' = proc
  BY DEF CopyBackup
<1>2. /\ objects'[Backup] = objects[Home] /\ versions'[Backup] = versions[Home]
      /\ objects'[Home] = objects[Home] /\ versions'[Home] = versions[Home]
  BY <1>1, Constants DEF DeploymentTypeOK, MigTypeOK
<1>3. MigTypeOK'
  BY <1>1, Constants DEF DeploymentTypeOK, MigTypeOK
<1>4. VersionTruthful'
  BY <1>2, Constants DEF VersionTruthful, DbOK
<1>5. ASSUME NEW p \in Procs, proc'[p].at # Removed
      PROVE  Done(p, objects, versions)'
  <2>1. proc[p].pc = "down" \/ proc[p].at = Home
    BY <1>1, <1>5, Constants DEF DbOK, MigTypeOK, Nobody, Up
  <2>2. Done(p, objects, versions)
    BY <1>1, <1>5 DEF DbOK, AllDone
  <2> QED
    BY <1>1, <1>2, <2>1, <2>2 DEF Done
<1> QED
  BY <1>3, <1>4, <1>5 DEF DbOK, AllDone

-----------------------------------------------------------------------------
(* The commands *)

Good(s) == s \in Seq(Steps) /\ s # << >> /\ Precedes(s)

\* Two sequences of steps in order are in order one after the other, if the
\* first of the second may follow the last of the first.
LEMMA Joined ==
  ASSUME NEW s, NEW t, Good(s), Good(t), Follows(s[Len(s)], t[1])
  PROVE  /\ Good(s \o t) /\ (s \o t)[1] = s[1]
         /\ (s \o t)[Len(s \o t)] = t[Len(t)]
<1> DEFINE st == s \o t
<1>1. s \in Seq(Steps) /\ t \in Seq(Steps)
  BY DEF Good
<1>2. /\ Len(s) \in Nat \ {0} /\ Len(t) \in Nat \ {0} /\ st \in Seq(Steps)
      /\ Len(st) = Len(s) + Len(t)
      /\ \A i \in 1..Len(s) + Len(t) : st[i] = IF i <= Len(s) THEN s[i] ELSE t[i - Len(s)]
  BY <1>1, ConcatProperties, EmptySeq DEF Good
<1> HIDE DEF st
<1>3. ASSUME NEW i \in 2..Len(st) PROVE Follows(st[i - 1], st[i])
  <2>1. CASE i <= Len(s)
    <3>1. st[i - 1] = s[i - 1] /\ st[i] = s[i] /\ i \in 2..Len(s)
      BY <1>2, <2>1
    <3> QED
      BY <3>1 DEF Good, Precedes
  <2>2. CASE i = Len(s) + 1
    <3>1. st[i - 1] = s[Len(s)] /\ st[i] = t[1]
      BY <1>2, <2>2
    <3> QED
      BY <3>1
  <2>3. CASE i > Len(s) + 1
    <3> DEFINE k == i - Len(s)
    <3>1. k \in 2..Len(t) /\ st[i - 1] = t[k - 1] /\ st[i] = t[k]
      BY <1>2, <2>3
    <3> HIDE DEF k
    <3> QED
      BY <3>1 DEF Good, Precedes
  <2> QED
    BY <1>2, <2>1, <2>2, <2>3
<1>4. st # << >> /\ st[1] = s[1] /\ st[Len(st)] = t[Len(t)]
  BY <1>2
<1> QED
  BY <1>2, <1>3, <1>4 DEF Good, Precedes, st

\* Joined, for ends that are known.
LEMMA Joins ==
  ASSUME NEW s, NEW t, NEW a, NEW b, Good(s), Good(t), s[Len(s)] = a, t[1] = b, Follows(a, b)
  PROVE  /\ Good(s \o t) /\ (s \o t)[1] = s[1]
         /\ (s \o t)[Len(s \o t)] = t[Len(t)]
<1>1. Follows(s[Len(s)], t[1])
  OBVIOUS
<1> QED
  BY <1>1, Joined, Zenon

\* A plan, or a part of one, with its first and its last step.
Part(s, first, last) == Good(s) /\ s[1] = first /\ s[Len(s)] = last

\* The same, for parts of which the first and the last step are known.
LEMMA PartsJoin ==
  ASSUME NEW s, NEW t, NEW a, NEW b, NEW c, NEW d,
         Part(s, a, b), Part(t, c, d), Follows(b, c)
  PROVE  Part(s \o t, a, d)
BY Joins, Zenon DEF Part

\* A single step is in order.
LEMMA One == ASSUME NEW a \in Steps PROVE Part(<<a>>, a, a)
<1>1. <<a>> \in Seq(Steps) /\ <<a>> # << >> /\ Len(<<a>>) = 1 /\ <<a>>[1] = a
  OBVIOUS
<1> QED
  BY <1>1 DEF Part, Good, Precedes

\* Two steps, the second of which may follow the first,
LEMMA Two ==
  ASSUME NEW a \in Steps, NEW b \in Steps, Follows(a, b)
  PROVE  Part(<<a, b>>, a, b)
<1> DEFINE s == <<a, b>>
<1>1. s \in Seq(Steps) /\ s # << >> /\ Len(s) = 2 /\ s[1] = a /\ s[2] = b
  OBVIOUS
<1> HIDE DEF s
<1>2. ASSUME NEW i \in 2..Len(s) PROVE Follows(s[i - 1], s[i])
  <2>1. i = 2 /\ s[i - 1] = a /\ s[i] = b
    BY <1>1
  <2> QED
    BY <2>1
<1> QED
  BY <1>1, <1>2 DEF Part, Good, Precedes, s

\* ... and three of them.
LEMMA Three ==
  ASSUME NEW a \in Steps, NEW b \in Steps, NEW c \in Steps, Follows(a, b), Follows(b, c)
  PROVE  Part(<<a, b, c>>, a, c)
<1> DEFINE s == <<a, b, c>>
<1>1. s \in Seq(Steps) /\ s # << >> /\ Len(s) = 3 /\ s[1] = a /\ s[2] = b /\ s[3] = c
  OBVIOUS
<1> HIDE DEF s
<1>2. ASSUME NEW i \in 2..Len(s) PROVE Follows(s[i - 1], s[i])
  <2>1. (i = 2 /\ s[i - 1] = a /\ s[i] = b) \/ (i = 3 /\ s[i - 1] = b /\ s[i] = c)
    BY <1>1
  <2> QED
    BY <2>1
<1> QED
  BY <1>1, <1>2 DEF Part, Good, Precedes, s

\* The parts the plans are joined from.
LEMMA Parts ==
  /\ Part(<<"drop backup", "to backup">>, "drop backup", "to backup")
  /\ Part(<<"drop backup", "copy backup", "pull">>, "drop backup", "pull")
  /\ Part(<<"drop path", "restore">>, "drop path", "restore")
  /\ ~Careful => Part(<<"drop path", "copy">>, "drop path", "copy")
  /\ Part(<<"copy">>, "copy", "copy")
  /\ Part(Checks, "check", "check")
  /\ Part(Restart, "stop", "start")
  /\ Part(<<"configure">>, "configure", "configure")
  /\ Part(<<"run", "wait">>, "run", "wait")
<1>1. /\ Follows("drop backup", "to backup") /\ Follows("drop backup", "copy backup")
      /\ Follows("copy backup", "pull") /\ Follows("drop path", "restore")
      /\ ~Careful => Follows("drop path", "copy")
      /\ Follows("stop", "start") /\ Follows("run", "wait")
  BY DEF Follows
<1>2. /\ "check" \in Steps /\ "stop" \in Steps /\ "start" \in Steps
      /\ "drop backup" \in Steps /\ "to backup" \in Steps /\ "copy" \in Steps
      /\ "drop path" \in Steps /\ "restore" \in Steps /\ "copy backup" \in Steps
      /\ "pull" \in Steps /\ "configure" \in Steps /\ "run" \in Steps /\ "wait" \in Steps
  BY DEF Steps
<1> QED
  BY <1>1, <1>2, One, Two, Three, Zenon DEF Checks, Restart

\* The plan of a setup, which ends those of the installations, is in order.
LEMMA SetupInOrder == Part(Setup, "configure", "check")
<1>1. Follows("configure", "stop") /\ Follows("start", "check")
  BY DEF Follows
<1>2. Part(<<"configure">> \o Restart, "configure", "start")
  BY <1>1, Parts, PartsJoin, Zenon
<1>3. Part((<<"configure">> \o Restart) \o Checks, "configure", "check")
  BY <1>1, <1>2, Parts, PartsJoin, Zenon
<1> QED
  BY <1>3 DEF Setup

\* A rollback begins with the removal of the installation.
LEMMA PlanOfRollback == Plan["rollback"][1] = "drop path"
<1>1. Follows("restore", "stop")
  BY DEF Follows
<1>2. Part(<<"drop path", "restore">> \o Restart, "drop path", "start")
  BY <1>1, Parts, PartsJoin, Zenon
<1>3. Plan["rollback"] = <<"drop path", "restore">> \o Restart
  BY DEF Plan
<1> QED
  BY <1>2, <1>3, Zenon DEF Part

\* With what an installation begins that may find another in its place.
LEMMA ReplaceInOrder ==
  Part(Replace \o <<"copy">>, IF code[Home] = "none" THEN "copy" ELSE "drop backup", "copy")
<1>1. CASE code[Home] = "none"
  <2>1. <<"copy">> \in Seq(Steps)
    BY DEF Steps
  <2>2. Replace \o <<"copy">> = <<"copy">>
    BY <1>1, <2>1, ConcatEmptySeq DEF Replace
  <2> QED
    BY <1>1, <2>2, Parts
<1>2. CASE code[Home] # "none"
  <2>1. Replace = <<"drop backup", "to backup">>
    BY <1>2 DEF Replace
  <2>2. Follows("to backup", "copy")
    BY DEF Follows
  <2>3. Part(Replace, "drop backup", "to backup")
    BY <2>1, Parts
  <2>4. Part(Replace \o <<"copy">>, "drop backup", "copy")
    BY <2>2, <2>3, Parts, PartsJoin, Zenon
  <2> QED
    BY <1>2, <2>4
<1> QED
  BY <1>1, <1>2

\* The plans are in order, and what they begin with has a reason.
LEMMA PlansInOrder ==
  ASSUME NEW c \in DOMAIN Plan, Careful => c # "over"
  PROVE  /\ Good(Plan[c])
         /\ Plan[c][1] \in {"drop backup", "drop path", "copy", "configure"}
         /\ Plan[c][1] = "copy" => code[Home] = "none"
         /\ Plan[c][1] = "drop path" => c \in {"rollback", "over"}
         /\ Plan[c][1] = "drop backup" => c # "rollback"
<1> DEFINE first == IF code[Home] = "none" THEN "copy" ELSE "drop backup"
           rc == Replace \o <<"copy">>
<1>0. Part(rc, first, "copy")
  BY ReplaceInOrder
<1>1. DOMAIN Plan = {"deploy", "rollback", "update", "setup", "install", "over", "configure"}
  BY DEF Plan
<1>2. /\ Follows("copy", "check") /\ Follows("check", "stop") /\ Follows("restore", "stop")
      /\ Follows("pull", "stop") /\ Follows("copy", "configure") /\ Follows("check", "run")
  BY DEF Follows
<1>3. CASE c = "deploy"
  <2>1. Plan[c] = (rc \o Checks) \o Restart
    BY <1>3 DEF Plan
  <2> HIDE DEF rc, first
  <2>2. Part(rc \o Checks, first, "check")
    BY <1>0, <1>2, Parts, PartsJoin, Zenon
  <2>3. Part((rc \o Checks) \o Restart, first, "start")
    BY <1>2, <2>2, Parts, PartsJoin, Zenon
  <2>4. Good(Plan[c]) /\ Plan[c][1] = first
    BY <2>1, <2>3, Zenon DEF Part
  <2> QED
    BY <1>3, <2>4 DEF first
<1>4. CASE c = "rollback"
  <2>1. Plan[c] = <<"drop path", "restore">> \o Restart
    BY <1>4 DEF Plan
  <2>2. Part(<<"drop path", "restore">> \o Restart, "drop path", "start")
    BY <1>2, Parts, PartsJoin, Zenon
  <2>3. Good(Plan[c]) /\ Plan[c][1] = "drop path"
    BY <2>1, <2>2, Zenon DEF Part
  <2> QED
    BY <1>4, <2>3
<1>5. CASE c = "update"
  <2>1. Plan[c] = <<"drop backup", "copy backup", "pull">> \o Restart
    BY <1>5 DEF Plan
  <2>2. Part(<<"drop backup", "copy backup", "pull">> \o Restart, "drop backup", "start")
    BY <1>2, Parts, PartsJoin, Zenon
  <2>3. Good(Plan[c]) /\ Plan[c][1] = "drop backup"
    BY <2>1, <2>2, Zenon DEF Part
  <2> QED
    BY <1>5, <2>3
<1>6. CASE c = "setup"
  <2>1. Plan[c] = Setup
    BY <1>6 DEF Plan
  <2>2. Good(Plan[c]) /\ Plan[c][1] = "configure"
    BY <2>1, SetupInOrder, Zenon DEF Part
  <2> QED
    BY <1>6, <2>2
<1>7. CASE c = "install"
  <2>1. Plan[c] = (rc \o Setup) \o <<"run", "wait">>
    BY <1>7 DEF Plan
  <2> HIDE DEF rc, first
  <2>2. Part(rc \o Setup, first, "check")
    BY <1>0, <1>2, SetupInOrder, PartsJoin, Zenon
  <2>3. Part((rc \o Setup) \o <<"run", "wait">>, first, "wait")
    BY <1>2, <2>2, Parts, PartsJoin, Zenon
  <2>4. Good(Plan[c]) /\ Plan[c][1] = first
    BY <2>1, <2>3, Zenon DEF Part
  <2> QED
    BY <1>7, <2>4 DEF first
<1>8. CASE c = "over"
  <2>1. Plan[c] = <<"drop path", "copy">> \o Setup
    BY <1>8 DEF Plan
  <2>2. Part(<<"drop path", "copy">>, "drop path", "copy")
    BY <1>8, Parts
  <2>3. Part(<<"drop path", "copy">> \o Setup, "drop path", "check")
    BY <1>2, <2>2, SetupInOrder, PartsJoin, Zenon
  <2>4. Good(Plan[c]) /\ Plan[c][1] = "drop path"
    BY <2>1, <2>3, Zenon DEF Part
  <2> QED
    BY <1>8, <2>4
<1>9. CASE c = "configure"
  <2>1. Plan[c] = <<"configure">>
    BY <1>9 DEF Plan
  <2>2. Good(Plan[c]) /\ Plan[c][1] = "configure"
    BY <2>1, Parts, Zenon DEF Part
  <2> QED
    BY <1>9, <2>2
<1> QED
  BY <1>1, <1>3, <1>4, <1>5, <1>6, <1>7, <1>8, <1>9

-----------------------------------------------------------------------------
(* The invariant, step by step *)

\* The part of the invariant that is about databases alone.
LEMMA InvParts == HostInv => DbOK /\ MigTypeOK /\ DeploymentTypeOK
BY DEF HostInv, DbOK, DeploymentTypeOK

\* What is left of a plan after a step is in order, and its first step may
\* follow the one that was done.
LEMMA TailInOrder ==
  ASSUME NEW s \in Seq(Steps), s # << >>, Precedes(s)
  PROVE  /\ Tail(s) \in Seq(Steps) /\ Precedes(Tail(s))
         /\ Head(s) \in Steps
         /\ Tail(s) # << >> => Head(Tail(s)) \in Steps /\ Follows(Head(s), Head(Tail(s)))
<1> DEFINE t == Tail(s)
<1>1. /\ Len(s) \in Nat \ {0} /\ t \in Seq(Steps) /\ Len(t) = Len(s) - 1
      /\ Head(s) = s[1] /\ s[1] \in Steps /\ \A i \in 1..Len(t) : t[i] = s[i + 1]
  BY EmptySeq, HeadTailProperties, ElementOfSeq
<1> HIDE DEF t
<1>2. ASSUME NEW i \in 2..Len(t) PROVE Follows(t[i - 1], t[i])
  <2>1. i + 1 \in 2..Len(s) /\ t[i - 1] = s[(i + 1) - 1] /\ t[i] = s[i + 1]
    BY <1>1
  <2> QED
    BY <2>1 DEF Precedes
<1>3. ASSUME t # << >> PROVE Head(t) \in Steps /\ Follows(Head(s), Head(t))
  <2>1. Head(t) = t[1] /\ Head(t) \in Steps /\ Len(t) \in Nat \ {0}
    BY <1>1, <1>3, EmptySeq, HeadTailProperties, ElementOfSeq
  <2>2. t[1] = s[2] /\ 2 \in 2..Len(s) /\ s[2 - 1] = s[1]
    BY <1>1, <2>1
  <2>3. Follows(s[2 - 1], s[2])
    BY <2>2 DEF Precedes
  <2> QED
    BY <1>1, <2>1, <2>2, <2>3
<1> QED
  BY <1>1, <1>2, <1>3 DEF Precedes, t

\* A step that succeeds is followed by what may follow it, one that breaks by nothing.
LEMMA AfterTurn ==
  ASSUME Ordered, NEW s \in Steps, Turn(s)
  PROVE  Ordered' /\ Follows(s, Next1') /\ Next1' \in Steps \cup {"none"}
<1>1. todo # << >> /\ Head(todo) = s /\ todo' = Tail(todo)
  BY DEF Turn, Next1, Idle, Steps
<1>2. /\ Tail(todo) \in Seq(Steps) /\ Precedes(Tail(todo))
      /\ Tail(todo) # << >> => Head(Tail(todo)) \in Steps /\ Follows(s, Head(Tail(todo)))
  BY <1>1, TailInOrder DEF Ordered
<1>3. Follows(s, "none")
  BY DEF Follows
<1> QED
  BY <1>1, <1>2, <1>3 DEF Ordered, Next1, Idle

\* After its last step, or one that broke, a command requires nothing.
LEMMA AfterAll == ASSUME todo' = << >> PROVE Ordered' /\ Next1' = "none"
BY DEF Ordered, Precedes, Next1, Idle

\* Without the restart the command goes on with a step that needs no place.
LEMMA AfterNoRestart ==
  ASSUME Ordered, NoRestart
  PROVE  /\ Ordered'
         /\ Next1' \notin {"drop backup", "to backup", "copy backup", "drop path",
                          "restore", "pull"}
         /\ Careful => Next1' # "copy"
<1>1. /\ todo \in Seq(Steps) /\ todo # << >> /\ Head(todo) = "stop" /\ Precedes(todo)
      /\ todo' = Tail(Tail(todo))
  BY DEF NoRestart, Next1, Idle, Ordered
<1>2. /\ Tail(todo) \in Seq(Steps) /\ Precedes(Tail(todo))
      /\ Tail(todo) # << >> => Follows("stop", Head(Tail(todo)))
  BY <1>1, TailInOrder
<1>3. Tail(todo) # << >>
  <2> DEFINE n == Len(todo)
             k == Len(Tail(todo))
  <2>1. n > 2
    BY DEF NoRestart, Restart
  <2>2. k = n - 1 /\ n \in Nat
    BY <1>1, HeadTailProperties, ElementOfSeq
  <2> HIDE DEF n, k
  <2>3. k # 0
    BY <2>1, <2>2
  <2> QED
    BY <1>2, <2>3, EmptySeq DEF k
<1>4. /\ Tail(Tail(todo)) \in Seq(Steps) /\ Precedes(Tail(Tail(todo)))
      /\ Tail(Tail(todo)) # << >> => Follows(Head(Tail(todo)), Head(Tail(Tail(todo))))
  BY <1>2, <1>3, TailInOrder
<1>5. /\ Ordered'
      /\ Next1' = "none" \/ Follows(Head(Tail(todo)), Next1')
  BY <1>1, <1>4 DEF Ordered, Next1, Idle
<1> QED
  BY <1>2, <1>3, <1>5 DEF Follows

\* Where nothing that needs a place comes next, there is little to show.
LEMMA Plain ==
  ASSUME DeploymentTypeOK', DbOK', Ordered', IntactSomewhere', RowsKept',
         Next1' \notin {"drop backup", "to backup", "copy backup", "drop path",
                        "restore", "pull"},
         Careful => Next1' # "copy"
  PROVE  HostInv'
BY DEF HostInv, DbOK, Vacant, Spare

\* Between the steps of commands.
LEMMA Quiet ==
  ASSUME HostInv, DeploymentTypeOK', DbOK', UNCHANGED <<code, todo, spent>>,
         \A p \in Procs : proc'[p].pc # "down" /\ (proc'[p].at = Backup \/ Next1 = "restore")
           => Up(p) /\ proc'[p].at = proc[p].at,
         old \subseteq old',
         \A l \in Places :
           /\ rows[l] \subseteq rows'[l] \cup old'
           /\ (\A p \in Procs : Up(p) => proc[p].at # l) => rows'[l] \subseteq rows[l],
         written' \subseteq written \cup rows'[Home] \cup rows'[Backup]
  PROVE  HostInv'
<1>1. Next1' = Next1 /\ Ordered'
  BY DEF HostInv, Ordered, Next1, Idle
<1>2. Vacant'
  BY <1>1 DEF HostInv, Vacant, Nobody, Up
<1>3. IntactSomewhere'
  BY DEF HostInv, IntactSomewhere
<1>4. RowsKept'
  BY Constants DEF HostInv, RowsKept
<1>5. Careful => Spare'
  <2> SUFFICES ASSUME Careful PROVE Spare'
    OBVIOUS
  <2>1. Spare
    BY DEF HostInv
  <2>2. CASE Next1 \in {"drop backup", "to backup", "copy backup"}
    <3>1. /\ code[Home] = "whole" /\ Nobody(Backup)
          /\ rows[Backup] \subseteq rows[Home] \cup old \cup spent
      BY <2>1, <2>2 DEF Spare
    <3>2. rows'[Backup] \subseteq rows[Backup] /\ Nobody(Backup)'
      BY <3>1, Constants DEF Nobody, Up
    <3>3. rows'[Backup] \subseteq rows'[Home] \cup old' \cup spent'
      BY <3>1, <3>2, Constants
    <3> QED
      BY <1>1, <2>2, <3>1, <3>2, <3>3 DEF Spare
  <2>3. CASE Next1 = "restore"
    <3>1. code[Backup] = "whole" /\ rows[Home] = {}
      BY <2>1, <2>3 DEF Spare
    <3>2. \A p \in Procs : Up(p) => proc[p].at # Home
      BY <2>3 DEF HostInv, Vacant, Nobody
    <3>3. rows'[Home] = {}
      BY <3>1, <3>2, Constants
    <3> QED
      BY <1>1, <2>3, <3>1, <3>3 DEF Spare
  <2>4. CASE Next1 \notin {"drop backup", "to backup", "copy backup", "restore"}
    BY <1>1, <2>1, <2>4 DEF Spare
  <2> QED
    BY <2>2, <2>3, <2>4
<1> QED
  BY <1>1, <1>2, <1>3, <1>4, <1>5 DEF HostInv, DbOK

\* The processes keep the invariant: starts, crashes and shutdowns.
LEMMA ProcsMove ==
  ASSUME HostInv, NEW p \in Procs,
         \/ Supervise \/ Migrates(p) \/ Starts(p) \/ Stops(p) \/ Crash(p)
  PROVE  HostInv'
<1>0. DbOK /\ MigTypeOK /\ DeploymentTypeOK /\ Service \in Procs
  BY InvParts, Constants
<1>1. CASE Supervise
  <2>1. Begin(Service) /\ Startable
        /\ UNCHANGED <<code, env, rows, todo, written, old, spent, commands, fails>>
    BY <1>1 DEF Supervise
  <2>2. DbOK'
    BY <1>0, <2>1, BeginOK
  <2>3. DeploymentTypeOK'
    BY <1>0, <2>1, <2>2 DEF DeploymentTypeOK, DbOK
  <2>4. Next1 # "restore"
    BY <2>1 DEF Startable, HostInv, Vacant
  <2>5. \A q \in Procs : proc'[q].at = Home \/ proc'[q] = proc[q]
    BY <1>0, <2>1, BeginFacts
  <2>6. \A q \in Procs : proc'[q].pc # "down" /\ (proc'[q].at = Backup \/ Next1 = "restore")
          => Up(q) /\ proc'[q].at = proc[q].at
    BY <2>4, <2>5, Constants DEF Up
  <2> QED
    BY <2>1, <2>2, <2>3, <2>6, Constants, Quiet
<1>2. CASE Migrates(p)
  <2>1. EnsureSchema(p)
        /\ UNCHANGED <<code, env, rows, todo, written, old, spent, commands, fails>>
    BY <1>2 DEF Migrates
  <2>2. DbOK' /\ \A q \in Procs : proc'[q].at = proc[q].at
    BY <1>0, <2>1, EnsureOK
  <2>3. DeploymentTypeOK'
    BY <1>0, <2>1, <2>2 DEF DeploymentTypeOK, DbOK
  <2>4. \A q \in Procs : q # p => proc'[q] = proc[q]
    <3>1. (\E s \in {"ready", "insert", "record"} : Goes(p, s)) \/ Create(p) \/ Select(p)
      BY <2>1, Zenon DEF EnsureSchema, InVain, Insert, Migrate, Record
    <3>2. CASE \E s \in {"ready", "insert", "record"} : Goes(p, s)
      BY <1>0, <3>2, GoesFacts
    <3>3. CASE Create(p)
      BY <1>0, <3>3 DEF Create, MigTypeOK
    <3>4. CASE Select(p)
      BY <1>0, <3>4, GoesFacts DEF Select, MigTypeOK
    <3> QED
      BY <3>1, <3>2, <3>3, <3>4
  <2>5. Up(p)
    BY <2>1 DEF EnsureSchema, InVain, Create, Select, Insert, Migrate, Record, Up, Migrating
  <2>6. \A q \in Procs : proc'[q].pc # "down" => Up(q)
    BY <2>4, <2>5 DEF Up
  <2> QED
    BY <2>1, <2>2, <2>3, <2>6, Constants, Quiet
<1>3. CASE Starts(p)
  <2>1. /\ proc[p].pc = "ready"
        /\ Goes(p, "stopping") \/ Goes(p, "serving")
        /\ UNCHANGED <<objects, versions, rows, code, env, todo, spent, commands,
                       written, old, fails>>
    BY <1>3 DEF Starts, diskVars, opVars
  <2>2. DbOK' /\ \A q \in Procs : proc'[q].at = proc[q].at
    BY <1>0, <2>1, GoesOn
  <2>3. DeploymentTypeOK'
    BY <1>0, <2>1, <2>2 DEF DeploymentTypeOK, DbOK
  <2>4. Up(p) /\ \A q \in Procs : q # p => proc'[q] = proc[q]
    BY <1>0, <2>1, GoesFacts DEF Up
  <2>5. \A q \in Procs : proc'[q].pc # "down" => Up(q)
    BY <2>4 DEF Up
  <2> QED
    BY <2>1, <2>2, <2>3, <2>5, Constants, Quiet
<1>4. CASE Stops(p) \/ Crash(p)
  <2>1. Dies(p) /\ UNCHANGED <<code, env, rows, todo, written, old, spent, commands>>
        /\ fails' \in Nat
    BY <1>0, <1>4 DEF Stops, Crash, Fails, DeploymentTypeOK, opVars
  <2>2. DbOK'
    BY <1>0, <2>1, DiesOK
  <2>3. DeploymentTypeOK'
    BY <1>0, <2>1, <2>2 DEF DeploymentTypeOK, DbOK
  <2>4. /\ proc'[p].at = Home /\ proc'[p].pc = "down"
        /\ \A q \in Procs : q # p => proc'[q] = proc[q]
    BY <1>0, <2>1, DiesFacts
  <2>5. \A q \in Procs : proc'[q].pc # "down" => Up(q) /\ proc'[q].at = proc[q].at
    BY <2>4, Constants DEF Up
  <2>6. UNCHANGED <<code, todo, spent>> /\ written' \subseteq written \cup rows'[Home] \cup rows'[Backup]
    BY <2>1
  <2>7. old \subseteq old' /\ \A l \in Places :
           /\ rows[l] \subseteq rows'[l] \cup old'
           /\ (\A q \in Procs : Up(q) => proc[q].at # l) => rows'[l] \subseteq rows[l]
    BY <2>1
  <2> QED
    BY <2>2, <2>3, <2>5, <2>6, <2>7, Quiet
<1> QED
  BY <1>1, <1>2, <1>3, <1>4

\* So do handlers and the janitor, which only touch rows.
LEMMA RowsChange ==
  ASSUME HostInv, NEW p \in Procs,
         Clean(p) \/ \E r \in Rows : Snapshot(p, r) \/ Ages(r)
  PROVE  HostInv'
<1>0. DbOK /\ MigTypeOK /\ DeploymentTypeOK
  BY InvParts
<1>1. UNCHANGED <<objects, versions, proc, code, env, todo, spent, commands, fails>>
  BY DEF Snapshot, Ages, Clean, migVars, opVars
<1>2. DbOK'
  BY <1>0, <1>1 DEF DbOK, MigTypeOK, VersionTruthful, AllDone, Done
<1>3. \A q \in Procs : proc'[q].pc # "down" => Up(q) /\ proc'[q].at = proc[q].at
  BY <1>1 DEF Up
<1>4. ASSUME NEW r \in Rows, Snapshot(p, r) PROVE HostInv'
  <2> DEFINE l == proc[p].at
  <2>1. /\ Up(p) /\ l \in Places /\ old' = old /\ written' = written \cup {r}
        /\ rows' = [rows EXCEPT ![l] = @ \cup {r}]
    BY <1>0, <1>4 DEF Snapshot, Up, MigTypeOK
  <2> HIDE DEF l
  <2>2. rows'[l] = rows[l] \cup {r} /\ \A m \in Places : m # l => rows'[m] = rows[m]
    BY <1>0, <2>1 DEF DeploymentTypeOK
  <2>3. DeploymentTypeOK'
    BY <1>0, <1>1, <1>2, <2>1 DEF DeploymentTypeOK, DbOK
  <2>4. written' \subseteq written \cup rows'[Home] \cup rows'[Backup]
    BY <2>1, <2>2, Constants
  <2>5. \A m \in Places :
          /\ rows[m] \subseteq rows'[m] \cup old'
          /\ (\A q \in Procs : Up(q) => proc[q].at # m) => rows'[m] \subseteq rows[m]
    BY <2>1, <2>2 DEF l
  <2> QED
    BY <1>1, <1>2, <1>3, <2>1, <2>3, <2>4, <2>5, Quiet
<1>5. ASSUME NEW r \in Rows, Ages(r) PROVE HostInv'
  <2>1. r \in written /\ old' = old \cup {r} /\ UNCHANGED <<rows, written>>
    BY <1>5 DEF Ages
  <2>2. DeploymentTypeOK'
    BY <1>0, <1>1, <1>2, <2>1 DEF DeploymentTypeOK, DbOK
  <2> QED
    BY <1>1, <1>2, <1>3, <2>1, <2>2, Quiet
<1>6. CASE Clean(p)
  <2> DEFINE l == proc[p].at
  <2>1. /\ l \in Places /\ UNCHANGED <<old, written>>
        /\ rows' = [rows EXCEPT ![l] = @ \ old]
    BY <1>0, <1>6 DEF Clean, MigTypeOK
  <2> HIDE DEF l
  <2>2. rows'[l] = rows[l] \ old /\ \A m \in Places : m # l => rows'[m] = rows[m]
    BY <1>0, <2>1 DEF DeploymentTypeOK
  <2>3. DeploymentTypeOK'
    BY <1>0, <1>1, <1>2, <2>1 DEF DeploymentTypeOK, DbOK
  <2>4. \A m \in Places : rows[m] \subseteq rows'[m] \cup old' /\ rows'[m] \subseteq rows[m]
    BY <2>1, <2>2
  <2> QED
    BY <1>1, <1>2, <1>3, <2>1, <2>3, <2>4, Quiet
<1> QED
  BY <1>4, <1>5, <1>6

\* A command begins only where a careful operator finds what it relies on.
LEMMA CommandBegins ==
  ASSUME HostInv, NEW c \in DOMAIN Plan, Begins(c)
  PROVE  HostInv'
<1>0. DbOK /\ MigTypeOK /\ DeploymentTypeOK /\ IntactSomewhere /\ RowsKept
  BY InvParts DEF HostInv
<1>1. /\ todo' = Plan[c] /\ (Careful => MayBegin(c)) /\ commands' = commands + 1
      /\ UNCHANGED <<objects, versions, proc, code, env, rows, written, old, fails>>
  BY DEF Begins, migVars
<1> DEFINE first == Plan[c][1]
<1>2. /\ Good(Plan[c]) /\ first \in {"drop backup", "drop path", "copy", "configure"}
      /\ first = "copy" => code[Home] = "none"
      /\ first = "drop path" => c \in {"rollback", "over"}
      /\ first = "drop backup" => c # "rollback"
  BY <1>1, PlansInOrder DEF MayBegin
<1>3. Len(Plan[c]) \in Nat \ {0} /\ Head(Plan[c]) = first
  <2> DEFINE s == Plan[c]
  <2>1. s \in Seq(Steps) /\ s # << >> /\ first = s[1]
    BY <1>2 DEF Good
  <2> HIDE DEF s, first
  <2>2. Len(s) \in Nat \ {0} /\ Head(s) = s[1]
    BY <2>1, EmptySeq, HeadTailProperties
  <2> QED
    BY <2>1, <2>2 DEF s
<1>4. Next1' = first /\ Ordered'
  BY <1>1, <1>2, <1>3 DEF Next1, Idle, Ordered, Good
<1>5. /\ spent' = spent \/ spent' = spent \cup (rows[Backup] \ rows[Home])
      /\ first = "drop backup" => spent' = spent \cup (rows[Backup] \ rows[Home])
  <2>1. first = "drop backup" => "drop backup" \in {Plan[c][i] : i \in 1..Len(Plan[c])}
    <3> DEFINE s == Plan[c]
    <3>1. 1 \in 1..Len(s)
      BY <1>3
    <3> HIDE DEF s
    <3>2. s[1] \in {s[i] : i \in 1..Len(s)}
      BY <3>1
    <3> QED
      BY <3>2 DEF s
  <2>2. spent' = IF "drop backup" \in {Plan[c][i] : i \in 1..Len(Plan[c])}
                 THEN spent \cup (rows[Backup] \ rows[Home]) ELSE spent
    BY DEF Begins
  <2> QED
    BY <2>1, <2>2, Zenon
<1> HIDE DEF first
<1>6. DeploymentTypeOK'
  <2>1. spent' \subseteq Rows
    BY <1>0, <1>5, Constants DEF DeploymentTypeOK
  <2>2. commands' \in Nat
    BY <1>0, <1>1 DEF DeploymentTypeOK
  <2> QED
    BY <1>0, <1>1, <2>1, <2>2 DEF DeploymentTypeOK, MigTypeOK
<1>7. DbOK'
  BY <1>0, <1>1 DEF DbOK, MigTypeOK, VersionTruthful, AllDone, Done
<1>8. IntactSomewhere' /\ RowsKept'
  BY <1>0, <1>1, <1>5 DEF IntactSomewhere, RowsKept
<1>9. Vacant'
  BY <1>2, <1>4 DEF Vacant
<1>10. Careful => Spare'
  <2> SUFFICES ASSUME Careful PROVE Spare'
    OBVIOUS
  <2>1. MayBegin(c)
    BY <1>1
  <2>2. first # "drop path" => code[Home] = "whole" /\ Nobody(Backup)
    <3>1. first # "drop path" => c # "rollback"
      BY <1>2, PlanOfRollback DEF first
    <3> QED
      BY <2>1, <3>1 DEF MayBegin, Nobody
  <2>3. first # "copy"
    BY <1>2, <2>2
  <2>4. first = "drop path" => code[Backup] = "whole"
    BY <1>2, <2>1 DEF MayBegin
  <2>5. first = "drop backup" => rows[Backup] \subseteq rows[Home] \cup old \cup spent'
    BY <1>5
  <2>6. Nobody(Backup)' = Nobody(Backup)
    BY <1>1 DEF Nobody, Up
  <2> QED
    BY <1>1, <1>2, <1>4, <2>2, <2>3, <2>4, <2>5, <2>6 DEF Spare
<1> QED
  BY <1>4, <1>6, <1>7, <1>8, <1>9, <1>10 DEF HostInv, DbOK

\* A removal of place l succeeds, or breaks off with or without the database.
LEMMA RemovesFacts ==
  ASSUME HostInv, NEW s \in Steps, NEW l \in Places, Removes(s, l)
  PROVE  /\ DbOK' /\ Ordered'
         /\ code' \in [Places -> {"none", "part", "whole"}]
         /\ env' \in [Places -> BOOLEAN] /\ rows' \in [Places -> SUBSET Rows]
         /\ fails' \in Nat
         /\ \A m \in Places : m # l => code'[m] = code[m] /\ rows'[m] = rows[m]
         /\ rows'[l] \subseteq rows[l]
         /\ \/ /\ Follows(s, Next1') /\ Next1' \in Steps \cup {"none"}
               /\ code'[l] = "none" /\ rows'[l] = {}
               /\ Nobody(l)'
            \/ Next1' = "none"
<1>0. /\ DbOK /\ MigTypeOK /\ DeploymentTypeOK /\ Ordered /\ l # Removed
      /\ Removed \in Places \cup {Removed}
  BY InvParts, Constants DEF HostInv
<1>1. CASE Turn(s) /\ code' = [code EXCEPT ![l] = "none"] /\ Relocate(l, Removed) /\ UNCHANGED fails
  <2>1. DbOK'
    BY <1>0, <1>1, RelocateOK, Constants
  <2>2. /\ env' \in [Places -> BOOLEAN] /\ rows' \in [Places -> SUBSET Rows]
        /\ rows'[l] = {} /\ \A m \in Places : m # l => rows'[m] = rows[m]
        /\ \A p \in Procs : /\ proc'[p].pc = proc[p].pc
                            /\ IF Up(p) /\ proc[p].at = l THEN proc'[p].at = Removed
                               ELSE proc'[p] = proc[p]
    BY <1>0, <1>1, RelocateFacts, Constants
  <2>3. Ordered' /\ Follows(s, Next1') /\ Next1' \in Steps \cup {"none"}
    BY <1>0, <1>1, AfterTurn
  <2>4. /\ code' \in [Places -> {"none", "part", "whole"}] /\ code'[l] = "none"
        /\ \A m \in Places : m # l => code'[m] = code[m]
    BY <1>0, <1>1 DEF DeploymentTypeOK
  <2>5. fails' \in Nat
    BY <1>0, <1>1 DEF DeploymentTypeOK
  <2>6. Nobody(l)'
    BY <1>0, <2>2 DEF Nobody, Up
  <2> QED
    BY <2>1, <2>2, <2>3, <2>4, <2>5, <2>6
<1>2. CASE /\ Breaks(s) /\ code' = [code EXCEPT ![l] = "part"]
           /\ \/ Relocate(l, Removed)
              \/ UNCHANGED <<env, objects, versions, rows, proc>>
  <2>1. Ordered' /\ Next1' = "none"
    BY <1>2, AfterAll DEF Breaks
  <2>2. /\ code' \in [Places -> {"none", "part", "whole"}] /\ fails' \in Nat
        /\ \A m \in Places : m # l => code'[m] = code[m]
    BY <1>0, <1>2 DEF DeploymentTypeOK, Breaks, Fails
  <2>3. CASE Relocate(l, Removed)
    <3>1. DbOK'
      BY <1>0, <2>3, RelocateOK, Constants
    <3>2. /\ env' \in [Places -> BOOLEAN] /\ rows' \in [Places -> SUBSET Rows]
          /\ rows'[l] = {} /\ \A m \in Places : m # l => rows'[m] = rows[m]
      BY <1>0, <2>3, RelocateFacts, Constants
    <3> QED
      BY <2>1, <2>2, <3>1, <3>2
  <2>4. CASE UNCHANGED <<env, objects, versions, rows, proc>>
    <3>1. DbOK'
      BY <1>0, <2>4 DEF DbOK, MigTypeOK, VersionTruthful, AllDone, Done
    <3>2. env' \in [Places -> BOOLEAN] /\ rows' \in [Places -> SUBSET Rows]
      BY <1>0, <2>4 DEF DeploymentTypeOK
    <3> QED
      BY <2>1, <2>2, <2>4, <3>1, <3>2
  <2> QED
    BY <1>2, <2>3, <2>4
<1> QED
  BY <1>1, <1>2 DEF Removes

\* The old backup goes: the installation is whole and has its rows.
LEMMA BackupDropped == ASSUME HostInv, DropBackup PROVE HostInv'
<1> DEFINE s == "drop backup"
<1>0. /\ DeploymentTypeOK /\ s \in Steps /\ Backup \in Places /\ Home \in Places /\ Home # Backup
      /\ Removes(s, Backup) /\ UNCHANGED <<spent, commands, written, old>>
  BY InvParts, Constants DEF DropBackup, Steps
<1>1. Next1 = s
  BY <1>0 DEF Removes, Turn, Breaks
<1>2. /\ DbOK' /\ Ordered' /\ code'[Home] = code[Home] /\ rows'[Home] = rows[Home]
  BY <1>0, RemovesFacts
<1>3. DeploymentTypeOK'
  BY <1>0, <1>2, RemovesFacts DEF DeploymentTypeOK, DbOK
<1>4. Careful => /\ code[Home] = "whole"
                 /\ rows[Backup] \subseteq rows[Home] \cup old \cup spent
  BY <1>1 DEF HostInv, Spare
<1>5. IntactSomewhere'
  BY <1>0, <1>2, <1>4 DEF IntactSomewhere
<1>6. RowsKept'
  BY <1>0, <1>2, <1>4 DEF HostInv, RowsKept
<1>7. CASE Next1' = "none"
  BY <1>2, <1>3, <1>5, <1>6, <1>7, Plain
<1>8. CASE Next1' # "none"
  <2>1. Follows(s, Next1') /\ rows'[Backup] = {} /\ Nobody(Backup)'
    BY <1>0, <1>8, RemovesFacts
  <2>2. Next1' \notin {"drop backup", "drop path", "restore", "pull"} /\ (Careful => Next1' # "copy")
    BY <2>1 DEF Follows
  <2>3. Vacant'
    BY <2>1, <2>2 DEF Vacant
  <2>4. Careful => Spare'
    BY <1>2, <1>4, <2>1, <2>2 DEF Spare
  <2> QED
    BY <1>2, <1>3, <1>5, <1>6, <2>3, <2>4 DEF HostInv, DbOK
<1> QED
  BY <1>7, <1>8

\* The installation goes: the backup is whole, and the rows are given up.
LEMMA PathDropped == ASSUME HostInv, DropPath PROVE HostInv'
<1> DEFINE s == "drop path"
<1>0. /\ DeploymentTypeOK /\ s \in Steps /\ Backup \in Places /\ Home \in Places /\ Home # Backup
      /\ Removes(s, Home) /\ UNCHANGED <<commands, written, old>>
      /\ spent' = spent \cup (rows[Home] \ rows[Backup])
  BY InvParts, Constants DEF DropPath, Steps
<1>1. Next1 = s
  BY <1>0 DEF Removes, Turn, Breaks
<1>2. DbOK' /\ Ordered' /\ code'[Backup] = code[Backup] /\ rows'[Backup] = rows[Backup]
  BY <1>0, RemovesFacts
<1>3. DeploymentTypeOK'
  <2>1. spent' \subseteq Rows
    BY <1>0 DEF DeploymentTypeOK
  <2> QED
    BY <1>0, <1>2, <2>1, RemovesFacts DEF DeploymentTypeOK, DbOK
<1>4. Careful => code[Backup] = "whole"
  BY <1>1 DEF HostInv, Spare
<1>5. IntactSomewhere'
  BY <1>0, <1>2, <1>4 DEF IntactSomewhere
<1>6. RowsKept'
  BY <1>0, <1>2 DEF HostInv, RowsKept
<1>7. CASE Next1' = "none"
  BY <1>2, <1>3, <1>5, <1>6, <1>7, Plain
<1>8. CASE Next1' # "none"
  <2>1. Follows(s, Next1') /\ code'[Home] = "none" /\ rows'[Home] = {} /\ Nobody(Home)'
    BY <1>0, <1>8, RemovesFacts
  <2>2. Next1' \notin {"drop backup", "drop path", "to backup", "copy backup", "pull"}
    BY <2>1 DEF Follows
  <2>3. Vacant'
    BY <2>1, <2>2 DEF Vacant
  <2>4. Careful => Spare'
    BY <1>2, <1>4, <2>1, <2>2 DEF Spare
  <2> QED
    BY <1>2, <1>3, <1>5, <1>6, <2>3, <2>4 DEF HostInv, DbOK
<1> QED
  BY <1>7, <1>8

\* The two moves of a whole directory.
LEMMA MovesFacts ==
  ASSUME HostInv, NEW s \in Steps, NEW from \in Places, NEW to \in Places, from # to,
         Turn(s), Relocate(from, to), Nobody(to),
         code' = Moved(code, from, to, "none"),
         UNCHANGED <<spent, commands, written, old, fails>>
  PROVE  /\ DbOK' /\ DeploymentTypeOK' /\ Ordered' /\ Follows(s, Next1')
         /\ code'[to] = code[from] /\ code'[from] = "none"
         /\ rows'[to] = rows[from] /\ rows'[from] = {}
<1>0. DbOK /\ MigTypeOK /\ DeploymentTypeOK /\ Ordered /\ to \in Places \cup {Removed}
  BY InvParts DEF HostInv
<1>1. DbOK'
  BY <1>0, RelocateOK DEF Nobody
<1>2. /\ env' \in [Places -> BOOLEAN] /\ rows' \in [Places -> SUBSET Rows]
      /\ rows'[to] = rows[from] /\ rows'[from] = {}
  BY <1>0, RelocateFacts
<1>3. code' \in [Places -> {"none", "part", "whole"}] /\ code'[to] = code[from] /\ code'[from] = "none"
  BY <1>0 DEF Moved, DeploymentTypeOK
<1>4. Ordered' /\ Follows(s, Next1')
  BY <1>0, AfterTurn
<1> QED
  BY <1>0, <1>1, <1>2, <1>3, <1>4 DEF DeploymentTypeOK, DbOK

\* The installation and whoever runs in it are in the backup now.
LEMMA MovedToBackup == ASSUME HostInv, ToBackup PROVE HostInv'
<1> DEFINE s == "to backup"
<1>0. /\ s \in Steps /\ Backup \in Places /\ Home \in Places /\ Home # Backup
      /\ Turn(s) /\ Relocate(Home, Backup) /\ code' = Moved(code, Home, Backup, "none")
      /\ UNCHANGED <<spent, commands, written, old, fails>>
  BY Constants DEF ToBackup, Steps
<1>1. Next1 = s /\ Nobody(Backup)
  BY <1>0 DEF Turn, HostInv, Vacant
<1>2. /\ DbOK' /\ DeploymentTypeOK' /\ Ordered' /\ Follows(s, Next1')
      /\ code'[Backup] = code[Home] /\ rows'[Backup] = rows[Home]
  BY <1>0, <1>1, MovesFacts
<1>3. Careful => code[Home] = "whole" /\ rows[Backup] \subseteq rows[Home] \cup old \cup spent
  BY <1>1 DEF HostInv, Spare
<1>4. IntactSomewhere' /\ RowsKept'
  BY <1>0, <1>2, <1>3 DEF HostInv, IntactSomewhere, RowsKept
<1>5. Next1' \notin {"drop backup", "to backup", "copy backup", "drop path", "restore", "pull"}
  BY <1>2 DEF Follows
<1>6. Vacant'
  BY <1>5 DEF Vacant
<1>7. Careful => Spare'
  BY <1>2, <1>3, <1>5 DEF Spare
<1> QED
  BY <1>2, <1>4, <1>6, <1>7 DEF HostInv, DbOK

\* The backup and whoever runs in it are in the install path now.
LEMMA MovedBack == ASSUME HostInv, Restore PROVE HostInv'
<1> DEFINE s == "restore"
<1>0. /\ s \in Steps /\ Backup \in Places /\ Home \in Places /\ Home # Backup
      /\ Turn(s) /\ Relocate(Backup, Home) /\ code' = Moved(code, Backup, Home, "none")
      /\ UNCHANGED <<spent, commands, written, old, fails>>
  BY Constants DEF Restore, Steps
<1>1. Next1 = s /\ Nobody(Home)
  BY <1>0 DEF Turn, HostInv, Vacant
<1>2. /\ DbOK' /\ DeploymentTypeOK' /\ Ordered' /\ Follows(s, Next1')
      /\ code'[Home] = code[Backup] /\ rows'[Home] = rows[Backup]
  BY <1>0, <1>1, MovesFacts
<1>3. Careful => code[Backup] = "whole" /\ rows[Home] = {}
  BY <1>1 DEF HostInv, Spare
<1>4. IntactSomewhere' /\ RowsKept'
  BY <1>0, <1>2, <1>3 DEF HostInv, IntactSomewhere, RowsKept
<1>5. Next1' \notin {"drop backup", "to backup", "copy backup", "drop path", "restore", "pull"}
      /\ (Careful => Next1' # "copy")
  BY <1>2 DEF Follows
<1> QED
  BY <1>2, <1>4, <1>5, Plain

\* A new program is copied beside the backup, whether it succeeds or not.
LEMMA Copied == ASSUME HostInv, Copy PROVE HostInv'
<1>0. DbOK /\ MigTypeOK /\ DeploymentTypeOK /\ Ordered /\ RowsKept /\ "copy" \in Steps
  BY InvParts DEF HostInv, Steps
<1>1. /\ Next1 = "copy" /\ code'[Backup] = code[Backup]
      /\ code' \in [Places -> {"none", "part", "whole"}] /\ env' \in [Places -> BOOLEAN]
      /\ fails' \in Nat
      /\ UNCHANGED <<objects, versions, proc, rows, spent, commands, written, old>>
  <2>1. Next1 = "copy" /\ fails' \in Nat
    BY <1>0 DEF Copy, Turn, Breaks, Fails, DeploymentTypeOK
  <2>2. code' = [code EXCEPT ![Home] = "whole"] \/ code' = [code EXCEPT ![Home] = "part"]
    BY DEF Copy
  <2>3. code'[Backup] = code[Backup] /\ code' \in [Places -> {"none", "part", "whole"}]
    BY <1>0, <2>2, Constants DEF DeploymentTypeOK
  <2>4. PICK has \in BOOLEAN : env' = [env EXCEPT ![Home] = has]
    BY DEF Copy
  <2>5. env' \in [Places -> BOOLEAN]
    BY <1>0, <2>4, Constants DEF DeploymentTypeOK
  <2> QED
    BY <2>1, <2>3, <2>5 DEF Copy, migVars
<1>2. DbOK'
  BY <1>0, <1>1 DEF DbOK, MigTypeOK, VersionTruthful, AllDone, Done
<1>3. DeploymentTypeOK'
  BY <1>0, <1>1, <1>2 DEF DeploymentTypeOK, DbOK
<1>4. IntactSomewhere' /\ RowsKept'
  BY <1>0, <1>1, Constants DEF HostInv, Spare, IntactSomewhere, RowsKept
<1>5. Ordered' /\ (Next1' = "none" \/ Follows("copy", Next1'))
  BY <1>0, AfterTurn, AfterAll DEF Copy, Breaks
<1>6. /\ Next1' \notin {"drop backup", "to backup", "copy backup", "drop path", "restore", "pull"}
      /\ (Careful => Next1' # "copy")
  BY <1>5 DEF Follows
<1> QED
  BY <1>2, <1>3, <1>4, <1>5, <1>6, Plain

\* The backup is a copy; the installation is as it was.
LEMMA BackupCopied == ASSUME HostInv, CopyBackup PROVE HostInv'
<1> DEFINE s == "copy backup"
<1>0. /\ DbOK /\ MigTypeOK /\ DeploymentTypeOK /\ Ordered /\ s \in Steps
      /\ Home \in Places /\ Backup \in Places /\ Home # Backup
  BY InvParts, Constants DEF HostInv, Steps
<1>1. /\ Next1 = s /\ fails' \in Nat
      /\ \/ Turn(s) /\ code' = [code EXCEPT ![Backup] = code[Home]]
         \/ Breaks(s) /\ code' = [code EXCEPT ![Backup] = "part"]
      /\ env' = [env EXCEPT ![Backup] = env[Home]]
      /\ UNCHANGED <<proc, spent, commands, written, old>>
  <2>1. /\ \/ Turn(s) /\ code' = [code EXCEPT ![Backup] = code[Home]] /\ UNCHANGED fails
           \/ Breaks(s) /\ code' = [code EXCEPT ![Backup] = "part"]
        /\ env' = [env EXCEPT ![Backup] = env[Home]]
        /\ UNCHANGED <<proc, spent, commands, written, old>>
    BY DEF CopyBackup
  <2>2. Next1 = s
    BY <2>1 DEF Turn, Breaks
  <2>3. fails' = fails \/ fails' = fails + 1
    BY <2>1 DEF Breaks, Fails
  <2>4. fails' \in Nat
    <3>1. fails \in Nat
      BY InvParts DEF DeploymentTypeOK
    <3> HIDE DEF s
    <3> QED
      BY <2>3, <3>1
  <2> QED
    BY <2>1, <2>2, <2>4
<1>2. PICK copied \in SUBSET rows[Home] : rows' = [rows EXCEPT ![Backup] = copied]
  BY DEF CopyBackup
<1>3. Nobody(Backup)
  BY <1>1 DEF HostInv, Vacant
<1>4. DbOK'
  BY <1>0, <1>3, CopyBackupOK
<1>5. /\ code'[Home] = code[Home] /\ rows'[Home] = rows[Home]
      /\ rows'[Backup] \subseteq rows[Home]
      /\ code' \in [Places -> {"none", "part", "whole"}]
      /\ rows' \in [Places -> SUBSET Rows]
  BY <1>0, <1>1, <1>2 DEF DeploymentTypeOK
<1>6. env' \in [Places -> BOOLEAN]
  BY <1>0, <1>1 DEF DeploymentTypeOK
<1>7. DeploymentTypeOK'
  BY <1>0, <1>1, <1>4, <1>5, <1>6 DEF DeploymentTypeOK, DbOK
<1>8. Careful => code[Home] = "whole" /\ rows[Backup] \subseteq rows[Home] \cup old \cup spent
  BY <1>1 DEF HostInv, Spare
<1>9. IntactSomewhere' /\ RowsKept'
  BY <1>0, <1>1, <1>5, <1>8 DEF HostInv, IntactSomewhere, RowsKept
<1>10. Ordered' /\ (Next1' = "none" \/ (Follows(s, Next1') /\ code'[Backup] = code[Home]))
  <2>1. CASE Turn(s) /\ code' = [code EXCEPT ![Backup] = code[Home]]
    BY <1>0, <2>1, AfterTurn DEF DeploymentTypeOK
  <2>2. CASE Breaks(s)
    BY <2>2, AfterAll DEF Breaks
  <2> QED
    BY <1>1, <2>1, <2>2
<1>11. Next1' \notin {"drop backup", "to backup", "copy backup", "drop path", "restore"}
       /\ (Careful => Next1' # "copy")
  BY <1>10 DEF Follows
<1>12. Vacant'
  BY <1>11 DEF Vacant
<1>13. Careful => Spare'
  BY <1>8, <1>10, <1>11 DEF Spare
<1> QED
  BY <1>4, <1>7, <1>9, <1>10, <1>12, <1>13 DEF HostInv, DbOK

\* An update in place may break what the backup still has.
LEMMA Pulled == ASSUME HostInv, Pull PROVE HostInv'
<1>0. /\ DbOK /\ MigTypeOK /\ DeploymentTypeOK /\ Ordered /\ RowsKept /\ "pull" \in Steps
      /\ Home \in Places /\ Backup \in Places /\ Home # Backup
  BY InvParts, Constants DEF HostInv, Steps
<1>1. /\ Next1 = "pull" /\ fails' \in Nat
      /\ Turn("pull") \/ Breaks("pull")
      /\ UNCHANGED <<objects, versions, proc, env, rows, spent, commands, written, old>>
  BY <1>0 DEF Pull, Turn, Breaks, Fails, DeploymentTypeOK, migVars
<1>2. code'[Backup] = code[Backup] /\ code' \in [Places -> {"none", "part", "whole"}]
  BY <1>0 DEF Pull, DeploymentTypeOK
<1>3. DbOK'
  BY <1>0, <1>1 DEF DbOK, MigTypeOK, VersionTruthful, AllDone, Done
<1>4. DeploymentTypeOK'
  BY <1>0, <1>1, <1>2, <1>3 DEF DeploymentTypeOK, DbOK
<1>5. IntactSomewhere' /\ RowsKept'
  BY <1>0, <1>1, <1>2 DEF HostInv, Spare, IntactSomewhere, RowsKept
<1>6. Ordered' /\ (Next1' = "none" \/ Follows("pull", Next1'))
  BY <1>0, <1>1, AfterTurn, AfterAll DEF Breaks
<1>7. /\ Next1' \notin {"drop backup", "to backup", "copy backup", "drop path", "restore", "pull"}
      /\ (Careful => Next1' # "copy")
  BY <1>6 DEF Follows
<1> QED
  BY <1>3, <1>4, <1>5, <1>6, <1>7, Plain

\* The steps that leave the directories alone.
LEMMA Others ==
  ASSUME HostInv, WriteEnv \/ Check \/ NoRestart \/ Stop \/ Start \/ Run \/ Wait
  PROVE  HostInv'
<1> DEFINE Mild == {"configure", "check", "stop", "start", "run", "wait"}
<1>0. /\ DbOK /\ MigTypeOK /\ DeploymentTypeOK /\ Ordered /\ Mild \subseteq Steps
      /\ Service \in Procs /\ Manual \in Procs /\ Home \in Places
  BY InvParts, Constants DEF HostInv, Steps
<1>1. /\ \/ \E s \in Mild : Turn(s)
         \/ todo' = << >>
         \/ Next1 = "wait" /\ todo' = todo
         \/ NoRestart
      /\ UNCHANGED <<code, rows, spent, commands, written, old>>
  BY DEF WriteEnv, Check, NoRestart, Stop, Start, Run, Wait, Breaks, diskVars
<1>2. /\ Ordered'
      /\ Next1' \notin {"drop backup", "to backup", "copy backup", "drop path", "restore", "pull"}
      /\ (Careful => Next1' # "copy")
  <2>1. CASE \E s \in Mild : Turn(s)
    <3>1. PICK s \in Mild : Turn(s)
      BY <2>1
    <3>2. Ordered' /\ Follows(s, Next1')
      BY <1>0, <3>1, AfterTurn
    <3> QED
      BY <3>2 DEF Follows
  <2>2. CASE todo' = << >>
    BY <2>2, AfterAll
  <2>3. CASE Next1 = "wait" /\ todo' = todo
    BY <1>0, <2>3 DEF Ordered, Next1, Idle
  <2>4. CASE NoRestart
    BY <1>0, <2>4, AfterNoRestart
  <2> QED
    BY <1>1, <2>1, <2>2, <2>3, <2>4
<1>3. env' \in [Places -> BOOLEAN] /\ fails' \in Nat
  <2>1. UNCHANGED env \/ env' = [env EXCEPT ![Home] = TRUE]
    BY DEF WriteEnv, Check, NoRestart, Stop, Start, Run, Wait, diskVars
  <2>2. fails' = fails \/ fails' = fails + 1
    BY DEF WriteEnv, Check, NoRestart, Stop, Start, Run, Wait, Breaks, Fails, diskVars
  <2>3. fails' \in Nat
    BY <1>0, <2>2 DEF DeploymentTypeOK
  <2>4. env' \in [Places -> BOOLEAN]
    BY <1>0, <2>1 DEF DeploymentTypeOK
  <2> QED
    BY <2>3, <2>4
<1>4. DbOK'
  <2>1. CASE UNCHANGED <<objects, versions, proc>>
    BY <1>0, <2>1 DEF DbOK, MigTypeOK, VersionTruthful, AllDone, Done
  <2>2. CASE Begin(Service) \/ Begin(Manual)
    BY <1>0, <2>2, BeginOK
  <2>3. CASE /\ Stop /\ Up(Service) /\ proc[Service].pc \notin Migrating
             /\ Goes(Service, "stopping")
    <3>1. proc[Service].pc \in {"ready", "serving", "stopping"}
      BY <1>0, <2>3 DEF Up, Migrating, MigTypeOK
    <3>2. UNCHANGED <<objects, versions>>
      BY <2>3 DEF Stop, diskVars
    <3> QED
      BY <1>0, <2>3, <3>1, <3>2, GoesOn
  <2>4. CASE Wait /\ proc[Manual].pc = "serving" /\ Goes(Manual, "stopping")
    BY <1>0, <2>4, GoesOn DEF Wait, diskVars
  <2>5. \/ UNCHANGED <<objects, versions, proc>> \/ Begin(Service) \/ Begin(Manual)
        \/ (Stop /\ Up(Service) /\ proc[Service].pc \notin Migrating /\ Goes(Service, "stopping"))
        \/ (Wait /\ proc[Manual].pc = "serving" /\ Goes(Manual, "stopping"))
    BY DEF WriteEnv, Check, NoRestart, Stop, Start, Run, Wait, diskVars, migVars
  <2> QED
    BY <2>1, <2>2, <2>3, <2>4, <2>5
<1>5. DeploymentTypeOK'
  BY <1>0, <1>1, <1>3, <1>4 DEF DeploymentTypeOK, DbOK
<1>6. IntactSomewhere' /\ RowsKept'
  BY <1>1 DEF HostInv, IntactSomewhere, RowsKept
<1> QED
  BY <1>2, <1>4, <1>5, <1>6, Plain

\* The invariant holds of an installation that has not been started,
LEMMA HostStarts == HostInit => HostInv
<1> SUFFICES ASSUME HostInit PROVE HostInv
  OBVIOUS
<1>1. PICK d \in Found :
        /\ objects = [l \in Places |-> IF l = Home THEN d.objects ELSE {}]
        /\ versions = [l \in Places |-> IF l = Home THEN d.versions ELSE {}]
  BY DEF HostInit, MigInit
<1>2. /\ d.objects \subseteq Objects /\ d.versions \subseteq Nat
      /\ \A v \in d.versions : Needs(v) \subseteq d.objects
  BY MigrationAssumption
<1>3. /\ proc = [p \in Procs |-> Stopped] /\ Stopped.pc = "down"
      /\ Stopped \in [pc : {"down", "schema", "insert", "migrate", "record",
                              "ready", "serving", "stopping"},
                       at : Places \cup {Removed}, ran : 0..Len(Schema), seen : Nat]
  <2>1. Len(Schema) \in Nat
    BY Constants
  <2> QED
    BY <2>1, Constants DEF HostInit, MigInit, Stopped
<1>4. MigTypeOK
  BY <1>1, <1>2, <1>3 DEF MigTypeOK
<1>5. /\ code = [l \in Places |-> IF l = Home THEN "whole" ELSE "none"]
      /\ env = [l \in Places |-> l = Home] /\ rows = [l \in Places |-> {}]
      /\ todo = << >> /\ written = {} /\ old = {} /\ spent = {}
      /\ commands = 0 /\ fails = 0
  BY DEF HostInit
<1>6. DeploymentTypeOK
  BY <1>4, <1>5 DEF DeploymentTypeOK
<1>7. VersionTruthful
  BY <1>1, <1>2 DEF VersionTruthful
<1>8. AllDone
  BY <1>3 DEF AllDone, Done
<1>9. Ordered /\ Next1 = "none"
  BY <1>5 DEF Ordered, Precedes, Next1, Idle
<1>10. Vacant /\ Spare
  BY <1>9 DEF Vacant, Spare
<1>11. IntactSomewhere /\ RowsKept
  BY <1>5, Constants DEF IntactSomewhere, RowsKept
<1> QED
  BY <1>6, <1>7, <1>8, <1>9, <1>10, <1>11 DEF HostInv

\* ... every step preserves it,
LEMMA HostStep == HostInv /\ [HostNext]_hostVars => HostInv'
<1> SUFFICES ASSUME HostInv, [HostNext]_hostVars PROVE HostInv'
  OBVIOUS
<1>1. CASE UNCHANGED hostVars
  BY <1>1 DEF hostVars, migVars, HostInv, DeploymentTypeOK, MigTypeOK, VersionTruthful,
    AllDone, Done, Ordered, Vacant, Spare, Nobody, Up, IntactSomewhere, RowsKept, Next1, Idle
<1>2. CASE Supervise \/ \E p \in Procs : Runs(p) \/ Crash(p)
  BY <1>2, ProcsMove, Constants DEF Runs
<1>3. CASE \/ \E p \in Procs : Clean(p) \/ \E r \in Rows : Snapshot(p, r)
           \/ \E r \in Rows : Ages(r)
  BY <1>3, RowsChange, Constants
<1>4. CASE \E c \in DOMAIN Plan : Begins(c)
  BY <1>4, CommandBegins
<1>5. CASE Command
  BY <1>5, BackupDropped, PathDropped, MovedToBackup, MovedBack, Copied, BackupCopied,
     Pulled, Others DEF Command
<1> QED
  BY <1>1, <1>2, <1>3, <1>4, <1>5 DEF HostNext

\* ... and so it always holds.
LEMMA HostInvariant == HostSpec => []HostInv
BY HostStarts, HostStep, PTL DEF HostSpec

-----------------------------------------------------------------------------
(* Theorems *)

\* Whatever schema, history of versions and found database: a version that is
\* recorded is true, in both directories, through crashes between the
\* statements of ensure_schema, through two starts at once and through every
\* command, however it ends (app/db/migrations.py ensure_schema).
THEOREM RecordedVersionsAreTrue == HostSpec => []VersionTruthful
<1>1. HostInv => VersionTruthful
  BY DEF HostInv
<1> QED
  BY <1>1, HostInvariant, PTL

\* No handler ever runs on a database that lacks a table or an index of the
\* program's version (app/main.py startup).
THEOREM HandlersFindTheirTables == HostSpec => []ServesWithSchema
<1>1. HostInv => ServesWithSchema
  <2> SUFFICES ASSUME HostInv, NEW p \in Procs,
                      proc[p].pc \in {"ready", "serving", "stopping"}, proc[p].at # Removed
               PROVE  /\ objects[proc[p].at] = Objects
                      /\ \E v \in versions[proc[p].at] : v >= Latest
    BY DEF ServesWithSchema
  <2>1. Done(p, objects, versions)
    BY DEF HostInv, AllDone
  <2> QED
    BY <2>1 DEF Done
<1> QED
  BY <1>1, HostInvariant, PTL

\* A careful operator is never without a whole installation, at whatever step
\* whichever command breaks off (botctl deploy, rubikactl update, rollback).
THEOREM InstallationSurvives == HostSpec => []IntactSomewhere
<1>1. HostInv => IntactSomewhere
  BY DEF HostInv
<1> QED
  BY <1>1, HostInvariant, PTL

\* Nor does that operator lose a snapshot that is not past the retention or
\* given up on purpose, any number of commands, crashes and failures later.
THEOREM SnapshotsSurvive == HostSpec => []RowsKept
<1>1. HostInv => RowsKept
  BY DEF HostInv
<1> QED
  BY <1>1, HostInvariant, PTL
=============================================================================
