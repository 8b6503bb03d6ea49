----------------------------- MODULE Migrations -----------------------------
(***************************************************************************)
(* app/db/migrations.py: what every start of the bot does to the database  *)
(* it finds.  Each DDL statement commits by itself (sqlite3 opens a        *)
(* transaction for INSERT and UPDATE only), so a crash or another process  *)
(* can come between any two of them; an INSERT or UPDATE of the version    *)
(* and its commit are one step.  A database is the set of its tables and   *)
(* indexes and the set of the numbers in the rows of schema_version.       *)
(***************************************************************************)
EXTENDS Naturals, Sequences

CONSTANTS
  Places,        \* directories, each with the database in its data/
  Procs,         \* processes that may start the bot
  Home,          \* the directory the bot is started in
  Removed,       \* where a process is whose directory was removed
  Schema,        \* INITIAL_SCHEMA: what its statements create, in order
  Added,         \* MIGRATIONS: what each version added to that
  Latest,        \* SCHEMA_VERSION
  Found          \* the databases the first start may find

Objects == {Schema[i] : i \in 1..Len(Schema)}

\* What a database of version v has: versions only ever added to the schema.
Needs(v) == Objects \ UNION {Added[u] : u \in {w \in 1..Latest : w > v}}

\* A database is new, or was left by this or another version of the bot.
ASSUME MigrationAssumption ==
  /\ Home \in Places /\ Removed \notin Places
  /\ Latest \in Nat \ {0}
  /\ Schema \in Seq(Objects)
  /\ Added \in [1..Latest -> SUBSET Objects]
  /\ Found \subseteq [objects : SUBSET Objects, versions : SUBSET Nat]
  /\ \A d \in Found : \A v \in d.versions : Needs(v) \subseteq d.objects

VARIABLES
  objects,       \* the tables and indexes of each place's database
  versions,      \* the numbers in its table schema_version
  proc           \* for each process what it does, where, how many statements
                 \* of INITIAL_SCHEMA it has run and the version it has read

migVars == <<objects, versions, proc>>

Stopped == [pc |-> "down", at |-> Home, ran |-> 0, seen |-> 0]

MigTypeOK ==
  /\ objects \in [Places -> SUBSET Objects]
  /\ versions \in [Places -> SUBSET Nat]
  /\ proc \in [Procs -> [pc : {"down", "schema", "insert", "migrate", "record",
                               "ready", "serving", "stopping"},
                         at : Places \cup {Removed}, ran : 0..Len(Schema), seen : Nat]]

MigInit ==
  /\ \E d \in Found :
       /\ objects = [l \in Places |-> IF l = Home THEN d.objects ELSE {}]
       /\ versions = [l \in Places |-> IF l = Home THEN d.versions ELSE {}]
  /\ proc = [p \in Procs |-> Stopped]

Goes(p, state) == proc' = [proc EXCEPT ![p].pc = state]

\* ensure_schema is called.
Begin(p) ==
  /\ proc[p].pc = "down"
  /\ proc' = [proc EXCEPT ![p] = [Stopped EXCEPT !.pc = "schema"]]
  /\ UNCHANGED <<objects, versions>>

\* One statement of INITIAL_SCHEMA; all say IF NOT EXISTS.
Create(p) ==
  /\ proc[p].pc = "schema"
  /\ proc[p].ran < Len(Schema)
  /\ objects' = [objects EXCEPT ![proc[p].at] = @ \cup {Schema[proc[p].ran + 1]}]
  /\ proc' = [proc EXCEPT ![p].ran = @ + 1]
  /\ UNCHANGED versions

\* The version is asked for before the schema is complete.
Select_Bug(p) ==
  /\ proc[p].pc = "schema"
  /\ proc[p].ran > 0
  /\ LET recorded == versions[proc[p].at] IN
     \/ recorded = {} /\ Goes(p, "insert")
     \/ \E v \in recorded :
          \/ v >= Latest /\ Goes(p, "ready")
          \/ v < Latest /\ proc' = [proc EXCEPT ![p].pc = "migrate", ![p].seen = v]
  /\ UNCHANGED <<objects, versions>>

\* SELECT version LIMIT 1, which finds no row or any one of them.
Select(p) ==
  /\ proc[p].pc = "schema"
  /\ proc[p].ran = Len(Schema)
  /\ LET recorded == versions[proc[p].at] IN
     \/ recorded = {} /\ Goes(p, "insert")
     \/ \E v \in recorded :
          \/ v >= Latest /\ Goes(p, "ready")
          \/ v < Latest /\ proc' = [proc EXCEPT ![p].pc = "migrate", ![p].seen = v]
  /\ UNCHANGED <<objects, versions>>

\* Another start may have inserted a row since.
Insert(p) ==
  /\ proc[p].pc = "insert"
  /\ versions' = [versions EXCEPT ![proc[p].at] = @ \cup {Latest}]
  /\ Goes(p, "ready")
  /\ UNCHANGED objects

\* The statements of the newer versions.  They are in INITIAL_SCHEMA as well,
\* which has run, so that nothing can be seen between them.
Migrate(p) ==
  /\ proc[p].pc = "migrate"
  /\ objects' = [objects EXCEPT ![proc[p].at] =
                   @ \cup UNION {Added[u] : u \in {w \in 1..Latest : w > proc[p].seen}}]
  /\ Goes(p, "record")
  /\ UNCHANGED versions

\* The version that was read is written back.
Record_Bug(p) ==
  /\ proc[p].pc = "record"
  /\ versions' = [versions EXCEPT ![proc[p].at] = {proc[p].seen : v \in @}]
  /\ Goes(p, "ready")
  /\ UNCHANGED objects

\* UPDATE schema_version, every row of it.
Record(p) ==
  /\ proc[p].pc = "record"
  /\ versions' = [versions EXCEPT ![proc[p].at] = {Latest : v \in @}]
  /\ Goes(p, "ready")
  /\ UNCHANGED objects

Migrating == {"schema", "insert", "migrate", "record"}

\* ensure_schema in a directory that is gone: its file has no name any more,
\* and what it does there is lost.
InVain(p) ==
  /\ proc[p].pc \in Migrating
  /\ Goes(p, "ready")
  /\ UNCHANGED <<objects, versions>>

EnsureSchema(p) ==
  IF proc[p].at = Removed THEN InVain(p)
  ELSE Create(p) \/ Select(p) \/ Insert(p) \/ Migrate(p) \/ Record(p)

\* The process dies.  What it had not committed is rolled back.
Dies(p) ==
  /\ proc' = [proc EXCEPT ![p] = Stopped]
  /\ UNCHANGED <<objects, versions>>

-----------------------------------------------------------------------------
(* Properties *)

\* A version that is recorded is true: the database has every table and index
\* of that version, although ensure_schema may be cut short at any statement,
\* two processes may run it at once, and the files may be copied meanwhile.
VersionTruthful ==
  \A l \in Places : \A v \in versions[l] : Needs(v) \subseteq objects[l]

\* The handlers of a process find the tables of its own version, whatever its
\* start found: nothing, an older or a newer database, one whose migration was
\* cut short, or a copy of it taken half way.
ServesWithSchema ==
  \A p \in Procs :
    proc[p].pc \in {"ready", "serving", "stopping"} /\ proc[p].at # Removed =>
      /\ objects[proc[p].at] = Objects
      /\ \E v \in versions[proc[p].at] : v >= Latest
=============================================================================
