----------------------------- MODULE Deployment -----------------------------
(***************************************************************************)
(* The installation of the bot on a host: the process that systemd runs    *)
(* in the install path, from start to shutdown, and the operator commands  *)
(* that replace what is there: install.py, rubikactl and botctl.  The      *)
(* database (data/bot.db) is inside the installation.  A command is a      *)
(* sequence of steps; any of them can fail, and then it ends.  Moving a    *)
(* directory takes along the processes that run in it.                     *)
(***************************************************************************)
EXTENDS Migrations

CONSTANTS
  Service,       \* the process under systemd
  Manual,        \* the one install.py --run starts
  Backup,        \* the install path with suffix .bak
  Rows,          \* snapshots of updates
  MaxCommands,   \* bound: commands of the operator
  MaxFails,      \* bound: steps that fail, crashes and failed starts
  Careful        \* whether the operator looks before beginning, see MayBegin

ASSUME DeploymentAssumption ==
  /\ Places = {Home, Backup} /\ Home # Backup
  /\ Procs = {Service, Manual} /\ Service # Manual
  /\ MaxCommands \in Nat /\ MaxFails \in Nat
  /\ Careful \in BOOLEAN

VARIABLES
  code,          \* what each place holds: nothing, a part or all of the program
  env,           \* whether it has a .venv and a .env
  rows,          \* the table incoming_updates of its database
  todo,          \* the steps left of the operator's command
  written,       \* history: the rows ever committed
  old,           \* those past the retention
  spent,         \* those the operator gave up, see Begins and DropPath
  commands, fails

diskVars == <<objects, versions, rows, code, env>>
opVars == <<todo, spent, commands>>
hostVars == <<migVars, code, env, rows, todo, written, old, spent, commands, fails>>

DeploymentTypeOK ==
  /\ MigTypeOK
  /\ code \in [Places -> {"none", "part", "whole"}]
  /\ env \in [Places -> BOOLEAN]
  /\ rows \in [Places -> SUBSET Rows]
  /\ written \subseteq Rows /\ old \subseteq Rows /\ spent \subseteq Rows
  /\ commands \in Nat /\ fails \in Nat

\* An installation that has not been started yet.
HostInit ==
  /\ MigInit
  /\ code = [l \in Places |-> IF l = Home THEN "whole" ELSE "none"]
  /\ env = [l \in Places |-> l = Home]
  /\ rows = [l \in Places |-> {}]
  /\ todo = << >>
  /\ written = {} /\ old = {} /\ spent = {}
  /\ commands = 0 /\ fails = 0

-----------------------------------------------------------------------------
(* The process *)

Up(p) == proc[p].pc # "down"
Fails == fails < MaxFails /\ fails' = fails + 1
Idle == todo = << >>
Next1 == IF Idle THEN "none" ELSE Head(todo)

\* What systemd needs: the working directory, the interpreter and the
\* EnvironmentFile in it.
Startable == code[Home] = "whole" /\ env[Home]

\* Restart=no.
Supervise_Bug ==
  /\ Startable
  /\ Next1 = "start"
  /\ Begin(Service)
  /\ UNCHANGED <<code, env, rows, todo, written, old, spent, commands, fails>>

\* Restart=always: systemd starts the service whenever it is down, unless a
\* stop job has ended it.
Supervise ==
  /\ Startable
  /\ Next1 # "start"
  /\ Begin(Service)
  /\ UNCHANGED <<code, env, rows, todo, written, old, spent, commands, fails>>

\* startup() up to the workers.
Migrates(p) ==
  /\ EnsureSchema(p)
  /\ UNCHANGED <<code, env, rows, todo, written, old, spent, commands, fails>>

\* The rest of startup(), after which uvicorn binds the port; if it is taken,
\* the process shuts down again.
Starts(p) ==
  /\ proc[p].pc = "ready"
  /\ IF \E q \in Procs : proc[q].pc = "serving"
     THEN Goes(p, "stopping") ELSE Goes(p, "serving")
  /\ UNCHANGED <<diskVars, opVars, written, old, fails>>

\* The process is killed, or its startup raises because the gateway does not
\* take the webhook, which ends it without a shutdown.
Crash(p) ==
  /\ Up(p) /\ Fails
  /\ Dies(p)
  /\ UNCHANGED <<code, env, rows, opVars, written, old>>

\* The shutdown handler: the workers end their jobs, then the janitor and the
\* client are stopped.
Stops(p) ==
  /\ proc[p].pc = "stopping"
  /\ Dies(p)
  /\ UNCHANGED <<code, env, rows, opVars, written, old, fails>>

\* A handler saves the snapshot of its update.  The path of the database is
\* relative: where the directory is gone the connection fails, which the
\* plugin logs and ignores.
Snapshot(p, r) ==
  /\ proc[p].pc \in {"serving", "stopping"}
  /\ proc[p].at # Removed
  /\ r \notin written
  /\ rows' = [rows EXCEPT ![proc[p].at] = @ \cup {r}]
  /\ written' = written \cup {r}
  /\ UNCHANGED <<migVars, code, env, opVars, old, fails>>

\* Time passes for a row.
Ages(r) ==
  /\ r \in written \ old
  /\ old' = old \cup {r}
  /\ UNCHANGED <<migVars, code, env, rows, opVars, written, fails>>

\* The hours of the retention are taken for seconds.
Clean_Bug(p) ==
  /\ proc[p].pc \in {"ready", "serving", "stopping"} /\ proc[p].at # Removed
  /\ rows' = [rows EXCEPT ![proc[p].at] = {}]
  /\ UNCHANGED <<migVars, code, env, opVars, written, old, fails>>

\* The janitor's pass over the snapshots.
Clean(p) ==
  /\ proc[p].pc \in {"ready", "serving", "stopping"} /\ proc[p].at # Removed
  /\ rows' = [rows EXCEPT ![proc[p].at] = @ \ old]
  /\ UNCHANGED <<migVars, code, env, opVars, written, old, fails>>

-----------------------------------------------------------------------------
(* The commands *)

Checks == <<"check">>                   \* pip, pytest, webhook, getMe
Restart == <<"stop", "start">>          \* systemctl restart
Replace == IF code[Home] = "none" THEN << >> ELSE <<"drop backup", "to backup">>

\* install.py in the install path: the .env, systemd, tests, webhook.
Setup == <<"configure">> \o Restart \o Checks

Plan ==
  [deploy   |-> Replace \o <<"copy">> \o Checks \o Restart,     \* botctl
   rollback |-> <<"drop path", "restore">> \o Restart,          \* both tools
   update   |-> <<"drop backup", "copy backup", "pull">> \o Restart,
   setup    |-> Setup,
   install  |-> Replace \o <<"copy">> \o Setup \o <<"run", "wait">>,
   over     |-> <<"drop path", "copy">> \o Setup,               \* action "remove"
   configure |-> <<"configure">>]

\* An operator who is careful goes back to a backup only if it is whole, and
\* does everything else only where the previous command came to its end.
MayBegin(c) ==
  IF c = "rollback" THEN code[Backup] = "whole"
  ELSE c # "over" /\ code[Home] = "whole" /\ \A p \in Procs : proc[p].at # Backup

\* Whoever replaces the backup gives up what only the old one has.
Begins(c) ==
  /\ Idle
  /\ commands < MaxCommands /\ commands' = commands + 1
  /\ c = "rollback" => code[Backup] # "none"
  /\ Careful => MayBegin(c)
  /\ todo' = Plan[c]
  /\ spent' = IF "drop backup" \in {Plan[c][i] : i \in 1..Len(Plan[c])}
              THEN spent \cup (rows[Backup] \ rows[Home]) ELSE spent
  /\ UNCHANGED <<migVars, code, env, rows, written, old, fails>>

Turn(s) == Next1 = s /\ todo' = Tail(todo)
Breaks(s) == Next1 = s /\ todo' = << >> /\ Fails

\* Everything in `from`, and whoever runs in it, is in `to` now; if that is
\* Removed, it is nowhere.
Moved(f, from, to, nothing) ==
  [l \in Places |-> CASE l = to -> f[from] [] l = from -> nothing [] OTHER -> f[l]]

Relocate(from, to) ==
  /\ env' = Moved(env, from, to, FALSE)
  /\ objects' = Moved(objects, from, to, {})
  /\ versions' = Moved(versions, from, to, {})
  /\ rows' = Moved(rows, from, to, {})
  /\ proc' = [p \in Procs |-> IF Up(p) /\ proc[p].at = from
                              THEN [proc[p] EXCEPT !.at = to] ELSE proc[p]]

\* shutil.rmtree.  If it gets no further than a part, that part may or may not
\* be the database.
Removes(s, l) ==
  \/ Turn(s) /\ code' = [code EXCEPT ![l] = "none"] /\ Relocate(l, Removed) /\ UNCHANGED fails
  \/ /\ Breaks(s) /\ code[l] # "none"
     /\ code' = [code EXCEPT ![l] = "part"]
     /\ \/ Relocate(l, Removed)
        \/ UNCHANGED <<env, objects, versions, rows, proc>>

DropBackup ==
  /\ Removes("drop backup", Backup)
  /\ UNCHANGED <<spent, commands, written, old>>

\* A rollback gives up what was written since the backup.
DropPath ==
  /\ Removes("drop path", Home)
  /\ spent' = spent \cup (rows[Home] \ rows[Backup])
  /\ UNCHANGED <<commands, written, old>>

\* The old backup is not removed but the installation, which is copied anew.
ToBackup_Bug ==
  /\ Turn("to backup")
  /\ code' = [code EXCEPT ![Home] = "none"]
  /\ Relocate(Home, Removed)
  /\ UNCHANGED <<spent, commands, written, old, fails>>

\* shutil.move of a directory to a name that is free: one rename.
ToBackup ==
  /\ Turn("to backup")
  /\ code' = Moved(code, Home, Backup, "none")
  /\ Relocate(Home, Backup)
  /\ UNCHANGED <<spent, commands, written, old, fails>>

Restore ==
  /\ Turn("restore")
  /\ code' = Moved(code, Backup, Home, "none")
  /\ Relocate(Backup, Home)
  /\ UNCHANGED <<spent, commands, written, old, fails>>

\* copytree of the source, or git clone: no database, and .venv and .env only
\* if the source happens to have them.
Copy ==
  /\ \/ Turn("copy") /\ code' = [code EXCEPT ![Home] = "whole"] /\ UNCHANGED fails
     \/ Breaks("copy") /\ code' = [code EXCEPT ![Home] = "part"]
  /\ \E has \in BOOLEAN : env' = [env EXCEPT ![Home] = has]
  /\ UNCHANGED <<migVars, rows, spent, commands, written, old>>

\* copytree of the installation.  While the bot runs, rows that were committed
\* a moment ago may be missing from the copy.
CopyBackup ==
  /\ \/ Turn("copy backup") /\ code' = [code EXCEPT ![Backup] = code[Home]] /\ UNCHANGED fails
     \/ Breaks("copy backup") /\ code' = [code EXCEPT ![Backup] = "part"]
  /\ env' = [env EXCEPT ![Backup] = env[Home]]
  /\ objects' = [objects EXCEPT ![Backup] = objects[Home]]
  /\ versions' = [versions EXCEPT ![Backup] = versions[Home]]
  /\ \E copied \in SUBSET rows[Home] :
       /\ (\A p \in Procs : ~Up(p)) => copied = rows[Home]
       /\ rows' = [rows EXCEPT ![Backup] = copied]
  /\ UNCHANGED <<proc, spent, commands, written, old>>

\* git pull --rebase, pip and tests in place; a conflict or a failed package
\* leaves neither the old program nor the new one.
Pull ==
  /\ \/ Turn("pull") /\ UNCHANGED <<code, fails>>
     \/ Breaks("pull") /\ code' \in {code, [code EXCEPT ![Home] = "part"]}
  /\ UNCHANGED <<migVars, env, rows, spent, commands, written, old>>

\* What the service needs besides the program, the .venv and the .env, is made;
\* with --no-env the latter is not, and without --force it is not overwritten.
WriteEnv ==
  /\ \/ Turn("configure") /\ env' \in {env, [env EXCEPT ![Home] = TRUE]} /\ UNCHANGED fails
     \/ Next1 = "configure" /\ env[Home] /\ todo' = << >> /\ UNCHANGED <<env, fails>>
     \/ Breaks("configure") /\ UNCHANGED env
  /\ UNCHANGED <<migVars, code, rows, spent, commands, written, old>>

Check ==
  /\ \/ Turn("check") /\ UNCHANGED fails
     \/ Breaks("check")
  /\ UNCHANGED <<migVars, code, env, rows, spent, commands, written, old>>

\* The installer is not told to install the unit: it goes on without a restart.
NoRestart ==
  /\ Next1 = "stop"
  /\ Len(todo) > Len(Restart)
  /\ todo' = Tail(Tail(todo))
  /\ UNCHANGED <<migVars, code, env, rows, spent, commands, written, old, fails>>

\* systemctl restart, if the operator may: SIGTERM, which ensure_schema delays
\* as it never awaits,
Stop ==
  /\ \/ /\ Turn("stop") /\ UNCHANGED fails
        /\ proc[Service].pc \notin Migrating
        /\ IF Up(Service) THEN Goes(Service, "stopping") ELSE UNCHANGED proc
     \/ Breaks("stop") /\ UNCHANGED proc
  /\ UNCHANGED <<diskVars, spent, commands, written, old>>

\* ... and when the old process has ended, a new one; the job fails if the
\* unit cannot be started.
Start ==
  /\ proc[Service].pc = "down"
  /\ \/ Startable /\ Turn("start") /\ Begin(Service)
     \/ ~Startable /\ Next1 = "start" /\ todo' = << >> /\ UNCHANGED migVars
  /\ UNCHANGED <<code, env, rows, spent, commands, written, old, fails>>

\* The installer's last step is uvicorn in the foreground.
Run ==
  /\ \/ Turn("run") /\ Begin(Manual)
     \/ Next1 = "run" /\ todo' = << >> /\ UNCHANGED migVars
  /\ UNCHANGED <<code, env, rows, spent, commands, written, old, fails>>

\* It ends by itself or with Ctrl-C.
Wait ==
  /\ \/ ~Up(Manual) /\ Turn("wait") /\ UNCHANGED proc
     \/ /\ Next1 = "wait" /\ proc[Manual].pc = "serving"
        /\ Goes(Manual, "stopping") /\ UNCHANGED todo
  /\ UNCHANGED <<diskVars, spent, commands, written, old, fails>>

Command == DropBackup \/ DropPath \/ ToBackup \/ Restore \/ Copy \/ CopyBackup
           \/ Pull \/ WriteEnv \/ Check \/ NoRestart \/ Stop \/ Start \/ Run \/ Wait

Runs(p) == Migrates(p) \/ Starts(p) \/ Stops(p)

HostNext ==
  \/ Supervise
  \/ \E p \in Procs : Runs(p) \/ Crash(p) \/ Clean(p) \/ \E r \in Rows : Snapshot(p, r)
  \/ \E r \in Rows : Ages(r)
  \/ \E c \in DOMAIN Plan : Begins(c)
  \/ Command

HostSpec == HostInit /\ [][HostNext]_hostVars

\* systemd starts the service again, and a process that has begun goes on: its
\* statements and calls end, one way or the other.
HostFairness ==
  /\ WF_hostVars(Supervise)
  /\ \A p \in Procs : WF_hostVars(Runs(p))

HostFairSpec == HostSpec /\ HostFairness

-----------------------------------------------------------------------------
(* Properties *)

\* However the commands of a careful operator end, and wherever they break
\* off, one of the two directories holds an installation that is whole.
IntactSomewhere == Careful => \E l \in Places : code[l] = "whole"

\* A careful operator loses no snapshot that is not past the retention, but
\* those given up on purpose: neither those that the service writes while it is
\* being replaced nor those it writes when that has failed half way.
RowsKept ==
  Careful => written \subseteq old \cup spent \cup rows[Home] \cup rows[Backup]

\* Whatever has crashed or failed to start, the bot serves again, unless the
\* operator is at work or has left nothing that can be started.
ServiceReturns ==
  Idle /\ Startable ~> proc[Service].pc = "serving" \/ ~Idle
=============================================================================
