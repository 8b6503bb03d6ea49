# rubica-bot: a verification project

TLA+ models of the Rubika moderation bot (`src/app`): what happens to an update
from the moment the gateway posts it to the moment the last API call it causes
has returned, and what happens to the installation and its database when the
service is started, replaced and rolled back on its host. The models are checked with TLC on small
instances; all of their safety and action properties are also proved with TLAPS
for every value of the constants.

Contents: [the system](#1-the-system), [the modules](#2-the-modules),
[the runs](#3-the-runs), [the proofs](#4-the-proofs),
[where the code and its promises differ](#5-where-the-code-and-its-promises-differ),
[what is left out](#6-what-is-left-out-and-why), [the plan](#7-plan).

## 1. The system

One process, one asyncio event loop, one SQLite database. The gateway posts an
update to a FastAPI route; the request is checked, turned into a job and put in
a queue with two priority classes; worker tasks take jobs and pass them through
a chain of plugins, which read the database and call the Rubika API. A janitor
task and a command-line tool (another process) trim the database. systemd runs
the process in the install path; an operator replaces what is there with
`install.py`, `rubikactl` or `botctl`, and every start migrates the database it
finds.

    gateway --POST--> router.py --enqueue--> queue.py <--get-- worker.py --> plugins
                        |  |                   |                               |   |
                rate_limiter  dedup.py <-------+            repository + cache-+   +--rubika_client.py
                                                                 |
                                              janitor, rubikactl-+
    systemd --start/stop--> main.py --ensure_schema--> data/bot.db
    operator --deploy, update, rollback, install--> install path <-> .bak

| Component (source) | State | Operations | Hard behaviour | What makes it correct |
|---|---|---|---|---|
| Job queue (`core/queue.py`, `utils/dedup.py`, `utils/stats.py`) | two `asyncio.Queue`s, `_size`, dedup cache, counters | enqueue (reject / drop_oldest), get, task_done, drain, put_raw | `get` races two getter tasks and cancels the loser; `_size` is kept by hand; dedup before the full test | a job is in one place; no wake-up is lost; size, unfinished counts and counters agree; one acceptance per key |
| Worker pool (`core/worker.py`) | one task per worker | loop, stop | sentinels on the high queue race with jobs | every accepted job is resolved; stop ends every worker |
| Rate limiter (`utils/rate_limiter.py`) | deque of times | allow | window borders | never a burst, never a refusal with budget left |
| Deduplicator (`utils/dedup.py`) | key -> time | seen | expiry at the border, entries that must not be refreshed | one delivery per key and TTL |
| Webhook intake (`webhook/router.py`, `utils/message.py`, `utils/security.py`) | none of its own | handle_request | order of limiter, parser, key and queue | nothing is swallowed on account of something else |
| Settings (`db/repository.py`, `utils/cache.py`, `plugins/panel.py`, `handlers.py`) | table `groups`, LRU/TTL cache, panel messages | get_group, set_group_flag, upsert_group, /antilink, /panel, presses | workers interleave at API calls; cache in front of the table | cache agrees with table; changes take effect; the panel is right |
| API client (`core/rubika_client.py`) | token bucket and lock per method | acquire, api_call with retries | sleeping with the lock held; timeouts of calls that were carried out | rate bound; no false ok; every call returns |
| Message log (`db/repository.py`, `plugins/logging.py`, `handlers.py`, `main.py`) | table `messages` | save, trim by janitor and CLI, /del | trims and inserts during a bulk deletion; unchecked limits | the newest rows stay; /del reports what it did |
| Moderation (`plugins/*.py`, `handlers.py`) | flood windows, filters, flags | the plugin chain, /ban, /unban, /antilink, /filter | failure or crash between deletion and ban; rules that change during jobs; queue delay | decisions are carried out, and nothing else is; the flood count is exact |
| Migrations (`db/migrations.py`) | tables and indexes, the rows of `schema_version` | ensure_schema | every DDL statement commits by itself: crashes and a second start come between | a recorded version is true; a process that serves has its schema |
| Incoming snapshot (`plugins/incoming_snapshot.py`, `db/repository.py`, `main.py`) | table `incoming_updates` | save, the janitor's deletion by age | it is written where the process runs, which may be the backup by now | no snapshot within the retention is lost |
| Lifecycle (`main.py`, the unit of `install.py`) | the process | startup, shutdown, restart by systemd | a startup that raises; a port that is taken; restarts during a replacement | the bot serves again |
| Operator commands (`cli/rubikactl.py`, `cli/botctl.py`, `install.py`) | install path and its `.bak`, `.venv`, `.env` | deploy, update, rollback, install, setup, configure | any step may fail and leaves the rest undone; the service runs on meanwhile | one whole installation is left; the database is not lost |
| Not modelled | | | | dispatcher, other utilities, and what section 6 lists |

The hazards of each component, with their lines and the properties that watch
them, are listed in `PROJECT.json` ("hazards").

## 2. The modules

| Module | Models | Composes |
|---|---|---|
| `JobQueue` | `JobQueue` with the parts of `asyncio.Queue` it rests on | |
| `WorkerPool` | worker loops, drain, shutdown; `Spec`, `FairSpec` | `JobQueue` |
| `JobLedger` | abstract: what queue and pool promise about a delivery | |
| `PoolProperties` | properties of the pool, refinement of the ledger | `WorkerPool`, `JobLedger` |
| `Clock` | `time.monotonic()` in whole ticks | |
| `RateLimiter`, `Deduplicator` | the two filters, with their clock | `Clock` |
| `Intake` | `handle_request` | `RateLimiter`, `Deduplicator` |
| `LruTtlCache` | the cache as operators on a value | |
| `GroupSettings` | settings, commands and panel | `LruTtlCache` |
| `ApiClient` | limiter and retries of one API method | `Clock` |
| `MessageLog` | the table `messages`, trims, /del | |
| `Moderation` | plugin chain and commands | `Clock` |
| `Migrations` | `ensure_schema` on the databases of several directories | |
| `Deployment` | processes, systemd, snapshots and the operator's commands; `HostSpec`, `HostFairSpec` | `Migrations` |
| `MC*` | constants of the instances | one each |
| `PoolProofs`, `PoolTheorems`, `TimingProofs`, `SettingsProofs`, `ApiProofs`, `RetentionProofs`, `ModerationProofs`, `HostProofs` | theorems | |

A definition whose name ends in `_Bug` is a faulty version of the one that
follows it. `PROJECT.json` ("mutants") names for every checked property one
such fault that the property notices. "map" gives the source lines of every
definition.

### How actions correspond to code

All of the bot runs on one thread (the host's modules, at the end, are about
processes), so code between two points where a
coroutine can suspend is one step. What that means per module:

* **JobQueue, WorkerPool.** `enqueue`, `drain` and `_drop_oldest` await only
  `put` on unbounded queues, which does not suspend, so each is one step. `get`
  is: `GetReady` (something is there), or `GetWait` (two getter tasks are
  created), the tasks' own steps (`TaskTakes`, `TaskBlocks`, `TaskRevoked`), and
  `GetResumes` (`asyncio.wait` returns: one result is used, a pending loser is
  cancelled, a loser that was already done is not read again). `got` is the
  result of a getter task, `revoked` the cancelled ones that have not run since,
  `lost` counts the items of the losers. Ready tasks run in any order, a
  superset of the loop's FIFO order, except where a fact rests on FIFO: both new
  getter tasks take their first step before the waiter resumes, and a cancelled
  getter finishes before the same worker creates the next one. A wake-up may
  pick any blocked getter. `DedupExpire` forgets a key of `Expiring` at any
  time, in place of the TTL; `Deduplicator` has the clock.
* **Intake.** After the body has been read `handle_request` does not suspend, so
  a request is one step, of one of seven outcomes (401, 429, 400, 500, duplicate,
  enqueued, dropped). JSON and signatures are yes or no, a text is one of six
  classes, of which "blank" raises `IndexError`.
* **GroupSettings.** Repository calls are synchronous: a step reaches from one
  API call to the next. `Press` is read, negate and write; `Refresh` is the
  second read, after the confirmation; `Draw` is the panel arriving. The TTL is
  a flag `old` that `Age` sets at any time. `Restart` empties the cache only.
  `upsert_group` is called by the tests only, and is enabled for `Joining`.
* **ApiClient.** `acquire` splits at the lock (`Enter`, `Granted`) and at the
  sleep (`Pass`, `Slept`). A request may have been carried out whatever its
  answer says. A call ends with an answer, after the last retry, or at once by
  an exception that is not one of transport (`Raises`); a failure whose body has
  no "ok" reads as an "ok" (`ReturnsFailure`), which the history variable
  `silent` remembers. Tokens are counted in ticks, `One` to a token, so that the
  refill is exact.
* **MessageLog.** Ids of the table are never reused, so a row is a position in
  the history `log`. Logging and the selection by /del are one step of a worker,
  between which only the CLI, another process, may trim. A negative `LIMIT` is
  no limit. `misread` remembers the rows whose deletion failed without saying so,
  which the code counts as deleted.
* **Moderation.** Everything up to the first API call is one step (`Take`);
  `Delete`, `Ban`, `BanCommand`, `Report` and `Answered` are the calls. With
  `MayFail` a plugin may raise before the first of them, when the message cannot
  be logged or a setting, an admin or a filter cannot be read (`Raised`), every
  call may fail or raise, having been carried out or not, and the process may
  crash. A press of the panel is a command too, since `CommandsPlugin` passes it on
  to `PanelPlugin`, the last plugin, and its effect on the flags is of the same
  kind. No command adds to the white list, so `filters` only ever has words of
  the black one. Settings are read as the
  database has them: `CacheCoherent`, proved for `GroupSettings`, is the reason.
* **Migrations.** Python's `sqlite3` opens a transaction for INSERT and UPDATE
  only, so each `CREATE` commits by itself and is a step (`Create`), while
  `Insert` and `Record` are one step with their commit. `Migrate` is one step:
  its statements are in INITIAL_SCHEMA too, so by then they change nothing that
  a reader could see half done. `Select` may find any row, as the query has no
  order. Tables and indexes are members of a set; a database of version v has
  at least `Needs(v)`. The other versions of the program that may have written
  the database are in `Found`; the process that runs is always this one.
* **Deployment.** A process is where it was started, and is carried along when
  its directory is renamed (`Relocate`), because its paths are relative to its
  working directory; when the directory is removed it is at `Removed`, and what
  it writes there fails or is lost (`InVain`). A command is a sequence of steps
  (`Plan`); `Turn` is a step that succeeds, `Breaks` one that raises, after
  which nothing of the command is left. What a broken step may have left behind
  is chosen nondeterministically: a part of the files, with or without the
  database. "over" is the installer's action "remove", "check" stands for pip,
  tests, nginx, webhook and getMe. The installer restarts the service only if it
  is to install the unit (`NoRestart`). That unit is taken to be there: systemd
  supervises the service from the start. `Stop` waits while `ensure_schema` runs, as it
  never awaits and the signal is handled by the event loop; `Starts` finds the
  port taken only after the whole startup, as uvicorn does. `env` is the .venv
  and the .env together. `Careful` restricts the operator, not the program: see
  `MayBegin`.

## 3. The runs

Every run ends within two minutes on two cores. The type invariants of the
modules other than the pool's serve the reader (the proofs state what they need of
them); the runs check
the properties below instead. `CHECK_DEADLOCK FALSE` is used
where the system comes to rest: no deliveries left and every worker idle.

| Run | Instance | Shows |
|---|---|---|
| `pool_stop` | 4 deliveries of 2 updates, one of whose keys may expire, 2 workers, drop_oldest, room for 1, a stop at any instant | `TypeOK`, `OnePlace`, `NoLostWakeup`, `StopServesHigh`, `SizeAccounting`, `Capacity`, `HealthReconciles`, `OncePerKey`, `ImplementsLedger` |
| `pool_live` | 3 deliveries, 2 workers, reject, room for 2, drains, stop of a settled loop | `UnfinishedExact`, `AcceptedResolves`, `StopTerminates`, `JoinReturns` |
| `pool_ack` (violation) | reject, room for 1 | a 200 for a delivery that nothing was accepted for |
| `pool_discard` (violation) | 1 high and 1 normal delivery | an acknowledged job is thrown away |
| `intake` | 8 kinds of requests, 2 requests per window of 1, TTL 2, time to 3, a queue that may be full | `NoBurst`, `RefusedOnlyWhenFull`, `FreshApart`, `NotRefreshed`, `FreshIsHanded`, `NoForeignSwallow` |
| `settings` | 2 chats, one registered on the way, 2 workers, a cache of 1 | `CacheCoherent`, `ChangesTakeEffect`, `PanelTruthful` |
| `settings_unregistered` (violation) | chats without a row | `AnswersAreTrue` |
| `api` | 3 callers, 2 tokens of 2 ticks, 1 retry | `RateBound`, `OkMeansApplied`, `CallReturns` |
| `log` | 2 chats, 2 workers, 3 messages, trims to 1, 2 and -1 rows, /del of -1, 1 and 3 | `NewestKept`, `EnoughKept`, `ReportTrue`, `BulkDeleteEnds` |
| `moderation` | 6 messages of a member, an admin, the owner and nobody, 2 workers, failures and crashes | `OnlyDecisions`, `DecisionsCarriedOut`, `ChangedByCommand` |
| `moderation_flood` | 3 messages of a member, limit 1, window 1, delay up to 1, time to 3 | `FloodExact`, `FloodWasSent`, `MessagesJudged` |
| `host` | a new, an older and a newer database, 2 processes, 4 commands, 2 failures, 1 snapshot, a careful operator | `VersionTruthful`, `ServesWithSchema`, `IntactSomewhere`, `RowsKept`, `ServiceReturns` |

### The bounds, and why they are enough

* *Pool.* Two workers are the fewest that compete for a wake-up; each has two
  getter tasks, so one job of each class already makes the discard possible.
  Two of the deliveries share a key (retries), one of the others is of the other
  class; room for one makes every third delivery find the queue full, and held
  or lost jobs make the eviction find nothing. `Capacity` and `SizeAccounting`
  are exact without drains, which is how `pool_stop` checks them; the looser
  bound with drains, and that the ledger is implemented with drains as well,
  are proved.
* *Clocks.* `Horizon` is the end of time. It exceeds the window, the TTL and
  the allowed delay, so that every border case (equal, one tick later) occurs.
  In `api` time passes at any moment until `Leisure`, and later only while
  everybody waits for it; if `Horizon` were reached with a caller asleep,
  `CallReturns` would fail, so it is not a hidden restriction.
* *Settings.* A cache of one entry makes each chat evict the other. The two
  workers are interchangeable, which is the only symmetry used, and only in
  safety runs.
* *Log.* Three messages and limits of 1 and 2 make trims bite; `MaxDelete` 2
  clamps a /del of 3.
* *Moderation.* `moderation` has no clock (all messages fall in one window), and
  `moderation_flood` has nothing but; the two questions do not interact.

* *Host.* Four commands are enough for one that fails, what is done about it,
  and the same once more; two failures let a step break and the process crash.
  Rows do not influence each other, so one is as good as many. Three objects
  suffice to tell `schema_version`, what it was created with, and what a later
  version added, which is all that the statements' order can get wrong.

### Fairness, and why the code justifies it

* The event loop runs every ready task: weak fairness of each worker's loop,
  each getter task and each resumed wait (`WorkerPool!Fairness`), of a granted
  lock and of a sleep that is over (`ApiFairness`).
* Handlers end: every await in them is an API call with a timeout and finitely
  many retries (`CallReturns` is that fact for the client), so `Handled`,
  `Answer`, `DeletesOne`, `Report` and `Works` are weakly fair.
* Time passes (`Pause` is fair in `ApiFairSpec`). Nothing forces the gateway to
  send, the operator to drain, a cache entry to age or the process to crash.
* systemd starts the service whenever it is down (`Restart=always`), and a
  process that has begun goes on (`HostFairness`). No command is fair: the
  operator may walk away. Failures are bounded by `MaxFails`, which stays below
  the start limit at which systemd would give up.
* `StopTerminates` is checked for a stop of a settled loop (`QuiescentStop`):
  uvicorn stops accepting requests and lets the running ones end before it runs
  the shutdown handler. The safety runs stop at any instant.

### What some of the properties say

* `OnePlace`: a delivery is queued, held by a getter task or being handled, in
  exactly one place, exactly while it is in flight.
* `ImplementsLedger`: the pool implements `JobLedger`, in which a delivery is
  accepted, begun at most once, and finished or dropped. `fate` is a function
  of the pool's `status`.
* `JoinReturns`: until a stop, the unfinished counts always come back to the
  items `get` lost, so with one priority class (`utils/speedcheck.py`), where
  nothing can be lost, `join` returns.
* `PanelTruthful`: a panel arrives with the settings in force unless they were
  changed while it was on its way. The exception is real: nothing orders the
  panels of two workers.
* `FloodWasSent`: the flood check takes the time of handling. A member judged a
  flood sent more than the limit within the window *plus the longest wait in
  the queue*, and no better bound holds.
* `DecisionsCarriedOut`: excepts a message whose own API call failed or that a
  crash cut short. Nothing in the code makes up for those.
* `VersionTruthful`, `ServesWithSchema`: two starts at once may leave two rows
  in `schema_version`. Neither matters, because every row is true and any row
  makes the next start do no less than it must.
* `IntactSomewhere`, `RowsKept`: both say what an operator who looks first may
  rely on, and hold in every state, the middle of a command included. `spent`
  are the rows he gives up himself: those only the old backup has when it is
  replaced, and those written since a backup when it is rolled back to.
* `OkMeansApplied`, `ReportTrue`: what the client and /del report is so, but for
  failures whose body has no "ok", which the code takes for successes. The
  exception is exactly those answers: a lost, late or repeated request, an
  exception, a row trimmed meanwhile never counts as a success.
* `EnoughKept` holds each trim to the number it was given. A setting of 0 is a
  promise to keep nothing, and the code empties the table.
* `MessagesJudged`: the worker survives and comes to every message. A message
  whose handling raised is over, too, without having been moderated.
* `RateBound` holds with room to spare: a wait leaves the bucket at minus one
  token, so under load the sustained rate is half the configured one.

## 4. The proofs

All are checked by `tlapm` from the modules as they stand, with no axioms but
the named assumptions on constants (which TLC evaluates in the runs) and, in
one theorem, a stated hypothesis about the ids the gateway gives
(`KindsApart`). Every safety invariant and every action property
of the runs that pass is the conclusion of a theorem, for any number of
workers, messages, keys and chats, and any limits.

* **The pool, places** (`PoolProofs`, `PoolTheorems`). `TypeCorrect`
  proves `TypeOK` with the strengthening that relates a worker's program
  counter to its job and its tasks. `OnePlace` is not inductive: that a
  position in a queue is unique says nothing about what a step takes from it.
  `IInv` adds `Placement`: each *kind* of place determines the status of what
  is there (in a queue of its class: queued; result of a task: held; worker:
  running), no two places of a kind hold the same delivery, and each status in
  flight has a place. `IInvInvariant` proves it step by step, the work being in
  `Popped`, `Pushed` and the eviction. From it follow `DeliveriesInOnePlace`,
  `PoolImplementsLedger` (each action maps to an action of the ledger or to a
  stutter; a task can only hand on what is "held", so nothing begins twice) and
  `KeysAcceptedOnce` (an accepted key that does not expire is in `seen`, and
  only `FirstSeen` accepts). All hold for any number of workers, deliveries,
  keys and any capacity, under both policies.
* **The pool, counts** (`PoolTheorems`). The counters are kept by hand at
  places far from each other, so each proof sets up an account and shows what
  each kind of step does to both of its sides. For a class, the items in its
  queue and in the results of getter tasks are its account; a step leaves it
  still, or an item enters, is replaced, or leaves.
  `CountsAreExact` (`UnfinishedExact`) needs no more, with drains and stops
  anywhere. `SizeIsExact` uses that until a stop all that waits is a job; with
  drains all that is left is `SizeInv`, that the waiting jobs exceed `_size` by
  at most two per worker. `QueuesAreBounded` (`Capacity`) follows before a stop,
  and after it because no job enters any more. `HealthAddsUp` adds the statuses:
  the deliveries that have arrived are finitely many, and each action that
  changes one of the five numbers changes another to match (`Imbalance` = 0).
* **The pool, wake-ups and the stop** (`PoolTheorems`). `NoLostWakeup` is not
  inductive by itself: one getter must not count twice among those that will
  still look at the queue. `Wakeups` adds that a worker whose cancelled getter has
  not run yet has no other on that class that has begun (`RevokedFree`). Each
  put wakes one more, and each cancelled getter that was woken passes its
  wake-up on (`WakeupsAreKept`).
  `UrgentServedAtStop` rests on `Sentinels`: the high queue is always jobs
  followed by sentinels, and a worker that holds a sentinel, or has exited, took
  it when no job was in front of it, so none is left.
* **The filters** (`TimingProofs`). The limiter's events are a suffix of the
  history of admissions, and all admissions before that suffix are out of the
  window; hence `LimiterNoBurst` and `LimiterRefusesOnlyWhenFull`. The
  deduplicator's entry of a key is the last time the key was fresh, or that time
  is more than a TTL ago; hence `DedupFreshApart` and `DedupNotRefreshed`.
  `WebhookPromises` carries all four over to `IntakeSpec`: each branch of
  `handle_request` is a step of the limiter and of the deduplicator, or leaves
  them alone. `TurnedAwayLeavesNothing` (that is, `FreshIsHanded`): only the branch
  that offers a job records a key. `NothingForeignSwallows` (`NoForeignSwallow`)
  is about the key itself, which drops the parts that are absent and joins the
  rest: the chat and the message are told from it only if an id of one kind is
  never an id, or an update type, of another. That is `KindsApart`, which
  nothing in the code enforces: it is an assumption about the ids the gateway
  gives, and `MCIntake` assumes it of its requests.
* **The settings** (`SettingsProofs`). `CacheIsCoherent`: looking up keeps
  values or stores what was just read, and each write drops the copy; which
  entries are evicted does not matter. From it `RowsObey` (changes take effect
  where there is a row) and, with an invariant on the panels under way,
  `PanelIsTruthful`.
* **The API client** (`ApiProofs`). `ApiRateBounded`: the tokens in the bucket
  plus the requests sent since any earlier one never exceed the burst plus the
  time since; a wait resets the bucket below zero, which only lowers it.
  `OkIsTrue` (`OkMeansApplied`): an "ok" is the body of the last answer, so its
  request was carried out or refused in a body that does not say so (`silent`);
  no attempt that is lost, repeated or raises produces one. Nothing is assumed
  of the bodies of failures.
* **The message log** (`RetentionProofs`). `TableKeepsNewest`: a trim cuts each
  chat's rows at a position, so what is left is upward closed.
  `TableKeepsEnough` (`EnoughKept`): of an upward closed set of rows the newest
  n are either all of it or at least n, so each trim leaves what the smallest
  limit in use promises, and trims of different limits do not add up.
  `ReportsAreTrue`: the counters and the rows to do always add up to the rows
  chosen, and each deletion that is counted is a row of its own that explains
  it (`Explained`): the message is gone, or its failure did not say so. The
  set of those rows only grows, as nothing brings a message back.
* **The moderation chain** (`ModerationProofs`). `JobsInv`: a message is judged
  once, by the one worker that has it, and the call a worker is about to make
  belongs to the verdict of its job. Hence `OnlyDecisionsAreDone`.
  `DecisionsAreCarriedOut` adds how far a job must have come by each call
  (`Progress`) and what is settled when it is over (`Settled`); the steps of the
  *other* workers are the work, since one may lift the ban that another has just
  made (`Lifted`, which stays true once it is). `SettingsByCommandOnly` is an
  action property that follows from the guards of `ByCommand` and from no
  other step writing. `FloodCheckIsExact`: the deque of a sender is the end of the
  history of his checks (`EndOf`), all before it is out of the window, and times
  in it are in order, so its length after the popping is the number of recent
  checks. `FloodsWereSent` follows with an injection from the checks to the
  messages that were sent, each at most `MaxWait` earlier (`Behind`).
* **The host** (`HostProofs`). `RecordedVersionsAreTrue` needs no more than that
  a process which is past INITIAL_SCHEMA has all objects under it, wherever it
  was carried (`AllDone`); a version is only written by such a process.
  `HandlersFindTheirTables` adds that it wrote or found a version. Both hold for
  every operator, careful or not. `InstallationSurvives` and `SnapshotsSurvive`
  are about sequences of steps that may stop anywhere: `Ordered` says of
  the steps that are left which ones still follow which, `Vacant` in which of
  them nobody runs in a directory that is about to be removed or overwritten,
  and `Spare` that before each step that destroys one copy the other is whole.
  The conjunction `HostInv` was first checked by TLC. It holds for any
  number of commands, failures, rows and processes' starts, and any schema.

Where a proof needs a first or last element of a set (the last check that has
left the window, the newest row that was trimmed) it takes it from the
well-foundedness of `<` on the naturals (`WFMin`), as the library's induction
theorems cannot be used here.

Only model-checked: liveness (`AcceptedResolves`, `StopTerminates`,
`JoinReturns`, `CallReturns`, `BulkDeleteEnds`, `MessagesJudged`,
`ServiceReturns`), because fairness and ENABLED are out of the prover's reach.
The type invariants of the modules other than the pool's are not theorems of
their own; the invariants of the proofs contain what they need of them.

## 5. Where the code and its promises differ

* `pool_ack`: `enqueue` records the dedup key (`queue.py:91`) before it tests
  for room. Under the reject policy a delivery refused with 503 is answered 200
  when it is retried within the TTL, and is never handled.
* `pool_discard`: when both getter tasks of an idle worker finish before
  `asyncio.wait` resumes, `get` uses one result (`queue.py:139`). The job of the
  other is gone, with its unfinished count and its share of `_size`.
* `settings_unregistered`: `set_group_flag` only updates (`repository.py:93`) and
  nothing but a test inserts rows into `groups`, so in the chats the bot really
  serves /antilink and the panel announce changes that do not happen.

Observed, without a statement of the repository that says otherwise:

* An operator who is not careful (`Careful` FALSE) can end with nothing. If
  `botctl deploy` fails in its copy, the service runs on from the `.bak`
  directory; running deploy again removes that directory, the live database
  with it (`botctl.py:19`). `rollback` removes the installation before it moves a
  backup that an interrupted `update` may have left half copied
  (`rubikactl.py:301-302`, `rubikactl.py:323`). The installer's "remove" has
  no way back.
* `deploy` runs the tests before the restart, `install.py` after it
  (`install.py:511`, `install.py:522`), when the new program already serves. An
  installation that failed there cannot be repeated without `--force`, since
  the `.env` exists by then. `install.sh` makes its backup with `mv`, which
  moves the installation *into* a `.bak` that is already there.
* The path of the database is relative to the working directory: `rubikactl db`
  looks for it where the operator stands, and under docker it is in the image
  rather than on the volume.
* A failure whose body has no "ok" counts as success (`rubika_client.py:87`,
  `handlers.py:248`), and /del then reports messages as deleted that are still
  there: `silent` and `misread` record where that happens in the models. `anti_badwords` cannot be
  switched on by the program. A second /del selects the rows of the first again.

## 6. What is left out, and why

* Within modelled parts: timestamps and dispatch times, the `errors` counter and
  last error, per-worker counters; wording, titles and the settings that nothing
  can change; several groups at once in `Moderation` (the plugins keep no state
  across chats but the flood windows, which are per chat and sender), private
  chats, messages without an id, /setcmd.
* *Migrations*: other versions of the program than this commit's. Their
  databases are in `Found`; that an older one is run on a newer database is not.
* *Incoming snapshot*: the content of a row, the switches that turn it off, and
  `rubikactl db cleanup`, with which an operator may delete by another age.
* *Application lifecycle*: what `startup` wires together, and the health pages.
  The workers' part of the shutdown is `Stop` in `WorkerPool`.
* *Operator CLI*: `doctor`, `status`, `logs`, `db stats`, `vacuum`, `optimize`,
  the `fix` and `webhook-set` commands and the queue displays read, or change
  nothing that a property here is about. `fix db` creates two indexes with IF
  NOT EXISTS, which a database that has been started once already has. One
  operator is at work at a time.
* *Installer*: prompts, validation, packages, nginx (one of the "check" steps),
  the text of the files, and `install.sh`, which clones and calls `install.py`.
* *Files*: a directory is none, a part or the whole of the program; a copy of
  the database is taken at one instant except for rows, so a torn SQLite file
  does not occur; `rename` is atomic (the backup is on the same file system).
* *Dispatcher*: `services/dispatcher.py` is not used by `main.py`.
* *Other utilities*: formatting, an arithmetic evaluator, configuration.

## 7. Plan

Done, in this order: the pool with its ledger, the filters and the intake, the
settings, the API client, the message log, the moderation chain; the migrations,
the snapshots and the host with its operator; the proofs of all safety and
action properties.

Next:

1. Abstract specifications beside `JobLedger`, with proofs that the modules
   implement them: of the settings (a row, and who may change it) for
   `GroupSettings`, and of a message's fate for `Moderation`.
2. A program of another version in `Migrations`, so that a rollback runs an
   older program on a newer database.
