------------------------------ MODULE JobQueue ------------------------------
(***************************************************************************)
(* app/core/queue.py: the in-memory queue between the webhook handlers and *)
(* the workers.  It keeps two asyncio queues (high and normal priority), a *)
(* hand-maintained size, a deduplicator and the counters of                *)
(* app/utils/stats.py.                                                     *)
(*                                                                         *)
(* Everything runs on one asyncio event loop, so an action of this module  *)
(* is the code between two suspension points.  JobQueue.get suspends when  *)
(* both queues are empty: it then starts one task per queue and waits for  *)
(* the first of them.  Those tasks, and the futures ("getters") they block *)
(* on, are asyncio's; they are modelled here because their interleavings   *)
(* decide which jobs are delivered.                                        *)
(***************************************************************************)
EXTENDS Integers, Sequences, FiniteSets

CONSTANTS
  Jobs,        \* deliveries of the webhook; each one arrives at most once
  Keys,        \* dedup keys
  Key,         \* Key[j] is the dedup key of delivery j
  Prio,        \* Prio[j] is the priority class of delivery j
  Workers,     \* the tasks of the worker pool
  None,        \* Python's None: the stop sentinel, and "no job"
  MaxSize,     \* settings.queue_max_size
  DropOldest,  \* settings.queue_full_policy = "drop_oldest"
  Expiring     \* keys whose dedup TTL may elapse while the system runs

Classes == {"high", "normal"}

ASSUME QueueAssumption ==
  /\ Key \in [Jobs -> Keys]
  /\ Prio \in [Jobs -> Classes]
  /\ None \notin Jobs
  /\ MaxSize \in Nat
  /\ DropOldest \in BOOLEAN
  /\ Expiring \subseteq Keys
  /\ IsFiniteSet(Workers)

VARIABLES
  queue,       \* queue[c]: contents of the asyncio queue of class c
  unfinished,  \* unfinished[c]: _unfinished_tasks of that asyncio queue
  task,        \* task[w][c]: the getter task worker w started on queue c
  got,         \* got[w][c]: the result of that task once it is done
  revoked,     \* getter tasks cancelled after they were woken
  size,        \* JobQueue._size
  seen,        \* keys in the deduplicator's cache
  stats,       \* the counters of StatsCollector that /health/queue reconciles
  status,      \* history: what became of each delivery
  lost         \* history: results of getter tasks that nobody read, per class

queueVars == <<queue, unfinished, task, got, revoked, size, seen, stats,
               status, lost>>

Item == Jobs \cup {None}
TaskState == {"none", "new", "blocked", "woken", "done"}
Status == {"new", "duplicate", "rejected", "queued", "held", "running",
           "done", "evicted", "drained", "discarded"}
Counters == {"enqueued", "dropped", "deduped", "updates"}

QueueTypeOK ==
  /\ queue \in [Classes -> Seq(Item)]
  /\ unfinished \in [Classes -> Int]
  /\ task \in [Workers -> [Classes -> TaskState]]
  /\ got \in [Workers -> [Classes -> Item]]
  /\ revoked \subseteq Workers \X Classes
  /\ size \in Nat
  /\ seen \subseteq Keys
  /\ stats \in [Counters -> Nat]
  /\ status \in [Jobs -> Status]
  /\ lost \in [Classes -> Nat]

QueueInit ==
  /\ queue = [c \in Classes |-> << >>]
  /\ unfinished = [c \in Classes |-> 0]
  /\ task = [w \in Workers |-> [c \in Classes |-> "none"]]
  /\ got = [w \in Workers |-> [c \in Classes |-> None]]
  /\ revoked = {}
  /\ size = 0
  /\ seen = {}
  /\ stats = [n \in Counters |-> 0]
  /\ status = [j \in Jobs |-> "new"]
  /\ lost = [c \in Classes |-> 0]

-----------------------------------------------------------------------------
(* Helpers *)

\* (A definition whose name ends in _Bug is a faulty version of the one that
\* follows it; it serves to confirm that the properties notice such a fault.)

Decremented_Bug(n) == n - 1

\* max(0, self._size - 1)
Decremented(n) == IF n = 0 THEN 0 ELSE n - 1

Count(name) == [stats EXCEPT ![name] = @ + 1]

\* The statuses st after item got status s; the sentinel has no status.
Mark(st, item, s) == IF item = None THEN st ELSE [st EXCEPT ![item] = s]

\* Tasks that wait on a getter future of queue c.
Blocked(c) == {w \in Workers : task[w][c] = "blocked"}

\* asyncio's _wakeup_next: one blocked getter of class c, if there is one,
\* gets its result.  asyncio picks the oldest; the model allows any.
WakeOne(c) ==
  IF Blocked(c) = {}
  THEN UNCHANGED task
  ELSE \E w \in Blocked(c) : task' = [task EXCEPT ![w][c] = "woken"]

\* An item is read but left in the queue.
Popped_Bug(q, c) == q

\* Queue contents after job j was put, or an item was taken from class c.
Pushed(q, j) == [q EXCEPT ![Prio[j]] = Append(@, j)]
Popped(q, c) == [q EXCEPT ![c] = Tail(@)]

\* Unfinished counts after n more (or -n fewer) items in class c.
Add(u, c, n) == [u EXCEPT ![c] = @ + n]

\* Nobody is woken.
Put_Bug(j) ==
  /\ queue' = Pushed(queue, j)
  /\ unfinished' = Add(unfinished, Prio[j], 1)
  /\ UNCHANGED task

\* asyncio.Queue.put_nowait of job j on the queue of its class.
Put(j) ==
  /\ queue' = Pushed(queue, j)
  /\ unfinished' = Add(unfinished, Prio[j], 1)
  /\ WakeOne(Prio[j])

-----------------------------------------------------------------------------
(* enqueue, called by the webhook for each delivery *)

\* deduplicator.seen(key) is true: answer "duplicate".
EnqueueDuplicate(j) ==
  /\ status[j] = "new"
  /\ Key[j] \in seen
  /\ stats' = Count("deduped")
  /\ status' = [status EXCEPT ![j] = "duplicate"]
  /\ UNCHANGED <<queue, unfinished, task, got, revoked, size, seen, lost>>

\* The key is not recorded.
FirstSeen_Bug(j) ==
  /\ status[j] = "new"
  /\ Key[j] \notin seen
  /\ UNCHANGED seen

\* seen() is false, and has now recorded the key whatever happens next.
FirstSeen(j) ==
  /\ status[j] = "new"
  /\ Key[j] \notin seen
  /\ seen' = seen \cup {Key[j]}

\* The queue is full under the "reject" policy: answer "dropped".
EnqueueRejected(j) ==
  /\ FirstSeen(j)
  /\ size >= MaxSize
  /\ ~DropOldest
  /\ stats' = Count("dropped")
  /\ status' = [status EXCEPT ![j] = "rejected"]
  /\ UNCHANGED <<queue, unfinished, task, got, revoked, size, lost>>

\* One job too many is let in.
EnqueueWithRoom_Bug(j) ==
  /\ FirstSeen(j)
  /\ size <= MaxSize
  /\ Put(j)
  /\ size' = size + 1
  /\ stats' = Count("enqueued")
  /\ status' = [status EXCEPT ![j] = "queued"]
  /\ UNCHANGED <<got, revoked, lost>>

EnqueueWithRoom(j) ==
  /\ FirstSeen(j)
  /\ size < MaxSize
  /\ Put(j)
  /\ size' = size + 1
  /\ stats' = Count("enqueued")
  /\ status' = [status EXCEPT ![j] = "queued"]
  /\ UNCHANGED <<got, revoked, lost>>

\* The class _drop_oldest takes its victim from.
VictimClass == IF queue["normal"] # << >> THEN "normal" ELSE "high"

\* The evicted job stays counted in _size.
EnqueueEvicting_Bug(j) ==
  LET c == VictimClass
  IN /\ FirstSeen(j)
     /\ size >= MaxSize
     /\ DropOldest
     /\ queue[c] # << >>
     /\ queue' = Pushed(Popped(queue, c), j)
     /\ unfinished' = Add(Add(unfinished, c, -1), Prio[j], 1)
     /\ WakeOne(Prio[j])
     /\ size' = size + 1
     /\ stats' = [stats EXCEPT !["dropped"] = @ + 1, !["enqueued"] = @ + 1]
     /\ status' = [Mark(status, Head(queue[c]), "evicted") EXCEPT ![j] = "queued"]
     /\ UNCHANGED <<got, revoked, lost>>

\* Full under "drop_oldest": the head of the normal queue (of the high queue
\* if the normal one is empty) is dropped and marked done, then j is put.
EnqueueEvicting(j) ==
  LET c == VictimClass
  IN /\ FirstSeen(j)
     /\ size >= MaxSize
     /\ DropOldest
     /\ queue[c] # << >>
     /\ queue' = Pushed(Popped(queue, c), j)
     /\ unfinished' = Add(Add(unfinished, c, -1), Prio[j], 1)
     /\ WakeOne(Prio[j])
     /\ size' = Decremented(size) + 1
     /\ stats' = [stats EXCEPT !["dropped"] = @ + 1, !["enqueued"] = @ + 1]
     /\ status' = [Mark(status, Head(queue[c]), "evicted") EXCEPT ![j] = "queued"]
     /\ UNCHANGED <<got, revoked, lost>>

\* The job put on top of the bound is not counted as enqueued.
EnqueueOverfull_Bug(j) ==
  /\ FirstSeen(j)
  /\ size >= MaxSize
  /\ DropOldest
  /\ \A c \in Classes : queue[c] = << >>
  /\ Put(j)
  /\ size' = size + 1
  /\ status' = [status EXCEPT ![j] = "queued"]
  /\ UNCHANGED <<got, revoked, lost, stats>>

\* Full under "drop_oldest" with nothing to drop (the counted jobs are in
\* getter tasks): QueueEmpty is swallowed and j is put on top of the bound.
EnqueueOverfull(j) ==
  /\ FirstSeen(j)
  /\ size >= MaxSize
  /\ DropOldest
  /\ \A c \in Classes : queue[c] = << >>
  /\ Put(j)
  /\ size' = size + 1
  /\ stats' = Count("enqueued")
  /\ status' = [status EXCEPT ![j] = "queued"]
  /\ UNCHANGED <<got, revoked, lost>>

Enqueue(j) ==
  \/ EnqueueDuplicate(j)
  \/ EnqueueRejected(j)
  \/ EnqueueWithRoom(j)
  \/ EnqueueEvicting(j)
  \/ EnqueueOverfull(j)

\* More than ttl_seconds after it was recorded, key k no longer counts as seen.
DedupExpire(k) ==
  /\ k \in seen \cap Expiring
  /\ seen' = seen \ {k}
  /\ UNCHANGED <<queue, unfinished, task, got, revoked, size, stats, status,
                 lost>>

-----------------------------------------------------------------------------
(* drain, called by POST /health/queue/drain *)

Queued(j) == \E c \in Classes : \E i \in DOMAIN queue[c] : queue[c][i] = j

\* The drained items are not marked done.
Drain_Bug ==
  /\ queue' = [c \in Classes |-> << >>]
  /\ size' = 0
  /\ status' = [j \in Jobs |-> IF Queued(j) THEN "drained" ELSE status[j]]
  /\ UNCHANGED <<task, got, revoked, seen, stats, lost, unfinished>>

Drain ==
  /\ queue' = [c \in Classes |-> << >>]
  /\ unfinished' = [c \in Classes |-> unfinished[c] - Len(queue[c])]
  /\ size' = 0
  /\ status' = [j \in Jobs |-> IF Queued(j) THEN "drained" ELSE status[j]]
  /\ UNCHANGED <<task, got, revoked, seen, stats, lost>>

-----------------------------------------------------------------------------
(* get, called by worker w.  Return(w, item) is what the caller does with    *)
(* the returned item; it is the worker pool's and is conjoined there.        *)

\* A queue holds an item, the high one first: it is returned at once.
GetReady(w) ==
  LET c == IF queue["high"] # << >> THEN "high" ELSE "normal"
  IN /\ queue[c] # << >>
     /\ queue' = Popped(queue, c)
     /\ size' = Decremented(size)
     /\ UNCHANGED <<task, got, revoked, seen, stats, lost>>

\* The item GetReady(w) returns.
ReadyItem == Head(IF queue["high"] # << >> THEN queue["high"]
                                           ELSE queue["normal"])

\* Both queues are empty: create a task for each and suspend in asyncio.wait.
GetWait(w) ==
  /\ \A c \in Classes : queue[c] = << >>
  /\ task' = [task EXCEPT ![w] = [c \in Classes |-> "new"]]
  /\ UNCHANGED <<queue, unfinished, got, revoked, size, seen, stats, status,
                 lost>>

\* The task reads the head of the queue and leaves it there.
TaskTakes_Bug(w, c) ==
  /\ task[w][c] \in {"new", "woken"}
  /\ <<w, c>> \notin revoked
  /\ queue[c] # << >>
  /\ task' = [task EXCEPT ![w][c] = "done"]
  /\ got' = [got EXCEPT ![w][c] = Head(queue[c])]
  /\ status' = Mark(status, Head(queue[c]), "held")
  /\ UNCHANGED <<queue, unfinished, revoked, size, seen, stats, lost>>

\* A getter task runs asyncio.Queue.get: it takes the head of its queue, or
\* blocks on a getter future (again, if a faster worker emptied the queue).
TaskTakes(w, c) ==
  /\ task[w][c] \in {"new", "woken"}
  /\ <<w, c>> \notin revoked
  /\ queue[c] # << >>
  /\ queue' = Popped(queue, c)
  /\ task' = [task EXCEPT ![w][c] = "done"]
  /\ got' = [got EXCEPT ![w][c] = Head(queue[c])]
  /\ status' = Mark(status, Head(queue[c]), "held")
  /\ UNCHANGED <<unfinished, revoked, size, seen, stats, lost>>

TaskBlocks(w, c) ==
  /\ task[w][c] \in {"new", "woken"}
  /\ <<w, c>> \notin revoked
  /\ queue[c] = << >>
  /\ task' = [task EXCEPT ![w][c] = "blocked"]
  /\ UNCHANGED <<queue, unfinished, got, revoked, size, seen, stats, status,
                 lost>>

\* The wake-up of the cancelled task is lost.
TaskRevoked_Bug(w, c) ==
  /\ <<w, c>> \in revoked
  /\ revoked' = revoked \ {<<w, c>>}
  /\ UNCHANGED <<queue, unfinished, task, got, size, seen, stats, status, lost>>

\* A task cancelled after its getter was woken: the CancelledError handler of
\* asyncio.Queue.get passes the wake-up on when the queue is not empty.
TaskRevoked(w, c) ==
  /\ <<w, c>> \in revoked
  /\ revoked' = revoked \ {<<w, c>>}
  /\ IF queue[c] # << >> THEN WakeOne(c) ELSE UNCHANGED task
  /\ UNCHANGED <<queue, unfinished, got, size, seen, stats, status, lost>>

Other(c) == CHOOSE d \in Classes : d # c

\* asyncio.wait returns: at least one task is done, both have started.  The
\* winner (any element of the set of done tasks) is c.  The other task is
\* cancelled if it is pending; if it is done too its result is never read.
GetResumes(w, c) ==
  LET o == Other(c)
      loser == task[w][o] = "done"
  IN /\ task[w][c] = "done"
     /\ task[w][o] # "new"
     /\ task' = [task EXCEPT ![w] = [d \in Classes |-> "none"]]
     /\ got' = [got EXCEPT ![w] = [d \in Classes |-> None]]
     /\ revoked' = IF task[w][o] = "woken" THEN revoked \cup {<<w, o>>}
                                           ELSE revoked
     /\ lost' = IF loser THEN [lost EXCEPT ![o] = @ + 1] ELSE lost
     /\ size' = Decremented(size)
     /\ UNCHANGED <<queue, seen, stats>>

\* The item of the other task that GetResumes(w, c) loses, if any.
Unread(w, c) == IF task[w][Other(c)] = "done" THEN got[w][Other(c)] ELSE None

-----------------------------------------------------------------------------
(* put_raw(None), called once per worker by WorkerPool.stop *)

\* One sentinel for the whole pool.
PutSentinels_Bug ==
  /\ queue' = [queue EXCEPT !["high"] = Append(@, None)]
  /\ unfinished' = Add(unfinished, "high", 1)
  /\ WakeOne("high")
  /\ UNCHANGED <<got, revoked, size, seen, stats, status, lost>>

\* The sentinels overtake the jobs that are waiting.
PutSentinelsFirst_Bug ==
  LET n == Cardinality(Workers)
  IN /\ queue' = [queue EXCEPT !["high"] = [i \in 1..n |-> None] \o @]
     /\ unfinished' = Add(unfinished, "high", n)
     /\ task' = [w \in Workers |->
                  IF task[w]["high"] = "blocked"
                  THEN [task[w] EXCEPT !["high"] = "woken"]
                  ELSE task[w]]
     /\ UNCHANGED <<got, revoked, size, seen, stats, status, lost>>

PutSentinels ==
  LET n == Cardinality(Workers)
  IN /\ queue' = [queue EXCEPT !["high"] = @ \o [i \in 1..n |-> None]]
     /\ unfinished' = Add(unfinished, "high", n)
     /\ task' = [w \in Workers |->
                  IF task[w]["high"] = "blocked"
                  THEN [task[w] EXCEPT !["high"] = "woken"]
                  ELSE task[w]]
     /\ UNCHANGED <<got, revoked, size, seen, stats, status, lost>>

=============================================================================
