--------------------------- MODULE PoolProperties ---------------------------
(***************************************************************************)
(* What the queue and the worker pool must guarantee, and what the         *)
(* repository says of them.                                                *)
(***************************************************************************)
EXTENDS WorkerPool

InFlight == {"queued", "held", "running"}
Accepted == InFlight \cup {"done", "evicted", "drained", "discarded"}

\* Every place that refers to delivery j: queue positions, results of getter
\* tasks and workers.
Places(j) ==
  {p \in {"queue"} \X Classes \X (1..Len(queue["high"]) \cup
                                  1..Len(queue["normal"])) :
     p[3] \in DOMAIN queue[p[2]] /\ queue[p[2]][p[3]] = j}
  \cup {p \in {"task"} \X Workers \X Classes :
          got[p[2]][p[3]] = j}
  \cup {p \in {"worker"} \X Workers : current[p[2]] = j}

\* A delivery is in one place exactly while it is in flight: it is never
\* handled by two workers, nor handled while a copy waits, nor lost from the
\* queue, a getter task and the workers before it is resolved
\* (queue.py enqueue, get, _drop_oldest and drain; worker.py _worker_loop).
OnePlace ==
  \A j \in Jobs :
    /\ \A p, q \in Places(j) : p = q
    /\ (Places(j) # {}) <=> (status[j] \in InFlight)

(* What makes OnePlace inductive: each kind of place determines the status,  *)
(* and each status in flight determines one place.                           *)

QueuePlaced(q, st) ==
  \A j \in Jobs :
    /\ \A c \in Classes : \A i \in 1..Len(q[c]) :
         q[c][i] = j => st[j] = "queued" /\ c = Prio[j]
    /\ \A c \in Classes : \A i, k \in 1..Len(q[c]) :
         q[c][i] = j /\ q[c][k] = j => i = k
    /\ st[j] = "queued" =>
         \E c \in Classes : \E i \in 1..Len(q[c]) : q[c][i] = j

TasksPlaced(g, st) ==
  \A j \in Jobs :
    /\ \A w \in Workers, c \in Classes :
         g[w][c] = j => st[j] = "held" /\ c = Prio[j]
    /\ \A w, v \in Workers, c \in Classes :
         g[w][c] = j /\ g[v][c] = j => w = v
    /\ st[j] = "held" => \E w \in Workers, c \in Classes : g[w][c] = j

WorkersPlaced(cur, st) ==
  \A j \in Jobs :
    /\ \A w \in Workers : cur[w] = j => st[j] = "running"
    /\ \A w, v \in Workers : cur[w] = j /\ cur[v] = j => w = v
    /\ st[j] = "running" => \E w \in Workers : cur[w] = j

\* A getter task has a result only when it is done.
ResultsRead ==
  \A w \in Workers, c \in Classes : task[w][c] # "done" => got[w][c] = None

Placement ==
  /\ QueuePlaced(queue, status)
  /\ TasksPlaced(got, status)
  /\ WorkersPlaced(current, status)
  /\ ResultsRead

\* Within the TTL a key is accepted once, however its deliveries interleave
\* with evictions, drains and the workers (queue.py:91, dedup.py).
OncePerKey ==
  \A j, k \in Jobs :
    /\ status[j] \in Accepted /\ status[k] \in Accepted
    /\ Key[j] = Key[k] /\ Key[j] \notin Expiring
    => j = k

HeldIn(c) == {w \in Workers : task[w][c] = "done"}
RunningOf(c) == {w \in Workers : current[w] # None /\ Prio[current[w]] = c}

\* asyncio's count of unfinished items is the items queued, held by a getter
\* task, being handled or lost: task_done is called exactly once for each, so
\* it never raises ValueError and join() waits for exactly these
\* (queue.py:151-165, worker.py:61-81).
UnfinishedExact ==
  \A c \in Classes :
    unfinished[c] = Len(queue[c]) + Cardinality(HeldIn(c))
                    + Cardinality(RunningOf(c)) + lost[c]

JobsQueued ==
  Cardinality({p \in Classes \X (1..(Len(queue["high"]) + Len(queue["normal"]))) :
                 p[2] \in DOMAIN queue[p[1]] /\ queue[p[1]][p[2]] # None})
Held == Cardinality(HeldIn("high")) + Cardinality(HeldIn("normal"))
Lost == lost["high"] + lost["normal"]

\* Until a drain or a stop, the hand-kept _size is exactly the jobs queued,
\* held by getter tasks or lost by get(); it is what /health/queue reports and
\* what the "full" test of enqueue reads (queue.py:96, 104, 119, 145).
SizeAccounting ==
  ("drain" \notin Operator /\ ~stopping) =>
    size = JobsQueued + Held + Lost

\* The queues never hold more than max_size jobs (one, if max_size is 0 under
\* drop_oldest); a drain, which sets _size to 0 while getter tasks hold
\* counted jobs, raises that by at most the two tasks of each worker.
Capacity ==
  LET bound == IF MaxSize = 0 /\ DropOldest THEN 1 ELSE MaxSize
      slack == IF "drain" \in Operator THEN 2 * Cardinality(Workers) ELSE 0
  IN JobsQueued <= bound + slack

WokenOn(c) == {w \in Workers : task[w][c] = "woken" /\ <<w, c>> \notin revoked}
RevokedOn(c) == {w \in Workers : <<w, c>> \in revoked}

\* No wake-up is lost: while a worker's getter task is blocked on a class,
\* each item of that class has a woken task, or a cancelled one that will
\* pass its wake-up on, so no item waits beside an idle worker
\* (queue.py:131-138).
NoLostWakeup ==
  \A c \in Classes :
    Blocked(c) # {} =>
      Len(queue[c]) <= Cardinality(WokenOn(c)) + Cardinality(RevokedOn(c))

StatusCount(s) == Cardinality({j \in Jobs : status[j] = s})

\* The counters of /health/queue reconcile: until a drain or a stop, what was
\* enqueued is what was handled, is being handled, was evicted or is still
\* counted by size() (main.py:193-226, stats.py).
HealthReconciles ==
  ("drain" \notin Operator /\ ~stopping) =>
    stats["enqueued"] = stats["updates"] + StatusCount("running")
                        + (stats["dropped"] - StatusCount("rejected")) + size

AllExited == \A w \in Workers : pc[w] = "exited"

\* Shutdown serves what is urgent: the sentinels queue behind the high jobs,
\* so when every worker has exited no high job is left (worker.py:49-54).
StopServesHigh == AllExited => queue["high"] = << >>

-----------------------------------------------------------------------------
(* Liveness, under FairSpec *)

\* Until a stop, every accepted job is eventually handled or given up on by a
\* named mechanism; it does not wait in a queue for ever.
AcceptedResolves ==
  \A j \in Jobs :
    status[j] = "queued" ~>
      status[j] \in {"done", "evicted", "drained", "discarded"} \/ stopping

\* Once stop() was called, every worker takes its sentinel and exits, so the
\* gather of WorkerPool.stop returns (worker.py:53).
StopTerminates == stopping ~> AllExited

\* Nothing keeps join() from returning but what get() lost: until a stop, the
\* unfinished counts always come back to the items lost.  Nothing is lost with
\* one priority class in use, as in app/utils/speedcheck.py, which calls join().
JoinReturns == []<>(stopping \/ \A c \in Classes : unfinished[c] = lost[c])

-----------------------------------------------------------------------------
(* The ledger, and what the repository says *)

FateOf(s) ==
  CASE s = "new" -> "new"
    [] s = "duplicate" -> "repeated"
    [] s = "rejected" -> "refused"
    [] s \in {"queued", "held"} -> "accepted"
    [] s = "running" -> "begun"
    [] s = "done" -> "finished"
    [] OTHER -> "dropped"

Ledger == INSTANCE JobLedger WITH
            fate <- [j \in Jobs |-> FateOf(status[j])],
            remembered <- seen,
            Forgettable <- Expiring

\* The pool implements the ledger: whatever the event loop's order, an
\* accepted delivery is begun at most once and finished only after that.
ImplementsLedger == Ledger!LedgerSpec

\* What the webhook acknowledges with 200 is accepted, or repeats a delivery
\* that was (router.py:74-79; the e2e tests post an update, assert 200 and
\* wait for its effect).
AcknowledgedIsKept ==
  \A j \in Jobs :
    status[j] = "duplicate" =>
      \E k \in Jobs : Key[k] = Key[j] /\ status[k] \in Accepted

\* No job the webhook acknowledged is thrown away by get().
NeverDiscarded == \A j \in Jobs : status[j] # "discarded"
=============================================================================
