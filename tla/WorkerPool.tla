----------------------------- MODULE WorkerPool -----------------------------
(***************************************************************************)
(* app/core/worker.py on top of app/core/queue.py: the deliveries that the *)
(* webhook enqueues, the worker loops that take and handle them, the       *)
(* operator's drain and the shutdown of app/main.py.                       *)
(*                                                                         *)
(* The handler is opaque here: it ends normally or with an exception.      *)
(***************************************************************************)
EXTENDS JobQueue

CONSTANTS
  Operator,      \* what the operator may do: subset of {"drain", "stop"}
  QuiescentStop  \* stop is called only when the event loop has settled

ASSUME PoolAssumption ==
  /\ Workers # {}        \* concurrency is max(1, concurrency)
  /\ Operator \subseteq {"drain", "stop"}
  /\ QuiescentStop \in BOOLEAN

VARIABLES
  pc,        \* where each worker's loop is
  current,   \* the job each worker is handling
  stopping   \* WorkerPool.stop was called

vars == <<queue, unfinished, task, got, revoked, size, seen, stats, status,
          lost, pc, current, stopping>>

TypeOK ==
  /\ QueueTypeOK
  /\ pc \in [Workers -> {"loop", "wait", "handle", "exited"}]
  /\ current \in [Workers -> Item]
  /\ stopping \in BOOLEAN

Init ==
  /\ QueueInit
  /\ pc = [w \in Workers |-> "loop"]
  /\ current = [w \in Workers |-> None]
  /\ stopping = FALSE

-----------------------------------------------------------------------------
(* The webhook and the operator.  uvicorn stops accepting requests before    *)
(* it runs the shutdown handler, so neither acts once stop was called.       *)

Arrive(j) ==
  /\ ~stopping
  /\ Enqueue(j)
  /\ UNCHANGED <<pc, current, stopping>>

Expire(k) ==
  /\ DedupExpire(k)
  /\ UNCHANGED <<pc, current, stopping>>

OperatorDrains ==
  /\ "drain" \in Operator
  /\ ~stopping
  /\ Drain
  /\ UNCHANGED <<pc, current, stopping>>

-----------------------------------------------------------------------------
(* The worker loop *)

\* What the loop does with the item get() returned from queue c: the sentinel
\* is marked done and ends the loop, a job goes to the handler.
Receive(w, c, item) ==
  IF item = None
  THEN /\ unfinished' = Add(unfinished, c, -1)
       /\ pc' = [pc EXCEPT ![w] = "exited"]
       /\ UNCHANGED current
  ELSE /\ pc' = [pc EXCEPT ![w] = "handle"]
       /\ current' = [current EXCEPT ![w] = item]
       /\ UNCHANGED unfinished

TakeReady(w) ==
  /\ pc[w] = "loop"
  /\ GetReady(w)
  /\ Receive(w, IF queue["high"] # << >> THEN "high" ELSE "normal", ReadyItem)
  /\ status' = Mark(status, ReadyItem, "running")
  /\ UNCHANGED stopping

StartWaiting(w) ==
  /\ pc[w] = "loop"
  /\ GetWait(w)
  /\ pc' = [pc EXCEPT ![w] = "wait"]
  /\ UNCHANGED <<current, stopping>>

GetterStep(w, c) ==
  /\ TaskTakes(w, c) \/ TaskBlocks(w, c) \/ TaskRevoked(w, c)
  /\ UNCHANGED <<pc, current, stopping>>

Resume(w, c) ==
  /\ pc[w] = "wait"
  /\ GetResumes(w, c)
  /\ Receive(w, c, got[w][c])
  /\ status' = Mark(Mark(status, got[w][c], "running"),
                    Unread(w, c), "discarded")
  /\ UNCHANGED stopping

\* The job is not marked done.
Handled_Bug(w) ==
  LET j == current[w]
  IN /\ pc[w] = "handle"
     /\ stats' = Count("updates")
     /\ status' = [status EXCEPT ![j] = "done"]
     /\ pc' = [pc EXCEPT ![w] = "loop"]
     /\ current' = [current EXCEPT ![w] = None]
     /\ UNCHANGED <<queue, unfinished, task, got, revoked, size, seen, lost,
                    stopping>>

\* The handler returns or raises; in both cases the finally clause counts the
\* job and marks it done on the queue of its priority, and the loop goes on.
Handled(w) ==
  LET j == current[w]
  IN /\ pc[w] = "handle"
     /\ stats' = Count("updates")
     /\ unfinished' = Add(unfinished, Prio[j], -1)
     /\ status' = [status EXCEPT ![j] = "done"]
     /\ pc' = [pc EXCEPT ![w] = "loop"]
     /\ current' = [current EXCEPT ![w] = None]
     /\ UNCHANGED <<queue, task, got, revoked, size, seen, lost, stopping>>

-----------------------------------------------------------------------------
(* Shutdown *)

\* Nothing is scheduled on the event loop: every getter task is blocked.
Settled ==
  /\ revoked = {}
  /\ \A w \in Workers, c \in Classes :
       task[w][c] \notin {"new", "woken", "done"}

Stop ==
  /\ "stop" \in Operator
  /\ ~stopping
  /\ QuiescentStop => Settled
  /\ stopping' = TRUE
  /\ PutSentinels
  /\ UNCHANGED <<pc, current>>

-----------------------------------------------------------------------------

WorkerStep(w) ==
  \/ TakeReady(w)
  \/ StartWaiting(w)
  \/ \E c \in Classes : GetterStep(w, c)
  \/ \E c \in Classes : Resume(w, c)
  \/ Handled(w)

Next ==
  \/ \E j \in Jobs : Arrive(j)
  \/ \E k \in Keys : Expire(k)
  \/ OperatorDrains
  \/ \E w \in Workers : WorkerStep(w)
  \/ Stop

Spec == Init /\ [][Next]_vars

\* The event loop runs every ready task, so each getter task, each resumed
\* get() and each loop iteration eventually takes its step; every await of
\* the handlers has a timeout, so a handler eventually ends.
Fairness ==
  \A w \in Workers :
    /\ WF_vars(TakeReady(w) \/ StartWaiting(w))
    /\ \A c \in Classes : WF_vars(GetterStep(w, c))
    /\ WF_vars(\E c \in Classes : Resume(w, c))
    /\ WF_vars(Handled(w))

FairSpec == Spec /\ Fairness
=============================================================================
