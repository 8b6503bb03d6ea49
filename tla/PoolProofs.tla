----------------------------- MODULE PoolProofs -----------------------------
(***************************************************************************)
(* Theorems about the queue and the worker pool, for every set of          *)
(* deliveries, keys and workers, every max_size and both full policies.    *)
(***************************************************************************)
EXTENDS PoolProperties, FiniteSetTheorems, TLAPS

-----------------------------------------------------------------------------
(* Facts about the operators the actions are built from *)

\* The two priority classes are each other's Other.
LEMMA OtherClass ==
  \A c \in Classes : /\ Other(c) \in Classes
                     /\ Other(c) # c
                     /\ \A x \in Classes : x = c \/ x = Other(c)
  BY DEF Classes, Other

\* A wake-up changes nothing of task but one blocked entry of class c, which
\* becomes woken.
LEMMA WakeOneType ==
  ASSUME TypeOK, NEW c \in Classes, WakeOne(c)
  PROVE  task' \in [Workers -> [Classes -> TaskState]]
<1>1. CASE Blocked(c) = {}
  BY <1>1 DEF TypeOK, QueueTypeOK, WakeOne
<1>2. CASE Blocked(c) # {}
  <2>1. PICK w \in Workers : task' = [task EXCEPT ![w][c] = "woken"]
    BY <1>2 DEF WakeOne, Blocked
  <2>2. "woken" \in TaskState
    BY DEF TaskState
  <2> QED
    BY <2>1, <2>2 DEF TypeOK, QueueTypeOK
<1> QED BY <1>1, <1>2

LEMMA CountType ==
  ASSUME TypeOK, NEW n \in Counters
  PROVE  Count(n) \in [Counters -> Nat]
  BY DEF TypeOK, QueueTypeOK, Count

LEMMA MarkType ==
  ASSUME NEW st \in [Jobs -> Status], NEW x \in Item, NEW s \in Status
  PROVE  Mark(st, x, s) \in [Jobs -> Status]
  BY DEF Mark, Item

\* Putting a job and taking the head keep the queues sequences of items.
LEMMA PushedType ==
  ASSUME NEW q \in [Classes -> Seq(Item)], NEW j \in Jobs
  PROVE  Pushed(q, j) \in [Classes -> Seq(Item)]
<1>1. Prio[j] \in Classes /\ j \in Item
  BY QueueAssumption DEF Item
<1> QED BY <1>1 DEF Pushed

LEMMA PoppedType ==
  ASSUME NEW q \in [Classes -> Seq(Item)], NEW c \in Classes, q[c] # << >>
  PROVE  /\ Popped(q, c) \in [Classes -> Seq(Item)]
         /\ Head(q[c]) \in Item
  BY DEF Popped

LEMMA AddType ==
  ASSUME NEW u \in [Classes -> Int], NEW c \in Classes, NEW n \in Int
  PROVE  Add(u, c, n) \in [Classes -> Int]
  BY DEF Add

LEMMA PutType ==
  ASSUME TypeOK, NEW j \in Jobs, Put(j)
  PROVE  /\ queue' \in [Classes -> Seq(Item)]
         /\ unfinished' \in [Classes -> Int]
         /\ task' \in [Workers -> [Classes -> TaskState]]
<1>1. Prio[j] \in Classes
  BY QueueAssumption
<1>2. queue \in [Classes -> Seq(Item)] /\ unfinished \in [Classes -> Int]
  BY DEF TypeOK, QueueTypeOK
<1>3. queue' \in [Classes -> Seq(Item)]
  BY <1>2, PushedType DEF Put
<1>4. unfinished' \in [Classes -> Int]
  BY <1>1, <1>2, AddType DEF Put
<1>5. task' \in [Workers -> [Classes -> TaskState]]
  BY <1>1, WakeOneType DEF Put
<1> QED BY <1>3, <1>4, <1>5

-----------------------------------------------------------------------------
(* Type correctness *)

LEMMA InitType == Init => TypeOK
<1> SUFFICES ASSUME Init PROVE TypeOK
  OBVIOUS
<1>1. None \in Item /\ "none" \in TaskState /\ "new" \in Status
  BY DEF Item, TaskState, Status
<1>2. << >> \in Seq(Item)
  OBVIOUS
<1>3. QueueTypeOK
  BY <1>1, <1>2 DEF Init, QueueInit, QueueTypeOK
<1> QED BY <1>1, <1>3 DEF Init, TypeOK

LEMMA ArriveType ==
  ASSUME TypeOK, NEW j \in Jobs, Arrive(j)
  PROVE  TypeOK'
<1>0. /\ Key[j] \in Keys
      /\ Prio[j] \in Classes
      /\ MaxSize \in Nat
      /\ {"enqueued", "dropped", "deduped"} \subseteq Counters
      /\ {"duplicate", "rejected", "queued", "evicted"} \subseteq Status
  BY QueueAssumption DEF Counters, Status
<1>1. /\ pc' = pc /\ current' = current /\ stopping' = stopping
      /\ Enqueue(j)
  BY DEF Arrive
<1>2. CASE EnqueueDuplicate(j)
  BY <1>0, <1>1, <1>2, CountType DEF EnqueueDuplicate, TypeOK, QueueTypeOK
<1>3. CASE EnqueueRejected(j)
  BY <1>0, <1>1, <1>3, CountType
     DEF EnqueueRejected, FirstSeen, TypeOK, QueueTypeOK
<1>4. CASE EnqueueWithRoom(j)
  <2>1. /\ queue' \in [Classes -> Seq(Item)]
        /\ unfinished' \in [Classes -> Int]
        /\ task' \in [Workers -> [Classes -> TaskState]]
    BY <1>4, PutType DEF EnqueueWithRoom
  <2>2. stats' \in [Counters -> Nat] /\ status' \in [Jobs -> Status]
    BY <1>0, <1>4, CountType DEF EnqueueWithRoom, TypeOK, QueueTypeOK
  <2> QED
    BY <1>0, <1>1, <1>4, <2>1, <2>2
       DEF EnqueueWithRoom, FirstSeen, TypeOK, QueueTypeOK
<1>5. CASE EnqueueEvicting(j)
  <2> DEFINE v == VictimClass
             m == Mark(status, Head(queue[v]), "evicted")
  <2>1. v \in Classes /\ queue[v] # << >>
    BY <1>5 DEF EnqueueEvicting, VictimClass, Classes
  <2> HIDE DEF v
  <2>2. queue \in [Classes -> Seq(Item)] /\ unfinished \in [Classes -> Int]
    BY DEF TypeOK, QueueTypeOK
  <2>3. Head(queue[v]) \in Item /\ Popped(queue, v) \in [Classes -> Seq(Item)]
    BY <2>1, <2>2, PoppedType
  <2>4. queue' \in [Classes -> Seq(Item)]
    BY <1>5, <2>3, PushedType DEF EnqueueEvicting, v
  <2>5. unfinished' \in [Classes -> Int]
    <3>1. Add(unfinished, v, -1) \in [Classes -> Int]
      BY <2>1, <2>2, AddType
    <3> QED BY <1>0, <1>5, <3>1, AddType DEF EnqueueEvicting, v
  <2>6. task' \in [Workers -> [Classes -> TaskState]]
    BY <1>0, <1>5, WakeOneType DEF EnqueueEvicting
  <2>7. m \in [Jobs -> Status]
    BY <2>3, <1>0, MarkType DEF TypeOK, QueueTypeOK
  <2> HIDE DEF m
  <2>8. status' \in [Jobs -> Status]
    BY <1>0, <1>5, <2>7 DEF EnqueueEvicting, m, v
  <2>9. /\ size' \in Nat /\ stats' \in [Counters -> Nat] /\ seen' \subseteq Keys
        /\ got' = got /\ revoked' = revoked /\ lost' = lost
    <3>1. /\ size' = Decremented(size) + 1 /\ seen' = seen \cup {Key[j]}
          /\ stats' = [stats EXCEPT !["dropped"] = @ + 1, !["enqueued"] = @ + 1]
          /\ got' = got /\ revoked' = revoked /\ lost' = lost
      BY <1>5 DEF EnqueueEvicting, FirstSeen
    <3>2. size' \in Nat
      BY <3>1 DEF Decremented, TypeOK, QueueTypeOK
    <3>3. seen' \subseteq Keys
      BY <1>0, <3>1 DEF TypeOK, QueueTypeOK
    <3>4. stats' \in [Counters -> Nat]
      <4>1. /\ stats \in [Counters -> Nat] /\ "dropped" \in Counters
            /\ "enqueued" \in Counters
        BY DEF TypeOK, QueueTypeOK, Counters
      <4> QED BY <3>1, <4>1
    <3> QED BY <3>1, <3>2, <3>3, <3>4
  <2> QED
    BY <1>1, <2>4, <2>5, <2>6, <2>8, <2>9 DEF TypeOK, QueueTypeOK
<1>6. CASE EnqueueOverfull(j)
  <2>1. /\ queue' \in [Classes -> Seq(Item)]
        /\ unfinished' \in [Classes -> Int]
        /\ task' \in [Workers -> [Classes -> TaskState]]
    BY <1>6, PutType DEF EnqueueOverfull
  <2>2. stats' \in [Counters -> Nat] /\ status' \in [Jobs -> Status]
    BY <1>0, <1>6, CountType DEF EnqueueOverfull, TypeOK, QueueTypeOK
  <2> QED
    BY <1>0, <1>1, <1>6, <2>1, <2>2
       DEF EnqueueOverfull, FirstSeen, TypeOK, QueueTypeOK
<1> QED BY <1>1, <1>2, <1>3, <1>4, <1>5, <1>6 DEF Enqueue

LEMMA DrainType ==
  ASSUME TypeOK, OperatorDrains
  PROVE  TypeOK'
<1>1. queue' \in [Classes -> Seq(Item)] /\ unfinished' \in [Classes -> Int]
  <2>1. \A c \in Classes : unfinished[c] \in Int /\ Len(queue[c]) \in Int
    BY DEF TypeOK, QueueTypeOK
  <2> QED BY <2>1 DEF OperatorDrains, Drain
<1>2. status' \in [Jobs -> Status] /\ size' \in Nat
  <2>1. "drained" \in Status
    BY DEF Status
  <2> QED BY <2>1 DEF OperatorDrains, Drain, TypeOK, QueueTypeOK
<1> QED BY <1>1, <1>2 DEF OperatorDrains, Drain, TypeOK, QueueTypeOK

LEMMA ReceiveType ==
  ASSUME TypeOK, NEW w \in Workers, NEW c \in Classes, NEW item \in Item,
         Receive(w, c, item)
  PROVE  /\ unfinished' \in [Classes -> Int]
         /\ pc' \in [Workers -> {"loop", "wait", "handle", "exited"}]
         /\ current' \in [Workers -> Item]
<1>1. unfinished \in [Classes -> Int]
  BY DEF TypeOK, QueueTypeOK
<1>2. CASE item = None
  BY <1>1, <1>2, AddType DEF Receive, TypeOK
<1>3. CASE item # None
  BY <1>1, <1>3 DEF Receive, TypeOK
<1> QED BY <1>2, <1>3

\* The class a non-waiting get() takes its item from.
ReadyClass == IF queue["high"] # << >> THEN "high" ELSE "normal"

\* TakeReady in terms of ReadyClass.
LEMMA TakeReadyExpanded ==
  ASSUME NEW w \in Workers, TakeReady(w)
  PROVE  /\ ReadyClass \in Classes
         /\ pc[w] = "loop"
         /\ queue[ReadyClass] # << >>
         /\ queue' = Popped(queue, ReadyClass)
         /\ Receive(w, ReadyClass, Head(queue[ReadyClass]))
         /\ status' = Mark(status, Head(queue[ReadyClass]), "running")
         /\ size' = Decremented(size)
         /\ UNCHANGED <<task, got, revoked, seen, stats, lost, stopping>>
<1>1. CASE queue["high"] # << >>
  BY <1>1 DEF TakeReady, GetReady, ReadyItem, ReadyClass, Classes
<1>2. CASE queue["high"] = << >>
  BY <1>2 DEF TakeReady, GetReady, ReadyItem, ReadyClass, Classes
<1> QED BY <1>1, <1>2

LEMMA TakeReadyType ==
  ASSUME TypeOK, NEW w \in Workers, TakeReady(w)
  PROVE  TypeOK'
<1> DEFINE c == ReadyClass
<1>1. /\ c \in Classes
      /\ queue[c] # << >>
      /\ queue' = Popped(queue, c)
      /\ Receive(w, c, Head(queue[c]))
      /\ status' = Mark(status, Head(queue[c]), "running")
      /\ size' = Decremented(size)
      /\ UNCHANGED <<task, got, revoked, seen, stats, lost, stopping>>
  BY TakeReadyExpanded
<1> HIDE DEF c
<1>2. queue \in [Classes -> Seq(Item)]
  BY DEF TypeOK, QueueTypeOK
<1>3. Head(queue[c]) \in Item /\ queue' \in [Classes -> Seq(Item)]
  BY <1>1, <1>2, PoppedType
<1>4. "running" \in Status
  BY DEF Status
<1>5. status' \in [Jobs -> Status]
  BY <1>1, <1>3, <1>4, MarkType DEF TypeOK, QueueTypeOK
<1>6. size' \in Nat
  BY <1>1 DEF Decremented, TypeOK, QueueTypeOK
<1>7. /\ unfinished' \in [Classes -> Int]
      /\ pc' \in [Workers -> {"loop", "wait", "handle", "exited"}]
      /\ current' \in [Workers -> Item]
  BY <1>1, <1>3, ReceiveType
<1> QED BY <1>1, <1>3, <1>5, <1>6, <1>7 DEF TypeOK, QueueTypeOK

LEMMA StartWaitingType ==
  ASSUME TypeOK, NEW w \in Workers, StartWaiting(w)
  PROVE  TypeOK'
<1>1. "new" \in TaskState
  BY DEF TaskState
<1> QED BY <1>1 DEF StartWaiting, GetWait, TypeOK, QueueTypeOK

LEMMA GetterStepType ==
  ASSUME TypeOK, NEW w \in Workers, NEW c \in Classes, GetterStep(w, c)
  PROVE  TypeOK'
<1>0. {"done", "blocked"} \subseteq TaskState /\ "held" \in Status
  BY DEF TaskState, Status
<1>1. pc' = pc /\ current' = current /\ stopping' = stopping
  BY DEF GetterStep
<1>2. CASE TaskTakes(w, c)
  <2>1. queue \in [Classes -> Seq(Item)] /\ queue[c] # << >>
    BY <1>2 DEF TaskTakes, TypeOK, QueueTypeOK
  <2>2. Head(queue[c]) \in Item /\ queue' \in [Classes -> Seq(Item)]
    BY <1>2, <2>1, PoppedType DEF TaskTakes
  <2>3. status' \in [Jobs -> Status]
    BY <1>0, <1>2, <2>2, MarkType DEF TaskTakes, TypeOK, QueueTypeOK
  <2>4. /\ task' \in [Workers -> [Classes -> TaskState]]
        /\ got' \in [Workers -> [Classes -> Item]]
    BY <1>0, <1>2, <2>2 DEF TaskTakes, TypeOK, QueueTypeOK
  <2> QED
    BY <1>1, <1>2, <2>2, <2>3, <2>4 DEF TaskTakes, TypeOK, QueueTypeOK
<1>3. CASE TaskBlocks(w, c)
  BY <1>0, <1>1, <1>3 DEF TaskBlocks, TypeOK, QueueTypeOK
<1>4. CASE TaskRevoked(w, c)
  <2>1. task' \in [Workers -> [Classes -> TaskState]]
    <3>1. CASE queue[c] # << >>
      BY <1>4, <3>1, WakeOneType DEF TaskRevoked
    <3>2. CASE queue[c] = << >>
      BY <1>4, <3>2 DEF TaskRevoked, TypeOK, QueueTypeOK
    <3> QED BY <3>1, <3>2
  <2> QED BY <1>1, <1>4, <2>1 DEF TaskRevoked, TypeOK, QueueTypeOK
<1> QED BY <1>2, <1>3, <1>4 DEF GetterStep

LEMMA ResumeType ==
  ASSUME TypeOK, NEW w \in Workers, NEW c \in Classes, Resume(w, c)
  PROVE  TypeOK'
<1> DEFINE o == Other(c)
           kept == Mark(status, got[w][c], "running")
<1>0. o \in Classes /\ {"running", "discarded"} \subseteq Status
  BY OtherClass DEF Status
<1>1. /\ GetResumes(w, c)
      /\ Receive(w, c, got[w][c])
      /\ status' = Mark(kept, Unread(w, c), "discarded")
      /\ stopping' = stopping
  BY DEF Resume
<1>2. got[w][c] \in Item /\ Unread(w, c) \in Item
  BY <1>0 DEF Unread, Item, TypeOK, QueueTypeOK
<1>3. kept \in [Jobs -> Status]
  BY <1>0, <1>2, MarkType DEF TypeOK, QueueTypeOK
<1> HIDE DEF kept
<1>4. status' \in [Jobs -> Status]
  BY <1>0, <1>1, <1>2, <1>3, MarkType
<1>5. /\ unfinished' \in [Classes -> Int]
      /\ pc' \in [Workers -> {"loop", "wait", "handle", "exited"}]
      /\ current' \in [Workers -> Item]
  BY <1>1, <1>2, ReceiveType
<1>6. /\ task' \in [Workers -> [Classes -> TaskState]]
      /\ got' \in [Workers -> [Classes -> Item]]
  <2>1. "none" \in TaskState /\ None \in Item
    BY DEF TaskState, Item
  <2> QED BY <1>1, <2>1 DEF GetResumes, TypeOK, QueueTypeOK
<1>7. revoked' \subseteq Workers \X Classes
  BY <1>0, <1>1 DEF GetResumes, TypeOK, QueueTypeOK
<1>8. lost' \in [Classes -> Nat] /\ size' \in Nat
  BY <1>0, <1>1 DEF GetResumes, Decremented, TypeOK, QueueTypeOK
<1>9. queue' = queue /\ seen' = seen /\ stats' = stats
  BY <1>1 DEF GetResumes
<1> QED
  BY <1>1, <1>4, <1>5, <1>6, <1>7, <1>8, <1>9 DEF TypeOK, QueueTypeOK

\* A worker in its handler has a job.
Handling ==
  \A w \in Workers : pc[w] = "handle" <=> current[w] # None

LEMMA HandledType ==
  ASSUME TypeOK, Handling, NEW w \in Workers, Handled(w)
  PROVE  TypeOK'
<1>1. current[w] \in Jobs
  BY DEF Handled, Handling, TypeOK, Item
<1>2. /\ Prio[current[w]] \in Classes /\ "updates" \in Counters
      /\ "done" \in Status /\ None \in Item
  BY <1>1, QueueAssumption DEF Counters, Status, Item
<1>3. unfinished' \in [Classes -> Int]
  <2>1. unfinished \in [Classes -> Int]
    BY DEF TypeOK, QueueTypeOK
  <2> QED BY <1>2, <2>1, AddType DEF Handled
<1>4. stats' \in [Counters -> Nat]
  BY <1>2, CountType DEF Handled
<1>5. status' \in [Jobs -> Status]
  BY <1>1, <1>2 DEF Handled, TypeOK, QueueTypeOK
<1>6. /\ pc' \in [Workers -> {"loop", "wait", "handle", "exited"}]
      /\ current' \in [Workers -> Item]
  BY <1>2 DEF Handled, TypeOK
<1> QED
  BY <1>3, <1>4, <1>5, <1>6 DEF Handled, TypeOK, QueueTypeOK

\* The sentinels stop() appends.
LEMMA SentinelsType ==
  ASSUME NEW n \in Nat
  PROVE  [i \in 1..n |-> None] \in Seq(Item)
  BY DEF Item

LEMMA StopType ==
  ASSUME TypeOK, Stop
  PROVE  TypeOK'
<1> DEFINE n == Cardinality(Workers)
           nones == [i \in 1..n |-> None]
<1>1. n \in Nat
  BY QueueAssumption, FS_CardinalityType
<1>2. nones \in Seq(Item)
  BY <1>1, SentinelsType
<1>3. "high" \in Classes /\ "woken" \in TaskState
  BY DEF Classes, TaskState
<1>4. queue \in [Classes -> Seq(Item)] /\ unfinished \in [Classes -> Int]
  BY DEF TypeOK, QueueTypeOK
<1>5. queue' \in [Classes -> Seq(Item)]
  <2>1. queue' = [queue EXCEPT !["high"] = @ \o nones]
    BY DEF Stop, PutSentinels
  <2> HIDE DEF nones
  <2>2. queue["high"] \o nones \in Seq(Item)
    BY <1>2, <1>3, <1>4
  <2> QED BY <1>3, <1>4, <2>1, <2>2
<1>6. unfinished' \in [Classes -> Int]
  <2>1. unfinished' = Add(unfinished, "high", n)
    BY DEF Stop, PutSentinels
  <2> HIDE DEF n
  <2> QED BY <1>1, <1>3, <1>4, <2>1, AddType
<1>7. task' \in [Workers -> [Classes -> TaskState]]
  BY <1>3 DEF Stop, PutSentinels, TypeOK, QueueTypeOK
<1> QED
  BY <1>5, <1>6, <1>7 DEF Stop, PutSentinels, TypeOK, QueueTypeOK

\* Handling, with what a waiting worker's tasks can be: a worker that does
\* not wait has no task, one that waits has started both.
Waiting ==
  \A w \in Workers, c \in Classes : pc[w] = "wait" <=> task[w][c] # "none"

LEMMA HandlingInit == Init => Handling /\ Waiting
  BY DEF Init, QueueInit, Handling, Waiting

LEMMA WakeOneWaiting ==
  ASSUME TypeOK, Waiting, NEW c \in Classes, WakeOne(c), pc' = pc
  PROVE  Waiting'
<1>1. CASE Blocked(c) = {}
  BY <1>1 DEF WakeOne, Waiting
<1>2. CASE Blocked(c) # {}
  <2>1. PICK w \in Workers : /\ task[w][c] = "blocked"
                             /\ task' = [task EXCEPT ![w][c] = "woken"]
    BY <1>2 DEF WakeOne, Blocked
  <2> QED BY <2>1 DEF TypeOK, QueueTypeOK, Waiting
<1> QED BY <1>1, <1>2

LEMMA ReceiveHandling ==
  ASSUME TypeOK, Handling, NEW w \in Workers, NEW c \in Classes,
         NEW item \in Item, Receive(w, c, item), pc[w] # "handle"
  PROVE  Handling'
<1>1. CASE item = None
  BY <1>1 DEF Receive, Handling, TypeOK
<1>2. CASE item # None
  BY <1>2 DEF Receive, Handling, TypeOK
<1> QED BY <1>1, <1>2

LEMMA WorkerStepHandling ==
  ASSUME TypeOK, Handling, Waiting, NEW w \in Workers, WorkerStep(w)
  PROVE  Handling' /\ Waiting'
<1>1. CASE TakeReady(w)
  <2>1. /\ ReadyClass \in Classes /\ pc[w] = "loop" /\ task' = task
        /\ queue[ReadyClass] # << >>
        /\ Receive(w, ReadyClass, Head(queue[ReadyClass]))
    BY <1>1, TakeReadyExpanded
  <2>2. Head(queue[ReadyClass]) \in Item
    BY <2>1, PoppedType DEF TypeOK, QueueTypeOK
  <2>3. Handling'
    BY <2>1, <2>2, ReceiveHandling
  <2>4. \/ pc' = [pc EXCEPT ![w] = "exited"]
        \/ pc' = [pc EXCEPT ![w] = "handle"]
    BY <2>1 DEF Receive
  <2> QED BY <2>1, <2>3, <2>4 DEF Waiting, TypeOK
<1>2. CASE StartWaiting(w)
  BY <1>2 DEF StartWaiting, GetWait, Handling, Waiting, TypeOK, QueueTypeOK
<1>3. ASSUME NEW c \in Classes, GetterStep(w, c)
      PROVE  Handling' /\ Waiting'
  <2>1. pc' = pc /\ current' = current
    BY <1>3 DEF GetterStep
  <2>2. CASE TaskTakes(w, c)
    BY <2>1, <2>2 DEF TaskTakes, Handling, Waiting, TypeOK, QueueTypeOK
  <2>3. CASE TaskBlocks(w, c)
    BY <2>1, <2>3 DEF TaskBlocks, Handling, Waiting, TypeOK, QueueTypeOK
  <2>4. CASE TaskRevoked(w, c)
    <3>1. Handling'
      BY <2>1 DEF Handling
    <3>2. CASE queue[c] # << >>
      BY <2>1, <2>4, <3>1, <3>2, WakeOneWaiting DEF TaskRevoked
    <3>3. CASE queue[c] = << >>
      BY <2>1, <2>4, <3>1, <3>3 DEF TaskRevoked, Waiting
    <3> QED BY <3>2, <3>3
  <2> QED BY <1>3, <2>2, <2>3, <2>4 DEF GetterStep
<1>4. ASSUME NEW c \in Classes, Resume(w, c)
      PROVE  Handling' /\ Waiting'
  <2>1. /\ pc[w] = "wait" /\ Receive(w, c, got[w][c])
        /\ task' = [task EXCEPT ![w] = [d \in Classes |-> "none"]]
    BY <1>4 DEF Resume, GetResumes
  <2>2. got[w][c] \in Item
    BY DEF TypeOK, QueueTypeOK
  <2>3. Handling'
    BY <2>1, <2>2, ReceiveHandling
  <2>4. \/ pc' = [pc EXCEPT ![w] = "exited"]
        \/ pc' = [pc EXCEPT ![w] = "handle"]
    BY <2>1 DEF Receive
  <2> QED BY <2>1, <2>3, <2>4 DEF Waiting, TypeOK, QueueTypeOK
<1>5. CASE Handled(w)
  BY <1>5 DEF Handled, Handling, Waiting, TypeOK, QueueTypeOK
<1> QED BY <1>1, <1>2, <1>3, <1>4, <1>5 DEF WorkerStep

LEMMA EnvironmentHandling ==
  ASSUME TypeOK, Handling, Waiting,
         \/ \E j \in Jobs : Arrive(j)
         \/ \E k \in Keys : Expire(k)
         \/ OperatorDrains
         \/ Stop
  PROVE  Handling' /\ Waiting'
<1>1. pc' = pc /\ current' = current
  BY DEF Arrive, Expire, OperatorDrains, Stop
<1>2. Handling'
  BY <1>1 DEF Handling
<1>3. ASSUME NEW j \in Jobs, Arrive(j) PROVE Waiting'
  <2>1. Prio[j] \in Classes
    BY QueueAssumption
  <2>2. task' = task \/ WakeOne(Prio[j])
    BY <1>3 DEF Arrive, Enqueue, EnqueueDuplicate, EnqueueRejected,
                EnqueueWithRoom, EnqueueEvicting, EnqueueOverfull, Put
  <2>3. CASE task' = task
    BY <1>1, <2>3 DEF Waiting
  <2>4. CASE WakeOne(Prio[j])
    BY <1>1, <2>1, <2>4, WakeOneWaiting
  <2> QED BY <2>2, <2>3, <2>4
<1>4. ASSUME \/ \E k \in Keys : Expire(k)
             \/ OperatorDrains
      PROVE  Waiting'
  <2>1. task' = task
    BY <1>4 DEF Expire, DedupExpire, OperatorDrains, Drain
  <2> QED BY <1>1, <2>1 DEF Waiting
<1>5. ASSUME Stop PROVE Waiting'
  BY <1>1, <1>5 DEF Stop, PutSentinels, Waiting, TypeOK, QueueTypeOK
<1> QED BY <1>2, <1>3, <1>4, <1>5

\* Every step preserves types, together with what makes current[w] a job.
LEMMA TypeStep ==
  ASSUME TypeOK, Handling, Waiting, [Next]_vars
  PROVE  TypeOK' /\ Handling' /\ Waiting'
<1>1. ASSUME NEW j \in Jobs, Arrive(j)
      PROVE  TypeOK' /\ Handling' /\ Waiting'
  BY <1>1, ArriveType, EnvironmentHandling
<1>2. ASSUME NEW k \in Keys, Expire(k)
      PROVE  TypeOK' /\ Handling' /\ Waiting'
  <2>1. TypeOK'
    BY <1>2 DEF Expire, DedupExpire, TypeOK, QueueTypeOK
  <2> QED BY <1>2, <2>1, EnvironmentHandling
<1>3. CASE OperatorDrains
  BY <1>3, DrainType, EnvironmentHandling
<1>4. CASE Stop
  BY <1>4, StopType, EnvironmentHandling
<1>5. ASSUME NEW w \in Workers, WorkerStep(w)
      PROVE  TypeOK' /\ Handling' /\ Waiting'
  <2>1. TypeOK'
    BY <1>5, TakeReadyType, StartWaitingType, GetterStepType, ResumeType,
       HandledType DEF WorkerStep
  <2> QED BY <1>5, <2>1, WorkerStepHandling
<1>6. CASE UNCHANGED vars
  BY <1>6 DEF vars, TypeOK, QueueTypeOK, Handling, Waiting
<1> QED BY <1>1, <1>2, <1>3, <1>4, <1>5, <1>6 DEF Next

(***************************************************************************)
(* The state of the queue, the getter tasks and the workers always has the *)
(* shape the code relies on.                                               *)
(***************************************************************************)
THEOREM TypeCorrect == Spec => []TypeOK
<1>1. Init => TypeOK /\ Handling /\ Waiting
  BY InitType, HandlingInit
<1>2. TypeOK /\ Handling /\ Waiting /\ [Next]_vars
      => TypeOK' /\ Handling' /\ Waiting'
  BY TypeStep
<1> QED BY <1>1, <1>2, PTL DEF Spec

-----------------------------------------------------------------------------
(* A delivery in flight is in exactly one place.  Each action moves at most  *)
(* a few deliveries, and each move is leaving one place and entering another;*)
(* the lemmas are about the single moves.                                    *)


Queues == [Classes -> Seq(Item)]
Statuses == [Jobs -> Status]

-----------------------------------------------------------------------------
(* Index facts about the two queue operations *)

LEMMA PoppedIndex ==
  ASSUME NEW q \in Queues, NEW c \in Classes, q[c] # << >>
  PROVE  /\ Popped(q, c) \in Queues
         /\ Len(q[c]) \in Nat \ {0}
         /\ Len(Popped(q, c)[c]) = Len(q[c]) - 1
         /\ \A i \in 1..(Len(q[c]) - 1) : Popped(q, c)[c][i] = q[c][i + 1]
         /\ \A d \in Classes : d # c => Popped(q, c)[d] = q[d]
         /\ Head(q[c]) = q[c][1]
         /\ Head(q[c]) \in Item
<1>1. q[c] \in Seq(Item)
  BY DEF Queues
<1>2. Popped(q, c) \in Queues /\ Head(q[c]) \in Item
  BY PoppedType DEF Queues
<1>3. /\ Popped(q, c)[c] = Tail(q[c])
      /\ \A d \in Classes : d # c => Popped(q, c)[d] = q[d]
  BY DEF Popped, Queues
<1> QED BY <1>1, <1>2, <1>3

LEMMA PushedIndex ==
  ASSUME NEW q \in Queues, NEW j \in Jobs
  PROVE  /\ Pushed(q, j) \in Queues
         /\ Len(q[Prio[j]]) \in Nat
         /\ Len(Pushed(q, j)[Prio[j]]) = Len(q[Prio[j]]) + 1
         /\ \A i \in 1..Len(q[Prio[j]]) :
              Pushed(q, j)[Prio[j]][i] = q[Prio[j]][i]
         /\ Pushed(q, j)[Prio[j]][Len(q[Prio[j]]) + 1] = j
         /\ \A d \in Classes : d # Prio[j] => Pushed(q, j)[d] = q[d]
<1>1. Prio[j] \in Classes /\ j \in Item
  BY QueueAssumption DEF Item
<1>2. Pushed(q, j) \in Queues
  BY PushedType DEF Queues
<1>3. /\ Pushed(q, j)[Prio[j]] = Append(q[Prio[j]], j)
      /\ \A d \in Classes : d # Prio[j] => Pushed(q, j)[d] = q[d]
  BY <1>1 DEF Pushed, Queues
<1>4. q[Prio[j]] \in Seq(Item)
  BY <1>1 DEF Queues
<1> QED BY <1>1, <1>2, <1>3, <1>4

-----------------------------------------------------------------------------
(* Statuses that change elsewhere do not matter to a place *)

LEMMA QueueFrame ==
  ASSUME NEW q, NEW st, NEW t,
         \A j \in Jobs : st[j] = "queued" <=> t[j] = "queued",
         QueuePlaced(q, st)
  PROVE  QueuePlaced(q, t)
  BY DEF QueuePlaced

LEMMA TasksFrame ==
  ASSUME NEW g, NEW st, NEW t,
         \A j \in Jobs : st[j] = "held" <=> t[j] = "held",
         TasksPlaced(g, st)
  PROVE  TasksPlaced(g, t)
  BY DEF TasksPlaced

LEMMA WorkersFrame ==
  ASSUME NEW cur, NEW st, NEW t,
         \A j \in Jobs : st[j] = "running" <=> t[j] = "running",
         WorkersPlaced(cur, st)
  PROVE  WorkersPlaced(cur, t)
  BY DEF WorkersPlaced

-----------------------------------------------------------------------------
(* Entering and leaving the queue *)

\* A job that is nowhere enters the queue of its class.
LEMMA EnterQueue ==
  ASSUME NEW q \in Queues, NEW st \in Statuses, NEW j \in Jobs,
         QueuePlaced(q, st), st[j] # "queued"
  PROVE  QueuePlaced(Pushed(q, j), [st EXCEPT ![j] = "queued"])
<1> DEFINE p == Pushed(q, j)
           t == [st EXCEPT ![j] = "queued"]
<1>1. /\ Prio[j] \in Classes
      /\ \A k \in Jobs : t[k] = IF k = j THEN "queued" ELSE st[k]
  BY QueueAssumption DEF Statuses
<1>2. /\ Len(q[Prio[j]]) \in Nat
      /\ Len(p[Prio[j]]) = Len(q[Prio[j]]) + 1
      /\ \A i \in 1..Len(q[Prio[j]]) : p[Prio[j]][i] = q[Prio[j]][i]
      /\ p[Prio[j]][Len(q[Prio[j]]) + 1] = j
      /\ \A d \in Classes : d # Prio[j] => p[d] = q[d]
  BY PushedIndex
<1>3. \A c \in Classes : \A i \in 1..Len(q[c]) : q[c][i] # j
  BY DEF QueuePlaced
<1>4. \A c \in Classes : \A i \in 1..Len(p[c]) :
        \/ i \in 1..Len(q[c]) /\ p[c][i] = q[c][i]
        \/ c = Prio[j] /\ i = Len(q[c]) + 1 /\ p[c][i] = j
  <2> SUFFICES ASSUME NEW c \in Classes, NEW i \in 1..Len(p[c])
               PROVE  \/ i \in 1..Len(q[c]) /\ p[c][i] = q[c][i]
                      \/ c = Prio[j] /\ i = Len(q[c]) + 1 /\ p[c][i] = j
    OBVIOUS
  <2> HIDE DEF p
  <2>1. CASE c = Prio[j]
    BY <1>2, <2>1
  <2>2. CASE c # Prio[j]
    BY <1>2, <2>2
  <2> QED BY <2>1, <2>2
<1>5. \A c \in Classes : 1..Len(q[c]) \subseteq 1..Len(p[c])
  <2> HIDE DEF p
  <2> SUFFICES ASSUME NEW c \in Classes PROVE 1..Len(q[c]) \subseteq 1..Len(p[c])
    OBVIOUS
  <2>1. CASE c = Prio[j]
    BY <1>2, <2>1
  <2>2. CASE c # Prio[j]
    BY <1>2, <2>2
  <2> QED BY <2>1, <2>2
<1> HIDE DEF p, t
<1>6. ASSUME NEW k \in Jobs, NEW c \in Classes, NEW i \in 1..Len(p[c]),
             p[c][i] = k
      PROVE  t[k] = "queued" /\ c = Prio[k]
  <2>1. CASE i \in 1..Len(q[c]) /\ p[c][i] = q[c][i]
    <3>1. st[k] = "queued" /\ c = Prio[k]
      BY <1>6, <2>1 DEF QueuePlaced
    <3> QED BY <1>1, <3>1
  <2>2. CASE c = Prio[j] /\ p[c][i] = j
    BY <1>1, <1>6, <2>2
  <2> QED BY <1>4, <2>1, <2>2
<1>7. ASSUME NEW k \in Jobs, NEW c \in Classes, NEW i \in 1..Len(p[c]),
             NEW m \in 1..Len(p[c]), p[c][i] = k, p[c][m] = k
      PROVE  i = m
  <2>1. CASE k = j
    BY <1>3, <1>4, <1>7, <2>1
  <2>2. CASE k # j
    BY <1>4, <1>7, <2>2 DEF QueuePlaced
  <2> QED BY <2>1, <2>2
<1>8. ASSUME NEW k \in Jobs, t[k] = "queued"
      PROVE  \E c \in Classes : \E i \in 1..Len(p[c]) : p[c][i] = k
  <2>1. CASE k = j
    <3>1. Len(q[Prio[j]]) + 1 \in 1..Len(p[Prio[j]])
      BY <1>2
    <3> QED BY <1>1, <1>2, <2>1, <3>1
  <2>2. CASE k # j
    <3>1. PICK c \in Classes : \E i \in 1..Len(q[c]) : q[c][i] = k
      BY <1>1, <1>8, <2>2 DEF QueuePlaced
    <3>2. PICK i \in 1..Len(q[c]) : q[c][i] = k
      BY <3>1
    <3>3. p[c][i] = q[c][i]
      BY <1>2
    <3> QED BY <1>5, <3>2, <3>3
  <2> QED BY <2>1, <2>2
<1>9. QueuePlaced(p, t)
  BY <1>6, <1>7, <1>8 DEF QueuePlaced
<1> QED BY <1>9 DEF p, t

\* The head of a queue leaves it, whatever its new status.
LEMMA LeaveQueue ==
  ASSUME NEW q \in Queues, NEW st \in Statuses, NEW c \in Classes,
         q[c] # << >>, NEW s, s # "queued", QueuePlaced(q, st)
  PROVE  QueuePlaced(Popped(q, c), Mark(st, Head(q[c]), s))
<1> DEFINE p == Popped(q, c)
           x == Head(q[c])
           t == Mark(st, x, s)
<1>1. \A k \in Jobs : t[k] = IF k = x THEN s ELSE st[k]
  BY QueueAssumption DEF Mark, Statuses
<1>2. /\ Len(q[c]) \in Nat \ {0}
      /\ Len(p[c]) = Len(q[c]) - 1
      /\ \A i \in 1..(Len(q[c]) - 1) : p[c][i] = q[c][i + 1]
      /\ \A d \in Classes : d # c => p[d] = q[d]
      /\ x = q[c][1]
  BY PoppedIndex
<1> HIDE DEF p, x, t
<1>3. ASSUME NEW k \in Jobs, NEW d \in Classes, NEW i \in 1..Len(p[d]),
             p[d][i] = k
      PROVE  t[k] = "queued" /\ d = Prio[k]
  <2>1. CASE d = c
    <3>1. i + 1 \in 1..Len(q[c]) /\ 1 \in 1..Len(q[c]) /\ i + 1 # 1
          /\ q[c][i + 1] = k
      BY <1>2, <1>3, <2>1
    <3>2. k # x
      BY <1>2, <3>1 DEF QueuePlaced
    <3> QED BY <1>1, <2>1, <3>1, <3>2 DEF QueuePlaced
  <2>2. CASE d # c
    <3>1. i \in 1..Len(q[d]) /\ q[d][i] = k
      BY <1>2, <1>3, <2>2
    <3>2. st[k] = "queued" /\ d = Prio[k]
      BY <3>1 DEF QueuePlaced
    <3>3. k # x
      BY <1>2, <2>2, <3>2 DEF QueuePlaced
    <3> QED BY <1>1, <3>2, <3>3
  <2> QED BY <2>1, <2>2
<1>4. ASSUME NEW k \in Jobs, NEW d \in Classes, NEW i \in 1..Len(p[d]),
             NEW m \in 1..Len(p[d]), p[d][i] = k, p[d][m] = k
      PROVE  i = m
  <2>1. CASE d = c
    <3>1. /\ i + 1 \in 1..Len(q[c]) /\ q[c][i + 1] = k
          /\ m + 1 \in 1..Len(q[c]) /\ q[c][m + 1] = k
      BY <1>2, <1>4, <2>1
    <3>2. i + 1 = m + 1
      BY <3>1 DEF QueuePlaced
    <3> QED BY <1>2, <2>1, <3>2
  <2>2. CASE d # c
    BY <1>2, <1>4, <2>2 DEF QueuePlaced
  <2> QED BY <2>1, <2>2
<1>5. ASSUME NEW k \in Jobs, t[k] = "queued"
      PROVE  \E d \in Classes : \E i \in 1..Len(p[d]) : p[d][i] = k
  <2>1. k # x /\ st[k] = "queued"
    BY <1>1, <1>5
  <2>2. PICK d \in Classes : \E i \in 1..Len(q[d]) : q[d][i] = k
    BY <2>1 DEF QueuePlaced
  <2>3. PICK i \in 1..Len(q[d]) : q[d][i] = k
    BY <2>2
  <2>4. CASE d = c
    <3>1. i - 1 \in 1..(Len(q[c]) - 1) /\ (i - 1) + 1 = i
      BY <1>2, <2>1, <2>3, <2>4
    <3>2. p[c][i - 1] = k
      BY <1>2, <2>3, <2>4, <3>1
    <3> QED BY <1>2, <3>1, <3>2
  <2>5. CASE d # c
    BY <1>2, <2>3, <2>5
  <2> QED BY <2>4, <2>5
<1>6. QueuePlaced(p, t)
  BY <1>3, <1>4, <1>5 DEF QueuePlaced
<1> QED BY <1>6 DEF p, x, t

-----------------------------------------------------------------------------
(* Entering and leaving a getter task and a worker *)

Hands == [Workers -> [Classes -> Item]]
Desks == [Workers -> Item]

LEMMA EnterTask ==
  ASSUME NEW g \in Hands, NEW st \in Statuses, NEW w \in Workers,
         NEW c \in Classes, NEW x \in Item, g[w][c] = None,
         x # None => Prio[x] = c /\ st[x] # "held",
         TasksPlaced(g, st)
  PROVE  TasksPlaced([g EXCEPT ![w][c] = x], Mark(st, x, "held"))
<1> DEFINE h == [g EXCEPT ![w][c] = x]
           t == Mark(st, x, "held")
<1>1. \A k \in Jobs : t[k] = IF k = x THEN "held" ELSE st[k]
  BY QueueAssumption DEF Mark, Statuses, Item
<1>2. \A v \in Workers, d \in Classes :
        h[v][d] = IF v = w /\ d = c THEN x ELSE g[v][d]
  BY DEF Hands
<1>3. \A v \in Workers, d \in Classes : x # None => g[v][d] # x
  BY QueueAssumption DEF TasksPlaced, Item
<1> HIDE DEF h, t
<1>4. ASSUME NEW k \in Jobs, NEW v \in Workers, NEW d \in Classes, h[v][d] = k
      PROVE  t[k] = "held" /\ d = Prio[k]
  BY <1>1, <1>2, <1>4, QueueAssumption DEF TasksPlaced
<1>5. ASSUME NEW k \in Jobs, NEW v \in Workers, NEW u \in Workers,
             NEW d \in Classes, h[v][d] = k, h[u][d] = k
      PROVE  v = u
  BY <1>2, <1>3, <1>5, QueueAssumption DEF TasksPlaced
<1>6. ASSUME NEW k \in Jobs, t[k] = "held"
      PROVE  \E v \in Workers, d \in Classes : h[v][d] = k
  <2>1. CASE k = x
    BY <1>2, <2>1
  <2>2. CASE k # x
    <3>1. PICK v \in Workers, d \in Classes : g[v][d] = k
      BY <1>1, <1>6, <2>2 DEF TasksPlaced
    <3> QED BY <1>2, <3>1, QueueAssumption
  <2> QED BY <2>1, <2>2
<1>7. TasksPlaced(h, t)
  BY <1>4, <1>5, <1>6 DEF TasksPlaced
<1> QED BY <1>7 DEF h, t

\* Worker w forgets the results of both its tasks; whatever jobs they were,
\* the new statuses t do not say that they are held.
LEMMA LeaveTask ==
  ASSUME NEW g \in Hands, NEW st, NEW t, NEW w \in Workers,
         \A k \in Jobs :
           t[k] = "held" <=> st[k] = "held" /\ \A d \in Classes : g[w][d] # k,
         TasksPlaced(g, st)
  PROVE  TasksPlaced([g EXCEPT ![w] = [d \in Classes |-> None]], t)
<1> DEFINE h == [g EXCEPT ![w] = [d \in Classes |-> None]]
<1>1. \A v \in Workers, d \in Classes :
        h[v][d] = IF v = w THEN None ELSE g[v][d]
  BY DEF Hands
<1> HIDE DEF h
<1>2. ASSUME NEW k \in Jobs, NEW v \in Workers, NEW d \in Classes, h[v][d] = k
      PROVE  t[k] = "held" /\ d = Prio[k]
  <2>1. v # w /\ g[v][d] = k
    BY <1>1, <1>2, QueueAssumption
  <2>2. st[k] = "held" /\ d = Prio[k]
    BY <2>1 DEF TasksPlaced
  <2>3. \A e \in Classes : g[w][e] # k
    BY <2>1, <2>2 DEF TasksPlaced
  <2> QED BY <2>2, <2>3
<1>3. ASSUME NEW k \in Jobs, NEW v \in Workers, NEW u \in Workers,
             NEW d \in Classes, h[v][d] = k, h[u][d] = k
      PROVE  v = u
  BY <1>1, <1>3, QueueAssumption DEF TasksPlaced
<1>4. ASSUME NEW k \in Jobs, t[k] = "held"
      PROVE  \E v \in Workers, d \in Classes : h[v][d] = k
  <2>1. st[k] = "held" /\ \A d \in Classes : g[w][d] # k
    BY <1>4
  <2>2. PICK v \in Workers, d \in Classes : g[v][d] = k
    BY <2>1 DEF TasksPlaced
  <2> QED BY <1>1, <2>1, <2>2
<1>5. TasksPlaced(h, t)
  BY <1>2, <1>3, <1>4 DEF TasksPlaced
<1> QED BY <1>5 DEF h

LEMMA EnterWorker ==
  ASSUME NEW cur \in Desks, NEW st, NEW t, NEW w \in Workers,
         NEW x \in Jobs, cur[w] = None, st[x] # "running",
         \A k \in Jobs : t[k] = "running" <=> k = x \/ st[k] = "running",
         WorkersPlaced(cur, st)
  PROVE  WorkersPlaced([cur EXCEPT ![w] = x], t)
<1>1. \A v \in Workers : [cur EXCEPT ![w] = x][v] = IF v = w THEN x ELSE cur[v]
  BY DEF Desks
<1>2. \A v \in Workers : cur[v] # x
  BY DEF WorkersPlaced
<1> QED BY <1>1, <1>2, QueueAssumption DEF WorkersPlaced

LEMMA LeaveWorker ==
  ASSUME NEW cur \in Desks, NEW st \in Statuses, NEW w \in Workers,
         cur[w] \in Jobs, WorkersPlaced(cur, st)
  PROVE  WorkersPlaced([cur EXCEPT ![w] = None], [st EXCEPT ![cur[w]] = "done"])
<1> DEFINE t == [st EXCEPT ![cur[w]] = "done"]
<1>1. \A v \in Workers :
        [cur EXCEPT ![w] = None][v] = IF v = w THEN None ELSE cur[v]
  BY DEF Desks
<1>2. \A k \in Jobs : t[k] = IF k = cur[w] THEN "done" ELSE st[k]
  BY DEF Statuses
<1> HIDE DEF t
<1>3. WorkersPlaced([cur EXCEPT ![w] = None], t)
  BY <1>1, <1>2, QueueAssumption DEF WorkersPlaced
<1> QED BY <1>3 DEF t

-----------------------------------------------------------------------------
(* One lemma per action *)

IInv == TypeOK /\ Handling /\ Waiting /\ Placement

LEMMA TypesOfParts ==
  ASSUME TypeOK
  PROVE  queue \in Queues /\ status \in Statuses /\ got \in Hands
         /\ current \in Desks
  BY DEF TypeOK, QueueTypeOK, Queues, Statuses, Hands, Desks

\* The head of a queue is the sentinel or a queued job of that class.
LEMMA HeadQueued ==
  ASSUME IInv, NEW c \in Classes, queue[c] # << >>
  PROVE  /\ Head(queue[c]) \in Item
         /\ Head(queue[c]) # None =>
              /\ Head(queue[c]) \in Jobs
              /\ status[Head(queue[c])] = "queued"
              /\ Prio[Head(queue[c])] = c
<1>1. queue \in Queues
  BY TypesOfParts DEF IInv
<1>2. /\ Head(queue[c]) = queue[c][1] /\ Head(queue[c]) \in Item
      /\ 1 \in 1..Len(queue[c])
  BY <1>1, PoppedIndex
<1> QED BY <1>2 DEF Item, IInv, Placement, QueuePlaced

\* A wake-up does not make a task done, nor undo one that is.
LEMMA WakeOneResults ==
  ASSUME TypeOK, ResultsRead, NEW c \in Classes, WakeOne(c), got' = got
  PROVE  ResultsRead'
<1>1. CASE Blocked(c) = {}
  BY <1>1 DEF WakeOne, ResultsRead
<1>2. CASE Blocked(c) # {}
  <2>1. PICK w \in Workers : /\ task[w][c] = "blocked"
                             /\ task' = [task EXCEPT ![w][c] = "woken"]
    BY <1>2 DEF WakeOne, Blocked
  <2> QED BY <2>1 DEF TypeOK, QueueTypeOK, ResultsRead
<1> QED BY <1>1, <1>2

\* A put of a new delivery j, on queues q with statuses st in which the places
\* are right and j is not in flight.
LEMMA PutPlaced ==
  ASSUME IInv, NEW j \in Jobs, NEW q \in Queues, NEW st \in Statuses,
         st[j] \notin InFlight, QueuePlaced(q, st),
         TasksPlaced(got, st), WorkersPlaced(current, st),
         queue' = Pushed(q, j), status' = [st EXCEPT ![j] = "queued"],
         WakeOne(Prio[j]), got' = got, current' = current
  PROVE  Placement'
<1>1. \A k \in Jobs : status'[k] = IF k = j THEN "queued" ELSE st[k]
  BY DEF Statuses
<1>2. QueuePlaced(queue, status)'
  BY EnterQueue DEF InFlight
<1>3. TasksPlaced(got, status)'
  <2>1. \A k \in Jobs : st[k] = "held" <=> status'[k] = "held"
    BY <1>1 DEF InFlight
  <2>2. TasksPlaced(got, status')
    BY <2>1, TasksFrame
  <2> QED BY <2>2 DEF TasksPlaced
<1>4. WorkersPlaced(current, status)'
  <2>1. \A k \in Jobs : st[k] = "running" <=> status'[k] = "running"
    BY <1>1 DEF InFlight
  <2>2. WorkersPlaced(current, status')
    BY <2>1, WorkersFrame
  <2> QED BY <2>2 DEF WorkersPlaced
<1>5. ResultsRead'
  BY WakeOneResults, QueueAssumption DEF IInv, Placement
<1> QED BY <1>2, <1>3, <1>4, <1>5 DEF Placement

LEMMA ArrivePlaced ==
  ASSUME IInv, NEW j \in Jobs, Arrive(j)
  PROVE  Placement'
<1>1. /\ queue \in Queues /\ status \in Statuses
      /\ got' = got /\ current' = current
      /\ Enqueue(j)
  BY TypesOfParts
     DEF IInv, Arrive, Enqueue, EnqueueDuplicate, EnqueueRejected,
         EnqueueWithRoom, EnqueueEvicting, EnqueueOverfull
<1>2. /\ QueuePlaced(queue, status) /\ TasksPlaced(got, status)
      /\ WorkersPlaced(current, status) /\ ResultsRead
  BY DEF IInv, Placement
<1>3. CASE EnqueueDuplicate(j) \/ EnqueueRejected(j)
  <2>1. /\ queue' = queue /\ task' = task /\ status[j] = "new"
        /\ \/ status' = [status EXCEPT ![j] = "duplicate"]
           \/ status' = [status EXCEPT ![j] = "rejected"]
    BY <1>3 DEF EnqueueDuplicate, EnqueueRejected, FirstSeen
  <2>2. \A k \in Jobs, s \in InFlight : status[k] = s <=> status'[k] = s
    BY <1>1, <2>1 DEF InFlight, Statuses
  <2>3. QueuePlaced(queue, status')
    BY <1>2, <2>2, QueueFrame DEF InFlight
  <2>4. TasksPlaced(got, status')
    BY <1>2, <2>2, TasksFrame DEF InFlight
  <2>5. WorkersPlaced(current, status')
    BY <1>2, <2>2, WorkersFrame DEF InFlight
  <2> QED BY <1>1, <1>2, <2>1, <2>3, <2>4, <2>5 DEF Placement, ResultsRead
<1>4. CASE EnqueueWithRoom(j) \/ EnqueueOverfull(j)
  <2>1. /\ status[j] = "new"
        /\ queue' = Pushed(queue, j) /\ WakeOne(Prio[j])
        /\ status' = [status EXCEPT ![j] = "queued"]
    BY <1>4 DEF EnqueueWithRoom, EnqueueOverfull, FirstSeen, Put
  <2>2. status[j] \notin InFlight
    BY <2>1 DEF InFlight
  <2> QED BY <1>1, <1>2, <2>1, <2>2, PutPlaced
<1>5. CASE EnqueueEvicting(j)
  <2> DEFINE v == VictimClass
             x == Head(queue[v])
             st == Mark(status, x, "evicted")
             q == Popped(queue, v)
  <2>1. /\ v \in Classes /\ queue[v] # << >> /\ status[j] = "new"
        /\ queue' = Pushed(q, j) /\ WakeOne(Prio[j])
        /\ status' = [st EXCEPT ![j] = "queued"]
    BY <1>5 DEF EnqueueEvicting, FirstSeen, VictimClass, Classes
  <2> HIDE DEF v
  <2>2. x \in Item /\ (x # None => x \in Jobs /\ status[x] = "queued")
    BY <2>1, HeadQueued
  <2>3. q \in Queues
    BY <1>1, <2>1, PoppedIndex
  <2>4. QueuePlaced(q, st)
    BY <1>1, <1>2, <2>1, LeaveQueue
  <2>5. st \in Statuses
    BY <1>1, <2>2, MarkType DEF Statuses, Status
  <2> HIDE DEF x, q
  <2>6. \A k \in Jobs : st[k] = IF k = x THEN "evicted" ELSE status[k]
    BY <1>1, QueueAssumption DEF Mark, Statuses
  <2> HIDE DEF st
  <2>7. TasksPlaced(got, st)
    <3>1. \A k \in Jobs : status[k] = "held" <=> st[k] = "held"
      BY <2>2, <2>6, QueueAssumption
    <3> QED BY <1>2, <3>1, TasksFrame
  <2>8. WorkersPlaced(current, st)
    <3>1. \A k \in Jobs : status[k] = "running" <=> st[k] = "running"
      BY <2>2, <2>6, QueueAssumption
    <3> QED BY <1>2, <3>1, WorkersFrame
  <2>9. st[j] \notin InFlight
    BY <2>1, <2>6 DEF InFlight
  <2> QED BY <1>1, <2>1, <2>3, <2>4, <2>5, <2>7, <2>8, <2>9, PutPlaced
<1> QED BY <1>1, <1>3, <1>4, <1>5 DEF Enqueue

LEMMA DrainPlaced ==
  ASSUME IInv, OperatorDrains
  PROVE  Placement'
<1>1. /\ queue' = [c \in Classes |-> << >>] /\ task' = task /\ got' = got
      /\ current' = current
      /\ \A j \in Jobs : status'[j] = IF Queued(j) THEN "drained" ELSE status[j]
  BY DEF OperatorDrains, Drain
<1>2. \A j \in Jobs : Queued(j) <=> status[j] = "queued"
  <2>1. \A c \in Classes : DOMAIN queue[c] = 1..Len(queue[c])
    BY DEF IInv, TypeOK, QueueTypeOK
  <2> QED BY <2>1 DEF Queued, IInv, Placement, QueuePlaced
<1>3. QueuePlaced(queue, status)'
  <2>1. \A c \in Classes : 1..Len(queue'[c]) = {}
    BY <1>1
  <2> QED BY <1>1, <1>2, <2>1 DEF QueuePlaced
<1>4. TasksPlaced(got, status)'
  BY <1>1, <1>2, TasksFrame DEF IInv, Placement
<1>5. WorkersPlaced(current, status)'
  BY <1>1, <1>2, WorkersFrame DEF IInv, Placement
<1> QED BY <1>1, <1>3, <1>4, <1>5 DEF IInv, Placement, ResultsRead

\* What the loop does with an item that was in flight elsewhere.
LEMMA ReceivePlaced ==
  ASSUME IInv, NEW w \in Workers, NEW c, NEW item \in Item,
         Receive(w, c, item), pc[w] # "handle",
         item # None => status[item] # "running",
         \A k \in Jobs : status'[k] = "running" <=>
                          k = item \/ status[k] = "running"
  PROVE  WorkersPlaced(current, status)'
<1>1. current[w] = None /\ current \in Desks /\ WorkersPlaced(current, status)
  BY TypesOfParts DEF IInv, Handling, Placement
<1>2. CASE item = None
  <2>1. current' = current
    BY <1>2 DEF Receive
  <2>2. \A k \in Jobs : status[k] = "running" <=> status'[k] = "running"
    BY <1>2, QueueAssumption
  <2>3. WorkersPlaced(current, status')
    BY <1>1, <2>2, WorkersFrame
  <2> QED BY <2>1, <2>3 DEF WorkersPlaced
<1>3. CASE item # None
  <2>1. current' = [current EXCEPT ![w] = item] /\ item \in Jobs
    BY <1>3 DEF Receive, Item
  <2>2. WorkersPlaced([current EXCEPT ![w] = item], status')
    BY <1>1, <1>3, <2>1, EnterWorker
  <2> QED BY <2>1, <2>2 DEF WorkersPlaced
<1> QED BY <1>2, <1>3

LEMMA TakeReadyPlaced ==
  ASSUME IInv, NEW w \in Workers, TakeReady(w)
  PROVE  Placement'
<1> DEFINE c == ReadyClass
           x == Head(queue[c])
<1>1. /\ c \in Classes
      /\ pc[w] = "loop"
      /\ queue[c] # << >>
      /\ queue' = Popped(queue, c)
      /\ Receive(w, c, x)
      /\ status' = Mark(status, x, "running")
      /\ task' = task /\ got' = got
  BY TakeReadyExpanded
<1> HIDE DEF c
<1>2. x \in Item /\ (x # None => x \in Jobs /\ status[x] = "queued")
  BY <1>1, HeadQueued
<1>3. queue \in Queues /\ status \in Statuses
  BY TypesOfParts DEF IInv
<1>4. QueuePlaced(queue, status)'
  <2>1. QueuePlaced(Popped(queue, c), Mark(status, x, "running"))
    BY <1>1, <1>3, LeaveQueue DEF IInv, Placement
  <2> QED BY <1>1, <2>1 DEF QueuePlaced
<1> HIDE DEF x
<1>5. \A k \in Jobs : status'[k] = IF k = x THEN "running" ELSE status[k]
  BY <1>1, <1>3, QueueAssumption DEF Mark, Statuses
<1>6. TasksPlaced(got, status)'
  <2>1. \A k \in Jobs : status[k] = "held" <=> status'[k] = "held"
    BY <1>2, <1>5, QueueAssumption
  <2>2. TasksPlaced(got, status')
    BY <2>1, TasksFrame DEF IInv, Placement
  <2> QED BY <1>1, <2>2 DEF TasksPlaced
<1>7. WorkersPlaced(current, status)'
  BY <1>1, <1>2, <1>5, ReceivePlaced
<1>8. ResultsRead'
  BY <1>1 DEF IInv, Placement, ResultsRead
<1> QED BY <1>4, <1>6, <1>7, <1>8 DEF Placement

LEMMA StartWaitingPlaced ==
  ASSUME IInv, NEW w \in Workers, StartWaiting(w)
  PROVE  Placement'
<1>1. /\ queue' = queue /\ got' = got /\ current' = current
      /\ status' = status /\ pc[w] = "loop"
      /\ task' = [task EXCEPT ![w] = [c \in Classes |-> "new"]]
  BY DEF StartWaiting, GetWait
<1>2. \A c \in Classes : got[w][c] = None
  BY <1>1 DEF IInv, Waiting, Placement, ResultsRead
<1>3. ResultsRead'
  BY <1>1, <1>2 DEF IInv, Placement, ResultsRead, TypeOK, QueueTypeOK
<1> QED
  BY <1>1, <1>3
     DEF IInv, Placement, QueuePlaced, TasksPlaced, WorkersPlaced

LEMMA TaskTakesPlaced ==
  ASSUME IInv, NEW w \in Workers, NEW c \in Classes, TaskTakes(w, c),
         current' = current
  PROVE  Placement'
<1> DEFINE x == Head(queue[c])
<1>1. /\ queue[c] # << >> /\ task[w][c] # "done"
      /\ queue' = Popped(queue, c)
      /\ task' = [task EXCEPT ![w][c] = "done"]
      /\ got' = [got EXCEPT ![w][c] = x]
      /\ status' = Mark(status, x, "held")
  BY DEF TaskTakes
<1>2. x \in Item
      /\ (x # None => x \in Jobs /\ status[x] = "queued" /\ Prio[x] = c)
  BY <1>1, HeadQueued
<1>3. /\ queue \in Queues /\ status \in Statuses /\ got \in Hands
      /\ got[w][c] = None
  BY <1>1, TypesOfParts DEF IInv, Placement, ResultsRead
<1>4. QueuePlaced(queue, status)'
  <2>1. QueuePlaced(Popped(queue, c), Mark(status, x, "held"))
    BY <1>1, <1>3, LeaveQueue DEF IInv, Placement
  <2> QED BY <1>1, <2>1 DEF QueuePlaced
<1> HIDE DEF x
<1>5. \A k \in Jobs : status'[k] = IF k = x THEN "held" ELSE status[k]
  BY <1>1, <1>3, QueueAssumption DEF Mark, Statuses
<1>6. TasksPlaced(got, status)'
  <2>1. TasksPlaced([got EXCEPT ![w][c] = x], Mark(status, x, "held"))
    BY <1>2, <1>3, EnterTask DEF IInv, Placement
  <2> QED BY <1>1, <2>1 DEF TasksPlaced
<1>7. WorkersPlaced(current, status)'
  <2>1. \A k \in Jobs : status[k] = "running" <=> status'[k] = "running"
    BY <1>2, <1>5, QueueAssumption
  <2>2. WorkersPlaced(current, status')
    BY <2>1, WorkersFrame DEF IInv, Placement
  <2> QED BY <2>2 DEF WorkersPlaced
<1>8. ResultsRead'
  BY <1>1 DEF IInv, Placement, ResultsRead, TypeOK, QueueTypeOK
<1> QED BY <1>4, <1>6, <1>7, <1>8 DEF Placement

LEMMA GetterStepPlaced ==
  ASSUME IInv, NEW w \in Workers, NEW c \in Classes, GetterStep(w, c)
  PROVE  Placement'
<1>1. current' = current
  BY DEF GetterStep
<1>2. CASE TaskTakes(w, c)
  BY <1>1, <1>2, TaskTakesPlaced
<1>3. CASE TaskBlocks(w, c) \/ TaskRevoked(w, c)
  <2>1. queue' = queue /\ got' = got /\ status' = status
    BY <1>3 DEF TaskBlocks, TaskRevoked
  <2>2. ResultsRead'
    <3>1. CASE task' = task
      BY <2>1, <3>1 DEF IInv, Placement, ResultsRead
    <3>2. CASE TaskBlocks(w, c)
      BY <2>1, <3>2
         DEF TaskBlocks, IInv, Placement, ResultsRead, TypeOK, QueueTypeOK
    <3>3. CASE WakeOne(c)
      BY <2>1, <3>3, WakeOneResults DEF IInv, Placement
    <3> QED BY <1>3, <3>1, <3>2, <3>3 DEF TaskRevoked
  <2> QED
    BY <1>1, <2>1, <2>2
       DEF IInv, Placement, QueuePlaced, TasksPlaced, WorkersPlaced
<1> QED BY <1>2, <1>3 DEF GetterStep

LEMMA ResumePlaced ==
  ASSUME IInv, NEW w \in Workers, NEW c \in Classes, Resume(w, c)
  PROVE  Placement'
<1> DEFINE o == Other(c)
           y == got[w][c]
           u == Unread(w, c)
           kept == Mark(status, y, "running")
<1>1. /\ pc[w] = "wait"
      /\ queue' = queue
      /\ task' = [task EXCEPT ![w] = [d \in Classes |-> "none"]]
      /\ got' = [got EXCEPT ![w] = [d \in Classes |-> None]]
      /\ Receive(w, c, y)
      /\ status' = Mark(kept, u, "discarded")
  BY DEF Resume, GetResumes
<1>2. /\ o \in Classes /\ o # c
      /\ \A d \in Classes : d = c \/ d = o
  BY OtherClass
<1>3. u = got[w][o] /\ u \in Item /\ y \in Item
  BY <1>2 DEF Unread, IInv, Placement, ResultsRead, TypeOK, QueueTypeOK
<1>4. /\ (y # None => y \in Jobs /\ status[y] = "held" /\ Prio[y] = c)
      /\ (u # None => u \in Jobs /\ status[u] = "held" /\ Prio[u] = o)
  BY <1>2, <1>3 DEF Item, IInv, Placement, TasksPlaced
<1>5. status \in Statuses /\ got \in Hands
  BY TypesOfParts DEF IInv
<1>6. kept \in Statuses
  BY <1>3, <1>5, MarkType DEF Statuses, Status
<1> HIDE DEF u, kept
<1>7. \A k \in Jobs : status'[k] = IF k = u THEN "discarded"
                                    ELSE IF k = y THEN "running" ELSE status[k]
  <2>1. \A k \in Jobs : kept[k] = IF k = y THEN "running" ELSE status[k]
    BY <1>5, QueueAssumption DEF kept, Mark, Statuses
  <2> QED BY <1>1, <1>6, <2>1, QueueAssumption DEF Mark, Statuses
<1>8. QueuePlaced(queue, status)'
  <2>1. \A k \in Jobs : status[k] = "queued" <=> status'[k] = "queued"
    BY <1>4, <1>7, QueueAssumption
  <2>2. QueuePlaced(queue, status')
    BY <2>1, QueueFrame DEF IInv, Placement
  <2> QED BY <1>1, <2>2 DEF QueuePlaced
<1>9. TasksPlaced(got, status)'
  <2>1. \A k \in Jobs : status'[k] = "held" <=>
           status[k] = "held" /\ \A d \in Classes : got[w][d] # k
    BY <1>2, <1>3, <1>7
  <2>2. TasksPlaced([got EXCEPT ![w] = [d \in Classes |-> None]], status')
    BY <1>5, <2>1, LeaveTask DEF IInv, Placement
  <2> QED BY <1>1, <2>2 DEF TasksPlaced
<1>10. WorkersPlaced(current, status)'
  <2>1. \A k \in Jobs : status'[k] = "running" <=>
                          k = y \/ status[k] = "running"
    BY <1>2, <1>4, <1>7, QueueAssumption
  <2>2. y # None => status[y] # "running"
    BY <1>4
  <2> QED BY <1>1, <1>3, <2>1, <2>2, ReceivePlaced
<1>11. ResultsRead'
  BY <1>1, <1>5 DEF IInv, Placement, ResultsRead, TypeOK, QueueTypeOK
<1> QED BY <1>8, <1>9, <1>10, <1>11 DEF Placement

LEMMA HandledPlaced ==
  ASSUME IInv, NEW w \in Workers, Handled(w)
  PROVE  Placement'
<1>1. /\ queue' = queue /\ task' = task /\ got' = got
      /\ status' = [status EXCEPT ![current[w]] = "done"]
      /\ current' = [current EXCEPT ![w] = None]
      /\ pc[w] = "handle"
  BY DEF Handled
<1>2. current \in Desks /\ status \in Statuses
  BY TypesOfParts DEF IInv
<1>3. current[w] \in Jobs /\ status[current[w]] = "running"
  BY <1>1, <1>2 DEF Desks, Item, IInv, Handling, Placement, WorkersPlaced
<1>4. WorkersPlaced(current, status)'
  <2>1. WorkersPlaced([current EXCEPT ![w] = None],
                      [status EXCEPT ![current[w]] = "done"])
    BY <1>2, <1>3, LeaveWorker DEF IInv, Placement
  <2> QED BY <1>1, <2>1 DEF WorkersPlaced
<1>5. \A k \in Jobs :
        /\ status[k] = "queued" <=> status'[k] = "queued"
        /\ status[k] = "held" <=> status'[k] = "held"
  BY <1>1, <1>2, <1>3 DEF Statuses
<1>6. QueuePlaced(queue, status') /\ TasksPlaced(got, status')
  BY <1>5, QueueFrame, TasksFrame DEF IInv, Placement
<1> QED
  BY <1>1, <1>4, <1>6
     DEF IInv, Placement, QueuePlaced, TasksPlaced, ResultsRead

LEMMA StopPlaced ==
  ASSUME IInv, Stop
  PROVE  Placement'
<1> DEFINE n == Cardinality(Workers)
           nones == [i \in 1..n |-> None]
           high == queue["high"]
<1>1. /\ queue' = [queue EXCEPT !["high"] = high \o nones]
      /\ got' = got /\ status' = status /\ current' = current
      /\ task' = [w \in Workers |->
                   IF task[w]["high"] = "blocked"
                   THEN [task[w] EXCEPT !["high"] = "woken"]
                   ELSE task[w]]
  BY DEF Stop, PutSentinels
<1>2. n \in Nat /\ nones \in Seq(Item) /\ high \in Seq(Item)
      /\ "high" \in Classes
  BY QueueAssumption, FS_CardinalityType, SentinelsType
     DEF IInv, TypeOK, QueueTypeOK, Classes
<1>3. /\ Len(high) \in Nat /\ Len(high \o nones) = Len(high) + n
      /\ \A i \in 1..Len(high) : (high \o nones)[i] = high[i]
      /\ \A i \in 1..(Len(high) + n) :
           i > Len(high) => (high \o nones)[i] = None
  <2>1. Len(nones) = n /\ \A i \in 1..n : nones[i] = None
    BY <1>2
  <2> HIDE DEF nones, n, high
  <2> QED BY <1>2, <2>1
<1>4. /\ queue'["high"] = high \o nones
      /\ \A c \in Classes : c # "high" => queue'[c] = queue[c]
  BY <1>1, <1>2 DEF IInv, TypeOK, QueueTypeOK
<1> HIDE DEF nones, n
<1>5. \A c \in Classes : \A j \in Jobs : \A i \in 1..Len(queue'[c]) :
        queue'[c][i] = j => i \in 1..Len(queue[c]) /\ queue[c][i] = j
  <2> SUFFICES ASSUME NEW c \in Classes, NEW j \in Jobs,
                      NEW i \in 1..Len(queue'[c]), queue'[c][i] = j
               PROVE  i \in 1..Len(queue[c]) /\ queue[c][i] = j
    OBVIOUS
  <2>1. CASE c = "high"
    <3>1. i \in 1..(Len(high) + n) /\ (high \o nones)[i] = j /\ j # None
      BY <1>3, <1>4, <2>1, QueueAssumption
    <3>2. i <= Len(high)
      BY <1>2, <1>3, <3>1
    <3> QED BY <1>2, <1>3, <2>1, <3>1, <3>2
  <2>2. CASE c # "high"
    BY <1>4, <2>2
  <2> QED BY <2>1, <2>2
<1>6. \A c \in Classes : \A i \in 1..Len(queue[c]) :
        i \in 1..Len(queue'[c]) /\ queue'[c][i] = queue[c][i]
  <2> SUFFICES ASSUME NEW c \in Classes, NEW i \in 1..Len(queue[c])
               PROVE  i \in 1..Len(queue'[c]) /\ queue'[c][i] = queue[c][i]
    OBVIOUS
  <2>1. CASE c = "high"
    BY <1>2, <1>3, <1>4, <2>1
  <2>2. CASE c # "high"
    BY <1>4, <2>2
  <2> QED BY <2>1, <2>2
<1>7. QueuePlaced(queue, status)'
  <2>1. QueuePlaced(queue, status)
    BY DEF IInv, Placement
  <2> QED BY <1>1, <1>5, <1>6, <2>1 DEF QueuePlaced
<1>8. ResultsRead'
  BY <1>1, <1>2 DEF IInv, Placement, ResultsRead, TypeOK, QueueTypeOK
<1> QED
  BY <1>1, <1>7, <1>8 DEF IInv, Placement, TasksPlaced, WorkersPlaced

-----------------------------------------------------------------------------
(* The invariant *)

LEMMA IInvInit == Init => IInv
<1> SUFFICES ASSUME Init PROVE Placement
  BY InitType, HandlingInit DEF IInv
<1>1. /\ \A c \in Classes : 1..Len(queue[c]) = {}
      /\ \A j \in Jobs : status[j] = "new"
      /\ \A w \in Workers : current[w] = None
      /\ \A w \in Workers, c \in Classes : got[w][c] = None
  BY DEF Init, QueueInit
<1> QED
  BY <1>1, QueueAssumption
     DEF Placement, QueuePlaced, TasksPlaced, WorkersPlaced, ResultsRead

LEMMA IInvStep == IInv /\ [Next]_vars => IInv'
<1> SUFFICES ASSUME IInv, [Next]_vars PROVE IInv'
  OBVIOUS
<1>1. TypeOK' /\ Handling' /\ Waiting'
  BY TypeStep DEF IInv
<1>2. ASSUME NEW j \in Jobs, Arrive(j) PROVE Placement'
  BY <1>2, ArrivePlaced
<1>3. ASSUME NEW k \in Keys, Expire(k) PROVE Placement'
  BY <1>3
     DEF Expire, DedupExpire, IInv, Placement, QueuePlaced, TasksPlaced,
         WorkersPlaced, ResultsRead
<1>4. ASSUME OperatorDrains PROVE Placement'
  BY <1>4, DrainPlaced
<1>5. ASSUME Stop PROVE Placement'
  BY <1>5, StopPlaced
<1>6. ASSUME NEW w \in Workers, WorkerStep(w) PROVE Placement'
  BY <1>6, TakeReadyPlaced, StartWaitingPlaced, GetterStepPlaced,
     ResumePlaced, HandledPlaced DEF WorkerStep
<1>7. ASSUME UNCHANGED vars PROVE Placement'
  BY <1>7
     DEF vars, IInv, Placement, QueuePlaced, TasksPlaced, WorkersPlaced,
         ResultsRead
<1>8. Placement'
  BY <1>2, <1>3, <1>4, <1>5, <1>6, <1>7 DEF Next
<1> QED BY <1>1, <1>8 DEF IInv

THEOREM IInvInvariant == Spec => []IInv
  BY IInvInit, IInvStep, PTL DEF Spec

=============================================================================
