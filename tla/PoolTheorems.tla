---------------------------- MODULE PoolTheorems ----------------------------
(***************************************************************************)
(* The pool's safety properties as theorems of its specification.          *)
(***************************************************************************)
EXTENDS PoolProofs

-----------------------------------------------------------------------------
(* OnePlace *)

LEMMA PlaceIsOne ==
  ASSUME IInv, NEW j \in Jobs
  PROVE  \A p, q \in Places(j) : p = q
<1>1. ASSUME NEW p \in Places(j)
      PROVE  \/ \E c \in Classes : \E i \in 1..Len(queue[c]) :
                  p = <<"queue", c, i>> /\ queue[c][i] = j
             \/ \E w \in Workers, c \in Classes :
                  p = <<"task", w, c>> /\ got[w][c] = j
             \/ \E w \in Workers : p = <<"worker", w>> /\ current[w] = j
  <2>1. \A c \in Classes : DOMAIN queue[c] = 1..Len(queue[c])
    BY DEF IInv, TypeOK, QueueTypeOK
  <2> QED BY <1>1, <2>1 DEF Places
<1> SUFFICES ASSUME NEW p \in Places(j), NEW q \in Places(j) PROVE p = q
  OBVIOUS
<1>2. /\ QueuePlaced(queue, status) /\ TasksPlaced(got, status)
      /\ WorkersPlaced(current, status)
  BY DEF IInv, Placement
<1>3. CASE \E c \in Classes : \E i \in 1..Len(queue[c]) :
             p = <<"queue", c, i>> /\ queue[c][i] = j
  <2>1. PICK c \in Classes : \E i \in 1..Len(queue[c]) :
               p = <<"queue", c, i>> /\ queue[c][i] = j
    BY <1>3
  <2>2. PICK i \in 1..Len(queue[c]) : p = <<"queue", c, i>> /\ queue[c][i] = j
    BY <2>1
  <2>3. status[j] = "queued" /\ c = Prio[j]
    BY <1>2, <2>2 DEF QueuePlaced
  <2>4. PICK d \in Classes : \E m \in 1..Len(queue[d]) :
               q = <<"queue", d, m>> /\ queue[d][m] = j
    BY <1>1, <1>2, <2>3 DEF TasksPlaced, WorkersPlaced
  <2>5. PICK m \in 1..Len(queue[d]) : q = <<"queue", d, m>> /\ queue[d][m] = j
    BY <2>4
  <2>6. d = c
    BY <1>2, <2>3, <2>5 DEF QueuePlaced
  <2>7. m = i
    BY <1>2, <2>2, <2>5, <2>6 DEF QueuePlaced
  <2> QED BY <2>2, <2>5, <2>6, <2>7
<1>4. CASE \E w \in Workers, c \in Classes :
             p = <<"task", w, c>> /\ got[w][c] = j
  <2>1. PICK w \in Workers, c \in Classes :
               p = <<"task", w, c>> /\ got[w][c] = j
    BY <1>4
  <2>2. status[j] = "held" /\ c = Prio[j]
    BY <1>2, <2>1 DEF TasksPlaced
  <2>3. PICK v \in Workers, d \in Classes :
               q = <<"task", v, d>> /\ got[v][d] = j
    BY <1>1, <1>2, <2>2 DEF QueuePlaced, WorkersPlaced
  <2>4. d = c /\ v = w
    BY <1>2, <2>1, <2>2, <2>3 DEF TasksPlaced
  <2> QED BY <2>1, <2>3, <2>4
<1>5. CASE \E w \in Workers : p = <<"worker", w>> /\ current[w] = j
  <2>1. PICK w \in Workers : p = <<"worker", w>> /\ current[w] = j
    BY <1>5
  <2>2. status[j] = "running"
    BY <1>2, <2>1 DEF WorkersPlaced
  <2>3. PICK v \in Workers : q = <<"worker", v>> /\ current[v] = j
    BY <1>1, <1>2, <2>2 DEF QueuePlaced, TasksPlaced
  <2>4. v = w
    BY <1>2, <2>1, <2>3 DEF WorkersPlaced
  <2> QED BY <2>1, <2>3, <2>4
<1> QED BY <1>1, <1>3, <1>4, <1>5

LEMMA PlaceIffInFlight ==
  ASSUME IInv, NEW j \in Jobs
  PROVE  (Places(j) # {}) <=> (status[j] \in InFlight)
<1>1. \A c \in Classes : /\ DOMAIN queue[c] = 1..Len(queue[c])
                         /\ c = "high" \/ c = "normal"
  BY DEF IInv, TypeOK, QueueTypeOK, Classes
<1>2. (\E c \in Classes : \E i \in 1..Len(queue[c]) : queue[c][i] = j)
      <=> status[j] = "queued"
  BY DEF IInv, Placement, QueuePlaced
<1>3. (\E w \in Workers, c \in Classes : got[w][c] = j) <=> status[j] = "held"
  BY DEF IInv, Placement, TasksPlaced
<1>4. (\E w \in Workers : current[w] = j) <=> status[j] = "running"
  BY DEF IInv, Placement, WorkersPlaced
<1>5. (Places(j) # {}) <=>
        \/ \E c \in Classes : \E i \in 1..Len(queue[c]) : queue[c][i] = j
        \/ \E w \in Workers, c \in Classes : got[w][c] = j
        \/ \E w \in Workers : current[w] = j
  <2>1. ASSUME NEW c \in Classes, NEW i \in 1..Len(queue[c]), queue[c][i] = j
        PROVE  <<"queue", c, i>> \in Places(j)
    BY <1>1, <2>1 DEF Places
  <2>2. ASSUME NEW w \in Workers, NEW c \in Classes, got[w][c] = j
        PROVE  <<"task", w, c>> \in Places(j)
    BY <2>2 DEF Places
  <2>3. ASSUME NEW w \in Workers, current[w] = j
        PROVE  <<"worker", w>> \in Places(j)
    BY <2>3 DEF Places
  <2>4. ASSUME NEW p \in Places(j)
        PROVE  \/ \E c \in Classes : \E i \in 1..Len(queue[c]) : queue[c][i] = j
               \/ \E w \in Workers, c \in Classes : got[w][c] = j
               \/ \E w \in Workers : current[w] = j
    BY <1>1, <2>4 DEF Places
  <2> QED BY <2>1, <2>2, <2>3, <2>4
<1> QED BY <1>2, <1>3, <1>4, <1>5 DEF InFlight

(***************************************************************************)
(* No delivery is ever handled by two workers, or handled while a copy     *)
(* waits, and none vanishes while it is in flight.                         *)
(***************************************************************************)
THEOREM DeliveriesInOnePlace == Spec => []OnePlace
<1>1. IInv => OnePlace
  BY PlaceIsOne, PlaceIffInFlight DEF OnePlace
<1> QED BY <1>1, IInvInvariant, PTL

-----------------------------------------------------------------------------
(* The pool implements the ledger: each step of the pool is a step of the    *)
(* ledger or leaves it unchanged.                                            *)

LEMMA Fates ==
  /\ FateOf("new") = "new" /\ FateOf("duplicate") = "repeated"
  /\ FateOf("rejected") = "refused" /\ FateOf("queued") = "accepted"
  /\ FateOf("held") = "accepted" /\ FateOf("running") = "begun"
  /\ FateOf("done") = "finished" /\ FateOf("evicted") = "dropped"
  /\ FateOf("drained") = "dropped" /\ FateOf("discarded") = "dropped"
  BY DEF FateOf

\* The abstract state, before and after a step.
Fate == [j \in Jobs |-> FateOf(status[j])]

LedgerStep == Ledger!LedgerNext \/ (Fate' = Fate /\ seen' = seen)

\* Steps that move no delivery between fates.
LEMMA SameFate ==
  ASSUME seen' = seen,
         \A j \in Jobs : FateOf(status'[j]) = FateOf(status[j])
  PROVE  LedgerStep
  BY DEF LedgerStep, Fate

LEMMA RepeatStep ==
  ASSUME TypeOK, NEW j \in Jobs, EnqueueDuplicate(j)
  PROVE  LedgerStep
<1>1. /\ status[j] = "new" /\ Key[j] \in seen /\ seen' = seen
      /\ \A k \in Jobs :
           status'[k] = IF k = j THEN "duplicate" ELSE status[k]
  BY DEF EnqueueDuplicate, TypeOK, QueueTypeOK
<1>2. Fate' = [Fate EXCEPT ![j] = "repeated"]
  BY <1>1, Fates DEF Fate
<1>3. Ledger!Repeat(j)
  BY <1>1, <1>2, Fates DEF Ledger!Repeat, Fate
<1> QED BY <1>3 DEF LedgerStep, Ledger!LedgerNext

\* A first delivery of a key, with any set of accepted ones given up for it.
LEMMA AdmitStep ==
  ASSUME NEW j \in Jobs, NEW out \in SUBSET Jobs, NEW s, NEW answer,
         \/ s = "rejected" /\ answer = "refused" /\ out = {}
         \/ s = "queued" /\ answer = "accepted",
         FirstSeen(j), \A k \in out : status[k] = "queued",
         \A k \in Jobs : status'[k] = IF k = j THEN s
                          ELSE IF k \in out THEN "evicted" ELSE status[k]
  PROVE  LedgerStep
<1>1. status[j] = "new" /\ Key[j] \notin seen /\ seen' = seen \cup {Key[j]}
  BY DEF FirstSeen
<1>2. Fate' = [k \in Jobs |-> IF k = j THEN answer
                             ELSE IF k \in out THEN "dropped" ELSE Fate[k]]
  BY Fates DEF Fate
<1>3. Ledger!Admit(j, out, answer)
  BY <1>1, <1>2, Fates DEF Ledger!Admit, Fate
<1>4. out \in SUBSET Ledger!Droppable
  BY Fates DEF Ledger!Droppable, Fate
<1> QED BY <1>3, <1>4 DEF LedgerStep, Ledger!LedgerNext

LEMMA ArriveStep ==
  ASSUME IInv, NEW j \in Jobs, Arrive(j)
  PROVE  LedgerStep
<1>1. status \in Statuses /\ Enqueue(j)
  BY TypesOfParts DEF IInv, Arrive
<1>2. CASE EnqueueDuplicate(j)
  BY <1>2, RepeatStep DEF IInv
<1>3. CASE EnqueueRejected(j)
  <2> DEFINE out == {}
  <2>1. /\ FirstSeen(j)
        /\ \A k \in Jobs : status'[k] = IF k = j THEN "rejected" ELSE status[k]
    BY <1>1, <1>3 DEF EnqueueRejected, Statuses
  <2>2. \A k \in Jobs : status'[k] = IF k = j THEN "rejected"
                        ELSE IF k \in out THEN "evicted" ELSE status[k]
    BY <2>1
  <2>3. out \in SUBSET Jobs /\ out = {} /\ \A k \in out : status[k] = "queued"
    OBVIOUS
  <2> HIDE DEF out
  <2> QED BY <2>1, <2>2, <2>3, AdmitStep
<1>4. CASE EnqueueWithRoom(j) \/ EnqueueOverfull(j)
  <2> DEFINE out == {}
  <2>1. /\ FirstSeen(j)
        /\ \A k \in Jobs : status'[k] = IF k = j THEN "queued" ELSE status[k]
    BY <1>1, <1>4 DEF EnqueueWithRoom, EnqueueOverfull, Statuses
  <2>2. \A k \in Jobs : status'[k] = IF k = j THEN "queued"
                        ELSE IF k \in out THEN "evicted" ELSE status[k]
    BY <2>1
  <2>3. out \in SUBSET Jobs /\ out = {} /\ \A k \in out : status[k] = "queued"
    OBVIOUS
  <2> HIDE DEF out
  <2> QED BY <2>1, <2>2, <2>3, AdmitStep
<1>5. CASE EnqueueEvicting(j)
  <2> DEFINE x == Head(queue[VictimClass])
             out == IF x = None THEN {} ELSE {x}
  <2>1. /\ FirstSeen(j) /\ VictimClass \in Classes
        /\ queue[VictimClass] # << >>
        /\ status' = [Mark(status, x, "evicted") EXCEPT ![j] = "queued"]
    BY <1>5 DEF EnqueueEvicting, VictimClass, Classes
  <2>2. x \in Item /\ (x # None => x \in Jobs /\ status[x] = "queued")
    BY <2>1, HeadQueued
  <2>3. out \in SUBSET Jobs /\ \A k \in out : status[k] = "queued"
    BY <2>2
  <2> HIDE DEF x
  <2>4. \A k \in Jobs : status'[k] = IF k = j THEN "queued"
                        ELSE IF k \in out THEN "evicted" ELSE status[k]
    BY <1>1, <2>1, <2>2, QueueAssumption DEF Mark, Statuses
  <2> HIDE DEF out
  <2> QED BY <2>1, <2>3, <2>4, AdmitStep
<1> QED BY <1>1, <1>2, <1>3, <1>4, <1>5 DEF Enqueue

LEMMA ForgetStep ==
  ASSUME NEW k \in Keys, Expire(k)
  PROVE  LedgerStep
<1>1. /\ k \in seen \cap Expiring /\ seen' = seen \ {k} /\ status' = status
  BY DEF Expire, DedupExpire
<1>2. Ledger!Forget(k)
  BY <1>1 DEF Ledger!Forget
<1> QED BY <1>2 DEF LedgerStep, Ledger!LedgerNext

\* Accepted deliveries given up without another beginning.
LEMMA DropStep ==
  ASSUME NEW out \in SUBSET Jobs, NEW s \in {"drained", "discarded"},
         seen' = seen, \A k \in out : status[k] \in {"queued", "held"},
         \A k \in Jobs : status'[k] = IF k \in out THEN s ELSE status[k]
  PROVE  LedgerStep
<1>1. Fate' = [k \in Jobs |-> IF k \in out THEN "dropped" ELSE Fate[k]]
  BY Fates DEF Fate
<1>2. Ledger!DropAll(out)
  BY <1>1, Fates DEF Ledger!DropAll, Fate
<1>3. out \in SUBSET Ledger!Droppable
  BY Fates DEF Ledger!Droppable, Fate
<1> QED BY <1>2, <1>3 DEF LedgerStep, Ledger!LedgerNext

LEMMA DrainStep ==
  ASSUME IInv, OperatorDrains
  PROVE  LedgerStep
<1> DEFINE out == {j \in Jobs : Queued(j)}
<1>1. \A j \in Jobs : status'[j] = IF j \in out THEN "drained" ELSE status[j]
  BY DEF OperatorDrains, Drain
<1>2. \A c \in Classes : DOMAIN queue[c] = 1..Len(queue[c])
  BY DEF IInv, TypeOK, QueueTypeOK
<1>3. \A j \in out : status[j] = "queued"
  BY <1>2 DEF Queued, IInv, Placement, QueuePlaced
<1>4. seen' = seen /\ out \in SUBSET Jobs
  BY DEF OperatorDrains, Drain
<1> HIDE DEF out
<1> QED BY <1>1, <1>3, <1>4, DropStep

\* Accepted job y begins, and those in out are lost.
LEMMA BeginStep ==
  ASSUME NEW y \in Jobs, NEW out \in SUBSET Jobs, seen' = seen,
         status[y] \in {"queued", "held"},
         \A k \in out : k # y /\ status[k] \in {"queued", "held"},
         \A k \in Jobs : status'[k] = IF k = y THEN "running"
                          ELSE IF k \in out THEN "discarded" ELSE status[k]
  PROVE  LedgerStep
<1>1. Fate' = [k \in Jobs |-> IF k = y THEN "begun"
                             ELSE IF k \in out THEN "dropped" ELSE Fate[k]]
  BY Fates DEF Fate
<1>2. Ledger!Begin(y, out)
  BY <1>1, Fates DEF Ledger!Begin, Fate
<1>3. out \in SUBSET Ledger!Droppable
  BY Fates DEF Ledger!Droppable, Fate
<1> QED BY <1>2, <1>3 DEF LedgerStep, Ledger!LedgerNext

LEMMA TakeReadyStep ==
  ASSUME IInv, NEW w \in Workers, TakeReady(w)
  PROVE  LedgerStep
<1> DEFINE x == Head(queue[ReadyClass])
<1>1. /\ x \in Item /\ (x # None => x \in Jobs /\ status[x] = "queued")
      /\ status' = Mark(status, x, "running") /\ seen' = seen
      /\ status \in Statuses
  BY TakeReadyExpanded, HeadQueued, TypesOfParts DEF IInv
<1> HIDE DEF x
<1>2. CASE x = None
  BY <1>1, <1>2, SameFate DEF Mark
<1>3. CASE x # None
  <2> DEFINE out == {}
  <2>1. \A k \in Jobs : status'[k] = IF k = x THEN "running"
                        ELSE IF k \in out THEN "discarded" ELSE status[k]
    BY <1>1, <1>3 DEF Mark, Statuses
  <2>2. out \in SUBSET Jobs
        /\ \A k \in out : k # x /\ status[k] \in {"queued", "held"}
    OBVIOUS
  <2> HIDE DEF out
  <2> QED BY <1>1, <1>3, <2>1, <2>2, BeginStep
<1> QED BY <1>2, <1>3

LEMMA ResumeStep ==
  ASSUME IInv, NEW w \in Workers, NEW c \in Classes, Resume(w, c)
  PROVE  LedgerStep
<1> DEFINE o == Other(c)
           y == got[w][c]
           u == Unread(w, c)
           kept == Mark(status, y, "running")
           out == IF u = None THEN {} ELSE {u}
<1>1. o \in Classes /\ o # c /\ seen' = seen
      /\ status' = Mark(kept, u, "discarded")
  BY OtherClass DEF Resume, GetResumes
<1>2. u = got[w][o] /\ u \in Item /\ y \in Item
  BY <1>1 DEF Unread, IInv, Placement, ResultsRead, TypeOK, QueueTypeOK
<1>3. /\ (y # None => y \in Jobs /\ status[y] = "held" /\ Prio[y] = c)
      /\ (u # None => u \in Jobs /\ status[u] = "held" /\ Prio[u] = o)
  BY <1>1, <1>2 DEF Item, IInv, Placement, TasksPlaced
<1>4. status \in Statuses /\ kept \in Statuses
  <2>1. status \in Statuses
    BY TypesOfParts DEF IInv
  <2> QED BY <1>2, <2>1, MarkType DEF Statuses, Status
<1>5. \A k \in Jobs : kept[k] = IF k = y THEN "running" ELSE status[k]
  BY <1>4, QueueAssumption DEF Mark, Statuses
<1> HIDE DEF u, y, kept
<1>6. \A k \in Jobs : status'[k] = IF k = u THEN "discarded"
                                    ELSE IF k = y THEN "running" ELSE status[k]
  BY <1>1, <1>4, <1>5, QueueAssumption DEF Mark, Statuses
<1>7. /\ out \in SUBSET Jobs /\ \A k \in out : k = u /\ status[k] = "held"
      /\ \A k \in Jobs : k \in out <=> k = u
  BY <1>3, QueueAssumption
<1> HIDE DEF out
<1>8. CASE y = None
  <2>1. \A k \in Jobs : status'[k] = IF k \in out THEN "discarded" ELSE status[k]
    BY <1>6, <1>7, <1>8, QueueAssumption
  <2> QED BY <1>1, <1>7, <2>1, DropStep
<1>9. CASE y # None
  <2>1. y \in Jobs /\ status[y] = "held" /\ y # u
    BY <1>1, <1>3, <1>9
  <2>2. \A k \in Jobs : status'[k] = IF k = y THEN "running"
                        ELSE IF k \in out THEN "discarded" ELSE status[k]
    BY <1>6, <1>7, <2>1
  <2>3. \A k \in out : k # y /\ status[k] \in {"queued", "held"}
    BY <1>7, <2>1
  <2> QED BY <1>1, <1>7, <2>1, <2>2, <2>3, BeginStep
<1> QED BY <1>8, <1>9

LEMMA GetterLedgerStep ==
  ASSUME IInv, NEW w \in Workers, NEW c \in Classes, GetterStep(w, c)
  PROVE  LedgerStep
<1>1. CASE TaskTakes(w, c)
  <2>1. /\ status' = Mark(status, Head(queue[c]), "held") /\ seen' = seen
        /\ queue[c] # << >> /\ status \in Statuses
    BY <1>1, TypesOfParts DEF TaskTakes, IInv
  <2>2. Head(queue[c]) # None =>
          Head(queue[c]) \in Jobs /\ status[Head(queue[c])] = "queued"
    BY <2>1, HeadQueued
  <2>3. \A k \in Jobs : FateOf(status'[k]) = FateOf(status[k])
    BY <2>1, <2>2, Fates, QueueAssumption DEF Mark, Statuses
  <2> QED BY <2>1, <2>3, SameFate
<1>2. CASE TaskBlocks(w, c) \/ TaskRevoked(w, c)
  <2>1. status' = status /\ seen' = seen
    BY <1>2 DEF TaskBlocks, TaskRevoked
  <2> QED BY <2>1, SameFate
<1> QED BY <1>1, <1>2 DEF GetterStep

LEMMA HandledStep ==
  ASSUME IInv, NEW w \in Workers, Handled(w)
  PROVE  LedgerStep
<1> DEFINE j == current[w]
<1>1. j \in Jobs /\ status[j] = "running"
  BY DEF Handled, IInv, TypeOK, Item, Handling, Placement, WorkersPlaced
<1>2. seen' = seen /\ status' = [status EXCEPT ![j] = "done"]
      /\ status \in Statuses
  BY TypesOfParts DEF Handled, IInv
<1> HIDE DEF j
<1>3. Fate' = [Fate EXCEPT ![j] = "finished"]
  BY <1>1, <1>2, Fates DEF Fate, Statuses
<1>4. Ledger!Finish(j)
  BY <1>1, <1>2, <1>3, Fates DEF Ledger!Finish, Fate
<1> QED BY <1>1, <1>4 DEF LedgerStep, Ledger!LedgerNext

\* Steps that touch no delivery.
StopOrWait == Stop \/ UNCHANGED vars \/ \E w \in Workers : StartWaiting(w)

LEMMA PoolStepIsLedgerStep ==
  ASSUME IInv, [Next]_vars
  PROVE  LedgerStep
<1>1. ASSUME StopOrWait PROVE LedgerStep
  BY <1>1, SameFate
     DEF StopOrWait, Stop, PutSentinels, StartWaiting, GetWait, vars
<1>2. ASSUME NEW w \in Workers, WorkerStep(w) PROVE LedgerStep
  BY <1>1, <1>2, TakeReadyStep, GetterLedgerStep, ResumeStep, HandledStep
     DEF WorkerStep, StopOrWait
<1> QED
  BY <1>1, <1>2, ArriveStep, ForgetStep, DrainStep DEF Next, StopOrWait

(***************************************************************************)
(* The pool implements the ledger: an accepted delivery is begun at most   *)
(* once, finished only after that, and a key is not accepted again while   *)
(* it is remembered.                                                       *)
(***************************************************************************)
THEOREM PoolImplementsLedger == Spec => ImplementsLedger
<1>1. Init => Ledger!LedgerInit
  BY Fates DEF Init, QueueInit, Ledger!LedgerInit
<1>2. IInv /\ [Next]_vars => [Ledger!LedgerNext]_(Ledger!ledger)
  BY PoolStepIsLedgerStep DEF LedgerStep, Fate, Ledger!ledger
<1> QED
  BY <1>1, <1>2, IInvInvariant, PTL
     DEF Spec, ImplementsLedger, Ledger!LedgerSpec

-----------------------------------------------------------------------------
(* OncePerKey *)

\* The key of an accepted delivery is remembered.
KeyKept ==
  \A j \in Jobs : status[j] \in Accepted /\ Key[j] \notin Expiring
                  => Key[j] \in seen

Taken == {"accepted", "begun", "finished", "dropped"}

LEMMA AcceptedFates ==
  \A s \in Status : s \in Accepted <=> FateOf(s) \in Taken
  BY Fates DEF Status, Accepted, InFlight, Taken

\* A ledger step takes at most one delivery, whose key was not remembered and
\* now is, and it forgets only keys that may lapse.
LEMMA LedgerTakes ==
  ASSUME LedgerStep
  PROVE  /\ \/ \A j \in Jobs : Fate'[j] \in Taken => Fate[j] \in Taken
            \/ \E t \in Jobs :
                 /\ Key[t] \notin seen /\ Key[t] \in seen'
                 /\ \A j \in Jobs : Fate'[j] \in Taken => j = t \/ Fate[j] \in Taken
         /\ \A k \in seen : k \in seen' \/ k \in Expiring
<1> USE DEF Taken
<1>1. ASSUME NEW j \in Jobs, Ledger!Repeat(j) \/ Ledger!Finish(j)
      PROVE  /\ \A i \in Jobs : Fate'[i] \in Taken => Fate[i] \in Taken
             /\ seen' = seen
  BY <1>1 DEF Ledger!Repeat, Ledger!Finish, Fate
<1>2. ASSUME NEW j \in Jobs, NEW out \in SUBSET Ledger!Droppable, NEW a,
             Ledger!Admit(j, out, a)
      PROVE  /\ Key[j] \notin seen /\ Key[j] \in seen' /\ seen \subseteq seen'
             /\ \A i \in Jobs : Fate'[i] \in Taken => i = j \/ Fate[i] \in Taken
  BY <1>2 DEF Ledger!Admit, Ledger!Droppable, Fate
<1>3. ASSUME NEW j \in Jobs, NEW out \in SUBSET Ledger!Droppable,
             Ledger!Begin(j, out)
      PROVE  /\ \A i \in Jobs : Fate'[i] \in Taken => Fate[i] \in Taken
             /\ seen' = seen
  BY <1>3 DEF Ledger!Begin, Ledger!Droppable, Fate
<1>4. ASSUME NEW out \in SUBSET Ledger!Droppable, Ledger!DropAll(out)
      PROVE  /\ \A i \in Jobs : Fate'[i] \in Taken => Fate[i] \in Taken
             /\ seen' = seen
  BY <1>4 DEF Ledger!DropAll, Ledger!Droppable, Fate
<1>5. ASSUME NEW k \in Keys, Ledger!Forget(k)
      PROVE  /\ Fate' = Fate
             /\ \A m \in seen : m \in seen' \/ m \in Expiring
  BY <1>5 DEF Ledger!Forget, Fate
<1>6. {} \in SUBSET Ledger!Droppable
  OBVIOUS
<1> QED
  BY <1>1, <1>2, <1>3, <1>4, <1>5, <1>6 DEF LedgerStep, Ledger!LedgerNext

\* The only way into the accepted statuses is the first delivery of a key.
LEMMA KeyStep ==
  ASSUME IInv, IInv', KeyKept, OncePerKey, [Next]_vars
  PROVE  KeyKept' /\ OncePerKey'
<1>1. /\ \A j \in Jobs : status[j] \in Accepted <=> Fate[j] \in Taken
      /\ \A j \in Jobs : status'[j] \in Accepted <=> Fate'[j] \in Taken
  BY AcceptedFates DEF IInv, TypeOK, QueueTypeOK, Fate
<1>2. /\ \/ \A j \in Jobs : Fate'[j] \in Taken => Fate[j] \in Taken
         \/ \E t \in Jobs :
              /\ Key[t] \notin seen /\ Key[t] \in seen'
              /\ \A j \in Jobs : Fate'[j] \in Taken => j = t \/ Fate[j] \in Taken
      /\ \A k \in seen : k \in seen' \/ k \in Expiring
  BY PoolStepIsLedgerStep, LedgerTakes
<1>3. CASE \A j \in Jobs : Fate'[j] \in Taken => Fate[j] \in Taken
  BY <1>1, <1>2, <1>3 DEF KeyKept, OncePerKey
<1>4. CASE \E t \in Jobs :
             /\ Key[t] \notin seen /\ Key[t] \in seen'
             /\ \A j \in Jobs : Fate'[j] \in Taken => j = t \/ Fate[j] \in Taken
  <2>1. PICK t \in Jobs :
             /\ Key[t] \notin seen /\ Key[t] \in seen'
             /\ \A j \in Jobs : Fate'[j] \in Taken => j = t \/ Fate[j] \in Taken
    BY <1>4
  <2>2. \A j \in Jobs : status'[j] \in Accepted => j = t \/ status[j] \in Accepted
    BY <1>1, <2>1
  <2>3. KeyKept'
    BY <1>2, <2>1, <2>2 DEF KeyKept
  <2>4. \A j \in Jobs : status[j] \in Accepted /\ Key[j] \notin Expiring
                        => Key[j] # Key[t]
    BY <2>1 DEF KeyKept
  <2>5. OncePerKey'
    BY <2>2, <2>4 DEF OncePerKey
  <2> QED BY <2>3, <2>5
<1> QED BY <1>2, <1>3, <1>4

(***************************************************************************)
(* Within the TTL, no two deliveries of one update are both accepted.      *)
(***************************************************************************)
THEOREM KeysAcceptedOnce == Spec => []OncePerKey
<1>1. Init => KeyKept /\ OncePerKey
  BY DEF Init, QueueInit, KeyKept, OncePerKey, Accepted, InFlight
<1>2. IInv /\ IInv' /\ KeyKept /\ OncePerKey /\ [Next]_vars
      => KeyKept' /\ OncePerKey'
  BY KeyStep
<1> QED BY <1>1, <1>2, IInvInvariant, PTL DEF Spec

-----------------------------------------------------------------------------
(* Counting: what an operation does to the lengths and the numbers of        *)
(* workers that the accounts are made of                                     *)

\* 1 if a is b, and 0 otherwise.
Is(a, b) == IF a = b THEN 1 ELSE 0

\* The getter tasks on class c that are done, the workers that handle a job
\* of class c.
Helds(t, c) == Cardinality({w \in Workers : t[w][c] = "done"})
Runs(cur, c) == Cardinality({w \in Workers : cur[w] # None /\ Prio[cur[w]] = c})

LEMMA SomeWorkers ==
  ASSUME NEW S \in SUBSET Workers
  PROVE  /\ IsFiniteSet(S)
         /\ Cardinality(S) \in Nat
         /\ Cardinality(S) <= Cardinality(Workers)
  BY QueueAssumption, FS_Subset, FS_CardinalityType

LEMMA WorkerJoins ==
  ASSUME NEW S \in SUBSET Workers, NEW T \in SUBSET Workers,
         NEW w \in Workers, NEW n \in {0, 1},
         w \notin S, w \in T <=> n = 1,
         \A v \in Workers : v # w => (v \in T <=> v \in S)
  PROVE  Cardinality(T) = Cardinality(S) + n
<1>1. IsFiniteSet(S) /\ Cardinality(S) \in Nat
  BY SomeWorkers
<1>2. CASE n = 1
  <2>1. T = S \cup {w}
    BY <1>2
  <2> QED BY <1>1, <1>2, <2>1, FS_AddElement
<1>3. CASE n = 0
  <2>1. T = S
    BY <1>3
  <2> QED BY <1>1, <1>3, <2>1
<1> QED BY <1>2, <1>3

LEMMA WorkerLeaves ==
  ASSUME NEW S \in SUBSET Workers, NEW T \in SUBSET Workers,
         NEW w \in Workers, NEW n \in {0, 1},
         w \notin T, w \in S <=> n = 1,
         \A v \in Workers : v # w => (v \in T <=> v \in S)
  PROVE  Cardinality(T) = Cardinality(S) - n
<1>1. Cardinality(S) = Cardinality(T) + n
  BY WorkerJoins
<1>2. Cardinality(S) \in Nat /\ Cardinality(T) \in Nat
  BY SomeWorkers
<1> QED BY <1>1, <1>2

\* Both numbers are those of some workers.
LEMMA CountTypes ==
  ASSUME NEW f, NEW c
  PROVE  /\ Helds(f, c) \in 0..Cardinality(Workers)
         /\ Runs(f, c) \in 0..Cardinality(Workers)
<1>1. Cardinality(Workers) \in Nat
  BY QueueAssumption, FS_CardinalityType
<1>2. /\ {w \in Workers : f[w][c] = "done"} \in SUBSET Workers
      /\ {w \in Workers : f[w] # None /\ Prio[f[w]] = c} \in SUBSET Workers
  OBVIOUS
<1> QED BY <1>1, <1>2, SomeWorkers DEF Helds, Runs

Tasks == [Workers -> [Classes -> TaskState]]

\* Tasks that are done in both are counted alike.
LEMMA SameHeld ==
  ASSUME NEW t, NEW s, NEW c,
         \A w \in Workers : t[w][c] = "done" <=> s[w][c] = "done"
  PROVE  Helds(s, c) = Helds(t, c)
<1>1. {w \in Workers : t[w][c] = "done"} = {w \in Workers : s[w][c] = "done"}
  OBVIOUS
<1> QED BY <1>1 DEF Helds

LEMMA TaskFinishes ==
  ASSUME NEW t \in Tasks, NEW w \in Workers, NEW c \in Classes, t[w][c] # "done",
         NEW d \in Classes
  PROVE  Helds([t EXCEPT ![w][c] = "done"], d) = Helds(t, d) + Is(d, c)
<1> DEFINE s == [t EXCEPT ![w][c] = "done"]
           S == {v \in Workers : t[v][d] = "done"}
           T == {v \in Workers : s[v][d] = "done"}
<1>1. \A v \in Workers : s[v][d] = IF v = w /\ d = c THEN "done" ELSE t[v][d]
  BY DEF Tasks
<1>2. CASE d = c
  <2>1. w \notin S /\ w \in T /\ \A v \in Workers : v # w => (v \in T <=> v \in S)
    BY <1>1, <1>2
  <2>2. Cardinality(T) = Cardinality(S) + 1
    <3> HIDE DEF S, T
    <3>1. S \in SUBSET Workers /\ T \in SUBSET Workers
      BY DEF S, T
    <3> QED BY <2>1, <3>1, WorkerJoins
  <2> QED BY <1>2, <2>2 DEF Helds, Is
<1>3. CASE d # c
  <2>1. \A v \in Workers : t[v][d] = "done" <=> s[v][d] = "done"
    BY <1>1, <1>3
  <2> HIDE DEF s
  <2>2. Helds(s, d) = Helds(t, d)
    BY <2>1, SameHeld
  <2>3. Helds(t, d) \in Int
    BY CountTypes
  <2> QED BY <1>3, <2>2, <2>3 DEF Is, s
<1> QED BY <1>2, <1>3

LEMMA TasksEnd ==
  ASSUME NEW t \in Tasks, NEW w \in Workers, NEW d \in Classes
  PROVE  Helds([t EXCEPT ![w] = [e \in Classes |-> "none"]], d)
           = Helds(t, d) - Is(t[w][d], "done")
<1> DEFINE s == [t EXCEPT ![w] = [e \in Classes |-> "none"]]
           S == {v \in Workers : t[v][d] = "done"}
           T == {v \in Workers : s[v][d] = "done"}
<1>1. \A v \in Workers : s[v][d] = IF v = w THEN "none" ELSE t[v][d]
  BY DEF Tasks
<1>2. /\ w \notin T /\ (w \in S <=> Is(t[w][d], "done") = 1)
      /\ \A v \in Workers : v # w => (v \in T <=> v \in S)
  BY <1>1 DEF Is
<1>3. S \in SUBSET Workers /\ T \in SUBSET Workers
  OBVIOUS
<1>4. Cardinality(T) = Cardinality(S) - Is(t[w][d], "done")
  <2> HIDE DEF S, T
  <2>1. Is(t[w][d], "done") \in {0, 1}
    BY DEF Is
  <2> QED BY <1>2, <1>3, <2>1, WorkerLeaves
<1> QED BY <1>4 DEF Helds

LEMMA JobBegins ==
  ASSUME NEW cur \in Desks, NEW w \in Workers, cur[w] = None, NEW x \in Jobs,
         NEW d \in Classes
  PROVE  Runs([cur EXCEPT ![w] = x], d) = Runs(cur, d) + Is(d, Prio[x])
<1> DEFINE s == [cur EXCEPT ![w] = x]
           S == {v \in Workers : cur[v] # None /\ Prio[cur[v]] = d}
           T == {v \in Workers : s[v] # None /\ Prio[s[v]] = d}
<1>1. \A v \in Workers : s[v] = IF v = w THEN x ELSE cur[v]
  BY DEF Desks
<1>2. /\ w \notin S /\ (w \in T <=> Is(d, Prio[x]) = 1)
      /\ \A v \in Workers : v # w => (v \in T <=> v \in S)
  BY <1>1, QueueAssumption DEF Is
<1>3. S \in SUBSET Workers /\ T \in SUBSET Workers /\ Is(d, Prio[x]) \in {0, 1}
  BY DEF Is
<1>4. Cardinality(T) = Cardinality(S) + Is(d, Prio[x])
  <2> HIDE DEF S, T
  <2> QED BY <1>2, <1>3, WorkerJoins
<1> QED BY <1>4 DEF Runs

LEMMA JobEnds ==
  ASSUME NEW cur \in Desks, NEW w \in Workers, cur[w] \in Jobs,
         NEW d \in Classes
  PROVE  Runs([cur EXCEPT ![w] = None], d) = Runs(cur, d) - Is(d, Prio[cur[w]])
<1> DEFINE s == [cur EXCEPT ![w] = None]
           S == {v \in Workers : cur[v] # None /\ Prio[cur[v]] = d}
           T == {v \in Workers : s[v] # None /\ Prio[s[v]] = d}
<1>1. \A v \in Workers : s[v] = IF v = w THEN None ELSE cur[v]
  BY DEF Desks
<1>2. /\ w \notin T /\ (w \in S <=> Is(d, Prio[cur[w]]) = 1)
      /\ \A v \in Workers : v # w => (v \in T <=> v \in S)
  BY <1>1, QueueAssumption DEF Is
<1>3. S \in SUBSET Workers /\ T \in SUBSET Workers /\ Is(d, Prio[cur[w]]) \in {0, 1}
  BY DEF Is
<1>4. Cardinality(T) = Cardinality(S) - Is(d, Prio[cur[w]])
  <2> HIDE DEF S, T
  <2> QED BY <1>2, <1>3, WorkerLeaves
<1> QED BY <1>4 DEF Runs

\* The lengths of the queues after a put and after a take.
LEMMA PushedLength ==
  ASSUME NEW q \in Queues, NEW j \in Jobs, NEW d \in Classes
  PROVE  Len(Pushed(q, j)[d]) = Len(q[d]) + Is(d, Prio[j])
<1>1. Len(q[d]) \in Nat
  BY DEF Queues
<1>2. CASE d = Prio[j]
  <2>1. Len(Pushed(q, j)[Prio[j]]) = Len(q[Prio[j]]) + 1
    BY PushedIndex
  <2> QED BY <1>2, <2>1 DEF Is
<1>3. CASE d # Prio[j]
  <2>1. Pushed(q, j)[d] = q[d]
    BY <1>3, PushedIndex
  <2> QED BY <1>1, <1>3, <2>1 DEF Is
<1> QED BY <1>2, <1>3

LEMMA PoppedLength ==
  ASSUME NEW q \in Queues, NEW c \in Classes, q[c] # << >>, NEW d \in Classes
  PROVE  /\ Len(Popped(q, c)[d]) = Len(q[d]) - Is(d, c)
         /\ Len(q[c]) > 0
<1>1. Len(q[d]) \in Nat
  BY DEF Queues
<1>2. Len(q[c]) \in Nat \ {0} /\ Len(Popped(q, c)[c]) = Len(q[c]) - 1
  BY PoppedIndex
<1>3. CASE d = c
  BY <1>2, <1>3 DEF Is
<1>4. CASE d # c
  <2>1. Popped(q, c)[d] = q[d]
    BY <1>4, PoppedIndex
  <2> QED BY <1>1, <1>2, <1>4, <2>1 DEF Is
<1> QED BY <1>3, <1>4

LEMMA AddCount ==
  ASSUME NEW u \in [Classes -> Int], NEW c \in Classes, NEW n \in Int,
         NEW d \in Classes
  PROVE  Add(u, c, n)[d] = u[d] + (IF d = c THEN n ELSE 0)
  BY DEF Add

-----------------------------------------------------------------------------
(* What each action does to the accounts *)

\* The items of class c that size() counts while they wait: queued, or held
\* by a getter task.
Waits(c) == Len(queue[c]) + Helds(task, c)

\* What the unfinished count of class c has beyond the items.
Surplus(c) == unfinished[c] - Waits(c) - Runs(current, c) - lost[c]

LEMMA Amounts ==
  ASSUME TypeOK, NEW c \in Classes
  PROVE  /\ Len(queue[c]) \in Nat /\ unfinished[c] \in Int /\ lost[c] \in Nat
         /\ Helds(task, c) \in Nat /\ Runs(current, c) \in Nat
         /\ Waits(c) \in Nat /\ size \in Nat
<1>1. /\ Len(queue[c]) \in Nat /\ unfinished[c] \in Int /\ lost[c] \in Nat
      /\ size \in Nat
  BY DEF TypeOK, QueueTypeOK
<1>2. Cardinality(Workers) \in Nat
  BY QueueAssumption, FS_CardinalityType
<1>3. Helds(task, c) \in Nat /\ Runs(current, c) \in Nat
  BY <1>2, CountTypes
<1> QED BY <1>1, <1>3 DEF Waits

\* The ways a step can change what waits and what size() says of it.
Still ==
  /\ size' = size
  /\ \A c \in Classes : Waits(c)' + lost'[c] = Waits(c) + lost[c]
                        /\ Waits(c)' <= Waits(c)
Enters(k) ==
  /\ size' = size + 1
  /\ lost' = lost
  /\ \A c \in Classes : Waits(c)' = Waits(c) + Is(c, k)
Replaces(k, v) ==
  /\ Waits(v) > 0
  /\ size' = Decremented(size) + 1
  /\ lost' = lost
  /\ \A c \in Classes : Waits(c)' = Waits(c) + Is(c, k) - Is(c, v)
Leaves(k) ==
  /\ Waits(k) > 0
  /\ size' = Decremented(size)
  /\ \A c \in Classes :
       /\ Waits(c)' + lost'[c] = Waits(c) + lost[c] - Is(c, k)
       /\ Waits(c)' <= Waits(c) - Is(c, k)

\* A wake-up makes no task done.
LEMMA WakeOneHeld ==
  ASSUME TypeOK, NEW c \in Classes, WakeOne(c), NEW d \in Classes
  PROVE  Helds(task', d) = Helds(task, d)
<1>1. \A w \in Workers : task[w][d] = "done" <=> task'[w][d] = "done"
  <2>1. CASE Blocked(c) = {}
    BY <2>1 DEF WakeOne
  <2>2. CASE Blocked(c) # {}
    <3>1. PICK w \in Workers : /\ task[w][c] = "blocked"
                               /\ task' = [task EXCEPT ![w][c] = "woken"]
      BY <2>2 DEF WakeOne, Blocked
    <3> QED BY <3>1 DEF TypeOK, QueueTypeOK
  <2> QED BY <2>1, <2>2
<1> QED BY <1>1, SameHeld

LEMMA PutCounts ==
  ASSUME TypeOK, NEW j \in Jobs, Put(j), NEW d \in Classes
  PROVE  /\ Len(queue'[d]) = Len(queue[d]) + Is(d, Prio[j])
         /\ unfinished'[d] = unfinished[d] + Is(d, Prio[j])
         /\ Helds(task', d) = Helds(task, d)
<1>1. Prio[j] \in Classes
  BY QueueAssumption
<1>2. queue \in Queues /\ unfinished \in [Classes -> Int]
  BY DEF TypeOK, QueueTypeOK, Queues
<1>3. Len(queue'[d]) = Len(queue[d]) + Is(d, Prio[j])
  BY <1>2, PushedLength DEF Put
<1>4. unfinished'[d] = unfinished[d] + Is(d, Prio[j])
  BY <1>1, <1>2, AddCount DEF Put, Is
<1>5. Helds(task', d) = Helds(task, d)
  BY <1>1, WakeOneHeld DEF Put
<1> QED BY <1>3, <1>4, <1>5

\* A put adds one to what waits and to the unfinished count.
LEMMA PutAccounts ==
  ASSUME TypeOK, NEW j \in Jobs, Put(j), current' = current, lost' = lost,
         size' = size + 1
  PROVE  Enters(Prio[j]) /\ \A c \in Classes : Surplus(c)' = Surplus(c)
<1> SUFFICES ASSUME NEW c \in Classes
             PROVE  /\ Waits(c)' = Waits(c) + Is(c, Prio[j])
                    /\ Surplus(c)' = Surplus(c)
  BY DEF Enters
<1>1. /\ Len(queue[c]) \in Int /\ unfinished[c] \in Int /\ lost[c] \in Int
      /\ Helds(task, c) \in Int /\ Runs(current, c) \in Int
  BY Amounts
<1>2. /\ Len(queue'[c]) = Len(queue[c]) + Is(c, Prio[j])
      /\ unfinished'[c] = unfinished[c] + Is(c, Prio[j])
      /\ Helds(task', c) = Helds(task, c)
  BY PutCounts
<1>3. Is(c, Prio[j]) \in Int
  BY DEF Is
<1> QED BY <1>1, <1>2, <1>3 DEF Waits, Surplus

LEMMA EvictAccounts ==
  ASSUME TypeOK, NEW j \in Jobs, EnqueueEvicting(j), current' = current
  PROVE  /\ \E v \in Classes : Replaces(Prio[j], v)
         /\ \A c \in Classes : Surplus(c)' = Surplus(c)
<1> DEFINE v == VictimClass
           q == Popped(queue, v)
<1>1. v \in Classes /\ queue[v] # << >> /\ Prio[j] \in Classes
  BY QueueAssumption DEF EnqueueEvicting, VictimClass, Classes
<1>2. queue \in Queues /\ unfinished \in [Classes -> Int]
  BY DEF TypeOK, QueueTypeOK, Queues
<1>3. /\ queue' = Pushed(q, j) /\ lost' = lost
      /\ unfinished' = Add(Add(unfinished, v, -1), Prio[j], 1)
      /\ size' = Decremented(size) + 1 /\ WakeOne(Prio[j])
  BY DEF EnqueueEvicting
<1> HIDE DEF v
<1>4. q \in Queues
  BY <1>1, <1>2, PoppedIndex
<1>5. \A c \in Classes : Len(q[c]) = Len(queue[c]) - Is(c, v)
  BY <1>1, <1>2, PoppedLength
<1>6. \A c \in Classes : Len(Pushed(q, j)[c]) = Len(q[c]) + Is(c, Prio[j])
  <2> HIDE DEF q
  <2> QED BY <1>4, PushedLength
<1>7. \A c \in Classes :
        unfinished'[c] = unfinished[c] + Is(c, Prio[j]) - Is(c, v)
  <2> DEFINE u == Add(unfinished, v, -1)
  <2>1. u \in [Classes -> Int]
    BY <1>1, <1>2, AddType
  <2>2. \A c \in Classes : u[c] = unfinished[c] + (IF c = v THEN -1 ELSE 0)
    BY <1>1, <1>2, AddCount
  <2> HIDE DEF u
  <2>3. \A c \in Classes : Add(u, Prio[j], 1)[c] = u[c] + Is(c, Prio[j])
    BY <1>1, <2>1, AddCount DEF Is
  <2>4. unfinished' = Add(u, Prio[j], 1)
    BY <1>3 DEF u
  <2>5. \A c \in Classes : unfinished[c] \in Int
    BY <1>2
  <2> QED BY <2>2, <2>3, <2>4, <2>5 DEF Is
<1>8. \A c \in Classes : Helds(task', c) = Helds(task, c)
  BY <1>1, <1>3, WakeOneHeld
<1> HIDE DEF q
<1>9. ASSUME NEW c \in Classes
      PROVE  /\ Waits(c)' = Waits(c) + Is(c, Prio[j]) - Is(c, v)
             /\ Surplus(c)' = Surplus(c)
  <2>1. /\ Len(queue[c]) \in Int /\ unfinished[c] \in Int /\ lost[c] \in Int
        /\ Helds(task, c) \in Int /\ Runs(current, c) \in Int
        /\ Is(c, Prio[j]) \in Int /\ Is(c, v) \in Int
    BY Amounts DEF Is
  <2>2. Len(queue'[c]) = Len(queue[c]) - Is(c, v) + Is(c, Prio[j])
    BY <1>3, <1>5, <1>6
  <2>3. /\ unfinished'[c] = unfinished[c] + Is(c, Prio[j]) - Is(c, v)
        /\ Helds(task', c) = Helds(task, c)
    BY <1>7, <1>8
  <2> QED BY <1>3, <2>1, <2>2, <2>3 DEF Waits, Surplus
<1>10. Waits(v) > 0
  BY <1>1, <1>2, PoppedLength, Amounts DEF Waits
<1>11. Replaces(Prio[j], v)
  BY <1>3, <1>9, <1>10 DEF Replaces
<1> QED BY <1>1, <1>9, <1>11

\* The loop's books on an item it received from class c: either it is marked
\* done at once, or the worker handles it.
LEMMA ReceiveCounts ==
  ASSUME TypeOK, NEW w \in Workers, NEW c \in Classes, NEW item \in Item,
         Receive(w, c, item), current[w] = None,
         item # None => Prio[item] = c, NEW d \in Classes
  PROVE  unfinished'[d] - Runs(current', d)
           = unfinished[d] - Runs(current, d) - Is(d, c)
<1>1. unfinished \in [Classes -> Int] /\ current \in Desks
  BY DEF TypeOK, QueueTypeOK, Desks
<1>2. unfinished[d] \in Int /\ Runs(current, d) \in Int /\ Is(d, c) \in Int
  BY Amounts DEF Is
<1>3. CASE item = None
  <2>1. unfinished' = Add(unfinished, c, -1) /\ current' = current
    BY <1>3 DEF Receive
  <2>2. unfinished'[d] = unfinished[d] - Is(d, c)
    BY <1>1, <2>1, AddCount DEF Is
  <2> QED BY <1>2, <2>1, <2>2
<1>4. CASE item # None
  <2>1. /\ unfinished' = unfinished /\ current' = [current EXCEPT ![w] = item]
        /\ item \in Jobs
    BY <1>4 DEF Receive, Item
  <2>2. Runs(current', d) = Runs(current, d) + Is(d, c)
    BY <1>1, <1>4, <2>1, JobBegins
  <2> QED BY <1>2, <2>1, <2>2
<1> QED BY <1>3, <1>4

LEMMA TakeReadyAccounts ==
  ASSUME IInv, NEW w \in Workers, TakeReady(w)
  PROVE  /\ Leaves(ReadyClass) /\ ReadyClass \in Classes
         /\ \A c \in Classes : Surplus(c)' = Surplus(c)
<1> DEFINE r == ReadyClass
           x == Head(queue[r])
<1>1. /\ r \in Classes /\ pc[w] = "loop" /\ queue[r] # << >>
      /\ queue' = Popped(queue, r) /\ Receive(w, r, x)
      /\ size' = Decremented(size) /\ task' = task /\ lost' = lost
  BY TakeReadyExpanded
<1> HIDE DEF r
<1>2. /\ x \in Item /\ (x # None => Prio[x] = r) /\ current[w] = None
      /\ queue \in Queues /\ TypeOK
  BY <1>1, HeadQueued, TypesOfParts DEF IInv, Handling
<1> HIDE DEF x
<1>3. ASSUME NEW c \in Classes
      PROVE  /\ Waits(c)' = Waits(c) - Is(c, r)
             /\ Surplus(c)' = Surplus(c)
  <2>1. /\ Len(queue[c]) \in Int /\ unfinished[c] \in Int /\ lost[c] \in Int
        /\ Helds(task, c) \in Int /\ Runs(current, c) \in Int
        /\ Is(c, r) \in Int
    BY <1>2, Amounts DEF Is
  <2>2. Len(queue'[c]) = Len(queue[c]) - Is(c, r)
    BY <1>1, <1>2, PoppedLength
  <2>3. unfinished'[c] - Runs(current', c)
          = unfinished[c] - Runs(current, c) - Is(c, r)
    BY <1>1, <1>2, ReceiveCounts
  <2>4. unfinished'[c] \in Int /\ Runs(current', c) \in Int
    <3>1. unfinished' \in [Classes -> Int]
      BY <1>1, <1>2, ReceiveType
    <3>2. Runs(current', c) \in 0..Cardinality(Workers)
      BY CountTypes
    <3>3. Cardinality(Workers) \in Nat
      BY QueueAssumption, FS_CardinalityType
    <3> QED BY <3>1, <3>2, <3>3
  <2>5. Waits(c)' = Waits(c) - Is(c, r) /\ Waits(c) \in Int
    <3>1. Helds(task', c) = Helds(task, c)
      BY <1>1
    <3> QED BY <2>1, <2>2, <3>1 DEF Waits
  <2>6. Surplus(c)' = unfinished'[c] - Waits(c)' - Runs(current', c) - lost[c]
    BY <1>1 DEF Surplus
  <2>7. Surplus(c) = unfinished[c] - Waits(c) - Runs(current, c) - lost[c]
    BY DEF Surplus
  <2> QED BY <2>1, <2>3, <2>4, <2>5, <2>6, <2>7
<1>4. Waits(r) > 0
  BY <1>1, <1>2, PoppedLength, Amounts DEF Waits
<1>5. Leaves(r)
  <2>1. \A c \in Classes : Waits(c) \in Int /\ lost[c] \in Int /\ Is(c, r) \in Int
    BY <1>2, Amounts DEF Is
  <2> QED BY <1>1, <1>3, <1>4, <2>1 DEF Leaves
<1> QED BY <1>1, <1>3, <1>5 DEF r

LEMMA StartWaitingAccounts ==
  ASSUME IInv, NEW w \in Workers, StartWaiting(w)
  PROVE  Still /\ \A c \in Classes : Surplus(c)' = Surplus(c)
<1>1. /\ queue' = queue /\ unfinished' = unfinished /\ current' = current
      /\ lost' = lost /\ size' = size /\ pc[w] = "loop"
      /\ task' = [task EXCEPT ![w] = [c \in Classes |-> "new"]]
  BY DEF StartWaiting, GetWait
<1>2. \A c \in Classes, v \in Workers : task[v][c] = "done" <=> task'[v][c] = "done"
  BY <1>1 DEF IInv, Waiting, TypeOK, QueueTypeOK
<1>3. \A c \in Classes : Helds(task', c) = Helds(task, c)
  BY <1>2, SameHeld
<1>4. \A c \in Classes : Waits(c)' = Waits(c) /\ Waits(c) \in Nat
  BY <1>1, <1>3, Amounts DEF Waits, IInv
<1> QED BY <1>1, <1>4 DEF Still, Surplus

LEMMA GetterStepAccounts ==
  ASSUME IInv, NEW w \in Workers, NEW c \in Classes, GetterStep(w, c)
  PROVE  Still /\ \A d \in Classes : Surplus(d)' = Surplus(d)
<1>1. /\ current' = current /\ unfinished' = unfinished /\ lost' = lost
      /\ size' = size
  BY DEF GetterStep, TaskTakes, TaskBlocks, TaskRevoked
<1>2. \A d \in Classes : Waits(d)' = Waits(d)
  <2> SUFFICES ASSUME NEW d \in Classes PROVE Waits(d)' = Waits(d)
    OBVIOUS
  <2>1. CASE TaskTakes(w, c)
    <3>1. /\ queue[c] # << >> /\ task[w][c] # "done" /\ queue' = Popped(queue, c)
          /\ task' = [task EXCEPT ![w][c] = "done"]
          /\ queue \in Queues /\ task \in Tasks
      BY <2>1 DEF TaskTakes, IInv, TypeOK, QueueTypeOK, Queues, Tasks
    <3>2. Len(queue'[d]) = Len(queue[d]) - Is(d, c)
      BY <3>1, PoppedLength
    <3>3. Helds(task', d) = Helds(task, d) + Is(d, c)
      BY <3>1, TaskFinishes
    <3>4. Len(queue[d]) \in Int /\ Helds(task, d) \in Int /\ Is(d, c) \in Int
      BY Amounts DEF IInv, Is
    <3> QED BY <3>2, <3>3, <3>4 DEF Waits
  <2>2. CASE TaskBlocks(w, c)
    <3>1. \A v \in Workers : task[v][d] = "done" <=> task'[v][d] = "done"
      BY <2>2 DEF TaskBlocks, IInv, TypeOK, QueueTypeOK
    <3>2. Helds(task', d) = Helds(task, d)
      BY <3>1, SameHeld
    <3> QED BY <2>2, <3>2 DEF TaskBlocks, Waits
  <2>3. CASE TaskRevoked(w, c)
    <3>1. WakeOne(c) \/ task' = task
      BY <2>3 DEF TaskRevoked
    <3>2. Helds(task', d) = Helds(task, d)
      BY <3>1, WakeOneHeld DEF IInv
    <3> QED BY <2>3, <3>2 DEF TaskRevoked, Waits
  <2> QED BY <2>1, <2>2, <2>3 DEF GetterStep
<1>3. \A d \in Classes : Waits(d) \in Nat
  BY Amounts DEF IInv
<1> QED BY <1>1, <1>2, <1>3 DEF Still, Surplus

LEMMA ResumeAccounts ==
  ASSUME IInv, NEW w \in Workers, NEW c \in Classes, Resume(w, c)
  PROVE  Leaves(c) /\ \A d \in Classes : Surplus(d)' = Surplus(d)
<1> DEFINE o == Other(c)
           y == got[w][c]
<1>1. /\ pc[w] = "wait" /\ task[w][c] = "done" /\ queue' = queue
      /\ task' = [task EXCEPT ![w] = [d \in Classes |-> "none"]]
      /\ lost' = IF task[w][o] = "done" THEN [lost EXCEPT ![o] = @ + 1] ELSE lost
      /\ size' = Decremented(size) /\ Receive(w, c, y)
  BY DEF Resume, GetResumes
<1>2. o \in Classes /\ o # c /\ \A d \in Classes : d = c \/ d = o
  BY OtherClass
<1> HIDE DEF o
<1>3. /\ y \in Item /\ (y # None => Prio[y] = c) /\ current[w] = None
      /\ task \in Tasks /\ TypeOK
  BY <1>1 DEF IInv, TypeOK, QueueTypeOK, Placement, TasksPlaced, Handling,
              Item, Tasks
<1> HIDE DEF y
<1>4. ASSUME NEW d \in Classes
      PROVE  /\ Waits(d)' = Waits(d) - Is(task[w][d], "done")
             /\ lost'[d] = lost[d] + (IF d = o THEN Is(task[w][d], "done") ELSE 0)
             /\ Surplus(d)' = Surplus(d)
             /\ Waits(d) \in Int /\ lost[d] \in Int
  <2>1. /\ Len(queue[d]) \in Int /\ unfinished[d] \in Int /\ lost[d] \in Int
        /\ Helds(task, d) \in Int /\ Runs(current, d) \in Int
        /\ Waits(d) \in Int
    BY <1>3, Amounts
  <2>2. Helds(task', d) = Helds(task, d) - Is(task[w][d], "done")
    BY <1>1, <1>3, TasksEnd
  <2>3. lost'[d] = lost[d] + (IF d = o THEN Is(task[w][d], "done") ELSE 0)
    BY <1>1, <1>2, <2>1 DEF Is, IInv, TypeOK, QueueTypeOK
  <2>4. unfinished'[d] - Runs(current', d)
          = unfinished[d] - Runs(current, d) - Is(d, c)
    BY <1>1, <1>3, ReceiveCounts
  <2>5. unfinished'[d] \in Int /\ Runs(current', d) \in Int
    <3>1. unfinished' \in [Classes -> Int]
      BY <1>1, <1>3, ReceiveType
    <3>2. Runs(current', d) \in 0..Cardinality(Workers)
      BY CountTypes
    <3>3. Cardinality(Workers) \in Nat
      BY QueueAssumption, FS_CardinalityType
    <3> QED BY <3>1, <3>2, <3>3
  <2>6. Waits(d)' = Waits(d) - Is(task[w][d], "done")
    BY <1>1, <2>1, <2>2 DEF Waits, Is
  <2>7. Is(task[w][d], "done") = Is(d, c) + (IF d = o THEN Is(task[w][d], "done") ELSE 0)
    BY <1>1, <1>2 DEF Is
  <2>8. /\ Is(task[w][d], "done") \in Int /\ Is(d, c) \in Int
        /\ (IF d = o THEN Is(task[w][d], "done") ELSE 0) \in Int
    BY DEF Is
  <2>9. Surplus(d)' = Surplus(d)
    <3>1. Surplus(d)' = unfinished'[d] - Waits(d)' - Runs(current', d) - lost'[d]
      BY DEF Surplus
    <3>2. Surplus(d) = unfinished[d] - Waits(d) - Runs(current, d) - lost[d]
      BY DEF Surplus
    <3> QED BY <2>1, <2>3, <2>4, <2>5, <2>6, <2>7, <2>8, <3>1, <3>2
  <2> QED BY <2>1, <2>3, <2>6, <2>9
<1>5. Waits(c) > 0
  <2>1. w \in {v \in Workers : task[v][c] = "done"}
    BY <1>1
  <2>2. Helds(task, c) > 0
    <3>1. Helds(task, c) # 0
      BY <2>1, SomeWorkers, FS_EmptySet DEF Helds
    <3> QED BY <1>3, <3>1, Amounts
  <2> QED BY <1>3, <2>2, Amounts DEF Waits
<1>6. \A d \in Classes :
        /\ Waits(d)' + lost'[d] = Waits(d) + lost[d] - Is(d, c)
        /\ Waits(d)' <= Waits(d) - Is(d, c)
  BY <1>1, <1>2, <1>4 DEF Is
<1> QED BY <1>1, <1>4, <1>5, <1>6 DEF Leaves

LEMMA HandledAccounts ==
  ASSUME IInv, NEW w \in Workers, Handled(w)
  PROVE  Still /\ \A c \in Classes : Surplus(c)' = Surplus(c)
<1> DEFINE j == current[w]
<1>1. /\ queue' = queue /\ task' = task /\ lost' = lost /\ size' = size
      /\ unfinished' = Add(unfinished, Prio[j], -1)
      /\ current' = [current EXCEPT ![w] = None]
  BY DEF Handled
<1>2. j \in Jobs /\ current \in Desks /\ unfinished \in [Classes -> Int]
  BY DEF Handled, IInv, Handling, TypeOK, QueueTypeOK, Item, Desks
<1>3. Prio[j] \in Classes
  BY <1>2, QueueAssumption
<1>4. \A c \in Classes : Runs(current', c) = Runs(current, c) - Is(c, Prio[j])
  BY <1>1, <1>2, JobEnds
<1> HIDE DEF j
<1>5. \A c \in Classes : unfinished'[c] = unfinished[c] - Is(c, Prio[j])
  BY <1>1, <1>2, <1>3, AddCount DEF Is
<1>6. \A c \in Classes :
        /\ Len(queue[c]) \in Int /\ unfinished[c] \in Int /\ lost[c] \in Int
        /\ Helds(task, c) \in Int /\ Runs(current, c) \in Int
        /\ Waits(c) \in Int /\ Is(c, Prio[j]) \in Int
  BY Amounts DEF IInv, Is
<1>7. \A c \in Classes : Waits(c)' = Waits(c)
  BY <1>1 DEF Waits
<1>8. ASSUME NEW c \in Classes PROVE Surplus(c)' = Surplus(c)
  <2>1. Surplus(c)' = unfinished'[c] - Waits(c) - Runs(current', c) - lost[c]
    BY <1>1, <1>7 DEF Surplus
  <2>2. Surplus(c) = unfinished[c] - Waits(c) - Runs(current, c) - lost[c]
    BY DEF Surplus
  <2>3. /\ unfinished[c] \in Int /\ lost[c] \in Int /\ Runs(current, c) \in Int
        /\ Waits(c) \in Int /\ Is(c, Prio[j]) \in Int
        /\ Runs(current', c) = Runs(current, c) - Is(c, Prio[j])
        /\ unfinished'[c] = unfinished[c] - Is(c, Prio[j])
    BY <1>4, <1>5, <1>6
  <2> QED BY <2>1, <2>2, <2>3
<1>9. Still
  BY <1>1, <1>6, <1>7 DEF Still
<1> QED BY <1>8, <1>9

LEMMA ArriveAccounts ==
  ASSUME IInv, NEW j \in Jobs, Arrive(j)
  PROVE  /\ Still \/ Enters(Prio[j]) \/ \E v \in Classes : Replaces(Prio[j], v)
         /\ \A c \in Classes : Surplus(c)' = Surplus(c)
<1>1. Enqueue(j) /\ current' = current /\ TypeOK
  BY DEF Arrive, IInv
<1>2. CASE EnqueueDuplicate(j) \/ EnqueueRejected(j)
  <2>1. UNCHANGED <<queue, unfinished, task, lost, size>>
    BY <1>2 DEF EnqueueDuplicate, EnqueueRejected
  <2>2. \A c \in Classes : Waits(c)' = Waits(c) /\ Waits(c) \in Nat
    BY <1>1, <2>1, Amounts DEF Waits
  <2> QED BY <1>1, <2>1, <2>2 DEF Still, Surplus
<1>3. CASE EnqueueWithRoom(j) \/ EnqueueOverfull(j)
  <2>1. Put(j) /\ lost' = lost /\ size' = size + 1
    BY <1>3 DEF EnqueueWithRoom, EnqueueOverfull
  <2> QED BY <1>1, <2>1, PutAccounts
<1>4. CASE EnqueueEvicting(j)
  BY <1>1, <1>4, EvictAccounts
<1> QED BY <1>1, <1>2, <1>3, <1>4 DEF Enqueue

LEMMA DrainAccounts ==
  ASSUME IInv, OperatorDrains
  PROVE  \A c \in Classes : /\ Waits(c)' \in 0..Cardinality(Workers)
                            /\ Surplus(c)' = Surplus(c)
<1> SUFFICES ASSUME NEW c \in Classes
             PROVE  /\ Waits(c)' \in 0..Cardinality(Workers)
                    /\ Surplus(c)' = Surplus(c)
  OBVIOUS
<1>1. /\ Len(queue'[c]) = 0 /\ unfinished'[c] = unfinished[c] - Len(queue[c])
      /\ task' = task /\ current' = current /\ lost' = lost
  BY DEF OperatorDrains, Drain
<1>2. /\ Len(queue[c]) \in Int /\ unfinished[c] \in Int /\ lost[c] \in Int
      /\ Helds(task, c) \in Int /\ Runs(current, c) \in Int
  BY Amounts DEF IInv
<1>3. Waits(c)' = Helds(task, c)
  BY <1>1, <1>2 DEF Waits
<1>4. Surplus(c)' = Surplus(c)
  <2>1. Surplus(c)' = unfinished'[c] - Helds(task, c) - Runs(current, c) - lost[c]
    BY <1>1, <1>3 DEF Surplus
  <2>2. Surplus(c) = unfinished[c] - (Len(queue[c]) + Helds(task, c))
                       - Runs(current, c) - lost[c]
    BY DEF Surplus, Waits
  <2> QED BY <1>1, <1>2, <2>1, <2>2
<1> QED BY <1>3, <1>4, CountTypes

\* The queues after stop(): the sentinels follow what is in the high one.
LEMMA SentinelsAppended ==
  ASSUME IInv, Stop
  PROVE  LET n == Cardinality(Workers)
             h == Len(queue["high"])
         IN /\ n \in Nat /\ h \in Nat
            /\ Len(queue'["high"]) = h + n
            /\ \A i \in 1..h : queue'["high"][i] = queue["high"][i]
            /\ \A i \in (h + 1)..(h + n) : queue'["high"][i] = None
            /\ queue'["normal"] = queue["normal"]
<1> DEFINE n == Cardinality(Workers)
           nones == [i \in 1..n |-> None]
           high == queue["high"]
<1>1. n \in Nat /\ nones \in Seq(Item) /\ high \in Seq(Item)
      /\ "high" \in Classes /\ "normal" \in Classes
  BY QueueAssumption, FS_CardinalityType, SentinelsType
     DEF IInv, TypeOK, QueueTypeOK, Classes
<1>2. queue' = [queue EXCEPT !["high"] = high \o nones]
  BY DEF Stop, PutSentinels
<1>3. queue'["high"] = high \o nones /\ queue'["normal"] = queue["normal"]
  BY <1>1, <1>2 DEF IInv, TypeOK, QueueTypeOK
<1>4. Len(nones) = n /\ \A i \in 1..n : nones[i] = None
  BY <1>1
<1> HIDE DEF nones, n, high
<1>5. /\ Len(high) \in Nat /\ Len(high \o nones) = Len(high) + n
      /\ \A i \in 1..Len(high) : (high \o nones)[i] = high[i]
      /\ \A i \in (Len(high) + 1)..(Len(high) + n) : (high \o nones)[i] = None
  BY <1>1, <1>4
<1> QED BY <1>1, <1>3, <1>5 DEF n, high

LEMMA StopAccounts ==
  ASSUME IInv, Stop
  PROVE  \A c \in Classes : Surplus(c)' = Surplus(c)
<1> SUFFICES ASSUME NEW c \in Classes PROVE Surplus(c)' = Surplus(c)
  OBVIOUS
<1> DEFINE n == IF c = "high" THEN Cardinality(Workers) ELSE 0
<1>1. Cardinality(Workers) \in Nat /\ "high" \in Classes
  BY QueueAssumption, FS_CardinalityType DEF Classes
<1>2. /\ Len(queue[c]) \in Int /\ unfinished[c] \in Int /\ lost[c] \in Int
      /\ Helds(task, c) \in Int /\ Runs(current, c) \in Int /\ n \in Int
  BY <1>1, Amounts DEF IInv
<1>3. Len(queue'[c]) = Len(queue[c]) + n
  BY <1>2, SentinelsAppended DEF Classes
<1>4. unfinished'[c] = unfinished[c] + n
  <2>1. unfinished' = Add(unfinished, "high", Cardinality(Workers))
    BY DEF Stop, PutSentinels
  <2>2. unfinished \in [Classes -> Int]
    BY DEF IInv, TypeOK, QueueTypeOK
  <2> QED BY <1>1, <2>1, <2>2, AddCount
<1>5. Helds(task', c) = Helds(task, c)
  <2>1. \A w \in Workers : task[w][c] = "done" <=> task'[w][c] = "done"
    BY DEF Stop, PutSentinels, IInv, TypeOK, QueueTypeOK, Classes
  <2> QED BY <2>1, SameHeld
<1>6. current' = current /\ lost' = lost
  BY DEF Stop, PutSentinels
<1> HIDE DEF n
<1>7. Surplus(c)' = unfinished'[c] - (Len(queue'[c]) + Helds(task', c))
                      - Runs(current, c) - lost[c]
  BY <1>6 DEF Surplus, Waits
<1>8. Surplus(c) = unfinished[c] - (Len(queue[c]) + Helds(task, c))
                     - Runs(current, c) - lost[c]
  BY DEF Surplus, Waits
<1> QED BY <1>2, <1>3, <1>4, <1>5, <1>7, <1>8

-----------------------------------------------------------------------------
(* UnfinishedExact *)

Exact == \A c \in Classes : Surplus(c) = 0

LEMMA ExactMeans == TypeOK => (UnfinishedExact <=> Exact)
<1> SUFFICES ASSUME TypeOK, NEW c \in Classes
             PROVE  unfinished[c] = Len(queue[c]) + Cardinality(HeldIn(c))
                                    + Cardinality(RunningOf(c)) + lost[c]
                    <=> Surplus(c) = 0
  BY DEF UnfinishedExact, Exact
<1>1. Cardinality(HeldIn(c)) = Helds(task, c)
  BY DEF HeldIn, Helds
<1>2. Cardinality(RunningOf(c)) = Runs(current, c)
  BY DEF RunningOf, Runs
<1>3. /\ Len(queue[c]) \in Int /\ unfinished[c] \in Int /\ lost[c] \in Int
      /\ Helds(task, c) \in Int /\ Runs(current, c) \in Int
  BY Amounts
<1>4. Surplus(c) = unfinished[c] - (Len(queue[c]) + Helds(task, c))
                     - Runs(current, c) - lost[c]
  BY DEF Surplus, Waits
<1>5. unfinished[c] = Len(queue[c]) + Helds(task, c) + Runs(current, c) + lost[c]
      <=> Surplus(c) = 0
  <2> DEFINE u == unfinished[c]
             l == Len(queue[c])
             h == Helds(task, c)
             r == Runs(current, c)
             z == lost[c]
  <2>1. u \in Int /\ l \in Int /\ h \in Int /\ r \in Int /\ z \in Int
    BY <1>3
  <2>2. Surplus(c) = u - (l + h) - r - z
    BY <1>4
  <2> HIDE DEF u, l, h, r, z
  <2>3. u = l + h + r + z <=> Surplus(c) = 0
    BY <2>1, <2>2
  <2> QED BY <2>3 DEF u, l, h, r, z
<1> QED BY <1>1, <1>2, <1>5

LEMMA SurplusKept ==
  ASSUME IInv, [Next]_vars
  PROVE  \A c \in Classes : Surplus(c)' = Surplus(c)
<1>1. ASSUME NEW k \in Keys, Expire(k)
      PROVE  \A c \in Classes : Surplus(c)' = Surplus(c)
  BY <1>1 DEF Expire, DedupExpire, Surplus, Waits
<1>2. ASSUME NEW w \in Workers, WorkerStep(w)
      PROVE  \A c \in Classes : Surplus(c)' = Surplus(c)
  BY <1>2, TakeReadyAccounts, StartWaitingAccounts, GetterStepAccounts,
     ResumeAccounts, HandledAccounts DEF WorkerStep
<1>3. CASE UNCHANGED vars
  BY <1>3 DEF vars, Surplus, Waits
<1> QED
  BY <1>1, <1>2, <1>3, ArriveAccounts, DrainAccounts, StopAccounts DEF Next

(***************************************************************************)
(* task_done is called exactly once for every item that leaves, whoever    *)
(* takes it out: asyncio's unfinished counts are the items still queued,   *)
(* held, being handled or lost, so task_done never raises and join() waits *)
(* for exactly these.                                                      *)
(***************************************************************************)
THEOREM CountsAreExact == Spec => []UnfinishedExact
<1>1. Init => Exact
  <2> SUFFICES ASSUME Init, NEW c \in Classes PROVE Surplus(c) = 0
    BY DEF Exact
  <2>1. /\ Len(queue[c]) = 0 /\ unfinished[c] = 0 /\ lost[c] = 0
        /\ {w \in Workers : task[w][c] = "done"} = {}
        /\ {w \in Workers : current[w] # None /\ Prio[current[w]] = c} = {}
    BY DEF Init, QueueInit
  <2>2. Helds(task, c) = 0 /\ Runs(current, c) = 0
    BY <2>1, FS_EmptySet DEF Helds, Runs
  <2> QED BY <2>1, <2>2 DEF Surplus, Waits
<1>2. IInv /\ Exact /\ [Next]_vars => Exact'
  BY SurplusKept DEF Exact
<1>3. IInv /\ Exact => UnfinishedExact
  BY ExactMeans DEF IInv
<1> QED BY <1>1, <1>2, <1>3, IInvInvariant, PTL DEF Spec

-----------------------------------------------------------------------------
(* The sentinels of stop() *)

\* The workers a sentinel has reached: it ended their loop, or their getter
\* task holds it.
Told(p, t, g) ==
  {w \in Workers : \/ p[w] = "exited"
                   \/ t[w]["high"] = "done" /\ g[w]["high"] = None}

\* The high queue q is a jobs followed by b sentinels, and the normal queue
\* has jobs only.
Shape(q, a, b) ==
  /\ Len(q["high"]) = a + b
  /\ \A i \in 1..a : q["high"][i] # None
  /\ \A i \in (a + 1)..(a + b) : q["high"][i] = None
  /\ \A i \in 1..Len(q["normal"]) : q["normal"][i] # None

\* Before stop() there is no sentinel.  After it no job is behind one, the
\* first one is taken when no high job is left, and there never are more of
\* them than workers that have not got one.
Ordered(q, a, b, told, stopped) ==
  /\ Shape(q, a, b)
  /\ ~stopped => b = 0 /\ told = {}
  /\ a > 0 => told = {}
  /\ b + Cardinality(told) <= Cardinality(Workers)

\* No getter task of the normal queue ever holds a sentinel.
NormalHeld(t, g) ==
  \A w \in Workers : t[w]["normal"] = "done" => g[w]["normal"] # None

Sentinels ==
  /\ \E a, b \in Nat : Ordered(queue, a, b, Told(pc, task, got), stopping)
  /\ NormalHeld(task, got)

LEMMA ToldWorkers ==
  ASSUME NEW p, NEW t, NEW g
  PROVE  /\ Told(p, t, g) \in SUBSET Workers
         /\ IsFiniteSet(Told(p, t, g))
         /\ Cardinality(Told(p, t, g)) \in Nat
<1>1. Told(p, t, g) \in SUBSET Workers
  BY DEF Told
<1> QED BY <1>1, SomeWorkers

\* Fewer workers told, nothing else changed.
LEMMA OrderedFewer ==
  ASSUME NEW q, NEW a \in Nat, NEW b \in Nat, NEW S \in SUBSET Workers,
         NEW T \in SUBSET S, NEW stopped, Ordered(q, a, b, S, stopped)
  PROVE  Ordered(q, a, b, T, stopped)
<1>1. IsFiniteSet(S) /\ Cardinality(S) \in Nat /\ Cardinality(Workers) \in Nat
  BY SomeWorkers, QueueAssumption, FS_CardinalityType
<1>2. Cardinality(T) <= Cardinality(S) /\ Cardinality(T) \in Nat
  BY <1>1, FS_Subset, FS_CardinalityType
<1> QED BY <1>1, <1>2 DEF Ordered

\* The head of the high queue is taken by worker w: it is a job and w is not
\* told, or it is a sentinel and w may be.
LEMMA HighPopped ==
  ASSUME NEW q \in Queues, q["high"] # << >>, NEW a \in Nat, NEW b \in Nat,
         NEW S \in SUBSET Workers, NEW T \in SUBSET Workers,
         NEW w \in Workers, NEW stopped,
         Ordered(q, a, b, S, stopped),
         Head(q["high"]) # None => T \subseteq S,
         T \subseteq S \cup {w}
  PROVE  \E c, d \in Nat : Ordered(Popped(q, "high"), c, d, T, stopped)
<1> DEFINE p == Popped(q, "high")
<1>1. "high" \in Classes /\ "normal" \in Classes
  BY DEF Classes
<1>2. /\ Len(q["high"]) \in Nat \ {0}
      /\ Len(p["high"]) = Len(q["high"]) - 1
      /\ \A i \in 1..(Len(q["high"]) - 1) : p["high"][i] = q["high"][i + 1]
      /\ p["normal"] = q["normal"]
      /\ Head(q["high"]) = q["high"][1]
  BY <1>1, PoppedIndex
<1>3. Shape(q, a, b)
  BY DEF Ordered
<1> HIDE DEF p
<1>4. /\ IsFiniteSet(S) /\ Cardinality(S) \in Nat /\ Cardinality(T) \in Nat
      /\ Cardinality(Workers) \in Nat
  BY SomeWorkers, QueueAssumption, FS_CardinalityType
<1>5. CASE a > 0
  <2>1. Head(q["high"]) # None
    BY <1>2, <1>3, <1>5 DEF Shape
  <2>2. Shape(p, a - 1, b)
    <3>1. Len(p["high"]) = (a - 1) + b
      BY <1>2, <1>3 DEF Shape
    <3>2. \A i \in 1..(a - 1) : p["high"][i] # None
      <4> SUFFICES ASSUME NEW i \in 1..(a - 1) PROVE p["high"][i] # None
        OBVIOUS
      <4>1. i + 1 \in 1..a /\ i \in 1..(Len(q["high"]) - 1)
        BY <1>3 DEF Shape
      <4> QED BY <1>2, <1>3, <4>1 DEF Shape
    <3>3. \A i \in ((a - 1) + 1)..((a - 1) + b) : p["high"][i] = None
      <4> SUFFICES ASSUME NEW i \in ((a - 1) + 1)..((a - 1) + b)
                   PROVE  p["high"][i] = None
        OBVIOUS
      <4>1. i + 1 \in (a + 1)..(a + b) /\ i \in 1..(Len(q["high"]) - 1)
        BY <1>3, <1>5 DEF Shape
      <4> QED BY <1>2, <1>3, <4>1 DEF Shape
    <3> QED BY <1>2, <1>3, <3>1, <3>2, <3>3 DEF Shape
  <2>3. a - 1 \in Nat
    BY <1>5
  <2>4. S = {} /\ T = {}
    BY <1>5, <2>1 DEF Ordered
  <2>5. Ordered(p, a - 1, b, T, stopped)
    BY <2>2, <2>4 DEF Ordered
  <2> QED BY <2>3, <2>5 DEF p
<1>6. CASE a = 0
  <2>1. b \in Nat \ {0}
    BY <1>2, <1>3, <1>6 DEF Shape
  <2>2. Shape(p, 0, b - 1)
    <3>1. Len(p["high"]) = 0 + (b - 1)
      BY <1>2, <1>3, <1>6 DEF Shape
    <3>2. \A i \in (0 + 1)..(0 + (b - 1)) : p["high"][i] = None
      <4> SUFFICES ASSUME NEW i \in (0 + 1)..(0 + (b - 1)) PROVE p["high"][i] = None
        OBVIOUS
      <4>1. i + 1 \in (a + 1)..(a + b) /\ i \in 1..(Len(q["high"]) - 1)
        BY <1>3, <1>6 DEF Shape
      <4> QED BY <1>2, <1>3, <4>1 DEF Shape
    <3>3. \A i \in 1..Len(p["normal"]) : p["normal"][i] # None
      BY <1>2, <1>3 DEF Shape
    <3> QED BY <3>1, <3>2, <3>3 DEF Shape
  <2>3. stopped
    BY <2>1 DEF Ordered
  <2>4. Cardinality(T) <= Cardinality(S) + 1
    <3>1. /\ IsFiniteSet(S \cup {w})
          /\ Cardinality(S \cup {w}) \in Nat
          /\ Cardinality(S \cup {w}) <= Cardinality(S) + 1
      BY <1>4, FS_AddElement, FS_CardinalityType
    <3>2. Cardinality(T) <= Cardinality(S \cup {w})
      BY <3>1, FS_Subset
    <3> QED BY <1>4, <3>1, <3>2
  <2>5. Ordered(p, 0, b - 1, T, stopped)
    BY <1>4, <2>1, <2>2, <2>3, <2>4 DEF Ordered
  <2> QED BY <2>1, <2>5 DEF p
<1> QED BY <1>5, <1>6

\* A job is put, or the head of the normal queue is taken: nothing changes
\* for the sentinels.
LEMMA NormalPopped ==
  ASSUME NEW q \in Queues, q["normal"] # << >>, NEW a \in Nat, NEW b \in Nat,
         NEW S, NEW stopped, Ordered(q, a, b, S, stopped)
  PROVE  /\ Ordered(Popped(q, "normal"), a, b, S, stopped)
         /\ Head(q["normal"]) # None
<1> DEFINE p == Popped(q, "normal")
<1>1. "high" \in Classes /\ "normal" \in Classes
  BY DEF Classes
<1>2. /\ Len(q["normal"]) \in Nat \ {0}
      /\ Len(p["normal"]) = Len(q["normal"]) - 1
      /\ \A i \in 1..(Len(q["normal"]) - 1) : p["normal"][i] = q["normal"][i + 1]
      /\ p["high"] = q["high"]
      /\ Head(q["normal"]) = q["normal"][1]
  BY <1>1, PoppedIndex
<1> HIDE DEF p
<1>3. Shape(q, a, b)
  BY DEF Ordered
<1>4. \A i \in 1..Len(p["normal"]) : p["normal"][i] # None
  <2> SUFFICES ASSUME NEW i \in 1..Len(p["normal"]) PROVE p["normal"][i] # None
    OBVIOUS
  <2>1. i + 1 \in 1..Len(q["normal"]) /\ i \in 1..(Len(q["normal"]) - 1)
    BY <1>2
  <2> QED BY <1>2, <1>3, <2>1 DEF Shape
<1>5. Shape(p, a, b)
  BY <1>2, <1>3, <1>4 DEF Shape
<1>6. Head(q["normal"]) # None
  BY <1>2, <1>3 DEF Shape
<1>7. Ordered(p, a, b, S, stopped)
  BY <1>5 DEF Ordered
<1> QED BY <1>6, <1>7 DEF p

\* Before a stop there is no sentinel in any queue, and none is needed there.
LEMMA NoSentinel ==
  ASSUME NEW q, NEW a \in Nat, NEW b \in Nat, NEW S,
         Ordered(q, a, b, S, FALSE)
  PROVE  /\ S = {} /\ \A c \in Classes : \A i \in 1..Len(q[c]) : q[c][i] # None
         /\ a = Len(q["high"]) /\ b = 0
<1>1. b = 0 /\ S = {} /\ Shape(q, a, b)
  BY DEF Ordered
<1> QED BY <1>1 DEF Shape, Classes

LEMMA AllJobs ==
  ASSUME NEW q \in Queues,
         \A c \in Classes : \A i \in 1..Len(q[c]) : q[c][i] # None
  PROVE  \E a, b \in Nat : Ordered(q, a, b, {}, FALSE)
<1>1. Len(q["high"]) \in Nat /\ "high" \in Classes /\ "normal" \in Classes
  BY DEF Queues, Classes
<1>2. Shape(q, Len(q["high"]), 0)
  BY <1>1 DEF Shape
<1>3. Cardinality({}) = 0 /\ Cardinality(Workers) \in Nat
  BY FS_EmptySet, QueueAssumption, FS_CardinalityType
<1>4. Ordered(q, Len(q["high"]), 0, {}, FALSE)
  BY <1>2, <1>3 DEF Ordered
<1> QED BY <1>1, <1>4

LEMMA PushedJobs ==
  ASSUME NEW q \in Queues, NEW j \in Jobs,
         \A c \in Classes : \A i \in 1..Len(q[c]) : q[c][i] # None
  PROVE  \A c \in Classes : \A i \in 1..Len(Pushed(q, j)[c]) :
           Pushed(q, j)[c][i] # None
<1> DEFINE p == Pushed(q, j)
<1>1. /\ Len(q[Prio[j]]) \in Nat
      /\ Len(p[Prio[j]]) = Len(q[Prio[j]]) + 1
      /\ \A i \in 1..Len(q[Prio[j]]) : p[Prio[j]][i] = q[Prio[j]][i]
      /\ p[Prio[j]][Len(q[Prio[j]]) + 1] = j
      /\ \A d \in Classes : d # Prio[j] => p[d] = q[d]
  BY PushedIndex
<1>2. j # None
  BY QueueAssumption
<1> HIDE DEF p
<1> SUFFICES ASSUME NEW c \in Classes, NEW i \in 1..Len(p[c]) PROVE p[c][i] # None
  BY DEF p
<1>3. CASE c = Prio[j]
  <2>1. i \in 1..Len(q[c]) \/ i = Len(q[c]) + 1
    BY <1>1, <1>3
  <2> QED BY <1>1, <1>2, <1>3, <2>1
<1>4. CASE c # Prio[j]
  BY <1>1, <1>4
<1> QED BY <1>3, <1>4

LEMMA PoppedJobs ==
  ASSUME NEW q \in Queues, NEW d \in Classes, q[d] # << >>,
         \A c \in Classes : \A i \in 1..Len(q[c]) : q[c][i] # None
  PROVE  \A c \in Classes : \A i \in 1..Len(Popped(q, d)[c]) :
           Popped(q, d)[c][i] # None
<1> DEFINE p == Popped(q, d)
<1>1. /\ Len(q[d]) \in Nat \ {0}
      /\ Len(p[d]) = Len(q[d]) - 1
      /\ \A i \in 1..(Len(q[d]) - 1) : p[d][i] = q[d][i + 1]
      /\ \A c \in Classes : c # d => p[c] = q[c]
  BY PoppedIndex
<1> HIDE DEF p
<1> SUFFICES ASSUME NEW c \in Classes, NEW i \in 1..Len(p[c]) PROVE p[c][i] # None
  BY DEF p
<1>2. CASE c = d
  <2>1. i + 1 \in 1..Len(q[d]) /\ i \in 1..(Len(q[d]) - 1)
    BY <1>1, <1>2
  <2> QED BY <1>1, <1>2, <2>1
<1>3. CASE c # d
  BY <1>1, <1>3
<1> QED BY <1>2, <1>3

\* While stop() was not called: no sentinel, in no queue and no task.
LEMMA BeforeStop ==
  ASSUME IInv, Sentinels, ~stopping
  PROVE  /\ \A c \in Classes : \A i \in 1..Len(queue[c]) : queue[c][i] # None
         /\ Told(pc, task, got) = {}
         /\ \A w \in Workers, c \in Classes :
              task[w][c] = "done" => got[w][c] # None
<1>1. PICK a \in Nat, b \in Nat : Ordered(queue, a, b, Told(pc, task, got), FALSE)
  <2>1. stopping = FALSE
    BY DEF IInv, TypeOK
  <2> QED BY <2>1 DEF Sentinels
<1>2. /\ \A c \in Classes : \A i \in 1..Len(queue[c]) : queue[c][i] # None
      /\ Told(pc, task, got) = {}
  BY <1>1, NoSentinel
<1> QED BY <1>2 DEF Told, Sentinels, NormalHeld, Classes

\* A step before a stop that puts jobs and moves no task to its end.
LEMMA SentinelsByJobs ==
  ASSUME IInv, Sentinels, ~stopping, stopping' = stopping, pc' = pc, got' = got,
         \A w \in Workers, c \in Classes :
           task'[w][c] = "done" <=> task[w][c] = "done",
         queue' \in Queues,
         \A c \in Classes : \A i \in 1..Len(queue'[c]) : queue'[c][i] # None
  PROVE  Sentinels'
<1>1. "high" \in Classes /\ "normal" \in Classes /\ stopping = FALSE
  BY DEF Classes, IInv, TypeOK
<1>2. Told(pc', task', got') = {}
  <2>1. Told(pc, task, got) = {}
    BY BeforeStop
  <2> QED BY <1>1, <2>1 DEF Told
<1>3. NormalHeld(task', got')
  BY <1>1 DEF Sentinels, NormalHeld
<1>4. \E a, b \in Nat : Ordered(queue', a, b, {}, FALSE)
  BY AllJobs
<1> QED BY <1>1, <1>2, <1>3, <1>4 DEF Sentinels

\* Tasks that are done stay done and no other gets done by a wake-up.
LEMMA WakeOneDone ==
  ASSUME TypeOK, NEW c \in Classes, WakeOne(c)
  PROVE  \A w \in Workers, d \in Classes :
           task'[w][d] = "done" <=> task[w][d] = "done"
<1>1. CASE Blocked(c) = {}
  BY <1>1 DEF WakeOne
<1>2. CASE Blocked(c) # {}
  <2>1. PICK w \in Workers : /\ task[w][c] = "blocked"
                             /\ task' = [task EXCEPT ![w][c] = "woken"]
    BY <1>2 DEF WakeOne, Blocked
  <2> QED BY <2>1 DEF TypeOK, QueueTypeOK
<1> QED BY <1>1, <1>2

LEMMA ArriveSentinels ==
  ASSUME IInv, Sentinels, NEW j \in Jobs, Arrive(j), TypeOK'
  PROVE  Sentinels'
<1>1. /\ ~stopping /\ stopping' = stopping /\ pc' = pc /\ Enqueue(j)
      /\ queue \in Queues /\ queue' \in Queues /\ Prio[j] \in Classes
  BY QueueAssumption DEF Arrive, IInv, TypeOK, QueueTypeOK, Queues
<1>2. \A c \in Classes : \A i \in 1..Len(queue[c]) : queue[c][i] # None
  BY <1>1, BeforeStop
<1>3. got' = got
  BY <1>1 DEF Enqueue, EnqueueDuplicate, EnqueueRejected, EnqueueWithRoom,
              EnqueueEvicting, EnqueueOverfull
<1>4. \A w \in Workers, c \in Classes : task'[w][c] = "done" <=> task[w][c] = "done"
  <2>1. task' = task \/ WakeOne(Prio[j])
    BY <1>1 DEF Enqueue, EnqueueDuplicate, EnqueueRejected,
                EnqueueWithRoom, EnqueueEvicting, EnqueueOverfull, Put
  <2> QED BY <1>1, <2>1, WakeOneDone DEF IInv
<1>5. \A c \in Classes : \A i \in 1..Len(queue'[c]) : queue'[c][i] # None
  <2>1. CASE EnqueueDuplicate(j) \/ EnqueueRejected(j)
    BY <1>2, <2>1 DEF EnqueueDuplicate, EnqueueRejected
  <2>2. CASE EnqueueWithRoom(j) \/ EnqueueOverfull(j)
    <3>1. queue' = Pushed(queue, j)
      BY <2>2 DEF EnqueueWithRoom, EnqueueOverfull, Put
    <3> QED BY <1>1, <1>2, <3>1, PushedJobs
  <2>3. CASE EnqueueEvicting(j)
    <3> DEFINE v == VictimClass
               q == Popped(queue, v)
    <3>1. v \in Classes /\ queue[v] # << >> /\ queue' = Pushed(q, j)
      BY <2>3 DEF EnqueueEvicting, VictimClass, Classes
    <3> HIDE DEF v
    <3>2. q \in Queues /\ \A c \in Classes : \A i \in 1..Len(q[c]) : q[c][i] # None
      BY <1>1, <1>2, <3>1, PoppedIndex, PoppedJobs
    <3> HIDE DEF q
    <3> QED BY <3>1, <3>2, PushedJobs
  <2> QED BY <1>1, <2>1, <2>2, <2>3 DEF Enqueue
<1> QED BY <1>1, <1>3, <1>4, <1>5, SentinelsByJobs

LEMMA DrainSentinels ==
  ASSUME IInv, Sentinels, OperatorDrains, TypeOK'
  PROVE  Sentinels'
<1>1. /\ ~stopping /\ stopping' = stopping /\ pc' = pc /\ task' = task /\ got' = got
      /\ queue' = [c \in Classes |-> << >>] /\ queue' \in Queues
  BY DEF OperatorDrains, Drain, TypeOK, QueueTypeOK, Queues
<1>2. \A c \in Classes : \A i \in 1..Len(queue'[c]) : queue'[c][i] # None
  BY <1>1
<1> QED BY <1>1, <1>2, SentinelsByJobs

LEMMA StopSentinels ==
  ASSUME IInv, Sentinels, Stop
  PROVE  Sentinels'
<1> DEFINE n == Cardinality(Workers)
           h == Len(queue["high"])
<1>1. /\ ~stopping /\ stopping' = TRUE /\ pc' = pc /\ got' = got
      /\ task' = [w \in Workers |->
                   IF task[w]["high"] = "blocked"
                   THEN [task[w] EXCEPT !["high"] = "woken"]
                   ELSE task[w]]
      /\ "high" \in Classes /\ "normal" \in Classes
  BY DEF Stop, PutSentinels, Classes
<1>2. \A w \in Workers, c \in Classes : task'[w][c] = "done" <=> task[w][c] = "done"
  BY <1>1 DEF IInv, TypeOK, QueueTypeOK
<1>3. /\ \A c \in Classes : \A i \in 1..Len(queue[c]) : queue[c][i] # None
      /\ Told(pc, task, got) = {}
  BY <1>1, BeforeStop
<1>4. Told(pc', task', got') = {}
  BY <1>1, <1>2, <1>3 DEF Told
<1>5. NormalHeld(task', got')
  BY <1>1, <1>2 DEF Sentinels, NormalHeld
<1>6. /\ n \in Nat /\ h \in Nat
      /\ Len(queue'["high"]) = h + n
      /\ \A i \in 1..h : queue'["high"][i] = queue["high"][i]
      /\ \A i \in (h + 1)..(h + n) : queue'["high"][i] = None
      /\ queue'["normal"] = queue["normal"]
  BY SentinelsAppended
<1> HIDE DEF n, h
<1>7. Shape(queue', h, n)
  BY <1>1, <1>3, <1>6 DEF Shape, h
<1>8. Ordered(queue', h, n, Told(pc', task', got'), stopping')
  <2>1. n + Cardinality({}) <= Cardinality(Workers)
    <3>1. Cardinality({}) = 0
      BY FS_EmptySet
    <3> QED BY <1>6, <3>1 DEF n
  <2> QED BY <1>1, <1>4, <1>7, <2>1 DEF Ordered
<1> QED BY <1>5, <1>6, <1>8 DEF Sentinels

\* A worker takes the head of queue c; only a sentinel makes it told.
LEMMA HeadTaken ==
  ASSUME IInv, Sentinels, NEW w \in Workers, NEW c \in Classes,
         queue[c] # << >>, queue' = Popped(queue, c), stopping' = stopping,
         Told(pc', task', got') \subseteq Told(pc, task, got) \cup {w},
         Head(queue[c]) # None => Told(pc', task', got') \subseteq Told(pc, task, got)
  PROVE  \E a, b \in Nat : Ordered(queue', a, b, Told(pc', task', got'), stopping')
<1>1. PICK a \in Nat, b \in Nat : Ordered(queue, a, b, Told(pc, task, got), stopping)
  BY DEF Sentinels
<1>2. /\ Told(pc, task, got) \in SUBSET Workers
      /\ Told(pc', task', got') \in SUBSET Workers /\ queue \in Queues
  BY ToldWorkers, TypesOfParts DEF IInv
<1>3. CASE c = "high"
  BY <1>1, <1>2, <1>3, HighPopped
<1>4. CASE c = "normal"
  <2>1. /\ Ordered(Popped(queue, "normal"), a, b, Told(pc, task, got), stopping)
        /\ Head(queue["normal"]) # None
    BY <1>1, <1>2, <1>4, NormalPopped
  <2>2. Told(pc', task', got') \in SUBSET Told(pc, task, got)
    BY <1>4, <2>1
  <2>3. Ordered(queue', a, b, Told(pc', task', got'), stopping')
    BY <1>2, <1>4, <2>1, <2>2, OrderedFewer
  <2> QED BY <2>3
<1> QED BY <1>3, <1>4 DEF Classes

\* Steps that leave the queues alone and tell nobody.
LEMMA NobodyTold ==
  ASSUME Sentinels, queue' = queue, stopping' = stopping,
         Told(pc', task', got') \subseteq Told(pc, task, got),
         NormalHeld(task', got')
  PROVE  Sentinels'
<1>1. PICK a \in Nat, b \in Nat : Ordered(queue, a, b, Told(pc, task, got), stopping)
  BY DEF Sentinels
<1>2. Ordered(queue, a, b, Told(pc', task', got'), stopping)
  BY <1>1, ToldWorkers, OrderedFewer
<1> QED BY <1>2 DEF Sentinels

LEMMA TakeReadySentinels ==
  ASSUME IInv, Sentinels, NEW w \in Workers, TakeReady(w)
  PROVE  Sentinels'
<1> DEFINE r == ReadyClass
           x == Head(queue[r])
<1>1. /\ r \in Classes /\ pc[w] = "loop" /\ queue[r] # << >>
      /\ queue' = Popped(queue, r) /\ Receive(w, r, x)
      /\ task' = task /\ got' = got /\ stopping' = stopping
  BY TakeReadyExpanded
<1> HIDE DEF r
<1>2. /\ \/ pc' = [pc EXCEPT ![w] = "exited"]
         \/ pc' = [pc EXCEPT ![w] = "handle"]
      /\ x # None => pc' = [pc EXCEPT ![w] = "handle"]
  BY <1>1 DEF Receive
<1>3. pc \in [Workers -> {"loop", "wait", "handle", "exited"}]
  BY DEF IInv, TypeOK
<1>4. Told(pc', task', got') \subseteq Told(pc, task, got) \cup {w}
  BY <1>1, <1>2, <1>3 DEF Told
<1>5. x # None => Told(pc', task', got') \subseteq Told(pc, task, got)
  BY <1>1, <1>2, <1>3 DEF Told
<1> HIDE DEF x
<1>6. \E a, b \in Nat : Ordered(queue', a, b, Told(pc', task', got'), stopping')
  BY <1>1, <1>4, <1>5, HeadTaken DEF x
<1>7. NormalHeld(task', got')
  BY <1>1 DEF Sentinels
<1> QED BY <1>6, <1>7 DEF Sentinels

LEMMA GetterStepSentinels ==
  ASSUME IInv, Sentinels, NEW w \in Workers, NEW c \in Classes, GetterStep(w, c)
  PROVE  Sentinels'
<1>1. pc' = pc /\ stopping' = stopping
  BY DEF GetterStep
<1>2. CASE TaskTakes(w, c)
  <2> DEFINE x == Head(queue[c])
  <2>1. /\ queue[c] # << >> /\ queue' = Popped(queue, c)
        /\ task' = [task EXCEPT ![w][c] = "done"]
        /\ got' = [got EXCEPT ![w][c] = x]
        /\ task \in Tasks /\ got \in Hands
        /\ "high" \in Classes /\ "normal" \in Classes
    BY <1>2, TypesOfParts DEF TaskTakes, IInv, TypeOK, QueueTypeOK, Tasks, Classes
  <2>2. \A v \in Workers, d \in Classes :
          /\ task'[v][d] = IF v = w /\ d = c THEN "done" ELSE task[v][d]
          /\ got'[v][d] = IF v = w /\ d = c THEN x ELSE got[v][d]
    BY <2>1 DEF Tasks, Hands
  <2>3. Told(pc', task', got') \subseteq Told(pc, task, got) \cup {w}
    BY <1>1, <2>1, <2>2 DEF Told
  <2>4. x # None => Told(pc', task', got') \subseteq Told(pc, task, got)
    BY <1>1, <2>1, <2>2 DEF Told
  <2> HIDE DEF x
  <2>5. \E a, b \in Nat : Ordered(queue', a, b, Told(pc', task', got'), stopping')
    BY <1>1, <2>1, <2>3, <2>4, HeadTaken DEF x
  <2>6. c = "normal" => x # None
    BY <2>1, NormalPopped, TypesOfParts DEF Sentinels, IInv, x
  <2>7. NormalHeld(task', got')
    BY <2>1, <2>2, <2>6 DEF Sentinels, NormalHeld
  <2> QED BY <2>5, <2>7 DEF Sentinels
<1>3. CASE TaskBlocks(w, c) \/ TaskRevoked(w, c)
  <2>1. queue' = queue /\ got' = got
    BY <1>3 DEF TaskBlocks, TaskRevoked
  <2>2. \A v \in Workers, d \in Classes : task'[v][d] = "done" <=> task[v][d] = "done"
    <3>1. CASE TaskBlocks(w, c)
      BY <3>1 DEF TaskBlocks, IInv, TypeOK, QueueTypeOK
    <3>2. CASE TaskRevoked(w, c)
      BY <3>2, WakeOneDone DEF TaskRevoked, IInv
    <3> QED BY <1>3, <3>1, <3>2
  <2>3. Told(pc', task', got') \subseteq Told(pc, task, got)
    BY <1>1, <2>1, <2>2 DEF Told, Classes
  <2>4. NormalHeld(task', got')
    BY <2>1, <2>2 DEF Sentinels, NormalHeld, Classes
  <2> QED BY <1>1, <2>1, <2>3, <2>4, NobodyTold
<1> QED BY <1>2, <1>3 DEF GetterStep

LEMMA ResumeSentinels ==
  ASSUME IInv, Sentinels, NEW w \in Workers, NEW c \in Classes, Resume(w, c)
  PROVE  Sentinels'
<1>1. /\ task[w][c] = "done" /\ queue' = queue /\ stopping' = stopping
      /\ task' = [task EXCEPT ![w] = [d \in Classes |-> "none"]]
      /\ got' = [got EXCEPT ![w] = [d \in Classes |-> None]]
      /\ Receive(w, c, got[w][c])
      /\ "high" \in Classes /\ "normal" \in Classes
  BY DEF Resume, GetResumes, Classes
<1>2. /\ pc \in [Workers -> {"loop", "wait", "handle", "exited"}]
      /\ task \in Tasks /\ got \in Hands
  BY TypesOfParts DEF IInv, TypeOK, QueueTypeOK, Tasks
<1>3. \A v \in Workers, d \in Classes :
        /\ v # w => task'[v][d] = task[v][d] /\ got'[v][d] = got[v][d]
        /\ v = w => task'[v][d] = "none"
  BY <1>1, <1>2 DEF Tasks, Hands
<1>4. \A v \in Workers : v # w => pc'[v] = pc[v]
  BY <1>1, <1>2 DEF Receive
<1>5. pc'[w] = "exited" => w \in Told(pc, task, got)
  <2>1. got[w][c] # None => pc'[w] = "handle"
    BY <1>1, <1>2 DEF Receive
  <2>2. c = "normal" => got[w][c] # None
    BY <1>1 DEF Sentinels, NormalHeld
  <2> QED BY <1>1, <2>1, <2>2 DEF Told, Classes
<1>6. Told(pc', task', got') \subseteq Told(pc, task, got)
  BY <1>1, <1>3, <1>4, <1>5 DEF Told
<1>7. NormalHeld(task', got')
  BY <1>1, <1>3 DEF Sentinels, NormalHeld
<1> QED BY <1>1, <1>6, <1>7, NobodyTold

LEMMA WorkerStepSentinels ==
  ASSUME IInv, Sentinels, NEW w \in Workers, WorkerStep(w)
  PROVE  Sentinels'
<1>1. pc \in [Workers -> {"loop", "wait", "handle", "exited"}]
      /\ task \in Tasks /\ "high" \in Classes /\ "normal" \in Classes
  BY DEF IInv, TypeOK, QueueTypeOK, Tasks, Classes
<1>2. CASE StartWaiting(w)
  <2>1. /\ queue' = queue /\ got' = got /\ stopping' = stopping
        /\ pc' = [pc EXCEPT ![w] = "wait"]
        /\ task' = [task EXCEPT ![w] = [c \in Classes |-> "new"]]
    BY <1>2 DEF StartWaiting, GetWait
  <2>2. \A v \in Workers, d \in Classes :
          task'[v][d] = IF v = w THEN "new" ELSE task[v][d]
    BY <1>1, <2>1 DEF Tasks
  <2>3. Told(pc', task', got') \subseteq Told(pc, task, got)
    BY <1>1, <2>1, <2>2 DEF Told
  <2>4. NormalHeld(task', got')
    BY <1>1, <2>1, <2>2 DEF Sentinels, NormalHeld
  <2> QED BY <2>1, <2>3, <2>4, NobodyTold
<1>3. CASE Handled(w)
  <2>1. /\ queue' = queue /\ got' = got /\ stopping' = stopping /\ task' = task
        /\ pc' = [pc EXCEPT ![w] = "loop"]
    BY <1>3 DEF Handled
  <2>2. Told(pc', task', got') \subseteq Told(pc, task, got)
    BY <1>1, <2>1 DEF Told
  <2>3. NormalHeld(task', got')
    BY <2>1 DEF Sentinels
  <2> QED BY <2>1, <2>2, <2>3, NobodyTold
<1> QED
  BY <1>2, <1>3, TakeReadySentinels, GetterStepSentinels, ResumeSentinels
     DEF WorkerStep

LEMMA SentinelsInit == Init => Sentinels
<1> SUFFICES ASSUME Init PROVE Sentinels
  OBVIOUS
<1>1. /\ stopping = FALSE
      /\ \A c \in Classes : \A i \in 1..Len(queue[c]) : queue[c][i] # None
      /\ queue \in Queues
      /\ \A w \in Workers : /\ pc[w] = "loop"
                            /\ \A c \in Classes : task[w][c] = "none"
      /\ "high" \in Classes /\ "normal" \in Classes
  BY InitType DEF Init, QueueInit, TypeOK, QueueTypeOK, Queues, Classes
<1>2. Told(pc, task, got) = {}
  BY <1>1 DEF Told
<1>3. NormalHeld(task, got)
  BY <1>1 DEF NormalHeld
<1>4. PICK a, b \in Nat : Ordered(queue, a, b, {}, FALSE)
  BY <1>1, AllJobs
<1>5. Ordered(queue, a, b, Told(pc, task, got), stopping)
  <2>1. stopping = FALSE
    BY <1>1
  <2> QED BY <1>2, <1>4, <2>1
<1> QED BY <1>3, <1>5 DEF Sentinels

LEMMA SentinelsStep == IInv /\ IInv' /\ Sentinels /\ [Next]_vars => Sentinels'
<1> SUFFICES ASSUME IInv, IInv', Sentinels, [Next]_vars PROVE Sentinels'
  OBVIOUS
<1>1. ASSUME NEW j \in Jobs, Arrive(j) PROVE Sentinels'
  BY <1>1, ArriveSentinels DEF IInv
<1>2. ASSUME OperatorDrains PROVE Sentinels'
  BY <1>2, DrainSentinels DEF IInv
<1>3. ASSUME UNCHANGED vars \/ \E k \in Keys : Expire(k) PROVE Sentinels'
  <2>1. UNCHANGED <<queue, task, got, pc, stopping>>
    BY <1>3 DEF vars, Expire, DedupExpire
  <2> QED BY <2>1, NobodyTold DEF Sentinels
<1> QED
  BY <1>1, <1>2, <1>3, StopSentinels, WorkerStepSentinels DEF Next

LEMMA SentinelsInvariant == Spec => []Sentinels
<1>1. Init => Sentinels
  BY SentinelsInit
<1>2. IInv /\ IInv' /\ Sentinels /\ [Next]_vars => Sentinels'
  BY SentinelsStep
<1> QED BY <1>1, <1>2, IInvInvariant, PTL DEF Spec

(***************************************************************************)
(* Shutdown serves what is urgent: the workers exit by sentinels that are  *)
(* behind every high job, so when all have exited the high queue is empty. *)
(***************************************************************************)
THEOREM UrgentServedAtStop == Spec => []StopServesHigh
<1>1. IInv /\ Sentinels => StopServesHigh
  <2> SUFFICES ASSUME IInv, Sentinels, AllExited PROVE queue["high"] = << >>
    BY DEF StopServesHigh
  <2>1. PICK a \in Nat, b \in Nat : Ordered(queue, a, b, Told(pc, task, got), stopping)
    BY DEF Sentinels
  <2>2. Told(pc, task, got) = Workers
    BY DEF Told, AllExited
  <2>3. a = 0 /\ b + Cardinality(Workers) <= Cardinality(Workers)
    BY <2>1, <2>2, PoolAssumption DEF Ordered
  <2>4. Cardinality(Workers) \in Nat
    BY QueueAssumption, FS_CardinalityType
  <2>5. Len(queue["high"]) = 0
    BY <2>1, <2>3, <2>4 DEF Ordered, Shape
  <2> QED BY <2>5 DEF IInv, TypeOK, QueueTypeOK, Classes
<1> QED BY <1>1, IInvInvariant, SentinelsInvariant, PTL

-----------------------------------------------------------------------------
(* SizeAccounting: before a stop, each kind of step keeps the account        *)

TotalWaits == Waits("high") + Waits("normal")

\* What a drain leaves out of _size: at most the two tasks of each worker.
Slack == IF "drain" \in Operator THEN 2 * Cardinality(Workers) ELSE 0

SizeInv ==
  ~stopping =>
    /\ TotalWaits <= size + Slack
    /\ "drain" \notin Operator => size = TotalWaits + Lost

LEMMA SizeTypes ==
  ASSUME TypeOK
  PROVE  /\ Waits("high") \in Nat /\ Waits("normal") \in Nat
         /\ TotalWaits \in Nat /\ Lost \in Nat /\ size \in Nat
         /\ lost["high"] \in Nat /\ lost["normal"] \in Nat
         /\ Slack \in Nat /\ Cardinality(Workers) \in Nat
<1>1. "high" \in Classes /\ "normal" \in Classes
  BY DEF Classes
<1>2. Cardinality(Workers) \in Nat
  BY QueueAssumption, FS_CardinalityType
<1>3. /\ Waits("high") \in Nat /\ Waits("normal") \in Nat /\ size \in Nat
      /\ lost["high"] \in Nat /\ lost["normal"] \in Nat
  BY <1>1, Amounts
<1> QED BY <1>2, <1>3 DEF TotalWaits, Lost, Slack

\* The same numbers after a step.
LEMMA NextSizeTypes ==
  ASSUME TypeOK'
  PROVE  /\ Waits("high")' \in Nat /\ Waits("normal")' \in Nat
         /\ lost'["high"] \in Nat /\ lost'["normal"] \in Nat
<1>1. "high" \in Classes /\ "normal" \in Classes
  BY DEF Classes
<1>2. \A c \in Classes : Len(queue'[c]) \in Nat /\ lost'[c] \in Nat
  BY DEF TypeOK, QueueTypeOK
<1>3. Cardinality(Workers) \in Nat
  BY QueueAssumption, FS_CardinalityType
<1>4. \A c \in Classes : Helds(task', c) \in Nat
  BY <1>3, CountTypes
<1> QED BY <1>1, <1>2, <1>4 DEF Waits

LEMMA StillSize ==
  ASSUME TypeOK, TypeOK', SizeInv, ~stopping, Still
  PROVE  SizeInv'
<1>1. "high" \in Classes /\ "normal" \in Classes
  BY DEF Classes
<1>2. /\ Waits("high") \in Nat /\ Waits("normal") \in Nat
      /\ lost["high"] \in Nat /\ lost["normal"] \in Nat
      /\ size \in Nat /\ Slack \in Nat
  BY SizeTypes
<1>3. /\ Waits("high")' \in Nat /\ Waits("normal")' \in Nat
      /\ lost'["high"] \in Nat /\ lost'["normal"] \in Nat
  BY NextSizeTypes
<1>4. /\ size' = size
      /\ Waits("high")' + lost'["high"] = Waits("high") + lost["high"]
      /\ Waits("normal")' + lost'["normal"] = Waits("normal") + lost["normal"]
      /\ Waits("high")' <= Waits("high") /\ Waits("normal")' <= Waits("normal")
  BY <1>1 DEF Still
<1>5. /\ Waits("high") + Waits("normal") <= size + Slack
      /\ "drain" \notin Operator =>
           size = Waits("high") + Waits("normal") + (lost["high"] + lost["normal"])
  BY DEF SizeInv, TotalWaits, Lost
<1>6. /\ Waits("high")' + Waits("normal")' <= size' + Slack
      /\ "drain" \notin Operator =>
           size' = Waits("high")' + Waits("normal")' + (lost'["high"] + lost'["normal"])
  BY <1>2, <1>3, <1>4, <1>5
<1> QED BY <1>6 DEF SizeInv, TotalWaits, Lost, Slack

\* One of the two classes is k.
LEMMA OneOf ==
  ASSUME NEW k \in Classes
  PROVE  /\ Is("high", k) \in Nat /\ Is("normal", k) \in Nat
         /\ Is("high", k) + Is("normal", k) = 1
  BY DEF Is, Classes

LEMMA EntersSize ==
  ASSUME TypeOK, SizeInv, ~stopping, NEW k \in Classes, Enters(k)
  PROVE  SizeInv'
<1>1. "high" \in Classes /\ "normal" \in Classes
  BY DEF Classes
<1>2. /\ Waits("high") \in Nat /\ Waits("normal") \in Nat
      /\ lost["high"] \in Nat /\ lost["normal"] \in Nat
      /\ size \in Nat /\ Slack \in Nat
  BY SizeTypes
<1>3. /\ size' = size + 1 /\ lost' = lost
      /\ Waits("high")' = Waits("high") + Is("high", k)
      /\ Waits("normal")' = Waits("normal") + Is("normal", k)
  BY <1>1 DEF Enters
<1>4. /\ Waits("high") + Waits("normal") <= size + Slack
      /\ "drain" \notin Operator =>
           size = Waits("high") + Waits("normal") + (lost["high"] + lost["normal"])
  BY DEF SizeInv, TotalWaits, Lost
<1>5. /\ Waits("high")' + Waits("normal")' <= size' + Slack
      /\ "drain" \notin Operator =>
           size' = Waits("high")' + Waits("normal")' + (lost["high"] + lost["normal"])
  BY <1>2, <1>3, <1>4, OneOf
<1> QED BY <1>3, <1>5 DEF SizeInv, TotalWaits, Lost, Slack

LEMMA ReplacesSize ==
  ASSUME TypeOK, SizeInv, ~stopping, NEW k \in Classes, NEW v \in Classes,
         Replaces(k, v)
  PROVE  SizeInv'
<1>1. "high" \in Classes /\ "normal" \in Classes
  BY DEF Classes
<1>2. /\ Waits("high") \in Nat /\ Waits("normal") \in Nat
      /\ lost["high"] \in Nat /\ lost["normal"] \in Nat
      /\ size \in Nat /\ Slack \in Nat
  BY SizeTypes
<1>3. /\ size' = Decremented(size) + 1 /\ lost' = lost
      /\ Waits("high")' = Waits("high") + Is("high", k) - Is("high", v)
      /\ Waits("normal")' = Waits("normal") + Is("normal", k) - Is("normal", v)
  BY <1>1 DEF Replaces
<1>4. Waits("high") + Waits("normal") > 0
  BY <1>2 DEF Replaces, Classes
<1>5. /\ Waits("high") + Waits("normal") <= size + Slack
      /\ "drain" \notin Operator =>
           size = Waits("high") + Waits("normal") + (lost["high"] + lost["normal"])
  BY DEF SizeInv, TotalWaits, Lost
<1>6. Waits("high")' + Waits("normal")' = Waits("high") + Waits("normal")
  <2>1. /\ Is("high", k) \in Nat /\ Is("normal", k) \in Nat
        /\ Is("high", k) + Is("normal", k) = 1
    BY OneOf
  <2>2. /\ Is("high", v) \in Nat /\ Is("normal", v) \in Nat
        /\ Is("high", v) + Is("normal", v) = 1
    BY OneOf
  <2> QED BY <1>2, <1>3, <2>1, <2>2
<1>7. size' >= size /\ (size > 0 => size' = size) /\ size' \in Nat
  BY <1>2, <1>3 DEF Decremented
<1>8. /\ Waits("high")' + Waits("normal")' <= size' + Slack
      /\ "drain" \notin Operator =>
           size' = Waits("high")' + Waits("normal")' + (lost["high"] + lost["normal"])
  BY <1>2, <1>4, <1>5, <1>6, <1>7
<1> QED BY <1>3, <1>8 DEF SizeInv, TotalWaits, Lost, Slack

LEMMA LeavesSize ==
  ASSUME TypeOK, TypeOK', SizeInv, ~stopping, NEW k \in Classes, Leaves(k)
  PROVE  SizeInv'
<1> DEFINE h == Waits("high")
           n == Waits("normal")
           x == lost["high"]
           y == lost["normal"]
           h2 == Waits("high")'
           n2 == Waits("normal")'
           x2 == lost'["high"]
           y2 == lost'["normal"]
           i == Is("high", k)
           m == Is("normal", k)
<1>1. "high" \in Classes /\ "normal" \in Classes
  BY DEF Classes
<1>2. h \in Nat /\ n \in Nat /\ x \in Nat /\ y \in Nat /\ size \in Nat /\ Slack \in Nat
  BY SizeTypes
<1>3. h2 \in Nat /\ n2 \in Nat /\ x2 \in Nat /\ y2 \in Nat
  BY NextSizeTypes
<1>4. /\ size' = Decremented(size)
      /\ h2 + x2 = h + x - i /\ n2 + y2 = n + y - m
      /\ h2 <= h - i /\ n2 <= n - m
  BY <1>1 DEF Leaves
<1>5. h > 0 \/ n > 0
  BY DEF Leaves, Classes
<1>6. /\ h + n <= size + Slack
      /\ "drain" \notin Operator => size = h + n + (x + y)
  BY DEF SizeInv, TotalWaits, Lost
<1>7. i \in Nat /\ m \in Nat /\ i + m = 1
  BY OneOf
<1>8. SizeInv' <=> (~stopping' =>
        /\ h2 + n2 <= size' + Slack
        /\ "drain" \notin Operator => size' = h2 + n2 + (x2 + y2))
  BY DEF SizeInv, TotalWaits, Lost, Slack
<1> HIDE DEF h, n, x, y, h2, n2, x2, y2, i, m
<1>9. /\ h + n > 0 /\ h + n <= size + Slack /\ h2 + n2 <= h + n - 1
      /\ (h2 + n2) + (x2 + y2) = (h + n) + (x + y) - 1
      /\ h + n \in Nat /\ x + y \in Nat /\ h2 + n2 \in Nat /\ x2 + y2 \in Nat
  BY <1>2, <1>3, <1>4, <1>5, <1>6, <1>7
<1>10. /\ h2 + n2 <= size' + Slack
       /\ size = (h + n) + (x + y) => size' = (h2 + n2) + (x2 + y2)
  <2> DEFINE w == h + n
             l == x + y
             w2 == h2 + n2
             l2 == x2 + y2
  <2>1. /\ w > 0 /\ w <= size + Slack /\ w2 <= w - 1 /\ w2 + l2 = w + l - 1
        /\ w \in Nat /\ l \in Nat /\ w2 \in Nat /\ l2 \in Nat
    BY <1>2, <1>3, <1>9
  <2> HIDE DEF w, l, w2, l2
  <2>2. /\ w2 <= Decremented(size) + Slack
        /\ size = w + l => Decremented(size) = w2 + l2
    BY <1>2, <2>1 DEF Decremented
  <2>3. size' = Decremented(size)
    BY <1>4
  <2> QED BY <2>2, <2>3 DEF w, l, w2, l2
<1> QED BY <1>6, <1>8, <1>10

LEMMA DrainSize ==
  ASSUME IInv, OperatorDrains
  PROVE  SizeInv'
<1>1. "high" \in Classes /\ "normal" \in Classes /\ "drain" \in Operator
  BY DEF Classes, OperatorDrains
<1>2. Cardinality(Workers) \in Nat
  BY QueueAssumption, FS_CardinalityType
<1>3. /\ Waits("high")' \in 0..Cardinality(Workers)
      /\ Waits("normal")' \in 0..Cardinality(Workers)
  BY <1>1, DrainAccounts
<1>4. size' = 0
  BY DEF OperatorDrains, Drain
<1>5. Waits("high")' + Waits("normal")' <= size' + 2 * Cardinality(Workers)
  BY <1>2, <1>3, <1>4
<1> QED BY <1>1, <1>5 DEF SizeInv, TotalWaits, Slack

LEMMA SizeStep == IInv /\ IInv' /\ SizeInv /\ [Next]_vars => SizeInv'
<1> SUFFICES ASSUME IInv, IInv', SizeInv, [Next]_vars, ~stopping' PROVE SizeInv'
  BY DEF SizeInv
<1>1. TypeOK /\ TypeOK'
  BY DEF IInv
<1>2. ~Stop
  BY DEF Stop
<1>3. ASSUME NEW j \in Jobs, Arrive(j) PROVE SizeInv'
  <2>1. ~stopping /\ Prio[j] \in Classes
    BY <1>3, QueueAssumption DEF Arrive
  <2> QED BY <1>1, <1>3, <2>1, ArriveAccounts, StillSize, EntersSize, ReplacesSize
<1>4. ASSUME NEW w \in Workers, WorkerStep(w) PROVE SizeInv'
  <2>1. stopping' = stopping
    BY <1>4, TakeReadyExpanded
       DEF WorkerStep, StartWaiting, GetterStep, Resume, Handled
  <2>2. Still \/ \E k \in Classes : Leaves(k)
    BY <1>4, TakeReadyAccounts, StartWaitingAccounts, GetterStepAccounts,
       ResumeAccounts, HandledAccounts DEF WorkerStep
  <2> QED BY <1>1, <2>1, <2>2, StillSize, LeavesSize
<1>5. CASE OperatorDrains
  BY <1>5, DrainSize
<1>6. ASSUME UNCHANGED vars \/ \E k \in Keys : Expire(k) PROVE SizeInv'
  <2>1. UNCHANGED <<queue, task, size, lost, stopping>>
    BY <1>6 DEF vars, Expire, DedupExpire
  <2> QED BY <2>1 DEF SizeInv, TotalWaits, Waits, Lost, Slack
<1> QED BY <1>2, <1>3, <1>4, <1>5, <1>6 DEF Next

LEMMA SizeInit == Init => SizeInv
<1> SUFFICES ASSUME Init PROVE SizeInv
  OBVIOUS
<1>1. /\ \A c \in Classes : queue[c] = << >> /\ lost[c] = 0
      /\ \A c \in Classes : {w \in Workers : task[w][c] = "done"} = {}
      /\ size = 0 /\ "high" \in Classes /\ "normal" \in Classes
  BY DEF Init, QueueInit, Classes
<1>2. \A c \in Classes : Waits(c) = 0
  <2>1. \A c \in Classes : Helds(task, c) = 0
    BY <1>1, FS_EmptySet DEF Helds
  <2> QED BY <1>1, <2>1 DEF Waits
<1>3. Slack \in Nat
  BY QueueAssumption, FS_CardinalityType DEF Slack
<1> QED BY <1>1, <1>2, <1>3 DEF SizeInv, TotalWaits, Lost

\* What the accounts of _size rest on.
PoolInv == IInv /\ Sentinels /\ SizeInv

LEMMA PoolInvariant == Spec => []PoolInv
<1>1. Init => SizeInv
  BY SizeInit
<1>2. IInv /\ IInv' /\ SizeInv /\ [Next]_vars => SizeInv'
  BY SizeStep
<1> QED
  BY <1>1, <1>2, IInvInvariant, SentinelsInvariant, PTL DEF Spec, PoolInv

\* The jobs in the queues q.
JobsIn(q) ==
  Cardinality({p \in Classes \X (1..(Len(q["high"]) + Len(q["normal"]))) :
                 p[2] \in DOMAIN q[p[1]] /\ q[p[1]][p[2]] # None})

\* A queue that holds a jobs and then sentinels holds a jobs.
LEMMA JobsOfShape ==
  ASSUME NEW q \in Queues, NEW a \in Nat, NEW b \in Nat, Shape(q, a, b)
  PROVE  JobsIn(q) = a + Len(q["normal"])
<1> DEFINE h == Len(q["high"])
           n == Len(q["normal"])
           H == {"high"} \X (1..a)
           N == {"normal"} \X (1..n)
<1>1. /\ h \in Nat /\ n \in Nat /\ h = a + b
      /\ DOMAIN q["high"] = 1..h /\ DOMAIN q["normal"] = 1..n
  BY DEF Queues, Classes, Shape
<1>2. {p \in Classes \X (1..(h + n)) :
         p[2] \in DOMAIN q[p[1]] /\ q[p[1]][p[2]] # None} = H \cup N
  <2> HIDE DEF h, n
  <2>1. ASSUME NEW i \in 1..(h + n)
        PROVE  i \in 1..h /\ q["high"][i] # None <=> i \in 1..a
    <3>1. i \in 1..h => i \in 1..a \/ i \in (a + 1)..(a + b)
      BY <1>1
    <3>2. i \in 1..a => i \in 1..h
      BY <1>1
    <3> QED BY <3>1, <3>2 DEF Shape
  <2>2. ASSUME NEW i \in 1..(h + n)
        PROVE  i \in 1..n /\ q["normal"][i] # None <=> i \in 1..n
    BY DEF Shape, n
  <2>3. 1..a \subseteq 1..(h + n) /\ 1..n \subseteq 1..(h + n)
    BY <1>1
  <2> QED BY <1>1, <2>1, <2>2, <2>3 DEF Classes
<1>3. IsFiniteSet(1..a) /\ Cardinality(1..a) = a
  BY FS_Interval
<1>4. IsFiniteSet(1..n) /\ Cardinality(1..n) = n
  <2> HIDE DEF n
  <2> QED BY <1>1, FS_Interval
<1>5. IsFiniteSet(H) /\ Cardinality(H) = 1 * a
  <2>1. IsFiniteSet({"high"}) /\ Cardinality({"high"}) = 1
    BY FS_Singleton
  <2>2. IsFiniteSet(H) /\ Cardinality(H) = Cardinality({"high"}) * Cardinality(1..a)
    BY <1>3, <2>1, FS_Product
  <2> QED BY <1>3, <2>1, <2>2
<1>6. IsFiniteSet(N) /\ Cardinality(N) = 1 * n
  <2> HIDE DEF n
  <2>1. IsFiniteSet({"normal"}) /\ Cardinality({"normal"}) = 1
    BY FS_Singleton
  <2>2. IsFiniteSet(N) /\ Cardinality(N) = Cardinality({"normal"}) * Cardinality(1..n)
    BY <1>4, <2>1, FS_Product
  <2> QED BY <1>4, <2>1, <2>2
<1>7. H \cap N = {}
  OBVIOUS
<1>8. Cardinality(H \cup N) = Cardinality(H) + Cardinality(N) - 0
  <2> HIDE DEF H, N
  <2>1. Cardinality(H \cup N) = Cardinality(H) + Cardinality(N) - Cardinality(H \cap N)
    BY <1>5, <1>6, FS_Union
  <2> QED BY <1>7, <2>1, FS_EmptySet
<1>9. Cardinality(H \cup N) = a + n
  <2> HIDE DEF H, N, n
  <2> QED BY <1>1, <1>5, <1>6, <1>8
<1> QED BY <1>2, <1>9 DEF JobsIn

\* Before a stop everything queued is a job.
LEMMA JobsBeforeStop ==
  ASSUME IInv, Sentinels, ~stopping
  PROVE  /\ JobsQueued = Len(queue["high"]) + Len(queue["normal"])
         /\ Len(queue["high"]) \in Nat /\ Len(queue["normal"]) \in Nat
<1>1. /\ queue \in Queues
      /\ Len(queue["high"]) \in Nat /\ Len(queue["normal"]) \in Nat
  BY DEF IInv, TypeOK, QueueTypeOK, Classes, Queues
<1>2. Shape(queue, Len(queue["high"]), 0)
  BY <1>1, BeforeStop DEF Shape, Classes
<1>3. JobsQueued = JobsIn(queue)
  BY DEF JobsQueued, JobsIn
<1> QED BY <1>1, <1>2, <1>3, JobsOfShape

(***************************************************************************)
(* The hand-kept _size follows every path through enqueue and get: without *)
(* drains and until a stop it is exactly the jobs queued, held by getter   *)
(* tasks or lost, whatever the interleaving of handlers and workers.       *)
(***************************************************************************)
THEOREM SizeIsExact == Spec => []SizeAccounting
<1>1. PoolInv => SizeAccounting
  <2> SUFFICES ASSUME PoolInv, "drain" \notin Operator, ~stopping
               PROVE  size = JobsQueued + Held + Lost
    BY DEF SizeAccounting
  <2>1. /\ JobsQueued = Len(queue["high"]) + Len(queue["normal"])
        /\ Len(queue["high"]) \in Nat /\ Len(queue["normal"]) \in Nat
    BY JobsBeforeStop DEF PoolInv
  <2>2. /\ Held = Helds(task, "high") + Helds(task, "normal")
        /\ Helds(task, "high") \in Nat /\ Helds(task, "normal") \in Nat
    BY Amounts DEF PoolInv, IInv, Held, HeldIn, Helds, Classes
  <2>3. size = (Len(queue["high"]) + Helds(task, "high"))
               + (Len(queue["normal"]) + Helds(task, "normal")) + Lost
    BY DEF PoolInv, SizeInv, TotalWaits, Waits
  <2>4. Lost \in Nat
    BY SizeTypes DEF PoolInv, IInv
  <2> DEFINE h == Len(queue["high"])
             n == Len(queue["normal"])
             x == Helds(task, "high")
             y == Helds(task, "normal")
  <2>5. /\ h \in Nat /\ n \in Nat /\ x \in Nat /\ y \in Nat
        /\ JobsQueued = h + n /\ Held = x + y
        /\ size = (h + x) + (n + y) + Lost
    BY <2>1, <2>2, <2>3
  <2> HIDE DEF h, n, x, y
  <2> QED BY <2>4, <2>5
<1> QED BY <1>1, PoolInvariant, PTL

-----------------------------------------------------------------------------
(* Capacity                                                                  *)

Bound == IF MaxSize = 0 /\ DropOldest THEN 1 ELSE MaxSize

\* What a step other than an arrival does to the queues.
LEMMA QueueSteps ==
  ASSUME [Next]_vars, ~ \E j \in Jobs : Arrive(j)
  PROVE  \/ queue' = queue
         \/ \E c \in Classes : queue[c] # << >> /\ queue' = Popped(queue, c)
         \/ queue' = [c \in Classes |-> << >>]
         \/ Stop
<1>1. ASSUME NEW w \in Workers, WorkerStep(w)
      PROVE  \/ queue' = queue
             \/ \E c \in Classes : queue[c] # << >> /\ queue' = Popped(queue, c)
  <2>1. CASE TakeReady(w)
    BY <2>1, TakeReadyExpanded
  <2>2. CASE StartWaiting(w)
    BY <2>2 DEF StartWaiting, GetWait
  <2>3. CASE \E c \in Classes : GetterStep(w, c)
    BY <2>3 DEF GetterStep, TaskTakes, TaskBlocks, TaskRevoked
  <2>4. CASE \E c \in Classes : Resume(w, c)
    BY <2>4 DEF Resume, GetResumes
  <2>5. CASE Handled(w)
    BY <2>5 DEF Handled
  <2> QED BY <1>1, <2>1, <2>2, <2>3, <2>4, <2>5 DEF WorkerStep
<1>2. ASSUME UNCHANGED vars \/ \E k \in Keys : Expire(k) PROVE queue' = queue
  BY <1>2 DEF vars, Expire, DedupExpire
<1>3. OperatorDrains => queue' = [c \in Classes |-> << >>]
  BY DEF OperatorDrains, Drain
<1> QED BY <1>1, <1>2, <1>3 DEF Next

\* Queues p with sentinels where the a jobs of q ended, or sooner, have no
\* more jobs in the high class.
LEMMA FewerJobs ==
  ASSUME NEW p, NEW a \in Nat, NEW c \in Nat, NEW d \in Nat, Shape(p, c, d),
         \A i \in 1..Len(p["high"]) : i > a => p["high"][i] = None
  PROVE  c <= a
<1> SUFFICES ASSUME c > a PROVE FALSE
  OBVIOUS
<1>1. c \in 1..c /\ c \in 1..Len(p["high"])
  BY DEF Shape
<1> QED BY <1>1 DEF Shape

\* Only an arrival brings a job into the queues.
LEMMA NoMoreJobs ==
  ASSUME IInv, IInv', Sentinels, Sentinels', [Next]_vars,
         ~ \E j \in Jobs : Arrive(j)
  PROVE  JobsQueued' <= JobsQueued /\ JobsQueued' \in Nat /\ JobsQueued \in Nat
<1> DEFINE p == queue'
<1>1. /\ "high" \in Classes /\ "normal" \in Classes /\ queue \in Queues
      /\ p \in Queues
  BY TypesOfParts DEF Classes, IInv, TypeOK, QueueTypeOK, Queues
<1>2. PICK a \in Nat, b \in Nat : Shape(queue, a, b)
  BY DEF Sentinels, Ordered
<1>3. PICK c \in Nat, d \in Nat : Shape(p, c, d)
  BY DEF Sentinels, Ordered
<1>4. /\ Len(queue["normal"]) \in Nat /\ Len(p["normal"]) \in Nat
      /\ Len(queue["high"]) \in Nat /\ Len(p["high"]) \in Nat
  BY <1>1 DEF Queues
<1>5. JobsQueued = a + Len(queue["normal"])
  <2>1. JobsQueued = JobsIn(queue)
    BY DEF JobsQueued, JobsIn
  <2> QED BY <1>1, <1>2, <2>1, JobsOfShape
<1>6. JobsQueued' = c + Len(p["normal"])
  <2>1. JobsQueued' = JobsIn(p)
    BY DEF JobsQueued, JobsIn
  <2> HIDE DEF p
  <2> QED BY <1>1, <1>3, <2>1, JobsOfShape
<1>7. \A i \in 1..Len(queue["high"]) : i > a => queue["high"][i] = None
  <2> SUFFICES ASSUME NEW i \in 1..Len(queue["high"]), i > a
               PROVE  queue["high"][i] = None
    OBVIOUS
  <2>1. i \in (a + 1)..(a + b)
    BY <1>2, <1>4 DEF Shape
  <2> QED BY <1>2, <2>1 DEF Shape
<1>8. /\ Len(p["normal"]) <= Len(queue["normal"])
      /\ \A i \in 1..Len(p["high"]) : i > a => p["high"][i] = None
  <2>1. CASE p = queue
    <3>1. Len(p["normal"]) = Len(queue["normal"])
      BY <2>1
    <3> QED BY <1>4, <1>7, <2>1, <3>1
  <2>2. ASSUME NEW k \in Classes, queue[k] # << >>, p = Popped(queue, k)
        PROVE  /\ Len(p["normal"]) <= Len(queue["normal"])
               /\ \A i \in 1..Len(p["high"]) : i > a => p["high"][i] = None
    <3> HIDE DEF p
    <3>1. /\ Len(queue[k]) \in Nat \ {0}
          /\ Len(p[k]) = Len(queue[k]) - 1
          /\ \A i \in 1..(Len(queue[k]) - 1) : p[k][i] = queue[k][i + 1]
          /\ \A e \in Classes : e # k => p[e] = queue[e]
      <4> DEFINE r == Popped(queue, k)
      <4>1. /\ Len(queue[k]) \in Nat \ {0}
            /\ Len(r[k]) = Len(queue[k]) - 1
            /\ \A i \in 1..(Len(queue[k]) - 1) : r[k][i] = queue[k][i + 1]
            /\ \A e \in Classes : e # k => r[e] = queue[e]
        BY <1>1, <2>2, PoppedIndex
      <4> HIDE DEF r
      <4>2. p = r
        BY <2>2 DEF r
      <4> QED BY <4>1, <4>2
    <3>2. Len(p["normal"]) <= Len(queue["normal"])
      BY <1>1, <1>4, <3>1
    <3>3. ASSUME NEW i \in 1..Len(p["high"]), i > a PROVE p["high"][i] = None
      <4>1. CASE k = "high"
        <5>1. i + 1 \in 1..Len(queue["high"]) /\ i + 1 > a /\ i \in 1..(Len(queue[k]) - 1)
          BY <3>1, <3>3, <4>1
        <5> QED BY <1>7, <3>1, <4>1, <5>1
      <4>2. CASE k # "high"
        BY <1>1, <1>7, <3>1, <3>3, <4>2
      <4> QED BY <4>1, <4>2
    <3> QED BY <3>2, <3>3
  <2>3. CASE p = [k \in Classes |-> << >>]
    BY <1>1, <1>4, <2>3
  <2>4. CASE Stop
    <3>1. LET n == Cardinality(Workers)
              h == Len(queue["high"])
          IN /\ n \in Nat /\ h \in Nat
             /\ Len(p["high"]) = h + n
             /\ \A i \in 1..h : p["high"][i] = queue["high"][i]
             /\ \A i \in (h + 1)..(h + n) : p["high"][i] = None
             /\ p["normal"] = queue["normal"]
      BY <2>4, SentinelsAppended
    <3> HIDE DEF p
    <3>2. ASSUME NEW i \in 1..Len(p["high"]), i > a PROVE p["high"][i] = None
      <4>1. CASE i <= Len(queue["high"])
        <5>1. i \in 1..Len(queue["high"])
          BY <3>1, <4>1
        <5> QED BY <1>7, <3>1, <3>2, <5>1
      <4>2. CASE i > Len(queue["high"])
        <5>1. i \in (Len(queue["high"]) + 1)..(Len(queue["high"]) + Cardinality(Workers))
          BY <3>1, <4>2
        <5> QED BY <3>1, <5>1
      <4> QED BY <3>1, <4>1, <4>2
    <3> QED BY <1>4, <3>1, <3>2
  <2> QED BY <2>1, <2>2, <2>3, <2>4, QueueSteps
<1> HIDE DEF p
<1>9. c <= a
  BY <1>3, <1>8, FewerJobs
<1> QED BY <1>4, <1>5, <1>6, <1>8, <1>9

\* An arrival is let in below the bound, takes the place of another job, or
\* finds the queues empty.
LEMMA ArriveCapacity ==
  ASSUME IInv, IInv', Sentinels, Sentinels', SizeInv, Capacity,
         NEW j \in Jobs, Arrive(j)
  PROVE  Capacity'
<1> DEFINE h == Len(queue["high"])
           n == Len(queue["normal"])
           h2 == Len(queue'["high"])
           n2 == Len(queue'["normal"])
<1>1. ~stopping /\ stopping' = stopping /\ Enqueue(j) /\ TypeOK
  BY DEF Arrive, IInv
<1>2. JobsQueued = h + n /\ h \in Nat /\ n \in Nat
  BY <1>1, JobsBeforeStop
<1>3. JobsQueued' = h2 + n2 /\ h2 \in Nat /\ n2 \in Nat
  <2>1. stopping' = FALSE
    BY <1>1 DEF IInv, TypeOK
  <2>2. PICK a \in Nat, b \in Nat : Ordered(queue', a, b, Told(pc', task', got'), FALSE)
    BY <2>1 DEF Sentinels
  <2>3. a = h2 /\ Shape(queue', a, b)
    BY <2>2, NoSentinel DEF Ordered
  <2>4. queue' \in Queues
    BY DEF IInv, TypeOK, QueueTypeOK, Queues
  <2>5. JobsIn(queue') = a + n2
    BY <2>3, <2>4, JobsOfShape
  <2>6. JobsQueued' = JobsIn(queue')
    BY DEF JobsQueued, JobsIn
  <2> QED BY <2>3, <2>4, <2>5, <2>6 DEF Queues, Classes
<1>4. /\ MaxSize \in Nat /\ Slack \in Nat /\ Bound \in Nat /\ Bound >= MaxSize
      /\ size \in Nat
  BY <1>1, SizeTypes, QueueAssumption DEF Bound
<1>5. h + n <= Bound + Slack
  BY <1>2 DEF Capacity, Bound, Slack
<1>6. h2 + n2 <= Bound + Slack
  <2>1. CASE EnqueueDuplicate(j) \/ EnqueueRejected(j)
    <3>1. queue' = queue
      BY <2>1 DEF EnqueueDuplicate, EnqueueRejected
    <3> QED BY <1>5, <3>1
  <2>2. CASE EnqueueWithRoom(j) \/ EnqueueOverfull(j)
    <3>1. h2 + n2 = h + n + 1
      <4>1. Put(j)
        BY <2>2 DEF EnqueueWithRoom, EnqueueOverfull
      <4>2. /\ h2 = h + Is("high", Prio[j]) /\ n2 = n + Is("normal", Prio[j])
        BY <1>1, <4>1, PutCounts DEF Classes
      <4>3. /\ Is("high", Prio[j]) \in Nat /\ Is("normal", Prio[j]) \in Nat
            /\ Is("high", Prio[j]) + Is("normal", Prio[j]) = 1
        BY QueueAssumption, OneOf
      <4> HIDE DEF h, n, h2, n2
      <4> QED BY <1>2, <4>2, <4>3
    <3>2. CASE EnqueueWithRoom(j)
      <4>1. size < MaxSize /\ size \in Nat
        BY <1>1, <3>2, SizeTypes DEF EnqueueWithRoom
      <4>2. h + n <= size + Slack
        <5> DEFINE x == Helds(task, "high")
                   y == Helds(task, "normal")
        <5>1. (h + x) + (n + y) <= size + Slack /\ x \in Nat /\ y \in Nat
          BY <1>1, Amounts DEF SizeInv, TotalWaits, Waits, Classes
        <5> HIDE DEF h, n, x, y
        <5> QED BY <1>2, <1>4, <4>1, <5>1
      <4> HIDE DEF h, n, h2, n2
      <4> QED BY <1>2, <1>4, <3>1, <4>1, <4>2
    <3>3. CASE EnqueueOverfull(j)
      <4>1. h = 0 /\ n = 0
        BY <3>3 DEF EnqueueOverfull, Classes
      <4>2. Bound >= 1
        BY <3>3, QueueAssumption DEF EnqueueOverfull, Bound
      <4> HIDE DEF h, n, h2, n2
      <4> QED BY <1>4, <3>1, <4>1, <4>2
    <3> QED BY <2>2, <3>2, <3>3
  <2>3. CASE EnqueueEvicting(j)
    <3>1. h2 + n2 = h + n
      <4> DEFINE v == VictimClass
      <4>1. /\ h2 = h + Is("high", Prio[j]) - Is("high", v)
            /\ n2 = n + Is("normal", Prio[j]) - Is("normal", v)
            /\ v \in Classes
        <5>1. /\ VictimClass \in Classes /\ queue[VictimClass] # << >>
              /\ queue' = Pushed(Popped(queue, VictimClass), j)
          BY <2>3 DEF EnqueueEvicting, VictimClass, Classes
        <5>2. queue \in Queues /\ "high" \in Classes /\ "normal" \in Classes
          BY <1>1, TypesOfParts DEF Classes
        <5>3. \A c \in Classes : Len(queue'[c])
                = Len(Popped(queue, VictimClass)[c]) + Is(c, Prio[j])
          BY <5>1, <5>2, PoppedIndex, PushedLength
        <5>4. \A c \in Classes : Len(Popped(queue, VictimClass)[c])
                = Len(queue[c]) - Is(c, VictimClass)
          BY <5>1, <5>2, PoppedLength
        <5>5. \A c, k \in Classes : Is(c, k) \in Int
          BY DEF Is
        <5>6. Prio[j] \in Classes /\ h \in Int /\ n \in Int
          BY <1>2, QueueAssumption
        <5> HIDE DEF v
        <5>7. ASSUME NEW c \in Classes, Len(queue[c]) \in Int
              PROVE  Len(queue'[c]) = Len(queue[c]) + Is(c, Prio[j]) - Is(c, v)
          <6>1. /\ Len(queue'[c]) = Len(Popped(queue, VictimClass)[c]) + Is(c, Prio[j])
                /\ Len(Popped(queue, VictimClass)[c]) = Len(queue[c]) - Is(c, v)
                /\ Is(c, v) \in Int /\ Is(c, Prio[j]) \in Int
            BY <5>1, <5>3, <5>4, <5>5, <5>6 DEF v
          <6> QED BY <5>7, <6>1
        <5> QED BY <5>1, <5>2, <5>6, <5>7 DEF v
      <4>2. /\ Is("high", Prio[j]) \in Nat /\ Is("normal", Prio[j]) \in Nat
            /\ Is("high", Prio[j]) + Is("normal", Prio[j]) = 1
        BY QueueAssumption, OneOf
      <4>3. /\ Is("high", v) \in Nat /\ Is("normal", v) \in Nat
            /\ Is("high", v) + Is("normal", v) = 1
        BY <4>1, OneOf
      <4> HIDE DEF h, n, h2, n2, v
      <4> QED BY <1>2, <4>1, <4>2, <4>3
    <3> HIDE DEF h, n, h2, n2
    <3> QED BY <1>5, <3>1
  <2> QED BY <1>1, <2>1, <2>2, <2>3 DEF Enqueue
<1> QED BY <1>3, <1>6 DEF Capacity, Bound, Slack

LEMMA CapacityStep ==
  ASSUME PoolInv, PoolInv', Capacity, [Next]_vars
  PROVE  Capacity'
<1>1. CASE \E j \in Jobs : Arrive(j)
  BY <1>1, ArriveCapacity DEF PoolInv
<1>2. CASE ~ \E j \in Jobs : Arrive(j)
  <2>1. /\ JobsQueued' <= JobsQueued /\ JobsQueued' \in Nat /\ JobsQueued \in Nat
    BY <1>2, NoMoreJobs DEF PoolInv
  <2>2. Slack \in Nat /\ Bound \in Nat
    BY SizeTypes, QueueAssumption DEF PoolInv, IInv, Bound
  <2>3. JobsQueued <= Bound + Slack
    BY DEF Capacity, Bound, Slack
  <2>4. JobsQueued' <= Bound + Slack
    BY <2>1, <2>2, <2>3
  <2> QED BY <2>4 DEF Capacity, Bound, Slack
<1> QED BY <1>1, <1>2

(***************************************************************************)
(* queue_max_size holds whatever the interleaving: the jobs in the two     *)
(* queues never outnumber it (one more with max_size 0 under drop_oldest), *)
(* but for the jobs a drain leaves uncounted in getter tasks.              *)
(***************************************************************************)
THEOREM QueuesAreBounded == Spec => []Capacity
<1>1. Init => Capacity
  <2> SUFFICES ASSUME Init PROVE Capacity
    OBVIOUS
  <2>1. /\ TypeOK /\ queue \in Queues /\ Len(queue["normal"]) = 0
        /\ Shape(queue, 0, 0)
    BY InitType, TypesOfParts DEF Init, QueueInit, Shape, Classes
  <2>2. JobsQueued = 0
    <3>1. JobsIn(queue) = 0 + 0
      BY <2>1, JobsOfShape
    <3> QED BY <3>1 DEF JobsQueued, JobsIn
  <2>3. Slack \in Nat /\ Bound \in Nat
    BY <2>1, SizeTypes, QueueAssumption DEF Bound
  <2> QED BY <2>2, <2>3 DEF Capacity, Bound, Slack
<1>2. PoolInv /\ PoolInv' /\ Capacity /\ [Next]_vars => Capacity'
  BY CapacityStep
<1> QED BY <1>1, <1>2, PoolInvariant, PTL DEF Spec

-----------------------------------------------------------------------------
(* NoLostWakeup                                                              *)

\* The workers that will look at queue c because they were woken for it, or
\* will pass on the wake-up they got.
Alarms(t, r, c) == {w \in Workers : t[w][c] = "woken" \/ <<w, c>> \in r}

Heard(t, r, q) ==
  \A c \in Classes :
    (\E w \in Workers : t[w][c] = "blocked") =>
      Len(q[c]) <= Cardinality(Alarms(t, r, c))

\* A getter task that is cancelled is out of the way of the worker, which may
\* have started another one since.
RevokedFree(t, r) ==
  \A w \in Workers, c \in Classes : <<w, c>> \in r => t[w][c] \in {"none", "new"}

Wakeups == Heard(task, revoked, queue) /\ RevokedFree(task, revoked)

LEMMA HeardMeans ==
  ASSUME IInv, RevokedFree(task, revoked)
  PROVE  NoLostWakeup <=> Heard(task, revoked, queue)
<1> SUFFICES ASSUME NEW c \in Classes
             PROVE  Cardinality(WokenOn(c)) + Cardinality(RevokedOn(c))
                      = Cardinality(Alarms(task, revoked, c))
  BY DEF NoLostWakeup, Heard, Blocked
<1>1. /\ WokenOn(c) \in SUBSET Workers /\ RevokedOn(c) \in SUBSET Workers
      /\ WokenOn(c) \cap RevokedOn(c) = {}
      /\ Alarms(task, revoked, c) = WokenOn(c) \cup RevokedOn(c)
  BY DEF WokenOn, RevokedOn, Alarms
<1>2. /\ IsFiniteSet(WokenOn(c)) /\ IsFiniteSet(RevokedOn(c))
      /\ Cardinality(WokenOn(c)) \in Nat /\ Cardinality(RevokedOn(c)) \in Nat
  BY <1>1, SomeWorkers
<1>3. Cardinality(WokenOn(c) \cup RevokedOn(c))
        = Cardinality(WokenOn(c)) + Cardinality(RevokedOn(c))
          - Cardinality(WokenOn(c) \cap RevokedOn(c))
  BY <1>2, FS_Union
<1>4. Cardinality(WokenOn(c) \cap RevokedOn(c)) = 0
  BY <1>1, FS_EmptySet
<1> QED BY <1>1, <1>2, <1>3, <1>4

\* The alarms on class c are as many, or more.
LEMMA AlarmsKept ==
  ASSUME NEW t, NEW r, NEW s, NEW u, NEW c,
         Alarms(t, r, c) \subseteq Alarms(s, u, c)
  PROVE  /\ Cardinality(Alarms(t, r, c)) <= Cardinality(Alarms(s, u, c))
         /\ Cardinality(Alarms(t, r, c)) \in Nat
         /\ Cardinality(Alarms(s, u, c)) \in Nat
<1>1. Alarms(t, r, c) \in SUBSET Workers /\ Alarms(s, u, c) \in SUBSET Workers
  BY DEF Alarms
<1> QED BY <1>1, SomeWorkers, FS_Subset

\* At most worker w leaves the alarms of class c.
LEMMA AlarmAnswered ==
  ASSUME NEW t, NEW r, NEW s, NEW u, NEW c, NEW w \in Workers,
         Alarms(t, r, c) \subseteq Alarms(s, u, c) \cup {w}
  PROVE  /\ Cardinality(Alarms(t, r, c)) <= Cardinality(Alarms(s, u, c)) + 1
         /\ Cardinality(Alarms(t, r, c)) \in Nat
         /\ Cardinality(Alarms(s, u, c)) \in Nat
<1>1. Alarms(t, r, c) \in SUBSET Workers /\ Alarms(s, u, c) \in SUBSET Workers
  BY DEF Alarms
<1>2. IsFiniteSet(Alarms(s, u, c)) /\ Cardinality(Alarms(s, u, c)) \in Nat
      /\ Cardinality(Alarms(t, r, c)) \in Nat
  BY <1>1, SomeWorkers
<1>3. /\ IsFiniteSet(Alarms(s, u, c) \cup {w})
      /\ Cardinality(Alarms(s, u, c) \cup {w}) <= Cardinality(Alarms(s, u, c)) + 1
      /\ Cardinality(Alarms(s, u, c) \cup {w}) \in Nat
  <2> DEFINE A == Alarms(s, u, c)
  <2> HIDE DEF A
  <2>1. IsFiniteSet(A) /\ Cardinality(A) \in Nat
    BY <1>2 DEF A
  <2>2. /\ IsFiniteSet(A \cup {w})
        /\ Cardinality(A \cup {w}) =
             IF w \in A THEN Cardinality(A) ELSE Cardinality(A) + 1
    BY <2>1, FS_AddElement
  <2> QED BY <2>1, <2>2 DEF A
<1>4. Cardinality(Alarms(t, r, c)) <= Cardinality(Alarms(s, u, c) \cup {w})
  BY <1>3, FS_Subset
<1> QED BY <1>2, <1>3, <1>4

\* The effect of a wake-up on the tasks.
LEMMA WakeOneTask ==
  ASSUME TypeOK, NEW k \in Classes, WakeOne(k)
  PROVE  \/ Blocked(k) = {} /\ task' = task
         \/ \E v \in Workers :
              /\ task[v][k] = "blocked"
              /\ \A w \in Workers, c \in Classes :
                   task'[w][c] = IF w = v /\ c = k THEN "woken" ELSE task[w][c]
<1>1. CASE Blocked(k) = {}
  BY <1>1 DEF WakeOne
<1>2. CASE Blocked(k) # {}
  <2>1. PICK v \in Workers : /\ task[v][k] = "blocked"
                             /\ task' = [task EXCEPT ![v][k] = "woken"]
    BY <1>2 DEF WakeOne, Blocked
  <2>2. \A w \in Workers, c \in Classes :
          task'[w][c] = IF w = v /\ c = k THEN "woken" ELSE task[w][c]
    BY <2>1 DEF TypeOK, QueueTypeOK
  <2> QED BY <2>1, <2>2
<1> QED BY <1>1, <1>2

LEMMA WakeOneFree ==
  ASSUME TypeOK, RevokedFree(task, revoked), NEW k \in Classes, WakeOne(k),
         revoked' \subseteq revoked
  PROVE  RevokedFree(task', revoked')
<1>1. CASE task' = task
  BY <1>1 DEF RevokedFree
<1>2. ASSUME NEW v \in Workers, task[v][k] = "blocked",
             \A w \in Workers, c \in Classes :
               task'[w][c] = IF w = v /\ c = k THEN "woken" ELSE task[w][c]
      PROVE  RevokedFree(task', revoked')
  BY <1>2 DEF RevokedFree
<1> QED BY <1>1, <1>2, WakeOneTask

\* A put wakes a task for the item it adds.
LEMMA PutHeard ==
  ASSUME TypeOK, TypeOK', Wakeups, NEW k \in Classes, WakeOne(k),
         revoked' = revoked,
         \A c \in Classes : Len(queue'[c]) <= Len(queue[c]) + Is(c, k)
  PROVE  Wakeups'
<1>1. RevokedFree(task', revoked')
  BY WakeOneFree DEF Wakeups
<1>2. ASSUME NEW c \in Classes, NEW b \in Workers, task'[b][c] = "blocked"
      PROVE  Len(queue'[c]) <= Cardinality(Alarms(task', revoked', c))
  <2>1. Len(queue[c]) \in Nat /\ Len(queue'[c]) \in Nat /\ Is(c, k) \in {0, 1}
    BY DEF TypeOK, QueueTypeOK, Is
  <2>2. CASE Blocked(k) = {} /\ task' = task
    <3>1. c # k
      BY <1>2, <2>2 DEF Blocked
    <3>2. Len(queue'[c]) <= Len(queue[c])
      <4>1. Len(queue'[c]) <= Len(queue[c]) + Is(c, k) /\ Is(c, k) = 0
        BY <3>1 DEF Is
      <4> QED BY <2>1, <4>1
    <3>3. Len(queue[c]) <= Cardinality(Alarms(task, revoked, c))
      BY <1>2, <2>2 DEF Wakeups, Heard
    <3>4. Cardinality(Alarms(task, revoked, c)) \in Nat
      BY AlarmsKept
    <3> QED BY <2>1, <2>2, <3>2, <3>3, <3>4
  <2>3. ASSUME NEW v \in Workers, task[v][k] = "blocked",
               \A w \in Workers, d \in Classes :
                 task'[w][d] = IF w = v /\ d = k THEN "woken" ELSE task[w][d]
        PROVE  Len(queue'[c]) <= Cardinality(Alarms(task', revoked', c))
    <3>1. task[b][c] = "blocked"
      BY <1>2, <2>3
    <3>2. Len(queue[c]) <= Cardinality(Alarms(task, revoked, c))
      BY <3>1 DEF Wakeups, Heard
    <3>3. CASE c = k
      <4>1. v \notin Alarms(task, revoked, c)
        BY <2>3, <3>3 DEF Wakeups, RevokedFree, Alarms
      <4>2. Alarms(task', revoked', c) = Alarms(task, revoked, c) \cup {v}
        BY <2>3, <3>3 DEF Alarms
      <4>3. /\ Cardinality(Alarms(task', revoked', c))
                 = Cardinality(Alarms(task, revoked, c)) + 1
            /\ Cardinality(Alarms(task, revoked, c)) \in Nat
        <5> DEFINE A == Alarms(task, revoked, c)
        <5>1. A \in SUBSET Workers
          BY DEF Alarms
        <5> HIDE DEF A
        <5>2. IsFiniteSet(A) /\ Cardinality(A) \in Nat
          BY <5>1, SomeWorkers
        <5>3. Cardinality(A \cup {v}) = Cardinality(A) + 1
          BY <4>1, <5>2, FS_AddElement DEF A
        <5> QED BY <4>2, <5>2, <5>3 DEF A
      <4>4. Len(queue'[c]) <= Len(queue[c]) + 1
        BY <3>3 DEF Is
      <4> QED BY <2>1, <3>2, <4>3, <4>4
    <3>4. CASE c # k
      <4>1. Alarms(task', revoked', c) = Alarms(task, revoked, c)
        BY <2>3, <3>4 DEF Alarms
      <4>2. Cardinality(Alarms(task, revoked, c)) \in Nat
        BY AlarmsKept
      <4>3. Len(queue'[c]) <= Len(queue[c])
        <5>1. Len(queue'[c]) <= Len(queue[c]) + Is(c, k) /\ Is(c, k) = 0
          BY <3>4 DEF Is
        <5> QED BY <2>1, <5>1
      <4> QED BY <2>1, <3>2, <4>1, <4>2, <4>3
    <3> QED BY <3>3, <3>4
  <2> QED BY <2>2, <2>3, WakeOneTask
<1> QED BY <1>1, <1>2 DEF Wakeups, Heard

\* A step that blocks no task, adds no item and silences no alarm.
LEMMA QuietHeard ==
  ASSUME TypeOK, TypeOK', Wakeups, RevokedFree(task', revoked'),
         \A c \in Classes :
           \/ \A w \in Workers : task'[w][c] # "blocked"
           \/ Len(queue'[c]) = 0
           \/ /\ Len(queue'[c]) <= Len(queue[c])
              /\ \A w \in Workers :
                   task'[w][c] = "blocked" => task[w][c] = "blocked"
              /\ Alarms(task, revoked, c) \subseteq Alarms(task', revoked', c)
  PROVE  Wakeups'
<1>1. ASSUME NEW c \in Classes, NEW b \in Workers, task'[b][c] = "blocked"
      PROVE  Len(queue'[c]) <= Cardinality(Alarms(task', revoked', c))
  <2>1. Len(queue[c]) \in Nat /\ Len(queue'[c]) \in Nat
    BY DEF TypeOK, QueueTypeOK
  <2>2. Cardinality(Alarms(task', revoked', c)) \in Nat
    BY AlarmsKept
  <2>3. CASE Len(queue'[c]) = 0
    BY <2>2, <2>3
  <2>4. CASE /\ Len(queue'[c]) <= Len(queue[c])
             /\ \A w \in Workers :
                  task'[w][c] = "blocked" => task[w][c] = "blocked"
             /\ Alarms(task, revoked, c) \subseteq Alarms(task', revoked', c)
    <3>1. Len(queue[c]) <= Cardinality(Alarms(task, revoked, c))
      BY <1>1, <2>4 DEF Wakeups, Heard
    <3>2. /\ Cardinality(Alarms(task, revoked, c))
               <= Cardinality(Alarms(task', revoked', c))
          /\ Cardinality(Alarms(task, revoked, c)) \in Nat
      BY <2>4, AlarmsKept
    <3> QED BY <2>1, <2>2, <2>4, <3>1, <3>2
  <2> QED BY <1>1, <2>3, <2>4
<1> QED BY <1>1 DEF Wakeups, Heard

LEMMA ArriveWakeups ==
  ASSUME IInv, IInv', Wakeups, NEW j \in Jobs, Arrive(j)
  PROVE  Wakeups'
<1>1. Enqueue(j) /\ TypeOK /\ TypeOK' /\ Prio[j] \in Classes
  BY QueueAssumption DEF Arrive, IInv
<1>2. CASE EnqueueDuplicate(j) \/ EnqueueRejected(j)
  <2>1. UNCHANGED <<queue, task, revoked>>
    BY <1>2 DEF EnqueueDuplicate, EnqueueRejected
  <2> QED BY <2>1 DEF Wakeups
<1>3. CASE EnqueueWithRoom(j) \/ EnqueueOverfull(j)
  <2>1. Put(j) /\ revoked' = revoked
    BY <1>3 DEF EnqueueWithRoom, EnqueueOverfull
  <2>2. ASSUME NEW c \in Classes
        PROVE  Len(queue'[c]) <= Len(queue[c]) + Is(c, Prio[j])
    <3>1. Len(queue'[c]) = Len(queue[c]) + Is(c, Prio[j])
      BY <1>1, <2>1, PutCounts
    <3>2. Len(queue[c]) \in Nat /\ Is(c, Prio[j]) \in Nat
      BY <1>1 DEF TypeOK, QueueTypeOK, Is
    <3> QED BY <3>1, <3>2
  <2> QED BY <1>1, <2>1, <2>2, PutHeard DEF Put
<1>4. CASE EnqueueEvicting(j)
  <2> DEFINE v == VictimClass
             p == Popped(queue, v)
  <2>1. /\ v \in Classes /\ queue[v] # << >> /\ queue' = Pushed(p, j)
        /\ WakeOne(Prio[j]) /\ revoked' = revoked
    BY <1>4 DEF EnqueueEvicting, VictimClass, Classes
  <2>2. queue \in Queues
    BY <1>1, TypesOfParts
  <2> HIDE DEF v
  <2>3. p \in Queues
    BY <2>1, <2>2, PoppedIndex
  <2>4. \A c \in Classes : Len(p[c]) = Len(queue[c]) - Is(c, v)
    BY <2>1, <2>2, PoppedLength
  <2> HIDE DEF p
  <2>5. \A c \in Classes : Len(queue'[c]) = Len(p[c]) + Is(c, Prio[j])
    BY <2>1, <2>3, PushedLength
  <2>6. ASSUME NEW c \in Classes
        PROVE  Len(queue'[c]) <= Len(queue[c]) + Is(c, Prio[j])
    <3>1. Len(queue[c]) \in Nat /\ Is(c, Prio[j]) \in Nat /\ Is(c, v) \in Nat
      BY <1>1 DEF TypeOK, QueueTypeOK, Is
    <3> QED BY <2>4, <2>5, <3>1
  <2> QED BY <1>1, <2>1, <2>6, PutHeard
<1> QED BY <1>1, <1>2, <1>3, <1>4 DEF Enqueue

LEMMA StopWakeups ==
  ASSUME IInv, IInv', Wakeups, Stop
  PROVE  Wakeups'
<1>1. /\ "high" \in Classes /\ "normal" \in Classes /\ TypeOK /\ TypeOK'
      /\ revoked' = revoked
  BY DEF Classes, IInv, Stop, PutSentinels
<1>2. \A w \in Workers, c \in Classes :
        task'[w][c] = IF c = "high" /\ task[w][c] = "blocked" THEN "woken"
                                                             ELSE task[w][c]
  BY <1>1 DEF Stop, PutSentinels, TypeOK, QueueTypeOK
<1>3. queue'["normal"] = queue["normal"] /\ Len(queue["normal"]) \in Nat
  BY <1>1, SentinelsAppended DEF TypeOK, QueueTypeOK
<1>4. RevokedFree(task', revoked')
  BY <1>1, <1>2 DEF Wakeups, RevokedFree
<1>5. ASSUME NEW c \in Classes
      PROVE  \/ \A w \in Workers : task'[w][c] # "blocked"
             \/ /\ Len(queue'[c]) <= Len(queue[c])
                /\ \A w \in Workers :
                     task'[w][c] = "blocked" => task[w][c] = "blocked"
                /\ Alarms(task, revoked, c) \subseteq Alarms(task', revoked', c)
  <2>1. CASE c = "high"
    BY <1>2, <2>1
  <2>2. CASE c = "normal"
    <3>1. \A w \in Workers : task'[w][c] = task[w][c]
      BY <1>2, <2>2
    <3>2. Len(queue'[c]) <= Len(queue[c])
      BY <1>3, <2>2
    <3> QED BY <1>1, <3>1, <3>2 DEF Alarms
  <2> QED BY <2>1, <2>2 DEF Classes
<1> QED BY <1>1, <1>4, <1>5, QuietHeard

LEMMA TakeReadyWakeups ==
  ASSUME IInv, IInv', Wakeups, NEW w \in Workers, TakeReady(w)
  PROVE  Wakeups'
<1>1. /\ ReadyClass \in Classes /\ queue[ReadyClass] # << >>
      /\ queue' = Popped(queue, ReadyClass)
      /\ UNCHANGED <<task, revoked>> /\ queue \in Queues /\ TypeOK /\ TypeOK'
  BY TakeReadyExpanded, TypesOfParts DEF IInv
<1>2. ASSUME NEW c \in Classes PROVE Len(queue'[c]) <= Len(queue[c])
  <2>1. Len(queue'[c]) = Len(queue[c]) - Is(c, ReadyClass)
    BY <1>1, PoppedLength
  <2>2. Len(queue[c]) \in Nat /\ Is(c, ReadyClass) \in Nat
    BY <1>1 DEF Queues, Is
  <2> QED BY <2>1, <2>2
<1>3. RevokedFree(task', revoked')
  BY <1>1 DEF Wakeups
<1> QED BY <1>1, <1>2, <1>3, QuietHeard

LEMMA StartWaitingWakeups ==
  ASSUME IInv, IInv', Wakeups, NEW w \in Workers, StartWaiting(w)
  PROVE  Wakeups'
<1>1. /\ \A c \in Classes : queue'[c] = << >>
      /\ task' = [task EXCEPT ![w] = [c \in Classes |-> "new"]]
      /\ revoked' = revoked /\ TypeOK /\ TypeOK'
  BY DEF StartWaiting, GetWait, IInv
<1>2. RevokedFree(task', revoked')
  BY <1>1 DEF Wakeups, RevokedFree, TypeOK, QueueTypeOK
<1>3. \A c \in Classes : Len(queue'[c]) = 0
  BY <1>1
<1> QED BY <1>1, <1>2, <1>3, QuietHeard

\* The wake-up of the cancelled task goes to another one, if one is blocked
\* and there is something to wake it for.
LEMMA RevokedWakeups ==
  ASSUME IInv, IInv', Wakeups, NEW w \in Workers, NEW k \in Classes,
         TaskRevoked(w, k)
  PROVE  Wakeups'
<1>1. /\ <<w, k>> \in revoked /\ revoked' = revoked \ {<<w, k>>}
      /\ queue' = queue /\ TypeOK /\ TypeOK'
  BY DEF TaskRevoked, IInv
<1>2. task[w][k] \in {"none", "new"}
  BY <1>1 DEF Wakeups, RevokedFree
<1>3. ASSUME task' = task, queue[k] = << >> PROVE Wakeups'
  <2>1. RevokedFree(task', revoked')
    BY <1>1, <1>3 DEF Wakeups, RevokedFree
  <2>2. \A c \in Classes : Len(queue'[c]) = 0 \/
          /\ Len(queue'[c]) <= Len(queue[c])
          /\ \A v \in Workers : task'[v][c] = "blocked" => task[v][c] = "blocked"
          /\ Alarms(task, revoked, c) \subseteq Alarms(task', revoked', c)
    BY <1>1, <1>3 DEF Alarms, TypeOK, QueueTypeOK
  <2> QED BY <1>1, <2>1, <2>2, QuietHeard
<1>4. ASSUME WakeOne(k) PROVE Wakeups'
  <2>1. RevokedFree(task', revoked')
    BY <1>1, <1>4, WakeOneFree DEF Wakeups
  <2>2. ASSUME NEW c \in Classes, NEW b \in Workers, task'[b][c] = "blocked"
        PROVE  Len(queue'[c]) <= Cardinality(Alarms(task', revoked', c))
    <3>1. Len(queue[c]) \in Nat /\ Cardinality(Alarms(task, revoked, c)) \in Nat
      BY <1>1, AlarmsKept DEF TypeOK, QueueTypeOK
    <3>2. CASE Blocked(k) = {} /\ task' = task
      <4>1. c # k
        BY <2>2, <3>2 DEF Blocked
      <4>2. Alarms(task', revoked', c) = Alarms(task, revoked, c)
        BY <1>1, <3>2, <4>1 DEF Alarms
      <4>3. Len(queue[c]) <= Cardinality(Alarms(task, revoked, c))
        BY <2>2, <3>2 DEF Wakeups, Heard
      <4> QED BY <1>1, <4>2, <4>3
    <3>3. ASSUME NEW v \in Workers, task[v][k] = "blocked",
                 \A x \in Workers, d \in Classes :
                   task'[x][d] = IF x = v /\ d = k THEN "woken" ELSE task[x][d]
          PROVE  Len(queue'[c]) <= Cardinality(Alarms(task', revoked', c))
      <4>1. Len(queue[c]) <= Cardinality(Alarms(task, revoked, c))
        <5>1. task[b][c] = "blocked"
          BY <2>2, <3>3
        <5> QED BY <5>1 DEF Wakeups, Heard
      <4>2. CASE c = k
        <5>1. v # w /\ v \notin Alarms(task, revoked, c)
          BY <1>2, <3>3, <4>2 DEF Wakeups, RevokedFree, Alarms
        <5>2. /\ Alarms(task', revoked', c) = (Alarms(task, revoked, c) \ {w}) \cup {v}
              /\ w \in Alarms(task, revoked, c)
          BY <1>1, <1>2, <3>3, <4>2 DEF Alarms
        <5>3. Cardinality(Alarms(task', revoked', c))
                = Cardinality(Alarms(task, revoked, c))
          <6> DEFINE A == Alarms(task, revoked, c)
          <6>1. A \in SUBSET Workers
            BY DEF Alarms
          <6>2. IsFiniteSet(A) /\ Cardinality(A) \in Nat
            BY <6>1, SomeWorkers
          <6> HIDE DEF A
          <6>3. IsFiniteSet(A \ {w}) /\ Cardinality(A \ {w}) = Cardinality(A) - 1
            BY <5>2, <6>2, FS_RemoveElement DEF A
          <6>4. Cardinality((A \ {w}) \cup {v}) = Cardinality(A \ {w}) + 1
            BY <5>1, <6>3, FS_AddElement DEF A
          <6> QED BY <5>2, <6>2, <6>3, <6>4 DEF A
        <5> QED BY <1>1, <4>1, <5>3
      <4>3. CASE c # k
        <5>1. Alarms(task', revoked', c) = Alarms(task, revoked, c)
          BY <1>1, <3>3, <4>3 DEF Alarms
        <5> QED BY <1>1, <4>1, <5>1
      <4> QED BY <4>2, <4>3
    <3> QED BY <1>1, <1>4, <3>2, <3>3, WakeOneTask
  <2> QED BY <2>1, <2>2 DEF Wakeups, Heard
<1> QED BY <1>3, <1>4 DEF TaskRevoked

LEMMA GetterStepWakeups ==
  ASSUME IInv, IInv', Wakeups, NEW w \in Workers, NEW k \in Classes,
         GetterStep(w, k)
  PROVE  Wakeups'
<1>1. TypeOK /\ TypeOK' /\ queue \in Queues
  BY TypesOfParts DEF IInv
<1>2. CASE TaskTakes(w, k)
  <2>1. /\ <<w, k>> \notin revoked /\ queue[k] # << >>
        /\ queue' = Popped(queue, k) /\ revoked' = revoked
        /\ task' = [task EXCEPT ![w][k] = "done"]
    BY <1>2 DEF TaskTakes
  <2>2. \A x \in Workers, d \in Classes :
          task'[x][d] = IF x = w /\ d = k THEN "done" ELSE task[x][d]
    BY <1>1, <2>1 DEF TypeOK, QueueTypeOK
  <2>3. RevokedFree(task', revoked')
    BY <2>1, <2>2 DEF Wakeups, RevokedFree
  <2>4. ASSUME NEW c \in Classes, NEW b \in Workers, task'[b][c] = "blocked"
        PROVE  Len(queue'[c]) <= Cardinality(Alarms(task', revoked', c))
    <3>1. Len(queue'[c]) = Len(queue[c]) - Is(c, k)
      BY <1>1, <2>1, PoppedLength
    <3>2. Len(queue[c]) <= Cardinality(Alarms(task, revoked, c))
      <4>1. task[b][c] = "blocked"
        BY <2>2, <2>4
      <4> QED BY <4>1 DEF Wakeups, Heard
    <3>3. Len(queue[c]) \in Nat
      BY <1>1 DEF Queues
    <3>4. CASE c = k
      <4>1. Alarms(task, revoked, c) \subseteq Alarms(task', revoked', c) \cup {w}
        BY <2>1, <2>2 DEF Alarms
      <4>2. /\ Cardinality(Alarms(task, revoked, c))
                 <= Cardinality(Alarms(task', revoked', c)) + 1
            /\ Cardinality(Alarms(task, revoked, c)) \in Nat
            /\ Cardinality(Alarms(task', revoked', c)) \in Nat
        BY <4>1, AlarmAnswered
      <4>3. Len(queue'[c]) = Len(queue[c]) - 1
        BY <3>1, <3>4 DEF Is
      <4> QED BY <3>2, <3>3, <4>2, <4>3
    <3>5. CASE c # k
      <4>1. Alarms(task', revoked', c) = Alarms(task, revoked, c)
        BY <2>1, <2>2, <3>5 DEF Alarms
      <4>2. Len(queue'[c]) = Len(queue[c])
        BY <3>1, <3>3, <3>5 DEF Is
      <4> QED BY <3>2, <4>1, <4>2
    <3> QED BY <3>4, <3>5
  <2> QED BY <2>3, <2>4 DEF Wakeups, Heard
<1>3. CASE TaskBlocks(w, k)
  <2>1. /\ <<w, k>> \notin revoked /\ queue[k] = << >>
        /\ queue' = queue /\ revoked' = revoked
        /\ task' = [task EXCEPT ![w][k] = "blocked"]
    BY <1>3 DEF TaskBlocks
  <2>2. \A x \in Workers, d \in Classes :
          task'[x][d] = IF x = w /\ d = k THEN "blocked" ELSE task[x][d]
    BY <1>1, <2>1 DEF TypeOK, QueueTypeOK
  <2>3. RevokedFree(task', revoked')
    BY <2>1, <2>2 DEF Wakeups, RevokedFree
  <2>4. \A c \in Classes : Len(queue'[c]) = 0 \/
          /\ Len(queue'[c]) <= Len(queue[c])
          /\ \A v \in Workers : task'[v][c] = "blocked" => task[v][c] = "blocked"
          /\ Alarms(task, revoked, c) \subseteq Alarms(task', revoked', c)
    BY <1>1, <2>1, <2>2 DEF Alarms, TypeOK, QueueTypeOK
  <2> QED BY <1>1, <2>3, <2>4, QuietHeard
<1> QED BY <1>2, <1>3, RevokedWakeups DEF GetterStep

\* The task that lost was woken: from now on it is a cancelled one that will
\* pass its wake-up on.
LEMMA ResumeWakeups ==
  ASSUME IInv, IInv', Wakeups, NEW w \in Workers, NEW k \in Classes, Resume(w, k)
  PROVE  Wakeups'
<1> DEFINE o == Other(k)
<1>1. /\ TypeOK /\ TypeOK' /\ queue' = queue /\ task[w][k] = "done"
      /\ task' = [task EXCEPT ![w] = [d \in Classes |-> "none"]]
      /\ revoked' = IF task[w][o] = "woken" THEN revoked \cup {<<w, o>>} ELSE revoked
  BY DEF Resume, GetResumes, IInv
<1>2. o \in Classes /\ o # k /\ \A d \in Classes : d = k \/ d = o
  BY OtherClass
<1> HIDE DEF o
<1>3. \A x \in Workers, d \in Classes :
        task'[x][d] = IF x = w THEN "none" ELSE task[x][d]
  BY <1>1 DEF TypeOK, QueueTypeOK
<1>4. revoked \subseteq revoked' /\ \A p \in revoked' : p \in revoked \/ p = <<w, o>>
  BY <1>1
<1>5. RevokedFree(task', revoked')
  BY <1>3, <1>4 DEF Wakeups, RevokedFree
<1>6. ASSUME NEW c \in Classes
      PROVE  /\ \A v \in Workers : task'[v][c] = "blocked" => task[v][c] = "blocked"
             /\ Alarms(task, revoked, c) \subseteq Alarms(task', revoked', c)
  <2>1. \A v \in Workers : task'[v][c] = "blocked" => task[v][c] = "blocked"
    BY <1>3
  <2>2. ASSUME NEW v \in Workers, task[v][c] = "woken" \/ <<v, c>> \in revoked
        PROVE  task'[v][c] = "woken" \/ <<v, c>> \in revoked'
    <3>1. CASE <<v, c>> \in revoked
      BY <1>4, <3>1
    <3>2. CASE task[v][c] = "woken" /\ v # w
      BY <1>3, <3>2
    <3>3. CASE task[v][c] = "woken" /\ v = w
      BY <1>1, <1>2, <3>3
    <3> QED BY <2>2, <3>1, <3>2, <3>3
  <2> QED BY <2>1, <2>2 DEF Alarms
<1>7. \A c \in Classes : Len(queue'[c]) <= Len(queue[c])
  BY <1>1 DEF TypeOK, QueueTypeOK
<1> QED BY <1>1, <1>5, <1>6, <1>7, QuietHeard

LEMMA WakeupsStep == IInv /\ IInv' /\ Wakeups /\ [Next]_vars => Wakeups'
<1> SUFFICES ASSUME IInv, IInv', Wakeups, [Next]_vars PROVE Wakeups'
  OBVIOUS
<1>1. TypeOK /\ TypeOK'
  BY DEF IInv
<1>2. ASSUME UNCHANGED vars \/ \E k \in Keys : Expire(k) PROVE Wakeups'
  <2>1. UNCHANGED <<queue, task, revoked>>
    BY <1>2 DEF vars, Expire, DedupExpire
  <2> QED BY <2>1 DEF Wakeups
<1>3. ASSUME NEW w \in Workers, Handled(w) PROVE Wakeups'
  <2>1. UNCHANGED <<queue, task, revoked>>
    BY <1>3 DEF Handled
  <2> QED BY <2>1 DEF Wakeups
<1>4. CASE OperatorDrains
  <2>1. UNCHANGED <<task, revoked>> /\ \A c \in Classes : queue'[c] = << >>
    BY <1>4 DEF OperatorDrains, Drain
  <2>2. RevokedFree(task', revoked')
    BY <2>1 DEF Wakeups
  <2>3. \A c \in Classes : Len(queue'[c]) = 0
    BY <2>1
  <2> QED BY <1>1, <2>2, <2>3, QuietHeard
<1>5. ASSUME NEW w \in Workers, WorkerStep(w) PROVE Wakeups'
  BY <1>3, <1>5, TakeReadyWakeups, StartWaitingWakeups, GetterStepWakeups,
     ResumeWakeups DEF WorkerStep
<1> QED BY <1>2, <1>4, <1>5, ArriveWakeups, StopWakeups DEF Next

(***************************************************************************)
(* The hand-over of wake-ups between asyncio's futures and the cancelled   *)
(* getter tasks of JobQueue.get loses none: an item never waits beside a   *)
(* blocked worker that nobody is going to wake.                            *)
(***************************************************************************)
THEOREM WakeupsAreKept == Spec => []NoLostWakeup
<1>1. Init => Wakeups
  BY DEF Init, QueueInit, Wakeups, Heard, RevokedFree
<1>2. IInv /\ IInv' /\ Wakeups /\ [Next]_vars => Wakeups'
  BY WakeupsStep
<1>3. IInv /\ Wakeups => NoLostWakeup
  BY HeardMeans DEF Wakeups
<1> QED BY <1>1, <1>2, <1>3, IInvInvariant, PTL DEF Spec

-----------------------------------------------------------------------------
(* HealthReconciles                                                          *)

Arrived(st) == {j \in Jobs : st[j] # "new"}
Counted(st, s) == Cardinality({j \in Jobs : st[j] = s})

\* What the counters say beyond what the deliveries themselves say.
Imbalance ==
  stats["enqueued"] - stats["updates"]
    - (stats["dropped"] - Counted(status, "rejected"))
    - Counted(status, "running") - size

\* Deliveries arrive one at a time, so those with a status can be counted.
HealthInv ==
  /\ IsFiniteSet(Arrived(status))
  /\ ("drain" \notin Operator /\ ~stopping) => Imbalance = 0

LEMMA CountedType ==
  ASSUME NEW st, IsFiniteSet(Arrived(st)), NEW x, x # "new"
  PROVE  /\ IsFiniteSet({j \in Jobs : st[j] = x}) /\ Counted(st, x) \in Nat
<1>1. {j \in Jobs : st[j] = x} \in SUBSET Arrived(st)
  BY DEF Arrived
<1>2. IsFiniteSet({j \in Jobs : st[j] = x})
  BY <1>1, FS_Subset
<1> QED BY <1>2, FS_CardinalityType DEF Counted

LEMMA BothCounted ==
  ASSUME NEW st, IsFiniteSet(Arrived(st))
  PROVE  Counted(st, "rejected") \in Int /\ Counted(st, "running") \in Int
<1>1. "rejected" # "new" /\ "running" # "new"
  OBVIOUS
<1>2. Counted(st, "rejected") \in Nat
  BY <1>1, CountedType
<1>3. Counted(st, "running") \in Nat
  BY <1>1, CountedType
<1> QED BY <1>2, <1>3

LEMMA SameCounted ==
  ASSUME NEW st, NEW s, NEW x, \A k \in Jobs : s[k] = x <=> st[k] = x
  PROVE  Counted(s, x) = Counted(st, x)
<1>1. {k \in Jobs : s[k] = x} = {k \in Jobs : st[k] = x}
  OBVIOUS
<1> QED BY <1>1 DEF Counted

LEMMA MoreCounted ==
  ASSUME NEW st, NEW s, NEW x, x # "new", IsFiniteSet(Arrived(st)),
         NEW j \in Jobs, st[j] # x, s[j] = x,
         \A k \in Jobs : k # j => (s[k] = x <=> st[k] = x)
  PROVE  Counted(s, x) = Counted(st, x) + 1
<1> DEFINE A == {k \in Jobs : st[k] = x}
<1>1. {k \in Jobs : s[k] = x} = A \cup {j} /\ j \notin A
  OBVIOUS
<1>2. IsFiniteSet(A)
  BY CountedType
<1>3. Cardinality(A \cup {j}) = Cardinality(A) + 1
  <2> HIDE DEF A
  <2> QED BY <1>1, <1>2, FS_AddElement
<1> QED BY <1>1, <1>3 DEF Counted

LEMMA FewerCounted ==
  ASSUME NEW st, NEW s, NEW x, x # "new", IsFiniteSet(Arrived(st)),
         NEW j \in Jobs, st[j] = x, s[j] # x,
         \A k \in Jobs : k # j => (s[k] = x <=> st[k] = x)
  PROVE  Counted(s, x) = Counted(st, x) - 1
<1> DEFINE A == {k \in Jobs : st[k] = x}
<1>1. {k \in Jobs : s[k] = x} = A \ {j} /\ j \in A
  OBVIOUS
<1>2. IsFiniteSet(A)
  BY CountedType
<1>3. Cardinality(A \ {j}) = Cardinality(A) - 1
  <2> HIDE DEF A
  <2> QED BY <1>1, <1>2, FS_RemoveElement
<1> QED BY <1>1, <1>3 DEF Counted

LEMMA StillArrived ==
  ASSUME NEW st, NEW s, NEW j, IsFiniteSet(Arrived(st)),
         \A k \in Jobs : k # j /\ s[k] # "new" => st[k] # "new"
  PROVE  IsFiniteSet(Arrived(s))
<1>1. Arrived(s) \in SUBSET (Arrived(st) \cup {j})
  BY DEF Arrived
<1>2. IsFiniteSet(Arrived(st) \cup {j})
  BY FS_AddElement
<1> QED BY <1>1, <1>2, FS_Subset

\* What a delivery in a queue, in a getter task or at a worker has as status.
LEMMA PlacedStatus ==
  ASSUME IInv
  PROVE  /\ \A j \in Jobs : Queued(j) => status[j] = "queued"
         /\ \A w \in Workers, c \in Classes :
              got[w][c] # None => got[w][c] \in Jobs /\ status[got[w][c]] = "held"
         /\ \A w \in Workers :
              current[w] # None => current[w] \in Jobs /\ status[current[w]] = "running"
<1>1. \A c \in Classes : DOMAIN queue[c] = 1..Len(queue[c])
  BY DEF IInv, TypeOK, QueueTypeOK
<1>2. \A j \in Jobs : Queued(j) => status[j] = "queued"
  BY <1>1 DEF Queued, IInv, Placement, QueuePlaced
<1>3. \A w \in Workers, c \in Classes :
        got[w][c] # None => got[w][c] \in Jobs /\ status[got[w][c]] = "held"
  BY DEF IInv, TypeOK, QueueTypeOK, Item, Placement, TasksPlaced
<1>4. \A w \in Workers :
        current[w] # None => current[w] \in Jobs /\ status[current[w]] = "running"
  BY DEF IInv, TypeOK, Item, Placement, WorkersPlaced
<1> QED BY <1>2, <1>3, <1>4

\* An account that stays even: by how much each term changes.
LEMMA EvenAccount ==
  ASSUME TypeOK, HealthInv, IsFiniteSet(Arrived(status')),
         ~stopping, "drain" \notin Operator,
         NEW de \in Int, NEW du \in Int, NEW dd \in Int, NEW dr \in Int,
         NEW dn \in Int, NEW dz \in Int,
         stats'["enqueued"] = stats["enqueued"] + de,
         stats'["updates"] = stats["updates"] + du,
         stats'["dropped"] = stats["dropped"] + dd,
         Counted(status', "rejected") = Counted(status, "rejected") + dr,
         Counted(status', "running") = Counted(status, "running") + dn,
         size' = size + dz,
         de = du + (dd - dr) + dn + dz
  PROVE  Imbalance' = 0
<1> DEFINE e == stats["enqueued"]
           u == stats["updates"]
           d == stats["dropped"]
           r == Counted(status, "rejected")
           n == Counted(status, "running")
<1>1. e \in Int /\ u \in Int /\ d \in Int /\ size \in Int
  BY DEF TypeOK, QueueTypeOK, Counters
<1>2. r \in Int /\ n \in Int
  BY BothCounted DEF HealthInv
<1>3. e - u - (d - r) - n - size = 0
  BY DEF HealthInv, Imbalance
<1>4. Imbalance' = (e + de) - (u + du) - ((d + dd) - (r + dr)) - (n + dn) - (size + dz)
  BY DEF Imbalance
<1> HIDE DEF e, u, d, r, n
<1>5. (e + de) - (u + du) - ((d + dd) - (r + dr)) - (n + dn) - (size + dz) = 0
  BY <1>1, <1>2, <1>3
<1> QED BY <1>4, <1>5

\* Before a stop, with no drain, what leaves or is replaced was counted.
LEMMA CountedInSize ==
  ASSUME TypeOK, SizeInv, ~stopping, "drain" \notin Operator, NEW k \in Classes,
         Waits(k) > 0
  PROVE  size > 0 /\ Decremented(size) = size - 1 /\ size \in Int
<1>1. /\ Waits("high") \in Nat /\ Waits("normal") \in Nat /\ Lost \in Nat
      /\ size \in Nat
  BY SizeTypes
<1>2. size = Waits("high") + Waits("normal") + Lost
  BY DEF SizeInv, TotalWaits
<1>3. Waits("high") > 0 \/ Waits("normal") > 0
  BY DEF Classes
<1>4. size > 0
  <2> DEFINE h == Waits("high")
             n == Waits("normal")
  <2>1. h \in Nat /\ n \in Nat /\ (h > 0 \/ n > 0) /\ size = h + n + Lost
    BY <1>1, <1>2, <1>3
  <2> HIDE DEF h, n
  <2> QED BY <1>1, <2>1
<1> QED BY <1>1, <1>4 DEF Decremented

LEMMA ArriveHealth ==
  ASSUME PoolInv, HealthInv, NEW j \in Jobs, Arrive(j)
  PROVE  HealthInv'
<1>1. /\ ~stopping /\ stopping' = stopping /\ Enqueue(j) /\ TypeOK /\ IInv
      /\ status \in Statuses /\ stats \in [Counters -> Nat]
      /\ current' = current
  BY TypesOfParts DEF Arrive, PoolInv, IInv, TypeOK, QueueTypeOK
<1>2. /\ "enqueued" \in Counters /\ "updates" \in Counters /\ "dropped" \in Counters
      /\ stats["enqueued"] \in Int /\ stats["updates"] \in Int
      /\ stats["dropped"] \in Int /\ size \in Int
  BY <1>1 DEF Counters, TypeOK, QueueTypeOK
<1>3. IsFiniteSet(Arrived(status))
  BY DEF HealthInv
<1>4. Counted(status, "rejected") \in Int /\ Counted(status, "running") \in Int
  BY <1>3, BothCounted
<1>5. CASE EnqueueDuplicate(j)
  <2>1. /\ status[j] = "new" /\ size' = size
        /\ \A k \in Jobs : status'[k] = IF k = j THEN "duplicate" ELSE status[k]
        /\ stats' = [stats EXCEPT !["deduped"] = @ + 1]
    BY <1>1, <1>5 DEF EnqueueDuplicate, Statuses, Count
  <2>2. IsFiniteSet(Arrived(status'))
    BY <1>3, <2>1, StillArrived
  <2>3. /\ Counted(status', "rejected") = Counted(status, "rejected")
        /\ Counted(status', "running") = Counted(status, "running")
    BY <2>1, SameCounted
  <2>4. /\ stats'["enqueued"] = stats["enqueued"]
        /\ stats'["updates"] = stats["updates"]
        /\ stats'["dropped"] = stats["dropped"]
    BY <1>1, <1>2, <2>1
  <2> QED BY <1>1, <2>1, <2>2, <2>3, <2>4 DEF HealthInv, Imbalance
<1>6. CASE EnqueueRejected(j)
  <2>1. /\ status[j] = "new" /\ size' = size
        /\ \A k \in Jobs : status'[k] = IF k = j THEN "rejected" ELSE status[k]
        /\ stats' = [stats EXCEPT !["dropped"] = @ + 1]
    BY <1>1, <1>6 DEF EnqueueRejected, FirstSeen, Statuses, Count
  <2>2. IsFiniteSet(Arrived(status'))
    BY <1>3, <2>1, StillArrived
  <2>3. Counted(status', "rejected") = Counted(status, "rejected") + 1
    BY <1>3, <2>1, MoreCounted
  <2>4. Counted(status', "running") = Counted(status, "running") + 0
    BY <1>4, <2>1, SameCounted
  <2>5. /\ stats'["enqueued"] = stats["enqueued"] + 0
        /\ stats'["updates"] = stats["updates"] + 0
        /\ stats'["dropped"] = stats["dropped"] + 1 /\ size' = size + 0
    BY <1>1, <1>2, <2>1
  <2>6. "drain" \notin Operator => Imbalance' = 0
    BY <1>1, <2>2, <2>3, <2>4, <2>5, EvenAccount
  <2> QED BY <2>2, <2>6 DEF HealthInv
<1>7. CASE EnqueueWithRoom(j) \/ EnqueueOverfull(j)
  <2>1. /\ status[j] = "new" /\ size' = size + 1
        /\ \A k \in Jobs : status'[k] = IF k = j THEN "queued" ELSE status[k]
        /\ stats' = [stats EXCEPT !["enqueued"] = @ + 1]
    BY <1>1, <1>7 DEF EnqueueWithRoom, EnqueueOverfull, FirstSeen, Statuses, Count
  <2>2. IsFiniteSet(Arrived(status'))
    BY <1>3, <2>1, StillArrived
  <2>3. /\ Counted(status', "rejected") = Counted(status, "rejected")
        /\ Counted(status', "running") = Counted(status, "running")
    BY <2>1, SameCounted
  <2>4. /\ stats'["enqueued"] = stats["enqueued"] + 1
        /\ stats'["updates"] = stats["updates"] + 0
        /\ stats'["dropped"] = stats["dropped"] + 0
    BY <1>1, <1>2, <2>1
  <2>5. /\ Counted(status', "rejected") = Counted(status, "rejected") + 0
        /\ Counted(status', "running") = Counted(status, "running") + 0
    BY <1>4, <2>3
  <2>6. "drain" \notin Operator => Imbalance' = 0
    BY <1>1, <2>1, <2>2, <2>4, <2>5, EvenAccount
  <2> QED BY <2>2, <2>6 DEF HealthInv
<1>8. CASE EnqueueEvicting(j)
  <2> DEFINE x == Head(queue[VictimClass])
  <2>1. /\ VictimClass \in Classes /\ queue[VictimClass] # << >>
        /\ status[j] = "new" /\ size' = Decremented(size) + 1
        /\ status' = [Mark(status, x, "evicted") EXCEPT ![j] = "queued"]
        /\ stats' = [stats EXCEPT !["dropped"] = @ + 1, !["enqueued"] = @ + 1]
    BY <1>8 DEF EnqueueEvicting, FirstSeen, VictimClass, Classes
  <2>2. x # None => x \in Jobs /\ status[x] = "queued"
    BY <1>1, <2>1, HeadQueued
  <2> HIDE DEF x
  <2>3. \A k \in Jobs : status'[k] = IF k = j THEN "queued"
                                     ELSE IF k = x THEN "evicted" ELSE status[k]
    BY <1>1, <2>1, <2>2, QueueAssumption DEF Mark, Statuses
  <2>4. IsFiniteSet(Arrived(status'))
    BY <1>3, <2>2, <2>3, QueueAssumption, StillArrived
  <2>5. /\ Counted(status', "rejected") = Counted(status, "rejected")
        /\ Counted(status', "running") = Counted(status, "running")
    <3>1. \A k \in Jobs : /\ status'[k] = "rejected" <=> status[k] = "rejected"
                          /\ status'[k] = "running" <=> status[k] = "running"
      BY <2>1, <2>2, <2>3, QueueAssumption
    <3> QED BY <3>1, SameCounted
  <2>6. /\ stats'["enqueued"] = stats["enqueued"] + 1
        /\ stats'["updates"] = stats["updates"] + 0
        /\ stats'["dropped"] = stats["dropped"] + 1
    BY <1>1, <1>2, <2>1
  <2>7. /\ Counted(status', "rejected") = Counted(status, "rejected") + 0
        /\ Counted(status', "running") = Counted(status, "running") + 0
    BY <1>4, <2>5
  <2>8. ASSUME "drain" \notin Operator PROVE size' = size + 0
    <3>1. PICK v \in Classes : Replaces(Prio[j], v)
      BY <1>1, <1>8, EvictAccounts
    <3>2. size > 0 /\ Decremented(size) = size - 1 /\ size \in Int
      BY <1>1, <2>8, <3>1, CountedInSize DEF Replaces, PoolInv
    <3> QED BY <2>1, <3>2
  <2>9. "drain" \notin Operator => Imbalance' = 0
    BY <1>1, <2>4, <2>6, <2>7, <2>8, EvenAccount
  <2> QED BY <2>4, <2>9 DEF HealthInv
<1> QED BY <1>1, <1>5, <1>6, <1>7, <1>8 DEF Enqueue

\* A worker begins job y: it comes from a queue or a getter task, and the job
\* u may be lost at the same time.
LEMMA BeginHealth ==
  ASSUME PoolInv, HealthInv, ~stopping, stopping' = stopping, stats' = stats,
         NEW k \in Classes, Leaves(k), NEW y \in Jobs, NEW u,
         status[y] \in {"queued", "held"},
         u = None \/ (u \in Jobs /\ u # y /\ status[u] = "held"),
         \A j \in Jobs : status'[j] = IF j = y THEN "running"
                                      ELSE IF j = u THEN "discarded" ELSE status[j]
  PROVE  HealthInv'
<1>1. /\ TypeOK /\ stats["enqueued"] \in Int /\ stats["updates"] \in Int
      /\ stats["dropped"] \in Int
  BY DEF PoolInv, IInv, TypeOK, QueueTypeOK, Counters
<1>2. IsFiniteSet(Arrived(status))
  BY DEF HealthInv
<1>3. u \notin Jobs \/ status[u] = "held"
  BY QueueAssumption
<1>4. IsFiniteSet(Arrived(status'))
  BY <1>2, <1>3, StillArrived
<1>5. Counted(status', "running") = Counted(status, "running") + 1
  BY <1>2, <1>3, MoreCounted
<1>6. Counted(status', "rejected") = Counted(status, "rejected") + 0
  <2>1. Counted(status', "rejected") = Counted(status, "rejected")
    BY <1>3, SameCounted
  <2> QED BY <1>2, <2>1, BothCounted
<1>7. ASSUME "drain" \notin Operator PROVE Imbalance' = 0
  <2>1. size' = size + (-1)
    <3>1. size > 0 /\ Decremented(size) = size - 1 /\ size \in Int
      BY <1>1, <1>7, CountedInSize DEF Leaves, PoolInv
    <3> QED BY <3>1 DEF Leaves
  <2>2. /\ stats'["enqueued"] = stats["enqueued"] + 0
        /\ stats'["updates"] = stats["updates"] + 0
        /\ stats'["dropped"] = stats["dropped"] + 0
    BY <1>1
  <2> QED BY <1>1, <1>4, <1>5, <1>6, <1>7, <2>1, <2>2, EvenAccount
<1> QED BY <1>4, <1>7 DEF HealthInv

\* The status changes by a step that begins or ends no job.
LEMMA SameHealth ==
  ASSUME HealthInv, stopping' = stopping, stats' = stats, size' = size,
         \A j \in Jobs : \/ status'[j] = status[j]
                         \/ /\ status[j] \notin {"new", "rejected", "running"}
                            /\ status'[j] \notin {"rejected", "running"}
  PROVE  HealthInv'
<1>1. IsFiniteSet(Arrived(status))
  BY DEF HealthInv
<1>2. IsFiniteSet(Arrived(status'))
  BY <1>1, StillArrived
<1>3. /\ Counted(status', "rejected") = Counted(status, "rejected")
      /\ Counted(status', "running") = Counted(status, "running")
  BY SameCounted
<1> QED BY <1>2, <1>3 DEF HealthInv, Imbalance

\* After a stop, or with drains, only the set of deliveries matters.
LEMMA UnreportedHealth ==
  ASSUME HealthInv, stopping' \/ "drain" \in Operator,
         \A j \in Jobs : status'[j] # "new" => status[j] # "new"
  PROVE  HealthInv'
<1>1. IsFiniteSet(Arrived(status'))
  BY StillArrived DEF HealthInv
<1> QED BY <1>1 DEF HealthInv

LEMMA TakeReadyHealth ==
  ASSUME PoolInv, HealthInv, NEW w \in Workers, TakeReady(w)
  PROVE  HealthInv'
<1> DEFINE k == ReadyClass
           y == Head(queue[k])
<1>1. /\ k \in Classes /\ queue[k] # << >> /\ stopping' = stopping
      /\ stats' = stats /\ status' = Mark(status, y, "running")
      /\ IInv /\ status \in Statuses
  BY TakeReadyExpanded, TypesOfParts DEF PoolInv, IInv
<1>2. Leaves(k)
  BY <1>1, TakeReadyAccounts
<1>3. y # None => y \in Jobs /\ status[y] = "queued"
  BY <1>1, HeadQueued
<1>4. CASE stopping
  <2>1. \A j \in Jobs : status'[j] # "new" => status[j] # "new"
    <3> HIDE DEF y
    <3> QED BY <1>1, <1>3 DEF Mark, Statuses
  <2> QED BY <1>1, <1>4, <2>1, UnreportedHealth
<1>5. CASE ~stopping
  <2>1. y # None
    <3>1. y = queue[k][1] /\ 1 \in 1..Len(queue[k])
      BY <1>1, PoppedIndex, TypesOfParts DEF IInv
    <3> QED BY <1>1, <1>5, <3>1, BeforeStop DEF PoolInv
  <2> HIDE DEF k, y
  <2>2. \A j \in Jobs : status'[j] = IF j = y THEN "running" ELSE status[j]
    BY <1>1, <2>1 DEF Mark, Statuses
  <2> DEFINE u == None
  <2>3. \A j \in Jobs : status'[j] = IF j = y THEN "running"
                                     ELSE IF j = u THEN "discarded" ELSE status[j]
    BY <2>2, QueueAssumption
  <2>4. u = None \/ (u \in Jobs /\ u # y /\ status[u] = "held")
    OBVIOUS
  <2>5. y \in Jobs /\ status[y] \in {"queued", "held"}
    BY <1>3, <2>1
  <2> HIDE DEF u
  <2> QED BY <1>1, <1>2, <1>5, <2>3, <2>4, <2>5, BeginHealth
<1> QED BY <1>4, <1>5

LEMMA ResumeHealth ==
  ASSUME PoolInv, HealthInv, NEW w \in Workers, NEW k \in Classes, Resume(w, k)
  PROVE  HealthInv'
<1> DEFINE o == Other(k)
           y == got[w][k]
           u == Unread(w, k)
<1>1. /\ IInv /\ status \in Statuses /\ stopping' = stopping /\ stats' = stats
      /\ task[w][k] = "done"
      /\ status' = Mark(Mark(status, y, "running"), u, "discarded")
  BY TypesOfParts DEF PoolInv, IInv, Resume, GetResumes
<1>2. Leaves(k)
  BY <1>1, ResumeAccounts
<1>3. y # None => y \in Jobs /\ status[y] = "held"
  BY <1>1, PlacedStatus
<1>4. u # None => u \in Jobs /\ status[u] = "held" /\ u # y
  <2>1. o \in Classes /\ o # k
    BY OtherClass
  <2>2. u # None => u = got[w][o]
    BY DEF Unread
  <2>3. u # None => u \in Jobs /\ status[u] = "held"
    BY <1>1, <2>1, <2>2, PlacedStatus
  <2>4. got[w][o] \in Jobs => got[w][o] # y
    BY <1>1, <2>1 DEF IInv, Placement, TasksPlaced
  <2> QED BY <2>2, <2>3, <2>4
<1> HIDE DEF y, u
<1>5. CASE stopping
  <2>1. \A j \in Jobs : status'[j] # "new" => status[j] # "new"
    BY <1>1, <1>3, <1>4 DEF Mark, Statuses
  <2> QED BY <1>1, <1>5, <2>1, UnreportedHealth
<1>6. CASE ~stopping
  <2>1. y # None
    BY <1>1, <1>6, BeforeStop DEF PoolInv, y
  <2>2. \A j \in Jobs : status'[j] = IF j = y THEN "running"
                                     ELSE IF j = u THEN "discarded" ELSE status[j]
    BY <1>1, <1>3, <1>4, <2>1, QueueAssumption DEF Mark, Statuses
  <2>3. y \in Jobs /\ status[y] \in {"queued", "held"}
    BY <1>3, <2>1
  <2> QED BY <1>1, <1>2, <1>4, <1>6, <2>2, <2>3, BeginHealth
<1> QED BY <1>5, <1>6

\* A job ends: one more update, one less running.
LEMMA HandledHealth ==
  ASSUME PoolInv, HealthInv, NEW w \in Workers, Handled(w)
  PROVE  HealthInv'
<1> DEFINE y == current[w]
<1>1. /\ IInv /\ TypeOK /\ status \in Statuses /\ stopping' = stopping
      /\ stats' = [stats EXCEPT !["updates"] = @ + 1] /\ size' = size
      /\ status' = [status EXCEPT ![y] = "done"]
      /\ pc[w] = "handle"
  BY TypesOfParts DEF PoolInv, IInv, Handled, Count
<1>2. y \in Jobs /\ status[y] = "running"
  BY <1>1, PlacedStatus DEF IInv, Handling
<1> HIDE DEF y
<1>3. \A j \in Jobs : status'[j] = IF j = y THEN "done" ELSE status[j]
  BY <1>1, <1>2 DEF Statuses
<1>4. IsFiniteSet(Arrived(status))
  BY DEF HealthInv
<1>5. IsFiniteSet(Arrived(status'))
  BY <1>2, <1>3, <1>4, StillArrived
<1>6. Counted(status', "running") = Counted(status, "running") + (-1)
  <2>1. Counted(status', "running") = Counted(status, "running") - 1
    BY <1>2, <1>3, <1>4, FewerCounted
  <2> QED BY <1>4, <2>1, BothCounted
<1>7. Counted(status', "rejected") = Counted(status, "rejected") + 0
  <2>1. Counted(status', "rejected") = Counted(status, "rejected")
    BY <1>2, <1>3, SameCounted
  <2> QED BY <1>4, <2>1, BothCounted
<1>8. /\ stats'["enqueued"] = stats["enqueued"] + 0
      /\ stats'["updates"] = stats["updates"] + 1
      /\ stats'["dropped"] = stats["dropped"] + 0 /\ size' = size + 0
  BY <1>1 DEF TypeOK, QueueTypeOK, Counters
<1>9. ASSUME ~stopping, "drain" \notin Operator PROVE Imbalance' = 0
  <2>1. TypeOK
    BY <1>1
  <2> QED BY <1>5, <1>6, <1>7, <1>8, <1>9, <2>1, EvenAccount
<1> QED BY <1>1, <1>5, <1>9 DEF HealthInv

LEMMA HealthStep == PoolInv /\ PoolInv' /\ HealthInv /\ [Next]_vars => HealthInv'
<1> SUFFICES ASSUME PoolInv, PoolInv', HealthInv, [Next]_vars PROVE HealthInv'
  OBVIOUS
<1>1. IInv /\ status \in Statuses /\ queue \in Queues
  BY TypesOfParts DEF PoolInv, IInv
<1>2. CASE OperatorDrains
  <2>1. \A j \in Jobs : status'[j] # "new" => status[j] # "new"
    BY <1>1, <1>2, PlacedStatus DEF OperatorDrains, Drain
  <2> QED BY <1>2, <2>1, UnreportedHealth DEF OperatorDrains
<1>3. CASE Stop
  BY <1>3, UnreportedHealth DEF Stop, PutSentinels
<1>4. ASSUME UNCHANGED vars \/ \E k \in Keys : Expire(k) PROVE HealthInv'
  <2>1. UNCHANGED <<status, stats, size, stopping>>
    BY <1>4 DEF vars, Expire, DedupExpire
  <2> QED BY <2>1 DEF HealthInv, Imbalance
<1>5. ASSUME NEW w \in Workers, StartWaiting(w) PROVE HealthInv'
  <2>1. UNCHANGED <<status, stats, size, stopping>>
    BY <1>5 DEF StartWaiting, GetWait
  <2> QED BY <2>1 DEF HealthInv, Imbalance
<1>6. ASSUME NEW w \in Workers, NEW c \in Classes, GetterStep(w, c) PROVE HealthInv'
  <2>1. UNCHANGED <<stats, size, stopping>>
    BY <1>6 DEF GetterStep, TaskTakes, TaskBlocks, TaskRevoked
  <2>2. CASE TaskTakes(w, c)
    <3> DEFINE x == Head(queue[c])
    <3>1. queue[c] # << >> /\ status' = Mark(status, x, "held")
      BY <2>2 DEF TaskTakes
    <3>2. x # None => x \in Jobs /\ status[x] = "queued"
      BY <1>1, <3>1, HeadQueued
    <3> HIDE DEF x
    <3>3. \A j \in Jobs : \/ status'[j] = status[j]
                          \/ status[j] = "queued" /\ status'[j] = "held"
      BY <1>1, <3>1, <3>2 DEF Mark, Statuses
    <3> QED BY <2>1, <3>3, SameHealth
  <2>3. CASE TaskBlocks(w, c) \/ TaskRevoked(w, c)
    <3>1. status' = status
      BY <2>3 DEF TaskBlocks, TaskRevoked
    <3> QED BY <2>1, <3>1 DEF HealthInv, Imbalance
  <2> QED BY <1>6, <2>2, <2>3 DEF GetterStep
<1>7. ASSUME NEW w \in Workers, WorkerStep(w) PROVE HealthInv'
  BY <1>5, <1>6, <1>7, TakeReadyHealth, ResumeHealth, HandledHealth DEF WorkerStep
<1> QED BY <1>2, <1>3, <1>4, <1>7, ArriveHealth DEF Next

(***************************************************************************)
(* What /health/queue shows adds up: without drains and until a stop, the  *)
(* jobs counted as enqueued are those handled, being handled, evicted or   *)
(* still counted by size(), although four counters are kept by hand at     *)
(* different places of queue.py and worker.py.                             *)
(***************************************************************************)
THEOREM HealthAddsUp == Spec => []HealthReconciles
<1>1. Init => HealthInv
  <2> SUFFICES ASSUME Init PROVE HealthInv
    OBVIOUS
  <2>1. /\ \A j \in Jobs : status[j] = "new"
        /\ stats["enqueued"] = 0 /\ stats["updates"] = 0 /\ stats["dropped"] = 0
        /\ size = 0
    BY DEF Init, QueueInit, Counters
  <2>2. IsFiniteSet(Arrived(status))
    <3>1. Arrived(status) = {}
      BY <2>1 DEF Arrived
    <3> QED BY <3>1, FS_EmptySet
  <2>3. Counted(status, "rejected") = 0 /\ Counted(status, "running") = 0
    <3>1. {j \in Jobs : status[j] = "rejected"} = {}
      BY <2>1
    <3>2. {j \in Jobs : status[j] = "running"} = {}
      BY <2>1
    <3> QED BY <3>1, <3>2, FS_EmptySet DEF Counted
  <2> QED BY <2>1, <2>2, <2>3 DEF HealthInv, Imbalance
<1>2. PoolInv /\ PoolInv' /\ HealthInv /\ [Next]_vars => HealthInv'
  BY HealthStep
<1>3. PoolInv /\ HealthInv => HealthReconciles
  <2> SUFFICES ASSUME PoolInv, HealthInv, "drain" \notin Operator, ~stopping
               PROVE  stats["enqueued"] = stats["updates"] + StatusCount("running")
                        + (stats["dropped"] - StatusCount("rejected")) + size
    BY DEF HealthReconciles
  <2> DEFINE e == stats["enqueued"]
             u == stats["updates"]
             d == stats["dropped"]
             r == Counted(status, "rejected")
             n == Counted(status, "running")
  <2>1. e \in Int /\ u \in Int /\ d \in Int /\ size \in Int
    BY DEF PoolInv, IInv, TypeOK, QueueTypeOK, Counters
  <2>2. r \in Int /\ n \in Int
    BY BothCounted DEF HealthInv
  <2>3. e - u - (d - r) - n - size = 0
    BY DEF HealthInv, Imbalance
  <2>4. StatusCount("running") = n /\ StatusCount("rejected") = r
    BY DEF StatusCount, Counted
  <2> HIDE DEF e, u, d, r, n
  <2>5. e = u + n + (d - r) + size
    BY <2>1, <2>2, <2>3
  <2> QED BY <2>4, <2>5 DEF e, u, d
<1> QED BY <1>1, <1>2, <1>3, PoolInvariant, PTL DEF Spec

=============================================================================
