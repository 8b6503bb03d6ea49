------------------------------- MODULE Intake -------------------------------
(***************************************************************************)
(* app/webhook/router.py: what a delivery of the Rubika gateway goes       *)
(* through before the queue, and the HTTP status it is answered with.      *)
(* After the body is read the handler does not suspend (the queues are     *)
(* unbounded asyncio queues, so their put() does not wait), hence one      *)
(* delivery is one step.  The gateway may deliver an update any number of  *)
(* times.  The contents of the queue are in module JobQueue; here it       *)
(* answers "enqueued" or, if QueueMayFill, "dropped".                      *)
(***************************************************************************)
EXTENDS RateLimiter, Deduplicator

CONSTANTS
  Updates,       \* the requests the gateway may send, see UpdateType
  Ids,           \* chat, message, button and update ids and update types
  None,          \* an absent field
  QueueMayFill   \* whether the queue may be full

TextClass == {"none", "blank", "plain", "link", "admin command", "command"}

UpdateType ==
  [signed : BOOLEAN,              \* verify_signature
   json : BOOLEAN,                \* the body parses
   id : Ids \cup {None},          \* update_id, or payload's message_id
   chat : Ids \cup {None},
   message : Ids \cup {None},
   type : Ids \cup {None},
   button : Ids \cup {None},
   text : TextClass]

ASSUME IntakeAssumption ==
  /\ Updates \subseteq UpdateType
  /\ None \notin Ids
  /\ QueueMayFill \in BOOLEAN

VARIABLES
  handed,        \* history: the jobs offered to the queue that are no
                 \* duplicates; it takes them or, if full, drops them
  answer         \* the last request that was answered, and the status

intakeVars == <<now, events, admitted, cache, fresh, handed, answer>>

IntakeTypeOK ==
  /\ LimiterTypeOK
  /\ DedupTypeOK
  /\ handed \in Seq([update : Updates, at : 0..now,
                     priority : {"high", "normal"}])
  /\ answer \in (Updates \X {200, 400, 401, 429, 500, 503}) \cup {<< >>}

IntakeInit ==
  /\ LimiterInit
  /\ DedupInit
  /\ handed = << >>
  /\ answer = << >>

\* What a field contributes to the key: nothing if it is absent.
Part(field) == IF field = None THEN << >> ELSE <<field>>

\* The message id is left out of the key.
DedupKey_Bug(u) == Part(u.chat) \o Part(u.type) \o Part(u.button)

\* The parts that are present, joined (ids hold no colon), or else the job
\* id; a request with no id at all gets a random one, here None.
DedupKey(u) ==
  LET parts == Part(u.chat) \o Part(u.message) \o Part(u.type) \o Part(u.button)
  IN IF parts = << >> /\ u.id = None THEN None
     ELSE IF parts = << >> THEN <<u.id>>
     ELSE parts

ASSUME KeyAssumption ==
  \A u \in Updates : DedupKey(u) \in DedupKeys \cup {None}

Priority(u) == IF u.text \in {"admin command", "link"} THEN "high" ELSE "normal"

Answer(u, code) == answer' = <<u, code>>

Unauthorized(u) ==
  /\ ~u.signed
  /\ Answer(u, 401)
  /\ UNCHANGED <<now, events, admitted, cache, fresh, handed>>

\* The key is recorded before the limiter is asked.
TooMany_Bug(u) ==
  /\ u.signed
  /\ Refuse
  /\ IF DedupKey(u) \in Kept THEN SeenBefore(DedupKey(u))
                             ELSE SeenFirst(DedupKey(u))
  /\ Answer(u, 429)
  /\ UNCHANGED handed

TooMany(u) ==
  /\ u.signed
  /\ Refuse
  /\ Answer(u, 429)
  /\ UNCHANGED <<cache, fresh, handed>>

BadRequest(u) ==
  /\ u.signed
  /\ Admit
  /\ ~u.json
  /\ Answer(u, 400)
  /\ UNCHANGED <<cache, fresh, handed>>

\* The first word of a text made of slashes and blanks only is looked up in
\* an empty list: IndexError, which the server answers with 500.
ServerError(u) ==
  /\ u.signed
  /\ Admit
  /\ u.json
  /\ u.text = "blank"
  /\ Answer(u, 500)
  /\ UNCHANGED <<cache, fresh, handed>>

\* The request has become a job, and the deduplicator has not seen its key.
NewJob(u) ==
  /\ u.signed
  /\ Admit
  /\ u.json
  /\ u.text # "blank"
  /\ IF DedupKey(u) = None
     THEN SeenOnce
     ELSE SeenFirst(DedupKey(u))

Duplicate(u) ==
  /\ u.signed
  /\ Admit
  /\ u.json
  /\ u.text # "blank"
  /\ DedupKey(u) # None
  /\ SeenBefore(DedupKey(u))
  /\ Answer(u, 200)
  /\ UNCHANGED handed

Offered(u) ==
  handed' = Append(handed, [update |-> u, at |-> now, priority |-> Priority(u)])

Enqueued(u) ==
  /\ NewJob(u)
  /\ Offered(u)
  /\ Answer(u, 200)

Dropped(u) ==
  /\ QueueMayFill
  /\ NewJob(u)
  /\ Offered(u)
  /\ Answer(u, 503)

HandleRequest(u) ==
  \/ Unauthorized(u) \/ TooMany(u) \/ BadRequest(u) \/ ServerError(u)
  \/ Duplicate(u) \/ Enqueued(u) \/ Dropped(u)

Quiet == Tick /\ UNCHANGED <<events, admitted, cache, fresh, handed, answer>>

IntakeNext == (\E u \in Updates : HandleRequest(u)) \/ Quiet

IntakeSpec == IntakeInit /\ [][IntakeNext]_intakeVars

-----------------------------------------------------------------------------
(* Properties *)

\* A key enters the deduplicator only together with a job for the queue: a
\* request turned away by the limiter, by the parser or by an exception
\* leaves nothing behind that would swallow its retry.  (What becomes of a
\* job that a full queue drops is the subject of the pool's AcknowledgedIsKept.)
FreshIsHanded ==
  \A k \in DedupKeys : \A i \in DOMAIN fresh[k] :
    \E n \in DOMAIN handed :
      DedupKey(handed[n].update) = k /\ handed[n].at = fresh[k][i]

\* Requests about one message, as far as the request says.
SameMessage(u, v) == u.chat = v.chat /\ u.message = v.message

\* The ids of different kinds differ: what says which message it is could not
\* be an update type or the id of a button, nor a chat id a message id.
KindsApart ==
  \A u, v \in Updates : u.chat # None /\ u.message # None =>
    /\ u.chat \notin {v.message, v.type, v.button}
    /\ u.message \notin {v.type, v.button}

\* A message that carries its chat and its message id is never swallowed on
\* account of another message: if it was answered 200, it or a request about
\* the same message was offered to the queue.
NoForeignSwallow ==
  \A u \in Updates :
    answer = <<u, 200>> /\ u.chat # None /\ u.message # None =>
      \E n \in DOMAIN handed : SameMessage(u, handed[n].update)
=============================================================================
