-------------------------- MODULE ModerationProofs --------------------------
(***************************************************************************)
(* Proofs about the moderation of messages by several workers: what is     *)
(* removed and who is banned follows from what the plugins decided, and    *)
(* what they decided is carried out.                                       *)
(***************************************************************************)
EXTENDS Moderation, FiniteSetTheorems, WellFoundedInduction, TLAPS

-----------------------------------------------------------------------------
(* One worker per message, and what it may be about to do                    *)

JobsTypeOK ==
  /\ pc \in [Workers -> {"idle", "delete", "ban", "report", "act"}]
  /\ job \in [Workers -> Messages \cup {None}]
  /\ \A w \in Workers : job[w] = None <=> pc[w] = "idle"
  /\ verdict \in [Messages -> Verdicts]
  /\ queued \subseteq Messages /\ DOMAIN sent \subseteq Messages

\* A message is judged once, by the only worker that ever has it.
OneJudge ==
  /\ queued \subseteq DOMAIN sent
  /\ \A m \in Messages : m \in queued \/ m \notin DOMAIN sent => verdict[m] = "none"
  /\ \A w \in Workers : job[w] # None => job[w] \in DOMAIN sent \ queued
  /\ \A v, w \in Workers : job[v] = job[w] /\ job[v] # None => v = w

\* Each call is made for a message whose verdict asks for it.
Stages ==
  \A w \in Workers :
    /\ pc[w] = "delete" => verdict[job[w]] \in {"link", "flood", "word"}
    /\ pc[w] = "ban" => verdict[job[w]] \in {"link", "flood"} /\ job[w].from # None
    /\ pc[w] = "report" => verdict[job[w]] \in {"link", "refused"}
    /\ pc[w] = "act" => verdict[job[w]] = "command"

JobsInv == JobsTypeOK /\ OneJudge /\ Stages

\* The verdict that each outcome of the plugins gives, and what comes next.
Outcome(m, v, next) ==
  \/ v \in {"error", "passed"} /\ next = "idle"
  \/ v \in {"link", "flood", "word"} /\ next = "delete"
  \/ v = "refused" /\ next = "report"
  \/ v = "command" /\ next = "act"

LEMMA TakeExpanded ==
  ASSUME JobsTypeOK, NEW w \in Workers, NEW m \in Messages, Take(w, m)
  PROVE  /\ pc[w] = "idle" /\ job[w] = None /\ m \in queued
         /\ queued' = queued \ {m} /\ UNCHANGED <<now, sent, removed, banned, failed>>
         /\ \E v, next : /\ Outcome(m, v, next)
                         /\ verdict' = [verdict EXCEPT ![m] = v]
                         /\ pc' = [pc EXCEPT ![w] = next]
                         /\ job' = [job EXCEPT ![w] = IF next = "idle" THEN None ELSE m]
<1>1. /\ pc[w] = "idle" /\ job[w] = None /\ m \in queued
      /\ queued' = queued \ {m} /\ UNCHANGED <<now, sent, removed, banned, failed>>
  BY DEF Take, JobsTypeOK
<1>2. \E v, next : Outcome(m, v, next) /\ Judged(w, m, v, next)
  <2>1. CASE Raised(w, m)
    BY <2>1 DEF Raised, Outcome
  <2>2. CASE ByLink(w, m) \/ ByFlood(w, m) \/ ByWord(w, m)
    BY <2>2 DEF ByLink, ByFlood, ByWord, Outcome
  <2>3. CASE ByCommand(w, m)
    BY <2>3 DEF ByCommand, Outcome
  <2>4. CASE Passes(w, m)
    BY <2>4 DEF Passes, Outcome
  <2> QED BY <2>1, <2>2, <2>3, <2>4 DEF Take
<1> QED BY <1>1, <1>2 DEF Judged, Goes

\* The steps after the verdict.
Acts(w) == Delete(w) \/ Ban(w) \/ Report(w) \/ BanCommand(w) \/ Answered(w)

\* w's job ends, or goes on with a call its verdict asks for.
GoesOn(w) ==
  \E next :
    /\ \/ next = "idle"
       \/ next = "ban" /\ verdict[job[w]] \in {"link", "flood"} /\ job[w].from # None
       \/ next = "report" /\ verdict[job[w]] = "link"
    /\ Goes(w, job[w], next)

LEMMA ActsExpanded ==
  ASSUME JobsInv, NEW w \in Workers, Acts(w)
  PROVE  /\ pc[w] # "idle" /\ job[w] \in Messages
         /\ UNCHANGED <<now, flags, filters, events, queued, sent, verdict, checked>>
         /\ GoesOn(w)
<1>1. pc[w] # "idle" /\ job[w] \in Messages
  BY DEF JobsInv, JobsTypeOK, Acts, Delete, Ban, Report, BanCommand, Answered
<1>2. UNCHANGED <<now, flags, filters, events, queued, sent, verdict, checked>>
  BY DEF Acts, Delete, Ban, Report, BanCommand, Answered
<1>3. ASSUME Delete(w) PROVE GoesOn(w)
  <2>1. Goes(w, job[w], AfterDelete(job[w])) \/ Goes(w, job[w], "idle")
    BY <1>3 DEF Delete
  <2> DEFINE next == AfterDelete(job[w])
  <2>2. \/ next = "idle"
        \/ next = "ban" /\ verdict[job[w]] \in {"link", "flood"} /\ job[w].from # None
        \/ next = "report" /\ verdict[job[w]] = "link"
    BY DEF AfterDelete
  <2> HIDE DEF next
  <2> QED BY <2>1, <2>2 DEF next, GoesOn
<1>4. ASSUME Ban(w) PROVE GoesOn(w)
  <2>1. Goes(w, job[w], AfterBan(job[w])) \/ Goes(w, job[w], "idle")
    BY <1>4 DEF Ban
  <2> DEFINE next == AfterBan(job[w])
  <2>2. next = "idle" \/ (next = "report" /\ verdict[job[w]] = "link")
    <3>1. CASE verdict[job[w]] = "link"
      BY <3>1 DEF AfterBan
    <3>2. CASE verdict[job[w]] # "link"
      BY <3>2 DEF AfterBan
    <3> QED BY <3>1, <3>2
  <2> HIDE DEF next
  <2> QED BY <2>1, <2>2 DEF next, GoesOn
<1>5. ASSUME Report(w) \/ BanCommand(w) \/ Answered(w) PROVE GoesOn(w)
  <2>1. Goes(w, job[w], "idle")
    BY <1>5 DEF Report, BanCommand, Answered
  <2> QED BY <2>1 DEF GoesOn
<1> QED BY <1>1, <1>2, <1>3, <1>4, <1>5 DEF Acts

LEMMA TakeKeepsJobs ==
  ASSUME JobsInv, NEW w \in Workers, NEW m \in Messages, Take(w, m)
  PROVE  JobsInv'
<1>1. JobsTypeOK /\ OneJudge /\ Stages /\ None \notin Messages
  BY ModerationAssumption DEF JobsInv
<1>2. /\ pc[w] = "idle" /\ job[w] = None /\ m \in queued
      /\ queued' = queued \ {m} /\ sent' = sent
  BY <1>1, TakeExpanded
<1>3. PICK v, next : /\ Outcome(m, v, next)
                     /\ verdict' = [verdict EXCEPT ![m] = v]
                     /\ pc' = [pc EXCEPT ![w] = next]
                     /\ job' = [job EXCEPT ![w] = IF next = "idle" THEN None ELSE m]
  BY <1>1, TakeExpanded
<1>4. /\ v \in Verdicts /\ next \in {"idle", "delete", "ban", "report", "act"}
  BY <1>3 DEF Outcome, Verdicts
<1>5. /\ \A k \in Messages : verdict'[k] = IF k = m THEN v ELSE verdict[k]
      /\ \A x \in Workers : pc'[x] = IF x = w THEN next ELSE pc[x]
      /\ \A x \in Workers : job'[x] = IF x = w THEN (IF next = "idle" THEN None ELSE m)
                                               ELSE job[x]
  BY <1>1, <1>3 DEF JobsTypeOK
<1>6. JobsTypeOK'
  BY <1>1, <1>2, <1>3, <1>4, <1>5 DEF JobsTypeOK
<1>7. \A x \in Workers : job[x] # m
  BY <1>1, <1>2 DEF OneJudge
<1>8. OneJudge'
  BY <1>1, <1>2, <1>5, <1>7 DEF OneJudge
<1>9. ASSUME NEW x \in Workers
      PROVE  /\ pc'[x] = "delete" => verdict'[job'[x]] \in {"link", "flood", "word"}
             /\ pc'[x] = "ban" => verdict'[job'[x]] \in {"link", "flood"} /\ job'[x].from # None
             /\ pc'[x] = "report" => verdict'[job'[x]] \in {"link", "refused"}
             /\ pc'[x] = "act" => verdict'[job'[x]] = "command"
  <2>1. CASE x = w
    BY <1>3, <1>5, <2>1 DEF Outcome
  <2>2. CASE x # w
    <3>1. pc'[x] = pc[x] /\ job'[x] = job[x]
      BY <1>5, <2>2
    <3>2. pc[x] # "idle" => job[x] \in Messages /\ verdict'[job[x]] = verdict[job[x]]
      BY <1>1, <1>5, <1>7 DEF JobsTypeOK
    <3> QED BY <1>1, <3>1, <3>2 DEF Stages
  <2> QED BY <2>1, <2>2
<1> QED BY <1>6, <1>8, <1>9 DEF JobsInv, Stages

LEMMA ActsKeepsJobs ==
  ASSUME JobsInv, NEW w \in Workers, Acts(w)
  PROVE  JobsInv'
<1>1. JobsTypeOK /\ OneJudge /\ Stages /\ None \notin Messages
  BY ModerationAssumption DEF JobsInv
<1>2. /\ pc[w] # "idle" /\ job[w] \in Messages
      /\ UNCHANGED <<queued, sent, verdict>>
  BY ActsExpanded
<1>3. PICK next :
        /\ \/ next = "idle"
           \/ next = "ban" /\ verdict[job[w]] \in {"link", "flood"} /\ job[w].from # None
           \/ next = "report" /\ verdict[job[w]] = "link"
        /\ Goes(w, job[w], next)
  BY ActsExpanded DEF GoesOn
<1>4. /\ \A x \in Workers : pc'[x] = IF x = w THEN next ELSE pc[x]
      /\ \A x \in Workers : job'[x] = IF x = w /\ next = "idle" THEN None ELSE job[x]
  BY <1>1, <1>3 DEF JobsTypeOK, Goes
<1>5. JobsTypeOK'
  BY <1>1, <1>2, <1>3, <1>4 DEF JobsTypeOK, Goes
<1>6. OneJudge'
  BY <1>1, <1>2, <1>4 DEF OneJudge
<1>7. Stages'
  BY <1>1, <1>2, <1>3, <1>4 DEF Stages
<1> QED BY <1>5, <1>6, <1>7 DEF JobsInv

LEMMA SendExpanded ==
  ASSUME NEW m \in Messages, Send(m)
  PROVE  /\ m \notin DOMAIN sent /\ DOMAIN sent' = DOMAIN sent \cup {m}
         /\ queued' = queued \cup {m}
         /\ UNCHANGED <<now, flags, filters, events, pc, job, verdict, removed, banned,
                        failed, checked>>
  BY DEF Send

LEMMA JobsStep == JobsInv /\ [ModNext]_modVars => JobsInv'
<1> SUFFICES ASSUME JobsInv, [ModNext]_modVars PROVE JobsInv'
  OBVIOUS
<1>1. JobsTypeOK /\ OneJudge /\ Stages /\ None \notin Messages
  BY ModerationAssumption DEF JobsInv
<1>2. ASSUME NEW m \in Messages, Send(m) PROVE JobsInv'
  <2>1. /\ m \notin DOMAIN sent /\ DOMAIN sent' = DOMAIN sent \cup {m}
        /\ queued' = queued \cup {m} /\ UNCHANGED <<pc, job, verdict>>
    BY <1>2, SendExpanded
  <2>2. JobsTypeOK'
    BY <1>1, <2>1 DEF JobsTypeOK
  <2>3. OneJudge'
    BY <1>1, <2>1 DEF OneJudge
  <2>4. Stages'
    BY <1>1, <2>1 DEF Stages
  <2> QED BY <2>2, <2>3, <2>4 DEF JobsInv
<1>3. ASSUME NEW w \in Workers, Works(w) PROVE JobsInv'
  BY <1>3, TakeKeepsJobs, ActsKeepsJobs DEF Works, Acts
<1>4. CASE Crash
  <2>1. /\ queued' = {} /\ UNCHANGED <<sent, verdict>>
        /\ \A w \in Workers : pc'[w] = "idle" /\ job'[w] = None
    BY <1>4 DEF Crash
  <2>2. JobsTypeOK'
    BY <1>1, <1>4, <2>1 DEF JobsTypeOK, Crash
  <2>3. OneJudge' /\ Stages'
    BY <1>1, <2>1 DEF OneJudge, Stages
  <2> QED BY <2>2, <2>3 DEF JobsInv
<1>5. CASE ModPause \/ UNCHANGED modVars
  <2>1. UNCHANGED <<queued, sent, pc, job, verdict>>
    BY <1>5 DEF ModPause, modVars
  <2> QED BY <1>1, <2>1 DEF JobsInv, JobsTypeOK, OneJudge, Stages
<1> QED BY <1>2, <1>3, <1>4, <1>5 DEF ModNext

LEMMA JobsInit == ModInit => JobsInv
  BY DEF ModInit, JobsInv, JobsTypeOK, OneJudge, Stages, Verdicts

LEMMA JobsInvariant == ModSpec => []JobsInv
  BY JobsInit, JobsStep, PTL DEF ModSpec

-----------------------------------------------------------------------------
(* Only what was decided is done                                            *)

DecisionsInv == JobsInv /\ removed \subseteq Messages /\ banned \subseteq Senders /\ OnlyDecisions

\* A verdict once given stays.
LEMMA VerdictsStay ==
  ASSUME JobsInv, [ModNext]_modVars, NEW m \in Messages, verdict[m] # "none"
  PROVE  verdict'[m] = verdict[m]
<1>1. JobsTypeOK /\ OneJudge
  BY DEF JobsInv
<1>2. ASSUME NEW w \in Workers, NEW k \in Messages, Take(w, k) PROVE verdict'[m] = verdict[m]
  <2>1. k \in queued /\ \E v : verdict' = [verdict EXCEPT ![k] = v]
    BY <1>1, <1>2, TakeExpanded
  <2>2. verdict[k] = "none"
    BY <1>1, <2>1 DEF OneJudge
  <2>3. k # m
    BY <2>2
  <2> QED BY <1>1, <2>1, <2>3 DEF JobsTypeOK
<1>3. ASSUME NEW w \in Workers, Acts(w) PROVE verdict'[m] = verdict[m]
  BY <1>3, ActsExpanded
<1>4. ASSUME NEW k \in Messages, Send(k) PROVE verdict'[m] = verdict[m]
  BY <1>4 DEF Send
<1>5. CASE Crash \/ ModPause \/ UNCHANGED modVars
  BY <1>5 DEF Crash, ModPause, modVars
<1> QED BY <1>2, <1>3, <1>4, <1>5 DEF ModNext, Works, Acts

\* Who is new among the removed and the banned has the verdict for it.
LEMMA NewlyDone ==
  ASSUME JobsInv, [ModNext]_modVars, removed \subseteq Messages, banned \subseteq Senders
  PROVE  /\ \A m \in removed' \ removed :
              m \in Messages /\ verdict[m] \in {"link", "flood", "word"}
         /\ \A s \in banned' \ banned : s \in Senders /\ \E m \in Messages :
              \/ m.from = s /\ verdict[m] \in {"link", "flood"}
              \/ m.command = "ban" /\ m.target = s /\ verdict[m] = "command"
<1> DEFINE New == /\ \A m \in removed' \ removed :
                        m \in Messages /\ verdict[m] \in {"link", "flood", "word"}
                  /\ \A s \in banned' \ banned : s \in Senders /\ \E m \in Messages :
                        \/ m.from = s /\ verdict[m] \in {"link", "flood"}
                        \/ m.command = "ban" /\ m.target = s /\ verdict[m] = "command"
<1>1. JobsTypeOK /\ OneJudge /\ Stages /\ None \notin Messages
  BY ModerationAssumption DEF JobsInv
<1>2. ASSUME NEW w \in Workers, Delete(w) PROVE New
  <2>1. job[w] \in Messages /\ verdict[job[w]] \in {"link", "flood", "word"}
    BY <1>1, <1>2 DEF Delete, Stages, JobsTypeOK
  <2>2. removed' \subseteq removed \cup {job[w]} /\ banned' = banned
    BY <1>2 DEF Delete
  <2> QED BY <2>1, <2>2
<1>3. ASSUME NEW w \in Workers, Ban(w) PROVE New
  <2>1. /\ job[w] \in Messages /\ verdict[job[w]] \in {"link", "flood"}
        /\ job[w].from # None
    BY <1>1, <1>3 DEF Ban, Stages, JobsTypeOK
  <2>2. job[w].from \in Senders
    BY <2>1, ModerationAssumption DEF MessageType
  <2>3. removed' = removed /\ banned' \subseteq banned \cup {job[w].from}
    BY <1>3 DEF Ban
  <2> QED BY <2>1, <2>2, <2>3
<1>4. ASSUME NEW w \in Workers, BanCommand(w) PROVE New
  <2>1. /\ job[w] \in Messages /\ verdict[job[w]] = "command"
    BY <1>1, <1>4 DEF BanCommand, Stages, JobsTypeOK
  <2>2. job[w].target \in Senders \cup {None}
    BY <2>1, ModerationAssumption DEF MessageType
  <2>3. /\ removed' = removed
        /\ \/ banned' \subseteq banned
           \/ /\ job[w].target # None /\ job[w].command = "ban"
              /\ banned' \subseteq banned \cup {job[w].target}
    <3>1. job[w].command \in {"ban", "unban"} /\ removed' = removed
      BY <1>4 DEF BanCommand
    <3>2. CASE job[w].target = None
      BY <1>4, <3>1, <3>2 DEF BanCommand
    <3>3. CASE job[w].target # None /\ job[w].command = "ban"
      BY <1>4, <3>1, <3>3 DEF BanCommand
    <3>4. CASE job[w].target # None /\ job[w].command = "unban"
      BY <1>4, <3>1, <3>4 DEF BanCommand
    <3> QED BY <3>1, <3>2, <3>3, <3>4
  <2> QED BY <2>1, <2>2, <2>3
<1>5. CASE \/ \E w \in Workers : Report(w) \/ Answered(w) \/ \E m \in Messages : Take(w, m)
           \/ \E m \in Messages : Send(m)
           \/ Crash \/ ModPause \/ UNCHANGED modVars
  BY <1>5 DEF Report, Answered, Take, Send, Crash, ModPause, modVars
<1>6. New
  BY <1>2, <1>3, <1>4, <1>5 DEF ModNext, Works
<1> QED BY <1>6

LEMMA DecisionsStep == DecisionsInv /\ [ModNext]_modVars => DecisionsInv'
<1> SUFFICES ASSUME DecisionsInv, [ModNext]_modVars PROVE DecisionsInv'
  OBVIOUS
<1>1. JobsInv /\ removed \subseteq Messages /\ banned \subseteq Senders /\ OnlyDecisions
  BY DEF DecisionsInv
<1>2. JobsInv'
  BY <1>1, JobsStep
<1>3. \A m \in Messages : verdict[m] # "none" => verdict'[m] = verdict[m]
  BY <1>1, VerdictsStay
<1>4. /\ \A m \in removed' \ removed :
            m \in Messages /\ verdict[m] \in {"link", "flood", "word"}
      /\ \A s \in banned' \ banned : s \in Senders /\ \E m \in Messages :
            \/ m.from = s /\ verdict[m] \in {"link", "flood"}
            \/ m.command = "ban" /\ m.target = s /\ verdict[m] = "command"
  BY <1>1, NewlyDone
<1>5. removed' \subseteq Messages /\ banned' \subseteq Senders
  BY <1>1, <1>4
<1>6. \A m \in removed' : verdict'[m] \in {"link", "flood", "word"}
  BY <1>1, <1>3, <1>4 DEF OnlyDecisions
<1>7. ASSUME NEW s \in banned'
      PROVE  \/ \E m \in Messages : m.from = s /\ verdict'[m] \in {"link", "flood"}
             \/ \E m \in Messages : m.command = "ban" /\ m.target = s /\ verdict'[m] = "command"
  <2>1. PICK m \in Messages :
          \/ m.from = s /\ verdict[m] \in {"link", "flood"}
          \/ m.command = "ban" /\ m.target = s /\ verdict[m] = "command"
    BY <1>1, <1>4 DEF OnlyDecisions
  <2>2. verdict'[m] = verdict[m]
    BY <1>3, <2>1
  <2> QED BY <2>1, <2>2
<1> QED BY <1>2, <1>5, <1>6, <1>7 DEF DecisionsInv, OnlyDecisions

\* Nothing is removed and nobody is banned but by a decision of the plugins
\* about a message, whatever the interleaving of the workers, the failures of
\* their calls and the crashes (app/services/plugins; the worker runs one job
\* to its end before it takes another).
THEOREM OnlyDecisionsAreDone == ModSpec => []OnlyDecisions
<1>1. ModInit => DecisionsInv
  BY JobsInit DEF ModInit, DecisionsInv, OnlyDecisions
<1>2. DecisionsInv => OnlyDecisions
  BY DEF DecisionsInv
<1> QED BY <1>1, <1>2, DecisionsStep, PTL DEF ModSpec

-----------------------------------------------------------------------------
(* What was decided is carried out                                          *)

Gone(m) == verdict[m] \in {"link", "flood", "word"} => m \in removed

Expelled(m) ==
  verdict[m] \in {"link", "flood"} /\ m.from # None => m.from \in banned \/ Lifted(m.from)

BanDone(m) ==
  verdict[m] = "command" /\ m.command = "ban" /\ m.target # None =>
    m.target \in banned \/ Lifted(m.target)

Done(m) == Gone(m) /\ Expelled(m) /\ BanDone(m)

\* What is done already when a worker comes to its second and third call.
Progress ==
  \A w \in Workers : \A m \in Messages : job[w] = m /\ m \notin failed =>
    /\ pc[w] \in {"ban", "report"} => Gone(m)
    /\ pc[w] = "report" => Expelled(m)

Settled == \A m \in Messages : Over(m) /\ m \notin failed => Done(m)

CarryInv == JobsInv /\ Progress /\ Settled

LEMMA LiftedStays ==
  ASSUME JobsInv, [ModNext]_modVars, NEW s, Lifted(s)
  PROVE  Lifted(s)'
<1>1. PICK m \in Messages : m.command = "unban" /\ m.target = s /\ verdict[m] = "command"
  BY DEF Lifted
<1>2. verdict'[m] = "command"
  BY <1>1, VerdictsStay
<1> QED BY <1>1, <1>2 DEF Lifted

\* Only an accepted /unban ends a ban.
LEMMA BansLast ==
  ASSUME JobsInv, [ModNext]_modVars, NEW s \in banned
  PROVE  s \in banned' \/ Lifted(s)
<1>1. ASSUME NEW w \in Workers, BanCommand(w), s \notin banned' PROVE Lifted(s)
  <2>1. pc[w] = "act" /\ job[w] \in Messages /\ verdict[job[w]] = "command"
    BY <1>1 DEF BanCommand, JobsInv, JobsTypeOK, Stages
  <2>2. job[w].command = "unban" /\ job[w].target = s
    BY <1>1 DEF BanCommand
  <2> QED BY <2>1, <2>2 DEF Lifted
<1>2. ASSUME NEW w \in Workers, Ban(w) PROVE s \in banned'
  BY <1>2 DEF Ban
<1>3. CASE \/ \E w \in Workers : Delete(w) \/ Report(w) \/ Answered(w) \/ \E m \in Messages : Take(w, m)
           \/ \E m \in Messages : Send(m)
           \/ Crash \/ ModPause \/ UNCHANGED modVars
  BY <1>3 DEF Delete, Report, Answered, Take, Send, Crash, ModPause, modVars
<1> QED BY <1>1, <1>2, <1>3 DEF ModNext, Works

LEMMA GrowOnly ==
  ASSUME [ModNext]_modVars
  PROVE  removed \subseteq removed' /\ failed \subseteq failed'
<1>1. ASSUME NEW w \in Workers, Works(w) PROVE removed \subseteq removed' /\ failed \subseteq failed'
  <2>1. CASE \/ Ban(w) \/ Report(w) \/ BanCommand(w) \/ Answered(w)
             \/ \E m \in Messages : Take(w, m)
    BY <2>1 DEF Ban, Report, BanCommand, Answered, Take, CallFails
  <2>2. CASE Delete(w)
    BY <2>2 DEF Delete, CallFails
  <2> QED BY <1>1, <2>1, <2>2 DEF Works
<1>2. CASE (\E m \in Messages : Send(m)) \/ Crash \/ ModPause \/ UNCHANGED modVars
  BY <1>2 DEF Send, Crash, ModPause, modVars
<1> QED BY <1>1, <1>2 DEF ModNext

\* What is done for a message stays done.
LEMMA DoneStays ==
  ASSUME JobsInv, [ModNext]_modVars, NEW m \in Messages, verdict[m] # "none"
  PROVE  /\ Gone(m) => Gone(m)'
         /\ Expelled(m) => Expelled(m)'
         /\ Done(m) => Done(m)'
<1>1. verdict'[m] = verdict[m]
  BY VerdictsStay
<1>2. removed \subseteq removed'
  BY GrowOnly
<1>3. ASSUME NEW s, s \in banned \/ Lifted(s) PROVE s \in banned' \/ Lifted(s)'
  BY <1>3, BansLast, LiftedStays
<1>4. Gone(m) => Gone(m)'
  BY <1>1, <1>2 DEF Gone
<1>5. Expelled(m) => Expelled(m)'
  BY <1>1, <1>3 DEF Expelled
<1>6. BanDone(m) => BanDone(m)'
  BY <1>1, <1>3 DEF BanDone
<1> QED BY <1>4, <1>5, <1>6 DEF Done

\* A call that did not fail brings its message further.
LEMMA ActsProgress ==
  ASSUME CarryInv, NEW w \in Workers, Acts(w), NEW m \in Messages, job[w] = m, m \notin failed'
  PROVE  /\ job'[w] = None => Done(m)'
         /\ pc'[w] \in {"ban", "report"} => Gone(m)'
         /\ pc'[w] = "report" => Expelled(m)'
<1>1. JobsTypeOK /\ Stages /\ Progress /\ None \notin Messages
  BY ModerationAssumption DEF CarryInv, JobsInv
<1>2. verdict' = verdict /\ verdict[m] \in Verdicts
  BY <1>1, ActsExpanded DEF CarryInv, JobsTypeOK
<1>3. [ModNext]_modVars /\ JobsInv /\ m \notin failed
  BY GrowOnly DEF ModNext, Works, Acts, CarryInv
<1> DEFINE Further == /\ job'[w] = None => Done(m)'
                      /\ pc'[w] \in {"ban", "report"} => Gone(m)'
                      /\ pc'[w] = "report" => Expelled(m)'
<1>4. ASSUME Delete(w) PROVE Further
  <2>1. /\ removed' = removed \cup {m} /\ pc' = [pc EXCEPT ![w] = AfterDelete(m)]
        /\ job' = [job EXCEPT ![w] = IF AfterDelete(m) = "idle" THEN None ELSE m]
    BY <1>4 DEF Delete, CallFails, Goes
  <2>2. m \in removed' /\ pc'[w] = AfterDelete(m)
    BY <1>1, <2>1 DEF JobsTypeOK
  <2>3. job'[w] = None => AfterDelete(m) = "idle"
    BY <1>1, <2>1 DEF JobsTypeOK
  <2>4. verdict[m] \in {"link", "flood", "word"}
    BY <1>1, <1>4 DEF Delete, Stages
  <2>5. Gone(m)'
    BY <2>2 DEF Gone
  <2>6. AfterDelete(m) = "report" => m.from = None
    BY DEF AfterDelete
  <2>7. AfterDelete(m) = "report" => Expelled(m)'
    BY <2>6 DEF Expelled
  <2>8. AfterDelete(m) = "idle" => verdict[m] \notin {"link", "flood"} \/ m.from = None
    BY DEF AfterDelete
  <2>9. AfterDelete(m) = "idle" => Expelled(m)'
    BY <1>2, <2>8 DEF Expelled
  <2>10. BanDone(m)'
    BY <1>2, <2>4 DEF BanDone
  <2> QED BY <2>2, <2>3, <2>5, <2>7, <2>9, <2>10 DEF Done
<1>5. ASSUME Ban(w) PROVE Further
  <2>1. banned' = banned \cup {m.from} /\ removed' = removed
    BY <1>5 DEF Ban, CallFails
  <2>2. Gone(m)
    BY <1>1, <1>3, <1>5 DEF Progress, Ban
  <2>3. Gone(m)'
    BY <1>2, <2>1, <2>2 DEF Gone
  <2>4. Expelled(m)'
    BY <2>1 DEF Expelled
  <2>5. BanDone(m)'
    BY <1>1, <1>2, <1>5 DEF BanDone, Ban, Stages
  <2> QED BY <2>3, <2>4, <2>5 DEF Done
<1>6. ASSUME Report(w) PROVE Further
  <2>1. Gone(m) /\ Expelled(m)
    BY <1>1, <1>3, <1>6 DEF Progress, Report
  <2>2. verdict[m] # "none"
    BY <1>1, <1>6 DEF Report, Stages
  <2>3. Gone(m)' /\ Expelled(m)'
    BY <1>3, <2>1, <2>2, DoneStays
  <2>4. BanDone(m)'
    BY <1>1, <1>2, <1>6 DEF BanDone, Report, Stages
  <2> QED BY <2>3, <2>4 DEF Done
<1>7. ASSUME BanCommand(w) \/ Answered(w) PROVE Further
  <2>1. verdict[m] = "command"
    BY <1>1, <1>7 DEF BanCommand, Answered, Stages
  <2>2. Gone(m)' /\ Expelled(m)'
    BY <1>2, <2>1 DEF Gone, Expelled
  <2>3. ASSUME m.command = "ban", m.target # None PROVE m.target \in banned'
    <3>1. BanCommand(w)
      BY <1>7, <2>3 DEF Answered
    <3> QED BY <2>3, <3>1 DEF BanCommand, CallFails
  <2>4. BanDone(m)'
    BY <2>3 DEF BanDone
  <2> QED BY <2>2, <2>4 DEF Done
<1>8. Further
  BY <1>4, <1>5, <1>6, <1>7 DEF Acts
<1> QED BY <1>8

LEMMA ActsKeepsCarry ==
  ASSUME CarryInv, NEW w \in Workers, Acts(w)
  PROVE  Progress' /\ Settled'
<1>1. JobsTypeOK /\ OneJudge /\ Stages /\ Progress /\ Settled /\ JobsInv /\ None \notin Messages
  BY ModerationAssumption DEF CarryInv, JobsInv
<1>2. /\ job[w] \in Messages /\ queued' = queued /\ sent' = sent /\ verdict' = verdict
  BY <1>1, ActsExpanded
<1>3. PICK next : Goes(w, job[w], next)
  BY <1>1, ActsExpanded DEF GoesOn
<1>4. /\ \A x \in Workers : x # w => pc'[x] = pc[x] /\ job'[x] = job[x]
      /\ job'[w] \in {None, job[w]}
  BY <1>1, <1>3 DEF JobsTypeOK, Goes
<1>5. [ModNext]_modVars
  BY DEF ModNext, Works, Acts
<1>6. failed \subseteq failed'
  BY <1>5, GrowOnly
<1>7. \A m \in Messages : verdict[m] # "none" =>
        /\ Gone(m) => Gone(m)'
        /\ Expelled(m) => Expelled(m)'
        /\ Done(m) => Done(m)'
  BY <1>1, <1>5, DoneStays
<1>8. ASSUME NEW x \in Workers, NEW m \in Messages, job'[x] = m, m \notin failed'
      PROVE  /\ pc'[x] \in {"ban", "report"} => Gone(m)'
             /\ pc'[x] = "report" => Expelled(m)'
  <2>1. CASE x = w
    BY <1>1, <1>4, <1>8, <2>1, ActsProgress
  <2>2. CASE x # w
    <3>1. pc'[x] = pc[x] /\ job[x] = m /\ m \notin failed
      BY <1>4, <1>6, <1>8, <2>2
    <3>2. pc[x] \in {"ban", "report"} => verdict[m] # "none"
      BY <1>1, <3>1 DEF Stages
    <3> QED BY <1>1, <1>7, <3>1, <3>2 DEF Progress
  <2> QED BY <2>1, <2>2
<1>9. ASSUME NEW m \in Messages, Over(m)', m \notin failed' PROVE Done(m)'
  <2>1. m \in DOMAIN sent \ queued /\ \A x \in Workers : job'[x] # m
    BY <1>2, <1>9 DEF Over
  <2>2. CASE job[w] = m
    <3>1. job'[w] = None
      BY <1>4, <2>1, <2>2
    <3> QED BY <1>9, <2>2, <3>1, ActsProgress
  <2>3. CASE job[w] # m
    <3>1. Over(m) /\ m \notin failed
      BY <1>4, <1>6, <1>9, <2>1, <2>3 DEF Over
    <3>2. Done(m)
      BY <1>1, <3>1 DEF Settled
    <3>3. CASE verdict[m] # "none"
      BY <1>7, <3>2, <3>3
    <3>4. CASE verdict[m] = "none"
      BY <1>2, <3>4 DEF Done, Gone, Expelled, BanDone
    <3> QED BY <3>3, <3>4
  <2> QED BY <2>2, <2>3
<1>10. Progress'
  BY <1>8 DEF Progress
<1>11. Settled'
  BY <1>9 DEF Settled
<1> QED BY <1>10, <1>11

LEMMA TakeKeepsCarry ==
  ASSUME CarryInv, NEW w \in Workers, NEW k \in Messages, Take(w, k)
  PROVE  Progress' /\ Settled'
<1>1. JobsTypeOK /\ OneJudge /\ Stages /\ Progress /\ Settled /\ JobsInv /\ None \notin Messages
  BY ModerationAssumption DEF CarryInv, JobsInv
<1>2. /\ pc[w] = "idle" /\ job[w] = None /\ k \in queued /\ queued' = queued \ {k}
      /\ sent' = sent /\ failed' = failed
  BY <1>1, TakeExpanded
<1>3. PICK v, next : /\ Outcome(k, v, next)
                     /\ verdict' = [verdict EXCEPT ![k] = v]
                     /\ pc' = [pc EXCEPT ![w] = next]
                     /\ job' = [job EXCEPT ![w] = IF next = "idle" THEN None ELSE k]
  BY <1>1, TakeExpanded
<1>4. /\ \A x \in Workers : x # w => pc'[x] = pc[x] /\ job'[x] = job[x]
      /\ pc'[w] = next /\ job'[w] = (IF next = "idle" THEN None ELSE k)
      /\ verdict'[k] = v
  BY <1>1, <1>3 DEF JobsTypeOK
<1>5. [ModNext]_modVars
  BY DEF ModNext, Works
<1>6. \A m \in Messages : verdict[m] # "none" =>
        /\ Gone(m) => Gone(m)'
        /\ Expelled(m) => Expelled(m)'
        /\ Done(m) => Done(m)'
  BY <1>1, <1>5, DoneStays
<1>7. ASSUME NEW x \in Workers, NEW m \in Messages, job'[x] = m, m \notin failed'
      PROVE  /\ pc'[x] \in {"ban", "report"} => Gone(m)'
             /\ pc'[x] = "report" => Expelled(m)'
  <2>1. CASE x = w
    <3>1. ASSUME next \in {"ban", "report"} PROVE m = k /\ v = "refused"
      BY <1>3, <1>4, <1>7, <2>1, <3>1 DEF Outcome
    <3>2. ASSUME pc'[x] \in {"ban", "report"} PROVE verdict'[m] = "refused"
      BY <1>4, <2>1, <3>1, <3>2
    <3> QED BY <3>2 DEF Gone, Expelled
  <2>2. CASE x # w
    <3>1. pc'[x] = pc[x] /\ job[x] = m /\ m \notin failed
      BY <1>2, <1>4, <1>7, <2>2
    <3>2. pc[x] \in {"ban", "report"} => verdict[m] # "none"
      BY <1>1, <3>1 DEF Stages
    <3> QED BY <1>1, <1>6, <3>1, <3>2 DEF Progress
  <2> QED BY <2>1, <2>2
<1>8. ASSUME NEW m \in Messages, Over(m)', m \notin failed' PROVE Done(m)'
  <2>1. m \in DOMAIN sent /\ (m \notin queued \/ m = k) /\ \A x \in Workers : job'[x] # m
    BY <1>2, <1>8 DEF Over
  <2>2. CASE m = k
    <3>1. v \in {"error", "passed"}
      BY <1>3, <1>4, <2>1, <2>2 DEF Outcome
    <3> QED BY <1>4, <2>2, <3>1 DEF Done, Gone, Expelled, BanDone
  <2>3. CASE m # k
    <3>1. \A x \in Workers : job[x] # m
      BY <1>1, <1>2, <1>4, <2>1
    <3>2. Over(m) /\ m \notin failed
      BY <1>2, <1>8, <2>1, <2>3, <3>1 DEF Over
    <3>3. Done(m)
      BY <1>1, <3>2 DEF Settled
    <3>4. CASE verdict[m] # "none"
      BY <1>6, <3>3, <3>4
    <3>5. CASE verdict[m] = "none"
      <4>1. verdict'[m] = "none"
        BY <1>1, <1>3, <2>3, <3>5 DEF JobsTypeOK
      <4> QED BY <4>1 DEF Done, Gone, Expelled, BanDone
    <3> QED BY <3>4, <3>5
  <2> QED BY <2>2, <2>3
<1>9. Progress'
  BY <1>7 DEF Progress
<1>10. Settled'
  BY <1>8 DEF Settled
<1> QED BY <1>9, <1>10

LEMMA CarryStep == CarryInv /\ [ModNext]_modVars => CarryInv'
<1> SUFFICES ASSUME CarryInv, [ModNext]_modVars PROVE CarryInv'
  OBVIOUS
<1>1. JobsTypeOK /\ OneJudge /\ Stages /\ Progress /\ Settled /\ JobsInv /\ None \notin Messages
  BY ModerationAssumption DEF CarryInv, JobsInv
<1>2. JobsInv'
  BY <1>1, JobsStep
<1>3. ASSUME NEW w \in Workers, Works(w) PROVE Progress' /\ Settled'
  BY <1>3, TakeKeepsCarry, ActsKeepsCarry DEF Works, Acts
<1>4. ASSUME NEW k \in Messages, Send(k) PROVE Progress' /\ Settled'
  <2>1. /\ k \notin DOMAIN sent /\ DOMAIN sent' = DOMAIN sent \cup {k}
        /\ queued' = queued \cup {k}
        /\ UNCHANGED <<pc, job, verdict, removed, banned, failed>>
    BY <1>4, SendExpanded
  <2>2. \A m \in Messages : /\ Gone(m) <=> Gone(m)'
                            /\ Expelled(m) <=> Expelled(m)'
                            /\ Done(m) <=> Done(m)'
    BY <2>1 DEF Gone, Expelled, BanDone, Done, Lifted
  <2>3. \A m \in Messages : Over(m)' => Over(m)
    BY <2>1 DEF Over
  <2>4. Progress'
    BY <1>1, <2>1, <2>2 DEF Progress
  <2>5. Settled'
    BY <1>1, <2>1, <2>2, <2>3 DEF Settled
  <2> QED BY <2>4, <2>5
<1>5. ASSUME Crash PROVE Progress' /\ Settled'
  <2>1. /\ \A w \in Workers : job'[w] = None
        /\ UNCHANGED <<sent, verdict, removed, banned>>
        /\ failed' = failed \cup queued \cup ({job[w] : w \in Workers} \ {None})
    BY <1>5 DEF Crash
  <2>2. \A m \in Messages : Done(m) <=> Done(m)'
    BY <2>1 DEF Gone, Expelled, BanDone, Done, Lifted
  <2>3. \A m \in Messages : Over(m)' /\ m \notin failed' => Over(m) /\ m \notin failed
    <3> SUFFICES ASSUME NEW m \in Messages, Over(m)', m \notin failed'
                 PROVE  Over(m) /\ m \notin failed
      OBVIOUS
    <3>1. m \in DOMAIN sent /\ m # None
      BY <1>1, <2>1 DEF Over
    <3>2. m \notin queued /\ m \notin failed /\ \A w \in Workers : job[w] # m
      BY <2>1, <3>1
    <3> QED BY <3>1, <3>2 DEF Over
  <2>4. Progress'
    BY <1>1, <2>1 DEF Progress
  <2>5. Settled'
    BY <1>1, <2>2, <2>3 DEF Settled
  <2> QED BY <2>4, <2>5
<1>6. ASSUME ModPause \/ UNCHANGED modVars PROVE Progress' /\ Settled'
  <2>1. UNCHANGED <<queued, sent, pc, job, verdict, removed, banned, failed>>
    BY <1>6 DEF ModPause, modVars
  <2>2. \A m \in Messages : /\ Gone(m) <=> Gone(m)'
                            /\ Expelled(m) <=> Expelled(m)'
                            /\ Done(m) <=> Done(m)'
                            /\ Over(m) <=> Over(m)'
    BY <2>1 DEF Gone, Expelled, BanDone, Done, Lifted, Over
  <2>3. Progress'
    BY <1>1, <2>1, <2>2 DEF Progress
  <2>4. Settled'
    BY <1>1, <2>1, <2>2 DEF Settled
  <2> QED BY <2>3, <2>4
<1>7. Progress' /\ Settled'
  BY <1>3, <1>4, <1>5, <1>6 DEF ModNext
<1> QED BY <1>2, <1>7 DEF CarryInv

\* What the plugins decide about a message is done when its job is over, if
\* none of the job's own calls failed and no crash cut it short, whatever the
\* other workers do between its calls (anti_link.py and anti_flood.py delete
\* first and ban afterwards, admin_panel.py bans).
THEOREM DecisionsAreCarriedOut == ModSpec => []DecisionsCarriedOut
<1>1. ModInit => CarryInv
  <2> SUFFICES ASSUME ModInit PROVE CarryInv
    OBVIOUS
  <2>1. Progress /\ Settled
    BY ModerationAssumption DEF ModInit, Progress, Settled, Over
  <2> QED BY <2>1, JobsInit DEF CarryInv
<1>2. CarryInv => DecisionsCarriedOut
  BY DEF CarryInv, Settled, Done, Gone, Expelled, BanDone, DecisionsCarriedOut
<1> QED BY <1>1, <1>2, CarryStep, PTL DEF ModSpec

-----------------------------------------------------------------------------
(* Who may change the settings                                              *)

\* Settings and filters change by a command, or a press of the panel's
\* buttons, that no plugin before it stopped; the command is the owner's, an
\* admin's or one without a sender (admin_panel.py checks the sender of its
\* commands, and nobody checks the presses).
THEOREM SettingsByCommandOnly == ModSpec => ChangedByCommand
<1> DEFINE Ordered ==
      flags' # flags \/ filters' # filters =>
        \E m \in Messages :
          /\ Decided(m)
          /\ verdict'[m] = "command"
          /\ m.from \in Admins \cup {Owner, None} \/ (m.command = "press" /\ filters' = filters)
          /\ ~LinkHit(m)
<1>1. JobsInv /\ [ModNext]_modVars => Ordered
  <2> SUFFICES ASSUME JobsInv, [ModNext]_modVars, flags' # flags \/ filters' # filters
               PROVE  \E m \in Messages :
                        /\ Decided(m)
                        /\ verdict'[m] = "command"
                        /\ \/ m.from \in Admins \cup {Owner, None}
                           \/ m.command = "press" /\ filters' = filters
                        /\ ~LinkHit(m)
    OBVIOUS
  <2>1. JobsTypeOK /\ OneJudge
    BY DEF JobsInv
  <2>2. PICK w \in Workers, m \in Messages : Take(w, m)
    <3>1. ASSUME NEW w \in Workers, Acts(w) PROVE FALSE
      BY <3>1, ActsExpanded
    <3>2. ASSUME NEW m \in Messages, Send(m) PROVE FALSE
      BY <3>2 DEF Send
    <3>3. ~Crash /\ ~ModPause /\ ~UNCHANGED modVars
      BY DEF Crash, ModPause, modVars
    <3> QED BY <3>1, <3>2, <3>3 DEF ModNext, Works, Acts
  <2>3. verdict[m] = "none"
    BY <2>1, <2>2 DEF Take, OneJudge
  <2>4. ByCommand(w, m)
    BY <2>2 DEF Take, Raised, ByLink, ByFlood, ByWord, Passes
  <2>5. /\ ~LinkHit(m) /\ ~Refused(m) /\ Changes(m)
        /\ verdict' = [verdict EXCEPT ![m] = "command"]
    BY <2>4 DEF ByCommand, Clean, Judged
  <2>6. verdict'[m] = "command"
    BY <2>1, <2>5 DEF JobsTypeOK
  <2>7. /\ m.command \in {"antilink", "filter", "press"}
        /\ m.command = "press" => filters' = filters
    BY <2>5 DEF Changes
  <2>8. m.from \in Admins \cup {Owner, None} \/ m.command = "press"
    BY <2>5, <2>7 DEF Refused, AdminCommands, Admin
  <2> QED BY <2>3, <2>5, <2>6, <2>7, <2>8 DEF Decided
<1>2. ModSpec => [][Ordered]_modVars
  BY <1>1, JobsInvariant, PTL DEF ModSpec
<1> QED BY <1>2 DEF ChangedByCommand

-----------------------------------------------------------------------------
(* The flood check counts exactly                                           *)

FloodTypeOK ==
  /\ now \in Nat
  /\ events \in [Senders -> Seq(Nat)]
  /\ checked \in [Senders -> Seq(Nat)]

\* What the events s of one sender have lost of his history h.
Lost(e, h) == Len(h) - Len(e)

\* e is the end of h, and what it lost is too old at time t.
EndOf(e, h, t) ==
  /\ Len(e) <= Len(h)
  /\ \A i \in 1..Len(e) : e[i] = h[Lost(e, h) + i]
  /\ \A i \in 1..Lost(e, h) : t - h[i] > Window

InOrder(h, t) ==
  /\ \A i \in 1..Len(h) : h[i] <= t
  /\ \A i, j \in 1..Len(h) : i <= j => h[i] <= h[j]

FloodInv ==
  /\ FloodTypeOK
  /\ \A x \in Senders : EndOf(events[x], checked[x], now) /\ InOrder(checked[x], now)

\* A set of numbers up to a bound has a largest one.
LEMMA LargestExists ==
  ASSUME NEW len \in Nat, NEW S \in SUBSET (0..len), NEW s0 \in S
  PROVE  \E n \in S : \A k \in S : k <= n
<1> DEFINE T == {len - k : k \in S}
<1>1. T \subseteq Nat /\ len - s0 \in T
  OBVIOUS
<1>2. T # {}
  BY <1>1
<1> HIDE DEF T
<1>3. PICK t \in T : \A u \in T : <<u, t>> \notin OpToRel(<, Nat)
  BY <1>1, <1>2, WFMin, NatLessThanWellFounded, Zenon
<1>4. \A u \in T : ~(u < t)
  BY <1>1, <1>3, Zenon DEF OpToRel
<1>5. PICK n \in S : t = len - n
  BY DEF T
<1>6. ASSUME NEW k \in S PROVE k <= n
  <2>1. len - k \in T
    BY DEF T
  <2>2. ~(len - k < len - n)
    BY <1>4, <1>5, <2>1
  <2>3. k \in Nat /\ n \in Nat
    OBVIOUS
  <2> QED BY <2>2, <2>3
<1> QED BY <1>6

\* Recent drops from the front what is too old, and nothing else.
LEMMA RecentIs ==
  ASSUME NEW x \in Senders, events[x] \in Seq(Nat), now \in Nat
  PROVE  \E n \in 0..Len(events[x]) :
           /\ \A i \in 1..n : now - events[x][i] > Window
           /\ n < Len(events[x]) => now - events[x][n + 1] <= Window
           /\ Recent(x) = SubSeq(events[x], n + 1, Len(events[x]))
<1> DEFINE e == events[x]
           old == {n \in 0..Len(e) : \A i \in 1..n : now - e[i] > Window}
           last == CHOOSE n \in old : \A k \in old : k <= n
<1>1. Len(e) \in Nat /\ 0 \in old /\ Window \in Nat
  BY ModerationAssumption
<1>2. old \in SUBSET (0..Len(e))
  OBVIOUS
<1>3. \E n \in old : \A k \in old : k <= n
  <2> HIDE DEF old, e
  <2> QED BY <1>1, <1>2, LargestExists
<1>4. last \in old /\ \A k \in old : k <= last
  <2> HIDE DEF old
  <2> QED BY <1>3
<1>5. Recent(x) = SubSeq(e, last + 1, Len(e))
  BY DEF Recent
<1> HIDE DEF last
<1>6. ASSUME last < Len(e), now - e[last + 1] > Window PROVE FALSE
  <2>1. last \in Nat /\ \A i \in 1..last : now - e[i] > Window
    BY <1>1, <1>4
  <2>2. \A i \in 1..(last + 1) : now - e[i] > Window
    <3> SUFFICES ASSUME NEW i \in 1..(last + 1) PROVE now - e[i] > Window
      OBVIOUS
    <3>1. i \in 1..last \/ i = last + 1
      BY <2>1
    <3> QED BY <1>6, <2>1, <3>1
  <2>3. last + 1 \in 0..Len(e)
    BY <1>1, <1>6, <2>1
  <2>4. last + 1 \in old
    BY <2>2, <2>3
  <2>5. last + 1 <= last
    BY <1>4, <2>4
  <2> QED BY <2>1, <2>5
<1>7. last < Len(e) => now - e[last + 1] <= Window
  <2>1. ASSUME last < Len(e) PROVE now - e[last + 1] \in Int
    <3>1. last + 1 \in 1..Len(e)
      BY <1>1, <1>4, <2>1
    <3>2. e[last + 1] \in Nat
      BY <3>1
    <3> QED BY <3>2
  <2> QED BY <1>1, <1>6, <2>1
<1> QED BY <1>4, <1>5, <1>7

\* What is left of the events is the end of the history, and just the part
\* that lies in the window.
LEMMA RecentEnds ==
  ASSUME FloodInv, NEW x \in Senders
  PROVE  /\ Recent(x) \in Seq(Nat)
         /\ EndOf(Recent(x), checked[x], now)
         /\ \A i \in 1..Len(Recent(x)) : now - Recent(x)[i] <= Window
<1> DEFINE e == events[x]
           h == checked[x]
           r == Recent(x)
<1>1. /\ e \in Seq(Nat) /\ h \in Seq(Nat) /\ now \in Nat /\ Window \in Nat
      /\ EndOf(e, h, now) /\ InOrder(h, now)
  BY ModerationAssumption DEF FloodInv, FloodTypeOK
<1>2. PICK n \in 0..Len(e) :
        /\ \A i \in 1..n : now - e[i] > Window
        /\ n < Len(e) => now - e[n + 1] <= Window
        /\ r = SubSeq(e, n + 1, Len(e))
  BY <1>1, RecentIs
<1> HIDE DEF e, h, r
<1>3. /\ r \in Seq(Nat) /\ Len(r) = Len(e) - n
      /\ \A i \in 1..Len(r) : r[i] = e[n + i]
  BY <1>1, <1>2
<1>4. Len(e) \in Nat /\ Len(h) \in Nat /\ n \in Nat /\ Len(e) <= Len(h) /\ n <= Len(e)
  BY <1>1, <1>2 DEF EndOf
<1>5. Lost(e, h) \in Nat /\ Lost(r, h) = Lost(e, h) + n /\ Len(r) <= Len(h)
  BY <1>3, <1>4 DEF Lost
<1>6. \A i \in 1..Len(e) : e[i] = h[Lost(e, h) + i]
  BY <1>1 DEF EndOf
<1>7. ASSUME NEW i \in 1..Len(r) PROVE r[i] = h[Lost(r, h) + i]
  <2>1. n + i \in 1..Len(e) /\ r[i] = e[n + i]
    BY <1>3, <1>4
  <2>2. e[n + i] = h[Lost(e, h) + (n + i)]
    BY <1>6, <2>1
  <2>3. Lost(e, h) + (n + i) = Lost(r, h) + i
    BY <1>4, <1>5
  <2> QED BY <2>1, <2>2, <2>3
<1>8. ASSUME NEW i \in 1..Lost(r, h) PROVE now - h[i] > Window
  <2>1. CASE i \in 1..Lost(e, h)
    BY <1>1, <2>1 DEF EndOf
  <2>2. CASE i \notin 1..Lost(e, h)
    <3>1. i - Lost(e, h) \in 1..n /\ i - Lost(e, h) \in 1..Len(e)
      BY <1>4, <1>5, <2>2
    <3>2. now - e[i - Lost(e, h)] > Window
      BY <1>2, <3>1
    <3>3. e[i - Lost(e, h)] = h[Lost(e, h) + (i - Lost(e, h))]
      BY <1>6, <3>1
    <3>4. Lost(e, h) + (i - Lost(e, h)) = i
      BY <1>4, <1>5, <3>1
    <3> QED BY <3>2, <3>3, <3>4
  <2> QED BY <2>1, <2>2
<1>9. ASSUME NEW i \in 1..Len(r) PROVE now - r[i] <= Window
  <2>1. n + 1 \in 1..Len(e) /\ n + i \in 1..Len(e) /\ n < Len(e)
    BY <1>3, <1>4
  <2> DEFINE p == Lost(e, h) + (n + 1)
             q == Lost(e, h) + (n + i)
  <2>2. e[n + 1] = h[p] /\ e[n + i] = h[q]
    BY <1>6, <2>1
  <2>3. p \in 1..Len(h) /\ q \in 1..Len(h) /\ p <= q
    BY <1>3, <1>4, <1>5 DEF Lost
  <2> HIDE DEF p, q
  <2>4. h[p] <= h[q]
    BY <1>1, <2>3 DEF InOrder
  <2>5. h[p] \in Nat /\ h[q] \in Nat
    BY <1>1, <2>3
  <2>6. now - h[p] <= Window
    BY <1>2, <2>1, <2>2
  <2>7. now - h[q] <= Window
    BY <1>1, <2>4, <2>5, <2>6
  <2>8. r[i] = h[q]
    BY <1>3, <2>2
  <2> QED BY <2>7, <2>8
<1>10. EndOf(r, h, now)
  BY <1>5, <1>7, <1>8 DEF EndOf
<1> QED BY <1>3, <1>9, <1>10 DEF r, h

\* So the number of events left is the number of messages lately checked.
LEMMA RecentCounts ==
  ASSUME FloodInv, NEW x \in Senders
  PROVE  Len(Recent(x)) = Lately(x)
<1> DEFINE h == checked[x]
           r == Recent(x)
           lately == {i \in 1..Len(h) : now - h[i] <= Window}
<1>1. /\ r \in Seq(Nat) /\ EndOf(r, h, now)
      /\ \A i \in 1..Len(r) : now - r[i] <= Window
  BY RecentEnds
<1>2. h \in Seq(Nat) /\ now \in Nat /\ Window \in Nat
  BY ModerationAssumption DEF FloodInv, FloodTypeOK
<1>3. Lately(x) = Cardinality(lately)
  BY DEF Lately
<1> HIDE DEF r, h
<1>4. Len(h) \in Nat /\ Len(r) \in Nat /\ Len(r) <= Len(h) /\ Lost(r, h) = Len(h) - Len(r)
  BY <1>1, <1>2 DEF EndOf, Lost
<1>5. ASSUME NEW i \in 1..Len(h) PROVE now - h[i] <= Window <=> i > Len(h) - Len(r)
  <2>1. CASE i > Len(h) - Len(r)
    <3> DEFINE k == i - Lost(r, h)
    <3>1. k \in 1..Len(r) /\ Lost(r, h) + k = i
      BY <1>4, <2>1
    <3> HIDE DEF k
    <3>2. r[k] = h[Lost(r, h) + k]
      BY <1>1, <3>1 DEF EndOf
    <3>3. now - r[k] <= Window
      BY <1>1, <3>1
    <3> QED BY <2>1, <3>1, <3>2, <3>3
  <2>2. CASE ~(i > Len(h) - Len(r))
    <3>1. i \in 1..Lost(r, h)
      BY <1>4, <2>2
    <3>2. now - h[i] > Window
      BY <1>1, <3>1 DEF EndOf
    <3>3. h[i] \in Nat
      BY <1>2
    <3> QED BY <1>2, <2>2, <3>2, <3>3
  <2> QED BY <2>1, <2>2
<1>6. lately = (Len(h) - Len(r) + 1)..Len(h)
  <2> DEFINE low == Len(h) - Len(r) + 1
  <2>1. low \in Nat /\ low >= 1
    BY <1>4
  <2>2. \A i \in Int : i >= low <=> i > Len(h) - Len(r)
    BY <1>4
  <2> HIDE DEF low
  <2>3. ASSUME NEW i \in lately PROVE i \in low..Len(h)
    BY <1>4, <1>5, <2>1, <2>2
  <2>4. ASSUME NEW i \in low..Len(h) PROVE i \in lately
    <3>1. i \in 1..Len(h) /\ i > Len(h) - Len(r)
      BY <1>4, <2>1, <2>2
    <3> QED BY <1>5, <3>1
  <2>5. lately = low..Len(h)
    <3> HIDE DEF lately
    <3> QED BY <2>3, <2>4
  <2> QED BY <2>5 DEF low
<1> HIDE DEF lately
<1>7. Cardinality(lately) = Len(r)
  <2> DEFINE low == Len(h) - Len(r) + 1
  <2>1. low \in Int /\ Len(h) \in Int
    BY <1>4
  <2>2. low > Len(h) <=> Len(r) = 0
    BY <1>4
  <2>3. Len(h) - low + 1 = Len(r)
    BY <1>4
  <2>4. lately = low..Len(h)
    BY <1>6
  <2> HIDE DEF low
  <2>5. Cardinality(lately) = IF low > Len(h) THEN 0 ELSE Len(h) - low + 1
    BY <2>1, <2>4, FS_Interval
  <2> QED BY <2>2, <2>3, <2>5
<1> QED BY <1>3, <1>7 DEF r

\* The history and its end grow together, and grow older together.
LEMMA EndGrows ==
  ASSUME NEW e \in Seq(Nat), NEW h \in Seq(Nat), NEW t \in Nat, EndOf(e, h, t), InOrder(h, t)
  PROVE  EndOf(Append(e, t), Append(h, t), t) /\ InOrder(Append(h, t), t)
<1> DEFINE e2 == Append(e, t)
           h2 == Append(h, t)
<1>1. /\ Len(e) \in Nat /\ Len(h) \in Nat /\ Len(e) <= Len(h)
      /\ \A i \in 1..Len(e) : e[i] = h[Lost(e, h) + i]
      /\ \A i \in 1..Lost(e, h) : t - h[i] > Window
  BY DEF EndOf
<1>2. /\ Len(e2) = Len(e) + 1 /\ Len(h2) = Len(h) + 1
      /\ \A i \in 1..Len(e) : e2[i] = e[i]
      /\ \A i \in 1..Len(h) : h2[i] = h[i]
      /\ e2[Len(e) + 1] = t /\ h2[Len(h) + 1] = t
  OBVIOUS
<1>3. \A i \in 1..Len(h) : h[i] \in Nat
  OBVIOUS
<1> HIDE DEF e2, h2
<1>4. Lost(e2, h2) = Lost(e, h) /\ Lost(e, h) \in Nat /\ Lost(e, h) <= Len(h)
  BY <1>1, <1>2 DEF Lost
<1>5. ASSUME NEW i \in 1..Len(e2) PROVE e2[i] = h2[Lost(e2, h2) + i]
  <2>1. CASE i = Len(e) + 1
    <3>1. Lost(e, h) + i = Len(h) + 1
      BY <1>1, <2>1 DEF Lost
    <3> QED BY <1>2, <1>4, <2>1, <3>1
  <2>2. CASE i # Len(e) + 1
    <3>1. i \in 1..Len(e) /\ Lost(e, h) + i \in 1..Len(h)
      BY <1>1, <1>2, <2>2 DEF Lost
    <3> QED BY <1>1, <1>2, <1>4, <3>1
  <2> QED BY <2>1, <2>2
<1>6. ASSUME NEW i \in 1..Lost(e2, h2) PROVE t - h2[i] > Window
  <2>1. i \in 1..Lost(e, h) /\ i \in 1..Len(h)
    BY <1>1, <1>4
  <2> QED BY <1>1, <1>2, <2>1
<1>7. EndOf(e2, h2, t)
  BY <1>1, <1>2, <1>5, <1>6 DEF EndOf
<1>8. ASSUME NEW i \in 1..Len(h2) PROVE h2[i] <= t
  <2>1. CASE i = Len(h) + 1
    BY <1>2, <2>1
  <2>2. CASE i # Len(h) + 1
    <3>1. i \in 1..Len(h)
      BY <1>1, <1>2, <2>2
    <3> QED BY <1>2, <3>1 DEF InOrder
  <2> QED BY <2>1, <2>2
<1>9. ASSUME NEW i \in 1..Len(h2), NEW j \in 1..Len(h2), i <= j PROVE h2[i] <= h2[j]
  <2>1. CASE j = Len(h) + 1
    BY <1>2, <1>8, <2>1
  <2>2. CASE j # Len(h) + 1
    <3>1. i \in 1..Len(h) /\ j \in 1..Len(h)
      BY <1>1, <1>2, <1>9, <2>2
    <3> QED BY <1>2, <1>9, <3>1 DEF InOrder
  <2> QED BY <2>1, <2>2
<1> QED BY <1>7, <1>8, <1>9 DEF InOrder, e2, h2

LEMMA EndAges ==
  ASSUME NEW e \in Seq(Nat), NEW h \in Seq(Nat), NEW t \in Nat, EndOf(e, h, t), InOrder(h, t),
         NEW u \in Nat, u >= t
  PROVE  EndOf(e, h, u) /\ InOrder(h, u)
<1>1. Window \in Nat /\ Len(e) \in Nat /\ Len(h) \in Nat
  BY ModerationAssumption
<1>2. \A i \in 1..Len(h) : h[i] \in Nat
  OBVIOUS
<1>3. ASSUME NEW i \in 1..Lost(e, h) PROVE u - h[i] > Window
  <2>1. t - h[i] > Window
    BY DEF EndOf
  <2>2. i \in 1..Len(h)
    BY <1>1 DEF Lost
  <2> QED BY <1>1, <1>2, <2>1, <2>2
<1>4. ASSUME NEW i \in 1..Len(h) PROVE h[i] <= u
  BY <1>2 DEF InOrder
<1>5. EndOf(e, h, u)
  BY <1>3 DEF EndOf
<1>6. InOrder(h, u)
  BY <1>4 DEF InOrder
<1> QED BY <1>5, <1>6

\* What handling a message does to the events: nothing, or it notes it.
LEMMA TakeNotes ==
  ASSUME NEW w \in Workers, NEW m \in Messages, Take(w, m)
  PROVE  \/ UNCHANGED <<events, checked>>
         \/ /\ FloodLooks(m)
            /\ events' = [events EXCEPT ![m.from] = Append(Recent(m.from), now)]
            /\ checked' = [checked EXCEPT ![m.from] = Append(@, now)]
<1>1. Noted(m) \/ UNCHANGED <<events, checked>>
  BY DEF Take, Raised, ByLink, ByFlood, ByWord, ByCommand, Passes
<1>2. CASE FloodLooks(m)
  BY <1>1, <1>2 DEF Noted
<1>3. CASE ~FloodLooks(m)
  BY <1>1, <1>3 DEF Noted
<1> QED BY <1>2, <1>3

LEMMA FloodStep == FloodInv /\ [ModNext]_modVars => FloodInv'
<1> SUFFICES ASSUME FloodInv, [ModNext]_modVars PROVE FloodInv'
  OBVIOUS
<1>1. /\ now \in Nat /\ events \in [Senders -> Seq(Nat)] /\ checked \in [Senders -> Seq(Nat)]
      /\ \A x \in Senders : EndOf(events[x], checked[x], now) /\ InOrder(checked[x], now)
  BY DEF FloodInv, FloodTypeOK
<1>2. ASSUME UNCHANGED <<now, events, checked>> PROVE FloodInv'
  BY <1>1, <1>2 DEF FloodInv, FloodTypeOK
<1>3. ASSUME NEW w \in Workers, NEW m \in Messages, Take(w, m) PROVE FloodInv'
  <2>1. now' = now
    BY <1>3 DEF Take
  <2>2. CASE UNCHANGED <<events, checked>>
    BY <1>2, <2>1, <2>2
  <2>3. CASE /\ FloodLooks(m)
             /\ events' = [events EXCEPT ![m.from] = Append(Recent(m.from), now)]
             /\ checked' = [checked EXCEPT ![m.from] = Append(@, now)]
    <3> DEFINE s == m.from
               r == Recent(s)
               h == checked[s]
    <3>1. s \in Senders
      BY <2>3, ModerationAssumption DEF FloodLooks, MessageType
    <3>2. r \in Seq(Nat) /\ EndOf(r, h, now) /\ h \in Seq(Nat) /\ InOrder(h, now)
      BY <1>1, <3>1, RecentEnds
    <3>3. \A x \in Senders :
            /\ events'[x] = IF x = s THEN Append(r, now) ELSE events[x]
            /\ checked'[x] = IF x = s THEN Append(h, now) ELSE checked[x]
      BY <1>1, <2>3
    <3>4. /\ events' = [events EXCEPT ![s] = Append(r, now)]
          /\ checked' = [checked EXCEPT ![s] = Append(h, now)]
      BY <1>1, <2>3
    <3> HIDE DEF s, r, h
    <3>5. Append(r, now) \in Seq(Nat) /\ Append(h, now) \in Seq(Nat)
      BY <1>1, <3>2
    <3>6. events' \in [Senders -> Seq(Nat)] /\ checked' \in [Senders -> Seq(Nat)]
      BY <1>1, <3>1, <3>4, <3>5
    <3>7. EndOf(Append(r, now), Append(h, now), now) /\ InOrder(Append(h, now), now)
      BY <1>1, <3>2, EndGrows
    <3>8. \A x \in Senders : EndOf(events'[x], checked'[x], now') /\ InOrder(checked'[x], now')
      BY <1>1, <2>1, <3>3, <3>7
    <3> QED BY <1>1, <2>1, <3>6, <3>8 DEF FloodInv, FloodTypeOK
  <2> QED BY <1>3, <2>2, <2>3, TakeNotes
<1>4. CASE Crash
  <2>1. /\ now' = now
        /\ events' = [x \in Senders |-> << >>] /\ checked' = [x \in Senders |-> << >>]
    BY <1>4 DEF Crash
  <2>2. EndOf(<< >>, << >>, now) /\ InOrder(<< >>, now)
    BY <1>1 DEF EndOf, InOrder, Lost
  <2> QED BY <1>1, <2>1, <2>2 DEF FloodInv, FloodTypeOK
<1>5. CASE ModPause
  <2>1. now' = now + 1 /\ events' = events /\ checked' = checked
    BY <1>5 DEF ModPause, Tick
  <2>2. \A x \in Senders : EndOf(events[x], checked[x], now + 1) /\ InOrder(checked[x], now + 1)
    <3>1. now + 1 \in Nat /\ now + 1 >= now
      BY <1>1
    <3> QED BY <1>1, <3>1, EndAges
  <2> QED BY <1>1, <2>1, <2>2 DEF FloodInv, FloodTypeOK
<1>6. ASSUME NEW w \in Workers, Acts(w) PROVE FloodInv'
  <2>1. UNCHANGED <<now, events, checked>>
    BY <1>6 DEF Acts, Delete, Ban, Report, BanCommand, Answered
  <2> QED BY <1>2, <2>1
<1>7. CASE (\E m \in Messages : Send(m)) \/ UNCHANGED modVars
  <2>1. UNCHANGED <<now, events, checked>>
    BY <1>7 DEF Send, modVars
  <2> QED BY <1>2, <2>1
<1> QED BY <1>3, <1>4, <1>5, <1>6, <1>7 DEF ModNext, Works, Acts

LEMMA FloodInvariant == ModSpec => []FloodInv
<1>1. ModInit => FloodInv
  <2> SUFFICES ASSUME ModInit PROVE FloodInv
    OBVIOUS
  <2>1. /\ now = 0
        /\ events = [x \in Senders |-> << >>] /\ checked = [x \in Senders |-> << >>]
    BY DEF ModInit, ClockInit
  <2>2. EndOf(<< >>, << >>, 0) /\ InOrder(<< >>, 0)
    BY DEF EndOf, InOrder, Lost
  <2> QED BY <2>1, <2>2 DEF FloodInv, FloodTypeOK
<1> QED BY <1>1, FloodStep, PTL DEF ModSpec

\* The step in which the plugins come to a message, and how the flood check
\* decided it.
LEMMA JudgedBy ==
  ASSUME JobsInv, [ModNext]_modVars, NEW m \in Messages, Decided(m)
  PROVE  /\ m \in queued
         /\ verdict'[m] = "flood" => FloodHit(m)
         /\ ~LinkHit(m) /\ FloodHit(m) => verdict'[m] = "flood"
<1>1. JobsTypeOK /\ OneJudge
  BY DEF JobsInv
<1>2. PICK w \in Workers, k \in Messages : Take(w, k)
  <2>1. verdict' # verdict
    BY DEF Decided
  <2>2. ASSUME NEW w \in Workers, Acts(w) PROVE FALSE
    BY <2>1, <2>2, ActsExpanded
  <2>3. ~Crash /\ ~ModPause /\ ~UNCHANGED modVars /\ \A k \in Messages : ~Send(k)
    BY <2>1 DEF Crash, ModPause, modVars, Send
  <2> QED BY <2>2, <2>3 DEF ModNext, Works, Acts
<1>3. PICK v : verdict' = [verdict EXCEPT ![k] = v]
  BY <1>1, <1>2, TakeExpanded
<1>4. k = m /\ verdict'[m] = v
  BY <1>1, <1>3 DEF Decided, JobsTypeOK
<1>5. ~Raised(w, m)
  <2>1. Raised(w, m) => verdict'[m] = "error"
    BY <1>1 DEF Raised, Judged, JobsTypeOK
  <2> QED BY <2>1 DEF Decided
<1>6. CASE ByLink(w, m)
  BY <1>1, <1>2, <1>4, <1>6 DEF ByLink, Judged, JobsTypeOK, Take
<1>7. CASE ByFlood(w, m)
  BY <1>1, <1>2, <1>4, <1>7 DEF ByFlood, Judged, JobsTypeOK, Take
<1>8. CASE ByWord(w, m)
  BY <1>1, <1>2, <1>4, <1>8 DEF ByWord, Judged, JobsTypeOK, Take
<1>9. CASE ByCommand(w, m)
  <2>1. ~FloodHit(m)
    BY <1>9 DEF ByCommand, Clean
  <2>2. verdict'[m] \in {"refused", "command"}
    BY <1>1, <1>9 DEF ByCommand, Judged, JobsTypeOK
  <2> QED BY <1>2, <1>4, <2>1, <2>2 DEF Take
<1>10. CASE Passes(w, m)
  <2>1. ~FloodHit(m)
    BY <1>10 DEF Passes, Clean
  <2>2. verdict'[m] = "passed"
    BY <1>1, <1>10 DEF Passes, Judged, JobsTypeOK
  <2> QED BY <1>2, <1>4, <2>1, <2>2 DEF Take
<1> QED BY <1>2, <1>4, <1>5, <1>6, <1>7, <1>8, <1>9, <1>10 DEF Take

\* The flood plugin acts if and only if the messages of the sender that came
\* to its check in the last Window ticks, this one included, are more than
\* the limit (AntiFloodPlugin in anti_flood.py): what its deque has forgotten
\* does not count any more, and what does count is still there.
THEOREM FloodCheckIsExact == ModSpec => FloodExact
<1> DEFINE Exact ==
      \A m \in Messages : Decided(m) /\ FloodLooks(m) /\ ~LinkHit(m) =>
        (verdict'[m] = "flood" <=> Lately(m.from) + 1 > FloodLimit)
<1>1. JobsInv /\ FloodInv /\ [ModNext]_modVars => Exact
  <2> SUFFICES ASSUME JobsInv, FloodInv, [ModNext]_modVars, NEW m \in Messages,
                      Decided(m), FloodLooks(m), ~LinkHit(m)
               PROVE  verdict'[m] = "flood" <=> Lately(m.from) + 1 > FloodLimit
    OBVIOUS
  <2>1. m.from \in Senders
    BY ModerationAssumption DEF FloodLooks, MessageType
  <2>2. Len(Recent(m.from)) = Lately(m.from)
    BY <2>1, RecentCounts
  <2>3. FloodHit(m) <=> Lately(m.from) + 1 > FloodLimit
    BY <2>2 DEF FloodHit
  <2> QED BY <2>3, JudgedBy
<1>2. ModSpec => [][Exact]_modVars
  BY <1>1, JobsInvariant, FloodInvariant, PTL DEF ModSpec
<1> QED BY <1>2 DEF FloodExact

-----------------------------------------------------------------------------
(* A flood was sent as one                                                  *)

\* The messages of a sender that the plugins have come to.
Came(x) == {k \in DOMAIN sent \ queued : k.from = x}

\* The times of h belong to different messages of S, which at says to have
\* been sent at most MaxWait before.
Behind(h, S, at) ==
  \E f \in Injection(1..Len(h), S) : \A i \in 1..Len(h) : h[i] - at[f[i]] <= MaxWait

SentInv ==
  /\ IsFiniteSet(DOMAIN sent)
  /\ \A m \in DOMAIN sent : sent[m] \in Nat
  /\ \A m \in queued : m \in DOMAIN sent /\ now - sent[m] <= MaxWait
  /\ \A x \in Senders : Behind(checked[x], Came(x), sent)

LEMMA BehindGrows ==
  ASSUME NEW h \in Seq(Nat), NEW t \in Nat, NEW S, NEW at, Behind(h, S, at),
         NEW m, m \notin S, t - at[m] <= MaxWait
  PROVE  Behind(Append(h, t), S \cup {m}, at)
<1>1. PICK f \in Injection(1..Len(h), S) : \A i \in 1..Len(h) : h[i] - at[f[i]] <= MaxWait
  BY DEF Behind
<1> DEFINE h2 == Append(h, t)
           g  == [i \in 1..Len(h2) |-> IF i = Len(h2) THEN m ELSE f[i]]
<1>2. /\ Len(h) \in Nat /\ Len(h2) = Len(h) + 1 /\ h2[Len(h2)] = t
      /\ \A i \in 1..Len(h) : h2[i] = h[i]
  OBVIOUS
<1>3. /\ \A i \in 1..Len(h) : f[i] \in S
      /\ \A i, j \in 1..Len(h) : f[i] = f[j] => i = j
  BY <1>1 DEF Injection, IsInjective
<1> HIDE DEF h2
<1>4. \A i \in 1..Len(h2) : i = Len(h2) \/ (i \in 1..Len(h) /\ i # Len(h2))
  BY <1>2
<1>5. \A i \in 1..Len(h2) : g[i] = IF i = Len(h2) THEN m ELSE f[i]
  OBVIOUS
<1>6. g \in [1..Len(h2) -> S \cup {m}]
  BY <1>3, <1>4
<1> HIDE DEF g
<1>7. \A i, j \in 1..Len(h2) : g[i] = g[j] => i = j
  <2> SUFFICES ASSUME NEW i \in 1..Len(h2), NEW j \in 1..Len(h2), g[i] = g[j] PROVE i = j
    OBVIOUS
  <2> QED BY <1>3, <1>4, <1>5
<1>8. g \in Injection(1..Len(h2), S \cup {m})
  BY <1>6, <1>7 DEF Injection, IsInjective
<1>9. \A i \in 1..Len(h2) : h2[i] - at[g[i]] <= MaxWait
  <2> SUFFICES ASSUME NEW i \in 1..Len(h2) PROVE h2[i] - at[g[i]] <= MaxWait
    OBVIOUS
  <2>1. CASE i = Len(h2)
    BY <1>2, <1>5, <2>1
  <2>2. CASE i # Len(h2)
    <3>1. i \in 1..Len(h) /\ g[i] = f[i] /\ h2[i] = h[i]
      BY <1>2, <1>4, <1>5, <2>2
    <3> QED BY <1>1, <3>1
  <2> QED BY <2>1, <2>2
<1>10. Behind(h2, S \cup {m}, at)
  BY <1>8, <1>9 DEF Behind
<1> QED BY <1>10 DEF h2

\* More messages, and times that agree on the old ones, change nothing.
LEMMA BehindStays ==
  ASSUME NEW h, NEW S, NEW at, Behind(h, S, at), NEW T, S \subseteq T,
         NEW to, \A k \in S : to[k] = at[k]
  PROVE  Behind(h, T, to)
<1>1. PICK f \in Injection(1..Len(h), S) : \A i \in 1..Len(h) : h[i] - at[f[i]] <= MaxWait
  BY DEF Behind
<1>2. \A i \in 1..Len(h) : f[i] \in S
  BY <1>1 DEF Injection
<1>3. f \in Injection(1..Len(h), T)
  BY <1>1, <1>2 DEF Injection, IsInjective
<1> QED BY <1>1, <1>2, <1>3 DEF Behind

LEMMA SentStep == JobsInv /\ FloodInv /\ SentInv /\ [ModNext]_modVars => SentInv'
<1> SUFFICES ASSUME JobsInv, FloodInv, SentInv, [ModNext]_modVars PROVE SentInv'
  OBVIOUS
<1>1. /\ now \in Nat /\ checked \in [Senders -> Seq(Nat)]
      /\ IsFiniteSet(DOMAIN sent) /\ \A m \in DOMAIN sent : sent[m] \in Nat
      /\ \A m \in queued : m \in DOMAIN sent /\ now - sent[m] <= MaxWait
      /\ \A x \in Senders : Behind(checked[x], Came(x), sent)
  BY DEF FloodInv, FloodTypeOK, SentInv
<1>2. MaxWait \in Nat /\ queued \subseteq Messages /\ queued \subseteq DOMAIN sent
  BY ModerationAssumption DEF JobsInv, JobsTypeOK, OneJudge
<1>3. ASSUME now' = now, UNCHANGED <<queued, sent, checked>> PROVE SentInv'
  BY <1>1, <1>3 DEF SentInv, Came
<1>4. ASSUME NEW w \in Workers, NEW m \in Messages, Take(w, m) PROVE SentInv'
  <2>1. now' = now /\ sent' = sent /\ m \in queued /\ queued' = queued \ {m}
    BY <1>4 DEF Take
  <2>2. ASSUME NEW x \in Senders PROVE Behind(checked'[x], Came(x)', sent)
    <3> DEFINE S == Came(x)
               T == Came(x)'
    <3>1. /\ S \subseteq T /\ m \notin S
          /\ m.from = x => T = S \cup {m}
      BY <1>2, <2>1 DEF Came
    <3>2. Behind(checked[x], S, sent)
      BY <1>1
    <3> HIDE DEF S, T
    <3>3. CASE checked'[x] = checked[x]
      <4>1. Behind(checked[x], T, sent)
        BY <3>1, <3>2, BehindStays
      <4> QED BY <3>3, <4>1 DEF T
    <3>4. CASE checked'[x] # checked[x]
      <4>1. checked' = [checked EXCEPT ![m.from] = Append(@, now)]
        BY <1>4, <3>4, TakeNotes
      <4>2. m.from = x /\ checked'[x] = Append(checked[x], now)
        BY <1>1, <3>4, <4>1
      <4>3. checked[x] \in Seq(Nat) /\ now - sent[m] <= MaxWait
        BY <1>1, <2>1
      <4>4. Behind(Append(checked[x], now), S \cup {m}, sent)
        BY <1>1, <3>1, <3>2, <4>3, BehindGrows
      <4>5. T = S \cup {m}
        BY <3>1, <4>2
      <4> QED BY <4>2, <4>4, <4>5 DEF T
    <3> QED BY <3>3, <3>4
  <2> QED BY <1>1, <2>1, <2>2 DEF SentInv
<1>5. ASSUME NEW m \in Messages, Send(m) PROVE SentInv'
  <2>1. /\ m \notin DOMAIN sent /\ DOMAIN sent' = DOMAIN sent \cup {m}
        /\ queued' = queued \cup {m} /\ now' = now /\ checked' = checked
    BY <1>5, SendExpanded
  <2>2. sent'[m] = now /\ \A k \in DOMAIN sent : sent'[k] = sent[k]
    BY <1>5 DEF Send
  <2>3. IsFiniteSet(DOMAIN sent \cup {m})
    BY <1>1, FS_AddElement
  <2>4. ASSUME NEW x \in Senders PROVE Behind(checked[x], Came(x)', sent')
    <3> DEFINE S == Came(x)
               T == Came(x)'
    <3>1. S \subseteq T /\ \A k \in S : sent'[k] = sent[k]
      BY <1>2, <2>1, <2>2 DEF Came
    <3>2. Behind(checked[x], S, sent)
      BY <1>1
    <3> HIDE DEF S, T
    <3>3. Behind(checked[x], T, sent')
      BY <3>1, <3>2, BehindStays
    <3> QED BY <3>3 DEF T
  <2>5. \A k \in DOMAIN sent' : sent'[k] \in Nat
    BY <1>1, <2>1, <2>2
  <2>6. ASSUME NEW k \in queued' PROVE k \in DOMAIN sent' /\ now - sent'[k] <= MaxWait
    <3>1. CASE k = m
      BY <1>1, <1>2, <2>1, <2>2, <3>1
    <3>2. CASE k # m
      BY <1>1, <2>1, <2>2, <3>2
    <3> QED BY <3>1, <3>2
  <2> QED BY <2>1, <2>3, <2>4, <2>5, <2>6 DEF SentInv
<1>6. CASE Crash
  <2>1. /\ now' = now /\ sent' = sent /\ queued' = {}
        /\ checked' = [x \in Senders |-> << >>]
    BY <1>6 DEF Crash
  <2>2. ASSUME NEW S PROVE Behind(<< >>, S, sent)
    <3> DEFINE f == [i \in 1..0 |-> i]
    <3>1. f \in Injection(1..0, S)
      BY DEF Injection, IsInjective
    <3> HIDE DEF f
    <3>2. Len(<< >>) = 0 /\ \A i \in 1..0 : FALSE
      OBVIOUS
    <3>3. \E g \in Injection(1..Len(<< >>), S) :
             \A i \in 1..Len(<< >>) : << >>[i] - sent[g[i]] <= MaxWait
      BY <3>1, <3>2
    <3> QED BY <3>3 DEF Behind
  <2>3. \A x \in Senders : Behind(checked'[x], Came(x)', sent')
    BY <2>1, <2>2
  <2> QED BY <1>1, <2>1, <2>3 DEF SentInv
<1>7. CASE ModPause
  <2>1. /\ now' = now + 1 /\ UNCHANGED <<queued, sent, checked>>
        /\ \A m \in queued : now - sent[m] < MaxWait
    BY <1>7 DEF ModPause, Tick
  <2>2. \A m \in queued : m \in DOMAIN sent /\ now + 1 - sent[m] <= MaxWait
    BY <1>1, <1>2, <2>1
  <2> QED BY <1>1, <2>1, <2>2 DEF SentInv, Came
<1>8. ASSUME NEW w \in Workers, Acts(w) PROVE SentInv'
  <2>1. UNCHANGED <<now, queued, sent, checked>>
    BY <1>8, ActsExpanded
  <2> QED BY <1>3, <2>1
<1>9. CASE UNCHANGED modVars
  BY <1>3, <1>9 DEF modVars
<1> QED BY <1>4, <1>5, <1>6, <1>7, <1>8, <1>9 DEF ModNext, Works, Acts

LEMMA SentInvariant == ModSpec => []SentInv
<1>1. ModInit => SentInv
  <2> SUFFICES ASSUME ModInit PROVE SentInv
    OBVIOUS
  <2>1. /\ sent = [m \in {} |-> 0] /\ queued = {}
        /\ checked = [x \in Senders |-> << >>]
    BY DEF ModInit
  <2>2. DOMAIN sent = {} /\ IsFiniteSet({})
    BY <2>1, FS_EmptySet
  <2>3. ASSUME NEW S PROVE Behind(<< >>, S, sent)
    <3> DEFINE f == [i \in 1..0 |-> i]
    <3>1. f \in Injection(1..0, S)
      BY DEF Injection, IsInjective
    <3> HIDE DEF f
    <3>2. Len(<< >>) = 0 /\ \A i \in 1..0 : FALSE
      OBVIOUS
    <3>3. \E g \in Injection(1..Len(<< >>), S) :
             \A i \in 1..Len(<< >>) : << >>[i] - sent[g[i]] <= MaxWait
      BY <3>1, <3>2
    <3> QED BY <3>3 DEF Behind
  <2> QED BY <2>1, <2>2, <2>3 DEF SentInv
<1> QED BY <1>1, SentStep, JobsInvariant, FloodInvariant, PTL DEF ModSpec

\* The check is made when a message is handled, not when it was sent, but if
\* no message waits in the queue for longer than MaxWait, a sender judged a
\* flood did send more messages than the limit within Window + MaxWait.
THEOREM FloodsWereSent == ModSpec => FloodWasSent
<1> DEFINE Crowded ==
      \A m \in Messages : Decided(m) /\ verdict'[m] = "flood" =>
        Cardinality({k \in DOMAIN sent : k.from = m.from /\ now - sent[k] <= Window + MaxWait})
          > FloodLimit
<1>1. JobsInv /\ FloodInv /\ SentInv /\ [ModNext]_modVars => Crowded
  <2> SUFFICES ASSUME JobsInv, FloodInv, SentInv, [ModNext]_modVars, NEW m \in Messages,
                      Decided(m), verdict'[m] = "flood"
               PROVE  Cardinality({k \in DOMAIN sent :
                                     k.from = m.from /\ now - sent[k] <= Window + MaxWait})
                        > FloodLimit
    OBVIOUS
  <2> DEFINE x == m.from
             r == Recent(x)
             h == checked[x]
             crowd == {k \in DOMAIN sent : k.from = x /\ now - sent[k] <= Window + MaxWait}
  <2>1. m \in queued /\ FloodHit(m)
    BY JudgedBy
  <2>2. x \in Senders /\ Len(r) + 1 > FloodLimit
    BY <2>1, ModerationAssumption DEF FloodHit, FloodLooks, MessageType
  <2>3. /\ r \in Seq(Nat) /\ EndOf(r, h, now)
        /\ \A i \in 1..Len(r) : now - r[i] <= Window
    BY <2>2, RecentEnds
  <2>4. /\ h \in Seq(Nat) /\ now \in Nat /\ Window \in Nat /\ MaxWait \in Nat /\ FloodLimit \in Nat
        /\ IsFiniteSet(DOMAIN sent) /\ \A k \in DOMAIN sent : sent[k] \in Nat
        /\ m \in DOMAIN sent /\ now - sent[m] <= MaxWait
        /\ Behind(h, Came(x), sent)
    BY <2>1, <2>2, ModerationAssumption DEF FloodInv, FloodTypeOK, SentInv
  <2>5. PICK f \in Injection(1..Len(h), Came(x)) :
          \A i \in 1..Len(h) : h[i] - sent[f[i]] <= MaxWait
    BY <2>4 DEF Behind
  <2>6. /\ \A i \in 1..Len(h) : f[i] \in DOMAIN sent \ queued /\ f[i].from = x
        /\ \A i, j \in 1..Len(h) : f[i] = f[j] => i = j
    BY <2>5 DEF Injection, IsInjective, Came
  <2>7. m \in crowd
    BY <2>4
  <2> DEFINE last == Len(r) + 1
             place(i) == Lost(r, h) + i
             g == [i \in 1..last |-> IF i = last THEN m ELSE f[place(i)]]
  <2>8. IsFiniteSet(crowd)
    BY <2>4, FS_Subset
  <2> HIDE DEF r, h
  <2>9. last \in Nat /\ \A i \in 1..last : i = last \/ (i \in 1..Len(r) /\ place(i) \in 1..Len(h))
    <3>1. Len(r) \in Nat /\ Len(h) \in Nat /\ Len(r) <= Len(h) /\ Lost(r, h) = Len(h) - Len(r)
      BY <2>3, <2>4 DEF EndOf, Lost
    <3>2. Lost(r, h) \in Nat
      BY <3>1
    <3> QED BY <3>1, <3>2
  <2>10. ASSUME NEW i \in 1..Len(r), place(i) \in 1..Len(h) PROVE f[place(i)] \in crowd
    <3>1. r[i] = h[place(i)] /\ now - r[i] <= Window
      BY <2>3 DEF EndOf
    <3>2. h[place(i)] - sent[f[place(i)]] <= MaxWait
      BY <2>5, <2>10
    <3>3. f[place(i)] \in DOMAIN sent /\ f[place(i)].from = x
      BY <2>6, <2>10
    <3>4. h[place(i)] \in Nat /\ sent[f[place(i)]] \in Nat
      BY <2>4, <2>10, <3>3
    <3> DEFINE checkedAt == h[place(i)]
               sentAt    == sent[f[place(i)]]
    <3>5. now - checkedAt <= Window /\ checkedAt - sentAt <= MaxWait
      BY <3>1, <3>2
    <3>6. checkedAt \in Nat /\ sentAt \in Nat
      BY <3>4
    <3> HIDE DEF checkedAt, sentAt
    <3>7. now - sentAt <= Window + MaxWait
      BY <2>4, <3>5, <3>6
    <3> QED BY <3>3, <3>7 DEF sentAt
  <2>11. \A i, j \in 1..Len(r) : place(i) = place(j) => i = j
    <3>1. Lost(r, h) \in Int
      BY <2>3, <2>4 DEF Lost
    <3> QED BY <3>1
  <2> HIDE DEF crowd, last, place
  <2>12. \A i \in 1..last : g[i] = IF i = last THEN m ELSE f[place(i)]
    OBVIOUS
  <2>13. g \in [1..last -> crowd]
    BY <2>7, <2>9, <2>10
  <2> HIDE DEF g
  <2>14. \A i, j \in 1..last : g[i] = g[j] => i = j
    <3> SUFFICES ASSUME NEW i \in 1..last, NEW j \in 1..last, g[i] = g[j] PROVE i = j
      OBVIOUS
    <3>1. CASE i # last /\ j # last
      <4>1. /\ i \in 1..Len(r) /\ place(i) \in 1..Len(h)
            /\ j \in 1..Len(r) /\ place(j) \in 1..Len(h)
        BY <2>9, <3>1
      <4>2. f[place(i)] = f[place(j)]
        BY <2>12, <3>1
      <4> QED BY <2>6, <2>11, <4>1, <4>2
    <3>2. CASE i = last \/ j = last
      BY <2>1, <2>6, <2>9, <2>12, <3>2
    <3> QED BY <3>1, <3>2
  <2>15. g \in Injection(1..last, crowd)
    BY <2>13, <2>14 DEF Injection, IsInjective
  <2>16. Cardinality(1..last) <= Cardinality(crowd)
    BY <2>8, <2>15, FS_Injection
  <2>17. Cardinality(1..last) = last
    <3>1. Cardinality(1..last) = IF 1 > last THEN 0 ELSE last - 1 + 1
      BY <2>9, FS_Interval
    <3> QED BY <2>9, <3>1
  <2>18. Cardinality(crowd) \in Nat
    BY <2>8, FS_CardinalityType
  <2>19. last > FloodLimit
    BY <2>2 DEF last, r
  <2>20. Cardinality(crowd) > FloodLimit
    BY <2>4, <2>9, <2>16, <2>17, <2>18, <2>19
  <2> QED BY <2>20 DEF crowd
<1>2. ModSpec => [][Crowded]_modVars
  BY <1>1, JobsInvariant, FloodInvariant, SentInvariant, PTL DEF ModSpec
<1> QED BY <1>2, PTL DEF FloodWasSent
=============================================================================
