-------------------------- MODULE WorkerPoolProofs --------------------------
(***************************************************************************)
(* The worker pool for any number of tickets, processes and waiting        *)
(* checks: its steps are steps of Triage, so all that is proved of Triage  *)
(* holds of the pool, and no message or process is ever lost or doubled.   *)
(***************************************************************************)
EXTENDS WorkerPool, OutcomeProofs, FiniteSetTheorems, SequenceTheorems

\* Ticket t has one message in the queue, one process.
OneMessage(t) == \E i \in DOMAIN queue : InQueue(t) = {i}
OneProcess(t) == \E w \in Workers : On(t) = {w}

Idle(t) == On(t) = {} /\ InQueue(t) = {} /\ t \notin delayed

\* Where the task of a ticket stands says where its one message or process is.
JobInv(t) ==
  /\ task[t].state = "queued" =>
       /\ On(t) = {}
       /\ t \in delayed => InQueue(t) = {}
       /\ t \notin delayed => OneMessage(t)
  /\ task[t].state \in {"llm", "marking"} =>
       OneProcess(t) /\ InQueue(t) = {} /\ t \notin delayed
  /\ task[t].state \notin {"queued", "llm", "marking"} => Idle(t)

\* The inductive invariant, on top of that of Triage.
PoolInv == PoolTypeOK /\ \A t \in Tickets : JobInv(t)

-----------------------------------------------------------------------------
\* The head of a queue that is not empty is a message.
LEMMA HeadIsJob ==
  ASSUME PoolTypeOK, queue # <<>>
  PROVE  /\ Head(queue) \in Jobs /\ Tail(queue) \in Seq(Jobs)
         /\ Head(queue) # Check => Head(queue) \in Tickets
BY HeadTailProperties DEF PoolTypeOK, Jobs

\* A message put in at any place leaves a queue of messages.
LEMMA InsertFacts ==
  ASSUME PoolTypeOK, NEW t \in Jobs, NEW place \in 1..(Len(queue) + 1),
         NEW longer, longer = InsertAt(queue, place, t)
  PROVE  /\ longer \in Seq(Jobs) /\ Len(longer) = Len(queue) + 1
         /\ \A i \in 1..Len(longer) :
              longer[i] = IF i < place THEN queue[i]
                          ELSE IF i = place THEN t ELSE queue[i - 1]
<1> DEFINE before == SubSeq(queue, 1, place - 1)
           after  == SubSeq(queue, place, Len(queue))
           half   == before \o <<t>>
<1>1. /\ queue \in Seq(Jobs) /\ Len(queue) \in Nat
      /\ \A i \in 1..Len(queue) : queue[i] \in Jobs
  BY LenProperties, ElementOfSeq DEF PoolTypeOK
<1>2. /\ before \in Seq(Jobs) /\ Len(before) = place - 1
      /\ \A i \in 1..(place - 1) : before[i] = queue[i]
  <2>1. \A i \in 1..(place - 1) : queue[i] \in Jobs
    BY <1>1
  <2>2. /\ before \in Seq(Jobs)
        /\ Len(before) = IF 1 <= place - 1 THEN (place - 1) - 1 + 1 ELSE 0
        /\ \A i \in 1..((place - 1) - 1 + 1) : before[i] = queue[1 + i - 1]
    BY <1>1, <2>1, SubSeqProperties
  <2> QED
    BY <1>1, <2>2
<1>3. /\ after \in Seq(Jobs) /\ Len(after) = Len(queue) - place + 1
      /\ \A i \in 1..(Len(queue) - place + 1) : after[i] = queue[place + i - 1]
  <2>1. \A i \in place..Len(queue) : queue[i] \in Jobs
    BY <1>1
  <2>2. /\ after \in Seq(Jobs)
        /\ Len(after) = IF place <= Len(queue) THEN Len(queue) - place + 1 ELSE 0
        /\ \A i \in 1..(Len(queue) - place + 1) : after[i] = queue[place + i - 1]
    BY <1>1, <2>1, SubSeqProperties
  <2> QED
    BY <1>1, <2>2
<1> HIDE DEF before, after
<1>4. /\ half \in Seq(Jobs) /\ Len(half) = place
      /\ \A i \in 1..place : half[i] = IF i < place THEN before[i] ELSE t
  <2>1. <<t>> \in Seq(Jobs) /\ Len(<<t>>) = 1 /\ <<t>>[1] = t
    OBVIOUS
  <2>2. /\ half \in Seq(Jobs) /\ Len(half) = Len(before) + Len(<<t>>)
        /\ \A i \in 1..(Len(before) + Len(<<t>>)) :
             half[i] = IF i <= Len(before) THEN before[i] ELSE <<t>>[i - Len(before)]
    BY <1>2, <2>1, ConcatProperties
  <2> HIDE DEF half
  <2>3. Len(half) = place
    BY <1>1, <1>2, <2>1, <2>2
  <2>4. \A i \in 1..place : half[i] = IF i < place THEN before[i] ELSE t
    BY <1>1, <1>2, <2>1, <2>2
  <2> QED
    BY <2>2, <2>3, <2>4
<1> HIDE DEF half
<1>5. longer = half \o after
  BY DEF InsertAt, half, before, after
<1>6. /\ longer \in Seq(Jobs) /\ Len(longer) = Len(half) + Len(after)
      /\ \A i \in 1..(Len(half) + Len(after)) :
           longer[i] = IF i <= Len(half) THEN half[i] ELSE after[i - Len(half)]
  BY <1>3, <1>4, <1>5, ConcatProperties
<1>7. Len(longer) = Len(queue) + 1
  BY <1>1, <1>3, <1>4, <1>6
<1>8. ASSUME NEW i \in 1..Len(longer)
      PROVE  longer[i] = IF i < place THEN queue[i]
                         ELSE IF i = place THEN t ELSE queue[i - 1]
  <2>1. CASE i < place
    BY <1>1, <1>2, <1>4, <1>6, <1>7, <2>1
  <2>2. CASE i = place
    BY <1>1, <1>4, <1>6, <1>7, <2>2
  <2>3. CASE i > place
    <3>1. longer[i] = after[i - place]
      BY <1>1, <1>4, <1>6, <1>7, <1>3, <2>3
    <3>2. i - place \in 1..(Len(queue) - place + 1)
      BY <1>1, <1>7, <2>3
    <3>3. after[i - place] = queue[place + (i - place) - 1]
      BY <1>3, <3>2
    <3> QED
      BY <1>1, <1>7, <2>3, <3>1, <3>3
  <2> QED
    BY <2>1, <2>2, <2>3, <1>1
<1> QED
  BY <1>6, <1>7, <1>8

LEMMA PoolTypeInit == WInit => PoolTypeOK
BY EmptySeq DEF WInit, PoolTypeOK

LEMMA PoolTypeStep == PoolTypeOK /\ [Work \/ Tick]_wvars => PoolTypeOK'
<1> SUFFICES ASSUME PoolTypeOK, [Work \/ Tick]_wvars PROVE PoolTypeOK'
  OBVIOUS
<1>1. Check \in Jobs /\ \A t \in Tickets : t \in Jobs
  BY DEF Jobs
<1>2. ASSUME NEW w \in Workers, Take(w) PROVE PoolTypeOK'
  BY <1>2, HeadIsJob DEF Take, PoolTypeOK
<1>3. ASSUME NEW w \in Workers, EndCheck(w) PROVE PoolTypeOK'
  BY <1>3 DEF EndCheck, PoolTypeOK
<1>4. ASSUME NEW w \in Workers, NEW t \in Tickets,
             EndAttempt(w, t) \/ EndMarking(w, t)
      PROVE  PoolTypeOK'
  BY <1>4 DEF EndAttempt, EndMarking, Leave, PoolTypeOK
<1>5. ASSUME NEW w \in Workers, NEW t \in Tickets, ProcessDies(w, t)
      PROVE  PoolTypeOK'
  BY <1>5 DEF ProcessDies, PoolTypeOK
<1>6. ASSUME NEW t \in Tickets, Send(t) PROVE PoolTypeOK'
  BY <1>1, <1>6, AppendProperties DEF Send, PoolTypeOK
<1>7. ASSUME NEW t \in Tickets, Ripen(t) PROVE PoolTypeOK'
  BY <1>1, <1>7, InsertFacts DEF Ripen, PoolTypeOK
<1>8. ASSUME NEW t \in Tickets, Request(t) PROVE PoolTypeOK'
  BY <1>8 DEF Request, pool, PoolTypeOK
<1>9. CASE Tick
  BY <1>1, <1>9, AppendProperties DEF Tick, PoolTypeOK
<1>10. CASE UNCHANGED wvars
  BY <1>10 DEF wvars, pool, PoolTypeOK
<1> QED
  BY <1>2, <1>3, <1>4, <1>5, <1>6, <1>7, <1>8, <1>9, <1>10 DEF Work

\* The queue, the processes and the countdowns keep their types.
THEOREM PoolTypes == WSpec => []PoolTypeOK
BY PoolTypeInit, PoolTypeStep, PTL DEF WSpec

-----------------------------------------------------------------------------
\* Every step of the pool is a step of Triage, or none of its business.
LEMMA PoolStepIsTriageStep ==
  ASSUME PoolTypeOK, [Work \/ Tick]_wvars
  PROVE  [Next]_vars
<1>1. ASSUME NEW w \in Workers, Take(w) PROVE [Next]_vars
  BY <1>1, HeadIsJob DEF Take, Next
<1>2. ASSUME NEW w \in Workers, NEW t \in Tickets,
             EndAttempt(w, t) \/ EndMarking(w, t) \/ ProcessDies(w, t)
      PROVE  Next
  BY <1>2 DEF EndAttempt, EndMarking, ProcessDies, Next
<1>3. ASSUME NEW t \in Tickets, Send(t) \/ Request(t) PROVE Next
  BY <1>3 DEF Send, Request, Next
<1>4. ASSUME Tick \/ (\E t \in Tickets : Ripen(t)) \/ (\E w \in Workers : EndCheck(w))
             \/ UNCHANGED wvars
      PROVE  UNCHANGED vars
  BY <1>4 DEF Tick, Ripen, EndCheck, wvars
<1> QED
  BY <1>1, <1>2, <1>3, <1>4 DEF Work

\* The worker pool does what Triage says a worker does: whatever is proved of
\* Spec holds of every behaviour of the pool.
THEOREM PoolRunsTriage == WSpec => Spec
<1>1. WInit => Init
  BY DEF WInit
<1>2. PoolTypeOK /\ [Work \/ Tick]_wvars => [Next]_vars
  BY PoolStepIsTriageStep
<1> QED
  BY <1>1, <1>2, PoolTypes, PTL DEF WSpec, Spec

-----------------------------------------------------------------------------
\* The queue has as many messages of t after the step as before.
Queued(t) ==
  /\ InQueue(t) = {} => InQueue(t)' = {}
  /\ OneMessage(t) => OneMessage(t)'

LEMMA SameQueue ==
  ASSUME UNCHANGED queue, NEW t
  PROVE  Queued(t)
BY DEF Queued, InQueue, OneMessage

LEMMA AppendMessage ==
  ASSUME PoolTypeOK, NEW job \in Jobs, queue' = Append(queue, job),
         NEW t \in Tickets
  PROVE  /\ t # job => Queued(t)
         /\ t = job /\ InQueue(t) = {} => OneMessage(t)'
<1>1. PICK n \in Nat : n = Len(queue) /\ DOMAIN queue = 1..n
  BY LenProperties DEF PoolTypeOK
<1>2. /\ DOMAIN queue' = 1..(n + 1)
      /\ \A i \in 1..n : queue'[i] = queue[i]
      /\ queue'[n + 1] = job
  <2>1. queue' \in Seq(Jobs) /\ Len(queue') = n + 1
    BY <1>1, AppendProperties DEF PoolTypeOK
  <2>2. DOMAIN queue' = 1..(n + 1)
    BY <2>1, LenProperties
  <2> QED
    BY <1>1, <2>2, AppendProperties DEF PoolTypeOK
<1>3. 1..(n + 1) = 1..n \cup {n + 1} /\ n + 1 \notin 1..n
  OBVIOUS
<1>4. CASE t # job
  <2>1. InQueue(t)' = InQueue(t)
    BY <1>1, <1>2, <1>3, <1>4 DEF InQueue
  <2> QED
    BY <1>1, <1>2, <1>3, <1>4, <2>1 DEF Queued, OneMessage
<1>5. CASE t = job /\ InQueue(t) = {}
  <2>1. InQueue(t)' = {n + 1}
    BY <1>1, <1>2, <1>3, <1>5 DEF InQueue
  <2> QED
    BY <1>2, <1>3, <1>5, <2>1 DEF OneMessage
<1> QED
  BY <1>4, <1>5

LEMMA TailMessage ==
  ASSUME PoolTypeOK, queue # <<>>, queue' = Tail(queue), NEW t \in Tickets
  PROVE  /\ t # Head(queue) => Queued(t)
         /\ t = Head(queue) =>
              InQueue(t) # {} /\ (OneMessage(t) => InQueue(t)' = {})
<1>1. PICK n \in Nat \ {0} : n = Len(queue) /\ DOMAIN queue = 1..n
  BY LenProperties, EmptySeq DEF PoolTypeOK
<1>2. /\ DOMAIN queue' = 1..(n - 1)
      /\ \A i \in 1..(n - 1) : queue'[i] = queue[i + 1]
  <2>1. /\ queue' \in Seq(Jobs) /\ Len(queue') = n - 1
        /\ \A i \in 1..Len(queue') : queue'[i] = queue[i + 1]
    BY <1>1, HeadTailProperties DEF PoolTypeOK
  <2>2. DOMAIN queue' = 1..Len(queue')
    BY <2>1, LenProperties
  <2> QED
    BY <2>1, <2>2
<1>3. Head(queue) = queue[1] /\ 1 \in DOMAIN queue
  BY <1>1 DEF PoolTypeOK
<1>4. \A i : i \in InQueue(t)' <=> i \in 1..(n - 1) /\ i + 1 \in InQueue(t)
  BY <1>1, <1>2 DEF InQueue
<1>5. CASE t # Head(queue)
  <2>1. 1 \notin InQueue(t) /\ InQueue(t) \subseteq 1..n
    BY <1>1, <1>3, <1>5 DEF InQueue
  <2>2. InQueue(t) = {} => InQueue(t)' = {}
    BY <1>4
  <2>3. ASSUME OneMessage(t) PROVE OneMessage(t)'
    <3>1. PICK i \in 1..n : InQueue(t) = {i}
      BY <1>1, <2>3 DEF OneMessage
    <3>2. i - 1 \in 1..(n - 1)
      BY <2>1, <3>1
    <3>3. InQueue(t)' = {i - 1}
      BY <1>4, <3>1, <3>2
    <3> QED
      BY <1>2, <3>2, <3>3 DEF OneMessage
  <2> QED
    BY <1>5, <2>2, <2>3 DEF Queued
<1>6. CASE t = Head(queue)
  <2>1. 1 \in InQueue(t)
    BY <1>3, <1>6 DEF InQueue
  <2>2. ASSUME OneMessage(t) PROVE InQueue(t)' = {}
    <3>1. InQueue(t) = {1}
      BY <2>1, <2>2 DEF OneMessage
    <3>2. \A i \in 1..(n - 1) : i + 1 # 1
      OBVIOUS
    <3> QED
      BY <1>4, <3>1, <3>2
  <2> QED
    BY <1>6, <2>1, <2>2
<1> QED
  BY <1>5, <1>6

LEMMA InsertMessage ==
  ASSUME PoolTypeOK, NEW job \in Jobs, NEW place \in 1..(Len(queue) + 1),
         queue' = InsertAt(queue, place, job), NEW t \in Tickets
  PROVE  /\ t # job => Queued(t)
         /\ t = job /\ InQueue(t) = {} => OneMessage(t)'
<1>1. PICK n \in Nat : n = Len(queue) /\ DOMAIN queue = 1..n
  BY LenProperties DEF PoolTypeOK
<1>2. /\ DOMAIN queue' = 1..(n + 1)
      /\ \A i \in 1..(n + 1) :
           queue'[i] = IF i < place THEN queue[i]
                       ELSE IF i = place THEN job ELSE queue[i - 1]
  <2>1. /\ queue' \in Seq(Jobs) /\ Len(queue') = n + 1
        /\ \A i \in 1..Len(queue') :
             queue'[i] = IF i < place THEN queue[i]
                         ELSE IF i = place THEN job ELSE queue[i - 1]
    BY <1>1, InsertFacts
  <2>2. DOMAIN queue' = 1..Len(queue')
    BY <2>1, LenProperties
  <2> QED
    BY <2>1, <2>2
<1>3. place \in 1..(n + 1)
  BY <1>1
<1>4. \A i : i \in InQueue(t)' <=>
               \/ i \in InQueue(t) /\ i < place
               \/ i = place /\ t = job
               \/ i \in 2..(n + 1) /\ i > place /\ i - 1 \in InQueue(t)
  BY <1>1, <1>2, <1>3 DEF InQueue
<1>5. CASE t # job
  <2>1. InQueue(t) = {} => InQueue(t)' = {}
    BY <1>4, <1>5
  <2>2. ASSUME OneMessage(t) PROVE OneMessage(t)'
    <3>1. PICK i \in 1..n : InQueue(t) = {i}
      BY <1>1, <2>2 DEF OneMessage
    <3>2. CASE i < place
      <4>1. \A k \in 2..(n + 1) : k > place => k - 1 # i
        BY <1>3, <3>1, <3>2
      <4>2. \A k \in 2..(n + 1) : k > place => k - 1 \notin InQueue(t)
        BY <3>1, <4>1
      <4>3. InQueue(t)' = {i}
        <5>1. \A k : k \in InQueue(t)' => k \in InQueue(t)
          BY <1>4, <1>5, <4>2
        <5>2. i \in InQueue(t)'
          BY <1>4, <3>1, <3>2
        <5> QED
          BY <3>1, <5>1, <5>2
      <4>4. i \in DOMAIN queue'
        BY <1>2
      <4> QED
        BY <4>3, <4>4 DEF OneMessage
    <3>3. CASE ~ (i < place)
      <4>1. i + 1 \in 2..(n + 1)
        BY <3>1
      <4>2. \A k \in 2..(n + 1) : k - 1 \in InQueue(t) <=> k = i + 1
        BY <3>1
      <4>3. i + 1 > place /\ ~ (i < place)
        BY <1>3, <3>1, <3>3
      <4>4. \A k : k \in InQueue(t) => ~ (k < place)
        BY <3>1, <4>3
      <4>5. InQueue(t)' = {i + 1}
        <5>1. \A k : k \in InQueue(t)' => k = i + 1
          BY <1>4, <1>5, <4>2, <4>4
        <5>2. i + 1 \in InQueue(t)'
          BY <1>4, <4>1, <4>2, <4>3
        <5> QED
          BY <5>1, <5>2
      <4>6. i + 1 \in DOMAIN queue'
        BY <1>2
      <4> QED
        BY <4>5, <4>6 DEF OneMessage
    <3> QED
      BY <3>2, <3>3
  <2> QED
    BY <1>5, <2>1, <2>2 DEF Queued
<1>6. CASE t = job /\ InQueue(t) = {}
  <2>1. InQueue(t)' = {place}
    BY <1>4, <1>6
  <2> QED
    BY <1>2, <1>3, <1>6, <2>1 DEF OneMessage
<1> QED
  BY <1>5, <1>6

\* A ticket of whose task, messages, processes and countdown a step changes
\* nothing stays accounted for.
LEMMA OtherJob ==
  ASSUME NEW t \in Tickets, JobInv(t), task'[t].state = task[t].state,
         Queued(t), On(t)' = On(t), t \in delayed' <=> t \in delayed
  PROVE  JobInv(t)'
<1>1. OneProcess(t) => OneProcess(t)'
  BY DEF OneProcess
<1> QED
  BY <1>1 DEF JobInv, Idle, Queued

\* What a process that takes up or lays down a job is to a ticket.
LEMMA WorkerMoves ==
  ASSUME PoolTypeOK, NEW w \in Workers, NEW job \in Jobs \cup {None},
         working' = [working EXCEPT ![w] = job], NEW t \in Tickets
  PROVE  /\ working[w] # t /\ job # t => On(t)' = On(t)
         /\ On(t) = {} /\ job = t => OneProcess(t)'
         /\ OneProcess(t) /\ working[w] = t /\ job # t => On(t)' = {}
<1>1. \A v \in Workers : working'[v] = IF v = w THEN job ELSE working[v]
  BY DEF PoolTypeOK
<1>2. ASSUME working[w] # t, job # t PROVE On(t)' = On(t)
  BY <1>1, <1>2 DEF On
<1>3. ASSUME On(t) = {}, job = t PROVE OneProcess(t)'
  <2>1. On(t)' = {w}
    BY <1>1, <1>3 DEF On
  <2> QED
    BY <2>1 DEF OneProcess
<1>4. ASSUME OneProcess(t), working[w] = t, job # t PROVE On(t)' = {}
  <2>1. On(t) = {w}
    BY <1>4 DEF OneProcess, On
  <2> QED
    BY <1>1, <1>4, <2>1 DEF On
<1> QED
  BY <1>2, <1>3, <1>4

-----------------------------------------------------------------------------
LEMMA InitPool == WInit => \A t \in Tickets : JobInv(t)
<1> SUFFICES ASSUME WInit, NEW t \in Tickets PROVE JobInv(t)
  OBVIOUS
<1>1. task[t].state = "none" /\ delayed = {}
  BY DEF WInit, Init, NoTask
<1>2. On(t) = {}
  BY JobsAssumption DEF WInit, On, Jobs
<1>3. InQueue(t) = {}
  BY DEF WInit, InQueue
<1> QED
  BY <1>1, <1>2, <1>3 DEF JobInv, Idle

\* What a step of Triage on one ticket does to the states of the tasks.
LEMMA TaskStates ==
  ASSUME TypeOK, NEW t \in Tickets
  PROVE  /\ StartAttempt(t) =>
              /\ task[t].state = "queued" /\ task'[t].state = "llm"
              /\ \A u \in Tickets \ {t} : task'[u] = task[u]
         /\ (\/ AttemptTimesOut(t)
             \/ \E reply \in Replies : FinishAttempt(t, reply)
                  \/ FailAfterWrite(t, reply) \/ ReplyRefused(t, reply)) =>
              /\ task[t].state = "llm"
              /\ task'[t].state \in {"ended", "queued", "marking"}
              /\ \A u \in Tickets \ {t} : task'[u] = task[u]
         /\ MarkManual(t) =>
              /\ task[t].state = "marking" /\ task'[t].state = "ended"
              /\ \A u \in Tickets \ {t} : task'[u] = task[u]
         /\ TaskDies(t) =>
              /\ task[t].state \in {"llm", "marking"} /\ task'[t].state = "lost"
              /\ \A u \in Tickets \ {t} : task'[u] = task[u]
         /\ Dispatch(t) =>
              /\ task[t].state = "unsent" /\ task'[t].state = "queued"
              /\ \A u \in Tickets \ {t} : task'[u] = task[u]
         /\ DispatchFails(t) =>
              /\ task[t].state = "unsent" /\ task'[t].state = "lost"
              /\ \A u \in Tickets \ {t} : task'[u] = task[u]
<1>1. task \in [Tickets -> TaskRow] /\ task[t] \in TaskRow
  BY DEF TypeOK
<1>2. ASSUME NEW state \in {"queued", "ended", "lost"}, Move(t, state)
      PROVE  /\ task'[t].state = state
             /\ \A u \in Tickets \ {t} : task'[u] = task[u]
  BY <1>1, <1>2 DEF Move, TaskRow
<1>3. ASSUME StartAttempt(t)
      PROVE  /\ task[t].state = "queued" /\ task'[t].state = "llm"
             /\ \A u \in Tickets \ {t} : task'[u] = task[u]
  BY <1>1, <1>3 DEF StartAttempt, TaskRow
<1>4. ASSUME NEW reply \in Replies, FinishAttempt(t, reply)
      PROVE  /\ task[t].state = "llm" /\ task'[t].state = "ended"
             /\ \A u \in Tickets \ {t} : task'[u] = task[u]
  BY <1>2, <1>4 DEF FinishAttempt, WriteResult
<1>5. ASSUME AttemptTimesOut(t) \/ \E reply \in Replies :
               FailAfterWrite(t, reply) \/ ReplyRefused(t, reply)
      PROVE  /\ task[t].state = "llm" /\ task'[t].state \in {"queued", "marking"}
             /\ \A u \in Tickets \ {t} : task'[u] = task[u]
  <2>1. task[t].state = "llm" /\ RetryOrGiveUp(t)
    BY <1>5 DEF AttemptTimesOut, FailAfterWrite, ReplyRefused, WriteResult
  <2>2. task[t].retries < MaxRetries \/ task[t].retries >= MaxRetries
    BY RowTypes DEF MaxRetries
  <2> QED
    BY <2>1, <2>2, RetryTask
<1>6. ASSUME MarkManual(t) \/ TaskDies(t) \/ Dispatch(t) \/ DispatchFails(t)
      PROVE  /\ MarkManual(t) => task[t].state = "marking" /\ task'[t].state = "ended"
             /\ TaskDies(t) => /\ task[t].state \in {"llm", "marking"}
                               /\ task'[t].state = "lost"
             /\ Dispatch(t) => task[t].state = "unsent" /\ task'[t].state = "queued"
             /\ DispatchFails(t) => task[t].state = "unsent" /\ task'[t].state = "lost"
             /\ \A u \in Tickets \ {t} : task'[u] = task[u]
  BY <1>2, <1>6 DEF MarkManual, TaskDies, Dispatch, DispatchFails
<1> QED
  BY <1>3, <1>4, <1>5, <1>6

\* Messages, processes and tickets do not get mixed up.
LEMMA JobNames ==
  /\ Check \in Jobs /\ None \notin Jobs
  /\ \A t \in Tickets : t \in Jobs /\ t # Check /\ t # None
BY JobsAssumption DEF Jobs

LEMMA TakeJob ==
  ASSUME TypeOK, PoolInv, NEW w \in Workers, Take(w), NEW u \in Tickets
  PROVE  JobInv(u)'
<1>1. PICK job \in Jobs :
        /\ job = Head(queue) /\ working' = [working EXCEPT ![w] = job]
        /\ IF job = Check THEN UNCHANGED vars ELSE StartAttempt(job)
  BY HeadIsJob DEF Take, PoolInv
<1>2. /\ working[w] = None /\ queue # <<>> /\ queue' = Tail(queue)
      /\ UNCHANGED delayed /\ PoolTypeOK /\ JobInv(u)
  BY DEF Take, PoolInv
<1>3. CASE u # job
  <2>1. task'[u].state = task[u].state
    <3>1. CASE job = Check
      BY <1>1, <3>1 DEF vars
    <3>2. CASE job # Check
      BY <1>1, <1>3, <3>2, TaskStates DEF Jobs
    <3> QED
      BY <3>1, <3>2
  <2>2. Queued(u)
    BY <1>1, <1>2, <1>3, TailMessage
  <2>3. On(u)' = On(u)
    BY <1>1, <1>2, <1>3, JobNames, WorkerMoves
  <2> QED
    BY <1>2, <2>1, <2>2, <2>3, OtherJob
<1>4. CASE u = job
  <2>1. task[u].state = "queued" /\ task'[u].state = "llm"
    BY <1>1, <1>4, JobNames, TaskStates
  <2>2. InQueue(u) # {} /\ (OneMessage(u) => InQueue(u)' = {})
    BY <1>1, <1>2, <1>4, TailMessage
  <2>3. On(u) = {} /\ u \notin delayed /\ OneMessage(u)
    BY <1>2, <2>1, <2>2 DEF JobInv
  <2>4. OneProcess(u)'
    BY <1>1, <1>2, <1>4, <2>3, WorkerMoves
  <2> QED
    BY <1>2, <2>1, <2>2, <2>3, <2>4 DEF JobInv
<1> QED
  BY <1>3, <1>4

LEMMA EndJob ==
  ASSUME TypeOK, PoolInv, NEW w \in Workers, NEW t \in Tickets,
         EndAttempt(w, t) \/ EndMarking(w, t) \/ ProcessDies(w, t),
         NEW u \in Tickets
  PROVE  JobInv(u)'
<1>1. /\ working[w] = t /\ UNCHANGED queue /\ PoolTypeOK /\ JobInv(u)
  BY DEF EndAttempt, EndMarking, ProcessDies, Leave, PoolInv
<1>2. /\ task[t].state \in {"llm", "marking"}
      /\ task'[t].state \in {"ended", "queued", "marking", "lost"}
      /\ \A v \in Tickets \ {t} : task'[v] = task[v]
  BY TaskStates DEF EndAttempt, EndMarking, ProcessDies
<1>3. /\ working' = IF task'[t].state = "marking"
                      THEN working ELSE [working EXCEPT ![w] = None]
      /\ delayed' = IF task'[t].state = "queued" THEN delayed \cup {t} ELSE delayed
  <2>1. CASE EndAttempt(w, t) \/ EndMarking(w, t)
    BY <2>1 DEF EndAttempt, EndMarking, Leave
  <2>2. CASE ProcessDies(w, t)
    BY <2>2, TaskStates DEF ProcessDies
  <2> QED
    BY <2>1, <2>2
<1>4. Queued(u) /\ (InQueue(u) = {} => InQueue(u)' = {})
  BY <1>1, SameQueue DEF Queued
<1>5. CASE u # t
  <2>1. On(u)' = On(u)
    <3>1. CASE working' = working
      BY <3>1 DEF On
    <3>2. CASE working' = [working EXCEPT ![w] = None]
      BY <1>1, <1>5, <3>2, JobNames, WorkerMoves
    <3> QED
      BY <1>3, <3>1, <3>2
  <2> QED
    BY <1>1, <1>2, <1>3, <1>4, <1>5, <2>1, OtherJob
<1>6. CASE u = t
  <2>1. OneProcess(t) /\ InQueue(t) = {} /\ t \notin delayed
    BY <1>1, <1>2, <1>6 DEF JobInv
  <2>2. CASE task'[t].state = "marking"
    <3>1. OneProcess(t)'
      BY <1>3, <2>1, <2>2 DEF OneProcess, On
    <3> QED
      BY <1>3, <1>4, <1>6, <2>1, <2>2, <3>1 DEF JobInv
  <2>3. CASE task'[t].state # "marking"
    <3>1. On(t)' = {}
      BY <1>1, <1>3, <2>1, <2>3, JobNames, WorkerMoves
    <3> QED
      BY <1>2, <1>3, <1>4, <1>6, <2>1, <2>3, <3>1 DEF JobInv, Idle
  <2> QED
    BY <2>2, <2>3
<1> QED
  BY <1>5, <1>6

LEMMA QueueJob ==
  ASSUME TypeOK, PoolInv, NEW t \in Tickets, Send(t) \/ Ripen(t), NEW u \in Tickets
  PROVE  JobInv(u)'
<1>1. PoolTypeOK /\ JobInv(u) /\ JobInv(t) /\ UNCHANGED working
  BY DEF Send, Ripen, PoolInv
<1>2. On(u)' = On(u)
  BY <1>1 DEF On
<1>3. CASE Send(t)
  <2>1. /\ Dispatch(t) /\ queue' = Append(queue, t) /\ UNCHANGED delayed
    BY <1>3 DEF Send
  <2>2. /\ task[t].state = "unsent" /\ task'[t].state = "queued"
        /\ \A v \in Tickets \ {t} : task'[v] = task[v]
    BY <2>1, TaskStates
  <2>3. Idle(t)
    BY <1>1, <2>2 DEF JobInv
  <2>4. /\ u # t => Queued(u)
        /\ u = t => OneMessage(u)'
    BY <1>1, <2>1, <2>3, JobNames, AppendMessage DEF Idle
  <2>5. CASE u # t
    BY <1>1, <1>2, <2>1, <2>2, <2>4, <2>5, OtherJob
  <2>6. CASE u = t
    BY <1>2, <2>1, <2>2, <2>3, <2>4, <2>6 DEF JobInv, Idle
  <2> QED
    BY <2>5, <2>6
<1>4. CASE Ripen(t)
  <2>1. /\ t \in delayed /\ delayed' = delayed \ {t} /\ UNCHANGED task
    BY <1>4 DEF Ripen, vars
  <2>2. task[t].state = "queued" /\ On(t) = {} /\ InQueue(t) = {}
    BY <1>1, <2>1 DEF JobInv, Idle
  <2>3. /\ u # t => Queued(u)
        /\ u = t => OneMessage(u)'
    BY <1>1, <1>4, <2>2, JobNames, InsertMessage DEF Ripen
  <2>4. CASE u # t
    BY <1>1, <1>2, <2>1, <2>3, <2>4, OtherJob
  <2>5. CASE u = t
    BY <1>2, <2>1, <2>2, <2>3, <2>5 DEF JobInv
  <2> QED
    BY <2>4, <2>5
<1> QED
  BY <1>3, <1>4

LEMMA RequestJob ==
  ASSUME TriageInv, PoolInv, NEW t \in Tickets, Request(t), NEW u \in Tickets
  PROVE  JobInv(u)'
<1>1. /\ TypeOK /\ JobInv(u) /\ UNCHANGED <<queue, working, delayed>>
  BY DEF Request, pool, PoolInv, TriageInv
<1>2. On(u)' = On(u) /\ InQueue(u)' = InQueue(u) /\ Queued(u)
  BY <1>1, SameQueue DEF On, InQueue
<1>3. \/ task'[u].state = task[u].state
      \/ /\ task[u].state \notin {"queued", "llm", "marking"}
         /\ task'[u].state \notin {"queued", "llm", "marking"}
  <2>1. ASSUME NEW p \in Opening, CreateTicket(t, p)
        PROVE  /\ task[t].state = "none" /\ task'[t].state = "unsent"
               /\ \A v \in Tickets \ {t} : task'[v] = task[v]
    <3>1. task[t].state = "none"
      BY <2>1 DEF CreateTicket, TriageInv, Outcome
    <3>2. task'[t].state = "unsent" /\ \A v \in Tickets \ {t} : task'[v] = task[v]
      BY <1>1, <2>1 DEF CreateTicket, Move, TypeOK, TaskRow
    <3> QED
      BY <3>1, <3>2
  <2>2. ASSUME NEW patch \in Patches, PatchTicket(t, patch) PROVE task' = task
    BY <2>2 DEF PatchTicket
  <2> QED
    BY <1>1, <2>1, <2>2, TaskStates DEF Request
<1>4. CASE task'[u].state = task[u].state
  BY <1>1, <1>2, <1>4, OtherJob
<1>5. CASE /\ task[u].state \notin {"queued", "llm", "marking"}
           /\ task'[u].state \notin {"queued", "llm", "marking"}
  BY <1>1, <1>2, <1>5 DEF JobInv, Idle
<1> QED
  BY <1>3, <1>4, <1>5

\* A step about checks alone.
LEMMA CheckJob ==
  ASSUME TypeOK, PoolInv, Tick \/ \E w \in Workers : EndCheck(w), NEW u \in Tickets
  PROVE  JobInv(u)'
<1>1. PoolTypeOK /\ JobInv(u) /\ UNCHANGED vars /\ UNCHANGED delayed
  BY DEF Tick, EndCheck, PoolInv
<1>2. task'[u].state = task[u].state
  BY <1>1 DEF vars
<1>3. CASE Tick
  <2>1. queue' = Append(queue, Check) /\ On(u)' = On(u)
    BY <1>3 DEF Tick, On
  <2>2. Queued(u)
    BY <1>1, <2>1, JobNames, AppendMessage
  <2> QED
    BY <1>1, <1>2, <2>1, <2>2, OtherJob
<1>4. ASSUME NEW w \in Workers, EndCheck(w) PROVE JobInv(u)'
  <2>1. /\ working[w] = Check /\ working' = [working EXCEPT ![w] = None]
        /\ UNCHANGED queue
    BY <1>4 DEF EndCheck
  <2>2. On(u)' = On(u)
    BY <1>1, <2>1, JobNames, WorkerMoves
  <2> QED
    BY <1>1, <1>2, <2>1, <2>2, SameQueue, OtherJob
<1> QED
  BY <1>3, <1>4

LEMMA PoolNext ==
  TriageInv /\ PoolInv /\ [Work \/ Tick]_wvars => PoolInv'
<1> SUFFICES ASSUME TriageInv, PoolInv, [Work \/ Tick]_wvars PROVE PoolInv'
  OBVIOUS
<1>1. TypeOK /\ PoolTypeOK'
  BY PoolTypeStep DEF TriageInv, PoolInv
<1>2. ASSUME NEW u \in Tickets PROVE JobInv(u)'
  <2>1. ASSUME NEW w \in Workers, Take(w) PROVE JobInv(u)'
    BY <1>1, <2>1, TakeJob
  <2>2. ASSUME NEW w \in Workers, NEW t \in Tickets,
               EndAttempt(w, t) \/ EndMarking(w, t) \/ ProcessDies(w, t)
        PROVE  JobInv(u)'
    BY <1>1, <2>2, EndJob
  <2>3. ASSUME NEW t \in Tickets, Send(t) \/ Ripen(t) PROVE JobInv(u)'
    BY <1>1, <2>3, QueueJob
  <2>4. ASSUME NEW t \in Tickets, Request(t) PROVE JobInv(u)'
    BY <2>4, RequestJob
  <2>5. ASSUME Tick \/ \E w \in Workers : EndCheck(w) PROVE JobInv(u)'
    BY <1>1, <2>5, CheckJob
  <2>6. CASE UNCHANGED wvars
    <3>1. /\ UNCHANGED <<queue, working, delayed, task>> /\ JobInv(u)
      BY <2>6 DEF wvars, pool, vars, PoolInv
    <3>2. On(u)' = On(u)
      BY <3>1 DEF On
    <3> QED
      BY <3>1, <3>2, SameQueue, OtherJob
  <2> QED
    BY <2>1, <2>2, <2>3, <2>4, <2>5, <2>6 DEF Work
<1> QED
  BY <1>1, <1>2 DEF PoolInv

\* The inductive invariant holds in every reachable state.
THEOREM PoolInvariant == WSpec => []PoolInv
<1>1. WInit => PoolInv
  BY PoolTypeInit, InitPool DEF PoolInv
<1>2. TriageInv /\ PoolInv /\ [Work \/ Tick]_wvars => PoolInv'
  BY PoolNext
<1> QED
  BY <1>1, <1>2, PoolRunsTriage, TriageInvariant, PTL DEF WSpec

\* Every task is where its state says, once: no retry multiplies a message, no
\* two processes work on one ticket, no message is lost on the way.
THEOREM AllJobsAccounted == WSpec => []JobsAccounted
<1>1. ASSUME PoolInv PROVE JobsAccounted
  <2> SUFFICES ASSUME NEW t \in Tickets
               PROVE
                 /\ task[t].state = "queued" =>
                      /\ On(t) = {}
                      /\ IF t \in delayed THEN InQueue(t) = {}
                                          ELSE Cardinality(InQueue(t)) = 1
                 /\ task[t].state \in {"llm", "marking"} =>
                      Cardinality(On(t)) = 1 /\ InQueue(t) = {} /\ t \notin delayed
                 /\ task[t].state \notin {"queued", "llm", "marking"} =>
                      On(t) = {} /\ InQueue(t) = {} /\ t \notin delayed
    BY DEF JobsAccounted
  <2>1. JobInv(t)
    BY <1>1 DEF PoolInv
  <2>2. /\ OneMessage(t) => Cardinality(InQueue(t)) = 1
        /\ OneProcess(t) => Cardinality(On(t)) = 1
    BY FS_Singleton DEF OneMessage, OneProcess
  <2> QED
    BY <2>1, <2>2 DEF JobInv, Idle
<1> QED
  BY <1>1, PoolInvariant, PTL

\* What the pool takes over from Triage: attempts are bounded, the flag comes
\* last and stays, no task ends in silence, choices survive, and every step is
\* one that the promise of triage allows.
THEOREM PoolKeepsTriage ==
  WSpec => /\ [](TypeOK /\ AttemptsBounded /\ FlaggedOnlyWhenExhausted
                        /\ EndedMeansHandled)
           /\ FlagStays /\ ChoicesSurviveTriage /\ OutcomeSafety
BY PoolRunsTriage, TriageTypeCorrect, AttemptsAreBounded, FlagMeansExhausted,
   NoSilentEnd, FlagIsFinal, ChoicesAreKept, TriageImplementsOutcome, PTL
=============================================================================
