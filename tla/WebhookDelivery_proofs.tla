----------------------- MODULE WebhookDelivery_proofs -----------------------
(***************************************************************************)
(* What holds of WebhookDelivery for any number of webhooks, events,       *)
(* attempts, requests, stalled jobs and failures: it delivers as Delivery  *)
(* promises, and switched-off webhooks stay silent.                        *)
(***************************************************************************)
EXTENDS WebhookDelivery, FiniteSetTheorems, TLAPS

-----------------------------------------------------------------------------
(* Types.                                                                  *)

\* At least one try is made, whatever retryCount is, and the code's
\* comparisons with retryCount bound the tries by Attempts.
LEMMA TryLimit ==
  /\ Attempts \in Nat \ {0} /\ MaxStalled \in Nat
  /\ \A a \in Nat \ {0} : a < RetryCount <=> a < Attempts
BY WebhookAssumption DEF Attempts

LoopTask(S) == [pc |-> "loop", todo |-> S]
ServeTask(p, S, h, a) == [pc |-> p, todo |-> S, hook |-> h, attempt |-> a]

\* What a dispatch has in hand, by where it stands.
LEMMA TaskShape ==
  ASSUME NEW t \in Task
  PROVE  /\ t.pc \in {"idle", "loop", "post", "record"}
         /\ t.pc = "idle" <=> t = Idle
         /\ t.pc # "idle" => t.todo \in SUBSET Hooks
         /\ t.pc = "loop" => t = LoopTask(t.todo)
         /\ t.pc \in {"post", "record"} =>
              /\ t.hook \in Hooks /\ t.attempt \in 1 .. Attempts
              /\ t = ServeTask(t.pc, t.todo, t.hook, t.attempt)
BY DEF Task, Idle, LoopTask, ServeTask

\* What the worker has in hand.
LEMMA WorkerShape ==
  ASSUME NEW w \in WorkerState
  PROVE  /\ w.pc \in {"idle", "post", "record"}
         /\ w.pc = "idle" <=> w = Idle
         /\ w.pc # "idle" => w.job \in Job /\ w = [pc |-> w.pc, job |-> w.job]
BY DEF WorkerState, Idle

\* The tasks the steps of a dispatch make.
LEMMA TaskMade ==
  /\ Idle \in Task
  /\ \A S \in SUBSET Hooks : LoopTask(S) \in Task
  /\ \A p \in {"post", "record"}, S \in SUBSET Hooks, h \in Hooks, a \in 1 .. Attempts :
       ServeTask(p, S, h, a) \in Task
<1>1. Idle \in Task
  BY Zenon DEF Task
<1>2. \A S \in SUBSET Hooks : LoopTask(S) \in Task
  BY Zenon DEF Task, LoopTask
<1>3. \A p \in {"post", "record"}, S \in SUBSET Hooks, h \in Hooks, a \in 1 .. Attempts :
        ServeTask(p, S, h, a) \in Task
  BY Zenon DEF Task, ServeTask
<1> QED BY <1>1, <1>2, <1>3

\* The states of the worker its steps make.
LEMMA WorkerMade ==
  Idle \in WorkerState /\ \A p \in {"post", "record"}, j \in Job : [pc |-> p, job |-> j] \in WorkerState
BY Zenon DEF WorkerState

-----------------------------------------------------------------------------
(* What each step changes.                                                 *)

\* Of all deliveries only d changes.
OnlyFor(d) == \A x \in Deliveries \ {d} :
  /\ fate'[x] = fate[x] /\ tries'[x] = tries[x] /\ answers'[x] = answers[x]
  /\ x \in upset' <=> x \in upset

\* A dispatch that has the webhooks S left.
After(S) == IF S = {} THEN Idle ELSE LoopTask(S)


\* Another attempt, or the end of them.
Again(e, h, S, a) ==
  \/ /\ a < Attempts /\ fate' = fate
     /\ task' = [task EXCEPT ![e] = ServeTask("post", S, h, a + 1)]
  \/ /\ a >= Attempts /\ fate' = [fate EXCEPT ![<<e, h>>] = "failed"]
     /\ task' = [task EXCEPT ![e] = After(S)]
\* A plugin takes a webhook out of the loop.
Drops(e, h, S) ==
  /\ task[e] = LoopTask(S \cup {h}) /\ h \notin S
  /\ task' = [task EXCEPT ![e] = After(S)]
  /\ fate' = [fate EXCEPT ![<<e, h>>] = "skipped"]
  /\ UNCHANGED <<tries, answers, upset, jobs, worker>>
\* A delivery is handed to the queue.
HandsOver(e, h, S) ==
  /\ task[e] = LoopTask(S \cup {h}) /\ h \notin S
  /\ task' = [task EXCEPT ![e] = After(S)]
  /\ fate' = [fate EXCEPT ![<<e, h>>] = "queued"]
  /\ jobs' = jobs \cup {[d |-> <<e, h>>, made |-> 0, stalls |-> 0]}
  /\ upset' \in {upset, upset \cup {<<e, h>>}} /\ UNCHANGED <<tries, answers, worker>>
\* The queue refuses a delivery.
Loses(e, h, S) ==
  /\ task[e] = LoopTask(S \cup {h}) /\ h \notin S
  /\ task' = [task EXCEPT ![e] = After(S)]
  /\ fate' = [fate EXCEPT ![<<e, h>>] = "lost"]
  /\ upset' = upset \cup {<<e, h>>}
  /\ UNCHANGED <<tries, answers, jobs, worker>>
\* deliverWebhook begins.
Begins(e, h, S) ==
  /\ task[e] = LoopTask(S \cup {h}) /\ h \notin S
  /\ task' = [task EXCEPT ![e] = ServeTask("post", S, h, 1)]
  /\ UNCHANGED <<fate, tries, answers, upset, jobs, worker>>
\* The receiver answers, or does not.
Posts(e, h, S, a) ==
  /\ task[e] = ServeTask("post", S, h, a)
  /\ tries' = [tries EXCEPT ![<<e, h>>] = @ + 1]
  /\ UNCHANGED <<upset, jobs, worker>>
  /\ \/ /\ answers' = [answers EXCEPT ![<<e, h>>] = @ + 1] /\ fate' = fate
        /\ task' = [task EXCEPT ![e] = ServeTask("record", S, h, a)]
     \/ answers' = answers /\ Again(e, h, S, a)
\* lastTriggeredAt is written.
Records(e, h, S, a) ==
  /\ task[e] = ServeTask("record", S, h, a)
  /\ task' = [task EXCEPT ![e] = After(S)]
  /\ fate' = [fate EXCEPT ![<<e, h>>] = "sent"]
  /\ UNCHANGED <<tries, answers, upset, jobs, worker>>
\* It is not, and that counts as a failed attempt.
Misses(e, h, S, a) ==
  /\ task[e] = ServeTask("record", S, h, a)
  /\ upset' = upset \cup {<<e, h>>} /\ UNCHANGED <<tries, answers, jobs, worker>>
  /\ Again(e, h, S, a)

\* Each step of a dispatch is one of these.
LEMMA CancelledEffect ==
  ASSUME LedgerType, NEW e \in Events, Cancelled(e)
  PROVE  \E h \in Hooks, S \in SUBSET Hooks : Drops(e, h, S)
<1>1. task[e] = LoopTask(task[e].todo) /\ task[e].todo \in SUBSET Hooks
  BY TaskShape DEF LedgerType, Cancelled
<1>2. PICK h \in task[e].todo : Decide(e, h, "skipped") /\ NextHook(e, task[e].todo \ {h})
  BY DEF Cancelled
<1>3. PICK S \in SUBSET Hooks : S = task[e].todo \ {h}
  BY <1>1
<1>4. h \in Hooks /\ h \notin S /\ task[e] = LoopTask(S \cup {h})
  BY <1>1, <1>3
<1>5. task' = [task EXCEPT ![e] = After(S)]
  BY <1>2, <1>3 DEF NextHook, After, LoopTask
<1> QED BY <1>2, <1>4, <1>5 DEF Drops, Cancelled, Decide

\* The queue takes a delivery over.
LEMMA EnqueueEffect ==
  ASSUME LedgerType, NEW e \in Events, Enqueue(e)
  PROVE  \E h \in Hooks, S \in SUBSET Hooks : HandsOver(e, h, S)
<1>1. task[e] = LoopTask(task[e].todo) /\ task[e].todo \in SUBSET Hooks
  BY TaskShape DEF LedgerType, Enqueue
<1>2. PICK h \in task[e].todo : 
         /\ jobs' = jobs \cup {[d |-> <<e, h>>, made |-> 0, stalls |-> 0]}
         /\ Decide(e, h, "queued") /\ NextHook(e, task[e].todo \ {h})
  BY DEF Enqueue
<1>3. PICK S \in SUBSET Hooks : S = task[e].todo \ {h}
  BY <1>1
<1>4. h \in Hooks /\ h \notin S /\ task[e] = LoopTask(S \cup {h})
  BY <1>1, <1>3
<1>5. task' = [task EXCEPT ![e] = After(S)]
  BY <1>2, <1>3 DEF NextHook, After, LoopTask
<1> QED BY <1>2, <1>4, <1>5 DEF HandsOver, Enqueue, Decide

\* Or it does not: the delivery is lost, or only the queue's answer was.
LEMMA EnqueueFailsEffect ==
  ASSUME LedgerType, NEW e \in Events, EnqueueFails(e)
  PROVE  \E h \in Hooks, S \in SUBSET Hooks : Loses(e, h, S) \/ HandsOver(e, h, S)
<1>1. task[e] = LoopTask(task[e].todo) /\ task[e].todo \in SUBSET Hooks
  BY TaskShape DEF LedgerType, EnqueueFails
<1>2. PICK h \in task[e].todo, added \in BOOLEAN :
         /\ jobs' = IF added THEN jobs \cup {[d |-> <<e, h>>, made |-> 0, stalls |-> 0]} ELSE jobs
         /\ Decide(e, h, IF added THEN "queued" ELSE "lost") /\ NextHook(e, task[e].todo \ {h})
         /\ upset' = upset \cup {<<e, h>>}
  BY DEF EnqueueFails
<1>3. PICK S \in SUBSET Hooks : S = task[e].todo \ {h}
  BY <1>1
<1>4. h \in Hooks /\ h \notin S /\ task[e] = LoopTask(S \cup {h})
  BY <1>1, <1>3
<1>5. task' = [task EXCEPT ![e] = After(S)]
  BY <1>2, <1>3 DEF NextHook, After, LoopTask
<1>6. CASE added
  BY <1>2, <1>4, <1>5, <1>6 DEF HandsOver, EnqueueFails, Decide
<1>7. CASE ~added
  BY <1>2, <1>4, <1>5, <1>7 DEF Loses, EnqueueFails, Decide
<1> QED BY <1>4, <1>6, <1>7

\* Without a queue the dispatch delivers itself.
LEMMA DeliverBeginEffect ==
  ASSUME LedgerType, NEW e \in Events, DeliverBegin(e)
  PROVE  \E h \in Hooks, S \in SUBSET Hooks : Begins(e, h, S)
<1>1. task[e] = LoopTask(task[e].todo) /\ task[e].todo \in SUBSET Hooks
  BY TaskShape DEF LedgerType, DeliverBegin
<1>2. PICK h \in task[e].todo : task' =
         [task EXCEPT ![e] = [pc |-> "post", todo |-> @.todo \ {h}, hook |-> h, attempt |-> 1]]
  BY DEF DeliverBegin
<1>3. PICK S \in SUBSET Hooks : S = task[e].todo \ {h}
  BY <1>1
<1>4. h \in Hooks /\ h \notin S /\ task[e] = LoopTask(S \cup {h})
  BY <1>1, <1>3
<1>5. task' = [task EXCEPT ![e] = ServeTask("post", S, h, 1)]
  BY <1>2, <1>3, <1>1 DEF ServeTask, LoopTask
<1> QED BY <1>2, <1>4, <1>5 DEF Begins, DeliverBegin, ledgerVars

\* Another attempt, or the end of them.
LEMMA AgainEffect ==
  ASSUME LedgerType, NEW e \in Events, TryAgain(e), NEW p \in {"post", "record"},
         NEW S \in SUBSET Hooks, NEW h \in Hooks, NEW a \in 1 .. Attempts,
         task[e] = ServeTask(p, S, h, a)
  PROVE  Again(e, h, S, a)
<1>1. task[e].todo = S /\ task[e].hook = h /\ task[e].attempt = a
  BY DEF ServeTask
<1>2. CASE a < Attempts
  BY <1>1, <1>2, TryLimit DEF TryAgain, Again, ServeTask
<1>3. CASE ~(a < Attempts)
  <2>1. a >= Attempts
    BY <1>3, TryLimit
  <2>2. ~(a < RetryCount)
    BY <1>3, TryLimit
  <2> QED BY <1>1, <2>1, <2>2 DEF TryAgain, Again, NextHook, Decide, After, LoopTask
<1> QED BY <1>2, <1>3

\* One attempt.
LEMMA PostEffect ==
  ASSUME LedgerType, NEW e \in Events, Post(e)
  PROVE  \E h \in Hooks, S \in SUBSET Hooks, a \in 1 .. Attempts : Posts(e, h, S, a)
<1>1. PICK h \in Hooks, S \in SUBSET Hooks, a \in 1 .. Attempts :
        task[e] = ServeTask("post", S, h, a)
  BY TaskShape DEF LedgerType, Post
<1>2. task[e].hook = h
  BY <1>1 DEF ServeTask
<1>3. PICK yes \in BOOLEAN :
        /\ Tried(<<e, h>>, yes)
        /\ IF yes THEN task' = [task EXCEPT ![e].pc = "record"] /\ UNCHANGED fate ELSE TryAgain(e)
  BY <1>2, Zenon DEF Post
<1>4. tries' = [tries EXCEPT ![<<e, h>>] = @ + 1] /\ UNCHANGED <<upset, jobs, worker>>
  BY <1>3 DEF Post, Tried
<1>5. CASE yes = TRUE
  <2>1. answers' = [answers EXCEPT ![<<e, h>>] = @ + 1] /\ fate' = fate
    BY <1>3, <1>5 DEF Tried
  <2>2. task' = [task EXCEPT ![e] = ServeTask("record", S, h, a)]
    BY <1>1, <1>3, <1>5 DEF ServeTask
  <2> QED BY <1>1, <1>4, <2>1, <2>2 DEF Posts
<1>6. CASE yes = FALSE
  <2>1. answers' = answers /\ TryAgain(e)
    BY <1>3, <1>6 DEF Tried
  <2>2. Again(e, h, S, a)
    BY <1>1, <2>1, AgainEffect
  <2> QED BY <1>1, <1>4, <2>1, <2>2 DEF Posts
<1> QED BY <1>5, <1>6

\* The attempt that went well is written down.
LEMMA RecordEffect ==
  ASSUME LedgerType, NEW e \in Events, Record(e)
  PROVE  \E h \in Hooks, S \in SUBSET Hooks, a \in 1 .. Attempts : Records(e, h, S, a)
<1>1. PICK h \in Hooks, S \in SUBSET Hooks, a \in 1 .. Attempts :
        task[e] = ServeTask("record", S, h, a)
  BY TaskShape DEF LedgerType, Record
<1>2. task[e].hook = h /\ task[e].todo = S
  BY <1>1 DEF ServeTask
<1>3. task' = [task EXCEPT ![e] = After(S)]
  BY <1>2 DEF Record, NextHook, After, LoopTask
<1> QED BY <1>1, <1>2, <1>3 DEF Records, Record, Decide

\* Or that fails, as an attempt that went wrong.
LEMMA RecordFailsEffect ==
  ASSUME LedgerType, NEW e \in Events, RecordFails(e)
  PROVE  \E h \in Hooks, S \in SUBSET Hooks, a \in 1 .. Attempts : Misses(e, h, S, a)
<1>1. PICK h \in Hooks, S \in SUBSET Hooks, a \in 1 .. Attempts :
        task[e] = ServeTask("record", S, h, a)
  BY TaskShape DEF LedgerType, RecordFails
<1>2. task[e].hook = h
  BY <1>1 DEF ServeTask
<1>3. Again(e, h, S, a)
  BY <1>1, AgainEffect DEF RecordFails
<1> QED BY <1>1, <1>2, <1>3 DEF Misses, RecordFails
-----------------------------------------------------------------------------
(* The types are kept.                                                     *)

\* After a dispatch's step everything it made has its type.
LEMMA AfterType == \A S \in SUBSET Hooks : After(S) \in Task
BY TaskMade DEF After

\* Another attempt keeps the types too.
LEMMA AgainType ==
  ASSUME LedgerType, NEW e \in Events, NEW h \in Hooks, NEW S \in SUBSET Hooks,
         NEW a \in 1 .. Attempts, Again(e, h, S, a)
  PROVE  task' \in [Events -> Task] /\ fate' \in [Deliveries -> Promise!Fates]
<1>1. CASE a < Attempts
  <2>1. a + 1 \in 1 .. Attempts
    BY <1>1, TryLimit
  <2>2. ServeTask("post", S, h, a + 1) \in Task
    BY <2>1, TaskMade
  <2>3. fate' = fate /\ task' = [task EXCEPT ![e] = ServeTask("post", S, h, a + 1)]
    BY <1>1, TryLimit DEF Again
  <2> QED BY <2>2, <2>3 DEF LedgerType
<1>2. CASE ~(a < Attempts)
  <2>1. /\ fate' = [fate EXCEPT ![<<e, h>>] = "failed"]
        /\ task' = [task EXCEPT ![e] = After(S)]
    BY <1>2 DEF Again
  <2>2. After(S) \in Task /\ "failed" \in Promise!Fates
    BY AfterType DEF Promise!Fates
  <2> QED BY <2>1, <2>2 DEF LedgerType
<1> QED BY <1>1, <1>2

\* The same of the job that the worker has: BullMQ's comparison too is one
\* with Attempts.
JobPutBack(j) ==
  IF j.made + 1 < Attempts
  THEN jobs' = jobs \cup {[j EXCEPT !.made = @ + 1]} /\ fate' = fate
  ELSE fate' = [fate EXCEPT ![j.d] = "failed"] /\ jobs' = jobs
LEMMA JobThrown ==
  ASSUME NEW j \in Job, JobThrows(j)
  PROVE  JobPutBack(j)
<1>1. j.made + 1 < RetryCount <=> j.made + 1 < Attempts
  BY TryLimit DEF Job
<1> QED BY <1>1 DEF JobThrows, JobPutBack

\* A job that threw is put back or its delivery has failed.
LEMMA ThrowsType ==
  ASSUME LedgerType, NEW j \in Job, JobThrows(j)
  PROVE  jobs' \in SUBSET Job /\ fate' \in [Deliveries -> Promise!Fates]
<1>1. CASE j.made + 1 < Attempts
  <2>1. [j EXCEPT !.made = @ + 1] \in Job
    BY <1>1, TryLimit DEF Job
  <2>2. JobPutBack(j)
    BY JobThrown
  <2> QED BY <1>1, <2>1, <2>2 DEF JobPutBack, LedgerType
<1>2. CASE ~(j.made + 1 < Attempts)
  <2>1. "failed" \in Promise!Fates
    BY DEF Promise!Fates
  <2>2. JobPutBack(j)
    BY JobThrown
  <2> QED BY <1>2, <2>1, <2>2 DEF JobPutBack, LedgerType
<1> QED BY <1>1, <1>2

\* Every step keeps the types of the ledger's side.
LEMMA LedgerTypeStep == LedgerType /\ [Next]_vars => LedgerType'
<1> SUFFICES ASSUME LedgerType, [Next]_vars PROVE LedgerType'
  OBVIOUS
<1>0. /\ fate \in [Deliveries -> Promise!Fates]
      /\ tries \in [Deliveries -> Nat] /\ answers \in [Deliveries -> Nat]
      /\ upset \in SUBSET Deliveries
      /\ task \in [Events -> Task] /\ jobs \in SUBSET Job /\ worker \in WorkerState
  BY DEF LedgerType
<1>f. \A f \in {"skipped", "due", "queued", "sent", "failed", "lost"} : f \in Promise!Fates
  BY DEF Promise!Fates
<1>d. \A e \in Events, h \in Hooks : <<e, h>> \in Deliveries
  BY DEF Deliveries
<1>1. CASE Edit
  BY <1>0, <1>1 DEF LedgerType, Edit, Create, EditRead, EditLook, EditSave, ledgerVars
<1>2. ASSUME NEW e \in Events, Dispatch(e) \/ Loop(e) PROVE LedgerType'
  <2>1. CASE Dispatch(e)
    <3>1. fate' \in [Deliveries -> Promise!Fates]
      BY <1>0, <1>f, <2>1 DEF Dispatch
    <3>2. task' \in [Events -> Task]
      <4>1. Idle \in Task /\ LoopTask(Matching) \in Task
        BY TaskMade DEF Matching
      <4> QED BY <1>0, <2>1, <4>1 DEF Dispatch, LoopTask
    <3> QED BY <1>0, <2>1, <3>1, <3>2 DEF Dispatch, LedgerType
  <2>2. CASE Cancelled(e)
    <3>1. PICK h \in Hooks, S \in SUBSET Hooks : Drops(e, h, S)
      BY <2>2, CancelledEffect
    <3> QED BY <1>0, <1>f, <1>d, <3>1, AfterType DEF Drops, LedgerType
  <2>3. CASE Enqueue(e)
    <3>1. PICK h \in Hooks, S \in SUBSET Hooks : HandsOver(e, h, S)
      BY <2>3, EnqueueEffect
    <3>2. [d |-> <<e, h>>, made |-> 0, stalls |-> 0] \in Job
      BY <1>d, TryLimit DEF Job
    <3> QED BY <1>0, <1>f, <1>d, <3>1, <3>2, AfterType DEF HandsOver, LedgerType
  <2>4. CASE EnqueueFails(e)
    <3>1. PICK h \in Hooks, S \in SUBSET Hooks : Loses(e, h, S) \/ HandsOver(e, h, S)
      BY <2>4, EnqueueFailsEffect
    <3>2. [d |-> <<e, h>>, made |-> 0, stalls |-> 0] \in Job
      BY <1>d, TryLimit DEF Job
    <3>3. CASE Loses(e, h, S)
      BY <1>0, <1>f, <1>d, <3>3, AfterType DEF Loses, LedgerType
    <3>4. CASE HandsOver(e, h, S)
      BY <1>0, <1>f, <1>d, <3>2, <3>4, AfterType DEF HandsOver, LedgerType
    <3> QED BY <3>1, <3>3, <3>4
  <2>5. CASE DeliverBegin(e)
    <3>1. 1 \in 1 .. Attempts
      BY TryLimit
    <3>2. PICK h \in Hooks, S \in SUBSET Hooks : Begins(e, h, S)
      BY <2>5, DeliverBeginEffect
    <3> QED BY <1>0, <3>1, <3>2, TaskMade DEF Begins, LedgerType
  <2>6. CASE Post(e)
    <3>1. PICK h \in Hooks, S \in SUBSET Hooks, a \in 1 .. Attempts : Posts(e, h, S, a)
      BY <2>6, PostEffect
    <3>2. tries' \in [Deliveries -> Nat] /\ answers' \in [Deliveries -> Nat]
      BY <1>0, <1>d, <3>1 DEF Posts
    <3>3. task' \in [Events -> Task] /\ fate' \in [Deliveries -> Promise!Fates]
      <4>1. CASE Again(e, h, S, a)
        BY <4>1, AgainType
      <4>2. CASE fate' = fate /\ task' = [task EXCEPT ![e] = ServeTask("record", S, h, a)]
        BY <1>0, <4>2, TaskMade
      <4> QED BY <3>1, <4>1, <4>2 DEF Posts
    <3> QED BY <1>0, <3>1, <3>2, <3>3 DEF Posts, LedgerType
  <2>7. CASE Record(e)
    <3>1. PICK h \in Hooks, S \in SUBSET Hooks, a \in 1 .. Attempts : Records(e, h, S, a)
      BY <2>7, RecordEffect
    <3> QED BY <1>0, <1>f, <1>d, <3>1, AfterType DEF Records, LedgerType
  <2>8. CASE RecordFails(e)
    <3>1. PICK h \in Hooks, S \in SUBSET Hooks, a \in 1 .. Attempts : Misses(e, h, S, a)
      BY <2>8, RecordFailsEffect
    <3>2. task' \in [Events -> Task] /\ fate' \in [Deliveries -> Promise!Fates]
      BY <3>1, AgainType DEF Misses
    <3> QED BY <1>0, <1>d, <3>1, <3>2 DEF Misses, LedgerType
  <2> QED BY <1>2, <2>1, <2>2, <2>3, <2>4, <2>5, <2>6, <2>7, <2>8 DEF Loop
<1>3. CASE Worker
  <2>0. worker.pc \in {"post", "record"} => worker.job \in Job /\ worker.job.d \in Deliveries
    BY <1>0, WorkerShape DEF Job
  <2>1. ASSUME NEW j \in jobs, Take(j) PROVE LedgerType'
    BY <1>0, <2>1, WorkerMade DEF Take, LedgerType, ledgerVars
  <2>2. CASE JobPost
    <3>1. PICK yes \in BOOLEAN :
            /\ Tried(worker.job.d, yes)
            /\ IF yes THEN worker' = [worker EXCEPT !.pc = "record"] /\ UNCHANGED <<jobs, fate>>
                      ELSE worker' = Idle /\ JobThrows(worker.job)
      BY <2>2, Zenon DEF JobPost
    <3>2. worker.job \in Job /\ worker = [pc |-> "post", job |-> worker.job]
      BY <1>0, <2>2, WorkerShape DEF JobPost
    <3>3. tries' \in [Deliveries -> Nat] /\ answers' \in [Deliveries -> Nat]
      BY <1>0, <3>1, <3>2 DEF Tried, Job
    <3>4. CASE yes = TRUE
      <4>1. worker' = [pc |-> "record", job |-> worker.job]
        BY <3>1, <3>2, <3>4
      <4> QED BY <1>0, <2>2, <3>1, <3>2, <3>3, <3>4, <4>1, WorkerMade DEF JobPost, LedgerType
    <3>5. CASE yes = FALSE
      BY <1>0, <2>2, <3>1, <3>2, <3>3, <3>5, WorkerMade, ThrowsType DEF JobPost, LedgerType
    <3> QED BY <3>4, <3>5
  <2>3. CASE JobRecord
    BY <1>0, <1>f, <2>0, <2>3, WorkerMade DEF JobRecord, LedgerType
  <2>4. CASE JobRecordFails
    BY <1>0, <2>0, <2>4, WorkerMade, ThrowsType DEF JobRecordFails, LedgerType
  <2> QED BY <1>3, <2>1, <2>2, <2>3, <2>4 DEF Worker
<1>4. CASE Crash
  <2>1. worker # Idle => worker.job \in Job
    BY <1>0, WorkerShape
  <2>2. \A j \in Job : j.stalls < MaxStalled => [j EXCEPT !.stalls = @ + 1] \in Job
    BY TryLimit DEF Job
  <2>3. jobs' \in SUBSET Job
    BY <1>0, <1>4, <2>1, <2>2 DEF Crash
  <2>4. fate' \in [Deliveries -> Promise!Fates] /\ upset' \in SUBSET Deliveries
    BY <1>0, <1>f, <1>4, <2>1 DEF Crash, Job
  <2>5. task' \in [Events -> Task] /\ worker' \in WorkerState
    BY <1>4, TaskMade, WorkerMade DEF Crash
  <2> QED BY <1>0, <1>4, <2>3, <2>4, <2>5 DEF Crash, LedgerType
<1>5. CASE UNCHANGED vars
  BY <1>5, <1>0 DEF vars, ledgerVars, LedgerType
<1> QED BY <1>1, <1>2, <1>3, <1>4, <1>5 DEF Next
-----------------------------------------------------------------------------
(* The ledger's invariant is kept.                                         *)

\* What a task has in hand.
LEMMA InHand ==
  /\ Waiting(Idle) = {} /\ Serving(Idle) = {} /\ Idle.pc = "idle"
  /\ \A S : /\ Waiting(LoopTask(S)) = S /\ Serving(LoopTask(S)) = {} /\ LoopTask(S).pc = "loop"
            /\ Waiting(After(S)) = S /\ Serving(After(S)) = {} /\ After(S).pc \in {"idle", "loop"}
  /\ \A p \in {"post", "record"} : \A S, h, a :
       /\ Waiting(ServeTask(p, S, h, a)) = S /\ Serving(ServeTask(p, S, h, a)) = {h}
       /\ ServeTask(p, S, h, a).pc = p /\ ServeTask(p, S, h, a).hook = h
       /\ ServeTask(p, S, h, a).attempt = a
BY DEF Waiting, Serving, Idle, LoopTask, ServeTask, After

\* A step of a dispatch that deals with h, and has S left, keeps the invariant
\* if it holds of h.
LEMMA LoopKeeps ==
  ASSUME LedgerType, LedgerType', LedgerInv, NEW e \in Events, NEW h \in Hooks,
         NEW S \in SUBSET Hooks, h \notin S,
         Waiting(task[e]) \cup Serving(task[e]) = S \cup {h}, S \subseteq Waiting(task[e]),
         NEW t, task' = [task EXCEPT ![e] = t], worker' = worker, OnlyFor(<<e, h>>),
         \/ t = After(S) /\ fate'[<<e, h>>] \notin {"new", "due"}
         \/ \E p \in {"post", "record"}, a \in 1 .. Attempts :
              /\ t = ServeTask(p, S, h, a) /\ fate'[<<e, h>>] = "due"
              /\ p = "post" => tries'[<<e, h>>] = a - 1
              /\ p = "record" => tries'[<<e, h>>] = a /\ answers'[<<e, h>>] > 0,
         \/ jobs' = jobs
         \/ /\ jobs' = jobs \cup {[d |-> <<e, h>>, made |-> 0, stalls |-> 0]}
            /\ fate'[<<e, h>>] = "queued" /\ tries'[<<e, h>>] = 0,
         answers'[<<e, h>>] > 0 /\ fate'[<<e, h>>] \in {"due", "queued"} =>
           <<e, h>> \in upset' \/ t.pc = "record"
  PROVE  LedgerInv'
<1> DEFINE d == <<e, h>>
<1>1. d \in Deliveries /\ fate[d] = "due"
  BY DEF Deliveries, LedgerInv, DueIsHeld
<1>2. Waiting(t) = S /\ Serving(t) \in {{}, {h}} /\ t.pc \in {"idle", "loop", "post", "record"}
  BY InHand
<1>3. task'[e] = t /\ \A g \in Events \ {e} : task'[g] = task[g]
  BY DEF LedgerType
<1>4. Serving(t) = {h} <=> fate'[d] = "due"
  BY InHand
<1>5. DueIsHeld'
  <2> SUFFICES ASSUME NEW g \in Events, NEW k \in Hooks
               PROVE  /\ fate'[<<g, k>>] = "due" <=> k \in Waiting(task'[g]) \cup Serving(task'[g])
                      /\ fate'[<<g, k>>] = "new" => task'[g].pc = "idle"
                      /\ fate'[<<g, k>>] = "new" \/ k \in Waiting(task'[g]) =>
                           /\ tries'[<<g, k>>] = 0 /\ answers'[<<g, k>>] = 0
                           /\ <<g, k>> \notin upset'
    BY DEF DueIsHeld
  <2>1. CASE g = e /\ k = h
    BY <1>1, <1>2, <1>3, <1>4, <2>1, InHand
  <2>2. CASE g = e /\ k # h
    <3>1. <<g, k>> \in Deliveries \ {d}
      BY <2>2 DEF Deliveries
    <3>2. task[e].pc # "idle" /\ fate[<<g, k>>] # "new"
      BY <2>2 DEF LedgerInv, DueIsHeld, Waiting, Serving
    <3> QED BY <1>2, <1>3, <2>2, <3>1, <3>2 DEF OnlyFor, LedgerInv, DueIsHeld
  <2>3. CASE g # e
    <3>1. <<g, k>> \in Deliveries \ {d}
      BY <2>3 DEF Deliveries
    <3> QED BY <1>3, <2>3, <3>1 DEF OnlyFor, LedgerInv, DueIsHeld
  <2> QED BY <2>1, <2>2, <2>3
<1>6. DirectTries'
  <2> SUFFICES ASSUME NEW g \in Events
               PROVE  /\ Waiting(task'[g]) \cap Serving(task'[g]) = {}
                      /\ task'[g].pc = "post" => tries'[<<g, task'[g].hook>>] = task'[g].attempt - 1
                      /\ task'[g].pc = "record" => /\ tries'[<<g, task'[g].hook>>] = task'[g].attempt
                                                   /\ answers'[<<g, task'[g].hook>>] > 0
    BY DEF DirectTries
  <2>1. CASE g = e
    BY <1>2, <1>3, <2>1, InHand
  <2>2. CASE g # e
    <3>1. task[g].pc \in {"post", "record"} => <<g, task[g].hook>> \in Deliveries \ {d}
      BY <2>2, TaskShape DEF Deliveries, LedgerType
    <3> QED BY SMTT(60), <1>3, <2>2, <3>1 DEF OnlyFor, LedgerInv, DirectTries
  <2> QED BY <2>1, <2>2
<1>7. \A j \in jobs : j.d \in Deliveries \ {d} /\ fate[j.d] = "queued"
  BY <1>1 DEF LedgerInv, JobTries, CountedBy, LedgerType, Job
<1>8. worker.pc # "idle" => worker.job.d \in Deliveries \ {d} /\ fate[worker.job.d] = "queued"
  BY <1>1, WorkerShape DEF LedgerInv, JobTries, CountedBy, LedgerType, Job
<1>9. NotAskedAgain'
  <2> SUFFICES ASSUME NEW x \in Deliveries, answers'[x] > 0, fate'[x] \in {"due", "queued"}
               PROVE  \/ x \in upset'
                      \/ \E g \in Events : task'[g].pc = "record" /\ x = <<g, task'[g].hook>>
                      \/ worker'.pc = "record" /\ x = worker'.job.d
    BY DEF NotAskedAgain
  <2>1. CASE x = d
    BY <1>3, <2>1, InHand
  <2>2. CASE x # d
    <3>1. answers[x] > 0 /\ fate[x] \in {"due", "queued"} /\ (x \in upset' <=> x \in upset)
      BY <2>2 DEF OnlyFor
    <3>2. ASSUME NEW g \in Events, task[g].pc = "record", x = <<g, task[g].hook>>
          PROVE  task'[g] = task[g]
      <4>1. CASE g = e
        <5>1. task[e].hook \in Serving(task[e])
          BY <3>2, <4>1 DEF Serving
        <5>2. task[e].hook \notin S
          BY <5>1 DEF LedgerInv, DirectTries
        <5> QED BY <2>2, <3>2, <4>1, <5>1, <5>2
      <4> QED BY <1>3, <4>1
    <3> QED BY <3>1, <3>2 DEF LedgerInv, NotAskedAgain
  <2> QED BY <2>1, <2>2
<1>10. OneJobEach'
  BY <1>7, <1>8 DEF LedgerInv, OneJobEach
<1>11. JobTries'
  <2>1. ASSUME NEW j \in jobs PROVE CountedBy(j, 0)'
    BY <1>7, <2>1 DEF OnlyFor, LedgerInv, JobTries, CountedBy
  <2>2. ASSUME NEW j \in jobs' \ jobs PROVE CountedBy(j, 0)'
    BY <2>2 DEF CountedBy
  <2>3. /\ worker.pc = "post" => CountedBy(worker.job, 0)'
        /\ worker.pc = "record" => CountedBy(worker.job, 1)' /\ answers'[worker.job.d] > 0
    BY <1>8 DEF OnlyFor, LedgerInv, JobTries, CountedBy
  <2> QED BY <2>1, <2>2, <2>3 DEF JobTries
<1> QED BY <1>5, <1>6, <1>9, <1>10, <1>11 DEF LedgerInv

\* A step of a dispatch keeps the invariant.
LEMMA LoopStep ==
  ASSUME LedgerType, LedgerType', LedgerInv, NEW e \in Events, Loop(e)
  PROVE  LedgerInv'
<1>1. CASE Cancelled(e) \/ Enqueue(e) \/ EnqueueFails(e) \/ DeliverBegin(e)
  <2>1. PICK h \in Hooks, S \in SUBSET Hooks :
          Drops(e, h, S) \/ HandsOver(e, h, S) \/ Loses(e, h, S) \/ Begins(e, h, S)
    BY <1>1, CancelledEffect, EnqueueEffect, EnqueueFailsEffect, DeliverBeginEffect
  <2>2. task[e] = LoopTask(S \cup {h}) /\ h \notin S
    BY <2>1 DEF Drops, HandsOver, Loses, Begins
  <2>3. Waiting(task[e]) \cup Serving(task[e]) = S \cup {h} /\ S \subseteq Waiting(task[e])
    BY <2>2, InHand
  <2>4. tries[<<e, h>>] = 0 /\ answers[<<e, h>>] = 0 /\ fate[<<e, h>>] = "due"
    BY <2>2, InHand DEF LedgerInv, DueIsHeld
  <2>5. <<e, h>> \in Deliveries
    BY DEF Deliveries
  <2>6. OnlyFor(<<e, h>>)
    BY <2>1 DEF Drops, HandsOver, Loses, Begins, OnlyFor, LedgerType
  <2>7. tries'[<<e, h>>] = 0 /\ ~(answers'[<<e, h>>] > 0) /\ worker' = worker
    BY <2>1, <2>4 DEF Drops, HandsOver, Loses, Begins
  <2>8. CASE Drops(e, h, S) \/ HandsOver(e, h, S) \/ Loses(e, h, S)
    <3>1. /\ task' = [task EXCEPT ![e] = After(S)] /\ fate'[<<e, h>>] \notin {"new", "due"}
          /\ \/ jobs' = jobs
             \/ /\ jobs' = jobs \cup {[d |-> <<e, h>>, made |-> 0, stalls |-> 0]}
                /\ fate'[<<e, h>>] = "queued"
      BY <2>5, <2>8 DEF Drops, HandsOver, Loses, LedgerType
    <3> QED BY <2>2, <2>3, <2>6, <2>7, <3>1, LoopKeeps
  <2>9. CASE Begins(e, h, S)
    <3>1. /\ task' = [task EXCEPT ![e] = ServeTask("post", S, h, 1)]
          /\ jobs' = jobs /\ fate'[<<e, h>>] = "due" /\ 1 \in 1 .. Attempts
      BY <2>4, <2>9, TryLimit DEF Begins
    <3>2. \E p \in {"post", "record"}, a \in 1 .. Attempts :
            /\ ServeTask("post", S, h, 1) = ServeTask(p, S, h, a) /\ fate'[<<e, h>>] = "due"
            /\ p = "post" => tries'[<<e, h>>] = a - 1
            /\ p = "record" => tries'[<<e, h>>] = a /\ answers'[<<e, h>>] > 0
      BY <2>7, <3>1
    <3> QED BY <2>2, <2>3, <2>6, <2>7, <3>1, <3>2, LoopKeeps
  <2> QED BY <2>1, <2>8, <2>9
<1>2. CASE Post(e) \/ Record(e) \/ RecordFails(e)
  <2>1. PICK h \in Hooks, S \in SUBSET Hooks, a \in 1 .. Attempts :
          Posts(e, h, S, a) \/ Records(e, h, S, a) \/ Misses(e, h, S, a)
    BY <1>2, PostEffect, RecordEffect, RecordFailsEffect
  <2>2. PICK p \in {"post", "record"} : task[e] = ServeTask(p, S, h, a)
    BY <2>1 DEF Posts, Records, Misses
  <2>3. /\ Waiting(task[e]) = S /\ Serving(task[e]) = {h}
        /\ task[e].pc = p /\ task[e].hook = h /\ task[e].attempt = a
    BY <2>2, InHand
  <2>4. /\ h \notin S /\ fate[<<e, h>>] = "due"
        /\ p = "post" => tries[<<e, h>>] = a - 1
        /\ p = "record" => tries[<<e, h>>] = a /\ answers[<<e, h>>] > 0
    BY <2>3 DEF LedgerInv, DirectTries, DueIsHeld
  <2>5. <<e, h>> \in Deliveries
    BY DEF Deliveries
  <2>6. OnlyFor(<<e, h>>)
    BY <2>1, <2>5 DEF Posts, Records, Misses, Again, OnlyFor, LedgerType
  <2>7. worker' = worker /\ jobs' = jobs
    BY <2>1 DEF Posts, Records, Misses
  <2>8. ASSUME answers[<<e, h>>] > 0, p = "post" PROVE <<e, h>> \in upset
    <3>1. worker.pc = "record" => worker.job.d # <<e, h>>
      BY <2>4 DEF LedgerInv, JobTries, CountedBy
    <3>2. \A g \in Events : task[g].pc = "record" => <<e, h>> # <<g, task[g].hook>>
      BY <2>3, <2>8
    <3> QED BY <2>4, <2>5, <2>8, <3>1, <3>2 DEF LedgerInv, NotAskedAgain
  <2>9. ASSUME Again(e, h, S, a), tries'[<<e, h>>] = a,
               answers'[<<e, h>>] > 0 => <<e, h>> \in upset'
        PROVE  LedgerInv'
    <3>1. CASE a < Attempts
      <4>1. /\ task' = [task EXCEPT ![e] = ServeTask("post", S, h, a + 1)]
            /\ fate'[<<e, h>>] = "due"
        BY <2>4, <2>9, <3>1, TryLimit DEF Again
      <4>2. a + 1 \in 1 .. Attempts /\ a = (a + 1) - 1
        BY <3>1, TryLimit
      <4>3. \E q \in {"post", "record"}, b \in 1 .. Attempts :
              /\ ServeTask("post", S, h, a + 1) = ServeTask(q, S, h, b) /\ fate'[<<e, h>>] = "due"
              /\ q = "post" => tries'[<<e, h>>] = b - 1
              /\ q = "record" => tries'[<<e, h>>] = b /\ answers'[<<e, h>>] > 0
        BY <2>9, <4>1, <4>2
      <4> QED BY ZenonT(60), <2>3, <2>4, <2>6, <2>7, <2>9, <4>1, <4>3, LoopKeeps
    <3>2. CASE ~(a < Attempts)
      <4>1. /\ task' = [task EXCEPT ![e] = After(S)]
            /\ fate'[<<e, h>>] = "failed"
        BY <2>5, <2>9, <3>2 DEF Again, LedgerType
      <4> QED BY <2>3, <2>4, <2>6, <2>7, <4>1, LoopKeeps
    <3> QED BY <3>1, <3>2
  <2>10. CASE Posts(e, h, S, a)
    <3>1. p = "post"
      BY <2>3, <2>10 DEF Posts, ServeTask
    <3>2. tries'[<<e, h>>] = a
      BY <2>4, <2>5, <2>10, <3>1, TryLimit DEF Posts, LedgerType
    <3>3. CASE answers' = answers /\ Again(e, h, S, a)
      <4>1. answers'[<<e, h>>] > 0 => <<e, h>> \in upset'
        BY <2>8, <2>10, <3>1, <3>3 DEF Posts
      <4> QED BY <2>9, <3>2, <3>3, <4>1
    <3>4. CASE /\ answers' = [answers EXCEPT ![<<e, h>>] = @ + 1] /\ fate' = fate
               /\ task' = [task EXCEPT ![e] = ServeTask("record", S, h, a)]
      <4>1. answers'[<<e, h>>] > 0 /\ fate'[<<e, h>>] = "due"
        BY <2>4, <2>5, <3>4 DEF LedgerType
      <4>2. \E q \in {"post", "record"}, b \in 1 .. Attempts :
              /\ ServeTask("record", S, h, a) = ServeTask(q, S, h, b) /\ fate'[<<e, h>>] = "due"
              /\ q = "post" => tries'[<<e, h>>] = b - 1
              /\ q = "record" => tries'[<<e, h>>] = b /\ answers'[<<e, h>>] > 0
        BY <3>2, <4>1
      <4>3. ServeTask("record", S, h, a).pc = "record"
        BY InHand
      <4> QED BY <2>3, <2>4, <2>6, <2>7, <3>4, <4>2, <4>3, LoopKeeps
    <3> QED BY <2>10, <3>3, <3>4 DEF Posts
  <2>11. CASE Records(e, h, S, a)
    <3>1. task' = [task EXCEPT ![e] = After(S)] /\ fate'[<<e, h>>] = "sent"
      BY <2>5, <2>11 DEF Records, LedgerType
    <3> QED BY <2>3, <2>4, <2>6, <2>7, <3>1, LoopKeeps
  <2>12. CASE Misses(e, h, S, a)
    <3>1. p = "record" /\ tries'[<<e, h>>] = a /\ <<e, h>> \in upset'
      BY <2>3, <2>4, <2>12 DEF Misses, ServeTask
    <3> QED BY <2>9, <2>12, <3>1 DEF Misses
  <2> QED BY <2>1, <2>10, <2>11, <2>12
<1> QED BY <1>1, <1>2 DEF Loop

\* The dispatch of a new event keeps it.
LEMMA DispatchStep ==
  ASSUME LedgerType, LedgerType', LedgerInv, NEW e \in Events, Dispatch(e)
  PROVE  LedgerInv'
<1>1. /\ \A h \in Hooks : fate[<<e, h>>] = "new"
      /\ \A h \in Hooks : fate'[<<e, h>>] = IF h \in Matching THEN "due" ELSE "skipped"
      /\ \A d \in Deliveries : d[1] # e => fate'[d] = fate[d]
      /\ UNCHANGED <<jobs, worker, tries, answers, upset>>
  BY DEF Dispatch, Deliveries, rowVars
<1>2. task'[e] = After(Matching) /\ \A g \in Events \ {e} : task'[g] = task[g]
  BY DEF Dispatch, After, LoopTask, LedgerType
<1>3. Matching \subseteq Hooks /\ task[e].pc = "idle"
  BY DEF Matching, Dispatch, Idle
<1>4. \A h \in Hooks : tries[<<e, h>>] = 0 /\ answers[<<e, h>>] = 0 /\ <<e, h>> \notin upset
  BY <1>1 DEF LedgerInv, DueIsHeld
<1>5. DueIsHeld'
  <2> SUFFICES ASSUME NEW g \in Events, NEW k \in Hooks
               PROVE  /\ fate'[<<g, k>>] = "due" <=> k \in Waiting(task'[g]) \cup Serving(task'[g])
                      /\ fate'[<<g, k>>] = "new" => task'[g].pc = "idle"
                      /\ fate'[<<g, k>>] = "new" \/ k \in Waiting(task'[g]) =>
                           /\ tries'[<<g, k>>] = 0 /\ answers'[<<g, k>>] = 0
                           /\ <<g, k>> \notin upset'
    BY DEF DueIsHeld
  <2>1. CASE g = e
    BY <1>1, <1>2, <1>4, <2>1, InHand
  <2>2. CASE g # e
    <3>1. fate'[<<g, k>>] = fate[<<g, k>>]
      BY <1>1, <2>2 DEF Deliveries
    <3> QED BY <1>1, <1>2, <2>2, <3>1 DEF LedgerInv, DueIsHeld
  <2> QED BY <2>1, <2>2
<1>6. DirectTries'
  <2> SUFFICES ASSUME NEW g \in Events
               PROVE  /\ Waiting(task'[g]) \cap Serving(task'[g]) = {}
                      /\ task'[g].pc = "post" => tries'[<<g, task'[g].hook>>] = task'[g].attempt - 1
                      /\ task'[g].pc = "record" => /\ tries'[<<g, task'[g].hook>>] = task'[g].attempt
                                                   /\ answers'[<<g, task'[g].hook>>] > 0
    BY DEF DirectTries
  <2>1. CASE g = e
    BY <1>2, <2>1, InHand
  <2>2. CASE g # e
    BY <1>1, <1>2, <2>2 DEF LedgerInv, DirectTries
  <2> QED BY <2>1, <2>2
<1>7. NotAskedAgain'
  <2> SUFFICES ASSUME NEW x \in Deliveries, answers'[x] > 0, fate'[x] \in {"due", "queued"}
               PROVE  \/ x \in upset'
                      \/ \E g \in Events : task'[g].pc = "record" /\ x = <<g, task'[g].hook>>
                      \/ worker'.pc = "record" /\ x = worker'.job.d
    BY DEF NotAskedAgain
  <2>1. x[1] # e
    BY <1>1, <1>4 DEF Deliveries
  <2>2. fate'[x] = fate[x]
    BY <1>1, <2>1
  <2>3. \A g \in Events : x = <<g, task[g].hook>> => task'[g] = task[g]
    BY <1>2, <2>1
  <2> QED BY <1>1, <2>2, <2>3 DEF LedgerInv, NotAskedAgain
<1>8. OneJobEach' /\ JobTries'
  <2>1. \A d \in Deliveries : fate[d] = "queued" => fate'[d] = fate[d]
    BY <1>1 DEF Deliveries
  <2>2. \A j \in Job : CountedBy(j, 0) => CountedBy(j, 0)'
    BY <1>1, <2>1 DEF CountedBy, Job
  <2>3. \A j \in Job : CountedBy(j, 1) => CountedBy(j, 1)'
    BY <1>1, <2>1 DEF CountedBy, Job
  <2>4. jobs \subseteq Job /\ (worker.pc # "idle" => worker.job \in Job)
    BY WorkerShape DEF LedgerType
  <2> QED BY <1>1, <2>2, <2>3, <2>4 DEF LedgerInv, OneJobEach, JobTries
<1> QED BY <1>5, <1>6, <1>7, <1>8 DEF LedgerInv

\* What a step of the worker with one queued delivery leaves as it is.
LEMMA WorkerKeeps ==
  ASSUME LedgerType, LedgerInv, NEW d \in Deliveries, fate[d] = "queued",
         fate'[d] \notin {"new", "due"}, task' = task, OnlyFor(d)
  PROVE  DueIsHeld' /\ DirectTries'
<1>1. DueIsHeld'
  <2> SUFFICES ASSUME NEW g \in Events, NEW k \in Hooks
               PROVE  /\ fate'[<<g, k>>] = "due" <=> k \in Waiting(task[g]) \cup Serving(task[g])
                      /\ fate'[<<g, k>>] = "new" => task[g].pc = "idle"
                      /\ fate'[<<g, k>>] = "new" \/ k \in Waiting(task[g]) =>
                           /\ tries'[<<g, k>>] = 0 /\ answers'[<<g, k>>] = 0
                           /\ <<g, k>> \notin upset'
    BY DEF DueIsHeld
  <2>1. <<g, k>> \in Deliveries
    BY DEF Deliveries
  <2>2. CASE <<g, k>> = d
    <3>1. k \notin Waiting(task[g]) \cup Serving(task[g])
      BY <2>2 DEF LedgerInv, DueIsHeld
    <3> QED BY <2>2, <3>1
  <2>3. CASE <<g, k>> # d
    BY <2>1, <2>3 DEF OnlyFor, LedgerInv, DueIsHeld
  <2> QED BY <2>2, <2>3
<1>2. DirectTries'
  <2> SUFFICES ASSUME NEW g \in Events
               PROVE  /\ Waiting(task[g]) \cap Serving(task[g]) = {}
                      /\ task[g].pc = "post" => tries'[<<g, task[g].hook>>] = task[g].attempt - 1
                      /\ task[g].pc = "record" => /\ tries'[<<g, task[g].hook>>] = task[g].attempt
                                                  /\ answers'[<<g, task[g].hook>>] > 0
    BY DEF DirectTries
  <2>1. ASSUME task[g].pc \in {"post", "record"} PROVE <<g, task[g].hook>> \in Deliveries \ {d}
    <3>1. task[g].hook \in Hooks /\ task[g].hook \in Serving(task[g])
      BY <2>1, TaskShape DEF LedgerType, Serving
    <3>2. fate[<<g, task[g].hook>>] = "due"
      BY <3>1 DEF LedgerInv, DueIsHeld
    <3> QED BY <3>1, <3>2 DEF Deliveries
  <2> QED BY <2>1 DEF OnlyFor, LedgerInv, DirectTries
<1> QED BY <1>1, <1>2

\* A job the worker has is the only one of its delivery.
LEMMA WorkersJob ==
  ASSUME LedgerType, LedgerInv, worker.pc \in {"post", "record"}
  PROVE  /\ worker.job \in Job /\ worker.job.d \in Deliveries /\ fate[worker.job.d] = "queued"
         /\ worker = [pc |-> worker.pc, job |-> worker.job]
         /\ \A j \in jobs : j \in Job /\ j.d # worker.job.d /\ fate[j.d] = "queued"
         /\ \A e \in Events : task[e].pc = "record" => worker.job.d # <<e, task[e].hook>>
<1>1. worker.job \in Job /\ worker = [pc |-> worker.pc, job |-> worker.job]
  BY WorkerShape DEF LedgerType
<1>2. fate[worker.job.d] = "queued"
  BY DEF LedgerInv, JobTries, CountedBy
<1>3. \A j \in jobs : j \in Job /\ j.d # worker.job.d /\ fate[j.d] = "queued"
  BY DEF LedgerType, LedgerInv, OneJobEach, JobTries, CountedBy
<1>4. ASSUME NEW e \in Events, task[e].pc = "record" PROVE worker.job.d # <<e, task[e].hook>>
  <2>1. task[e].hook \in Hooks /\ task[e].hook \in Serving(task[e])
    BY <1>4, TaskShape DEF LedgerType, Serving
  <2>2. fate[<<e, task[e].hook>>] = "due"
    BY <2>1 DEF LedgerInv, DueIsHeld
  <2> QED BY <1>2, <2>2
<1> QED BY <1>1, <1>2, <1>3, <1>4 DEF Job

\* The end of the worker's run of a job, which is sent, or has thrown.
Ends(j, counted) ==
  \/ fate' = [fate EXCEPT ![j.d] = "sent"] /\ jobs' = jobs
  \/ counted /\ JobThrows(j)

\* Ending a job keeps the invariant, if the job counted the try.
LEMMA EndsStep ==
  ASSUME LedgerType, LedgerInv, worker.pc \in {"post", "record"}, NEW j \in Job, j = worker.job,
         worker' = Idle, task' = task, NEW counted \in BOOLEAN, Ends(j, counted),
         \A x \in Deliveries \ {j.d} :
           tries'[x] = tries[x] /\ answers'[x] = answers[x] /\ (x \in upset' <=> x \in upset),
         counted => /\ j.made + 1 <= tries'[j.d] /\ tries'[j.d] <= j.made + 1 + j.stalls
                    /\ j.stalls > 0 => j.d \in upset'
                    /\ answers'[j.d] > 0 => j.d \in upset'
  PROVE  LedgerInv'
<1>1. /\ j.d \in Deliveries /\ fate[j.d] = "queued"
      /\ \A k \in jobs : k \in Job /\ k.d # j.d /\ k.d \in Deliveries /\ fate[k.d] = "queued"
  BY WorkersJob DEF Job
<1>2. /\ fate'[j.d] \in {"queued", "failed", "sent"}
      /\ \A x \in Deliveries \ {j.d} : fate'[x] = fate[x]
      /\ fate'[j.d] = "queued" => counted /\ jobs' = jobs \cup {[j EXCEPT !.made = @ + 1]}
      /\ fate'[j.d] # "queued" => jobs' = jobs
  BY <1>1 DEF Ends, JobThrows, LedgerType
<1>4. OnlyFor(j.d)
  BY <1>2 DEF OnlyFor
<1>5. DueIsHeld' /\ DirectTries'
  BY <1>1, <1>2, <1>4, WorkerKeeps
<1>6. worker'.pc = "idle"
  BY DEF Idle
<1>7. NotAskedAgain'
  <2> SUFFICES ASSUME NEW x \in Deliveries, answers'[x] > 0, fate'[x] \in {"due", "queued"}
               PROVE  x \in upset' \/ \E g \in Events : task'[g].pc = "record" /\ x = <<g, task'[g].hook>>
    BY DEF NotAskedAgain
  <2>1. CASE x = j.d
    BY <1>2, <2>1
  <2>2. CASE x # j.d
    BY <1>4, <2>2 DEF OnlyFor, LedgerInv, NotAskedAgain
  <2> QED BY <2>1, <2>2
<1>8. [j EXCEPT !.made = @ + 1].d = j.d
  BY DEF Job
<1>9. OneJobEach'
  <2>1. PICK k : k = [j EXCEPT !.made = @ + 1]
    OBVIOUS
  <2>2. k.d = j.d /\ (jobs' = jobs \/ jobs' = jobs \cup {k})
    BY <1>2, <1>8, <2>1
  <2> QED BY <1>1, <1>6, <2>2 DEF LedgerInv, OneJobEach
<1>10. JobTries'
  <2>1. ASSUME NEW i \in jobs PROVE CountedBy(i, 0)'
    BY <1>1, <1>4, <2>1 DEF OnlyFor, LedgerInv, JobTries, CountedBy
  <2>2. ASSUME fate'[j.d] = "queued" PROVE CountedBy([j EXCEPT !.made = @ + 1], 0)'
    <3>1. [j EXCEPT !.made = @ + 1].made = j.made + 1 /\ [j EXCEPT !.made = @ + 1].stalls = j.stalls
          /\ j.made \in Int
      BY DEF Job
    <3> QED BY <1>2, <1>8, <2>2, <3>1 DEF CountedBy
  <2> QED BY <1>2, <1>6, <2>1, <2>2 DEF JobTries
<1> QED BY <1>5, <1>7, <1>9, <1>10 DEF LedgerInv

\* A step of the worker keeps the invariant.
LEMMA WorkerStep ==
  ASSUME LedgerType, LedgerType', LedgerInv, Worker
  PROVE  LedgerInv'
<1>1. ASSUME NEW j \in jobs, Take(j) PROVE LedgerInv'
  <2>1. /\ jobs' = jobs \ {j} /\ worker' = [pc |-> "post", job |-> j] /\ worker.pc = "idle"
        /\ UNCHANGED <<task, fate, tries, answers, upset>>
    BY <1>1 DEF Take, ledgerVars, Idle
  <2>2. DueIsHeld' /\ DirectTries'
    BY <2>1 DEF LedgerInv, DueIsHeld, DirectTries
  <2>3. NotAskedAgain'
    BY <2>1 DEF LedgerInv, NotAskedAgain
  <2>4. OneJobEach'
    BY <2>1 DEF LedgerInv, OneJobEach
  <2>5. JobTries'
    BY <2>1 DEF LedgerInv, JobTries, CountedBy
  <2> QED BY <2>2, <2>3, <2>4, <2>5 DEF LedgerInv
<1>2. ASSUME worker.pc = "post", JobPost PROVE LedgerInv'
  <2>1. PICK yes \in BOOLEAN :
          /\ Tried(worker.job.d, yes)
          /\ IF yes THEN worker' = [worker EXCEPT !.pc = "record"] /\ UNCHANGED <<jobs, fate>>
                    ELSE worker' = Idle /\ JobThrows(worker.job)
    BY <1>2, Zenon DEF JobPost
  <2>2. PICK j \in Job : j = worker.job
    BY <1>2, WorkersJob
  <2>3. /\ j.d \in Deliveries /\ fate[j.d] = "queued" /\ worker = [pc |-> "post", job |-> j]
        /\ \A k \in jobs : k \in Job /\ k.d # j.d /\ fate[k.d] = "queued"
        /\ \A e \in Events : task[e].pc = "record" => j.d # <<e, task[e].hook>>
    BY <1>2, <2>2, WorkersJob
  <2>4. /\ task' = task /\ upset' = upset /\ tries' = [tries EXCEPT ![j.d] = @ + 1]
        /\ \A x \in Deliveries \ {j.d} : answers'[x] = answers[x]
    BY <1>2, <2>1, <2>2, <2>3 DEF JobPost, Tried, LedgerType
  <2>5. CountedBy(j, 0) /\ (answers[j.d] > 0 => j.d \in upset)
    BY <1>2, <2>2, <2>3 DEF LedgerInv, JobTries, NotAskedAgain
  <2>6. /\ j.made + 1 <= tries'[j.d] /\ tries'[j.d] <= j.made + 1 + j.stalls
        /\ j.stalls > 0 => j.d \in upset'
    BY <2>3, <2>4, <2>5 DEF CountedBy, LedgerType, Job
  <2>7. CASE yes = FALSE
    <3>1. worker' = Idle /\ JobThrows(j) /\ answers' = answers
      BY <2>1, <2>2, <2>7 DEF Tried
    <3>2. Ends(j, TRUE)
      BY <3>1, Zenon DEF Ends
    <3>3. answers'[j.d] > 0 => j.d \in upset'
      BY <2>4, <2>5, <3>1
    <3>4. TRUE \in BOOLEAN
      OBVIOUS
    <3>5. \A x \in Deliveries \ {j.d} :
            tries'[x] = tries[x] /\ answers'[x] = answers[x] /\ (x \in upset' <=> x \in upset)
      BY <2>4, <3>1 DEF LedgerType
    <3> QED BY <1>2, <2>2, <2>4, <2>6, <3>1, <3>2, <3>3, <3>4, <3>5, EndsStep
  <2>8. CASE yes = TRUE
    <3>1. /\ worker' = [pc |-> "record", job |-> j] /\ UNCHANGED <<jobs, fate>>
          /\ answers'[j.d] > 0
      BY <2>1, <2>2, <2>3, <2>8 DEF Tried, LedgerType
    <3>2. OnlyFor(j.d)
      BY <2>4, <3>1 DEF OnlyFor, LedgerType
    <3>3. DueIsHeld' /\ DirectTries'
      BY <2>3, <2>4, <3>1, <3>2, WorkerKeeps
    <3>4. NotAskedAgain'
      BY <2>2, <2>3, <2>4, <3>1, <3>2 DEF OnlyFor, LedgerInv, NotAskedAgain
    <3>5. OneJobEach'
      BY <2>3, <3>1 DEF LedgerInv, OneJobEach
    <3>6. JobTries'
      <4>1. \A k \in jobs : CountedBy(k, 0)'
        BY <2>3, <3>2 DEF OnlyFor, LedgerInv, JobTries, CountedBy, Job
      <4>2. CountedBy(j, 1)'
        BY <2>3, <2>6, <3>1 DEF CountedBy
      <4> QED BY <3>1, <4>1, <4>2 DEF JobTries
    <3> QED BY <3>3, <3>4, <3>5, <3>6 DEF LedgerInv
  <2> QED BY <2>7, <2>8
<1>3. CASE JobRecord
  <2>1. worker.pc = "record" /\ worker' = Idle /\ UNCHANGED <<task, jobs, tries, answers, upset>>
        /\ fate' = [fate EXCEPT ![worker.job.d] = "sent"]
    BY <1>3 DEF JobRecord
  <2>2. worker.job \in Job /\ Ends(worker.job, FALSE)
    BY <2>1, WorkersJob DEF Ends
  <2>3. FALSE \in BOOLEAN
    OBVIOUS
  <2> QED BY <2>1, <2>2, <2>3, EndsStep
<1>4. CASE JobRecordFails
  <2>1. /\ worker.pc = "record" /\ worker' = Idle /\ UNCHANGED <<task, tries, answers>>
        /\ upset' = upset \cup {worker.job.d} /\ JobThrows(worker.job)
    BY <1>4 DEF JobRecordFails
  <2>2. worker.job \in Job /\ CountedBy(worker.job, 1)
    BY <2>1, WorkersJob DEF LedgerInv, JobTries
  <2>3. Ends(worker.job, TRUE)
    BY <2>1, Zenon DEF Ends
  <2>4. /\ worker.job.made + 1 <= tries'[worker.job.d]
        /\ tries'[worker.job.d] <= worker.job.made + 1 + worker.job.stalls
        /\ worker.job.d \in upset'
    BY <2>1, <2>2 DEF CountedBy
  <2>5. TRUE \in BOOLEAN
    OBVIOUS
  <2> QED BY <2>1, <2>2, <2>3, <2>4, <2>5, EndsStep
<1> QED BY <1>1, <1>2, <1>3, <1>4 DEF Worker, JobPost

\* A crash keeps it: what was due is lost, and the worker's job is back in the
\* queue, with one stall more, or has failed.
LEMMA CrashStep ==
  ASSUME LedgerType, LedgerType', LedgerInv, Crash
  PROVE  LedgerInv'
<1> DEFINE again == worker.pc # "idle" /\ worker.job.stalls < MaxStalled
<1>0. PICK back : back = [worker.job EXCEPT !.stalls = @ + 1]
  OBVIOUS
<1>1. worker.pc = "idle" <=> worker = Idle
  BY WorkerShape DEF LedgerType
<1>2. /\ task' = [e \in Events |-> Idle] /\ worker' = Idle /\ UNCHANGED <<tries, answers>>
      /\ \A d \in Deliveries : fate[d] = "due" => fate'[d] = "lost"
      /\ \A d \in Deliveries : /\ fate[d] # "due" => fate'[d] \in {fate[d], "failed"}
                               /\ fate[d] # "due" /\ ~(worker.pc # "idle" /\ d = worker.job.d)
                                    => fate'[d] = fate[d]
                               /\ fate[d] # "due" /\ again => fate'[d] = fate[d]
  BY <1>1 DEF Crash
<1>3. /\ \A d \in Deliveries : d \in upset' <=> \/ d \in upset \/ fate[d] = "due"
                                                \/ worker.pc # "idle" /\ d = worker.job.d
      /\ again => jobs' = jobs \cup {back}
      /\ ~again => jobs' = jobs
  BY <1>0, <1>1 DEF Crash
<1>4. worker.pc # "idle" =>
        /\ worker.job \in Job /\ worker.job.d \in Deliveries /\ fate[worker.job.d] = "queued"
        /\ \A j \in jobs : j.d # worker.job.d
        /\ back.d = worker.job.d /\ back.made = worker.job.made
        /\ back.stalls = worker.job.stalls + 1
  <2>1. worker.pc # "idle" => worker.pc \in {"post", "record"}
    BY WorkerShape DEF LedgerType
  <2> QED BY <1>0, <2>1, WorkersJob DEF Job
<1>5. worker'.pc = "idle" /\ \A e \in Events : task'[e] = Idle
  BY <1>2 DEF Idle
<1>6. DueIsHeld'
  <2> SUFFICES ASSUME NEW g \in Events, NEW k \in Hooks
               PROVE  /\ fate'[<<g, k>>] # "due"
                      /\ fate'[<<g, k>>] = "new" =>
                           /\ tries'[<<g, k>>] = 0 /\ answers'[<<g, k>>] = 0
                           /\ <<g, k>> \notin upset'
    BY ZenonT(60), <1>5, InHand DEF DueIsHeld
  <2>1. <<g, k>> \in Deliveries
    BY DEF Deliveries
  <2>2. fate'[<<g, k>>] # "due" /\ (fate'[<<g, k>>] = "new" => fate[<<g, k>>] = "new")
    BY <1>2, <2>1
  <2> QED BY <1>2, <1>3, <1>4, <2>1, <2>2 DEF LedgerInv, DueIsHeld
<1>7. DirectTries'
  BY <1>5, InHand DEF DirectTries
<1>8. NotAskedAgain'
  <2> SUFFICES ASSUME NEW x \in Deliveries, answers'[x] > 0, fate'[x] \in {"due", "queued"}
               PROVE  x \in upset'
    BY DEF NotAskedAgain
  <2>1. fate[x] = "queued" /\ answers[x] > 0
    BY <1>2
  <2>2. \A e \in Events : task[e].pc = "record" => x # <<e, task[e].hook>>
    <3> SUFFICES ASSUME NEW e \in Events, task[e].pc = "record", x = <<e, task[e].hook>>
                 PROVE  FALSE
      OBVIOUS
    <3>1. task[e].hook \in Hooks /\ task[e].hook \in Serving(task[e])
      BY TaskShape DEF LedgerType, Serving
    <3> QED BY <2>1, <3>1 DEF LedgerInv, DueIsHeld
  <2> QED BY <1>3, <2>1, <2>2 DEF LedgerInv, NotAskedAgain
<1>9. OneJobEach'
  BY <1>3, <1>4, <1>5 DEF LedgerInv, OneJobEach
<1>10. JobTries'
  <2>1. ASSUME NEW j \in jobs PROVE CountedBy(j, 0)'
    <3>1. CountedBy(j, 0) /\ j.d \in Deliveries /\ (worker.pc # "idle" => j.d # worker.job.d)
      BY <1>4, <2>1 DEF LedgerInv, JobTries, LedgerType, Job
    <3>2. fate'[j.d] = "queued" /\ (j.d \in upset => j.d \in upset')
      BY <1>2, <1>3, <3>1 DEF CountedBy
    <3> QED BY <1>2, <3>1, <3>2 DEF CountedBy
  <2>2. ASSUME again PROVE CountedBy(back, 0)'
    <3>1. CountedBy(worker.job, 0) \/ CountedBy(worker.job, 1)
      BY <2>2, WorkerShape DEF LedgerInv, JobTries, LedgerType
    <3>2. fate'[worker.job.d] = "queued" /\ worker.job.d \in upset'
      BY <1>2, <1>3, <1>4, <2>2
    <3>3. worker.job.made \in Int /\ worker.job.stalls \in Int /\ tries[worker.job.d] \in Int
      BY <1>4, <2>2, TryLimit DEF Job, LedgerType
    <3>4. /\ back.made + 0 <= tries'[back.d] /\ tries'[back.d] <= back.made + 0 + back.stalls
          /\ fate'[back.d] = "queued" /\ back.d \in upset'
      BY <1>2, <1>4, <2>2, <3>1, <3>2, <3>3 DEF CountedBy
    <3> QED BY <3>4 DEF CountedBy
  <2> QED BY <1>3, <1>5, <2>1, <2>2 DEF JobTries
<1> QED BY <1>6, <1>7, <1>8, <1>9, <1>10 DEF LedgerInv

\* Every step keeps the ledger's invariant.
LEMMA LedgerInvStep == LedgerType /\ LedgerInv /\ [Next]_vars => LedgerType' /\ LedgerInv'
<1> SUFFICES ASSUME LedgerType, LedgerInv, [Next]_vars PROVE LedgerInv'
  BY LedgerTypeStep
<1>0. LedgerType'
  BY LedgerTypeStep
<1>1. CASE Edit \/ UNCHANGED vars
  <2>1. UNCHANGED <<task, jobs, worker, ledgerVars>>
    BY <1>1 DEF Edit, Create, EditRead, EditLook, EditSave, vars
  <2>2. UNCHANGED <<task, jobs, worker, fate, tries, answers, upset>>
    BY <2>1 DEF ledgerVars
  <2> QED BY <2>2 DEF LedgerInv, DueIsHeld, DirectTries, NotAskedAgain, OneJobEach, JobTries, CountedBy
<1>2. ASSUME NEW e \in Events, Dispatch(e) \/ Loop(e) PROVE LedgerInv'
  BY <1>0, <1>2, DispatchStep, LoopStep
<1>3. CASE Worker
  BY <1>0, <1>3, WorkerStep
<1>4. CASE Crash
  BY <1>0, <1>4, CrashStep
<1> QED BY <1>1, <1>2, <1>3, <1>4 DEF Next

\* It holds before anything was dispatched.
LEMMA LedgerInvInit == Init => LedgerType /\ LedgerInv
<1> SUFFICES ASSUME Init PROVE LedgerType /\ LedgerInv
  OBVIOUS
<1>1. LedgerType
  BY TaskMade, WorkerMade DEF Init, LedgerType, Promise!Fates
<1>2. \A d \in Deliveries : fate[d] = "new" /\ tries[d] = 0 /\ answers[d] = 0 /\ d \notin upset
  BY DEF Init
<1>3. worker.pc = "idle" /\ jobs = {} /\ \A e \in Events : task[e] = Idle
  BY DEF Init, Idle
<1>4. DueIsHeld /\ DirectTries
  BY <1>2, <1>3, InHand DEF DueIsHeld, DirectTries, Deliveries
<1>5. NotAskedAgain /\ OneJobEach /\ JobTries
  BY <1>2, <1>3 DEF NotAskedAgain, OneJobEach, JobTries
<1> QED BY <1>1, <1>4, <1>5 DEF LedgerInv

\* The ledger's invariant holds throughout.
LEMMA LedgerInvariant == Spec => [](LedgerType /\ LedgerInv)
BY LedgerInvInit, LedgerInvStep, PTL DEF Spec
-----------------------------------------------------------------------------
(* The steps as moves of Delivery.                                         *)

\* What a step makes of one delivery, from <<f, t, a, u>> to <<g, s, b, v>>.
Way(f, t, a, u, g, s, b, v) ==
  LET open == f \in {"due", "queued"}
      allowed == open /\ (t < Attempts \/ (u /\ t < Attempts + MaxStalled)) /\ (a > 0 => u)
      kept == s = t /\ b = a
      same == kept /\ (u <=> v)
  IN \/ f = "new" /\ g \in {"due", "skipped"} /\ same
     \/ f = "due" /\ g = "queued" /\ kept /\ (u => v)
     \/ f = "due" /\ g = "skipped" /\ t = 0 /\ same
     \/ f = "due" /\ g = "lost" /\ kept /\ v
     \/ open /\ g = "sent" /\ a > 0 /\ same
     \/ open /\ g = "failed" /\ kept /\ v
     \/ open /\ g = f /\ kept /\ v
     \/ allowed /\ g = f /\ s = t + 1 /\ b \in {a, a + 1} /\ (u <=> v)
     \/ allowed /\ g = "failed" /\ s = t + 1 /\ s >= Attempts /\ b = a /\ (u <=> v)

\* Each of them is a move of Delivery.
LEMMA WayIsMove ==
  ASSUME NEW e \in Promise!Entry, NEW x \in Promise!Entry,
         Way(e.fate, e.tries, e.answers, e.upset, x.fate, x.tries, x.answers, x.upset)
  PROVE  Promise!Move(e, x)
<1> DEFINE kept == x.tries = e.tries /\ x.answers = e.answers
           same == kept /\ (e.upset <=> x.upset)
           open == e.fate \in {"due", "queued"}
           allowed == /\ open /\ (e.answers > 0 => e.upset)
                      /\ \/ e.tries < Attempts
                         \/ e.upset /\ e.tries < Attempts + MaxStalled
<1>0. Attempts \in Nat /\ MaxStalled \in Nat
  BY TryLimit
<1>1. CASE e.fate = "new" /\ x.fate \in {"due", "skipped"} /\ same
  <2>1. x = [e EXCEPT !.fate = x.fate]
    BY <1>1 DEF Promise!Entry
  <2> QED BY <1>1, <2>1 DEF Promise!Move, Promise!Accept
<1>2. CASE e.fate = "due" /\ x.fate = "queued" /\ kept /\ (e.upset => x.upset)
  <2>1. x = [e EXCEPT !.fate = "queued", !.upset = x.upset] /\ x.upset \in {e.upset, TRUE}
    BY <1>2 DEF Promise!Entry
  <2> QED BY <1>2, <2>1 DEF Promise!Move, Promise!Enqueue
<1>3. CASE e.fate = "due" /\ x.fate = "skipped" /\ e.tries = 0 /\ same
  <2>1. x = [e EXCEPT !.fate = "skipped"]
    BY <1>3 DEF Promise!Entry
  <2> QED BY <1>3, <2>1 DEF Promise!Move, Promise!Drop
<1>4. CASE e.fate = "due" /\ x.fate = "lost" /\ kept /\ x.upset
  <2>1. x = [e EXCEPT !.fate = "lost", !.upset = TRUE]
    BY <1>4 DEF Promise!Entry
  <2> QED BY <1>4, <2>1 DEF Promise!Move, Promise!Lose
<1>5. CASE open /\ x.fate = "sent" /\ e.answers > 0 /\ same
  <2>1. x = [e EXCEPT !.fate = "sent"]
    BY <1>5 DEF Promise!Entry
  <2> QED BY <1>5, <2>1 DEF Promise!Move, Promise!Succeed, Promise!Open
<1>6. CASE open /\ x.fate = "failed" /\ kept /\ x.upset
  <2>1. x = [e EXCEPT !.fate = "failed", !.upset = x.upset]
    BY <1>6 DEF Promise!Entry
  <2> QED BY <1>6, <2>1 DEF Promise!Move, Promise!Fail, Promise!Open
<1>7. CASE open /\ x.fate = e.fate /\ kept /\ x.upset
  <2>1. x = [e EXCEPT !.upset = TRUE]
    BY <1>7 DEF Promise!Entry
  <2> QED BY <1>7, <2>1 DEF Promise!Move, Promise!Suffer, Promise!Open
<1>8. ASSUME allowed, NEW m \in Promise!Entry, NEW n \in {0, 1},
             m = [e EXCEPT !.tries = @ + 1, !.answers = @ + n]
      PROVE  Promise!Try(e, m)
  <2>1. e.tries < Attempts + (IF e.upset THEN MaxStalled ELSE 0)
    BY <1>0, <1>8 DEF Promise!Entry
  <2> QED BY <1>8, <2>1 DEF Promise!Try, Promise!Open
<1>9. CASE /\ allowed /\ x.fate = e.fate /\ x.tries = e.tries + 1
           /\ x.answers \in {e.answers, e.answers + 1} /\ (e.upset <=> x.upset)
  <2>1. PICK n \in {0, 1} : x.answers = e.answers + n
    BY <1>9 DEF Promise!Entry
  <2>2. x = [e EXCEPT !.tries = @ + 1, !.answers = @ + n]
    BY <1>9, <2>1 DEF Promise!Entry
  <2>3. Promise!Try(e, x)
    BY <1>8, <1>9, <2>2
  <2> QED BY <2>3 DEF Promise!Move
<1>10. CASE /\ allowed /\ x.fate = "failed" /\ x.tries = e.tries + 1 /\ x.tries >= Attempts
            /\ x.answers = e.answers /\ (e.upset <=> x.upset)
  <2>1. PICK m : m = [e EXCEPT !.tries = @ + 1]
    OBVIOUS
  <2>2. m \in Promise!Entry
    BY <2>1 DEF Promise!Entry
  <2>3. Promise!Try(e, m)
    <3>1. m.fate = e.fate /\ m.tries = e.tries + 1 /\ m.answers = e.answers + 0
      BY <2>1 DEF Promise!Entry
    <3>2. m.upset = e.upset
      BY <2>1 DEF Promise!Entry
    <3>3. m = [e EXCEPT !.tries = @ + 1, !.answers = @ + 0]
      BY <2>2, <3>1, <3>2 DEF Promise!Entry
    <3> QED BY <1>8, <1>10, <2>2, <3>3
  <2>4. m.fate = e.fate /\ m.tries = x.tries /\ m.answers = x.answers
    BY <1>10, <2>1 DEF Promise!Entry
  <2>5. m.upset = x.upset
    BY <1>10, <2>1 DEF Promise!Entry
  <2>6. x = [m EXCEPT !.fate = "failed", !.upset = x.upset]
    BY <1>10, <2>2, <2>4 DEF Promise!Entry
  <2>7. m.tries >= Attempts /\ (m.answers = 0 \/ x.upset)
    BY <1>10, <2>4 DEF Promise!Entry
  <2>8. Promise!Fail(m, x)
    BY <1>10, <2>2, <2>4, <2>5, <2>6, <2>7 DEF Promise!Fail, Promise!Open
  <2> QED BY <2>1, <2>3, <2>8 DEF Promise!Move, Promise!TryAndFail
<1> QED BY <1>1, <1>2, <1>3, <1>4, <1>5, <1>6, <1>7, <1>9, <1>10 DEF Way

\* A delivery goes its way, or stays as it is.
Moves(d) == Way(fate[d], tries[d], answers[d], d \in upset,
                fate'[d], tries'[d], answers'[d], d \in upset')
Stays(d) == /\ fate'[d] = fate[d] /\ tries'[d] = tries[d] /\ answers'[d] = answers[d]
            /\ d \in upset' <=> d \in upset

\* Its entry in the ledger does the same.
LEMMA EntryMoves ==
  ASSUME LedgerType, LedgerType', NEW d \in Deliveries, Moves(d) \/ Stays(d)
  PROVE  Ledger'[d] = Ledger[d] \/ Promise!Move(Ledger[d], Ledger'[d])
<1>1. PICK e : e = Ledger[d]
  OBVIOUS
<1>2. PICK x : x = Ledger'[d]
  OBVIOUS
<1>3. /\ e \in Promise!Entry
      /\ e.fate = fate[d] /\ e.tries = tries[d] /\ e.answers = answers[d]
      /\ e.upset <=> d \in upset
  <2>1. e = [fate |-> fate[d], tries |-> tries[d], answers |-> answers[d],
              upset |-> d \in upset]
    BY <1>1, Zenon DEF Ledger
  <2>2. e.upset = (d \in upset)
    BY <2>1, Zenon
  <2>3. e \in Promise!Entry
    <3>1. /\ fate[d] \in Promise!Fates /\ tries[d] \in Nat /\ answers[d] \in Nat
          /\ (d \in upset) \in BOOLEAN
      BY DEF LedgerType
    <3> QED BY <2>1, <3>1, Zenon DEF Promise!Entry
  <2>4. e.fate = fate[d] /\ e.tries = tries[d] /\ e.answers = answers[d]
    BY <2>1, Zenon
  <2> QED BY <2>2, <2>3, <2>4
<1>4. /\ x \in Promise!Entry
      /\ x.fate = fate'[d] /\ x.tries = tries'[d] /\ x.answers = answers'[d]
      /\ x.upset <=> d \in upset'
  <2>1. x = [fate |-> fate'[d], tries |-> tries'[d], answers |-> answers'[d],
              upset |-> d \in upset']
    BY <1>2, Zenon DEF Ledger
  <2>2. x.upset = (d \in upset')
    BY <2>1, Zenon
  <2>3. x \in Promise!Entry
    <3>1. /\ fate'[d] \in Promise!Fates /\ tries'[d] \in Nat /\ answers'[d] \in Nat
          /\ (d \in upset') \in BOOLEAN
      BY DEF LedgerType
    <3> QED BY <2>1, <3>1, Zenon DEF Promise!Entry
  <2>4. x.fate = fate'[d] /\ x.tries = tries'[d] /\ x.answers = answers'[d]
    BY <2>1, Zenon
  <2> QED BY <2>2, <2>3, <2>4
<1>5. CASE Moves(d)
  <2>1. Way(e.fate, e.tries, e.answers, e.upset, x.fate, x.tries, x.answers, x.upset)
    BY <1>3, <1>4, <1>5 DEF Moves, Way
  <2> QED BY <1>1, <1>2, <1>3, <1>4, <2>1, WayIsMove
<1>6. CASE Stays(d)
  <2>1. x = e
    BY <1>3, <1>4, <1>6 DEF Stays, Promise!Entry
  <2> QED BY <1>1, <1>2, <2>1
<1> QED BY <1>5, <1>6

\* Where only d changes, and d goes its way, every delivery does.
LEMMA OneMoves ==
  ASSUME NEW d, OnlyFor(d), d \in Deliveries => Moves(d) \/ Stays(d)
  PROVE  \A x \in Deliveries : Moves(x) \/ Stays(x)
BY DEF OnlyFor, Stays

\* The steps of a dispatch move the delivery they deal with.
LEMMA LoopMoves ==
  ASSUME LedgerType, LedgerType', LedgerInv, NEW e \in Events, Loop(e)
  PROVE  \A d \in Deliveries : Moves(d) \/ Stays(d)
<1>1. CASE Cancelled(e) \/ Enqueue(e) \/ EnqueueFails(e) \/ DeliverBegin(e)
  <2>1. PICK h \in Hooks, S \in SUBSET Hooks :
          Drops(e, h, S) \/ HandsOver(e, h, S) \/ Loses(e, h, S) \/ Begins(e, h, S)
    BY <1>1, CancelledEffect, EnqueueEffect, EnqueueFailsEffect, DeliverBeginEffect
  <2>2. task[e] = LoopTask(S \cup {h})
    BY <2>1 DEF Drops, HandsOver, Loses, Begins
  <2>3. tries[<<e, h>>] = 0 /\ fate[<<e, h>>] = "due"
    BY <2>2, InHand DEF LedgerInv, DueIsHeld
  <2>4. PICK d \in Deliveries : d = <<e, h>>
    BY DEF Deliveries
  <2>5. OnlyFor(d)
    BY <2>1, <2>4 DEF Drops, HandsOver, Loses, Begins, OnlyFor, LedgerType
  <2>6. CASE Drops(e, h, S) \/ HandsOver(e, h, S)
    <3>1. /\ tries' = tries /\ answers' = answers
          /\ \/ fate'[d] = "skipped" /\ upset' = upset
             \/ fate'[d] = "queued" /\ upset \subseteq upset'
      BY <2>4, <2>6 DEF Drops, HandsOver, LedgerType
    <3>2. Moves(d)
      BY <2>3, <2>4, <3>1 DEF Moves, Way
    <3> QED BY <2>5, <3>2, OneMoves
  <2>7. CASE Loses(e, h, S)
    <3>1. fate'[d] = "lost" /\ tries' = tries /\ answers' = answers /\ d \in upset'
      BY <2>4, <2>7 DEF Loses, LedgerType
    <3>2. Moves(d)
      BY <2>3, <2>4, <3>1 DEF Moves, Way
    <3> QED BY <2>5, <3>2, OneMoves
  <2>8. CASE Begins(e, h, S)
    BY <2>8 DEF Begins, Stays
  <2> QED BY <2>1, <2>6, <2>7, <2>8
<1>2. CASE Post(e) \/ Record(e) \/ RecordFails(e)
  <2>1. PICK h \in Hooks, S \in SUBSET Hooks, a \in 1 .. Attempts :
          Posts(e, h, S, a) \/ Records(e, h, S, a) \/ Misses(e, h, S, a)
    BY <1>2, PostEffect, RecordEffect, RecordFailsEffect
  <2>2. PICK p \in {"post", "record"} : task[e] = ServeTask(p, S, h, a)
    BY <2>1 DEF Posts, Records, Misses
  <2>3. task[e].pc = p /\ task[e].hook = h /\ task[e].attempt = a /\ Serving(task[e]) = {h}
    BY <2>2, InHand
  <2>4. PICK d \in Deliveries : d = <<e, h>>
    BY DEF Deliveries
  <2>5. /\ fate[d] = "due"
        /\ p = "post" => tries[d] = a - 1
        /\ p = "record" => answers[d] > 0
    BY <2>3, <2>4 DEF LedgerInv, DirectTries, DueIsHeld
  <2>6. OnlyFor(d)
    BY <2>1, <2>4 DEF Posts, Records, Misses, Again, OnlyFor, LedgerType
  <2>7. CASE Posts(e, h, S, a)
    <3>1. p = "post"
      BY <2>3, <2>7 DEF Posts, ServeTask
    <3>2. answers[d] > 0 => d \in upset
      <4>1. worker.pc = "record" => worker.job.d # d
        BY <2>5 DEF LedgerInv, JobTries, CountedBy
      <4>2. \A g \in Events : task[g].pc = "record" => d # <<g, task[g].hook>>
        BY <2>3, <2>4, <3>1
      <4> QED BY <2>5, <4>1, <4>2 DEF LedgerInv, NotAskedAgain
    <3>3. /\ tries[d] \in Nat /\ tries[d] < Attempts
          /\ tries'[d] = tries[d] + 1 /\ tries'[d] = a /\ upset' = upset
      BY <2>4, <2>5, <2>7, <3>1, TryLimit DEF Posts, LedgerType
    <3>4. \/ fate'[d] = fate[d] /\ answers'[d] \in {answers[d], answers[d] + 1}
          \/ fate'[d] = "failed" /\ answers'[d] = answers[d] /\ a >= Attempts
      BY <2>4, <2>7 DEF Posts, Again, LedgerType
    <3>5. Moves(d)
      BY <2>5, <3>2, <3>3, <3>4 DEF Moves, Way
    <3> QED BY <2>6, <3>5, OneMoves
  <2>8. CASE Records(e, h, S, a)
    <3>1. /\ p = "record" /\ fate'[d] = "sent"
          /\ tries' = tries /\ answers' = answers /\ upset' = upset
      BY <2>3, <2>4, <2>8 DEF Records, ServeTask, LedgerType
    <3>2. Moves(d)
      BY <2>5, <3>1 DEF Moves, Way
    <3> QED BY <2>6, <3>2, OneMoves
  <2>9. CASE Misses(e, h, S, a)
    <3>1. /\ fate'[d] \in {fate[d], "failed"} /\ d \in upset'
          /\ tries' = tries /\ answers' = answers
      BY <2>4, <2>9 DEF Misses, Again, LedgerType
    <3>2. Moves(d)
      BY <2>5, <3>1 DEF Moves, Way
    <3> QED BY <2>6, <3>2, OneMoves
  <2> QED BY <2>1, <2>7, <2>8, <2>9
<1> QED BY <1>1, <1>2 DEF Loop

\* A job that threw: its delivery stays queued, or has failed.
LEMMA ThrowsEffect ==
  ASSUME LedgerType, NEW j \in Job, JobThrows(j)
  PROVE  /\ \A x \in Deliveries \ {j.d} : fate'[x] = fate[x]
         /\ fate'[j.d] = fate[j.d] \/ (fate'[j.d] = "failed" /\ j.made + 1 >= Attempts)
BY TryLimit, JobThrown DEF JobPutBack, LedgerType, Job

\* The steps of the worker move the delivery of its job.
LEMMA WorkerMoves ==
  ASSUME LedgerType, LedgerType', LedgerInv, Worker
  PROVE  \A d \in Deliveries : Moves(d) \/ Stays(d)
<1>1. ASSUME NEW j \in jobs, Take(j) PROVE \A d \in Deliveries : Stays(d)
  BY <1>1 DEF Take, ledgerVars, Stays
<1>2. CASE JobPost \/ JobRecord \/ JobRecordFails
  <2>1. worker.pc \in {"post", "record"}
    BY <1>2 DEF JobPost, JobRecord, JobRecordFails
  <2>2. PICK j \in Job : j = worker.job
    BY <2>1, WorkersJob
  <2>3. PICK d \in Deliveries : d = j.d
    BY DEF Job
  <2>4. fate[d] = "queued" /\ \A e \in Events : task[e].pc = "record" => d # <<e, task[e].hook>>
    BY <2>1, <2>2, <2>3, WorkersJob
  <2>5. CASE worker.pc = "post" /\ JobPost
    <3>1. PICK yes \in BOOLEAN :
            /\ Tried(d, yes)
            /\ IF yes THEN worker' = [worker EXCEPT !.pc = "record"] /\ UNCHANGED <<jobs, fate>>
                      ELSE worker' = Idle /\ JobThrows(j)
      BY <2>2, <2>3, <2>5, Zenon DEF JobPost
    <3>2. CountedBy(j, 0) /\ (answers[d] > 0 => d \in upset)
      BY <2>2, <2>3, <2>4, <2>5 DEF LedgerInv, JobTries, NotAskedAgain
    <3>3. /\ tries' = [tries EXCEPT ![d] = @ + 1] /\ upset' = upset
          /\ \A x \in Deliveries \ {d} : answers'[x] = answers[x]
          /\ answers'[d] \in {answers[d], answers[d] + 1}
      BY <2>5, <3>1 DEF JobPost, Tried, LedgerType
    <3>4. /\ \A x \in Deliveries \ {d} : fate'[x] = fate[x]
          /\ \/ fate'[d] = fate[d]
             \/ fate'[d] = "failed" /\ answers' = answers /\ j.made + 1 >= Attempts
      <4>1. CASE yes = TRUE
        BY <3>1, <4>1
      <4>2. CASE yes = FALSE
        <5>1. JobThrows(j) /\ answers' = answers
          BY <3>1, <4>2 DEF Tried
        <5> QED BY <2>3, <5>1, ThrowsEffect
      <4> QED BY <4>1, <4>2
    <3>5. OnlyFor(d)
      BY <3>3, <3>4 DEF OnlyFor, LedgerType
    <3>6. /\ tries[d] \in Nat /\ tries'[d] = tries[d] + 1
          /\ j.made \in 0 .. Attempts - 1 /\ j.stalls \in 0 .. MaxStalled
          /\ j.made <= tries[d] /\ tries[d] <= j.made + j.stalls
          /\ j.stalls > 0 => d \in upset
      BY <2>3, <3>2, <3>3 DEF LedgerType, Job, CountedBy
    <3>7. tries[d] < Attempts \/ (d \in upset /\ tries[d] < Attempts + MaxStalled)
      BY <3>6, TryLimit
    <3>8. j.made + 1 >= Attempts => tries'[d] >= Attempts
      BY <3>6, TryLimit
    <3>9. Moves(d)
      BY <2>4, <3>2, <3>3, <3>4, <3>6, <3>7, <3>8 DEF Moves, Way
    <3> QED BY <3>5, <3>9, OneMoves
  <2>6. CASE JobRecord
    <3>1. /\ fate' = [fate EXCEPT ![d] = "sent"] /\ UNCHANGED <<tries, answers, upset>>
          /\ worker.pc = "record"
      BY <2>2, <2>3, <2>6 DEF JobRecord
    <3>2. answers[d] > 0
      BY <2>2, <2>3, <3>1 DEF LedgerInv, JobTries
    <3>3. Moves(d)
      BY <2>4, <3>1, <3>2 DEF Moves, Way, LedgerType
    <3>4. OnlyFor(d)
      BY <3>1 DEF OnlyFor, LedgerType
    <3> QED BY <3>3, <3>4, OneMoves
  <2>7. CASE JobRecordFails
    <3>1. JobThrows(j) /\ upset' = upset \cup {d} /\ UNCHANGED <<tries, answers>>
      BY <2>2, <2>3, <2>7 DEF JobRecordFails
    <3>2. /\ \A x \in Deliveries \ {d} : fate'[x] = fate[x]
          /\ fate'[d] = fate[d] \/ fate'[d] = "failed"
      BY <2>3, <3>1, ThrowsEffect
    <3>3. Moves(d)
      BY <2>4, <3>1, <3>2 DEF Moves, Way
    <3>4. OnlyFor(d)
      BY <3>1, <3>2 DEF OnlyFor, LedgerType
    <3> QED BY <3>3, <3>4, OneMoves
  <2> QED BY <1>2, <2>5, <2>6, <2>7 DEF JobPost
<1> QED BY <1>1, <1>2 DEF Worker

\* A crash loses what is due; the worker's job is back or has failed.
LEMMA CrashMoves ==
  ASSUME LedgerType, LedgerType', LedgerInv, Crash, NEW d \in Deliveries
  PROVE  Moves(d) \/ Stays(d)
<1>1. worker.pc # "idle" => worker # Idle /\ worker.pc \in {"post", "record"}
  BY WorkerShape DEF LedgerType
<1>2. worker # Idle => worker.pc # "idle"
  BY WorkerShape DEF LedgerType
<1>3. tries' = tries /\ answers' = answers
  BY DEF Crash
<1>4. CASE fate[d] = "due"
  <2>1. fate'[d] = "lost" /\ d \in upset'
    BY <1>4 DEF Crash
  <2> QED BY <1>3, <1>4, <2>1 DEF Moves, Way
<1>5. CASE worker # Idle /\ d = worker.job.d
  <2>1. fate[d] = "queued"
    BY <1>1, <1>2, <1>5, WorkersJob
  <2>2. fate'[d] \in {fate[d], "failed"} /\ d \in upset'
    BY <1>5, <2>1 DEF Crash
  <2> QED BY <1>3, <2>1, <2>2 DEF Moves, Way
<1>6. CASE fate[d] # "due" /\ ~(worker # Idle /\ d = worker.job.d)
  <2>1. fate'[d] = fate[d] /\ (d \in upset' <=> d \in upset)
    BY <1>6 DEF Crash
  <2> QED BY <1>3, <2>1 DEF Stays
<1> QED BY <1>4, <1>5, <1>6

\* Every step moves deliveries as Delivery allows, or leaves them alone.
LEMMA PromiseStep ==
  ASSUME LedgerType, LedgerInv, [Next]_vars
  PROVE  [Promise!Next]_Ledger
<1>1. LedgerType'
  BY LedgerTypeStep
<1>2. ASSUME NEW d \in Deliveries PROVE Moves(d) \/ Stays(d)
  <2>1. CASE Edit \/ UNCHANGED vars
    <3>1. UNCHANGED ledgerVars
      BY <2>1 DEF Edit, Create, EditRead, EditLook, EditSave, vars
    <3> QED BY <3>1 DEF ledgerVars, Stays
  <2>2. ASSUME NEW e \in Events, Dispatch(e) PROVE Moves(d) \/ Stays(d)
    <3>1. UNCHANGED <<tries, answers, upset>>
      BY <2>2 DEF Dispatch
    <3>2. CASE d[1] = e
      <4>1. fate[d] = "new" /\ fate'[d] \in {"due", "skipped"}
        BY <2>2, <3>2 DEF Dispatch, Deliveries
      <4> QED BY <3>1, <4>1 DEF Moves, Way
    <3>3. CASE d[1] # e
      <4>1. fate'[d] = fate[d]
        BY <2>2, <3>3 DEF Dispatch
      <4> QED BY <3>1, <4>1 DEF Stays
    <3> QED BY <3>2, <3>3
  <2>3. ASSUME NEW e \in Events, Loop(e) PROVE Moves(d) \/ Stays(d)
    BY <1>1, <2>3, LoopMoves
  <2>4. CASE Worker
    BY <1>1, <2>4, WorkerMoves
  <2>5. CASE Crash
    BY <1>1, <2>5, CrashMoves
  <2> QED BY <2>1, <2>2, <2>3, <2>4, <2>5 DEF Next
<1>3. \A d \in Deliveries : Ledger'[d] = Ledger[d] \/ Promise!Move(Ledger[d], Ledger'[d])
  BY <1>1, <1>2, EntryMoves
<1>4. Ledger' \in [Deliveries -> Promise!Entry]
  <2>1. \A d \in Deliveries : [fate |-> fate'[d], tries |-> tries'[d], answers |-> answers'[d],
                               upset |-> d \in upset'] \in Promise!Entry
    <3> SUFFICES ASSUME NEW d \in Deliveries
                 PROVE  [fate |-> fate'[d], tries |-> tries'[d], answers |-> answers'[d],
                         upset |-> d \in upset'] \in Promise!Entry
      OBVIOUS
    <3>1. /\ fate'[d] \in Promise!Fates /\ tries'[d] \in Nat /\ answers'[d] \in Nat
          /\ (d \in upset') \in BOOLEAN
      BY <1>1 DEF LedgerType
    <3> QED BY <3>1, Zenon DEF Promise!Entry
  <2> QED BY <2>1, Zenon DEF Ledger
<1> QED BY <1>3, <1>4 DEF Promise!Next

\* Before anything was dispatched every delivery is fresh.
LEMMA PromiseInit == Init => Promise!Init
<1> SUFFICES ASSUME Init PROVE Promise!Init
  OBVIOUS
<1>1. ASSUME NEW d \in Deliveries
      PROVE  [fate |-> fate[d], tries |-> tries[d], answers |-> answers[d], upset |-> d \in upset]
               = Promise!Fresh
  <2>1. fate[d] = "new" /\ tries[d] = 0 /\ answers[d] = 0 /\ (d \in upset) = FALSE
    BY DEF Init
  <2> QED BY <2>1, Zenon DEF Promise!Fresh
<1> QED BY <1>1, Zenon DEF Promise!Init, Ledger

\* With the queue and without it, however the receiver answers and whatever
\* fails or crashes: a webhook is tried no more often than Delivery allows,
\* counts as sent only when the receiver said so, as failed only when its
\* attempts are used up, and once in the queue it is not lost.
THEOREM DeliveryImplemented == Spec => ImplementsDelivery
<1>1. LedgerType /\ LedgerInv /\ [Next]_vars => [Promise!Next]_Ledger
  BY PromiseStep
<1> QED BY <1>1, PromiseInit, LedgerInvariant, PTL DEF Spec, ImplementsDelivery, Promise!Spec

-----------------------------------------------------------------------------
(* Switched-off webhooks.                                                  *)

\* What the requests that edit webhooks keep.
LEMMA SilentStep == RowType /\ SilentIsOff /\ [Next]_vars => RowType' /\ SilentIsOff'
<1> SUFFICES ASSUME RowType, SilentIsOff, [Next]_vars PROVE RowType' /\ SilentIsOff'
  OBVIOUS
<1> DEFINE Row == {"none", "on", "off"}
           Request == [hook : Hooks, seen : {"on", "off"}, what : {"on", "off", "other", "delete"},
                        diff : {"unread", "all", "active", "rest"}]
<1>0. /\ rows \in [Hooks -> Row] /\ edit \in [Requests -> {Idle} \cup Request]
      /\ silent \in SUBSET Hooks /\ crossed \in SUBSET Hooks
  BY DEF RowType
<1>i. \A q \in Request : q # Idle
  BY DEF Idle
<1>1. ASSUME NEW h \in Hooks, Create(h) PROVE RowType' /\ SilentIsOff'
  <2>1. /\ rows' = [rows EXCEPT ![h] = "on"] /\ silent' = silent \ {h}
        /\ edit' = edit /\ crossed' = crossed /\ Editing(h) = {}
    BY <1>1 DEF Create
  <2>2. \A k \in Hooks : Editing(k)' = Editing(k)
    BY <2>1 DEF Editing
  <2>3. RowType'
    BY <1>0, <2>1 DEF RowType
  <2>4. SilentIsOff'
    BY <1>0, <2>1, <2>2 DEF SilentIsOff
  <2> QED BY <2>3, <2>4
<1>2. ASSUME NEW r \in Requests, NEW h \in Hooks, NEW what \in {"on", "off", "other", "delete"},
             EditRead(r, h, what)
      PROVE  RowType' /\ SilentIsOff'
  <2>1. PICK q : q = [hook |-> h, seen |-> rows[h], what |-> what, diff |-> "unread"]
    OBVIOUS
  <2>2. /\ edit[r] = Idle /\ edit' = [edit EXCEPT ![r] = q]
        /\ crossed' = IF Editing(h) = {} THEN crossed ELSE crossed \cup {h}
        /\ rows' = rows /\ silent' = silent /\ rows[h] # "none"
    BY <1>2, <2>1 DEF EditRead
  <2>3. q \in Request /\ q.hook = h /\ q.seen = rows[h] /\ q.diff = "unread" /\ q # Idle
    BY <1>0, <1>i, <2>1, <2>2
  <2>4. RowType'
    BY <1>0, <2>2, <2>3 DEF RowType
  <2>5. Editing(h)' = Editing(h) \cup {r}
    BY <1>0, <2>2, <2>3 DEF Editing
  <2>6. \A k \in Hooks \ {h} : Editing(k)' = Editing(k)
    BY <1>0, <2>2, <2>3 DEF Editing
  <2>7. \A k \in Hooks : r \notin Editing(k)
    BY <2>2 DEF Editing
  <2>8. edit'[r] = q /\ \A p \in Requests \ {r} : edit'[p] = edit[p]
    BY <1>0, <2>2
  <2>9. \A k \in Hooks : Editing(k) \subseteq Requests
    BY DEF Editing
  <2>10. SilentIsOff'
    <3> SUFFICES ASSUME NEW k \in Hooks \ crossed'
                 PROVE  /\ k \in silent => rows[k] # "on"
                        /\ \A p, o \in Editing(k)' : p = o
                        /\ \A p \in Editing(k)' : Uncrossed(edit'[p], rows[k])
      BY <2>2 DEF SilentIsOff
    <3>1. k \in Hooks \ crossed
      BY <2>2
    <3>2. CASE k = h
      <4>1. Editing(h) = {}
        BY <2>2, <3>2
      <4> QED BY <2>2, <2>3, <2>5, <2>8, <3>1, <3>2, <4>1 DEF SilentIsOff, Uncrossed
    <3>3. CASE k # h
      BY <2>6, <2>7, <2>8, <2>9, <3>1, <3>3 DEF SilentIsOff
    <3> QED BY <3>2, <3>3
  <2> QED BY <2>4, <2>10
<1>3. ASSUME NEW r \in Requests, EditSave(r) PROVE RowType' /\ SilentIsOff'
  <2>1. PICK q \in Request : q = edit[r]
    BY <1>0, <1>3 DEF EditSave
  <2>2. PICK to : to = Written(q, rows[q.hook])
    OBVIOUS
  <2>3. /\ rows' = [rows EXCEPT ![q.hook] = to]
        /\ edit' = [edit EXCEPT ![r] = Idle] /\ crossed' = crossed
        /\ q.what = "delete" \/ q.diff # "unread"
    BY <1>3, <2>1, <2>2 DEF EditSave
  <2>r. to \in Row
    BY <1>0, <2>1, <2>2 DEF Written, Entity
  <2>4. silent' = CASE q.what \in {"off", "delete"} -> silent \cup {q.hook}
                    [] q.what = "on" -> silent \ {q.hook}
                    [] OTHER -> silent
    BY <1>3, <2>1 DEF EditSave
  <2>5. silent' \in SUBSET Hooks
    BY <1>0, <2>1, <2>4
  <2>6. Uncrossed(q, rows[q.hook]) /\ (q.hook \in silent => rows[q.hook] # "on")
          => (q.hook \in silent' => to # "on")
    <3> SUFFICES ASSUME Uncrossed(q, rows[q.hook]), q.hook \in silent => rows[q.hook] # "on",
                        q.hook \in silent'
                 PROVE  to # "on"
      OBVIOUS
    <3>1. rows[q.hook] # "none" /\ q.diff # "all" /\ (q.diff = "rest" => Entity(q) = rows[q.hook])
      BY <2>1 DEF Uncrossed
    <3>2. to = IF q.what = "delete" THEN "none" ELSE Entity(q)
      BY <2>1, <2>2, <2>3, <3>1 DEF Written
    <3>3. q.what # "on" /\ (q.what = "other" => q.hook \in silent)
      BY <2>1, <2>4
    <3> QED BY <2>1, <3>2, <3>3 DEF Entity, Uncrossed
  <2>7. \A k \in Hooks \ {q.hook} : k \in silent' <=> k \in silent
    BY <2>4
  <2>8. RowType'
    BY <1>0, <2>3, <2>5, <2>r DEF RowType
  <2>9. edit'[r] = Idle /\ \A p \in Requests \ {r} : edit'[p] = edit[p]
    BY <1>0, <2>3
  <2>10. /\ r \in Editing(q.hook) /\ q \in Request
         /\ \A k \in Hooks : Editing(k)' = Editing(k) \ {r}
         /\ \A k \in Hooks \ {q.hook} : r \notin Editing(k)
         /\ \A k \in Hooks : Editing(k) \subseteq Requests
    BY <1>i, <2>1, <2>9 DEF Editing
  <2>11. SilentIsOff'
    <3> SUFFICES ASSUME NEW k \in Hooks \ crossed
                 PROVE  /\ k \in silent' => rows'[k] # "on"
                        /\ \A p, o \in Editing(k)' : p = o
                        /\ \A p \in Editing(k)' : Uncrossed(edit'[p], rows'[k])
      BY <2>3 DEF SilentIsOff
    <3>1. CASE k = q.hook
      <4>1. Editing(k) = {r} /\ Uncrossed(q, rows[k]) /\ (k \in silent => rows[k] # "on")
        BY <2>1, <2>10, <3>1 DEF SilentIsOff
      <4>2. Editing(k)' = {} /\ rows'[k] = to
        BY <1>0, <2>3, <2>10, <3>1, <4>1
      <4> QED BY <2>6, <3>1, <4>1, <4>2
    <3>2. CASE k # q.hook
      <4>1. rows'[k] = rows[k]
        BY <1>0, <2>3, <3>2
      <4>2. r \notin Editing(k)
        BY <2>10, <3>2
      <4>3. Editing(k)' = Editing(k)
        BY <2>10, <4>2
      <4> QED BY <2>7, <2>9, <2>10, <3>2, <4>1, <4>2, <4>3 DEF SilentIsOff
    <3> QED BY <3>1, <3>2
  <2> QED BY <2>8, <2>11
<1>l. ASSUME NEW r \in Requests, EditLook(r) PROVE RowType' /\ SilentIsOff'
  <2>1. PICK q \in Request : q = edit[r] /\ q.hook \in Hooks
    BY <1>0, <1>l DEF EditLook
  <2>2. PICK f : f = IF rows[q.hook] = "none" THEN "all"
                     ELSE IF rows[q.hook] # Entity(q) THEN "active" ELSE "rest"
    OBVIOUS
  <2>3. /\ edit' = [edit EXCEPT ![r] = [q EXCEPT !.diff = f]]
        /\ UNCHANGED <<rows, silent, crossed>>
    BY <1>l, <2>1, <2>2 DEF EditLook
  <2>4. /\ [q EXCEPT !.diff = f] \in Request
        /\ [q EXCEPT !.diff = f].hook = q.hook /\ [q EXCEPT !.diff = f].seen = q.seen
        /\ [q EXCEPT !.diff = f].diff = f /\ Entity([q EXCEPT !.diff = f]) = Entity(q)
    BY <2>1, <2>2 DEF Entity
  <2>5. RowType'
    BY <1>0, <2>3, <2>4 DEF RowType
  <2>6. \A k \in Hooks : Editing(k)' = Editing(k)
    BY <1>0, <1>i, <2>1, <2>3, <2>4 DEF Editing
  <2>7. edit'[r] = [q EXCEPT !.diff = f] /\ \A p \in Requests \ {r} : edit'[p] = edit[p]
    BY <1>0, <2>3
  <2>8. Uncrossed(q, rows[q.hook]) => Uncrossed([q EXCEPT !.diff = f], rows[q.hook])
    BY <2>1, <2>2, <2>4 DEF Uncrossed
  <2>9. SilentIsOff'
    <3> SUFFICES ASSUME NEW k \in Hooks \ crossed
                 PROVE  /\ k \in silent => rows[k] # "on"
                        /\ \A p, o \in Editing(k) : p = o
                        /\ \A p \in Editing(k) : Uncrossed(edit'[p], rows[k])
      BY <2>3, <2>6 DEF SilentIsOff
    <3>1. ASSUME NEW p \in Editing(k) PROVE Uncrossed(edit'[p], rows[k])
      <4>1. Uncrossed(edit[p], rows[k]) /\ p \in Requests /\ edit[p].hook = k
        BY <3>1 DEF SilentIsOff, Editing
      <4> QED BY <2>1, <2>7, <2>8, <4>1
    <3> QED BY <3>1 DEF SilentIsOff
  <2> QED BY <2>5, <2>9
<1>4. CASE Crash
  <2>1. UNCHANGED <<rows, silent, crossed>> /\ edit' = [r \in Requests |-> Idle]
    BY <1>4 DEF Crash
  <2>2. \A k \in Hooks : Editing(k)' = {}
    BY <2>1 DEF Editing
  <2>3. RowType'
    BY <1>0, <2>1 DEF RowType
  <2> QED BY <2>1, <2>2, <2>3 DEF SilentIsOff
<1>5. CASE (\E e \in Events : Dispatch(e) \/ Loop(e)) \/ Worker \/ UNCHANGED vars
  <2>1. UNCHANGED rowVars
    BY <1>5 DEF Dispatch, Loop, Cancelled, Enqueue, EnqueueFails, DeliverBegin, Post, Record,
         RecordFails, Worker, Take, JobPost, JobRecord, JobRecordFails, vars
  <2>2. UNCHANGED <<rows, edit, silent, crossed>>
    BY <2>1 DEF rowVars
  <2>3. \A k \in Hooks : Editing(k)' = Editing(k)
    BY <2>2 DEF Editing
  <2>4. RowType'
    BY <1>0, <2>2 DEF RowType
  <2> QED BY <2>2, <2>3, <2>4 DEF SilentIsOff
<1> QED BY <1>1, <1>2, <1>3, <1>l, <1>4, <1>5 DEF Next, Edit

\* At first every webhook is on and nobody edits.
LEMMA SilentInit == Init => RowType /\ SilentIsOff
<1> SUFFICES ASSUME Init PROVE RowType /\ SilentIsOff
  OBVIOUS
<1>1. \A h \in Hooks : Editing(h) = {} /\ h \notin silent
  BY DEF Init, Editing
<1>2. RowType
  BY DEF Init, RowType
<1> QED BY <1>1, <1>2 DEF SilentIsOff

\* A dispatch, the worker and a crash make no other delivery due.
LEMMA DueWhenOn ==
  ASSUME LedgerType, LedgerInv, [Next]_vars, NEW d \in Deliveries, fate[d] = "new", fate'[d] = "due"
  PROVE  rows[d[2]] = "on"
<1>1. CASE Edit \/ UNCHANGED vars
  BY <1>1 DEF Edit, Create, EditRead, EditLook, EditSave, ledgerVars, vars
<1>2. ASSUME NEW e \in Events, Dispatch(e) PROVE rows[d[2]] = "on"
  <2>1. fate'[d] = IF d[1] # e THEN fate[d] ELSE IF d[2] \in Matching THEN "due" ELSE "skipped"
    BY <1>2 DEF Dispatch
  <2>2. d[2] \in Matching
    BY <2>1
  <2> QED BY <2>2 DEF Matching
<1>3. ASSUME NEW e \in Events, Loop(e) PROVE FALSE
  <2>1. PICK h \in Hooks, S \in SUBSET Hooks, a \in 1 .. Attempts :
          \/ Drops(e, h, S) \/ HandsOver(e, h, S) \/ Loses(e, h, S) \/ Begins(e, h, S)
          \/ Posts(e, h, S, a) \/ Records(e, h, S, a) \/ Misses(e, h, S, a)
    <3>1. 1 \in 1 .. Attempts
      BY TryLimit
    <3> QED BY <1>3, <3>1, CancelledEffect, EnqueueEffect, EnqueueFailsEffect, DeliverBeginEffect,
               PostEffect, RecordEffect, RecordFailsEffect DEF Loop
  <2> QED BY <2>1 DEF Drops, HandsOver, Loses, Begins, Posts, Records, Misses, Again, LedgerType
<1>4. CASE Worker
  <2>1. worker.pc \in {"post", "record"} => worker.job \in Job
    BY WorkersJob
  <2>2. fate'[d] \in {fate[d], "failed", "sent"}
    <3>1. ASSUME NEW j \in jobs, Take(j) PROVE fate' = fate
      BY <3>1 DEF Take, ledgerVars
    <3>2. CASE JobPost \/ JobRecordFails
      BY <2>1, <3>2, ThrowsEffect DEF JobPost, JobRecordFails
    <3>3. CASE JobRecord
      BY <3>3 DEF JobRecord, LedgerType
    <3> QED BY <1>4, <3>1, <3>2, <3>3 DEF Worker
  <2> QED BY <2>2
<1>5. CASE Crash
  <2>1. fate'[d] \in {fate[d], "failed", "lost"}
    BY <1>5 DEF Crash
  <2> QED BY <2>1
<1> QED BY <1>1, <1>2, <1>3, <1>4, <1>5 DEF Next

\* A webhook that was switched off or deleted gets no later event, whatever
\* requests, dispatches and crashes are under way, unless an edit that
\* overlapped wrote the old row back.
THEOREM OffMeansSilent == Spec => SwitchedOffIsSilent
<1>1. ASSUME LedgerType, LedgerInv, RowType, SilentIsOff, [Next]_vars
      PROVE  [\A d \in Deliveries : fate[d] = "new" /\ fate'[d] = "due" =>
                d[2] \notin silent \/ d[2] \in crossed]_vars
  <2> SUFFICES ASSUME NEW d \in Deliveries, fate[d] = "new", fate'[d] = "due"
               PROVE  d[2] \notin silent \/ d[2] \in crossed
    OBVIOUS
  <2>1. rows[d[2]] = "on" /\ d[2] \in Hooks
    BY <1>1, DueWhenOn DEF Deliveries
  <2> QED BY <1>1, <2>1 DEF SilentIsOff
<1>2. LedgerType /\ LedgerInv /\ RowType /\ SilentIsOff /\ [Next]_vars =>
        [\A d \in Deliveries : fate[d] = "new" /\ fate'[d] = "due" =>
           d[2] \notin silent \/ d[2] \in crossed]_vars
  BY <1>1
<1> QED BY <1>2, LedgerInvariant, SilentInit, SilentStep, PTL DEF Spec, SwitchedOffIsSilent

-----------------------------------------------------------------------------
(* What the promise comes to.                                              *)

\* A delivery tells what became of it.
Truthful(e) ==
  /\ e.fate \in {"new", "skipped"} => e.tries = 0
  /\ e.fate = "sent" => e.answers > 0
  /\ e.fate = "failed" => e.upset \/ (e.tries >= Attempts /\ e.answers = 0)
  /\ e.fate = "lost" => e.upset
  /\ e.tries <= Attempts + (IF e.upset THEN MaxStalled ELSE 0)
  /\ e.answers <= e.tries /\ (e.answers > 1 => e.upset)

\* It does so after a try as well.
LEMMA TryIsTruthful ==
  ASSUME NEW e \in Promise!Entry, NEW x, Truthful(e), Promise!Try(e, x)
  PROVE  /\ x \in Promise!Entry /\ Truthful(x)
         /\ x.fate = e.fate /\ x.fate \in Promise!Open /\ x.upset = e.upset
<1>1. PICK yes \in {0, 1} : x = [e EXCEPT !.tries = @ + 1, !.answers = @ + yes]
  BY DEF Promise!Try
<1>2. /\ x.fate = e.fate /\ x.upset = e.upset
      /\ x.tries = e.tries + 1 /\ x.answers = e.answers + yes /\ x \in Promise!Entry
  <2>1. x.fate = e.fate /\ x.tries = e.tries + 1 /\ x.answers = e.answers + yes
    BY <1>1 DEF Promise!Entry
  <2>2. x.upset = e.upset
    BY <1>1 DEF Promise!Entry
  <2>3. PICK m : m = [e EXCEPT !.tries = @ + 1]
    OBVIOUS
  <2>4. m \in Promise!Entry /\ m.answers = e.answers
    BY <2>3 DEF Promise!Entry
  <2>5. x = [m EXCEPT !.answers = @ + yes]
    BY <1>1, <2>3, <2>4
  <2>6. x \in Promise!Entry
    BY <2>4, <2>5 DEF Promise!Entry
  <2> QED BY <2>1, <2>2, <2>6
<1>3. /\ e.fate \in Promise!Open /\ (e.answers > 0 => e.upset)
      /\ e.tries < Attempts + (IF e.upset THEN MaxStalled ELSE 0)
  BY DEF Promise!Try
<1>4. x.answers > 1 => x.upset
  BY <1>2, <1>3 DEF Promise!Entry
<1>5. x.tries <= Attempts + (IF x.upset THEN MaxStalled ELSE 0)
  BY <1>2, <1>3, TryLimit DEF Promise!Entry
<1> QED BY <1>2, <1>3, <1>4, <1>5 DEF Truthful, Promise!Entry, Promise!Open

\* It does so after every move, and a delivery at its end does not move.
LEMMA MoveIsTruthful ==
  ASSUME NEW e \in Promise!Entry, NEW x \in Promise!Entry, Promise!Move(e, x)
  PROVE  e.fate \in {"new", "due", "queued"} /\ (Truthful(e) => Truthful(x))
<1>0. Attempts \in Nat \ {0} /\ MaxStalled \in Nat
  BY TryLimit
<1>1. CASE Promise!Accept(e, x) \/ Promise!Drop(e, x)
  BY <1>1 DEF Promise!Accept, Promise!Drop, Promise!Entry, Truthful
<1>e. CASE Promise!Enqueue(e, x)
  <2>1. /\ e.fate = "due" /\ x.fate = "queued" /\ (e.upset => x.upset)
        /\ x.tries = e.tries /\ x.answers = e.answers
    BY <1>e DEF Promise!Enqueue, Promise!Entry
  <2> QED BY <1>0, <2>1 DEF Truthful, Promise!Entry
<1>2. CASE Promise!Lose(e, x) \/ Promise!Suffer(e, x)
  <2>1. /\ e.fate \in {"due", "queued"} /\ x.fate \in {e.fate, "lost"} /\ x.upset
        /\ x.tries = e.tries /\ x.answers = e.answers
    BY <1>2 DEF Promise!Lose, Promise!Suffer, Promise!Open, Promise!Entry
  <2> QED BY <1>0, <2>1 DEF Truthful, Promise!Entry
<1>3. CASE Promise!Succeed(e, x)
  BY <1>3 DEF Promise!Succeed, Promise!Open, Promise!Entry, Truthful
<1>4. ASSUME NEW m \in Promise!Entry, Promise!Fail(m, x)
      PROVE  m.fate \in {"due", "queued"} /\ (Truthful(m) => Truthful(x))
  <2>1. /\ x.fate = "failed" /\ x.tries = m.tries /\ x.answers = m.answers
        /\ (m.upset => x.upset) /\ (x.upset \/ (m.tries >= Attempts /\ m.answers = 0))
        /\ m.fate \in {"due", "queued"}
    BY <1>4 DEF Promise!Fail, Promise!Open, Promise!Entry
  <2> QED BY <1>0, <2>1 DEF Truthful, Promise!Entry
<1>5. CASE Promise!Fail(e, x)
  BY <1>4, <1>5
<1>6. CASE Promise!Try(e, x)
  BY <1>6, TryIsTruthful DEF Promise!Open, Promise!Try
<1>7. CASE Promise!TryAndFail(e, x)
  <2>1. PICK m : m = [e EXCEPT !.tries = @ + 1] /\ Promise!Try(e, m) /\ Promise!Fail(m, x)
    BY <1>7 DEF Promise!TryAndFail
  <2>2. e.fate \in {"due", "queued"}
    BY <2>1 DEF Promise!Try, Promise!Open
  <2>3. m \in Promise!Entry
    BY <2>1 DEF Promise!Entry
  <2> QED BY <1>4, <2>1, <2>2, <2>3, TryIsTruthful
<1> QED BY <1>1, <1>e, <1>2, <1>3, <1>5, <1>6, <1>7 DEF Promise!Move

\* Delivery's invariant, entry by entry.
Kept == /\ Ledger \in [Deliveries -> Promise!Entry]
        /\ \A d \in Deliveries : Truthful(Ledger[d])

\* It holds at first, and no step of Delivery breaks it.
LEMMA KeptInit == Promise!Init => Kept
<1> SUFFICES ASSUME Promise!Init PROVE Kept
  OBVIOUS
<1>1. Promise!Fresh \in Promise!Entry /\ Truthful(Promise!Fresh)
  BY TryLimit DEF Promise!Fresh, Promise!Entry, Promise!Fates, Truthful
<1>2. Ledger = [d \in Deliveries |-> Promise!Fresh]
  BY DEF Promise!Init
<1> QED BY <1>1, <1>2, Zenon DEF Kept

LEMMA KeptStep == Kept /\ [Promise!Next]_Ledger => Kept'
<1> SUFFICES ASSUME Kept, [Promise!Next]_Ledger PROVE Kept'
  OBVIOUS
<1>1. CASE Ledger' = Ledger
  BY <1>1 DEF Kept
<1>2. CASE Promise!Next
  <2>1. Ledger' \in [Deliveries -> Promise!Entry]
    BY <1>2 DEF Promise!Next
  <2>2. ASSUME NEW d \in Deliveries PROVE Truthful(Ledger'[d])
    <3>1. Ledger'[d] = Ledger[d] \/ Promise!Move(Ledger[d], Ledger'[d])
      BY <1>2 DEF Promise!Next
    <3>2. Ledger[d] \in Promise!Entry /\ Ledger'[d] \in Promise!Entry /\ Truthful(Ledger[d])
      BY <2>1 DEF Kept
    <3> QED BY <3>1, <3>2, MoveIsTruthful
  <2> QED BY <2>1, <2>2 DEF Kept
<1> QED BY <1>1, <1>2

LEMMA KeptAlways == Spec => []Kept
<1>1. Promise!Spec => []Kept
  BY KeptInit, KeptStep, PTL DEF Promise!Spec
<1> QED BY <1>1, DeliveryImplemented, PTL DEF ImplementsDelivery

\* dispatch and process, queue or not: a delivery recorded as sent was answered
\* with a yes, one recorded as failed was refused at every attempt, no receiver
\* is tried once too often or asked again after its yes and none is given up,
\* unless the process failed meanwhile.
THEOREM DeliveriesAreHonest == Spec => []Promise!Honest
<1>1. Kept => Promise!Honest
  <2> SUFFICES ASSUME Kept, NEW d \in Deliveries PROVE Truthful(Ledger[d])
    BY DEF Promise!Honest, Truthful
  <2> QED BY DEF Kept
<1> QED BY <1>1, KeptAlways, PTL

\* dispatch, process and the restart of a stalled job: what was sent, has
\* failed, was skipped or is lost stays so, and its receiver is left alone.
THEOREM EndsAreFinal == Spec => Promise!EndIsTheEnd
<1>1. Kept /\ Kept' /\ [Promise!Next]_Ledger =>
        [\A d \in Deliveries : Ledger[d].fate \in {"skipped", "sent", "failed", "lost"}
           => Ledger'[d] = Ledger[d]]_Ledger
  <2> SUFFICES ASSUME Kept, Kept', [Promise!Next]_Ledger, NEW d \in Deliveries,
                      Ledger[d].fate \in {"skipped", "sent", "failed", "lost"}
               PROVE  Ledger'[d] = Ledger[d]
    OBVIOUS
  <2>1. CASE Promise!Next
    <3>1. Ledger'[d] = Ledger[d] \/ Promise!Move(Ledger[d], Ledger'[d])
      BY <2>1 DEF Promise!Next
    <3>2. Ledger[d] \in Promise!Entry /\ Ledger'[d] \in Promise!Entry
      BY DEF Kept
    <3> QED BY <3>1, <3>2, MoveIsTruthful
  <2> QED BY <2>1
<1> QED BY <1>1, KeptAlways, DeliveryImplemented, PTL
     DEF ImplementsDelivery, Promise!Spec, Promise!EndIsTheEnd

\* Nothing upsets a delivery but a step that counts as a failure.
LEMMA CalmStep == CalmUntilFault /\ [Next]_vars => CalmUntilFault'
<1> SUFFICES ASSUME CalmUntilFault, [Next]_vars PROVE CalmUntilFault'
  OBVIOUS
<1>1. CASE Edit \/ UNCHANGED vars
  BY <1>1 DEF CalmUntilFault, Edit, Create, EditRead, EditLook, EditSave, ledgerVars, vars
<1>2. ASSUME NEW e \in Events, Dispatch(e) \/ Loop(e) PROVE CalmUntilFault'
  BY <1>2 DEF CalmUntilFault, Fault, Dispatch, Loop, Cancelled, Enqueue, EnqueueFails, DeliverBegin,
       Post, Record, RecordFails, ledgerVars
<1>3. CASE Worker
  BY <1>3 DEF CalmUntilFault, Fault, Worker, Take, JobPost, JobRecord, JobRecordFails, ledgerVars
<1>4. CASE Crash
  BY <1>4 DEF CalmUntilFault, Fault, Crash
<1> QED BY <1>1, <1>2, <1>3, <1>4 DEF Next

\* Where nothing has failed yet, whatever is queued, edited or under way: what
\* was sent was answered exactly once, what has failed was refused at each of
\* its attempts (one where retryCount is 0), and nothing is lost.
THEOREM CalmDeliveries == Spec => []CalmIsExact
<1>1. Kept /\ CalmUntilFault => CalmIsExact
  <2> SUFFICES ASSUME Kept, CalmUntilFault, faults = 0, NEW d \in Deliveries
               PROVE  /\ fate[d] # "lost" /\ answers[d] <= 1 /\ tries[d] <= Attempts
                      /\ fate[d] = "sent" => answers[d] = 1
                      /\ fate[d] = "failed" => tries[d] = Attempts /\ answers[d] = 0
    BY DEF CalmIsExact
  <2>1. PICK e \in Promise!Entry : e = Ledger[d] /\ Truthful(e)
    BY DEF Kept
  <2>2. e.fate = fate[d] /\ e.tries = tries[d] /\ e.answers = answers[d] /\ e.upset = (d \in upset)
    BY <2>1, Zenon DEF Ledger
  <2>3. ~e.upset
    BY <2>2 DEF CalmUntilFault
  <2>4. e.tries \in Nat /\ e.answers \in Nat
    BY DEF Promise!Entry
  <2> QED BY <2>1, <2>2, <2>3, <2>4, TryLimit DEF Truthful
<1>2. Init => CalmUntilFault
  BY DEF Init, CalmUntilFault
<1> QED BY <1>1, <1>2, CalmStep, KeptAlways, PTL DEF Spec

\* Where one request is handled at a time, update and delete never cross, and
\* a webhook that was switched off or deleted gets no later event at all: what
\* SwitchedOffIsSilent excepts comes from overlapping requests alone.
THEOREM OffMeansSilentForSure == Slots <= 1 => (Spec => OffIsSilentForSure)
<1> SUFFICES ASSUME Slots <= 1 PROVE Spec => OffIsSilentForSure
  OBVIOUS
<1> DEFINE Apart == crossed = {}
           Silence == \A d \in Deliveries : fate[d] = "new" /\ fate'[d] = "due" => d[2] \notin silent
<1>1. Apart /\ [Next]_vars => Apart'
  <2> SUFFICES ASSUME Apart, [Next]_vars PROVE Apart'
    OBVIOUS
  <2>1. ASSUME NEW r \in Requests, NEW h \in Hooks,
               NEW what \in {"on", "off", "other", "delete"}, EditRead(r, h, what)
        PROVE  Apart'
    <3>1. Requests \subseteq {1} /\ edit[r] = Idle
      BY <2>1, WebhookAssumption DEF Requests, EditRead
    <3>2. Editing(h) = {}
      BY <3>1 DEF Editing
    <3> QED BY <2>1, <3>2 DEF EditRead
  <2>2. CASE \/ \E h \in Hooks : Create(h)
             \/ \E r \in Requests : EditLook(r) \/ EditSave(r)
             \/ \E e \in Events : Dispatch(e) \/ Loop(e)
             \/ Worker \/ Crash \/ UNCHANGED vars
    BY <2>2 DEF Create, EditLook, EditSave, Dispatch, Loop, Cancelled, Enqueue, EnqueueFails, DeliverBegin,
         Post, Record, RecordFails, Worker, Take, JobPost, JobRecord, JobRecordFails, Crash,
         rowVars, vars
  <2> QED BY <2>1, <2>2 DEF Next, Edit
<1>2. Init => Apart
  BY DEF Init
<1>3. Apart /\ [\A d \in Deliveries : fate[d] = "new" /\ fate'[d] = "due" =>
                  d[2] \notin silent \/ d[2] \in crossed]_vars => [Silence]_vars
  OBVIOUS
<1>4. Spec => []Apart
  BY <1>1, <1>2, PTL DEF Spec
<1> QED BY <1>3, <1>4, OffMeansSilent, PTL DEF SwitchedOffIsSilent, OffIsSilentForSure

-----------------------------------------------------------------------------
(* A dispatch comes to its end.                                            *)

PerHook == 2 * Attempts + 1

\* What each kind of task has left.
LEMMA LeftOf ==
  ASSUME IsFiniteSet(Hooks), NEW S \in SUBSET Hooks
  PROVE  /\ Cardinality(S) \in Nat
         /\ StepsLeft(After(S)) \in 0 .. (PerHook * Cardinality(S) + 1)
         /\ StepsLeft(LoopTask(S)) = PerHook * Cardinality(S) + 1
         /\ \A h \in Hooks, a \in 1 .. Attempts :
              /\ StepsLeft(ServeTask("post", S, h, a)) = PerHook * Cardinality(S) + 2 * (Attempts - a) + 3
              /\ StepsLeft(ServeTask("record", S, h, a)) = PerHook * Cardinality(S) + 2 * (Attempts - a) + 2
<1>1. IsFiniteSet(S) /\ Cardinality(S) \in Nat /\ (S = {} => Cardinality(S) = 0)
  BY FS_Subset, FS_CardinalityType, FS_EmptySet
<1>2. PICK n \in Nat : n = Cardinality(S)
  BY <1>1
<1>3. Attempts \in Nat /\ PerHook \in Nat /\ PerHook * n \in Nat /\ PerHook * 0 = 0
  BY TryLimit DEF PerHook
<1>4. StepsLeft(LoopTask(S)) = PerHook * n + 1
  BY <1>2, <1>3 DEF StepsLeft, LoopTask, PerHook
<1>5. StepsLeft(After(S)) \in 0 .. (PerHook * n + 1)
  <2>1. S = {} => StepsLeft(After(S)) = 0
    BY DEF StepsLeft, After, Idle
  <2> QED BY <1>1, <1>2, <1>3, <1>4, <2>1 DEF After
<1>6. ASSUME NEW h \in Hooks, NEW a \in 1 .. Attempts
      PROVE  /\ StepsLeft(ServeTask("post", S, h, a)) = PerHook * n + 2 * (Attempts - a) + 3
             /\ StepsLeft(ServeTask("record", S, h, a)) = PerHook * n + 2 * (Attempts - a) + 2
  BY <1>2, <1>3 DEF StepsLeft, ServeTask, PerHook
<1> QED BY <1>1, <1>2, <1>4, <1>5, <1>6

\* One webhook less is PerHook steps less.
LEMMA OneHookLess ==
  ASSUME IsFiniteSet(Hooks), NEW S \in SUBSET Hooks, NEW h \in Hooks, h \notin S
  PROVE  /\ PerHook \in Nat /\ PerHook = 2 * Attempts + 1
         /\ PerHook * Cardinality(S) \in Nat
         /\ PerHook * Cardinality(S \cup {h}) = PerHook * Cardinality(S) + PerHook
<1>1. /\ Cardinality(S) \in Nat /\ Cardinality(S \cup {h}) = Cardinality(S) + 1
  BY FS_Subset, FS_CardinalityType, FS_AddElement
<1>2. PerHook \in Nat /\ PerHook = 2 * Attempts + 1
  BY TryLimit DEF PerHook
<1>3. \A n, w \in Nat : w * (n + 1) = w * n + w /\ w * n \in Nat
  OBVIOUS
<1> QED BY <1>1, <1>2, <1>3

\* A step of the dispatch itself.
LEMMA LoopShrinks ==
  ASSUME IsFiniteSet(Hooks), LedgerType, NEW e \in Events, Loop(e)
  PROVE  StepsLeft(task'[e]) \in 0 .. (StepsLeft(task[e]) - 1)
<1>0. Attempts \in Nat \ {0}
  BY TryLimit
<1>1. CASE Cancelled(e) \/ Enqueue(e) \/ EnqueueFails(e) \/ DeliverBegin(e)
  <2>1. PICK h \in Hooks, S \in SUBSET Hooks :
          Drops(e, h, S) \/ HandsOver(e, h, S) \/ Loses(e, h, S) \/ Begins(e, h, S)
    BY <1>1, CancelledEffect, EnqueueEffect, EnqueueFailsEffect, DeliverBeginEffect
  <2>2. /\ task[e] = LoopTask(S \cup {h}) /\ h \notin S
        /\ task'[e] \in {After(S), ServeTask("post", S, h, 1)}
    BY <2>1 DEF Drops, HandsOver, Loses, Begins, LedgerType
  <2>3. S \cup {h} \in SUBSET Hooks /\ 1 \in 1 .. Attempts
    BY <1>0
  <2>4. PICK n \in Nat : n = PerHook * Cardinality(S)
    BY <2>2, OneHookLess
  <2>5. PICK n1 \in Nat : n1 = PerHook * Cardinality(S \cup {h}) /\ n1 = n + 2 * Attempts + 1
    BY <1>0, <2>2, <2>4, OneHookLess
  <2>6. StepsLeft(task[e]) = n1 + 1
    BY <2>2, <2>3, <2>5, LeftOf
  <2>7. /\ StepsLeft(After(S)) \in 0 .. (n + 1)
        /\ StepsLeft(ServeTask("post", S, h, 1)) = n + 2 * (Attempts - 1) + 3
    BY <2>3, <2>4, LeftOf
  <2> QED BY <1>0, <2>2, <2>5, <2>6, <2>7
<1>2. CASE Post(e) \/ Record(e) \/ RecordFails(e)
  <2>1. PICK h \in Hooks, S \in SUBSET Hooks, a \in 1 .. Attempts :
          Posts(e, h, S, a) \/ Records(e, h, S, a) \/ Misses(e, h, S, a)
    BY <1>2, PostEffect, RecordEffect, RecordFailsEffect
  <2>2. PICK n \in Nat : n = PerHook * Cardinality(S)
    BY <1>0, LeftOf DEF PerHook
  <2>3. /\ StepsLeft(After(S)) \in 0 .. (n + 1)
        /\ StepsLeft(ServeTask("post", S, h, a)) = n + 2 * (Attempts - a) + 3
        /\ StepsLeft(ServeTask("record", S, h, a)) = n + 2 * (Attempts - a) + 2
        /\ a < Attempts => StepsLeft(ServeTask("post", S, h, a + 1)) = n + 2 * (Attempts - (a + 1)) + 3
    BY <1>0, <2>2, LeftOf
  <2>4. \/ /\ task[e] = ServeTask("post", S, h, a)
           /\ \/ task'[e] \in {ServeTask("record", S, h, a), After(S)}
              \/ a < Attempts /\ task'[e] = ServeTask("post", S, h, a + 1)
        \/ /\ task[e] = ServeTask("record", S, h, a)
           /\ task'[e] = After(S) \/ (a < Attempts /\ task'[e] = ServeTask("post", S, h, a + 1))
    BY <2>1 DEF Posts, Records, Misses, Again, LedgerType
  <2> QED BY <1>0, <2>3, <2>4
<1> QED BY <1>1, <1>2 DEF Loop

\* A dispatch that is under way only gets shorter: no answer, failure, edit,
\* other dispatch or worker lengthens it, and each step of its own counts.  So
\* it comes to its end in a bounded number of them, however receivers answer.
THEOREM DispatchesEnd == IsFiniteSet(Hooks) => (Spec => DispatchShrinks)
<1> SUFFICES ASSUME IsFiniteSet(Hooks) PROVE Spec => DispatchShrinks
  OBVIOUS
<1> DEFINE Shrink == \A e \in Events : task[e].pc # "idle" /\ (Loop(e) \/ task'[e] # task[e]) =>
                       StepsLeft(task[e])' \in 0 .. (StepsLeft(task[e]) - 1)
<1>1. LedgerType /\ [Next]_vars => [Shrink]_vars
  <2> SUFFICES ASSUME LedgerType, [Next]_vars, NEW e \in Events, task[e].pc # "idle",
                      Loop(e) \/ task'[e] # task[e]
               PROVE  StepsLeft(task'[e]) \in 0 .. (StepsLeft(task[e]) - 1)
    BY DEF StepsLeft
  <2>1. CASE Loop(e)
    BY <2>1, LoopShrinks
  <2>2. CASE Crash
    <3>1. task'[e] = Idle /\ StepsLeft(Idle) = 0
      BY <2>2 DEF Crash, StepsLeft, Idle
    <3>2. StepsLeft(task[e]) \in Nat \ {0}
      <4>1. PICK S \in SUBSET Hooks : S = task[e].todo
        BY TaskShape DEF LedgerType
      <4>2. PICK n \in Nat : n = PerHook * Cardinality(S)
        BY LeftOf, TryLimit DEF PerHook
      <4>3. CASE task[e].pc = "loop"
        <5>1. task[e] = LoopTask(S)
          BY <4>1, <4>3, TaskShape DEF LedgerType
        <5> QED BY <4>2, <5>1, LeftOf
      <4>4. CASE task[e].pc \in {"post", "record"}
        <5>1. PICK h \in Hooks, a \in 1 .. Attempts :
                task[e] \in {ServeTask("post", S, h, a), ServeTask("record", S, h, a)}
          BY <4>1, <4>4, TaskShape DEF LedgerType
        <5>2. StepsLeft(task[e]) \in {n + 2 * (Attempts - a) + 3, n + 2 * (Attempts - a) + 2}
          BY <4>2, <5>1, LeftOf
        <5> QED BY <5>2, TryLimit
      <4> QED BY <4>3, <4>4, TaskShape DEF LedgerType
    <3> QED BY <3>1, <3>2
  <2>3. CASE Edit \/ Worker \/ UNCHANGED vars
    <3>1. task' = task
      BY <2>3 DEF Edit, Create, EditRead, EditLook, EditSave, Worker, Take, JobPost, JobRecord, JobRecordFails, vars
    <3> QED BY <2>1, <3>1
  <2>4. ASSUME NEW g \in Events, Dispatch(g) PROVE Loop(e)
    <3>1. task[g].pc = "idle" /\ task'[e] = task[e]
      BY <2>4 DEF Dispatch, Idle, LedgerType
    <3> QED BY <3>1
  <2>5. ASSUME NEW g \in Events, Loop(g) PROVE Loop(e)
    <3>1. g # e => task'[e] = task[e]
      <4>1. PICK t : task' = [task EXCEPT ![g] = t]
        <5>1. PICK h \in Hooks, S \in SUBSET Hooks, a \in 1 .. Attempts :
                \/ Drops(g, h, S) \/ HandsOver(g, h, S) \/ Loses(g, h, S) \/ Begins(g, h, S)
                \/ Posts(g, h, S, a) \/ Records(g, h, S, a) \/ Misses(g, h, S, a)
          <6>1. 1 \in 1 .. Attempts
            BY TryLimit
          <6> QED BY <2>5, <6>1, CancelledEffect, EnqueueEffect, EnqueueFailsEffect,
                     DeliverBeginEffect, PostEffect, RecordEffect, RecordFailsEffect DEF Loop
        <5> QED BY <5>1 DEF Drops, HandsOver, Loses, Begins, Posts, Records, Misses, Again
      <4> QED BY <4>1 DEF LedgerType
    <3> QED BY <2>5, <3>1
  <2> QED BY <2>1, <2>2, <2>3, <2>4, <2>5 DEF Next
<1> QED BY <1>1, LedgerInvariant, PTL DEF Spec, DispatchShrinks
=============================================================================
