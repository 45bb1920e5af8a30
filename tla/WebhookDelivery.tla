--------------------------- MODULE WebhookDelivery --------------------------
(***************************************************************************)
(* Webhooks of OpenWA: the rows and the requests that edit them, and the   *)
(* dispatch of an event to every active webhook of its session             *)
(* (webhook.service.ts), either by itself or through a BullMQ queue and    *)
(* its worker (webhook.processor.ts).                                      *)
(*                                                                         *)
(* A dispatch works from the rows it has read and runs beside the others;  *)
(* nobody awaits it.  Plugins may cancel a delivery, and their errors are  *)
(* swallowed (hook-manager.service.ts).                                    *)
(***************************************************************************)
EXTENDS Integers, FiniteSets

CONSTANTS Hooks,       \* webhooks of one session, all of them for all events
          Events,      \* messages received
          RetryCount,  \* retryCount of each webhook; 0 is allowed (webhook.dto.ts)
          MaxStalled,  \* how often BullMQ runs a job again whose worker died
          Slots,       \* bound: requests that edit webhooks, under way at once
          MaxEdits,    \* bound: requests altogether
          MaxFaults    \* bound: failures of the database or the queue, crashes

ASSUME WebhookAssumption ==
  {RetryCount, MaxStalled, Slots, MaxEdits, MaxFaults} \subseteq Nat

\* How often a receiver is tried: retryCount counts the first attempt, and
\* the first attempt is made even when it is 0.
Attempts == IF RetryCount = 0 THEN 1 ELSE RetryCount

VARIABLES queued,    \* queue.enabled, read once
          rows,      \* Webhook rows: "none", "on" (active), "off"
          edit,      \* what each request is doing
          task,      \* the dispatch of each event
          jobs,      \* the queue: waiting and delayed jobs
          worker,    \* what the worker is doing
          fate,      \* what has become of each delivery
          edits, faults,            \* bounded counters
          \* history, never read by the code
          tries, answers, upset,    \* requests sent, answered with 2xx; failures met
          silent, crossed           \* webhooks last switched off or deleted; edits overlapped

ledgerVars == <<fate, tries, answers, upset>>
rowVars == <<rows, edit, edits, silent, crossed>>
vars == <<queued, rowVars, task, jobs, worker, ledgerVars, faults>>

Requests == 1 .. Slots
Deliveries == Events \X Hooks
Idle == [pc |-> "idle"]
Settled == {"skipped", "sent", "failed", "lost"}

Init ==
  /\ queued \in BOOLEAN
  /\ rows = [h \in Hooks |-> "on"]
  /\ edit = [r \in Requests |-> Idle]
  /\ task = [e \in Events |-> Idle]
  /\ jobs = {}
  /\ worker = Idle
  /\ fate = [d \in Deliveries |-> "new"]
  /\ edits = 0 /\ faults = 0
  /\ tries = [d \in Deliveries |-> 0] /\ answers = [d \in Deliveries |-> 0] /\ upset = {}
  /\ silent = {} /\ crossed = {}

Fault == faults < MaxFaults /\ faults' = faults + 1

(***************************************************************************)
(* The rows.  update and delete look a row up, change the entity and write *)
(* it.  save looks at the row again and then writes the columns in which   *)
(* the entity differs, or inserts the entity if the row is gone.           *)
(***************************************************************************)
Editing(h) == {r \in Requests : edit[r] # Idle /\ edit[r].hook = h}
Ask == edits < MaxEdits /\ edits' = edits + 1

Create(h) ==
  /\ rows[h] = "none" /\ Editing(h) = {} /\ h \notin crossed
  /\ Ask
  /\ rows' = [rows EXCEPT ![h] = "on"]
  /\ silent' = silent \ {h}
  /\ UNCHANGED <<queued, edit, crossed, task, jobs, worker, ledgerVars, faults>>

\* findOne; `what` is "on" or "off", "other" for a change of another column.
EditRead(r, h, what) ==
  /\ rows[h] # "none"
  /\ edit[r] = Idle /\ \A q \in 1 .. (r - 1) : edit[q] # Idle
  /\ Ask
  /\ crossed' = IF Editing(h) = {} THEN crossed ELSE crossed \cup {h}
  /\ edit' = [edit EXCEPT ![r] = [hook |-> h, seen |-> rows[h], what |-> what, diff |-> "unread"]]
  /\ UNCHANGED <<queued, rows, silent, task, jobs, worker, ledgerVars, faults>>
\* `active` as the entity has it.
Entity(q) == IF q.what = "other" THEN q.seen ELSE q.what
EditLook(r) ==
  /\ edit[r] # Idle /\ edit[r].what # "delete" /\ edit[r].diff = "unread"
  /\ LET row == rows[edit[r].hook]
     IN edit' = [edit EXCEPT ![r].diff = IF row = "none" THEN "all"
                                         ELSE IF row # Entity(edit[r]) THEN "active" ELSE "rest"]
  /\ UNCHANGED <<queued, rows, edits, silent, crossed, task, jobs, worker, ledgerVars, faults>>
\* An UPDATE of a row that is gone, and an INSERT of one that is back, write nothing.
Written(q, row) ==
  IF q.what = "delete" THEN "none"
  ELSE IF q.diff = (IF row = "none" THEN "all" ELSE "active") THEN Entity(q) ELSE row
EditSave(r) ==
  /\ edit[r] # Idle
  /\ LET h == edit[r].hook
         what == edit[r].what
     IN /\ what = "delete" \/ edit[r].diff # "unread"
        /\ rows' = [rows EXCEPT ![h] = Written(edit[r], @)]
        /\ silent' = CASE what \in {"off", "delete"} -> silent \cup {h}
                       [] what = "on" -> silent \ {h}
                       [] OTHER -> silent
  /\ edit' = [edit EXCEPT ![r] = Idle]
  /\ UNCHANGED <<queued, edits, crossed, task, jobs, worker, ledgerVars, faults>>

(***************************************************************************)
(* dispatch: the active webhooks, one after the other.                     *)
(***************************************************************************)
Decide(e, h, f) == fate' = [fate EXCEPT ![<<e, h>>] = f]
\* Fault: webhooks that are switched off are served as well.
Matching_Inactive == {h \in Hooks : rows[h] # "none"}

Matching == {h \in Hooks : rows[h] = "on"}
Dispatch(e) ==
  /\ task[e] = Idle /\ \A h \in Hooks : fate[<<e, h>>] = "new"
  /\ fate' = [d \in Deliveries |->
                IF d[1] # e THEN fate[d] ELSE IF d[2] \in Matching THEN "due" ELSE "skipped"]
  /\ task' = [task EXCEPT ![e] = IF Matching = {} THEN Idle
                                 ELSE [pc |-> "loop", todo |-> Matching]]
  /\ UNCHANGED <<queued, rowVars, jobs, worker, tries, answers, upset, faults>>

\* On to the next webhook.
NextHook(e, rest) ==
  task' = [task EXCEPT ![e] = IF rest = {} THEN Idle ELSE [pc |-> "loop", todo |-> rest]]

\* A plugin's webhook:before hook says no.
Cancelled(e) ==
  /\ task[e].pc = "loop"
  /\ \E h \in task[e].todo : Decide(e, h, "skipped") /\ NextHook(e, task[e].todo \ {h})
  /\ UNCHANGED <<queued, rowVars, jobs, worker, tries, answers, upset, faults>>

Enqueue(e) ==
  /\ queued /\ task[e].pc = "loop"
  /\ \E h \in task[e].todo :
       /\ jobs' = jobs \cup {[d |-> <<e, h>>, made |-> 0, stalls |-> 0]}
       /\ Decide(e, h, "queued") /\ NextHook(e, task[e].todo \ {h})
  /\ UNCHANGED <<queued, rowVars, worker, tries, answers, upset, faults>>
\* queue.add throws: the job was not added, or it was and only the answer of
\* the queue was lost.
EnqueueFails(e) ==
  /\ queued /\ task[e].pc = "loop"
  /\ Fault
  /\ \E h \in task[e].todo, added \in BOOLEAN :
       /\ jobs' = IF added THEN jobs \cup {[d |-> <<e, h>>, made |-> 0, stalls |-> 0]} ELSE jobs
       /\ Decide(e, h, IF added THEN "queued" ELSE "lost")
       /\ NextHook(e, task[e].todo \ {h})
       /\ upset' = upset \cup {<<e, h>>}
  /\ UNCHANGED <<queued, rowVars, worker, tries, answers>>

\* deliverWebhook.
DeliverBegin(e) ==
  /\ ~queued /\ task[e].pc = "loop"
  /\ \E h \in task[e].todo :
       task' = [task EXCEPT ![e] = [pc |-> "post", todo |-> @.todo \ {h}, hook |-> h, attempt |-> 1]]
  /\ UNCHANGED <<queued, rowVars, jobs, worker, ledgerVars, faults>>

Tried(d, yes) ==
  /\ tries' = [tries EXCEPT ![d] = @ + 1]
  /\ answers' = IF yes THEN [answers EXCEPT ![d] = @ + 1] ELSE answers

\* Fault: the error of the last attempt is swallowed, and the delivery goes
\* on as one that was sent.
TryAgain_Swallowed(e) ==
  IF task[e].attempt < RetryCount
  THEN task' = [task EXCEPT ![e].pc = "post", ![e].attempt = @ + 1] /\ UNCHANGED fate
  ELSE NextHook(e, task[e].todo) /\ Decide(e, task[e].hook, "sent")

\* An error, or an answer other than 2xx: again after a delay, while there
\* are attempts left.
TryAgain(e) ==
  IF task[e].attempt < RetryCount
  THEN task' = [task EXCEPT ![e].pc = "post", ![e].attempt = @ + 1] /\ UNCHANGED fate
  ELSE NextHook(e, task[e].todo) /\ Decide(e, task[e].hook, "failed")

Post(e) ==
  /\ task[e].pc = "post"
  /\ \E yes \in BOOLEAN :
       /\ Tried(<<e, task[e].hook>>, yes)
       /\ IF yes THEN task' = [task EXCEPT ![e].pc = "record"] /\ UNCHANGED fate ELSE TryAgain(e)
  /\ UNCHANGED <<queued, rowVars, jobs, worker, upset, faults>>
Record(e) ==
  /\ task[e].pc = "record"
  /\ Decide(e, task[e].hook, "sent") /\ NextHook(e, task[e].todo)
  /\ UNCHANGED <<queued, rowVars, jobs, worker, tries, answers, upset, faults>>
\* lastTriggeredAt is not written: taken for a failed delivery.
RecordFails(e) ==
  /\ task[e].pc = "record"
  /\ Fault
  /\ upset' = upset \cup {<<e, task[e].hook>>}
  /\ TryAgain(e)
  /\ UNCHANGED <<queued, rowVars, jobs, worker, tries, answers>>

(***************************************************************************)
(* process: the worker's side, from the job's own copy of the webhook.     *)
(***************************************************************************)
\* Fault: a job that threw is never put back.
JobThrows_NotAgain(j) ==
  /\ fate' = IF j.made + 1 < RetryCount THEN fate ELSE [fate EXCEPT ![j.d] = "failed"]
  /\ UNCHANGED jobs

\* BullMQ puts a job that threw back while it has attempts left.
JobThrows(j) ==
  IF j.made + 1 < RetryCount
  THEN jobs' = jobs \cup {[j EXCEPT !.made = @ + 1]} /\ UNCHANGED fate
  ELSE fate' = [fate EXCEPT ![j.d] = "failed"] /\ UNCHANGED jobs

Take(j) ==
  /\ worker = Idle /\ j \in jobs
  /\ jobs' = jobs \ {j}
  /\ worker' = [pc |-> "post", job |-> j]
  /\ UNCHANGED <<queued, rowVars, task, ledgerVars, faults>>
JobPost ==
  /\ worker.pc = "post"
  /\ \E yes \in BOOLEAN :
       /\ Tried(worker.job.d, yes)
       /\ IF yes THEN worker' = [worker EXCEPT !.pc = "record"] /\ UNCHANGED <<jobs, fate>>
                 ELSE worker' = Idle /\ JobThrows(worker.job)
  /\ UNCHANGED <<queued, rowVars, task, upset, faults>>
JobRecord ==
  /\ worker.pc = "record"
  /\ fate' = [fate EXCEPT ![worker.job.d] = "sent"]
  /\ worker' = Idle
  /\ UNCHANGED <<queued, rowVars, task, jobs, tries, answers, upset, faults>>
JobRecordFails ==
  /\ worker.pc = "record"
  /\ Fault
  /\ upset' = upset \cup {worker.job.d}
  /\ worker' = Idle /\ JobThrows(worker.job)
  /\ UNCHANGED <<queued, rowVars, task, tries, answers>>

\* The process ends and starts again.  Dispatches and requests are gone; the
\* worker's job is found stalled: it runs again, or fails for good.
Crash ==
  /\ Fault
  /\ task' = [e \in Events |-> Idle]
  /\ edit' = [r \in Requests |-> Idle]
  /\ worker' = Idle
  /\ LET hit == {d \in Deliveries : fate[d] = "due"}
         held == IF worker = Idle THEN {} ELSE {worker.job}
         again == {j \in held : j.stalls < MaxStalled}
     IN /\ jobs' = jobs \cup {[j EXCEPT !.stalls = @ + 1] : j \in again}
        /\ fate' = [d \in Deliveries |->
             IF d \in hit THEN "lost"
             ELSE IF \E j \in held \ again : j.d = d THEN "failed" ELSE fate[d]]
        /\ upset' = upset \cup hit \cup {j.d : j \in held}
  /\ UNCHANGED <<queued, rows, edits, silent, crossed, tries, answers>>

Loop(e) == \/ Cancelled(e) \/ Enqueue(e) \/ EnqueueFails(e) \/ DeliverBegin(e)
           \/ Post(e) \/ Record(e) \/ RecordFails(e)
Worker == (\E j \in jobs : Take(j)) \/ JobPost \/ JobRecord \/ JobRecordFails
Edit == \/ \E h \in Hooks : Create(h)
        \/ \E r \in Requests :
             \/ \E h \in Hooks, what \in {"on", "off", "other", "delete"} : EditRead(r, h, what)
             \/ EditLook(r) \/ EditSave(r)
Next == Edit \/ (\E e \in Events : Dispatch(e) \/ Loop(e)) \/ Worker \/ Crash

Spec == Init /\ [][Next]_vars

\* The event loop comes back to every dispatch, and BullMQ runs the worker
\* while there are jobs.
FairSpec == Spec /\ (\A e \in Events : WF_vars(Loop(e))) /\ WF_vars(Worker)

(***************************************************************************)
(* Properties.                                                             *)
(***************************************************************************)
\* dispatch and process deliver as Delivery says, with the queue and without.
Ledger == [d \in Deliveries |-> [fate |-> fate[d], tries |-> tries[d],
                                 answers |-> answers[d], upset |-> d \in upset]]
Promise == INSTANCE Delivery WITH Repeats <- MaxStalled, ledger <- Ledger
ImplementsDelivery == Promise!Spec

\* Whatever the receiver answers and whatever fails, every delivery comes to
\* an end: sent, failed or known to be lost.
DeliveriesEnd == \A d \in Deliveries : fate[d] \in {"due", "queued"} ~> fate[d] \in Settled

\* update, delete, dispatch: a webhook that was switched off or deleted gets
\* no later event, unless an edit that overlapped wrote the old row back.
SwitchedOffIsSilent ==
  [][\A d \in Deliveries : fate[d] = "new" /\ fate'[d] = "due" =>
       d[2] \notin silent \/ d[2] \in crossed]_vars

\* As long as nothing has failed the receiver's answers decide alone: a
\* delivery was sent if it had one yes, failed when all its attempts were
\* refused, and none is lost or sent twice.
CalmIsExact ==
  faults = 0 => \A d \in Deliveries :
    /\ fate[d] # "lost" /\ answers[d] <= 1 /\ tries[d] <= Attempts
    /\ fate[d] = "sent" => answers[d] = 1
    /\ fate[d] = "failed" => tries[d] = Attempts /\ answers[d] = 0

\* The same without exception, where requests do not overlap.
OffIsSilentForSure ==
  [][\A d \in Deliveries : fate[d] = "new" /\ fate'[d] = "due" => d[2] \notin silent]_vars

\* The steps a dispatch has left at most: two for each attempt, to post and to
\* record, and one to begin with each webhook; and one while it is under way.
StepsLeft(t) ==
  IF t.pc = "idle" THEN 0
  ELSE 1 + (2 * Attempts + 1) * Cardinality(t.todo)
       + (IF t.pc = "loop" THEN 0
          ELSE 2 * (Attempts - t.attempt) + (IF t.pc = "post" THEN 2 ELSE 1))

\* Nothing prolongs a dispatch: whatever it does itself or others do to it,
\* it has fewer steps left.
DispatchShrinks ==
  [][\A e \in Events : task[e].pc # "idle" /\ (Loop(e) \/ task'[e] # task[e]) =>
       StepsLeft(task[e])' \in 0 .. (StepsLeft(task[e]) - 1)]_vars
(***************************************************************************)
(* Why they hold: the invariants the proofs carry along.                   *)
(***************************************************************************)
Task == {Idle} \cup [pc : {"loop"}, todo : SUBSET Hooks]
          \cup [pc : {"post", "record"}, todo : SUBSET Hooks, hook : Hooks,
                attempt : 1 .. Attempts]
Job == [d : Deliveries, made : 0 .. Attempts - 1, stalls : 0 .. MaxStalled]
WorkerState == {Idle} \cup [pc : {"post", "record"}, job : Job]
LedgerType ==
  /\ fate \in [Deliveries -> Promise!Fates]
  /\ tries \in [Deliveries -> Nat] /\ answers \in [Deliveries -> Nat]
  /\ upset \in SUBSET Deliveries
  /\ task \in [Events -> Task] /\ jobs \in SUBSET Job /\ worker \in WorkerState

\* The webhooks a dispatch has still to serve, and the one it is serving.
Waiting(t) == IF t.pc = "idle" THEN {} ELSE t.todo
Serving(t) == IF t.pc \in {"post", "record"} THEN {t.hook} ELSE {}

\* A delivery is due as long as a dispatch has it, and was tried as often as
\* the dispatch has counted.
DueIsHeld == \A e \in Events, h \in Hooks :
  /\ fate[<<e, h>>] = "due" <=> h \in Waiting(task[e]) \cup Serving(task[e])
  /\ fate[<<e, h>>] = "new" => task[e].pc = "idle"
  /\ fate[<<e, h>>] = "new" \/ h \in Waiting(task[e]) =>
       tries[<<e, h>>] = 0 /\ answers[<<e, h>>] = 0 /\ <<e, h>> \notin upset
DirectTries == \A e \in Events :
  /\ Waiting(task[e]) \cap Serving(task[e]) = {}
  /\ task[e].pc = "post" => tries[<<e, task[e].hook>>] = task[e].attempt - 1
  /\ task[e].pc = "record" => /\ tries[<<e, task[e].hook>>] = task[e].attempt
                              /\ answers[<<e, task[e].hook>>] > 0

\* A receiver that said yes is asked again only after a failure.
NotAskedAgain == \A d \in Deliveries :
  answers[d] > 0 /\ fate[d] \in {"due", "queued"} =>
    \/ d \in upset
    \/ \E e \in Events : task[e].pc = "record" /\ d = <<e, task[e].hook>>
    \/ worker.pc = "record" /\ d = worker.job.d

\* A queued delivery has one job, which counts its tries but for those a
\* stalled worker took with it.
CountedBy(j, more) ==
  /\ fate[j.d] = "queued"
  /\ j.made + more <= tries[j.d] /\ tries[j.d] <= j.made + more + j.stalls
  /\ j.stalls > 0 => j.d \in upset
OneJobEach ==
  /\ \A j, k \in jobs : j.d = k.d => j = k
  /\ worker.pc # "idle" => \A j \in jobs : j.d # worker.job.d
JobTries ==
  /\ \A j \in jobs : CountedBy(j, 0)
  /\ worker.pc = "post" => CountedBy(worker.job, 0)
  /\ worker.pc = "record" => CountedBy(worker.job, 1) /\ answers[worker.job.d] > 0
LedgerInv == DueIsHeld /\ DirectTries /\ NotAskedAgain /\ OneJobEach /\ JobTries

\* Only a failure upsets a delivery.
CalmUntilFault == faults \in Nat /\ (faults = 0 => upset = {})

\* The row of a webhook that is off stays off: an edit that nothing overlapped
\* holds the row as it is.
RowType == /\ rows \in [Hooks -> {"none", "on", "off"}]
           /\ edit \in [Requests -> {Idle} \cup [hook : Hooks, seen : {"on", "off"},
                                                 what : {"on", "off", "other", "delete"},
                                                 diff : {"unread", "all", "active", "rest"}]]
           /\ silent \in SUBSET Hooks /\ crossed \in SUBSET Hooks
Uncrossed(q, row) ==
  q.seen = row /\ row # "none" /\ q.diff # "all" /\ (q.diff = "rest" => Entity(q) = row)
SilentIsOff == \A h \in Hooks \ crossed :
  /\ h \in silent => rows[h] # "on"
  /\ \A r, q \in Editing(h) : r = q
  /\ \A r \in Editing(h) : Uncrossed(edit[r], rows[h])
=============================================================================
