------------------------------ MODULE Campaign ------------------------------
(***************************************************************************)
(* One bulk-message campaign of the tenant backend, from its creation to   *)
(* its end: the HTTP handlers of CampaignsService (create, clone, edit,    *)
(* launch, import, cancel, retry), the BullMQ queue "campaign-queue", the  *)
(* CampaignProcessor that takes its jobs one at a time, the delivery       *)
(* acknowledgements that WebhooksProcessor writes back, and crashes of the *)
(* backend process that runs all of them.                                  *)
(*                                                                         *)
(* A handler is a sequence of awaited database calls, so it is split at    *)
(* every await after which another handler or the worker may run:          *)
(* `<op>Read` is what it reads and checks, `<op>Write` what it then saves  *)
(* without looking again, `Enqueue` the queue.add that follows.            *)
(***************************************************************************)
EXTENDS Naturals, FiniteSets

CONSTANTS
  Contacts,      \* recipients (phone numbers) the campaign may be given
  Requests,      \* slots for HTTP requests being served at the same time
  None,          \* no contact
  MaxRequests,   \* bound: requests served in a behaviour
  MaxAborts      \* bound: job failures and crashes in a behaviour

ASSUME ContactsAssumption == IsFiniteSet(Contacts) /\ None \notin Contacts
ASSUME BoundsAssumption == MaxRequests \in Nat /\ MaxAborts \in Nat

VARIABLES
  status,        \* Campaign.status; "NONE" before the row exists
  scheduled,     \* Campaign.scheduledAt is set
  total,         \* Campaign.totalContacts
  row,           \* CampaignContact.status of each contact, "ABSENT" if no row
  retries,       \* CampaignContact.retryCount
  ackable,       \* the Message the row links to has its externalId stored
  jobs,          \* jobs waiting (or delayed) in campaign-queue
  stalled,       \* jobs put back in the queue after a crash
  req,           \* what each HTTP request has read and is about to do
  pc,            \* where the worker stands in handleCampaign
  todo,          \* the worker's snapshot of pending contacts, not yet taken
  cur,           \* the contact of the current loop iteration
  ext,           \* the current message has its externalId stored
  again,         \* the worker's job is one that stalled before
  \* history, never read by the code
  served,        \* requests begun
  sends,         \* how often the engine accepted a message for each contact
  aborts,        \* job runs cut short
  lost,          \* a queue.add or a job was lost for good
  late,          \* rows inserted after launch or behind the worker's snapshot
  spared,        \* contacts pending and not in flight at the last cancellation
  unscheduled    \* the schedule was cleared while idle, no launch since

camVars  == <<status, scheduled, total>>
rowVars  == <<row, retries, ackable>>
jobVars  == <<jobs, stalled>>
workVars == <<pc, todo, cur, ext, again>>
histVars == <<sends, aborts, lost, late, spared, unscheduled>>
vars == <<status, scheduled, total, row, retries, ackable, jobs, stalled, req,
          pc, todo, cur, ext, again, served,
          sends, aborts, lost, late, spared, unscheduled>>

CampaignStatus == {"DRAFT", "SCHEDULED", "RUNNING", "COMPLETED", "CANCELLED"}
SentStatus     == {"SENT", "DELIVERED", "READ"}
ContactStatus  == {"PENDING", "FAILED"} \cup SentStatus
Editable       == {"DRAFT", "SCHEDULED"}

Rows    == {c \in Contacts : row[c] # "ABSENT"}
Pending == {c \in Contacts : row[c] = "PENDING"}

\* The states of a request between two awaits.
Idle == [op |-> "idle", ids |-> {}, flag |-> FALSE]
Ops  == {"idle", "enqueue", "launch", "cancel", "import", "retryFind",
         "retry", "clear", "reschedule"}
Holds(r, op)     == req[r].op = op
Goto(r, op, S, b) == req' = [req EXCEPT ![r] = [op |-> op, ids |-> S, flag |-> b]]
Done(r)          == req' = [req EXCEPT ![r] = Idle]
Begin(r)         == Holds(r, "idle") /\ served < MaxRequests /\ served' = served + 1

Init ==
  /\ status = "NONE" /\ scheduled = FALSE /\ total = 0
  /\ row = [c \in Contacts |-> "ABSENT"]
  /\ retries = [c \in Contacts |-> 0]
  /\ ackable = [c \in Contacts |-> FALSE]
  /\ jobs = 0 /\ stalled = 0
  /\ req = [r \in Requests |-> Idle]
  /\ pc = "idle" /\ todo = {} /\ cur = None /\ ext = FALSE /\ again = FALSE
  /\ served = 0
  /\ sends = [c \in Contacts |-> 0]
  /\ aborts = 0 /\ lost = FALSE /\ late = {} /\ spared = {}
  /\ unscheduled = FALSE

-----------------------------------------------------------------------------
(* Plausible faults of this code, one per property: each stands in for the *)
(* definition it is named after when the property is tested for teeth.     *)

\* The rows the import skipped as duplicates are counted too.
ImportWrite_CountsDuplicates(r) ==
  /\ Holds(r, "import")
  /\ row' = [c \in Contacts |-> IF c \in req[r].ids \ Rows THEN "PENDING" ELSE row[c]]
  /\ total' = total + Cardinality(req[r].ids)
  /\ Done(r)
  /\ UNCHANGED <<status, scheduled, retries, ackable, jobVars, workVars, served, histVars>>

\* The worker takes every row that is not delivered yet.
FetchPending_TakesUndelivered ==
  /\ pc = "fetch"
  /\ todo' = {c \in Contacts : row[c] \in {"PENDING", "SENT"}} /\ pc' = "engine"
  /\ UNCHANGED <<camVars, rowVars, jobVars, req, cur, ext, again, served, histVars>>

\* The worker also skips a campaign whose status is not yet RUNNING.
FindCampaign_SkipsScheduled ==
  /\ pc = "find"
  /\ IF status = "RUNNING"
     THEN pc' = "fetch" /\ UNCHANGED <<todo, cur, ext, again>>
     ELSE pc' = "idle" /\ todo' = {} /\ cur' = None /\ ext' = FALSE /\ again' = FALSE
  /\ UNCHANGED <<camVars, rowVars, jobVars, req, served, histVars>>

\* A second run takes only rows that were never tried.
FetchPending_NeverRetried ==
  /\ pc = "fetch"
  /\ todo' = {c \in Pending : retries[c] = 0} /\ pc' = "engine"
  /\ UNCHANGED <<camVars, rowVars, jobVars, req, cur, ext, again, served, histVars>>

\* The retry resets the rows and forgets to count it.
RetryWrite_NotCounted(r) ==
  /\ Holds(r, "retry")
  /\ row' = [c \in Contacts |-> IF c \in req[r].ids THEN "PENDING" ELSE row[c]]
  /\ Goto(r, "enqueue", {}, FALSE)
  /\ UNCHANGED <<camVars, retries, ackable, jobVars, workVars, served, histVars>>

\* The catch clause copies the update of the success path.
MarkFailed_AsSent ==
  /\ pc = "markFailed"
  /\ row' = [row EXCEPT ![cur] = "SENT"]
  /\ ackable' = [ackable EXCEPT ![cur] = ext]
  /\ pc' = "loop"
  /\ UNCHANGED <<camVars, retries, jobVars, req, todo, cur, ext, again, served, histVars>>

\* The status is read once, before the loop.
NextContact_NoReread(c) ==
  /\ pc = "loop" /\ c \in todo
  /\ cur' = c /\ todo' = todo \ {c} /\ ext' = FALSE /\ pc' = "send"
  /\ UNCHANGED <<camVars, rowVars, jobVars, req, again, served, histVars>>

\* The final update is left out when a recipient failed.
Complete_OnlyIfNoneFailed ==
  /\ pc = "complete"
  /\ status' = IF \E c \in Contacts : row[c] = "FAILED" THEN status ELSE "COMPLETED"
  /\ pc' = "idle" /\ todo' = {} /\ cur' = None /\ ext' = FALSE /\ again' = FALSE
  /\ UNCHANGED <<scheduled, total, rowVars, jobVars, req, served, histVars>>

-----------------------------------------------------------------------------
(* HTTP handlers.  The checks on the session (it exists, it is CONNECTED)  *)
(* only refuse a request, which changes nothing.                           *)

\* createCampaign: one transaction for the campaign and its rows, then the
\* job is queued outside it.  No recipient at all is accepted.
CreateCampaign(r, S, sched) ==
  /\ status = "NONE" /\ Begin(r)
  /\ status' = IF sched THEN "SCHEDULED" ELSE "RUNNING"
  /\ scheduled' = sched
  /\ total' = Cardinality(S)
  /\ row' = [c \in Contacts |-> IF c \in S THEN "PENDING" ELSE "ABSENT"]
  /\ Goto(r, "enqueue", {}, FALSE)
  /\ UNCHANGED <<retries, ackable, jobVars, workVars, histVars>>

\* cloneCampaign: a new DRAFT with no recipients and no job.
CloneCampaign(r) ==
  /\ status = "NONE" /\ Begin(r)
  /\ status' = "DRAFT" /\ scheduled' = FALSE /\ total' = 0
  /\ UNCHANGED <<rowVars, jobVars, req, workVars, histVars>>

\* this.campaignQueue.add('process-campaign', ...); a delayed job is one the
\* worker happens to take later.
Enqueue(r) ==
  /\ Holds(r, "enqueue")
  /\ jobs' = jobs + 1
  /\ Done(r)
  /\ UNCHANGED <<camVars, rowVars, stalled, workVars, served, histVars>>

\* Redis refuses the job: the request fails, what was saved stays saved.
EnqueueFails(r) ==
  /\ Holds(r, "enqueue")
  /\ lost' = TRUE
  /\ Done(r)
  /\ UNCHANGED <<camVars, rowVars, jobVars, workVars, served,
                 sends, aborts, late, spared, unscheduled>>

LaunchRead(r) ==
  /\ status \in Editable /\ total # 0 /\ Begin(r)
  /\ Goto(r, "launch", {}, scheduled)
  /\ UNCHANGED <<camVars, rowVars, jobVars, workVars, histVars>>

LaunchWrite(r) ==
  /\ Holds(r, "launch")
  /\ status' = IF req[r].flag THEN "SCHEDULED" ELSE "RUNNING"
  /\ Goto(r, "enqueue", {}, FALSE)
  /\ unscheduled' = FALSE
  /\ UNCHANGED <<scheduled, total, rowVars, jobVars, workVars, served,
                 sends, aborts, lost, late, spared>>

CancelRead(r) ==
  /\ status \in {"RUNNING", "SCHEDULED"} /\ Begin(r)
  /\ Goto(r, "cancel", {}, FALSE)
  /\ UNCHANGED <<camVars, rowVars, jobVars, workVars, histVars>>

InFlight == IF pc \in {"send", "markMsg", "markRow", "markFailed"} THEN {cur} ELSE {}

CancelWrite(r) ==
  /\ Holds(r, "cancel")
  /\ status' = "CANCELLED"
  /\ spared' = Pending \ InFlight
  /\ Done(r)
  /\ UNCHANGED <<scheduled, total, rowVars, jobVars, workVars, served,
                 sends, aborts, lost, late, unscheduled>>

\* importCampaignRecipients and addContactsToCampaign: the status is checked
\* before the file is parsed or the contacts are resolved; the transaction
\* does not check it again.  createMany skips the rows that exist.
ImportRead(r, S) ==
  /\ status \in Editable /\ S # {} /\ Begin(r)
  /\ Goto(r, "import", S, FALSE)
  /\ UNCHANGED <<camVars, rowVars, jobVars, workVars, histVars>>

ImportWrite(r) ==
  /\ Holds(r, "import")
  /\ LET new == req[r].ids \ Rows IN
     /\ row' = [c \in Contacts |-> IF c \in new THEN "PENDING" ELSE row[c]]
     /\ total' = total + Cardinality(new)
     /\ late' = IF status \notin Editable \/ pc \notin {"idle", "find", "setRunning", "fetch"}
                THEN late \cup new ELSE late
  /\ Done(r)
  /\ UNCHANGED <<status, scheduled, retries, ackable, jobVars, workVars, served,
                 sends, aborts, lost, spared, unscheduled>>

\* updateCampaign, as far as the schedule goes: "clear" is scheduledAt null,
\* "reschedule" a new date.  The job already queued is not touched.
UpdateRead(r, op) ==
  /\ status \in Editable /\ Begin(r)
  /\ Goto(r, op, {}, status = "SCHEDULED")
  /\ UNCHANGED <<camVars, rowVars, jobVars, workVars, histVars>>

UpdateWrite(r) ==
  /\ Holds(r, "clear") \/ Holds(r, "reschedule")
  /\ scheduled' = Holds(r, "reschedule")
  /\ IF Holds(r, "clear") /\ req[r].flag
     THEN /\ status' = "DRAFT"
          /\ unscheduled' = (unscheduled \/ pc = "idle")
     ELSE UNCHANGED <<status, unscheduled>>
  /\ Done(r)
  /\ UNCHANGED <<total, rowVars, jobVars, workVars, served,
                 sends, aborts, lost, late, spared>>

\* retryFailedCampaign: three awaits before the job is queued.
RetryRead(r) ==
  /\ status = "COMPLETED" /\ Begin(r)
  /\ Goto(r, "retryFind", {}, FALSE)
  /\ UNCHANGED <<camVars, rowVars, jobVars, workVars, histVars>>

RetryFind(r) ==
  /\ Holds(r, "retryFind")
  /\ LET failed == {c \in Contacts : row[c] = "FAILED"} IN
     IF failed = {} THEN Done(r) ELSE Goto(r, "retry", failed, FALSE)
  /\ UNCHANGED <<camVars, rowVars, jobVars, workVars, served, histVars>>

RetryWrite(r) ==
  /\ Holds(r, "retry")
  /\ row' = [c \in Contacts |-> IF c \in req[r].ids THEN "PENDING" ELSE row[c]]
  /\ retries' = [c \in Contacts |-> IF c \in req[r].ids THEN retries[c] + 1 ELSE retries[c]]
  /\ Goto(r, "enqueue", {}, FALSE)
  /\ UNCHANGED <<camVars, ackable, jobVars, workVars, served, histVars>>

-----------------------------------------------------------------------------
(* The worker: CampaignProcessor.handleCampaign.                           *)

EndJob == pc' = "idle" /\ todo' = {} /\ cur' = None /\ ext' = FALSE /\ again' = FALSE

TakeJob ==
  /\ pc = "idle" /\ jobs > 0
  /\ jobs' = jobs - 1 /\ pc' = "find"
  /\ UNCHANGED <<camVars, rowVars, stalled, req, todo, cur, ext, again, served, histVars>>

TakeStalledJob ==
  /\ pc = "idle" /\ stalled > 0
  /\ stalled' = stalled - 1 /\ pc' = "find" /\ again' = TRUE
  /\ UNCHANGED <<camVars, rowVars, jobs, req, todo, cur, ext, served, histVars>>

FindCampaign ==
  /\ pc = "find"
  /\ IF status = "CANCELLED" THEN EndJob
     ELSE /\ pc' = IF status = "RUNNING" THEN "fetch" ELSE "setRunning"
          /\ UNCHANGED <<todo, cur, ext, again>>
  /\ UNCHANGED <<camVars, rowVars, jobVars, req, served, histVars>>

SetRunning ==
  /\ pc = "setRunning"
  /\ status' = "RUNNING" /\ pc' = "fetch"
  /\ UNCHANGED <<scheduled, total, rowVars, jobVars, req, todo, cur, ext, again, served, histVars>>

FetchPending ==
  /\ pc = "fetch"
  /\ todo' = Pending /\ pc' = "engine"
  /\ UNCHANGED <<camVars, rowVars, jobVars, req, cur, ext, again, served, histVars>>

EngineFound ==
  /\ pc = "engine" /\ pc' = "loop"
  /\ UNCHANGED <<camVars, rowVars, jobVars, req, todo, cur, ext, again, served, histVars>>

\* Neither the Redis mapping nor the instance of the database fallback exists.
EngineMissing ==
  /\ pc = "engine"
  /\ status' = "CANCELLED" /\ spared' = Pending
  /\ EndJob
  /\ UNCHANGED <<scheduled, total, rowVars, jobVars, req, served,
                 sends, aborts, lost, late, unscheduled>>

\* The head of the loop: status is read again before each contact.
StopIfCancelled ==
  /\ pc = "loop" /\ todo # {} /\ status = "CANCELLED"
  /\ EndJob
  /\ UNCHANGED <<camVars, rowVars, jobVars, req, served, histVars>>

\* Another contact.  The conversation and the message rows that the worker makes
\* before it sends are in Inbox; if making them throws, JobFails.
NextContact(c) ==
  /\ pc = "loop" /\ c \in todo /\ status # "CANCELLED"
  /\ cur' = c /\ todo' = todo \ {c} /\ ext' = FALSE /\ pc' = "send"
  /\ UNCHANGED <<camVars, rowVars, jobVars, req, again, served, histVars>>

Count(c) == sends' = [sends EXCEPT ![c] = @ + 1]

\* axios.post to the engine, answered with 2xx.
SendOk ==
  /\ pc = "send"
  /\ Count(cur) /\ pc' = "markMsg"
  /\ UNCHANGED <<camVars, rowVars, jobVars, req, todo, cur, ext, again, served,
                 aborts, lost, late, spared, unscheduled>>

\* The call fails; if only its answer was lost the message went out.
SendError(out) ==
  /\ pc = "send"
  /\ IF out THEN Count(cur) ELSE UNCHANGED sends
  /\ pc' = "markFailed"
  /\ UNCHANGED <<camVars, rowVars, jobVars, req, todo, cur, ext, again, served,
                 aborts, lost, late, spared, unscheduled>>

\* message.update: SENT, and the externalId if the answer carried one.
MarkMessage(hasId) ==
  /\ pc = "markMsg"
  /\ ext' = hasId /\ pc' = "markRow"
  /\ UNCHANGED <<camVars, rowVars, jobVars, req, todo, cur, again, served, histVars>>

MarkRow ==
  /\ pc = "markRow"
  /\ row' = [row EXCEPT ![cur] = "SENT"]
  /\ ackable' = [ackable EXCEPT ![cur] = ext]
  /\ pc' = "progress"
  /\ UNCHANGED <<camVars, retries, jobVars, req, todo, cur, ext, again, served, histVars>>

EmitProgress ==
  /\ pc = "progress" /\ pc' = "loop"
  /\ UNCHANGED <<camVars, rowVars, jobVars, req, todo, cur, ext, again, served, histVars>>

\* A database call inside the try fails after the send: the catch clause is
\* the one of a failed send.
FailAfterSend ==
  /\ pc \in {"markMsg", "markRow", "progress"} /\ pc' = "markFailed"
  /\ UNCHANGED <<camVars, rowVars, jobVars, req, todo, cur, ext, again, served, histVars>>

MarkFailed ==
  /\ pc = "markFailed"
  /\ row' = [row EXCEPT ![cur] = "FAILED"]
  /\ ackable' = [ackable EXCEPT ![cur] = ext]
  /\ pc' = "loop"
  /\ UNCHANGED <<camVars, retries, jobVars, req, todo, cur, ext, again, served, histVars>>

FinalRead ==
  /\ pc = "loop" /\ todo = {}
  /\ IF status = "CANCELLED" THEN EndJob
     ELSE pc' = "complete" /\ UNCHANGED <<todo, cur, ext, again>>
  /\ UNCHANGED <<camVars, rowVars, jobVars, req, served, histVars>>

Complete ==
  /\ pc = "complete"
  /\ status' = "COMPLETED"
  /\ EndJob
  /\ UNCHANGED <<scheduled, total, rowVars, jobVars, req, served, histVars>>

\* A call outside the try throws (database down, session row deleted under a
\* foreign key): the job fails, and attempts is 1 so it is not run again.
JobFails ==
  /\ pc \notin {"idle", "markMsg", "markRow", "progress"} /\ aborts < MaxAborts
  /\ aborts' = aborts + 1 /\ lost' = TRUE
  /\ EndJob
  /\ UNCHANGED <<camVars, rowVars, jobVars, req, served, sends, late, spared, unscheduled>>

-----------------------------------------------------------------------------
(* The rest of the process.                                                *)

\* WebhooksProcessor.handleMessageAck on the row whose messageId is the
\* acknowledged message: whatever status arrives is written.
Ack(c, s) ==
  /\ ackable[c]
  /\ row' = [row EXCEPT ![c] = s]
  /\ UNCHANGED <<camVars, retries, ackable, jobVars, req, workVars, served, histVars>>

\* The process dies: requests are gone, the active job stalls.  BullMQ puts a
\* stalled job back once (maxStalledCount 1) and fails it the second time.
Crash ==
  /\ aborts < MaxAborts
  /\ aborts' = aborts + 1
  /\ lost' = (lost \/ (pc # "idle" /\ again) \/ \E r \in Requests : Holds(r, "enqueue"))
  /\ stalled' = IF pc # "idle" /\ ~again THEN stalled + 1 ELSE stalled
  /\ req' = [r \in Requests |-> Idle]
  /\ EndJob
  /\ UNCHANGED <<camVars, rowVars, jobs, served, sends, late, spared, unscheduled>>

Handler(r) ==
  \/ \E S \in SUBSET Contacts, b \in BOOLEAN : CreateCampaign(r, S, b)
  \/ CloneCampaign(r)
  \/ Enqueue(r) \/ EnqueueFails(r)
  \/ LaunchRead(r) \/ LaunchWrite(r)
  \/ CancelRead(r) \/ CancelWrite(r)
  \/ \E S \in SUBSET Contacts : ImportRead(r, S)
  \/ ImportWrite(r)
  \/ \E op \in {"clear", "reschedule"} : UpdateRead(r, op)
  \/ UpdateWrite(r)
  \/ RetryRead(r) \/ RetryFind(r) \/ RetryWrite(r)

HandleCampaign ==
  \/ TakeJob \/ TakeStalledJob \/ FindCampaign \/ SetRunning \/ FetchPending
  \/ EngineFound \/ EngineMissing
  \/ StopIfCancelled \/ \E c \in Contacts : NextContact(c)
  \/ SendOk \/ \E out \in BOOLEAN : SendError(out)
  \/ \E hasId \in BOOLEAN : MarkMessage(hasId)
  \/ MarkRow \/ EmitProgress \/ FailAfterSend \/ MarkFailed
  \/ FinalRead \/ Complete

Next ==
  \/ \E r \in Requests : Handler(r)
  \/ HandleCampaign
  \/ JobFails
  \/ \E c \in Contacts, s \in SentStatus \cup {"FAILED"} : Ack(c, s)
  \/ Crash

Spec == Init /\ [][Next]_vars

\* BullMQ keeps polling and the event loop resumes every awaited call.  That the
\* engine answers or closes the connection is assumed: axios.post has no timeout
\* (campaign-processor.ts:324), so an engine that keeps silent would hold the
\* campaign RUNNING.  Nothing forces a user to send a request, the engine to
\* acknowledge, or anything to fail.
Fairness ==
  /\ WF_vars(HandleCampaign)
  /\ \A r \in Requests : WF_vars(Enqueue(r) \/ EnqueueFails(r))

FairSpec == Spec /\ Fairness

-----------------------------------------------------------------------------
(* What must hold.                                                         *)

FlagsOK ==
  /\ scheduled \in BOOLEAN /\ ext \in BOOLEAN /\ again \in BOOLEAN
  /\ lost \in BOOLEAN /\ unscheduled \in BOOLEAN

DataOK ==
  /\ status \in CampaignStatus \cup {"NONE"}
  /\ total \in Nat
  /\ row \in [Contacts -> ContactStatus \cup {"ABSENT"}]
  /\ retries \in [Contacts -> Nat]
  /\ ackable \in [Contacts -> BOOLEAN]
  /\ jobs \in Nat /\ stalled \in Nat
  /\ req \in [Requests -> [op : Ops, ids : SUBSET Contacts, flag : BOOLEAN]]
  /\ pc \in {"idle", "find", "setRunning", "fetch", "engine", "loop", "send",
             "markMsg", "markRow", "progress", "markFailed", "complete"}
  /\ todo \in SUBSET Contacts
  /\ cur \in Contacts \cup {None}
  /\ served \in Nat
  /\ sends \in [Contacts -> Nat]
  /\ aborts \in Nat
  /\ late \in SUBSET Contacts /\ spared \in SUBSET Contacts

TypeOK == DataOK /\ FlagsOK

\* Campaign.totalContacts, a counter incremented by the imports, is the number
\* of CampaignContact rows, however imports interleave: the total every
\* progress report divides by.
TotalCountsRows == total = Cardinality(Rows)

\* No recipient is messaged more often than the retries asked for, plus one
\* for every run of the job that was cut short: two launches, two jobs, two
\* overlapping retries and a late acknowledgement never add a copy of their own.
NoExtraCopies == \A c \in Contacts : sends[c] <= 1 + retries[c] + aborts

\* A campaign that says it is running or scheduled still has a job somewhere
\* (queued, stalled, being run, or about to be queued by a request), unless a
\* job or a queue.add was lost: it never just sits there.
JobAhead == jobs + stalled > 0 \/ pc # "idle" \/ \E r \in Requests : Holds(r, "enqueue")
ActiveHasJob == status \in {"RUNNING", "SCHEDULED"} => JobAhead \/ lost

\* When a campaign is COMPLETED and nothing is queued, no recipient is left
\* PENDING, except rows inserted behind the worker's back and what a crash or
\* a lost job left over.
NobodyLeftBehind ==
  status = "COMPLETED" /\ ~JobAhead /\ ~lost => Pending \subseteq late

\* Progress shown for a recipient is real: a row reads SENT, DELIVERED or READ
\* only if the engine accepted a message for it.
ProgressIsReal == \A c \in Contacts : row[c] \in SentStatus => sends[c] > 0

\* While a campaign stays CANCELLED, no recipient that was pending when it was
\* cancelled gets a message; the one already in flight is the only exception.
CancelledStaysQuiet ==
  [][status = "CANCELLED" => \A c \in spared : sends'[c] = sends[c]]_vars

\* The campaign implements its ledger: whatever the interleaving, recipients
\* are enrolled for good and get no more copies than retries and cut runs allow.
Ledger == INSTANCE CampaignLedger WITH
            enrolled <- Rows, copies <- sends,
            allowed <- [c \in Contacts |-> 1 + retries[c] + aborts]
ImplementsLedger == Ledger!Spec

\* The end of a campaign nothing has disturbed: every recipient who was there
\* in time got its message or is FAILED, and nobody got it twice without a retry.
EndedWell ==
  status = "COMPLETED" /\ ~JobAhead /\ ~lost /\ aborts = 0 =>
    \A c \in Rows \ late : /\ row[c] \in SentStatus \cup {"FAILED"}
                           /\ row[c] \in SentStatus => sends[c] \in 1 .. (1 + retries[c])
                           /\ sends[c] <= 1 + retries[c]

\* The worker's steps still to come, at most, for the jobs there are: six for
\* each recipient of a run, and those before and after its loop.
RunLength == 6 * Cardinality(Contacts) + 6
LeftAt(at, n) ==
  CASE at = "idle" -> 0
    [] at = "find" -> RunLength
    [] at = "setRunning" -> RunLength - 1
    [] at = "fetch" -> RunLength - 2
    [] at = "engine" -> 6 * n + 3
    [] at = "loop" -> 6 * n + 2
    [] at = "send" -> 6 * n + 7
    [] at = "markMsg" -> 6 * n + 6
    [] at = "markRow" -> 6 * n + 5
    [] at = "progress" -> 6 * n + 4
    [] at = "markFailed" -> 6 * n + 3
    [] at = "complete" -> 1
Work == (jobs + stalled) * (RunLength + 1) + LeftAt(pc, Cardinality(todo))

\* Every step of the worker is one less; only a job queued by a request, or put
\* back after a crash, is more.
WorkRunsOut ==
  [][/\ Work' \in Nat /\ (HandleCampaign \/ JobFails => Work' < Work)
     /\ Work' > Work => Crash \/ \E r \in Requests : Enqueue(r)]_vars

\* A campaign that starts running comes to an end (or its job was lost).
RunningEnds == status = "RUNNING" ~> status \in {"COMPLETED", "CANCELLED"} \/ lost

-----------------------------------------------------------------------------
(* Why the safety properties hold: the invariant the proofs carry along.   *)

\* The worker has sent, or tried to send, to cur and has not saved it yet.
Unsaved(c) == cur = c /\ pc \in {"markMsg", "markRow", "markFailed"}
\* A message to c may still go out with no new retry and no new cut run.
Owed(c) == \/ c \in todo
           \/ cur = c /\ pc = "send"
           \/ row[c] = "PENDING" /\ ~Unsaved(c)

CopiesPaidFor == \A c \in Contacts : IF Owed(c) THEN sends[c] <= retries[c] + aborts
                                               ELSE sends[c] <= 1 + retries[c] + aborts
AbsentUntouched == \A c \in Contacts \ Rows :
                      sends[c] = 0 /\ ackable[c] = FALSE /\ c \notin todo /\ cur # c
CurrentTaken == pc \in {"send", "markMsg", "markRow", "progress", "markFailed"}
                  => cur \in Contacts \ todo
NothingBefore == status = "NONE" => /\ Rows = {} /\ total = 0 /\ pc = "idle"
                                    /\ jobs = 0 /\ stalled = 0
                                    /\ \A r \in Requests : Holds(r, "idle")
RetryKnown == \A r \in Requests : Holds(r, "retry") => req[r].ids \subseteq Rows
SentBeforeSaved ==
  /\ pc = "send" => ext = FALSE
  /\ pc \in {"markMsg", "markRow", "progress"} => sends[cur] > 0
  /\ pc = "markFailed" /\ ext = TRUE => sends[cur] > 0
  /\ \A c \in Contacts : ackable[c] = TRUE => sends[c] > 0

CampaignInv == /\ CopiesPaidFor /\ AbsentUntouched /\ CurrentTaken
               /\ NothingBefore /\ RetryKnown /\ SentBeforeSaved
               /\ TotalCountsRows /\ ProgressIsReal

-----------------------------------------------------------------------------
(* What the comments, messages and screens of the repository say.          *)

\* "Cancel this campaign? Pending messages will not be sent."
\* (frontend campaign page, above POST .../cancel)
CancelledMeansNotSent == [][\A c \in spared : sends'[c] = sends[c]]_vars

\* "Set to null to clear an existing schedule and make the campaign
\* send-on-launch" (UpdateCampaignDto.scheduledAt)
ClearedMeansSendOnLaunch == [][unscheduled => sends' = sends]_vars
=============================================================================
