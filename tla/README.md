# Formal models of notifymainWA

TLA+ models of the concurrent parts of notifymainWA, a multi-tenant WhatsApp
messaging platform, with TLC configurations that check them on small instances
and TLAPS proofs that hold for every value of the constants. In paths, `src/` is the
root of the repository.

The repository holds two server programs and their clients.

* **The tenant backend** (`src/backend`, NestJS, PostgreSQL through Prisma,
  Redis, BullMQ). Tenants, users, campaigns, conversations and messages. It calls
  the engine over HTTP and receives its webhooks.
* **The engine, OpenWA** (`src/src`, NestJS, TypeORM, SQLite by default). It owns
  the WhatsApp browser clients, sends single and bulk messages, delivers webhooks.
* The web applications (`src/frontend`, `src/dashboard`), the SDK and the
  deployment files keep no state that the servers rely on, and are not modelled.

Both servers are single-threaded Node programs: a handler runs alone until it
awaits, and anything may happen during an await. That is the granularity of every
model here: **one action is the code between two awaits at which another handler
could interfere**, and what a handler has read before an await is a variable of
the model, because it may be stale by the time it is used.

## Inventory

### Tenant backend

| component | state | operations | what is hard, and what must hold |
|---|---|---|---|
| Campaigns (`campaigns.service.ts`, `campaign-processor.ts`) | a `Campaign` row, its `CampaignContact` rows, jobs in the BullMQ queue | create, clone, edit, launch, import recipients, cancel, retry; the worker's `handleCampaign` | handlers check a status and write later; the worker works from a snapshot; stalled jobs run again. Nobody gets a message too many, nobody is left out, a cancel silences, counters agree with rows |
| Webhook events (`webhooks.processor.ts`) | messages, conversations, unread counters, the recipients' statuses | a message received, one sent from the phone, an acknowledgement, a connection change | retried jobs, duplicates, acks before the row they belong to. A message is stored once, counted once, and its status does not mislead |
| Messages (`messages.service.ts`) | a `Message` row, first PENDING | send, status update | the engine's id arrives after the call, the echo may arrive before it |
| Conversations (`conversations.service.ts`) | unread count, pin, assignment | read, pin (at most three), assign | count-then-update; a counter written beside the rows it counts |
| Team (`team.service.ts`) | roles, manager links, invitations | change role, set manager, remove, invite, accept | checks before the write; no dangling link, nobody joins twice, an invitation is good for one, who is removed is signed out |
| Sessions and engine registry (`sessions.service.ts`, `engine-registry.service.ts`) | engine instances in Redis with counts and heartbeats; a session's engine | register, heartbeat, assign, release | read-modify-write on Redis; four stores that change one after the other. Counts agree with sessions, statuses with engines, nothing is left half made |
| Authentication, tenants (`auth.service.ts`, `tenants.service.ts`) | users, refresh tokens, tenants | login, refresh, logout, register, sign-up | rotation of a token used twice; a sign-in during a removal |
| Contacts, templates, media, audit log, analytics, API keys | rows | single-row edits and queries | nothing concurrent of their own |
| Gateway (`gateway.service.ts`) | sockets | fire-and-forget events | no state that is read back |

### Engine (OpenWA)

| component | state | operations | what is hard, and what must hold |
|---|---|---|---|
| Bulk messages (`bulk-message.service.ts`) | a `MessageBatch` row, an in-memory flag, the loop's own copy of the row | create, process, cancel, status | two copies of a row saved over each other; a crash between saves. Progress adds up; a cancel stops the loop |
| Sessions and adapter (`session.service.ts`, `whatsapp-web-js.adapter.ts`) | a `Session` row, `engines`, `reconnectStates`, browser clients | create, start, stop, delete, reconnection, client events, restart | timers, events of clients already replaced, checks before an await. One current engine, READY means ready, bounded reconnection, stop means stop |
| Messages (`message.service.ts`) | `Message` rows | send and react through an engine | an engine replaced during the call |
| Webhook delivery (`webhook.service.ts`, `webhook.processor.ts`) | webhook rows, a queue | dispatch, deliver, retry | retries, stalled jobs, an edit during a dispatch. Tried a bounded number of times, ended truthfully, off means off |
| Hooks and plugins (`hook-manager.service.ts`, `plugin-loader.service.ts`) | handlers by event and priority, plugin states | register, execute, enable, disable | a plugin changed while its handlers run |
| Storage, cache, Docker, infrastructure | files, Redis, containers | wrappers | I/O only |

### How they interact

A campaign goes tenant → `CampaignsService` → queue → `CampaignProcessor` → HTTP
to an engine → WhatsApp; acknowledgements come back engine → webhook → queue →
`WebhooksProcessor`, which writes the campaign's recipient rows without the
campaign service knowing, while `CampaignProcessor` writes the conversations that
`WebhooksProcessor` writes.

The engine the tenant backend talks to is not quite the OpenWA of this repository. It
posts to `/api/messages/send` and `/api/messages/react`, to `/restart`, `/unlink` and
`/status` of a session, and expects the events of `engine-webhook.dto.ts`
(`message.outgoing`, `session.chats_synced`, ...); `src/src` has none of these routes
but sends below `/api/sessions/:sessionId/messages`, and posts other events to
webhooks that tenants set up there. The two programs are therefore modelled
apart, and no module composes them: for the tenant backend an engine is what its calls
and events show of it (in `Campaign`, `Inbox`, `TenantSessions`), and the models of OpenWA
(`BulkMessage`, `EngineSession`, `WebhookDelivery`) are about its own clients.

In OpenWA, `SessionService` owns the map from which
`BulkMessageService` and `MessageService` take their client; events of the client
call back into `SessionService`, which writes the row and arms timers.

In the tenant backend, `WebhooksProcessor` and the inbox handlers write the same
messages and conversations; `SessionsService` talks to its engine, to Redis and to the
database, which change one after the other; `TeamService` and `AuthService` share the
members and their tokens. In OpenWA, `SessionService` dispatches every client event
to the webhooks without awaiting the dispatch.

`PROJECT.json` lists the hazards found, each at its line, with the properties that
watch it. Every one of them has at least one.

## The modules

| module | models | role |
|---|---|---|
| `Campaign` | campaigns, the worker, the queue, acks, crashes | detailed |
| `CampaignLedger` | enrolments, allowances, copies | abstract, implemented by `Campaign` |
| `BulkMessage` | one batch of the engine | detailed |
| `EngineSession` | one session of the engine and its reconnections | detailed |
| `Inbox` | one chat: webhook events, sending, reacting, reading, a campaign's send | detailed |
| `Team` | members, links, invitations, sign-ins | detailed |
| `Conversations` | assigning, pinning, archiving, on top of `Team` | detailed, composes the two |
| `TenantSessions` | sessions of a tenant, the registry in Redis, the engines | detailed, composes four stores |
| `WebhookDelivery` | webhook rows, dispatch, queue and worker | detailed |
| `Delivery` | what is promised of a delivery | abstract, implemented by `WebhookDelivery` |
| `MCCampaign`, `MCTenantSessions`, `MCWorkspace` | symmetry of an instance | for TLC |
| `*_proofs` | theorems about the module they are named after | proofs |

Every detailed module has *plausible faults* beside its definitions: for every property, a
version of one definition as a slip in that code would leave it. With the fault in
place of the definition, TLC finds the property violated; no specification uses
them.

Types are stated once per module (`TypeOK`) and proved; the runs check the other
properties.

### Campaign

*State.* `status`, `scheduled`, `total` are the `Campaign` row; `row`, `retries`
and `ackable` the `CampaignContact` rows (`ackable`: the row is linked to a
message whose external id is stored, so that an ack finds it). `jobs` and
`stalled` are the queue. `req[r]` is what the HTTP request in slot `r` read before
its last await. `pc`, `todo`, `cur`, `ext`, `again` are the worker's stack:
where it is in `handleCampaign`, the snapshot it iterates over, the recipient in
hand. The rest are history variables that no guard of a code action reads.

*Actions.* `CreateCampaign`, `CloneCampaign`, `LaunchRead`/`LaunchWrite`,
`CancelRead`/`CancelWrite`, `ImportRead`/`ImportWrite`, `UpdateRead`/`UpdateWrite`,
`RetryRead`/`RetryFind`/`RetryWrite` are the service's handlers cut at their
awaits, and `Enqueue`/`EnqueueFails` the `queue.add` after the database write.
`TakeJob` … `Complete` follow `handleCampaign` line by line: `FindCampaign`,
`SetRunning`, `FetchPending`, `EngineFound`/`EngineMissing`, then for every
recipient `StopIfCancelled` or `NextContact` (the status is read again for each),
`SendOk` or `SendError`, `MarkMessage`, `MarkRow`, `EmitProgress`, or `MarkFailed`;
`FailAfterSend` is a database error after the engine has accepted the message,
`JobFails` an exception that ends the job, `Crash` the process dying (the job is
stalled and BullMQ hands it out once more: `TakeStalledJob`). `Ack` is what
`WebhooksProcessor` writes, in whatever order acks come. The rows of conversations and
messages that the loop makes before it sends (`campaign-processor.ts:253-321`) belong to the
chat and are in `Inbox`; here they can only throw, which is `JobFails`.

*Properties.* `TotalCountsRows` (the counter the dashboard divides by is
the number of rows); `NoExtraCopies` (a recipient gets at most one copy, one more
for each retry and each cut run, however launches, retries and duplicates of jobs
overlap); `ActiveHasJob` (RUNNING or SCHEDULED means there is a job somewhere, or
one was lost); `NobodyLeftBehind` (a COMPLETED campaign has no PENDING recipient
except those imported behind the worker's back); `ProgressIsReal` (SENT,
DELIVERED, READ only if the engine accepted a message); `CancelledStaysQuiet`
(while CANCELLED only the message in flight goes out); `ImplementsLedger`
(refinement); `RunningEnds` (liveness).

### CampaignLedger

What the tenant is promised, without queue, worker, request or crash: recipients
are enrolled once and never dropped, each has an allowance of copies, and a copy is
delivered only within it. `Campaign` maps `enrolled` to the rows, `copies` to
`sends`, `allowed` to `1 + retries + aborts`.

### BulkMessage

*State.* `row` is the saved batch, `entity` the copy `processBatch` holds,
`cancel[r].copy` the copy a cancel request holds, `flag` the entry of
`processingBatches`. `pc` is where `processBatch` stands. A `save()` of TypeORM is two
statements, a SELECT and an UPDATE of the columns that differ from what was selected, so
`seen` and `cancel[r].seen` keep the row as it was read, and `torn` tells (as history) that
an UPDATE was decided on a row that had changed meanwhile.

*Actions.* `CreateBatch`, then `ReadBatch`, `StartBatch`, `SaveStarted`,
`SaveNoEngine`, `SendNext`/`LeaveLoop`, `SendSucceeds`/`SendFails`, `SaveProgress`
(every tenth message and the last: `SaveEvery`), `Finish`, `SaveFinal`, each save with
its SELECT (`SaveLooks`) before its UPDATE;
`DatabaseFails` is a save that throws out of the loop. A cancel is `CancelRead`,
`CancelSignal`, `CancelLooks`, `CancelSave` or `CancelSaveFails`. `Crash` ends the process: nothing
resumes a batch.

*Properties.* `ProgressAddsUp` (sent + failed + pending + cancelled is the
size of the batch in every copy, unless a cancel came before the batch was first
read or an UPDATE tore the row, see below); `CancelStopsSending`; `CompletedWasTried`
(COMPLETED stands for a batch that was tried to the end and not in vain, or was stopped at
an error as it was told to, and the row's own numbers say so unless it is torn);
`CrashForgetsLittle` (the row is at most `SaveEvery` messages behind); `BatchSettles`
(liveness).

Three things the model made visible are kept in the statements rather than hidden: a
cancel whose UPDATE lands between the SELECT and the UPDATE of another save leaves a row
with columns of both, such as COMPLETED beside the cancel's older progress; a
cancel that is handled before `processBatch` first reads the row leaves the batch
with no pending messages, the loop sends them all the same and counts below zero;
and a batch stopped by `stopOnError` is turned from FAILED into COMPLETED at the end
if anything was sent.

### EngineSession

*State.* `row` (the status, in the groups the properties tell apart), `map`
(`engines.get(id)`), `tracked`/`attempts`/`timer` (`reconnectStates.get(id)`),
`loose` (timers still pending whose handle was overwritten by a second disconnect or
a second start, which `cancelReconnect` can no longer clear), `client[e]` (the
browser client of each adapter object, whether or not the map still knows it) and
`task[t]` (a handler or a reconnection standing at an await, with the engine it
holds).

*Actions.* `Create`; `StartBegin` (check, then a hook is awaited) and `StartEngine`;
`InitDone`/`InitFails` (the end of `initialize`); `StopBegin`, `StopIdle`,
`StopDone` (the adapter swallows a throw of `client.destroy`,
`whatsapp-web-js.adapter.ts:214-227`, and then the client runs on: `leaked`, as history);
`DeleteBegin`, `DeleteDestroyed`, `DeleteFails`, `DeleteDone`;
`TimerFires`, `ReDestroyed`, `ReDestroyFails` (`executeReconnect`); `ClientProgress`,
`ClientReady`, `ClientDisconnected` (events of any client, old or new); `Restart`
(`onModuleDestroy` or the end of the process, then `onModuleInit`). Status writes are
not awaited; they go through one SQLite connection and take effect in the order they
were issued.

*Properties.* `NewestInMap` (whatever overlaps, the map never goes back to
an older engine); `ReadyIsReal` (the row says READY only while some client of the
session is); `ReconnectsBounded` (no more than `MaxAttempts` reconnections between
two successes, plus those already pending); `StoppedStaysDown` (a stop nothing
overlapped leaves no engine, no timer and no client but one whose destroy threw, until the
next start, whatever such a client reports);
`LostComesBack` (liveness: a lost client is replaced or the attempts are used up,
provided no forgotten client of the session is around to reset the counter).

### Inbox

*State.* `session`, `live`: the newest session row and whether it still exists. `convs`
are the Conversation rows of the chat (session and unread count), `messages` the Message
rows in the order of their creation (whose message, direction, conversation, status,
whether the externalId is stored, reactions). `queue` holds the jobs of `webhook-events`,
`worker` what the one worker is doing, `req[r]` what an HTTP request, or the campaign
worker for one recipient, has read. `accepted` is what the engine put on its way; `hist` is
history.

*Actions.* `HandleEngineEvent` accepts an event, also twice and in any order. The worker's
handlers are cut at their awaits: `HandleMessage`, `ReattachLook`, `ReattachDelete`,
`ReattachTrim`, `ReattachKeep` (`reattachOrphan`), `CountMessage`, `CreateMessage`;
`HandleChatsSynced`, `SyncChat`; `HandleMessageAck`, `RetryAck`; `HandleReaction`,
`WriteReaction`. `sendMessage` is `SendReply`/`SendNew`, `SendCreate`, `SendPost`,
`SendSave` (the answer may carry no `messageId`, and then no
externalId is stored), `SendCount`, with `SendPostFails`, `SendSaveFails` and `SendCatch`
for its error path. A campaign's send to the same chat is `CampaignLook`, `CampaignPurge` or
`CampaignAttach`, `CampaignUpsert` (`campaign-processor.ts:253-301`: orphans deleted with
their messages' links, or adopted, then an upsert), and goes on as the same send, at most
one at a time; `markAsRead` is `MarkMessages`, `ResetUnread`; `reactToMessage` is
`ReactRead`, `ReactWrite`. `DeleteSession` and `CreateSession` leave and adopt orphaned
conversations. `DatabaseFails` ends a job (retried while it has attempts), `RequestFails`
a request; `Crash` loses the requests and hands the worker's job out once more; a job found
stalled a second time is failed by BullMQ, whatever attempts it has left.

*Properties.* `InboundOnce` (one row per message of the contact, however often its event
is delivered or retried); `BadgeIsExact` (the unread counter is the number of unread
messages, except while a handler is between its two statements, and after one failed or
two overlapped there); `OneRowPerSend` (a second row only for an echo handled while the
send waited, an answer without an id, or a send that went wrong); `SendOutcome` (what a send leaves in its row is
what became of it); `ReactionsKept`; `AcksStand` (only a later ack takes back what an ack
wrote); `HistoryKept` (neither worker takes a message's conversation away, unless a send
had opened a second one for the chat, or the session was deleted between a worker's look for
its row and its deleting the orphans); `NeverForgotten` (action property: a received message
is queued or in the worker's hands until it is stored, or given up because its session is
gone, its attempts are used up or its job stalled twice); `QueueDrains` (liveness: with
`NeverForgotten`, every received message is stored or given up for one of these reasons).

The exceptions are not decoration: each of them is a schedule the code allows, and TLC
finds it when the exception is taken away. A job that fails between the increment and the
insert counts its message twice; an echo that overtakes the saving of the externalId is
stored a second time.

### Team and Conversations

*State.* `users` (role, manager, none/active/removed by email), `invites`, `tokens`
(refresh tokens), `req[r]` with the rows a request has read; `convs` (status, agent,
pinned, archived). History: `torn` (members whose row was written on a check no longer
true), `late` (removed members who signed in meanwhile), `signins`, `crossed`, `reopened`.
`Conversations` extends `Team`, and its `Spec` runs both: assignments check roles and links
that `Team`'s requests change.

*Actions.* Read and write of `updateMemberRole`, `setMemberManager`; `removeMember` with
its three statements (`RemoveUnassign`, `RemoveUser`, `RemoveTokens`); inviting,
accepting, resending, revoking, expiry; `RegisterRead`/`RegisterWrite` (the public
`POST /auth/tenants/:tenantId/register`, which takes no invitation); `login`, `refresh`, `logout`; `AssignRead` and
`AssignWrite`, `MessageReopens`, pinning, archiving and their opposites. `RequestLost`
ends a request anywhere.

*Properties.* `LinksHold` (the manager of an active member is an active MANAGER and the
member an AGENT, unless a row was written on a stale check); `RemovedIsSignedOut`;
`OneTokenPerSignIn` (rotating a token twice at once does not multiply it);
`JoinsOnce` (action property: who joins was never a member, and either uses up in that step
an invitation neither used nor revoked or has registered as an administrator; nothing but a
join uses an invitation up); `PinsBounded` (a count followed by an update passes
the limit, by at most the number of other requests under way: `MaxPins - 1 + Slots`);
`AssignmentIsShown` (ASSIGNED and having an assignee go together, unless two assignments
or an assignment and a message crossed).

The tenant's owner is made with the tenant at signup; no request to a tenant that exists
makes an owner, changes or removes the one it has, so the owner is not a variable.
Everybody else joins by an invitation, or registers as an administrator without one.

### TenantSessions

*State.* `registry` (the counts under `engine:<id>` in Redis, `Gone` without the key),
`mapping` (`session:engine:<id>`), `row` (the Session rows), `up` and `hosted` (the engine
processes and the sessions they run), `events` (the queue of their webhooks), `req[r]`.

*Actions.* `register` and `heartbeat`, and the increments and decrements of a count, as a
read and a write of the whole record; expiry of an engine's key and of a mapping;
`createSession` (`CreatePick`, `CreateRow`, `CreatePost`, `CreateFails` with
`CreateRollback`, `CreateSaveId`, `CreateMap`); reconnecting and unlinking; `deleteSession`
(`DeleteRead`, `DeleteEngine`, `Release`, `Unmap`, `DeleteRow`); connects, disconnects and
crashes of an engine, `HandleSessionEvent`, `EventFails` (tried again later, or dropped after its last attempt);
`RequestLost`.

*Properties.* `CountIsExact` (a count none of whose writers lost another's change is the
number of sessions mapped to its instance, the requests between the two writes accounted
for); `StatusFollowsEngine` (once all is quiet a row says CONNECTED exactly if the engine's
session is linked); `RowIsWhole` (a row outlives its create only with its openwaId and its
mapping); `NoGhosts` (the engine keeps no session whose row is gone). Each names the
sessions it excepts by what happened to them: `exact`, `stale`, `broken`, `loose`.

### WebhookDelivery and Delivery

*State.* `queued` (whether the queue is configured), `rows` and `edit[r]` (webhooks and the
requests that edit them), `task[e]` (the loop of each event's dispatch, with the rows it
read), `jobs` and `worker` (BullMQ), `fate` of each delivery. History: `tries`, `answers`,
`upset`, `silent`, `crossed`.

*Actions.* `Create`, `EditRead`, `EditSave` (an update saves the whole entity and inserts
it again if it is gone); `Dispatch`, `Cancelled` (a plugin), `Enqueue`/`EnqueueFails`, and
without the queue `DeliverBegin`, `Post`, `Record`/`RecordFails`; the worker's `Take`,
`JobPost`, `JobRecord`/`JobRecordFails`; `Crash` (a direct dispatch is lost, a job is
stalled and runs again at most `MaxStalled` times). `RetryCount` counts attempts in all, and
0, which the request may ask for, is one attempt as 1 is (`Attempts`). A `queue.add` that
throws may have added the job (`EnqueueFails`): Redis can lose the answer.

*Delivery* is the promise: a delivery is tried a bounded number of times, counts as sent
only when the receiver said so and as failed only when its attempts are used up without a
yes or something failed, is not lost once queued, and a receiver that said yes is asked again
only after a failure of the process or its database.

*Properties.* `ImplementsDelivery` (refinement, both paths); `DeliveriesEnd` (liveness);
`SwitchedOffIsSilent` (a webhook switched off or deleted gets no later event, unless an
edit that overlapped wrote the old row back).

## The runs

| run | instance | shows |
|---|---|---|
| `campaign_safety` (`MCCampaign.cfg`) | 2 recipients, 2 request slots, 3 requests, 1 crash or failed job, symmetry; 1.5 million states | all safety properties of `Campaign`, and that it implements the ledger |
| `campaign_liveness` (`MCCampaignLive.cfg`) | 2 recipients, 2 slots, 2 requests, 1 crash, fairness, no symmetry; 180 000 | `RunningEnds` |
| `campaign_cancel` (`MCCampaignCancel.cfg`) | 2 requests, no crash | expected violation: a cancelled campaign is sent |
| `campaign_cleared` (`MCCampaignCleared.cfg`) | 1 recipient, 2 requests | expected violation: a campaign whose schedule was cleared is sent without a launch |
| `bulk_batch` (`MCBulkMessage.cfg`) | 6 messages saved every second one, 2 cancels, a crash, failing saves, fairness; 550 000 | all properties of `BulkMessage` |
| `bulk_cancel` (`MCBulkMessageCancel.cfg`) | 2 messages, 1 cancel | expected violation: a CANCELLED row is written over |
| `inbox` (`MCInbox.cfg`) | 1 message in, 1 out (a user's or a campaign's), 2 slots, 2 requests, 2 events, 3 sessions, 2 attempts, 1 ack retry, 1 failure or crash and a stalled job stalling again, chats synced empty or with messages read, fairness; 1.8 million | all properties of `Inbox` |
| `session_safety` (`MCEngineSession.cfg`) | 2 engines, 2 tasks, 2 attempts, 2 timers, fairness; 745 000 | all properties of `EngineSession`, liveness included |
| `session_stop` (`MCEngineSessionStop.cfg`) | 2 engines, 2 tasks, 1 attempt, 1 timer | expected violation: a reconnection goes on after a stop |
| `tenant_sessions` (`MCTenantSessions.cfg`) | 2 engines with room for 1 session each, 2 sessions, 2 slots, 3 requests, 3 events, 1 failure, symmetry; 2.3 million | all properties of `TenantSessions` |
| `webhook_delivery` (`MCWebhookDelivery.cfg`) | 1 event, 2 webhooks, 2 attempts, 1 rerun of a stalled job, 2 slots, 2 edits, 2 failures, fairness; 450 000 | all properties of `WebhookDelivery` |
| `workspace` (`MCWorkspace.cfg`) | 3 members, 3 conversations, 2 slots, 3 requests, 1 pin, symmetry; 420 000 | all properties of `Team` and `Conversations` |

**Why these bounds are enough.** The races are between two handlers, or a handler
and the worker, so two request slots and two tasks meet all of them; a third
request is what sets the race up (a creation, a retry, a heartbeat). Two
recipients distinguish "this one" from "another one", which is all the loop does;
one crash is enough to run a job twice. A second crash is needed only to stall the same job
twice, which ends it: in `Inbox` it is allowed beyond `MaxFaults`, in `WebhookDelivery`
`MaxStalled` and two failures allow it. Six messages
saved every second one give a batch with saves in the middle, a last save, and a crash
before, at and after each of them. Two engines of a session let one run while its
successor is made; two attempts let the first fail and the second succeed; two timers are
needed for a handle to be overwritten. In the inbox two events are an event and its
duplicate, an echo or an ack against the send, or a message against a sync. Three sessions
let a chat be orphaned and adopted. Room for one session per engine meets the limit at
once. One pin, two slots and three conversations pass the limit and meet its bound
exactly; three members are a manager, an agent and a newcomer. The theorems lift every one
of these bounds for the safety properties.

Deadlock is not checked: requests, events and failures are bounded, so every instance
comes to states where nothing is left to do: a COMPLETED campaign, a settled batch, a
deleted session, an empty queue.

**Fairness.** `Campaign` assumes weak fairness of the worker's step and of a
request's `queue.add` (answered or refused): a Node process resumes an await once its
call returns, and BullMQ polls while there is a job. That the call to the engine returns is an assumption
about the engine: `axios.post` has no timeout there (`campaign-processor.ts:324`), and an
engine that accepts the connection and never answers would hold the worker. Nothing is
assumed of requests,
acks, crashes, or of which way an external call turns out. `BulkMessage` assumes weak
fairness of `processBatch`'s steps; `Inbox` of its worker; `WebhookDelivery` of each
dispatch and of the worker, for the same reason. `EngineSession` assumes weak fairness of
a task's resumption, and strong fairness of timers: a timer fires when it is due whatever
requests do, but the bound on tasks under way at once can disable the action again
and again; in the program there is no such bound. No event of a WhatsApp client is
fair: it may never become ready. `Conversations` and `TenantSessions` assume none and
state no liveness.

## Disagreements with what the repository says

1. **A cancelled campaign is sent** (`campaign_cancel`). The worker reads the status,
   then writes RUNNING without looking again (`campaign-processor.ts:112-135`). A
   cancel saved in between is overwritten and every pending recipient gets the
   message, although the campaign page says they will not.
2. **A campaign whose schedule was cleared is sent** (`campaign_cleared`). Clearing
   puts it back to DRAFT (`campaigns.service.ts:318`), but the delayed job stays in
   the queue and the worker skips only CANCELLED campaigns.
3. **A cancelled batch does not stay cancelled** (`bulk_cancel`). `processBatch` and
   `cancelBatch` save two copies of one row.
4. **A stopped session starts again** (`session_stop`). A reconnection that awaits the
   old engine's `destroy` when `stop` runs (`session.service.ts:393`) goes on to start
   a new engine and put it in the map.

Disagreements met in reading that no run represents:

* The idempotency key of a webhook is documented as "Unique key per event (same across
  retries)" (`src/docs/06-api-specification.md:1124`). `toStr` turns a missing
  `messageId` into the word `unknown` (`src/src/modules/webhook/utils/idempotency.util.ts:7`),
  so the fallback to `data.id` (line 36) is not taken and such events share one key.
* A comment (`conversations.service.ts:299-303`) allows a manager to take only
  conversations that are free or of the own team; with a `userId` the code checks whom it
  is assigned to and not who had it (`MayAssign` models the code).
* The webhook worker keeps `...@lid` addresses whole (`normaliseJid`); `sendMessage`
  cuts them at the `@` (`messages.service.ts:214-215`), so such a contact gets two
  conversations.
* `updateMemberRole` is said to cascade "so links never dangle", in one transaction "so
  there's no window where the data is inconsistent" (`team.service.ts:363-374`). The role it
  checks is read before the transaction, so two overlapping requests leave an agent linked
  to somebody who is no manager any more: the exception of `LinksHold`.
* "You can pin a maximum of 3 conversations" (`conversations.service.ts:185-188`). The pins
  are counted in one statement and set in another; overlapping requests pass the limit:
  `PinsBounded` says by how much.
* `retryCount` is the "Number of retry attempts on failure"
  (`src/src/modules/webhook/dto/webhook.dto.ts:54`), and the requirements have deliveries
  retried three times (`src/docs/02-requirements-specification.md:95`). The code counts the first
  attempt too: 3 makes three posts, not four, and 0 and 1 are the same.
* Nothing in `POST /auth/tenants/:tenantId/register` (`src/backend/src/auth/auth.controller.ts:30-41`,
  `auth.service.ts:31-44`) asks for an invitation or a signed-in user: whoever knows a
  tenant's id becomes its administrator, although the invitations of `TeamService` are how
  one joins a team. `JoinsOnce` is what is left: nobody joins twice, and never in place of
  somebody who was removed.
* `adapter.disconnect` swallows whatever `client.destroy` throws, as "Already destroyed or
  not initialized" (`whatsapp-web-js.adapter.ts:222`); a destroy that failed otherwise
  leaves a browser nobody holds: the exception of `StoppedStaysDown`.

## The proofs

Proved with TLAPS, for every value of the constants. **Every safety property a passing
run checks is a theorem**, and so are both refinements. The names in brackets are the
properties the runs check; a theorem without one is a type invariant, or states more than
any run does, in one of three ways explained below.

| module | theorems |
|---|---|
| `Campaign_proofs` | `TypeCorrect`; `CopiesBounded` (`NoExtraCopies`); `TotalsAgree` (`TotalCountsRows`); `ProgressTruthful` (`ProgressIsReal`); `ActiveNeverIdle` (`ActiveHasJob`); `AllWereTried` (`NobodyLeftBehind`); `CancelledQuiet` (`CancelledStaysQuiet`); `LedgerImplemented` (`ImplementsLedger`); `LedgerIsHonoured`; `NobodyIsDropped`; `CampaignsEndWell`; `WorkEnds` |
| `BulkMessage_proofs` | `BatchTypeCorrect`; `ProgressSums` (`ProgressAddsUp`); `CancelSilences` (`CancelStopsSending`); `CompletedEarned` (`CompletedWasTried`); `CrashBounded` (`CrashForgetsLittle`); `EndIsTrue`; `BatchesEnd` |
| `EngineSession_proofs` | `TypeCorrect`; `NewestServed` (`NewestInMap`); `ReadyIsTrue` (`ReadyIsReal`); `RetriesBounded` (`ReconnectsBounded`); `StopIsFinal` (`StoppedStaysDown`); `LossNeverUnminded`; `OneAtATime` |
| `Inbox_proofs` | `InboxTypeCorrect`; `InboundStoredOnce` (`InboundOnce`); `BadgesAreExact` (`BadgeIsExact`); `SendsHaveOneRow` (`OneRowPerSend`); `SendsTellTheOutcome` (`SendOutcome`); `AcksAreKept` (`AcksStand`); `ReactionsAreKept` (`ReactionsKept`); `HistoryIsKept` (`HistoryKept`); `ReceivedIsNeverForgotten` (`NeverForgotten`); `JobsEnd`; `FairWeatherHolds` |
| `Conversations_proofs` | `WorkspaceTypeCorrect`; `LinksKept` (`LinksHold`); `RemovalSignsOut` (`RemovedIsSignedOut`); `TokensAccounted` (`OneTokenPerSignIn`); `MembersJoinOnce` (`JoinsOnce`); `PinsLimited` (`PinsBounded`); `AssignmentsShown` (`AssignmentIsShown`); `OneByOneIsExact` |
| `TenantSessions_proofs` | `SessionsTypeCorrect`; `CountsAreExact` (`CountIsExact`); `StatusIsTrue` (`StatusFollowsEngine`); `RowsAreWhole` (`RowIsWhole`); `NoGhostsLeft` (`NoGhosts`); `CalmRowsAreWhole`; `CalmIsKept` |
| `WebhookDelivery_proofs` | `DeliveryImplemented` (`ImplementsDelivery`); `OffMeansSilent` (`SwitchedOffIsSilent`); `DeliveriesAreHonest`; `EndsAreFinal`; `CalmDeliveries`; `OffMeansSilentForSure`; `DispatchesEnd` |

*Assumptions.* The recipients of a campaign are finitely many; `None` or `Nobody` is no
member of the sets it stands beside (`ContactsAssumption`, `TeamAssumption`,
`TenantSessionsAssumption`); an engine has room for a session; bounds are
naturals of any size (`BoundsAssumption`, `InboxAssumption`, `WebhookAssumption`); a batch
has a natural number of messages and saves after every `SaveEvery > 0`
(`SizeAssumption`); at least one pin is allowed (`ConvAssumption`); `EnginesAssumption` and
`LimitsAssumption` say the same of `EngineSession`'s constants. TLC evaluates all of them.

**Where the exceptions come from.** Many properties except what the code really gets
wrong. These theorems say the same without the exceptions, under the one condition that
rules their cause out, and so prove that there is no other cause:

| theorem | condition | what then holds without exception |
|---|---|---|
| `OneByOneIsExact` | one request slot | links between members, the limit of pins, assignment and status |
| `CalmIsKept` | one request slot, nothing failed | the counts in Redis, no session without a row, no engine above `maxSessions` |
| `CalmRowsAreWhole` | nothing failed | every row nobody works on has its `openwaId` and mapping |
| `OffMeansSilentForSure` | one request slot | a webhook switched off gets no later event |
| `CalmDeliveries` | nothing failed | one yes or `Attempts` refusals, nothing lost |
| `CampaignsEndWell` | nothing lost or cut short | a COMPLETED campaign has served everybody there in time |
| `EndIsTrue` | no cancel, no failing database call, no crash | the row of a batch at its end is all `processBatch` knew |
| `OneAtATime` | one handler or reconnection at a time | one browser, the one in the map, besides those whose destroy threw in a stop; READY is true of one of these; no tracked timer survives a stop |
| `FairWeatherHolds` | nothing failed, the session stays, two attempts | no message given up, a send's row is true, a second row only for an early echo or an answer without an id |

The conditions are part of a state or a behaviour the model has (`faults = 0`,
`SessionStays`) or a hypothesis on a constant (`Slots <= 1`, one member of `Tasks`), never
an assumption of a module: a tenant whose requests do not overlap meets the one, an
ordinary day the other. They are needed: with two slots TLC refutes `CalmIsExact`, with two
tasks each conjunct of `OneBrowser`, and with a single attempt `FairWeather` (a send takes
the conversation from under the job, which throws). The code has three attempts.

**Towards liveness.** Of each eventuality the runs check, the part that is not
about fairness is a theorem: `WorkEnds`, `BatchesEnd`, `JobsEnd`, `DispatchesEnd` give a
measure that every step of the process in question decreases, that no other actor raises
but by the steps they name (a queued job, a crash), and that is never negative;
`ReceivedIsNeverForgotten` and `LossNeverUnminded` say that what must happen is never
dropped: a received message is queued, in the worker's hands, stored, or given up for one of
the reasons the code has, and `JobsEnd` that its job comes back only with an attempt less,
or once after a crash; a lost client has a timer or a reconnection minding it. What remains to TLC is that
the process does take its steps. `DispatchesEnd` is about a dispatch, for finitely many
webhooks; the queue's worker is covered by the bound on tries in `DeliveriesAreHonest`.

**Through the refinements.** `LedgerIsHonoured`, `NobodyIsDropped`, `DeliveriesAreHonest` and
`EndsAreFinal` are what a tenant or a receiver may conclude from the abstract specification
alone; each is proved of the ledger or of `Delivery` first (`LedgerKeptAlways`, `KeptAlways`)
and carried to the code by the refinement.

TLC agreed with each of these statements on the instance of its component's run before it
was proved.

**The arguments.**

*Campaign.* `NoExtraCopies` is not inductive: a message in the worker's snapshot has
been paid for already but not sent. `CampaignInv` adds `CopiesPaidFor`: a contact that
is still *owed* a message (pending, in the snapshot, or in hand before the send) has
one copy less than it may have. Around it stand `CurrentTaken` (the recipient in hand
is no longer in the snapshot), `AbsentUntouched`, `RetryKnown` (a retry holds only ids
of rows), `NothingBefore` and `SentBeforeSaved`. `ActiveHasJob` and
`CancelledStaysQuiet` have invariants of their own, the latter (`QuietInv`) because
`spared`, the message in flight and the status must be related. `NobodyLeftBehind` rests
on `LeftInv`: the snapshot covers what is pending (`SnapshotCovers`) and is empty when the
loop ends (`EmptyAtEnd`). The refinement maps each action to one of the ledger's steps or
to a stutter; a crash or a cut job is `Allow(Contacts)`, a retry `Allow` of its ids.

*BulkMessage.* `BulkInv` carries the sum through **every copy** of the batch: the
row, the loop's entity and the copy each cancel holds, since any of them may be saved
over the others, and through both statements of a save (`seen`). `TriedInv` says that COMPLETED is chosen once, after the loop went to
its end or was broken off by an error; `BehindInv` how far the last save may be behind the
loop's position, at each place of the loop. `EndInv`, behind `EndIsTrue`, says
that nothing is cancelled, which status the last save writes and that the row then equals
the entity.

*EngineSession.* `NewestInMap`, `ReadyIsReal` and `ReconnectsBounded` are inductive
together with `TypeOK`: the map gets only the engine just made, and each reconnection is
paid from the attempts used and the timers pending. `StopInv` answers who could still bring an engine up after a stop that nothing overlapped:
nobody (`NobodyLeft`), because the stop was alone when it ran (`AloneStop`), and a
leaked client that reports finds no `reconnectStates` entry that would arm a timer. `Solo` goes
through the places one task can stand at and says where each leaves the map, the clients
and the timers.

*Inbox.* `RowInv`: rows of the contact's messages come only from the worker, which looks
before it creates. `SendInv` relates a request to the row it created (`RequestKnows`) and
a row to what the engine did (`RowTells`). `ReactInv` relates the stored reactions to the
last wishes and to what a handler has read. `ConvInv` says how many conversations a chat
has (`ConvsSplit`), what the worker has made sure of (`JobsPast`, `WorkerKnows`) and what
the campaign worker has (`MailKnows`): the orphans either is about to delete belong to a chat
that has another conversation, and were split from it.
`BadgeInv` is the arithmetic of the counter: a message counted but not stored is one too
many, and while a `markAsRead` is under way there is nothing unread. `FairInv` says that in
fair weather a job tried again finds a conversation that stays (`FairJobs`, `FairWorker`)
and that every request, a campaign's included, is of the session there is (`FairRequests`).

*Conversations.* `LinkInv` speaks of what requests have read: as long as that is not
stale, the write that follows keeps the links. `TokenInv` counts tokens and the requests
about to create one against sign-ins. `PinInv` counts pins and the requests about to pin.
`JoinInv` says that an accepted invitation belongs to somebody who has joined, and that one
somebody is about to accept is still numbered.

*TenantSessions.* `SessionInv` is one statement per session: what its row is (`RowOk`),
what a request of it may rely on (`TasksOk`), and one part for each property (`WholeOk`,
`GhostOk`, `StatusOk`: the newest event of a session, or its row when there is none,
tells whether it is linked). `CountInv` adds that each release is the only one of its
session; `CalmInv`, for one request at a time, that what it has read of the registry is
still so and that a session on its way has room.

*WebhookDelivery.* `LedgerInv` says that a due delivery is held by a dispatch
(`DueIsHeld`), that dispatch and job have counted its tries (`DirectTries`, `JobTries`),
that a queued one has exactly one job (`OneJobEach`), and that nobody who said yes is
asked again (`NotAskedAgain`); every action is then a `Move` of the deliveries it touches
and of no others. `SilentIsOff` says that a webhook that is off stays off while edits do
not overlap.

*Only model-checked.* Liveness, which is out of the prover's reach: `RunningEnds`,
`BatchSettles`, `LostComesBack`, `QueueDrains`, `DeliveriesEnd`, beyond
the measures and safety halves above: fairness and ENABLED stay with TLC. The four expected violations are counterexamples and need no proof.

## Not modelled

The map covers the lines the models translate, about nine in a hundred of the
implementation. Most of the rest is user interface (`src/frontend`, `src/dashboard`),
the SDK, request validation, queries, and wrappers around files, mail, containers and the
browser, in which nothing is concurrent that a state machine would tell more about than
the text does.

* Several backend processes. One process runs the HTTP handlers and one worker of
  concurrency one. A BullMQ lock that expires under a living worker is not modelled; a
  stalled job comes from a crash only.
* Message texts, templates, media, pacing delays between messages, follow-up links,
  signatures and payloads of webhooks, e-mails, audit entries.
* Failing database reads, except where they end a job, a batch or a request.
* In `EngineSession`: one session only (sessions share nothing but the maps' other
  keys); hooks and gateway events, which change no session state; a hook that throws. The
  dispatch of its webhooks is `WebhookDelivery`.
* In `Inbox`: one chat with one phone number; chats share only the worker. Every event
  carries the message's id, as the engine's do: without one the worker would skip its look
  for duplicates (`webhooks.processor.ts:390, 565`). A campaign's recipient row is
  `Campaign`'s, its send of the same message is here; the two are not composed.
* Signup and e-mail verification of tenants (`tenants.service.ts`): unique constraints and
  single-row edits. Read while modelling: `updateProfile` sends the mail before it saves
  the token, `verifyEmail` checks uniqueness a second time.
* Contacts: imports go row by row, and a soft-deleted contact still holds its unique key,
  so that creating it again is refused.
* Hooks and plugins of the engine: in `WebhookDelivery` a plugin is the chance to cancel a
  delivery. Read while modelling: plugin states are never persisted, since
  `setPluginEntry` has no caller; `HookManager.execute` iterates over the array that
  `register` sorts in place; an enable that fails after registering leaves its hooks
  registered.
* Single messages of the engine (`message.service.ts`): a hook, one call and the insert of
  a row nobody updates.
* Gateways, analytics, audit log, API keys, templates, media, support, health, storage,
  cache, Docker: no state that another handler reads back and depends on.

What would come next: plugins enabled and disabled while their handlers run, the signup of
a tenant, and a second backend process sharing the queue.
