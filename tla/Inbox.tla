------------------------------- MODULE Inbox -------------------------------
(***************************************************************************)
(* The inbox of a tenant, seen from one chat: the rows of its messages and *)
(* conversations, the single worker that applies the engine's webhook      *)
(* events to them (webhooks.processor.ts), and the HTTP handlers that send, *)
(* react and mark as read meanwhile (messages.service.ts and               *)
(* conversations.service.ts), and the campaign worker when the chat is one *)
(* of its recipients (campaign-processor.ts).  Every await between two     *)
(* statements of a handler is a step of its own where another actor can    *)
(* come between.                                                           *)
(*                                                                         *)
(* The session of the chat may be deleted and created anew; the rows of    *)
(* its conversation are then orphans (sessionId null).  A conversation has *)
(* the number of the session under which it was created.                   *)
(***************************************************************************)
EXTENDS Integers, Sequences, FiniteSets

CONSTANTS Inbound,      \* messages the contact sends
          Sends,        \* messages sent, with sendMessage or by a campaign
          Slots,        \* bound: HTTP requests under way at once
          Acks,         \* the statuses acknowledged (a subset of ackMap's)
          Chats,        \* what the phone says of the chat when it syncs
          MaxSessions,  \* bound: sessions created one after the other
          MaxJobs,      \* bound: webhook events accepted, repeated ones included
          MaxRequests,  \* bound: requests made altogether
          MaxAttempts,  \* attempts of a job (3 in the code)
          Retries,      \* how often an ack is tried again (RETRY_DELAYS_MS: 4)
          MaxFaults     \* bound: failed database or engine calls, and crashes
                        \* (a job that stalled may always stall again)

ASSUME InboxAssumption ==
  /\ Inbound \cap Sends = {}
  /\ MaxSessions \in Nat \ {0, 1}
  /\ MaxAttempts \in Nat \ {0}
  /\ Acks \subseteq {"SENT", "DELIVERED", "READ", "FAILED"}
  /\ Chats \subseteq {"empty", "quiet", "unread"}
  /\ {Slots, MaxJobs, MaxRequests, Retries, MaxFaults} \subseteq Nat

VARIABLES session,   \* number of the newest session row
          live,      \* whether that row still exists
          convs,     \* Conversation rows: [session, unread] by number, 0 for null
          messages,  \* Message rows, in the order they were created
          queue,     \* jobs of webhook-events that wait, delayed ones included
          worker,    \* what the one worker is doing
          req,       \* what each request is doing
          accepted,  \* messages the engine has put on their way
          posted, asked, faults,  \* bounded counters
          hist       \* history: what overlapped or went wrong so far

vars == <<session, live, convs, messages, queue, worker, req, accepted,
          posted, asked, faults, hist>>
rows == <<session, live, convs, messages>>

Statuses == {"PENDING", "SENT", "DELIVERED", "READ", "FAILED"}
Parties == {"us", "them"}
Senders == {"send", "campaign"}
Nobody == "nobody"
ConvIds == 1 .. MaxSessions
Requests == 1 .. Slots

Ack(o, s) == [kind |-> "ack", msg |-> o, arg |-> s]
Events == [kind : {"received"}, msg : Inbound, arg : {"none"}]
     \cup [kind : {"outgoing"}, msg : Sends, arg : {"none"}]
     \cup [kind : {"ack"}, msg : Sends, arg : Acks]
     \cup [kind : {"reaction"}, msg : Inbound, arg : {"on", "off"}]
     \cup [kind : {"sync"}, msg : {Nobody}, arg : Chats]
Jobs == [ev : Events, session : ConvIds, left : 1 .. MaxAttempts, stalled : BOOLEAN]

NoJob == [pc |-> "idle"]
NoReq == [pc |-> "idle"]

(***************************************************************************)
(* Queries of the handlers.                                                *)
(***************************************************************************)
Rows(m) == {k \in DOMAIN messages : messages[k].id = "known" /\ messages[k].msg = m}
Keepers == {c \in DOMAIN convs : convs[c].session = session}
Orphans == {c \in DOMAIN convs : convs[c].session = 0}
Unread(c) == {k \in DOMAIN messages : /\ messages[k].conv = c
                                      /\ messages[k].dir = "INBOUND"
                                      /\ messages[k].status # "READ"}
SessionFound(j) == live /\ j.session = session

\* Deleting a conversation leaves its messages behind without one (SetNull).
Without(dead) == [c \in DOMAIN convs \ dead |-> convs[c]]
Detach(dead) ==
  [k \in DOMAIN messages |-> IF messages[k].conv \in dead
                             THEN [messages[k] EXCEPT !.conv = 0] ELSE messages[k]]
With(c, r) == [d \in DOMAIN convs \cup {c} |-> IF d = c THEN r ELSE convs[d]]

\* A row is stored by the worker, or before a message is sent, when there is
\* no externalId yet to store with it.
NewRow(m, dir, c, status, by) ==
  [msg |-> m, dir |-> dir, conv |-> c, status |-> status, by |-> by,
   id |-> IF by = "engine" THEN "known" ELSE "none", react |-> {}]

\* The chat is new, or an earlier session has left its conversation behind.
Init ==
  /\ session \in 1 .. (MaxSessions - 1) /\ live = TRUE
  /\ convs = [c \in {session - 1} \ {0} |-> [session |-> 0, unread |-> 0]]
  /\ messages = <<>>
  /\ queue = {}
  /\ worker = NoJob
  /\ req = [r \in Requests |-> NoReq]
  /\ accepted = {}
  /\ posted = 0 /\ asked = 0 /\ faults = 0
  /\ hist = [upset |-> {}, disturbed |-> {}, early |-> {}, split |-> {},
             lost |-> {}, wish |-> {}, torn |-> {}, mute |-> {}]

(***************************************************************************)
(* The session row: deletion sets the sessionId of its conversations to    *)
(* null, and the same phone may be connected again under a new row.        *)
(***************************************************************************)
Purging == \E r \in Requests : req[r].pc = "purge"
DeleteSession ==
  /\ live
  /\ asked < MaxRequests /\ asked' = asked + 1
  /\ live' = FALSE
  /\ convs' = [c \in DOMAIN convs |->
                 IF convs[c].session = session THEN [convs[c] EXCEPT !.session = 0] ELSE convs[c]]
  /\ hist' = IF worker.pc = "orphans" \/ Purging
             THEN [hist EXCEPT !.split = @ \cup Keepers] ELSE hist
  /\ UNCHANGED <<session, messages, queue, worker, req, accepted, posted, faults>>

CreateSession ==
  /\ ~live /\ session < MaxSessions
  /\ session' = session + 1 /\ live' = TRUE
  /\ UNCHANGED <<convs, messages, queue, worker, req, accepted, posted, asked, faults, hist>>

(***************************************************************************)
(* handleEngineEvent: an event becomes a job.  The engine repeats webhooks *)
(* it got no answer for and posts them side by side, so jobs may be doubled *)
(* and come in any order.  Only a message the engine took is echoed or     *)
(* acknowledged.                                                           *)
(***************************************************************************)
HandleEngineEvent(ev) ==
  /\ posted < MaxJobs
  /\ live
  /\ ev.msg \in Sends => ev.msg \in accepted
  /\ posted' = posted + 1
  /\ queue' = queue \cup {[ev |-> ev, session |-> session, left |-> MaxAttempts, stalled |-> FALSE]}
  /\ UNCHANGED <<rows, worker, req, accepted, asked, faults, hist>>

(***************************************************************************)
(* The worker runs one job at a time.  A job that throws is put back after *)
(* its backoff while it has attempts left.                                 *)
(***************************************************************************)
Take(j, kinds) == worker = NoJob /\ j \in queue /\ j.ev.kind \in kinds /\ queue' = queue \ {j}
JobDone == worker' = NoJob
\* Fault: the handler logs its error and the job counts as done.
JobThrows_Swallowed ==
  worker' = NoJob /\ UNCHANGED <<queue, hist>>

JobThrows ==
  /\ worker' = NoJob
  /\ queue' = IF worker.job.left > 1
              THEN queue \cup {[worker.job EXCEPT !.left = @ - 1]} ELSE queue
  /\ hist' = [hist EXCEPT
       !.disturbed = IF worker.pc = "message" /\ worker.job.ev.kind = "received"
                     THEN @ \cup {worker.conv} ELSE @,
       !.lost = IF worker.job.left = 1 /\ worker.job.ev.kind = "received"
                THEN @ \cup {worker.job.ev.msg} ELSE @]

\* What the database may do at any statement of a handler.
DatabaseFails ==
  /\ worker.pc \in {"reattach", "orphans", "conversation", "message", "try", "react"}
  /\ worker.job.ev.kind # "sync"
  /\ faults < MaxFaults /\ faults' = faults + 1
  /\ JobThrows
  /\ UNCHANGED <<rows, req, accepted, posted, asked>>

\* handleMessageReceived and handleMessageOutgoing: a known externalId is a
\* duplicate, and an event of a session that is gone is dropped.  Every event
\* has the id of its message, as the engine's payloads do; without one the
\* handlers would not look.
Answering(o) == \E r \in Requests : req[r].pc = "save" /\ req[r].msg = o
\* Fault: the externalId is not looked up.
Duplicate_NotAsked(j) == FALSE

Duplicate(j) == Rows(j.ev.msg) # {}
HandleMessage(j) ==
  /\ Take(j, {"received", "outgoing"})
  /\ IF Duplicate(j) \/ ~SessionFound(j)
     THEN JobDone
     ELSE worker' = [pc |-> "reattach", job |-> j]
  /\ hist' = [hist EXCEPT
       !.early = IF j.ev.kind = "outgoing" /\ Answering(j.ev.msg) THEN @ \cup {j.ev.msg} ELSE @,
       !.lost = IF j.ev.kind = "received" /\ ~Duplicate(j) /\ ~SessionFound(j)
                THEN @ \cup {j.ev.msg} ELSE @]
  /\ UNCHANGED <<rows, req, accepted, posted, asked, faults>>

\* handleSessionChatsSynced for this chat.
HandleChatsSynced(j) ==
  /\ Take(j, {"sync"})
  /\ IF SessionFound(j) THEN worker' = [pc |-> "reattach", job |-> j] ELSE JobDone
  /\ UNCHANGED <<rows, req, accepted, posted, asked, faults, hist>>

\* The three handlers first look for a conversation of this session and for
\* orphans of an earlier one (reattachOrphan) ...
NextStep == IF worker.job.ev.kind = "sync" THEN "sync" ELSE "conversation"
MineOrAny == IF SessionFound(worker.job) THEN Keepers ELSE {}
ReattachLook ==
  /\ worker.pc = "reattach"
  /\ worker' = IF MineOrAny # {}
               THEN [pc |-> "orphans", job |-> worker.job, kept |-> {}]
               ELSE IF Orphans # {}
               THEN [pc |-> "orphans", job |-> worker.job, kept |-> Orphans]
               ELSE [pc |-> NextStep, job |-> worker.job]
  /\ UNCHANGED <<rows, queue, req, accepted, posted, asked, faults, hist>>

\* ... and then delete them all, or keep the oldest and make it this
\* session's, which the unique key or the foreign key may refuse, unless a
\* campaign has just done so; and a campaign may have deleted it.
Oldest(S) == {c \in S : \A d \in S : c <= d}
ReattachDelete ==
  /\ worker.pc = "orphans" /\ worker.kept = {}
  /\ convs' = Without(Orphans)
  /\ messages' = Detach(Orphans)
  /\ worker' = [pc |-> NextStep, job |-> worker.job]
  /\ UNCHANGED <<session, live, queue, req, accepted, posted, asked, faults, hist>>
ReattachTrim ==
  /\ worker.pc = "orphans"
  /\ \E c \in Oldest(worker.kept) :
       LET extra == worker.kept \ {c}
       IN /\ extra # {}
          /\ convs' = Without(extra)
          /\ messages' = Detach(extra)
          /\ worker' = [pc |-> "orphans", job |-> worker.job, kept |-> {c}]
  /\ UNCHANGED <<session, live, queue, req, accepted, posted, asked, faults, hist>>

Attachable(c) == SessionFound(worker.job) /\ Keepers \subseteq {c} /\ c \in DOMAIN convs
ReattachKeep ==
  /\ worker.pc = "orphans"
  /\ \E c \in worker.kept :
       /\ worker.kept = {c}
       /\ IF Attachable(c)
          THEN /\ convs' = [convs EXCEPT ![c].session = session]
               /\ worker' = [pc |-> NextStep, job |-> worker.job]
               /\ UNCHANGED <<queue, hist>>
          ELSE /\ convs' = convs
               /\ IF worker.job.ev.kind = "sync"
                  THEN JobDone /\ UNCHANGED <<queue, hist>> ELSE JobThrows
  /\ UNCHANGED <<session, live, messages, req, accepted, posted, asked, faults>>

\* The upsert by (tenantId, sessionId, phoneNumber): one atomic statement,
\* which increments the unread counter or sets it.
Upsert(increments, count) ==
  convs' = IF Keepers # {}
           THEN [c \in DOMAIN convs |->
                   IF c \in Keepers
                   THEN [convs[c] EXCEPT !.unread = IF increments THEN @ + count ELSE count]
                   ELSE convs[c]]
           ELSE With(session, [session |-> session, unread |-> count])
Upserted == IF Keepers # {} THEN CHOOSE c \in Keepers : TRUE ELSE session
Resetting(c) == \E r \in Requests : req[r].pc = "reset" /\ req[r].conv = c

\* Fault: echoes of our own messages are counted as unread.
CountMessage_CountsOwn ==
  /\ worker.pc = "conversation"
  /\ IF SessionFound(worker.job)
     THEN /\ Upsert(TRUE, 1)
          /\ worker' = [pc |-> "message", job |-> worker.job, conv |-> Upserted]
          /\ UNCHANGED <<queue, hist>>
     ELSE JobThrows /\ UNCHANGED convs
  /\ UNCHANGED <<session, live, messages, req, accepted, posted, asked, faults>>

CountMessage ==
  /\ worker.pc = "conversation"
  /\ LET one == IF worker.job.ev.kind = "received" THEN 1 ELSE 0
     IN IF SessionFound(worker.job)
        THEN /\ Upsert(TRUE, one)
             /\ worker' = [pc |-> "message", job |-> worker.job, conv |-> Upserted]
             /\ hist' = IF one = 1 /\ Resetting(Upserted)
                        THEN [hist EXCEPT !.disturbed = @ \cup {Upserted}] ELSE hist
             /\ UNCHANGED queue
        ELSE JobThrows /\ UNCHANGED convs
  /\ UNCHANGED <<session, live, messages, req, accepted, posted, asked, faults>>

CreateMessage ==
  /\ worker.pc = "message"
  /\ IF SessionFound(worker.job)
     THEN /\ messages' = Append(messages,
               IF worker.job.ev.kind = "received"
               THEN NewRow(worker.job.ev.msg, "INBOUND", worker.conv, "DELIVERED", "engine")
               ELSE NewRow(worker.job.ev.msg, "OUTBOUND", worker.conv, "SENT", "engine"))
          /\ JobDone /\ UNCHANGED <<queue, hist>>
     ELSE JobThrows /\ UNCHANGED messages
  /\ UNCHANGED <<session, live, convs, req, accepted, posted, asked, faults>>

\* Chat sync takes the phone's own count; a chat without content makes no
\* row of its own; errors are logged and swallowed.
HasRow(j) == SessionFound(j) /\ (Keepers # {} \/ j.ev.arg # "empty")
SyncChat ==
  /\ worker.pc = "sync"
  /\ LET count == IF worker.job.ev.arg = "unread" THEN 1 ELSE 0
     IN \/ /\ HasRow(worker.job)
           /\ Upsert(FALSE, count)
           /\ hist' = [hist EXCEPT !.disturbed = @ \cup {Upserted}]
           /\ UNCHANGED faults
        \/ /\ ~HasRow(worker.job)
           /\ UNCHANGED <<convs, hist, faults>>
        \/ /\ faults < MaxFaults /\ faults' = faults + 1
           /\ UNCHANGED <<convs, hist>>
  /\ JobDone
  /\ UNCHANGED <<session, live, messages, queue, req, accepted, posted, asked>>

(***************************************************************************)
(* handleMessageAck: the status is written over whatever the row says; an  *)
(* ack that finds no row waits and tries again, and is dropped at last.    *)
(***************************************************************************)
WriteAck(j) ==
  messages' = [k \in DOMAIN messages |->
                 IF k \in Rows(j.ev.msg)
                 THEN [messages[k] EXCEPT !.status = j.ev.arg] ELSE messages[k]]
\* Fault: an ack waits until its row appears.
TryAck_NeverDrops(j, tries) ==
  IF Rows(j.ev.msg) # {}
  THEN WriteAck(j) /\ JobDone
  ELSE UNCHANGED messages /\ worker' = [pc |-> "try", job |-> j, tries |-> 0]

TryAck(j, tries) ==
  IF Rows(j.ev.msg) # {}
  THEN WriteAck(j) /\ JobDone
  ELSE /\ UNCHANGED messages
       /\ IF tries < Retries
          THEN worker' = [pc |-> "try", job |-> j, tries |-> tries + 1] ELSE JobDone
HandleMessageAck(j) ==
  /\ Take(j, {"ack"})
  /\ TryAck(j, 0)
  /\ UNCHANGED <<session, live, convs, req, accepted, posted, asked, faults, hist>>
RetryAck ==
  /\ worker.pc = "try"
  /\ TryAck(worker.job, worker.tries)
  /\ UNCHANGED <<session, live, convs, queue, req, accepted, posted, asked, faults, hist>>

(***************************************************************************)
(* handleMessageReaction: the reactions are read, changed and written back. *)
(***************************************************************************)
\* Fault: the other party's reaction is not carried over.
React_DropsOthers(old, who, arg) == IF arg = "on" THEN {who} ELSE {}

React(old, who, arg) == IF arg = "on" THEN old \cup {who} ELSE old \ {who}
Reacting(k) == \E r \in Requests : req[r].pc = "react" /\ req[r].row = k
HandleReaction(j) ==
  /\ Take(j, {"reaction"})
  /\ IF Rows(j.ev.msg) = {} THEN JobDone /\ UNCHANGED hist
     ELSE \E k \in Rows(j.ev.msg) :
            /\ worker' = [pc |-> "react", job |-> j, row |-> k, seen |-> messages[k].react]
            /\ hist' = IF Reacting(k) THEN [hist EXCEPT !.torn = @ \cup {k}] ELSE hist
  /\ UNCHANGED <<rows, req, accepted, posted, asked, faults>>
WriteReaction ==
  /\ worker.pc = "react"
  /\ LET new == React(worker.seen, "them", worker.job.ev.arg)
     IN messages' = [messages EXCEPT ![worker.row].react = new]
  /\ hist' = [hist EXCEPT !.wish = React(@, <<worker.row, "them">>, worker.job.ev.arg)]
  /\ JobDone
  /\ UNCHANGED <<session, live, convs, queue, req, accepted, posted, asked, faults>>

(***************************************************************************)
(* sendMessage.  A reply names its conversation; a new chat upserts one    *)
(* without looking for orphans.                                            *)
(***************************************************************************)
Free(r) == /\ req[r] = NoReq /\ \A q \in 1 .. (r - 1) : req[q] # NoReq
           /\ asked < MaxRequests /\ asked' = asked + 1
Goto(r, pc) == req' = [req EXCEPT ![r].pc = pc]
Leave(r) == req' = [req EXCEPT ![r] = NoReq]
Used == {messages[k].msg : k \in DOMAIN messages} \cup {req[r].msg : r \in {q \in Requests : req[q].pc = "create"}}

Creates(r, o, c, by) ==
  req' = [req EXCEPT ![r] = [pc |-> "create", msg |-> o, conv |-> c, session |-> session, by |-> by]]
SendReply(r, o, c) ==
  /\ Free(r) /\ live /\ o \notin Used /\ c \in DOMAIN convs
  /\ Creates(r, o, c, "send")
  /\ UNCHANGED <<rows, queue, worker, accepted, posted, faults, hist>>

SendNew(r, o) ==
  /\ Free(r) /\ live /\ o \notin Used
  /\ Upsert(TRUE, 0)
  /\ hist' = IF Keepers = {} /\ Orphans # {}
             THEN [hist EXCEPT !.split = @ \cup Orphans \cup {session}] ELSE hist
  /\ Creates(r, o, Upserted, "send")
  /\ UNCHANGED <<session, live, messages, queue, worker, accepted, posted, faults>>

SendCreate(r) ==
  /\ req[r].pc = "create"
  /\ IF live /\ req[r].session = session /\ req[r].conv \in DOMAIN convs
     THEN /\ messages' = Append(messages,
               NewRow(req[r].msg, "OUTBOUND", req[r].conv, "PENDING", req[r].by))
          /\ req' = [req EXCEPT ![r] = [pc |-> "post", msg |-> req[r].msg, session |-> req[r].session,
                                        row |-> Len(messages) + 1]]
     ELSE Leave(r) /\ UNCHANGED messages
  /\ UNCHANGED <<session, live, convs, queue, worker, accepted, posted, asked, faults, hist>>

SendPost(r) ==
  /\ req[r].pc = "post"
  /\ accepted' = accepted \cup {req[r].msg}
  /\ Goto(r, "save")
  /\ UNCHANGED <<rows, queue, worker, posted, asked, faults, hist>>

\* The engine refuses the message, or takes it and its answer is lost.
SendPostFails(r) ==
  /\ req[r].pc = "post"
  /\ faults < MaxFaults /\ faults' = faults + 1
  /\ Goto(r, "catch")
  /\ \/ UNCHANGED <<accepted, hist>>
     \/ /\ accepted' = accepted \cup {req[r].msg}
        /\ hist' = [hist EXCEPT !.upset = @ \cup {req[r].msg}]
  /\ UNCHANGED <<rows, queue, worker, posted, asked>>

\* Fault: the engine's message id is not saved with the status.
SendSave_NoExternalId(r) ==
  /\ req[r].pc = "save"
  /\ messages' = [messages EXCEPT ![req[r].row].status = "SENT"]
  /\ Goto(r, "count")
  /\ UNCHANGED <<session, live, convs, queue, worker, accepted, posted, asked, faults, hist>>

\* The externalId is what the answer carries, which may be none.
SendSave(r) ==
  /\ req[r].pc = "save"
  /\ \/ /\ messages' = [messages EXCEPT ![req[r].row].status = "SENT", ![req[r].row].id = "known"]
        /\ UNCHANGED hist
     \/ /\ messages' = [messages EXCEPT ![req[r].row].status = "SENT"]
        /\ hist' = [hist EXCEPT !.mute = @ \cup {req[r].msg}]
  /\ Goto(r, "count")
  /\ UNCHANGED <<session, live, convs, queue, worker, accepted, posted, asked, faults>>

\* Fault: the status is written last, after the externalId and the count.
SendCount_WritesStatus(r) ==
  /\ req[r].pc = "count"
  /\ messages' = [messages EXCEPT ![req[r].row].status = "SENT"]
  /\ Leave(r)
  /\ UNCHANGED <<session, live, convs, queue, worker, accepted, posted, asked, faults, hist>>

\* messagesSent is counted on the session row: if that is gone, the send is
\* taken for failed although the message went out.  A campaign marks its
\* recipient instead.
Counts(r) == messages[req[r].row].by = "campaign" \/ (live /\ req[r].session = session)
SendCount(r) ==
  /\ req[r].pc = "count"
  /\ IF Counts(r)
     THEN Leave(r) /\ UNCHANGED hist
     ELSE Goto(r, "catch") /\ hist' = [hist EXCEPT !.upset = @ \cup {req[r].msg}]
  /\ UNCHANGED <<rows, queue, worker, accepted, posted, asked, faults>>

SendSaveFails(r) ==
  /\ req[r].pc \in {"save", "count"}
  /\ faults < MaxFaults /\ faults' = faults + 1
  /\ Goto(r, "catch")
  /\ hist' = [hist EXCEPT !.upset = @ \cup {req[r].msg}]
  /\ UNCHANGED <<rows, queue, worker, accepted, posted, asked>>

\* Fault: an error of the engine leaves the row SENT.
SendCatch_AsSent(r) ==
  /\ req[r].pc = "catch"
  /\ messages' = [messages EXCEPT ![req[r].row].status = "SENT"]
  /\ Leave(r)
  /\ UNCHANGED <<session, live, convs, queue, worker, accepted, posted, asked, faults, hist>>

SendCatch(r) ==
  /\ req[r].pc = "catch"
  /\ messages' = [messages EXCEPT ![req[r].row].status = "FAILED"]
  /\ Leave(r)
  /\ UNCHANGED <<session, live, convs, queue, worker, accepted, posted, asked, faults, hist>>

(***************************************************************************)
(* The campaign worker, one job at a time, sends to the chat: it looks for *)
(* the session's conversation, deletes the orphans beside it or, if there  *)
(* is none, makes them all the session's, and goes on as sendMessage does. *)
(* A statement that is refused fails the job with nothing sent.            *)
(***************************************************************************)
Mailing(r) == \/ req[r].pc \in {"purge", "attach", "upsert"}
              \/ req[r].pc = "create" /\ req[r].by = "campaign"
              \/ /\ req[r].pc \in {"post", "save", "count", "catch"}
                 /\ messages[req[r].row].by = "campaign"
\* Fault: the orphans are deleted although the session has no conversation.
CampaignLook_Purges(r) ==
  /\ Free(r) /\ live /\ \A q \in Requests : ~Mailing(q)
  /\ req' = [req EXCEPT ![r] = [pc |-> "purge", session |-> session]]
  /\ UNCHANGED <<rows, queue, worker, accepted, posted, faults, hist>>

CampaignLook(r) ==
  /\ Free(r) /\ live /\ \A q \in Requests : ~Mailing(q)
  /\ req' = [req EXCEPT ![r] = [pc |-> IF Keepers # {} THEN "purge" ELSE "attach", session |-> session]]
  /\ UNCHANGED <<rows, queue, worker, accepted, posted, faults, hist>>

CampaignPurge(r) ==
  /\ req[r].pc = "purge"
  /\ convs' = Without(Orphans)
  /\ messages' = Detach(Orphans)
  /\ Goto(r, "upsert")
  /\ UNCHANGED <<session, live, queue, worker, accepted, posted, asked, faults, hist>>

\* The unique key refuses two orphans at once, or one beside a row that has
\* come meanwhile; the foreign key a session that is gone.
MineAgain(r) == live /\ req[r].session = session /\ Keepers = {} /\ \A c, d \in Orphans : c = d
CampaignAttach(r) ==
  /\ req[r].pc = "attach"
  /\ \/ /\ Orphans = {}
        /\ Goto(r, "upsert") /\ UNCHANGED convs
     \/ /\ Orphans # {} /\ MineAgain(r)
        /\ convs' = [c \in DOMAIN convs |->
                        IF c \in Orphans THEN [convs[c] EXCEPT !.session = session] ELSE convs[c]]
        /\ Goto(r, "upsert")
     \/ /\ Orphans # {} /\ ~MineAgain(r)
        /\ Leave(r) /\ UNCHANGED convs
  /\ UNCHANGED <<session, live, messages, queue, worker, accepted, posted, asked, faults, hist>>

CampaignUpsert(r, o) ==
  /\ req[r].pc = "upsert" /\ o \notin Used
  /\ IF live /\ req[r].session = session
     THEN Upsert(TRUE, 0) /\ Creates(r, o, Upserted, "campaign")
     ELSE Leave(r) /\ UNCHANGED convs
  /\ UNCHANGED <<session, live, messages, queue, worker, accepted, posted, asked, faults, hist>>

(***************************************************************************)
(* markAsRead: first the messages, then the counter.                       *)
(***************************************************************************)
MarkMessages(r, c) ==
  /\ Free(r) /\ c \in DOMAIN convs
  /\ messages' = [k \in DOMAIN messages |->
                    IF k \in Unread(c) THEN [messages[k] EXCEPT !.status = "READ"] ELSE messages[k]]
  /\ req' = [req EXCEPT ![r] = [pc |-> "reset", conv |-> c]]
  /\ hist' = IF worker.pc = "message" /\ worker.conv = c /\ worker.job.ev.kind = "received"
             THEN [hist EXCEPT !.disturbed = @ \cup {c}] ELSE [hist EXCEPT !.disturbed = @ \ {c}]
  /\ UNCHANGED <<session, live, convs, queue, worker, accepted, posted, faults>>

ResetUnread(r) ==
  /\ req[r].pc = "reset"
  /\ convs' = [c \in DOMAIN convs |->
                 IF c = req[r].conv THEN [convs[c] EXCEPT !.unread = 0] ELSE convs[c]]
  /\ Leave(r)
  /\ UNCHANGED <<session, live, messages, queue, worker, accepted, posted, asked, faults, hist>>

(***************************************************************************)
(* reactToMessage: the reactions are read before the engine is called and  *)
(* written back after it answered.                                         *)
(***************************************************************************)
ReactRead(r, k, arg) ==
  /\ Free(r) /\ messages[k].id = "known"
  /\ messages[k].conv \in Keepers /\ live
  /\ req' = [req EXCEPT ![r] = [pc |-> "react", row |-> k, seen |-> messages[k].react, arg |-> arg]]
  /\ hist' = IF Reacting(k) \/ (worker.pc = "react" /\ worker.row = k)
             THEN [hist EXCEPT !.torn = @ \cup {k}] ELSE hist
  /\ UNCHANGED <<rows, queue, worker, accepted, posted, faults>>

ReactWrite(r) ==
  /\ req[r].pc = "react"
  /\ LET new == React(req[r].seen, "us", req[r].arg)
     IN messages' = [messages EXCEPT ![req[r].row].react = new]
  /\ hist' = [hist EXCEPT !.wish = React(@, <<req[r].row, "us">>, req[r].arg)]
  /\ Leave(r)
  /\ UNCHANGED <<session, live, convs, queue, worker, accepted, posted, asked, faults>>

\* Any request may end early: a call of the engine or of the database fails.
RequestFails(r) ==
  /\ req[r].pc \in {"purge", "attach", "upsert", "create", "catch", "react", "reset"}
  /\ faults < MaxFaults /\ faults' = faults + 1
  /\ Leave(r)
  /\ hist' = IF req[r].pc = "reset" THEN [hist EXCEPT !.disturbed = @ \cup {req[r].conv}]
             ELSE IF req[r].pc = "catch" THEN [hist EXCEPT !.upset = @ \cup {req[r].msg}] ELSE hist
  /\ UNCHANGED <<rows, queue, worker, accepted, posted, asked>>

\* The process exits and starts again while something is under way: requests
\* are gone, and the job that was running is found stalled and run again, but
\* failed the second time (BullMQ's maxStalledCount is 1).
Twice == worker # NoJob /\ worker.job.stalled
Crash ==
  /\ worker # NoJob \/ \E r \in Requests : req[r] # NoReq
  /\ faults < MaxFaults \/ Twice
  /\ faults' = faults + 1
  /\ req' = [r \in Requests |-> NoReq]
  /\ worker' = NoJob
  /\ queue' = IF worker = NoJob \/ Twice THEN queue
              ELSE queue \cup {[worker.job EXCEPT !.stalled = TRUE]}
  /\ hist' = [hist EXCEPT
       !.upset = @ \cup {req[r].msg : r \in {q \in Requests : req[q].pc \in {"post", "save", "count", "catch"}}},
       !.disturbed = @ \cup {req[r].conv : r \in {q \in Requests : req[q].pc = "reset"}}
                       \cup (IF worker.pc = "message" /\ worker.job.ev.kind = "received"
                             THEN {worker.conv} ELSE {}),
       !.lost = IF Twice /\ worker.job.ev.kind = "received"
                THEN @ \cup {worker.job.ev.msg} ELSE @]
  /\ UNCHANGED <<rows, accepted, posted, asked>>

Receive == \E j \in queue : HandleMessage(j)
Worker == \/ Receive \/ ReattachLook \/ ReattachDelete \/ ReattachTrim \/ ReattachKeep
          \/ CountMessage \/ CreateMessage \/ SyncChat \/ RetryAck \/ WriteReaction
          \/ \E j \in queue : HandleChatsSynced(j) \/ HandleMessageAck(j) \/ HandleReaction(j)
Handler(r) == \/ SendCreate(r) \/ SendPost(r) \/ SendSave(r) \/ SendCount(r) \/ SendCatch(r)
              \/ ResetUnread(r) \/ ReactWrite(r)
Mail(r) == CampaignPurge(r) \/ CampaignAttach(r) \/ \E o \in Sends : CampaignUpsert(r, o)
Ask(r) == \/ \E o \in Sends : SendNew(r, o) \/ \E c \in DOMAIN convs : SendReply(r, o, c)
          \/ CampaignLook(r)
          \/ \E c \in DOMAIN convs : MarkMessages(r, c)
          \/ \E k \in DOMAIN messages, arg \in {"on", "off"} : ReactRead(r, k, arg)
Faults == \/ DatabaseFails \/ Crash
          \/ \E r \in Requests : SendPostFails(r) \/ SendSaveFails(r) \/ RequestFails(r)

Next == \/ DeleteSession \/ CreateSession
        \/ \E ev \in Events : HandleEngineEvent(ev)
        \/ Worker
        \/ \E r \in Requests : Ask(r) \/ Handler(r) \/ Mail(r)
        \/ Faults

Spec == Init /\ [][Next]_vars

\* BullMQ runs the worker while there are jobs; nothing else is fair.
FairSpec == Spec /\ WF_vars(Worker)

(***************************************************************************)
(* Properties.                                                             *)
(***************************************************************************)
ConvRow == [session : 0 .. MaxSessions, unread : Nat]
Row == [msg : Inbound \cup Sends, dir : {"INBOUND", "OUTBOUND"}, conv : 0 .. MaxSessions,
        status : Statuses, by : {"engine"} \cup Senders, id : {"none", "known"},
        react : SUBSET Parties]
JobsOf(kinds) == {j \in Jobs : j.ev.kind \in kinds}
WorkerTasks ==
       {NoJob}
  \cup [pc : {"reattach"}, job : JobsOf({"received", "outgoing", "sync"})]
  \cup [pc : {"orphans"}, job : JobsOf({"received", "outgoing", "sync"}), kept : SUBSET ConvIds]
  \cup [pc : {"conversation"}, job : JobsOf({"received", "outgoing"})]
  \cup [pc : {"message"}, job : JobsOf({"received", "outgoing"}), conv : ConvIds]
  \cup [pc : {"sync"}, job : JobsOf({"sync"})]
  \cup [pc : {"try"}, job : JobsOf({"ack"}), tries : 0 .. Retries]
  \cup [pc : {"react"}, job : JobsOf({"reaction"}), row : Nat, seen : SUBSET Parties]
RequestTasks ==
       {NoReq}
  \cup [pc : {"purge", "attach", "upsert"}, session : ConvIds]
  \cup [pc : {"create"}, msg : Sends, conv : ConvIds, session : ConvIds, by : Senders]
  \cup [pc : {"post", "save", "count", "catch"}, msg : Sends, session : ConvIds, row : Nat]
  \cup [pc : {"reset"}, conv : ConvIds]
  \cup [pc : {"react"}, row : Nat, seen : SUBSET Parties, arg : {"on", "off"}]

\* Every variable has its type, every job and request the fields its state
\* needs; a conversation has a session that exists (the foreign key), and no
\* two have the same (the unique key of the table).
TypeOK ==
  /\ session \in ConvIds /\ live \in BOOLEAN
  /\ DOMAIN convs \subseteq 1 .. session
  /\ \A c \in DOMAIN convs : convs[c] \in ConvRow
  /\ \A c \in DOMAIN convs : convs[c].session # 0 => live /\ convs[c].session = session
  /\ messages \in Seq(Row)
  /\ queue \subseteq Jobs
  /\ worker \in WorkerTasks
  /\ req \in [Requests -> RequestTasks]
  /\ accepted \subseteq Sends
  /\ posted \in 0 .. MaxJobs /\ asked \in 0 .. MaxRequests /\ faults \in Nat
  /\ hist \in [upset : SUBSET Sends, disturbed : SUBSET ConvIds, early : SUBSET Sends,
               split : SUBSET ConvIds, lost : SUBSET Inbound,
               wish : SUBSET (Nat \X Parties), torn : SUBSET Nat, mute : SUBSET Sends]
  /\ \A c, d \in Keepers : c = d

\* handleMessageReceived: a message of the contact has one row, however
\* often its event is delivered, retried or run again after a crash.
InboundOnce == \A i \in Inbound : Cardinality({k \in DOMAIN messages : messages[k].msg = i}) <= 1

\* The badge of a conversation is the number of its unread messages, unless
\* a job failed between counting and storing, a markAsRead overlapped one,
\* or the phone's own count was taken; a markAsRead on its own repairs it.
Busy(c) == Resetting(c) \/ (worker.pc = "message" /\ worker.conv = c)
BadgeIsExact ==
  \A c \in DOMAIN convs \ hist.disturbed :
    Busy(c) \/ convs[c].unread = Cardinality(Unread(c))

\* A message sent from the inbox or by a campaign has a second row only if its
\* echo was handled while the send waited for the database, the engine's answer
\* carried no id, or the send went wrong.
OneRowPerSend ==
  \A o \in Sends : \/ Cardinality({k \in DOMAIN messages : messages[k].msg = o}) <= 1
                    \/ o \in hist.early \cup hist.mute \cup hist.upset

\* What a send leaves in its row when it has ended is what became of the
\* message, unless a step after the engine's answer failed.
Sending(k) == \E r \in Requests : req[r].pc \in {"post", "save", "count", "catch"} /\ req[r].row = k
SendOutcome ==
  \A k \in DOMAIN messages : messages[k].by # "engine" =>
    /\ messages[k].status \in {"SENT", "DELIVERED", "READ"} => messages[k].msg \in accepted
    /\ (messages[k].status = "FAILED" /\ messages[k].msg \in accepted) =>
         messages[k].msg \in hist.upset \/ "FAILED" \in Acks
    /\ (messages[k].status = "PENDING" /\ ~Sending(k)) => messages[k].msg \in hist.upset

\* Nothing but a later ack takes back what an ack has written, except a send
\* that fails after its message went out.
AckStep == RetryAck \/ \E j \in queue : HandleMessageAck(j)
AcksStand ==
  [][\A k \in DOMAIN messages :
       messages[k].dir = "OUTBOUND" /\ messages[k].status \in {"DELIVERED", "READ"} =>
         messages'[k].status = messages[k].status \/ AckStep \/ messages[k].msg \in hist.upset]_vars

\* reattachOrphan and the campaign worker's own reattaching: messages lose their
\* conversation only if a send opened a second row for the chat, or the session
\* was deleted between a worker's look for its row and its deleting the orphans.
HistoryKept ==
  [][\A k \in DOMAIN messages :
       messages[k].conv # 0 /\ messages'[k].conv # messages[k].conv =>
         messages[k].conv \in hist.split]_vars

\* The reactions of a message are the last ones of either party, unless two
\* of them were handled at once.
ReactionsKept ==
  \A k \in DOMAIN messages :
    k \in hist.torn \/ messages[k].react = {p \in Parties : <<k, p>> \in hist.wish}

\* An event of the contact's is in the queue or in the worker's hands until its
\* message has a row, or is given up: its job used up its attempts or stalled
\* twice, or the session was deleted.  With QueueDrains: every message received
\* is stored or given up for one of these reasons.
Waiting(i) == \/ \E j \in queue : j.ev.kind = "received" /\ j.ev.msg = i
              \/ worker # NoJob /\ worker.job.ev.kind = "received" /\ worker.job.ev.msg = i
Stored(i) == \E k \in DOMAIN messages : messages[k].msg = i
NeverForgotten ==
  [][\A i \in Inbound : Waiting(i) => Waiting(i)' \/ Stored(i)' \/ i \in hist'.lost]_vars

\* The worker gets through: no job, not even an ack for a row that never
\* appears, holds up the queue for good.
QueueDrains == <>[](queue = {} /\ worker = NoJob)

\* In fair weather, with the session there all the time and nothing failed so
\* far, nothing is given up although sends may take a job's row from under it;
\* what a send leaves in its row is what became of the message, and only an
\* early echo or an answer without an id makes a second row.
SessionStays == [][~DeleteSession]_vars
FairWeather == faults = 0 =>
  /\ hist.lost = {}
  /\ \A k \in DOMAIN messages : messages[k].by # "engine" =>
       /\ messages[k].status = "PENDING" => Sending(k)
       /\ messages[k].status # "PENDING" => messages[k].msg \in accepted
       /\ messages[k].status = "FAILED" => "FAILED" \in Acks
  /\ \A o \in Sends : \/ Cardinality({k \in DOMAIN messages : messages[k].msg = o}) <= 1
                       \/ o \in hist.early \cup hist.mute

\* Why the queue drains: every step of the worker, and whatever else changes
\* its state, brings the job in its hands nearer to its end, and a job comes back
\* to the queue only with an attempt less, or once after a crash; no other step
\* but the engine's fills the queue.
StepsLeft ==
  CASE worker.pc = "reattach" -> 5
    [] worker.pc = "orphans" -> IF \E c, d \in worker.kept : c # d THEN 4 ELSE 3
    [] worker.pc = "conversation" -> 2
    [] worker.pc = "try" -> Retries + 1 - worker.tries
    [] worker.pc \in {"message", "sync", "react"} -> 1
    [] OTHER -> 0
JobsRunOut ==
  [][/\ worker # NoJob /\ (Worker \/ worker' # worker) => StepsLeft' \in 0 .. (StepsLeft - 1)
     /\ \A j \in queue' \ queue :
          \/ posted' = posted + 1
          \/ /\ faults' = faults + 1 /\ worker # NoJob
             /\ ~worker.job.stalled /\ j = [worker.job EXCEPT !.stalled = TRUE]
          \/ /\ worker # NoJob /\ worker' = NoJob
             /\ worker.job.left > 1 /\ j = [worker.job EXCEPT !.left = @ - 1]]_vars

=============================================================================
