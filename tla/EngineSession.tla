---------------------------- MODULE EngineSession ----------------------------
(***************************************************************************)
(* The life of one WhatsApp session in OpenWA: SessionService's handlers   *)
(* create, start, stop and delete, its reconnection timers, the events of  *)
(* the browser clients (WhatsAppWebJsAdapter) and restarts of the process. *)
(*                                                                         *)
(* The service keeps one entry per session in two maps, `engines` and      *)
(* `reconnectStates`, and one row in the database.  Handlers run on one    *)
(* event loop and give way at each await, so a task below is a handler or  *)
(* a reconnection standing at an await.  Status writes are issued without  *)
(* being awaited and applied in the order they were issued.                *)
(***************************************************************************)
EXTENDS Integers, FiniteSets

CONSTANTS
  Engines,       \* adapter objects with their browser; bound on those in use
  Tasks,         \* bound: handlers and reconnections under way at once
  None,          \* no engine
  MaxAttempts,   \* maxReconnectAttempts of the session
  MaxTimers      \* bound: timers pending when a client reports a disconnect

ASSUME EnginesAssumption == None \notin Engines
ASSUME LimitsAssumption == MaxAttempts \in Nat /\ MaxTimers \in Nat

VARIABLES
  row,           \* Session.status, grouped; "NONE" before create, "GONE" after delete
  map,           \* engines.get(id)
  client,        \* the browser client of each engine
  tracked,       \* reconnectStates.get(id) exists
  attempts,      \* its attempts
  timer,         \* its timer is pending
  loose,         \* pending timers whose handle was overwritten
  task,          \* where each task stands and the engine it holds
  \* history, never read by the code
  newest,        \* the engine created last
  retriesLeft,   \* reconnections due before the next start or READY
  alone,         \* the stop that nothing else overlaps so far
  stopped,       \* a stop was answered and no start has gone on since: "no",
                 \* "raced" (something overlapped the stop) or "alone"
  leaked         \* engines let go of while their browser still ran

memVars  == <<tracked, attempts, timer, loose>>
histVars == <<newest, retriesLeft, alone, stopped, leaked>>
vars == <<row, map, client, tracked, attempts, timer, loose, task,
          newest, retriesLeft, alone, stopped, leaked>>

\* "OFF" is CREATED, DISCONNECTED or FAILED; "ACTIVE" is INITIALIZING,
\* QR_READY or AUTHENTICATING.
RowStatus == {"NONE", "OFF", "ACTIVE", "READY", "GONE"}
\* "starting": initialize() is awaited; "ready": 'ready' was emitted; "lost":
\* it reported a disconnect; "failed": initialize() threw; "null": destroyed.
ClientStatus == {"none", "starting", "up", "ready", "lost", "failed", "null"}
Places == {"idle", "startHook", "startInit", "reDestroy", "reInit",
           "stopDisconnect", "deleteDestroy", "deleteHook"}

Exists   == row \notin {"NONE", "GONE"}
Live(e)  == client[e] \in {"starting", "up", "ready"}
Set(s)   == row' = IF Exists THEN s ELSE row     \* updateStatus: no row, no effect
At(t, p) == task[t].at = p
Due      == loose + (IF timer THEN 1 ELSE 0)

Free == {e \in Engines : e # map /\ ~Live(e) /\ \A t \in Tasks : task[t].eng # e}

Init ==
  /\ row = "NONE" /\ map = None
  /\ client = [e \in Engines |-> "none"]
  /\ tracked = FALSE /\ attempts = 0 /\ timer = FALSE /\ loose = 0
  /\ task = [t \in Tasks |-> [at |-> "idle", eng |-> None]]
  /\ newest = None /\ retriesLeft = 0 /\ alone = {} /\ stopped = "no" /\ leaked = {}

Go(t, p, e) == task' = [task EXCEPT ![t] = [at |-> p, eng |-> e]]
\* A task that begins spoils the solitude of a stop under way.
Begin(t, p, e) == At(t, "idle") /\ Go(t, p, e) /\ alone' = {}
Return(t) == Go(t, "idle", None)

-----------------------------------------------------------------------------
(* Plausible faults, one per property.                                     *)

\* The state is forgotten and its timer is not cleared.
CancelReconnect_KeepsTimer ==
  tracked' = FALSE /\ attempts' = 0 /\ timer' = FALSE /\ loose' = Due

\* The attempt is not counted.
ScheduleReconnect_NotCounted ==
  IF tracked /\ attempts < MaxAttempts
  THEN timer' = TRUE /\ loose' = Due /\ UNCHANGED <<tracked, attempts>>
  ELSE UNCHANGED memVars

\* The engine is put in the map once more when it is initialised.
InitDone_MapsAgain(t) ==
  /\ At(t, "startInit") \/ At(t, "reInit")
  /\ client[task[t].eng] \in {"starting", "ready", "lost"}
  /\ client' = [client EXCEPT ![task[t].eng] = IF @ = "starting" THEN "up" ELSE @]
  /\ map' = task[t].eng
  /\ Set("ACTIVE") /\ Return(t)
  /\ UNCHANGED <<memVars, histVars>>

\* A reconnection whose initialize throws is not followed by another.
InitFails_GivesUp(t) ==
  /\ At(t, "startInit") \/ At(t, "reInit")
  /\ client' = [client EXCEPT ![task[t].eng] = IF @ = "null" THEN @ ELSE "failed"]
  /\ Set("OFF") /\ Return(t)
  /\ UNCHANGED <<map, memVars, histVars>>

\* The reset at startup forgets the READY sessions.
Restart_ForgetsReady ==
  /\ Exists
  /\ row' = IF row = "ACTIVE" THEN "OFF" ELSE row
  /\ map' = None /\ client' = [e \in Engines |-> "none"]
  /\ tracked' = FALSE /\ attempts' = 0 /\ timer' = FALSE /\ loose' = 0
  /\ task' = [t \in Tasks |-> [at |-> "idle", eng |-> None]]
  /\ newest' = None /\ retriesLeft' = 0 /\ alone' = {} /\ stopped' = "no" /\ leaked' = {}

-----------------------------------------------------------------------------
(* What the handlers share.                                                *)

\* scheduleReconnect: nothing once the state is gone or the attempts are used
\* up; a timer still pending loses its handle.
ScheduleReconnect ==
  IF tracked /\ attempts < MaxAttempts
  THEN attempts' = attempts + 1 /\ timer' = TRUE /\ loose' = Due /\ UNCHANGED tracked
  ELSE UNCHANGED memVars

\* cancelReconnect: only the last timer's handle is at hand.
CancelReconnect == tracked' = FALSE /\ attempts' = 0 /\ timer' = FALSE /\ UNCHANGED loose

\* initializeEngine up to its first await: the new engine is in the map before
\* its client starts.  `gone` are engines destroyed in the same step.
NewEngine == CHOOSE e \in Free : TRUE
CreateEngine(t, p, gone) ==
  /\ Free # {}
  /\ map' = NewEngine /\ newest' = NewEngine /\ leaked' = leaked \ {NewEngine}
  /\ client' = [e \in Engines |-> IF e = NewEngine THEN "starting"
                                  ELSE IF e \in gone THEN "null" ELSE client[e]]
  /\ Set("ACTIVE")
  /\ Go(t, p, NewEngine)

-----------------------------------------------------------------------------
(* Handlers.                                                               *)

Create ==
  /\ row = "NONE" /\ row' = "OFF"
  /\ UNCHANGED <<map, client, memVars, task, histVars>>

\* start: the row is there and no engine is in the map; then a hook is awaited.
StartBegin(t) ==
  /\ Exists /\ map = None
  /\ Begin(t, "startHook", None)
  /\ stopped' = "no"
  /\ UNCHANGED <<row, map, client, memVars, newest, retriesLeft, leaked>>

\* A fresh reconnect state replaces the old one, whose timer is forgotten.
StartEngine(t) ==
  /\ At(t, "startHook")
  /\ tracked' = TRUE /\ attempts' = 0 /\ timer' = FALSE /\ loose' = Due
  /\ retriesLeft' = MaxAttempts + Due
  /\ CreateEngine(t, "startInit", {})
  /\ stopped' = "no"
  /\ UNCHANGED alone

\* initialize() returns, maybe after 'ready': INITIALIZING is written last.
InitDone(t) ==
  /\ At(t, "startInit") \/ At(t, "reInit")
  /\ client[task[t].eng] \in {"starting", "ready", "lost"}
  /\ client' = [client EXCEPT ![task[t].eng] = IF @ = "starting" THEN "up" ELSE @]
  /\ Set("ACTIVE") /\ Return(t)
  /\ UNCHANGED <<map, memVars, histVars>>

\* initialize() throws, as it does when the client is destroyed under it: the
\* engine stays in the map; a reconnection tries again, a start does not.
InitFails(t) ==
  /\ At(t, "startInit") \/ At(t, "reInit")
  /\ client' = [client EXCEPT ![task[t].eng] = IF @ = "null" THEN @ ELSE "failed"]
  /\ Set("OFF") /\ Return(t)
  /\ IF At(t, "reInit") THEN ScheduleReconnect ELSE UNCHANGED memVars
  /\ UNCHANGED <<map, histVars>>

\* Nothing else is under way or can come of itself: no other task, no timer
\* out of reach, no client but the one in the map and those a stop let go of.
Calm(t) == /\ loose = 0
           /\ \A u \in Tasks \ {t} : At(u, "idle")
           /\ \A e \in Engines : Live(e) => e = map \/ e \in leaked
Answered(calm) == stopped' = IF calm THEN "alone" ELSE "raced"

StopBegin(t) ==
  /\ Exists /\ At(t, "idle") /\ map # None
  /\ CancelReconnect
  /\ Go(t, "stopDisconnect", map)
  /\ alone' = IF Calm(t) THEN {t} ELSE {}
  /\ UNCHANGED <<row, map, client, newest, retriesLeft, stopped, leaked>>

StopIdle(t) ==
  /\ Exists /\ At(t, "idle") /\ map = None
  /\ CancelReconnect /\ row' = "OFF"
  /\ Answered(Calm(t)) /\ alone' = {}
  /\ UNCHANGED <<map, client, task, newest, retriesLeft, leaked>>

\* engine.disconnect() swallows what client.destroy() throws and lets go of the
\* client, whose browser may then run on; whatever engine is in the map by then
\* is deleted from it.
StopDone(t, throws) ==
  /\ At(t, "stopDisconnect")
  /\ IF throws /\ Live(task[t].eng)
     THEN leaked' = leaked \cup {task[t].eng} /\ UNCHANGED client
     ELSE client' = [client EXCEPT ![task[t].eng] = "null"] /\ leaked' = leaked \ {task[t].eng}
  /\ map' = None /\ Set("OFF") /\ Return(t)
  /\ Answered(t \in alone) /\ alone' = {}
  /\ UNCHANGED <<memVars, newest, retriesLeft>>

DeleteBegin(t) ==
  /\ Exists /\ CancelReconnect
  /\ Begin(t, IF map = None THEN "deleteHook" ELSE "deleteDestroy", map)
  /\ UNCHANGED <<row, map, client, newest, retriesLeft, stopped, leaked>>

DeleteDestroyed(t) ==
  /\ At(t, "deleteDestroy")
  /\ client' = [client EXCEPT ![task[t].eng] = "null"]
  /\ map' = None /\ Set("OFF") /\ Go(t, "deleteHook", None)
  /\ UNCHANGED <<memVars, histVars>>

\* engine.destroy() throws: the request fails, the engine stays in the map.
DeleteFails(t) ==
  /\ At(t, "deleteDestroy") /\ Return(t)
  /\ UNCHANGED <<row, map, client, memVars, histVars>>

DeleteDone(t) ==
  /\ At(t, "deleteHook")
  /\ row' = "GONE" /\ Return(t)
  /\ UNCHANGED <<map, client, memVars, histVars>>

-----------------------------------------------------------------------------
(* Reconnection.                                                           *)

\* executeReconnect: with no engine to destroy, the new one comes at once.
TimerFires(t, tracksIt) ==
  /\ At(t, "idle") /\ alone' = {}
  /\ IF tracksIt THEN timer /\ timer' = FALSE /\ UNCHANGED loose
                 ELSE loose > 0 /\ loose' = loose - 1 /\ UNCHANGED timer
  /\ retriesLeft' = retriesLeft - 1
  /\ IF map = None
     THEN CreateEngine(t, "reInit", {})
     ELSE Go(t, "reDestroy", map) /\ UNCHANGED <<row, map, client, newest, leaked>>
  /\ UNCHANGED <<tracked, attempts, stopped>>

ReDestroyed(t) ==
  /\ At(t, "reDestroy")
  /\ CreateEngine(t, "reInit", {task[t].eng})
  /\ UNCHANGED <<memVars, retriesLeft, alone, stopped>>

ReDestroyFails(t) ==
  /\ At(t, "reDestroy") /\ Return(t)
  /\ ScheduleReconnect
  /\ UNCHANGED <<row, map, client, histVars>>

-----------------------------------------------------------------------------
(* Events of the clients, and the process.                                 *)

\* 'qr' (whose picture may be ready only after the client is gone) and
\* 'authenticated'.
ClientProgress(e) ==
  /\ client[e] # "none"
  /\ Set("ACTIVE")
  /\ UNCHANGED <<map, client, memVars, task, histVars>>

ClientReady(e) ==
  /\ client[e] \in {"starting", "up"}
  /\ client' = [client EXCEPT ![e] = "ready"]
  /\ Set("READY")
  /\ IF tracked THEN attempts' = 0 /\ retriesLeft' = MaxAttempts + Due
                ELSE UNCHANGED <<attempts, retriesLeft>>
  /\ UNCHANGED <<map, tracked, timer, loose, task, newest, alone, stopped, leaked>>

\* 'disconnected' or 'auth_failure'; the client may report more than once.
ClientDisconnected(e, dies) ==
  /\ Live(e) /\ Due < MaxTimers
  /\ client' = [client EXCEPT ![e] = IF dies THEN "lost" ELSE "up"]
  /\ dies \/ \A t \in Tasks : task[t].eng # e
  /\ Set("OFF")
  /\ ScheduleReconnect
  /\ UNCHANGED <<map, task, histVars>>

\* The process ends, by itself or in onModuleDestroy, and starts again:
\* onModuleInit resets the rows that say a session is active.
Restart ==
  /\ Exists
  /\ row' = "OFF"
  /\ map' = None /\ client' = [e \in Engines |-> "none"]
  /\ tracked' = FALSE /\ attempts' = 0 /\ timer' = FALSE /\ loose' = 0
  /\ task' = [t \in Tasks |-> [at |-> "idle", eng |-> None]]
  /\ newest' = None /\ retriesLeft' = 0 /\ alone' = {} /\ stopped' = "no" /\ leaked' = {}

\* What a task does when its await is over.
Resume(t) ==
  \/ StartEngine(t) \/ InitDone(t) \/ InitFails(t)
  \/ \E throws \in BOOLEAN : StopDone(t, throws)
  \/ DeleteDestroyed(t) \/ DeleteFails(t) \/ DeleteDone(t)
  \/ ReDestroyed(t) \/ ReDestroyFails(t)

TimersFire == \E t \in Tasks, b \in BOOLEAN : TimerFires(t, b)

Next ==
  \/ Create
  \/ \E t \in Tasks : \/ StartBegin(t) \/ StopBegin(t) \/ StopIdle(t) \/ DeleteBegin(t)
                      \/ Resume(t)
  \/ TimersFire
  \/ \E e \in Engines : \/ ClientProgress(e) \/ ClientReady(e)
                        \/ \E dies \in BOOLEAN : ClientDisconnected(e, dies)
  \/ Restart

Spec == Init /\ [][Next]_vars

\* The event loop comes back to every await, and a timer that is due fires
\* although requests keep all of the (bounded) tasks busy now and then.
Fairness == (\A t \in Tasks : WF_vars(Resume(t))) /\ SF_vars(TimersFire)
FairSpec == Spec /\ Fairness

-----------------------------------------------------------------------------
(* What must hold.                                                         *)

TypeOK ==
  /\ row \in RowStatus
  /\ map \in Engines \cup {None}
  /\ client \in [Engines -> ClientStatus]
  /\ tracked \in BOOLEAN /\ attempts \in 0 .. MaxAttempts
  /\ timer \in BOOLEAN /\ loose \in Nat
  /\ task \in [Tasks -> [at : Places, eng : Engines \cup {None}]]
  /\ newest \in Engines \cup {None}
  /\ retriesLeft \in Int
  /\ alone \in SUBSET Tasks
  /\ stopped \in {"no", "raced", "alone"}
  /\ leaked \in SUBSET (Engines \cup {None})

\* getEngine never hands out an engine that a later one has replaced, however
\* starts, stops and reconnections overlap.
NewestInMap == map \in {None, newest}

\* A session that reads READY has a client that is: every way to lose one
\* (disconnect, destroy, failure, restart) writes another status.
ReadyIsReal == row = "READY" => \E e \in Engines : client[e] = "ready"

\* Between two successes (a start, or READY) a session reconnects at most
\* MaxAttempts times, plus the timers that were already pending.
ReconnectsBounded == retriesLeft >= 0

\* A stop that nothing overlapped stops the session: no timer, no engine, and no
\* client but one whose destroy threw, until somebody starts it again; nothing
\* such a client reports brings the session back.
StoppedStaysDown ==
  stopped = "alone" => map = None /\ Due = 0 /\ \A e \in Engines : Live(e) => e \in leaked

\* A session whose client is lost gets another one, or has used up its
\* attempts, or is stopped or deleted meanwhile.  Promised only while the map has
\* forgotten no client that was never destroyed: one of these can report READY
\* and reset the attempts of a session whose own client is lost for good.
Lost      == tracked /\ map # None /\ client[map] = "lost"
Recovered == map # None /\ client[map] \in {"up", "ready"}
Forgotten == \E e \in Engines \ {map} : client[e] \notin {"none", "null"}
LostComesBack ==
  Lost ~> Recovered \/ ~tracked \/ map = None \/ attempts = MaxAttempts \/ Forgotten

\* What LostComesBack rests on besides the fairness of timers and tasks: while
\* attempts are left, a lost client has a timer due or a reconnection that
\* holds its engine; no step lets the loss go unminded.
LossIsMinded ==
  Lost => \/ attempts = MaxAttempts \/ Forgotten
          \/ Due > 0
          \/ \E t \in Tasks : At(t, "reDestroy") /\ task[t].eng = map

\* Handlers and reconnections that run one after the other leave the session
\* at most one browser, the one in the map, where stop and delete find it, besides
\* those whose destroy threw in a stop; READY is the state of one of these; and
\* after a stop only a timer whose handle was overwritten can bring the session
\* up again.
OneBrowser ==
  /\ \A e \in Engines : Live(e) => e = map \/ e \in leaked
  /\ row = "READY" => \E e \in leaked \cup {map} : e # None /\ client[e] = "ready"
  /\ stopped # "no" => ~tracked /\ ~timer

-----------------------------------------------------------------------------
(* What the comments say.                                                  *)

\* "Cancel any reconnection attempts" (SessionService.stop): after a stop no
\* reconnection starts an engine, until a start (a new one, or one that was
\* under way) does.
Reconnecting == \E t \in Tasks : task'[t].at = "reInit" /\ task[t].at # "reInit"
StopCancelsReconnection == [][stopped # "no" => ~Reconnecting]_vars
=============================================================================
