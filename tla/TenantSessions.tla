--------------------------- MODULE TenantSessions ---------------------------
(***************************************************************************)
(* WhatsApp sessions as the tenant backend keeps them: the Session row     *)
(* (sessions.service.ts), the engine instances and their session counts in *)
(* Redis (engine-registry.service.ts), the session the engine itself runs, *)
(* and the queue of its webhook events (webhooks.processor.ts).            *)
(*                                                                         *)
(* No two of these stores change together, and the counts in Redis are     *)
(* read, changed and written back in separate calls: every call is a step. *)
(* A session's id is a UUID, so a session is created once.                 *)
(***************************************************************************)
EXTENDS Integers, Sequences, FiniteSets

CONSTANTS Engines,      \* engine instances
          Sessions,     \* ids of Session rows
          None,         \* no engine, no session
          Cap,          \* maxSessions of every instance
          Slots,        \* bound: HTTP requests under way at once
          MaxRequests,  \* bound: requests altogether, heartbeats included
          MaxEvents,    \* bound: events the engines post
          MaxFaults     \* bound: failed calls, engine crashes and expired keys

ASSUME TenantSessionsAssumption ==
  /\ None \notin Engines \cup Sessions
  /\ Cap \in Nat \ {0}
  /\ {Slots, MaxRequests, MaxEvents, MaxFaults} \subseteq Nat

VARIABLES registry,   \* activeSessions under engine:<id>; Gone without the key
          mapping,    \* session:engine:<id>
          row,        \* Session rows; known: openwaId is saved
          up,         \* engine processes that run
          hosted,     \* the engine's own session: "no", "linking", "linked"
          events,     \* the queue webhook-events
          req,        \* what each request is doing
          asked, posted, faults,   \* bounded counters
          \* history, never read by the code
          exact,      \* no write of this count lost another so far
          stale,      \* sessions whose engine and events went separate ways
          broken,     \* sessions a failed call or an expired key left half done
          loose       \* sessions with requests at once, or that the engine was not told of

redis   == <<registry, mapping>>
counters == <<asked, posted, faults>>
history == <<exact, stale, broken, loose>>
vars == <<redis, row, up, hosted, events, req, counters, history>>

Gone == -1
Requests == 1 .. Slots
Task(pc, s, g, n) == [pc |-> pc, session |-> s, engine |-> g, seen |-> n]
Idle == Task("idle", None, None, Gone)
Statuses == {"INITIALIZING", "CONNECTED", "DISCONNECTED"}
NoRow == [state |-> "none", status |-> "INITIALIZING", engine |-> None, known |-> FALSE]

Least(a, b) == IF a < b THEN a ELSE b
Most(a, b)  == IF a > b THEN a ELSE b
Exists(s)   == row[s].state = "row"
At(r, pcs)  == req[r].pc \in pcs
On(r, s)    == req[r].session = s
Quiet(s)    == \A r \in Requests : ~On(r, s)
Pending(s)  == \E i \in DOMAIN events : events[i].session = s
Mapped(g)   == {s \in Sessions : mapping[s] = g}
Hosts(g)    == {s \in Sessions : row[s].engine = g}

Init ==
  /\ registry = [g \in Engines |-> 0]
  /\ mapping = [s \in Sessions |-> None]
  /\ row = [s \in Sessions |-> NoRow]
  /\ up = Engines
  /\ hosted = [s \in Sessions |-> "no"]
  /\ events = <<>>
  /\ req = [r \in Requests |-> Idle]
  /\ asked = 0 /\ posted = 0 /\ faults = 0
  /\ exact = Engines /\ stale = {} /\ broken = {} /\ loose = {}

\* The requests of a session that are made while another is under way.
Overlap(s) == loose' = IF Quiet(s) THEN loose ELSE loose \cup {s}
Begin(r, task) ==
  /\ At(r, {"idle"}) /\ \A q \in 1 .. (r - 1) : ~At(q, {"idle"})
  /\ asked < MaxRequests /\ asked' = asked + 1
  /\ req' = [req EXCEPT ![r] = task]
Goto(r, pc) == req' = [req EXCEPT ![r].pc = pc]
End(r) == req' = [req EXCEPT ![r] = Idle]
Fault == faults < MaxFaults /\ faults' = faults + 1

(***************************************************************************)
(* The registry.  A call that changes an instance reads it, and writes the *)
(* whole of it back with a new expiry whatever happened in between.        *)
(***************************************************************************)
Read(r, pc) == req' = [req EXCEPT ![r] = [@ EXCEPT !.pc = pc, !.seen = registry[req[r].engine]]]
WriteBack(r, n) ==
  /\ registry' = [registry EXCEPT ![req[r].engine] = n]
  /\ exact' = IF req[r].seen = registry[req[r].engine] THEN exact ELSE exact \ {req[r].engine}

\* Fault: only the sessions that were being linked are reset.
RegisterReset_KeepsConnected(r, g) ==
  /\ g \notin up \/ registry[g] = Gone
  /\ up' = up \cup {g}
  /\ Begin(r, Task("register", None, g, Gone))
  /\ row' = [s \in Sessions |->
               IF Exists(s) /\ row[s].engine = g /\ row[s].status = "INITIALIZING"
               THEN [row[s] EXCEPT !.status = "DISCONNECTED"] ELSE row[s]]
  /\ stale' = IF g \in up THEN stale \cup Hosts(g)
              ELSE stale \ {s \in Hosts(g) : Quiet(s) /\ ~Pending(s)}
  /\ UNCHANGED <<redis, hosted, events, posted, faults, exact, broken, loose>>

\* register: an engine that starts, or whose heartbeat found no entry, has its
\* sessions' rows reset, and then a fresh entry.
RegisterReset(r, g) ==
  /\ g \notin up \/ registry[g] = Gone
  /\ up' = up \cup {g}
  /\ Begin(r, Task("register", None, g, Gone))
  /\ row' = [s \in Sessions |->
               IF Exists(s) /\ row[s].engine = g /\ row[s].status # "DISCONNECTED"
               THEN [row[s] EXCEPT !.status = "DISCONNECTED"] ELSE row[s]]
  /\ stale' = IF g \in up THEN stale \cup Hosts(g)
              ELSE stale \ {s \in Hosts(g) : Quiet(s) /\ ~Pending(s)}
  /\ UNCHANGED <<redis, hosted, events, posted, faults, exact, broken, loose>>

Counting(g) == \E r \in Requests : At(r, {"incRead", "incWrite", "decRead", "decWrite", "unmap"})
                                   /\ req[r].engine = g
RegisterWrite(r) ==
  /\ At(r, {"register"})
  /\ LET g == req[r].engine
     IN /\ registry' = [registry EXCEPT ![g] = 0]
        /\ exact' = IF Mapped(g) = {} /\ ~Counting(g) THEN exact \cup {g} ELSE exact \ {g}
  /\ End(r)
  /\ UNCHANGED <<mapping, row, up, hosted, events, counters, stale, broken, loose>>

HeartbeatRead(r, g) ==
  /\ g \in up /\ registry[g] # Gone
  /\ Begin(r, Task("heartbeat", None, g, registry[g]))
  /\ UNCHANGED <<redis, row, up, hosted, events, posted, faults, history>>
HeartbeatWrite(r) ==
  /\ At(r, {"heartbeat"})
  /\ WriteBack(r, req[r].seen)
  /\ End(r)
  /\ UNCHANGED <<mapping, row, up, hosted, events, counters, stale, broken, loose>>

\* deregister, or HEARTBEAT_TTL has run out.
KeyGone(g) ==
  /\ registry[g] # Gone
  /\ Fault
  /\ registry' = [registry EXCEPT ![g] = Gone]
  /\ UNCHANGED <<mapping, row, up, hosted, events, req, asked, posted, history>>

\* SESSION_TTL has run out: nothing renews the mapping of a session.
MappingExpires(s) ==
  /\ mapping[s] # None
  /\ Fault
  /\ mapping' = [mapping EXCEPT ![s] = None]
  /\ exact' = exact \ {mapping[s]}
  /\ broken' = broken \cup {s}
  /\ UNCHANGED <<registry, row, up, hosted, events, req, asked, posted, stale, loose>>

\* getLeastLoadedInstance, of instances of one size.
Available == {g \in Engines : registry[g] # Gone /\ registry[g] < Cap}
LeastLoaded == {g \in Available : \A h \in Available : registry[g] <= registry[h]}

\* incrementSessionCount and decrementSessionCount: an instance that is gone
\* is not counted, and a count stays within its limits.
IncRead(r) ==
  /\ At(r, {"incRead"})
  /\ IF registry[req[r].engine] = Gone THEN End(r) ELSE Read(r, "incWrite")
  /\ UNCHANGED <<redis, row, up, hosted, events, counters, history>>
IncWrite(r) ==
  /\ At(r, {"incWrite"})
  /\ registry' = [registry EXCEPT ![req[r].engine] = Least(req[r].seen + 1, Cap)]
  /\ exact' = IF req[r].seen = registry[req[r].engine] /\ req[r].seen < Cap
              THEN exact ELSE exact \ {req[r].engine}
  /\ End(r)
  /\ UNCHANGED <<mapping, row, up, hosted, events, counters, stale, broken, loose>>
DecRead(r) ==
  /\ At(r, {"decRead"})
  /\ IF registry[req[r].engine] = Gone THEN Goto(r, "unmap") ELSE Read(r, "decWrite")
  /\ UNCHANGED <<redis, row, up, hosted, events, counters, history>>
DecWrite(r) ==
  /\ At(r, {"decWrite"})
  /\ registry' = [registry EXCEPT ![req[r].engine] = Most(req[r].seen - 1, 0)]
  /\ exact' = IF req[r].seen = registry[req[r].engine] /\ req[r].seen > 0
              THEN exact ELSE exact \ {req[r].engine}
  /\ Goto(r, "unmap")
  /\ UNCHANGED <<mapping, row, up, hosted, events, counters, stale, broken, loose>>

(***************************************************************************)
(* createSession: instance, row, engine, openwaId, mapping, count.         *)
(***************************************************************************)
CreatePick(r, s) ==
  /\ row[s] = NoRow /\ Quiet(s)
  /\ \E g \in LeastLoaded :
       Begin(r, Task("insert", s, g, Gone))
  /\ UNCHANGED <<redis, row, up, hosted, events, posted, faults, history>>
CreateRow(r) ==
  /\ At(r, {"insert"})
  /\ row' = [row EXCEPT ![req[r].session] =
               [NoRow EXCEPT !.state = "row", !.engine = req[r].engine]]
  /\ Goto(r, "post")
  /\ UNCHANGED <<redis, up, hosted, events, counters, history>>
CreatePost(r) ==
  /\ At(r, {"post"})
  /\ IF req[r].engine \in up
     THEN hosted' = [hosted EXCEPT ![req[r].session] = "linking"] /\ Goto(r, "saveId")
     ELSE Goto(r, "rollback") /\ UNCHANGED hosted
  /\ UNCHANGED <<redis, row, up, events, counters, history>>
\* The engine refuses, or its answer is lost; or Redis fails.
CreateFails(r) ==
  /\ At(r, {"post", "map", "incRead", "incWrite"})
  /\ Fault
  /\ IF At(r, {"post"}) /\ req[r].engine \in up
     THEN \E there \in {"no", "linking"} :
            hosted' = [hosted EXCEPT ![req[r].session] = there]
     ELSE UNCHANGED hosted
  /\ exact' = IF At(r, {"post", "map"}) THEN exact ELSE exact \ {req[r].engine}
  /\ loose' = loose \cup {req[r].session}
  /\ Goto(r, "rollback")
  /\ UNCHANGED <<redis, row, up, events, asked, posted, stale, broken>>

\* A row that is gone already makes the delete throw: the request ends too.
Deleted(s) == row' = [row EXCEPT ![s] = [@ EXCEPT !.state = "gone"]]
\* Fault: the row of a create that failed is kept.
CreateRollback_KeepsRow(r) ==
  /\ At(r, {"rollback"})
  /\ End(r)
  /\ UNCHANGED <<redis, row, up, hosted, events, counters, history>>

CreateRollback(r) ==
  /\ At(r, {"rollback"})
  /\ Deleted(req[r].session)
  /\ End(r)
  /\ UNCHANGED <<redis, up, hosted, events, counters, history>>

CreateSaveId(r) ==
  /\ At(r, {"saveId"})
  /\ IF Exists(req[r].session)
     THEN row' = [row EXCEPT ![req[r].session].known = TRUE] /\ Goto(r, "map")
     ELSE End(r) /\ UNCHANGED row
  /\ UNCHANGED <<redis, up, hosted, events, counters, history>>
CreateMap(r) ==
  /\ At(r, {"map"})
  /\ mapping' = [mapping EXCEPT ![req[r].session] = req[r].engine]
  /\ Goto(r, "incRead")
  /\ UNCHANGED <<registry, row, up, hosted, events, counters, history>>

(***************************************************************************)
(* reconnectSession and unlinkSession: the engine first, the status after  *)
(* it has answered.                                                        *)
(***************************************************************************)
\* resolveEngine: the mapping, or else the row's instance.
Resolved(s) ==
  IF mapping[s] # None /\ registry[mapping[s]] # Gone THEN mapping[s] ELSE row[s].engine
ReconnectRead(r, s, verb) ==
  /\ Exists(s) /\ row[s].known /\ registry[Resolved(s)] # Gone
  /\ Begin(r, Task(verb, s, Resolved(s), Gone))
  /\ Overlap(s)
  /\ UNCHANGED <<redis, row, up, hosted, events, posted, faults, exact, stale, broken>>
\* A session the engine has lost is made anew, but has nothing to unlink.
ReconnectPost(r) ==
  /\ At(r, {"reconnect", "unlink"})
  /\ LET s == req[r].session
     IN IF req[r].engine \in up /\ (At(r, {"unlink"}) => hosted[s] # "no")
        THEN /\ hosted' = [hosted EXCEPT ![s] = "linking"]
             /\ stale' = IF Pending(s) THEN stale \cup {s} ELSE stale
             /\ Goto(r, "status")
        ELSE End(r) /\ UNCHANGED <<hosted, stale>>
  /\ UNCHANGED <<redis, row, up, events, counters, exact, broken, loose>>
ReconnectWrite(r) ==
  /\ At(r, {"status"})
  /\ row' = IF Exists(req[r].session)
            THEN [row EXCEPT ![req[r].session].status = "INITIALIZING"] ELSE row
  /\ End(r)
  /\ UNCHANGED <<redis, up, hosted, events, counters, history>>

(***************************************************************************)
(* deleteSession: the engine (its errors are swallowed), count, mapping,   *)
(* row.                                                                    *)
(***************************************************************************)
DeleteRead(r, s) ==
  /\ Exists(s)
  /\ Begin(r, Task(IF row[s].known THEN "engine" ELSE "release", s, row[s].engine, Gone))
  /\ Overlap(s)
  /\ UNCHANGED <<redis, row, up, hosted, events, posted, faults, exact, stale, broken>>
\* Fault: the engine is not told of the delete.
DeleteEngine_NotTold(r) ==
  /\ At(r, {"engine"})
  /\ Goto(r, "release")
  /\ UNCHANGED <<redis, row, up, hosted, events, counters, history>>

DeleteEngine(r) ==
  /\ At(r, {"engine"})
  /\ LET s == req[r].session
     IN IF registry[req[r].engine] # Gone /\ req[r].engine \in up
        THEN \/ hosted' = [hosted EXCEPT ![s] = "no"] /\ UNCHANGED <<faults, loose>>
             \/ Fault /\ loose' = loose \cup {s} /\ UNCHANGED hosted
        ELSE loose' = loose \cup {s} /\ UNCHANGED <<hosted, faults>>
  /\ Goto(r, "release")
  /\ UNCHANGED <<redis, row, up, events, asked, posted, exact, stale, broken>>
Releasing(s) == \E r \in Requests : At(r, {"decRead", "decWrite", "unmap"}) /\ On(r, s)
\* Fault: the session's mapping goes and its instance still counts it.
Release_NotCounted(r) ==
  /\ At(r, {"release"})
  /\ Goto(r, IF mapping[req[r].session] = None THEN "remove" ELSE "unmap")
  /\ UNCHANGED <<redis, row, up, hosted, events, counters, history>>

Release(r) ==
  /\ At(r, {"release"})
  /\ LET s == req[r].session
     IN IF mapping[s] = None THEN Goto(r, "remove") /\ UNCHANGED exact
        ELSE /\ req' = [req EXCEPT ![r] = [@ EXCEPT !.pc = "decRead", !.engine = mapping[s]]]
             /\ exact' = IF Releasing(s) THEN exact \ {mapping[s]} ELSE exact
  /\ UNCHANGED <<redis, row, up, hosted, events, counters, stale, broken, loose>>
Unmap(r) ==
  /\ At(r, {"unmap"})
  /\ mapping' = [mapping EXCEPT ![req[r].session] = None]
  /\ Goto(r, "remove")
  /\ UNCHANGED <<registry, row, up, hosted, events, counters, history>>
DeleteRow(r) ==
  /\ At(r, {"remove"})
  /\ Deleted(req[r].session)
  /\ End(r)
  /\ UNCHANGED <<redis, up, hosted, events, counters, history>>

\* A call of Redis, the database or the engine fails, or the process exits.
RequestLost(r) ==
  /\ ~At(r, {"idle"})
  /\ Fault
  /\ IF req[r].session # None
     THEN broken' = broken \cup {req[r].session} /\ stale' = stale \cup {req[r].session}
     ELSE UNCHANGED <<broken, stale>>
  /\ exact' = IF At(r, {"incRead", "incWrite", "decRead", "decWrite", "unmap", "register"})
              THEN exact \ {req[r].engine} ELSE exact
  /\ End(r)
  /\ UNCHANGED <<redis, row, up, hosted, events, asked, posted, loose>>

(***************************************************************************)
(* The engine links and loses phones, and posts an event for each; the     *)
(* worker writes what the event says to the row with its openwaId.         *)
(***************************************************************************)
Delayed(s) == \E i \in DOMAIN events : events[i].session = s /\ events[i].delayed
Post(s, kind) ==
  /\ posted < MaxEvents /\ posted' = posted + 1
  /\ events' = Append(events, [session |-> s, kind |-> kind, delayed |-> FALSE])
  /\ stale' = IF Delayed(s) THEN stale ELSE stale \ {s}
EngineConnects(s) ==
  /\ hosted[s] = "linking"
  /\ hosted' = [hosted EXCEPT ![s] = "linked"]
  /\ Post(s, "CONNECTED")
  /\ UNCHANGED <<redis, row, up, req, asked, faults, exact, broken, loose>>
EngineDisconnects(s) ==
  /\ hosted[s] = "linked"
  /\ hosted' = [hosted EXCEPT ![s] = "linking"]
  /\ Post(s, "DISCONNECTED")
  /\ UNCHANGED <<redis, row, up, req, asked, faults, exact, broken, loose>>

EngineCrashes(g) ==
  /\ g \in up /\ up' = up \ {g}
  /\ Fault
  /\ hosted' = [s \in Sessions |-> IF s \in Hosts(g) THEN "no" ELSE hosted[s]]
  /\ stale' = stale \cup Hosts(g)
  /\ UNCHANGED <<redis, row, events, req, asked, posted, exact, broken, loose>>

\* The oldest job is next, or one whose backoff has passed.
Taken(i) == /\ i \in DOMAIN events
            /\ events[i].delayed \/ \A j \in 1 .. (i - 1) : events[j].delayed
Without(i) == SubSeq(events, 1, i - 1) \o SubSeq(events, i + 1, Len(events))

\* An event for an openwaId not saved yet matches no row and is dropped.
Overwritten(s) == \E r \in Requests : At(r, {"status"}) /\ On(r, s)
HandleSessionEvent(i) ==
  /\ Taken(i)
  /\ LET e == events[i]
     IN /\ row' = IF Exists(e.session) /\ row[e.session].known
                  THEN [row EXCEPT ![e.session].status = e.kind] ELSE row
        /\ stale' = IF Overwritten(e.session) \/ ~row[e.session].known
                    THEN stale \cup {e.session} ELSE stale
  /\ events' = Without(i)
  /\ UNCHANGED <<redis, up, hosted, req, counters, exact, broken, loose>>
\* The update fails: the job is tried again after a backoff, later events
\* before it, or was at its last attempt and is dropped.  The attempts are not
\* counted: any failure may be the last.
EventFails(i) ==
  /\ Taken(i)
  /\ Fault
  /\ events' = [events EXCEPT ![i].delayed = TRUE] \/ events' = Without(i)
  /\ stale' = stale \cup {events[i].session}
  /\ UNCHANGED <<redis, row, up, hosted, req, asked, posted, exact, broken, loose>>

Ask(r) ==
  \/ \E g \in Engines : RegisterReset(r, g) \/ HeartbeatRead(r, g)
  \/ \E s \in Sessions : \/ CreatePick(r, s) \/ DeleteRead(r, s)
                         \/ \E verb \in {"reconnect", "unlink"} : ReconnectRead(r, s, verb)
GoOn(r) ==
  \/ RegisterWrite(r) \/ HeartbeatWrite(r) \/ IncRead(r) \/ IncWrite(r) \/ DecRead(r) \/ DecWrite(r)
  \/ CreateRow(r) \/ CreatePost(r) \/ CreateFails(r) \/ CreateRollback(r) \/ CreateSaveId(r)
  \/ CreateMap(r) \/ ReconnectPost(r) \/ ReconnectWrite(r)
  \/ DeleteEngine(r) \/ Release(r) \/ Unmap(r) \/ DeleteRow(r) \/ RequestLost(r)
Next ==
  \/ \E r \in Requests : Ask(r) \/ GoOn(r)
  \/ \E s \in Sessions : EngineConnects(s) \/ EngineDisconnects(s) \/ MappingExpires(s)
  \/ \E g \in Engines : EngineCrashes(g) \/ KeyGone(g)
  \/ \E i \in DOMAIN events : HandleSessionEvent(i) \/ EventFails(i)

Spec == Init /\ [][Next]_vars

(***************************************************************************)
(* Properties.                                                             *)
(***************************************************************************)
Rows == [state : {"none", "row", "gone"}, status : Statuses,
         engine : Engines \cup {None}, known : BOOLEAN]
Event == [session : Sessions, kind : {"CONNECTED", "DISCONNECTED"}, delayed : BOOLEAN]
Calling == {"insert", "post", "rollback", "saveId", "map", "incRead", "incWrite",
            "reconnect", "unlink", "status", "engine", "release", "decRead", "decWrite",
            "unmap", "remove"}
Pcs == {"idle", "register", "heartbeat"} \cup Calling
Tasks == [pc : Pcs, session : Sessions \cup {None}, engine : Engines \cup {None},
          seen : {Gone} \cup 0 .. Cap]
TaskOk(t) ==
  /\ t.session # None <=> t.pc \in Calling
  /\ t.engine # None <=> t.pc # "idle"
  /\ t.pc \in {"heartbeat", "incWrite", "decWrite"} => t.seen # Gone
TypeOK ==
  /\ registry \in [Engines -> {Gone} \cup 0 .. Cap]
  /\ mapping \in [Sessions -> Engines \cup {None}]
  /\ row \in [Sessions -> Rows]
  /\ \A s \in Sessions : row[s].state = "row" => row[s].engine # None
  /\ up \subseteq Engines
  /\ hosted \in [Sessions -> {"no", "linking", "linked"}]
  /\ events \in Seq(Event)
  /\ req \in [Requests -> Tasks] /\ \A r \in Requests : TaskOk(req[r])
  /\ exact \subseteq Engines /\ stale \subseteq Sessions
  /\ broken \subseteq Sessions /\ loose \subseteq Sessions

\* assignSessionToInstance, releaseSessionFromInstance: the count of an
\* instance is the number of sessions mapped to it, but for the requests
\* between the two writes, unless one of its writers lost another's change, a
\* count met its limit or a mapping expired.
Coming(g)  == {r \in Requests : At(r, {"incRead", "incWrite"}) /\ req[r].engine = g}
Leaving(g) == {r \in Requests : At(r, {"unmap"}) /\ req[r].engine = g}
CountIsExact ==
  \A g \in exact : registry[g] # Gone =>
    registry[g] + Cardinality(Coming(g)) + Cardinality(Leaving(g)) = Cardinality(Mapped(g))

\* handleSessionConnected, reconnectSession, register: a row with nothing
\* under way says CONNECTED exactly if the engine's session is linked, unless
\* an event was dropped or overtaken by a reconnect, or the engine crashed and
\* has not registered since.
StatusFollowsEngine ==
  \A s \in Sessions \ stale :
    Exists(s) /\ Quiet(s) /\ ~Pending(s) =>
      (row[s].status = "CONNECTED" <=> hosted[s] = "linked")

\* createSession, deleteSession: whatever fails at the engine, and whatever
\* overlaps, a row outlives its create only with its openwaId and mapping, and
\* loses the mapping only to a delete.
Working(s) == \E r \in Requests : On(r, s) /\ ~At(r, {"reconnect", "unlink", "status"})
RowIsWhole ==
  \A s \in Sessions \ broken :
    Exists(s) /\ ~Working(s) => row[s].known /\ mapping[s] = row[s].engine

\* deleteSession: the engine runs no session that has no row, unless requests
\* of the session overlapped, or a call failed, so that the engine was not told.
NoGhosts ==
  \A s \in Sessions \ (loose \cup broken) :
    hosted[s] # "no" /\ Quiet(s) => Exists(s)

\* Before anything has failed every row is whole, whatever overlaps; where the
\* requests come one after the other, every count is right, the engine runs
\* nothing that has no row, and it never runs more sessions than it may.
\* Only StatusFollowsEngine needs its exception even then.
CalmIsWhole == faults = 0 =>
  \A s \in Sessions : Exists(s) /\ ~Working(s) => row[s].known /\ mapping[s] = row[s].engine
Run(g) == {s \in Sessions : hosted[s] # "no" /\ row[s].engine = g}
CalmIsExact == faults = 0 =>
  /\ \A g \in Engines :
       registry[g] + Cardinality(Coming(g)) + Cardinality(Leaving(g)) = Cardinality(Mapped(g))
  /\ \A s \in Sessions : hosted[s] # "no" /\ Quiet(s) => Exists(s)
  /\ \A g \in Engines : Cardinality(Run(g)) <= Cap

(***************************************************************************)
(* Why they hold: the invariants the proofs carry along.                   *)
(***************************************************************************)
\* A session before its row, and its engine, which never changes.
RowOk(s) ==
  /\ row[s].state = "none" =>
       row[s] = NoRow /\ mapping[s] = None /\ hosted[s] = "no" /\ ~Pending(s)
  /\ row[s].state # "none" => row[s].engine \in Engines
  /\ ~row[s].known => row[s].status # "CONNECTED"
  /\ mapping[s] \in {None, row[s].engine}
  /\ row[s].engine \notin up => hosted[s] = "no"

\* What a request of the session may rely on.
Making == {"insert", "post", "saveId", "map", "incRead", "incWrite"}
Knowing == {"reconnect", "unlink", "status", "engine", "map", "incRead", "incWrite"}
TasksOk(s) ==
  /\ \A r \in Requests : On(r, s) =>
       /\ At(r, {"insert"}) => row[s] = NoRow /\ \A q \in Requests \ {r} : ~On(q, s)
       /\ ~At(r, {"insert"}) => row[s].state # "none" /\ req[r].engine = row[s].engine
       /\ At(r, {"post"}) => hosted[s] = "no" /\ ~Pending(s)
       /\ At(r, {"post", "saveId"}) => ~row[s].known
       /\ At(r, Knowing) => row[s].known
       /\ At(r, {"post", "saveId", "map"}) => mapping[s] = None
  /\ \A r, q \in Requests :
       On(r, s) /\ On(q, s) /\ At(r, Making) /\ At(q, Making) => r = q

\* A row that is not whole has a create or a delete about to finish it.
Finishing(s) == \E r \in Requests :
                  On(r, s) /\ At(r, {"post", "saveId", "map", "rollback", "remove"})
WholeOk(s) == s \in broken \/ ~Exists(s) \/ Finishing(s)
                \/ (row[s].known /\ mapping[s] = row[s].engine)

\* Where no requests overlapped, a delete has told the engine before it goes on.
Dooming == {"release", "decRead", "decWrite", "unmap", "remove"}
GhostOk(s) == s \notin loose \cup broken =>
  /\ \A r, q \in Requests : On(r, s) /\ On(q, s) => r = q
  /\ \A r \in Requests : On(r, s) =>
       /\ At(r, Dooming \cup {"rollback"}) => hosted[s] = "no"
       /\ ~At(r, {"insert"}) => Exists(s)
  /\ Quiet(s) /\ hosted[s] # "no" => Exists(s)

\* The newest event of a session, or its row when there is none, tells whether
\* it is linked; a reconnect about to write the row has undone the link.
Doomed(s) == \E r \in Requests : On(r, s) /\ At(r, Dooming)
Says(s, k) == \E i \in DOMAIN events :
  /\ events[i].session = s /\ events[i].kind = k
  /\ \A j \in DOMAIN events : j > i => events[j].session # s
StatusOk(s) == s \notin stale =>
  /\ ~Delayed(s)
  /\ Exists(s) /\ ~Doomed(s) =>
       /\ \A k \in {"CONNECTED", "DISCONNECTED"} :
            Says(s, k) => (k = "CONNECTED" <=> hosted[s] = "linked")
       /\ ~Pending(s) => IF Overwritten(s) THEN hosted[s] # "linked"
                         ELSE row[s].status = "CONNECTED" <=> hosted[s] = "linked"

SessionOk(s) == RowOk(s) /\ TasksOk(s) /\ WholeOk(s) /\ GhostOk(s) /\ StatusOk(s)
SessionInv == \A s \in Sessions : SessionOk(s)

\* A count still exact: each release is the only one of its session.
CountInv ==
  /\ CountIsExact
  /\ \A g \in Engines : IsFiniteSet(Mapped(g))
  /\ \A r \in Requests : At(r, {"decRead", "decWrite", "unmap"}) /\ req[r].engine \in exact =>
       /\ mapping[req[r].session] = req[r].engine
       /\ \A q \in Requests \ {r} :
            ~(At(q, {"decRead", "decWrite", "unmap"}) /\ On(q, req[r].session))

\* Before anything has failed, with one request at a time: the engines are all
\* there, what a request has read of the registry is still so, and a session
\* on its way has room.
CalmInv == faults = 0 =>
  /\ up = Engines /\ exact = Engines /\ loose = {} /\ broken = {}
  /\ \A g \in Engines : registry[g] # Gone
  /\ \A r \in Requests :
       /\ ~At(r, {"register", "rollback"})
       /\ At(r, {"heartbeat", "incWrite", "decWrite"}) => req[r].seen = registry[req[r].engine]
       /\ At(r, Making \cup {"unmap"}) => registry[req[r].engine] < Cap
       /\ At(r, {"incRead", "incWrite", "engine"}) => mapping[req[r].session] = req[r].engine
=============================================================================
