------------------------ MODULE TenantSessions_proofs ------------------------
(***************************************************************************)
(* Proofs about TenantSessions: types, then SessionInv, in the order of    *)
(* the actions, then CountInv, and the theorems at the end.                *)
(*                                                                         *)
(* SessionInv speaks of one session at a time: a step of a request touches *)
(* the session of its request, and leaves every other one Untouched.       *)
(***************************************************************************)
EXTENDS TenantSessions, FiniteSetTheorems, SequenceTheorems, TLAPS

USE DEF Idle, At, Gone, Requests, On, Exists

-----------------------------------------------------------------------------
(***************************************************************************)
(* What a step does to the requests.                                       *)
(***************************************************************************)
LEMMA ShapeKept ==
  ASSUME NEW t \in Tasks, NEW pc \in Pcs
  PROVE  LET u == [t EXCEPT !.pc = pc]
         IN  u \in Tasks /\ u.pc = pc /\ u.session = t.session /\ u.engine = t.engine /\ u.seen = t.seen
  BY DEF Tasks

LEMMA TaskShape ==
  ASSUME NEW pc \in Pcs, NEW s \in Sessions \cup {None}, NEW g \in Engines \cup {None},
         NEW n \in {Gone} \cup 0 .. Cap
  PROVE  LET t == Task(pc, s, g, n)
         IN  t \in Tasks /\ t.pc = pc /\ t.session = s /\ t.engine = g /\ t.seen = n
  BY DEF Tasks, Task

\* A request begins, goes on or ends; the others stay where they are.
Others(r) == req' \in [Requests -> Tasks] /\ \A q \in Requests \ {r} : req'[q] = req[q]
Begins(r, pc, s, g) ==
  /\ Others(r) /\ req[r].pc = "idle"
  /\ req'[r].pc = pc /\ req'[r].session = s /\ req'[r].engine = g
Steps(r, pc) ==
  /\ Others(r) /\ req'[r].pc = pc
  /\ req'[r].session = req[r].session /\ req'[r].engine = req[r].engine
Ends(r) ==
  Others(r) /\ req'[r].pc = "idle" /\ req'[r].session = None /\ req'[r].engine = None

LEMMA GotoDoes ==
  ASSUME TypeOK, NEW r \in Requests, NEW pc \in Pcs, Goto(r, pc)
  PROVE  Steps(r, pc) /\ req'[r].seen = req[r].seen
  <1>1. req[r] \in Tasks
    BY DEF TypeOK
  <1>2. req'[r] = [req[r] EXCEPT !.pc = pc]
    BY DEF TypeOK, Goto
  <1> QED  BY <1>1, <1>2, ShapeKept DEF TypeOK, Goto, Others, Steps

LEMMA ReadDoes ==
  ASSUME TypeOK, NEW r \in Requests, NEW pc \in Pcs, Read(r, pc), req[r].engine \in Engines
  PROVE  Steps(r, pc) /\ req'[r].seen = registry[req[r].engine]
  <1> DEFINE n == registry[req[r].engine]
  <1>1. req[r] \in Tasks /\ n \in {Gone} \cup 0 .. Cap
    BY DEF TypeOK
  <1>2. ASSUME NEW t \in Tasks, NEW m \in {Gone} \cup 0 .. Cap
        PROVE  LET u == [t EXCEPT !.pc = pc, !.seen = m]
               IN u \in Tasks /\ u.pc = pc /\ u.session = t.session /\ u.engine = t.engine /\ u.seen = m
    BY DEF Tasks
  <1>3. PICK u : u = [req[r] EXCEPT !.pc = pc, !.seen = n] /\ req' = [req EXCEPT ![r] = u]
    BY DEF Read
  <1>4. u \in Tasks /\ u.pc = pc /\ u.session = req[r].session /\ u.engine = req[r].engine /\ u.seen = n
    BY <1>1, <1>2, <1>3
  <1> QED  BY <1>3, <1>4 DEF TypeOK, Others, Steps

\* A delete that releases a session goes on with the engine of its mapping.
LEMMA ReleaseDoes ==
  ASSUME TypeOK, NEW r \in Requests, NEW g \in Engines,
         req' = [req EXCEPT ![r] = [@ EXCEPT !.pc = "decRead", !.engine = g]]
  PROVE  /\ Others(r) /\ req'[r].pc = "decRead" /\ req'[r].session = req[r].session
         /\ req'[r].engine = g /\ req'[r].seen = req[r].seen
  <1>1. req[r] \in Tasks
    BY DEF TypeOK
  <1>2. req'[r] = [req[r] EXCEPT !.pc = "decRead", !.engine = g]
    BY DEF TypeOK
  <1>3. ASSUME NEW t \in Tasks
        PROVE  LET u == [t EXCEPT !.pc = "decRead", !.engine = g]
               IN u \in Tasks /\ u.pc = "decRead" /\ u.session = t.session /\ u.engine = g /\ u.seen = t.seen
    BY DEF Tasks, Pcs, Calling
  <1> QED  BY <1>1, <1>2, <1>3 DEF TypeOK, Others

LEMMA EndDoes ==
  ASSUME TypeOK, NEW r \in Requests, End(r)
  PROVE  Ends(r)
  <1>1. Idle \in Tasks /\ Idle.pc = "idle" /\ Idle.session = None /\ Idle.engine = None
    BY TaskShape DEF Pcs
  <1>2. req'[r] = Idle
    BY DEF TypeOK, End
  <1> HIDE DEF Idle
  <1> QED  BY <1>1, <1>2 DEF TypeOK, End, Others, Ends

LEMMA BeginDoes ==
  ASSUME TypeOK, NEW r \in Requests, NEW pc \in Pcs, NEW s \in Sessions \cup {None},
         NEW g \in Engines \cup {None}, NEW n \in {Gone} \cup 0 .. Cap,
         Begin(r, Task(pc, s, g, n))
  PROVE  Begins(r, pc, s, g) /\ req'[r].seen = n
  <1>1. PICK t : t = Task(pc, s, g, n) /\ req' = [req EXCEPT ![r] = t] /\ req[r].pc = "idle"
    BY DEF Begin
  <1>2. t \in Tasks /\ t.pc = pc /\ t.session = s /\ t.engine = g /\ t.seen = n
    BY <1>1, TaskShape
  <1> QED  BY <1>1, <1>2 DEF TypeOK, Others, Begins

LEMMA WhoCalls ==
  ASSUME TypeOK, NEW r \in Requests
  PROVE  /\ req[r] \in Tasks /\ TaskOk(req[r])
         /\ req[r].pc # "idle" => req[r].engine \in Engines
         /\ req[r].pc \in Calling => req[r].session \in Sessions
  BY DEF TypeOK, TaskOk, Tasks

-----------------------------------------------------------------------------
(***************************************************************************)
(* What a step does to the rows and the events.                            *)
(***************************************************************************)
LEMMA StatusShape ==
  ASSUME NEW t \in Rows, NEW k \in Statuses
  PROVE  LET u == [t EXCEPT !.status = k]
         IN  u \in Rows /\ u.status = k /\ u.state = t.state /\ u.engine = t.engine /\ u.known = t.known
  BY DEF Rows

LEMMA KnownShape ==
  ASSUME NEW t \in Rows
  PROVE  LET u == [t EXCEPT !.known = TRUE]
         IN  u \in Rows /\ u.known = TRUE /\ u.state = t.state /\ u.engine = t.engine /\ u.status = t.status
  BY DEF Rows

LEMMA GoneShape ==
  ASSUME NEW t \in Rows
  PROVE  LET u == [t EXCEPT !.state = "gone"]
         IN  u \in Rows /\ u.state = "gone" /\ u.engine = t.engine /\ u.known = t.known /\ u.status = t.status
  BY DEF Rows

LEMMA NewShape ==
  ASSUME NEW t \in Rows, NEW g \in Engines
  PROVE  LET u == [t EXCEPT !.state = "row", !.engine = g]
         IN  u \in Rows /\ u.state = "row" /\ u.engine = g /\ u.known = t.known /\ u.status = t.status
  BY DEF Rows

LEMMA NoRowShape ==
  /\ NoRow \in Rows /\ NoRow.state = "none" /\ NoRow.engine = None
  /\ NoRow.status = "INITIALIZING" /\ NoRow.known = FALSE
  BY DEF NoRow, Rows, Statuses

\* All rows but that of one session.
RowsOfOthers(s) == row' \in [Sessions -> Rows] /\ \A x \in Sessions \ {s} : row'[x] = row[x]

LEMMA StatusDoes ==
  ASSUME TypeOK, NEW s \in Sessions, NEW k \in Statuses, row' = [row EXCEPT ![s].status = k]
  PROVE  /\ RowsOfOthers(s) /\ row'[s].status = k /\ row'[s].state = row[s].state
         /\ row'[s].engine = row[s].engine /\ row'[s].known = row[s].known
  <1>1. PICK u : u = [row[s] EXCEPT !.status = k] /\ row' = [row EXCEPT ![s] = u]
    OBVIOUS
  <1>2. /\ u \in Rows /\ u.status = k
        /\ u.state = row[s].state /\ u.engine = row[s].engine /\ u.known = row[s].known
    BY <1>1, StatusShape DEF TypeOK
  <1> QED  BY <1>1, <1>2 DEF TypeOK, RowsOfOthers

LEMMA KnownDoes ==
  ASSUME TypeOK, NEW s \in Sessions, row' = [row EXCEPT ![s].known = TRUE]
  PROVE  /\ RowsOfOthers(s) /\ row'[s].known = TRUE /\ row'[s].state = row[s].state
         /\ row'[s].engine = row[s].engine /\ row'[s].status = row[s].status
  <1>1. PICK u : u = [row[s] EXCEPT !.known = TRUE] /\ row' = [row EXCEPT ![s] = u]
    OBVIOUS
  <1>2. /\ u \in Rows /\ u.known = TRUE
        /\ u.state = row[s].state /\ u.engine = row[s].engine /\ u.status = row[s].status
    BY <1>1, KnownShape DEF TypeOK
  <1> QED  BY <1>1, <1>2 DEF TypeOK, RowsOfOthers

LEMMA DeletedDoes ==
  ASSUME TypeOK, NEW s \in Sessions, Deleted(s)
  PROVE  /\ RowsOfOthers(s) /\ row'[s].state = "gone" /\ row'[s].known = row[s].known
         /\ row'[s].engine = row[s].engine /\ row'[s].status = row[s].status
  <1>1. PICK u : u = [row[s] EXCEPT !.state = "gone"] /\ row' = [row EXCEPT ![s] = u]
    BY DEF Deleted
  <1>2. /\ u \in Rows /\ u.state = "gone"
        /\ u.known = row[s].known /\ u.engine = row[s].engine /\ u.status = row[s].status
    BY <1>1, GoneShape DEF TypeOK
  <1> QED  BY <1>1, <1>2 DEF TypeOK, RowsOfOthers

LEMMA InsertDoes ==
  ASSUME TypeOK, NEW s \in Sessions, NEW g \in Engines,
         row' = [row EXCEPT ![s] = [NoRow EXCEPT !.state = "row", !.engine = g]]
  PROVE  /\ RowsOfOthers(s) /\ row'[s].state = "row" /\ row'[s].known = FALSE
         /\ row'[s].engine = g /\ row'[s].status = "INITIALIZING"
  <1>1. PICK u : u = [NoRow EXCEPT !.state = "row", !.engine = g] /\ row' = [row EXCEPT ![s] = u]
    OBVIOUS
  <1>2. u \in Rows /\ u.state = "row" /\ u.known = FALSE /\ u.engine = g /\ u.status = "INITIALIZING"
    BY <1>1, NewShape, NoRowShape
  <1> QED  BY <1>1, <1>2 DEF TypeOK, RowsOfOthers

LEMMA ResetDoes ==
  ASSUME TypeOK, NEW r, NEW g, RegisterReset(r, g)
  PROVE  /\ row' \in [Sessions -> Rows]
         /\ \A s \in Sessions :
              /\ row'[s].state = row[s].state /\ row'[s].engine = row[s].engine
              /\ row'[s].known = row[s].known
              /\ IF row[s].state = "row" /\ row[s].engine = g
                 THEN row'[s].status = "DISCONNECTED" ELSE row'[s] = row[s]
  <1>1. ASSUME NEW s \in Sessions
        PROVE  row'[s] = row[s] \/ row'[s] = [row[s] EXCEPT !.status = "DISCONNECTED"]
    BY DEF RegisterReset
  <1>2. \A s \in Sessions : row[s] \in Rows
    BY DEF TypeOK
  <1>3. ASSUME NEW s \in Sessions
        PROVE  /\ row'[s] \in Rows
               /\ row'[s].state = row[s].state /\ row'[s].engine = row[s].engine
               /\ row'[s].known = row[s].known
    <2>1. CASE row'[s] = row[s]
      BY <2>1, <1>2
    <2>2. CASE row'[s] = [row[s] EXCEPT !.status = "DISCONNECTED"]
      <3>1. PICK u : u = [row[s] EXCEPT !.status = "DISCONNECTED"]
        OBVIOUS
      <3>2. u \in Rows /\ u.state = row[s].state /\ u.engine = row[s].engine /\ u.known = row[s].known
        BY <1>2, <3>1, StatusShape DEF Statuses
      <3> QED  BY <2>2, <3>1, <3>2
    <2> QED  BY <1>1, <2>1, <2>2
  <1>4. ASSUME NEW s \in Sessions, row[s].state = "row", row[s].engine = g
        PROVE  row'[s].status = "DISCONNECTED"
    <2>1. row'[s] = IF row[s].status # "DISCONNECTED"
                    THEN [row[s] EXCEPT !.status = "DISCONNECTED"] ELSE row[s]
      BY <1>4 DEF RegisterReset
    <2> QED  BY <2>1, <1>2, StatusShape DEF Statuses
  <1>5. ASSUME NEW s \in Sessions, ~(row[s].state = "row" /\ row[s].engine = g)
        PROVE  row'[s] = row[s]
    BY <1>5 DEF RegisterReset
  <1>6. row' \in [Sessions -> Rows]
    BY <1>3 DEF RegisterReset
  <1> QED  BY <1>3, <1>4, <1>5, <1>6

LEMMA EventType ==
  ASSUME TypeOK, NEW i \in DOMAIN events
  PROVE  /\ events[i] \in Event /\ events[i].session \in Sessions
         /\ events[i].kind \in {"CONNECTED", "DISCONNECTED"} /\ events[i].kind \in Statuses
  <1>1. events[i] \in Event
    BY DEF TypeOK
  <1> QED  BY <1>1 DEF Event, Statuses

LEMMA EventsDo ==
  ASSUME TypeOK
  PROVE  /\ \A s \in Sessions, k \in {"CONNECTED", "DISCONNECTED"} :
              Append(events, [session |-> s, kind |-> k, delayed |-> FALSE]) \in Seq(Event)
         /\ \A i \in DOMAIN events : Without(i) \in Seq(Event)
         /\ \A i \in DOMAIN events : [events EXCEPT ![i].delayed = TRUE] \in Seq(Event)
  <1>1. ASSUME NEW s \in Sessions, NEW k \in {"CONNECTED", "DISCONNECTED"}
        PROVE  Append(events, [session |-> s, kind |-> k, delayed |-> FALSE]) \in Seq(Event)
    <2>1. [session |-> s, kind |-> k, delayed |-> FALSE] \in Event
      BY DEF Event
    <2> QED  BY <2>1 DEF TypeOK
  <1>2. ASSUME NEW i \in DOMAIN events
        PROVE  Without(i) \in Seq(Event)
    BY DEF TypeOK, Without
  <1>3. ASSUME NEW i \in DOMAIN events
        PROVE  [events EXCEPT ![i].delayed = TRUE] \in Seq(Event)
    <2>1. PICK u : u = [events[i] EXCEPT !.delayed = TRUE]
      OBVIOUS
    <2>2. ASSUME NEW e \in Event PROVE [e EXCEPT !.delayed = TRUE] \in Event
      BY DEF Event
    <2>3. u \in Event
      BY <2>1, <2>2, EventType
    <2>4. [events EXCEPT ![i].delayed = TRUE] = [events EXCEPT ![i] = u]
      BY <2>1
    <2>5. [events EXCEPT ![i] = u] \in Seq(Event)
      BY <2>3, ExceptSeq DEF TypeOK
    <2> QED  BY <2>4, <2>5
  <1> QED  BY <1>1, <1>2, <1>3

-----------------------------------------------------------------------------
(***************************************************************************)
(* Where each step leaves its request.                                     *)
(***************************************************************************)
LEMMA RegisterResetMoves ==
  ASSUME TypeOK, NEW r \in Requests, NEW g \in Engines, RegisterReset(r, g)
  PROVE  Begins(r, "register", None, g)
  BY BeginDoes DEF RegisterReset, Pcs

LEMMA HeartbeatReadMoves ==
  ASSUME TypeOK, NEW r \in Requests, NEW g \in Engines, HeartbeatRead(r, g)
  PROVE  Begins(r, "heartbeat", None, g) /\ req'[r].seen # Gone
  BY BeginDoes DEF HeartbeatRead, Pcs, TypeOK

LEMMA CreatePickMoves ==
  ASSUME TypeOK, NEW r \in Requests, NEW s \in Sessions, CreatePick(r, s)
  PROVE  \E g \in Engines : Begins(r, "insert", s, g)
  BY BeginDoes DEF CreatePick, LeastLoaded, Available, Pcs, Calling

LEMMA ReconnectReadMoves ==
  ASSUME TypeOK, NEW r \in Requests, NEW s \in Sessions, NEW verb \in {"reconnect", "unlink"},
         ReconnectRead(r, s, verb)
  PROVE  Resolved(s) \in Engines /\ Begins(r, verb, s, Resolved(s))
  <1>1. Resolved(s) \in Engines
    BY DEF ReconnectRead, Resolved, TypeOK, Rows
  <1>2. verb \in Pcs /\ s \in Sessions \cup {None} /\ Resolved(s) \in Engines \cup {None}
    BY <1>1 DEF Pcs, Calling
  <1>3. Begin(r, Task(verb, s, Resolved(s), Gone))
    BY DEF ReconnectRead
  <1> QED  BY <1>1, <1>2, <1>3, BeginDoes

LEMMA DeleteReadMoves ==
  ASSUME TypeOK, NEW r \in Requests, NEW s \in Sessions, DeleteRead(r, s)
  PROVE  /\ row[s].engine \in Engines
         /\ Begins(r, IF row[s].known THEN "engine" ELSE "release", s, row[s].engine)
  <1> DEFINE pc == IF row[s].known THEN "engine" ELSE "release"
  <1>1. row[s].engine \in Engines
    BY DEF DeleteRead, TypeOK, Rows
  <1>2. pc \in Pcs /\ s \in Sessions \cup {None} /\ row[s].engine \in Engines \cup {None}
    BY <1>1 DEF Pcs, Calling
  <1>3. Begin(r, Task(pc, s, row[s].engine, Gone))
    BY DEF DeleteRead
  <1> HIDE DEF pc
  <1>4. Begins(r, pc, s, row[s].engine)
    BY <1>2, <1>3, BeginDoes
  <1> QED  BY <1>1, <1>4 DEF pc

LEMMA RegisterWriteMoves ==
  ASSUME TypeOK, NEW r \in Requests, RegisterWrite(r)
  PROVE  Ends(r)
  BY EndDoes DEF RegisterWrite

LEMMA HeartbeatWriteMoves ==
  ASSUME TypeOK, NEW r \in Requests, HeartbeatWrite(r)
  PROVE  Ends(r)
  BY EndDoes DEF HeartbeatWrite

LEMMA IncWriteMoves ==
  ASSUME TypeOK, NEW r \in Requests, IncWrite(r)
  PROVE  Ends(r)
  BY EndDoes DEF IncWrite

LEMMA CreateRollbackMoves ==
  ASSUME TypeOK, NEW r \in Requests, CreateRollback(r)
  PROVE  Ends(r)
  BY EndDoes DEF CreateRollback

LEMMA ReconnectWriteMoves ==
  ASSUME TypeOK, NEW r \in Requests, ReconnectWrite(r)
  PROVE  Ends(r)
  BY EndDoes DEF ReconnectWrite

LEMMA DeleteRowMoves ==
  ASSUME TypeOK, NEW r \in Requests, DeleteRow(r)
  PROVE  Ends(r)
  BY EndDoes DEF DeleteRow

LEMMA RequestLostMoves ==
  ASSUME TypeOK, NEW r \in Requests, RequestLost(r)
  PROVE  Ends(r)
  BY EndDoes DEF RequestLost

LEMMA DecWriteMoves ==
  ASSUME TypeOK, NEW r \in Requests, DecWrite(r)
  PROVE  Steps(r, "unmap")
  BY GotoDoes DEF DecWrite, Pcs, Calling

LEMMA CreateRowMoves ==
  ASSUME TypeOK, NEW r \in Requests, CreateRow(r)
  PROVE  Steps(r, "post")
  BY GotoDoes DEF CreateRow, Pcs, Calling

LEMMA CreateFailsMoves ==
  ASSUME TypeOK, NEW r \in Requests, CreateFails(r)
  PROVE  Steps(r, "rollback")
  BY GotoDoes DEF CreateFails, Pcs, Calling

LEMMA CreateMapMoves ==
  ASSUME TypeOK, NEW r \in Requests, CreateMap(r)
  PROVE  Steps(r, "incRead")
  BY GotoDoes DEF CreateMap, Pcs, Calling

LEMMA DeleteEngineMoves ==
  ASSUME TypeOK, NEW r \in Requests, DeleteEngine(r)
  PROVE  Steps(r, "release")
  BY GotoDoes DEF DeleteEngine, Pcs, Calling

LEMMA UnmapMoves ==
  ASSUME TypeOK, NEW r \in Requests, Unmap(r)
  PROVE  Steps(r, "remove")
  BY GotoDoes DEF Unmap, Pcs, Calling

LEMMA IncReadMoves ==
  ASSUME TypeOK, NEW r \in Requests, IncRead(r)
  PROVE  Ends(r) \/ (Steps(r, "incWrite") /\ req'[r].seen # Gone)
  BY WhoCalls, EndDoes, ReadDoes DEF IncRead, Pcs, Calling

LEMMA DecReadMoves ==
  ASSUME TypeOK, NEW r \in Requests, DecRead(r)
  PROVE  Steps(r, "unmap") \/ (Steps(r, "decWrite") /\ req'[r].seen # Gone)
  BY WhoCalls, GotoDoes, ReadDoes DEF DecRead, Pcs, Calling

LEMMA CreatePostMoves ==
  ASSUME TypeOK, NEW r \in Requests, CreatePost(r)
  PROVE  IF req[r].engine \in up THEN Steps(r, "saveId") ELSE Steps(r, "rollback")
  BY GotoDoes DEF CreatePost, Pcs, Calling

LEMMA CreateSaveIdMoves ==
  ASSUME TypeOK, NEW r \in Requests, CreateSaveId(r)
  PROVE  IF row[req[r].session].state = "row" THEN Steps(r, "map") ELSE Ends(r)
  BY GotoDoes, EndDoes DEF CreateSaveId, Pcs, Calling

LEMMA ReconnectPostMoves ==
  ASSUME TypeOK, NEW r \in Requests, ReconnectPost(r)
  PROVE  \/ Steps(r, "status") /\ hosted' = [hosted EXCEPT ![req[r].session] = "linking"]
         \/ Ends(r) /\ hosted' = hosted
  BY GotoDoes, EndDoes DEF ReconnectPost, Pcs, Calling

LEMMA ReleaseMoves ==
  ASSUME TypeOK, NEW r \in Requests, Release(r)
  PROVE  IF mapping[req[r].session] = None THEN Steps(r, "remove")
         ELSE /\ Others(r) /\ req'[r].pc = "decRead" /\ req'[r].session = req[r].session
              /\ req'[r].engine = mapping[req[r].session]
  <1>1. CASE mapping[req[r].session] = None
    BY <1>1, GotoDoes DEF Release, Pcs, Calling
  <1>2. CASE mapping[req[r].session] # None
    <2>1. req[r].session \in Sessions
      BY WhoCalls DEF Release, Calling
    <2>2. mapping[req[r].session] \in Engines
      BY <1>2, <2>1 DEF TypeOK
    <2> QED  BY <1>2, <2>2, ReleaseDoes DEF Release
  <1> QED  BY <1>1, <1>2

-----------------------------------------------------------------------------
(***************************************************************************)
(* The types.                                                              *)
(***************************************************************************)
ReqOk == req \in [Requests -> Tasks] /\ \A r \in Requests : TaskOk(req[r])
RowsOk == row \in [Sessions -> Rows] /\ \A s \in Sessions : row[s].state = "row" => row[s].engine # None
SetsOk == /\ exact \subseteq Engines /\ stale \subseteq Sessions
          /\ broken \subseteq Sessions /\ loose \subseteq Sessions

LEMMA OneTask ==
  ASSUME TypeOK, NEW r \in Requests, Others(r), TaskOk(req'[r])
  PROVE  ReqOk'
  BY DEF TypeOK, Others, ReqOk

LEMMA BeginType ==
  ASSUME TypeOK, NEW r \in Requests, NEW pc \in Pcs \ {"idle"}, NEW g \in Engines,
         NEW s \in IF pc \in Calling THEN Sessions ELSE {None},
         Begins(r, pc, s, g), pc \in {"heartbeat", "incWrite", "decWrite"} => req'[r].seen # Gone
  PROVE  ReqOk'
  BY OneTask, TenantSessionsAssumption DEF Begins, TaskOk

LEMMA StepType ==
  ASSUME TypeOK, NEW r \in Requests, req[r].pc \in Calling, NEW pc \in Calling, Steps(r, pc),
         pc \in {"incWrite", "decWrite"} => req'[r].seen # Gone
  PROVE  ReqOk'
  <1>1. TaskOk(req[r])
    BY DEF TypeOK
  <1>2. pc # "idle" /\ pc # "heartbeat" /\ req[r].pc # "idle"
    BY DEF Calling
  <1> QED  BY <1>1, <1>2, OneTask DEF Steps, TaskOk

LEMMA EndType ==
  ASSUME TypeOK, NEW r \in Requests, Ends(r)
  PROVE  ReqOk'
  BY OneTask DEF Ends, TaskOk, Calling

LEMMA OneRow ==
  ASSUME TypeOK, NEW s \in Sessions, RowsOfOthers(s),
         row'[s].state = "row" => row[s].state = "row" /\ row'[s].engine = row[s].engine
  PROVE  RowsOk'
  BY DEF TypeOK, RowsOfOthers, RowsOk

LEMMA TypeInit == Init => TypeOK
  <1> SUFFICES ASSUME Init PROVE TypeOK
    OBVIOUS
  <1>1. row \in [Sessions -> Rows] /\ \A s \in Sessions : row[s].state = "none"
    BY NoRowShape DEF Init
  <1>2. Idle \in Tasks /\ Idle.pc = "idle" /\ Idle.session = None /\ Idle.engine = None
    BY TaskShape DEF Pcs
  <1>3. req \in [Requests -> Tasks] /\ \A r \in Requests : TaskOk(req[r])
    <2> HIDE DEF Idle
    <2> QED  BY <1>2 DEF Init, TaskOk, Calling
  <1>4. registry \in [Engines -> {Gone} \cup 0 .. Cap]
    BY TenantSessionsAssumption DEF Init
  <1> QED  BY <1>1, <1>3, <1>4 DEF Init, TypeOK

LEMMA TypeStep == TypeOK /\ [Next]_vars => TypeOK'
  <1> SUFFICES ASSUME TypeOK, [Next]_vars PROVE TypeOK'
    OBVIOUS
  <1>1. ASSUME NEW r \in Requests, NEW g \in Engines, RegisterReset(r, g)
        PROVE  TypeOK'
    <2>1. ReqOk'
      BY <1>1, RegisterResetMoves, BeginType DEF Calling, Pcs
    <2>2. RowsOk'
      BY <1>1, ResetDoes DEF TypeOK, RowsOk
    <2>3. events' \in Seq(Event)
      BY <1>1 DEF RegisterReset, TypeOK
    <2>4. /\ registry' \in [Engines -> {Gone} \cup 0 .. Cap]
          /\ mapping' \in [Sessions -> Engines \cup {None}]
      BY <1>1, WhoCalls, TenantSessionsAssumption DEF RegisterReset, TypeOK, redis, Calling,
         TaskOk, Tasks
    <2>5. up' \subseteq Engines /\ hosted' \in [Sessions -> {"no", "linking", "linked"}]
      BY <1>1, WhoCalls DEF RegisterReset, TypeOK, Calling
    <2>6. SetsOk'
      BY <1>1, WhoCalls DEF RegisterReset, SetsOk, TypeOK, history, Calling, Hosts
    <2> QED  BY <2>1, <2>2, <2>3, <2>4, <2>5, <2>6 DEF TypeOK, ReqOk, RowsOk, SetsOk
  <1>2. ASSUME NEW r \in Requests, NEW g \in Engines, HeartbeatRead(r, g)
        PROVE  TypeOK'
    <2>1. ReqOk'
      BY <1>2, HeartbeatReadMoves, BeginType DEF HeartbeatRead, Calling, Pcs
    <2>2. RowsOk'
      BY <1>2 DEF HeartbeatRead, TypeOK, RowsOk
    <2>3. events' \in Seq(Event)
      BY <1>2 DEF HeartbeatRead, TypeOK
    <2>4. /\ registry' \in [Engines -> {Gone} \cup 0 .. Cap]
          /\ mapping' \in [Sessions -> Engines \cup {None}]
      BY <1>2, WhoCalls, TenantSessionsAssumption DEF HeartbeatRead, TypeOK, redis, Calling,
         TaskOk, Tasks
    <2>5. up' \subseteq Engines /\ hosted' \in [Sessions -> {"no", "linking", "linked"}]
      BY <1>2, WhoCalls DEF HeartbeatRead, TypeOK, Calling
    <2>6. SetsOk'
      BY <1>2, WhoCalls DEF HeartbeatRead, SetsOk, TypeOK, history, Calling
    <2> QED  BY <2>1, <2>2, <2>3, <2>4, <2>5, <2>6 DEF TypeOK, ReqOk, RowsOk, SetsOk
  <1>3. ASSUME NEW r \in Requests, NEW s \in Sessions, CreatePick(r, s)
        PROVE  TypeOK'
    <2>1. ReqOk'
      BY <1>3, CreatePickMoves, BeginType DEF CreatePick, Calling, Pcs
    <2>2. RowsOk'
      BY <1>3 DEF CreatePick, TypeOK, RowsOk
    <2>3. events' \in Seq(Event)
      BY <1>3 DEF CreatePick, TypeOK
    <2>4. /\ registry' \in [Engines -> {Gone} \cup 0 .. Cap]
          /\ mapping' \in [Sessions -> Engines \cup {None}]
      BY <1>3, WhoCalls, TenantSessionsAssumption DEF CreatePick, TypeOK, redis, Calling,
         TaskOk, Tasks
    <2>5. up' \subseteq Engines /\ hosted' \in [Sessions -> {"no", "linking", "linked"}]
      BY <1>3, WhoCalls DEF CreatePick, TypeOK, Calling
    <2>6. SetsOk'
      BY <1>3, WhoCalls DEF CreatePick, SetsOk, TypeOK, history, Calling
    <2> QED  BY <2>1, <2>2, <2>3, <2>4, <2>5, <2>6 DEF TypeOK, ReqOk, RowsOk, SetsOk
  <1>4. ASSUME NEW r \in Requests, NEW s \in Sessions, NEW verb \in {"reconnect", "unlink"},
               ReconnectRead(r, s, verb)
        PROVE  TypeOK'
    <2>1. ReqOk'
      BY <1>4, ReconnectReadMoves, BeginType DEF ReconnectRead, Calling, Pcs
    <2>2. RowsOk'
      BY <1>4 DEF ReconnectRead, TypeOK, RowsOk
    <2>3. events' \in Seq(Event)
      BY <1>4 DEF ReconnectRead, TypeOK
    <2>4. /\ registry' \in [Engines -> {Gone} \cup 0 .. Cap]
          /\ mapping' \in [Sessions -> Engines \cup {None}]
      BY <1>4, WhoCalls, TenantSessionsAssumption DEF ReconnectRead, TypeOK, redis, Calling,
         TaskOk, Tasks
    <2>5. up' \subseteq Engines /\ hosted' \in [Sessions -> {"no", "linking", "linked"}]
      BY <1>4, WhoCalls DEF ReconnectRead, TypeOK, Calling
    <2>6. SetsOk'
      BY <1>4, WhoCalls DEF ReconnectRead, SetsOk, TypeOK, history, Calling, Overlap
    <2> QED  BY <2>1, <2>2, <2>3, <2>4, <2>5, <2>6 DEF TypeOK, ReqOk, RowsOk, SetsOk
  <1>5. ASSUME NEW r \in Requests, NEW s \in Sessions, DeleteRead(r, s)
        PROVE  TypeOK'
    <2>1. ReqOk'
      BY <1>5, DeleteReadMoves, BeginType DEF DeleteRead, Calling, Pcs
    <2>2. RowsOk'
      BY <1>5 DEF DeleteRead, TypeOK, RowsOk
    <2>3. events' \in Seq(Event)
      BY <1>5 DEF DeleteRead, TypeOK
    <2>4. /\ registry' \in [Engines -> {Gone} \cup 0 .. Cap]
          /\ mapping' \in [Sessions -> Engines \cup {None}]
      BY <1>5, WhoCalls, TenantSessionsAssumption DEF DeleteRead, TypeOK, redis, Calling,
         TaskOk, Tasks
    <2>5. up' \subseteq Engines /\ hosted' \in [Sessions -> {"no", "linking", "linked"}]
      BY <1>5, WhoCalls DEF DeleteRead, TypeOK, Calling
    <2>6. SetsOk'
      BY <1>5, WhoCalls DEF DeleteRead, SetsOk, TypeOK, history, Calling, Overlap
    <2> QED  BY <2>1, <2>2, <2>3, <2>4, <2>5, <2>6 DEF TypeOK, ReqOk, RowsOk, SetsOk
  <1>6. ASSUME NEW r \in Requests, RegisterWrite(r)
        PROVE  TypeOK'
    <2>1. ReqOk'
      BY <1>6, RegisterWriteMoves, EndType DEF RegisterWrite, Calling, Pcs
    <2>2. RowsOk'
      BY <1>6 DEF RegisterWrite, TypeOK, RowsOk
    <2>3. events' \in Seq(Event)
      BY <1>6 DEF RegisterWrite, TypeOK
    <2>4. /\ registry' \in [Engines -> {Gone} \cup 0 .. Cap]
          /\ mapping' \in [Sessions -> Engines \cup {None}]
      BY <1>6, WhoCalls, TenantSessionsAssumption DEF RegisterWrite, TypeOK, redis, Calling,
         TaskOk, Tasks
    <2>5. up' \subseteq Engines /\ hosted' \in [Sessions -> {"no", "linking", "linked"}]
      BY <1>6, WhoCalls DEF RegisterWrite, TypeOK, Calling
    <2>6. SetsOk'
      BY <1>6, WhoCalls DEF RegisterWrite, SetsOk, TypeOK, history, Calling
    <2> QED  BY <2>1, <2>2, <2>3, <2>4, <2>5, <2>6 DEF TypeOK, ReqOk, RowsOk, SetsOk
  <1>7. ASSUME NEW r \in Requests, HeartbeatWrite(r)
        PROVE  TypeOK'
    <2>1. ReqOk'
      BY <1>7, HeartbeatWriteMoves, EndType DEF HeartbeatWrite, Calling, Pcs
    <2>2. RowsOk'
      BY <1>7 DEF HeartbeatWrite, TypeOK, RowsOk
    <2>3. events' \in Seq(Event)
      BY <1>7 DEF HeartbeatWrite, TypeOK
    <2>4. /\ registry' \in [Engines -> {Gone} \cup 0 .. Cap]
          /\ mapping' \in [Sessions -> Engines \cup {None}]
      BY <1>7, WhoCalls, TenantSessionsAssumption DEF HeartbeatWrite, TypeOK, redis, Calling,
         TaskOk, Tasks, WriteBack
    <2>5. up' \subseteq Engines /\ hosted' \in [Sessions -> {"no", "linking", "linked"}]
      BY <1>7, WhoCalls DEF HeartbeatWrite, TypeOK, Calling
    <2>6. SetsOk'
      BY <1>7, WhoCalls DEF HeartbeatWrite, SetsOk, TypeOK, history, Calling, WriteBack
    <2> QED  BY <2>1, <2>2, <2>3, <2>4, <2>5, <2>6 DEF TypeOK, ReqOk, RowsOk, SetsOk
  <1>8. ASSUME NEW r \in Requests, IncRead(r)
        PROVE  TypeOK'
    <2>1. ReqOk'
      BY <1>8, IncReadMoves, StepType, EndType DEF IncRead, Calling, Pcs
    <2>2. RowsOk'
      BY <1>8 DEF IncRead, TypeOK, RowsOk
    <2>3. events' \in Seq(Event)
      BY <1>8 DEF IncRead, TypeOK
    <2>4. /\ registry' \in [Engines -> {Gone} \cup 0 .. Cap]
          /\ mapping' \in [Sessions -> Engines \cup {None}]
      BY <1>8, WhoCalls, TenantSessionsAssumption DEF IncRead, TypeOK, redis, Calling, TaskOk,
         Tasks
    <2>5. up' \subseteq Engines /\ hosted' \in [Sessions -> {"no", "linking", "linked"}]
      BY <1>8, WhoCalls DEF IncRead, TypeOK, Calling
    <2>6. SetsOk'
      BY <1>8, WhoCalls DEF IncRead, SetsOk, TypeOK, history, Calling
    <2> QED  BY <2>1, <2>2, <2>3, <2>4, <2>5, <2>6 DEF TypeOK, ReqOk, RowsOk, SetsOk
  <1>9. ASSUME NEW r \in Requests, IncWrite(r)
        PROVE  TypeOK'
    <2>1. ReqOk'
      BY <1>9, IncWriteMoves, EndType DEF IncWrite, Calling, Pcs
    <2>2. RowsOk'
      BY <1>9 DEF IncWrite, TypeOK, RowsOk
    <2>3. events' \in Seq(Event)
      BY <1>9 DEF IncWrite, TypeOK
    <2>4. /\ registry' \in [Engines -> {Gone} \cup 0 .. Cap]
          /\ mapping' \in [Sessions -> Engines \cup {None}]
      BY SMTT(60), <1>9, WhoCalls, TenantSessionsAssumption DEF IncWrite, TypeOK, redis, Calling, TaskOk,
         Tasks, Least
    <2>5. up' \subseteq Engines /\ hosted' \in [Sessions -> {"no", "linking", "linked"}]
      BY <1>9, WhoCalls DEF IncWrite, TypeOK, Calling
    <2>6. SetsOk'
      BY <1>9, WhoCalls DEF IncWrite, SetsOk, TypeOK, history, Calling, Least
    <2> QED  BY <2>1, <2>2, <2>3, <2>4, <2>5, <2>6 DEF TypeOK, ReqOk, RowsOk, SetsOk
  <1>10. ASSUME NEW r \in Requests, DecRead(r)
        PROVE  TypeOK'
    <2>1. ReqOk'
      BY <1>10, DecReadMoves, StepType DEF DecRead, Calling, Pcs
    <2>2. RowsOk'
      BY <1>10 DEF DecRead, TypeOK, RowsOk
    <2>3. events' \in Seq(Event)
      BY <1>10 DEF DecRead, TypeOK
    <2>4. /\ registry' \in [Engines -> {Gone} \cup 0 .. Cap]
          /\ mapping' \in [Sessions -> Engines \cup {None}]
      BY <1>10, WhoCalls, TenantSessionsAssumption DEF DecRead, TypeOK, redis, Calling, TaskOk,
         Tasks
    <2>5. up' \subseteq Engines /\ hosted' \in [Sessions -> {"no", "linking", "linked"}]
      BY <1>10, WhoCalls DEF DecRead, TypeOK, Calling
    <2>6. SetsOk'
      BY <1>10, WhoCalls DEF DecRead, SetsOk, TypeOK, history, Calling
    <2> QED  BY <2>1, <2>2, <2>3, <2>4, <2>5, <2>6 DEF TypeOK, ReqOk, RowsOk, SetsOk
  <1>11. ASSUME NEW r \in Requests, DecWrite(r)
        PROVE  TypeOK'
    <2>1. ReqOk'
      BY <1>11, DecWriteMoves, StepType DEF DecWrite, Calling, Pcs
    <2>2. RowsOk'
      BY <1>11 DEF DecWrite, TypeOK, RowsOk
    <2>3. events' \in Seq(Event)
      BY <1>11 DEF DecWrite, TypeOK
    <2>4. /\ registry' \in [Engines -> {Gone} \cup 0 .. Cap]
          /\ mapping' \in [Sessions -> Engines \cup {None}]
      BY SMTT(60), <1>11, WhoCalls, TenantSessionsAssumption DEF DecWrite, TypeOK, redis, Calling,
         TaskOk, Tasks, Most
    <2>5. up' \subseteq Engines /\ hosted' \in [Sessions -> {"no", "linking", "linked"}]
      BY <1>11, WhoCalls DEF DecWrite, TypeOK, Calling
    <2>6. SetsOk'
      BY <1>11, WhoCalls DEF DecWrite, SetsOk, TypeOK, history, Calling, Most
    <2> QED  BY <2>1, <2>2, <2>3, <2>4, <2>5, <2>6 DEF TypeOK, ReqOk, RowsOk, SetsOk
  <1>12. ASSUME NEW r \in Requests, CreateRow(r)
        PROVE  TypeOK'
    <2>1. ReqOk'
      BY <1>12, CreateRowMoves, StepType DEF CreateRow, Calling, Pcs
    <2>a. req[r].session \in Sessions /\ req[r].engine \in Engines
      BY <1>12, WhoCalls DEF CreateRow, Calling
    <2>b. /\ RowsOfOthers(req[r].session) /\ row'[req[r].session].engine = req[r].engine
      BY <1>12, <2>a, InsertDoes DEF CreateRow
    <2>2. RowsOk'
      BY <2>a, <2>b, TenantSessionsAssumption DEF TypeOK, RowsOfOthers, RowsOk
    <2>3. events' \in Seq(Event)
      BY <1>12 DEF CreateRow, TypeOK
    <2>4. /\ registry' \in [Engines -> {Gone} \cup 0 .. Cap]
          /\ mapping' \in [Sessions -> Engines \cup {None}]
      BY <1>12, WhoCalls, TenantSessionsAssumption DEF CreateRow, TypeOK, redis, Calling,
         TaskOk, Tasks
    <2>5. up' \subseteq Engines /\ hosted' \in [Sessions -> {"no", "linking", "linked"}]
      BY <1>12, WhoCalls DEF CreateRow, TypeOK, Calling
    <2>6. SetsOk'
      BY <1>12, WhoCalls DEF CreateRow, SetsOk, TypeOK, history, Calling
    <2> QED  BY <2>1, <2>2, <2>3, <2>4, <2>5, <2>6 DEF TypeOK, ReqOk, RowsOk, SetsOk
  <1>13. ASSUME NEW r \in Requests, CreatePost(r)
        PROVE  TypeOK'
    <2>1. ReqOk'
      BY <1>13, CreatePostMoves, StepType DEF CreatePost, Calling, Pcs
    <2>2. RowsOk'
      BY <1>13 DEF CreatePost, TypeOK, RowsOk
    <2>3. events' \in Seq(Event)
      BY <1>13 DEF CreatePost, TypeOK
    <2>4. /\ registry' \in [Engines -> {Gone} \cup 0 .. Cap]
          /\ mapping' \in [Sessions -> Engines \cup {None}]
      BY <1>13, WhoCalls, TenantSessionsAssumption DEF CreatePost, TypeOK, redis, Calling,
         TaskOk, Tasks
    <2>5. up' \subseteq Engines /\ hosted' \in [Sessions -> {"no", "linking", "linked"}]
      BY <1>13, WhoCalls DEF CreatePost, TypeOK, Calling
    <2>6. SetsOk'
      BY <1>13, WhoCalls DEF CreatePost, SetsOk, TypeOK, history, Calling
    <2> QED  BY <2>1, <2>2, <2>3, <2>4, <2>5, <2>6 DEF TypeOK, ReqOk, RowsOk, SetsOk
  <1>14. ASSUME NEW r \in Requests, CreateFails(r)
        PROVE  TypeOK'
    <2>1. ReqOk'
      BY <1>14, CreateFailsMoves, StepType DEF CreateFails, Calling, Pcs
    <2>2. RowsOk'
      BY <1>14 DEF CreateFails, TypeOK, RowsOk
    <2>3. events' \in Seq(Event)
      BY <1>14 DEF CreateFails, TypeOK
    <2>4. /\ registry' \in [Engines -> {Gone} \cup 0 .. Cap]
          /\ mapping' \in [Sessions -> Engines \cup {None}]
      BY <1>14, WhoCalls, TenantSessionsAssumption DEF CreateFails, TypeOK, redis, Calling,
         TaskOk, Tasks
    <2>5. up' \subseteq Engines /\ hosted' \in [Sessions -> {"no", "linking", "linked"}]
      BY <1>14, WhoCalls DEF CreateFails, TypeOK, Calling
    <2>6. SetsOk'
      BY <1>14, WhoCalls DEF CreateFails, SetsOk, TypeOK, history, Calling, Fault
    <2> QED  BY <2>1, <2>2, <2>3, <2>4, <2>5, <2>6 DEF TypeOK, ReqOk, RowsOk, SetsOk
  <1>15. ASSUME NEW r \in Requests, CreateRollback(r)
        PROVE  TypeOK'
    <2>1. ReqOk'
      BY <1>15, CreateRollbackMoves, EndType DEF CreateRollback, Calling, Pcs
    <2>a. req[r].session \in Sessions /\ req[r].engine \in Engines
      BY <1>15, WhoCalls DEF CreateRollback, Calling
    <2>2. RowsOk'
      BY <1>15, <2>a, DeletedDoes, OneRow DEF CreateRollback
    <2>3. events' \in Seq(Event)
      BY <1>15 DEF CreateRollback, TypeOK
    <2>4. /\ registry' \in [Engines -> {Gone} \cup 0 .. Cap]
          /\ mapping' \in [Sessions -> Engines \cup {None}]
      BY <1>15, WhoCalls, TenantSessionsAssumption DEF CreateRollback, TypeOK, redis, Calling,
         TaskOk, Tasks
    <2>5. up' \subseteq Engines /\ hosted' \in [Sessions -> {"no", "linking", "linked"}]
      BY <1>15, WhoCalls DEF CreateRollback, TypeOK, Calling
    <2>6. SetsOk'
      BY <1>15, WhoCalls DEF CreateRollback, SetsOk, TypeOK, history, Calling
    <2> QED  BY <2>1, <2>2, <2>3, <2>4, <2>5, <2>6 DEF TypeOK, ReqOk, RowsOk, SetsOk
  <1>16. ASSUME NEW r \in Requests, CreateSaveId(r)
        PROVE  TypeOK'
    <2>1. ReqOk'
      BY <1>16, CreateSaveIdMoves, StepType, EndType DEF CreateSaveId, Calling, Pcs
    <2>a. req[r].session \in Sessions /\ req[r].engine \in Engines
      BY <1>16, WhoCalls DEF CreateSaveId, Calling
    <2>2. RowsOk'
      BY <1>16, <2>a, KnownDoes, OneRow DEF CreateSaveId, RowsOk, TypeOK
    <2>3. events' \in Seq(Event)
      BY <1>16 DEF CreateSaveId, TypeOK
    <2>4. /\ registry' \in [Engines -> {Gone} \cup 0 .. Cap]
          /\ mapping' \in [Sessions -> Engines \cup {None}]
      BY <1>16, WhoCalls, TenantSessionsAssumption DEF CreateSaveId, TypeOK, redis, Calling,
         TaskOk, Tasks
    <2>5. up' \subseteq Engines /\ hosted' \in [Sessions -> {"no", "linking", "linked"}]
      BY <1>16, WhoCalls DEF CreateSaveId, TypeOK, Calling
    <2>6. SetsOk'
      BY <1>16, WhoCalls DEF CreateSaveId, SetsOk, TypeOK, history, Calling
    <2> QED  BY <2>1, <2>2, <2>3, <2>4, <2>5, <2>6 DEF TypeOK, ReqOk, RowsOk, SetsOk
  <1>17. ASSUME NEW r \in Requests, CreateMap(r)
        PROVE  TypeOK'
    <2>1. ReqOk'
      BY <1>17, CreateMapMoves, StepType DEF CreateMap, Calling, Pcs
    <2>2. RowsOk'
      BY <1>17 DEF CreateMap, TypeOK, RowsOk
    <2>3. events' \in Seq(Event)
      BY <1>17 DEF CreateMap, TypeOK
    <2>4. /\ registry' \in [Engines -> {Gone} \cup 0 .. Cap]
          /\ mapping' \in [Sessions -> Engines \cup {None}]
      BY <1>17, WhoCalls, TenantSessionsAssumption DEF CreateMap, TypeOK, redis, Calling,
         TaskOk, Tasks
    <2>5. up' \subseteq Engines /\ hosted' \in [Sessions -> {"no", "linking", "linked"}]
      BY <1>17, WhoCalls DEF CreateMap, TypeOK, Calling
    <2>6. SetsOk'
      BY <1>17, WhoCalls DEF CreateMap, SetsOk, TypeOK, history, Calling
    <2> QED  BY <2>1, <2>2, <2>3, <2>4, <2>5, <2>6 DEF TypeOK, ReqOk, RowsOk, SetsOk
  <1>18. ASSUME NEW r \in Requests, ReconnectPost(r)
        PROVE  TypeOK'
    <2>1. ReqOk'
      BY <1>18, ReconnectPostMoves, StepType, EndType DEF ReconnectPost, Calling, Pcs
    <2>2. RowsOk'
      BY <1>18 DEF ReconnectPost, TypeOK, RowsOk
    <2>3. events' \in Seq(Event)
      BY <1>18 DEF ReconnectPost, TypeOK
    <2>4. /\ registry' \in [Engines -> {Gone} \cup 0 .. Cap]
          /\ mapping' \in [Sessions -> Engines \cup {None}]
      BY <1>18, WhoCalls, TenantSessionsAssumption DEF ReconnectPost, TypeOK, redis, Calling,
         TaskOk, Tasks
    <2>5. up' \subseteq Engines /\ hosted' \in [Sessions -> {"no", "linking", "linked"}]
      BY <1>18, WhoCalls DEF ReconnectPost, TypeOK, Calling
    <2>6. SetsOk'
      BY <1>18, WhoCalls DEF ReconnectPost, SetsOk, TypeOK, history, Calling
    <2> QED  BY <2>1, <2>2, <2>3, <2>4, <2>5, <2>6 DEF TypeOK, ReqOk, RowsOk, SetsOk
  <1>19. ASSUME NEW r \in Requests, ReconnectWrite(r)
        PROVE  TypeOK'
    <2>1. ReqOk'
      BY <1>19, ReconnectWriteMoves, EndType DEF ReconnectWrite, Calling, Pcs
    <2>a. req[r].session \in Sessions /\ req[r].engine \in Engines
      BY <1>19, WhoCalls DEF ReconnectWrite, Calling
    <2>2. RowsOk'
      BY <1>19, <2>a, StatusDoes, OneRow DEF ReconnectWrite, RowsOk, TypeOK, Statuses
    <2>3. events' \in Seq(Event)
      BY <1>19 DEF ReconnectWrite, TypeOK
    <2>4. /\ registry' \in [Engines -> {Gone} \cup 0 .. Cap]
          /\ mapping' \in [Sessions -> Engines \cup {None}]
      BY <1>19, WhoCalls, TenantSessionsAssumption DEF ReconnectWrite, TypeOK, redis, Calling,
         TaskOk, Tasks
    <2>5. up' \subseteq Engines /\ hosted' \in [Sessions -> {"no", "linking", "linked"}]
      BY <1>19, WhoCalls DEF ReconnectWrite, TypeOK, Calling
    <2>6. SetsOk'
      BY <1>19, WhoCalls DEF ReconnectWrite, SetsOk, TypeOK, history, Calling, Statuses
    <2> QED  BY <2>1, <2>2, <2>3, <2>4, <2>5, <2>6 DEF TypeOK, ReqOk, RowsOk, SetsOk
  <1>20. ASSUME NEW r \in Requests, DeleteEngine(r)
        PROVE  TypeOK'
    <2>1. ReqOk'
      BY <1>20, DeleteEngineMoves, StepType DEF DeleteEngine, Calling, Pcs
    <2>2. RowsOk'
      BY <1>20 DEF DeleteEngine, TypeOK, RowsOk
    <2>3. events' \in Seq(Event)
      BY <1>20 DEF DeleteEngine, TypeOK
    <2>4. /\ registry' \in [Engines -> {Gone} \cup 0 .. Cap]
          /\ mapping' \in [Sessions -> Engines \cup {None}]
      BY <1>20, WhoCalls, TenantSessionsAssumption DEF DeleteEngine, TypeOK, redis, Calling,
         TaskOk, Tasks
    <2>5. up' \subseteq Engines /\ hosted' \in [Sessions -> {"no", "linking", "linked"}]
      BY <1>20, WhoCalls DEF DeleteEngine, TypeOK, Calling
    <2>6. SetsOk'
      BY <1>20, WhoCalls DEF DeleteEngine, SetsOk, TypeOK, history, Calling, Fault
    <2> QED  BY <2>1, <2>2, <2>3, <2>4, <2>5, <2>6 DEF TypeOK, ReqOk, RowsOk, SetsOk
  <1>21. ASSUME NEW r \in Requests, Release(r)
        PROVE  TypeOK'
    <2>1. ReqOk'
      BY <1>21, ReleaseMoves, WhoCalls, StepType, OneTask DEF Release, Calling, TaskOk, TypeOK
    <2>2. RowsOk'
      BY <1>21 DEF Release, TypeOK, RowsOk
    <2>3. events' \in Seq(Event)
      BY <1>21 DEF Release, TypeOK
    <2>4. /\ registry' \in [Engines -> {Gone} \cup 0 .. Cap]
          /\ mapping' \in [Sessions -> Engines \cup {None}]
      BY <1>21, WhoCalls, TenantSessionsAssumption DEF Release, TypeOK, redis, Calling, TaskOk,
         Tasks
    <2>5. up' \subseteq Engines /\ hosted' \in [Sessions -> {"no", "linking", "linked"}]
      BY <1>21, WhoCalls DEF Release, TypeOK, Calling
    <2>6. SetsOk'
      BY <1>21, WhoCalls DEF Release, SetsOk, TypeOK, history, Calling
    <2> QED  BY <2>1, <2>2, <2>3, <2>4, <2>5, <2>6 DEF TypeOK, ReqOk, RowsOk, SetsOk
  <1>22. ASSUME NEW r \in Requests, Unmap(r)
        PROVE  TypeOK'
    <2>1. ReqOk'
      BY <1>22, UnmapMoves, StepType DEF Unmap, Calling, Pcs
    <2>2. RowsOk'
      BY <1>22 DEF Unmap, TypeOK, RowsOk
    <2>3. events' \in Seq(Event)
      BY <1>22 DEF Unmap, TypeOK
    <2>4. /\ registry' \in [Engines -> {Gone} \cup 0 .. Cap]
          /\ mapping' \in [Sessions -> Engines \cup {None}]
      BY <1>22, WhoCalls, TenantSessionsAssumption DEF Unmap, TypeOK, redis, Calling, TaskOk,
         Tasks
    <2>5. up' \subseteq Engines /\ hosted' \in [Sessions -> {"no", "linking", "linked"}]
      BY <1>22, WhoCalls DEF Unmap, TypeOK, Calling
    <2>6. SetsOk'
      BY <1>22, WhoCalls DEF Unmap, SetsOk, TypeOK, history, Calling
    <2> QED  BY <2>1, <2>2, <2>3, <2>4, <2>5, <2>6 DEF TypeOK, ReqOk, RowsOk, SetsOk
  <1>23. ASSUME NEW r \in Requests, DeleteRow(r)
        PROVE  TypeOK'
    <2>1. ReqOk'
      BY <1>23, DeleteRowMoves, EndType DEF DeleteRow, Calling, Pcs
    <2>a. req[r].session \in Sessions /\ req[r].engine \in Engines
      BY <1>23, WhoCalls DEF DeleteRow, Calling
    <2>2. RowsOk'
      BY <1>23, <2>a, DeletedDoes, OneRow DEF DeleteRow
    <2>3. events' \in Seq(Event)
      BY <1>23 DEF DeleteRow, TypeOK
    <2>4. /\ registry' \in [Engines -> {Gone} \cup 0 .. Cap]
          /\ mapping' \in [Sessions -> Engines \cup {None}]
      BY <1>23, WhoCalls, TenantSessionsAssumption DEF DeleteRow, TypeOK, redis, Calling,
         TaskOk, Tasks
    <2>5. up' \subseteq Engines /\ hosted' \in [Sessions -> {"no", "linking", "linked"}]
      BY <1>23, WhoCalls DEF DeleteRow, TypeOK, Calling
    <2>6. SetsOk'
      BY <1>23, WhoCalls DEF DeleteRow, SetsOk, TypeOK, history, Calling
    <2> QED  BY <2>1, <2>2, <2>3, <2>4, <2>5, <2>6 DEF TypeOK, ReqOk, RowsOk, SetsOk
  <1>24. ASSUME NEW r \in Requests, RequestLost(r)
        PROVE  TypeOK'
    <2>1. ReqOk'
      BY <1>24, RequestLostMoves, EndType DEF RequestLost, Calling, Pcs
    <2>2. RowsOk'
      BY <1>24 DEF RequestLost, TypeOK, RowsOk
    <2>3. events' \in Seq(Event)
      BY <1>24 DEF RequestLost, TypeOK
    <2>4. /\ registry' \in [Engines -> {Gone} \cup 0 .. Cap]
          /\ mapping' \in [Sessions -> Engines \cup {None}]
      BY <1>24, WhoCalls, TenantSessionsAssumption DEF RequestLost, TypeOK, redis, Calling,
         TaskOk, Tasks
    <2>5. up' \subseteq Engines /\ hosted' \in [Sessions -> {"no", "linking", "linked"}]
      BY <1>24, WhoCalls DEF RequestLost, TypeOK, Calling
    <2>6. SetsOk'
      BY <1>24, WhoCalls DEF RequestLost, SetsOk, TypeOK, history, Calling, Tasks
    <2> QED  BY <2>1, <2>2, <2>3, <2>4, <2>5, <2>6 DEF TypeOK, ReqOk, RowsOk, SetsOk
  <1>25. ASSUME NEW s \in Sessions, EngineConnects(s)
        PROVE  TypeOK'
    <2>1. ReqOk'
      BY <1>25 DEF EngineConnects, ReqOk, TypeOK
    <2>2. RowsOk'
      BY <1>25 DEF EngineConnects, TypeOK, RowsOk
    <2>3. events' \in Seq(Event)
      BY <1>25, EventsDo DEF EngineConnects, Post
    <2>4. /\ registry' \in [Engines -> {Gone} \cup 0 .. Cap]
          /\ mapping' \in [Sessions -> Engines \cup {None}]
      BY <1>25, WhoCalls, TenantSessionsAssumption DEF EngineConnects, TypeOK, redis, Calling,
         TaskOk, Tasks
    <2>5. up' \subseteq Engines /\ hosted' \in [Sessions -> {"no", "linking", "linked"}]
      BY <1>25, WhoCalls DEF EngineConnects, TypeOK, Calling
    <2>6. SetsOk'
      BY <1>25, WhoCalls DEF EngineConnects, SetsOk, TypeOK, history, Calling, Post
    <2> QED  BY <2>1, <2>2, <2>3, <2>4, <2>5, <2>6 DEF TypeOK, ReqOk, RowsOk, SetsOk
  <1>26. ASSUME NEW s \in Sessions, EngineDisconnects(s)
        PROVE  TypeOK'
    <2>1. ReqOk'
      BY <1>26 DEF EngineDisconnects, ReqOk, TypeOK
    <2>2. RowsOk'
      BY <1>26 DEF EngineDisconnects, TypeOK, RowsOk
    <2>3. events' \in Seq(Event)
      BY <1>26, EventsDo DEF EngineDisconnects, Post
    <2>4. /\ registry' \in [Engines -> {Gone} \cup 0 .. Cap]
          /\ mapping' \in [Sessions -> Engines \cup {None}]
      BY <1>26, WhoCalls, TenantSessionsAssumption DEF EngineDisconnects, TypeOK, redis,
         Calling, TaskOk, Tasks
    <2>5. up' \subseteq Engines /\ hosted' \in [Sessions -> {"no", "linking", "linked"}]
      BY <1>26, WhoCalls DEF EngineDisconnects, TypeOK, Calling
    <2>6. SetsOk'
      BY <1>26, WhoCalls DEF EngineDisconnects, SetsOk, TypeOK, history, Calling, Post
    <2> QED  BY <2>1, <2>2, <2>3, <2>4, <2>5, <2>6 DEF TypeOK, ReqOk, RowsOk, SetsOk
  <1>27. ASSUME NEW s \in Sessions, MappingExpires(s)
        PROVE  TypeOK'
    <2>1. ReqOk'
      BY <1>27 DEF MappingExpires, ReqOk, TypeOK
    <2>2. RowsOk'
      BY <1>27 DEF MappingExpires, TypeOK, RowsOk
    <2>3. events' \in Seq(Event)
      BY <1>27 DEF MappingExpires, TypeOK
    <2>4. /\ registry' \in [Engines -> {Gone} \cup 0 .. Cap]
          /\ mapping' \in [Sessions -> Engines \cup {None}]
      BY <1>27, WhoCalls, TenantSessionsAssumption DEF MappingExpires, TypeOK, redis, Calling,
         TaskOk, Tasks
    <2>5. up' \subseteq Engines /\ hosted' \in [Sessions -> {"no", "linking", "linked"}]
      BY <1>27, WhoCalls DEF MappingExpires, TypeOK, Calling
    <2>6. SetsOk'
      BY <1>27, WhoCalls DEF MappingExpires, SetsOk, TypeOK, history, Calling
    <2> QED  BY <2>1, <2>2, <2>3, <2>4, <2>5, <2>6 DEF TypeOK, ReqOk, RowsOk, SetsOk
  <1>28. ASSUME NEW g \in Engines, EngineCrashes(g)
        PROVE  TypeOK'
    <2>1. ReqOk'
      BY <1>28 DEF EngineCrashes, ReqOk, TypeOK
    <2>2. RowsOk'
      BY <1>28 DEF EngineCrashes, TypeOK, RowsOk
    <2>3. events' \in Seq(Event)
      BY <1>28 DEF EngineCrashes, TypeOK
    <2>4. /\ registry' \in [Engines -> {Gone} \cup 0 .. Cap]
          /\ mapping' \in [Sessions -> Engines \cup {None}]
      BY <1>28, WhoCalls, TenantSessionsAssumption DEF EngineCrashes, TypeOK, redis, Calling,
         TaskOk, Tasks
    <2>5. up' \subseteq Engines /\ hosted' \in [Sessions -> {"no", "linking", "linked"}]
      BY <1>28, WhoCalls DEF EngineCrashes, TypeOK, Calling, Hosts
    <2>6. SetsOk'
      BY <1>28, WhoCalls DEF EngineCrashes, SetsOk, TypeOK, history, Calling, Hosts
    <2> QED  BY <2>1, <2>2, <2>3, <2>4, <2>5, <2>6 DEF TypeOK, ReqOk, RowsOk, SetsOk
  <1>29. ASSUME NEW g \in Engines, KeyGone(g)
        PROVE  TypeOK'
    <2>1. ReqOk'
      BY <1>29 DEF KeyGone, ReqOk, TypeOK
    <2>2. RowsOk'
      BY <1>29 DEF KeyGone, TypeOK, RowsOk
    <2>3. events' \in Seq(Event)
      BY <1>29 DEF KeyGone, TypeOK
    <2>4. /\ registry' \in [Engines -> {Gone} \cup 0 .. Cap]
          /\ mapping' \in [Sessions -> Engines \cup {None}]
      BY <1>29, WhoCalls, TenantSessionsAssumption DEF KeyGone, TypeOK, redis, Calling, TaskOk,
         Tasks
    <2>5. up' \subseteq Engines /\ hosted' \in [Sessions -> {"no", "linking", "linked"}]
      BY <1>29, WhoCalls DEF KeyGone, TypeOK, Calling
    <2>6. SetsOk'
      BY <1>29, WhoCalls DEF KeyGone, SetsOk, TypeOK, history, Calling
    <2> QED  BY <2>1, <2>2, <2>3, <2>4, <2>5, <2>6 DEF TypeOK, ReqOk, RowsOk, SetsOk
  <1>30. ASSUME NEW i \in DOMAIN events, HandleSessionEvent(i)
        PROVE  TypeOK'
    <2>1. ReqOk'
      BY <1>30 DEF HandleSessionEvent, ReqOk, TypeOK
    <2>2. RowsOk'
      BY <1>30, EventType, StatusDoes, OneRow DEF HandleSessionEvent, RowsOk, TypeOK
    <2>3. events' \in Seq(Event)
      BY <1>30, EventsDo DEF HandleSessionEvent
    <2>4. /\ registry' \in [Engines -> {Gone} \cup 0 .. Cap]
          /\ mapping' \in [Sessions -> Engines \cup {None}]
      BY <1>30, WhoCalls, TenantSessionsAssumption DEF HandleSessionEvent, TypeOK, redis,
         Calling, TaskOk, Tasks
    <2>5. up' \subseteq Engines /\ hosted' \in [Sessions -> {"no", "linking", "linked"}]
      BY <1>30, WhoCalls DEF HandleSessionEvent, TypeOK, Calling
    <2>6. SetsOk'
      BY <1>30, EventType, WhoCalls DEF HandleSessionEvent, SetsOk, TypeOK, history, Calling
    <2> QED  BY <2>1, <2>2, <2>3, <2>4, <2>5, <2>6 DEF TypeOK, ReqOk, RowsOk, SetsOk
  <1>31. ASSUME NEW i \in DOMAIN events, EventFails(i)
        PROVE  TypeOK'
    <2>1. ReqOk'
      BY <1>31 DEF EventFails, ReqOk, TypeOK
    <2>2. RowsOk'
      BY <1>31 DEF EventFails, TypeOK, RowsOk
    <2>3. events' \in Seq(Event)
      BY <1>31, EventsDo DEF EventFails
    <2>4. /\ registry' \in [Engines -> {Gone} \cup 0 .. Cap]
          /\ mapping' \in [Sessions -> Engines \cup {None}]
      BY <1>31, WhoCalls, TenantSessionsAssumption DEF EventFails, TypeOK, redis, Calling,
         TaskOk, Tasks
    <2>5. up' \subseteq Engines /\ hosted' \in [Sessions -> {"no", "linking", "linked"}]
      BY <1>31, WhoCalls DEF EventFails, TypeOK, Calling
    <2>6. SetsOk'
      BY <1>31, EventType, WhoCalls DEF EventFails, SetsOk, TypeOK, history, Calling
    <2> QED  BY <2>1, <2>2, <2>3, <2>4, <2>5, <2>6 DEF TypeOK, ReqOk, RowsOk, SetsOk
  <1>32. CASE UNCHANGED vars
    BY <1>32 DEF vars, redis, counters, history, TypeOK
  <1> QED  BY <1>1, <1>2, <1>3, <1>4, <1>5, <1>6, <1>7, <1>8, <1>9, <1>10, <1>11, <1>12, <1>13,
  <1>14, <1>15, <1>16, <1>17, <1>18, <1>19, <1>20, <1>21, <1>22, <1>23, <1>24, <1>25, <1>26,
  <1>27, <1>28, <1>29, <1>30, <1>31, <1>32 DEF Next, Ask, GoOn

-----------------------------------------------------------------------------
(***************************************************************************)
(* What adding, taking and delaying an event does to what a session's      *)
(* events say.                                                             *)
(***************************************************************************)
LEMMA AppendDoes ==
  ASSUME TypeOK, NEW e \in Event, events' = Append(events, e), e.delayed = FALSE
  PROVE  /\ Pending(e.session)' /\ (Delayed(e.session)' <=> Delayed(e.session))
         /\ \A k : Says(e.session, k)' <=> k = e.kind
         /\ \A x \in Sessions \ {e.session} :
              /\ Pending(x)' <=> Pending(x)
              /\ Delayed(x)' <=> Delayed(x)
              /\ \A k : Says(x, k)' <=> Says(x, k)
  <1> DEFINE n == Len(events)
  <1>1. /\ n \in Nat /\ DOMAIN events = 1 .. n /\ DOMAIN events' = 1 .. (n + 1)
        /\ \A j \in 1 .. n : events'[j] = events[j]
        /\ events'[n + 1] = e
    BY DEF TypeOK
  <1> HIDE DEF n
  <1>2. Pending(e.session)' /\ (Delayed(e.session)' <=> Delayed(e.session))
    BY <1>1 DEF Pending, Delayed
  <1>3. ASSUME NEW k PROVE Says(e.session, k)' <=> k = e.kind
    BY <1>1 DEF Says
  <1>4. ASSUME NEW x \in Sessions \ {e.session}
        PROVE  (Pending(x)' <=> Pending(x)) /\ (Delayed(x)' <=> Delayed(x))
    BY <1>1 DEF Pending, Delayed
  <1>5. ASSUME NEW x \in Sessions \ {e.session}, NEW k PROVE Says(x, k)' <=> Says(x, k)
    BY <1>1 DEF Says
  <1> QED  BY <1>2, <1>3, <1>4, <1>5

LEMMA WithoutDoes ==
  ASSUME TypeOK, NEW i \in DOMAIN events, events' = Without(i)
  PROVE  /\ \A x \in Sessions \ {events[i].session} :
              /\ Pending(x)' <=> Pending(x)
              /\ Delayed(x)' <=> Delayed(x)
              /\ \A k : Says(x, k)' <=> Says(x, k)
         /\ \A x : Pending(x)' => Pending(x)
         /\ \A x : Delayed(x)' => Delayed(x)
         /\ \A s : s = events[i].session =>
              /\ ~Pending(s)' => Says(s, events[i].kind)
              /\ Taken(i) /\ ~Delayed(s) => \A k : Says(s, k)' => Says(s, k)
  <1>s. PICK s : s = events[i].session
    OBVIOUS
  <1> DEFINE n == Len(events)
  <1>1. /\ n \in Nat /\ i \in 1 .. n /\ DOMAIN events = 1 .. n /\ DOMAIN events' = 1 .. (n - 1)
        /\ \A j \in 1 .. (i - 1) : events'[j] = events[j]
        /\ \A j \in i .. (n - 1) : events'[j] = events[j + 1]
    <2> DEFINE a == SubSeq(events, 1, i - 1)
               b == SubSeq(events, i + 1, n)
    <2>1. events \in Seq(Event) /\ n \in Nat /\ i \in 1 .. n /\ DOMAIN events = 1 .. n
      BY DEF TypeOK
    <2>2. /\ a \in Seq(Event) /\ Len(a) = i - 1 /\ \A j \in 1 .. (i - 1) : a[j] = events[j]
          /\ b \in Seq(Event) /\ Len(b) = n - i /\ \A j \in 1 .. (n - i) : b[j] = events[j + i]
      BY SMTT(60), <2>1
    <2>3. events' = a \o b
      BY DEF Without
    <2> HIDE DEF a, b, n
    <2>4. DOMAIN events' = 1 .. (n - 1)
      BY <2>1, <2>2, <2>3
    <2>7. ASSUME NEW j \in 1 .. (i - 1) PROVE events'[j] = a[j]
      BY <2>1, <2>2, <2>3
    <2>5. ASSUME NEW j \in i .. (n - 1)
          PROVE  events'[j] = b[j - (i - 1)] /\ j - (i - 1) \in 1 .. (n - i)
      BY <2>1, <2>2, <2>3
    <2>6. ASSUME NEW j \in i .. (n - 1) PROVE events'[j] = events[j + 1]
      <3>1. (j - (i - 1)) + i = j + 1
        BY <2>1
      <3> QED  BY <2>2, <2>5, <3>1
    <2> QED  BY <2>1, <2>2, <2>4, <2>6, <2>7
  <1>d. n \in Nat /\ i \in 1 .. n /\ DOMAIN events = 1 .. n /\ DOMAIN events' = 1 .. (n - 1)
    BY <1>1
  <1> HIDE DEF n
  <1>2. \A j \in 1 .. n : j # i => \E m \in 1 .. (n - 1) : events'[m] = events[j]
    <2> SUFFICES ASSUME NEW j \in 1 .. n, j # i
                 PROVE  \E m \in 1 .. (n - 1) : events'[m] = events[j]
      OBVIOUS
    <2>1. CASE j < i
      <3>1. j \in 1 .. (i - 1) /\ j \in 1 .. (n - 1)
        BY <1>1, <2>1
      <3> QED  BY <1>1, <3>1
    <2>2. CASE j > i
      <3>1. j - 1 \in i .. (n - 1) /\ j - 1 \in 1 .. (n - 1) /\ (j - 1) + 1 = j
        BY <1>1, <2>2
      <3> QED  BY <1>1, <3>1
    <2> QED  BY <1>1, <2>1, <2>2
  <1>3. \A m \in 1 .. (n - 1) : \E j \in 1 .. n : j # i /\ events'[m] = events[j]
    <2> SUFFICES ASSUME NEW m \in 1 .. (n - 1)
                 PROVE  \E j \in 1 .. n : j # i /\ events'[m] = events[j]
      OBVIOUS
    <2>1. CASE m < i
      BY <1>1, <2>1
    <2>2. CASE ~(m < i)
      BY <1>1, <2>2
    <2> QED  BY <2>1, <2>2
  <1>4. \A x : (Pending(x)' => Pending(x)) /\ (Delayed(x)' => Delayed(x))
    BY <1>d, <1>s, <1>3 DEF Pending, Delayed
  <1>5. ASSUME NEW x, x # s
        PROVE  (Pending(x)' <=> Pending(x)) /\ (Delayed(x)' <=> Delayed(x))
    <2>1. ASSUME NEW j \in 1 .. n, events[j].session = x
          PROVE  \E m \in 1 .. (n - 1) : events'[m] = events[j]
      BY <1>s, <1>2, <1>5, <2>1
    <2>2. Pending(x) => Pending(x)'
      BY <1>d, <2>1 DEF Pending
    <2>3. Delayed(x) => Delayed(x)'
      BY <1>d, <2>1 DEF Delayed
    <2> QED  BY <1>4, <2>2, <2>3
  \* Says after the step, by the place the event had before.
  <1>6. ASSUME NEW x, NEW k
        PROVE  Says(x, k)' <=> \E j \in 1 .. n : /\ j # i /\ events[j].session = x /\ events[j].kind = k
                                               /\ \A q \in 1 .. n : q > j /\ q # i => events[q].session # x
    <2> DEFINE Last(j) == /\ j # i /\ events[j].session = x /\ events[j].kind = k
                          /\ \A q \in 1 .. n : q > j /\ q # i => events[q].session # x
    <2>1. ASSUME NEW m \in 1 .. (n - 1), events'[m].session = x, events'[m].kind = k,
                 \A q \in 1 .. (n - 1) : q > m => events'[q].session # x
          PROVE  \E j \in 1 .. n : Last(j)
      <3> DEFINE j == IF m < i THEN m ELSE m + 1
      <3>1. j \in 1 .. n /\ j # i /\ events[j] = events'[m]
        BY <1>1
      <3>2. ASSUME NEW q \in 1 .. n, q > j, q # i PROVE events[q].session # x
        <4> DEFINE p == IF q < i THEN q ELSE q - 1
        <4>1. p \in 1 .. (n - 1) /\ p > m /\ events'[p] = events[q]
          BY <1>1, <3>2
        <4> QED  BY <2>1, <4>1
      <3> QED  BY <2>1, <3>1, <3>2
    <2>2. ASSUME NEW j \in 1 .. n, Last(j)
          PROVE  \E m \in 1 .. (n - 1) : /\ events'[m].session = x /\ events'[m].kind = k
                                         /\ \A q \in 1 .. (n - 1) : q > m => events'[q].session # x
      <3> DEFINE m == IF j < i THEN j ELSE j - 1
      <3>1. m \in 1 .. (n - 1) /\ events'[m] = events[j]
        BY <1>1, <2>2
      <3>2. ASSUME NEW q \in 1 .. (n - 1), q > m PROVE events'[q].session # x
        <4> DEFINE p == IF q < i THEN q ELSE q + 1
        <4>1. p \in 1 .. n /\ p > j /\ p # i
          BY <1>1, <2>2, <3>2
        <4>2. events'[q] = events[p]
          BY <1>1, <3>2
        <4> QED  BY <2>2, <4>1, <4>2
      <3> QED  BY <2>2, <3>1, <3>2
    <2> QED  BY <1>1, <2>1, <2>2 DEF Says
  <1>7. ASSUME NEW x, x # s, NEW k
        PROVE  Says(x, k)' <=> Says(x, k)
    <2>1. \A j \in 1 .. n : events[j].session = x => j # i
      BY <1>s, <1>7
    <2>2. \A j \in 1 .. n : (\A q \in 1 .. n : q > j /\ q # i => events[q].session # x)
                           <=> (\A q \in 1 .. n : q > j => events[q].session # x)
      BY <2>1
    <2>3. Says(x, k) <=> \E j \in 1 .. n : /\ events[j].session = x /\ events[j].kind = k
                                          /\ \A q \in 1 .. n : q > j => events[q].session # x
      BY <1>d DEF Says
    <2>4. Says(x, k)' <=> \E j \in 1 .. n : /\ events[j].session = x /\ events[j].kind = k
                                           /\ \A q \in 1 .. n : q > j => events[q].session # x
      BY <1>6, <2>1, <2>2
    <2> QED  BY <2>3, <2>4
  <1>8. ~Pending(s)' => Says(s, events[i].kind)
    <2> SUFFICES ASSUME ~Pending(s)' PROVE Says(s, events[i].kind)
      OBVIOUS
    <2>1. \A j \in 1 .. n : j # i => events[j].session # s
      BY <1>d, <1>s, <1>2 DEF Pending
    <2> QED  BY <1>d, <1>s, <2>1 DEF Says
  <1>9. ASSUME Taken(i), ~Delayed(s), NEW k, Says(s, k)'
        PROVE  Says(s, k)
    <2>1. PICK j \in 1 .. n : /\ j # i /\ events[j].session = s /\ events[j].kind = k
                              /\ \A q \in 1 .. n : q > j /\ q # i => events[q].session # s
      BY <1>d, <1>6, <1>9
    <2>2. ~events[j].delayed /\ ~events[i].delayed
      BY <1>d, <1>s, <1>9, <2>1 DEF Delayed
    <2>3. j > i
      BY <1>d, <1>s, <1>9, <2>1, <2>2 DEF Taken
    <2> QED  BY <1>d, <1>s, <2>1, <2>3 DEF Says
  <1> QED  BY <1>s, <1>4, <1>5, <1>7, <1>8, <1>9

LEMMA DelayDoes ==
  ASSUME TypeOK, NEW i \in DOMAIN events, events' = [events EXCEPT ![i].delayed = TRUE]
  PROVE  /\ \A x : Pending(x)' <=> Pending(x)
         /\ \A x \in Sessions \ {events[i].session} :
              /\ Delayed(x)' <=> Delayed(x)
              /\ \A k : Says(x, k)' <=> Says(x, k)
  <1>1. PICK u : u = [events[i] EXCEPT !.delayed = TRUE] /\ events' = [events EXCEPT ![i] = u]
    OBVIOUS
  <1>2. ASSUME NEW e \in Event
        PROVE  LET d == [e EXCEPT !.delayed = TRUE] IN d.session = e.session /\ d.kind = e.kind
    BY DEF Event
  <1>3. events[i] \in Event
    BY DEF TypeOK
  <1>4. u.session = events[i].session /\ u.kind = events[i].kind
    BY <1>1, <1>2, <1>3
  <1>5. /\ DOMAIN events' = DOMAIN events
        /\ \A j \in DOMAIN events : events'[j] = IF j = i THEN u ELSE events[j]
    BY <1>1 DEF TypeOK
  <1>6. \A j \in DOMAIN events :
          /\ events'[j].session = events[j].session /\ events'[j].kind = events[j].kind
          /\ events[j].session # events[i].session => events'[j].delayed = events[j].delayed
    BY <1>4, <1>5
  <1>7. \A x : Pending(x)' <=> Pending(x)
    BY <1>5, <1>6 DEF Pending
  <1>8. ASSUME NEW x \in Sessions \ {events[i].session} PROVE Delayed(x)' <=> Delayed(x)
    BY <1>5, <1>6 DEF Delayed
  <1>9. ASSUME NEW x, NEW k PROVE Says(x, k)' <=> Says(x, k)
    BY <1>5, <1>6 DEF Says
  <1> QED  BY <1>7, <1>8, <1>9

-----------------------------------------------------------------------------
(***************************************************************************)
(* SessionInv: a step keeps it for the sessions it does not touch, and one *)
(* lemma for each step that touches one.                                   *)
(***************************************************************************)
SameEvents(x) == /\ Pending(x)' <=> Pending(x)
                 /\ Delayed(x)' <=> Delayed(x)
                 /\ \A k : Says(x, k)' <=> Says(x, k)
MarksKept(x) == /\ x \in stale => x \in stale'
                /\ x \in broken => x \in broken'
                /\ x \in loose => x \in loose'
Untouched(x) ==
  /\ row'[x] = row[x] /\ mapping'[x] = mapping[x] /\ hosted'[x] = hosted[x]
  /\ row[x].engine \in up => row[x].engine \in up'
  /\ \A q \in Requests : On(q, x) \/ On(q, x)' => req'[q] = req[q]
  /\ SameEvents(x) /\ MarksKept(x)

LEMMA EventsKept ==
  ASSUME UNCHANGED events, NEW x
  PROVE  SameEvents(x)
  BY DEF SameEvents, Pending, Delayed, Says

LEMMA UntouchedKeeps ==
  ASSUME NEW x \in Sessions, SessionOk(x), Untouched(x)
  PROVE  SessionOk(x)'
  <1>1. \A q \in Requests : /\ On(q, x)' <=> On(q, x)
                            /\ On(q, x) => req'[q] = req[q]
    BY DEF Untouched
  <1>2. RowOk(x)'
    BY DEF SessionOk, RowOk, Untouched, SameEvents
  <1>3. TasksOk(x)'
    BY <1>1 DEF SessionOk, TasksOk, Untouched, SameEvents
  <1>4. WholeOk(x)'
    BY <1>1 DEF SessionOk, WholeOk, Finishing, Untouched, MarksKept
  <1>5. GhostOk(x)'
    BY <1>1 DEF SessionOk, GhostOk, Quiet, Untouched, MarksKept
  <1>6. StatusOk(x)'
    BY <1>1 DEF SessionOk, StatusOk, Overwritten, Doomed, Untouched, MarksKept, SameEvents
  <1> QED  BY <1>2, <1>3, <1>4, <1>5, <1>6 DEF SessionOk

LEMMA CreateRowKeeps ==
  ASSUME TypeOK, TypeOK', SessionInv, NEW r \in Requests, CreateRow(r)
  PROVE  SessionInv'
  <1>s. PICK s : s = req[r].session
    OBVIOUS
  <1>1. s \in Sessions /\ req[r].engine \in Engines
    BY <1>s, WhoCalls DEF CreateRow, Calling
  <1>2. /\ RowsOfOthers(s) /\ row'[s].state = "row" /\ row'[s].known = FALSE
        /\ row'[s].engine = req[r].engine /\ row'[s].status = "INITIALIZING"
    BY <1>s, <1>1, InsertDoes DEF CreateRow
  <1>3. Steps(r, "post") /\ req[r].pc = "insert"
    BY CreateRowMoves DEF CreateRow
  <1>4. UNCHANGED <<mapping, hosted, up, events, history>>
    BY DEF CreateRow, redis
  <1>5. ASSUME NEW x \in Sessions \ {s}
        PROVE  Untouched(x)
    BY <1>s, <1>2, <1>3, <1>4, <1>5, EventsKept DEF Untouched, RowsOfOthers, Steps, Others,
       MarksKept, history
  <1>6. SessionOk(s) /\ row[s] = NoRow /\ \A q \in Requests \ {r} : ~On(q, s)
    BY <1>s, <1>1, <1>3 DEF SessionInv, SessionOk, TasksOk
  <1>7. mapping[s] = None /\ hosted[s] = "no" /\ ~Pending(s)
    BY <1>6, NoRowShape DEF SessionOk, RowOk
  <1>e. ~Pending(s)' /\ ~Delayed(s)' /\ \A k : ~Says(s, k)'
    BY <1>4, <1>7 DEF Pending, Delayed, Says
  <1>q. /\ \A q \in Requests : On(q, s)' <=> q = r
        /\ req'[r].pc = "post" /\ req'[r].engine = row'[s].engine
    BY <1>s, <1>2, <1>3, <1>6 DEF Steps, Others
  <1>8. RowOk(s)'
    BY <1>1, <1>2, <1>4, <1>7 DEF RowOk
  <1>9. TasksOk(s)'
    BY <1>1, <1>2, <1>4, <1>7, <1>q, <1>e DEF TasksOk, Making, Knowing
  <1>10. WholeOk(s)'
    BY <1>q DEF WholeOk, Finishing
  <1>11. GhostOk(s)'
    BY <1>2, <1>4, <1>7, <1>q DEF GhostOk, Quiet, Dooming
  <1>12. StatusOk(s)'
    BY <1>2, <1>4, <1>7, <1>q, <1>e DEF StatusOk, Overwritten, Doomed
  <1> QED  BY <1>5, <1>8, <1>9, <1>10, <1>11, <1>12, UntouchedKeeps DEF SessionInv, SessionOk

LEMMA DecReadKeeps ==
  ASSUME TypeOK, TypeOK', SessionInv, NEW r \in Requests, DecRead(r)
  PROVE  SessionInv'
  <1>s. PICK s : s = req[r].session
    OBVIOUS
  <1>1. s \in Sessions /\ req[r].engine \in Engines
    BY <1>s, WhoCalls DEF DecRead, Calling
  <1>i. SessionOk(s)
    BY <1>1 DEF SessionInv
  <1>2. /\ Others(r) /\ req'[r].pc \in {"unmap", "decWrite"}
        /\ req'[r].session = s /\ req'[r].engine = req[r].engine
    BY <1>s, DecReadMoves DEF Steps
  <1>3. req[r].pc = "decRead"
    BY DEF DecRead
  <1>4. UNCHANGED <<row, mapping, hosted, up, events, stale, broken, loose>>
    BY DEF DecRead, redis, history
  <1>u. ASSUME NEW x \in Sessions \ {s}
        PROVE  Untouched(x)
    BY <1>s, <1>2, <1>3, <1>4, EventsKept DEF Untouched, RowsOfOthers, Others, MarksKept
  <1>e. SameEvents(s)
    BY <1>2, <1>3, <1>4, EventsKept
  <1>q. \A q \in Requests : On(q, s)' <=> On(q, s)
    BY <1>s, <1>2 DEF Others
  <1>o. \A q \in Requests \ {r} : req'[q] = req[q]
    BY <1>2 DEF Others
  <1>t. row[s].state # "none" /\ req[r].engine = row[s].engine
    BY <1>s, <1>i, <1>3 DEF SessionOk, TasksOk
  <1>k1. RowOk(s)'
    BY <1>s, <1>1, <1>i, <1>2, <1>3, <1>4, <1>e, <1>q, <1>o, <1>t DEF SessionOk, SameEvents,
       MarksKept, RowOk
  <1>k2. TasksOk(s)'
    BY <1>s, <1>1, <1>i, <1>2, <1>3, <1>4, <1>e, <1>q, <1>o, <1>t DEF SessionOk, SameEvents,
       MarksKept, TasksOk, Making, Knowing
  <1>k3. WholeOk(s)'
    BY <1>s, <1>1, <1>i, <1>2, <1>3, <1>4, <1>e, <1>q, <1>o, <1>t DEF SessionOk, SameEvents,
       MarksKept, WholeOk, Finishing
  <1>k4. GhostOk(s)'
    BY <1>s, <1>1, <1>i, <1>2, <1>3, <1>4, <1>e, <1>q, <1>o, <1>t DEF SessionOk, SameEvents,
       MarksKept, GhostOk, Quiet, Dooming
  <1>k5. StatusOk(s)'
    BY <1>s, <1>1, <1>i, <1>2, <1>3, <1>4, <1>e, <1>q, <1>o, <1>t DEF SessionOk, SameEvents,
       MarksKept, StatusOk, Overwritten, Doomed, Dooming
  <1> QED  BY <1>u, <1>k1, <1>k2, <1>k3, <1>k4, <1>k5, UntouchedKeeps DEF SessionInv, SessionOk

LEMMA DecWriteKeeps ==
  ASSUME TypeOK, TypeOK', SessionInv, NEW r \in Requests, DecWrite(r)
  PROVE  SessionInv'
  <1>s. PICK s : s = req[r].session
    OBVIOUS
  <1>1. s \in Sessions /\ req[r].engine \in Engines
    BY <1>s, WhoCalls DEF DecWrite, Calling
  <1>i. SessionOk(s)
    BY <1>1 DEF SessionInv
  <1>2. /\ Others(r) /\ req'[r].pc = "unmap"
        /\ req'[r].session = s /\ req'[r].engine = req[r].engine
    BY <1>s, DecWriteMoves DEF Steps
  <1>3. req[r].pc = "decWrite"
    BY DEF DecWrite
  <1>4. UNCHANGED <<row, mapping, hosted, up, events, stale, broken, loose>>
    BY DEF DecWrite, redis, history
  <1>u. ASSUME NEW x \in Sessions \ {s}
        PROVE  Untouched(x)
    BY <1>s, <1>2, <1>3, <1>4, EventsKept DEF Untouched, RowsOfOthers, Others, MarksKept
  <1>e. SameEvents(s)
    BY <1>2, <1>3, <1>4, EventsKept
  <1>q. \A q \in Requests : On(q, s)' <=> On(q, s)
    BY <1>s, <1>2 DEF Others
  <1>o. \A q \in Requests \ {r} : req'[q] = req[q]
    BY <1>2 DEF Others
  <1>t. row[s].state # "none" /\ req[r].engine = row[s].engine
    BY <1>s, <1>i, <1>3 DEF SessionOk, TasksOk
  <1>k1. RowOk(s)'
    BY <1>s, <1>1, <1>i, <1>2, <1>3, <1>4, <1>e, <1>q, <1>o, <1>t DEF SessionOk, SameEvents,
       MarksKept, RowOk
  <1>k2. TasksOk(s)'
    BY <1>s, <1>1, <1>i, <1>2, <1>3, <1>4, <1>e, <1>q, <1>o, <1>t DEF SessionOk, SameEvents,
       MarksKept, TasksOk, Making, Knowing
  <1>k3. WholeOk(s)'
    BY <1>s, <1>1, <1>i, <1>2, <1>3, <1>4, <1>e, <1>q, <1>o, <1>t DEF SessionOk, SameEvents,
       MarksKept, WholeOk, Finishing
  <1>k4. GhostOk(s)'
    BY <1>s, <1>1, <1>i, <1>2, <1>3, <1>4, <1>e, <1>q, <1>o, <1>t DEF SessionOk, SameEvents,
       MarksKept, GhostOk, Quiet, Dooming
  <1>k5. StatusOk(s)'
    BY <1>s, <1>1, <1>i, <1>2, <1>3, <1>4, <1>e, <1>q, <1>o, <1>t DEF SessionOk, SameEvents,
       MarksKept, StatusOk, Overwritten, Doomed, Dooming
  <1> QED  BY <1>u, <1>k1, <1>k2, <1>k3, <1>k4, <1>k5, UntouchedKeeps DEF SessionInv, SessionOk

LEMMA IncReadKeeps ==
  ASSUME TypeOK, TypeOK', SessionInv, NEW r \in Requests, IncRead(r)
  PROVE  SessionInv'
  <1>s. PICK s : s = req[r].session
    OBVIOUS
  <1>1. s \in Sessions /\ req[r].engine \in Engines
    BY <1>s, WhoCalls DEF IncRead, Calling
  <1>i. SessionOk(s)
    BY <1>1 DEF SessionInv
  <1>2. /\ Others(r)
        /\ \/ req'[r].pc = "incWrite" /\ req'[r].session = s /\ req'[r].engine = req[r].engine
           \/ req'[r].pc = "idle" /\ req'[r].session = None
    BY <1>s, IncReadMoves DEF Steps, Ends
  <1>3. req[r].pc = "incRead"
    BY DEF IncRead
  <1>4. UNCHANGED <<row, mapping, hosted, up, events, stale, broken, loose>>
    BY DEF IncRead, redis, history
  <1>u. ASSUME NEW x \in Sessions \ {s}
        PROVE  Untouched(x)
    BY <1>s, TenantSessionsAssumption, <1>2, <1>3, <1>4, EventsKept DEF Untouched,
       RowsOfOthers, Others, MarksKept
  <1>e. SameEvents(s)
    BY <1>2, <1>3, <1>4, EventsKept
  <1>q. \A q \in Requests : On(q, s)' => On(q, s)
    BY <1>s, <1>1, <1>2, TenantSessionsAssumption DEF Others
  <1>p. \A q \in Requests \ {r} : On(q, s) => On(q, s)'
    BY <1>2 DEF Others
  <1>o. \A q \in Requests \ {r} : req'[q] = req[q]
    BY <1>2 DEF Others
  <1>t. row[s].state # "none" /\ req[r].engine = row[s].engine
    BY <1>s, <1>i, <1>3 DEF SessionOk, TasksOk
  <1>k1. RowOk(s)'
    BY <1>s, <1>1, <1>i, <1>2, <1>3, <1>4, <1>e, <1>q, <1>p, <1>o, <1>t DEF SessionOk,
       SameEvents, MarksKept, RowOk
  <1>k2. TasksOk(s)'
    <2>1. CASE req'[r].pc = "idle"
      <3>1. ~On(r, s)'
        BY <1>1, <1>2, <2>1, TenantSessionsAssumption
      <3> QED  BY <1>s, <1>1, <1>i, <1>2, <1>3, <1>4, <1>e, <1>q, <1>p, <1>o, <1>t, <2>1,
      <3>1 DEF SessionOk, SameEvents, TasksOk, Making, Knowing
    <2>2. CASE req'[r].pc = "incWrite"
      <3> QED  BY <1>s, <1>1, <1>i, <1>2, <1>3, <1>4, <1>e, <1>q, <1>p, <1>o, <1>t,
      <2>2 DEF SessionOk, SameEvents, TasksOk, Making, Knowing
    <2> QED  BY <1>2, <2>1, <2>2
  <1>k3. WholeOk(s)'
    BY <1>s, <1>1, <1>i, <1>2, <1>3, <1>4, <1>e, <1>q, <1>p, <1>o, <1>t DEF SessionOk,
       SameEvents, MarksKept, WholeOk, Finishing
  <1>k4. GhostOk(s)'
    BY <1>s, <1>1, <1>i, <1>2, <1>3, <1>4, <1>e, <1>q, <1>p, <1>o, <1>t DEF SessionOk,
       SameEvents, MarksKept, GhostOk, Quiet, Dooming
  <1>k5. StatusOk(s)'
    BY <1>s, <1>1, <1>i, <1>2, <1>3, <1>4, <1>e, <1>q, <1>p, <1>o, <1>t DEF SessionOk,
       SameEvents, MarksKept, StatusOk, Overwritten, Doomed, Dooming
  <1> QED  BY <1>u, <1>k1, <1>k2, <1>k3, <1>k4, <1>k5, UntouchedKeeps DEF SessionInv, SessionOk

LEMMA IncWriteKeeps ==
  ASSUME TypeOK, TypeOK', SessionInv, NEW r \in Requests, IncWrite(r)
  PROVE  SessionInv'
  <1>s. PICK s : s = req[r].session
    OBVIOUS
  <1>1. s \in Sessions /\ req[r].engine \in Engines
    BY <1>s, WhoCalls DEF IncWrite, Calling
  <1>i. SessionOk(s)
    BY <1>1 DEF SessionInv
  <1>2. /\ Others(r) /\ req'[r].pc = "idle" /\ req'[r].session = None
    BY IncWriteMoves DEF Ends
  <1>3. req[r].pc = "incWrite"
    BY DEF IncWrite
  <1>4. UNCHANGED <<row, mapping, hosted, up, events, stale, broken, loose>>
    BY DEF IncWrite, redis, history
  <1>u. ASSUME NEW x \in Sessions \ {s}
        PROVE  Untouched(x)
    BY <1>s, TenantSessionsAssumption, <1>2, <1>3, <1>4, EventsKept DEF Untouched,
       RowsOfOthers, Others, MarksKept
  <1>e. SameEvents(s)
    BY <1>2, <1>3, <1>4, EventsKept
  <1>q. \A q \in Requests : On(q, s)' <=> On(q, s) /\ q # r
    BY <1>s, <1>1, <1>2, TenantSessionsAssumption DEF Others
  <1>o. \A q \in Requests \ {r} : req'[q] = req[q]
    BY <1>2 DEF Others
  <1>t. row[s].state # "none" /\ req[r].engine = row[s].engine
    BY <1>s, <1>i, <1>3 DEF SessionOk, TasksOk
  <1>k1. RowOk(s)'
    BY <1>s, <1>1, <1>i, <1>2, <1>3, <1>4, <1>e, <1>q, <1>o, <1>t DEF SessionOk, SameEvents,
       MarksKept, RowOk
  <1>k2. TasksOk(s)'
    BY <1>s, <1>1, <1>i, <1>2, <1>3, <1>4, <1>e, <1>q, <1>o, <1>t DEF SessionOk, SameEvents,
       MarksKept, TasksOk, Making, Knowing
  <1>k3. WholeOk(s)'
    BY <1>s, <1>1, <1>i, <1>2, <1>3, <1>4, <1>e, <1>q, <1>o, <1>t DEF SessionOk, SameEvents,
       MarksKept, WholeOk, Finishing
  <1>k4. GhostOk(s)'
    BY <1>s, <1>1, <1>i, <1>2, <1>3, <1>4, <1>e, <1>q, <1>o, <1>t DEF SessionOk, SameEvents,
       MarksKept, GhostOk, Quiet, Dooming
  <1>k5. StatusOk(s)'
    BY <1>s, <1>1, <1>i, <1>2, <1>3, <1>4, <1>e, <1>q, <1>o, <1>t DEF SessionOk, SameEvents,
       MarksKept, StatusOk, Overwritten, Doomed, Dooming
  <1> QED  BY <1>u, <1>k1, <1>k2, <1>k3, <1>k4, <1>k5, UntouchedKeeps DEF SessionInv, SessionOk

LEMMA CreatePostKeeps ==
  ASSUME TypeOK, TypeOK', SessionInv, NEW r \in Requests, CreatePost(r)
  PROVE  SessionInv'
  <1>s. PICK s : s = req[r].session
    OBVIOUS
  <1>1. s \in Sessions /\ req[r].engine \in Engines
    BY <1>s, WhoCalls DEF CreatePost, Calling
  <1>i. SessionOk(s)
    BY <1>1 DEF SessionInv
  <1>2. /\ Others(r) /\ req'[r].session = s /\ req'[r].engine = req[r].engine
        /\ req'[r].pc = IF req[r].engine \in up THEN "saveId" ELSE "rollback"
    BY <1>s, CreatePostMoves DEF Steps
  <1>3. /\ req[r].pc = "post"
        /\ IF req[r].engine \in up THEN hosted' = [hosted EXCEPT ![s] = "linking"] ELSE hosted' = hosted
    BY <1>s DEF CreatePost
  <1>4. UNCHANGED <<row, mapping, up, events, stale, broken, loose>>
    BY DEF CreatePost, redis, history
  <1>x. \A x \in Sessions \ {s} : hosted'[x] = hosted[x]
    BY <1>3 DEF TypeOK
  <1>u. ASSUME NEW x \in Sessions \ {s}
        PROVE  Untouched(x)
    BY <1>s, <1>2, <1>3, <1>4, <1>x, EventsKept DEF Untouched, RowsOfOthers, Others, MarksKept
  <1>e. SameEvents(s)
    BY <1>2, <1>3, <1>4, <1>x, EventsKept
  <1>q. \A q \in Requests : On(q, s)' <=> On(q, s)
    BY <1>s, <1>2 DEF Others
  <1>o. \A q \in Requests \ {r} : req'[q] = req[q]
    BY <1>2 DEF Others
  <1>t. /\ row[s].state # "none" /\ req[r].engine = row[s].engine /\ ~row[s].known
        /\ hosted[s] = "no" /\ ~Pending(s)
    BY <1>s, <1>i, <1>3 DEF SessionOk, TasksOk
  <1>h. hosted'[s] # "linked" /\ (req[r].engine \notin up => hosted'[s] = "no")
    BY <1>1, <1>3, <1>t DEF TypeOK
  <1>v. \A k : ~Says(s, k)
    BY <1>t DEF Says, Pending
  <1>k1. RowOk(s)'
    BY <1>s, <1>1, <1>i, <1>2, <1>3, <1>4, <1>x, <1>e, <1>q, <1>o, <1>t, <1>h, <1>v
       DEF SessionOk, SameEvents, MarksKept, RowOk
  <1>k2. TasksOk(s)'
    BY <1>s, <1>1, <1>i, <1>2, <1>3, <1>4, <1>x, <1>e, <1>q, <1>o, <1>t, <1>h, <1>v
       DEF SessionOk, SameEvents, MarksKept, TasksOk, Making, Knowing
  <1>k3. WholeOk(s)'
    BY <1>s, <1>1, <1>i, <1>2, <1>3, <1>4, <1>x, <1>e, <1>q, <1>o, <1>t, <1>h, <1>v
       DEF SessionOk, SameEvents, MarksKept, WholeOk, Finishing
  <1>k4. GhostOk(s)'
    BY <1>s, <1>1, <1>i, <1>2, <1>3, <1>4, <1>x, <1>e, <1>q, <1>o, <1>t, <1>h, <1>v
       DEF SessionOk, SameEvents, MarksKept, GhostOk, Quiet, Dooming
  <1>k5. StatusOk(s)'
    BY <1>s, <1>1, <1>i, <1>2, <1>3, <1>4, <1>x, <1>e, <1>q, <1>o, <1>t, <1>h, <1>v
       DEF SessionOk, SameEvents, MarksKept, StatusOk, Overwritten, Doomed, Dooming
  <1> QED  BY <1>u, <1>k1, <1>k2, <1>k3, <1>k4, <1>k5, UntouchedKeeps DEF SessionInv, SessionOk

LEMMA CreateFailsKeeps ==
  ASSUME TypeOK, TypeOK', SessionInv, NEW r \in Requests, CreateFails(r)
  PROVE  SessionInv'
  <1>s. PICK s : s = req[r].session
    OBVIOUS
  <1>1. s \in Sessions /\ req[r].engine \in Engines
    BY <1>s, WhoCalls DEF CreateFails, Calling
  <1>i. SessionOk(s)
    BY <1>1 DEF SessionInv
  <1>2. /\ Others(r) /\ req'[r].pc = "rollback"
        /\ req'[r].session = s /\ req'[r].engine = req[r].engine
    BY <1>s, CreateFailsMoves DEF Steps
  <1>3. /\ req[r].pc \in {"post", "map", "incRead", "incWrite"}
        /\ \/ hosted' = hosted
           \/ /\ req[r].pc = "post" /\ req[r].engine \in up
              /\ \E there \in {"no", "linking"} : hosted' = [hosted EXCEPT ![s] = there]
        /\ loose' = loose \cup {s}
    BY <1>s DEF CreateFails
  <1>4. UNCHANGED <<row, mapping, up, events, stale, broken>>
    BY DEF CreateFails, redis, history
  <1>x. \A x \in Sessions \ {s} : hosted'[x] = hosted[x]
    BY <1>3 DEF TypeOK
  <1>u. ASSUME NEW x \in Sessions \ {s}
        PROVE  Untouched(x)
    BY <1>s, <1>2, <1>3, <1>4, <1>x, EventsKept DEF Untouched, RowsOfOthers, Others, MarksKept
  <1>e. SameEvents(s)
    BY <1>2, <1>3, <1>4, <1>x, EventsKept
  <1>q. \A q \in Requests : On(q, s)' <=> On(q, s)
    BY <1>s, <1>2 DEF Others
  <1>o. \A q \in Requests \ {r} : req'[q] = req[q]
    BY <1>2 DEF Others
  <1>t. row[s].state # "none" /\ req[r].engine = row[s].engine
    BY <1>s, <1>i, <1>3 DEF SessionOk, TasksOk
  <1>p. req[r].pc = "post" => hosted[s] = "no" /\ ~Pending(s) /\ ~row[s].known
    BY <1>s, <1>i DEF SessionOk, TasksOk
  <1>h. \/ hosted'[s] = hosted[s]
        \/ req[r].pc = "post" /\ row[s].engine \in up /\ hosted'[s] # "linked"
    BY <1>1, <1>3, <1>t DEF TypeOK
  <1>v. ~Pending(s) => \A k : ~Says(s, k)
    BY DEF Says, Pending
  <1>k1. RowOk(s)'
    BY <1>s, <1>1, <1>i, <1>2, <1>3, <1>4, <1>x, <1>e, <1>q, <1>o, <1>t, <1>p, <1>h,
       <1>v DEF SessionOk, SameEvents, MarksKept, RowOk
  <1>k2. TasksOk(s)'
    BY <1>s, <1>1, <1>i, <1>2, <1>3, <1>4, <1>x, <1>e, <1>q, <1>o, <1>t, <1>p, <1>h,
       <1>v DEF SessionOk, SameEvents, MarksKept, TasksOk, Making, Knowing
  <1>k3. WholeOk(s)'
    BY <1>s, <1>1, <1>i, <1>2, <1>3, <1>4, <1>x, <1>e, <1>q, <1>o, <1>t, <1>p, <1>h,
       <1>v DEF SessionOk, SameEvents, MarksKept, WholeOk, Finishing
  <1>k4. GhostOk(s)'
    BY <1>s, <1>1, <1>i, <1>2, <1>3, <1>4, <1>x, <1>e, <1>q, <1>o, <1>t, <1>p, <1>h,
       <1>v DEF SessionOk, SameEvents, MarksKept, GhostOk, Quiet, Dooming
  <1>k5. StatusOk(s)'
    BY <1>s, <1>1, <1>i, <1>2, <1>3, <1>4, <1>x, <1>e, <1>q, <1>o, <1>t, <1>p, <1>h,
       <1>v DEF SessionOk, SameEvents, MarksKept, StatusOk, Overwritten, Doomed, Dooming
  <1> QED  BY <1>u, <1>k1, <1>k2, <1>k3, <1>k4, <1>k5, UntouchedKeeps DEF SessionInv, SessionOk

LEMMA CreateRollbackKeeps ==
  ASSUME TypeOK, TypeOK', SessionInv, NEW r \in Requests, CreateRollback(r)
  PROVE  SessionInv'
  <1>s. PICK s : s = req[r].session
    OBVIOUS
  <1>1. s \in Sessions /\ req[r].engine \in Engines
    BY <1>s, WhoCalls DEF CreateRollback, Calling
  <1>i. SessionOk(s)
    BY <1>1 DEF SessionInv
  <1>2. /\ Others(r) /\ req'[r].pc = "idle" /\ req'[r].session = None
    BY CreateRollbackMoves DEF Ends
  <1>3. req[r].pc = "rollback"
    BY DEF CreateRollback
  <1>4. UNCHANGED <<mapping, hosted, up, events, stale, broken, loose>>
    BY DEF CreateRollback, redis, history
  <1>5. /\ RowsOfOthers(s) /\ row'[s].state = "gone" /\ row'[s].known = row[s].known
        /\ row'[s].engine = row[s].engine /\ row'[s].status = row[s].status
    BY <1>s, <1>1, DeletedDoes DEF CreateRollback
  <1>u. ASSUME NEW x \in Sessions \ {s}
        PROVE  Untouched(x)
    BY <1>s, TenantSessionsAssumption, <1>2, <1>3, <1>4, <1>5, EventsKept DEF Untouched,
       RowsOfOthers, Others, MarksKept
  <1>e. SameEvents(s)
    BY <1>2, <1>3, <1>4, <1>5, EventsKept
  <1>q. \A q \in Requests : On(q, s)' <=> On(q, s) /\ q # r
    BY <1>s, <1>1, <1>2, TenantSessionsAssumption DEF Others
  <1>o. \A q \in Requests \ {r} : req'[q] = req[q]
    BY <1>2 DEF Others
  <1>t. row[s].state # "none" /\ req[r].engine = row[s].engine
    BY <1>s, <1>i, <1>3 DEF SessionOk, TasksOk
  <1>n. \A q \in Requests : On(q, s) => req[q].pc # "insert"
    BY <1>i, <1>t, NoRowShape DEF SessionOk, TasksOk
  <1>k1. RowOk(s)'
    BY <1>s, <1>1, <1>i, <1>2, <1>3, <1>4, <1>5, <1>e, <1>q, <1>o, <1>t, <1>n DEF SessionOk,
       SameEvents, MarksKept, RowOk
  <1>k2. TasksOk(s)'
    BY <1>s, <1>1, <1>i, <1>2, <1>3, <1>4, <1>5, <1>e, <1>q, <1>o, <1>t, <1>n DEF SessionOk,
       SameEvents, MarksKept, TasksOk, Making, Knowing
  <1>k3. WholeOk(s)'
    BY <1>s, <1>1, <1>i, <1>2, <1>3, <1>4, <1>5, <1>e, <1>q, <1>o, <1>t, <1>n DEF SessionOk,
       SameEvents, MarksKept, WholeOk, Finishing
  <1>k4. GhostOk(s)'
    BY <1>s, <1>1, <1>i, <1>2, <1>3, <1>4, <1>5, <1>e, <1>q, <1>o, <1>t, <1>n DEF SessionOk,
       SameEvents, MarksKept, GhostOk, Quiet, Dooming
  <1>k5. StatusOk(s)'
    BY <1>s, <1>1, <1>i, <1>2, <1>3, <1>4, <1>5, <1>e, <1>q, <1>o, <1>t, <1>n DEF SessionOk,
       SameEvents, MarksKept, StatusOk, Overwritten, Doomed, Dooming
  <1> QED  BY <1>u, <1>k1, <1>k2, <1>k3, <1>k4, <1>k5, UntouchedKeeps DEF SessionInv, SessionOk

LEMMA DeleteRowKeeps ==
  ASSUME TypeOK, TypeOK', SessionInv, NEW r \in Requests, DeleteRow(r)
  PROVE  SessionInv'
  <1>s. PICK s : s = req[r].session
    OBVIOUS
  <1>1. s \in Sessions /\ req[r].engine \in Engines
    BY <1>s, WhoCalls DEF DeleteRow, Calling
  <1>i. SessionOk(s)
    BY <1>1 DEF SessionInv
  <1>2. /\ Others(r) /\ req'[r].pc = "idle" /\ req'[r].session = None
    BY DeleteRowMoves DEF Ends
  <1>3. req[r].pc = "remove"
    BY DEF DeleteRow
  <1>4. UNCHANGED <<mapping, hosted, up, events, stale, broken, loose>>
    BY DEF DeleteRow, redis, history
  <1>5. /\ RowsOfOthers(s) /\ row'[s].state = "gone" /\ row'[s].known = row[s].known
        /\ row'[s].engine = row[s].engine /\ row'[s].status = row[s].status
    BY <1>s, <1>1, DeletedDoes DEF DeleteRow
  <1>u. ASSUME NEW x \in Sessions \ {s}
        PROVE  Untouched(x)
    BY <1>s, TenantSessionsAssumption, <1>2, <1>3, <1>4, <1>5, EventsKept DEF Untouched,
       RowsOfOthers, Others, MarksKept
  <1>e. SameEvents(s)
    BY <1>2, <1>3, <1>4, <1>5, EventsKept
  <1>q. \A q \in Requests : On(q, s)' <=> On(q, s) /\ q # r
    BY <1>s, <1>1, <1>2, TenantSessionsAssumption DEF Others
  <1>o. \A q \in Requests \ {r} : req'[q] = req[q]
    BY <1>2 DEF Others
  <1>t. row[s].state # "none" /\ req[r].engine = row[s].engine
    BY <1>s, <1>i, <1>3 DEF SessionOk, TasksOk
  <1>n. \A q \in Requests : On(q, s) => req[q].pc # "insert"
    BY <1>i, <1>t, NoRowShape DEF SessionOk, TasksOk
  <1>k1. RowOk(s)'
    BY <1>s, <1>1, <1>i, <1>2, <1>3, <1>4, <1>5, <1>e, <1>q, <1>o, <1>t, <1>n DEF SessionOk,
       SameEvents, MarksKept, RowOk
  <1>k2. TasksOk(s)'
    BY <1>s, <1>1, <1>i, <1>2, <1>3, <1>4, <1>5, <1>e, <1>q, <1>o, <1>t, <1>n DEF SessionOk,
       SameEvents, MarksKept, TasksOk, Making, Knowing
  <1>k3. WholeOk(s)'
    BY <1>s, <1>1, <1>i, <1>2, <1>3, <1>4, <1>5, <1>e, <1>q, <1>o, <1>t, <1>n DEF SessionOk,
       SameEvents, MarksKept, WholeOk, Finishing
  <1>k4. GhostOk(s)'
    BY <1>s, <1>1, <1>i, <1>2, <1>3, <1>4, <1>5, <1>e, <1>q, <1>o, <1>t, <1>n DEF SessionOk,
       SameEvents, MarksKept, GhostOk, Quiet, Dooming
  <1>k5. StatusOk(s)'
    BY <1>s, <1>1, <1>i, <1>2, <1>3, <1>4, <1>5, <1>e, <1>q, <1>o, <1>t, <1>n DEF SessionOk,
       SameEvents, MarksKept, StatusOk, Overwritten, Doomed, Dooming
  <1> QED  BY <1>u, <1>k1, <1>k2, <1>k3, <1>k4, <1>k5, UntouchedKeeps DEF SessionInv, SessionOk

LEMMA CreateSaveIdKeeps ==
  ASSUME TypeOK, TypeOK', SessionInv, NEW r \in Requests, CreateSaveId(r)
  PROVE  SessionInv'
  <1>s. PICK s : s = req[r].session
    OBVIOUS
  <1>1. s \in Sessions /\ req[r].engine \in Engines
    BY <1>s, WhoCalls DEF CreateSaveId, Calling
  <1>i. SessionOk(s)
    BY <1>1 DEF SessionInv
  <1>2. /\ Others(r)
        /\ \/ req'[r].pc = "map" /\ req'[r].session = s /\ req'[r].engine = req[r].engine
           \/ req'[r].pc = "idle" /\ req'[r].session = None
    BY <1>s, CreateSaveIdMoves DEF Steps, Ends
  <1>3. req[r].pc = "saveId"
    BY DEF CreateSaveId
  <1>4. UNCHANGED <<mapping, hosted, up, events, stale, broken, loose>>
    BY DEF CreateSaveId, redis, history
  <1>5. /\ RowsOfOthers(s) /\ row'[s].state = row[s].state
        /\ row'[s].engine = row[s].engine /\ row'[s].status = row[s].status
        /\ IF row[s].state = "row" THEN row'[s].known /\ req'[r].pc = "map"
           ELSE row'[s] = row[s] /\ req'[r].pc = "idle"
    BY <1>s, <1>1, KnownDoes, CreateSaveIdMoves DEF CreateSaveId, RowsOfOthers, Steps, Ends,
       TypeOK
  <1>u. ASSUME NEW x \in Sessions \ {s}
        PROVE  Untouched(x)
    BY <1>s, TenantSessionsAssumption, <1>2, <1>3, <1>4, <1>5, EventsKept DEF Untouched,
       RowsOfOthers, Others, MarksKept
  <1>e. SameEvents(s)
    BY <1>2, <1>3, <1>4, <1>5, EventsKept
  <1>q. \A q \in Requests : On(q, s)' => On(q, s)
    BY <1>s, <1>1, <1>2, TenantSessionsAssumption DEF Others
  <1>p. \A q \in Requests \ {r} : On(q, s) => On(q, s)'
    BY <1>2 DEF Others
  <1>o. \A q \in Requests \ {r} : req'[q] = req[q]
    BY <1>2 DEF Others
  <1>t. /\ row[s].state # "none" /\ req[r].engine = row[s].engine /\ mapping[s] = None
        /\ ~row[s].known
    BY <1>s, <1>i, <1>3 DEF SessionOk, TasksOk
  <1>n. \A q \in Requests \ {r} : On(q, s) => req[q].pc \notin {"insert", "post", "saveId"}
    BY <1>s, <1>i, <1>t, <1>3, NoRowShape DEF SessionOk, TasksOk, Making
  <1>k1. RowOk(s)'
    BY <1>s, <1>1, <1>i, <1>2, <1>3, <1>4, <1>5, <1>e, <1>q, <1>p, <1>o, <1>t, <1>n
       DEF SessionOk, SameEvents, MarksKept, RowOk
  <1>k2. TasksOk(s)'
    <2>1. CASE req'[r].pc = "idle"
      <3>1. ~On(r, s)'
        BY <1>1, <1>2, <2>1, TenantSessionsAssumption
      <3> QED  BY SMTT(60), <1>s, <1>1, <1>i, <1>2, <1>3, <1>4, <1>5, <1>e, <1>q, <1>p, <1>o, <1>t, <1>n,
      <2>1, <3>1 DEF SessionOk, SameEvents, TasksOk, Making, Knowing
    <2>2. CASE req'[r].pc = "map"
      <3>1. /\ row'[s].known /\ row'[s].state # "none" /\ row'[s].engine = row[s].engine
            /\ mapping'[s] = None /\ hosted'[s] = hosted[s] /\ (Pending(s)' <=> Pending(s))
            /\ req'[r].session = s /\ req'[r].engine = row[s].engine
        BY <1>1, <1>2, <1>4, <1>5, <1>e, <1>t, <2>2, TenantSessionsAssumption DEF SameEvents
      <3>2. \A q \in Requests \ {r} : On(q, s)' => On(q, s) /\ req'[q] = req[q]
        BY <1>o
      <3>3. \A q \in Requests \ {r} : On(q, s) =>
              req[q].engine = row[s].engine /\ req[q].pc \notin {"insert", "post", "saveId", "map"}
        BY <1>s, <1>i, <1>3, <1>n DEF SessionOk, TasksOk, Making
      <3>4. \A q \in Requests \ {r} : On(q, s) => req[q].pc \notin Making
        BY <1>s, <1>i, <1>3 DEF SessionOk, TasksOk, Making
      <3> QED  BY <2>2, <3>1, <3>2, <3>3, <3>4 DEF TasksOk
    <2> QED  BY <1>2, <2>1, <2>2
  <1>k3. WholeOk(s)'
    BY <1>s, <1>1, <1>i, <1>2, <1>3, <1>4, <1>5, <1>e, <1>q, <1>p, <1>o, <1>t, <1>n
       DEF SessionOk, SameEvents, MarksKept, WholeOk, Finishing
  <1>k4. GhostOk(s)'
    BY <1>s, <1>1, <1>i, <1>2, <1>3, <1>4, <1>5, <1>e, <1>q, <1>p, <1>o, <1>t, <1>n
       DEF SessionOk, SameEvents, MarksKept, GhostOk, Quiet, Dooming
  <1>k5. StatusOk(s)'
    BY <1>s, <1>1, <1>i, <1>2, <1>3, <1>4, <1>5, <1>e, <1>q, <1>p, <1>o, <1>t, <1>n
       DEF SessionOk, SameEvents, MarksKept, StatusOk, Overwritten, Doomed, Dooming
  <1> QED  BY <1>u, <1>k1, <1>k2, <1>k3, <1>k4, <1>k5, UntouchedKeeps DEF SessionInv, SessionOk

LEMMA CreateMapKeeps ==
  ASSUME TypeOK, TypeOK', SessionInv, NEW r \in Requests, CreateMap(r)
  PROVE  SessionInv'
  <1>s. PICK s : s = req[r].session
    OBVIOUS
  <1>1. s \in Sessions /\ req[r].engine \in Engines
    BY <1>s, WhoCalls DEF CreateMap, Calling
  <1>i. SessionOk(s)
    BY <1>1 DEF SessionInv
  <1>2. /\ Others(r) /\ req'[r].pc = "incRead"
        /\ req'[r].session = s /\ req'[r].engine = req[r].engine
    BY <1>s, CreateMapMoves DEF Steps
  <1>3. req[r].pc = "map" /\ mapping' = [mapping EXCEPT ![s] = req[r].engine]
    BY <1>s DEF CreateMap
  <1>4. UNCHANGED <<row, hosted, up, events, stale, broken, loose>>
    BY DEF CreateMap, redis, history
  <1>u. ASSUME NEW x \in Sessions \ {s}
        PROVE  Untouched(x)
    BY <1>s, <1>2, <1>3, <1>4, EventsKept DEF Untouched, RowsOfOthers, Others, MarksKept
  <1>e. SameEvents(s)
    BY <1>2, <1>3, <1>4, EventsKept
  <1>q. \A q \in Requests : On(q, s)' <=> On(q, s)
    BY <1>s, <1>2 DEF Others
  <1>o. \A q \in Requests \ {r} : req'[q] = req[q]
    BY <1>2 DEF Others
  <1>t. row[s].state # "none" /\ req[r].engine = row[s].engine /\ row[s].known
    BY <1>s, <1>i, <1>3 DEF SessionOk, TasksOk, Knowing
  <1>m. mapping'[s] = row[s].engine
    BY <1>1, <1>3, <1>t DEF TypeOK
  <1>n. \A q \in Requests \ {r} : On(q, s) => req[q].pc \notin {"post", "saveId", "map"}
    BY <1>s, <1>i, <1>3 DEF SessionOk, TasksOk, Making
  <1>k1. RowOk(s)'
    BY <1>s, <1>1, <1>i, <1>2, <1>3, <1>4, <1>e, <1>q, <1>o, <1>t, <1>m, <1>n DEF SessionOk,
       SameEvents, MarksKept, RowOk
  <1>k2. TasksOk(s)'
    BY <1>s, <1>1, <1>i, <1>2, <1>3, <1>4, <1>e, <1>q, <1>o, <1>t, <1>m, <1>n DEF SessionOk,
       SameEvents, MarksKept, TasksOk, Making, Knowing
  <1>k3. WholeOk(s)'
    BY <1>s, <1>1, <1>i, <1>2, <1>3, <1>4, <1>e, <1>q, <1>o, <1>t, <1>m, <1>n DEF SessionOk,
       SameEvents, MarksKept, WholeOk, Finishing
  <1>k4. GhostOk(s)'
    BY <1>s, <1>1, <1>i, <1>2, <1>3, <1>4, <1>e, <1>q, <1>o, <1>t, <1>m, <1>n DEF SessionOk,
       SameEvents, MarksKept, GhostOk, Quiet, Dooming
  <1>k5. StatusOk(s)'
    BY <1>s, <1>1, <1>i, <1>2, <1>3, <1>4, <1>e, <1>q, <1>o, <1>t, <1>m, <1>n DEF SessionOk,
       SameEvents, MarksKept, StatusOk, Overwritten, Doomed, Dooming
  <1> QED  BY <1>u, <1>k1, <1>k2, <1>k3, <1>k4, <1>k5, UntouchedKeeps DEF SessionInv, SessionOk

LEMMA ReconnectPostKeeps ==
  ASSUME TypeOK, TypeOK', SessionInv, NEW r \in Requests, ReconnectPost(r)
  PROVE  SessionInv'
  <1>s. PICK s : s = req[r].session
    OBVIOUS
  <1>1. s \in Sessions /\ req[r].engine \in Engines
    BY <1>s, WhoCalls DEF ReconnectPost, Calling
  <1>i. SessionOk(s)
    BY <1>1 DEF SessionInv
  <1>2. /\ Others(r)
        /\ \/ req'[r].pc = "status" /\ req'[r].session = s /\ req'[r].engine = req[r].engine
           \/ req'[r].pc = "idle" /\ req'[r].session = None
    BY <1>s, ReconnectPostMoves DEF Steps, Ends
  <1>3. /\ req[r].pc \in {"reconnect", "unlink"}
        /\ \/ /\ req'[r].pc = "status" /\ hosted' = [hosted EXCEPT ![s] = "linking"]
              /\ stale' = IF Pending(s) THEN stale \cup {s} ELSE stale
           \/ req'[r].pc = "idle" /\ UNCHANGED <<hosted, stale>>
        /\ (req'[r].pc = "status" => req[r].engine \in up)
    <2>1. CASE req[r].engine \in up /\ (req[r].pc = "unlink" => hosted[s] # "no")
      BY <1>s, <2>1, GotoDoes DEF ReconnectPost, Steps, Pcs, Calling
    <2>2. CASE ~(req[r].engine \in up /\ (req[r].pc = "unlink" => hosted[s] # "no"))
      BY <1>s, <2>2, EndDoes DEF ReconnectPost, Ends
    <2> QED  BY <2>1, <2>2
  <1>4. UNCHANGED <<row, mapping, up, events, broken, loose>>
    BY DEF ReconnectPost, redis, history
  <1>x. \A x \in Sessions \ {s} : hosted'[x] = hosted[x]
    BY <1>3 DEF TypeOK
  <1>u. ASSUME NEW x \in Sessions \ {s}
        PROVE  Untouched(x)
    BY <1>s, TenantSessionsAssumption, <1>2, <1>3, <1>4, <1>x, EventsKept DEF Untouched,
       RowsOfOthers, Others, MarksKept
  <1>e. SameEvents(s)
    BY <1>2, <1>3, <1>4, <1>x, EventsKept
  <1>q. \A q \in Requests : On(q, s)' => On(q, s)
    BY <1>s, <1>1, <1>2, TenantSessionsAssumption DEF Others
  <1>p. \A q \in Requests \ {r} : On(q, s) => On(q, s)'
    BY <1>2 DEF Others
  <1>o. \A q \in Requests \ {r} : req'[q] = req[q]
    BY <1>2 DEF Others
  <1>t. row[s].state # "none" /\ req[r].engine = row[s].engine /\ row[s].known
    BY <1>s, <1>i, <1>3 DEF SessionOk, TasksOk, Knowing
  <1>h. IF req'[r].pc = "status" THEN hosted'[s] = "linking" /\ row[s].engine \in up ELSE hosted'[s] = hosted[s]
    BY <1>1, <1>2, <1>3, <1>t DEF TypeOK
  <1>v. ~Pending(s) => \A k : ~Says(s, k)
    BY DEF Says, Pending
  <1>k1. RowOk(s)'
    BY <1>s, <1>1, <1>i, <1>2, <1>3, <1>4, <1>x, <1>e, <1>q, <1>p, <1>o, <1>t, <1>h,
       <1>v DEF SessionOk, SameEvents, MarksKept, RowOk
  <1>k2. TasksOk(s)'
    <2>1. CASE req'[r].pc = "idle"
      <3>1. ~On(r, s)'
        BY <1>1, <1>2, <2>1, TenantSessionsAssumption
      <3> QED  BY <1>s, <1>1, <1>i, <1>2, <1>3, <1>4, <1>x, <1>e, <1>q, <1>p, <1>o, <1>t, <1>h,
      <1>v, <2>1, <3>1 DEF SessionOk, SameEvents, TasksOk, Making, Knowing
    <2>2. CASE req'[r].pc = "status"
      <3> QED  BY <1>s, <1>1, <1>i, <1>2, <1>3, <1>4, <1>x, <1>e, <1>q, <1>p, <1>o, <1>t, <1>h,
      <1>v, <2>2 DEF SessionOk, SameEvents, TasksOk, Making, Knowing
    <2> QED  BY <1>2, <2>1, <2>2
  <1>k3. WholeOk(s)'
    BY <1>s, <1>1, <1>i, <1>2, <1>3, <1>4, <1>x, <1>e, <1>q, <1>p, <1>o, <1>t, <1>h,
       <1>v DEF SessionOk, SameEvents, MarksKept, WholeOk, Finishing
  <1>k4. GhostOk(s)'
    BY <1>s, <1>1, <1>i, <1>2, <1>3, <1>4, <1>x, <1>e, <1>q, <1>p, <1>o, <1>t, <1>h,
       <1>v DEF SessionOk, SameEvents, MarksKept, GhostOk, Quiet, Dooming
  <1>k5. StatusOk(s)'
    BY <1>s, <1>1, <1>i, <1>2, <1>3, <1>4, <1>x, <1>e, <1>q, <1>p, <1>o, <1>t, <1>h,
       <1>v DEF SessionOk, SameEvents, MarksKept, StatusOk, Overwritten, Doomed, Dooming
  <1> QED  BY <1>u, <1>k1, <1>k2, <1>k3, <1>k4, <1>k5, UntouchedKeeps DEF SessionInv, SessionOk

LEMMA ReconnectWriteKeeps ==
  ASSUME TypeOK, TypeOK', SessionInv, NEW r \in Requests, ReconnectWrite(r)
  PROVE  SessionInv'
  <1>s. PICK s : s = req[r].session
    OBVIOUS
  <1>1. s \in Sessions /\ req[r].engine \in Engines
    BY <1>s, WhoCalls DEF ReconnectWrite, Calling
  <1>i. SessionOk(s)
    BY <1>1 DEF SessionInv
  <1>2. /\ Others(r) /\ req'[r].pc = "idle" /\ req'[r].session = None
    BY ReconnectWriteMoves DEF Ends
  <1>3. req[r].pc = "status"
    BY DEF ReconnectWrite
  <1>4. UNCHANGED <<mapping, hosted, up, events, stale, broken, loose>>
    BY DEF ReconnectWrite, redis, history
  <1>5. /\ RowsOfOthers(s) /\ row'[s].state = row[s].state
        /\ row'[s].engine = row[s].engine /\ row'[s].known = row[s].known
        /\ IF row[s].state = "row" THEN row'[s].status = "INITIALIZING" ELSE row'[s] = row[s]
    <2>1. CASE row[s].state = "row"
      <3>1. "INITIALIZING" \in Statuses /\ row' = [row EXCEPT ![s].status = "INITIALIZING"]
        BY <1>s, <2>1 DEF ReconnectWrite, Statuses
      <3> QED  BY <1>1, <2>1, <3>1, StatusDoes
    <2>2. CASE row[s].state # "row"
      BY <1>s, <1>1, <2>2 DEF ReconnectWrite, RowsOfOthers, TypeOK
    <2> QED  BY <2>1, <2>2
  <1>u. ASSUME NEW x \in Sessions \ {s}
        PROVE  Untouched(x)
    BY <1>s, TenantSessionsAssumption, <1>2, <1>3, <1>4, <1>5, EventsKept DEF Untouched,
       RowsOfOthers, Others, MarksKept
  <1>e. SameEvents(s)
    BY <1>2, <1>3, <1>4, <1>5, EventsKept
  <1>q. \A q \in Requests : On(q, s)' <=> On(q, s) /\ q # r
    BY <1>s, <1>1, <1>2, TenantSessionsAssumption DEF Others
  <1>o. \A q \in Requests \ {r} : req'[q] = req[q]
    BY <1>2 DEF Others
  <1>t. row[s].state # "none" /\ req[r].engine = row[s].engine
    BY <1>s, <1>i, <1>3 DEF SessionOk, TasksOk
  <1>n. \A q \in Requests : On(q, s) => req[q].pc # "insert"
    BY <1>i, <1>t, NoRowShape DEF SessionOk, TasksOk
  <1>k1. RowOk(s)'
    BY <1>s, <1>1, <1>i, <1>2, <1>3, <1>4, <1>5, <1>e, <1>q, <1>o, <1>t, <1>n DEF SessionOk,
       SameEvents, MarksKept, RowOk
  <1>k2. TasksOk(s)'
    <2>1. TasksOk(s)
      BY <1>i DEF SessionOk
    <2>2. ASSUME NEW q \in Requests, On(q, s)'
          PROVE  On(q, s) /\ req'[q] = req[q] /\ req[q].pc # "insert"
      BY <2>2, <1>q, <1>o, <1>n
    <2>3. ASSUME NEW q \in Requests, On(q, s)'
          PROVE  /\ req'[q].pc # "insert"
                 /\ row'[s].state # "none" /\ req'[q].engine = row'[s].engine
                 /\ At(q, {"post"})' => hosted'[s] = "no" /\ ~Pending(s)'
                 /\ At(q, {"post", "saveId"})' => ~row'[s].known
                 /\ At(q, Knowing)' => row'[s].known
                 /\ At(q, {"post", "saveId", "map"})' => mapping'[s] = None
      BY <2>1, <2>2, <2>3, <1>4, <1>5, <1>e, <1>t DEF TasksOk, SameEvents, Knowing
    <2>4. \A p, q \in Requests :
            On(p, s)' /\ On(q, s)' /\ At(p, Making)' /\ At(q, Making)' => p = q
      BY <2>1, <2>2 DEF TasksOk, Making
    <2> QED  BY <2>3, <2>4 DEF TasksOk
  <1>k3. WholeOk(s)'
    BY <1>s, <1>1, <1>i, <1>2, <1>3, <1>4, <1>5, <1>e, <1>q, <1>o, <1>t, <1>n DEF SessionOk,
       SameEvents, MarksKept, WholeOk, Finishing
  <1>k4. GhostOk(s)'
    BY <1>s, <1>1, <1>i, <1>2, <1>3, <1>4, <1>5, <1>e, <1>q, <1>o, <1>t, <1>n DEF SessionOk,
       SameEvents, MarksKept, GhostOk, Quiet, Dooming
  <1>k5. StatusOk(s)'
    BY <1>s, <1>1, <1>i, <1>2, <1>3, <1>4, <1>5, <1>e, <1>q, <1>o, <1>t, <1>n DEF SessionOk,
       SameEvents, MarksKept, StatusOk, Overwritten, Doomed, Dooming
  <1> QED  BY <1>u, <1>k1, <1>k2, <1>k3, <1>k4, <1>k5, UntouchedKeeps DEF SessionInv, SessionOk

LEMMA DeleteEngineKeeps ==
  ASSUME TypeOK, TypeOK', SessionInv, NEW r \in Requests, DeleteEngine(r)
  PROVE  SessionInv'
  <1>s. PICK s : s = req[r].session
    OBVIOUS
  <1>1. s \in Sessions /\ req[r].engine \in Engines
    BY <1>s, WhoCalls DEF DeleteEngine, Calling
  <1>i. SessionOk(s)
    BY <1>1 DEF SessionInv
  <1>2. /\ Others(r) /\ req'[r].pc = "release"
        /\ req'[r].session = s /\ req'[r].engine = req[r].engine
    BY <1>s, DeleteEngineMoves DEF Steps
  <1>3. /\ req[r].pc = "engine"
        /\ \/ hosted' = [hosted EXCEPT ![s] = "no"] /\ loose' = loose
           \/ hosted' = hosted /\ loose' = loose \cup {s}
    BY <1>s DEF DeleteEngine
  <1>4. UNCHANGED <<row, mapping, up, events, stale, broken>>
    BY DEF DeleteEngine, redis, history
  <1>x. \A x \in Sessions \ {s} : hosted'[x] = hosted[x]
    BY <1>3 DEF TypeOK
  <1>u. ASSUME NEW x \in Sessions \ {s}
        PROVE  Untouched(x)
    BY <1>s, <1>2, <1>3, <1>4, <1>x, EventsKept DEF Untouched, RowsOfOthers, Others, MarksKept
  <1>e. SameEvents(s)
    BY <1>2, <1>3, <1>4, <1>x, EventsKept
  <1>q. \A q \in Requests : On(q, s)' <=> On(q, s)
    BY <1>s, <1>2 DEF Others
  <1>o. \A q \in Requests \ {r} : req'[q] = req[q]
    BY <1>2 DEF Others
  <1>t. row[s].state # "none" /\ req[r].engine = row[s].engine
    BY <1>s, <1>i, <1>3 DEF SessionOk, TasksOk
  <1>h. hosted'[s] = "no" \/ (hosted'[s] = hosted[s] /\ s \in loose')
    BY <1>1, <1>3 DEF TypeOK
  <1>k1. RowOk(s)'
    BY <1>s, <1>1, <1>i, <1>2, <1>3, <1>4, <1>x, <1>e, <1>q, <1>o, <1>t, <1>h DEF SessionOk,
       SameEvents, MarksKept, RowOk
  <1>k2. TasksOk(s)'
    BY <1>s, <1>1, <1>i, <1>2, <1>3, <1>4, <1>x, <1>e, <1>q, <1>o, <1>t, <1>h DEF SessionOk,
       SameEvents, MarksKept, TasksOk, Making, Knowing
  <1>k3. WholeOk(s)'
    BY <1>s, <1>1, <1>i, <1>2, <1>3, <1>4, <1>x, <1>e, <1>q, <1>o, <1>t, <1>h DEF SessionOk,
       SameEvents, MarksKept, WholeOk, Finishing
  <1>k4. GhostOk(s)'
    BY <1>s, <1>1, <1>i, <1>2, <1>3, <1>4, <1>x, <1>e, <1>q, <1>o, <1>t, <1>h DEF SessionOk,
       SameEvents, MarksKept, GhostOk, Quiet, Dooming
  <1>k5. StatusOk(s)'
    BY <1>s, <1>1, <1>i, <1>2, <1>3, <1>4, <1>x, <1>e, <1>q, <1>o, <1>t, <1>h DEF SessionOk,
       SameEvents, MarksKept, StatusOk, Overwritten, Doomed, Dooming
  <1> QED  BY <1>u, <1>k1, <1>k2, <1>k3, <1>k4, <1>k5, UntouchedKeeps DEF SessionInv, SessionOk

LEMMA ReleaseKeeps ==
  ASSUME TypeOK, TypeOK', SessionInv, NEW r \in Requests, Release(r)
  PROVE  SessionInv'
  <1>s. PICK s : s = req[r].session
    OBVIOUS
  <1>1. s \in Sessions /\ req[r].engine \in Engines
    BY <1>s, WhoCalls DEF Release, Calling
  <1>i. SessionOk(s)
    BY <1>1 DEF SessionInv
  <1>2. /\ Others(r) /\ req'[r].session = s
        /\ IF mapping[s] = None THEN req'[r].pc = "remove" /\ req'[r].engine = req[r].engine
           ELSE req'[r].pc = "decRead" /\ req'[r].engine = mapping[s]
    BY <1>s, ReleaseMoves DEF Steps
  <1>3. req[r].pc = "release"
    BY DEF Release
  <1>4. UNCHANGED <<row, mapping, hosted, up, events, stale, broken, loose>>
    BY DEF Release, redis, history
  <1>u. ASSUME NEW x \in Sessions \ {s}
        PROVE  Untouched(x)
    BY <1>s, <1>2, <1>3, <1>4, EventsKept DEF Untouched, RowsOfOthers, Others, MarksKept
  <1>e. SameEvents(s)
    BY <1>2, <1>3, <1>4, EventsKept
  <1>q. \A q \in Requests : On(q, s)' <=> On(q, s)
    BY <1>s, <1>2 DEF Others
  <1>o. \A q \in Requests \ {r} : req'[q] = req[q]
    BY <1>2 DEF Others
  <1>t. row[s].state # "none" /\ req[r].engine = row[s].engine
    BY <1>s, <1>i, <1>3 DEF SessionOk, TasksOk
  <1>m. req'[r].engine = row[s].engine
    BY <1>i, <1>2, <1>t DEF SessionOk, RowOk
  <1>k1. RowOk(s)'
    BY <1>s, <1>1, <1>i, <1>2, <1>3, <1>4, <1>e, <1>q, <1>o, <1>t, <1>m DEF SessionOk,
       SameEvents, MarksKept, RowOk
  <1>k2. TasksOk(s)'
    BY <1>s, <1>1, <1>i, <1>2, <1>3, <1>4, <1>e, <1>q, <1>o, <1>t, <1>m DEF SessionOk,
       SameEvents, MarksKept, TasksOk, Making, Knowing
  <1>k3. WholeOk(s)'
    BY <1>s, <1>1, <1>i, <1>2, <1>3, <1>4, <1>e, <1>q, <1>o, <1>t, <1>m DEF SessionOk,
       SameEvents, MarksKept, WholeOk, Finishing
  <1>k4. GhostOk(s)'
    BY <1>s, <1>1, <1>i, <1>2, <1>3, <1>4, <1>e, <1>q, <1>o, <1>t, <1>m DEF SessionOk,
       SameEvents, MarksKept, GhostOk, Quiet, Dooming
  <1>k5. StatusOk(s)'
    BY <1>s, <1>1, <1>i, <1>2, <1>3, <1>4, <1>e, <1>q, <1>o, <1>t, <1>m DEF SessionOk,
       SameEvents, MarksKept, StatusOk, Overwritten, Doomed, Dooming
  <1> QED  BY <1>u, <1>k1, <1>k2, <1>k3, <1>k4, <1>k5, UntouchedKeeps DEF SessionInv, SessionOk

LEMMA UnmapKeeps ==
  ASSUME TypeOK, TypeOK', SessionInv, NEW r \in Requests, Unmap(r)
  PROVE  SessionInv'
  <1>s. PICK s : s = req[r].session
    OBVIOUS
  <1>1. s \in Sessions /\ req[r].engine \in Engines
    BY <1>s, WhoCalls DEF Unmap, Calling
  <1>i. SessionOk(s)
    BY <1>1 DEF SessionInv
  <1>2. /\ Others(r) /\ req'[r].pc = "remove"
        /\ req'[r].session = s /\ req'[r].engine = req[r].engine
    BY <1>s, UnmapMoves DEF Steps
  <1>3. req[r].pc = "unmap" /\ mapping' = [mapping EXCEPT ![s] = None]
    BY <1>s DEF Unmap
  <1>4. UNCHANGED <<row, hosted, up, events, stale, broken, loose>>
    BY DEF Unmap, redis, history
  <1>u. ASSUME NEW x \in Sessions \ {s}
        PROVE  Untouched(x)
    BY <1>s, <1>2, <1>3, <1>4, EventsKept DEF Untouched, RowsOfOthers, Others, MarksKept
  <1>e. SameEvents(s)
    BY <1>2, <1>3, <1>4, EventsKept
  <1>q. \A q \in Requests : On(q, s)' <=> On(q, s)
    BY <1>s, <1>2 DEF Others
  <1>o. \A q \in Requests \ {r} : req'[q] = req[q]
    BY <1>2 DEF Others
  <1>t. row[s].state # "none" /\ req[r].engine = row[s].engine
    BY <1>s, <1>i, <1>3 DEF SessionOk, TasksOk
  <1>m. mapping'[s] = None
    BY <1>1, <1>3 DEF TypeOK
  <1>k1. RowOk(s)'
    BY <1>s, <1>1, <1>i, <1>2, <1>3, <1>4, <1>e, <1>q, <1>o, <1>t, <1>m DEF SessionOk,
       SameEvents, MarksKept, RowOk
  <1>k2. TasksOk(s)'
    BY <1>s, <1>1, <1>i, <1>2, <1>3, <1>4, <1>e, <1>q, <1>o, <1>t, <1>m DEF SessionOk,
       SameEvents, MarksKept, TasksOk, Making, Knowing
  <1>k3. WholeOk(s)'
    BY <1>s, <1>1, <1>i, <1>2, <1>3, <1>4, <1>e, <1>q, <1>o, <1>t, <1>m DEF SessionOk,
       SameEvents, MarksKept, WholeOk, Finishing
  <1>k4. GhostOk(s)'
    BY <1>s, <1>1, <1>i, <1>2, <1>3, <1>4, <1>e, <1>q, <1>o, <1>t, <1>m DEF SessionOk,
       SameEvents, MarksKept, GhostOk, Quiet, Dooming
  <1>k5. StatusOk(s)'
    BY <1>s, <1>1, <1>i, <1>2, <1>3, <1>4, <1>e, <1>q, <1>o, <1>t, <1>m DEF SessionOk,
       SameEvents, MarksKept, StatusOk, Overwritten, Doomed, Dooming
  <1> QED  BY <1>u, <1>k1, <1>k2, <1>k3, <1>k4, <1>k5, UntouchedKeeps DEF SessionInv, SessionOk

\* Steps of an instance's own requests touch no session.
LEMMA NobodyTouched ==
  ASSUME TypeOK, SessionInv, NEW r \in Requests, Others(r), req[r].session = None,
         req'[r].session = None,
         UNCHANGED <<row, mapping, hosted, up, events, stale, broken, loose>>
  PROVE  SessionInv'
  <1> SUFFICES ASSUME NEW x \in Sessions PROVE SessionOk(x)'
    BY DEF SessionInv
  <1>1. Untouched(x)
    BY TenantSessionsAssumption, EventsKept DEF Untouched, Others, MarksKept
  <1> QED  BY <1>1, UntouchedKeeps DEF SessionInv

LEMMA OwnSession ==
  ASSUME TypeOK, NEW r \in Requests
  PROVE  req[r].pc \notin Calling => req[r].session = None
  BY DEF TypeOK, TaskOk

LEMMA RegistryKeeps ==
  ASSUME TypeOK, TypeOK', SessionInv
  PROVE  /\ \A r \in Requests : RegisterWrite(r) \/ HeartbeatWrite(r) => SessionInv'
         /\ \A r \in Requests, g \in Engines : HeartbeatRead(r, g) => SessionInv'
         /\ \A g \in Engines : KeyGone(g) => SessionInv'
         /\ UNCHANGED vars => SessionInv'
  <1>1. ASSUME NEW r \in Requests, RegisterWrite(r) PROVE SessionInv'
    BY <1>1, RegisterWriteMoves, OwnSession, NobodyTouched DEF RegisterWrite, Ends, Calling
  <1>2. ASSUME NEW r \in Requests, HeartbeatWrite(r) PROVE SessionInv'
    BY <1>2, HeartbeatWriteMoves, OwnSession, NobodyTouched DEF HeartbeatWrite, Ends, Calling
  <1>3. ASSUME NEW r \in Requests, NEW g \in Engines, HeartbeatRead(r, g) PROVE SessionInv'
    BY <1>3, HeartbeatReadMoves, OwnSession, NobodyTouched
       DEF HeartbeatRead, Begins, Calling, redis, history
  <1>4. ASSUME UNCHANGED <<row, mapping, hosted, up, events, stale, broken, loose, req>>
        PROVE  SessionInv'
    <2>1. ASSUME NEW x \in Sessions PROVE Untouched(x)
      BY <1>4, EventsKept DEF Untouched, MarksKept
    <2> QED  BY <2>1, UntouchedKeeps DEF SessionInv
  <1>5. ASSUME NEW g \in Engines, KeyGone(g) PROVE SessionInv'
    BY <1>4, <1>5 DEF KeyGone, history
  <1>6. ASSUME UNCHANGED vars PROVE SessionInv'
    BY <1>4, <1>6 DEF vars, redis, history
  <1> QED  BY <1>1, <1>2, <1>3, <1>5, <1>6

LEMMA RegisterResetKeeps ==
  ASSUME TypeOK, TypeOK', SessionInv, NEW r \in Requests, NEW g \in Engines, RegisterReset(r, g)
  PROVE  SessionInv'
  <1>1. Others(r) /\ req[r].session = None /\ req'[r].session = None
    BY RegisterResetMoves, OwnSession DEF Begins, Calling
  <1>2. \A s \in Sessions :
          /\ row'[s].state = row[s].state /\ row'[s].engine = row[s].engine
          /\ row'[s].known = row[s].known
          /\ IF row[s].state = "row" /\ row[s].engine = g
             THEN row'[s].status = "DISCONNECTED" ELSE row'[s] = row[s]
    BY ResetDoes
  <1>3. /\ UNCHANGED <<mapping, hosted, events, broken, loose>> /\ up' = up \cup {g}
        /\ IF g \in up THEN stale' = stale \cup Hosts(g)
           ELSE stale' = stale \ {s \in Hosts(g) : Quiet(s) /\ ~Pending(s)}
    BY DEF RegisterReset, redis
  <1> SUFFICES ASSUME NEW x \in Sessions PROVE SessionOk(x)'
    BY DEF SessionInv
  <1>i. SessionOk(x)
    BY DEF SessionInv
  <1>q. \A q \in Requests : /\ On(q, x)' <=> On(q, x)
                            /\ On(q, x) => req'[q] = req[q]
    BY <1>1, TenantSessionsAssumption DEF Others
  <1>e. SameEvents(x)
    BY <1>3, EventsKept
  <1>4. CASE row[x].engine # g
    <2>1. Untouched(x)
      BY <1>2, <1>3, <1>q, <1>e, <1>4 DEF Untouched, MarksKept, Hosts
    <2> QED  BY <1>i, <2>1, UntouchedKeeps
  <1>5. CASE row[x].engine = g
    <2>1. row[x].state # "none" /\ x \in Hosts(g)
      BY <1>i, <1>5, NoRowShape, TenantSessionsAssumption DEF SessionOk, RowOk, Hosts
    <2>2. RowOk(x)'
      BY <1>i, <1>2, <1>3, <1>5, <1>e, <2>1 DEF SessionOk, RowOk, SameEvents
    <2>3. TasksOk(x)'
      BY <1>i, <1>2, <1>3, <1>q, <1>e, <2>1, NoRowShape DEF SessionOk, TasksOk, SameEvents
    <2>4. WholeOk(x)'
      BY <1>i, <1>2, <1>3, <1>q DEF SessionOk, WholeOk, Finishing
    <2>5. GhostOk(x)'
      BY <1>i, <1>2, <1>3, <1>q DEF SessionOk, GhostOk, Quiet
    <2>6. g \notin up => hosted[x] = "no"
      BY <1>i, <1>5 DEF SessionOk, RowOk
    <2>7. StatusOk(x)'
      <3>1. CASE x \in stale'
        BY <3>1 DEF StatusOk
      <3>2. CASE x \notin stale' /\ x \notin stale
        BY <1>i, <1>2, <1>3, <1>5, <1>q, <1>e, <2>1, <2>6, <3>2
           DEF SessionOk, StatusOk, Overwritten, Doomed, SameEvents
      <3>3. CASE x \notin stale' /\ x \in stale
        <4>1. g \notin up /\ Quiet(x) /\ ~Pending(x)
          BY <1>3, <3>3
        <4>2. ~Pending(x)' /\ ~Delayed(x)' /\ (\A k : ~Says(x, k)') /\ ~Overwritten(x)'
          BY <1>e, <1>q, <4>1 DEF SameEvents, Pending, Delayed, Says, Overwritten, Quiet
        <4>3. Exists(x)' => row'[x].status = "DISCONNECTED"
          BY <1>2, <1>5
        <4> QED  BY <1>3, <2>6, <4>1, <4>2, <4>3 DEF StatusOk
      <3> QED  BY <3>1, <3>2, <3>3
    <2> QED  BY <2>2, <2>3, <2>4, <2>5, <2>7 DEF SessionOk
  <1> QED  BY <1>4, <1>5

LEMMA CreatePickKeeps ==
  ASSUME TypeOK, TypeOK', SessionInv, NEW r \in Requests, NEW s \in Sessions, CreatePick(r, s)
  PROVE  SessionInv'
  <1>i. SessionOk(s)
    BY DEF SessionInv
  <1>1. /\ Others(r) /\ req[r].pc = "idle" /\ req'[r].pc = "insert" /\ req'[r].session = s
    BY CreatePickMoves DEF Begins
  <1>2. req[r].session = None
    BY <1>1, OwnSession DEF Calling
  <1>3. /\ UNCHANGED <<row, mapping, hosted, up, events, stale, broken, loose>>
        /\ row[s] = NoRow /\ Quiet(s)
    BY DEF CreatePick, redis, history
  <1>4. /\ \A q \in Requests : ~On(q, s)
        /\ ~Pending(s) /\ hosted[s] = "no" /\ row[s].state = "none"
    BY <1>i, <1>3, NoRowShape DEF SessionOk, RowOk, Quiet
  <1>u. ASSUME NEW x \in Sessions \ {s}
        PROVE  Untouched(x)
    BY TenantSessionsAssumption, <1>1, <1>2, <1>3, EventsKept DEF Untouched, Others, MarksKept
  <1>e. SameEvents(s)
    BY <1>3, EventsKept
  <1>q. \A q \in Requests : On(q, s)' <=> On(q, s) \/ q = r
    BY <1>1, <1>2, TenantSessionsAssumption DEF Others
  <1>o. \A q \in Requests \ {r} : req'[q] = req[q]
    BY <1>1 DEF Others
  <1>k1. RowOk(s)'
    BY <1>i, <1>1, <1>2, <1>3, <1>4, <1>e, <1>q, <1>o DEF SessionOk, SameEvents, MarksKept,
       RowOk
  <1>k2. TasksOk(s)'
    BY <1>i, <1>1, <1>2, <1>3, <1>4, <1>e, <1>q, <1>o DEF SessionOk, SameEvents, MarksKept,
       TasksOk, Making, Knowing
  <1>k3. WholeOk(s)'
    BY <1>i, <1>1, <1>2, <1>3, <1>4, <1>e, <1>q, <1>o DEF SessionOk, SameEvents, MarksKept,
       WholeOk, Finishing
  <1>k4. GhostOk(s)'
    BY <1>i, <1>1, <1>2, <1>3, <1>4, <1>e, <1>q, <1>o DEF SessionOk, SameEvents, MarksKept,
       GhostOk, Quiet, Dooming
  <1>k5. StatusOk(s)'
    BY <1>i, <1>1, <1>2, <1>3, <1>4, <1>e, <1>q, <1>o DEF SessionOk, SameEvents, MarksKept,
       StatusOk, Overwritten, Doomed, Dooming
  <1> QED  BY <1>u, <1>k1, <1>k2, <1>k3, <1>k4, <1>k5, UntouchedKeeps DEF SessionInv, SessionOk

LEMMA ReconnectReadKeeps ==
  ASSUME TypeOK, TypeOK', SessionInv, NEW r \in Requests, NEW s \in Sessions,
         NEW verb \in {"reconnect", "unlink"},
         ReconnectRead(r, s, verb)
  PROVE  SessionInv'
  <1>i. SessionOk(s)
    BY DEF SessionInv
  <1>1. /\ Others(r) /\ req[r].pc = "idle" /\ req'[r].pc = verb /\ req'[r].session = s
        /\ req'[r].engine = Resolved(s)
    BY ReconnectReadMoves DEF Begins
  <1>2. req[r].session = None
    BY <1>1, OwnSession DEF Calling
  <1>3. /\ UNCHANGED <<row, mapping, hosted, up, events, stale, broken>>
        /\ loose' = IF Quiet(s) THEN loose ELSE loose \cup {s}
        /\ row[s].state = "row" /\ row[s].known
    BY DEF ReconnectRead, redis, Overlap
  <1>4. req'[r].engine = row[s].engine
    BY <1>i, <1>1 DEF SessionOk, RowOk, Resolved
  <1>5. \A q \in Requests : On(q, s) => req[q].pc # "insert"
    BY <1>i, <1>3, NoRowShape DEF SessionOk, TasksOk
  <1>u. ASSUME NEW x \in Sessions \ {s}
        PROVE  Untouched(x)
    BY TenantSessionsAssumption, <1>1, <1>2, <1>3, EventsKept DEF Untouched, Others, MarksKept
  <1>e. SameEvents(s)
    BY <1>3, EventsKept
  <1>q. \A q \in Requests : On(q, s)' <=> On(q, s) \/ q = r
    BY <1>1, <1>2, TenantSessionsAssumption DEF Others
  <1>o. \A q \in Requests \ {r} : req'[q] = req[q]
    BY <1>1 DEF Others
  <1>k1. RowOk(s)'
    BY <1>i, <1>1, <1>2, <1>3, <1>4, <1>5, <1>e, <1>q, <1>o DEF SessionOk, SameEvents,
       MarksKept, RowOk
  <1>k2. TasksOk(s)'
    BY <1>i, <1>1, <1>2, <1>3, <1>4, <1>5, <1>e, <1>q, <1>o DEF SessionOk, SameEvents,
       MarksKept, TasksOk, Making, Knowing
  <1>k3. WholeOk(s)'
    BY <1>i, <1>1, <1>2, <1>3, <1>4, <1>5, <1>e, <1>q, <1>o DEF SessionOk, SameEvents,
       MarksKept, WholeOk, Finishing
  <1>k4. GhostOk(s)'
    BY <1>i, <1>1, <1>2, <1>3, <1>4, <1>5, <1>e, <1>q, <1>o DEF SessionOk, SameEvents,
       MarksKept, GhostOk, Quiet, Dooming
  <1>k5. StatusOk(s)'
    BY <1>i, <1>1, <1>2, <1>3, <1>4, <1>5, <1>e, <1>q, <1>o DEF SessionOk, SameEvents,
       MarksKept, StatusOk, Overwritten, Doomed, Dooming
  <1> QED  BY <1>u, <1>k1, <1>k2, <1>k3, <1>k4, <1>k5, UntouchedKeeps DEF SessionInv, SessionOk

LEMMA DeleteReadKeeps ==
  ASSUME TypeOK, TypeOK', SessionInv, NEW r \in Requests, NEW s \in Sessions, DeleteRead(r, s)
  PROVE  SessionInv'
  <1>i. SessionOk(s)
    BY DEF SessionInv
  <1>1. /\ Others(r) /\ req[r].pc = "idle" /\ req'[r].session = s /\ req'[r].engine = row[s].engine
        /\ req'[r].pc = IF row[s].known THEN "engine" ELSE "release"
    BY DeleteReadMoves DEF Begins
  <1>2. req[r].session = None
    BY <1>1, OwnSession DEF Calling
  <1>3. /\ UNCHANGED <<row, mapping, hosted, up, events, stale, broken>>
        /\ loose' = IF Quiet(s) THEN loose ELSE loose \cup {s}
        /\ row[s].state = "row"
    BY DEF DeleteRead, redis, Overlap
  <1>4. Quiet(s) /\ s \notin broken => row[s].known
    BY <1>i, <1>3 DEF SessionOk, WholeOk, Finishing, Quiet
  <1>5. \A q \in Requests : On(q, s) => req[q].pc # "insert"
    BY <1>i, <1>3, NoRowShape DEF SessionOk, TasksOk
  <1>u. ASSUME NEW x \in Sessions \ {s}
        PROVE  Untouched(x)
    BY TenantSessionsAssumption, <1>1, <1>2, <1>3, EventsKept DEF Untouched, Others, MarksKept
  <1>e. SameEvents(s)
    BY <1>3, EventsKept
  <1>q. \A q \in Requests : On(q, s)' <=> On(q, s) \/ q = r
    BY <1>1, <1>2, TenantSessionsAssumption DEF Others
  <1>o. \A q \in Requests \ {r} : req'[q] = req[q]
    BY <1>1 DEF Others
  <1>k1. RowOk(s)'
    BY <1>i, <1>1, <1>2, <1>3, <1>4, <1>5, <1>e, <1>q, <1>o DEF SessionOk, SameEvents,
       MarksKept, RowOk
  <1>k2. TasksOk(s)'
    BY <1>i, <1>1, <1>2, <1>3, <1>4, <1>5, <1>e, <1>q, <1>o DEF SessionOk, SameEvents,
       MarksKept, TasksOk, Making, Knowing
  <1>k3. WholeOk(s)'
    BY <1>i, <1>1, <1>2, <1>3, <1>4, <1>5, <1>e, <1>q, <1>o DEF SessionOk, SameEvents,
       MarksKept, WholeOk, Finishing
  <1>k4. GhostOk(s)'
    BY <1>i, <1>1, <1>2, <1>3, <1>4, <1>5, <1>e, <1>q, <1>o DEF SessionOk, SameEvents,
       MarksKept, GhostOk, Quiet, Dooming
  <1>k5. StatusOk(s)'
    BY <1>i, <1>1, <1>2, <1>3, <1>4, <1>5, <1>e, <1>q, <1>o DEF SessionOk, SameEvents,
       MarksKept, StatusOk, Overwritten, Doomed, Dooming
  <1> QED  BY <1>u, <1>k1, <1>k2, <1>k3, <1>k4, <1>k5, UntouchedKeeps DEF SessionInv, SessionOk

LEMMA RequestLostKeeps ==
  ASSUME TypeOK, TypeOK', SessionInv, NEW r \in Requests, RequestLost(r)
  PROVE  SessionInv'
  <1>1. Others(r) /\ req'[r].session = None
    BY RequestLostMoves DEF Ends
  <1>2. /\ UNCHANGED <<row, mapping, hosted, up, events, loose>>
        /\ IF req[r].session # None
           THEN broken' = broken \cup {req[r].session} /\ stale' = stale \cup {req[r].session}
           ELSE UNCHANGED <<broken, stale>>
    BY DEF RequestLost, redis
  <1> SUFFICES ASSUME NEW x \in Sessions PROVE SessionOk(x)'
    BY DEF SessionInv
  <1>i. SessionOk(x)
    BY DEF SessionInv
  <1>e. SameEvents(x)
    BY <1>2, EventsKept
  <1>3. CASE req[r].session # x
    <2>1. Untouched(x)
      BY <1>1, <1>2, <1>3, <1>e, TenantSessionsAssumption DEF Untouched, Others, MarksKept
    <2> QED  BY <1>i, <2>1, UntouchedKeeps
  <1>4. CASE req[r].session = x
    <2>1. x \in broken' /\ x \in stale'
      BY <1>2, <1>4, TenantSessionsAssumption
    <2>2. \A q \in Requests : On(q, x)' => On(q, x) /\ req'[q] = req[q]
      BY <1>1, TenantSessionsAssumption DEF Others
    <2>3. RowOk(x)'
      BY <1>i, <1>2, <1>e DEF SessionOk, RowOk, SameEvents
    <2>4. TasksOk(x)'
      BY <1>i, <1>2, <1>e, <2>2 DEF SessionOk, TasksOk, SameEvents
    <2> QED  BY <2>1, <2>3, <2>4 DEF SessionOk, WholeOk, GhostOk, StatusOk
  <1> QED  BY <1>3, <1>4

LEMMA EngineEventKeeps ==
  ASSUME TypeOK, TypeOK', SessionInv, NEW s \in Sessions,
         EngineConnects(s) \/ EngineDisconnects(s)
  PROVE  SessionInv'
  <1>1. PICK k \in {"CONNECTED", "DISCONNECTED"} :
          /\ hosted[s] # "no" /\ events' = Append(events, [session |-> s, kind |-> k, delayed |-> FALSE])
          /\ hosted' = [hosted EXCEPT ![s] = IF k = "CONNECTED" THEN "linked" ELSE "linking"]
          /\ stale' = IF Delayed(s) THEN stale ELSE stale \ {s}
    BY DEF EngineConnects, EngineDisconnects, Post
  <1>2. UNCHANGED <<row, mapping, up, req, broken, loose>>
    BY DEF EngineConnects, EngineDisconnects, redis
  <1>3. PICK e \in Event : e.session = s /\ e.kind = k /\ e.delayed = FALSE /\ events' = Append(events, e)
    <2>1. [session |-> s, kind |-> k, delayed |-> FALSE] \in Event
      BY DEF Event
    <2> QED  BY <1>1, <2>1
  <1>4. /\ Pending(s)' /\ (Delayed(s)' <=> Delayed(s)) /\ \A w : Says(s, w)' <=> w = k
        /\ \A x \in Sessions \ {s} : SameEvents(x)
    BY <1>3, AppendDoes DEF SameEvents
  <1>5. hosted'[s] = (IF k = "CONNECTED" THEN "linked" ELSE "linking")
        /\ \A x \in Sessions \ {s} : hosted'[x] = hosted[x]
    BY <1>1 DEF TypeOK
  <1>6. ASSUME NEW x \in Sessions \ {s}
        PROVE  Untouched(x)
    BY <1>1, <1>2, <1>4, <1>5, <1>6 DEF Untouched, MarksKept
  <1>i. SessionOk(s)
    BY DEF SessionInv
  <1>7. row[s].state # "none"
    BY <1>i, <1>1 DEF SessionOk, RowOk
  <1>8. RowOk(s)'
    BY <1>i, <1>1, <1>2, <1>5, <1>7 DEF SessionOk, RowOk
  <1>9. TasksOk(s)'
    BY <1>i, <1>1, <1>2, <1>7 DEF SessionOk, TasksOk
  <1>10. WholeOk(s)'
    BY <1>i, <1>2 DEF SessionOk, WholeOk, Finishing
  <1>11. GhostOk(s)'
    BY <1>i, <1>1, <1>2, <1>5 DEF SessionOk, GhostOk, Quiet
  <1>12. StatusOk(s)'
    BY <1>i, <1>1, <1>2, <1>4, <1>5 DEF SessionOk, StatusOk
  <1> QED  BY <1>6, <1>8, <1>9, <1>10, <1>11, <1>12, UntouchedKeeps DEF SessionInv, SessionOk

LEMMA MappingExpiresKeeps ==
  ASSUME TypeOK, TypeOK', SessionInv, NEW s \in Sessions, MappingExpires(s)
  PROVE  SessionInv'
  <1>1. /\ UNCHANGED <<row, hosted, up, events, req, stale, loose>>
        /\ mapping' = [mapping EXCEPT ![s] = None] /\ broken' = broken \cup {s}
    BY DEF MappingExpires
  <1>2. ASSUME NEW x \in Sessions \ {s} PROVE Untouched(x)
    BY <1>1, EventsKept DEF Untouched, MarksKept
  <1>i. SessionOk(s)
    BY DEF SessionInv
  <1>3. mapping'[s] = None /\ s \in broken' /\ SameEvents(s)
    BY <1>1, EventsKept DEF TypeOK
  <1>4. RowOk(s)'
    BY <1>i, <1>1, <1>3 DEF SessionOk, RowOk, SameEvents
  <1>5. TasksOk(s)'
    BY <1>i, <1>1, <1>3 DEF SessionOk, TasksOk, SameEvents
  <1>6. StatusOk(s)'
    BY <1>i, <1>1, <1>3 DEF SessionOk, StatusOk, Overwritten, Doomed, SameEvents
  <1> QED  BY <1>2, <1>3, <1>4, <1>5, <1>6, UntouchedKeeps DEF SessionInv, SessionOk, WholeOk,
  GhostOk

LEMMA EngineCrashesKeeps ==
  ASSUME TypeOK, TypeOK', SessionInv, NEW g \in Engines, EngineCrashes(g)
  PROVE  SessionInv'
  <1>1. /\ UNCHANGED <<row, mapping, events, req, broken, loose>> /\ up' = up \ {g}
        /\ hosted' = [s \in Sessions |-> IF s \in Hosts(g) THEN "no" ELSE hosted[s]]
        /\ stale' = stale \cup Hosts(g)
    BY DEF EngineCrashes, redis
  <1> SUFFICES ASSUME NEW x \in Sessions PROVE SessionOk(x)'
    BY DEF SessionInv
  <1>i. SessionOk(x)
    BY DEF SessionInv
  <1>e. SameEvents(x)
    BY <1>1, EventsKept
  <1>2. CASE x \notin Hosts(g)
    <2>1. Untouched(x)
      BY <1>1, <1>2, <1>e DEF Untouched, MarksKept, Hosts
    <2> QED  BY <1>i, <2>1, UntouchedKeeps
  <1>3. CASE x \in Hosts(g)
    <2>1. hosted'[x] = "no" /\ x \in stale'
      BY <1>1, <1>3
    <2>2. RowOk(x)'
      BY <1>i, <1>1, <1>e, <2>1 DEF SessionOk, RowOk, SameEvents
    <2>3. TasksOk(x)'
      BY <1>i, <1>1, <1>e, <2>1 DEF SessionOk, TasksOk, SameEvents
    <2>4. WholeOk(x)'
      BY <1>i, <1>1 DEF SessionOk, WholeOk, Finishing
    <2>5. GhostOk(x)'
      BY <1>i, <1>1, <2>1 DEF SessionOk, GhostOk
    <2> QED  BY <2>1, <2>2, <2>3, <2>4, <2>5 DEF SessionOk, StatusOk
  <1> QED  BY <1>2, <1>3

LEMMA HandleSessionEventKeeps ==
  ASSUME TypeOK, TypeOK', SessionInv, NEW i \in DOMAIN events, HandleSessionEvent(i)
  PROVE  SessionInv'
  <1>s. PICK s : s = events[i].session
    OBVIOUS
  <1>k. PICK k : k = events[i].kind
    OBVIOUS
  <1>1. s \in Sessions /\ k \in {"CONNECTED", "DISCONNECTED"} /\ k \in Statuses /\ Pending(s)
    BY <1>s, <1>k, EventType DEF Pending
  <1>2. /\ UNCHANGED <<mapping, hosted, up, req, broken, loose>> /\ events' = Without(i) /\ Taken(i)
        /\ stale' = IF Overwritten(s) \/ ~row[s].known THEN stale \cup {s} ELSE stale
    BY <1>s DEF HandleSessionEvent, redis
  <1>3. /\ RowsOfOthers(s) /\ row'[s].state = row[s].state
        /\ row'[s].engine = row[s].engine /\ row'[s].known = row[s].known
        /\ IF row[s].state = "row" /\ row[s].known THEN row'[s].status = k ELSE row'[s] = row[s]
    BY <1>s, <1>k, <1>1, StatusDoes DEF HandleSessionEvent, RowsOfOthers, TypeOK
  <1>4. /\ \A x \in Sessions \ {s} : SameEvents(x)
        /\ (Pending(s)' => Pending(s)) /\ (Delayed(s)' => Delayed(s))
        /\ ~Pending(s)' => Says(s, k)
        /\ ~Delayed(s) => \A w : Says(s, w)' => Says(s, w)
    BY <1>s, <1>k, <1>1, <1>2, WithoutDoes DEF SameEvents
  <1>u. ASSUME NEW x \in Sessions \ {s} PROVE Untouched(x)
    BY <1>2, <1>3, <1>4 DEF Untouched, MarksKept, RowsOfOthers
  <1>i. SessionOk(s)
    BY <1>1 DEF SessionInv
  <1>5. row[s].state # "none"
    BY <1>i, <1>1 DEF SessionOk, RowOk
  <1>6. RowOk(s)'
    BY <1>i, <1>2, <1>3, <1>5 DEF SessionOk, RowOk
  <1>7. TasksOk(s)'
    BY <1>i, <1>1, <1>2, <1>3, <1>5, NoRowShape DEF SessionOk, TasksOk
  <1>8. WholeOk(s)'
    BY <1>i, <1>2, <1>3 DEF SessionOk, WholeOk, Finishing
  <1>9. GhostOk(s)'
    BY <1>i, <1>2, <1>3 DEF SessionOk, GhostOk, Quiet
  <1>10. StatusOk(s)'
    <2> SUFFICES ASSUME s \notin stale' PROVE StatusOk(s)'
      BY DEF StatusOk
    <2>1. s \notin stale /\ ~Overwritten(s) /\ row[s].known /\ ~Delayed(s)
      BY <1>i, <1>2 DEF SessionOk, StatusOk
    <2>2. ~Delayed(s)' /\ ~Overwritten(s)' /\ (Doomed(s)' <=> Doomed(s)) /\ (Exists(s)' <=> Exists(s))
      BY <1>2, <1>3, <1>4, <2>1 DEF Overwritten, Doomed
    <2>3. ASSUME Exists(s), ~Doomed(s), ~Pending(s)'
          PROVE  row'[s].status = "CONNECTED" <=> hosted'[s] = "linked"
      BY <1>i, <1>1, <1>2, <1>3, <1>4, <2>1, <2>3 DEF SessionOk, StatusOk
    <2>4. ASSUME Exists(s), ~Doomed(s), NEW w \in {"CONNECTED", "DISCONNECTED"}, Says(s, w)'
          PROVE  w = "CONNECTED" <=> hosted'[s] = "linked"
      BY <1>i, <1>2, <1>4, <2>1, <2>4 DEF SessionOk, StatusOk
    <2> QED  BY <2>2, <2>3, <2>4 DEF StatusOk
  <1> QED  BY <1>u, <1>6, <1>7, <1>8, <1>9, <1>10, UntouchedKeeps DEF SessionInv, SessionOk

LEMMA EventFailsKeeps ==
  ASSUME TypeOK, TypeOK', SessionInv, NEW i \in DOMAIN events, EventFails(i)
  PROVE  SessionInv'
  <1>s. PICK s : s = events[i].session
    OBVIOUS
  <1>1. s \in Sessions
    BY <1>s, EventType
  <1>2. /\ UNCHANGED <<row, mapping, hosted, up, req, broken, loose>>
        /\ events' = [events EXCEPT ![i].delayed = TRUE] \/ events' = Without(i)
        /\ stale' = stale \cup {s}
    BY <1>s DEF EventFails, redis
  <1>3. (Pending(s)' => Pending(s)) /\ \A x \in Sessions \ {s} : SameEvents(x)
    <2>1. CASE events' = [events EXCEPT ![i].delayed = TRUE]
      BY <1>s, <2>1, DelayDoes DEF SameEvents
    <2>2. CASE events' = Without(i)
      BY <1>s, <2>2, WithoutDoes DEF SameEvents
    <2> QED  BY <1>2, <2>1, <2>2
  <1>u. ASSUME NEW x \in Sessions \ {s} PROVE Untouched(x)
    BY <1>2, <1>3 DEF Untouched, MarksKept
  <1>i. SessionOk(s)
    BY <1>1 DEF SessionInv
  <1>4. RowOk(s)'
    BY <1>i, <1>2, <1>3 DEF SessionOk, RowOk
  <1>5. TasksOk(s)'
    BY <1>i, <1>2, <1>3 DEF SessionOk, TasksOk
  <1>6. WholeOk(s)'
    BY <1>i, <1>2 DEF SessionOk, WholeOk, Finishing
  <1>7. GhostOk(s)'
    BY <1>i, <1>2 DEF SessionOk, GhostOk, Quiet
  <1>8. StatusOk(s)'
    BY <1>2 DEF StatusOk
  <1> QED  BY <1>u, <1>4, <1>5, <1>6, <1>7, <1>8, UntouchedKeeps DEF SessionInv, SessionOk

LEMMA SessionInit == Init => SessionInv
  <1> SUFFICES ASSUME Init, NEW s \in Sessions PROVE SessionOk(s)
    BY DEF SessionInv
  <1>1. row[s] = NoRow /\ row[s].state = "none" /\ row[s].known = FALSE /\ row[s].status = "INITIALIZING"
    BY NoRowShape DEF Init
  <1>2. mapping[s] = None /\ hosted[s] = "no" /\ ~Pending(s) /\ stale = {}
    BY DEF Init, Pending
  <1>3. \A r \in Requests : ~On(r, s)
    <2>1. Idle.session = None
      BY TaskShape DEF Pcs
    <2> HIDE DEF Idle
    <2> QED  BY <2>1, TenantSessionsAssumption DEF Init
  <1>4. ~Delayed(s)
    BY <1>2 DEF Pending, Delayed
  <1> QED  BY <1>1, <1>2, <1>3, <1>4 DEF SessionOk, RowOk, TasksOk, WholeOk, GhostOk, Quiet,
  StatusOk

LEMMA SessionStep == TypeOK /\ TypeOK' /\ SessionInv /\ [Next]_vars => SessionInv'
  <1> SUFFICES ASSUME TypeOK, TypeOK', SessionInv, [Next]_vars PROVE SessionInv'
    OBVIOUS
  <1>1. ASSUME NEW r \in Requests, Ask(r) PROVE SessionInv'
    BY <1>1, RegistryKeeps, RegisterResetKeeps, CreatePickKeeps, ReconnectReadKeeps,
       DeleteReadKeeps
       DEF Ask
  <1>2. ASSUME NEW r \in Requests, GoOn(r) PROVE SessionInv'
    BY <1>2, RegistryKeeps, IncReadKeeps, IncWriteKeeps, DecReadKeeps, DecWriteKeeps,
       CreateRowKeeps,
       CreatePostKeeps, CreateFailsKeeps, CreateRollbackKeeps, CreateSaveIdKeeps,
       CreateMapKeeps,
       ReconnectPostKeeps, ReconnectWriteKeeps, DeleteEngineKeeps, ReleaseKeeps, UnmapKeeps,
       DeleteRowKeeps, RequestLostKeeps DEF GoOn
  <1>3. ASSUME NEW s \in Sessions,
               EngineConnects(s) \/ EngineDisconnects(s) \/ MappingExpires(s)
        PROVE  SessionInv'
    BY <1>3, EngineEventKeeps, MappingExpiresKeeps
  <1>4. ASSUME NEW g \in Engines, EngineCrashes(g) \/ KeyGone(g) PROVE SessionInv'
    BY <1>4, EngineCrashesKeeps, RegistryKeeps
  <1>5. ASSUME NEW i \in DOMAIN events, HandleSessionEvent(i) \/ EventFails(i) PROVE SessionInv'
    BY <1>5, HandleSessionEventKeeps, EventFailsKeeps
  <1> QED  BY <1>1, <1>2, <1>3, <1>4, <1>5, RegistryKeeps DEF Next

LEMMA SessionsMeet ==
  ASSUME TypeOK, SessionInv
  PROVE  RowIsWhole /\ StatusFollowsEngine /\ NoGhosts
  <1>1. RowIsWhole
    <2> SUFFICES ASSUME NEW s \in Sessions \ broken, Exists(s), ~Working(s)
                 PROVE  row[s].known /\ mapping[s] = row[s].engine
      BY DEF RowIsWhole
    <2> QED  BY DEF SessionInv, SessionOk, WholeOk, Finishing, Working
  <1>2. StatusFollowsEngine
    <2> SUFFICES ASSUME NEW s \in Sessions \ stale, Exists(s), Quiet(s), ~Pending(s)
                 PROVE  row[s].status = "CONNECTED" <=> hosted[s] = "linked"
      BY DEF StatusFollowsEngine
    <2> QED  BY DEF SessionInv, SessionOk, StatusOk, Overwritten, Doomed, Quiet
  <1>3. NoGhosts
    BY DEF NoGhosts, SessionInv, SessionOk, GhostOk
  <1> QED  BY <1>1, <1>2, <1>3

-----------------------------------------------------------------------------
(***************************************************************************)
(* CountInv.                                                               *)
(***************************************************************************)
Counters == {"incRead", "incWrite", "decRead", "decWrite", "unmap"}

LEMMA FewRequests ==
  /\ IsFiniteSet(Requests)
  /\ \A g : /\ IsFiniteSet(Coming(g)) /\ Cardinality(Coming(g)) \in Nat
            /\ IsFiniteSet(Leaving(g)) /\ Cardinality(Leaving(g)) \in Nat
  <1>1. IsFiniteSet(Requests)
    <2>1. 1 \in Int /\ Slots \in Int
      BY TenantSessionsAssumption
    <2> QED  BY <2>1, FS_Interval
  <1>2. \A g : Coming(g) \subseteq Requests /\ Leaving(g) \subseteq Requests
    BY DEF Coming, Leaving
  <1> HIDE DEF Requests
  <1> QED  BY <1>1, <1>2, FS_Subset, FS_CardinalityType

ExactFor(g) == registry[g] # Gone =>
  registry[g] + Cardinality(Coming(g)) + Cardinality(Leaving(g)) = Cardinality(Mapped(g))
ReleaseOk(r) == At(r, {"decRead", "decWrite", "unmap"}) /\ req[r].engine \in exact =>
  /\ mapping[req[r].session] = req[r].engine
  /\ \A q \in Requests \ {r} :
       ~(At(q, {"decRead", "decWrite", "unmap"}) /\ On(q, req[r].session))

LEMMA CountParts ==
  CountInv <=> /\ \A g \in exact : ExactFor(g)
               /\ \A g \in Engines : IsFiniteSet(Mapped(g))
               /\ \A r \in Requests : ReleaseOk(r)
  BY DEF CountInv, CountIsExact, ExactFor, ReleaseOk

LEMMA CountPartsNext ==
  ASSUME \A g \in exact' : ExactFor(g)', \A g \in Engines : IsFiniteSet(Mapped(g)'),
         \A r \in Requests : ReleaseOk(r)'
  PROVE  CountInv'
  <1>1. CountIsExact'
    BY DEF CountIsExact, ExactFor
  <1>2. \A r \in Requests : At(r, {"decRead", "decWrite", "unmap"})' /\ req'[r].engine \in exact' =>
          /\ mapping'[req'[r].session] = req'[r].engine
          /\ \A q \in Requests \ {r} :
               ~(At(q, {"decRead", "decWrite", "unmap"})' /\ On(q, req[r].session)')
    BY DEF ReleaseOk
  <1> QED  BY <1>1, <1>2 DEF CountInv

\* A step that leaves Redis alone, and whose request counts nothing.
LEMMA UncountedKeeps ==
  ASSUME TypeOK, CountInv, NEW r \in Requests, Others(r),
         UNCHANGED redis, exact' \subseteq exact, req'[r].pc \notin Counters,
         req[r].pc \in Counters => req[r].engine \notin exact'
  PROVE  CountInv'
  <1>1. \A g \in Engines : Mapped(g)' = Mapped(g)
    BY DEF Mapped, redis
  <1>2. \A g \in exact' : Coming(g)' = Coming(g) /\ Leaving(g)' = Leaving(g)
    BY DEF Coming, Leaving, Others, Counters
  <1>3. \A g \in exact' : ExactFor(g)'
    BY <1>1, <1>2, CountParts DEF ExactFor, redis, TypeOK
  <1>4. \A q \in Requests : ReleaseOk(q)'
    BY CountParts DEF ReleaseOk, Others, redis, Counters
  <1>5. \A g \in Engines : IsFiniteSet(Mapped(g)')
    BY <1>1, CountParts
  <1> QED  BY <1>3, <1>4, <1>5, CountPartsNext

LEMMA UnaskedKeeps ==
  ASSUME CountInv, UNCHANGED <<redis, req>>, exact' \subseteq exact
  PROVE  CountInv'
  <1>1. \A g : Mapped(g)' = Mapped(g) /\ Coming(g)' = Coming(g) /\ Leaving(g)' = Leaving(g)
    BY DEF Mapped, Coming, Leaving, redis
  <1>2. \A g \in exact' : ExactFor(g)'
    BY <1>1, CountParts DEF ExactFor, redis
  <1>3. \A q \in Requests : ReleaseOk(q)'
    BY CountParts DEF ReleaseOk, redis
  <1>4. \A g \in Engines : IsFiniteSet(Mapped(g)')
    BY <1>1, CountParts
  <1> QED  BY <1>2, <1>3, <1>4, CountPartsNext

\* What the move of one request does to the requests that count.
Bit(b) == IF b THEN 1 ELSE 0
ComingAt(t, g)  == t.pc \in {"incRead", "incWrite"} /\ t.engine = g
LeavingAt(t, g) == t.pc = "unmap" /\ t.engine = g

LEMMA OneCounts ==
  ASSUME NEW r \in Requests, Others(r), NEW g
  PROVE  /\ Cardinality(Coming(g)') = Cardinality(Coming(g)) + Bit(ComingAt(req'[r], g))
                                        - Bit(ComingAt(req[r], g))
         /\ Cardinality(Leaving(g)') = Cardinality(Leaving(g)) + Bit(LeavingAt(req'[r], g))
                                         - Bit(LeavingAt(req[r], g))
  <1>1. IsFiniteSet(Coming(g)) /\ Cardinality(Coming(g)) \in Nat
    BY FewRequests
  <1>2. IsFiniteSet(Leaving(g)) /\ Cardinality(Leaving(g)) \in Nat
    BY FewRequests
  <1>3. Coming(g)' = IF ComingAt(req'[r], g) THEN Coming(g) \cup {r} ELSE Coming(g) \ {r}
    BY DEF Coming, ComingAt, Others
  <1>4. Leaving(g)' = IF LeavingAt(req'[r], g) THEN Leaving(g) \cup {r} ELSE Leaving(g) \ {r}
    BY DEF Leaving, LeavingAt, Others
  <1>5. (r \in Coming(g) <=> ComingAt(req[r], g)) /\ (r \in Leaving(g) <=> LeavingAt(req[r], g))
    BY DEF Coming, Leaving, ComingAt, LeavingAt
  <1>6. Cardinality(Coming(g)') = Cardinality(Coming(g)) + Bit(ComingAt(req'[r], g)) - Bit(ComingAt(req[r], g))
    <2> DEFINE C == Coming(g)
    <2>1. /\ Cardinality(C \cup {r}) = IF r \in C THEN Cardinality(C) ELSE Cardinality(C) + 1
          /\ Cardinality(C \ {r}) = IF r \in C THEN Cardinality(C) - 1 ELSE Cardinality(C)
      BY <1>1, FS_AddElement, FS_RemoveElement
    <2> QED  BY <2>1, <1>1, <1>3, <1>5 DEF Bit
  <1>7. Cardinality(Leaving(g)') = Cardinality(Leaving(g)) + Bit(LeavingAt(req'[r], g)) - Bit(LeavingAt(req[r], g))
    <2> DEFINE C == Leaving(g)
    <2>1. /\ Cardinality(C \cup {r}) = IF r \in C THEN Cardinality(C) ELSE Cardinality(C) + 1
          /\ Cardinality(C \ {r}) = IF r \in C THEN Cardinality(C) - 1 ELSE Cardinality(C)
      BY <1>2, FS_AddElement, FS_RemoveElement
    <2> QED  BY <2>1, <1>2, <1>4, <1>5 DEF Bit
  <1> QED  BY <1>6, <1>7

\* What a new mapping of one session does to the sessions of an instance.
LEMMA OneMapped ==
  ASSUME TypeOK, CountInv, NEW s \in Sessions, NEW x, mapping' = [mapping EXCEPT ![s] = x],
         NEW g \in Engines
  PROVE  /\ IsFiniteSet(Mapped(g)')
         /\ Cardinality(Mapped(g)) \in Nat
         /\ mapping[s] = g => Cardinality(Mapped(g)') = Cardinality(Mapped(g)) - (IF x = g THEN 0 ELSE 1)
         /\ mapping[s] # g => Cardinality(Mapped(g)') = Cardinality(Mapped(g)) + (IF x = g THEN 1 ELSE 0)
  <1>1. IsFiniteSet(Mapped(g)) /\ Cardinality(Mapped(g)) \in Nat
    BY CountParts, FS_CardinalityType
  <1>2. Mapped(g)' = IF x = g THEN Mapped(g) \cup {s} ELSE Mapped(g) \ {s}
    BY DEF Mapped, TypeOK
  <1>3. s \in Mapped(g) <=> mapping[s] = g
    BY DEF Mapped
  <1> DEFINE C == Mapped(g)
  <1>4. /\ IsFiniteSet(C \cup {s}) /\ IsFiniteSet(C \ {s})
        /\ Cardinality(C \cup {s}) = IF s \in C THEN Cardinality(C) ELSE Cardinality(C) + 1
        /\ Cardinality(C \ {s}) = IF s \in C THEN Cardinality(C) - 1 ELSE Cardinality(C)
    BY <1>1, FS_AddElement, FS_RemoveElement
  <1> QED  BY <1>1, <1>2, <1>3, <1>4

LEMMA SameMapped ==
  ASSUME CountInv, UNCHANGED mapping, NEW g \in Engines
  PROVE  Mapped(g)' = Mapped(g) /\ IsFiniteSet(Mapped(g)') /\ Cardinality(Mapped(g)) \in Nat
  <1>1. Mapped(g)' = Mapped(g)
    BY DEF Mapped
  <1> QED  BY <1>1, CountParts, FS_CardinalityType

LEMMA Tally ==
  ASSUME TypeOK, CountInv, NEW g \in exact
  PROVE  /\ g \in Engines /\ registry[g] \in {Gone} \cup Nat
         /\ Cardinality(Coming(g)) \in Nat /\ Cardinality(Leaving(g)) \in Nat
         /\ Cardinality(Mapped(g)) \in Nat
         /\ registry[g] # Gone =>
              registry[g] + Cardinality(Coming(g)) + Cardinality(Leaving(g)) = Cardinality(Mapped(g))
  <1>1. g \in Engines /\ registry[g] \in {Gone} \cup Nat
    BY TenantSessionsAssumption DEF TypeOK
  <1>2. Cardinality(Mapped(g)) \in Nat
    BY <1>1, CountParts, FS_CardinalityType
  <1>3. ExactFor(g)
    BY CountParts
  <1> QED  BY <1>1, <1>2, <1>3, FewRequests DEF ExactFor

\* A step that maps nothing, and begins no release.
Release3 == {"decRead", "decWrite", "unmap"}
LEMMA ReleasesKept ==
  ASSUME CountInv, NEW r \in Requests, Others(r), UNCHANGED mapping, exact' \subseteq exact,
         req'[r].pc \in Release3 =>
           req[r].pc \in Release3 /\ req'[r].session = req[r].session /\ req'[r].engine = req[r].engine
  PROVE  \A q \in Requests : ReleaseOk(q)'
  BY CountParts DEF ReleaseOk, Others, Release3

LEMMA RegisterWriteCounts ==
  ASSUME TypeOK, CountInv, NEW r \in Requests, RegisterWrite(r)
  PROVE  CountInv'
  <1>g. PICK h : h = req[r].engine
    OBVIOUS
  <1>1. /\ Ends(r) /\ req[r].pc = "register" /\ UNCHANGED mapping
        /\ registry' = [registry EXCEPT ![h] = 0]
        /\ exact' = IF Mapped(h) = {} /\ ~Counting(h) THEN exact \cup {h} ELSE exact \ {h}
    BY <1>g, RegisterWriteMoves DEF RegisterWrite
  <1>h. h \in Engines
    BY <1>1, <1>g, WhoCalls
  <1>2. ASSUME NEW g \in exact', g # h PROVE ExactFor(g)'
    <2>1. g \in exact /\ registry'[g] = registry[g]
      BY <1>1, <1>2 DEF TypeOK
    <2>2. /\ Cardinality(Coming(g)') = Cardinality(Coming(g))
          /\ Cardinality(Leaving(g)') = Cardinality(Leaving(g))
      BY <1>1, <2>1, OneCounts, Tally DEF Ends, Bit, ComingAt, LeavingAt
    <2> QED  BY <1>1, <2>1, <2>2, SameMapped, Tally DEF ExactFor
  <1>3. ASSUME h \in exact' PROVE ExactFor(h)'
    <2>1. Mapped(h) = {} /\ ~Counting(h)
      BY <1>1, <1>3
    <2>2. Coming(h)' = {} /\ Leaving(h)' = {} /\ Mapped(h)' = {}
      BY <2>1, <1>1 DEF Ends, Others, Counting, Coming, Leaving, Mapped
    <2>3. registry'[h] = 0
      BY <1>h, <1>1 DEF TypeOK
    <2> QED  BY <2>2, <2>3, FS_EmptySet DEF ExactFor
  <1>4. ASSUME NEW q \in Requests PROVE ReleaseOk(q)'
    <2> SUFFICES ASSUME req'[q].pc \in Release3, req'[q].engine \in exact'
                 PROVE  ReleaseOk(q)'
      BY DEF ReleaseOk, Release3
    <2>1. q # r /\ req'[q] = req[q]
      BY <1>1 DEF Ends, Others, Release3
    <2>2. req[q].engine # h
      BY <2>1, <1>1 DEF Counting, Release3
    <2> QED  BY <1>1, <2>1, <2>2, CountParts DEF ReleaseOk, Ends, Others
  <1>5. \A g \in Engines : IsFiniteSet(Mapped(g)')
    BY <1>1, SameMapped
  <1> QED  BY <1>2, <1>3, <1>4, <1>5, CountPartsNext

LEMMA HeartbeatWriteCounts ==
  ASSUME TypeOK, CountInv, NEW r \in Requests, HeartbeatWrite(r)
  PROVE  CountInv'
  <1>g. PICK h, n : h = req[r].engine /\ n = req[r].seen
    OBVIOUS
  <1>1. /\ Ends(r) /\ req[r].pc = "heartbeat" /\ UNCHANGED mapping
        /\ registry' = [registry EXCEPT ![h] = n]
        /\ exact' = IF n = registry[h] THEN exact ELSE exact \ {h}
    BY <1>g, HeartbeatWriteMoves DEF HeartbeatWrite, WriteBack
  <1>2. ASSUME NEW g \in exact' PROVE ExactFor(g)'
    <2>1. g \in exact /\ registry'[g] = registry[g]
      BY <1>1 DEF TypeOK
    <2>2. /\ Cardinality(Coming(g)') = Cardinality(Coming(g))
          /\ Cardinality(Leaving(g)') = Cardinality(Leaving(g))
      BY <1>1, <2>1, OneCounts, Tally DEF Ends, Bit, ComingAt, LeavingAt
    <2> QED  BY <1>1, <2>1, <2>2, SameMapped, Tally DEF ExactFor
  <1>3. \A q \in Requests : ReleaseOk(q)'
    BY <1>1, ReleasesKept DEF Ends, Release3
  <1>4. \A g \in Engines : IsFiniteSet(Mapped(g)')
    BY <1>1, SameMapped
  <1> QED  BY <1>2, <1>3, <1>4, CountPartsNext

LEMMA KeyGoneCounts ==
  ASSUME TypeOK, CountInv, NEW h \in Engines, KeyGone(h)
  PROVE  CountInv'
  <1>1. UNCHANGED <<req, mapping, exact>> /\ registry' = [registry EXCEPT ![h] = Gone]
    BY DEF KeyGone, history
  <1>2. ASSUME NEW g \in exact' PROVE ExactFor(g)'
    <2>1. g \in exact /\ registry'[g] \in {registry[g], Gone}
      BY <1>1 DEF TypeOK
    <2>2. Coming(g)' = Coming(g) /\ Leaving(g)' = Leaving(g) /\ Mapped(g)' = Mapped(g)
      BY <1>1 DEF Coming, Leaving, Mapped
    <2> QED  BY <2>1, <2>2, CountParts DEF ExactFor
  <1>3. \A q \in Requests : ReleaseOk(q)'
    BY <1>1, CountParts DEF ReleaseOk
  <1>4. \A g \in Engines : IsFiniteSet(Mapped(g)')
    BY <1>1, SameMapped
  <1> QED  BY <1>2, <1>3, <1>4, CountPartsNext

LEMMA MappingExpiresCounts ==
  ASSUME TypeOK, CountInv, NEW s \in Sessions, MappingExpires(s)
  PROVE  CountInv'
  <1>1. /\ UNCHANGED <<req, registry>> /\ mapping' = [mapping EXCEPT ![s] = None]
        /\ exact' = exact \ {mapping[s]}
    BY DEF MappingExpires
  <1>2. ASSUME NEW g \in exact' PROVE ExactFor(g)'
    <2>1. g \in exact /\ g \in Engines /\ g # None /\ mapping[s] # g
      BY <1>1, TenantSessionsAssumption DEF TypeOK
    <2>2. Coming(g)' = Coming(g) /\ Leaving(g)' = Leaving(g)
      BY <1>1 DEF Coming, Leaving
    <2>3. Mapped(g)' = Mapped(g)
      BY <1>1, <2>1 DEF Mapped, TypeOK
    <2> QED  BY <1>1, <2>1, <2>2, <2>3, CountParts DEF ExactFor
  <1>3. ASSUME NEW q \in Requests PROVE ReleaseOk(q)'
    <2> SUFFICES ASSUME req[q].pc \in Release3, req[q].engine \in exact' PROVE ReleaseOk(q)'
      BY <1>1 DEF ReleaseOk, Release3
    <2>1. ReleaseOk(q) /\ req[q].engine # mapping[s]
      BY <1>1, CountParts
    <2>2. req[q].session # s
      BY <1>1, <2>1 DEF ReleaseOk, Release3
    <2>3. req[q].session \in Sessions
      BY WhoCalls DEF Release3, Calling
    <2> QED  BY <1>1, <2>1, <2>2, <2>3 DEF ReleaseOk, TypeOK, Release3
  <1>4. \A g \in Engines : IsFiniteSet(Mapped(g)')
    BY <1>1, OneMapped
  <1> QED  BY <1>2, <1>3, <1>4, CountPartsNext

LEMMA IncReadCounts ==
  ASSUME TypeOK, CountInv, NEW r \in Requests, IncRead(r)
  PROVE  CountInv'
  <1>g. PICK h : h = req[r].engine
    OBVIOUS
  <1>1. req[r].pc = "incRead" /\ UNCHANGED <<mapping, registry, exact>>
    BY DEF IncRead, redis, history
  <1>2. \/ Ends(r) /\ registry[h] = Gone
        \/ Steps(r, "incWrite")
    BY <1>g, WhoCalls, EndDoes, ReadDoes DEF IncRead, Pcs, Calling
  <1>o. Others(r)
    BY <1>2 DEF Ends, Steps
  <1>3. ASSUME NEW g \in exact' PROVE ExactFor(g)'
    <2>1. g \in exact /\ registry'[g] = registry[g]
      BY <1>1
    <2>2. registry[g] # Gone => /\ Cardinality(Coming(g)') = Cardinality(Coming(g))
                                /\ Cardinality(Leaving(g)') = Cardinality(Leaving(g))
      BY <1>g, <1>o, <1>1, <1>2, <2>1, OneCounts, Tally DEF Ends, Steps, Bit, ComingAt,
         LeavingAt
    <2> QED  BY <1>1, <2>1, <2>2, SameMapped, Tally DEF ExactFor
  <1>4. \A q \in Requests : ReleaseOk(q)'
    BY <1>1, <1>2, <1>o, ReleasesKept DEF Ends, Steps, Release3
  <1>5. \A g \in Engines : IsFiniteSet(Mapped(g)')
    BY <1>1, SameMapped
  <1> QED  BY <1>3, <1>4, <1>5, CountPartsNext

LEMMA IncWriteCounts ==
  ASSUME TypeOK, CountInv, NEW r \in Requests, IncWrite(r)
  PROVE  CountInv'
  <1>g. PICK h, n : h = req[r].engine /\ n = req[r].seen
    OBVIOUS
  <1>1. /\ req[r].pc = "incWrite" /\ UNCHANGED mapping /\ Ends(r)
        /\ registry' = [registry EXCEPT ![h] = Least(n + 1, Cap)]
        /\ exact' = IF n = registry[h] /\ n < Cap THEN exact ELSE exact \ {h}
    BY <1>g, IncWriteMoves DEF IncWrite
  <1>2. h \in Engines /\ n \in 0 .. Cap
    BY <1>1, <1>g, WhoCalls DEF TaskOk, Tasks
  <1>3. ASSUME NEW g \in exact' PROVE ExactFor(g)'
    <2>1. g \in exact /\ g \in Engines
      BY <1>1 DEF TypeOK
    <2>2. IF g = h THEN registry[g] # Gone /\ registry'[g] = registry[g] + 1
          ELSE registry'[g] = registry[g]
      BY <1>1, <1>2, <2>1, TenantSessionsAssumption DEF TypeOK, Least
    <2>o. /\ Cardinality(Coming(g)') = Cardinality(Coming(g)) + Bit(ComingAt(req'[r], g))
                                         - Bit(ComingAt(req[r], g))
          /\ Cardinality(Leaving(g)') = Cardinality(Leaving(g)) + Bit(LeavingAt(req'[r], g))
                                          - Bit(LeavingAt(req[r], g))
      BY <1>1, OneCounts DEF Ends
    <2>3. /\ Cardinality(Coming(g)') = Cardinality(Coming(g)) - Bit(g = h)
          /\ Cardinality(Leaving(g)') = Cardinality(Leaving(g))
      BY <1>g, <1>1, <2>o, <2>1, Tally DEF Ends, Bit, ComingAt, LeavingAt
    <2> QED  BY <1>1, <2>1, <2>2, <2>3, SameMapped, Tally DEF ExactFor, Bit
  <1>4. \A q \in Requests : ReleaseOk(q)'
    BY <1>1, ReleasesKept DEF Ends, Release3
  <1>5. \A g \in Engines : IsFiniteSet(Mapped(g)')
    BY <1>1, SameMapped
  <1> QED  BY <1>3, <1>4, <1>5, CountPartsNext

LEMMA DecReadCounts ==
  ASSUME TypeOK, CountInv, NEW r \in Requests, DecRead(r)
  PROVE  CountInv'
  <1>g. PICK h : h = req[r].engine
    OBVIOUS
  <1>1. req[r].pc = "decRead" /\ UNCHANGED <<mapping, registry, exact>>
    BY DEF DecRead, redis, history
  <1>2. \/ Steps(r, "unmap") /\ registry[h] = Gone
        \/ Steps(r, "decWrite")
    BY <1>g, WhoCalls, GotoDoes, ReadDoes DEF DecRead, Pcs, Calling
  <1>o. Others(r)
    BY <1>2 DEF Steps
  <1>3. ASSUME NEW g \in exact' PROVE ExactFor(g)'
    <2>1. g \in exact /\ registry'[g] = registry[g]
      BY <1>1
    <2>2. registry[g] # Gone => /\ Cardinality(Coming(g)') = Cardinality(Coming(g))
                                /\ Cardinality(Leaving(g)') = Cardinality(Leaving(g))
      BY <1>g, <1>o, <1>1, <1>2, <2>1, OneCounts, Tally DEF Steps, Bit, ComingAt, LeavingAt
    <2> QED  BY <1>1, <2>1, <2>2, SameMapped, Tally DEF ExactFor
  <1>4. \A q \in Requests : ReleaseOk(q)'
    BY <1>1, <1>2, <1>o, ReleasesKept DEF Steps, Release3
  <1>5. \A g \in Engines : IsFiniteSet(Mapped(g)')
    BY <1>1, SameMapped
  <1> QED  BY <1>3, <1>4, <1>5, CountPartsNext

LEMMA DecWriteCounts ==
  ASSUME TypeOK, CountInv, NEW r \in Requests, DecWrite(r)
  PROVE  CountInv'
  <1>g. PICK h, n : h = req[r].engine /\ n = req[r].seen
    OBVIOUS
  <1>1. /\ req[r].pc = "decWrite" /\ UNCHANGED mapping /\ Steps(r, "unmap")
        /\ registry' = [registry EXCEPT ![h] = Most(n - 1, 0)]
        /\ exact' = IF n = registry[h] /\ n > 0 THEN exact ELSE exact \ {h}
    BY <1>g, DecWriteMoves DEF DecWrite
  <1>2. h \in Engines /\ n \in 0 .. Cap
    BY <1>1, <1>g, WhoCalls DEF TaskOk, Tasks
  <1>3. ASSUME NEW g \in exact' PROVE ExactFor(g)'
    <2>1. g \in exact /\ g \in Engines
      BY <1>1 DEF TypeOK
    <2>2. IF g = h THEN registry[g] # Gone /\ registry'[g] = registry[g] - 1
          ELSE registry'[g] = registry[g]
      BY <1>1, <1>2, <2>1, TenantSessionsAssumption DEF TypeOK, Most
    <2>3. /\ Cardinality(Coming(g)') = Cardinality(Coming(g))
          /\ Cardinality(Leaving(g)') = Cardinality(Leaving(g)) + Bit(g = h)
      BY <1>g, <1>1, <2>1, OneCounts, Tally DEF Steps, Bit, ComingAt, LeavingAt
    <2>4. registry[g] # Gone => registry'[g] # Gone \/ g = h
      BY <2>2
    <2> QED  BY <1>1, <2>1, <2>2, <2>3, SameMapped, Tally DEF ExactFor, Bit
  <1>4. \A q \in Requests : ReleaseOk(q)'
    BY <1>1, ReleasesKept DEF Steps, Release3
  <1>5. \A g \in Engines : IsFiniteSet(Mapped(g)')
    BY <1>1, SameMapped
  <1> QED  BY <1>3, <1>4, <1>5, CountPartsNext

LEMMA UnmapCounts ==
  ASSUME TypeOK, SessionInv, CountInv, NEW r \in Requests, Unmap(r)
  PROVE  CountInv'
  <1>g. PICK s, h : s = req[r].session /\ h = req[r].engine
    OBVIOUS
  <1>1. /\ req[r].pc = "unmap" /\ Steps(r, "remove") /\ UNCHANGED <<registry, exact>>
        /\ mapping' = [mapping EXCEPT ![s] = None]
    BY <1>g, UnmapMoves DEF Unmap, history
  <1>2. s \in Sessions /\ h \in Engines /\ SessionOk(s)
    BY <1>1, <1>g, WhoCalls DEF SessionInv, Calling
  <1>3. h = row[s].engine /\ mapping[s] \in {None, h}
    BY <1>g, <1>1, <1>2 DEF SessionOk, TasksOk, RowOk
  <1>4. h \in exact => mapping[s] = h
    BY <1>g, <1>1, CountParts DEF ReleaseOk
  <1>5. ASSUME NEW g \in exact' PROVE ExactFor(g)'
    <2>1. g \in exact /\ g \in Engines /\ g # None /\ registry'[g] = registry[g]
      BY <1>1, TenantSessionsAssumption DEF TypeOK
    <2>o. /\ Cardinality(Coming(g)') = Cardinality(Coming(g)) + Bit(ComingAt(req'[r], g))
                                         - Bit(ComingAt(req[r], g))
          /\ Cardinality(Leaving(g)') = Cardinality(Leaving(g)) + Bit(LeavingAt(req'[r], g))
                                          - Bit(LeavingAt(req[r], g))
      BY <1>1, OneCounts DEF Steps
    <2>2. /\ Cardinality(Coming(g)') = Cardinality(Coming(g))
          /\ Cardinality(Leaving(g)') = Cardinality(Leaving(g)) - Bit(g = h)
      BY <1>g, <1>1, <2>o, <2>1, Tally DEF Steps, Bit, ComingAt, LeavingAt
    <2>m. /\ Cardinality(Mapped(g)) \in Nat
          /\ mapping[s] = g => Cardinality(Mapped(g)') = Cardinality(Mapped(g)) - 1
          /\ mapping[s] # g => Cardinality(Mapped(g)') = Cardinality(Mapped(g))
      <3>1. PICK x : x = None /\ mapping' = [mapping EXCEPT ![s] = x]
        BY <1>1
      <3>2. /\ Cardinality(Mapped(g)) \in Nat
            /\ mapping[s] = g => Cardinality(Mapped(g)') = Cardinality(Mapped(g)) - (IF x = g THEN 0 ELSE 1)
            /\ mapping[s] # g => Cardinality(Mapped(g)') = Cardinality(Mapped(g)) + (IF x = g THEN 1 ELSE 0)
        BY <1>2, <2>1, <3>1, OneMapped
      <3> QED  BY <2>1, <3>1, <3>2
    <2>3. Cardinality(Mapped(g)') = Cardinality(Mapped(g)) - Bit(g = h)
      BY <1>1, <1>3, <1>4, <2>m, <2>1 DEF Bit
    <2> QED  BY <2>1, <2>2, <2>3, Tally DEF ExactFor, Bit
  <1>6. ASSUME NEW q \in Requests PROVE ReleaseOk(q)'
    <2> SUFFICES ASSUME req'[q].pc \in Release3, req'[q].engine \in exact' PROVE ReleaseOk(q)'
      BY DEF ReleaseOk, Release3
    <2>1. q # r /\ req'[q] = req[q] /\ ReleaseOk(q)
      BY <1>1, CountParts DEF Steps, Others, Release3
    <2>2. req[q].session # s
      BY <1>g, <1>1, <2>1 DEF ReleaseOk, Release3
    <2>3. req[q].session \in Sessions
      BY <2>1, WhoCalls DEF Release3, Calling
    <2> QED  BY <1>1, <2>1, <2>2, <2>3 DEF ReleaseOk, TypeOK, Release3, Steps, Others
  <1>7. \A g \in Engines : IsFiniteSet(Mapped(g)')
    BY <1>1, <1>2, OneMapped
  <1> QED  BY <1>5, <1>6, <1>7, CountPartsNext

LEMMA CreateMapCounts ==
  ASSUME TypeOK, SessionInv, CountInv, NEW r \in Requests, CreateMap(r)
  PROVE  CountInv'
  <1>g. PICK s, h : s = req[r].session /\ h = req[r].engine
    OBVIOUS
  <1>1. /\ req[r].pc = "map" /\ Steps(r, "incRead") /\ UNCHANGED <<registry, exact>>
        /\ mapping' = [mapping EXCEPT ![s] = h]
    BY <1>g, CreateMapMoves DEF CreateMap, history
  <1>2. s \in Sessions /\ h \in Engines /\ SessionOk(s)
    BY <1>1, <1>g, WhoCalls DEF SessionInv, Calling
  <1>3. mapping[s] = None
    BY <1>g, <1>1, <1>2 DEF SessionOk, TasksOk
  <1>5. ASSUME NEW g \in exact' PROVE ExactFor(g)'
    <2>1. g \in exact /\ g \in Engines /\ g # None /\ registry'[g] = registry[g]
      BY <1>1, TenantSessionsAssumption DEF TypeOK
    <2>2. /\ Cardinality(Coming(g)') = Cardinality(Coming(g)) + Bit(g = h)
          /\ Cardinality(Leaving(g)') = Cardinality(Leaving(g))
      BY <1>g, <1>1, <2>1, OneCounts, Tally DEF Steps, Bit, ComingAt, LeavingAt
    <2>m. /\ mapping[s] # g
          /\ Cardinality(Mapped(g)') = Cardinality(Mapped(g)) + (IF h = g THEN 1 ELSE 0)
      BY <1>1, <1>2, <1>3, <2>1, OneMapped
    <2>3. Cardinality(Mapped(g)') = Cardinality(Mapped(g)) + Bit(g = h)
      BY <1>3, <2>m, <2>1 DEF Bit
    <2> QED  BY <2>1, <2>2, <2>3, Tally DEF ExactFor, Bit
  <1>6. ASSUME NEW q \in Requests PROVE ReleaseOk(q)'
    <2> SUFFICES ASSUME req'[q].pc \in Release3, req'[q].engine \in exact' PROVE ReleaseOk(q)'
      BY DEF ReleaseOk, Release3
    <2>1. q # r /\ req'[q] = req[q] /\ ReleaseOk(q)
      BY <1>1, CountParts DEF Steps, Others, Release3
    <2>2. req[q].session \in Sessions /\ req[q].engine # None
      BY <2>1, WhoCalls, TenantSessionsAssumption DEF Release3, Calling
    <2>3. req[q].session # s
      BY <1>1, <1>3, <2>1, <2>2 DEF ReleaseOk, Release3
    <2> QED  BY <1>1, <2>1, <2>2, <2>3 DEF ReleaseOk, TypeOK, Release3, Steps, Others
  <1>7. \A g \in Engines : IsFiniteSet(Mapped(g)')
    BY <1>1, <1>2, OneMapped
  <1> QED  BY <1>5, <1>6, <1>7, CountPartsNext

LEMMA ReleaseCounts ==
  ASSUME TypeOK, CountInv, NEW r \in Requests, Release(r)
  PROVE  CountInv'
  <1>g. PICK s : s = req[r].session
    OBVIOUS
  <1>1. req[r].pc = "release" /\ UNCHANGED <<registry, mapping>>
    BY DEF Release, redis
  <1>2. CASE mapping[s] = None
    <2>1. Steps(r, "remove") /\ UNCHANGED exact
      BY <1>g, <1>2, ReleaseMoves DEF Release
    <2> QED  BY <1>1, <2>1, UncountedKeeps DEF Steps, Counters, redis
  <1>3. CASE mapping[s] # None
    <2>1. /\ Others(r) /\ req'[r].pc = "decRead" /\ req'[r].session = s /\ req'[r].engine = mapping[s]
          /\ exact' = IF Releasing(s) THEN exact \ {mapping[s]} ELSE exact
      BY <1>g, <1>3, ReleaseMoves DEF Release
    <2>2. ASSUME NEW g \in exact' PROVE ExactFor(g)'
      <3>1. g \in exact
        BY <2>1
      <3>2. /\ Cardinality(Coming(g)') = Cardinality(Coming(g))
            /\ Cardinality(Leaving(g)') = Cardinality(Leaving(g))
        BY <1>1, <2>1, <3>1, OneCounts, Tally DEF Bit, ComingAt, LeavingAt
      <3> QED  BY <1>1, <3>1, <3>2, SameMapped, Tally DEF ExactFor, Bit
    <2>3. ASSUME NEW q \in Requests PROVE ReleaseOk(q)'
      <3> SUFFICES ASSUME req'[q].pc \in Release3, req'[q].engine \in exact' PROVE ReleaseOk(q)'
        BY DEF ReleaseOk, Release3
      <3>1. CASE q = r
        <4>1. ~Releasing(s)
          BY <2>1, <3>1
        <4> QED  BY <1>1, <2>1, <3>1, <4>1 DEF ReleaseOk, Releasing, Others
      <3>2. CASE q # r
        <4>1. req'[q] = req[q] /\ ReleaseOk(q) /\ req[q].engine \in exact
          BY <2>1, <3>2, CountParts DEF Others
        <4>2. req[q].session # s
          BY <2>1, <4>1 DEF ReleaseOk, Release3, Releasing
        <4> QED  BY <1>1, <2>1, <4>1, <4>2 DEF ReleaseOk, Release3, Others
      <3> QED  BY <3>1, <3>2
    <2>4. \A g \in Engines : IsFiniteSet(Mapped(g)')
      BY <1>1, SameMapped
    <2> QED  BY <2>2, <2>3, <2>4, CountPartsNext
  <1> QED  BY <1>2, <1>3

\* The other steps of a request leave Redis alone.
LEMMA BeginsUncounted ==
  ASSUME TypeOK, CountInv, NEW r \in Requests
  PROVE  /\ \A g \in Engines : RegisterReset(r, g) \/ HeartbeatRead(r, g) => CountInv'
         /\ \A s \in Sessions : CreatePick(r, s) \/ DeleteRead(r, s) => CountInv'
         /\ \A s \in Sessions, verb \in {"reconnect", "unlink"} : ReconnectRead(r, s, verb) => CountInv'
  <1>1. ASSUME NEW g \in Engines, RegisterReset(r, g) PROVE CountInv'
    <2>1. Begins(r, "register", None, g) /\ UNCHANGED redis /\ exact' = exact
      BY <1>1, RegisterResetMoves DEF RegisterReset
    <2> QED  BY <2>1, UncountedKeeps DEF Begins, Counters
  <1>2. ASSUME NEW g \in Engines, HeartbeatRead(r, g) PROVE CountInv'
    <2>1. Begins(r, "heartbeat", None, g) /\ UNCHANGED redis /\ exact' = exact
      BY <1>2, HeartbeatReadMoves DEF HeartbeatRead, history
    <2> QED  BY <2>1, UncountedKeeps DEF Begins, Counters
  <1>3. ASSUME NEW s \in Sessions, CreatePick(r, s) PROVE CountInv'
    <2>1. (\E g \in Engines : Begins(r, "insert", s, g)) /\ UNCHANGED redis /\ exact' = exact
      BY <1>3, CreatePickMoves DEF CreatePick, history
    <2> QED  BY <2>1, UncountedKeeps DEF Begins, Counters
  <1>4. ASSUME NEW s \in Sessions, DeleteRead(r, s) PROVE CountInv'
    <2>1. /\ UNCHANGED redis /\ exact' = exact
          /\ Begins(r, IF row[s].known THEN "engine" ELSE "release", s, row[s].engine)
      BY <1>4, DeleteReadMoves DEF DeleteRead
    <2> QED  BY <2>1, UncountedKeeps DEF Begins, Counters
  <1>5. ASSUME NEW s \in Sessions, NEW verb \in {"reconnect", "unlink"}, ReconnectRead(r, s,
               verb)
        PROVE  CountInv'
    <2>1. Begins(r, verb, s, Resolved(s)) /\ UNCHANGED redis /\ exact' = exact
      BY <1>5, ReconnectReadMoves DEF ReconnectRead
    <2> QED  BY <2>1, UncountedKeeps DEF Begins, Counters
  <1> QED  BY <1>1, <1>2, <1>3, <1>4, <1>5

LEMMA CreatesUncounted ==
  ASSUME TypeOK, CountInv, NEW r \in Requests,
         \/ CreateRow(r) \/ CreatePost(r) \/ CreateFails(r) \/ CreateRollback(r) \/ CreateSaveId(r)
  PROVE  CountInv'
  <1>1. CASE CreateRow(r)
    <2>1. Steps(r, "post") /\ req[r].pc = "insert" /\ UNCHANGED redis /\ exact' = exact
      BY <1>1, CreateRowMoves DEF CreateRow, history
    <2> QED  BY <2>1, UncountedKeeps DEF Steps, Counters
  <1>2. CASE CreatePost(r)
    <2>1. /\ Steps(r, "saveId") \/ Steps(r, "rollback")
          /\ req[r].pc = "post" /\ UNCHANGED redis /\ exact' = exact
      BY <1>2, CreatePostMoves DEF CreatePost, history
    <2> QED  BY <2>1, UncountedKeeps DEF Steps, Counters
  <1>3. CASE CreateFails(r)
    <2>1. /\ Steps(r, "rollback") /\ UNCHANGED redis
          /\ req[r].pc \in {"post", "map", "incRead", "incWrite"}
          /\ exact' = IF req[r].pc \in {"post", "map"} THEN exact ELSE exact \ {req[r].engine}
      BY <1>3, CreateFailsMoves DEF CreateFails
    <2> QED  BY <2>1, UncountedKeeps DEF Steps, Counters
  <1>4. CASE CreateRollback(r)
    <2>1. Ends(r) /\ req[r].pc = "rollback" /\ UNCHANGED redis /\ exact' = exact
      BY <1>4, CreateRollbackMoves DEF CreateRollback, history
    <2> QED  BY <2>1, UncountedKeeps DEF Ends, Counters
  <1>5. CASE CreateSaveId(r)
    <2>1. /\ Steps(r, "map") \/ Ends(r)
          /\ req[r].pc = "saveId" /\ UNCHANGED redis /\ exact' = exact
      BY <1>5, CreateSaveIdMoves DEF CreateSaveId, history
    <2> QED  BY <2>1, UncountedKeeps DEF Steps, Ends, Counters
  <1> QED  BY <1>1, <1>2, <1>3, <1>4, <1>5

LEMMA OthersUncounted ==
  ASSUME TypeOK, CountInv, NEW r \in Requests,
         \/ ReconnectPost(r) \/ ReconnectWrite(r) \/ DeleteEngine(r) \/ DeleteRow(r) \/ RequestLost(r)
  PROVE  CountInv'
  <1>1. CASE ReconnectPost(r)
    <2>1. /\ Steps(r, "status") \/ Ends(r)
          /\ req[r].pc \in {"reconnect", "unlink"} /\ UNCHANGED redis /\ exact' = exact
      BY <1>1, ReconnectPostMoves DEF ReconnectPost
    <2> QED  BY <2>1, UncountedKeeps DEF Steps, Ends, Counters
  <1>2. CASE ReconnectWrite(r)
    <2>1. Ends(r) /\ req[r].pc = "status" /\ UNCHANGED redis /\ exact' = exact
      BY <1>2, ReconnectWriteMoves DEF ReconnectWrite, history
    <2> QED  BY <2>1, UncountedKeeps DEF Ends, Counters
  <1>3. CASE DeleteEngine(r)
    <2>1. Steps(r, "release") /\ req[r].pc = "engine" /\ UNCHANGED redis /\ exact' = exact
      BY <1>3, DeleteEngineMoves DEF DeleteEngine
    <2> QED  BY <2>1, UncountedKeeps DEF Steps, Counters
  <1>4. CASE DeleteRow(r)
    <2>1. Ends(r) /\ req[r].pc = "remove" /\ UNCHANGED redis /\ exact' = exact
      BY <1>4, DeleteRowMoves DEF DeleteRow, history
    <2> QED  BY <2>1, UncountedKeeps DEF Ends, Counters
  <1>5. CASE RequestLost(r)
    <2>1. /\ Ends(r) /\ UNCHANGED redis
          /\ exact' = IF req[r].pc \in {"incRead", "incWrite", "decRead", "decWrite", "unmap", "register"}
                      THEN exact \ {req[r].engine} ELSE exact
      BY <1>5, RequestLostMoves DEF RequestLost
    <2> QED  BY <2>1, UncountedKeeps DEF Ends, Counters
  <1> QED  BY <1>1, <1>2, <1>3, <1>4, <1>5

LEMMA EnginesUncounted ==
  ASSUME CountInv
  PROVE  /\ \A s \in Sessions : EngineConnects(s) \/ EngineDisconnects(s) => CountInv'
         /\ \A g \in Engines : EngineCrashes(g) => CountInv'
         /\ \A i \in DOMAIN events : HandleSessionEvent(i) \/ EventFails(i) => CountInv'
         /\ UNCHANGED vars => CountInv'
  <1>1. UNCHANGED <<redis, req, exact>> => CountInv'
    BY UnaskedKeeps
  <1> QED  BY <1>1 DEF EngineConnects, EngineDisconnects, EngineCrashes, HandleSessionEvent,
                       EventFails, vars, history

LEMMA CountInit == Init => CountInv
  <1> SUFFICES ASSUME Init PROVE CountInv
    OBVIOUS
  <1>1. \A r \in Requests : req[r].pc = "idle"
    <2>1. Idle.pc = "idle"
      BY TaskShape DEF Pcs
    <2> HIDE DEF Idle
    <2> QED  BY <2>1 DEF Init
  <1>2. \A g \in Engines : Mapped(g) = {} /\ registry[g] = 0
    BY TenantSessionsAssumption DEF Init, Mapped
  <1>3. \A g \in Engines : Coming(g) = {} /\ Leaving(g) = {}
    BY <1>1 DEF Coming, Leaving
  <1>4. ASSUME NEW g \in exact PROVE ExactFor(g)
    <2>1. g \in Engines
      BY DEF Init
    <2>2. Cardinality(Coming(g)) = 0 /\ Cardinality(Leaving(g)) = 0 /\ Cardinality(Mapped(g)) = 0
      BY <1>2, <1>3, <2>1, FS_EmptySet
    <2> QED  BY <1>2, <2>1, <2>2 DEF ExactFor
  <1>5. \A g \in Engines : IsFiniteSet(Mapped(g))
    BY <1>2, FS_EmptySet
  <1>6. \A r \in Requests : ReleaseOk(r)
    BY <1>1 DEF ReleaseOk
  <1> QED  BY <1>4, <1>5, <1>6, CountParts

LEMMA CountStep == TypeOK /\ SessionInv /\ CountInv /\ [Next]_vars => CountInv'
  <1> SUFFICES ASSUME TypeOK, SessionInv, CountInv, [Next]_vars PROVE CountInv'
    OBVIOUS
  <1>1. ASSUME NEW r \in Requests, Ask(r) PROVE CountInv'
    BY <1>1, BeginsUncounted DEF Ask
  <1>2. ASSUME NEW r \in Requests, GoOn(r) PROVE CountInv'
    BY <1>2, RegisterWriteCounts, HeartbeatWriteCounts, IncReadCounts, IncWriteCounts,
       DecReadCounts,
       DecWriteCounts, CreatesUncounted, CreateMapCounts, OthersUncounted, ReleaseCounts,
       UnmapCounts
       DEF GoOn
  <1>3. ASSUME NEW s \in Sessions,
               EngineConnects(s) \/ EngineDisconnects(s) \/ MappingExpires(s)
        PROVE  CountInv'
    BY <1>3, EnginesUncounted, MappingExpiresCounts
  <1>4. ASSUME NEW g \in Engines, EngineCrashes(g) \/ KeyGone(g) PROVE CountInv'
    BY <1>4, EnginesUncounted, KeyGoneCounts
  <1>5. ASSUME NEW i \in DOMAIN events, HandleSessionEvent(i) \/ EventFails(i) PROVE CountInv'
    BY <1>5, EnginesUncounted
  <1> QED  BY <1>1, <1>2, <1>3, <1>4, <1>5, EnginesUncounted DEF Next

-----------------------------------------------------------------------------
(***************************************************************************)
(* The theorems.                                                           *)
(***************************************************************************)
LEMMA AllInv == Spec => [](TypeOK /\ SessionInv /\ CountInv)
  <1>1. Init => TypeOK /\ SessionInv /\ CountInv
    BY TypeInit, SessionInit, CountInit
  <1>2. TypeOK /\ SessionInv /\ CountInv /\ [Next]_vars => (TypeOK /\ SessionInv /\ CountInv)'
    BY TypeStep, SessionStep, CountStep
  <1> QED  BY <1>1, <1>2, PTL DEF Spec

\* The Session rows, Redis, the engines and the requests of the session and
\* registry services keep their types, and a row always names its engine.
THEOREM SessionsTypeCorrect == Spec => []TypeOK
  BY AllInv, PTL

\* createSession and deleteSession: a row that no request is working on has its
\* openwaId and its mapping, whatever fails at the engine.
THEOREM RowsAreWhole == Spec => []RowIsWhole
  <1>1. TypeOK /\ SessionInv => RowIsWhole
    BY SessionsMeet
  <1> QED  BY <1>1, AllInv, PTL

\* handleSessionConnected, reconnectSession and register: once all is quiet, a
\* row says CONNECTED exactly if the engine's session is linked.
THEOREM StatusIsTrue == Spec => []StatusFollowsEngine
  <1>1. TypeOK /\ SessionInv => StatusFollowsEngine
    BY SessionsMeet
  <1> QED  BY <1>1, AllInv, PTL

\* deleteSession: the engine keeps no session whose row is gone.
THEOREM NoGhostsLeft == Spec => []NoGhosts
  <1>1. TypeOK /\ SessionInv => NoGhosts
    BY SessionsMeet
  <1> QED  BY <1>1, AllInv, PTL

\* assignSessionToInstance and releaseSessionFromInstance: a count none of
\* whose writers lost another's change is the number of its instance's sessions.
THEOREM CountsAreExact == Spec => []CountIsExact
  <1>1. CountInv => CountIsExact
    BY DEF CountInv
  <1> QED  BY <1>1, AllInv, PTL

-----------------------------------------------------------------------------
(***************************************************************************)
(* Before anything has failed.                                             *)
(***************************************************************************)
AllThere == /\ up = Engines /\ exact = Engines /\ loose = {} /\ broken = {}
            /\ \A g \in Engines : registry[g] # Gone
AtEase(r) ==
  /\ ~At(r, {"register", "rollback"})
  /\ At(r, {"heartbeat", "incWrite", "decWrite"}) => req[r].seen = registry[req[r].engine]
  /\ At(r, Making \cup {"unmap"}) => registry[req[r].engine] < Cap
  /\ At(r, {"incRead", "incWrite", "engine"}) => mapping[req[r].session] = req[r].engine
Calm == faults = 0 => AllThere /\ \A r \in Requests : AtEase(r)
LEMMA CalmParts == CalmInv <=> Calm
  BY DEF CalmInv, Calm, AllThere, AtEase

LEMMA OnlyRequest == ASSUME Slots <= 1, NEW r \in Requests PROVE \A q \in Requests : q = r
  BY TenantSessionsAssumption

\* Faults are counted.
Counted == faults \in Nat
Unbroken == faults = 0 => broken = {}
LEMMA FaultsGrow ==
  ASSUME faults \in Nat, [Next]_vars
  PROVE  /\ faults' \in {faults, faults + 1}
         /\ faults' = faults + 1 \/ UNCHANGED faults
  BY DEF Next, Ask, GoOn, vars, counters, Fault, RegisterReset, HeartbeatRead, CreatePick, DeleteRead,
     ReconnectRead, RegisterWrite, HeartbeatWrite, IncRead, IncWrite, DecRead, DecWrite,
     CreateRow, CreatePost, CreateFails, CreateRollback, CreateSaveId, CreateMap, ReconnectPost,
     ReconnectWrite, DeleteEngine, Release, Unmap, DeleteRow, RequestLost, EngineConnects,
     EngineDisconnects, MappingExpires, EngineCrashes, KeyGone, HandleSessionEvent, EventFails, Post

\* A request that begins.
LEMMA BeginCalm ==
  ASSUME Slots <= 1, TypeOK, SessionInv, AllThere, NEW r \in Requests, Ask(r)
  PROVE  AllThere' /\ AtEase(r)'
  <1>1. ASSUME NEW g \in Engines, RegisterReset(r, g) PROVE FALSE
    BY <1>1 DEF RegisterReset, AllThere
  <1>2. ASSUME NEW g \in Engines, HeartbeatRead(r, g) PROVE AllThere' /\ AtEase(r)'
    <2>1. req'[r].pc = "heartbeat" /\ req'[r].engine = g /\ req'[r].seen = registry[g]
      <3>1. "heartbeat" \in Pcs /\ registry[g] \in {Gone} \cup 0 .. Cap
        BY DEF Pcs, TypeOK
      <3>2. Begin(r, Task("heartbeat", None, g, registry[g]))
        BY <1>2 DEF HeartbeatRead
      <3> QED  BY <3>1, <3>2, BeginDoes DEF Begins
    <2> QED  BY <1>2, <2>1 DEF HeartbeatRead, AllThere, AtEase, redis, history, Making
  <1>3. ASSUME NEW s \in Sessions, CreatePick(r, s) PROVE AllThere' /\ AtEase(r)'
    <2>1. PICK g \in LeastLoaded : Begin(r, Task("insert", s, g, Gone))
      BY <1>3 DEF CreatePick
    <2>2. g \in Engines /\ registry[g] < Cap
      BY <2>1 DEF LeastLoaded, Available
    <2>3. req'[r].pc = "insert" /\ req'[r].engine = g
      <3>1. "insert" \in Pcs /\ Gone \in {Gone} \cup 0 .. Cap
        BY DEF Pcs, Calling
      <3> QED  BY <2>1, <2>2, <3>1, BeginDoes DEF Begins
    <2> QED  BY <1>3, <2>2, <2>3 DEF CreatePick, AllThere, AtEase, redis, history
  <1>4. ASSUME NEW s \in Sessions, Overlap(s), req[r].pc = "idle" PROVE Quiet(s) /\ loose' = loose
    <2>1. Quiet(s)
      BY <1>4, OnlyRequest, OwnSession, TenantSessionsAssumption DEF Quiet, Calling
    <2> QED  BY <1>4, <2>1 DEF Overlap
  <1>5. ASSUME NEW s \in Sessions, DeleteRead(r, s) PROVE AllThere' /\ AtEase(r)'
    <2>1. Begins(r, IF row[s].known THEN "engine" ELSE "release", s, row[s].engine)
      BY <1>5, DeleteReadMoves
    <2>2. Quiet(s) /\ loose' = loose
      BY <1>4, <1>5, <2>1 DEF DeleteRead, Begins
    <2>3. mapping[s] = row[s].engine
      BY <1>5, <2>2, SessionsMeet DEF RowIsWhole, DeleteRead, AllThere, Working, Quiet
    <2> QED  BY <1>5, <2>1, <2>2, <2>3 DEF DeleteRead, AllThere, AtEase, Begins, redis, Making
  <1>6. ASSUME NEW s \in Sessions, NEW verb \in {"reconnect", "unlink"}, ReconnectRead(r, s, verb)
        PROVE  AllThere' /\ AtEase(r)'
    <2>1. Begins(r, verb, s, Resolved(s))
      BY <1>6, ReconnectReadMoves
    <2>2. loose' = loose
      BY <1>4, <1>6, <2>1 DEF ReconnectRead, Begins
    <2> QED  BY <1>6, <2>1, <2>2 DEF ReconnectRead, AllThere, AtEase, Begins, redis, Making
  <1> QED  BY <1>1, <1>2, <1>3, <1>5, <1>6 DEF Ask

\* A step that leaves the counts and the mapping alone, and whose request goes
\* where it relies on nothing more.
LEMMA MovesOnCalm ==
  ASSUME AllThere, NEW r \in Requests, AtEase(r), Ends(r) \/ \E pc \in Pcs : Steps(r, pc),
         UNCHANGED <<redis, up, exact, loose, broken>>,
         req'[r].pc \notin {"register", "rollback", "heartbeat", "incRead", "incWrite", "decWrite",
                          "unmap", "insert", "engine"},
         req'[r].pc \in Making => req[r].pc \in Making
  PROVE  AllThere' /\ AtEase(r)'
  BY DEF AllThere, AtEase, Ends, Steps, redis, Making

\* The registry's calls: what they write is what they have read, and one more
\* or one less.
LEMMA RegistryCalm ==
  ASSUME Slots <= 1, TypeOK, SessionInv, CountInv, TypeOK', AllThere, NEW r \in Requests, AtEase(r),
         \/ RegisterWrite(r) \/ HeartbeatWrite(r) \/ IncRead(r) \/ IncWrite(r) \/ DecRead(r) \/ DecWrite(r)
  PROVE  AllThere' /\ AtEase(r)'
  <1> DEFINE g == req[r].engine
  <1>0. req[r].pc # "idle" => g \in Engines /\ registry[g] # Gone /\ registry[g] \in 0 .. Cap
    BY WhoCalls DEF AllThere, TypeOK
  <1>1. ASSUME RegisterWrite(r) PROVE FALSE
    BY <1>1 DEF RegisterWrite, AtEase
  <1>2. ASSUME HeartbeatWrite(r) PROVE AllThere' /\ AtEase(r)'
    <2>1. registry' = registry /\ exact' = exact
      BY <1>2 DEF HeartbeatWrite, WriteBack, AtEase, TypeOK
    <2>2. Ends(r)
      BY <1>2, HeartbeatWriteMoves
    <2> QED  BY <1>2, <2>1, <2>2, MovesOnCalm DEF HeartbeatWrite, Ends, redis, Making
  <1>3. ASSUME IncRead(r) PROVE AllThere' /\ AtEase(r)'
    <2>1. Read(r, "incWrite") /\ UNCHANGED <<redis, up, exact, loose, broken>>
      BY <1>0, <1>3 DEF IncRead, history
    <2>2. Steps(r, "incWrite") /\ req'[r].seen = registry[g]
      BY <1>0, <1>3, <2>1, ReadDoes DEF IncRead, Pcs, Calling
    <2> QED  BY <1>3, <2>1, <2>2 DEF IncRead, AllThere, AtEase, Steps, redis, Making
  <1>4. ASSUME IncWrite(r) PROVE AllThere' /\ AtEase(r)'
    <2>1. req[r].seen = registry[g] /\ registry[g] < Cap
      BY <1>4 DEF IncWrite, AtEase, Making
    <2>2. exact' = exact /\ registry' = [registry EXCEPT ![g] = registry[g] + 1]
      <3>1. PICK n \in 0 .. Cap : n = req[r].seen /\ n = registry[g]
        BY <1>0, <1>4, <2>1 DEF IncWrite
      <3>2. n < Cap /\ Least(n + 1, Cap) = n + 1
        BY <2>1, <3>1, TenantSessionsAssumption DEF Least
      <3> QED  BY <1>4, <3>1, <3>2 DEF IncWrite
    <2>3. \A h \in Engines : registry'[h] # Gone
      BY <1>0, <1>4, <2>2 DEF AllThere, TypeOK, IncWrite
    <2>4. Ends(r)
      BY <1>4, IncWriteMoves
    <2> QED  BY <1>4, <2>2, <2>3, <2>4 DEF IncWrite, AllThere, AtEase, Ends, Making
  <1>5. ASSUME DecRead(r) PROVE AllThere' /\ AtEase(r)'
    <2>1. Read(r, "decWrite") /\ UNCHANGED <<redis, up, exact, loose, broken>>
      BY <1>0, <1>5 DEF DecRead, history
    <2>2. Steps(r, "decWrite") /\ req'[r].seen = registry[g]
      BY <1>0, <1>5, <2>1, ReadDoes DEF DecRead, Pcs, Calling
    <2> QED  BY <2>1, <2>2 DEF AllThere, AtEase, Steps, redis, Making
  <1>6. ASSUME DecWrite(r) PROVE AllThere' /\ AtEase(r)'
    <2>1. req[r].seen = registry[g] /\ g \in exact /\ req[r].pc = "decWrite"
      BY <1>0, <1>6 DEF DecWrite, AtEase, AllThere
    <2>2. req[r].session \in Mapped(g)
      BY <2>1, WhoCalls, CountParts DEF ReleaseOk, Mapped, Calling
    <2>3. Cardinality(Mapped(g)) # 0
      BY <1>0, <2>1, <2>2, CountParts, FS_EmptySet
    <2>4. Coming(g) = {} /\ Leaving(g) = {}
      BY <2>1, OnlyRequest DEF Coming, Leaving
    <2>5. registry[g] > 0
      <3>1. /\ Cardinality(Mapped(g)) \in Nat
            /\ registry[g] + Cardinality(Coming(g)) + Cardinality(Leaving(g)) = Cardinality(Mapped(g))
        BY <1>0, <2>1, Tally
      <3>2. Cardinality(Coming(g)) = 0 /\ Cardinality(Leaving(g)) = 0
        BY <2>4, FS_EmptySet
      <3> QED  BY <1>0, <2>1, <2>3, <3>1, <3>2
    <2>6. exact' = exact /\ registry' = [registry EXCEPT ![g] = registry[g] - 1]
      <3>1. PICK n \in 0 .. Cap : n = req[r].seen /\ n = registry[g]
        BY <1>0, <2>1
      <3>2. n > 0 /\ Most(n - 1, 0) = n - 1
        BY <2>5, <3>1, TenantSessionsAssumption DEF Most
      <3> QED  BY <1>6, <3>1, <3>2 DEF DecWrite
    <2>7. registry'[g] < Cap /\ \A h \in Engines : registry'[h] # Gone
      BY <1>0, <2>1, <2>5, <2>6, TenantSessionsAssumption DEF AllThere, TypeOK
    <2>8. Steps(r, "unmap")
      BY <1>6, DecWriteMoves
    <2> QED  BY <1>6, <2>6, <2>7, <2>8 DEF DecWrite, AllThere, AtEase, Steps, Making
  <1> QED  BY <1>1, <1>2, <1>3, <1>4, <1>5, <1>6

\* createSession, reconnectSession, unlinkSession and deleteSession go on.
LEMMA CallsCalm ==
  ASSUME Slots <= 1, TypeOK, SessionInv, AllThere, NEW r \in Requests, AtEase(r),
         faults' = 0, faults = 0,
         \/ CreateRow(r) \/ CreatePost(r) \/ CreateFails(r) \/ CreateRollback(r) \/ CreateSaveId(r)
         \/ CreateMap(r) \/ ReconnectPost(r) \/ ReconnectWrite(r)
         \/ DeleteEngine(r) \/ Release(r) \/ Unmap(r) \/ DeleteRow(r) \/ RequestLost(r)
  PROVE  AllThere' /\ AtEase(r)'
  <1>0. /\ req[r].pc # "idle" => req[r].engine \in Engines
        /\ req[r].pc \in Calling => req[r].session \in Sessions
    BY WhoCalls
  <1>1. ASSUME CreateFails(r) \/ RequestLost(r) \/ CreateRollback(r) PROVE FALSE
    BY <1>1 DEF CreateFails, RequestLost, CreateRollback, Fault, AtEase
  <1>2. CASE CreateRow(r)
    BY <1>2, CreateRowMoves, MovesOnCalm DEF CreateRow, Steps, Pcs, Calling, Making, history
  <1>3. CASE CreatePost(r)
    <2>1. Steps(r, "saveId")
      BY <1>0, <1>3, CreatePostMoves DEF CreatePost, AllThere
    <2> QED  BY <1>3, <2>1, MovesOnCalm DEF CreatePost, Steps, Pcs, Calling, Making, history
  <1>4. CASE CreateSaveId(r)
    <2>1. Steps(r, "map") \/ Ends(r)
      BY <1>4, CreateSaveIdMoves
    <2> QED  BY <1>4, <2>1, MovesOnCalm DEF CreateSaveId, Steps, Ends, Pcs, Calling, Making, history
  <1>5. CASE CreateMap(r)
    <2>1. Steps(r, "incRead") /\ mapping'[req[r].session] = req[r].engine
      BY <1>0, <1>5, CreateMapMoves DEF CreateMap, TypeOK, Calling
    <2> QED  BY <1>5, <2>1 DEF CreateMap, AllThere, AtEase, Steps, history, Making
  <1>6. CASE ReconnectPost(r)
    <2>1. Steps(r, "status") \/ Ends(r)
      BY <1>6, ReconnectPostMoves
    <2> QED  BY <1>6, <2>1, MovesOnCalm DEF ReconnectPost, Steps, Ends, Pcs, Calling, Making, history
  <1>7. CASE ReconnectWrite(r)
    BY <1>7, ReconnectWriteMoves, MovesOnCalm DEF ReconnectWrite, Ends, Making, history
  <1>8. CASE DeleteEngine(r)
    <2>1. UNCHANGED <<redis, up, exact, broken, loose>>
      BY <1>0, <1>8 DEF DeleteEngine, AllThere, Fault
    <2> QED  BY <1>8, <2>1, DeleteEngineMoves, MovesOnCalm DEF Steps, Pcs, Calling, Making
  <1>9. CASE Release(r)
    <2>1. ~Releasing(req[r].session)
      BY <1>9, OnlyRequest DEF Release, Releasing
    <2>2. UNCHANGED <<redis, up, exact, broken, loose>>
      BY <1>9, <2>1 DEF Release
    <2>3. req'[r].pc \in {"remove", "decRead"}
      BY <1>9, ReleaseMoves DEF Steps
    <2> QED  BY <2>2, <2>3 DEF AllThere, AtEase, redis, Making
  <1>10. CASE Unmap(r)
    <2>1. Steps(r, "remove")
      BY <1>10, UnmapMoves
    <2> QED  BY <1>10, <2>1 DEF Unmap, AllThere, AtEase, Steps, history, Making
  <1>11. CASE DeleteRow(r)
    BY <1>11, DeleteRowMoves, MovesOnCalm DEF DeleteRow, Ends, Making, history
  <1> QED  BY <1>1, <1>2, <1>3, <1>4, <1>5, <1>6, <1>7, <1>8, <1>9, <1>10, <1>11

LEMMA CalmStep ==
  Slots <= 1 /\ TypeOK /\ TypeOK' /\ SessionInv /\ CountInv /\ CalmInv /\ Counted /\ [Next]_vars
    => CalmInv'
  <1> SUFFICES ASSUME Slots <= 1, TypeOK, TypeOK', SessionInv, CountInv, Calm, faults \in Nat,
                      [Next]_vars, faults' = 0
               PROVE  AllThere' /\ \A r \in Requests : AtEase(r)'
    BY CalmParts DEF CalmInv, AllThere, AtEase, Counted
  <1>0. faults = 0 /\ AllThere /\ \A r \in Requests : AtEase(r)
    BY FaultsGrow DEF Calm
  <1>1. ASSUME NEW r \in Requests, AllThere', AtEase(r)' PROVE \A q \in Requests : AtEase(q)'
    BY <1>1, OnlyRequest
  <1>2. ASSUME NEW r \in Requests, Ask(r) \/ GoOn(r) PROVE AllThere' /\ \A q \in Requests : AtEase(q)'
    <2>1. AllThere' /\ AtEase(r)'
      BY <1>0, <1>2, BeginCalm, RegistryCalm, CallsCalm DEF GoOn
    <2> QED  BY <1>1, <2>1
  <1>3. CASE \/ \E s \in Sessions : EngineConnects(s) \/ EngineDisconnects(s) \/ MappingExpires(s)
             \/ \E g \in Engines : EngineCrashes(g) \/ KeyGone(g)
             \/ \E i \in DOMAIN events : HandleSessionEvent(i) \/ EventFails(i)
             \/ UNCHANGED vars
    <2>1. UNCHANGED <<redis, req, up, exact, loose, broken>>
      <3>1. ASSUME NEW s \in Sessions, EngineConnects(s) \/ EngineDisconnects(s)
            PROVE  UNCHANGED <<redis, req, up, exact, loose, broken>>
        BY <3>1 DEF EngineConnects, EngineDisconnects
      <3>2. ASSUME NEW s \in Sessions, MappingExpires(s) PROVE FALSE
        BY <1>0, <3>2 DEF MappingExpires, Fault
      <3>3. ASSUME NEW g \in Engines, EngineCrashes(g) \/ KeyGone(g) PROVE FALSE
        BY <1>0, <3>3 DEF EngineCrashes, KeyGone, Fault
      <3>4. ASSUME NEW i \in DOMAIN events, HandleSessionEvent(i)
            PROVE  UNCHANGED <<redis, req, up, exact, loose, broken>>
        BY <3>4 DEF HandleSessionEvent
      <3>5. ASSUME NEW i \in DOMAIN events, EventFails(i) PROVE FALSE
        BY <1>0, <3>5 DEF EventFails, Fault
      <3>6. CASE UNCHANGED vars
        BY <3>6 DEF vars, history
      <3> QED  BY <1>3, <3>1, <3>2, <3>3, <3>4, <3>5, <3>6
    <2> QED  BY <1>0, <2>1 DEF AllThere, AtEase, redis
  <1> QED  BY <1>2, <1>3 DEF Next

\* A session the engine runs is mapped to it, or is just being created.
LEMMA RunIsMapped ==
  ASSUME Slots <= 1, TypeOK, SessionInv, AllThere, \A r \in Requests : AtEase(r),
         NEW g \in Engines, NEW s \in Run(g)
  PROVE  \/ s \in Mapped(g)
         \/ \E r \in Requests : req[r].pc \in {"saveId", "map"} /\ On(r, s) /\ req[r].engine = g
  <1>1. s \in Sessions /\ hosted[s] # "no" /\ row[s].engine = g /\ SessionOk(s)
    BY DEF Run, SessionInv
  <1>2. GhostOk(s) /\ s \notin loose \cup broken /\ TasksOk(s) /\ row[s].state # "none"
    BY <1>1 DEF SessionOk, RowOk, AllThere
  <1>3. Exists(s) /\ ~Working(s) => s \in Mapped(g)
    BY <1>1, <1>2, SessionsMeet DEF RowIsWhole, Mapped
  <1>4. CASE Quiet(s)
    BY <1>1, <1>2, <1>3, <1>4 DEF GhostOk, Quiet, Working
  <1>5. ASSUME NEW r \in Requests, On(r, s)
        PROVE  s \in Mapped(g) \/ (req[r].pc \in {"saveId", "map"} /\ req[r].engine = g)
    <2>1. req[r].pc \in Calling
      BY <1>1, <1>5, OwnSession, TenantSessionsAssumption
    <2>2. ~At(r, {"insert"})
      BY <1>1, <1>2, <1>5 DEF TasksOk, NoRow
    <2>3. Exists(s) /\ ~At(r, Dooming \cup {"rollback"})
      BY <1>1, <1>2, <1>5, <2>2 DEF GhostOk
    <2>4. req[r].engine = g /\ ~At(r, {"post"})
      BY <1>1, <1>2, <1>5, <2>2 DEF TasksOk
    <2>5. CASE At(r, {"reconnect", "unlink", "status"})
      BY <1>3, <2>3, <2>5, OnlyRequest DEF Working
    <2>6. CASE At(r, {"incRead", "incWrite", "engine"})
      BY <1>1, <1>5, <2>4, <2>6 DEF AtEase, Mapped
    <2> QED  BY <2>1, <2>2, <2>3, <2>4, <2>5, <2>6 DEF Calling, Dooming
  <1> QED  BY <1>4, <1>5 DEF Quiet

\* So no engine has more of them than it has room for.
LEMMA RoomForAll ==
  ASSUME Slots <= 1, TypeOK, SessionInv, CountInv, AllThere, \A r \in Requests : AtEase(r),
         NEW g \in Engines
  PROVE  Cardinality(Run(g)) <= Cap
  <1>1. /\ registry[g] \in 0 .. Cap /\ Cap \in Nat
        /\ Cardinality(Coming(g)) \in Nat /\ Cardinality(Leaving(g)) \in Nat
        /\ Cardinality(Mapped(g)) \in Nat
        /\ registry[g] + Cardinality(Coming(g)) + Cardinality(Leaving(g)) = Cardinality(Mapped(g))
    BY Tally, TenantSessionsAssumption DEF AllThere, TypeOK
  <1>2. IsFiniteSet(Mapped(g))
    BY CountParts
  <1>3. CASE \E r \in Requests : req[r].pc \in {"saveId", "map"} /\ req[r].engine = g
    <2>1. PICK r \in Requests : req[r].pc \in {"saveId", "map"} /\ req[r].engine = g
      BY <1>3
    <2> DEFINE s == req[r].session
    <2>2. Coming(g) = {} /\ Leaving(g) = {}
      BY <2>1, OnlyRequest DEF Coming, Leaving
    <2>3. Cardinality(Mapped(g)) = registry[g]
      BY <1>1, <2>2, FS_EmptySet
    <2>4. registry[g] < Cap
      BY <2>1 DEF AtEase, Making
    <2>5. Run(g) \subseteq Mapped(g) \cup {s}
      BY <2>1, RunIsMapped, OnlyRequest
    <2>6. IsFiniteSet(Mapped(g) \cup {s}) /\ Cardinality(Mapped(g) \cup {s}) <= Cardinality(Mapped(g)) + 1
      <3> DEFINE C == Mapped(g)
      <3>1. /\ IsFiniteSet(C \cup {s})
            /\ Cardinality(C \cup {s}) = IF s \in C THEN Cardinality(C) ELSE Cardinality(C) + 1
        BY <1>2, FS_AddElement
      <3> HIDE DEF s
      <3> QED  BY <1>1, <3>1
    <2>7. Cardinality(Run(g)) <= Cardinality(Mapped(g) \cup {s}) /\ Cardinality(Run(g)) \in Nat
          /\ Cardinality(Mapped(g) \cup {s}) \in Nat
      BY <2>5, <2>6, FS_Subset, FS_CardinalityType
    <2> QED  BY <1>1, <2>3, <2>4, <2>6, <2>7
  <1>4. CASE ~\E r \in Requests : req[r].pc \in {"saveId", "map"} /\ req[r].engine = g
    <2>1. Run(g) \subseteq Mapped(g)
      BY <1>4, RunIsMapped
    <2>2. Cardinality(Run(g)) <= Cardinality(Mapped(g)) /\ Cardinality(Run(g)) \in Nat
      BY <1>2, <2>1, FS_Subset, FS_CardinalityType
    <2>3. Cardinality(Mapped(g)) <= Cap
      <3>1. CASE Coming(g) = {} /\ Leaving(g) = {}
        BY <1>1, <3>1, FS_EmptySet
      <3>2. ASSUME NEW r \in Requests, r \in Coming(g) PROVE Cardinality(Mapped(g)) <= Cap
        <4>1. Coming(g) = {r} /\ Leaving(g) = {}
          BY <3>2, OnlyRequest DEF Coming, Leaving
        <4>2. registry[g] < Cap
          BY <3>2 DEF Coming, AtEase, Making
        <4>3. Cardinality(Coming(g)) = 1 /\ Cardinality(Leaving(g)) = 0
          BY <4>1, FS_EmptySet, FS_Singleton
        <4> QED  BY <1>1, <4>2, <4>3
      <3>3. ASSUME NEW r \in Requests, r \in Leaving(g) PROVE Cardinality(Mapped(g)) <= Cap
        <4>1. Coming(g) = {} /\ Leaving(g) = {r}
          BY <3>3, OnlyRequest DEF Coming, Leaving
        <4>2. registry[g] < Cap
          BY <3>3 DEF Leaving, AtEase
        <4>3. Cardinality(Coming(g)) = 0 /\ Cardinality(Leaving(g)) = 1
          BY <4>1, FS_EmptySet, FS_Singleton
        <4> QED  BY <1>1, <4>2, <4>3
      <3>4. Coming(g) \subseteq Requests /\ Leaving(g) \subseteq Requests
        BY DEF Coming, Leaving
      <3> QED  BY <3>1, <3>2, <3>3, <3>4
    <2> QED  BY <1>1, <2>2, <2>3
  <1> QED  BY <1>3, <1>4

\* No call and no key was lost, so no session was left half done.
LEMMA UnbrokenStep == Unbroken /\ Counted /\ [Next]_vars => Unbroken'
  <1> SUFFICES ASSUME faults = 0 => broken = {}, faults \in Nat, [Next]_vars, faults' = 0
               PROVE  broken' = {}
    BY DEF Unbroken, Counted
  <1>1. faults = 0 /\ broken = {}
    BY FaultsGrow
  <1>2. ASSUME Fault PROVE FALSE
    BY <1>1, <1>2 DEF Fault
  <1>3. ASSUME NEW r \in Requests, Ask(r) PROVE broken' = broken
    BY <1>3 DEF Ask, RegisterReset, HeartbeatRead, CreatePick, DeleteRead, ReconnectRead, history
  <1>4. ASSUME NEW r \in Requests, GoOn(r) PROVE broken' = broken
    <2>1. ~RequestLost(r)
      BY <1>2 DEF RequestLost
    <2>2. CASE \/ RegisterWrite(r) \/ HeartbeatWrite(r) \/ IncRead(r) \/ IncWrite(r) \/ DecRead(r) \/ DecWrite(r)
      BY <2>2, Zenon DEF RegisterWrite, HeartbeatWrite, IncRead, IncWrite, DecRead, DecWrite, history
    <2>3. CASE \/ CreateRow(r) \/ CreatePost(r) \/ CreateFails(r) \/ CreateRollback(r) \/ CreateSaveId(r)
               \/ CreateMap(r)
      BY <2>3, Zenon DEF CreateRow, CreatePost, CreateFails, CreateRollback, CreateSaveId, CreateMap, history
    <2>4. CASE \/ ReconnectPost(r) \/ ReconnectWrite(r) \/ DeleteEngine(r) \/ Release(r) \/ Unmap(r) \/ DeleteRow(r)
      BY <2>4, Zenon DEF ReconnectPost, ReconnectWrite, DeleteEngine, Release, Unmap, DeleteRow, history
    <2> QED  BY <1>4, <2>1, <2>2, <2>3, <2>4 DEF GoOn
  <1>5. ASSUME NEW s \in Sessions, EngineConnects(s) \/ EngineDisconnects(s) \/ MappingExpires(s)
        PROVE  broken' = broken
    BY <1>2, <1>5 DEF EngineConnects, EngineDisconnects, MappingExpires
  <1>6. ASSUME NEW g \in Engines, EngineCrashes(g) \/ KeyGone(g) PROVE FALSE
    BY <1>2, <1>6 DEF EngineCrashes, KeyGone
  <1>7. ASSUME NEW i \in DOMAIN events, HandleSessionEvent(i) \/ EventFails(i) PROVE broken' = broken
    BY <1>2, <1>7 DEF HandleSessionEvent, EventFails
  <1> QED  BY <1>1, <1>3, <1>4, <1>5, <1>6, <1>7 DEF Next, vars, history

\* createSession, deleteSession: until something fails every row that nobody is
\* working on has its openwaId and its mapping, whatever overlaps.
THEOREM CalmRowsAreWhole == Spec => []CalmIsWhole
  <1>1. Init => Counted /\ Unbroken
    BY DEF Init, Counted, Unbroken
  <1>2. Counted /\ [Next]_vars => Counted'
    BY FaultsGrow DEF Counted
  <1>3. RowIsWhole /\ Unbroken => CalmIsWhole
    BY DEF RowIsWhole, CalmIsWhole, Unbroken
  <1> QED  BY <1>1, <1>2, <1>3, UnbrokenStep, RowsAreWhole, PTL DEF Spec

\* Where one request is handled at a time and nothing has failed yet, the counts
\* in Redis are the sessions mapped, no session runs without a row, and no
\* engine runs more sessions than maxSessions.
THEOREM CalmIsKept == Slots <= 1 => (Spec => []CalmIsExact)
  <1> SUFFICES ASSUME Slots <= 1 PROVE Spec => []CalmIsExact
    OBVIOUS
  <1>1. Init => Counted /\ CalmInv
    <2> SUFFICES ASSUME Init PROVE CalmInv
      BY DEF Init, Counted
    <2>1. \A r \in Requests : req[r].pc = "idle"
      <3>1. Idle.pc = "idle"
        BY TaskShape DEF Pcs
      <3> HIDE DEF Idle
      <3> QED  BY <3>1 DEF Init
    <2> QED  BY <2>1 DEF Init, CalmInv, Making
  <1>2. Counted /\ [Next]_vars => Counted'
    BY FaultsGrow DEF Counted
  <1>3. TypeOK /\ SessionInv /\ CountInv /\ CalmInv => CalmIsExact
    <2> SUFFICES ASSUME TypeOK, SessionInv, CountInv, CalmInv, faults = 0
                 PROVE  /\ \A s \in Sessions : hosted[s] # "no" /\ Quiet(s) => Exists(s)
                        /\ \A g \in Engines :
                             /\ registry[g] + Cardinality(Coming(g)) + Cardinality(Leaving(g))
                                  = Cardinality(Mapped(g))
                             /\ Cardinality(Run(g)) <= Cap
      BY DEF CalmIsExact
    <2>1. AllThere /\ \A r \in Requests : AtEase(r)
      BY CalmParts DEF Calm
    <2>2. \A s \in Sessions : hosted[s] # "no" /\ Quiet(s) => Exists(s)
      BY <2>1, SessionsMeet DEF NoGhosts, AllThere
    <2>3. ASSUME NEW g \in Engines
          PROVE  /\ registry[g] \in 0 .. Cap
                 /\ Cardinality(Coming(g)) \in Nat /\ Cardinality(Leaving(g)) \in Nat
                 /\ Cardinality(Mapped(g)) \in Nat
                 /\ registry[g] + Cardinality(Coming(g)) + Cardinality(Leaving(g)) = Cardinality(Mapped(g))
      BY <2>1, Tally DEF AllThere, TypeOK
    <2>4. ASSUME NEW g \in Engines PROVE Cardinality(Run(g)) <= Cap
      BY <2>1, <2>2, <2>3, RoomForAll
    <2> QED  BY <2>2, <2>3, <2>4
  <1> QED  BY <1>1, <1>2, <1>3, CalmStep, AllInv, PTL DEF Spec
=============================================================================
