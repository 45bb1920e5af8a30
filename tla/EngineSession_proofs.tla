------------------------ MODULE EngineSession_proofs ------------------------
(***************************************************************************)
(* What holds of EngineSession for any number of engines, tasks, attempts  *)
(* and pending timers.                                                     *)
(***************************************************************************)
EXTENDS EngineSession, TLAPS

\* A new engine is one of the engines, and nobody's yet.
LEMMA NewEngineIsFree == Free # {} => NewEngine \in Free /\ NewEngine \in Engines
BY DEF NewEngine, Free

\* The initial state has every variable in its type.
LEMMA TypeInit == Init => TypeOK
<1> SUFFICES ASSUME Init PROVE TypeOK
  OBVIOUS
<1>1. tracked \in BOOLEAN /\ timer \in BOOLEAN
  BY Zenon DEF Init
<1> QED BY <1>1, EnginesAssumption, LimitsAssumption
        DEF Init, TypeOK, RowStatus, ClientStatus, Places

\* Every step keeps every variable in its type.
LEMMA TypeStep == TypeOK /\ [Next]_vars => TypeOK'
<1> SUFFICES ASSUME TypeOK, [Next]_vars PROVE TypeOK'
  OBVIOUS
<1> USE EnginesAssumption, LimitsAssumption DEF TypeOK, RowStatus, ClientStatus, Places,
      memVars, histVars, Exists
<1>1. CASE Create
  BY <1>1 DEF Create
<1>2. CASE \E t \in Tasks : StartBegin(t)
  BY <1>2 DEF StartBegin, Begin, Go, At, Exists
<1>3. CASE \E t \in Tasks : StopBegin(t)
  <2>1. tracked' \in BOOLEAN /\ timer' \in BOOLEAN
    BY <1>3, Zenon DEF StopBegin, CancelReconnect
  <2> QED BY <1>3, <2>1 DEF StopBegin, Go, At, Exists, CancelReconnect, Calm
<1>4. CASE \E t \in Tasks : StopIdle(t)
  <2>1. tracked' \in BOOLEAN /\ timer' \in BOOLEAN
    BY <1>4, Zenon DEF StopIdle, CancelReconnect
  <2> QED BY <1>4, <2>1 DEF StopIdle, At, Exists, CancelReconnect, Answered, Calm
<1>5. CASE \E t \in Tasks : DeleteBegin(t)
  <2>1. tracked' \in BOOLEAN /\ timer' \in BOOLEAN
    BY <1>5, Zenon DEF DeleteBegin, CancelReconnect
  <2> QED BY <1>5, <2>1 DEF DeleteBegin, Begin, Go, At, Exists, CancelReconnect
<1>6. CASE \E t \in Tasks : StartEngine(t)
  <2>1. tracked' \in BOOLEAN /\ timer' \in BOOLEAN
    BY <1>6, Zenon DEF StartEngine
  <2> QED BY <1>6, <2>1, NewEngineIsFree DEF StartEngine, At, CreateEngine, Go, Set, Due
<1>7. CASE \E t \in Tasks : InitDone(t)
  <2> PICK t \in Tasks : InitDone(t)
    BY <1>7
  <2>1. task[t].eng \in Engines \cup {None} /\ "up" \in ClientStatus
    OBVIOUS
  <2>2. client' \in [Engines -> ClientStatus]
    BY <2>1 DEF InitDone
  <2>3. task' \in [Tasks -> [at : Places, eng : Engines \cup {None}]]
    BY DEF InitDone, Return, Go
  <2>4. row' \in RowStatus
    BY DEF InitDone, Set
  <2> QED BY <2>2, <2>3, <2>4 DEF InitDone
<1>8. CASE \E t \in Tasks : InitFails(t)
  <2> PICK t \in Tasks : InitFails(t)
    BY <1>8
  <2>1. tracked' \in BOOLEAN /\ timer' \in BOOLEAN
    <3>1. CASE At(t, "reInit")
      BY <3>1, Zenon DEF InitFails, ScheduleReconnect
    <3>2. CASE ~At(t, "reInit")
      BY <3>2, Zenon DEF InitFails
    <3> QED BY <3>1, <3>2
  <2>2. client' \in [Engines -> ClientStatus]
    BY DEF InitFails
  <2>3. task' \in [Tasks -> [at : Places, eng : Engines \cup {None}]]
    BY DEF InitFails, Return, Go
  <2>4. attempts' \in 0 .. MaxAttempts /\ loose' \in Nat
    BY DEF InitFails, ScheduleReconnect, Due
  <2> QED BY <2>1, <2>2, <2>3, <2>4 DEF InitFails, Set
<1>9. CASE \E t \in Tasks, throws \in BOOLEAN : StopDone(t, throws)
  <2> PICK t \in Tasks, throws \in BOOLEAN : StopDone(t, throws)
    BY <1>9
  <2>1. client' \in [Engines -> ClientStatus]
    BY DEF StopDone
  <2>2. task' \in [Tasks -> [at : Places, eng : Engines \cup {None}]]
    BY DEF StopDone, Return, Go
  <2>3. leaked' \in SUBSET (Engines \cup {None})
    BY DEF StopDone
  <2>4. row' \in RowStatus /\ stopped' \in {"no", "raced", "alone"} /\ map' = None /\ alone' = {}
    BY DEF StopDone, Set, Answered
  <2> QED BY <2>1, <2>2, <2>3, <2>4 DEF StopDone
<1>10. CASE \E t \in Tasks : DeleteDestroyed(t)
  <2> PICK t \in Tasks : DeleteDestroyed(t)
    BY <1>10
  <2>1. client' \in [Engines -> ClientStatus]
    BY DEF DeleteDestroyed
  <2>2. task' \in [Tasks -> [at : Places, eng : Engines \cup {None}]]
    BY DEF DeleteDestroyed, Go
  <2> QED BY <2>1, <2>2 DEF DeleteDestroyed, Set
<1>11. CASE \E t \in Tasks : DeleteFails(t)
  BY <1>11 DEF DeleteFails, At, Return, Go
<1>12. CASE \E t \in Tasks : DeleteDone(t)
  BY <1>12 DEF DeleteDone, At, Return, Go
<1>13. CASE \E t \in Tasks : ReDestroyed(t)
  BY <1>13, NewEngineIsFree DEF ReDestroyed, At, CreateEngine, Go, Set
<1>14. CASE \E t \in Tasks : ReDestroyFails(t)
  <2>1. tracked' \in BOOLEAN /\ timer' \in BOOLEAN
    BY <1>14, Zenon DEF ReDestroyFails, ScheduleReconnect
  <2> QED BY <1>14, <2>1 DEF ReDestroyFails, At, Return, Go, ScheduleReconnect, Due
<1>15. CASE \E t \in Tasks, b \in BOOLEAN : TimerFires(t, b)
  <2>1. tracked' \in BOOLEAN /\ timer' \in BOOLEAN
    BY <1>15, Zenon DEF TimerFires
  <2> QED BY <1>15, <2>1, NewEngineIsFree DEF TimerFires, At, CreateEngine, Go, Set
<1>16. CASE \E e \in Engines : ClientProgress(e)
  BY <1>16 DEF ClientProgress, Set
<1>17. CASE \E e \in Engines : ClientReady(e)
  BY <1>17 DEF ClientReady, Set, Due
<1>18. CASE \E e \in Engines, dies \in BOOLEAN : ClientDisconnected(e, dies)
  <2>1. tracked' \in BOOLEAN /\ timer' \in BOOLEAN
    BY <1>18, Zenon DEF ClientDisconnected, ScheduleReconnect
  <2> QED BY <1>18, <2>1 DEF ClientDisconnected, Set, Live, ScheduleReconnect, Due
<1>19. CASE Restart
  <2>1. tracked' \in BOOLEAN /\ timer' \in BOOLEAN
    BY <1>19, Zenon DEF Restart
  <2> QED BY <1>19, <2>1 DEF Restart
<1>20. CASE UNCHANGED vars
  BY <1>20 DEF vars, memVars, histVars
<1> QED BY <1>1, <1>2, <1>3, <1>4, <1>5, <1>6, <1>7, <1>8, <1>9, <1>10,
           <1>11, <1>12, <1>13, <1>14, <1>15, <1>16, <1>17, <1>18, <1>19, <1>20
           DEF Next, Resume, TimersFire

\* The map is emptied, or gets the engine just made.
LEMMA NewestStep == TypeOK /\ NewestInMap /\ [Next]_vars => NewestInMap'
<1> SUFFICES ASSUME TypeOK, NewestInMap, [Next]_vars PROVE NewestInMap'
  OBVIOUS
<1> USE DEF NewestInMap, memVars, histVars, CreateEngine
<1>1. CASE Create
  BY <1>1 DEF Create
<1>2. CASE \E t \in Tasks : StartBegin(t)
  BY <1>2 DEF StartBegin, Begin, Go, At, Exists
<1>3. CASE \E t \in Tasks : StopBegin(t)
  BY <1>3 DEF StopBegin, Go, At, Exists, CancelReconnect, Calm
<1>4. CASE \E t \in Tasks : StopIdle(t)
  BY <1>4 DEF StopIdle, At, Exists, CancelReconnect, Answered, Calm
<1>5. CASE \E t \in Tasks : DeleteBegin(t)
  BY <1>5 DEF DeleteBegin, Begin, Go, At, Exists, CancelReconnect
<1>6. CASE \E t \in Tasks : StartEngine(t)
  BY <1>6 DEF StartEngine, At, CreateEngine, Go, Set, Due
<1>7. CASE \E t \in Tasks : InitDone(t)
  BY <1>7 DEF InitDone, At, Set, Return, Go
<1>8. CASE \E t \in Tasks : InitFails(t)
  BY <1>8 DEF InitFails, At, Set, Return, Go, ScheduleReconnect, Due
<1>9. CASE \E t \in Tasks, throws \in BOOLEAN : StopDone(t, throws)
  BY <1>9 DEF StopDone, At, Set, Return, Go, Answered
<1>10. CASE \E t \in Tasks : DeleteDestroyed(t)
  BY <1>10 DEF DeleteDestroyed, At, Set, Go
<1>11. CASE \E t \in Tasks : DeleteFails(t)
  BY <1>11 DEF DeleteFails, At, Return, Go
<1>12. CASE \E t \in Tasks : DeleteDone(t)
  BY <1>12 DEF DeleteDone, At, Return, Go
<1>13. CASE \E t \in Tasks : ReDestroyed(t)
  BY <1>13 DEF ReDestroyed, At, CreateEngine, Go, Set
<1>14. CASE \E t \in Tasks : ReDestroyFails(t)
  BY <1>14 DEF ReDestroyFails, At, Return, Go, ScheduleReconnect, Due
<1>15. CASE \E t \in Tasks, b \in BOOLEAN : TimerFires(t, b)
  BY <1>15 DEF TimerFires, At, CreateEngine, Go, Set
<1>16. CASE \E e \in Engines : ClientProgress(e)
  BY <1>16 DEF ClientProgress, Set
<1>17. CASE \E e \in Engines : ClientReady(e)
  BY <1>17 DEF ClientReady, Set, Due
<1>18. CASE \E e \in Engines, dies \in BOOLEAN : ClientDisconnected(e, dies)
  BY <1>18 DEF ClientDisconnected, Set, Live, ScheduleReconnect, Due
<1>19. CASE Restart
  BY <1>19 DEF Restart
<1>20. CASE UNCHANGED vars
  BY <1>20 DEF vars, memVars, histVars
<1> QED BY <1>1, <1>2, <1>3, <1>4, <1>5, <1>6, <1>7, <1>8, <1>9, <1>10,
           <1>11, <1>12, <1>13, <1>14, <1>15, <1>16, <1>17, <1>18, <1>19, <1>20
           DEF Next, Resume, TimersFire

\* Whatever takes READY from a client writes another status first.
LEMMA ReadyStep == TypeOK /\ ReadyIsReal /\ [Next]_vars => ReadyIsReal'
<1> SUFFICES ASSUME TypeOK, ReadyIsReal, [Next]_vars PROVE ReadyIsReal'
  OBVIOUS
<1> USE EnginesAssumption DEF TypeOK, RowStatus, ClientStatus, ReadyIsReal, memVars,
      histVars, Exists
<1>1. CASE Create
  BY <1>1 DEF Create
<1>2. CASE \E t \in Tasks : StartBegin(t)
  BY <1>2 DEF StartBegin, Begin, Go, At, Exists
<1>3. CASE \E t \in Tasks : StopBegin(t)
  BY <1>3 DEF StopBegin, Go, At, Exists, CancelReconnect, Calm
<1>4. CASE \E t \in Tasks : StopIdle(t)
  BY <1>4 DEF StopIdle, At, Exists, CancelReconnect, Answered, Calm
<1>5. CASE \E t \in Tasks : DeleteBegin(t)
  BY <1>5 DEF DeleteBegin, Begin, Go, At, Exists, CancelReconnect
<1>6. CASE \E t \in Tasks : StartEngine(t)
  BY <1>6, NewEngineIsFree DEF StartEngine, At, CreateEngine, Go, Set, Due
<1>7. CASE \E t \in Tasks : InitDone(t)
  BY <1>7 DEF InitDone, At, Set, Return, Go
<1>8. CASE \E t \in Tasks : InitFails(t)
  BY <1>8 DEF InitFails, At, Set, Return, Go, ScheduleReconnect, Due
<1>9. CASE \E t \in Tasks, throws \in BOOLEAN : StopDone(t, throws)
  BY <1>9 DEF StopDone, At, Set, Return, Go, Answered
<1>10. CASE \E t \in Tasks : DeleteDestroyed(t)
  BY <1>10 DEF DeleteDestroyed, At, Set, Go
<1>11. CASE \E t \in Tasks : DeleteFails(t)
  BY <1>11 DEF DeleteFails, At, Return, Go
<1>12. CASE \E t \in Tasks : DeleteDone(t)
  BY <1>12 DEF DeleteDone, At, Return, Go
<1>13. CASE \E t \in Tasks : ReDestroyed(t)
  BY <1>13, NewEngineIsFree DEF ReDestroyed, At, CreateEngine, Go, Set
<1>14. CASE \E t \in Tasks : ReDestroyFails(t)
  BY <1>14 DEF ReDestroyFails, At, Return, Go, ScheduleReconnect, Due
<1>15. CASE \E t \in Tasks, b \in BOOLEAN : TimerFires(t, b)
  BY <1>15, NewEngineIsFree DEF TimerFires, At, CreateEngine, Go, Set
<1>16. CASE \E e \in Engines : ClientProgress(e)
  BY <1>16 DEF ClientProgress, Set
<1>17. CASE \E e \in Engines : ClientReady(e)
  BY <1>17 DEF ClientReady, Set, Due
<1>18. CASE \E e \in Engines, dies \in BOOLEAN : ClientDisconnected(e, dies)
  BY <1>18 DEF ClientDisconnected, Set, Live, ScheduleReconnect, Due
<1>19. CASE Restart
  BY <1>19 DEF Restart
<1>20. CASE UNCHANGED vars
  BY <1>20 DEF vars, memVars, histVars
<1> QED BY <1>1, <1>2, <1>3, <1>4, <1>5, <1>6, <1>7, <1>8, <1>9, <1>10,
           <1>11, <1>12, <1>13, <1>14, <1>15, <1>16, <1>17, <1>18, <1>19, <1>20
           DEF Next, Resume, TimersFire

(***************************************************************************)
(* Reconnections: what is still owed covers the pending timers and the     *)
(* attempts that are left.                                                 *)
(***************************************************************************)
RetriesCover == retriesLeft >= Due + (IF tracked THEN MaxAttempts - attempts ELSE 0)

\* Every step keeps the account.
LEMMA CoverStep == TypeOK /\ RetriesCover /\ [Next]_vars => RetriesCover'
<1> SUFFICES ASSUME TypeOK, RetriesCover, [Next]_vars PROVE RetriesCover'
  OBVIOUS
<1> USE LimitsAssumption DEF TypeOK, RetriesCover, memVars, histVars, Due, ScheduleReconnect,
      CancelReconnect
<1>1. CASE Create
  BY <1>1 DEF Create
<1>2. CASE \E t \in Tasks : StartBegin(t)
  BY <1>2 DEF StartBegin, Begin, Go, At, Exists
<1>3. CASE \E t \in Tasks : StopBegin(t)
  BY <1>3 DEF StopBegin, Go, At, Exists, CancelReconnect, Calm
<1>4. CASE \E t \in Tasks : StopIdle(t)
  BY <1>4 DEF StopIdle, At, Exists, CancelReconnect, Answered, Calm
<1>5. CASE \E t \in Tasks : DeleteBegin(t)
  BY <1>5 DEF DeleteBegin, Begin, Go, At, Exists, CancelReconnect
<1>6. CASE \E t \in Tasks : StartEngine(t)
  BY <1>6 DEF StartEngine, At, CreateEngine, Go, Set, Due
<1>7. CASE \E t \in Tasks : InitDone(t)
  BY <1>7 DEF InitDone, At, Set, Return, Go
<1>8. CASE \E t \in Tasks : InitFails(t)
  BY <1>8 DEF InitFails, At, Set, Return, Go, ScheduleReconnect, Due
<1>9. CASE \E t \in Tasks, throws \in BOOLEAN : StopDone(t, throws)
  BY <1>9 DEF StopDone, At, Set, Return, Go, Answered
<1>10. CASE \E t \in Tasks : DeleteDestroyed(t)
  BY <1>10 DEF DeleteDestroyed, At, Set, Go
<1>11. CASE \E t \in Tasks : DeleteFails(t)
  BY <1>11 DEF DeleteFails, At, Return, Go
<1>12. CASE \E t \in Tasks : DeleteDone(t)
  BY <1>12 DEF DeleteDone, At, Return, Go
<1>13. CASE \E t \in Tasks : ReDestroyed(t)
  BY <1>13 DEF ReDestroyed, At, CreateEngine, Go, Set
<1>14. CASE \E t \in Tasks : ReDestroyFails(t)
  BY <1>14 DEF ReDestroyFails, At, Return, Go, ScheduleReconnect, Due
<1>15. CASE \E t \in Tasks, b \in BOOLEAN : TimerFires(t, b)
  BY <1>15 DEF TimerFires, At, CreateEngine, Go, Set
<1>16. CASE \E e \in Engines : ClientProgress(e)
  BY <1>16 DEF ClientProgress, Set
<1>17. CASE \E e \in Engines : ClientReady(e)
  BY <1>17 DEF ClientReady, Set, Due
<1>18. CASE \E e \in Engines, dies \in BOOLEAN : ClientDisconnected(e, dies)
  BY <1>18 DEF ClientDisconnected, Set, Live, ScheduleReconnect, Due
<1>19. CASE Restart
  BY <1>19 DEF Restart
<1>20. CASE UNCHANGED vars
  BY <1>20 DEF vars, memVars, histVars
<1> QED BY <1>1, <1>2, <1>3, <1>4, <1>5, <1>6, <1>7, <1>8, <1>9, <1>10,
           <1>11, <1>12, <1>13, <1>14, <1>15, <1>16, <1>17, <1>18, <1>19, <1>20
           DEF Next, Resume, TimersFire

(***************************************************************************)
(* A stop that nothing overlapped.                                         *)
(***************************************************************************)
NobodyElse(t) == /\ ~tracked /\ ~timer /\ loose = 0
                 /\ \A u \in Tasks \ {t} : At(u, "idle")
                 /\ \A e \in Engines : Live(e) => e = map \/ e \in leaked
AloneStop == \A t \in alone : alone = {t} /\ At(t, "stopDisconnect") /\ task[t].eng = map /\ NobodyElse(t)
NobodyLeft == stopped = "alone" =>
  /\ map = None /\ ~tracked /\ ~timer /\ loose = 0
  /\ \A t \in Tasks : task[t].at \in {"idle", "deleteHook"}
  /\ \A e \in Engines : Live(e) => e \in leaked
StopInv == AloneStop /\ NobodyLeft

\* Only a step that begins or overlaps something else disturbs it, and says so.
LEMMA StopStep == TypeOK /\ StopInv /\ [Next]_vars => StopInv'
<1> SUFFICES ASSUME TypeOK, StopInv, [Next]_vars PROVE StopInv'
  OBVIOUS
<1> USE EnginesAssumption, LimitsAssumption DEF TypeOK, Places, ClientStatus, StopInv,
      AloneStop, NobodyLeft, NobodyElse, At, Live, Exists, memVars, histVars, Due,
      ScheduleReconnect, CancelReconnect
<1>1. CASE Create
  BY <1>1 DEF Create
<1>2. CASE \E t \in Tasks : StartBegin(t)
  BY <1>2 DEF StartBegin, Begin, Go, At, Exists
<1>3. CASE \E t \in Tasks : StopBegin(t)
  BY <1>3 DEF StopBegin, Go, At, Exists, CancelReconnect, Calm
<1>4. CASE \E t \in Tasks : StopIdle(t)
  BY <1>4 DEF StopIdle, At, Exists, CancelReconnect, Answered, Calm
<1>5. CASE \E t \in Tasks : DeleteBegin(t)
  BY <1>5 DEF DeleteBegin, Begin, Go, At, Exists, CancelReconnect
<1>6. CASE \E t \in Tasks : StartEngine(t)
  BY <1>6, NewEngineIsFree DEF StartEngine, At, CreateEngine, Go, Set, Due
<1>7. CASE \E t \in Tasks : InitDone(t)
  BY <1>7 DEF InitDone, At, Set, Return, Go
<1>8. CASE \E t \in Tasks : InitFails(t)
  BY <1>8 DEF InitFails, At, Set, Return, Go, ScheduleReconnect, Due
<1>9. CASE \E t \in Tasks, throws \in BOOLEAN : StopDone(t, throws)
  BY <1>9 DEF StopDone, At, Set, Return, Go, Answered
<1>10. CASE \E t \in Tasks : DeleteDestroyed(t)
  BY <1>10 DEF DeleteDestroyed, At, Set, Go
<1>11. CASE \E t \in Tasks : DeleteFails(t)
  BY <1>11 DEF DeleteFails, At, Return, Go
<1>12. CASE \E t \in Tasks : DeleteDone(t)
  BY <1>12 DEF DeleteDone, At, Return, Go
<1>13. CASE \E t \in Tasks : ReDestroyed(t)
  BY <1>13, NewEngineIsFree DEF ReDestroyed, At, CreateEngine, Go, Set
<1>14. CASE \E t \in Tasks : ReDestroyFails(t)
  BY <1>14 DEF ReDestroyFails, At, Return, Go, ScheduleReconnect, Due
<1>15. CASE \E t \in Tasks, b \in BOOLEAN : TimerFires(t, b)
  BY <1>15, NewEngineIsFree DEF TimerFires, At, CreateEngine, Go, Set
<1>16. CASE \E e \in Engines : ClientProgress(e)
  BY <1>16 DEF ClientProgress, Set
<1>17. CASE \E e \in Engines : ClientReady(e)
  BY <1>17 DEF ClientReady, Set, Due
<1>18. CASE \E e \in Engines, dies \in BOOLEAN : ClientDisconnected(e, dies)
  BY <1>18 DEF ClientDisconnected, Set, Live, ScheduleReconnect, Due
<1>19. CASE Restart
  BY <1>19 DEF Restart
<1>20. CASE UNCHANGED vars
  BY <1>20 DEF vars, memVars, histVars
<1> QED BY <1>1, <1>2, <1>3, <1>4, <1>5, <1>6, <1>7, <1>8, <1>9, <1>10,
           <1>11, <1>12, <1>13, <1>14, <1>15, <1>16, <1>17, <1>18, <1>19, <1>20
           DEF Next, Resume, TimersFire

(***************************************************************************)
(* One task at a time: the engine a task holds is the one in the map, and  *)
(* what has no engine, or is being stopped or deleted, has no timer.       *)
(***************************************************************************)
Holding == {"startInit", "reInit", "reDestroy", "stopDisconnect", "deleteDestroy"}
Ending  == {"stopDisconnect", "deleteDestroy", "deleteHook"}
Quiet   == ~tracked /\ ~timer
SoloTask(t) ==
  /\ task[t].at \in Holding => map # None /\ task[t].eng = map
  /\ task[t].at \in {"startHook", "deleteHook"} => map = None
  /\ task[t].at \in Ending => Quiet
Solo == /\ OneBrowser
        /\ map = None => Quiet
        /\ \A t \in Tasks : SoloTask(t)

LEMMA SoloInit == Init => Solo
BY EnginesAssumption
   DEF Init, Solo, OneBrowser, SoloTask, Holding, Ending, Quiet, Live

LEMMA SoloStep ==
  ASSUME \A t, u \in Tasks : t = u, TypeOK, Solo, [Next]_vars
  PROVE  Solo'
<1> USE EnginesAssumption DEF TypeOK, memVars, histVars, Exists, Live, Solo, OneBrowser, SoloTask,
      Holding, Ending, Quiet
<1>1. CASE Create
  BY <1>1 DEF Create
<1>2. CASE \E t \in Tasks : StartBegin(t)
  BY <1>2 DEF StartBegin, Begin, Go, At
<1>3. CASE \E t \in Tasks : StopBegin(t)
  BY <1>3 DEF StopBegin, Go, At, CancelReconnect
<1>4. CASE \E t \in Tasks : StopIdle(t)
  BY <1>4 DEF StopIdle, At, CancelReconnect
<1>5. CASE \E t \in Tasks : DeleteBegin(t)
  BY <1>5 DEF DeleteBegin, Begin, Go, At, CancelReconnect
<1>6. CASE \E t \in Tasks : StartEngine(t)
  BY <1>6, NewEngineIsFree DEF StartEngine, At, CreateEngine, Go, Set, Free
<1>7. CASE \E t \in Tasks : InitDone(t)
  BY <1>7 DEF InitDone, At, Set, Return, Go
<1>8. CASE \E t \in Tasks : InitFails(t)
  BY <1>8 DEF InitFails, At, Set, Return, Go, ScheduleReconnect
<1>9. CASE \E t \in Tasks, throws \in BOOLEAN : StopDone(t, throws)
  BY <1>9 DEF StopDone, At, Set, Return, Go, Answered
<1>10. CASE \E t \in Tasks : DeleteDestroyed(t)
  BY <1>10 DEF DeleteDestroyed, At, Set, Go
<1>11. CASE \E t \in Tasks : DeleteFails(t)
  BY <1>11 DEF DeleteFails, At, Return, Go
<1>12. CASE \E t \in Tasks : DeleteDone(t)
  BY <1>12 DEF DeleteDone, At, Return, Go
<1>13. CASE \E t \in Tasks : ReDestroyed(t)
  BY <1>13, NewEngineIsFree DEF ReDestroyed, At, CreateEngine, Go, Set, Free
<1>14. CASE \E t \in Tasks : ReDestroyFails(t)
  BY <1>14 DEF ReDestroyFails, At, Return, Go, ScheduleReconnect
<1>15. CASE \E t \in Tasks, b \in BOOLEAN : TimerFires(t, b)
  BY <1>15, NewEngineIsFree DEF TimerFires, At, CreateEngine, Go, Set, Free
<1>16. CASE \E e \in Engines : ClientProgress(e)
  BY <1>16 DEF ClientProgress, Set
<1>17. CASE \E e \in Engines : ClientReady(e)
  BY <1>17 DEF ClientReady, Set
<1>18. CASE \E e \in Engines, dies \in BOOLEAN : ClientDisconnected(e, dies)
  BY <1>18 DEF ClientDisconnected, Set, ScheduleReconnect
<1>19. CASE Restart
  BY <1>19 DEF Restart
<1>20. CASE UNCHANGED vars
  BY <1>20 DEF vars
<1> QED BY <1>1, <1>2, <1>3, <1>4, <1>5, <1>6, <1>7, <1>8, <1>9, <1>10,
           <1>11, <1>12, <1>13, <1>14, <1>15, <1>16, <1>17, <1>18, <1>19, <1>20
           DEF Next, Resume, TimersFire

(***************************************************************************)
(* A lost client: every step that could end what minds it either replaces  *)
(* its engine, forgets the session's state or schedules a timer.           *)
(***************************************************************************)
LEMMA ScheduleMinds ==
  ASSUME TypeOK, ScheduleReconnect, tracked'
  PROVE  attempts' = MaxAttempts \/ Due' > 0
<1>1. CASE tracked /\ attempts < MaxAttempts
  <2>1. timer' = TRUE /\ loose' = Due
    BY <1>1 DEF ScheduleReconnect
  <2>2. loose' \in Nat
    BY <2>1 DEF TypeOK, Due
  <2> QED BY <2>1, <2>2 DEF Due
<1>2. CASE ~(tracked /\ attempts < MaxAttempts)
  <2>1. tracked /\ attempts' = attempts
    BY <1>2 DEF ScheduleReconnect, memVars
  <2> QED BY <1>2, <2>1, LimitsAssumption DEF TypeOK
<1> QED BY <1>1, <1>2

LEMMA MindedStep ==
  ASSUME TypeOK, LossIsMinded, [Next]_vars
  PROVE  LossIsMinded'
<1> USE EnginesAssumption, LimitsAssumption DEF TypeOK, memVars, histVars, Exists, Live, LossIsMinded,
      Lost, Forgotten
<1>1. CASE Create
  BY <1>1 DEF Create, Due, At
<1>2. CASE \E t \in Tasks : StartBegin(t)
  BY <1>2 DEF StartBegin
<1>3. CASE \E t \in Tasks : StopBegin(t)
  BY <1>3 DEF StopBegin, CancelReconnect
<1>4. CASE \E t \in Tasks : StopIdle(t)
  BY <1>4 DEF StopIdle
<1>5. CASE \E t \in Tasks : DeleteBegin(t)
  BY <1>5 DEF DeleteBegin, CancelReconnect
<1>6. CASE \E t \in Tasks : StartEngine(t)
  BY <1>6, NewEngineIsFree DEF StartEngine, CreateEngine
<1>7. CASE \E t \in Tasks : InitDone(t)
  BY <1>7 DEF InitDone, At, Return, Go, Due
<1>8. CASE \E t \in Tasks : InitFails(t)
  <2> PICK t \in Tasks : InitFails(t)
    BY <1>8
  <2>1. CASE At(t, "reInit")
    <3>1. Lost' => attempts' = MaxAttempts \/ Due' > 0
      BY <2>1, ScheduleMinds DEF InitFails
    <3> QED BY <3>1
  <2>2. CASE ~At(t, "reInit")
    BY <2>2 DEF InitFails, At, Return, Go, Due
  <2> QED BY <2>1, <2>2
<1>9. CASE \E t \in Tasks, throws \in BOOLEAN : StopDone(t, throws)
  BY <1>9 DEF StopDone
<1>10. CASE \E t \in Tasks : DeleteDestroyed(t)
  BY <1>10 DEF DeleteDestroyed
<1>11. CASE \E t \in Tasks : DeleteFails(t)
  BY <1>11 DEF DeleteFails, At, Return, Go, Due
<1>12. CASE \E t \in Tasks : DeleteDone(t)
  BY <1>12 DEF DeleteDone, At, Return, Go, Due
<1>13. CASE \E t \in Tasks : ReDestroyed(t)
  BY <1>13, NewEngineIsFree DEF ReDestroyed, CreateEngine
<1>14. CASE \E t \in Tasks : ReDestroyFails(t)
  <2>1. Lost' => attempts' = MaxAttempts \/ Due' > 0
    BY <1>14, ScheduleMinds DEF ReDestroyFails
  <2> QED BY <2>1
<1>15. CASE \E t \in Tasks, b \in BOOLEAN : TimerFires(t, b)
  BY <1>15, NewEngineIsFree DEF TimerFires, At, CreateEngine, Go
<1>16. CASE \E e \in Engines : ClientProgress(e)
  BY <1>16 DEF ClientProgress, At, Due
<1>17. CASE \E e \in Engines : ClientReady(e)
  BY <1>17 DEF ClientReady, At, Due
<1>18. CASE \E e \in Engines, dies \in BOOLEAN : ClientDisconnected(e, dies)
  <2>1. Lost' => attempts' = MaxAttempts \/ Due' > 0
    BY <1>18, ScheduleMinds DEF ClientDisconnected
  <2> QED BY <2>1
<1>19. CASE Restart
  BY <1>19 DEF Restart
<1>20. CASE UNCHANGED vars
  BY <1>20 DEF vars, At, Due
<1> QED BY <1>1, <1>2, <1>3, <1>4, <1>5, <1>6, <1>7, <1>8, <1>9, <1>10,
           <1>11, <1>12, <1>13, <1>14, <1>15, <1>16, <1>17, <1>18, <1>19, <1>20
           DEF Next, Resume, TimersFire

(***************************************************************************)
(* The theorems.                                                           *)
(***************************************************************************)
LEMMA FirstState == Init => NewestInMap /\ ReadyIsReal /\ RetriesCover /\ StopInv
BY EnginesAssumption, LimitsAssumption
   DEF Init, NewestInMap, ReadyIsReal, RetriesCover, Due, StopInv, AloneStop, NobodyLeft

\* Row, map, clients, reconnection state and tasks keep their types, and no
\* reconnection state counts more attempts than it may.
THEOREM TypeCorrect == Spec => []TypeOK
<1> QED BY TypeInit, TypeStep, PTL DEF Spec

\* SessionService.engines: getEngine never hands out an engine that a later one
\* has replaced, however starts, stops and reconnections overlap.
THEOREM NewestServed == Spec => []NewestInMap
<1> QED BY TypeCorrect, FirstState, NewestStep, PTL DEF Spec

\* updateStatus: a row that says READY has a client that is.
THEOREM ReadyIsTrue == Spec => []ReadyIsReal
<1> QED BY TypeCorrect, FirstState, ReadyStep, PTL DEF Spec

\* scheduleReconnect: between two successes a session reconnects at most
\* MaxAttempts times, plus the timers that were pending.
THEOREM RetriesBounded == Spec => []ReconnectsBounded
<1>1. TypeOK /\ RetriesCover => ReconnectsBounded
  BY LimitsAssumption DEF TypeOK, RetriesCover, ReconnectsBounded, Due
<1> QED BY <1>1, TypeCorrect, FirstState, CoverStep, PTL DEF Spec

\* stop: what nothing overlapped stays stopped until somebody starts it again;
\* only a client whose destroy threw still runs, and it brings nothing back.
THEOREM StopIsFinal == Spec => []StoppedStaysDown
<1>1. StopInv => StoppedStaysDown
  BY DEF StopInv, NobodyLeft, StoppedStaysDown, Due
<1> QED BY <1>1, TypeCorrect, FirstState, StopStep, PTL DEF Spec

\* scheduleReconnect, executeReconnect: while attempts are left, a lost client
\* of the engine in the map has a timer due or a reconnection under way, unless
\* a client the map has forgotten is around to reset the attempts.
THEOREM LossNeverUnminded == Spec => []LossIsMinded
<1>1. Init => LossIsMinded
  BY DEF Init, LossIsMinded, Lost
<1>2. TypeOK /\ LossIsMinded /\ [Next]_vars => LossIsMinded'
  BY MindedStep
<1> QED BY <1>1, <1>2, TypeCorrect, PTL DEF Spec

\* SessionService, one handler or reconnection at a time: one browser, which is
\* the one in the map, besides those whose destroy threw in a stop; one of these
\* is READY when the row says so; and no timer of its own survives a stop.  With
\* two at a time TLC refutes each of the three.
THEOREM OneAtATime == ASSUME \A t, u \in Tasks : t = u PROVE Spec => []OneBrowser
<1>1. Solo => OneBrowser
  BY DEF Solo
<1>2. TypeOK /\ Solo /\ [Next]_vars => Solo'
  BY SoloStep
<1> QED BY <1>1, <1>2, TypeCorrect, SoloInit, PTL DEF Spec
=============================================================================
