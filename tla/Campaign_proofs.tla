-------------------------- MODULE Campaign_proofs --------------------------
(***************************************************************************)
(* Proofs about Campaign for any number of recipients, requests, retries,  *)
(* crashes and job failures.                                               *)
(***************************************************************************)
EXTENDS Campaign, FiniteSetTheorems, TLAPS

-----------------------------------------------------------------------------
(* Type correctness.                                                       *)

\* A request moved to its next await, or ended, is still a request.
Req == [op : Ops, ids : SUBSET Contacts, flag : BOOLEAN]

LEMMA GotoType ==
  ASSUME req \in [Requests -> Req], NEW r \in Requests,
         NEW op \in Ops, NEW S \in SUBSET Contacts, NEW b \in BOOLEAN
  PROVE  /\ Goto(r, op, S, b) => req' \in [Requests -> Req]
         /\ Done(r) => req' \in [Requests -> Req]
<1>1. [op |-> op, ids |-> S, flag |-> b] \in Req
  BY Zenon DEF Req
<1>2. Idle \in Req
  BY Zenon DEF Req, Idle, Ops
<1>3. \A x \in Req : [req EXCEPT ![r] = x] \in [Requests -> Req]
  BY Zenon
<1> QED BY <1>1, <1>2, <1>3, Zenon DEF Goto, Done

\* Every variable keeps its type: TypeOK is inductive on its own.
LEMMA TypeStep == TypeOK /\ [Next]_vars => TypeOK'
<1> SUFFICES ASSUME TypeOK, [Next]_vars PROVE TypeOK'
  OBVIOUS
<1> USE DEF TypeOK, DataOK, FlagsOK, Req, CampaignStatus, ContactStatus, SentStatus, Ops, Idle,
            camVars, rowVars, jobVars, workVars, histVars
<1>1. CASE \E r \in Requests : Handler(r)
  <2> PICK r \in Requests : Handler(r)
    BY <1>1
  <2>1. ASSUME NEW S \in SUBSET Contacts, NEW b \in BOOLEAN, CreateCampaign(r, S, b)
        PROVE  TypeOK'
    <3>1. IsFiniteSet(S)
      BY ContactsAssumption, FS_Subset
    <3>2. Cardinality(S) \in Nat
      BY <3>1, FS_CardinalityType
    <3> QED BY <2>1, <3>2 DEF CreateCampaign, Begin, Goto, Holds
  <2>2. CASE CloneCampaign(r)
    <3>1. DataOK'
      BY <2>2 DEF CloneCampaign, Begin, Holds
    <3>2. FlagsOK'
      BY <2>2, Zenon DEF CloneCampaign, Begin, Holds
    <3> QED BY <3>1, <3>2
  <2>3. CASE Enqueue(r)
    BY <2>3 DEF Enqueue, Done, Holds
  <2>4. CASE EnqueueFails(r)
    <3>1. DataOK'
      BY <2>4 DEF EnqueueFails, Done, Holds
    <3>2. FlagsOK'
      BY <2>4, Zenon DEF EnqueueFails
    <3> QED BY <3>1, <3>2
  <2>13. CASE LaunchRead(r)
    <3>1. PICK x \in Req : req' = [req EXCEPT ![r] = x]
      BY <2>13, Zenon DEF LaunchRead, Goto
    <3>2. req' \in [Requests -> Req]
      BY <3>1, Zenon
    <3> QED BY <2>13, <3>2 DEF LaunchRead, Begin
  <2>14. CASE LaunchWrite(r)
    <3>1. DataOK'
      BY <2>14 DEF LaunchWrite, Goto, Holds
    <3>2. FlagsOK'
      BY <2>14, Zenon DEF LaunchWrite
    <3> QED BY <3>1, <3>2
  <2>5. CASE CancelRead(r)
    BY <2>5 DEF CancelRead, Begin, Goto
  <2>15. CASE CancelWrite(r)
    BY <2>15 DEF CancelWrite, Done, Pending
  <2>6. ASSUME NEW S \in SUBSET Contacts, ImportRead(r, S)
        PROVE  TypeOK'
    BY <2>6 DEF ImportRead, Begin, Goto, Holds
  <2>7. CASE ImportWrite(r)
    <3> DEFINE new == req[r].ids \ Rows
    <3>1. new \in SUBSET Contacts
      OBVIOUS
    <3>2. Cardinality(new) \in Nat
      BY <3>1, ContactsAssumption, FS_Subset, FS_CardinalityType
    <3>3. total' \in Nat
      BY <2>7, <3>2 DEF ImportWrite
    <3> QED BY <2>7, <3>1, <3>3 DEF ImportWrite, Done, Holds
  <2>8. ASSUME NEW op \in {"clear", "reschedule"}, UpdateRead(r, op)
        PROVE  TypeOK'
    BY <2>8 DEF UpdateRead, Begin, Goto, Holds
  <2>9. CASE UpdateWrite(r)
    <3>1. DataOK'
      BY <2>9 DEF UpdateWrite, Done, Holds
    <3>2. FlagsOK'
      BY <2>9, Zenon DEF UpdateWrite, Done, Holds
    <3> QED BY <3>1, <3>2
  <2>10. CASE RetryRead(r)
    BY <2>10 DEF RetryRead, Begin, Goto, Holds
  <2>11. CASE RetryFind(r)
    <3> DEFINE failed == {c \in Contacts : row[c] = "FAILED"}
    <3>1. Done(r) \/ Goto(r, "retry", failed, FALSE)
      BY <2>11 DEF RetryFind
    <3>2. failed \in SUBSET Contacts
      OBVIOUS
    <3>3. req' \in [Requests -> Req]
      BY <3>1, <3>2, GotoType DEF Done, Goto
    <3> QED BY <2>11, <3>3 DEF RetryFind
  <2>12. CASE RetryWrite(r)
    BY <2>12 DEF RetryWrite, Goto, Holds
  <2> QED BY <2>1, <2>2, <2>3, <2>4, <2>5, <2>6, <2>7, <2>8, <2>9, <2>10, <2>11, <2>12,
             <2>13, <2>14, <2>15
          DEF Handler
<1>2. CASE HandleCampaign
  <2> USE <1>2 DEF EndJob, Count, Pending
  <2>1. CASE TakeJob \/ TakeStalledJob
    <3>1. DataOK'
      BY <2>1 DEF TakeJob, TakeStalledJob
    <3>2. FlagsOK'
      BY <2>1, Zenon DEF TakeJob, TakeStalledJob
    <3> QED BY <3>1, <3>2
  <2>2. CASE FindCampaign \/ SetRunning \/ FetchPending
    <3>1. DataOK'
      BY <2>2 DEF FindCampaign, SetRunning, FetchPending
    <3>2. FlagsOK'
      BY <2>2, Zenon DEF FindCampaign, SetRunning, FetchPending
    <3> QED BY <3>1, <3>2
  <2>3. CASE EngineFound \/ EngineMissing \/ StopIfCancelled
    <3>1. DataOK'
      BY <2>3 DEF EngineFound, EngineMissing, StopIfCancelled
    <3>2. FlagsOK'
      BY <2>3, Zenon DEF EngineFound, EngineMissing, StopIfCancelled
    <3> QED BY <3>1, <3>2
  <2>4. ASSUME NEW c \in Contacts, NextContact(c) PROVE TypeOK'
    <3>1. DataOK'
      BY <2>4 DEF NextContact
    <3>2. FlagsOK'
      BY <2>4, Zenon DEF NextContact
    <3> QED BY <3>1, <3>2
  <2>5. CASE SendOk \/ \E out \in BOOLEAN : SendError(out)
    BY <2>5 DEF SendOk, SendError
  <2>6. CASE \E hasId \in BOOLEAN : MarkMessage(hasId)
    BY <2>6 DEF MarkMessage
  <2>7. CASE MarkRow \/ MarkFailed
    BY <2>7 DEF MarkRow, MarkFailed
  <2>8. CASE EmitProgress \/ FailAfterSend \/ FinalRead \/ Complete
    <3>1. DataOK'
      BY <2>8 DEF EmitProgress, FailAfterSend, FinalRead, Complete
    <3>2. FlagsOK'
      BY <2>8, Zenon DEF EmitProgress, FailAfterSend, FinalRead, Complete
    <3> QED BY <3>1, <3>2
  <2> QED BY <2>1, <2>2, <2>3, <2>4, <2>5, <2>6, <2>7, <2>8 DEF HandleCampaign
<1>3. CASE JobFails
  <2>1. DataOK'
    BY <1>3 DEF JobFails, EndJob
  <2>2. FlagsOK'
    BY <1>3, Zenon DEF JobFails, EndJob
  <2> QED BY <2>1, <2>2
<1>4. ASSUME NEW c \in Contacts, NEW s \in SentStatus \cup {"FAILED"}, Ack(c, s)
      PROVE  TypeOK'
  BY <1>4 DEF Ack
<1>5. CASE Crash
  <2>1. DataOK'
    BY <1>5 DEF Crash, EndJob
  <2>2. FlagsOK'
    BY <1>5, Zenon DEF Crash, EndJob
  <2> QED BY <2>1, <2>2
<1>6. CASE UNCHANGED vars
  BY <1>6 DEF vars
<1> QED BY <1>1, <1>2, <1>3, <1>4, <1>5, <1>6 DEF Next

\* Every variable of Campaign has its type in every reachable state.
THEOREM TypeCorrect == Spec => []TypeOK
<1>1. Init => DataOK
  BY ContactsAssumption DEF Init, DataOK, CampaignStatus, ContactStatus, SentStatus, Ops, Idle
<1>2. Init => FlagsOK
  BY Zenon DEF Init, FlagsOK
<1>3. Init => TypeOK
  BY <1>1, <1>2 DEF TypeOK
<1> QED BY <1>3, TypeStep, PTL DEF Spec

-----------------------------------------------------------------------------
\* Ending a job, normally or not, keeps every part of the invariant that does
\* not speak of requests, provided a run cut short between a send and its
\* save is counted.
LEMMA EndJobKeeps ==
  ASSUME TypeOK, CampaignInv, EndJob, UNCHANGED <<total, rowVars, sends>>,
         aborts' \in Nat, aborts' >= aborts,
         pc = "markFailed" => aborts' > aborts,
         pc \notin {"markMsg", "markRow"} \/ aborts' > aborts
  PROVE  /\ CopiesPaidFor' /\ AbsentUntouched' /\ CurrentTaken' /\ SentBeforeSaved'
         /\ TotalCountsRows' /\ ProgressIsReal'
<1> USE DEF TypeOK, DataOK, rowVars, CampaignInv, EndJob
<1>1. CopiesPaidFor'
  <2> SUFFICES ASSUME NEW c \in Contacts
               PROVE  IF Owed(c)' THEN sends[c]' <= retries'[c] + aborts'
                                  ELSE sends[c]' <= 1 + retries'[c] + aborts'
    BY DEF CopiesPaidFor
  <2>1. Owed(c)' <=> row[c] = "PENDING"
    BY ContactsAssumption DEF Owed, Unsaved
  <2> QED BY <2>1 DEF CopiesPaidFor, Owed, Unsaved
<1>2. AbsentUntouched'
  BY ContactsAssumption DEF AbsentUntouched, Rows
<1>3. CurrentTaken' /\ SentBeforeSaved'
  BY DEF CurrentTaken, SentBeforeSaved
<1>4. TotalCountsRows' /\ ProgressIsReal'
  BY DEF TotalCountsRows, ProgressIsReal, Rows
<1> QED BY <1>1, <1>2, <1>3, <1>4

\* The steps that end a job.
EndsJob == \/ EndJob /\ (FindCampaign \/ FinalRead)
           \/ EngineMissing \/ StopIfCancelled \/ Complete \/ JobFails \/ Crash

\* A job may end anywhere, for any reason, and the invariant still holds.
LEMMA EndsJobStep == TypeOK /\ CampaignInv /\ EndsJob => CampaignInv'
<1> SUFFICES ASSUME TypeOK, CampaignInv, EndsJob PROVE CampaignInv'
  OBVIOUS
<1>1. EndJob
  BY DEF EndsJob, EngineMissing, StopIfCancelled, Complete, JobFails, Crash
<1>2. UNCHANGED <<total, rowVars, sends>>
  BY DEF EndsJob, FindCampaign, FinalRead, EngineMissing, StopIfCancelled, Complete,
         JobFails, Crash, camVars, histVars
<1>3. \/ aborts' = aborts + 1
      \/ aborts' = aborts /\ pc \in {"find", "loop", "engine", "complete"}
  BY DEF EndsJob, FindCampaign, FinalRead, EngineMissing, StopIfCancelled, Complete,
         JobFails, Crash, histVars
<1>4. aborts \in Nat
  BY DEF TypeOK, DataOK
<1>5. /\ CopiesPaidFor' /\ AbsentUntouched' /\ CurrentTaken' /\ SentBeforeSaved'
      /\ TotalCountsRows' /\ ProgressIsReal'
  <2>1. aborts' \in Nat /\ aborts' >= aborts
    BY <1>3, <1>4
  <2>2. /\ pc = "markFailed" => aborts' > aborts
        /\ pc \notin {"markMsg", "markRow"} \/ aborts' > aborts
    BY <1>3, <1>4
  <2> QED BY <1>1, <1>2, <2>1, <2>2, EndJobKeeps
<1>6. Rows' = Rows
  BY <1>2 DEF Rows, rowVars
<1>7. UNCHANGED req \/ req' = [r \in Requests |-> Idle]
  BY DEF EndsJob, FindCampaign, FinalRead, EngineMissing, StopIfCancelled, Complete, JobFails, Crash
<1>8. RetryKnown'
  BY <1>6, <1>7 DEF CampaignInv, RetryKnown, Holds, Idle
<1>9. NothingBefore'
  <2> SUFFICES ASSUME status' = "NONE" PROVE NothingBefore'
    BY DEF NothingBefore
  <2>1. status = "NONE" /\ Crash
    BY DEF EndsJob, FindCampaign, FinalRead, EngineMissing, StopIfCancelled, Complete,
           JobFails, Crash, camVars, CampaignInv, NothingBefore
  <2> QED BY <2>1, <1>2, <1>6 DEF Crash, EndJob, CampaignInv, NothingBefore, Holds, Idle
<1> QED BY <1>5, <1>8, <1>9 DEF CampaignInv

\* The rows an import inserts are counted once.
LEMMA DisjointCardinality ==
  ASSUME NEW A, NEW B, IsFiniteSet(A), IsFiniteSet(B), A \cap B = {}
  PROVE  Cardinality(A \cup B) = Cardinality(A) + Cardinality(B)
<1>1. Cardinality(A \cup B) = Cardinality(A) + Cardinality(B) - Cardinality(A \cap B)
  BY FS_Union
<1>2. Cardinality(A \cap B) = 0
  BY FS_EmptySet
<1>3. Cardinality(A) \in Nat /\ Cardinality(B) \in Nat
  BY FS_CardinalityType
<1> QED BY <1>1, <1>2, <1>3

\* Every step keeps the inductive invariant: an action that can owe a copy or
\* count one has the conjuncts it disturbs as steps of their own.
LEMMA InvStep == TypeOK /\ CampaignInv /\ [Next]_vars => CampaignInv'
<1> SUFFICES ASSUME TypeOK, CampaignInv, [Next]_vars PROVE CampaignInv'
  OBVIOUS
<1>0. CASE EndsJob
  BY <1>0, EndsJobStep
<1> USE DEF TypeOK, DataOK, camVars, rowVars, jobVars, workVars, histVars, Holds, Idle,
      CampaignInv, CopiesPaidFor, Owed, Unsaved, AbsentUntouched, CurrentTaken,
      NothingBefore, RetryKnown, SentBeforeSaved, TotalCountsRows, ProgressIsReal,
      Rows, Pending, SentStatus, ContactStatus, Editable, CampaignStatus, Count
<1>1. CASE \E r \in Requests : Handler(r)
  <2> PICK r \in Requests : Handler(r)
    BY <1>1
  <2>1. CASE CloneCampaign(r)
    BY <2>1 DEF CloneCampaign, Begin
  <2>2. CASE Enqueue(r)
    BY <2>2 DEF Enqueue, Done
  <2>3. CASE EnqueueFails(r)
    BY <2>3 DEF EnqueueFails, Done
  <2>4. CASE LaunchRead(r)
    BY <2>4 DEF LaunchRead, Begin, Goto
  <2>5. CASE LaunchWrite(r)
    BY <2>5 DEF LaunchWrite, Goto
  <2>6. CASE CancelRead(r)
    BY <2>6 DEF CancelRead, Begin, Goto
  <2>7. CASE CancelWrite(r)
    BY <2>7 DEF CancelWrite, Done
  <2>8. CASE UpdateWrite(r)
    BY <2>8 DEF UpdateWrite, Done
  <2>9. CASE RetryRead(r)
    BY <2>9 DEF RetryRead, Begin, Goto
  <2>10. CASE RetryFind(r)
    BY <2>10 DEF RetryFind, Done, Goto
  <2>11. CASE RetryWrite(r)
    <3>1. Rows' = Rows
      BY <2>11 DEF RetryWrite
    <3>2. CopiesPaidFor'
      BY <2>11 DEF RetryWrite
    <3>3. ProgressIsReal' /\ SentBeforeSaved' /\ CurrentTaken' /\ NothingBefore'
      BY <2>11 DEF RetryWrite, Goto
    <3>4. TotalCountsRows' /\ AbsentUntouched'
      BY <2>11, <3>1 DEF RetryWrite
    <3>5. RetryKnown'
      BY <2>11, <3>1 DEF RetryWrite, Goto
    <3> QED BY <3>2, <3>3, <3>4, <3>5
  <2>12. CASE ImportWrite(r)
    <3> DEFINE new == req[r].ids \ Rows
    <3>1. new \subseteq Contacts /\ Rows' = Rows \cup new
      BY <2>12 DEF ImportWrite
    <3>2. CopiesPaidFor' /\ AbsentUntouched'
      BY <2>12 DEF ImportWrite
    <3>3. ProgressIsReal' /\ SentBeforeSaved' /\ CurrentTaken'
      BY <2>12 DEF ImportWrite
    <3>4. NothingBefore' /\ RetryKnown'
      BY <2>12, <3>1 DEF ImportWrite, Done
    <3>5. TotalCountsRows'
      <4>1. IsFiniteSet(Rows) /\ IsFiniteSet(new) /\ Rows \cap new = {}
        BY <3>1, ContactsAssumption, FS_Subset
      <4>2. Cardinality(Rows \cup new) = Cardinality(Rows) + Cardinality(new)
        BY <4>1, DisjointCardinality
      <4> QED BY <2>12, <3>1, <4>2 DEF ImportWrite
    <3> QED BY <3>2, <3>3, <3>4, <3>5
  <2>20. ASSUME NEW S \in SUBSET Contacts, NEW b \in BOOLEAN, CreateCampaign(r, S, b)
         PROVE  CampaignInv'
    <3>1. Rows' = S /\ Rows = {}
      BY <2>20 DEF CreateCampaign
    <3>2. CopiesPaidFor' /\ AbsentUntouched' /\ ProgressIsReal'
      BY <2>20, <3>1 DEF CreateCampaign
    <3>3. SentBeforeSaved' /\ CurrentTaken' /\ TotalCountsRows'
      BY <2>20, <3>1 DEF CreateCampaign
    <3>4. NothingBefore' /\ RetryKnown'
      BY <2>20, <3>1 DEF CreateCampaign, Goto
    <3> QED BY <3>2, <3>3, <3>4
  <2>21. ASSUME NEW S \in SUBSET Contacts, ImportRead(r, S) PROVE CampaignInv'
    BY <2>21 DEF ImportRead, Begin, Goto
  <2>22. ASSUME NEW op \in {"clear", "reschedule"}, UpdateRead(r, op) PROVE CampaignInv'
    BY <2>22 DEF UpdateRead, Begin, Goto
  <2> QED BY <2>1, <2>2, <2>3, <2>4, <2>5, <2>6, <2>7, <2>8, <2>9, <2>10,
           <2>11, <2>12, <2>20, <2>21, <2>22 DEF Handler
<1>2. CASE HandleCampaign
  <2>1. CASE TakeJob
    BY <2>1 DEF TakeJob
  <2>2. CASE TakeStalledJob
    BY <2>2 DEF TakeStalledJob
  <2>3. CASE FindCampaign
    BY <2>3, <1>0 DEF FindCampaign, EndsJob
  <2>4. CASE SetRunning
    BY <2>4 DEF SetRunning
  <2>5. CASE FetchPending
    BY <2>5 DEF FetchPending
  <2>6. CASE EngineFound
    BY <2>6 DEF EngineFound
  <2>9. CASE SendOk
    BY <2>9 DEF SendOk
  <2>10. CASE MarkRow
    BY <2>10 DEF MarkRow
  <2>11. CASE EmitProgress
    BY <2>11 DEF EmitProgress
  <2>12. CASE FailAfterSend
    BY <2>12 DEF FailAfterSend
  <2>13. CASE MarkFailed
    BY <2>13 DEF MarkFailed
  <2>14. CASE FinalRead
    BY <2>14, <1>0 DEF FinalRead, EndsJob
  <2>20. ASSUME NEW c \in Contacts, NextContact(c) PROVE CampaignInv'
    BY <2>20 DEF NextContact
  <2>21. ASSUME NEW out \in BOOLEAN, SendError(out) PROVE CampaignInv'
    BY <2>21 DEF SendError
  <2>22. ASSUME NEW hasId \in BOOLEAN, MarkMessage(hasId) PROVE CampaignInv'
    BY <2>22 DEF MarkMessage
  <2> QED BY <1>0, <1>2, <2>1, <2>2, <2>3, <2>4, <2>5, <2>6, <2>9, <2>10, <2>11,
           <2>12, <2>13, <2>14, <2>20, <2>21, <2>22
          DEF HandleCampaign, EndsJob
<1>4. ASSUME NEW c \in Contacts, NEW s \in SentStatus \cup {"FAILED"}, Ack(c, s) PROVE CampaignInv'
  <2>1. Rows' = Rows
    BY <1>4 DEF Ack
  <2>2. ASSUME NEW d \in Contacts PROVE Owed(d)' => Owed(d)
    BY <1>4 DEF Ack
  <2>3. CopiesPaidFor'
    BY <1>4, <2>2 DEF Ack
  <2>4. ProgressIsReal' /\ SentBeforeSaved'
    BY <1>4 DEF Ack
  <2>5. TotalCountsRows' /\ AbsentUntouched' /\ CurrentTaken' /\ RetryKnown' /\ NothingBefore'
    BY <1>4, <2>1 DEF Ack
  <2> QED BY <2>3, <2>4, <2>5
<1>6. CASE UNCHANGED vars
  BY <1>6 DEF vars
<1> QED BY <1>0, <1>1, <1>2, <1>4, <1>6 DEF Next, EndsJob

\* It holds of a campaign that does not exist yet.
LEMMA InvInit == Init => CampaignInv
<1> SUFFICES ASSUME Init PROVE CampaignInv
  OBVIOUS
<1>1. Rows = {}
  BY DEF Init, Rows
<1>2. TotalCountsRows
  BY <1>1, FS_EmptySet DEF Init, TotalCountsRows
<1>3. CopiesPaidFor /\ ProgressIsReal
  BY DEF Init, CopiesPaidFor, Owed, ProgressIsReal, SentStatus
<1>4. AbsentUntouched /\ CurrentTaken /\ SentBeforeSaved
  BY ContactsAssumption DEF Init, AbsentUntouched, CurrentTaken, SentBeforeSaved
<1>5. NothingBefore /\ RetryKnown
  BY <1>1 DEF Init, NothingBefore, RetryKnown, Holds, Idle
<1> QED BY <1>2, <1>3, <1>4, <1>5 DEF CampaignInv

\* The inductive invariant holds in every reachable state.
LEMMA InvCorrect == Spec => []CampaignInv
<1>1. TypeOK /\ CampaignInv /\ [Next]_vars => CampaignInv'
  BY InvStep
<1> QED BY <1>1, InvInit, TypeCorrect, PTL DEF Spec

\* However launches, retries, imports, acknowledgements and crashes
\* interleave, no recipient gets more copies than 1 + retries + cut runs.
THEOREM CopiesBounded == Spec => []NoExtraCopies
<1>1. TypeOK /\ CampaignInv => NoExtraCopies
  BY DEF TypeOK, DataOK, CampaignInv, CopiesPaidFor, NoExtraCopies
<1> QED BY <1>1, TypeCorrect, InvCorrect, PTL

\* Campaign.totalContacts is the number of recipient rows at all times.
THEOREM TotalsAgree == Spec => []TotalCountsRows
<1>1. CampaignInv => TotalCountsRows
  BY DEF CampaignInv
<1> QED BY <1>1, InvCorrect, PTL

\* A row that reads SENT, DELIVERED or READ belongs to a recipient for whom
\* the engine did accept a message.
THEOREM ProgressTruthful == Spec => []ProgressIsReal
<1>1. CampaignInv => ProgressIsReal
  BY DEF CampaignInv
<1> QED BY <1>1, InvCorrect, PTL

-----------------------------------------------------------------------------
\* A campaign shown as RUNNING or SCHEDULED has a job left, unless a job or a
\* queue.add was lost.
THEOREM ActiveNeverIdle == Spec => []ActiveHasJob
<1>1. Init => ActiveHasJob
  BY DEF Init, ActiveHasJob
<1>2. TypeOK /\ ActiveHasJob /\ [Next]_vars => ActiveHasJob'
  <2> SUFFICES ASSUME TypeOK, ActiveHasJob, [Next]_vars PROVE ActiveHasJob'
    OBVIOUS
  <2> USE DEF TypeOK, DataOK, ActiveHasJob, JobAhead, Holds, Idle, camVars, rowVars, jobVars,
              workVars, histVars
  <2>1. ASSUME NEW r \in Requests, Handler(r) PROVE ActiveHasJob'
    <3>1. CASE \E S \in SUBSET Contacts, b \in BOOLEAN : CreateCampaign(r, S, b)
      BY <3>1 DEF CreateCampaign, Goto
    <3>2. CASE Enqueue(r)
      BY <3>2 DEF Enqueue
    <3>3. CASE EnqueueFails(r)
      BY <3>3 DEF EnqueueFails
    <3>4. CASE LaunchWrite(r)
      BY <3>4 DEF LaunchWrite, Goto
    <3>5. CASE CancelWrite(r)
      BY <3>5 DEF CancelWrite
    <3>6. CASE UpdateWrite(r)
      BY <3>6 DEF UpdateWrite, Done
    <3>7. CASE RetryWrite(r) \/ RetryRead(r) \/ RetryFind(r)
      BY <3>7 DEF RetryWrite, RetryRead, RetryFind, Begin, Goto, Done
    <3>8. CASE CloneCampaign(r) \/ LaunchRead(r) \/ CancelRead(r)
      BY <3>8 DEF CloneCampaign, LaunchRead, CancelRead, Begin, Goto
    <3>9. CASE \/ \E S \in SUBSET Contacts : ImportRead(r, S)
               \/ ImportWrite(r)
               \/ \E op \in {"clear", "reschedule"} : UpdateRead(r, op)
      BY <3>9 DEF ImportRead, ImportWrite, UpdateRead, Begin, Goto, Done
    <3> QED BY <2>1, <3>1, <3>2, <3>3, <3>4, <3>5, <3>6, <3>7, <3>8, <3>9 DEF Handler
  <2>2. CASE HandleCampaign
    <3>1. CASE TakeJob \/ TakeStalledJob \/ FindCampaign \/ SetRunning \/ FetchPending
      BY <3>1 DEF TakeJob, TakeStalledJob, FindCampaign, SetRunning, FetchPending, EndJob
    <3>2. CASE EngineFound \/ EngineMissing \/ StopIfCancelled \/ FinalRead \/ Complete
      BY <3>2 DEF EngineFound, EngineMissing, StopIfCancelled, FinalRead, Complete, EndJob
    <3>3. CASE ~(TakeJob \/ TakeStalledJob \/ FindCampaign \/ SetRunning \/ FetchPending
                  \/ EngineFound \/ EngineMissing \/ StopIfCancelled \/ FinalRead \/ Complete)
      BY <2>2, <3>3 DEF HandleCampaign, NextContact, SendOk, SendError, MarkMessage, MarkRow,
                        EmitProgress, FailAfterSend, MarkFailed
    <3> QED BY <3>1, <3>2, <3>3
  <2>3. CASE JobFails
    BY <2>3 DEF JobFails
  <2>4. CASE Crash
    <3>1. CASE lost \/ (\E r \in Requests : Holds(r, "enqueue")) \/ (pc # "idle" /\ again)
      <4>1. lost'
        BY <2>4, <3>1, Zenon DEF Crash
      <4> QED BY <4>1
    <3>2. CASE ~lost /\ (pc # "idle" => ~again) /\ ~\E r \in Requests : Holds(r, "enqueue")
      <4>1. status' = status /\ jobs' = jobs
        BY <2>4 DEF Crash
      <4>2. stalled' = IF pc # "idle" THEN stalled + 1 ELSE stalled
        BY <2>4, <3>2 DEF Crash
      <4> QED BY <3>2, <4>1, <4>2
    <3> QED BY <3>1, <3>2
  <2>5. CASE (\E c \in Contacts, s \in SentStatus \cup {"FAILED"} : Ack(c, s)) \/ UNCHANGED vars
    BY <2>5 DEF Ack, vars
  <2> QED BY <2>1, <2>2, <2>3, <2>4, <2>5 DEF Next
<1> QED BY <1>1, <1>2, TypeCorrect, PTL DEF Spec

-----------------------------------------------------------------------------
(* Cancellation.                                                           *)

\* Once a campaign reads CANCELLED, the contact in flight is not a spared one.
QuietInv == status = "CANCELLED" /\ pc = "send" => cur \notin spared

\* Every step keeps the contact in flight apart from the spared ones.
LEMMA QuietStep == TypeOK /\ QuietInv /\ [Next]_vars => QuietInv'
<1> SUFFICES ASSUME TypeOK, QuietInv, [Next]_vars PROVE QuietInv'
  OBVIOUS
<1> USE DEF TypeOK, DataOK, QuietInv, camVars, rowVars, jobVars, workVars, histVars
<1>1. ASSUME NEW r \in Requests, Handler(r) PROVE QuietInv'
  <2>1. CASE CancelWrite(r)
    BY <2>1 DEF CancelWrite, InFlight
  <2>2. CASE ~CancelWrite(r)
    <3>1. UNCHANGED <<pc, cur, spared>>
      BY <1>1, <2>2 DEF Handler, CreateCampaign, CloneCampaign, Enqueue, EnqueueFails,
           LaunchRead, LaunchWrite, CancelRead, ImportRead, ImportWrite, UpdateRead,
           UpdateWrite, RetryRead, RetryFind, RetryWrite
    <3>2. status' = status \/ status' # "CANCELLED"
      <4>1. CASE UpdateWrite(r) \/ LaunchWrite(r) \/ CloneCampaign(r)
        BY <4>1 DEF UpdateWrite, LaunchWrite, CloneCampaign
      <4>2. CASE \E S \in SUBSET Contacts, b \in BOOLEAN : CreateCampaign(r, S, b)
        BY <4>2 DEF CreateCampaign
      <4>3. CASE Enqueue(r) \/ EnqueueFails(r) \/ LaunchRead(r) \/ CancelRead(r)
        BY <4>3 DEF Enqueue, EnqueueFails, LaunchRead, CancelRead
      <4>4. CASE \/ \E S \in SUBSET Contacts : ImportRead(r, S)
                 \/ \E op \in {"clear", "reschedule"} : UpdateRead(r, op)
                 \/ ImportWrite(r) \/ RetryRead(r) \/ RetryFind(r) \/ RetryWrite(r)
        BY <4>4 DEF ImportRead, UpdateRead, ImportWrite, RetryRead, RetryFind, RetryWrite
      <4> QED BY <1>1, <2>2, <4>1, <4>2, <4>3, <4>4 DEF Handler
    <3> QED BY <3>1, <3>2
  <2> QED BY <2>1, <2>2
<1>2. CASE HandleCampaign \/ JobFails
  BY <1>2 DEF HandleCampaign, JobFails, EndJob, TakeJob, TakeStalledJob, FindCampaign, SetRunning,
       FetchPending, EngineFound, EngineMissing, StopIfCancelled, NextContact, SendOk, SendError,
       MarkMessage, MarkRow, EmitProgress, FailAfterSend, MarkFailed, FinalRead, Complete
<1>3. CASE Crash
  BY <1>3 DEF Crash, EndJob
<1>4. CASE (\E c \in Contacts, s \in SentStatus \cup {"FAILED"} : Ack(c, s)) \/ UNCHANGED vars
  BY <1>4 DEF Ack, vars
<1> QED BY <1>1, <1>2, <1>3, <1>4 DEF Next

\* Only the two outcomes of the engine call count a copy, and only for cur.
LEMMA OnlySendCounts ==
  TypeOK /\ [Next]_vars =>
    \/ UNCHANGED sends
    \/ pc = "send" /\ sends' = [sends EXCEPT ![cur] = @ + 1]
<1> USE DEF histVars
<1> QED BY DEF Next, vars, Handler, CreateCampaign, CloneCampaign, Enqueue, EnqueueFails,
     LaunchRead, LaunchWrite, CancelRead, CancelWrite, ImportRead, ImportWrite, UpdateRead,
     UpdateWrite, RetryRead, RetryFind, RetryWrite, HandleCampaign, JobFails, Crash, Ack,
     TakeJob, TakeStalledJob, FindCampaign, SetRunning, FetchPending, EngineFound, EngineMissing,
     StopIfCancelled, NextContact, SendOk, SendError, Count, MarkMessage, MarkRow, EmitProgress,
     FailAfterSend, MarkFailed, FinalRead, Complete

\* While a campaign stays CANCELLED, no recipient that was pending and not in
\* flight when it was cancelled gets a message.
THEOREM CancelledQuiet == Spec => CancelledStaysQuiet
<1>1. Init => QuietInv
  BY DEF Init, QuietInv
<1>2. TypeOK /\ QuietInv /\ [Next]_vars
        => [status = "CANCELLED" => \A c \in spared : sends'[c] = sends[c]]_vars
  BY OnlySendCounts DEF QuietInv, TypeOK, DataOK
<1> QED BY <1>1, <1>2, QuietStep, TypeCorrect, PTL DEF Spec, CancelledStaysQuiet

-----------------------------------------------------------------------------
(* Nobody is left behind.                                                  *)

\* A job is queued, or about to be, besides the one the worker is at.
QueueAhead == jobs + stalled > 0 \/ \E r \in Requests : Holds(r, "enqueue")
Taken == pc \in {"engine", "loop", "send", "markMsg", "markRow", "progress", "markFailed",
                 "complete"}

\* A row that is pending, and was there in time, is in the worker's hands once
\* it has taken its snapshot, or another job will find it.
SnapshotCovers == Taken /\ ~QueueAhead /\ ~lost => Pending \ late \subseteq todo \cup InFlight
EmptyAtEnd == pc = "complete" => todo = {}
LeftInv == SnapshotCovers /\ EmptyAtEnd /\ NobodyLeftBehind

\* A step of a request keeps it: what a request makes pending it queues a job
\* for, or inserts behind the worker's back.
LEMMA LeftByRequest ==
  ASSUME TypeOK, CampaignInv, LeftInv, NEW r \in Requests, Handler(r)
  PROVE  LeftInv'
<1> USE DEF TypeOK, DataOK, camVars, rowVars, jobVars, workVars, histVars, LeftInv,
            SnapshotCovers, EmptyAtEnd, NobodyLeftBehind, JobAhead, QueueAhead, Taken,
            Pending, InFlight, Holds, Idle, Editable
<1>1. ASSUME NEW S \in SUBSET Contacts, NEW b \in BOOLEAN, CreateCampaign(r, S, b)
      PROVE  LeftInv'
  BY <1>1 DEF CreateCampaign, Goto, CampaignInv, NothingBefore
<1>2. CASE CloneCampaign(r)
  BY <1>2 DEF CloneCampaign, CampaignInv, NothingBefore
<1>3. CASE Enqueue(r)
  BY <1>3 DEF Enqueue
<1>4. CASE EnqueueFails(r)
  BY <1>4 DEF EnqueueFails
<1>5. CASE LaunchWrite(r)
  BY <1>5 DEF LaunchWrite, Goto
<1>6. CASE CancelWrite(r)
  BY <1>6 DEF CancelWrite, Done
<1>7. CASE ImportWrite(r)
  <2>1. UNCHANGED <<status, pc, cur, todo, jobs, stalled, lost>>
    BY <1>7 DEF ImportWrite
  <2>2. \A q \in Requests : Holds(q, "enqueue")' <=> Holds(q, "enqueue")
    BY <1>7 DEF ImportWrite, Done
  <2>3. Taken \/ status = "COMPLETED" => Pending' \ late' \subseteq Pending \ late
    BY <1>7 DEF ImportWrite
  <2> QED BY <2>1, <2>2, <2>3
<1>8. CASE UpdateWrite(r)
  BY <1>8 DEF UpdateWrite, Done
<1>9. CASE RetryWrite(r)
  BY <1>9 DEF RetryWrite, Goto
<1>10. CASE RetryFind(r)
  BY <1>10 DEF RetryFind, Goto, Done
<1>11. CASE LaunchRead(r) \/ CancelRead(r) \/ RetryRead(r)
  BY <1>11 DEF LaunchRead, CancelRead, RetryRead, Begin, Goto
<1>12. ASSUME NEW S \in SUBSET Contacts, ImportRead(r, S) PROVE LeftInv'
  BY <1>12 DEF ImportRead, Begin, Goto
<1>13. ASSUME NEW op \in {"clear", "reschedule"}, UpdateRead(r, op) PROVE LeftInv'
  BY <1>13 DEF UpdateRead, Begin, Goto
<1> QED BY <1>1, <1>2, <1>3, <1>4, <1>5, <1>6, <1>7, <1>8, <1>9, <1>10, <1>11, <1>12, <1>13
        DEF Handler

\* Every step keeps it.
LEMMA LeftStep == TypeOK /\ CampaignInv /\ LeftInv /\ [Next]_vars => LeftInv'
<1> SUFFICES ASSUME TypeOK, CampaignInv, LeftInv, [Next]_vars PROVE LeftInv'
  OBVIOUS
<1>1. ASSUME NEW r \in Requests, Handler(r) PROVE LeftInv'
  BY <1>1, LeftByRequest
<1> USE DEF TypeOK, DataOK, camVars, rowVars, jobVars, workVars, histVars, LeftInv,
            SnapshotCovers, EmptyAtEnd, NobodyLeftBehind, JobAhead, QueueAhead, Taken,
            Pending, InFlight, Holds
<1>2. CASE HandleCampaign
  <2>1. CASE TakeJob \/ TakeStalledJob \/ FindCampaign \/ SetRunning \/ FetchPending
    BY <2>1 DEF TakeJob, TakeStalledJob, FindCampaign, SetRunning, FetchPending, EndJob
  <2>2. CASE EngineFound \/ EngineMissing \/ StopIfCancelled
    BY <2>2 DEF EngineFound, EngineMissing, StopIfCancelled, EndJob
  <2>3. ASSUME NEW c \in Contacts, NextContact(c) PROVE LeftInv'
    BY <2>3 DEF NextContact
  <2>4. CASE \/ SendOk \/ \E out \in BOOLEAN : SendError(out)
             \/ \E hasId \in BOOLEAN : MarkMessage(hasId)
    BY <2>4 DEF SendOk, SendError, MarkMessage
  <2>5. CASE MarkRow \/ MarkFailed
    BY <2>5 DEF MarkRow, MarkFailed
  <2>6. CASE EmitProgress \/ FailAfterSend \/ FinalRead \/ Complete
    BY <2>6 DEF EmitProgress, FailAfterSend, FinalRead, Complete, EndJob
  <2> QED BY <1>2, <2>1, <2>2, <2>3, <2>4, <2>5, <2>6 DEF HandleCampaign
<1>3. CASE JobFails
  BY <1>3 DEF JobFails, EndJob
<1>4. ASSUME NEW c \in Contacts, NEW s \in SentStatus \cup {"FAILED"}, Ack(c, s) PROVE LeftInv'
  <2>1. Pending' \subseteq Pending
    BY <1>4 DEF Ack, SentStatus
  <2>2. UNCHANGED <<status, pc, cur, todo, jobs, stalled, lost, late, req>>
    BY <1>4 DEF Ack
  <2> HIDE DEF Pending
  <2> QED BY <2>1, <2>2
<1>5. CASE Crash
  <2>1. lost' \/ (~lost /\ ~\E r \in Requests : Holds(r, "enqueue"))
    BY <1>5, Zenon DEF Crash, FlagsOK
  <2>2. lost' \/ pc = "idle" \/ ~again
    BY <1>5, Zenon DEF Crash
  <2>3. pc' = "idle" /\ UNCHANGED <<status, row, jobs, late>>
    BY <1>5 DEF Crash, EndJob
  <2>4. ~lost' /\ pc # "idle" => stalled' = stalled + 1
    BY <1>5, <2>2 DEF Crash
  <2>5. pc = "idle" => stalled' = stalled
    BY <1>5 DEF Crash
  <2> QED BY <2>1, <2>3, <2>4, <2>5
<1>6. CASE UNCHANGED vars
  BY <1>6 DEF vars
<1> QED BY <1>1, <1>2, <1>3, <1>4, <1>5, <1>6 DEF Next

\* When a campaign is COMPLETED and no job is left, no recipient is PENDING
\* but those inserted behind the worker's back or left by a lost job.
THEOREM AllWereTried == Spec => []NobodyLeftBehind
<1>1. Init => LeftInv
  BY DEF Init, LeftInv, SnapshotCovers, EmptyAtEnd, NobodyLeftBehind, Taken
<1>2. TypeOK /\ CampaignInv /\ LeftInv /\ [Next]_vars => LeftInv'
  BY LeftStep
<1>3. LeftInv => NobodyLeftBehind
  BY DEF LeftInv
<1> QED BY <1>1, <1>2, <1>3, TypeCorrect, InvCorrect, PTL DEF Spec

-----------------------------------------------------------------------------
(* Refinement of the ledger.                                               *)

Allowance == [c \in Contacts |-> 1 + retries[c] + aborts]
ledgerVars == <<Rows, sends, Allowance>>

\* A campaign that does not exist yet is an empty ledger.
LEMMA LedgerInit == Init => Ledger!Init
BY DEF Init, Ledger!Init, Rows

\* A step that touches none of what the ledger sees is a stutter.
LEMMA LedgerStutter ==
  ASSUME UNCHANGED <<Rows, sends, retries, aborts>>
  PROVE  UNCHANGED ledgerVars
BY DEF ledgerVars, Allowance

\* Every step is one of the ledger: it enrols, allows, delivers, or stutters.
LEMMA LedgerStep == TypeOK /\ CampaignInv /\ [Next]_vars => [Ledger!Next]_ledgerVars
<1> SUFFICES ASSUME TypeOK, CampaignInv, [Next]_vars PROVE Ledger!Next \/ UNCHANGED ledgerVars
  OBVIOUS
<1> USE DEF TypeOK, DataOK, camVars, rowVars, jobVars, workVars, histVars
<1>1. ASSUME NEW r \in Requests, Handler(r) PROVE Ledger!Next \/ UNCHANGED ledgerVars
  <2>1. ASSUME NEW S \in SUBSET Contacts, NEW b \in BOOLEAN, CreateCampaign(r, S, b)
        PROVE  Ledger!Enrol(S)
    <3>1. Rows = {} /\ Rows' = S
      BY <2>1 DEF CreateCampaign, CampaignInv, NothingBefore, Rows
    <3>2. UNCHANGED <<sends, Allowance>>
      BY <2>1 DEF CreateCampaign, Allowance
    <3> QED BY <3>1, <3>2 DEF Ledger!Enrol, Allowance
  <2>2. CASE ImportWrite(r)
    <3> PICK new \in SUBSET Contacts : new = req[r].ids \ Rows
      OBVIOUS
    <3>1. Rows' = Rows \cup new /\ new \cap Rows = {}
      BY <2>2 DEF ImportWrite, Rows
    <3>2. UNCHANGED <<sends, Allowance>>
      BY <2>2 DEF ImportWrite, Allowance
    <3>3. Ledger!Enrol(new)
      BY <3>1, <3>2 DEF Ledger!Enrol, Allowance
    <3> QED BY <3>1, <3>3 DEF Ledger!Next
  <2>3. CASE RetryWrite(r)
    <3> PICK S \in SUBSET Contacts : S = req[r].ids
      OBVIOUS
    <3>1. S \subseteq Rows
      BY <2>3 DEF RetryWrite, CampaignInv, RetryKnown
    <3>2. Rows' = Rows /\ UNCHANGED sends
      BY <2>3, <3>1 DEF RetryWrite, Rows
    <3>3. Allowance' = [c \in Contacts |-> IF c \in S THEN Allowance[c] + 1 ELSE Allowance[c]]
      BY <2>3 DEF RetryWrite, Allowance
    <3>4. Ledger!Allow(S)
      BY <3>2, <3>3 DEF Ledger!Allow, Allowance
    <3> QED BY <3>1, <3>4 DEF Ledger!Next
  <2>4. CASE /\ ~ImportWrite(r) /\ ~RetryWrite(r)
             /\ ~\E S \in SUBSET Contacts, b \in BOOLEAN : CreateCampaign(r, S, b)
    <3>1. UNCHANGED <<row, sends, retries, aborts>>
      BY <1>1, <2>4 DEF Handler, CloneCampaign, Enqueue, EnqueueFails, LaunchRead,
           LaunchWrite, CancelRead, CancelWrite, ImportRead, UpdateRead, UpdateWrite, RetryRead,
           RetryFind, CampaignInv, NothingBefore
    <3> QED BY <3>1, LedgerStutter DEF Rows
  <2> QED BY <2>1, <2>2, <2>3, <2>4 DEF Ledger!Next
<1>2. CASE SendOk \/ \E out \in BOOLEAN : SendError(out)
  <2>1. CASE UNCHANGED sends
    BY <1>2, <2>1, LedgerStutter DEF SendOk, SendError, Rows
  <2>2. CASE sends' = [sends EXCEPT ![cur] = @ + 1]
    <3>1. pc = "send" /\ UNCHANGED <<row, retries, aborts>>
      BY <1>2 DEF SendOk, SendError
    <3>2. cur \in Contacts /\ cur \in Rows
      BY <3>1 DEF CampaignInv, CurrentTaken, AbsentUntouched
    <3>3. sends[cur] < Allowance[cur]
      BY <3>1, <3>2 DEF CampaignInv, CopiesPaidFor, Owed, Allowance
    <3>4. Ledger!Deliver(cur)
      BY <2>2, <3>1, <3>2, <3>3 DEF Ledger!Deliver, Allowance, Rows
    <3> QED BY <3>2, <3>4 DEF Ledger!Next
  <2> QED BY <1>2, <2>1, <2>2 DEF SendOk, SendError, Count
<1>3. CASE HandleCampaign /\ ~(SendOk \/ \E out \in BOOLEAN : SendError(out))
  <2>1. UNCHANGED <<sends, retries, aborts>>
    BY <1>3 DEF HandleCampaign, EndJob, TakeJob, TakeStalledJob, FindCampaign, SetRunning,
       FetchPending, EngineFound, EngineMissing, StopIfCancelled, NextContact,
       MarkMessage, MarkRow, EmitProgress, FailAfterSend, MarkFailed, FinalRead, Complete
  <2>2. Rows' = Rows
    <3>1. CASE MarkRow \/ MarkFailed
      <4>1. cur \in Contacts /\ cur \in Rows
        BY <3>1 DEF MarkRow, MarkFailed, CampaignInv, CurrentTaken, AbsentUntouched
      <4> QED BY <3>1, <4>1 DEF MarkRow, MarkFailed, Rows
    <3>2. CASE ~(MarkRow \/ MarkFailed)
      BY <1>3, <3>2 DEF HandleCampaign, TakeJob, TakeStalledJob, FindCampaign, SetRunning,
         FetchPending, EngineFound, EngineMissing, StopIfCancelled, NextContact,
         MarkMessage, EmitProgress, FailAfterSend, FinalRead, Complete, Rows
    <3> QED BY <3>1, <3>2
  <2> QED BY <2>1, <2>2, LedgerStutter
<1>4. CASE JobFails \/ Crash
  <2>1. Rows' = Rows /\ UNCHANGED <<sends, retries>> /\ aborts' = aborts + 1
    BY <1>4 DEF JobFails, Crash, Rows
  <2>2. Ledger!Allow(Contacts)
    BY <2>1 DEF Ledger!Allow
  <2> QED BY <2>2 DEF Ledger!Next
<1>5. ASSUME NEW c \in Contacts, NEW s \in SentStatus \cup {"FAILED"}, Ack(c, s)
      PROVE  UNCHANGED ledgerVars
  <2>1. row[c] # "ABSENT"
    BY <1>5 DEF Ack, CampaignInv, AbsentUntouched, Rows
  <2>2. Rows' = Rows
    BY <1>5, <2>1 DEF Ack, Rows, SentStatus
  <2> QED BY <1>5, <2>2, LedgerStutter DEF Ack
<1>6. CASE UNCHANGED vars
  BY <1>6, LedgerStutter DEF vars, Rows
<1> QED BY <1>1, <1>2, <1>3, <1>4, <1>5, <1>6 DEF Next

\* The campaign implements its ledger: the queue, the worker, the requests and
\* the crashes only ever enrol, allow and deliver as the ledger may.
THEOREM LedgerImplemented == Spec => ImplementsLedger
<1>1. [Next]_vars /\ TypeOK /\ CampaignInv => [Ledger!Next]_<<Rows, sends, Allowance>>
  BY LedgerStep DEF ledgerVars
<1> QED BY <1>1, LedgerInit, TypeCorrect, InvCorrect, PTL
        DEF Spec, ImplementsLedger, Ledger!Spec, Allowance

\* The campaign's ledger is honoured, and nothing in it is taken back.
LedgerKept ==
  /\ sends \in [Contacts -> Nat] /\ Allowance \in [Contacts -> Nat] /\ Rows \subseteq Contacts
  /\ \A c \in Contacts : sends[c] <= Allowance[c] /\ (sends[c] > 0 => c \in Rows)

\* The ledger keeps that by itself.
LEMMA LedgerKeptStep ==
  ASSUME LedgerKept, [Ledger!Next]_ledgerVars, Rows' \subseteq Contacts
  PROVE  /\ LedgerKept'
         /\ Rows \subseteq Rows' /\ \A c \in Contacts : sends[c] <= sends'[c]
<1>1. ASSUME NEW S \in SUBSET Contacts, Ledger!Enrol(S)
      PROVE  Rows \subseteq Rows' /\ sends' = sends /\ Allowance' = Allowance
  BY <1>1 DEF Ledger!Enrol, Allowance
<1>2. ASSUME NEW S \in SUBSET Contacts, Ledger!Allow(S)
      PROVE  /\ Rows' = Rows /\ sends' = sends
             /\ Allowance' = [c \in Contacts |-> IF c \in S THEN Allowance[c] + 1 ELSE Allowance[c]]
  BY <1>2 DEF Ledger!Allow, Allowance
<1>3. ASSUME NEW c \in Contacts, Ledger!Deliver(c)
      PROVE  /\ Rows' = Rows /\ Allowance' = Allowance
             /\ c \in Rows /\ sends[c] < Allowance[c] /\ sends' = [sends EXCEPT ![c] = @ + 1]
  BY <1>3 DEF Ledger!Deliver, Allowance
<1>4. CASE UNCHANGED ledgerVars
  BY <1>4 DEF LedgerKept, ledgerVars
<1> HIDE DEF Allowance
<1>5. CASE Ledger!Next
  BY <1>1, <1>2, <1>3, <1>5 DEF LedgerKept, Ledger!Next
<1> QED BY <1>4, <1>5

\* So the campaign keeps it, because it implements the ledger.
LEMMA LedgerKeptAlways == Spec => []LedgerKept
<1>1. TypeOK => Rows \subseteq Contacts
  BY DEF TypeOK, DataOK, Rows
<1>2. TypeOK /\ Ledger!Init => LedgerKept
  BY <1>1 DEF TypeOK, DataOK, Ledger!Init, LedgerKept, Allowance
<1>3. LedgerKept /\ TypeOK' /\ [Ledger!Next]_ledgerVars => LedgerKept'
  <2>1. TypeOK' => Rows' \subseteq Contacts
    BY DEF TypeOK, DataOK, Rows
  <2> QED BY <2>1, LedgerKeptStep
<1>4. Spec => Ledger!Init /\ [][Ledger!Next]_ledgerVars
  BY LedgerImplemented, PTL DEF ImplementsLedger, Ledger!Spec, ledgerVars, Allowance
<1> QED BY <1>2, <1>3, <1>4, TypeCorrect, PTL

\* Whatever the imports, launches, retries and crashes: only recipients get a
\* message, and none more than its retries and the cut runs allow.
THEOREM LedgerIsHonoured == Spec => []Ledger!Honoured
<1>1. LedgerKept => Ledger!Honoured
  BY DEF LedgerKept, Ledger!Honoured, Allowance
<1> QED BY <1>1, LedgerKeptAlways, PTL

\* Once a contact is a recipient of the campaign no handler, acknowledgement or
\* crash drops its row, and what it was sent is not taken back.
THEOREM NobodyIsDropped == Spec => Ledger!NeverDropped
<1>1. LedgerKept /\ LedgerKept' /\ [Ledger!Next]_ledgerVars =>
        [Rows \subseteq Rows' /\ \A c \in Contacts : sends[c] <= sends'[c]]_ledgerVars
  BY LedgerKeptStep DEF LedgerKept
<1>2. Spec => [][Ledger!Next]_ledgerVars
  BY LedgerImplemented, PTL DEF ImplementsLedger, Ledger!Spec, ledgerVars, Allowance
<1> QED BY <1>1, <1>2, LedgerKeptAlways, PTL DEF Ledger!NeverDropped, ledgerVars, Allowance

-----------------------------------------------------------------------------
(* The end of a campaign.                                                  *)

\* A campaign that is COMPLETED, with nothing queued, lost or cut short, has
\* served everybody: each recipient there in time has its message, once unless
\* it was retried, or is FAILED.
THEOREM CampaignsEndWell == Spec => []EndedWell
<1>1. TypeOK /\ NoExtraCopies /\ ProgressIsReal /\ NobodyLeftBehind => EndedWell
  <2> SUFFICES ASSUME TypeOK, NoExtraCopies, ProgressIsReal, NobodyLeftBehind,
                      status = "COMPLETED", ~JobAhead, ~lost, aborts = 0,
                      NEW c \in Rows, c \notin late
               PROVE  /\ row[c] \in SentStatus \cup {"FAILED"}
                      /\ row[c] \in SentStatus => sends[c] \in 1 .. (1 + retries[c])
                      /\ sends[c] <= 1 + retries[c]
    BY DEF EndedWell
  <2>1. c \in Contacts /\ sends[c] \in Nat /\ retries[c] \in Nat
    BY DEF Rows, TypeOK, DataOK
  <2>2. row[c] \in SentStatus \cup {"FAILED"}
    BY <2>1 DEF Rows, TypeOK, DataOK, ContactStatus, NobodyLeftBehind, Pending
  <2>3. sends[c] <= 1 + retries[c]
    BY <2>1 DEF NoExtraCopies
  <2> QED BY <2>1, <2>2, <2>3 DEF ProgressIsReal
<1> QED BY <1>1, TypeCorrect, CopiesBounded, ProgressTruthful, AllWereTried, PTL

-----------------------------------------------------------------------------
(* The worker's work runs out.                                             *)

WorkerAt == {"idle", "find", "setRunning", "fetch", "engine", "loop", "send",
             "markMsg", "markRow", "progress", "markFailed", "complete"}

\* What a run has left where it stands; a job not yet begun counts for more.
LEMMA RunLeftOf ==
  ASSUME NEW n \in 0 .. Cardinality(Contacts)
  PROVE  /\ RunLength = 6 * Cardinality(Contacts) + 6 /\ RunLength \in Nat
         /\ LeftAt("idle", n) = 0 /\ LeftAt("complete", n) = 1
         /\ LeftAt("find", n) = RunLength /\ LeftAt("setRunning", n) = RunLength - 1
         /\ LeftAt("fetch", n) = RunLength - 2
         /\ LeftAt("engine", n) = 6 * n + 3 /\ LeftAt("loop", n) = 6 * n + 2
         /\ LeftAt("send", n) = 6 * n + 7 /\ LeftAt("markMsg", n) = 6 * n + 6
         /\ LeftAt("markRow", n) = 6 * n + 5 /\ LeftAt("progress", n) = 6 * n + 4
         /\ LeftAt("markFailed", n) = 6 * n + 3
         /\ \A at \in WorkerAt : LeftAt(at, n) \in Nat /\ (at # "idle" => LeftAt(at, n) > 0)
<1>1. Cardinality(Contacts) \in Nat
  BY ContactsAssumption, FS_CardinalityType
<1>2. /\ RunLength = 6 * Cardinality(Contacts) + 6 /\ RunLength \in Nat
      /\ LeftAt("idle", n) = 0 /\ LeftAt("complete", n) = 1
      /\ LeftAt("find", n) = RunLength /\ LeftAt("setRunning", n) = RunLength - 1
      /\ LeftAt("fetch", n) = RunLength - 2
      /\ LeftAt("engine", n) = 6 * n + 3 /\ LeftAt("loop", n) = 6 * n + 2
      /\ LeftAt("send", n) = 6 * n + 7 /\ LeftAt("markMsg", n) = 6 * n + 6
      /\ LeftAt("markRow", n) = 6 * n + 5 /\ LeftAt("progress", n) = 6 * n + 4
      /\ LeftAt("markFailed", n) = 6 * n + 3
  BY <1>1 DEF LeftAt, RunLength
<1> QED BY <1>1, <1>2 DEF WorkerAt

\* A run is never longer than RunLength, with one contact out of todo at most.
LEMMA SnapshotSize ==
  ASSUME NEW S \in SUBSET Contacts
  PROVE  /\ Cardinality(S) \in 0 .. Cardinality(Contacts)
         /\ \A c \in S : Cardinality(S \ {c}) = Cardinality(S) - 1 /\ Cardinality(S) >= 1
         /\ Cardinality({}) = 0
<1>1. /\ IsFiniteSet(S) /\ Cardinality(S) <= Cardinality(Contacts) /\ Cardinality(S) \in Nat
      /\ Cardinality(Contacts) \in Nat
  BY ContactsAssumption, FS_Subset, FS_CardinalityType
<1>2. ASSUME NEW c \in S PROVE Cardinality(S \ {c}) = Cardinality(S) - 1 /\ Cardinality(S) >= 1
  BY <1>1, FS_RemoveElement, FS_CardinalityType, FS_EmptySet
<1> QED BY <1>1, <1>2, FS_EmptySet

\* What a step of the worker does to what it has left: it takes a job, or gets
\* on with the one it has.
GetsOn(n, m) == /\ UNCHANGED <<jobs, stalled>>
                /\ LeftAt(pc, n) \in Nat /\ LeftAt(pc', m) \in Nat
                /\ LeftAt(pc', m) < LeftAt(pc, n)
Begins == /\ pc = "idle" /\ pc' = "find"
          /\ jobs + stalled \in Nat \ {0} /\ jobs' + stalled' = jobs + stalled - 1

LEMMA WorkerGetsOn ==
  ASSUME TypeOK, CampaignInv, TypeOK', HandleCampaign \/ JobFails
  PROVE  Begins \/ GetsOn(Cardinality(todo), Cardinality(todo'))
<1> PICK n \in 0 .. Cardinality(Contacts) : n = Cardinality(todo)
  BY SnapshotSize DEF TypeOK, DataOK
<1> PICK m \in 0 .. Cardinality(Contacts) : m = Cardinality(todo')
  BY SnapshotSize DEF TypeOK, DataOK
<1>0. Cardinality(Contacts) \in Nat
  BY ContactsAssumption, FS_CardinalityType
<1>1. CASE TakeJob \/ TakeStalledJob
  <2>1. /\ pc = "idle" /\ pc' = "find" /\ jobs \in Nat /\ stalled \in Nat
        /\ \/ jobs > 0 /\ jobs' = jobs - 1 /\ stalled' = stalled
           \/ stalled > 0 /\ stalled' = stalled - 1 /\ jobs' = jobs
    BY <1>1 DEF TakeJob, TakeStalledJob, TypeOK, DataOK
  <2> QED BY <2>1 DEF Begins
<1> USE <1>0, RunLeftOf DEF TypeOK, DataOK, GetsOn, jobVars, workVars
<1>2. CASE EndJob /\ pc # "idle" /\ UNCHANGED jobVars
  <2>1. pc \in WorkerAt /\ pc' = "idle"
    BY <1>2 DEF EndJob, WorkerAt
  <2> QED BY <1>2, <2>1
<1>3. CASE (FindCampaign /\ ~EndJob) \/ SetRunning \/ FetchPending \/ EngineFound
  <2>1. FetchPending => m <= Cardinality(Contacts)
    OBVIOUS
  <2> QED BY <1>3, <2>1 DEF FindCampaign, SetRunning, FetchPending, EngineFound
<1>4. ASSUME NEW c \in Contacts, NextContact(c) PROVE GetsOn(n, m)
  <2>1. m = n - 1 /\ n >= 1
    BY <1>4, SnapshotSize DEF NextContact
  <2> QED BY <1>4, <2>1 DEF NextContact
<1>5. CASE \/ SendOk \/ \E out \in BOOLEAN : SendError(out)
           \/ \E hasId \in BOOLEAN : MarkMessage(hasId)
           \/ MarkRow \/ EmitProgress \/ FailAfterSend \/ MarkFailed
  <2>1. n = m
    BY <1>5 DEF SendOk, SendError, MarkMessage, MarkRow, EmitProgress, FailAfterSend, MarkFailed
  <2> QED BY <1>5, <2>1 DEF SendOk, SendError, MarkMessage, MarkRow, EmitProgress, FailAfterSend, MarkFailed
<1>6. CASE FinalRead /\ ~EndJob
  BY <1>6 DEF FinalRead
<1>7. CASE EngineMissing \/ StopIfCancelled \/ Complete \/ JobFails \/ (EndJob /\ (FindCampaign \/ FinalRead))
  BY <1>2, <1>7 DEF EngineMissing, StopIfCancelled, Complete, JobFails, FindCampaign, FinalRead
<1> QED BY <1>1, <1>3, <1>4, <1>5, <1>6, <1>7 DEF HandleCampaign

\* The worker's steps are bounded by the jobs there are: each of them leaves
\* less to do, whatever requests, acknowledgements and failures come between,
\* and only a queue.add or a crash's stalled job brings more.  With the loop
\* never blocked this is why a running campaign ends.
THEOREM WorkEnds == Spec => WorkRunsOut
<1> DEFINE RunsOut == /\ Work' \in Nat /\ (HandleCampaign \/ JobFails => Work' < Work)
                      /\ Work' > Work => Crash \/ \E r \in Requests : Enqueue(r)
<1>1. TypeOK /\ CampaignInv /\ [Next]_vars => [RunsOut]_vars
  <2> SUFFICES ASSUME TypeOK, CampaignInv, [Next]_vars PROVE RunsOut \/ UNCHANGED vars
    OBVIOUS
  <2>0. TypeOK'
    BY TypeStep
  <2> PICK n \in 0 .. Cardinality(Contacts) : n = Cardinality(todo)
    BY SnapshotSize DEF TypeOK, DataOK
  <2> PICK m \in 0 .. Cardinality(Contacts) : m = Cardinality(todo')
    BY <2>0, SnapshotSize DEF TypeOK, DataOK
  <2>1. PICK l \in Nat : l = RunLength + 1
    BY RunLeftOf
  <2>2. PICK j \in Nat, i \in Nat : j = jobs + stalled /\ i = jobs' + stalled'
    <3>1. jobs \in Nat /\ stalled \in Nat /\ jobs' \in Nat /\ stalled' \in Nat
      BY <2>0 DEF TypeOK, DataOK
    <3>2. \A a, b \in Nat : a + b \in Nat
      OBVIOUS
    <3> QED BY <3>1, <3>2, Zenon
  <2>3. /\ Work = j * l + LeftAt(pc, n) /\ Work' = i * l + LeftAt(pc', m)
        /\ j * l \in Nat /\ i * l \in Nat
    <3>1. Work = (jobs + stalled) * (RunLength + 1) + LeftAt(pc, Cardinality(todo))
      BY DEF Work
    <3>2. Work' = (jobs' + stalled') * (RunLength + 1) + LeftAt(pc', Cardinality(todo'))
      BY Zenon DEF Work, RunLength, LeftAt
    <3>3. \A a, b \in Nat : a * b \in Nat
      OBVIOUS
    <3> QED BY <2>1, <2>2, <3>1, <3>2, <3>3
  <2>4. LeftAt(pc, n) \in Nat /\ LeftAt(pc', m) \in Nat
    <3>1. pc \in WorkerAt /\ pc' \in WorkerAt
      BY <2>0 DEF TypeOK, DataOK, WorkerAt
    <3> QED BY <3>1, RunLeftOf
  <2>5. Work' \in Nat
    BY <2>3, <2>4
  <2>6. CASE HandleCampaign \/ JobFails
    <3>1. CASE Begins
      <4>1. j * l = i * l + l
        <5>1. j = i + 1
          BY <2>2, <3>1 DEF Begins, TypeOK, DataOK
        <5>2. \A a, b \in Nat : (a + 1) * b = a * b + b
          OBVIOUS
        <5> QED BY <2>1, <2>2, <5>1, <5>2
      <4>2. LeftAt(pc, n) = 0 /\ LeftAt(pc', m) = RunLength
        BY <3>1, RunLeftOf DEF Begins
      <4> QED BY <2>1, <2>3, <2>4, <2>5, <4>1, <4>2
    <3>2. CASE GetsOn(n, m)
      <4>1. i = j
        BY <2>2, <3>2 DEF GetsOn
      <4> QED BY <2>3, <2>4, <2>5, <3>2, <4>1 DEF GetsOn
    <3> QED BY <2>0, <2>6, <3>1, <3>2, WorkerGetsOn
  <2>7. ASSUME ~(HandleCampaign \/ JobFails), ~Crash, ~\E r \in Requests : Enqueue(r)
        PROVE  UNCHANGED <<jobs, stalled, pc, todo>>
    BY <2>7 DEF Next, Handler, CreateCampaign, CloneCampaign, EnqueueFails, LaunchRead, LaunchWrite,
         CancelRead, CancelWrite, ImportRead, ImportWrite, UpdateRead, UpdateWrite, RetryRead,
         RetryFind, RetryWrite, Ack, jobVars, workVars, vars
  <2>8. CASE ~(HandleCampaign \/ JobFails)
    <3>1. UNCHANGED <<jobs, stalled, pc, todo>> => Work' = Work
      BY DEF Work, RunLength, LeftAt
    <3> QED BY <2>3, <2>4, <2>5, <2>7, <2>8, <3>1
  <2> QED BY <2>6, <2>8
<1> QED BY <1>1, TypeCorrect, InvCorrect, PTL DEF Spec, WorkRunsOut
=============================================================================
