----------------------------- MODULE BulkMessage -----------------------------
(***************************************************************************)
(* One batch of OpenWA's BulkMessageService: createBatch starts            *)
(* processBatch without waiting for it, cancelBatch works on an entity of  *)
(* its own, and the two meet in one database row and in one entry of the   *)
(* in-memory map processingBatches.  A save reads the row and then, in a   *)
(* second statement, writes the columns in which the caller's entity       *)
(* differs from what it read, whatever the row says by then.  Two columns  *)
(* count here: the status, and the progress, one JSON value.               *)
(***************************************************************************)
EXTENDS Integers

CONSTANTS
  Size,          \* messages in the batch
  SaveEvery,     \* progress is saved after every SaveEvery-th message (10)
  Requests       \* cancel requests

ASSUME SizeAssumption == Size \in Nat /\ SaveEvery \in Nat \ {0}

VARIABLES
  row,           \* the saved MessageBatch
  entity,        \* processBatch's own copy of it
  flag,          \* processingBatches.get(batch.id): "unset", "on" or "off"
  stopOnError,   \* options.stopOnError
  pc,            \* where processBatch stands
  seen,          \* the row its save has read, NoBatch if it has not
  cancel,        \* each cancel request: where it stands, its copy and what its save has read
  \* history, never read by the code
  crashed,       \* processBatch was cut short by the process or the database
  signalled,     \* a cancel cleared the flag of the running batch
  afterSignal,   \* messages handed to the engine since then
  torn           \* a save put one of its columns beside another save's

vars == <<row, entity, flag, stopOnError, pc, seen, cancel, crashed, signalled, afterSignal, torn>>

Statuses == {"NONE", "PENDING", "PROCESSING", "COMPLETED", "FAILED", "CANCELLED"}
Counts   == 0 .. Size
\* pending goes below zero when a batch cancelled before processBatch first
\* read it is sent all the same, and a second cancel copies it to cancelled.
Batches  == [status : Statuses, sent : Counts, failed : Counts, pending : -Size .. Size,
             cancelled : -Size .. Size]
Fresh    == [status |-> "PENDING", sent |-> 0, failed |-> 0, pending |-> Size, cancelled |-> 0]
NoBatch  == [Fresh EXCEPT !.status = "NONE"]
Steps    == {"none", "read", "start", "startSave", "failSave", "loop", "sending",
             "saving", "final", "finalSave", "done"}

\* The loop's index: every message before it was sent or failed.
index == entity.sent + entity.failed

Init ==
  /\ row = NoBatch /\ entity = NoBatch
  /\ flag = "unset" /\ stopOnError \in BOOLEAN
  /\ pc = "none" /\ seen = NoBatch
  /\ cancel = [r \in Requests |-> [at |-> "idle", copy |-> NoBatch, seen |-> NoBatch]]
  /\ crashed = FALSE /\ signalled = FALSE /\ afterSignal = 0 /\ torn = FALSE

-----------------------------------------------------------------------------
(* Plausible faults, one per property.                                     *)

\* The catch clause does not take the failed message off the pending ones.
SendFails_StillPending ==
  /\ pc = "sending"
  /\ IF stopOnError
     THEN /\ entity' = [entity EXCEPT !.failed = @ + 1, !.status = "FAILED"]
          /\ pc' = "final"
     ELSE /\ entity' = [entity EXCEPT !.failed = @ + 1]
          /\ pc' = IF index % SaveEvery = 0 \/ index + 1 = Size THEN "saving" ELSE "loop"
  /\ UNCHANGED <<row, flag, stopOnError, seen, cancel, crashed, signalled, afterSignal, torn>>

\* The flag is looked at once, before the loop.
SendNext_NoFlagCheck ==
  /\ pc = "loop" /\ index < Size
  /\ pc' = "sending"
  /\ afterSignal' = IF signalled THEN afterSignal + 1 ELSE 0
  /\ UNCHANGED <<row, entity, flag, stopOnError, seen, cancel, crashed, signalled, torn>>

\* The final update does not ask whether the loop was broken off.
Finish_AlwaysCompleted ==
  /\ pc = "final"
  /\ entity' = [entity EXCEPT !.status = "COMPLETED"]
  /\ pc' = "finalSave"
  /\ UNCHANGED <<row, flag, stopOnError, seen, cancel, crashed, signalled, afterSignal, torn>>

\* A batch with failures is neither FAILED nor COMPLETED at its end.
Finish_OnlyIfNoneFailed ==
  /\ pc = "final"
  /\ entity' = IF flag = "on" /\ entity.failed = 0
               THEN [entity EXCEPT !.status = "COMPLETED"] ELSE entity
  /\ pc' = "finalSave"
  /\ UNCHANGED <<row, flag, stopOnError, seen, cancel, crashed, signalled, afterSignal, torn>>

\* Only the last message saves.
SavesAt_OnlyLast(i) == i + 1 = Size

-----------------------------------------------------------------------------
(* repository.save: a SELECT, and an UPDATE of the columns that differed.  *)

Progress(b) == <<b.sent, b.failed, b.pending, b.cancelled>>
Written(mine, read, now) ==
  LET from == IF Progress(mine) # Progress(read) THEN mine ELSE now
  IN [from EXCEPT !.status = IF mine.status # read.status THEN mine.status ELSE now.status]
Update(mine, read) ==
  /\ row' = Written(mine, read, row)
  /\ torn' = (torn \/ row' \notin {mine, row})

-----------------------------------------------------------------------------
(* createBatch and processBatch.                                           *)

\* The batchId is new; the row is saved, then processBatch runs on its own.
CreateBatch ==
  /\ row.status = "NONE"
  /\ row' = Fresh /\ pc' = "read"
  /\ UNCHANGED <<entity, flag, stopOnError, seen, cancel, crashed, signalled, afterSignal, torn>>

ReadBatch ==
  /\ pc = "read"
  /\ entity' = row /\ pc' = "start"
  /\ UNCHANGED <<row, flag, stopOnError, seen, cancel, crashed, signalled, afterSignal, torn>>

StartBatch ==
  /\ pc = "start"
  /\ flag' = "on"
  /\ entity' = [entity EXCEPT !.status = "PROCESSING"]
  /\ pc' = "startSave"
  /\ UNCHANGED <<row, stopOnError, seen, cancel, crashed, signalled, afterSignal, torn>>

Saves == {"startSave", "failSave", "saving", "finalSave"}
SaveLooks ==
  /\ pc \in Saves /\ seen = NoBatch
  /\ seen' = row
  /\ UNCHANGED <<row, entity, flag, stopOnError, pc, cancel, crashed, signalled, afterSignal, torn>>
Save(next) == seen # NoBatch /\ Update(entity, seen) /\ seen' = NoBatch /\ pc' = next

\* The save returns and the session's engine is looked up.
SaveStarted(alive) ==
  /\ pc = "startSave" /\ Save(IF alive THEN "loop" ELSE "failSave")
  /\ entity' = IF alive THEN entity ELSE [entity EXCEPT !.status = "FAILED"]
  /\ UNCHANGED <<flag, stopOnError, cancel, crashed, signalled, afterSignal>>

SaveNoEngine ==
  /\ pc = "failSave" /\ Save("done")
  /\ UNCHANGED <<entity, flag, stopOnError, cancel, crashed, signalled, afterSignal>>

\* A database call of processBatch throws: its promise is rejected, the row
\* stays behind as it is and the entry in the map is never removed.
DatabaseFails ==
  /\ pc \in {"read"} \cup Saves
  /\ pc' = "done" /\ seen' = NoBatch /\ crashed' = TRUE
  /\ UNCHANGED <<row, entity, flag, stopOnError, cancel, signalled, afterSignal, torn>>

SendNext ==
  /\ pc = "loop" /\ index < Size /\ flag = "on"
  /\ pc' = "sending"
  /\ afterSignal' = IF signalled THEN afterSignal + 1 ELSE 0
  /\ UNCHANGED <<row, entity, flag, stopOnError, seen, cancel, crashed, signalled, torn>>

LeaveLoop ==
  /\ pc = "loop" /\ (index = Size \/ flag # "on")
  /\ pc' = "final"
  /\ UNCHANGED <<row, entity, flag, stopOnError, seen, cancel, crashed, signalled, afterSignal, torn>>

\* if (i % 10 === 0 || i === batch.messages.length - 1)
SavesAt(i) == i % SaveEvery = 0 \/ i + 1 = Size

SendSucceeds ==
  /\ pc = "sending"
  /\ entity' = [entity EXCEPT !.sent = @ + 1, !.pending = @ - 1]
  /\ pc' = IF SavesAt(index) THEN "saving" ELSE "loop"
  /\ UNCHANGED <<row, flag, stopOnError, seen, cancel, crashed, signalled, afterSignal, torn>>

SendFails ==
  /\ pc = "sending"
  /\ IF stopOnError
     THEN /\ entity' = [entity EXCEPT !.failed = @ + 1, !.pending = @ - 1, !.status = "FAILED"]
          /\ pc' = "final"
     ELSE /\ entity' = [entity EXCEPT !.failed = @ + 1, !.pending = @ - 1]
          /\ pc' = IF SavesAt(index) THEN "saving" ELSE "loop"
  /\ UNCHANGED <<row, flag, stopOnError, seen, cancel, crashed, signalled, afterSignal, torn>>

SaveProgress ==
  /\ pc = "saving" /\ Save("loop")
  /\ UNCHANGED <<entity, flag, stopOnError, cancel, crashed, signalled, afterSignal>>

\* The last status is chosen only if the flag is still on.
Finish ==
  /\ pc = "final"
  /\ entity' = IF flag = "on"
               THEN [entity EXCEPT !.status = IF entity.failed > 0 /\ entity.sent = 0
                                              THEN "FAILED" ELSE "COMPLETED"]
               ELSE entity
  /\ pc' = "finalSave"
  /\ UNCHANGED <<row, flag, stopOnError, seen, cancel, crashed, signalled, afterSignal, torn>>

SaveFinal ==
  /\ pc = "finalSave" /\ Save("done")
  /\ flag' = "unset"
  /\ UNCHANGED <<entity, stopOnError, cancel, crashed, signalled, afterSignal>>

-----------------------------------------------------------------------------
(* cancelBatch, and the end of the process.                                *)

CancelRead(r) ==
  /\ cancel[r].at = "idle"
  /\ row.status \notin {"NONE", "COMPLETED", "CANCELLED"}
  /\ cancel' = [cancel EXCEPT ![r].at = "signal", ![r].copy = row]
  /\ UNCHANGED <<row, entity, flag, stopOnError, pc, seen, crashed, signalled, afterSignal, torn>>

Cancelled(b) == [b EXCEPT !.status = "CANCELLED", !.cancelled = b.pending, !.pending = 0]

CancelSignal(r) ==
  /\ cancel[r].at = "signal"
  /\ flag' = "off"
  /\ cancel' = [cancel EXCEPT ![r].at = "save", ![r].copy = Cancelled(@)]
  /\ signalled' = (signalled \/ pc \in {"startSave", "loop", "sending", "saving"})
  /\ UNCHANGED <<row, entity, stopOnError, pc, seen, crashed, afterSignal, torn>>

CancelLooks(r) ==
  /\ cancel[r].at = "save"
  /\ cancel' = [cancel EXCEPT ![r].at = "write", ![r].seen = row]
  /\ UNCHANGED <<row, entity, flag, stopOnError, pc, seen, crashed, signalled, afterSignal, torn>>

Answered == [at |-> "answered", copy |-> NoBatch, seen |-> NoBatch]
CancelSave(r) ==
  /\ cancel[r].at = "write"
  /\ Update(cancel[r].copy, cancel[r].seen)
  /\ cancel' = [cancel EXCEPT ![r] = Answered]
  /\ UNCHANGED <<entity, flag, stopOnError, pc, seen, crashed, signalled, afterSignal>>

\* The save fails after the flag was cleared: the request answers an error.
CancelSaveFails(r) ==
  /\ cancel[r].at \in {"save", "write"}
  /\ cancel' = [cancel EXCEPT ![r] = Answered]
  /\ UNCHANGED <<row, entity, flag, stopOnError, pc, seen, crashed, signalled, afterSignal, torn>>

\* Nothing resumes a batch at the next start: the map is gone, the row stays.
Crash ==
  /\ pc \notin {"none", "done"}
  /\ pc' = "done" /\ flag' = "unset" /\ seen' = NoBatch /\ crashed' = TRUE
  /\ cancel' = [r \in Requests |-> IF cancel[r].at \in {"signal", "save", "write"}
                                   THEN Answered ELSE cancel[r]]
  /\ UNCHANGED <<row, entity, stopOnError, signalled, afterSignal, torn>>

ProcessBatch ==
  \/ ReadBatch \/ StartBatch \/ SaveLooks \/ SaveNoEngine
  \/ \E alive \in BOOLEAN : SaveStarted(alive)
  \/ SendNext \/ LeaveLoop \/ SendSucceeds \/ SendFails \/ SaveProgress
  \/ Finish \/ SaveFinal

Next ==
  \/ CreateBatch
  \/ ProcessBatch
  \/ \E r \in Requests : \/ CancelRead(r) \/ CancelSignal(r) \/ CancelLooks(r)
                         \/ CancelSave(r) \/ CancelSaveFails(r)
  \/ DatabaseFails \/ Crash

Spec == Init /\ [][Next]_vars

\* The event loop resumes processBatch after each await, and a send returns or
\* throws.  Nobody has to cancel, nothing has to fail.
FairSpec == Spec /\ WF_vars(ProcessBatch)

-----------------------------------------------------------------------------
(* What must hold.                                                         *)

TypeOK ==
  /\ row \in Batches /\ entity \in Batches
  /\ flag \in {"unset", "on", "off"}
  /\ stopOnError \in BOOLEAN
  /\ pc \in Steps
  /\ seen \in Batches
  /\ cancel \in [Requests -> [at : {"idle", "signal", "save", "write", "answered"},
                             copy : Batches, seen : Batches]]
  /\ crashed \in BOOLEAN /\ signalled \in BOOLEAN /\ torn \in BOOLEAN
  /\ afterSignal \in Nat

AddsUp(b) == b.sent + b.failed + b.pending + b.cancelled = Size

\* GET .../batch/:id never shows numbers that do not add up to the size of the
\* batch, although the row is written from copies of different ages: unless a
\* cancel was saved before processBatch first read the row, or between the two
\* statements of another save.
CancelledEarly == entity.cancelled > 0
ProgressAddsUp ==
  ~CancelledEarly => /\ AddsUp(entity)
                     /\ ~torn => AddsUp(row) /\ \A r \in Requests : AddsUp(cancel[r].copy)

\* Once a cancel has cleared the flag of a running batch no further message is
\* handed to the engine: what was in flight was handed over before.
CancelStopsSending == signalled => afterSignal = 0

\* A row that says COMPLETED stands for a batch of which every message was
\* tried, and not all in vain, unless it stopped at an error as it was told to;
\* and its numbers say so too, unless a save tore it.
Tried(b) == \/ b.sent + b.failed = Size /\ (b.failed > 0 => b.sent > 0)
            \/ stopOnError /\ b.sent > 0
CompletedWasTried == row.status = "COMPLETED" => Tried(entity) /\ (~torn => Tried(row))

\* A crash forgets at most SaveEvery messages: with no cancel around, the row
\* of a running batch is never further behind what was sent.
CrashForgetsLittle ==
  row.status = "PROCESSING" /\ (\A r \in Requests : cancel[r].at = "idle")
    => index - (row.sent + row.failed) <= SaveEvery

\* The end of a batch nobody cancelled and nothing cut short: its row is all
\* processBatch knew, says COMPLETED or FAILED, and FAILED means that nothing
\* was sent.
LeftAlone == ~crashed /\ \A r \in Requests : cancel[r].at = "idle"
EndIsTold ==
  pc = "done" /\ LeftAlone =>
    /\ row = entity /\ row.pending = Size - (row.sent + row.failed) /\ row.cancelled = 0
    /\ row.status \in {"COMPLETED", "FAILED"}
    /\ row.status = "FAILED" => row.sent = 0
    /\ row.status = "COMPLETED" => row.sent > 0 \/ row.failed = 0

\* The steps processBatch has left, at most: four for each message.
LeftAt(at, i) ==
  CASE at = "none" -> 0
    [] at = "read" -> 4 * Size + 8
    [] at = "start" -> 4 * (Size - i) + 7
    [] at = "startSave" -> 4 * (Size - i) + 6
    [] at = "loop" -> 4 * (Size - i) + 4
    [] at = "sending" -> 4 * (Size - i) + 3
    [] at = "saving" -> 4 * (Size - i) + 6
    [] at = "final" -> 3
    [] at \in {"failSave", "finalSave"} -> 2
    [] at = "done" -> 0
StepsLeft == LeftAt(pc, index) - (IF seen = NoBatch THEN 0 ELSE 1)

\* Each of its steps is one less, and no cancel or failure adds one.
BatchShrinks ==
  [][pc # "none" /\ (ProcessBatch \/ <<pc, entity>>' # <<pc, entity>>)
       => StepsLeft' \in 0 .. (StepsLeft - 1)]_vars

\* A running batch does not stay PROCESSING for good, unless it was cut short
\* or somebody cancelled it.
BatchSettles == row.status = "PROCESSING" ~> (LeftAlone => row.status \in {"COMPLETED", "FAILED"})

-----------------------------------------------------------------------------
(* Why they hold: the invariant the proofs carry along.                    *)

\* Nothing of the batch was tried yet: there are two batches to write, and no
\* way to tear them.
BeforeRead == pc \in {"none", "read"} =>
                /\ entity = NoBatch /\ row \in {NoBatch, Fresh, Cancelled(Fresh)} /\ ~torn
                /\ \A r \in Requests :
                     /\ cancel[r].at = "signal" => cancel[r].copy = Fresh
                     /\ cancel[r].at \in {"save", "write"} => cancel[r].copy = Cancelled(Fresh)
                     /\ cancel[r].at = "write" => cancel[r].seen \in {Fresh, Cancelled(Fresh)}
\* Only CreateBatch turns NONE into something, and nothing is saved as NONE.
RealBatches == /\ row.status = "NONE" <=> pc = "none"
               /\ pc \notin {"none", "read", "done"} => entity.status # "NONE"
               /\ seen # NoBatch => pc \in Saves
               /\ \A r \in Requests :
                    /\ cancel[r].at \in {"signal", "save", "write"} => pc # "none"
                    /\ cancel[r].at \in {"save", "write"} => cancel[r].copy.status = "CANCELLED"
IndexInRange == /\ index <= Size
                /\ pc = "sending" => index < Size
                /\ entity.pending \in {Size - index, 0 - index}
\* The flag goes on before the loop and never again.
FlagStaysOff == signalled => flag # "on" /\ pc \notin {"none", "read", "start"}
NothingAfterSignal == afterSignal = 0
\* A cancel overwrites `cancelled`: it counts right only if that was zero.
CancelledOnce ==
  ~CancelledEarly =>
    /\ entity.cancelled = 0
    /\ ~torn => /\ row.status # "CANCELLED" => row.cancelled = 0
                /\ \A r \in Requests : cancel[r].at = "signal" => cancel[r].copy.cancelled = 0

BulkInv == BeforeRead /\ RealBatches /\ IndexInRange /\ FlagStaysOff
           /\ NothingAfterSignal /\ CancelledOnce /\ ProgressAddsUp

-----------------------------------------------------------------------------
(* What the documents say.                                                 *)

\* "The system must cancel a running batch" (FR-BK-005), and its answer is
\* "status": "cancelled" (API specification, Cancel Batch).
CancelledStaysCancelled == [][row.status = "CANCELLED" => row'.status = "CANCELLED"]_vars
=============================================================================
