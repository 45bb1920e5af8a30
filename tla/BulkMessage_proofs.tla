-------------------------- MODULE BulkMessage_proofs --------------------------
(***************************************************************************)
(* What holds of BulkMessage for every size of batch, every save interval  *)
(* and any number of cancel requests.                                      *)
(***************************************************************************)
EXTENDS BulkMessage, TLAPS

\* What a cancel request is.
Cancel == [at : {"idle", "signal", "save", "write", "answered"}, copy : Batches, seen : Batches]

LEMMA NoBatchType == NoBatch \in Batches
  BY SizeAssumption DEF Batches, NoBatch, Fresh, Statuses, Counts

\* A batch is its fields.
LEMMA SameBatch ==
  ASSUME NEW a \in Batches, NEW b \in Batches, a.status = b.status, Progress(a) = Progress(b)
  PROVE  a = b
  BY DEF Batches, Progress

\* What an UPDATE leaves in the row: a status and a progress that were there or
\* are the saver's; the saver's copy if nobody wrote since the SELECT.
LEMMA Updates ==
  ASSUME NEW mine \in Batches, NEW read \in Batches, row \in Batches, torn \in BOOLEAN,
         Update(mine, read)
  PROVE  /\ row' \in Batches /\ torn' \in BOOLEAN
         /\ row'.status \in {mine.status, row.status}
         /\ Progress(row') \in {Progress(mine), Progress(row)}
         /\ ~torn' => ~torn /\ row' \in {mine, row}
         /\ read = row => row' = mine /\ torn' = torn
<1> DEFINE from == IF Progress(mine) # Progress(read) THEN mine ELSE row
           st == IF mine.status # read.status THEN mine.status ELSE row.status
<1>1. from \in Batches /\ from \in {mine, row} /\ st \in {mine.status, row.status}
  OBVIOUS
<1>2. st \in Statuses BY <1>1 DEF Batches
<1>3. row' = [from EXCEPT !.status = st] /\ torn' = (torn \/ row' \notin {mine, row})
  BY DEF Update, Written
<1>4. row' \in Batches /\ row'.status = st /\ Progress(row') = Progress(from)
  <2> HIDE DEF from, st
  <2> QED BY <1>1, <1>2, <1>3 DEF Batches, Progress
<1>5. torn' \in BOOLEAN /\ (~torn' => ~torn /\ row' \in {mine, row})
  <2> HIDE DEF from, st
  <2> QED BY <1>3, Zenon
<1>6. read = row => row' = mine
  <2> SUFFICES ASSUME read = row PROVE row' = mine
    OBVIOUS
  <2>1. st = mine.status /\ Progress(from) = Progress(mine)
    OBVIOUS
  <2> HIDE DEF from, st
  <2> QED BY <1>4, <2>1, SameBatch
<1>7. Progress(row') \in {Progress(mine), Progress(row)} /\ row'.status \in {mine.status, row.status}
  <2>1. Progress(from) \in {Progress(mine), Progress(row)} OBVIOUS
  <2> HIDE DEF from, st
  <2> QED BY <1>1, <1>4, <2>1
<1> QED BY <1>3, <1>4, <1>5, <1>6, <1>7

\* A cancel request with its step and one of its batches changed.
LEMMA CancelKeeps ==
  ASSUME NEW c \in Cancel, NEW b \in Batches
  PROVE  /\ [c EXCEPT !.at = "signal", !.copy = b] \in Cancel
         /\ [c EXCEPT !.at = "save", !.copy = b] \in Cancel
         /\ [c EXCEPT !.at = "write", !.seen = b] \in Cancel
  BY DEF Cancel

\* The numbers are the progress.
LEMMA Numbers ==
  ASSUME NEW a, NEW b, Progress(a) = Progress(b)
  PROVE  a.sent = b.sent /\ a.failed = b.failed /\ a.pending = b.pending /\ a.cancelled = b.cancelled
  BY DEF Progress

\* The batch as it is before anything was tried.
LEMMA FreshBatch ==
  /\ Fresh.status = "PENDING" /\ NoBatch.status = "NONE" /\ Cancelled(Fresh).status = "CANCELLED"
  /\ \A b \in {Fresh, NoBatch} : b.sent = 0 /\ b.failed = 0 /\ b.pending = Size /\ b.cancelled = 0
  /\ Cancelled(Fresh).sent = 0 /\ Cancelled(Fresh).failed = 0
  /\ Cancelled(Fresh).pending = 0 /\ Cancelled(Fresh).cancelled = Size
  /\ [Cancelled(Fresh) EXCEPT !.status = "CANCELLED"] = Cancelled(Fresh)
  /\ Size = 0 => [Fresh EXCEPT !.status = "CANCELLED"] = Cancelled(Fresh)
<1> DEFINE f == Cancelled(Fresh)
<1>1. f = [status |-> "CANCELLED", sent |-> 0, failed |-> 0, pending |-> 0, cancelled |-> Size]
  <2>1. Fresh \in Batches /\ 0 \in -Size .. Size
    BY SizeAssumption DEF Fresh, Batches, Statuses, Counts
  <2>2. f \in Batches
    BY <2>1 DEF Cancelled, Batches, Statuses
  <2>3. f.status = "CANCELLED" /\ f.cancelled = Fresh.pending /\ f.pending = 0 /\ f.sent = Fresh.sent /\ f.failed = Fresh.failed
    BY <2>1 DEF Cancelled, Batches
  <2> HIDE DEF f
  <2> QED BY <2>2, <2>3 DEF Batches, Fresh
<1> HIDE DEF f
<1>2. /\ f.status = "CANCELLED" /\ f.sent = 0 /\ f.failed = 0 /\ f.pending = 0 /\ f.cancelled = Size
      /\ [f EXCEPT !.status = "CANCELLED"] = f
      /\ Size = 0 => [Fresh EXCEPT !.status = "CANCELLED"] = f
  BY <1>1 DEF Fresh
<1>3. /\ Fresh.status = "PENDING" /\ NoBatch.status = "NONE"
      /\ \A b \in {Fresh, NoBatch} : b.sent = 0 /\ b.failed = 0 /\ b.pending = Size /\ b.cancelled = 0
  BY DEF Fresh, NoBatch
<1> QED BY <1>2, <1>3 DEF f

\* A save of processBatch.
LEMMA Saved ==
  ASSUME TypeOK, NEW next, Save(next)
  PROVE  /\ Update(entity, seen) /\ pc' = next /\ seen' = NoBatch
         /\ row' \in Batches /\ torn' \in BOOLEAN
         /\ row'.status \in {entity.status, row.status}
         /\ Progress(row') \in {Progress(entity), Progress(row)}
         /\ ~torn' => ~torn /\ row' \in {entity, row}
         /\ seen = row => row' = entity /\ torn' = torn
<1> USE DEF TypeOK, Save
<1>1. entity \in Batches /\ seen \in Batches /\ row \in Batches /\ torn \in BOOLEAN /\ Update(entity, seen)
  OBVIOUS
<1> QED BY <1>1, Updates

\* The initial state satisfies the type invariant and the inductive one.
LEMMA BulkInit == Init => TypeOK /\ BulkInv
<1> SUFFICES ASSUME Init PROVE TypeOK /\ BulkInv
  OBVIOUS
<1> USE SizeAssumption DEF Init, Batches, Counts, Statuses, NoBatch, Fresh
<1>1. TypeOK
  <2>1. NoBatch \in Batches
    OBVIOUS
  <2>2. crashed \in BOOLEAN /\ signalled \in BOOLEAN /\ stopOnError \in BOOLEAN /\ torn \in BOOLEAN
    BY Zenon
  <2>3. cancel \in [Requests -> Cancel]
    BY <2>1 DEF Cancel
  <2> HIDE DEF Batches, NoBatch
  <2> QED BY <2>1, <2>2, <2>3 DEF TypeOK, Steps, Cancel
<1>2. BeforeRead /\ RealBatches
  BY DEF BeforeRead, RealBatches
<1>3. IndexInRange /\ FlagStaysOff
  BY DEF IndexInRange, FlagStaysOff, index
<1>4. ProgressAddsUp /\ NothingAfterSignal /\ CancelledOnce
  BY DEF ProgressAddsUp, CancelledEarly, AddsUp, NothingAfterSignal, CancelledOnce
<1> QED BY <1>1, <1>2, <1>3, <1>4 DEF BulkInv

\* Every step keeps every variable in its type.  The bounds of the counters
\* need the loop's index to stay below Size while a message is being sent.
LEMMA TypeStep == TypeOK /\ BulkInv /\ [Next]_vars => TypeOK'
<1> SUFFICES ASSUME TypeOK, BulkInv, [Next]_vars PROVE TypeOK'
  OBVIOUS
<1> USE SizeAssumption DEF TypeOK, Batches, Counts, Statuses, Steps
<1>1. CASE CreateBatch
  BY <1>1 DEF CreateBatch, Fresh
<1>2. CASE ReadBatch
  BY <1>2 DEF ReadBatch
<1>3. CASE StartBatch
  BY <1>3 DEF StartBatch
<1>4. CASE SaveNoEngine \/ SaveProgress \/ SaveFinal
  <2>1. PICK next \in {"done", "loop"} : Save(next)
    BY <1>4 DEF SaveNoEngine, SaveProgress, SaveFinal
  <2>2. row' \in Batches /\ torn' \in BOOLEAN /\ seen' \in Batches /\ pc' \in Steps
    BY <2>1, Saved, NoBatchType DEF Save
  <2> HIDE DEF Batches, Steps
  <2> QED BY <1>4, <2>2 DEF SaveNoEngine, SaveProgress, SaveFinal
<1>5. CASE \E alive \in BOOLEAN : SaveStarted(alive)
  <2> PICK alive \in BOOLEAN : SaveStarted(alive)
    BY <1>5
  <2>1. Save(IF alive THEN "loop" ELSE "failSave")
    BY DEF SaveStarted
  <2>2. row' \in Batches /\ torn' \in BOOLEAN /\ seen' \in Batches
    BY <2>1, Saved, NoBatchType
  <2>3. entity' \in Batches /\ pc' \in Steps
    BY <2>1 DEF SaveStarted, Save
  <2> HIDE DEF Batches, Steps
  <2> QED BY <2>2, <2>3 DEF SaveStarted
<1>10. CASE SaveLooks
  BY <1>10 DEF SaveLooks
<1>6. CASE SendNext
  BY <1>6 DEF SendNext
<1>7. CASE LeaveLoop
  BY <1>7 DEF LeaveLoop
<1>8. CASE SendSucceeds
  <2>1. index < Size /\ entity.pending \in {Size - index, 0 - index}
    BY <1>8 DEF SendSucceeds, BulkInv, IndexInRange
  <2>2. entity.sent + 1 \in Counts /\ entity.pending - 1 \in -Size .. Size
    BY <2>1 DEF index
  <2>3. entity' \in Batches
    BY <1>8, <2>2 DEF SendSucceeds
  <2> QED BY <1>8, <2>3 DEF SendSucceeds
<1>9. CASE SendFails
  <2>1. index < Size /\ entity.pending \in {Size - index, 0 - index}
    BY <1>9 DEF SendFails, BulkInv, IndexInRange
  <2>2. entity.failed + 1 \in Counts /\ entity.pending - 1 \in -Size .. Size
    BY <2>1 DEF index
  <2>3. entity' \in Batches
    BY <1>9, <2>2 DEF SendFails
  <2> QED BY <1>9, <2>3 DEF SendFails
<1>11. CASE Finish
  BY <1>11 DEF Finish
<1>13. CASE \E r \in Requests : CancelRead(r) \/ CancelLooks(r) \/ CancelSignal(r)
  <2> PICK r \in Requests : CancelRead(r) \/ CancelLooks(r) \/ CancelSignal(r)
    BY <1>13
  <2>1. cancel \in [Requests -> Cancel] /\ cancel[r].copy \in Batches /\ row \in Batches
    BY DEF Cancel
  <2>2. Cancelled(cancel[r].copy) \in Batches
    <3>1. cancel[r].copy \in Batches /\ 0 \in -Size .. Size
      OBVIOUS
    <3> QED BY <3>1 DEF Cancelled
  <2> HIDE DEF Batches
  <2>3. cancel' \in [Requests -> Cancel]
    <3>1. \E c \in Cancel : cancel' = [cancel EXCEPT ![r] = c]
      <4>0. cancel[r] \in Cancel BY <2>1
      <4>1. CASE CancelRead(r)
        <5>1. cancel' = [cancel EXCEPT ![r] = [cancel[r] EXCEPT !.at = "signal", !.copy = row]]
          BY <2>1, <4>1 DEF CancelRead
        <5> QED BY <2>1, <4>0, <5>1, CancelKeeps, Zenon
      <4>2. CASE CancelLooks(r)
        <5>1. cancel' = [cancel EXCEPT ![r] = [cancel[r] EXCEPT !.at = "write", !.seen = row]]
          BY <2>1, <4>2 DEF CancelLooks
        <5> QED BY <2>1, <4>0, <5>1, CancelKeeps, Zenon
      <4>3. CASE CancelSignal(r)
        <5> DEFINE b == Cancelled(cancel[r].copy)
        <5>1. cancel' = [cancel EXCEPT ![r] = [cancel[r] EXCEPT !.at = "save", !.copy = b]]
          BY <2>1, <4>3 DEF CancelSignal, Cancel
        <5> HIDE DEF b
        <5> QED BY <2>2, <4>0, <5>1, CancelKeeps, Zenon DEF b
      <4> QED BY <4>1, <4>2, <4>3
    <3> QED BY <2>1, <3>1
  <2> QED BY <2>3 DEF CancelRead, CancelLooks, CancelSignal, Cancel
<1>15. CASE \E r \in Requests : CancelSave(r) \/ CancelSaveFails(r)
  <2> PICK r \in Requests : CancelSave(r) \/ CancelSaveFails(r)
    BY <1>15
  <2>1. Answered \in Cancel
    BY NoBatchType DEF Answered, Cancel
  <2>2. cancel' = [cancel EXCEPT ![r] = Answered]
    BY DEF CancelSave, CancelSaveFails
  <2>3. cancel' \in [Requests -> Cancel]
    BY <2>1, <2>2 DEF Cancel
  <2>4. CASE CancelSave(r)
    <3>1. Update(cancel[r].copy, cancel[r].seen) BY <2>4 DEF CancelSave
    <3>2. row' \in Batches /\ torn' \in BOOLEAN
      <4>1. cancel[r].copy \in Batches /\ cancel[r].seen \in Batches /\ row \in Batches /\ torn \in BOOLEAN
        OBVIOUS
      <4> QED BY <3>1, <4>1, Updates
    <3> HIDE DEF Batches
    <3> QED BY <2>3, <2>4, <3>2 DEF CancelSave, Cancel
  <2>5. CASE CancelSaveFails(r)
    BY <2>3, <2>5 DEF CancelSaveFails, Cancel
  <2> QED BY <2>4, <2>5
<1>17. CASE DatabaseFails
  BY <1>17, NoBatchType DEF DatabaseFails
<1>18. CASE Crash
  BY <1>18, NoBatchType DEF Crash, Answered
<1>19. CASE UNCHANGED vars
  BY <1>19 DEF vars
<1> QED BY <1>1, <1>2, <1>3, <1>4, <1>5, <1>6, <1>7, <1>8, <1>9, <1>10, <1>11,
           <1>13, <1>15, <1>17, <1>18, <1>19 DEF Next, ProcessBatch

\* A save of processBatch keeps the inductive invariant.
LEMMA SaveInv ==
  ASSUME TypeOK, BulkInv, NEW next \in {"loop", "failSave", "done"}, Save(next), pc \in Saves,
         Progress(entity') = Progress(entity), entity'.status # "NONE", flag' \in {flag, "unset"},
         UNCHANGED <<cancel, signalled, afterSignal>>
  PROVE  BulkInv'
<1>1. /\ pc' = next /\ seen' = NoBatch
      /\ row'.status \in {entity.status, row.status}
      /\ Progress(row') \in {Progress(entity), Progress(row)}
      /\ ~torn' => ~torn /\ row' \in {entity, row}
  BY Saved
<1>2. /\ entity'.sent = entity.sent /\ entity'.failed = entity.failed
      /\ entity'.pending = entity.pending /\ entity'.cancelled = entity.cancelled
  BY Numbers
<1>3. entity.status # "NONE" /\ row.status # "NONE"
  BY DEF BulkInv, RealBatches, Saves
<1>4. (BeforeRead /\ RealBatches)'
  BY <1>1, <1>3 DEF BulkInv, BeforeRead, RealBatches, Saves
<1>5. (IndexInRange /\ FlagStaysOff /\ NothingAfterSignal)'
  BY <1>1, <1>2 DEF BulkInv, IndexInRange, FlagStaysOff, NothingAfterSignal, index, Saves
<1>6. (CancelledOnce /\ ProgressAddsUp)'
  BY <1>1, <1>2 DEF BulkInv, CancelledOnce, ProgressAddsUp, CancelledEarly, AddsUp
<1> QED BY <1>4, <1>5, <1>6 DEF BulkInv

\* Every step keeps the inductive invariant.
LEMMA InvStep == TypeOK /\ BulkInv /\ [Next]_vars => BulkInv'
<1> SUFFICES ASSUME TypeOK, BulkInv, [Next]_vars PROVE BulkInv'
  OBVIOUS
<1> USE SizeAssumption DEF TypeOK, Batches, Counts, NoBatch, Fresh, BulkInv, BeforeRead,
      RealBatches, IndexInRange, FlagStaysOff, ProgressAddsUp, NothingAfterSignal,
      CancelledOnce, AddsUp, CancelledEarly, index, Saves
<1>1. CASE CreateBatch
  BY <1>1 DEF CreateBatch, Fresh
<1>2. CASE ReadBatch
  <2>1. /\ entity' = row /\ pc = "read" /\ pc' = "start"
        /\ UNCHANGED <<row, flag, seen, cancel, signalled, afterSignal, torn>>
    BY <1>2 DEF ReadBatch
  <2>2. /\ row.sent = 0 /\ row.failed = 0 /\ row.status # "NONE" /\ seen = NoBatch
        /\ \/ row.pending = 0 /\ row.cancelled = Size
           \/ row.pending = Size /\ row.cancelled = 0
    <3>1. row \in {NoBatch, Fresh, Cancelled(Fresh)} /\ row.status # "NONE" /\ seen = NoBatch
      BY <2>1
    <3> HIDE DEF TypeOK, BulkInv, NoBatch, Fresh
    <3> QED BY <3>1, FreshBatch
  <2>3. (BeforeRead /\ RealBatches /\ FlagStaysOff /\ NothingAfterSignal)'
    BY <2>1, <2>2
  <2>4. IndexInRange'
    BY <2>1, <2>2
  <2>5. (CancelledOnce /\ ProgressAddsUp)'
    <3>1. ~CancelledEarly
      BY <2>1
    <3>2. ~CancelledEarly' => row.cancelled = 0
      BY <2>1, <2>2
    <3>3. torn' = torn /\ (~torn => AddsUp(row))
      BY <2>1, <3>1
    <3>4. CancelledOnce'
      BY <2>1, <2>2, <3>1, <3>2
    <3>5. ~CancelledEarly' => AddsUp(entity')
      BY <2>1, <2>2
    <3>6. ~torn' => AddsUp(row') /\ \A r \in Requests : AddsUp(cancel'[r].copy)
      BY <2>1, <3>1
    <3> QED BY <3>4, <3>5, <3>6
  <2> QED BY <2>3, <2>4, <2>5
<1>3. CASE StartBatch
  BY <1>3 DEF StartBatch
<1>4. CASE SaveNoEngine \/ SaveProgress \/ SaveFinal
  <2>1. PICK next \in {"done", "loop"} : Save(next)
    BY <1>4 DEF SaveNoEngine, SaveProgress, SaveFinal
  <2>2. pc \in Saves /\ entity' = entity /\ flag' \in {flag, "unset"} /\ UNCHANGED <<cancel, signalled, afterSignal>>
    BY <1>4 DEF SaveNoEngine, SaveProgress, SaveFinal
  <2>3. entity'.status # "NONE" /\ Progress(entity') = Progress(entity)
    BY <2>2
  <2> QED BY <2>1, <2>2, <2>3, SaveInv
<1>5. CASE \E alive \in BOOLEAN : SaveStarted(alive)
  <2> PICK alive \in BOOLEAN : SaveStarted(alive)
    BY <1>5
  <2>1. PICK next \in {"loop", "failSave"} : Save(next)
    BY DEF SaveStarted
  <2>2. pc \in Saves /\ UNCHANGED <<flag, cancel, signalled, afterSignal>>
    BY DEF SaveStarted
  <2>3. entity'.status # "NONE" /\ Progress(entity') = Progress(entity)
    BY <2>2 DEF SaveStarted, Progress
  <2> QED BY <2>1, <2>2, <2>3, SaveInv
<1>10. CASE SaveLooks
  BY <1>10 DEF SaveLooks
<1>6. CASE SendNext
  BY <1>6 DEF SendNext
<1>7. CASE LeaveLoop
  BY <1>7 DEF LeaveLoop
<1>8. CASE SendSucceeds
  <2>1. /\ entity'.sent = entity.sent + 1 /\ entity'.pending = entity.pending - 1
        /\ entity'.failed = entity.failed /\ entity'.cancelled = entity.cancelled
        /\ entity'.status # "NONE"
    BY <1>8 DEF SendSucceeds
  <2>2. UNCHANGED <<row, flag, seen, cancel, signalled, afterSignal, torn>>
        /\ pc = "sending" /\ pc' \in {"saving", "loop"} /\ seen = NoBatch
    BY <1>8 DEF SendSucceeds
  <2>3. (BeforeRead /\ RealBatches /\ FlagStaysOff /\ NothingAfterSignal)'
    BY <2>1, <2>2
  <2>4. IndexInRange'
    <3>1. index' = index + 1 /\ index < Size /\ entity.pending \in {Size - index, 0 - index}
      BY <2>1, <2>2
    <3>2. index \in Int /\ entity.pending \in Int /\ Size \in Int
      OBVIOUS
    <3> HIDE DEF index, TypeOK, BulkInv
    <3> QED BY <3>1, <3>2, <2>1, <2>2
  <2>5. CancelledOnce' /\ ProgressAddsUp'
    BY <2>1, <2>2
  <2> QED BY <2>3, <2>4, <2>5
<1>9. CASE SendFails
  <2>1. /\ entity'.failed = entity.failed + 1 /\ entity'.pending = entity.pending - 1
        /\ entity'.sent = entity.sent /\ entity'.cancelled = entity.cancelled
        /\ entity'.status # "NONE"
    <3>1. \/ entity' = [entity EXCEPT !.failed = @ + 1, !.pending = @ - 1, !.status = "FAILED"]
          \/ entity' = [entity EXCEPT !.failed = @ + 1, !.pending = @ - 1]
      BY <1>9 DEF SendFails
    <3>2. entity.status # "NONE" /\ entity \in Batches
      BY <1>9 DEF SendFails
    <3> QED BY <3>1, <3>2
  <2>2. UNCHANGED <<row, flag, seen, cancel, signalled, afterSignal, torn>>
        /\ pc = "sending" /\ pc' \in {"final", "saving", "loop"} /\ seen = NoBatch
    BY <1>9 DEF SendFails
  <2>3. (BeforeRead /\ RealBatches /\ FlagStaysOff /\ NothingAfterSignal)'
    BY <2>1, <2>2
  <2>4. IndexInRange'
    <3>1. index' = index + 1 /\ index < Size /\ entity.pending \in {Size - index, 0 - index}
      BY <2>1, <2>2
    <3>2. index \in Int /\ entity.pending \in Int /\ Size \in Int
      OBVIOUS
    <3> HIDE DEF index, TypeOK, BulkInv
    <3> QED BY <3>1, <3>2, <2>1, <2>2
  <2>5. CancelledOnce' /\ ProgressAddsUp'
    BY <2>1, <2>2
  <2> QED BY <2>3, <2>4, <2>5
<1>11. CASE Finish
  BY <1>11 DEF Finish
<1>13. CASE \E r \in Requests : CancelRead(r)
  <2> PICK r \in Requests : CancelRead(r)
    BY <1>13
  <2>1. /\ \A q \in Requests \ {r} : cancel'[q] = cancel[q]
        /\ cancel'[r].at = "signal" /\ cancel'[r].copy = row /\ row.status \notin {"NONE", "CANCELLED"}
    BY DEF CancelRead
  <2>2. UNCHANGED <<row, entity, flag, pc, seen, signalled, afterSignal, torn>>
    BY DEF CancelRead
  <2>3. RealBatches'
    BY <2>1, <2>2
  <2>4. BeforeRead'
    <3>1. BeforeRead /\ (row.status = "CANCELLED" \/ row \in {NoBatch, Fresh} \/ pc \notin {"none", "read"})
      BY DEF Cancelled
    <3>2. row = NoBatch => row.status = "NONE"
      OBVIOUS
    <3> HIDE DEF TypeOK, BulkInv, NoBatch, Fresh
    <3> QED BY <2>1, <2>2, <3>1, <3>2
  <2>5. (IndexInRange /\ FlagStaysOff /\ NothingAfterSignal)'
    BY <2>2
  <2>6. ProgressAddsUp'
    <3>1. ProgressAddsUp /\ \A q \in Requests : cancel'[q].copy \in {cancel[q].copy, row}
      BY <2>1
    <3> HIDE DEF TypeOK, BulkInv, AddsUp
    <3> QED BY <2>2, <3>1
  <2>7. CancelledOnce'
    <3>1. CancelledOnce
      OBVIOUS
    <3> HIDE DEF TypeOK, BulkInv
    <3> QED BY <2>1, <2>2, <3>1
  <2> QED BY <2>3, <2>4, <2>5, <2>6, <2>7
<1>12. CASE \E r \in Requests : CancelLooks(r)
  <2> PICK r \in Requests : CancelLooks(r)
    BY <1>12
  <2>1. /\ \A q \in Requests : cancel'[q].copy = cancel[q].copy
        /\ \A q \in Requests \ {r} : cancel'[q] = cancel[q]
        /\ cancel[r].at = "save" /\ cancel'[r].at = "write"
    BY DEF CancelLooks
  <2>2. UNCHANGED <<row, entity, flag, pc, seen, signalled, afterSignal, torn>>
    BY DEF CancelLooks
  <2>0. cancel'[r].seen = row
    BY DEF CancelLooks
  <2>3. RealBatches'
    BY <2>1, <2>2
  <2>6. BeforeRead'
    <3> SUFFICES ASSUME pc \in {"none", "read"} PROVE BeforeRead'
      BY <2>2
    <3>1. row \in {Fresh, Cancelled(Fresh)} /\ BeforeRead
      BY <2>1
    <3> HIDE DEF TypeOK, BulkInv, NoBatch, Fresh
    <3> QED BY <2>0, <2>1, <2>2, <3>1
  <2>4. (IndexInRange /\ FlagStaysOff /\ NothingAfterSignal)'
    BY <2>2
  <2>5. ProgressAddsUp' /\ CancelledOnce'
    BY <2>1, <2>2
  <2> QED BY <2>3, <2>4, <2>5, <2>6
<1>14. CASE \E r \in Requests : CancelSignal(r)
  <2> PICK r \in Requests : CancelSignal(r)
    BY <1>14
  <2>1. UNCHANGED <<row, entity, pc, seen, afterSignal, torn>>
        /\ flag' = "off"
        /\ signalled' = (signalled \/ pc \in {"startSave", "loop", "sending", "saving"})
    BY DEF CancelSignal
  <2>2. \A q \in Requests \ {r} : cancel'[q] = cancel[q]
    BY DEF CancelSignal
  <2>3. /\ cancel[r].at = "signal" /\ cancel'[r].at = "save"
        /\ cancel'[r].copy = Cancelled(cancel[r].copy)
    BY DEF CancelSignal
  <2>4. LET b == cancel[r].copy
            d == cancel'[r].copy
        IN  /\ d.status = "CANCELLED" /\ d.cancelled = b.pending /\ d.pending = 0
            /\ d.sent = b.sent /\ d.failed = b.failed
    BY <2>3 DEF Cancelled
  <2>5. RealBatches'
    BY <2>1, <2>2, <2>3, <2>4
  <2>6. BeforeRead'
    <3>1. BeforeRead /\ (pc \in {"none", "read"} => cancel'[r].copy = Cancelled(Fresh))
      BY <2>3
    <3> HIDE DEF TypeOK, BulkInv, NoBatch, Fresh
    <3> QED BY <2>1, <2>2, <2>3, <3>1
  <2>7. (IndexInRange /\ FlagStaysOff /\ NothingAfterSignal)'
    <3>1. IndexInRange'
      BY <2>1
    <3>2. FlagStaysOff'
      BY <2>1
    <3>3. NothingAfterSignal'
      BY <2>1
    <3> QED BY <3>1, <3>2, <3>3
  <2>8. CancelledOnce'
    BY <2>1, <2>2, <2>3
  <2>9. ProgressAddsUp'
    <3>1. ~CancelledEarly /\ ~torn => AddsUp(cancel[r].copy) /\ cancel[r].copy.cancelled = 0
      BY <2>3
    <3>2. ~CancelledEarly /\ ~torn => AddsUp(cancel'[r].copy)
      BY <3>1, <2>4
    <3> QED BY <3>2, <2>1, <2>2
  <2> QED BY <2>5, <2>6, <2>7, <2>8, <2>9
<1>15. CASE \E r \in Requests : CancelSave(r)
  <2> PICK r \in Requests : CancelSave(r)
    BY <1>15
  <2> DEFINE mine == cancel[r].copy
  <2>1. /\ cancel[r].at = "write" /\ UNCHANGED <<entity, flag, pc, seen, signalled, afterSignal>>
    BY DEF CancelSave
  <2>2. /\ \A q \in Requests \ {r} : cancel'[q] = cancel[q]
        /\ cancel'[r].at = "answered" /\ cancel'[r].copy = NoBatch
    BY DEF CancelSave, Answered
  <2>3. /\ row'.status \in {mine.status, row.status}
        /\ Progress(row') \in {Progress(mine), Progress(row)}
        /\ ~torn' => ~torn /\ row' \in {mine, row}
    <3>1. cancel[r].copy \in Batches /\ cancel[r].seen \in Batches /\ row \in Batches /\ torn \in BOOLEAN
      OBVIOUS
    <3>2. Update(cancel[r].copy, cancel[r].seen)
      BY DEF CancelSave
    <3> HIDE DEF Batches
    <3> QED BY <3>1, <3>2, Updates
  <2>4. mine.status = "CANCELLED" /\ pc # "none" /\ row.status # "NONE"
    BY <2>1
  <2>5. BeforeRead'
    <3> SUFFICES ASSUME pc \in {"none", "read"} PROVE BeforeRead'
      BY <2>1
    <3>1. /\ BeforeRead /\ row \in {Fresh, Cancelled(Fresh)} /\ mine = Cancelled(Fresh)
          /\ cancel[r].seen \in {Fresh, Cancelled(Fresh)}
      BY <2>1
    <3>2. row' \in {mine, row}
      <4>1. CASE cancel[r].seen = Fresh
        <5>1. row' = [(IF Progress(mine) # Progress(Fresh) THEN mine ELSE row) EXCEPT !.status = mine.status]
          <6>1. mine.status # Fresh.status
            <7> HIDE DEF mine, TypeOK, BulkInv, Fresh
            <7> QED BY <3>1, FreshBatch
          <6> QED BY <4>1, <6>1 DEF CancelSave, Update, Written
        <5>2. Progress(mine) = Progress(Fresh) => Size = 0
          <6> HIDE DEF mine, TypeOK, BulkInv, Batches, NoBatch, Fresh
          <6> QED BY <3>1, FreshBatch, Numbers
        <5> HIDE DEF mine, TypeOK, BulkInv, Batches, NoBatch, Fresh
        <5> QED BY <3>1, <5>1, <5>2, FreshBatch
      <4>2. CASE cancel[r].seen = Cancelled(Fresh)
        <5>1. row' = [row EXCEPT !.status = row.status]
          BY <3>1, <4>2 DEF CancelSave, Update, Written
        <5> QED BY <5>1
      <4> QED BY <3>1, <4>1, <4>2
    <3>3. torn' = torn
      BY <3>2 DEF CancelSave, Update
    <3> HIDE DEF mine, TypeOK, BulkInv, Batches, NoBatch, Fresh
    <3> QED BY <2>1, <2>2, <3>1, <3>2, <3>3
  <2>6. RealBatches'
    <3>1. row'.status # "NONE"
      BY <2>3, <2>4
    <3>2. \A q \in Requests : cancel'[q].at \in {"signal", "save", "write"} => cancel'[q] = cancel[q]
      BY <2>2
    <3>3. RealBatches /\ pc' = pc /\ entity' = entity /\ seen' = seen
      BY <2>1
    <3> HIDE DEF TypeOK, BulkInv, NoBatch
    <3> QED BY <2>4, <3>1, <3>2, <3>3 DEF RealBatches
  <2>7. (IndexInRange /\ FlagStaysOff /\ NothingAfterSignal)'
    BY <2>1
  <2>0. CancelledOnce /\ ProgressAddsUp
    OBVIOUS
  <2>a. torn' \in BOOLEAN /\ torn \in BOOLEAN
    BY DEF CancelSave, Update
  <2>8. CancelledOnce'
    <3> SUFFICES ASSUME ~CancelledEarly
                 PROVE  /\ entity'.cancelled = 0
                        /\ ~torn' => /\ row'.status # "CANCELLED" => row'.cancelled = 0
                                     /\ \A q \in Requests : cancel'[q].at = "signal" => cancel'[q].copy.cancelled = 0
      BY <2>1
    <3> HIDE DEF mine, TypeOK, BulkInv, Batches
    <3> QED BY <2>0, <2>1, <2>2, <2>3, <2>4
  <2>9. ProgressAddsUp'
    <3> SUFFICES ASSUME ~CancelledEarly
                 PROVE  /\ AddsUp(entity')
                        /\ ~torn' => AddsUp(row') /\ \A q \in Requests : AddsUp(cancel'[q].copy)
      BY <2>1
    <3>1. AddsUp(NoBatch)
      OBVIOUS
    <3>2. ~torn => AddsUp(mine)
      BY <2>0
    <3>3. AddsUp(entity) /\ (~torn => AddsUp(row) /\ \A q \in Requests : AddsUp(cancel[q].copy))
      BY <2>0, <2>1
    <3>4. ~torn' => ~torn /\ row' \in {mine, row}
      BY <2>3
    <3>5. ~torn' => AddsUp(row')
      <4> HIDE DEF mine, TypeOK, BulkInv, Batches, NoBatch
      <4> QED BY <3>2, <3>3, <3>4
    <3>6. ~torn' => \A q \in Requests : AddsUp(cancel'[q].copy)
      <4> SUFFICES ASSUME ~torn', NEW q \in Requests PROVE AddsUp(cancel'[q].copy)
        OBVIOUS
      <4>1. cancel'[q].copy = NoBatch \/ cancel'[q] = cancel[q]
        BY <2>2
      <4> HIDE DEF mine, TypeOK, BulkInv, Batches, NoBatch
      <4> QED BY <3>1, <3>3, <3>4, <4>1
    <3> QED BY <2>1, <3>3, <3>5, <3>6
  <2> QED BY <2>5, <2>6, <2>7, <2>8, <2>9
<1>16. CASE \E r \in Requests : CancelSaveFails(r)
  <2> PICK r \in Requests : CancelSaveFails(r)
    BY <1>16
  <2>1. /\ UNCHANGED <<row, entity, flag, pc, seen, signalled, afterSignal, torn>>
        /\ \A q \in Requests \ {r} : cancel'[q] = cancel[q]
        /\ cancel'[r].at = "answered" /\ cancel'[r].copy = NoBatch
    BY DEF CancelSaveFails, Answered
  <2>2. (IndexInRange /\ FlagStaysOff /\ NothingAfterSignal)'
    <3>1. IndexInRange /\ FlagStaysOff /\ NothingAfterSignal
      OBVIOUS
    <3> HIDE DEF TypeOK, BulkInv
    <3> QED BY <2>1, <3>1
  <2>5. RealBatches'
    <3>1. RealBatches
      OBVIOUS
    <3> HIDE DEF TypeOK, BulkInv, NoBatch
    <3> QED BY <2>1, <3>1
  <2>3. BeforeRead'
    <3>1. BeforeRead
      OBVIOUS
    <3> HIDE DEF TypeOK, BulkInv, NoBatch, Fresh
    <3> QED BY <2>1, <3>1
  <2>4. (CancelledOnce /\ ProgressAddsUp)'
    <3>1. CancelledOnce /\ ProgressAddsUp /\ AddsUp(NoBatch)
      OBVIOUS
    <3> HIDE DEF TypeOK, BulkInv, NoBatch, Fresh, AddsUp
    <3> QED BY <2>1, <3>1
  <2> QED BY <2>2, <2>3, <2>4, <2>5
<1>17. CASE DatabaseFails
  BY <1>17 DEF DatabaseFails
<1>18. CASE Crash
  BY <1>18 DEF Crash, Answered
<1>19. CASE UNCHANGED vars
  BY <1>19 DEF vars
<1> QED BY <1>1, <1>2, <1>3, <1>4, <1>5, <1>6, <1>7, <1>8, <1>9, <1>10, <1>11, <1>12,
           <1>13, <1>14, <1>15, <1>16, <1>17, <1>18, <1>19 DEF Next, ProcessBatch

\* Both invariants hold throughout.
LEMMA BulkInvariant == Spec => [](TypeOK /\ BulkInv)
<1>1. TypeOK /\ BulkInv /\ [Next]_vars => (TypeOK /\ BulkInv)'
  BY TypeStep, InvStep
<1> QED BY BulkInit, <1>1, PTL DEF Spec

\* The counters stay within the size of the batch, whatever is cancelled when.
THEOREM BatchTypeCorrect == Spec => []TypeOK
BY BulkInvariant, PTL

\* The progress GET .../batch/:id answers adds up to the size of the batch,
\* in the row and in every copy that may still be saved over it.
THEOREM ProgressSums == Spec => []ProgressAddsUp
<1>1. BulkInv => ProgressAddsUp
  BY DEF BulkInv
<1> QED BY BulkInvariant, <1>1, PTL

\* After a cancel cleared the flag of the running batch the loop hands nothing
\* more to the engine.
THEOREM CancelSilences == Spec => []CancelStopsSending
<1>1. BulkInv => CancelStopsSending
  BY DEF BulkInv, NothingAfterSignal, CancelStopsSending
<1> QED BY BulkInvariant, <1>1, PTL
-----------------------------------------------------------------------------
(* COMPLETED is earned.                                                    *)

\* COMPLETED is chosen once, after the loop went to its end or was broken off
\* by an error, and nobody but the last save writes it to the row.
LoopIsOver == pc = "final" /\ flag = "on" => index = Size \/ (stopOnError /\ entity.failed > 0)
CompletedLast ==
  /\ entity.status = "COMPLETED" => pc \in {"finalSave", "done"} /\ Tried(entity)
  /\ row.status = "COMPLETED" => entity.status = "COMPLETED"
TriedInv == LoopIsOver /\ CompletedLast /\ CompletedWasTried

\* A step that leaves the batch's numbers, and gives COMPLETED to nobody.
LEMMA TriedStays ==
  ASSUME TriedInv, Progress(entity') = Progress(entity), stopOnError' = stopOnError,
         row' = row, torn' = torn,
         entity'.status = entity.status, pc' = "final" => LoopIsOver',
         pc \in {"finalSave", "done"} => pc' \in {"finalSave", "done"}
  PROVE  TriedInv'
<1>1. entity'.sent = entity.sent /\ entity'.failed = entity.failed
  BY Numbers
<1>2. Tried(entity)' <=> Tried(entity)
  BY <1>1 DEF Tried
<1>3. Tried(row)' <=> Tried(row)
  BY DEF Tried
<1> QED BY <1>2, <1>3 DEF TriedInv, LoopIsOver, CompletedLast, CompletedWasTried

\* A save puts only the entity's status or the row's own beside the numbers of
\* one of the two.
LEMMA TriedSaved ==
  ASSUME TypeOK, TriedInv, NEW next \in {"loop", "failSave", "done"}, Save(next), pc \in Saves,
         pc = "finalSave" => next = "done" /\ entity' = entity,
         Progress(entity') = Progress(entity), stopOnError' = stopOnError,
         entity'.status \in {entity.status, "FAILED"}
  PROVE  TriedInv'
<1>1. /\ pc' = next /\ row'.status \in {entity.status, row.status}
      /\ ~torn' => ~torn /\ row' \in {entity, row}
  BY Saved
<1>2. entity'.sent = entity.sent /\ entity'.failed = entity.failed
  BY Numbers
<1>3. Tried(entity)' <=> Tried(entity)
  BY <1>2 DEF Tried
<1>4. LoopIsOver'
  BY <1>1 DEF LoopIsOver
<1>5. CASE entity.status # "COMPLETED"
  <2>1. entity'.status # "COMPLETED" /\ row'.status # "COMPLETED"
    BY <1>1, <1>5 DEF TriedInv, CompletedLast
  <2> QED BY <1>4, <2>1 DEF TriedInv, CompletedLast, CompletedWasTried
<1>6. CASE entity.status = "COMPLETED"
  <2>1. pc = "finalSave" /\ next = "done" /\ entity' = entity /\ Tried(entity)
    BY <1>6 DEF TriedInv, CompletedLast, Saves
  <2>2. CompletedLast'
    BY <1>1, <1>3, <1>6, <2>1 DEF CompletedLast
  <2>3. ~torn' => (row'.status = "COMPLETED" => Tried(row)')
    <3>1. row' = entity => Tried(row)'
      BY <2>1 DEF Tried
    <3>2. row' = row /\ row.status = "COMPLETED" /\ ~torn => Tried(row)'
      BY DEF Tried, TriedInv, CompletedWasTried
    <3> QED BY <1>1, <3>1, <3>2
  <2> QED BY <1>3, <1>4, <2>1, <2>2, <2>3 DEF TriedInv, CompletedWasTried
<1> QED BY <1>5, <1>6

\* Every step keeps it.
LEMMA TriedStep == TypeOK /\ BulkInv /\ TriedInv /\ [Next]_vars => TriedInv'
<1> SUFFICES ASSUME TypeOK, BulkInv, TriedInv, [Next]_vars PROVE TriedInv'
  OBVIOUS
<1> DEFINE NotYet(b) == b.status # "COMPLETED"
<1>0. pc \notin {"finalSave", "done"} => NotYet(entity) /\ NotYet(row)
  BY DEF TriedInv, CompletedLast
<1>a. NotYet(entity') /\ NotYet(row') /\ LoopIsOver' => TriedInv'
  BY DEF TriedInv, CompletedLast, CompletedWasTried
<1>1. CASE CreateBatch \/ ReadBatch \/ StartBatch
  <2>1. NotYet(row') /\ NotYet(entity') /\ pc' # "final"
    <3>1. pc \in {"none", "read", "start"}
      BY <1>1 DEF CreateBatch, ReadBatch, StartBatch, BulkInv, RealBatches
    <3> QED BY <1>0, <1>1, <3>1 DEF CreateBatch, ReadBatch, StartBatch, Fresh, TypeOK, Batches
  <2> QED BY <1>a, <2>1 DEF LoopIsOver
<1>2. CASE \E alive \in BOOLEAN : SaveStarted(alive)
  <2> PICK alive \in BOOLEAN : SaveStarted(alive)
    BY <1>2
  <2>1. PICK next \in {"loop", "failSave"} : Save(next)
    BY DEF SaveStarted
  <2>2. pc = "startSave" /\ stopOnError' = stopOnError /\ entity' \in {entity, [entity EXCEPT !.status = "FAILED"]}
    BY DEF SaveStarted
  <2>3. Progress(entity') = Progress(entity) /\ entity'.status \in {entity.status, "FAILED"}
    BY <2>2 DEF Progress, TypeOK, Batches
  <2> QED BY <2>1, <2>2, <2>3, TriedSaved DEF Saves
<1>3. CASE SaveNoEngine \/ SaveProgress \/ SaveFinal
  <2>1. PICK next \in {"done", "loop"} : Save(next) /\ (pc = "finalSave" => next = "done")
    BY <1>3 DEF SaveNoEngine, SaveProgress, SaveFinal
  <2>2. pc \in Saves /\ entity' = entity /\ stopOnError' = stopOnError
    BY <1>3 DEF SaveNoEngine, SaveProgress, SaveFinal, Saves
  <2> QED BY <2>1, <2>2, TriedSaved
<1>4. CASE SendSucceeds
  <2>1. NotYet(row') /\ NotYet(entity') /\ pc' # "final"
    BY <1>0, <1>4 DEF SendSucceeds, TypeOK, Batches
  <2> QED BY <1>a, <2>1 DEF LoopIsOver
<1>5. CASE SendFails
  <2>1. \/ entity' = [entity EXCEPT !.failed = @ + 1, !.pending = @ - 1, !.status = "FAILED"]
           /\ stopOnError
        \/ entity' = [entity EXCEPT !.failed = @ + 1, !.pending = @ - 1] /\ pc' # "final"
    BY <1>5 DEF SendFails
  <2>2. row' = row /\ stopOnError' = stopOnError /\ NotYet(row) /\ NotYet(entity)
    BY <1>0, <1>5 DEF SendFails
  <2>3. entity.failed \in Nat /\ entity \in Batches
    BY DEF TypeOK, Batches, Counts
  <2>5. entity'.status \in {"FAILED", entity.status} /\ entity'.failed = entity.failed + 1
    BY <2>1, <2>3 DEF Batches
  <2>4. NotYet(entity') /\ (pc' = "final" => stopOnError /\ entity'.failed > 0)
    <3>1. pc' = "final" => stopOnError
      BY <2>1, Zenon
    <3> QED BY <2>2, <2>3, <2>5, <3>1
  <2> QED BY <1>a, <2>2, <2>4 DEF LoopIsOver
<1>6. CASE Finish
  <2>1. row' = row /\ torn' = torn /\ stopOnError' = stopOnError /\ pc = "final" /\ pc' = "finalSave"
    BY <1>6 DEF Finish
  <2>2. NotYet(entity) /\ NotYet(row)
    BY <1>0, <2>1
  <2>3. entity'.status = "COMPLETED" => Tried(entity)'
    <3> SUFFICES ASSUME entity'.status = "COMPLETED" PROVE Tried(entity)'
      OBVIOUS
    <3>1. flag = "on"
      BY <1>6, <2>2 DEF Finish
    <3>2. /\ entity' = [entity EXCEPT !.status = IF entity.failed > 0 /\ entity.sent = 0
                                                 THEN "FAILED" ELSE "COMPLETED"]
          /\ entity \in Batches
      BY <1>6, <3>1 DEF Finish, TypeOK
    <3>3. ~(entity.failed > 0 /\ entity.sent = 0) /\ entity'.sent = entity.sent /\ entity'.failed = entity.failed
      BY <3>2 DEF Batches
    <3>4. entity.sent \in Nat /\ entity.failed \in Nat
      BY <3>2 DEF Batches, Counts
    <3>5. index = Size \/ (stopOnError /\ entity.failed > 0)
      BY <2>1, <3>1 DEF TriedInv, LoopIsOver
    <3> QED BY <2>1, <3>3, <3>4, <3>5 DEF Tried, index
  <2> QED BY <2>1, <2>2, <2>3 DEF TriedInv, LoopIsOver, CompletedLast, CompletedWasTried
<1>7. CASE SendNext \/ LeaveLoop \/ SaveLooks \/ DatabaseFails \/ Crash
  <2>1. UNCHANGED <<row, entity, stopOnError, torn>>
    BY <1>7 DEF SendNext, LeaveLoop, SaveLooks, DatabaseFails, Crash
  <2>2. pc' = "final" => index = Size \/ flag' # "on"
    BY <1>7 DEF SendNext, LeaveLoop, SaveLooks, DatabaseFails, Crash, Saves
  <2>3. pc \in {"finalSave", "done"} => pc' \in {"finalSave", "done"}
    BY <1>7 DEF SendNext, LeaveLoop, SaveLooks, DatabaseFails, Crash, Saves
  <2>4. index' = index /\ Size = Size'
    BY <2>1 DEF index
  <2> QED BY <2>1, <2>2, <2>3, <2>4, TriedStays DEF LoopIsOver
<1>8. CASE \/ UNCHANGED vars
           \/ \E r \in Requests : CancelRead(r) \/ CancelSignal(r) \/ CancelLooks(r) \/ CancelSaveFails(r)
  <2>1. UNCHANGED <<row, entity, stopOnError, torn, pc>> /\ flag' \in {flag, "off"}
    BY <1>8 DEF CancelRead, CancelSignal, CancelLooks, CancelSaveFails, vars
  <2>2. LoopIsOver'
    BY <2>1 DEF LoopIsOver, TriedInv, index
  <2> QED BY <2>1, <2>2, TriedStays
<1>9. CASE \E r \in Requests : CancelSave(r)
  <2> PICK r \in Requests : CancelSave(r)
    BY <1>9
  <2>1. UNCHANGED <<entity, flag, stopOnError, pc>> /\ Update(cancel[r].copy, cancel[r].seen)
    BY DEF CancelSave
  <2>2. cancel[r].copy.status = "CANCELLED"
    BY DEF CancelSave, BulkInv, RealBatches
  <2>3. /\ row'.status \in {cancel[r].copy.status, row.status}
        /\ ~torn' => ~torn /\ row' \in {cancel[r].copy, row}
    <3>1. cancel[r].copy \in Batches /\ cancel[r].seen \in Batches /\ row \in Batches /\ torn \in BOOLEAN
      BY DEF TypeOK
    <3> QED BY <2>1, <3>1, Updates
  <2>4. LoopIsOver'
    BY <2>1 DEF LoopIsOver, TriedInv, index
  <2>5. CASE row'.status # "COMPLETED"
    BY <2>1, <2>4, <2>5 DEF TriedInv, CompletedLast, CompletedWasTried, Tried
  <2>6. CASE row'.status = "COMPLETED"
    <3>1. row.status = "COMPLETED" /\ (~torn' => ~torn /\ row' = row)
      BY <2>2, <2>3, <2>6
    <3> QED BY <2>1, <2>4, <3>1 DEF TriedInv, CompletedLast, CompletedWasTried, Tried
  <2> QED BY <2>5, <2>6
<1> QED BY <1>1, <1>2, <1>3, <1>4, <1>5, <1>6, <1>7, <1>8, <1>9 DEF Next, ProcessBatch

\* A row that says COMPLETED stands for a batch that was tried to its end and
\* not in vain, or was stopped at an error as it was told to, and its numbers
\* say the same, unless the two statements of a save met another save.
THEOREM CompletedEarned == Spec => []CompletedWasTried
<1>1. Init => TriedInv
  BY DEF Init, TriedInv, LoopIsOver, CompletedLast, CompletedWasTried, NoBatch, Fresh
<1>2. TriedInv => CompletedWasTried
  BY DEF TriedInv
<1> QED BY <1>1, <1>2, TriedStep, BulkInvariant, PTL DEF Spec

-----------------------------------------------------------------------------
(* A crash forgets little.                                                 *)

\* After a multiple of the interval comes no other before the interval is over.
LEMMA NextMultiple ==
  ASSUME NEW m \in Nat \ {0}, NEW a \in Nat, a % m = 0
  PROVE  (a + m) % m = 0
<1> DEFINE r == (a + m) % m
           q == (a + m) \div m
           p == a \div m
<1>1. r \in 0 .. m - 1 /\ a + m = m * q + r /\ q \in Int
  OBVIOUS
<1>2. a = m * p /\ p \in Int
  OBVIOUS
<1>3. r = m * (p + 1 - q)
  BY <1>1, <1>2
<1>4. p + 1 - q <= 0
  BY <1>1, <1>2, <1>3
<1>5. p + 1 - q >= 0
  BY <1>1, <1>2, <1>3
<1> QED BY <1>1, <1>2, <1>3, <1>4, <1>5

\* How far the row says the batch has come.
saved == row.sent + row.failed
NoCancel == \A r \in Requests : cancel[r].at = "idle"

\* The last save was after a multiple of the interval, and the loop is on its
\* way to the next one.
BehindInv ==
  NoCancel =>
    /\ seen \in {NoBatch, row}
    /\ pc \in {"none", "read", "start", "startSave"} => index = 0 /\ saved = 0
    /\ saved <= index /\ index <= saved + SaveEvery
    /\ pc \in {"loop", "sending"} =>
         /\ index < saved + SaveEvery
         /\ saved = 0 => index = 0
         /\ saved # 0 /\ index < Size => (saved - 1) % SaveEvery = 0
    /\ pc = "saving" => index > 0 /\ (index = Size \/ (index - 1) % SaveEvery = 0)

\* One more message: saved if the interval is over, and otherwise it is not.
LEMMA BehindBySend ==
  ASSUME TypeOK, BulkInv, BehindInv, pc = "sending", UNCHANGED <<row, seen, cancel>>,
         index' = index + 1, pc' = IF SavesAt(index) THEN "saving" ELSE "loop"
  PROVE  BehindInv'
<1> SUFFICES ASSUME NoCancel PROVE BehindInv'
  BY DEF BehindInv, NoCancel
<1>1. saved \in Nat /\ index \in Nat /\ saved' = saved /\ SaveEvery \in Nat \ {0} /\ Size \in Nat
  BY SizeAssumption DEF TypeOK, Batches, Counts, saved, index
<1>2. /\ saved <= index /\ index < saved + SaveEvery /\ index < Size
      /\ saved = 0 => index = 0
      /\ saved # 0 => (saved - 1) % SaveEvery = 0
  BY DEF BehindInv, BulkInv, IndexInRange
<1>0. seen' \in {NoBatch, row'}
  BY DEF BehindInv
<1>3. CASE SavesAt(index)
  <2>1. index + 1 = Size \/ index % SaveEvery = 0
    BY <1>3 DEF SavesAt
  <2>2. index' > 0 /\ (index' = Size \/ (index' - 1) % SaveEvery = 0)
    BY <1>1, <2>1
  <2> QED BY <1>0, <1>1, <1>2, <1>3, <2>2 DEF BehindInv
<1>4. CASE ~SavesAt(index)
  <2>1. index % SaveEvery # 0
    BY <1>4 DEF SavesAt
  <2>2. saved # 0
    BY <2>1, <1>1, <1>2
  <2>3. ((saved - 1) + SaveEvery) % SaveEvery = 0
    <3>1. saved - 1 \in Nat /\ (saved - 1) % SaveEvery = 0
      BY <1>1, <1>2, <2>2
    <3> HIDE DEF saved
    <3> QED BY <1>1, <3>1, NextMultiple
  <2>4. index # (saved - 1) + SaveEvery
    BY <2>1, <2>3
  <2>5. index + 1 < saved + SaveEvery
    BY <1>1, <1>2, <2>4
  <2> QED BY <1>0, <1>1, <1>2, <1>4, <2>2, <2>5 DEF BehindInv
<1> QED BY <1>3, <1>4

\* Every step keeps it.
LEMMA BehindStep == TypeOK /\ BulkInv /\ BehindInv /\ [Next]_vars => BehindInv'
<1> SUFFICES ASSUME TypeOK, BulkInv, BehindInv, [Next]_vars PROVE BehindInv'
  OBVIOUS
<1>0. /\ saved \in Nat /\ index \in Nat /\ Size \in Nat /\ SaveEvery \in Nat \ {0}
      /\ index <= Size
  BY SizeAssumption DEF TypeOK, Batches, Counts, saved, index, BulkInv, IndexInRange
<1>a. ASSUME NEW next, Save(next), cancel' = cancel, Progress(entity') = Progress(entity)
      PROVE  NoCancel' => /\ NoCancel /\ index' = index /\ saved' = index
                          /\ pc' = next /\ seen' = NoBatch
  <2>1. seen # NoBatch /\ pc' = next /\ seen' = NoBatch /\ (seen = row => row' = entity)
    BY <1>a, Saved DEF Save
  <2>2. entity'.sent = entity.sent /\ entity'.failed = entity.failed
    BY <1>a, Numbers
  <2> QED BY <1>a, <2>1, <2>2 DEF BehindInv, NoCancel, saved, index
<1>1. CASE CreateBatch
  <2>1. pc = "none" /\ entity = NoBatch /\ seen = NoBatch
    BY <1>1 DEF CreateBatch, BulkInv, RealBatches, BeforeRead, Saves
  <2>2. index' = 0 /\ saved' = 0 /\ pc' = "read" /\ seen' = NoBatch
    BY <1>1, <2>1 DEF CreateBatch, Fresh, NoBatch, saved, index
  <2> QED BY <1>0, <2>2 DEF BehindInv
<1>2. CASE ReadBatch
  <2>1. index' = saved /\ saved' = saved /\ pc' = "start" /\ pc = "read" /\ UNCHANGED <<row, seen, cancel>>
    BY <1>2 DEF ReadBatch, saved, index
  <2> QED BY <1>0, <2>1 DEF BehindInv, NoCancel
<1>3. CASE StartBatch
  <2>1. index' = index /\ saved' = saved /\ pc' = "startSave" /\ pc = "start" /\ UNCHANGED <<row, seen, cancel>>
    BY <1>3 DEF StartBatch, saved, index, TypeOK, Batches
  <2> QED BY <1>0, <2>1 DEF BehindInv, NoCancel
<1>b. CASE SaveLooks
  <2>1. index' = index /\ saved' = saved /\ pc' = pc /\ seen' = row /\ UNCHANGED <<row, cancel>>
    BY <1>b DEF SaveLooks, saved, index
  <2> QED BY <1>0, <2>1 DEF BehindInv, NoCancel
<1>4. CASE \E alive \in BOOLEAN : SaveStarted(alive)
  <2> PICK alive \in BOOLEAN : SaveStarted(alive)
    BY <1>4
  <2>1. PICK next \in {"loop", "failSave"} : Save(next)
    BY DEF SaveStarted
  <2>2. pc = "startSave" /\ cancel' = cancel /\ entity' \in {entity, [entity EXCEPT !.status = "FAILED"]}
    BY DEF SaveStarted
  <2>3. Progress(entity') = Progress(entity)
    BY <2>2 DEF Progress, TypeOK, Batches
  <2> QED BY <1>0, <1>a, <2>1, <2>2, <2>3 DEF BehindInv
<1>5. CASE SaveNoEngine \/ SaveFinal
  <2>1. Save("done") /\ cancel' = cancel /\ entity' = entity
    BY <1>5 DEF SaveNoEngine, SaveFinal
  <2> QED BY <1>0, <1>a, <2>1 DEF BehindInv
<1>6. CASE SendNext \/ LeaveLoop
  <2>1. /\ index' = index /\ saved' = saved /\ pc = "loop" /\ pc' \in {"sending", "final"}
        /\ UNCHANGED <<row, seen, cancel>>
    BY <1>6 DEF SendNext, LeaveLoop, saved, index
  <2> QED BY <1>0, <2>1 DEF BehindInv, NoCancel
<1>7. CASE SendSucceeds
  <2>1. /\ pc = "sending" /\ UNCHANGED <<row, seen, cancel>> /\ index' = index + 1
        /\ pc' = IF SavesAt(index) THEN "saving" ELSE "loop"
    BY <1>7 DEF SendSucceeds, index, TypeOK, Batches, Counts
  <2> QED BY <2>1, BehindBySend
<1>8. CASE SendFails
  <2>1. pc = "sending" /\ UNCHANGED <<row, seen, cancel>> /\ index' = index + 1 /\ saved' = saved
    <3>1. pc = "sending" /\ UNCHANGED <<row, seen, cancel>>
      BY <1>8 DEF SendFails
    <3>2. entity'.sent = entity.sent /\ entity'.failed = entity.failed + 1
      BY <1>8 DEF SendFails, TypeOK, Batches
    <3> QED BY <3>1, <3>2 DEF index, saved, TypeOK, Batches, Counts
  <2>2. CASE stopOnError
    <3>1. pc' = "final"
      BY <1>8, <2>2, Zenon DEF SendFails
    <3> QED BY <1>0, <2>1, <3>1 DEF BehindInv, NoCancel
  <2>3. CASE ~stopOnError
    <3>1. pc' = IF SavesAt(index) THEN "saving" ELSE "loop"
      BY <1>8, <2>3, Zenon DEF SendFails
    <3> QED BY <2>1, <3>1, BehindBySend
  <2> QED BY <2>2, <2>3
<1>9. CASE SaveProgress
  <2>1. pc = "saving" /\ Save("loop") /\ cancel' = cancel /\ entity' = entity
    BY <1>9 DEF SaveProgress
  <2>2. NoCancel' => index' = index /\ saved' = index /\ pc' = "loop" /\ seen' = NoBatch /\ NoCancel
    BY <1>a, <2>1
  <2> QED BY <1>0, <2>1, <2>2 DEF BehindInv
<1>10. CASE Finish
  <2>1. /\ index' = index /\ saved' = saved /\ pc' = "finalSave" /\ UNCHANGED <<row, seen, cancel>>
    BY <1>10 DEF Finish, saved, index, TypeOK, Batches
  <2> QED BY <1>0, <2>1 DEF BehindInv, NoCancel
<1>11. CASE \E r \in Requests : \/ CancelRead(r) \/ CancelSignal(r) \/ CancelLooks(r)
                               \/ CancelSave(r) \/ CancelSaveFails(r)
  <2>1. ~NoCancel'
    BY <1>11 DEF CancelRead, CancelSignal, CancelLooks, CancelSave, CancelSaveFails, Answered, NoCancel, TypeOK
  <2> QED BY <2>1 DEF BehindInv
<1>12. CASE DatabaseFails \/ Crash
  <2>1. index' = index /\ saved' = saved /\ pc' = "done" /\ seen' = NoBatch /\ (NoCancel' => NoCancel)
    BY <1>12 DEF DatabaseFails, Crash, Answered, saved, index, NoCancel, TypeOK
  <2> QED BY <1>0, <2>1 DEF BehindInv
<1>13. CASE UNCHANGED vars
  BY <1>13 DEF vars, BehindInv, NoCancel, saved, index
<1> QED BY <1>1, <1>2, <1>3, <1>4, <1>5, <1>6, <1>7, <1>8, <1>9, <1>10, <1>11, <1>12, <1>13, <1>b
        DEF Next, ProcessBatch

\* With no cancel around, the row of a batch is at most SaveEvery messages
\* behind what was sent, wherever the process ends.
THEOREM CrashBounded == Spec => []CrashForgetsLittle
<1>1. Init => BehindInv
  BY SizeAssumption DEF Init, BehindInv, NoCancel, saved, index, NoBatch, Fresh
<1>2. TypeOK /\ BehindInv => CrashForgetsLittle
  <2> SUFFICES ASSUME TypeOK, BehindInv, NoCancel PROVE index - saved <= SaveEvery
    BY DEF CrashForgetsLittle, NoCancel, saved
  <2>1. saved \in Nat /\ index \in Nat /\ SaveEvery \in Nat
    BY SizeAssumption DEF TypeOK, Batches, Counts, saved, index
  <2> QED BY <2>1 DEF BehindInv
<1> QED BY <1>1, <1>2, BehindStep, BulkInvariant, PTL DEF Spec

-----------------------------------------------------------------------------
(* The end of a batch nobody disturbs.                                     *)

\* While it is left alone the flag stays on, and its row ends as its entity.
Running == pc \in {"startSave", "loop", "sending", "saving", "final", "finalSave", "failSave"}
EndInv == LeftAlone =>
  /\ seen \in {NoBatch, row}
  /\ Running => flag = "on"
  /\ entity.cancelled = 0 /\ row.cancelled = 0
  /\ pc = "failSave" => entity.status = "FAILED" /\ index = 0
  /\ pc \in {"read", "start", "startSave"} => index = 0
  /\ pc = "finalSave" => /\ entity.status \in {"COMPLETED", "FAILED"}
                         /\ entity.status = "FAILED" => entity.sent = 0
                         /\ entity.status = "COMPLETED" => entity.sent > 0 \/ entity.failed = 0
  /\ pc = "done" => /\ row = entity /\ entity.status \in {"COMPLETED", "FAILED"}
                    /\ entity.status = "FAILED" => entity.sent = 0
                    /\ entity.status = "COMPLETED" => entity.sent > 0 \/ entity.failed = 0

\* Every step keeps it.
LEMMA EndStep == TypeOK /\ BulkInv /\ EndInv /\ [Next]_vars => EndInv'
<1> SUFFICES ASSUME TypeOK, BulkInv, EndInv, [Next]_vars, LeftAlone' PROVE EndInv'
  BY DEF EndInv, LeftAlone
<1> USE DEF EndInv, TypeOK
<1>1. CASE CreateBatch
  <2>1. entity = NoBatch /\ entity' = NoBatch /\ row' = Fresh /\ pc' = "read" /\ seen' = NoBatch
    BY <1>1 DEF CreateBatch, BulkInv, BeforeRead, RealBatches, Saves
  <2> QED BY <2>1 DEF Running, NoBatch, Fresh, index
<1>2. CASE ProcessBatch
  <2>0. LeftAlone /\ cancel' = cancel
    BY <1>2, Zenon DEF LeftAlone, ProcessBatch, ReadBatch, StartBatch, SaveNoEngine, SaveStarted, SendNext,
       LeaveLoop, SendSucceeds, SendFails, SaveProgress, Finish, SaveFinal, SaveLooks
  <2>a. ASSUME NEW next, Save(next) PROVE row' = entity /\ seen' = NoBatch /\ pc' = next
    BY <2>0, <2>a, Saved DEF Save
  <2>1. CASE ReadBatch
    <3>1. row.sent = 0 /\ row.failed = 0
      BY <2>1 DEF ReadBatch, BulkInv, BeforeRead, NoBatch, Fresh, Cancelled
    <3> QED BY <2>0, <2>1, <3>1 DEF ReadBatch, Running, index
  <2>2. CASE StartBatch \/ SendNext \/ LeaveLoop \/ SaveLooks
    BY <2>0, <2>2 DEF StartBatch, SendNext, LeaveLoop, SaveLooks, Saves, Running, Batches, Counts, index
  <2>7. CASE SaveNoEngine \/ SaveProgress \/ SaveFinal
    <3>1. PICK next \in {"loop", "done"} : Save(next)
      BY <2>7 DEF SaveNoEngine, SaveProgress, SaveFinal
    <3>2. row' = entity /\ seen' = NoBatch /\ pc' = next
      BY <3>1, <2>a
    <3>3. /\ entity' = entity
          /\ \/ pc = "saving" /\ pc' = "loop" /\ flag' = flag
             \/ pc \in {"finalSave", "failSave"} /\ pc' = "done"
      BY <2>7, <3>2 DEF SaveNoEngine, SaveProgress, SaveFinal, Save
    <3>4. entity.sent \in Nat /\ entity.failed \in Nat
      BY DEF Batches, Counts
    <3> HIDE DEF TypeOK
    <3> QED BY <2>0, <3>2, <3>3, <3>4 DEF Running, index
  <2>3. ASSUME NEW alive \in BOOLEAN, SaveStarted(alive) PROVE EndInv'
    <3>1. PICK next \in {"loop", "failSave"} : Save(next) /\ (next = "failSave" <=> ~alive)
      BY <2>3 DEF SaveStarted
    <3>2. row' = entity /\ seen' = NoBatch /\ pc' = next
      BY <3>1, <2>a
    <3>3. /\ pc = "startSave" /\ flag' = flag
          /\ entity' = IF alive THEN entity ELSE [entity EXCEPT !.status = "FAILED"]
      BY <2>3 DEF SaveStarted
    <3>4. /\ entity'.sent = entity.sent /\ entity'.failed = entity.failed
          /\ entity'.cancelled = entity.cancelled /\ (~alive => entity'.status = "FAILED")
      BY <3>3 DEF Batches
    <3> HIDE DEF TypeOK
    <3> QED BY <2>0, <3>1, <3>2, <3>3, <3>4 DEF Running, index
  <2>4. CASE SendSucceeds
    BY <2>0, <2>4 DEF SendSucceeds, Running, Batches, index
  <2>5. CASE SendFails
    <3>1. /\ pc = "sending" /\ pc' \in {"final", "saving", "loop"}
          /\ entity'.cancelled = entity.cancelled /\ UNCHANGED <<flag, row, seen>>
      BY <2>5 DEF SendFails, Batches
    <3> QED BY <2>0, <3>1 DEF Running
  <2>6. CASE Finish
    BY <2>0, <2>6 DEF Finish, Running, Batches, Counts
  <2> QED BY <1>2, <2>1, <2>2, <2>3, <2>4, <2>5, <2>6, <2>7 DEF ProcessBatch
<1>3. CASE \E r \in Requests : \/ CancelRead(r) \/ CancelSignal(r) \/ CancelLooks(r)
                              \/ CancelSave(r) \/ CancelSaveFails(r)
  <2>1. ~LeftAlone'
    BY <1>3 DEF CancelRead, CancelSignal, CancelLooks, CancelSave, CancelSaveFails, Answered, LeftAlone
  <2> QED BY <2>1
<1>4. CASE DatabaseFails \/ Crash
  <2>1. crashed' = TRUE
    BY <1>4 DEF DatabaseFails, Crash
  <2> QED BY <2>1, Zenon DEF LeftAlone
<1>5. CASE UNCHANGED vars
  BY <1>5 DEF vars, LeftAlone, Running, index
<1> QED BY <1>1, <1>2, <1>3, <1>4, <1>5 DEF Next

\* A batch nobody cancelled and nothing cut short ends with its row saying all
\* that processBatch knew: COMPLETED, or FAILED if nothing was sent.
THEOREM EndIsTrue == Spec => []EndIsTold
<1>1. Init => EndInv
  BY DEF Init, EndInv, Running, NoBatch, Fresh, index
<1>2. TypeOK /\ BulkInv /\ EndInv => EndIsTold
  <2> SUFFICES ASSUME TypeOK, BulkInv, EndInv, pc = "done", LeftAlone
               PROVE  row = entity /\ row.pending = Size - (row.sent + row.failed)
    BY DEF EndIsTold, EndInv
  <2>1. AddsUp(row)
    BY DEF BulkInv, ProgressAddsUp, CancelledEarly, EndInv
  <2> QED BY <2>1, SizeAssumption DEF EndInv, AddsUp, TypeOK, Batches, Counts
<1> QED BY <1>1, <1>2, EndStep, BulkInvariant, PTL DEF Spec

-----------------------------------------------------------------------------
(* A batch comes to its end.                                               *)

\* What is left at each step, with i messages tried.
LEMMA LeftOf ==
  ASSUME NEW i \in 0 .. Size
  PROVE  /\ LeftAt("read", i) = 4 * Size + 8 /\ LeftAt("start", i) = 4 * (Size - i) + 7
         /\ LeftAt("startSave", i) = 4 * (Size - i) + 6 /\ LeftAt("loop", i) = 4 * (Size - i) + 4
         /\ LeftAt("sending", i) = 4 * (Size - i) + 3 /\ LeftAt("saving", i) = 4 * (Size - i) + 6
         /\ LeftAt("final", i) = 3 /\ LeftAt("failSave", i) = 2 /\ LeftAt("finalSave", i) = 2
         /\ LeftAt("none", i) = 0 /\ LeftAt("done", i) = 0
BY SizeAssumption DEF LeftAt

\* processBatch always has less to do: each of its steps counts, a cancel that
\* interferes only ends it sooner, and so does a failure or a crash.  So it
\* takes four steps for a message, at most, two of them for a save.
THEOREM BatchesEnd == Spec => BatchShrinks
<1> DEFINE Shrinks == pc # "none" /\ (ProcessBatch \/ <<pc, entity>>' # <<pc, entity>>)
                        => StepsLeft' \in 0 .. (StepsLeft - 1)
           half == IF seen = NoBatch THEN 0 ELSE 1
<1>1. TypeOK /\ BulkInv /\ TypeOK' /\ BulkInv' /\ [Next]_vars => [Shrinks]_vars
  <2> SUFFICES ASSUME TypeOK, BulkInv, TypeOK', BulkInv', Next, pc # "none",
                      ProcessBatch \/ <<pc, entity>>' # <<pc, entity>>
               PROVE  StepsLeft' \in 0 .. (StepsLeft - 1)
    BY DEF vars
  <2>0. Size \in Nat
    BY SizeAssumption
  <2>1. PICK i \in 0 .. Size : i = index
    BY <2>0 DEF TypeOK, Batches, Counts, BulkInv, IndexInRange, index
  <2>2. PICK k \in 0 .. Size : k = index'
    BY <2>0 DEF TypeOK, Batches, Counts, BulkInv, IndexInRange, index
  <2>3. StepsLeft = LeftAt(pc, i) - half /\ StepsLeft' = LeftAt(pc', k) - half'
    <3>1. StepsLeft' = LeftAt(pc', index') - half'
      BY Zenon DEF StepsLeft, LeftAt
    <3> QED BY <2>1, <2>2, <3>1 DEF StepsLeft
  <2>a. seen # NoBatch => pc \in Saves
    BY DEF BulkInv, RealBatches
  <2> SUFFICES LeftAt(pc', k) - half' \in 0 .. (LeftAt(pc, i) - half - 1)
    BY <2>3
  <2>b. half \in {0, 1} /\ half' \in {0, 1}
    OBVIOUS
  <2>4. CASE ReadBatch
    <3>1. half = 0 /\ half' = 0 /\ pc = "read" /\ pc' = "start"
      BY <2>4, <2>a DEF ReadBatch, Saves
    <3> HIDE DEF half
    <3> QED BY <2>0, <3>1, LeftOf
  <2>5. CASE StartBatch \/ Finish
    <3>1. i = k
      BY <2>1, <2>2, <2>5 DEF StartBatch, Finish, index, TypeOK, Batches
    <3>2. /\ half = 0 /\ half' = 0
          /\ \/ pc = "start" /\ pc' = "startSave"
             \/ pc = "final" /\ pc' = "finalSave"
      BY <2>5, <2>a DEF StartBatch, Finish, Saves
    <3> HIDE DEF half
    <3> QED BY <2>0, <3>1, <3>2, LeftOf
  <2>c. CASE SaveLooks
    <3>1. i = k
      BY <2>1, <2>2, <2>c DEF SaveLooks, index
    <3>2. half = 0 /\ half' = 1 /\ pc' = pc /\ pc \in Saves
      <4>1. row # NoBatch
        BY <2>c DEF SaveLooks, Saves, BulkInv, RealBatches, NoBatch, Fresh
      <4> QED BY <2>c, <4>1 DEF SaveLooks
    <3> HIDE DEF half
    <3> QED BY <2>0, <3>1, <3>2, LeftOf DEF Saves
  <2>6. CASE SaveNoEngine \/ SaveProgress \/ SaveFinal \/ \E alive \in BOOLEAN : SaveStarted(alive)
    <3>1. i = k
      BY <2>1, <2>2, <2>6 DEF SaveNoEngine, SaveProgress, SaveFinal, SaveStarted, index, TypeOK, Batches
    <3>2. /\ half = 1 /\ half' = 0
          /\ \/ pc = "startSave" /\ pc' \in {"loop", "failSave"}
             \/ pc = "saving" /\ pc' = "loop"
             \/ pc \in {"failSave", "finalSave"} /\ pc' = "done"
      BY <2>6 DEF SaveNoEngine, SaveProgress, SaveFinal, SaveStarted, Save
    <3> HIDE DEF half
    <3> QED BY <2>0, <3>1, <3>2, LeftOf
  <2>d. CASE SendNext \/ LeaveLoop
    <3>1. i = k /\ half = 0 /\ half' = 0 /\ pc = "loop"
      BY <2>1, <2>2, <2>d, <2>a DEF SendNext, LeaveLoop, index, Saves
    <3>2. \/ pc' = "sending" /\ i < Size
          \/ pc' = "final"
      BY <2>1, <2>d DEF SendNext, LeaveLoop
    <3> HIDE DEF half
    <3> QED BY <2>0, <3>1, <3>2, LeftOf
  <2>7. CASE SendSucceeds \/ SendFails
    <3>1. pc = "sending" /\ pc' \in {"saving", "loop", "final"} /\ half = 0 /\ half' = 0
      BY <2>7, <2>a DEF SendSucceeds, SendFails, Saves
    <3>2. /\ entity.sent \in Nat /\ entity.failed \in Nat
          /\ \/ entity'.sent = entity.sent + 1 /\ entity'.failed = entity.failed
             \/ entity'.sent = entity.sent /\ entity'.failed = entity.failed + 1
      <4>1. CASE SendSucceeds
        BY <4>1 DEF SendSucceeds, TypeOK, Batches, Counts
      <4>2. CASE SendFails
        <5>1. \/ entity' = [entity EXCEPT !.failed = @ + 1, !.pending = @ - 1, !.status = "FAILED"]
              \/ entity' = [entity EXCEPT !.failed = @ + 1, !.pending = @ - 1]
          BY <4>2 DEF SendFails
        <5>2. entity \in Batches
          BY DEF TypeOK
        <5>3. entity'.sent = entity.sent /\ entity'.failed = entity.failed + 1
          BY <5>1, <5>2 DEF Batches
        <5> QED BY <5>2, <5>3 DEF Batches, Counts
      <4> QED BY <2>7, <4>1, <4>2
    <3>3. index' = index + 1
      BY <3>2 DEF index
    <3>4. k = i + 1
      BY <2>1, <2>2, <3>3
    <3> HIDE DEF half
    <3> QED BY <2>0, <2>1, <2>2, <3>1, <3>4, LeftOf
  <2>8. CASE DatabaseFails \/ Crash
    <3>1. pc' = "done" /\ pc \in Steps \ {"none", "done"} /\ half' = 0
      BY <2>8 DEF DatabaseFails, Crash, TypeOK, Steps, Saves
    <3>2. half = 1 => pc \in Saves
      BY <2>a
    <3>3. LeftAt(pc', k) = 0 /\ LeftAt(pc, i) >= 2 /\ LeftAt(pc, i) \in Nat
      BY <2>0, <3>1, LeftOf DEF Steps
    <3> HIDE DEF half
    <3> QED BY <2>b, <3>1, <3>3
  <2>9. CASE \/ CreateBatch
             \/ \E r \in Requests : \/ CancelRead(r) \/ CancelSignal(r) \/ CancelLooks(r)
                                   \/ CancelSave(r) \/ CancelSaveFails(r)
    <3>1. ~CreateBatch
      BY DEF CreateBatch, BulkInv, RealBatches
    <3>2. UNCHANGED <<pc, entity>>
      BY <2>9, <3>1 DEF CancelRead, CancelSignal, CancelLooks, CancelSave, CancelSaveFails
    <3>3. ProcessBatch
      BY <3>2
    <3> QED BY <2>4, <2>5, <2>6, <2>7, <2>c, <2>d, <3>3 DEF ProcessBatch
  <2> QED BY <2>4, <2>5, <2>6, <2>7, <2>8, <2>9, <2>c, <2>d DEF Next, ProcessBatch
<1> QED BY <1>1, BulkInvariant, PTL DEF Spec, BatchShrinks
=============================================================================
