---------------------------- MODULE Inbox_proofs ----------------------------
(***************************************************************************)
(* Proofs about Inbox.  TypeOK comes first; then RowInv (who stores which  *)
(* message), SendInv (what a send knows and what its row tells), ReactInv  *)
(* (what the readers of the reactions have seen), ConvInv (where a chat's  *)
(* second conversation comes from) and BadgeInv (the unread counter).      *)
(***************************************************************************)
EXTENDS Inbox, FiniteSetTheorems, SequenceTheorems, TLAPS

-----------------------------------------------------------------------------
(***************************************************************************)
(* Types.                                                                  *)
(***************************************************************************)
Kinds == {"received", "outgoing", "ack", "reaction", "sync"}

LEMMA EventShape ==
  ASSUME NEW ev \in Events
  PROVE  /\ ev.kind \in Kinds
         /\ ev.kind \in {"received", "reaction"} => ev.msg \in Inbound
         /\ ev.kind \in {"outgoing", "ack"} => ev.msg \in Sends
         /\ ev.kind = "ack" => ev.arg \in Acks
         /\ ev.kind = "reaction" => ev.arg \in {"on", "off"}
  BY DEF Events, Kinds

LEMMA JobShape ==
  ASSUME NEW j \in Jobs
  PROVE  /\ j.ev \in Events /\ j.session \in ConvIds /\ j.left \in 1 .. MaxAttempts
         /\ j.stalled \in BOOLEAN
  BY DEF Jobs

LEMMA JobAgain ==
  ASSUME NEW j \in Jobs, j.left > 1
  PROVE  LET i == [j EXCEPT !.left = @ - 1]
         IN  i \in Jobs /\ i.ev = j.ev /\ i.session = j.session /\ i.stalled = j.stalled
  BY InboxAssumption DEF Jobs

LEMMA JobStalls ==
  ASSUME NEW j \in Jobs
  PROVE  LET i == [j EXCEPT !.stalled = TRUE]
         IN  i \in Jobs /\ i.ev = j.ev /\ i.session = j.session /\ i.stalled
  BY DEF Jobs

LEMMA WorkerShape ==
  ASSUME TypeOK
  PROVE  /\ worker.pc \in {"idle", "reattach", "conversation", "sync", "orphans", "message",
                           "try", "react"}
         /\ worker.pc = "idle" <=> worker = NoJob
         /\ worker # NoJob => worker.job \in Jobs /\ worker.job.ev \in Events
         /\ worker.pc \in {"reattach", "orphans"} => worker.job.ev.kind \in {"received", "outgoing", "sync"}
         /\ worker.pc \in {"conversation", "message"} => worker.job.ev.kind \in {"received", "outgoing"}
         /\ worker.pc = "sync" => worker.job.ev.kind = "sync"
         /\ worker.pc = "try" => worker.job.ev.kind = "ack" /\ worker.tries \in 0 .. Retries
         /\ worker.pc = "orphans" => worker.kept \subseteq ConvIds
         /\ worker.pc = "message" => worker.conv \in ConvIds
         /\ worker.pc = "react" => /\ worker.job.ev.kind = "reaction"
                                  /\ worker.row \in Nat /\ worker.seen \subseteq Parties
  BY JobShape DEF TypeOK, WorkerTasks, JobsOf, NoJob

LEMMA RequestShape ==
  ASSUME TypeOK, NEW r \in Requests
  PROVE  /\ req[r] \in RequestTasks
         /\ req[r].pc \in {"idle", "purge", "attach", "upsert", "create", "post", "save", "count",
                           "catch", "reset", "react"}
         /\ req[r].pc = "idle" <=> req[r] = NoReq
         /\ req[r].pc \in {"purge", "attach", "upsert"} => req[r].session \in ConvIds
         /\ req[r].pc = "create" => /\ req[r].msg \in Sends /\ req[r].conv \in ConvIds
                                    /\ req[r].session \in ConvIds /\ req[r].by \in Senders
         /\ req[r].pc \in {"post", "save", "count", "catch"} =>
              req[r].msg \in Sends /\ req[r].session \in ConvIds /\ req[r].row \in Nat
         /\ req[r].pc = "reset" => req[r].conv \in ConvIds
         /\ req[r].pc = "react" => /\ req[r].row \in Nat /\ req[r].seen \subseteq Parties
                                   /\ req[r].arg \in {"on", "off"}
  BY DEF TypeOK, RequestTasks, NoReq

LEMMA GoesOn ==
  ASSUME NEW t \in RequestTasks, t.pc \in {"post", "save", "count", "catch"},
         NEW pc \in {"post", "save", "count", "catch"}
  PROVE  LET u == [t EXCEPT !.pc = pc]
         IN  u \in RequestTasks /\ u.pc = pc /\ u.msg = t.msg /\ u.session = t.session /\ u.row = t.row
  BY DEF RequestTasks, NoReq

LEMMA MailGoesOn ==
  ASSUME NEW t \in RequestTasks, t.pc \in {"purge", "attach"}
  PROVE  LET u == [t EXCEPT !.pc = "upsert"]
         IN  u \in RequestTasks /\ u.pc = "upsert" /\ u.session = t.session
  BY DEF RequestTasks, NoReq

LEMMA RowShape ==
  ASSUME TypeOK, NEW k \in DOMAIN messages
  PROVE  /\ messages[k] \in Row /\ k \in Nat
         /\ messages[k].msg \in Inbound \cup Sends /\ messages[k].dir \in {"INBOUND", "OUTBOUND"}
         /\ messages[k].conv \in 0 .. MaxSessions /\ messages[k].status \in Statuses
         /\ messages[k].by \in {"engine"} \cup Senders /\ messages[k].id \in {"none", "known"}
         /\ messages[k].react \subseteq Parties
  <1>1. messages \in Seq(Row)
    BY DEF TypeOK
  <1>2. messages[k] \in Row /\ k \in Nat
    BY <1>1, LenProperties, ElementOfSeq
  <1> QED  BY <1>2 DEF Row

LEMMA NewRowShape ==
  ASSUME NEW m \in Inbound \cup Sends, NEW dir \in {"INBOUND", "OUTBOUND"},
         NEW c \in 0 .. MaxSessions, NEW st \in Statuses, NEW by \in {"engine"} \cup Senders
  PROVE  LET u == NewRow(m, dir, c, st, by)
         IN  /\ u \in Row /\ u.msg = m /\ u.dir = dir /\ u.conv = c /\ u.status = st /\ u.by = by
             /\ u.id = (IF by = "engine" THEN "known" ELSE "none") /\ u.react = {}
  BY DEF Row, NewRow

\* The row a send or a campaign stores first.
LEMMA SentRow ==
  ASSUME TypeOK, NEW r \in Requests, req[r].pc = "create"
  PROVE  LET u == NewRow(req[r].msg, "OUTBOUND", req[r].conv, "PENDING", req[r].by)
         IN  /\ u \in Row /\ u.msg = req[r].msg /\ u.dir = "OUTBOUND" /\ u.conv = req[r].conv
             /\ u.status = "PENDING" /\ u.by = req[r].by /\ u.by # "engine" /\ u.react = {}
  <1>1. /\ req[r].msg \in Inbound \cup Sends /\ req[r].conv \in 0 .. MaxSessions
        /\ req[r].by \in {"engine"} \cup Senders
    BY RequestShape DEF ConvIds
  <1>2. "PENDING" \in Statuses /\ req[r].by # "engine"
    BY RequestShape DEF Statuses, Senders
  <1>3. ASSUME NEW m \in Inbound \cup Sends, NEW c \in 0 .. MaxSessions, NEW by \in {"engine"} \cup Senders,
               by # "engine"
        PROVE  LET u == NewRow(m, "OUTBOUND", c, "PENDING", by)
               IN  /\ u \in Row /\ u.msg = m /\ u.dir = "OUTBOUND" /\ u.conv = c
                   /\ u.status = "PENDING" /\ u.by = by /\ u.by # "engine" /\ u.react = {}
    BY <1>2, <1>3, NewRowShape
  <1> QED  BY <1>1, <1>2, <1>3

\* The fields of a row that a step may write.
LEMMA StatusWritten ==
  ASSUME NEW t \in Row, NEW st \in Statuses
  PROVE  LET u == [t EXCEPT !.status = st]
         IN  /\ u \in Row /\ u.status = st /\ u.msg = t.msg /\ u.dir = t.dir /\ u.conv = t.conv
             /\ u.by = t.by /\ u.id = t.id /\ u.react = t.react
  BY DEF Row

LEMMA ConvWritten ==
  ASSUME NEW t \in Row, NEW c \in 0 .. MaxSessions
  PROVE  LET u == [t EXCEPT !.conv = c]
         IN  /\ u \in Row /\ u.status = t.status /\ u.msg = t.msg /\ u.dir = t.dir /\ u.conv = c
             /\ u.by = t.by /\ u.id = t.id /\ u.react = t.react
  BY DEF Row

LEMMA IdWritten ==
  ASSUME NEW t \in Row
  PROVE  LET u == [t EXCEPT !.id = "known"]
         IN  /\ u \in Row /\ u.status = t.status /\ u.msg = t.msg /\ u.dir = t.dir /\ u.conv = t.conv
             /\ u.by = t.by /\ u.id = "known" /\ u.react = t.react
  BY DEF Row

LEMMA ReactWritten ==
  ASSUME NEW t \in Row, NEW new \in SUBSET Parties
  PROVE  LET u == [t EXCEPT !.react = new]
         IN  /\ u \in Row /\ u.status = t.status /\ u.msg = t.msg /\ u.dir = t.dir /\ u.conv = t.conv
             /\ u.by = t.by /\ u.id = t.id /\ u.react = new
  BY DEF Row

\* A step that keeps the rows and changes some of them.
SameRows == messages' \in Seq(Row) /\ DOMAIN messages' = DOMAIN messages

LEMMA RowsRewritten ==
  ASSUME TypeOK, NEW f, messages' = [k \in DOMAIN messages |-> f[k]],
         \A k \in DOMAIN messages : f[k] \in Row
  PROVE  SameRows
  <1>1. messages \in Seq(Row) /\ Len(messages) \in Nat /\ DOMAIN messages = 1 .. Len(messages)
    BY LenProperties DEF TypeOK
  <1>2. messages' \in [1 .. Len(messages) -> Row]
    BY <1>1
  <1>3. messages' \in Seq(Row)
    BY <1>1, <1>2, SeqDef
  <1> QED  BY <1>1, <1>3 DEF SameRows

LEMMA RowRewritten ==
  ASSUME TypeOK, NEW k \in DOMAIN messages, NEW u \in Row, messages' = [messages EXCEPT ![k] = u]
  PROVE  SameRows /\ \A l \in DOMAIN messages : messages'[l] = IF l = k THEN u ELSE messages[l]
  <1>1. messages \in Seq(Row) /\ Len(messages) \in Nat /\ DOMAIN messages = 1 .. Len(messages)
    BY LenProperties DEF TypeOK
  <1> QED  BY <1>1, ExceptSeq, LenProperties DEF SameRows

LEMMA RowAdded ==
  ASSUME TypeOK, NEW u \in Row, messages' = Append(messages, u)
  PROVE  /\ messages' \in Seq(Row)
         /\ DOMAIN messages' = DOMAIN messages \cup {Len(messages) + 1}
         /\ Len(messages) + 1 \notin DOMAIN messages
         /\ messages'[Len(messages) + 1] = u
         /\ \A k \in DOMAIN messages : messages'[k] = messages[k]
         /\ Len(messages) + 1 \in Nat
  <1>1. messages \in Seq(Row) /\ Len(messages) \in Nat /\ DOMAIN messages = 1 .. Len(messages)
    BY LenProperties DEF TypeOK
  <1>2. /\ messages' \in Seq(Row) /\ Len(messages') = Len(messages) + 1
        /\ \A i \in 1 .. Len(messages) : messages'[i] = messages[i]
        /\ messages'[Len(messages) + 1] = u
    BY <1>1, AppendProperties
  <1>3. DOMAIN messages' = 1 .. (Len(messages) + 1)
    BY <1>2, LenProperties
  <1> QED  BY <1>1, <1>2, <1>3

\* What becomes of the rows in a step; the fields not named stay as they are.
Same(k, fields) ==
  /\ messages'[k].msg = messages[k].msg /\ messages'[k].dir = messages[k].dir
  /\ messages'[k].by = messages[k].by
  /\ "conv" \in fields => messages'[k].conv = messages[k].conv
  /\ "status" \in fields => messages'[k].status = messages[k].status
  /\ "id" \in fields => messages'[k].id = messages[k].id
  /\ "react" \in fields => messages'[k].react = messages[k].react

LEMMA DetachDoes ==
  ASSUME TypeOK, NEW dead, messages' = Detach(dead)
  PROVE  SameRows /\ \A k \in DOMAIN messages :
           /\ Same(k, {"status", "id", "react"})
           /\ messages'[k].conv = IF messages[k].conv \in dead THEN 0 ELSE messages[k].conv
  <1> DEFINE f == [k \in DOMAIN messages |-> IF messages[k].conv \in dead
                             THEN [messages[k] EXCEPT !.conv = 0] ELSE messages[k]]
  <1>1. ASSUME NEW k \in DOMAIN messages
        PROVE  /\ f[k] \in Row /\ f[k].msg = messages[k].msg /\ f[k].dir = messages[k].dir
               /\ f[k].by = messages[k].by /\ f[k].status = messages[k].status
               /\ f[k].id = messages[k].id /\ f[k].react = messages[k].react
               /\ f[k].conv = IF messages[k].conv \in dead THEN 0 ELSE messages[k].conv
    <2>1. messages[k] \in Row
      BY RowShape
    <2>2. 0 \in 0 .. MaxSessions
      BY InboxAssumption
    <2> QED  BY <2>1, <2>2, ConvWritten
  <1>2. messages' = f
    BY DEF Detach
  <1>3. SameRows
    BY <1>1, <1>2, RowsRewritten
  <1> HIDE DEF f
  <1> QED  BY <1>1, <1>2, <1>3 DEF Same

LEMMA AckDoes ==
  ASSUME TypeOK, NEW j \in Jobs, j.ev.kind = "ack", WriteAck(j)
  PROVE  SameRows /\ \A k \in DOMAIN messages :
           /\ Same(k, {"conv", "id", "react"})
           /\ messages'[k].status = IF k \in Rows(j.ev.msg) THEN j.ev.arg ELSE messages[k].status
  <1> DEFINE f == [k \in DOMAIN messages |-> IF k \in Rows(j.ev.msg)
                 THEN [messages[k] EXCEPT !.status = j.ev.arg] ELSE messages[k]]
  <1>0. j.ev.arg \in Statuses
    BY JobShape, EventShape, InboxAssumption DEF Statuses
  <1>1. ASSUME NEW k \in DOMAIN messages
        PROVE  /\ f[k] \in Row /\ f[k].msg = messages[k].msg /\ f[k].dir = messages[k].dir
               /\ f[k].by = messages[k].by /\ f[k].conv = messages[k].conv
               /\ f[k].id = messages[k].id /\ f[k].react = messages[k].react
               /\ f[k].status = IF k \in Rows(j.ev.msg) THEN j.ev.arg ELSE messages[k].status
    <2>1. messages[k] \in Row
      BY RowShape
    <2> QED  BY <2>1, <1>0, StatusWritten
  <1>2. messages' = f
    BY DEF WriteAck
  <1>3. SameRows
    BY <1>1, <1>2, RowsRewritten
  <1> HIDE DEF f
  <1> QED  BY <1>1, <1>2, <1>3 DEF Same

LEMMA MarkDoes ==
  ASSUME TypeOK, NEW r, NEW c, MarkMessages(r, c)
  PROVE  SameRows /\ \A k \in DOMAIN messages :
           /\ Same(k, {"conv", "id", "react"})
           /\ messages'[k].status = IF k \in Unread(c) THEN "READ" ELSE messages[k].status
  <1> DEFINE f == [k \in DOMAIN messages |-> IF k \in Unread(c)
                 THEN [messages[k] EXCEPT !.status = "READ"] ELSE messages[k]]
  <1>1. ASSUME NEW k \in DOMAIN messages
        PROVE  /\ f[k] \in Row /\ f[k].msg = messages[k].msg /\ f[k].dir = messages[k].dir
               /\ f[k].by = messages[k].by /\ f[k].conv = messages[k].conv
               /\ f[k].id = messages[k].id /\ f[k].react = messages[k].react
               /\ f[k].status = IF k \in Unread(c) THEN "READ" ELSE messages[k].status
    <2>1. messages[k] \in Row /\ "READ" \in Statuses
      BY RowShape DEF Statuses
    <2> QED  BY <2>1, StatusWritten
  <1>2. messages' = f
    BY DEF MarkMessages
  <1>3. SameRows
    BY <1>1, <1>2, RowsRewritten
  <1> HIDE DEF f
  <1> QED  BY <1>1, <1>2, <1>3 DEF Same

LEMMA StatusSet ==
  ASSUME TypeOK, NEW n \in Nat, NEW st \in Statuses,
         messages' = [messages EXCEPT ![n].status = st]
  PROVE  SameRows /\ \A k \in DOMAIN messages :
           /\ Same(k, {"conv", "id", "react"})
           /\ messages'[k].status = IF k = n THEN st ELSE messages[k].status
  <1>1. CASE n \in DOMAIN messages
    <2>1. messages[n] \in Row
      BY <1>1, RowShape
    <2>2. PICK u : u = [messages[n] EXCEPT !.status = st]
      OBVIOUS
    <2>3. /\ u \in Row /\ u.status = st /\ u.msg = messages[n].msg /\ u.dir = messages[n].dir
          /\ u.conv = messages[n].conv /\ u.by = messages[n].by /\ u.id = messages[n].id
          /\ u.react = messages[n].react
      BY <2>1, <2>2, StatusWritten
    <2>4. messages' = [messages EXCEPT ![n] = u]
      BY <2>2
    <2> QED  BY <1>1, <2>3, <2>4, RowRewritten DEF Same
  <1>2. CASE n \notin DOMAIN messages
    <2>1. messages' = messages
      BY <1>2, LenProperties DEF TypeOK
    <2> QED  BY <1>2, <2>1 DEF Same, SameRows, TypeOK
  <1> QED  BY <1>1, <1>2

LEMMA ReactSet ==
  ASSUME TypeOK, NEW n \in Nat, NEW new \in SUBSET Parties,
         messages' = [messages EXCEPT ![n].react = new]
  PROVE  SameRows /\ \A k \in DOMAIN messages :
           /\ Same(k, {"conv", "id", "status"})
           /\ messages'[k].react = IF k = n THEN new ELSE messages[k].react
  <1>1. CASE n \in DOMAIN messages
    <2>1. messages[n] \in Row
      BY <1>1, RowShape
    <2>2. PICK u : u = [messages[n] EXCEPT !.react = new]
      OBVIOUS
    <2>3. /\ u \in Row /\ u.status = messages[n].status /\ u.msg = messages[n].msg
          /\ u.dir = messages[n].dir
          /\ u.conv = messages[n].conv /\ u.by = messages[n].by /\ u.id = messages[n].id
          /\ u.react = new
      BY <2>1, <2>2, ReactWritten
    <2>4. messages' = [messages EXCEPT ![n] = u]
      BY <2>2
    <2> QED  BY <1>1, <2>3, <2>4, RowRewritten DEF Same
  <1>2. CASE n \notin DOMAIN messages
    <2>1. messages' = messages
      BY <1>2, LenProperties DEF TypeOK
    <2> QED  BY <1>2, <2>1 DEF Same, SameRows, TypeOK
  <1> QED  BY <1>1, <1>2

LEMMA SaveDoes ==
  ASSUME TypeOK, NEW n \in Nat,
         messages' = [messages EXCEPT ![n].status = "SENT", ![n].id = "known"]
  PROVE  SameRows /\ \A k \in DOMAIN messages :
           /\ Same(k, {"conv", "react"})
           /\ messages'[k].status = IF k = n THEN "SENT" ELSE messages[k].status
           /\ messages'[k].id = IF k = n THEN "known" ELSE messages[k].id
  <1>1. CASE n \in DOMAIN messages
    <2>1. messages[n] \in Row /\ "SENT" \in Statuses
      BY <1>1, RowShape DEF Statuses
    <2>2. PICK t : t = [messages[n] EXCEPT !.status = "SENT"]
      OBVIOUS
    <2>3. PICK u : u = [t EXCEPT !.id = "known"]
      OBVIOUS
    <2>4. /\ t \in Row /\ t.status = "SENT" /\ t.msg = messages[n].msg /\ t.dir = messages[n].dir
          /\ t.conv = messages[n].conv /\ t.by = messages[n].by /\ t.react = messages[n].react
      BY <2>1, <2>2, StatusWritten
    <2>5. /\ u \in Row /\ u.status = "SENT" /\ u.msg = messages[n].msg /\ u.dir = messages[n].dir
          /\ u.conv = messages[n].conv /\ u.by = messages[n].by /\ u.id = "known"
          /\ u.react = messages[n].react
      BY <2>3, <2>4, IdWritten
    <2>6. messages' = [messages EXCEPT ![n] = u]
      BY <1>1, <2>2, <2>3
    <2> QED  BY <1>1, <2>5, <2>6, RowRewritten DEF Same
  <1>2. CASE n \notin DOMAIN messages
    <2>1. messages' = messages
      BY <1>2, LenProperties DEF TypeOK
    <2> QED  BY <1>2, <2>1 DEF Same, SameRows, TypeOK
  <1> QED  BY <1>1, <1>2

\* The row of a send is SENT, with the engine's id if its answer carried one.
LEMMA SavedDoes ==
  ASSUME TypeOK, NEW r \in Requests, SendSave(r)
  PROVE  /\ SameRows
         /\ \A k \in DOMAIN messages :
              /\ Same(k, {"conv", "react"})
              /\ messages'[k].status = IF k = req[r].row THEN "SENT" ELSE messages[k].status
              /\ k # req[r].row => messages'[k].id = messages[k].id
         /\ \/ /\ hist' = hist
               /\ req[r].row \in DOMAIN messages => messages'[req[r].row].id = "known"
            \/ /\ hist' = [hist EXCEPT !.mute = @ \cup {req[r].msg}]
               /\ \A k \in DOMAIN messages : messages'[k].id = messages[k].id
  <1>1. req[r].row \in Nat /\ "SENT" \in Statuses
    BY RequestShape DEF SendSave, Statuses
  <1>2. CASE /\ messages' = [messages EXCEPT ![req[r].row].status = "SENT", ![req[r].row].id = "known"]
             /\ hist' = hist
    <2>1. PICK n \in Nat : n = req[r].row
      BY <1>1
    <2>2. messages' = [messages EXCEPT ![n].status = "SENT", ![n].id = "known"]
      BY <1>2, <2>1
    <2>3. SameRows /\ \A k \in DOMAIN messages :
             /\ Same(k, {"conv", "react"})
             /\ messages'[k].status = IF k = n THEN "SENT" ELSE messages[k].status
             /\ messages'[k].id = IF k = n THEN "known" ELSE messages[k].id
      BY <2>2, SaveDoes
    <2> QED  BY <1>2, <2>1, <2>3
  <1>3. CASE /\ messages' = [messages EXCEPT ![req[r].row].status = "SENT"]
             /\ hist' = [hist EXCEPT !.mute = @ \cup {req[r].msg}]
    BY <1>1, <1>3, StatusSet DEF Same
  <1> QED  BY <1>2, <1>3 DEF SendSave

-----------------------------------------------------------------------------
(***************************************************************************)
(* What becomes of the conversations.                                      *)
(***************************************************************************)
LEMMA ConvShape ==
  ASSUME TypeOK, NEW c \in DOMAIN convs
  PROVE  /\ c \in 1 .. session /\ c \in ConvIds /\ convs[c] \in ConvRow
         /\ convs[c].session \in 0 .. MaxSessions /\ convs[c].unread \in Nat
         /\ convs[c].session # 0 => live /\ convs[c].session = session
  BY InboxAssumption DEF TypeOK, ConvRow, ConvIds

LEMMA UnreadWritten ==
  ASSUME NEW t \in ConvRow, NEW n \in Nat
  PROVE  LET u == [t EXCEPT !.unread = n]
         IN  u \in ConvRow /\ u.unread = n /\ u.session = t.session
  BY DEF ConvRow

LEMMA SessionWritten ==
  ASSUME NEW t \in ConvRow, NEW s \in 0 .. MaxSessions
  PROVE  LET u == [t EXCEPT !.session = s]
         IN  u \in ConvRow /\ u.session = s /\ u.unread = t.unread
  BY DEF ConvRow

\* The rows keep their types and their keys.
ConvsOK ==
  /\ DOMAIN convs \subseteq 1 .. session
  /\ \A c \in DOMAIN convs :
       convs[c] \in ConvRow /\ (convs[c].session # 0 => live /\ convs[c].session = session)
  /\ \A c, d \in Keepers : c = d

\* At most one row changes, and no other has a session.
Upserts(c, n) ==
  /\ DOMAIN convs' = DOMAIN convs \cup {c}
  /\ \A d \in DOMAIN convs \ {c} : convs'[d] = convs[d]
  /\ convs'[c] \in ConvRow /\ convs'[c].session = session /\ convs'[c].unread = n
  /\ c \in 1 .. session
  /\ \/ Keepers = {c}
     \/ Keepers = {} /\ c = session

LEMMA UpsertDoes ==
  ASSUME TypeOK, NEW increments \in BOOLEAN, NEW count \in Nat, Upsert(increments, count)
  PROVE  Upserts(Upserted, IF Keepers # {} /\ increments THEN convs[Upserted].unread + count ELSE count)
  <1>1. CASE Keepers # {}
    <2>1. PICK c \in Keepers : c = Upserted
      BY <1>1 DEF Upserted
    <2>2. Keepers = {c} /\ c \in DOMAIN convs /\ convs[c].session = session
      BY <2>1 DEF TypeOK, Keepers
    <2> DEFINE n == IF increments THEN convs[c].unread + count ELSE count
    <2>3. convs[c] \in ConvRow /\ n \in Nat /\ c \in 1 .. session
      BY <2>2, ConvShape
    <2>4. convs' = [d \in DOMAIN convs |-> IF d \in Keepers
                       THEN [convs[d] EXCEPT !.unread = IF increments THEN @ + count ELSE count]
                       ELSE convs[d]]
      BY <1>1 DEF Upsert
    <2>5. DOMAIN convs' = DOMAIN convs /\ \A d \in DOMAIN convs \ {c} : convs'[d] = convs[d]
      BY <2>2, <2>4
    <2>6. convs'[c] = [convs[c] EXCEPT !.unread = n]
      BY <2>2, <2>4
    <2>7. convs'[c] \in ConvRow /\ convs'[c].session = session /\ convs'[c].unread = n
      BY <2>2, <2>3, <2>6, UnreadWritten
    <2> QED  BY <1>1, <2>1, <2>2, <2>3, <2>5, <2>7 DEF Upserts
  <1>2. CASE Keepers = {}
    <2>1. Upserted = session
      BY <1>2 DEF Upserted
    <2>2. convs' = With(session, [session |-> session, unread |-> count])
      BY <1>2 DEF Upsert
    <2>3. [session |-> session, unread |-> count] \in ConvRow /\ session \in 1 .. session
      BY InboxAssumption DEF TypeOK, ConvRow, ConvIds
    <2> QED  BY <1>2, <2>1, <2>2, <2>3 DEF Upserts, With
  <1> QED  BY <1>1, <1>2

LEMMA UpsertTypes ==
  ASSUME TypeOK, live, NEW c, NEW n, Upserts(c, n), session' = session, live' = live
  PROVE  ConvsOK'
  <1>1. session \in ConvIds /\ session # 0
    BY InboxAssumption DEF TypeOK, ConvIds
  <1>2. \A d \in DOMAIN convs : d # c => convs[d].session # session
    BY DEF Upserts, Keepers
  <1> QED  BY <1>1, <1>2 DEF TypeOK, ConvsOK, Upserts, Keepers

LEMMA WithoutDoes ==
  ASSUME TypeOK, NEW dead, convs' = Without(dead), session' = session, live' = live
  PROVE  /\ ConvsOK' /\ DOMAIN convs' = DOMAIN convs \ dead
         /\ \A c \in DOMAIN convs \ dead : convs'[c] = convs[c]
  BY DEF TypeOK, ConvsOK, Without, Keepers

LEMMA KeptDoes ==
  ASSUME TypeOK, NEW c \in ConvIds, live, Keepers \subseteq {c},
         convs' = [convs EXCEPT ![c].session = session], session' = session, live' = live
  PROVE  /\ ConvsOK' /\ DOMAIN convs' = DOMAIN convs
         /\ \A d \in DOMAIN convs :
              /\ convs'[d].unread = convs[d].unread
              /\ convs'[d].session = IF d = c THEN session ELSE convs[d].session
  <1>0. DOMAIN convs' = DOMAIN convs /\ \A d \in DOMAIN convs \ {c} : convs'[d] = convs[d]
    OBVIOUS
  <1>1. CASE c \in DOMAIN convs
    <2>1. convs[c] \in ConvRow /\ session \in 0 .. MaxSessions
      BY <1>1, ConvShape, InboxAssumption DEF TypeOK, ConvIds
    <2>2. PICK u : u = [convs[c] EXCEPT !.session = session]
      OBVIOUS
    <2>5. u \in ConvRow /\ u.session = session /\ u.unread = convs[c].unread
      BY <2>1, <2>2, SessionWritten
    <2>3. convs'[c] \in ConvRow /\ convs'[c].session = session /\ convs'[c].unread = convs[c].unread
      BY <1>1, <2>2, <2>5
    <2>4. \A d \in DOMAIN convs \ {c} : convs[d].session # session
      BY DEF Keepers
    <2> QED  BY <1>0, <1>1, <2>3, <2>4 DEF TypeOK, ConvsOK, Keepers
  <1>2. CASE c \notin DOMAIN convs
    <2>1. \A d \in DOMAIN convs : convs'[d] = convs[d]
      BY <1>0, <1>2
    <2> QED  BY <1>0, <1>2, <2>1 DEF TypeOK, ConvsOK, Keepers
  <1> QED  BY <1>1, <1>2

\* A campaign makes the only orphan its session's, if there is one.
LEMMA AttachDoes ==
  ASSUME TypeOK, NEW r \in Requests, CampaignAttach(r)
  PROVE  \/ /\ convs' = convs
            /\ Leave(r) \/ (Orphans = {} /\ Goto(r, "upsert"))
         \/ /\ Goto(r, "upsert") /\ live /\ req[r].session = session /\ Keepers = {}
            /\ \E c \in ConvIds : Orphans = {c} /\ convs' = [convs EXCEPT ![c].session = session]
  <1> DEFINE f == [c \in DOMAIN convs |->
                     IF c \in Orphans THEN [convs[c] EXCEPT !.session = session] ELSE convs[c]]
  <1>1. CASE Orphans = {}
    BY <1>1 DEF CampaignAttach
  <1>2. CASE Orphans # {} /\ MineAgain(r)
    <2>1. PICK c \in Orphans : Orphans = {c}
      BY <1>2 DEF MineAgain
    <2>2. c \in DOMAIN convs /\ c \in ConvIds
      BY <2>1, ConvShape DEF Orphans
    <2>3. convs' = f /\ Goto(r, "upsert")
      BY <1>2 DEF CampaignAttach
    <2>4. f = [convs EXCEPT ![c].session = session]
      BY <2>1, <2>2
    <2> QED  BY <1>2, <2>1, <2>2, <2>3, <2>4 DEF MineAgain
  <1>3. CASE Orphans # {} /\ ~MineAgain(r)
    BY <1>3 DEF CampaignAttach
  <1> QED  BY <1>1, <1>2, <1>3

LEMMA OrphansMade ==
  ASSUME TypeOK, DeleteSession
  PROVE  /\ ConvsOK' /\ DOMAIN convs' = DOMAIN convs /\ Keepers' = {}
         /\ \A d \in DOMAIN convs : convs'[d].unread = convs[d].unread /\ convs'[d].session = 0
  <1> DEFINE f == [c \in DOMAIN convs |->
                     IF convs[c].session = session THEN [convs[c] EXCEPT !.session = 0] ELSE convs[c]]
  <1>0. session # 0 /\ 0 \in 0 .. MaxSessions
    BY InboxAssumption DEF TypeOK, ConvIds
  <1>1. ASSUME NEW c \in DOMAIN convs
        PROVE  f[c] \in ConvRow /\ f[c].session = 0 /\ f[c].unread = convs[c].unread
    <2>1. convs[c] \in ConvRow /\ (convs[c].session = session \/ convs[c].session = 0)
      BY ConvShape
    <2> QED  BY <1>0, <2>1, SessionWritten
  <1>2. convs' = f /\ DOMAIN f = DOMAIN convs
    BY DEF DeleteSession
  <1> HIDE DEF f
  <1>3. session' = session
    BY DEF DeleteSession
  <1>4. ConvsOK' /\ Keepers' = {}
    BY <1>0, <1>1, <1>2, <1>3 DEF TypeOK, ConvsOK, Keepers
  <1> QED  BY <1>1, <1>2, <1>4

LEMMA BadgeReset ==
  ASSUME TypeOK, NEW r, ResetUnread(r)
  PROVE  /\ ConvsOK' /\ DOMAIN convs' = DOMAIN convs
         /\ \A c \in DOMAIN convs :
              /\ convs'[c].session = convs[c].session
              /\ convs'[c].unread = IF c = req[r].conv THEN 0 ELSE convs[c].unread
  <1> DEFINE f == [c \in DOMAIN convs |->
                     IF c = req[r].conv THEN [convs[c] EXCEPT !.unread = 0] ELSE convs[c]]
  <1>1. ASSUME NEW c \in DOMAIN convs
        PROVE  /\ f[c] \in ConvRow /\ f[c].session = convs[c].session
               /\ f[c].unread = IF c = req[r].conv THEN 0 ELSE convs[c].unread
    <2>1. convs[c] \in ConvRow
      BY ConvShape
    <2> QED  BY <2>1, UnreadWritten
  <1>2. convs' = f /\ DOMAIN f = DOMAIN convs /\ session' = session /\ live' = live
    BY DEF ResetUnread
  <1> HIDE DEF f
  <1> QED  BY <1>1, <1>2 DEF TypeOK, ConvsOK, Keepers

-----------------------------------------------------------------------------
(***************************************************************************)
(* Every step keeps the types.                                             *)
(***************************************************************************)
RowsOK == messages \in Seq(Row) /\ queue \subseteq Jobs
ActorsOK == worker \in WorkerTasks /\ req \in [Requests -> RequestTasks]
CountersOK ==
  /\ session \in ConvIds /\ live \in BOOLEAN /\ accepted \subseteq Sends
  /\ posted \in 0 .. MaxJobs /\ asked \in 0 .. MaxRequests /\ faults \in Nat
HistOK ==
  hist \in [upset : SUBSET Sends, disturbed : SUBSET ConvIds, early : SUBSET Sends,
            split : SUBSET ConvIds, lost : SUBSET Inbound,
            wish : SUBSET (Nat \X Parties), torn : SUBSET Nat, mute : SUBSET Sends]

LEMMA TypeParts == TypeOK <=> ConvsOK /\ RowsOK /\ ActorsOK /\ CountersOK /\ HistOK
  BY DEF TypeOK, ConvsOK, RowsOK, ActorsOK, CountersOK, HistOK

LEMMA TypePartsPrimed ==
  ASSUME ConvsOK', RowsOK', ActorsOK', CountersOK', HistOK'
  PROVE  TypeOK'
  BY DEF TypeOK, ConvsOK, RowsOK, ActorsOK, CountersOK, HistOK

LEMMA ConvsUnchanged ==
  ASSUME TypeOK, UNCHANGED <<session, live, convs>>
  PROVE  ConvsOK'
  BY DEF TypeOK, ConvsOK, Keepers

\* A history variable grows by members of its type.
LEMMA UpsetGrows ==
  ASSUME TypeOK, NEW S \in SUBSET Sends, hist' = [hist EXCEPT !.upset = @ \cup S]
  PROVE  HistOK'
  BY DEF TypeOK, HistOK

LEMMA DisturbedGrows ==
  ASSUME TypeOK, NEW S \in SUBSET ConvIds, hist' = [hist EXCEPT !.disturbed = @ \cup S]
  PROVE  HistOK'
  BY DEF TypeOK, HistOK

LEMMA SplitGrows ==
  ASSUME TypeOK, NEW S \in SUBSET ConvIds, hist' = [hist EXCEPT !.split = @ \cup S]
  PROVE  HistOK'
  BY DEF TypeOK, HistOK

LEMMA TornGrows ==
  ASSUME TypeOK, NEW S \in SUBSET Nat, hist' = [hist EXCEPT !.torn = @ \cup S]
  PROVE  HistOK'
  BY DEF TypeOK, HistOK

LEMMA MuteGrows ==
  ASSUME TypeOK, NEW S \in SUBSET Sends, hist' = [hist EXCEPT !.mute = @ \cup S]
  PROVE  HistOK'
  BY DEF TypeOK, HistOK

LEMMA HistUnchanged ==
  ASSUME TypeOK, hist' = hist
  PROVE  HistOK'
  BY DEF TypeOK, HistOK

LEMMA CountersAsked ==
  ASSUME TypeOK, asked < MaxRequests, asked' = asked + 1,
         UNCHANGED <<session, live, accepted, posted, faults>>
  PROVE  CountersOK'
  <1>1. MaxRequests \in Nat
    BY InboxAssumption
  <1> QED  BY <1>1 DEF TypeOK, CountersOK

LEMMA CountersFailed ==
  ASSUME TypeOK, faults' = faults + 1, accepted' \subseteq Sends,
         UNCHANGED <<session, live, posted, asked>>
  PROVE  CountersOK'
  <1>1. MaxFaults \in Nat
    BY InboxAssumption
  <1> QED  BY <1>1 DEF TypeOK, CountersOK

\* Every request keeps its shape; the one that takes a step has a new state.
LEMMA GotoDoes ==
  ASSUME TypeOK, NEW r \in Requests, req[r].pc \in {"post", "save", "count", "catch"},
         NEW pc \in {"post", "save", "count", "catch"}, Goto(r, pc)
  PROVE  /\ req' \in [Requests -> RequestTasks]
         /\ \A q \in Requests \ {r} : req'[q] = req[q]
         /\ req'[r].pc = pc /\ req'[r].msg = req[r].msg /\ req'[r].row = req[r].row
         /\ req'[r].session = req[r].session
  <1>1. req[r] \in RequestTasks
    BY DEF TypeOK
  <1>2. PICK u : u = [req[r] EXCEPT !.pc = pc]
    OBVIOUS
  <1>3. /\ u \in RequestTasks /\ u.pc = pc /\ u.msg = req[r].msg /\ u.session = req[r].session
        /\ u.row = req[r].row
    BY <1>1, <1>2, GoesOn
  <1>4. req' = [req EXCEPT ![r] = u]
    BY <1>2 DEF Goto
  <1> QED  BY <1>3, <1>4 DEF TypeOK

LEMMA MailGoes ==
  ASSUME TypeOK, NEW r \in Requests, req[r].pc \in {"purge", "attach"}, Goto(r, "upsert")
  PROVE  /\ req' \in [Requests -> RequestTasks]
         /\ \A q \in Requests \ {r} : req'[q] = req[q]
         /\ req'[r].pc = "upsert" /\ req'[r].session = req[r].session
  <1>1. req[r] \in RequestTasks
    BY DEF TypeOK
  <1>2. PICK u : u = [req[r] EXCEPT !.pc = "upsert"]
    OBVIOUS
  <1>3. u \in RequestTasks /\ u.pc = "upsert" /\ u.session = req[r].session
    BY <1>1, <1>2, MailGoesOn
  <1>4. req' = [req EXCEPT ![r] = u]
    BY <1>2 DEF Goto
  <1> QED  BY <1>3, <1>4 DEF TypeOK

LEMMA LeaveDoes ==
  ASSUME TypeOK, NEW r \in Requests, Leave(r)
  PROVE  /\ req' \in [Requests -> RequestTasks]
         /\ \A q \in Requests \ {r} : req'[q] = req[q]
         /\ req'[r] = NoReq /\ req'[r].pc = "idle"
  BY DEF TypeOK, Leave, RequestTasks, NoReq

LEMMA BeginDoes ==
  ASSUME TypeOK, NEW r \in Requests, NEW t \in RequestTasks, req' = [req EXCEPT ![r] = t]
  PROVE  /\ req' \in [Requests -> RequestTasks]
         /\ \A q \in Requests \ {r} : req'[q] = req[q]
         /\ req'[r] = t
  BY DEF TypeOK

LEMMA ThrowDoes ==
  ASSUME TypeOK, JobThrows, worker # NoJob
  PROVE  /\ worker' = NoJob /\ worker' \in WorkerTasks /\ queue' \subseteq Jobs /\ HistOK'
         /\ \A j \in queue' : j \in queue \/ (j.ev = worker.job.ev /\ j.session = worker.job.session)
  <1>1. worker.job \in Jobs
    BY WorkerShape
  <1>2. worker' = NoJob /\ worker' \in WorkerTasks
    BY DEF JobThrows, WorkerTasks
  <1>3. /\ queue' \subseteq Jobs
        /\ \A j \in queue' : j \in queue \/ (j.ev = worker.job.ev /\ j.session = worker.job.session)
    <2>1. CASE worker.job.left > 1
      <3>1. PICK i : i = [worker.job EXCEPT !.left = @ - 1]
        OBVIOUS
      <3>2. i \in Jobs /\ i.ev = worker.job.ev /\ i.session = worker.job.session
        BY <1>1, <2>1, <3>1, JobAgain
      <3>3. queue' = queue \cup {i}
        BY <2>1, <3>1 DEF JobThrows
      <3> QED  BY <3>2, <3>3 DEF TypeOK
    <2>2. CASE ~(worker.job.left > 1)
      BY <2>2 DEF TypeOK, JobThrows
    <2> QED  BY <2>1, <2>2
  <1>4. HistOK'
    <2> DEFINE d == IF worker.pc = "message" /\ worker.job.ev.kind = "received"
                    THEN hist.disturbed \cup {worker.conv} ELSE hist.disturbed
               l == IF worker.job.left = 1 /\ worker.job.ev.kind = "received"
                    THEN hist.lost \cup {worker.job.ev.msg} ELSE hist.lost
    <2>1. d \in SUBSET ConvIds /\ l \in SUBSET Inbound
      BY <1>1, WorkerShape, JobShape, EventShape DEF TypeOK
    <2>2. hist' = [hist EXCEPT !.disturbed = d, !.lost = l]
      BY DEF JobThrows
    <2> HIDE DEF d, l
    <2> QED  BY <2>1, <2>2 DEF TypeOK, HistOK
  <1> QED  BY <1>2, <1>3, <1>4

\* A crash puts the worker's job back, unless it had stalled before.
LEMMA CrashQueues ==
  ASSUME TypeOK, Crash
  PROVE  /\ queue' \subseteq Jobs /\ queue \subseteq queue' /\ worker' = NoJob
         /\ worker = NoJob \/ Twice => queue' = queue
         /\ worker # NoJob /\ ~Twice =>
              \E i \in Jobs : /\ queue' = queue \cup {i} /\ i = [worker.job EXCEPT !.stalled = TRUE]
                            /\ i.ev = worker.job.ev /\ i.session = worker.job.session
  <1>1. CASE worker = NoJob \/ Twice
    BY <1>1 DEF Crash, TypeOK
  <1>2. CASE worker # NoJob /\ ~Twice
    <2>1. worker.job \in Jobs
      BY <1>2, WorkerShape
    <2>2. PICK i : i = [worker.job EXCEPT !.stalled = TRUE]
      OBVIOUS
    <2>3. i \in Jobs /\ i.ev = worker.job.ev /\ i.session = worker.job.session
      BY <2>1, <2>2, JobStalls
    <2>4. queue' = queue \cup {i} /\ worker' = NoJob
      BY <1>2, <2>2 DEF Crash
    <2> QED  BY <1>2, <2>2, <2>3, <2>4 DEF TypeOK
  <1> QED  BY <1>1, <1>2

LEMMA TypeInit == Init => TypeOK
  <1> SUFFICES ASSUME Init PROVE TypeOK
    OBVIOUS
  <1>1. DOMAIN convs = {session - 1} \ {0} /\ \A c \in DOMAIN convs : convs[c] = [session |-> 0, unread |-> 0]
    BY DEF Init
  <1>2. session \in 1 .. (MaxSessions - 1) /\ MaxSessions \in Nat /\ live = TRUE
    BY InboxAssumption DEF Init
  <1>3. ConvsOK
    BY <1>1, <1>2 DEF ConvsOK, ConvRow, Keepers
  <1>4. RowsOK /\ ActorsOK
    BY EmptySeq DEF Init, RowsOK, ActorsOK, WorkerTasks, RequestTasks
  <1>5. CountersOK /\ HistOK
    BY <1>2, InboxAssumption DEF Init, CountersOK, HistOK, ConvIds
  <1> QED  BY <1>3, <1>4, <1>5, TypeParts

\* The worker takes a job, and has it until it is done.
LEMMA Taken ==
  ASSUME TypeOK, NEW j, NEW kinds, Take(j, kinds)
  PROVE  /\ j \in queue /\ j \in Jobs /\ j.ev \in Events /\ j.ev.kind \in kinds
         /\ worker = NoJob /\ worker.pc = "idle"
         /\ queue' = queue \ {j} /\ queue' \subseteq Jobs
  BY JobShape DEF TypeOK, Take, NoJob

LEMMA WorkerTypes ==
  ASSUME NEW j \in Jobs
  PROVE  /\ j.ev.kind \in {"received", "outgoing", "sync"} => [pc |-> "reattach", job |-> j] \in WorkerTasks
         /\ j.ev.kind \in {"received", "outgoing", "sync"} =>
              \A K \in SUBSET ConvIds : [pc |-> "orphans", job |-> j, kept |-> K] \in WorkerTasks
         /\ j.ev.kind \in {"received", "outgoing"} => [pc |-> "conversation", job |-> j] \in WorkerTasks
         /\ j.ev.kind \in {"received", "outgoing"} =>
              \A c \in ConvIds : [pc |-> "message", job |-> j, conv |-> c] \in WorkerTasks
         /\ j.ev.kind = "sync" => [pc |-> "sync", job |-> j] \in WorkerTasks
         /\ j.ev.kind = "ack" =>
              \A n \in 0 .. Retries : [pc |-> "try", job |-> j, tries |-> n] \in WorkerTasks
         /\ j.ev.kind = "reaction" =>
              \A k \in Nat, s \in SUBSET Parties :
                [pc |-> "react", job |-> j, row |-> k, seen |-> s] \in WorkerTasks
         /\ NoJob \in WorkerTasks
  BY DEF WorkerTasks, JobsOf

LEMMA NextTypes ==
  ASSUME TypeOK, worker.pc \in {"reattach", "orphans"}
  PROVE  /\ NextStep \in {"sync", "conversation"}
         /\ [pc |-> NextStep, job |-> worker.job] \in WorkerTasks
         /\ \A K \in SUBSET ConvIds : [pc |-> "orphans", job |-> worker.job, kept |-> K] \in WorkerTasks
         /\ worker # NoJob /\ worker.job \in Jobs
  <1>1. worker # NoJob /\ worker.job \in Jobs /\ worker.job.ev.kind \in {"received", "outgoing", "sync"}
    BY WorkerShape DEF NoJob
  <1> QED  BY <1>1, WorkerTypes DEF NextStep

LEMMA RequestTypes ==
  /\ \A o \in Sends, c, s \in ConvIds :
       \A by \in Senders :
         [pc |-> "create", msg |-> o, conv |-> c, session |-> s, by |-> by] \in RequestTasks
  /\ \A s \in ConvIds, pc \in {"purge", "attach", "upsert"} : [pc |-> pc, session |-> s] \in RequestTasks
  /\ \A o \in Sends, s \in ConvIds, k \in Nat :
       [pc |-> "post", msg |-> o, session |-> s, row |-> k] \in RequestTasks
  /\ \A c \in ConvIds : [pc |-> "reset", conv |-> c] \in RequestTasks
  /\ \A k \in Nat, s \in SUBSET Parties, a \in {"on", "off"} :
       [pc |-> "react", row |-> k, seen |-> s, arg |-> a] \in RequestTasks
  BY DEF RequestTasks

\* Sending begins in the conversation that was upserted, or in another.
LEMMA CreatesDoes ==
  ASSUME TypeOK, NEW r \in Requests, NEW o \in Sends, NEW c \in ConvIds, NEW by \in Senders,
         Creates(r, o, c, by)
  PROVE  /\ req' \in [Requests -> RequestTasks]
         /\ \A q \in Requests \ {r} : req'[q] = req[q]
         /\ req'[r] = [pc |-> "create", msg |-> o, conv |-> c, session |-> session, by |-> by]
         /\ req'[r].pc = "create" /\ req'[r].msg = o
  <1>1. [pc |-> "create", msg |-> o, conv |-> c, session |-> session, by |-> by] \in RequestTasks
    BY RequestTypes DEF TypeOK
  <1> QED  BY <1>1, BeginDoes DEF Creates

LEMMA UpsertedConv ==
  ASSUME TypeOK, NEW increments \in BOOLEAN, NEW count \in Nat, Upsert(increments, count)
  PROVE  Upserted \in ConvIds
  <1>1. PICK m : Upserts(Upserted, m)
    BY UpsertDoes
  <1>2. session \in ConvIds
    BY DEF TypeOK
  <1> QED  BY <1>1, <1>2, InboxAssumption DEF Upserts, ConvIds

LEMMA TypeStep ==
  ASSUME TypeOK, [Next]_vars
  PROVE  TypeOK'
  <1> USE InboxAssumption
  <1>0. ConvsOK /\ RowsOK /\ ActorsOK /\ CountersOK /\ HistOK
    BY TypeParts
  <1>1. ASSUME DeleteSession PROVE TypeOK'
    <2>1. ConvsOK'
      BY <1>1, OrphansMade
    <2>2. HistOK'
      <3>1. Keepers \subseteq ConvIds
        BY ConvShape DEF Keepers
      <3>2. hist' = hist \/ hist' = [hist EXCEPT !.split = @ \cup Keepers]
        BY <1>1 DEF DeleteSession
      <3> QED  BY <3>1, <3>2, SplitGrows, HistUnchanged
    <2>3. RowsOK' /\ ActorsOK'
      BY <1>0, <1>1 DEF DeleteSession, RowsOK, ActorsOK
    <2>4. CountersOK'
      <3>1. live' \in BOOLEAN /\ session' = session /\ accepted' = accepted
        BY <1>1 DEF DeleteSession
      <3>2. MaxRequests \in Nat
        OBVIOUS
      <3> QED  BY <1>0, <1>1, <3>1, <3>2 DEF DeleteSession, CountersOK
    <2> QED  BY <2>1, <2>2, <2>3, <2>4, TypePartsPrimed
  <1>2. ASSUME CreateSession PROVE TypeOK'
    <2>1. ConvsOK'
      BY <1>2, <1>0 DEF CreateSession, ConvsOK, Keepers, CountersOK, ConvIds
    <2>2. RowsOK' /\ ActorsOK' /\ CountersOK' /\ HistOK'
      BY SMTT(60), <1>0, <1>2 DEF CreateSession, RowsOK, ActorsOK, CountersOK, HistOK, ConvIds
    <2> QED  BY <2>1, <2>2, TypePartsPrimed
  <1>3. ASSUME NEW ev \in Events, HandleEngineEvent(ev) PROVE TypeOK'
    <2>1. ConvsOK'
      BY <1>3, ConvsUnchanged DEF HandleEngineEvent, rows
    <2>2. [ev |-> ev, session |-> session, left |-> MaxAttempts, stalled |-> FALSE] \in Jobs
      BY <1>0 DEF CountersOK, Jobs
    <2>3. RowsOK' /\ ActorsOK' /\ HistOK'
      BY <1>0, <1>3, <2>2 DEF HandleEngineEvent, rows, RowsOK, ActorsOK, HistOK
    <2>4. posted' \in 0 .. MaxJobs /\ UNCHANGED <<session, live, accepted, asked, faults>>
      BY <1>0, <1>3 DEF HandleEngineEvent, rows, CountersOK
    <2>5. CountersOK'
      BY <1>0, <2>4 DEF CountersOK
    <2> QED  BY <2>1, <2>3, <2>5, TypePartsPrimed
  <1>4. ASSUME NEW j \in queue, HandleMessage(j) PROVE TypeOK'
    <2>1. ConvsOK' /\ CountersOK'
      BY <1>0, <1>4, ConvsUnchanged DEF HandleMessage, rows, CountersOK
    <2>2. j \in Jobs /\ j.ev \in Events /\ queue' \subseteq Jobs
      BY <1>4, Taken DEF HandleMessage
    <2>3. worker' \in WorkerTasks
      <3>1. j.ev.kind \in {"received", "outgoing"}
        BY <1>4 DEF HandleMessage, Take
      <3>2. worker' = NoJob \/ worker' = [pc |-> "reattach", job |-> j]
        BY <1>4 DEF HandleMessage, JobDone
      <3> QED  BY <2>2, <3>1, <3>2, WorkerTypes
    <2>5. RowsOK' /\ ActorsOK'
      BY <1>0, <1>4, <2>2, <2>3 DEF HandleMessage, rows, RowsOK, ActorsOK
    <2>4. HistOK'
      <3> DEFINE e == IF j.ev.kind = "outgoing" /\ Answering(j.ev.msg)
                      THEN hist.early \cup {j.ev.msg} ELSE hist.early
                 l == IF j.ev.kind = "received" /\ ~Duplicate(j) /\ ~SessionFound(j)
                      THEN hist.lost \cup {j.ev.msg} ELSE hist.lost
      <3>1. e \in SUBSET Sends /\ l \in SUBSET Inbound
        BY <1>0, <2>2, EventShape DEF HistOK
      <3>2. hist' = [hist EXCEPT !.early = e, !.lost = l]
        BY <1>4 DEF HandleMessage
      <3> HIDE DEF e, l
      <3> QED  BY <1>0, <3>1, <3>2 DEF HistOK
    <2> QED  BY <2>1, <2>4, <2>5, TypePartsPrimed
  <1>5. ASSUME NEW j \in queue, HandleChatsSynced(j) PROVE TypeOK'
    <2>1. ConvsOK' /\ CountersOK' /\ HistOK'
      BY <1>0, <1>5, ConvsUnchanged DEF HandleChatsSynced, rows, CountersOK, HistOK
    <2>2. j \in Jobs /\ queue' \subseteq Jobs
      BY <1>5, Taken DEF HandleChatsSynced
    <2>3. worker' \in WorkerTasks
      <3>1. j.ev.kind = "sync"
        BY <1>5 DEF HandleChatsSynced, Take
      <3>2. worker' = NoJob \/ worker' = [pc |-> "reattach", job |-> j]
        BY <1>5 DEF HandleChatsSynced, JobDone
      <3> QED  BY <2>2, <3>1, <3>2, WorkerTypes
    <2>5. RowsOK' /\ ActorsOK'
      BY <1>0, <1>5, <2>2, <2>3 DEF HandleChatsSynced, rows, RowsOK, ActorsOK
    <2> QED  BY <2>1, <2>5, TypePartsPrimed
  <1>6. ASSUME ReattachLook PROVE TypeOK'
    <2>1. ConvsOK' /\ CountersOK' /\ HistOK' /\ RowsOK'
      BY <1>0, <1>6, ConvsUnchanged DEF ReattachLook, rows, CountersOK, HistOK, RowsOK
    <2>2. Orphans \in SUBSET ConvIds
      BY ConvShape DEF Orphans
    <2>3. \/ \E K \in {{}, Orphans} : worker' = [pc |-> "orphans", job |-> worker.job, kept |-> K]
          \/ worker' = [pc |-> NextStep, job |-> worker.job]
      BY <1>6 DEF ReattachLook
    <2>4. worker' \in WorkerTasks
      BY <1>6, <2>2, <2>3, NextTypes DEF ReattachLook
    <2>5. ActorsOK'
      BY <1>0, <1>6, <2>4 DEF ReattachLook, ActorsOK
    <2> QED  BY <2>1, <2>5, TypePartsPrimed
  <1>7. ASSUME ReattachDelete PROVE TypeOK'
    <2>1. ConvsOK' /\ messages' \in Seq(Row)
      BY <1>7, WithoutDoes, DetachDoes DEF ReattachDelete, SameRows
    <2>2. worker' \in WorkerTasks
      BY <1>7, NextTypes DEF ReattachDelete
    <2>3. CountersOK' /\ HistOK' /\ RowsOK' /\ ActorsOK'
      BY <1>0, <1>7, <2>1, <2>2 DEF ReattachDelete, CountersOK, HistOK, RowsOK, ActorsOK
    <2> QED  BY <2>1, <2>3, TypePartsPrimed
  <1>8. ASSUME ReattachTrim PROVE TypeOK'
    <2>1. PICK c \in worker.kept :
            /\ convs' = Without(worker.kept \ {c}) /\ messages' = Detach(worker.kept \ {c})
            /\ worker' = [pc |-> "orphans", job |-> worker.job, kept |-> {c}]
      BY <1>8 DEF ReattachTrim, Oldest
    <2>2. ConvsOK' /\ messages' \in Seq(Row)
      BY <1>8, <2>1, WithoutDoes, DetachDoes DEF ReattachTrim, SameRows
    <2>3. worker' \in WorkerTasks
      <3>1. {c} \in SUBSET ConvIds
        BY <1>8, <2>1, WorkerShape DEF ReattachTrim
      <3> QED  BY <1>8, <2>1, <3>1, NextTypes DEF ReattachTrim
    <2>4. CountersOK' /\ HistOK' /\ RowsOK' /\ ActorsOK'
      BY <1>0, <1>8, <2>2, <2>3 DEF ReattachTrim, CountersOK, HistOK, RowsOK, ActorsOK
    <2> QED  BY <2>2, <2>4, TypePartsPrimed
  <1>9. ASSUME ReattachKeep PROVE TypeOK'
    <2>1. PICK c \in worker.kept : worker.kept = {c}
      BY <1>9 DEF ReattachKeep
    <2>2. worker # NoJob /\ worker.job \in Jobs /\ c \in ConvIds
      BY <1>9, <2>1, WorkerShape DEF ReattachKeep, NoJob
    <2>3. CountersOK' /\ messages' = messages /\ req' = req /\ session' = session /\ live' = live
      BY <1>0, <1>9 DEF ReattachKeep, CountersOK
    <2>4. CASE Attachable(c)
      <3>1. /\ convs' = [convs EXCEPT ![c].session = session]
            /\ worker' = [pc |-> NextStep, job |-> worker.job] /\ queue' = queue /\ hist' = hist
        BY <1>9, <2>1, <2>4 DEF ReattachKeep
      <3>2. ConvsOK'
        BY <2>2, <2>3, <2>4, <3>1, KeptDoes DEF SessionFound, Attachable
      <3>3. worker' \in WorkerTasks
        BY <1>9, <3>1, NextTypes DEF ReattachKeep
      <3>4. RowsOK' /\ ActorsOK' /\ HistOK'
        BY <1>0, <2>3, <3>1, <3>3 DEF RowsOK, ActorsOK, HistOK
      <3> QED  BY <2>3, <3>2, <3>4, TypePartsPrimed
    <2>5. CASE ~Attachable(c)
      <3>1. convs' = convs /\ ((JobDone /\ queue' = queue /\ hist' = hist) \/ JobThrows)
        BY <1>9, <2>1, <2>5 DEF ReattachKeep
      <3>2. ConvsOK'
        BY <2>3, <3>1, ConvsUnchanged
      <3>3. RowsOK' /\ ActorsOK' /\ HistOK'
        BY <1>0, <2>2, <2>3, <3>1, WorkerTypes, ThrowDoes DEF RowsOK, ActorsOK, HistOK, JobDone
      <3> QED  BY <2>3, <3>2, <3>3, TypePartsPrimed
    <2> QED  BY <2>4, <2>5
  <1>10. ASSUME CountMessage PROVE TypeOK'
    <2>1. /\ worker # NoJob /\ worker.job \in Jobs
          /\ \A c \in ConvIds : [pc |-> "message", job |-> worker.job, conv |-> c] \in WorkerTasks
      <3>1. worker # NoJob /\ worker.job \in Jobs /\ worker.job.ev.kind \in {"received", "outgoing"}
        BY <1>10, WorkerShape DEF CountMessage, NoJob
      <3> QED  BY <3>1, WorkerTypes
    <2>2. CountersOK' /\ messages' = messages /\ req' = req /\ session' = session /\ live' = live
      BY <1>0, <1>10 DEF CountMessage, CountersOK
    <2>3. CASE SessionFound(worker.job)
      <3>1. PICK n \in {0, 1} :
              /\ Upsert(TRUE, n) /\ queue' = queue
              /\ worker' = [pc |-> "message", job |-> worker.job, conv |-> Upserted]
              /\ hist' = hist \/ hist' = [hist EXCEPT !.disturbed = @ \cup {Upserted}]
        BY <1>10, <2>3 DEF CountMessage
      <3>2. PICK m : Upserts(Upserted, m)
        BY <3>1, UpsertDoes
      <3>3. ConvsOK' /\ Upserted \in ConvIds
        BY <1>0, <2>2, <2>3, <3>2, UpsertTypes DEF SessionFound, Upserts, CountersOK, ConvIds
      <3>4. RowsOK' /\ ActorsOK' /\ HistOK'
        <4>1. worker' \in WorkerTasks /\ {Upserted} \in SUBSET ConvIds
          BY <2>1, <3>1, <3>3
        <4>2. HistOK'
          BY <3>1, <4>1, DisturbedGrows, HistUnchanged
        <4> QED  BY <1>0, <2>2, <3>1, <4>1, <4>2 DEF RowsOK, ActorsOK
      <3> QED  BY <2>2, <3>3, <3>4, TypePartsPrimed
    <2>4. CASE ~SessionFound(worker.job)
      <3>1. JobThrows /\ convs' = convs
        BY <1>10, <2>4 DEF CountMessage
      <3>2. ConvsOK'
        BY <2>2, <3>1, ConvsUnchanged
      <3>3. RowsOK' /\ ActorsOK' /\ HistOK'
        BY <1>0, <2>1, <2>2, <3>1, ThrowDoes DEF RowsOK, ActorsOK
      <3> QED  BY <2>2, <3>2, <3>3, TypePartsPrimed
    <2> QED  BY <2>3, <2>4
  <1>11. ASSUME CreateMessage PROVE TypeOK'
    <2>1. /\ worker # NoJob /\ worker.job \in Jobs /\ worker.conv \in ConvIds
          /\ worker.job.ev.msg \in Inbound \cup Sends
      BY <1>11, WorkerShape, EventShape DEF CreateMessage, NoJob
    <2>2. ConvsOK' /\ CountersOK' /\ req' = req
      BY <1>0, <1>11, ConvsUnchanged DEF CreateMessage, CountersOK
    <2>3. CASE SessionFound(worker.job)
      <3>1. /\ \E dir \in {"INBOUND", "OUTBOUND"}, st \in {"DELIVERED", "SENT"} :
                 messages' = Append(messages,
                               NewRow(worker.job.ev.msg, dir, worker.conv, st, "engine"))
            /\ worker' = NoJob /\ queue' = queue /\ hist' = hist
        BY <1>11, <2>3 DEF CreateMessage, JobDone
      <3>2. PICK dir \in {"INBOUND", "OUTBOUND"}, st \in {"DELIVERED", "SENT"} :
                 messages' = Append(messages,
                               NewRow(worker.job.ev.msg, dir, worker.conv, st, "engine"))
        BY <3>1
      <3>3. PICK u : u = NewRow(worker.job.ev.msg, dir, worker.conv, st, "engine")
        OBVIOUS
      <3>4. worker.conv \in 0 .. MaxSessions /\ st \in Statuses
        BY <2>1 DEF ConvIds, Statuses
      <3>5. u \in Row
        BY <2>1, <3>3, <3>4, NewRowShape
      <3>6. messages' \in Seq(Row)
        BY <3>2, <3>3, <3>5, RowAdded
      <3>7. RowsOK' /\ ActorsOK' /\ HistOK'
        BY <1>0, <2>2, <3>1, <3>6 DEF RowsOK, ActorsOK, HistOK, WorkerTasks
      <3> QED  BY <2>2, <3>7, TypePartsPrimed
    <2>4. CASE ~SessionFound(worker.job)
      <3>1. JobThrows /\ messages' = messages
        BY <1>11, <2>4 DEF CreateMessage
      <3>2. RowsOK' /\ ActorsOK' /\ HistOK'
        BY <1>0, <2>1, <2>2, <3>1, ThrowDoes DEF RowsOK, ActorsOK
      <3> QED  BY <2>2, <3>2, TypePartsPrimed
    <2> QED  BY <2>3, <2>4
  <1>12. ASSUME SyncChat PROVE TypeOK'
    <2>1. /\ worker' = NoJob /\ messages' = messages /\ queue' = queue /\ req' = req
          /\ session' = session /\ live' = live
      BY <1>12 DEF SyncChat, JobDone
    <2>2. RowsOK' /\ ActorsOK'
      BY <1>0, <2>1 DEF RowsOK, ActorsOK, WorkerTasks
    <2>3. faults' \in Nat
      <3>1. faults' = faults \/ faults' = faults + 1
        BY <1>12 DEF SyncChat
      <3> QED  BY <1>0, <3>1 DEF CountersOK
    <2>4. CountersOK'
      BY <1>0, <1>12, <2>3 DEF SyncChat, CountersOK
    <2>5. CASE /\ SessionFound(worker.job)
               /\ \E n \in {0, 1} : Upsert(FALSE, n)
               /\ hist' = [hist EXCEPT !.disturbed = @ \cup {Upserted}]
      <3>1. PICK n \in {0, 1} : Upsert(FALSE, n)
        BY <2>5
      <3>2. PICK m : Upserts(Upserted, m)
        BY <3>1, UpsertDoes
      <3>3. ConvsOK' /\ Upserted \in ConvIds
        BY <1>0, <2>1, <2>5, <3>2, UpsertTypes DEF SessionFound, Upserts, CountersOK, ConvIds
      <3>4. {Upserted} \in SUBSET ConvIds
        BY <3>3
      <3>5. HistOK'
        BY <2>5, <3>4, DisturbedGrows
      <3> QED  BY <2>2, <2>4, <3>3, <3>5, TypePartsPrimed
    <2>6. CASE convs' = convs /\ hist' = hist
      <3>1. ConvsOK' /\ HistOK'
        BY <2>1, <2>6, ConvsUnchanged, HistUnchanged
      <3> QED  BY <2>2, <2>4, <3>1, TypePartsPrimed
    <2>7. \/ /\ SessionFound(worker.job) /\ \E n \in {0, 1} : Upsert(FALSE, n)
             /\ hist' = [hist EXCEPT !.disturbed = @ \cup {Upserted}]
          \/ (convs' = convs /\ hist' = hist)
      BY <1>12 DEF SyncChat, HasRow
    <2> QED  BY <2>5, <2>6, <2>7
  <1>13. ASSUME NEW j \in Jobs, NEW n \in 0 .. Retries, j.ev.kind = "ack", TryAck(j, n),
                queue' \subseteq Jobs,
                UNCHANGED <<session, live, convs, req, accepted, posted, asked, faults, hist>>
         PROVE  TypeOK'
    <2>1. ConvsOK' /\ CountersOK' /\ HistOK'
      BY <1>0, <1>13, ConvsUnchanged DEF CountersOK, HistOK
    <2>2. messages' \in Seq(Row)
      BY <1>0, <1>13, AckDoes DEF TryAck, SameRows, RowsOK
    <2>3. worker' \in WorkerTasks
      <3>1. worker' = NoJob \/ (n < Retries /\ worker' = [pc |-> "try", job |-> j, tries |-> n + 1])
        <4>1. CASE Rows(j.ev.msg) # {}
          BY <1>13, <4>1 DEF TryAck, JobDone
        <4>2. CASE Rows(j.ev.msg) = {}
          BY <1>13, <4>2 DEF TryAck, JobDone
        <4> QED  BY <4>1, <4>2
      <3>2. Retries \in Nat
        OBVIOUS
      <3>3. n < Retries => n + 1 \in 0 .. Retries
        BY <3>2
      <3> QED  BY <1>13, <3>1, <3>3, WorkerTypes
    <2>4. RowsOK' /\ ActorsOK'
      BY <1>0, <1>13, <2>2, <2>3 DEF RowsOK, ActorsOK
    <2> QED  BY <2>1, <2>4, TypePartsPrimed
  <1>14. ASSUME NEW j \in queue, HandleMessageAck(j) PROVE TypeOK'
    <2>1. j \in Jobs /\ j.ev.kind = "ack" /\ queue' \subseteq Jobs
      BY <1>14, Taken DEF HandleMessageAck
    <2>2. 0 \in 0 .. Retries
      OBVIOUS
    <2> QED  BY <1>13, <1>14, <2>1, <2>2 DEF HandleMessageAck
  <1>15. ASSUME RetryAck PROVE TypeOK'
    <2>1. worker.job \in Jobs /\ worker.job.ev.kind = "ack" /\ worker.tries \in 0 .. Retries
      BY <1>15, WorkerShape DEF RetryAck, NoJob
    <2>2. queue' \subseteq Jobs
      BY <1>0, <1>15 DEF RetryAck, RowsOK
    <2> QED  BY <1>13, <1>15, <2>1, <2>2 DEF RetryAck
  <1>16. ASSUME NEW j \in queue, HandleReaction(j) PROVE TypeOK'
    <2>1. j \in Jobs /\ j.ev.kind = "reaction" /\ queue' \subseteq Jobs
      BY <1>16, Taken DEF HandleReaction
    <2>2. ConvsOK' /\ CountersOK' /\ RowsOK'
      BY <1>0, <1>16, <2>1, ConvsUnchanged DEF HandleReaction, rows, CountersOK, RowsOK
    <2>3. \A k \in Rows(j.ev.msg) : k \in Nat /\ messages[k].react \in SUBSET Parties
      BY RowShape DEF Rows
    <2>4. worker' \in WorkerTasks
      <3>1. \/ worker' = NoJob
            \/ \E k \in Rows(j.ev.msg) :
                 worker' = [pc |-> "react", job |-> j, row |-> k, seen |-> messages[k].react]
        BY <1>16 DEF HandleReaction, JobDone
      <3> QED  BY ZenonT(60), <2>1, <2>3, <3>1, WorkerTypes
    <2>5. HistOK'
      <3>1. \/ hist' = hist
            \/ \E k \in Rows(j.ev.msg) : hist' = [hist EXCEPT !.torn = @ \cup {k}]
        BY <1>16 DEF HandleReaction
      <3>2. ASSUME NEW k \in Rows(j.ev.msg), hist' = [hist EXCEPT !.torn = @ \cup {k}] PROVE HistOK'
        <4>1. {k} \in SUBSET Nat
          BY <2>3
        <4> QED  BY <3>2, <4>1, TornGrows
      <3>3. hist' = hist => HistOK'
        BY HistUnchanged
      <3> QED  BY <3>1, <3>2, <3>3
    <2>6. ActorsOK'
      BY <1>0, <1>16, <2>4 DEF HandleReaction, ActorsOK
    <2> QED  BY <2>2, <2>5, <2>6, TypePartsPrimed
  <1>17. ASSUME WriteReaction PROVE TypeOK'
    <2>1. worker.row \in Nat /\ worker.seen \subseteq Parties /\ worker.job.ev.arg \in {"on", "off"}
      BY <1>17, WorkerShape, EventShape DEF WriteReaction, NoJob
    <2>2. ConvsOK' /\ CountersOK'
      BY <1>0, <1>17, ConvsUnchanged DEF WriteReaction, CountersOK
    <2>3. React(worker.seen, "them", worker.job.ev.arg) \in SUBSET Parties
      BY <2>1 DEF Parties, React
    <2>4. messages' \in Seq(Row)
      BY <1>17, <2>1, <2>3, ReactSet DEF WriteReaction, SameRows
    <2>5. HistOK'
      <3>1. <<worker.row, "them">> \in Nat \X Parties
        BY <2>1 DEF Parties
      <3>2. React(hist.wish, <<worker.row, "them">>, worker.job.ev.arg) \subseteq Nat \X Parties
        BY <1>0, <3>1 DEF HistOK, React
      <3> QED  BY <1>0, <1>17, <3>2 DEF WriteReaction, HistOK
    <2>6. RowsOK' /\ ActorsOK'
      BY <1>0, <1>17, <2>4 DEF WriteReaction, JobDone, RowsOK, ActorsOK, WorkerTasks
    <2> QED  BY <2>2, <2>5, <2>6, TypePartsPrimed
  <1>18. ASSUME NEW r \in Requests, NEW o \in Sends, NEW c \in DOMAIN convs, SendReply(r, o, c)
         PROVE  TypeOK'
    <2>1. ConvsOK' /\ HistOK' /\ RowsOK'
      BY <1>0, <1>18, ConvsUnchanged, HistUnchanged DEF SendReply, Creates, rows, RowsOK
    <2>2. [pc |-> "create", msg |-> o, conv |-> c, session |-> session, by |-> "send"] \in RequestTasks
      BY <1>0, ConvShape, RequestTypes DEF CountersOK, Senders
    <2>3. ActorsOK'
      BY <1>0, <1>18, <2>2, BeginDoes DEF SendReply, Creates, ActorsOK
    <2>4. CountersOK'
      BY <1>0, <1>18, CountersAsked DEF SendReply, Creates, rows, Free
    <2> QED  BY <2>1, <2>3, <2>4, TypePartsPrimed
  <1>19. ASSUME NEW r \in Requests, NEW o \in Sends, SendNew(r, o) PROVE TypeOK'
    <2>1. PICK m : Upserts(Upserted, m)
      BY <1>19, UpsertDoes DEF SendNew, Creates
    <2>2. ConvsOK' /\ Upserted \in ConvIds
      BY <1>0, <1>19, <2>1, UpsertTypes DEF SendNew, Creates, Upserts, CountersOK, ConvIds
    <2>3. HistOK'
      <3>1. Orphans \cup {session} \in SUBSET ConvIds
        BY <1>0, ConvShape DEF Orphans, CountersOK
      <3>2. hist' = hist \/ hist' = [hist EXCEPT !.split = @ \cup (Orphans \cup {session})]
        BY <1>19 DEF SendNew, Creates
      <3> QED  BY <3>1, <3>2, SplitGrows, HistUnchanged
    <2>4. [pc |-> "create", msg |-> o, conv |-> Upserted, session |-> session, by |-> "send"] \in RequestTasks
      BY <1>0, <2>2, RequestTypes DEF CountersOK, Senders
    <2>5. RowsOK' /\ ActorsOK'
      BY <1>0, <1>19, <2>4, BeginDoes DEF SendNew, Creates, RowsOK, ActorsOK
    <2>6. CountersOK'
      BY <1>0, <1>19, CountersAsked DEF SendNew, Creates, Free
    <2> QED  BY <2>2, <2>3, <2>5, <2>6, TypePartsPrimed
  <1>20. ASSUME NEW r \in Requests, SendCreate(r) PROVE TypeOK'
    <2>1. /\ req[r].msg \in Sends /\ req[r].conv \in 0 .. MaxSessions
          /\ req[r].session \in ConvIds /\ req[r].by \in Senders
      BY <1>20, RequestShape DEF SendCreate, ConvIds
    <2>2. ConvsOK' /\ CountersOK' /\ HistOK' /\ queue' = queue /\ worker' = worker
      BY <1>0, <1>20, ConvsUnchanged, HistUnchanged DEF SendCreate, CountersOK
    <2>3. CASE live /\ req[r].session = session /\ req[r].conv \in DOMAIN convs
      <3>1. PICK u : u = NewRow(req[r].msg, "OUTBOUND", req[r].conv, "PENDING", req[r].by)
        OBVIOUS
      <3>2. "PENDING" \in Statuses
        BY DEF Statuses
      <3>3. u \in Row
        BY <2>1, <3>1, <3>2, NewRowShape
      <3>4. messages' = Append(messages, u)
        BY <1>20, <2>3, <3>1 DEF SendCreate
      <3>5. messages' \in Seq(Row) /\ Len(messages) + 1 \in Nat
        BY <3>3, <3>4, RowAdded
      <3>6. [pc |-> "post", msg |-> req[r].msg, session |-> req[r].session, row |-> Len(messages) + 1]
              \in RequestTasks
        BY <2>1, <3>5, RequestTypes
      <3>7. req' \in [Requests -> RequestTasks]
        BY <1>20, <2>3, <3>6, BeginDoes DEF SendCreate
      <3>8. RowsOK' /\ ActorsOK'
        BY <1>0, <2>2, <3>5, <3>7 DEF RowsOK, ActorsOK
      <3> QED  BY <2>2, <3>8, TypePartsPrimed
    <2>4. CASE ~(live /\ req[r].session = session /\ req[r].conv \in DOMAIN convs)
      <3>1. Leave(r) /\ messages' = messages
        BY <1>20, <2>4 DEF SendCreate
      <3>2. RowsOK' /\ ActorsOK'
        BY <1>0, <2>2, <3>1, LeaveDoes DEF RowsOK, ActorsOK
      <3> QED  BY <2>2, <3>2, TypePartsPrimed
    <2> QED  BY <2>3, <2>4
  <1>21. ASSUME NEW r \in Requests, SendPost(r) PROVE TypeOK'
    <2>1. req[r].msg \in Sends
      BY <1>21, RequestShape DEF SendPost
    <2>2. ConvsOK' /\ HistOK' /\ RowsOK'
      BY <1>0, <1>21, ConvsUnchanged, HistUnchanged DEF SendPost, rows, RowsOK
    <2>3. ActorsOK'
      BY <1>0, <1>21, GotoDoes DEF SendPost, ActorsOK
    <2>4. CountersOK'
      BY <1>0, <1>21, <2>1 DEF SendPost, rows, CountersOK
    <2> QED  BY <2>2, <2>3, <2>4, TypePartsPrimed
  <1>22. ASSUME NEW r \in Requests, SendSave(r) PROVE TypeOK'
    <2>1. {req[r].msg} \in SUBSET Sends
      BY <1>22, RequestShape DEF SendSave
    <2>2. ConvsOK' /\ CountersOK'
      BY <1>0, <1>22, ConvsUnchanged DEF SendSave, CountersOK
    <2>3. /\ messages' \in Seq(Row)
          /\ hist' = hist \/ hist' = [hist EXCEPT !.mute = @ \cup {req[r].msg}]
      BY <1>22, SavedDoes DEF SameRows
    <2>5. HistOK'
      BY <2>1, <2>3, HistUnchanged, MuteGrows
    <2>4. RowsOK' /\ ActorsOK'
      BY <1>0, <1>22, <2>3, GotoDoes DEF SendSave, RowsOK, ActorsOK
    <2> QED  BY <2>2, <2>4, <2>5, TypePartsPrimed
  <1>23. ASSUME NEW r \in Requests, SendCount(r) PROVE TypeOK'
    <2>1. {req[r].msg} \in SUBSET Sends
      BY <1>23, RequestShape DEF SendCount
    <2>2. ConvsOK' /\ RowsOK' /\ CountersOK'
      BY <1>0, <1>23, ConvsUnchanged DEF SendCount, rows, RowsOK, CountersOK
    <2>3. \/ Leave(r) /\ hist' = hist
          \/ Goto(r, "catch") /\ hist' = [hist EXCEPT !.upset = @ \cup {req[r].msg}]
      BY <1>23 DEF SendCount
    <2>4. HistOK'
      BY <2>1, <2>3, HistUnchanged, UpsetGrows
    <2>5. ActorsOK'
      BY <1>0, <1>23, <2>3, LeaveDoes, GotoDoes DEF SendCount, ActorsOK
    <2> QED  BY <2>2, <2>4, <2>5, TypePartsPrimed
  <1>24. ASSUME NEW r \in Requests, SendCatch(r) PROVE TypeOK'
    <2>1. req[r].row \in Nat /\ "FAILED" \in Statuses
      BY <1>24, RequestShape DEF SendCatch, Statuses
    <2>2. ConvsOK' /\ HistOK' /\ CountersOK'
      BY <1>0, <1>24, ConvsUnchanged, HistUnchanged DEF SendCatch, CountersOK
    <2>3. messages' \in Seq(Row)
      BY <1>24, <2>1, StatusSet DEF SendCatch, SameRows
    <2>4. RowsOK' /\ ActorsOK'
      BY <1>0, <1>24, <2>3, LeaveDoes DEF SendCatch, RowsOK, ActorsOK
    <2> QED  BY <2>2, <2>4, TypePartsPrimed
  <1>25. ASSUME NEW r \in Requests, NEW c \in DOMAIN convs, MarkMessages(r, c) PROVE TypeOK'
    <2>1. c \in ConvIds
      BY ConvShape
    <2>2. ConvsOK' /\ CountersOK'
      BY <1>0, <1>25, ConvsUnchanged, CountersAsked DEF MarkMessages, Free
    <2>3. messages' \in Seq(Row)
      BY <1>25, MarkDoes DEF SameRows
    <2>4. [pc |-> "reset", conv |-> c] \in RequestTasks
      BY <2>1, RequestTypes
    <2>5. RowsOK' /\ ActorsOK'
      BY <1>0, <1>25, <2>3, <2>4, BeginDoes DEF MarkMessages, RowsOK, ActorsOK
    <2>6. HistOK'
      <3>1. {c} \in SUBSET ConvIds
        BY <2>1
      <3>2. \/ hist' = [hist EXCEPT !.disturbed = @ \cup {c}]
            \/ hist' = [hist EXCEPT !.disturbed = @ \ {c}]
        BY <1>25 DEF MarkMessages
      <3> QED  BY <1>0, <3>1, <3>2 DEF HistOK
    <2> QED  BY <2>2, <2>5, <2>6, TypePartsPrimed
  <1>26. ASSUME NEW r \in Requests, ResetUnread(r) PROVE TypeOK'
    <2>1. ConvsOK' /\ HistOK'
      BY <1>26, BadgeReset, HistUnchanged DEF ResetUnread
    <2>2. RowsOK' /\ ActorsOK' /\ CountersOK'
      BY <1>0, <1>26, LeaveDoes DEF ResetUnread, RowsOK, ActorsOK, CountersOK
    <2> QED  BY <2>1, <2>2, TypePartsPrimed
  <1>27. ASSUME NEW r \in Requests, NEW k \in DOMAIN messages, NEW arg \in {"on", "off"},
                ReactRead(r, k, arg)
         PROVE  TypeOK'
    <2>1. k \in Nat /\ messages[k].react \in SUBSET Parties /\ {k} \in SUBSET Nat
      BY RowShape
    <2>2. ConvsOK' /\ RowsOK'
      BY <1>0, <1>27, ConvsUnchanged DEF ReactRead, rows, RowsOK
    <2>3. CountersOK'
      BY <1>0, <1>27, CountersAsked DEF ReactRead, rows, Free
    <2>4. [pc |-> "react", row |-> k, seen |-> messages[k].react, arg |-> arg] \in RequestTasks
      BY <2>1, RequestTypes
    <2>5. ActorsOK'
      BY <1>0, <1>27, <2>4, BeginDoes DEF ReactRead, ActorsOK
    <2>6. hist' = hist \/ hist' = [hist EXCEPT !.torn = @ \cup {k}]
      BY <1>27 DEF ReactRead
    <2>7. HistOK'
      BY <2>1, <2>6, HistUnchanged, TornGrows
    <2> QED  BY <2>2, <2>3, <2>5, <2>7, TypePartsPrimed
  <1>28. ASSUME NEW r \in Requests, ReactWrite(r) PROVE TypeOK'
    <2>1. req[r].row \in Nat /\ req[r].seen \subseteq Parties /\ req[r].arg \in {"on", "off"}
      BY <1>28, RequestShape DEF ReactWrite
    <2>2. ConvsOK' /\ CountersOK'
      BY <1>0, <1>28, ConvsUnchanged DEF ReactWrite, CountersOK
    <2>3. React(req[r].seen, "us", req[r].arg) \in SUBSET Parties
      BY <2>1 DEF Parties, React
    <2>4. messages' \in Seq(Row)
      BY <1>28, <2>1, <2>3, ReactSet DEF ReactWrite, SameRows
    <2>5. HistOK'
      <3>1. <<req[r].row, "us">> \in Nat \X Parties
        BY <2>1 DEF Parties
      <3>2. React(hist.wish, <<req[r].row, "us">>, req[r].arg) \subseteq Nat \X Parties
        BY <1>0, <3>1 DEF HistOK, React
      <3> QED  BY <1>0, <1>28, <3>2 DEF ReactWrite, HistOK
    <2>6. RowsOK' /\ ActorsOK'
      BY <1>0, <1>28, <2>4, LeaveDoes DEF ReactWrite, RowsOK, ActorsOK
    <2> QED  BY <2>2, <2>5, <2>6, TypePartsPrimed
  <1>29. ASSUME DatabaseFails PROVE TypeOK'
    <2>1. worker # NoJob
      BY <1>29, WorkerShape DEF DatabaseFails, NoJob
    <2>2. ConvsOK'
      BY <1>29, ConvsUnchanged DEF DatabaseFails, rows
    <2>3. RowsOK' /\ ActorsOK' /\ HistOK'
      BY <1>0, <1>29, <2>1, ThrowDoes DEF DatabaseFails, rows, RowsOK, ActorsOK
    <2>4. CountersOK'
      BY <1>0, <1>29, CountersFailed DEF DatabaseFails, rows, CountersOK
    <2> QED  BY <2>2, <2>3, <2>4, TypePartsPrimed
  <1>30. ASSUME Crash PROVE TypeOK'
    <2>1. ConvsOK'
      BY <1>30, ConvsUnchanged DEF Crash, rows
    <2>2. RowsOK' /\ ActorsOK'
      <3>1. queue' \subseteq Jobs
        BY <1>30, CrashQueues DEF RowsOK
      <3> QED  BY <1>0, <1>30, <3>1 DEF Crash, rows, RowsOK, ActorsOK, WorkerTasks, RequestTasks
    <2>3. HistOK'
      <3> DEFINE u == hist.upset \cup {req[r].msg :
                        r \in {q \in Requests : req[q].pc \in {"post", "save", "count", "catch"}}}
                 d == hist.disturbed \cup {req[r].conv : r \in {q \in Requests : req[q].pc = "reset"}}
                       \cup (IF worker.pc = "message" /\ worker.job.ev.kind = "received"
                             THEN {worker.conv} ELSE {})
                 l == IF Twice /\ worker.job.ev.kind = "received"
                      THEN hist.lost \cup {worker.job.ev.msg} ELSE hist.lost
      <3>1. u \in SUBSET Sends /\ d \in SUBSET ConvIds
        BY <1>0, RequestShape, WorkerShape DEF HistOK
      <3>3. l \in SUBSET Inbound
        BY <1>0, WorkerShape, EventShape DEF HistOK, Twice
      <3>2. hist' = [hist EXCEPT !.upset = u, !.disturbed = d, !.lost = l]
        BY <1>30 DEF Crash
      <3> HIDE DEF u, d, l
      <3> QED  BY <1>0, <3>1, <3>2, <3>3 DEF HistOK
    <2>4. CountersOK'
      BY <1>0, <1>30, CountersFailed DEF Crash, rows, CountersOK
    <2> QED  BY <2>1, <2>2, <2>3, <2>4, TypePartsPrimed
  <1>31. ASSUME NEW r \in Requests, SendPostFails(r) PROVE TypeOK'
    <2>1. {req[r].msg} \in SUBSET Sends
      BY <1>31, RequestShape DEF SendPostFails
    <2>2. ConvsOK' /\ RowsOK'
      BY <1>0, <1>31, ConvsUnchanged DEF SendPostFails, rows, RowsOK
    <2>3. ActorsOK'
      BY <1>0, <1>31, GotoDoes DEF SendPostFails, ActorsOK
    <2>4. \/ accepted' = accepted /\ hist' = hist
          \/ /\ accepted' = accepted \cup {req[r].msg}
             /\ hist' = [hist EXCEPT !.upset = @ \cup {req[r].msg}]
      BY <1>31 DEF SendPostFails
    <2>5. HistOK'
      BY <2>1, <2>4, HistUnchanged, UpsetGrows
    <2>6. accepted' \subseteq Sends
      BY <1>0, <2>1, <2>4 DEF CountersOK
    <2>7. CountersOK'
      BY <1>0, <1>31, <2>6, CountersFailed DEF SendPostFails, rows
    <2> QED  BY <2>2, <2>3, <2>5, <2>7, TypePartsPrimed
  <1>32. ASSUME NEW r \in Requests, SendSaveFails(r) PROVE TypeOK'
    <2>1. {req[r].msg} \in SUBSET Sends
      BY <1>32, RequestShape DEF SendSaveFails
    <2>2. ConvsOK' /\ RowsOK'
      BY <1>0, <1>32, ConvsUnchanged DEF SendSaveFails, rows, RowsOK
    <2>3. ActorsOK'
      BY <1>0, <1>32, GotoDoes DEF SendSaveFails, ActorsOK
    <2>4. HistOK'
      BY <1>32, <2>1, UpsetGrows DEF SendSaveFails
    <2>5. CountersOK'
      BY <1>0, <1>32, CountersFailed DEF SendSaveFails, rows, CountersOK
    <2> QED  BY <2>2, <2>3, <2>4, <2>5, TypePartsPrimed
  <1>33. ASSUME NEW r \in Requests, RequestFails(r) PROVE TypeOK'
    <2>1. /\ req[r].pc = "reset" => {req[r].conv} \in SUBSET ConvIds
          /\ req[r].pc = "catch" => {req[r].msg} \in SUBSET Sends
      BY RequestShape
    <2>2. ConvsOK' /\ RowsOK'
      BY <1>0, <1>33, ConvsUnchanged DEF RequestFails, rows, RowsOK
    <2>3. ActorsOK'
      BY <1>0, <1>33, LeaveDoes DEF RequestFails, ActorsOK
    <2>4. \/ req[r].pc = "reset" /\ hist' = [hist EXCEPT !.disturbed = @ \cup {req[r].conv}]
          \/ req[r].pc = "catch" /\ hist' = [hist EXCEPT !.upset = @ \cup {req[r].msg}]
          \/ hist' = hist
      BY <1>33 DEF RequestFails
    <2>5. HistOK'
      BY <2>1, <2>4, UpsetGrows, DisturbedGrows, HistUnchanged
    <2>6. CountersOK'
      BY <1>0, <1>33, CountersFailed DEF RequestFails, rows, CountersOK
    <2> QED  BY <2>2, <2>3, <2>5, <2>6, TypePartsPrimed
  <1>35. ASSUME NEW r \in Requests, CampaignLook(r) PROVE TypeOK'
    <2>1. PICK pc \in {"purge", "attach"} : req' = [req EXCEPT ![r] = [pc |-> pc, session |-> session]]
      BY <1>35 DEF CampaignLook
    <2>2. [pc |-> pc, session |-> session] \in RequestTasks
      BY <1>0, RequestTypes DEF CountersOK
    <2>3. ConvsOK' /\ HistOK' /\ RowsOK'
      BY <1>0, <1>35, ConvsUnchanged, HistUnchanged DEF CampaignLook, rows, RowsOK
    <2>4. ActorsOK'
      BY <1>0, <1>35, <2>1, <2>2, BeginDoes DEF CampaignLook, ActorsOK
    <2>5. CountersOK'
      BY <1>0, <1>35, CountersAsked DEF CampaignLook, rows, Free
    <2> QED  BY <2>3, <2>4, <2>5, TypePartsPrimed
  <1>36. ASSUME NEW r \in Requests, CampaignPurge(r) PROVE TypeOK'
    <2>1. ConvsOK' /\ messages' \in Seq(Row)
      BY <1>36, WithoutDoes, DetachDoes DEF CampaignPurge, SameRows
    <2>2. req' \in [Requests -> RequestTasks]
      BY <1>36, MailGoes DEF CampaignPurge
    <2>3. CountersOK' /\ HistOK' /\ RowsOK' /\ ActorsOK'
      BY <1>0, <1>36, <2>1, <2>2 DEF CampaignPurge, CountersOK, HistOK, RowsOK, ActorsOK
    <2> QED  BY <2>1, <2>3, TypePartsPrimed
  <1>37. ASSUME NEW r \in Requests, CampaignAttach(r) PROVE TypeOK'
    <2>1. req' \in [Requests -> RequestTasks]
      BY <1>37, AttachDoes, MailGoes, LeaveDoes DEF CampaignAttach
    <2>2. CountersOK' /\ HistOK' /\ RowsOK' /\ ActorsOK'
      BY <1>0, <1>37, <2>1 DEF CampaignAttach, CountersOK, HistOK, RowsOK, ActorsOK
    <2>3. session' = session /\ live' = live
      BY <1>37 DEF CampaignAttach
    <2>4. ConvsOK'
      BY <1>37, <2>3, AttachDoes, KeptDoes, ConvsUnchanged
    <2> QED  BY <2>2, <2>4, TypePartsPrimed
  <1>38. ASSUME NEW r \in Requests, NEW o \in Sends, CampaignUpsert(r, o) PROVE TypeOK'
    <2>1. CountersOK' /\ HistOK' /\ RowsOK' /\ worker' = worker /\ session' = session /\ live' = live
      BY <1>0, <1>38 DEF CampaignUpsert, CountersOK, HistOK, RowsOK
    <2>2. CASE live /\ req[r].session = session
      <3>1. Upsert(TRUE, 0) /\ Creates(r, o, Upserted, "campaign")
        BY <1>38, <2>2 DEF CampaignUpsert
      <3>2. PICK m : Upserts(Upserted, m)
        BY <3>1, UpsertDoes
      <3>3. ConvsOK' /\ Upserted \in ConvIds
        BY <1>0, <2>1, <2>2, <3>2, UpsertTypes DEF Upserts, CountersOK, ConvIds
      <3>4. [pc |-> "create", msg |-> o, conv |-> Upserted, session |-> session, by |-> "campaign"]
              \in RequestTasks
        BY <1>0, <3>3, RequestTypes DEF CountersOK, Senders
      <3>5. ActorsOK'
        BY <1>0, <2>1, <3>1, <3>4, BeginDoes DEF Creates, ActorsOK
      <3> QED  BY <2>1, <3>3, <3>5, TypePartsPrimed
    <2>3. CASE ~(live /\ req[r].session = session)
      <3>1. Leave(r) /\ convs' = convs
        BY <1>38, <2>3 DEF CampaignUpsert
      <3>2. ActorsOK' /\ ConvsOK'
        BY <1>0, <2>1, <3>1, LeaveDoes, ConvsUnchanged DEF ActorsOK
      <3> QED  BY <2>1, <3>2, TypePartsPrimed
    <2> QED  BY <2>2, <2>3
  <1>34. ASSUME UNCHANGED vars PROVE TypeOK'
    BY <1>34 DEF vars, TypeOK, Keepers
  <1> QED
    BY <1>1, <1>2, <1>3, <1>4, <1>5, <1>6, <1>7, <1>8, <1>9, <1>10, <1>11, <1>12, <1>14, <1>15,
       <1>16, <1>17, <1>18, <1>19, <1>20, <1>21, <1>22, <1>23, <1>24, <1>25, <1>26, <1>27, <1>28,
       <1>29, <1>30, <1>31, <1>32, <1>33, <1>34, <1>35, <1>36, <1>37, <1>38
       DEF Next, Worker, Receive, Ask, Handler, Mail, Faults

\* The rows, jobs, requests and counters keep their types: a conversation has
\* a session that exists (the foreign key of its table), and no two have the
\* same one (its unique key), which no handler has to check by itself.
THEOREM InboxTypeCorrect == Spec => []TypeOK
  <1> QED  BY TypeInit, TypeStep, PTL DEF Spec

-----------------------------------------------------------------------------
(***************************************************************************)
(* A message has at most one row from the worker and one from its send.    *)
(***************************************************************************)
Storing ==
  worker.pc \in {"reattach", "orphans", "conversation", "message"} /\ worker.job.ev.kind # "sync"

RowInv ==
  /\ \A k \in DOMAIN messages :
       /\ messages[k].by = "engine" => messages[k].id = "known"
       /\ messages[k].msg \in Inbound => messages[k].by = "engine" /\ messages[k].dir = "INBOUND"
       /\ messages[k].msg \in Sends => messages[k].dir = "OUTBOUND"
  /\ \A k, l \in DOMAIN messages :
       /\ messages[k].msg = messages[l].msg
       /\ messages[k].by = "engine" <=> messages[l].by = "engine"
       => k = l
  /\ Storing =>
       \A k \in DOMAIN messages :
         messages[k].msg = worker.job.ev.msg => messages[k].by # "engine"
  /\ \A r \in Requests : req[r].pc = "create" =>
       \A k \in DOMAIN messages : messages[k].msg = req[r].msg => messages[k].by = "engine"
  /\ \A r, q \in Requests :
       req[r].pc = "create" /\ req[q].pc = "create" /\ req[r].msg = req[q].msg => r = q

\* Rows that keep their messages, worker and requests that store nothing new.
RowsAlike ==
  /\ DOMAIN messages' = DOMAIN messages
  /\ \A k \in DOMAIN messages :
       /\ messages'[k].msg = messages[k].msg /\ messages'[k].dir = messages[k].dir
       /\ messages'[k].by = messages[k].by
       /\ messages[k].id = "known" => messages'[k].id = "known"
NothingTaken ==
  Storing' => Storing /\ worker'.job.ev = worker.job.ev
NothingCreated ==
  \A r \in Requests : req'[r].pc = "create" => req[r].pc = "create" /\ req'[r].msg = req[r].msg

LEMMA RowsStay ==
  ASSUME RowInv, RowsAlike, NothingTaken, NothingCreated
  PROVE  RowInv'
  <1>1. \A k \in DOMAIN messages' :
          /\ messages'[k].by = "engine" => messages'[k].id = "known"
          /\ messages'[k].msg \in Inbound => messages'[k].by = "engine" /\ messages'[k].dir = "INBOUND"
          /\ messages'[k].msg \in Sends => messages'[k].dir = "OUTBOUND"
    BY DEF RowInv, RowsAlike
  <1>2. \A k, l \in DOMAIN messages' :
          /\ messages'[k].msg = messages'[l].msg
          /\ messages'[k].by = "engine" <=> messages'[l].by = "engine"
          => k = l
    BY DEF RowInv, RowsAlike
  <1>3. Storing' =>
          \A k \in DOMAIN messages' :
            messages'[k].msg = worker'.job.ev.msg => messages'[k].by # "engine"
    BY DEF RowInv, RowsAlike, NothingTaken
  <1>4. \A r \in Requests : req'[r].pc = "create" =>
          \A k \in DOMAIN messages' : messages'[k].msg = req'[r].msg => messages'[k].by = "engine"
    BY DEF RowInv, RowsAlike, NothingCreated
  <1>5. \A r, q \in Requests :
          req'[r].pc = "create" /\ req'[q].pc = "create" /\ req'[r].msg = req'[q].msg => r = q
    BY DEF RowInv, NothingCreated
  <1> QED  BY <1>1, <1>2, <1>3, <1>4, <1>5 DEF RowInv

\* What the steps have in common.
LEMMA SameAlike ==
  ASSUME SameRows,
         \A k \in DOMAIN messages : Same(k, {"id"}) \/ (Same(k, {}) /\ messages'[k].id = "known")
  PROVE  RowsAlike
  BY DEF SameRows, Same, RowsAlike

LEMMA RowsUnchanged ==
  ASSUME messages' = messages
  PROVE  RowsAlike
  BY DEF RowsAlike

LEMMA NobodyCreates ==
  ASSUME TypeOK, NEW r \in Requests, \A q \in Requests \ {r} : req'[q] = req[q],
         req'[r].pc # "create"
  PROVE  NothingCreated
  BY DEF NothingCreated

LEMMA WorkerStays ==
  /\ worker' = worker => NothingTaken
  /\ worker' = NoJob => NothingTaken
  BY DEF NothingTaken, NoJob, Storing

LEMMA RowStep ==
  ASSUME TypeOK, RowInv, [Next]_vars
  PROVE  RowInv'
  <1>1. ASSUME DeleteSession PROVE RowInv'
    BY <1>1, RowsUnchanged, WorkerStays, RowsStay DEF DeleteSession, NothingCreated
  <1>2. ASSUME CreateSession PROVE RowInv'
    BY <1>2, RowsUnchanged, WorkerStays, RowsStay DEF CreateSession, NothingCreated
  <1>3. ASSUME NEW ev \in Events, HandleEngineEvent(ev) PROVE RowInv'
    BY <1>3, RowsUnchanged, WorkerStays, RowsStay DEF HandleEngineEvent, rows, NothingCreated
  <1>4. ASSUME NEW j \in queue, HandleMessage(j) PROVE RowInv'
    <2>1. messages' = messages /\ req' = req
      BY <1>4 DEF HandleMessage, rows
    <2>2. CASE Duplicate(j) \/ ~SessionFound(j)
      BY <1>4, <2>1, <2>2, RowsUnchanged, WorkerStays, RowsStay DEF HandleMessage, JobDone, NothingCreated
    <2>3. CASE ~(Duplicate(j) \/ ~SessionFound(j))
      <3>1. worker' = [pc |-> "reattach", job |-> j]
        BY <1>4, <2>3 DEF HandleMessage
      <3>2. \A k \in DOMAIN messages : messages[k].msg = j.ev.msg => messages[k].by # "engine"
        BY <2>3 DEF Duplicate, Rows, RowInv
      <3> QED  BY <2>1, <3>1, <3>2 DEF RowInv
    <2> QED  BY <2>2, <2>3
  <1>5. ASSUME NEW j \in queue, HandleChatsSynced(j) PROVE RowInv'
    <2>1. j.ev.kind = "sync" /\ j.ev \in Events
      BY <1>5, Taken DEF HandleChatsSynced
    <2>2. worker' = NoJob \/ worker' = [pc |-> "reattach", job |-> j]
      BY <1>5 DEF HandleChatsSynced, JobDone
    <2>3. ~Storing'
      BY <2>1, <2>2 DEF Storing, NoJob
    <2>4. NothingTaken /\ RowsAlike /\ NothingCreated
      BY <1>5, <2>3, RowsUnchanged DEF HandleChatsSynced, rows, NothingTaken, NothingCreated
    <2> QED  BY <2>4, RowsStay
  <1>6. ASSUME ReattachLook PROVE RowInv'
    <2>1. worker'.job = worker.job /\ worker.pc = "reattach"
      BY <1>6 DEF ReattachLook
    <2> QED
      BY <1>6, <2>1, RowsUnchanged, RowsStay DEF ReattachLook, rows, NothingTaken, NothingCreated, Storing
  <1>7. ASSUME ReattachDelete PROVE RowInv'
    <2>1. RowsAlike
      BY <1>7, DetachDoes, SameAlike DEF ReattachDelete, Same
    <2>2. NothingTaken /\ NothingCreated
      BY <1>7 DEF ReattachDelete, NothingTaken, NothingCreated, Storing
    <2> QED  BY <2>1, <2>2, RowsStay
  <1>8. ASSUME ReattachTrim PROVE RowInv'
    <2>1. PICK dead : messages' = Detach(dead)
      BY <1>8 DEF ReattachTrim
    <2>2. RowsAlike
      BY <2>1, DetachDoes, SameAlike DEF Same
    <2>3. NothingTaken /\ NothingCreated
      BY <1>8 DEF ReattachTrim, NothingTaken, NothingCreated, Storing
    <2> QED  BY <2>2, <2>3, RowsStay
  <1>9. ASSUME ReattachKeep PROVE RowInv'
    <2>1. worker' = NoJob \/ (worker.pc = "orphans" /\ worker'.job = worker.job)
      BY <1>9 DEF ReattachKeep, JobDone, JobThrows
    <2>2. NothingTaken
      BY <2>1, WorkerStays DEF NothingTaken, Storing
    <2> QED
      BY <1>9, <2>2, RowsUnchanged, RowsStay DEF ReattachKeep, NothingCreated
  <1>10. ASSUME CountMessage PROVE RowInv'
    <2>1. worker' = NoJob \/ (worker.pc = "conversation" /\ worker'.job = worker.job)
      <3>1. CASE SessionFound(worker.job)
        BY <1>10, <3>1 DEF CountMessage
      <3>2. CASE ~SessionFound(worker.job)
        BY <1>10, <3>2 DEF CountMessage, JobThrows
      <3> QED  BY <3>1, <3>2
    <2>2. NothingTaken
      BY <2>1, WorkerStays DEF NothingTaken, Storing
    <2> QED
      BY <1>10, <2>2, RowsUnchanged, RowsStay DEF CountMessage, NothingCreated
  <1>11. ASSUME CreateMessage PROVE RowInv'
    <2>1. /\ worker # NoJob /\ worker.job.ev \in Events /\ worker.conv \in 0 .. MaxSessions
          /\ worker.job.ev.kind \in {"received", "outgoing"} /\ worker.pc = "message"
      BY <1>11, WorkerShape DEF CreateMessage, NoJob, ConvIds
    <2>2. req' = req /\ worker' = NoJob
      BY <1>11 DEF CreateMessage, JobDone, JobThrows
    <2>3. CASE SessionFound(worker.job)
      <3>1. PICK u : /\ messages' = Append(messages, u)
                     /\ u = IF worker.job.ev.kind = "received"
                            THEN NewRow(worker.job.ev.msg, "INBOUND", worker.conv, "DELIVERED", "engine")
                            ELSE NewRow(worker.job.ev.msg, "OUTBOUND", worker.conv, "SENT", "engine")
        BY <1>11, <2>3 DEF CreateMessage
      <3>2. worker.job.ev.msg \in Inbound \cup Sends
        BY <2>1, EventShape
      <3>3. /\ u \in Row /\ u.msg = worker.job.ev.msg /\ u.by = "engine" /\ u.id = "known"
            /\ u.dir = IF worker.job.ev.kind = "received" THEN "INBOUND" ELSE "OUTBOUND"
        <4>1. CASE worker.job.ev.kind = "received"
          BY <2>1, <3>1, <3>2, <4>1, NewRowShape DEF Statuses
        <4>2. CASE worker.job.ev.kind # "received"
          BY <2>1, <3>1, <3>2, <4>2, NewRowShape DEF Statuses
        <4> QED  BY <4>1, <4>2
      <3>4. u.msg \in Inbound => u.dir = "INBOUND"
        BY <2>1, <3>3, EventShape, InboxAssumption
      <3>5. u.msg \in Sends => u.dir = "OUTBOUND"
        BY <2>1, <3>3, EventShape, InboxAssumption
      <3>6. \A k \in DOMAIN messages : messages[k].msg = u.msg => messages[k].by # "engine"
        BY <2>1, <3>3 DEF RowInv, Storing
      <3> DEFINE n == Len(messages) + 1
      <3>7. /\ DOMAIN messages' = DOMAIN messages \cup {n} /\ n \notin DOMAIN messages
            /\ messages'[n] = u /\ \A k \in DOMAIN messages : messages'[k] = messages[k]
        BY <3>1, <3>3, RowAdded
      <3> HIDE DEF n
      <3>8. ~Storing'
        BY <2>2 DEF Storing, NoJob
      <3> QED
        BY <2>2, <3>3, <3>4, <3>5, <3>6, <3>7, <3>8 DEF RowInv
    <2>4. CASE ~SessionFound(worker.job)
      <3>1. messages' = messages
        BY <1>11, <2>4 DEF CreateMessage
      <3> QED  BY <2>2, <3>1, RowsUnchanged, WorkerStays, RowsStay DEF NothingCreated
    <2> QED  BY <2>3, <2>4
  <1>12. ASSUME SyncChat PROVE RowInv'
    BY <1>12, RowsUnchanged, WorkerStays, RowsStay DEF SyncChat, JobDone, NothingCreated
  <1>13. ASSUME NEW j \in Jobs, j.ev.kind = "ack", NEW n, TryAck(j, n), req' = req
         PROVE  RowInv'
    <2>1. RowsAlike
      BY <1>13, AckDoes, SameAlike, RowsUnchanged DEF TryAck, Same
    <2>2. worker' = NoJob \/ worker'.pc = "try"
      BY <1>13 DEF TryAck, JobDone
    <2>3. NothingTaken /\ NothingCreated
      BY <1>13, <2>2 DEF NothingTaken, NothingCreated, Storing, NoJob
    <2> QED  BY <2>1, <2>3, RowsStay
  <1>14. ASSUME NEW j \in queue, HandleMessageAck(j) PROVE RowInv'
    <2>1. j \in Jobs /\ j.ev.kind = "ack"
      BY <1>14, Taken DEF HandleMessageAck
    <2> QED  BY <1>13, <1>14, <2>1 DEF HandleMessageAck
  <1>15. ASSUME RetryAck PROVE RowInv'
    <2>1. worker.job \in Jobs /\ worker.job.ev.kind = "ack"
      BY <1>15, WorkerShape DEF RetryAck, NoJob
    <2> QED  BY <1>13, <1>15, <2>1 DEF RetryAck
  <1>16. ASSUME NEW j \in queue, HandleReaction(j) PROVE RowInv'
    <2>1. worker' = NoJob \/ worker'.pc = "react"
      BY <1>16 DEF HandleReaction, JobDone
    <2>2. NothingTaken /\ NothingCreated
      BY <1>16, <2>1 DEF HandleReaction, NothingTaken, NothingCreated, Storing, NoJob
    <2> QED  BY <1>16, <2>2, RowsUnchanged, RowsStay DEF HandleReaction, rows
  <1>17. ASSUME WriteReaction PROVE RowInv'
    <2>1. worker.row \in Nat /\ React(worker.seen, "them", worker.job.ev.arg) \in SUBSET Parties
      BY <1>17, WorkerShape DEF WriteReaction, NoJob, React, Parties
    <2>2. RowsAlike
      BY ZenonT(60), <1>17, <2>1, ReactSet, SameAlike DEF WriteReaction, Same
    <2>3. NothingTaken /\ NothingCreated
      BY <1>17, WorkerStays DEF WriteReaction, JobDone, NothingCreated
    <2> QED  BY <2>2, <2>3, RowsStay
  <1>18. ASSUME NEW r \in Requests, NEW o \in Sends, NEW c,
                o \notin Used, messages' = messages, worker' = worker,
                \A q \in Requests \ {r} : req'[q] = req[q], req'[r].msg = o
         PROVE  RowInv'
    <2>1. \A q \in Requests : req[q].pc = "create" => req[q].msg # o
      BY <1>18 DEF Used
    <2>2. \A k \in DOMAIN messages : messages[k].msg # o
      BY <1>18 DEF Used
    <2> QED  BY <1>18, <2>1, <2>2 DEF RowInv, Storing
  <1>19. ASSUME NEW r \in Requests, NEW o \in Sends, NEW c \in DOMAIN convs, SendReply(r, o, c)
         PROVE  RowInv'
    <2>1. [pc |-> "create", msg |-> o, conv |-> c, session |-> session, by |-> "send"] \in RequestTasks
      BY ConvShape, RequestTypes DEF TypeOK, Senders
    <2> QED  BY <1>18, <1>19, <2>1, BeginDoes DEF SendReply, Creates, rows
  <1>20. ASSUME NEW r \in Requests, NEW o \in Sends, SendNew(r, o) PROVE RowInv'
    <2>1. Upserted \in ConvIds /\ "send" \in Senders
      BY <1>20, UpsertedConv DEF SendNew, Senders
    <2>4. (\A q \in Requests \ {r} : req'[q] = req[q]) /\ req'[r].msg = o
      BY <1>20, <2>1, CreatesDoes DEF SendNew
    <2>5. o \notin Used /\ messages' = messages /\ worker' = worker
      BY <1>20 DEF SendNew
    <2> QED  BY <1>18, <2>4, <2>5
  <1>21. ASSUME NEW r \in Requests, SendCreate(r) PROVE RowInv'
    <2>1. /\ req[r].msg \in Sends /\ req[r].conv \in 0 .. MaxSessions
          /\ req[r].session \in ConvIds /\ req[r].pc = "create" /\ worker' = worker
          /\ req[r].by \in Senders
      BY <1>21, RequestShape DEF SendCreate, ConvIds
    <2>2. CASE live /\ req[r].session = session /\ req[r].conv \in DOMAIN convs
      <3>1. PICK u : u = NewRow(req[r].msg, "OUTBOUND", req[r].conv, "PENDING", req[r].by)
        OBVIOUS
      <3>2. "PENDING" \in Statuses
        BY DEF Statuses
      <3>3. u \in Row /\ u.msg = req[r].msg /\ u.by # "engine" /\ u.dir = "OUTBOUND"
        BY <2>1, <3>1, <3>2, NewRowShape DEF Senders
      <3> DEFINE n == Len(messages) + 1
      <3>4. messages' = Append(messages, u)
        BY <1>21, <2>2, <3>1 DEF SendCreate
      <3>5. /\ DOMAIN messages' = DOMAIN messages \cup {n} /\ n \notin DOMAIN messages /\ n \in Nat
            /\ messages'[n] = u /\ \A k \in DOMAIN messages : messages'[k] = messages[k]
        BY <3>3, <3>4, RowAdded
      <3>6. PICK t : /\ t = [pc |-> "post", msg |-> req[r].msg, session |-> req[r].session, row |-> n]
                     /\ req' = [req EXCEPT ![r] = t]
        BY <1>21, <2>2 DEF SendCreate
      <3>7. t \in RequestTasks /\ t.pc = "post"
        BY <2>1, <3>5, <3>6, RequestTypes
      <3>8. req'[r] = t /\ \A q \in Requests \ {r} : req'[q] = req[q]
        BY <3>6, <3>7, BeginDoes
      <3> HIDE DEF n
      <3>9. u.msg \notin Inbound
        BY <2>1, <3>3, InboxAssumption
      <3>10. \A k \in DOMAIN messages' :
               /\ messages'[k].by = "engine" => messages'[k].id = "known"
               /\ messages'[k].msg \in Inbound => messages'[k].by = "engine" /\ messages'[k].dir = "INBOUND"
               /\ messages'[k].msg \in Sends => messages'[k].dir = "OUTBOUND"
        BY <3>3, <3>5, <3>9 DEF RowInv
      <3>11. \A k \in DOMAIN messages : messages[k].msg = u.msg => messages[k].by = "engine"
        BY <2>1, <3>3 DEF RowInv
      <3>12. \A k, l \in DOMAIN messages' :
               /\ messages'[k].msg = messages'[l].msg
               /\ messages'[k].by = "engine" <=> messages'[l].by = "engine"
               => k = l
        BY <3>3, <3>5, <3>11 DEF RowInv
      <3>13. Storing' =>
               \A k \in DOMAIN messages' :
                 messages'[k].msg = worker'.job.ev.msg => messages'[k].by # "engine"
        BY <2>1, <3>3, <3>5 DEF RowInv, Storing
      <3>14. \A q \in Requests : req'[q].pc = "create" =>
               /\ req[q].pc = "create" /\ req'[q].msg = req[q].msg /\ req[q].msg # u.msg
        BY <2>1, <3>3, <3>7, <3>8 DEF RowInv
      <3>15. \A q \in Requests : req'[q].pc = "create" =>
               \A k \in DOMAIN messages' : messages'[k].msg = req'[q].msg => messages'[k].by = "engine"
        BY <3>3, <3>5, <3>14 DEF RowInv
      <3>16. \A q, p \in Requests :
               req'[q].pc = "create" /\ req'[p].pc = "create" /\ req'[q].msg = req'[p].msg => q = p
        BY <3>14 DEF RowInv
      <3> QED  BY <3>10, <3>12, <3>13, <3>15, <3>16 DEF RowInv
    <2>3. CASE ~(live /\ req[r].session = session /\ req[r].conv \in DOMAIN convs)
      <3>1. Leave(r) /\ messages' = messages
        BY <1>21, <2>3 DEF SendCreate
      <3> QED  BY <2>1, <3>1, LeaveDoes, NobodyCreates, RowsUnchanged, WorkerStays, RowsStay
    <2> QED  BY <2>2, <2>3
  <1>22. ASSUME NEW r \in Requests, RowsAlike, worker' = worker \/ worker' = NoJob,
                \A q \in Requests \ {r} : req'[q] = req[q], req'[r].pc # "create"
         PROVE  RowInv'
    BY <1>22, NobodyCreates, WorkerStays, RowsStay
  <1>23. ASSUME NEW r \in Requests, SendPost(r) PROVE RowInv'
    BY <1>22, <1>23, GotoDoes, RowsUnchanged DEF SendPost, rows
  <1>24. ASSUME NEW r \in Requests, SendSave(r) PROVE RowInv'
    <2>1. RowsAlike
      BY <1>24, SavedDoes DEF SameRows, Same, RowsAlike
    <2> QED  BY <1>22, <1>24, <2>1, GotoDoes DEF SendSave
  <1>25. ASSUME NEW r \in Requests, SendCount(r) PROVE RowInv'
    <2>1. Leave(r) \/ Goto(r, "catch")
      BY <1>25 DEF SendCount
    <2>2. (\A q \in Requests \ {r} : req'[q] = req[q]) /\ req'[r].pc # "create"
      BY <1>25, <2>1, LeaveDoes, GotoDoes DEF SendCount
    <2> QED  BY <1>22, <1>25, <2>2, RowsUnchanged DEF SendCount, rows
  <1>26. ASSUME NEW r \in Requests, SendCatch(r) PROVE RowInv'
    <2>1. req[r].row \in Nat /\ "FAILED" \in Statuses
      BY <1>26, RequestShape DEF SendCatch, Statuses
    <2>2. RowsAlike
      BY <1>26, <2>1, StatusSet DEF SendCatch, SameRows, Same, RowsAlike
    <2> QED  BY <1>22, <1>26, <2>2, LeaveDoes DEF SendCatch
  <1>27. ASSUME NEW r \in Requests, NEW c \in DOMAIN convs, MarkMessages(r, c) PROVE RowInv'
    <2>1. PICK t : t = [pc |-> "reset", conv |-> c] /\ req' = [req EXCEPT ![r] = t]
      BY <1>27 DEF MarkMessages
    <2>2. t \in RequestTasks /\ t.pc = "reset"
      BY <2>1, ConvShape, RequestTypes
    <2>3. RowsAlike
      BY <1>27, MarkDoes DEF SameRows, Same, RowsAlike
    <2> QED  BY <1>22, <1>27, <2>1, <2>2, <2>3, BeginDoes DEF MarkMessages
  <1>28. ASSUME NEW r \in Requests, ResetUnread(r) PROVE RowInv'
    BY <1>22, <1>28, LeaveDoes, RowsUnchanged DEF ResetUnread
  <1>29. ASSUME NEW r \in Requests, NEW k \in DOMAIN messages, NEW arg \in {"on", "off"},
                ReactRead(r, k, arg)
         PROVE  RowInv'
    <2>1. PICK t : /\ t = [pc |-> "react", row |-> k, seen |-> messages[k].react, arg |-> arg]
                   /\ req' = [req EXCEPT ![r] = t]
      BY <1>29 DEF ReactRead
    <2>2. t \in RequestTasks /\ t.pc = "react"
      BY <2>1, RowShape, RequestTypes
    <2> QED  BY <1>22, <1>29, <2>1, <2>2, BeginDoes, RowsUnchanged DEF ReactRead, rows
  <1>30. ASSUME NEW r \in Requests, ReactWrite(r) PROVE RowInv'
    <2>1. req[r].row \in Nat /\ React(req[r].seen, "us", req[r].arg) \in SUBSET Parties
      BY <1>30, RequestShape DEF ReactWrite, React, Parties
    <2>2. RowsAlike
      BY <1>30, <2>1, ReactSet DEF ReactWrite, SameRows, Same, RowsAlike
    <2> QED  BY <1>22, <1>30, <2>2, LeaveDoes DEF ReactWrite
  <1>31. ASSUME DatabaseFails PROVE RowInv'
    BY <1>31, RowsUnchanged, WorkerStays, RowsStay DEF DatabaseFails, JobThrows, rows, NothingCreated
  <1>32. ASSUME Crash PROVE RowInv'
    <2>1. NothingCreated
      BY <1>32 DEF Crash, NothingCreated, NoReq
    <2> QED  BY <1>32, <2>1, RowsUnchanged, WorkerStays, RowsStay DEF Crash, rows
  <1>33. ASSUME NEW r \in Requests, SendPostFails(r) PROVE RowInv'
    BY <1>22, <1>33, GotoDoes, RowsUnchanged DEF SendPostFails, rows
  <1>34. ASSUME NEW r \in Requests, SendSaveFails(r) PROVE RowInv'
    BY <1>22, <1>34, GotoDoes, RowsUnchanged DEF SendSaveFails, rows
  <1>35. ASSUME NEW r \in Requests, RequestFails(r) PROVE RowInv'
    BY <1>22, <1>35, LeaveDoes, RowsUnchanged DEF RequestFails, rows
  <1>36. ASSUME UNCHANGED vars PROVE RowInv'
    BY <1>36, RowsUnchanged, WorkerStays, RowsStay DEF vars, NothingCreated
  <1>37. ASSUME NEW r \in Requests, CampaignLook(r) PROVE RowInv'
    <2>1. PICK t : /\ t = [pc |-> IF Keepers # {} THEN "purge" ELSE "attach", session |-> session]
                   /\ req' = [req EXCEPT ![r] = t]
      BY <1>37 DEF CampaignLook
    <2>2. t \in RequestTasks /\ t.pc # "create"
      BY <2>1, RequestTypes DEF TypeOK
    <2> QED  BY <1>22, <1>37, <2>1, <2>2, BeginDoes, RowsUnchanged DEF CampaignLook, rows
  <1>38. ASSUME NEW r \in Requests, CampaignPurge(r) PROVE RowInv'
    <2>1. RowsAlike
      BY <1>38, DetachDoes, SameAlike DEF CampaignPurge, Same
    <2> QED  BY <1>22, <1>38, <2>1, MailGoes DEF CampaignPurge
  <1>39. ASSUME NEW r \in Requests, CampaignAttach(r) PROVE RowInv'
    <2>1. messages' = messages /\ worker' = worker /\ (Leave(r) \/ Goto(r, "upsert"))
      BY <1>39, AttachDoes DEF CampaignAttach
    <2> QED  BY <1>22, <1>39, <2>1, LeaveDoes, MailGoes, RowsUnchanged DEF CampaignAttach
  <1>40. ASSUME NEW r \in Requests, NEW o \in Sends, CampaignUpsert(r, o) PROVE RowInv'
    <2>1. CASE live /\ req[r].session = session
      <3>1. Upserted \in ConvIds /\ "campaign" \in Senders
        BY <1>40, <2>1, UpsertedConv DEF CampaignUpsert, Senders
      <3>4. (\A q \in Requests \ {r} : req'[q] = req[q]) /\ req'[r].msg = o
        BY <1>40, <2>1, <3>1, CreatesDoes DEF CampaignUpsert
      <3>5. o \notin Used /\ messages' = messages /\ worker' = worker
        BY <1>40 DEF CampaignUpsert
      <3> QED  BY <1>18, <3>4, <3>5
    <2>2. CASE ~(live /\ req[r].session = session)
      BY <1>22, <1>40, <2>2, LeaveDoes, RowsUnchanged DEF CampaignUpsert
    <2> QED  BY <2>1, <2>2
  <1> QED
    BY <1>1, <1>2, <1>3, <1>4, <1>5, <1>6, <1>7, <1>8, <1>9, <1>10, <1>11, <1>12, <1>14, <1>15,
       <1>16, <1>17, <1>19, <1>20, <1>21, <1>23, <1>24, <1>25, <1>26, <1>27, <1>28,
       <1>29, <1>30, <1>31, <1>32, <1>33, <1>34, <1>35, <1>36, <1>37, <1>38, <1>39, <1>40
       DEF Next, Worker, Receive, Ask, Handler, Mail, Faults

LEMMA RowInit == Init => RowInv
  BY DEF Init, RowInv, Storing, NoJob, NoReq

\* handleMessageReceived stores a message once: its worker has looked for a
\* row with its externalId, and nobody else stores messages of the contact.
THEOREM InboundStoredOnce == Spec => []InboundOnce
  <1>1. ASSUME RowInv PROVE InboundOnce
    <2> SUFFICES ASSUME NEW i \in Inbound
                 PROVE  Cardinality({k \in DOMAIN messages : messages[k].msg = i}) <= 1
      BY DEF InboundOnce
    <2> DEFINE K == {k \in DOMAIN messages : messages[k].msg = i}
    <2>1. \A k, l \in K : k = l
      BY <1>1 DEF RowInv
    <2>2. K = {} \/ \E k \in K : K = {k}
      BY <2>1
    <2> HIDE DEF K
    <2>3. Cardinality(K) \in {0, 1}
      BY <2>2, FS_EmptySet, FS_Singleton
    <2> QED  BY <2>3 DEF K
  <1> QED  BY <1>1, TypeInit, TypeStep, RowInit, RowStep, PTL DEF Spec

-----------------------------------------------------------------------------
(***************************************************************************)
(* What the row of a send says, and where its message is.                  *)
(***************************************************************************)
SendingPcs == {"post", "save", "count", "catch"}
Engaged(r) == req[r].pc \in {"create", "post", "save", "count", "catch"}

\* A request that has stored its row.
RequestKnows(r) ==
  req[r].pc \in SendingPcs =>
    /\ req[r].row \in DOMAIN messages
    /\ messages[req[r].row].msg = req[r].msg /\ messages[req[r].row].by # "engine"
    /\ req[r].pc \in {"post", "save"} =>
         messages[req[r].row].id = "none" /\ messages[req[r].row].status = "PENDING"
    /\ req[r].pc = "count" =>
         /\ messages[req[r].row].id = "known" \/ req[r].msg \in hist.mute
         /\ messages[req[r].row].status # "PENDING"
    /\ req[r].pc = "post" => req[r].msg \notin accepted
    /\ req[r].pc \in {"save", "count"} => req[r].msg \in accepted
    /\ req[r].pc = "catch" => (req[r].msg \in accepted => req[r].msg \in hist.upset)

Saving(o) == \E r \in Requests : req[r].pc = "save" /\ req[r].msg = o
RowTells(k) ==
  LET o == messages[k].msg
  IN  /\ messages[k].by = "engine" /\ o \in Sends => o \in hist.early \cup hist.mute \cup hist.upset
      /\ messages[k].by # "engine" =>
           /\ o \in accepted /\ messages[k].id = "none" => o \in hist.mute \cup hist.upset \/ Saving(o)
           /\ messages[k].id = "none" => messages[k].status \in {"PENDING", "SENT", "FAILED"}
           /\ messages[k].status \in {"SENT", "DELIVERED", "READ"} => o \in accepted
           /\ messages[k].status = "FAILED" /\ o \in accepted => o \in hist.upset \/ "FAILED" \in Acks
           /\ messages[k].status = "PENDING" /\ ~Sending(k) => o \in hist.upset

SendInv ==
  /\ \A j \in queue : j.ev.msg \in Sends => j.ev.msg \in accepted
  /\ worker # NoJob => (worker.job.ev.msg \in Sends => worker.job.ev.msg \in accepted)
  /\ Storing /\ worker.job.ev.msg \in Sends => worker.job.ev.msg \in hist.early \cup hist.mute \cup hist.upset
  /\ \A o \in accepted : \E k \in DOMAIN messages : messages[k].msg = o /\ messages[k].by # "engine"
  /\ \A r, q \in Requests : Engaged(r) /\ Engaged(q) /\ req[r].msg = req[q].msg => r = q
  /\ \A r \in Requests : RequestKnows(r)
  /\ \A k \in DOMAIN messages : RowTells(k)

\* Steps that no send takes: rows of sends change by an ack only.
JobsQuiet ==
  /\ \A j \in queue' : j.ev.msg \in Sends => j.ev.msg \in accepted
  /\ worker' # NoJob => (worker'.job.ev.msg \in Sends => worker'.job.ev.msg \in accepted)
  /\ Storing' /\ worker'.job.ev.msg \in Sends => worker'.job.ev.msg \in hist'.early \cup hist'.mute \cup hist'.upset
HistQuiet ==
  /\ hist.upset \subseteq hist'.upset /\ hist.early \subseteq hist'.early
  /\ hist.mute \subseteq hist'.mute
RequestsQuiet ==
  /\ \A q \in Requests : Engaged(q) => req'[q] = req[q]
  /\ \A q \in Requests : Engaged(q)' => req'[q] = req[q]
RowsQuiet ==
  /\ DOMAIN messages \subseteq DOMAIN messages'
  /\ \A k \in DOMAIN messages :
       /\ messages'[k].msg = messages[k].msg /\ messages'[k].by = messages[k].by
       /\ messages[k].by # "engine" =>
            /\ messages'[k].id = messages[k].id
            /\ \/ messages'[k].status = messages[k].status
               \/ /\ messages[k].id = "known" /\ messages[k].msg \in accepted
                  /\ messages'[k].status \in Acks
  /\ \A k \in DOMAIN messages' \ DOMAIN messages :
       /\ messages'[k].by = "engine"
       /\ messages'[k].msg \in Sends => messages'[k].msg \in hist'.early \cup hist'.mute \cup hist'.upset

LEMMA SendsQuiet ==
  ASSUME TypeOK, RowInv, SendInv, JobsQuiet, HistQuiet, RequestsQuiet, RowsQuiet,
         accepted' = accepted
  PROVE  SendInv'
  <1>0. \A k : Sending(k)' <=> Sending(k)
    BY DEF Sending, RequestsQuiet, Engaged
  <1>1. \A o : Saving(o)' <=> Saving(o)
    BY DEF Saving, RequestsQuiet, Engaged
  <1>2. \A o \in accepted' : \E k \in DOMAIN messages' : messages'[k].msg = o /\ messages'[k].by # "engine"
    BY DEF SendInv, RowsQuiet
  <1>3. \A r, q \in Requests : Engaged(r)' /\ Engaged(q)' /\ req'[r].msg = req'[q].msg => r = q
    BY DEF SendInv, RequestsQuiet, Engaged
  <1>4. ASSUME NEW r \in Requests PROVE RequestKnows(r)'
    <2> SUFFICES ASSUME req'[r].pc \in SendingPcs PROVE RequestKnows(r)'
      BY DEF RequestKnows
    <2>1. req'[r] = req[r]
      BY DEF RequestsQuiet, Engaged, SendingPcs
    <2>2. RequestKnows(r)
      BY DEF SendInv
    <2> DEFINE k == req[r].row
    <2>3. /\ k \in DOMAIN messages /\ messages[k].msg = req[r].msg /\ messages[k].by # "engine"
          /\ req[r].pc \in {"post", "save"} => messages[k].id = "none" /\ messages[k].status = "PENDING"
          /\ req[r].pc = "count" => /\ messages[k].id = "known" \/ req[r].msg \in hist.mute
                                    /\ messages[k].status # "PENDING"
      BY <2>1, <2>2 DEF RequestKnows
    <2>4. /\ k \in DOMAIN messages' /\ messages'[k].msg = req[r].msg /\ messages'[k].by # "engine"
          /\ messages'[k].id = messages[k].id
          /\ messages'[k].status = messages[k].status
             \/ (messages[k].id = "known" /\ messages'[k].status \in Acks)
      BY <2>3 DEF RowsQuiet
    <2>5. "PENDING" \notin Acks
      BY InboxAssumption
    <2>6. /\ req[r].pc \in {"post", "save"} => messages'[k].id = "none" /\ messages'[k].status = "PENDING"
          /\ req[r].pc = "count" => /\ messages'[k].id = "known" \/ req[r].msg \in hist'.mute
                                    /\ messages'[k].status # "PENDING"
      BY <2>3, <2>4, <2>5 DEF HistQuiet
    <2> HIDE DEF k
    <2>7. /\ req[r].pc = "post" => req[r].msg \notin accepted'
          /\ req[r].pc \in {"save", "count"} => req[r].msg \in accepted'
          /\ req[r].pc = "catch" => (req[r].msg \in accepted' => req[r].msg \in hist'.upset)
      BY <2>1, <2>2 DEF RequestKnows, HistQuiet
    <2> QED  BY <2>1, <2>4, <2>6, <2>7 DEF RequestKnows, k
  <1>5. ASSUME NEW k \in DOMAIN messages' PROVE RowTells(k)'
    <2>1. CASE k \notin DOMAIN messages
      BY <2>1 DEF RowsQuiet, RowTells
    <2>2. CASE k \in DOMAIN messages
      <3>1. RowTells(k)
        BY <2>2 DEF SendInv
      <3>2. /\ messages'[k].msg = messages[k].msg /\ messages'[k].by = messages[k].by
            /\ messages[k].by # "engine" =>
                 /\ messages'[k].id = messages[k].id
                 /\ \/ messages'[k].status = messages[k].status
                    \/ /\ messages[k].id = "known" /\ messages[k].msg \in accepted
                       /\ messages'[k].status \in Acks
        BY <2>2 DEF RowsQuiet
      <3>3. Acks \subseteq {"SENT", "DELIVERED", "READ", "FAILED"}
        BY InboxAssumption
      <3>4. Sending(k)' <=> Sending(k)
        BY <1>0
      <3>5. PICK o : o = messages[k].msg
        OBVIOUS
      <3>6. CASE messages[k].by = "engine"
        BY <3>1, <3>2, <3>6 DEF RowTells, HistQuiet
      <3>7. CASE messages[k].by # "engine"
        <4>0. Saving(o)' <=> Saving(o)
          BY <1>1
        <4>1. o \in accepted' /\ messages'[k].id = "none" => o \in hist'.mute \cup hist'.upset \/ Saving(o)'
          BY <3>1, <3>2, <3>5, <3>7, <4>0 DEF RowTells, HistQuiet
        <4>2. /\ messages'[k].id = "none" => messages'[k].status \in {"PENDING", "SENT", "FAILED"}
              /\ messages'[k].status \in {"SENT", "DELIVERED", "READ"} => o \in accepted'
              /\ messages'[k].status = "FAILED" /\ o \in accepted' => o \in hist'.upset \/ "FAILED" \in Acks
          BY <3>1, <3>2, <3>3, <3>5, <3>7 DEF RowTells, HistQuiet
        <4>3. messages'[k].status = "PENDING" /\ ~Sending(k)' => o \in hist'.upset
          BY <3>1, <3>2, <3>3, <3>4, <3>5, <3>7 DEF RowTells, HistQuiet
        <4>4. messages'[k].msg = o /\ messages'[k].by # "engine"
          BY <3>2, <3>5, <3>7
        <4> QED  BY <4>1, <4>2, <4>3, <4>4 DEF RowTells
      <3> QED  BY <3>6, <3>7
    <2> QED  BY <2>1, <2>2
  <1> QED  BY <1>2, <1>3, <1>4, <1>5 DEF SendInv, JobsQuiet

LEMMA RowsQuietSame ==
  ASSUME TypeOK, SameRows, \A k \in DOMAIN messages : Same(k, {"id", "status"})
  PROVE  RowsQuiet
  BY DEF RowsQuiet, SameRows, Same

LEMMA RowsQuietUnchanged ==
  ASSUME messages' = messages
  PROVE  RowsQuiet
  BY DEF RowsQuiet

\* The worker puts its job back or drops it.
LEMMA JobsKept ==
  ASSUME TypeOK, SendInv, \A j \in queue' : j \in queue \/ (worker # NoJob /\ j.ev = worker.job.ev),
         \/ worker' = NoJob
         \/ (worker # NoJob /\ worker'.job.ev = worker.job.ev /\ NothingTaken),
         HistQuiet
  PROVE  JobsQuiet
  BY DEF SendInv, JobsQuiet, NothingTaken, Storing, NoJob, HistQuiet

LEMMA RequestsKept ==
  ASSUME \/ UNCHANGED req
         \/ \E r \in Requests : /\ ~Engaged(r) /\ ~Engaged(r)'
                                /\ \A q \in Requests \ {r} : req'[q] = req[q]
  PROVE  RequestsQuiet
  BY DEF RequestsQuiet, Engaged

LEMMA ThrowQuiet ==
  ASSUME TypeOK, SendInv, JobThrows, worker # NoJob
  PROVE  JobsQuiet /\ HistQuiet
  <1>1. HistQuiet
    BY DEF TypeOK, JobThrows, HistQuiet
  <1> QED  BY <1>1, ThrowDoes, JobsKept DEF JobThrows

LEMMA SendQuietStep ==
  ASSUME TypeOK, RowInv, SendInv,
         \/ DeleteSession \/ CreateSession \/ Worker \/ DatabaseFails
         \/ \E ev \in Events : HandleEngineEvent(ev)
         \/ \E r \in Requests :
              \/ \E c \in DOMAIN convs : MarkMessages(r, c)
              \/ \E k \in DOMAIN messages, arg \in {"on", "off"} : ReactRead(r, k, arg)
              \/ ResetUnread(r) \/ ReactWrite(r)
              \/ CampaignLook(r) \/ CampaignPurge(r) \/ CampaignAttach(r)
  PROVE  SendInv'
  <1>1. ASSUME DeleteSession PROVE SendInv'
    <2>1. HistQuiet
      BY <1>1 DEF DeleteSession, HistQuiet, TypeOK
    <2>2. JobsQuiet
      BY <1>1, <2>1 DEF DeleteSession, SendInv, JobsQuiet, Storing, HistQuiet
    <2> QED  BY <1>1, <2>1, <2>2, SendsQuiet, RowsQuietUnchanged, RequestsKept DEF DeleteSession
  <1>2. ASSUME CreateSession PROVE SendInv'
    <2>1. HistQuiet
      BY <1>2 DEF CreateSession, HistQuiet
    <2>2. JobsQuiet
      BY <1>2, <2>1 DEF CreateSession, SendInv, JobsQuiet, Storing, HistQuiet
    <2> QED  BY <1>2, <2>1, <2>2, SendsQuiet, RowsQuietUnchanged, RequestsKept DEF CreateSession
  <1>3. ASSUME NEW ev \in Events, HandleEngineEvent(ev) PROVE SendInv'
    <2>1. HistQuiet
      BY <1>3 DEF HandleEngineEvent, HistQuiet
    <2>2. \A j \in queue' : j \in queue \/ (j.ev = ev /\ (ev.msg \in Sends => ev.msg \in accepted))
      BY <1>3 DEF HandleEngineEvent
    <2>3. JobsQuiet
      BY <1>3, <2>1, <2>2 DEF HandleEngineEvent, rows, SendInv, JobsQuiet, Storing, HistQuiet
    <2> QED
      BY <1>3, <2>1, <2>3, SendsQuiet, RowsQuietUnchanged, RequestsKept DEF HandleEngineEvent, rows
  <1>4. ASSUME NEW j \in queue, HandleMessage(j) PROVE SendInv'
    <2>1. j \in queue /\ j.ev.kind \in {"received", "outgoing"} /\ j.ev \in Events /\ queue' \subseteq queue
      BY <1>4, Taken DEF HandleMessage
    <2>2. HistQuiet
      BY <1>4 DEF HandleMessage, HistQuiet, TypeOK
    <2>3. worker' = NoJob \/ (worker' = [pc |-> "reattach", job |-> j] /\ ~Duplicate(j))
      BY <1>4 DEF HandleMessage, JobDone
    <2>4. ASSUME ~Duplicate(j), j.ev.msg \in Sends
          PROVE  j.ev.msg \in hist'.early \cup hist'.mute \cup hist'.upset
      <3>1. j.ev.msg \in accepted
        BY <2>4 DEF SendInv
      <3>2. PICK k \in DOMAIN messages : messages[k].msg = j.ev.msg /\ messages[k].by # "engine"
        BY <3>1 DEF SendInv
      <3>3. messages[k].id = "none"
        BY <2>4, <3>2, RowShape DEF Duplicate, Rows
      <3>4. j.ev.msg \in hist.mute \cup hist.upset \/ Saving(j.ev.msg)
        BY <3>1, <3>2, <3>3 DEF SendInv, RowTells
      <3>5. CASE Saving(j.ev.msg)
        <4>1. j.ev.kind = "outgoing"
          BY <2>1, <2>4, EventShape, InboxAssumption
        <4>2. Answering(j.ev.msg)
          BY <3>5 DEF Saving, Answering
        <4> QED  BY <1>4, <4>1, <4>2 DEF HandleMessage, TypeOK
      <3> QED  BY <2>2, <3>4, <3>5 DEF HistQuiet
    <2>5. JobsQuiet
      BY <2>1, <2>3, <2>4 DEF SendInv, JobsQuiet, Storing, NoJob
    <2> QED  BY <1>4, <2>2, <2>5, SendsQuiet, RowsQuietUnchanged, RequestsKept DEF HandleMessage, rows
  <1>5. ASSUME NEW j \in queue, NEW kinds, Take(j, kinds),
               worker' = NoJob \/ (worker'.job = j /\ ~Storing'),
               HistQuiet
        PROVE  JobsQuiet
    BY <1>5 DEF Take, SendInv, JobsQuiet, Storing, NoJob
  <1>6. ASSUME NEW j \in queue, HandleChatsSynced(j) PROVE SendInv'
    <2>1. j.ev.kind = "sync" /\ HistQuiet /\ Take(j, {"sync"})
      BY <1>6, Taken DEF HandleChatsSynced, HistQuiet
    <2>2. worker' = NoJob \/ worker' = [pc |-> "reattach", job |-> j]
      BY <1>6 DEF HandleChatsSynced, JobDone
    <2>3. JobsQuiet
      BY <1>5, <2>1, <2>2 DEF Storing
    <2> QED
      BY <1>6, <2>1, <2>3, SendsQuiet, RowsQuietUnchanged, RequestsKept DEF HandleChatsSynced, rows
  <1>7. ASSUME ReattachLook PROVE SendInv'
    <2>1. worker # NoJob /\ HistQuiet
      BY <1>7 DEF ReattachLook, NoJob, HistQuiet
    <2>2. worker'.job = worker.job /\ worker.pc = "reattach"
      BY <1>7 DEF ReattachLook
    <2>3. JobsQuiet
      BY <1>7, <2>1, <2>2, JobsKept DEF ReattachLook, NothingTaken, Storing
    <2> QED  BY <1>7, <2>1, <2>3, SendsQuiet, RowsQuietUnchanged, RequestsKept DEF ReattachLook, rows
  <1>8. ASSUME ReattachDelete PROVE SendInv'
    <2>1. worker # NoJob /\ HistQuiet /\ worker'.job = worker.job /\ worker.pc = "orphans"
      BY <1>8 DEF ReattachDelete, NoJob, HistQuiet
    <2>2. JobsQuiet
      BY <1>8, <2>1, JobsKept DEF ReattachDelete, NothingTaken, Storing
    <2>3. RowsQuiet
      BY <1>8, DetachDoes, RowsQuietSame DEF ReattachDelete, Same
    <2> QED  BY <1>8, <2>1, <2>2, <2>3, SendsQuiet, RequestsKept DEF ReattachDelete
  <1>9. ASSUME ReattachTrim PROVE SendInv'
    <2>1. worker # NoJob /\ HistQuiet /\ worker'.job = worker.job /\ worker.pc = "orphans"
      BY <1>9 DEF ReattachTrim, NoJob, HistQuiet
    <2>2. JobsQuiet
      BY <1>9, <2>1, JobsKept DEF ReattachTrim, NothingTaken, Storing
    <2>3. PICK dead : messages' = Detach(dead)
      BY <1>9 DEF ReattachTrim
    <2>4. RowsQuiet
      BY <2>3, DetachDoes, RowsQuietSame DEF Same
    <2> QED  BY <1>9, <2>1, <2>2, <2>4, SendsQuiet, RequestsKept DEF ReattachTrim
  <1>10. ASSUME ReattachKeep PROVE SendInv'
    <2>1. worker # NoJob /\ worker.pc = "orphans"
      BY <1>10 DEF ReattachKeep, NoJob
    <2>2. \/ queue' = queue /\ hist' = hist /\ (worker' = NoJob \/ worker'.job = worker.job)
          \/ JobThrows
      BY <1>10 DEF ReattachKeep, JobDone
    <2>3. JobsQuiet /\ HistQuiet
      <3>1. CASE JobThrows
        BY <2>1, <3>1, ThrowQuiet
      <3>2. CASE queue' = queue /\ hist' = hist /\ (worker' = NoJob \/ worker'.job = worker.job)
        BY <2>1, <3>2, JobsKept DEF NothingTaken, Storing, HistQuiet
      <3> QED  BY <2>2, <3>1, <3>2
    <2> QED  BY <1>10, <2>3, SendsQuiet, RowsQuietUnchanged, RequestsKept DEF ReattachKeep
  <1>11. ASSUME CountMessage PROVE SendInv'
    <2>1. worker # NoJob /\ worker.pc = "conversation"
      BY <1>11 DEF CountMessage, NoJob
    <2>2. JobsQuiet /\ HistQuiet
      <3>1. CASE SessionFound(worker.job)
        <4>1. queue' = queue /\ worker'.job = worker.job
          BY <1>11, <3>1 DEF CountMessage
        <4>2. \/ hist' = hist
              \/ hist' = [hist EXCEPT !.disturbed = @ \cup {Upserted}]
          BY <1>11, <3>1 DEF CountMessage
        <4>3. HistQuiet
          BY <4>2 DEF HistQuiet, TypeOK
        <4> QED  BY <2>1, <4>1, <4>3, JobsKept DEF NothingTaken, Storing
      <3>2. CASE ~SessionFound(worker.job)
        BY <1>11, <2>1, <3>2, ThrowQuiet DEF CountMessage
      <3> QED  BY <3>1, <3>2
    <2> QED  BY <1>11, <2>2, SendsQuiet, RowsQuietUnchanged, RequestsKept DEF CountMessage
  <1>12. ASSUME CreateMessage PROVE SendInv'
    <2>1. /\ worker # NoJob /\ worker.job.ev \in Events /\ worker.conv \in 0 .. MaxSessions
          /\ worker.job.ev.kind \in {"received", "outgoing"} /\ worker.pc = "message"
      BY <1>12, WorkerShape DEF CreateMessage, NoJob, ConvIds
    <2>2. CASE SessionFound(worker.job)
      <3>1. PICK dir \in {"INBOUND", "OUTBOUND"}, st \in {"DELIVERED", "SENT"} :
              messages' = Append(messages,
                             NewRow(worker.job.ev.msg, dir, worker.conv, st, "engine"))
        BY <1>12, <2>2 DEF CreateMessage
      <3>2. PICK u : u = NewRow(worker.job.ev.msg, dir, worker.conv, st, "engine")
        OBVIOUS
      <3>3. st \in Statuses /\ worker.job.ev.msg \in Inbound \cup Sends
        BY <2>1, EventShape DEF Statuses
      <3>4. u \in Row /\ u.msg = worker.job.ev.msg /\ u.by = "engine"
        BY <2>1, <3>2, <3>3, NewRowShape
      <3>5. worker' = NoJob /\ queue' = queue /\ hist' = hist
        BY <1>12, <2>2 DEF CreateMessage, JobDone
      <3>6. HistQuiet /\ JobsQuiet
        BY <2>1, <3>5, JobsKept DEF HistQuiet
      <3>7. u.msg \in Sends => u.msg \in hist'.early \cup hist'.mute \cup hist'.upset
        BY <2>1, <3>4, <3>5 DEF SendInv, Storing
      <3>8. RowsQuiet
        BY <3>1, <3>2, <3>4, <3>7, RowAdded DEF RowsQuiet
      <3> QED  BY <1>12, <3>6, <3>8, SendsQuiet, RequestsKept DEF CreateMessage
    <2>3. CASE ~SessionFound(worker.job)
      BY <1>12, <2>1, <2>3, ThrowQuiet, SendsQuiet, RowsQuietUnchanged, RequestsKept DEF CreateMessage
    <2> QED  BY <2>2, <2>3
  <1>13. ASSUME SyncChat PROVE SendInv'
    <2>1. HistQuiet /\ queue' = queue /\ worker' = NoJob
      BY <1>13 DEF SyncChat, HistQuiet, TypeOK, JobDone
    <2> QED
      BY <1>13, <2>1, JobsKept, SendsQuiet, RowsQuietUnchanged, RequestsKept DEF SyncChat
  <1>14. ASSUME NEW j \in Jobs, j.ev.kind = "ack", NEW n, TryAck(j, n), j.ev.msg \in accepted,
                JobsQuiet, HistQuiet, UNCHANGED <<req, accepted>>
         PROVE  SendInv'
    <2>1. CASE Rows(j.ev.msg) # {}
      <3>1. WriteAck(j) /\ j.ev.arg \in Acks
        BY <1>14, <2>1, JobShape, EventShape DEF TryAck
      <3>2. RowsQuiet
        BY <1>14, <3>1, AckDoes DEF RowsQuiet, SameRows, Same, Rows
      <3> QED  BY <1>14, <3>2, SendsQuiet, RequestsKept
    <2>2. CASE Rows(j.ev.msg) = {}
      BY <1>14, <2>2, SendsQuiet, RequestsKept, RowsQuietUnchanged DEF TryAck
    <2> QED  BY <2>1, <2>2
  <1>15. ASSUME NEW j, NEW n, TryAck(j, n)
         PROVE  worker' = NoJob \/ (worker'.job = j /\ ~Storing')
    BY <1>15 DEF TryAck, JobDone, Storing
  <1>16. ASSUME NEW j \in queue, HandleMessageAck(j) PROVE SendInv'
    <2>1. j \in Jobs /\ j.ev.kind = "ack" /\ j.ev \in Events /\ Take(j, {"ack"})
      BY <1>16, Taken DEF HandleMessageAck
    <2>2. j.ev.msg \in accepted
      BY <2>1, EventShape DEF SendInv
    <2>3. HistQuiet /\ TryAck(j, 0) /\ UNCHANGED <<req, accepted>>
      BY <1>16 DEF HandleMessageAck, HistQuiet
    <2>4. JobsQuiet
      BY <1>5, <1>15, <2>1, <2>3
    <2> QED  BY <1>14, <2>1, <2>2, <2>3, <2>4
  <1>17. ASSUME RetryAck PROVE SendInv'
    <2>1. /\ worker # NoJob /\ worker.job \in Jobs /\ worker.job.ev.kind = "ack"
          /\ worker.job.ev \in Events
      BY <1>17, WorkerShape DEF RetryAck, NoJob
    <2>2. worker.job.ev.msg \in accepted
      BY <2>1, EventShape DEF SendInv
    <2>3. HistQuiet /\ TryAck(worker.job, worker.tries) /\ UNCHANGED <<req, accepted, queue>>
      BY <1>17 DEF RetryAck, HistQuiet
    <2>4. worker' = NoJob \/ (worker'.job = worker.job /\ ~Storing')
      BY <1>15, <2>3
    <2>5. JobsQuiet
      BY <2>1, <2>3, <2>4, JobsKept DEF NothingTaken
    <2> QED  BY <1>14, <2>1, <2>2, <2>3, <2>5
  <1>18. ASSUME NEW j \in queue, HandleReaction(j) PROVE SendInv'
    <2>1. HistQuiet /\ Take(j, {"reaction"})
      BY <1>18 DEF HandleReaction, HistQuiet, TypeOK
    <2>2. worker' = NoJob \/ (worker'.job = j /\ worker'.pc = "react")
      BY <1>18 DEF HandleReaction, JobDone
    <2>3. JobsQuiet
      BY <1>5, <2>1, <2>2 DEF Storing
    <2> QED
      BY <1>18, <2>1, <2>3, SendsQuiet, RowsQuietUnchanged, RequestsKept DEF HandleReaction, rows
  <1>19. ASSUME WriteReaction PROVE SendInv'
    <2>1. worker.row \in Nat /\ React(worker.seen, "them", worker.job.ev.arg) \in SUBSET Parties
      BY <1>19, WorkerShape DEF WriteReaction, NoJob, React, Parties
    <2>2. RowsQuiet
      BY ZenonT(60), <1>19, <2>1, ReactSet, RowsQuietSame DEF WriteReaction, Same
    <2>3. HistQuiet /\ queue' = queue /\ worker' = NoJob
      BY <1>19 DEF WriteReaction, HistQuiet, TypeOK, JobDone
    <2> QED  BY <1>19, <2>2, <2>3, JobsKept, SendsQuiet, RequestsKept DEF WriteReaction
  <1>20. ASSUME DatabaseFails PROVE SendInv'
    <2>1. worker # NoJob
      BY <1>20 DEF DatabaseFails, NoJob
    <2> QED
      BY <1>20, <2>1, ThrowQuiet, SendsQuiet, RowsQuietUnchanged, RequestsKept DEF DatabaseFails, rows
  <1>21. ASSUME queue' = queue, worker' = worker, HistQuiet
         PROVE  JobsQuiet
    BY <1>21 DEF SendInv, JobsQuiet, Storing, HistQuiet
  <1>22. ASSUME NEW r \in Requests, NEW c \in DOMAIN convs, MarkMessages(r, c) PROVE SendInv'
    <2>1. PICK t : t = [pc |-> "reset", conv |-> c] /\ req' = [req EXCEPT ![r] = t]
      BY <1>22 DEF MarkMessages
    <2>2. t \in RequestTasks /\ t.pc = "reset" /\ req[r].pc = "idle"
      BY <1>22, <2>1, ConvShape, RequestTypes DEF MarkMessages, Free, NoReq
    <2>3. RowsQuiet
      <3>1. \A k \in DOMAIN messages : messages[k].by # "engine" => k \notin Unread(c)
        BY RowShape, InboxAssumption DEF Unread, RowInv
      <3> QED  BY <1>22, <3>1, MarkDoes DEF RowsQuiet, SameRows, Same
    <2>4. RequestsQuiet
      BY <2>1, <2>2, BeginDoes, RequestsKept DEF Engaged
    <2>5. HistQuiet
      BY <1>22 DEF MarkMessages, HistQuiet, TypeOK
    <2> QED  BY <1>21, <1>22, <2>3, <2>4, <2>5, SendsQuiet DEF MarkMessages
  <1>23. ASSUME NEW r \in Requests, NEW k \in DOMAIN messages, NEW arg \in {"on", "off"},
                ReactRead(r, k, arg)
         PROVE  SendInv'
    <2>1. PICK t : /\ t = [pc |-> "react", row |-> k, seen |-> messages[k].react, arg |-> arg]
                   /\ req' = [req EXCEPT ![r] = t]
      BY <1>23 DEF ReactRead
    <2>0. req[r].pc = "idle"
      BY <1>23 DEF ReactRead, Free, NoReq
    <2>2. t \in RequestTasks /\ t.pc = "react" /\ req[r].pc = "idle"
      BY <2>0, <2>1, RowShape, RequestTypes
    <2>3. RequestsQuiet
      BY <2>1, <2>2, BeginDoes, RequestsKept DEF Engaged
    <2>4. HistQuiet
      BY <1>23 DEF ReactRead, HistQuiet, TypeOK
    <2> QED  BY <1>21, <1>23, <2>3, <2>4, RowsQuietUnchanged, SendsQuiet DEF ReactRead, rows
  <1>24. ASSUME NEW r \in Requests, ResetUnread(r) PROVE SendInv'
    <2>1. RequestsQuiet
      BY <1>24, LeaveDoes, RequestsKept DEF ResetUnread, Engaged
    <2>2. HistQuiet
      BY <1>24 DEF ResetUnread, HistQuiet
    <2> QED  BY <1>21, <1>24, <2>1, <2>2, RowsQuietUnchanged, SendsQuiet DEF ResetUnread
  <1>25. ASSUME NEW r \in Requests, ReactWrite(r) PROVE SendInv'
    <2>1. req[r].row \in Nat /\ React(req[r].seen, "us", req[r].arg) \in SUBSET Parties
      BY <1>25, RequestShape DEF ReactWrite, React, Parties
    <2>2. RowsQuiet
      BY <1>25, <2>1, ReactSet, RowsQuietSame DEF ReactWrite, Same
    <2>3. RequestsQuiet
      BY <1>25, LeaveDoes, RequestsKept DEF ReactWrite, Engaged
    <2>4. HistQuiet
      BY <1>25 DEF ReactWrite, HistQuiet, TypeOK
    <2> QED  BY <1>21, <1>25, <2>2, <2>3, <2>4, SendsQuiet DEF ReactWrite
  <1>26. ASSUME NEW r \in Requests, CampaignLook(r) PROVE SendInv'
    <2>1. PICK t : /\ t = [pc |-> IF Keepers # {} THEN "purge" ELSE "attach", session |-> session]
                   /\ req' = [req EXCEPT ![r] = t]
      BY <1>26 DEF CampaignLook
    <2>2. t \in RequestTasks /\ t.pc \in {"purge", "attach"}
      BY <2>1, RequestTypes DEF TypeOK
    <2>3. req[r].pc = "idle" /\ HistQuiet
      BY <1>26 DEF CampaignLook, Free, NoReq, HistQuiet
    <2>4. RequestsQuiet
      BY <2>1, <2>2, <2>3, BeginDoes, RequestsKept DEF Engaged
    <2> QED  BY <1>21, <1>26, <2>3, <2>4, RowsQuietUnchanged, SendsQuiet DEF CampaignLook, rows
  <1>27. ASSUME NEW r \in Requests, CampaignPurge(r) PROVE SendInv'
    <2>1. RequestsQuiet
      BY <1>27, MailGoes, RequestsKept DEF CampaignPurge, Engaged
    <2>2. RowsQuiet
      BY <1>27, DetachDoes, RowsQuietSame DEF CampaignPurge, Same
    <2>3. HistQuiet
      BY <1>27 DEF CampaignPurge, HistQuiet
    <2> QED  BY <1>21, <1>27, <2>1, <2>2, <2>3, SendsQuiet DEF CampaignPurge
  <1>28. ASSUME NEW r \in Requests, CampaignAttach(r) PROVE SendInv'
    <2>1. req[r].pc = "attach" /\ HistQuiet /\ (Leave(r) \/ Goto(r, "upsert"))
      BY <1>28, AttachDoes DEF CampaignAttach, HistQuiet
    <2>2. RequestsQuiet
      BY <2>1, LeaveDoes, MailGoes, RequestsKept DEF Engaged
    <2> QED  BY <1>21, <1>28, <2>1, <2>2, RowsQuietUnchanged, SendsQuiet DEF CampaignAttach
  <1> QED
    BY <1>1, <1>2, <1>3, <1>4, <1>6, <1>7, <1>8, <1>9, <1>10, <1>11, <1>12, <1>13, <1>16,
       <1>17, <1>18, <1>19, <1>20, <1>22, <1>23, <1>24, <1>25, <1>26, <1>27, <1>28 DEF Worker, Receive


\* A step of the request r, whose message is o: it leaves the rows of other
\* messages alone and all requests but its own.
OneSend(r, o) ==
  /\ \A q \in Requests \ {r} : req'[q] = req[q]
  /\ Engaged(r)' => req'[r].msg = o
  /\ queue' = queue /\ worker' = worker
  /\ HistQuiet
  /\ accepted \subseteq accepted' /\ accepted' \subseteq accepted \cup {o}
  /\ DOMAIN messages \subseteq DOMAIN messages'
  /\ \A k \in DOMAIN messages :
       /\ messages'[k].msg = messages[k].msg /\ messages'[k].by = messages[k].by
       /\ messages[k].msg # o \/ messages[k].by = "engine" => messages'[k] = messages[k]
  /\ \A k \in DOMAIN messages' \ DOMAIN messages : messages'[k].msg = o /\ messages'[k].by # "engine"
  /\ o \in accepted' => \E k \in DOMAIN messages' : messages'[k].msg = o /\ messages'[k].by # "engine"

LEMMA OneSendStep ==
  ASSUME TypeOK, RowInv, SendInv, NEW r \in Requests, NEW o \in Sends,
         \A q \in Requests \ {r} : Engaged(q) => req[q].msg # o,
         Engaged(r) => req[r].msg = o,
         OneSend(r, o),
         RequestKnows(r)',
         \A k \in DOMAIN messages' : messages'[k].msg = o /\ messages'[k].by # "engine" => RowTells(k)'
  PROVE  SendInv'
  <1>1. /\ \A j \in queue' : j.ev.msg \in Sends => j.ev.msg \in accepted'
        /\ worker' # NoJob => (worker'.job.ev.msg \in Sends => worker'.job.ev.msg \in accepted')
        /\ Storing' /\ worker'.job.ev.msg \in Sends =>
             worker'.job.ev.msg \in hist'.early \cup hist'.mute \cup hist'.upset
    BY DEF SendInv, OneSend, HistQuiet, Storing
  <1>2. \A a \in accepted' : \E k \in DOMAIN messages' : messages'[k].msg = a /\ messages'[k].by # "engine"
    BY DEF SendInv, OneSend
  <1>3. \A q \in Requests \ {r} : req'[q] = req[q]
    BY DEF OneSend
  <1>4. \A q, p \in Requests : Engaged(q)' /\ Engaged(p)' /\ req'[q].msg = req'[p].msg => q = p
    <2> SUFFICES ASSUME NEW q \in Requests, NEW p \in Requests,
                        Engaged(q)', Engaged(p)', req'[q].msg = req'[p].msg
                 PROVE  q = p
      OBVIOUS
    <2>1. CASE q # r /\ p # r
      BY <1>3, <2>1 DEF SendInv, Engaged
    <2>2. CASE q = r /\ p # r
      BY <1>3, <2>2 DEF OneSend, Engaged
    <2>3. CASE q # r /\ p = r
      BY <1>3, <2>3 DEF OneSend, Engaged
    <2> QED  BY <2>1, <2>2, <2>3
  <1>5. ASSUME NEW q \in Requests PROVE RequestKnows(q)'
    <2> SUFFICES ASSUME q # r, req'[q].pc \in SendingPcs PROVE RequestKnows(q)'
      BY DEF RequestKnows
    <2>1. req'[q] = req[q] /\ req[q].msg # o
      BY <1>3 DEF Engaged, SendingPcs
    <2>2. RequestKnows(q)
      BY DEF SendInv
    <2>3. req[q].row \in DOMAIN messages /\ messages[req[q].row].msg = req[q].msg
      BY <2>1, <2>2 DEF RequestKnows
    <2>4. messages'[req[q].row] = messages[req[q].row] /\ req[q].row \in DOMAIN messages'
      BY <2>1, <2>3 DEF OneSend
    <2>5. /\ req[q].msg \in accepted' <=> req[q].msg \in accepted
          /\ req[q].msg \in hist.upset => req[q].msg \in hist'.upset
          /\ req[q].msg \in hist.mute => req[q].msg \in hist'.mute
      BY <2>1 DEF OneSend, HistQuiet
    <2> QED  BY <2>1, <2>2, <2>4, <2>5 DEF RequestKnows
  <1>6. ASSUME NEW k \in DOMAIN messages' PROVE RowTells(k)'
    <2>1. CASE messages'[k].msg = o /\ messages'[k].by # "engine"
      BY <2>1
    <2>2. CASE ~(messages'[k].msg = o /\ messages'[k].by # "engine")
      <3>1. k \in DOMAIN messages /\ messages'[k] = messages[k]
        BY <2>2 DEF OneSend
      <3>2. RowTells(k)
        BY <3>1 DEF SendInv
      <3>3. PICK a : a = messages[k].msg
        OBVIOUS
      <3>4. CASE messages[k].by = "engine"
        BY <3>1, <3>2, <3>4 DEF RowTells, OneSend, HistQuiet
      <3>5. CASE messages[k].by # "engine"
        <4>1. a # o
          BY <2>2, <3>1, <3>3, <3>5
        <4>2. Saving(a) => Saving(a)'
          <5> SUFFICES ASSUME NEW q \in Requests, req[q].pc = "save", req[q].msg = a
                       PROVE  Saving(a)'
            BY DEF Saving
          <5>1. q # r
            BY <4>1 DEF Engaged
          <5> QED  BY <1>3, <5>1 DEF Saving
        <4>3. Sending(k) => Sending(k)'
          <5> SUFFICES ASSUME NEW q \in Requests, req[q].pc \in SendingPcs, req[q].row = k
                       PROVE  Sending(k)'
            BY DEF Sending, SendingPcs
          <5>1. req[q].msg = a
            BY <3>3 DEF SendInv, RequestKnows
          <5>2. q # r
            BY <4>1, <5>1 DEF Engaged, SendingPcs
          <5> QED  BY <1>3, <5>2 DEF Sending, SendingPcs
        <4>4. /\ a \in accepted' <=> a \in accepted
              /\ a \in hist.upset => a \in hist'.upset
              /\ a \in hist.mute => a \in hist'.mute
          BY <4>1 DEF OneSend, HistQuiet
        <4>5. /\ a \in accepted' /\ messages'[k].id = "none" =>
                   a \in hist'.mute \cup hist'.upset \/ Saving(a)'
              /\ messages'[k].id = "none" => messages'[k].status \in {"PENDING", "SENT", "FAILED"}
              /\ messages'[k].status \in {"SENT", "DELIVERED", "READ"} => a \in accepted'
              /\ messages'[k].status = "FAILED" /\ a \in accepted' => a \in hist'.upset \/ "FAILED" \in Acks
          BY <3>1, <3>2, <3>3, <3>5, <4>2, <4>4 DEF RowTells
        <4>6. messages'[k].status = "PENDING" /\ ~Sending(k)' => a \in hist'.upset
          BY <3>1, <3>2, <3>3, <3>5, <4>3, <4>4 DEF RowTells
        <4> QED  BY <3>1, <3>3, <3>5, <4>5, <4>6 DEF RowTells
      <3> QED  BY <3>4, <3>5
    <2> QED  BY <2>1, <2>2
  <1> QED  BY <1>1, <1>2, <1>4, <1>5, <1>6 DEF SendInv

\* A send begins with a message that has no row and no other request.
LEMMA SendBegins ==
  ASSUME TypeOK, RowInv, SendInv, NEW r \in Requests, NEW o \in Sends,
         ~Engaged(r), o \notin Used,
         \A q \in Requests \ {r} : req'[q] = req[q],
         req'[r].pc = "create", req'[r].msg = o,
         UNCHANGED <<messages, queue, worker, accepted>>, HistQuiet
  PROVE  SendInv'
  <1>1. \A k \in DOMAIN messages : messages[k].msg # o
    BY DEF Used
  <1>2. o \notin accepted
    BY <1>1 DEF SendInv
  <1>3. ASSUME NEW q \in Requests, Engaged(q) PROVE req[q].msg # o
    <2>1. CASE req[q].pc = "create"
      BY <2>1 DEF Used
    <2>2. CASE req[q].pc \in SendingPcs
      <3>1. RequestKnows(q)
        BY DEF SendInv
      <3>2. req[q].row \in DOMAIN messages /\ messages[req[q].row].msg = req[q].msg
        BY <2>2, <3>1 DEF RequestKnows
      <3> QED  BY <1>1, <3>2
    <2> QED  BY <1>3, <2>1, <2>2 DEF Engaged, SendingPcs
  <1>5. OneSend(r, o)
    BY <1>2 DEF OneSend
  <1>6. RequestKnows(r)'
    BY DEF RequestKnows, SendingPcs
  <1> QED  BY <1>1, <1>3, <1>5, <1>6, OneSendStep

\* A send that has stored its row changes nothing but that row.
LEMMA SendGoesOn ==
  ASSUME TypeOK, RowInv, SendInv, NEW r \in Requests, req[r].pc \in SendingPcs,
         NEW k \in DOMAIN messages, k = req[r].row,
         \A q \in Requests \ {r} : req'[q] = req[q],
         Engaged(r)' => req'[r].msg = req[r].msg,
         queue' = queue, worker' = worker, HistQuiet,
         accepted \subseteq accepted', accepted' \subseteq accepted \cup {req[r].msg},
         DOMAIN messages' = DOMAIN messages,
         \A l \in DOMAIN messages \ {k} : messages'[l] = messages[l],
         messages'[k].msg = messages[k].msg, messages'[k].by = messages[k].by,
         RequestKnows(r)', RowTells(k)'
  PROVE  SendInv'
  <1>1. PICK o \in Sends : o = req[r].msg
    BY RequestShape DEF SendingPcs
  <1>2. RequestKnows(r)
    BY DEF SendInv
  <1>3. messages[k].msg = o /\ messages[k].by # "engine"
    BY <1>1, <1>2 DEF RequestKnows
  <1>4. \A l \in DOMAIN messages : messages[l].msg = o /\ messages[l].by # "engine" => l = k
    BY <1>3 DEF RowInv
  <1>5. Engaged(r) /\ \A q \in Requests \ {r} : Engaged(q) => req[q].msg # o
    BY <1>1 DEF SendInv, Engaged, SendingPcs
  <1>6. OneSend(r, o)
    BY <1>1, <1>3, <1>4 DEF OneSend
  <1>7. \A l \in DOMAIN messages' : messages'[l].msg = o /\ messages'[l].by # "engine" => RowTells(l)'
    BY <1>4
  <1> QED  BY <1>1, <1>5, <1>6, <1>7, OneSendStep

\* What is known of its row.
LEMMA SendRow ==
  ASSUME TypeOK, SendInv, NEW r \in Requests, req[r].pc \in SendingPcs
  PROVE  /\ req[r].row \in DOMAIN messages
         /\ messages[req[r].row].msg = req[r].msg /\ messages[req[r].row].by # "engine"
         /\ req[r].pc \in {"post", "save"} =>
              messages[req[r].row].id = "none" /\ messages[req[r].row].status = "PENDING"
         /\ req[r].pc = "count" =>
              /\ messages[req[r].row].id = "known" \/ req[r].msg \in hist.mute
              /\ messages[req[r].row].status # "PENDING"
         /\ req[r].pc = "post" => req[r].msg \notin accepted
         /\ req[r].pc \in {"save", "count"} => req[r].msg \in accepted
         /\ req[r].pc = "catch" => (req[r].msg \in accepted => req[r].msg \in hist.upset)
  BY DEF SendInv, RequestKnows

\* A request that has not yet stored its row, or has no row, ends.
LEMMA SendEnds ==
  ASSUME TypeOK, RowInv, SendInv, NEW r \in Requests, req[r].pc \notin SendingPcs,
         \A q \in Requests \ {r} : req'[q] = req[q], req'[r].pc = "idle",
         UNCHANGED <<messages, queue, worker, accepted>>, HistQuiet
  PROVE  SendInv'
  <1>1. JobsQuiet
    BY DEF SendInv, JobsQuiet, Storing, HistQuiet
  <1>2. \A q \in Requests : RequestKnows(q)'
    <2> SUFFICES ASSUME NEW q \in Requests, req'[q].pc \in SendingPcs PROVE RequestKnows(q)'
      BY DEF RequestKnows
    <2>1. q # r /\ req'[q] = req[q] /\ RequestKnows(q)
      BY DEF SendingPcs, SendInv
    <2> QED  BY <2>1 DEF RequestKnows, HistQuiet
  <1>3. \A q, p \in Requests : Engaged(q)' /\ Engaged(p)' /\ req'[q].msg = req'[p].msg => q = p
    BY DEF SendInv, Engaged
  <1>4. \A k \in DOMAIN messages' : RowTells(k)'
    <2> SUFFICES ASSUME NEW k \in DOMAIN messages PROVE RowTells(k)'
      OBVIOUS
    <2>1. RowTells(k)
      BY DEF SendInv
    <2>2. PICK o : o = messages[k].msg
      OBVIOUS
    <2>3. Saving(o) => Saving(o)'
      BY DEF Saving, SendingPcs
    <2>4. Sending(k) => Sending(k)'
      BY DEF Sending, SendingPcs
    <2>5. CASE messages[k].by = "engine"
      BY <2>1, <2>5 DEF RowTells, HistQuiet
    <2>6. CASE messages[k].by # "engine"
      BY <2>1, <2>2, <2>3, <2>4, <2>6 DEF RowTells, HistQuiet
    <2> QED  BY <2>5, <2>6
  <1> QED  BY <1>1, <1>2, <1>3, <1>4 DEF SendInv, JobsQuiet

LEMMA SendStep ==
  ASSUME TypeOK, RowInv, SendInv, NEW r \in Requests,
         \/ \E o \in Sends : SendNew(r, o) \/ \E c \in DOMAIN convs : SendReply(r, o, c)
         \/ \E o \in Sends : CampaignUpsert(r, o)
         \/ SendPost(r) \/ SendSave(r) \/ SendCount(r) \/ SendCatch(r)
         \/ SendPostFails(r) \/ SendSaveFails(r)
  PROVE  SendInv'
  <1>1. ASSUME NEW o \in Sends, NEW c \in DOMAIN convs, SendReply(r, o, c) PROVE SendInv'
    <2>1. PICK t : /\ t = [pc |-> "create", msg |-> o, conv |-> c, session |-> session, by |-> "send"]
                   /\ req' = [req EXCEPT ![r] = t]
      BY <1>1 DEF SendReply, Creates
    <2>2. t \in RequestTasks /\ t.pc = "create" /\ t.msg = o
      BY <2>1, ConvShape, RequestTypes DEF TypeOK, Senders
    <2>3. ~Engaged(r) /\ HistQuiet
      BY <1>1 DEF SendReply, Creates, Free, NoReq, Engaged, HistQuiet
    <2>4. o \notin Used
      BY <1>1 DEF SendReply, Creates
    <2> QED  BY ZenonT(60), <1>1, <2>1, <2>2, <2>3, <2>4, BeginDoes, SendBegins DEF SendReply, Creates, rows
  <1>2. ASSUME NEW o \in Sends, SendNew(r, o) PROVE SendInv'
    <2>1. Upserted \in ConvIds /\ "send" \in Senders
      BY <1>2, UpsertedConv DEF SendNew, Senders
    <2>2. (\A q \in Requests \ {r} : req'[q] = req[q]) /\ req'[r].pc = "create" /\ req'[r].msg = o
      BY <1>2, <2>1, CreatesDoes DEF SendNew
    <2>4. hist' = hist \/ hist' = [hist EXCEPT !.split = @ \cup Orphans \cup {session}]
      BY <1>2 DEF SendNew
    <2>5. ~Engaged(r) /\ HistQuiet
      BY <1>2, <2>4 DEF SendNew, Free, NoReq, Engaged, HistQuiet, TypeOK
    <2>6. o \notin Used /\ UNCHANGED <<messages, queue, worker, accepted>>
      BY <1>2 DEF SendNew
    <2> QED  BY <2>2, <2>5, <2>6, SendBegins
  <1>0. PICK k, o : k = req[r].row /\ o = req[r].msg
    OBVIOUS
  <1>3. ASSUME SendPost(r) PROVE SendInv'
    <2>1. req[r].pc \in SendingPcs /\ req[r].pc = "post"
      BY <1>0, <1>3 DEF SendPost, SendingPcs
    <2>2. /\ k \in DOMAIN messages /\ messages[k].msg = o /\ messages[k].by # "engine"
          /\ messages[k].id = "none" /\ messages[k].status = "PENDING"
      BY <1>0, <2>1, SendRow
    <2>3. /\ \A q \in Requests \ {r} : req'[q] = req[q]
          /\ req'[r].pc = "save" /\ req'[r].msg = o /\ req'[r].row = k
      BY <1>0, <1>3, <2>1, GotoDoes DEF SendPost
    <2>4. /\ HistQuiet /\ messages' = messages /\ queue' = queue /\ worker' = worker
          /\ accepted' = accepted \cup {o}
      BY <1>0, <1>3 DEF SendPost, rows, HistQuiet
    <2>5. Saving(o)' /\ Sending(k)'
      BY <1>0, <2>3 DEF Saving, Sending
    <2>6. RequestKnows(r)'
      BY <1>0, <2>2, <2>3, <2>4 DEF RequestKnows
    <2>7. RowTells(k)'
      BY <1>0, <2>2, <2>4, <2>5 DEF RowTells
    <2> QED  BY <1>0, <2>1, <2>2, <2>3, <2>4, <2>6, <2>7, SendGoesOn
  <1>4. ASSUME SendSave(r) PROVE SendInv'
    <2>1. req[r].pc \in SendingPcs /\ req[r].pc = "save" /\ k \in Nat
      BY <1>0, <1>4, RequestShape DEF SendSave, SendingPcs
    <2>2. k \in DOMAIN messages /\ messages[k].msg = o /\ messages[k].by # "engine" /\ o \in accepted
      BY <1>0, <2>1, SendRow
    <2>3. /\ \A q \in Requests \ {r} : req'[q] = req[q]
          /\ req'[r].pc = "count" /\ req'[r].msg = o /\ req'[r].row = k
      BY <1>0, <1>4, <2>1, GotoDoes DEF SendSave
    <2>4. HistQuiet /\ queue' = queue /\ worker' = worker /\ accepted' = accepted
      BY <1>0, <1>4 DEF SendSave, HistQuiet, TypeOK
    <2>5. /\ DOMAIN messages' = DOMAIN messages
          /\ messages'[k].msg = o /\ messages'[k].by = messages[k].by /\ messages'[k].status = "SENT"
      BY <1>0, <1>4, <2>2, SavedDoes DEF SameRows, Same
    <2>9. messages'[k].id = "known" \/ o \in hist'.mute
      BY <1>0, <1>4, <2>2, SavedDoes DEF TypeOK
    <2>6. \A l \in DOMAIN messages \ {k} : messages'[l] = messages[l]
      BY <1>0, <1>4 DEF SendSave
    <2>7. RequestKnows(r)'
      BY <1>0, <2>2, <2>3, <2>4, <2>5, <2>9 DEF RequestKnows
    <2>8. RowTells(k)'
      BY <1>0, <2>2, <2>4, <2>5, <2>9 DEF RowTells
    <2> QED  BY <1>0, <2>1, <2>2, <2>3, <2>4, <2>5, <2>6, <2>7, <2>8, SendGoesOn
  <1>5. ASSUME req[r].pc \in SendingPcs, Goto(r, "catch"),
               messages' = messages, queue' = queue, worker' = worker,
               accepted' = accepted \/ accepted' = accepted \cup {o}, HistQuiet,
               o \in accepted' => o \in hist'.upset,
               req[r].pc = "count" => o \in hist'.upset
        PROVE  SendInv'
    <2>2. k \in DOMAIN messages /\ messages[k].msg = o /\ messages[k].by # "engine"
      BY <1>0, <1>5, SendRow
    <2>3. /\ \A q \in Requests \ {r} : req'[q] = req[q]
          /\ req'[r].pc = "catch" /\ req'[r].msg = o /\ req'[r].row = k
      BY <1>0, <1>5, GotoDoes DEF SendingPcs
    <2>5. Sending(k)'
      BY <1>0, <2>3 DEF Sending
    <2>6. RequestKnows(r)'
      BY <1>0, <1>5, <2>2, <2>3 DEF RequestKnows
    <2>7. RowTells(k)'
      BY <1>0, <1>5, <2>2, <2>5 DEF RowTells, SendInv
    <2> QED  BY <1>0, <1>5, <2>2, <2>3, <2>6, <2>7, SendGoesOn
  <1>6. ASSUME SendPostFails(r) PROVE SendInv'
    <2>1. req[r].pc \in SendingPcs /\ req[r].pc = "post"
      BY <1>0, <1>6 DEF SendPostFails, SendingPcs
    <2>2. o \notin accepted
      BY <1>0, <2>1, SendRow
    <2>3. /\ HistQuiet
          /\ accepted' = accepted \/ accepted' = accepted \cup {o}
          /\ o \in accepted' => o \in hist'.upset
      BY <1>0, <1>6, <2>2 DEF SendPostFails, HistQuiet, TypeOK
    <2> QED  BY <1>0, <1>5, <1>6, <2>1, <2>3 DEF SendPostFails, rows
  <1>7. ASSUME SendSaveFails(r) PROVE SendInv'
    <2>1. req[r].pc \in SendingPcs
      BY <1>0, <1>7 DEF SendSaveFails, SendingPcs
    <2>2. HistQuiet /\ o \in hist'.upset
      BY <1>0, <1>7 DEF SendSaveFails, HistQuiet, TypeOK
    <2> QED  BY <1>0, <1>5, <1>7, <2>1, <2>2 DEF SendSaveFails, rows
  <1>8. ASSUME SendCount(r) PROVE SendInv'
    <2>1. req[r].pc \in SendingPcs /\ req[r].pc = "count"
      BY <1>0, <1>8 DEF SendCount, SendingPcs
    <2>2. CASE Counts(r)
      <3>1. /\ k \in DOMAIN messages /\ messages[k].msg = o /\ messages[k].by # "engine"
            /\ messages[k].id = "known" \/ o \in hist.mute
            /\ messages[k].status # "PENDING"
        BY <1>0, <2>1, SendRow
      <3>2. Leave(r) /\ hist' = hist
        BY <1>0, <1>8, <2>2 DEF SendCount
      <3>3. HistQuiet /\ UNCHANGED <<messages, queue, worker, accepted>>
        BY <1>0, <1>8, <3>2 DEF SendCount, rows, HistQuiet
      <3>4. /\ \A q \in Requests \ {r} : req'[q] = req[q]
            /\ req'[r].pc = "idle"
        BY <1>0, <3>2, LeaveDoes
      <3>5. RequestKnows(r)' /\ ~Engaged(r)'
        BY <1>0, <3>4 DEF RequestKnows, Engaged, SendingPcs
      <3>6. RowTells(k)
        BY <1>0, <3>1 DEF SendInv
      <3>7. RowTells(k)'
        BY <1>0, <3>1, <3>2, <3>3, <3>6 DEF RowTells
      <3> QED  BY <1>0, <2>1, <3>1, <3>3, <3>4, <3>5, <3>7, SendGoesOn
    <2>3. CASE ~Counts(r)
      <3>1. HistQuiet /\ o \in hist'.upset /\ Goto(r, "catch")
        BY <1>0, <1>8, <2>3 DEF SendCount, HistQuiet, TypeOK
      <3> QED  BY <1>0, <1>5, <1>8, <2>1, <3>1 DEF SendCount, rows
    <2> QED  BY <1>0, <2>2, <2>3
  <1>9. ASSUME SendCatch(r) PROVE SendInv'
    <2>1. req[r].pc \in SendingPcs /\ req[r].pc = "catch" /\ k \in Nat /\ "FAILED" \in Statuses
      BY <1>0, <1>9, RequestShape DEF SendCatch, SendingPcs, Statuses
    <2>2. /\ k \in DOMAIN messages /\ messages[k].msg = o /\ messages[k].by # "engine"
          /\ o \in accepted => o \in hist.upset
      BY <1>0, <2>1, SendRow
    <2>3. (\A q \in Requests \ {r} : req'[q] = req[q]) /\ req'[r].pc = "idle"
      BY <1>0, <1>9, LeaveDoes DEF SendCatch
    <2>4. HistQuiet /\ queue' = queue /\ worker' = worker /\ accepted' = accepted /\ hist' = hist
      BY <1>0, <1>9 DEF SendCatch, HistQuiet
    <2>9. messages' = [messages EXCEPT ![k].status = "FAILED"]
      BY <1>0, <1>9 DEF SendCatch
    <2>10. SameRows /\ \A l \in DOMAIN messages :
             /\ Same(l, {"conv", "id", "react"})
             /\ messages'[l].status = IF l = k THEN "FAILED" ELSE messages[l].status
      BY <2>1, <2>9, StatusSet
    <2>5. /\ DOMAIN messages' = DOMAIN messages
          /\ messages'[k].msg = o /\ messages'[k].by = messages[k].by /\ messages'[k].status = "FAILED"
      BY <2>2, <2>10 DEF SameRows, Same
    <2>6. \A l \in DOMAIN messages \ {k} : messages'[l] = messages[l]
      BY <1>0, <1>9 DEF SendCatch
    <2>7. RequestKnows(r)' /\ ~Engaged(r)'
      BY <1>0, <2>3 DEF RequestKnows, Engaged, SendingPcs
    <2>8. RowTells(k)'
      BY <1>0, <2>2, <2>4, <2>5 DEF RowTells
    <2> QED  BY <1>0, <2>1, <2>2, <2>3, <2>4, <2>5, <2>6, <2>7, <2>8, SendGoesOn
  <1>10. ASSUME NEW o2 \in Sends, CampaignUpsert(r, o2) PROVE SendInv'
    <2>1. req[r].pc = "upsert" /\ ~Engaged(r) /\ HistQuiet
      BY <1>10 DEF CampaignUpsert, Engaged, HistQuiet
    <2>2. CASE live /\ req[r].session = session
      <3>1. Upserted \in ConvIds /\ "campaign" \in Senders
        BY <1>10, <2>2, UpsertedConv DEF CampaignUpsert, Senders
      <3>4. (\A q \in Requests \ {r} : req'[q] = req[q]) /\ req'[r].pc = "create" /\ req'[r].msg = o2
        BY <1>10, <2>2, <3>1, CreatesDoes DEF CampaignUpsert
      <3>5. o2 \notin Used /\ UNCHANGED <<messages, queue, worker, accepted>>
        BY <1>10 DEF CampaignUpsert
      <3> QED  BY <2>1, <3>4, <3>5, SendBegins
    <2>3. CASE ~(live /\ req[r].session = session)
      <3>1. Leave(r) /\ UNCHANGED <<messages, queue, worker, accepted>>
        BY <1>10, <2>3 DEF CampaignUpsert
      <3>2. req[r].pc \notin SendingPcs
        BY <2>1 DEF SendingPcs
      <3> QED  BY <2>1, <3>1, <3>2, LeaveDoes, SendEnds
    <2> QED  BY <2>2, <2>3
  <1> QED  BY <1>1, <1>2, <1>3, <1>4, <1>6, <1>7, <1>8, <1>9, <1>10

\* All requests are gone: what they were sending is upset.
LEMMA SendCrash ==
  ASSUME TypeOK, RowInv, SendInv, Crash
  PROVE  SendInv'
  <1>1. req' = [r \in Requests |-> NoReq] /\ worker' = NoJob /\ UNCHANGED <<messages, accepted>>
    BY DEF Crash, rows
  <1>2. /\ HistQuiet
        /\ \A r \in Requests : req[r].pc \in SendingPcs => req[r].msg \in hist'.upset
    <2> DEFINE up == {req[r].msg : r \in {q \in Requests : req[q].pc \in {"post", "save", "count", "catch"}}}
               di == {req[r].conv : r \in {q \in Requests : req[q].pc = "reset"}}
                       \cup (IF worker.pc = "message" /\ worker.job.ev.kind = "received"
                             THEN {worker.conv} ELSE {})
               lo == IF Twice /\ worker.job.ev.kind = "received"
                     THEN hist.lost \cup {worker.job.ev.msg} ELSE hist.lost
    <2>1. \A r \in Requests : req[r].pc \in SendingPcs => req[r].msg \in up
      BY DEF SendingPcs
    <2>2. hist' = [hist EXCEPT !.upset = @ \cup up, !.disturbed = @ \cup di, !.lost = lo]
      BY DEF Crash
    <2> HIDE DEF up, di, lo
    <2>3. hist'.upset = hist.upset \cup up /\ hist'.early = hist.early /\ hist'.mute = hist.mute
      BY <2>2 DEF TypeOK
    <2> QED  BY <2>1, <2>3 DEF HistQuiet
  <1>3. JobsQuiet
    <2>1. \A j \in queue' : j \in queue \/ (worker # NoJob /\ j.ev = worker.job.ev)
      BY CrashQueues
    <2> QED  BY <1>1, <1>2, <2>1, JobsKept
  <1>4. \A q \in Requests : RequestKnows(q)' /\ ~Engaged(q)'
    BY <1>1 DEF RequestKnows, SendingPcs, Engaged, NoReq
  <1>5. ASSUME NEW k \in DOMAIN messages PROVE RowTells(k)'
    <2>1. RowTells(k)
      BY DEF SendInv
    <2>2. PICK o : o = messages[k].msg
      OBVIOUS
    <2>3. Saving(o) => o \in hist'.upset
      BY <1>2 DEF Saving, SendingPcs
    <2>4. Sending(k) => o \in hist'.upset
      BY <1>2, <2>2 DEF Sending, SendingPcs, SendInv, RequestKnows
    <2>5. CASE messages[k].by = "engine"
      BY <1>1, <1>2, <2>1, <2>5 DEF RowTells, HistQuiet
    <2>6. CASE messages[k].by # "engine"
      BY <1>1, <1>2, <2>1, <2>2, <2>3, <2>4, <2>6 DEF RowTells, HistQuiet
    <2> QED  BY <2>5, <2>6
  <1> QED  BY <1>1, <1>3, <1>4, <1>5 DEF SendInv, JobsQuiet

LEMMA SendStores ==
  ASSUME TypeOK, RowInv, SendInv, NEW r \in Requests, SendCreate(r)
  PROVE  SendInv'
  <1>1. /\ req[r].msg \in Sends /\ req[r].conv \in 0 .. MaxSessions
        /\ req[r].session \in ConvIds /\ req[r].pc = "create" /\ req[r].by \in Senders
    BY RequestShape DEF SendCreate, ConvIds
  <1>2. HistQuiet /\ queue' = queue /\ worker' = worker /\ accepted' = accepted
    BY DEF SendCreate, HistQuiet
  <1>3. CASE live /\ req[r].session = session /\ req[r].conv \in DOMAIN convs
    <2>1. PICK u : u = NewRow(req[r].msg, "OUTBOUND", req[r].conv, "PENDING", req[r].by)
      OBVIOUS
    <2>2. "PENDING" \in Statuses
      BY DEF Statuses
    <2>3. PICK o \in Sends : o = req[r].msg
      BY <1>1
    <2>4. u \in Row /\ u.msg = o /\ u.by # "engine" /\ u.status = "PENDING" /\ u.id = "none"
      BY <1>1, <2>1, <2>2, <2>3, NewRowShape DEF Senders
    <2>5. PICK n : n = Len(messages) + 1
      OBVIOUS
    <2>6. messages' = Append(messages, u)
      BY <1>3, <2>1 DEF SendCreate
    <2>7. /\ DOMAIN messages' = DOMAIN messages \cup {n} /\ n \notin DOMAIN messages /\ n \in Nat
          /\ messages'[n] = u /\ \A k \in DOMAIN messages : messages'[k] = messages[k]
      BY <2>4, <2>5, <2>6, RowAdded
    <2>8. PICK t : /\ t = [pc |-> "post", msg |-> o, session |-> req[r].session, row |-> n]
                   /\ req' = [req EXCEPT ![r] = t]
      BY <1>3, <2>3, <2>5 DEF SendCreate
    <2>9. t \in RequestTasks /\ t.pc = "post" /\ t.msg = o /\ t.row = n
      BY <1>1, <2>7, <2>8, RequestTypes
    <2>10. req'[r] = t /\ \A q \in Requests \ {r} : req'[q] = req[q]
      BY <2>8, <2>9, BeginDoes
    <2>11. \A k \in DOMAIN messages : messages[k].msg = o => messages[k].by = "engine"
      BY <1>1, <2>3 DEF RowInv
    <2>12. o \notin accepted
      BY <2>11 DEF SendInv
    <2>13. RequestKnows(r)'
      BY <1>2, <2>4, <2>7, <2>9, <2>10, <2>12 DEF RequestKnows
    <2>14. Sending(n)'
      BY <2>9, <2>10 DEF Sending
    <2>15. RowTells(n)'
      BY <1>2, <2>4, <2>7, <2>12, <2>14 DEF RowTells
    <2>16. \A k \in DOMAIN messages' : messages'[k].msg = o /\ messages'[k].by # "engine" => RowTells(k)'
      BY <2>7, <2>11, <2>15
    <2>17. OneSend(r, o)
      BY <1>2, <2>4, <2>7, <2>9, <2>10, <2>12 DEF OneSend
    <2>18. \A q \in Requests \ {r} : Engaged(q) => req[q].msg # o
      BY <1>1, <2>3 DEF SendInv, Engaged
    <2> QED  BY <2>3, <2>13, <2>16, <2>17, <2>18, OneSendStep
  <1>4. CASE ~(live /\ req[r].session = session /\ req[r].conv \in DOMAIN convs)
    <2>1. Leave(r) /\ messages' = messages
      BY <1>4 DEF SendCreate
    <2>2. req[r].pc \notin SendingPcs
      BY <1>1 DEF SendingPcs
    <2> QED  BY <1>2, <2>1, <2>2, LeaveDoes, SendEnds
  <1> QED  BY <1>3, <1>4

LEMMA SendFails ==
  ASSUME TypeOK, RowInv, SendInv, NEW r \in Requests, RequestFails(r)
  PROVE  SendInv'
  <1>1. /\ \A q \in Requests \ {r} : req'[q] = req[q]
        /\ req'[r].pc = "idle"
        /\ UNCHANGED <<messages, queue, worker, accepted>>
    BY LeaveDoes DEF RequestFails, rows
  <1>2. CASE req[r].pc = "catch"
    <2>1. PICK k, o : k = req[r].row /\ o = req[r].msg
      OBVIOUS
    <2>2. k \in DOMAIN messages /\ messages[k].msg = o /\ messages[k].by # "engine"
      BY <1>2, <2>1, SendRow DEF SendingPcs
    <2>3. hist' = [hist EXCEPT !.upset = @ \cup {o}]
      BY <1>2, <2>1 DEF RequestFails
    <2>4. HistQuiet /\ o \in hist'.upset
      BY <2>3 DEF HistQuiet, TypeOK
    <2>5. RowTells(k)'
      BY <1>1, <2>2, <2>4 DEF RowTells, SendInv
    <2>6. RequestKnows(r)' /\ ~Engaged(r)'
      BY <1>1 DEF RequestKnows, Engaged, SendingPcs
    <2>7. req[r].pc \in SendingPcs
      BY <1>2 DEF SendingPcs
    <2> QED  BY <1>1, <2>1, <2>2, <2>4, <2>5, <2>6, <2>7, SendGoesOn
  <1>3. CASE req[r].pc # "catch"
    <2>1. \/ hist' = hist
          \/ hist' = [hist EXCEPT !.disturbed = @ \cup {req[r].conv}]
      BY <1>3 DEF RequestFails
    <2>2. HistQuiet
      BY <2>1 DEF HistQuiet, TypeOK
    <2>3. req[r].pc \notin SendingPcs
      BY <1>3 DEF RequestFails, SendingPcs
    <2> QED  BY <1>1, <2>2, <2>3, SendEnds
  <1> QED  BY <1>2, <1>3

LEMMA SendInit == Init => SendInv
  BY DEF Init, SendInv, Storing, NoJob, NoReq, Engaged, RequestKnows, SendingPcs

LEMMA SendInvStep == TypeOK /\ RowInv /\ SendInv /\ [Next]_vars => SendInv'
  <1> SUFFICES ASSUME TypeOK, RowInv, SendInv, [Next]_vars PROVE SendInv'
    OBVIOUS
  <1>1. CASE UNCHANGED vars
    <2>1. JobsQuiet /\ HistQuiet /\ RequestsQuiet /\ RowsQuiet /\ accepted' = accepted
      BY <1>1 DEF vars, SendInv, JobsQuiet, Storing, HistQuiet, RequestsQuiet, RowsQuiet
    <2> QED  BY <2>1, SendsQuiet
  <1>2. CASE DeleteSession \/ CreateSession \/ Worker \/ \E ev \in Events : HandleEngineEvent(ev)
    BY <1>2, SendQuietStep
  <1>3. ASSUME NEW r \in Requests, Ask(r) PROVE SendInv'
    BY <1>3, SendQuietStep, SendStep DEF Ask
  <1>4. ASSUME NEW r \in Requests, Handler(r) PROVE SendInv'
    BY <1>4, SendQuietStep, SendStep, SendStores DEF Handler
  <1>6. ASSUME NEW r \in Requests, Mail(r) PROVE SendInv'
    BY <1>6, SendQuietStep, SendStep DEF Mail
  <1>5. CASE Faults
    <2>1. CASE DatabaseFails
      BY <2>1, SendQuietStep
    <2>2. CASE Crash
      BY <2>2, SendCrash
    <2>3. ASSUME NEW r \in Requests, SendPostFails(r) \/ SendSaveFails(r) \/ RequestFails(r)
          PROVE  SendInv'
      BY <2>3, SendStep, SendFails
    <2> QED  BY <1>5, <2>1, <2>2, <2>3 DEF Faults
  <1> QED  BY <1>1, <1>2, <1>3, <1>4, <1>5, <1>6 DEF Next

LEMMA OneRow ==
  ASSUME TypeOK, RowInv, SendInv
  PROVE  OneRowPerSend
  <1> SUFFICES ASSUME NEW o \in Sends, o \notin hist.early \cup hist.mute \cup hist.upset
               PROVE  Cardinality({k \in DOMAIN messages : messages[k].msg = o}) <= 1
    BY DEF OneRowPerSend
  <1> DEFINE K == {k \in DOMAIN messages : messages[k].msg = o}
  <1>1. \A k \in K : messages[k].by # "engine"
    BY DEF SendInv, RowTells
  <1>2. \A k, l \in K : (messages[k].by = "engine" <=> messages[l].by = "engine") => k = l
    BY DEF RowInv
  <1> HIDE DEF K
  <1>4. K = {} \/ \E k \in K : K = {k}
    BY <1>1, <1>2
  <1>5. Cardinality(K) \in {0, 1}
    BY <1>4, FS_EmptySet, FS_Singleton
  <1> QED  BY <1>5 DEF K

\* A send from the inbox or of a campaign and its echo make two rows only if
\* the echo was handled while the send waited to save the externalId, the
\* engine's answer carried no id, or the send failed half-way.
THEOREM SendsHaveOneRow == Spec => []OneRowPerSend
  BY OneRow, TypeInit, TypeStep, RowInit, RowStep, SendInit, SendInvStep, PTL DEF Spec

\* The row of a send says what became of its message, unless a step after
\* the engine's answer failed.
THEOREM SendsTellTheOutcome == Spec => []SendOutcome
  <1>1. ASSUME SendInv PROVE SendOutcome
    BY <1>1 DEF SendInv, RowTells, SendOutcome
  <1> QED  BY <1>1, TypeInit, TypeStep, RowInit, RowStep, SendInit, SendInvStep, PTL DEF Spec

\* What a delivery or read ack has written, only another ack changes, or the
\* end of a send that went wrong.
StatusKept == \A k \in DOMAIN messages : messages'[k].status = messages[k].status

LEMMA StatusKeptSame ==
  ASSUME TypeOK, SameRows, \A k \in DOMAIN messages : Same(k, {"status"})
  PROVE  StatusKept
  BY DEF StatusKept, Same

LEMMA AcksStandStep ==
  ASSUME TypeOK, RowInv, SendInv, [Next]_vars,
         NEW k \in DOMAIN messages, messages[k].dir = "OUTBOUND",
         messages[k].status \in {"DELIVERED", "READ"}
  PROVE  messages'[k].status = messages[k].status \/ AckStep \/ messages[k].msg \in hist.upset
  <1> DEFINE Goal == messages'[k].status = messages[k].status \/ AckStep \/ messages[k].msg \in hist.upset
  <1>1. ASSUME messages' = messages PROVE Goal
    BY <1>1
  <1>2. ASSUME AckStep PROVE Goal
    BY <1>2
  <1>3. ASSUME NEW dead, messages' = Detach(dead) PROVE Goal
    BY <1>3, DetachDoes DEF Same
  <1>4. ASSUME NEW u \in Row, messages' = Append(messages, u) PROVE Goal
    BY <1>4, RowAdded
  <1>5. ASSUME CreateMessage PROVE Goal
    <2>1. /\ worker # NoJob /\ worker.job.ev \in Events /\ worker.conv \in 0 .. MaxSessions
          /\ worker.job.ev.kind \in {"received", "outgoing"} /\ worker.pc = "message"
      BY <1>5, WorkerShape DEF CreateMessage, NoJob, ConvIds
    <2>2. CASE SessionFound(worker.job)
      <3>1. PICK dir \in {"INBOUND", "OUTBOUND"}, st \in {"DELIVERED", "SENT"} :
              messages' = Append(messages,
                             NewRow(worker.job.ev.msg, dir, worker.conv, st, "engine"))
        BY <1>5, <2>2 DEF CreateMessage
      <3>2. PICK u : u = NewRow(worker.job.ev.msg, dir, worker.conv, st, "engine")
        OBVIOUS
      <3>3. st \in Statuses /\ worker.job.ev.msg \in Inbound \cup Sends
        BY <2>1, EventShape DEF Statuses
      <3>4. u \in Row
        BY <2>1, <3>2, <3>3, NewRowShape
      <3> QED  BY <1>4, <3>1, <3>2, <3>4
    <2>3. CASE ~SessionFound(worker.job)
      BY <1>1, <1>5, <2>3 DEF CreateMessage
    <2> QED  BY <2>2, <2>3
  <1>6. ASSUME NEW r \in Requests, SendCreate(r) PROVE Goal
    <2>1. req[r].msg \in Sends /\ req[r].conv \in 0 .. MaxSessions /\ req[r].by \in Senders
      BY <1>6, RequestShape DEF SendCreate, ConvIds
    <2>2. PICK u : u = NewRow(req[r].msg, "OUTBOUND", req[r].conv, "PENDING", req[r].by)
      OBVIOUS
    <2>3. "PENDING" \in Statuses
      BY DEF Statuses
    <2>4. u \in Row
      BY <2>1, <2>2, <2>3, NewRowShape
    <2>5. messages' = messages \/ messages' = Append(messages, u)
      BY <1>6, <2>2 DEF SendCreate
    <2> QED  BY <1>1, <1>4, <2>4, <2>5
  <1>7. ASSUME NEW r \in Requests, SendSave(r) PROVE Goal
    <2>1. req[r].row \in Nat /\ req[r].pc = "save"
      BY <1>7, RequestShape DEF SendSave
    <2>2. messages[req[r].row].status = "PENDING"
      BY <2>1, SendRow DEF SendingPcs
    <2>3. k # req[r].row
      BY <2>2
    <2> QED  BY <1>7, <2>3, SavedDoes
  <1>8. ASSUME NEW r \in Requests, SendCatch(r) PROVE Goal
    <2>1. req[r].row \in Nat /\ req[r].pc = "catch" /\ "FAILED" \in Statuses
      BY <1>8, RequestShape DEF SendCatch, Statuses
    <2>2. messages' = [messages EXCEPT ![req[r].row].status = "FAILED"]
      BY <1>8 DEF SendCatch
    <2>3. messages'[k].status = IF k = req[r].row THEN "FAILED" ELSE messages[k].status
      BY <2>1, <2>2, StatusSet
    <2>4. CASE k = req[r].row
      <3>1. /\ messages[k].msg = req[r].msg /\ messages[k].by # "engine"
            /\ req[r].msg \in accepted => req[r].msg \in hist.upset
        BY <2>1, <2>4, SendRow DEF SendingPcs
      <3>2. messages[k].msg \in accepted
        BY <3>1 DEF SendInv, RowTells
      <3> QED  BY <3>1, <3>2
    <2> QED  BY <2>3, <2>4
  <1>9. ASSUME NEW r \in Requests, NEW c \in DOMAIN convs, MarkMessages(r, c) PROVE Goal
    <2>1. k \notin Unread(c)
      BY DEF Unread
    <2>2. messages' = [l \in DOMAIN messages |->
                    IF l \in Unread(c) THEN [messages[l] EXCEPT !.status = "READ"] ELSE messages[l]]
      BY <1>9 DEF MarkMessages
    <2> QED  BY <2>1, <2>2
  <1>10. ASSUME NEW n \in Nat, NEW new \in SUBSET Parties, messages' = [messages EXCEPT ![n].react = new]
         PROVE  Goal
    BY <1>10, ReactSet DEF Same
  <1>11. ASSUME WriteReaction PROVE Goal
    <2>1. worker.row \in Nat /\ React(worker.seen, "them", worker.job.ev.arg) \in SUBSET Parties
      BY <1>11, WorkerShape DEF WriteReaction, NoJob, React, Parties
    <2> QED  BY <1>10, <1>11, <2>1 DEF WriteReaction
  <1>12. ASSUME NEW r \in Requests, ReactWrite(r) PROVE Goal
    <2>1. req[r].row \in Nat /\ React(req[r].seen, "us", req[r].arg) \in SUBSET Parties
      BY <1>12, RequestShape DEF ReactWrite, React, Parties
    <2> QED  BY <1>10, <1>12, <2>1 DEF ReactWrite
  <1>13. ASSUME ReattachDelete \/ ReattachTrim PROVE Goal
    BY <1>3, <1>13 DEF ReattachDelete, ReattachTrim
  <1>14. ASSUME DeleteSession \/ CreateSession \/ ReattachLook \/ ReattachKeep \/ CountMessage
                \/ SyncChat \/ DatabaseFails \/ Crash
         PROVE  Goal
    <2>1. messages' = messages
      BY <1>14 DEF rows, DeleteSession, CreateSession, ReattachLook, ReattachKeep, CountMessage,
         SyncChat, DatabaseFails, Crash
    <2> QED  BY <1>1, <2>1
  <1>21. ASSUME NEW j \in queue, HandleMessage(j) \/ HandleChatsSynced(j) \/ HandleReaction(j)
         PROVE  Goal
    <2>1. messages' = messages
      BY <1>21 DEF rows, HandleMessage, HandleChatsSynced, HandleReaction
    <2> QED  BY <1>1, <2>1
  <1>22. ASSUME NEW ev \in Events, HandleEngineEvent(ev) PROVE Goal
    BY <1>1, <1>22 DEF rows, HandleEngineEvent
  <1>23. ASSUME UNCHANGED vars PROVE Goal
    BY <1>1, <1>23 DEF vars
  <1>15. ASSUME NEW r \in Requests,
                \/ SendPost(r) \/ SendCount(r) \/ ResetUnread(r) \/ SendPostFails(r)
                \/ SendSaveFails(r) \/ RequestFails(r)
                \/ CampaignLook(r) \/ CampaignAttach(r) \/ \E o \in Sends : CampaignUpsert(r, o)
                \/ \E o \in Sends : SendNew(r, o) \/ \E c \in DOMAIN convs : SendReply(r, o, c)
                \/ \E l \in DOMAIN messages, arg \in {"on", "off"} : ReactRead(r, l, arg)
         PROVE  Goal
    <2>1. messages' = messages
      BY <1>15 DEF rows, SendPost, SendCount, ResetUnread, SendPostFails, SendSaveFails,
         RequestFails, SendNew, SendReply, ReactRead, CampaignLook, CampaignAttach, CampaignUpsert
    <2> QED  BY <1>1, <2>1
  <1> HIDE DEF Goal
  <1>16. ASSUME Worker PROVE Goal
    <2>1. ASSUME NEW j \in queue, HandleMessageAck(j) PROVE Goal
      BY <1>2, <2>1 DEF AckStep
    <2>2. ASSUME RetryAck PROVE Goal
      BY <1>2, <2>2 DEF AckStep
    <2> QED  BY <1>5, <1>11, <1>13, <1>14, <1>16, <1>21, <2>1, <2>2 DEF Worker, Receive
  <1>17. ASSUME NEW r \in Requests, Ask(r) PROVE Goal
    BY <1>9, <1>15, <1>17 DEF Ask
  <1>18. ASSUME NEW r \in Requests, Handler(r) PROVE Goal
    BY <1>6, <1>7, <1>8, <1>12, <1>15, <1>18 DEF Handler
  <1>19. ASSUME Faults PROVE Goal
    BY <1>14, <1>15, <1>19 DEF Faults
  <1>24. ASSUME NEW r \in Requests, Mail(r) PROVE Goal
    <2>1. ASSUME CampaignPurge(r) PROVE Goal
      BY <1>3, <2>1 DEF CampaignPurge
    <2> QED  BY <1>15, <1>24, <2>1 DEF Mail
  <1>20. Goal
    BY <1>14, <1>24, <1>16, <1>17, <1>18, <1>19, <1>22, <1>23 DEF Next
  <1> QED  BY <1>20 DEF Goal

\* handleMessageAck: once an ack has written DELIVERED or READ, no step of a
\* send still under way writes SENT over it; only another ack changes it, or
\* the end of a send that failed after its message had gone out.
THEOREM AcksAreKept == Spec => AcksStand
  <1>1. TypeOK /\ RowInv /\ SendInv /\ [Next]_vars =>
          [\A k \in DOMAIN messages :
             messages[k].dir = "OUTBOUND" /\ messages[k].status \in {"DELIVERED", "READ"} =>
               messages'[k].status = messages[k].status \/ AckStep \/ messages[k].msg \in hist.upset]_vars
    BY AcksStandStep
  <1> QED
    BY <1>1, TypeInit, TypeStep, RowInit, RowStep, SendInit, SendInvStep, PTL DEF Spec, AcksStand

-----------------------------------------------------------------------------
(***************************************************************************)
(* Reactions: what was read is what the row says, until somebody overlaps. *)
(***************************************************************************)
Wished(k) == {p \in Parties : <<k, p>> \in hist.wish}
WorkerSaw ==
  worker.pc = "react" =>
    /\ worker.row \in DOMAIN messages
    /\ worker.row \notin hist.torn =>
         worker.seen = messages[worker.row].react /\ ~Reacting(worker.row)
RequestSaw(r) ==
  req[r].pc = "react" =>
    /\ req[r].row \in DOMAIN messages
    /\ req[r].row \notin hist.torn =>
         /\ req[r].seen = messages[req[r].row].react
         /\ \A q \in Requests \ {r} : req[q].pc = "react" => req[q].row # req[r].row
ReactInv ==
  /\ hist.wish \subseteq (DOMAIN messages) \X Parties
  /\ \A k \in DOMAIN messages : k \in hist.torn \/ messages[k].react = Wished(k)
  /\ WorkerSaw
  /\ \A r \in Requests : RequestSaw(r)

LEMMA ReactInit == Init => ReactInv
  BY DEF Init, ReactInv, WorkerSaw, RequestSaw, NoJob, NoReq

\* Steps that write no reaction and read none.
LEMMA ReactQuiet ==
  ASSUME ReactInv,
         DOMAIN messages \subseteq DOMAIN messages',
         \A k \in DOMAIN messages : messages'[k].react = messages[k].react,
         \A k \in DOMAIN messages' \ DOMAIN messages : messages'[k].react = {},
         hist'.torn = hist.torn, hist'.wish = hist.wish,
         worker' = worker \/ worker'.pc # "react",
         \A r \in Requests : req'[r].pc = "react" => req'[r] = req[r]
  PROVE  ReactInv'
  <1>1. hist'.wish \subseteq (DOMAIN messages') \X Parties
    BY DEF ReactInv
  <1>2. ASSUME NEW k \in DOMAIN messages' PROVE k \in hist'.torn \/ messages'[k].react = Wished(k)'
    <2>1. CASE k \in DOMAIN messages
      BY <2>1 DEF ReactInv, Wished
    <2>2. CASE k \notin DOMAIN messages
      BY <2>2 DEF ReactInv, Wished
    <2> QED  BY <2>1, <2>2
  <1>3. WorkerSaw'
    BY DEF ReactInv, WorkerSaw, Reacting
  <1>4. ASSUME NEW r \in Requests PROVE RequestSaw(r)'
    BY DEF ReactInv, RequestSaw
  <1> QED  BY <1>1, <1>2, <1>3, <1>4 DEF ReactInv

LEMMA ReactSame ==
  ASSUME ReactInv, messages' = messages, hist'.torn = hist.torn, hist'.wish = hist.wish,
         worker' = worker \/ worker'.pc # "react",
         \A r \in Requests : req'[r].pc = "react" => req'[r] = req[r]
  PROVE  ReactInv'
  <1>1. \A k \in DOMAIN messages' \ DOMAIN messages : messages'[k].react = {}
    OBVIOUS
  <1> QED  BY <1>1, ReactQuiet

LEMMA ReactRows ==
  ASSUME ReactInv, SameRows, \A k \in DOMAIN messages : Same(k, {"react"}),
         hist'.torn = hist.torn, hist'.wish = hist.wish,
         worker' = worker \/ worker'.pc # "react",
         \A r \in Requests : req'[r].pc = "react" => req'[r] = req[r]
  PROVE  ReactInv'
  BY ReactQuiet DEF SameRows, Same

\* One party's reaction is written; k and who are the row and the party.
LEMMA WishDoes ==
  ASSUME NEW W, NEW k, NEW who \in Parties, NEW arg, NEW l
  PROVE  {p \in Parties : <<l, p>> \in React(W, <<k, who>>, arg)} =
           IF l = k THEN React({p \in Parties : <<k, p>> \in W}, who, arg)
           ELSE {p \in Parties : <<l, p>> \in W}
  BY DEF React

LEMMA ReactSaved ==
  ASSUME TypeOK, ReactInv, NEW k \in DOMAIN messages, NEW who \in Parties, NEW arg, NEW seen \in SUBSET Parties,
         k \notin hist.torn => seen = messages[k].react,
         messages' = [messages EXCEPT ![k].react = React(seen, who, arg)],
         hist' = [hist EXCEPT !.wish = React(@, <<k, who>>, arg)]
  PROVE  /\ DOMAIN messages' = DOMAIN messages
         /\ hist'.wish \subseteq (DOMAIN messages') \X Parties
         /\ \A l \in DOMAIN messages' : l \in hist'.torn \/ messages'[l].react = Wished(l)'
         /\ \A l \in DOMAIN messages \ {k} : messages'[l].react = messages[l].react
         /\ hist'.torn = hist.torn
  <1>1. React(seen, who, arg) \in SUBSET Parties /\ k \in Nat
    BY RowShape DEF React
  <1>2. /\ DOMAIN messages' = DOMAIN messages
        /\ \A l \in DOMAIN messages :
             messages'[l].react = IF l = k THEN React(seen, who, arg) ELSE messages[l].react
    BY <1>1, ReactSet DEF SameRows
  <1>3. hist'.wish = React(hist.wish, <<k, who>>, arg) /\ hist'.torn = hist.torn
    BY DEF TypeOK
  <1>4. hist'.wish \subseteq (DOMAIN messages') \X Parties
    BY <1>2, <1>3 DEF ReactInv, React
  <1>5. ASSUME NEW l \in DOMAIN messages PROVE l \in hist'.torn \/ messages'[l].react = Wished(l)'
    <2>1. Wished(l)' = IF l = k THEN React(Wished(k), who, arg) ELSE Wished(l)
      <3>1. PICK W : W = hist.wish
        OBVIOUS
      <3>2. Wished(l)' = {p \in Parties : <<l, p>> \in React(W, <<k, who>>, arg)}
        BY <1>3, <3>1 DEF Wished
      <3>3. Wished(k) = {p \in Parties : <<k, p>> \in W} /\ Wished(l) = {p \in Parties : <<l, p>> \in W}
        BY <3>1 DEF Wished
      <3> QED  BY <3>2, <3>3, WishDoes
    <2>2. l \in hist.torn \/ messages[l].react = Wished(l)
      BY DEF ReactInv
    <2>3. CASE l = k
      BY <1>2, <1>3, <2>1, <2>2, <2>3
    <2>4. CASE l # k
      BY <1>2, <1>3, <2>1, <2>2, <2>4
    <2> QED  BY <2>3, <2>4
  <1> QED  BY <1>2, <1>3, <1>4, <1>5

LEMMA ReactStep == TypeOK /\ ReactInv /\ [Next]_vars => ReactInv'
  <1> SUFFICES ASSUME TypeOK, ReactInv, [Next]_vars PROVE ReactInv'
    OBVIOUS
  <1>1. ASSUME NEW j \in queue, HandleReaction(j) PROVE ReactInv'
    <2>1. CASE Rows(j.ev.msg) = {}
      <3>1. worker' = NoJob /\ hist' = hist /\ messages' = messages /\ req' = req
        BY <1>1, <2>1 DEF HandleReaction, JobDone, rows
      <3> QED  BY <3>1, ReactSame DEF NoJob
    <2>2. CASE Rows(j.ev.msg) # {}
      <3>1. PICK k \in Rows(j.ev.msg) :
              /\ worker' = [pc |-> "react", job |-> j, row |-> k, seen |-> messages[k].react]
              /\ hist' = IF Reacting(k) THEN [hist EXCEPT !.torn = @ \cup {k}] ELSE hist
        BY <1>1, <2>2 DEF HandleReaction
      <3>2. k \in DOMAIN messages
        BY DEF Rows
      <3>3. messages' = messages /\ req' = req
        BY <1>1 DEF HandleReaction, rows
      <3>4. /\ hist.torn \subseteq hist'.torn /\ hist'.wish = hist.wish
            /\ k \notin hist'.torn => ~Reacting(k)
        BY <3>1 DEF TypeOK
      <3>5. WorkerSaw'
        BY <3>1, <3>2, <3>3, <3>4 DEF WorkerSaw, Reacting
      <3>6. \A r \in Requests : RequestSaw(r)'
        BY <3>3, <3>4 DEF ReactInv, RequestSaw
      <3>7. \A l \in DOMAIN messages' : l \in hist'.torn \/ messages'[l].react = Wished(l)'
        BY <3>3, <3>4 DEF ReactInv, Wished
      <3>8. hist'.wish \subseteq (DOMAIN messages') \X Parties
        BY <3>3, <3>4 DEF ReactInv
      <3> QED  BY <3>5, <3>6, <3>7, <3>8 DEF ReactInv
    <2> QED  BY <2>1, <2>2
  <1>2. ASSUME WriteReaction PROVE ReactInv'
    <2>1. PICK k, seen : k = worker.row /\ seen = worker.seen
      OBVIOUS
    <2>2. /\ k \in DOMAIN messages
          /\ k \notin hist.torn => seen = messages[k].react /\ ~Reacting(k)
      BY <1>2, <2>1 DEF WriteReaction, ReactInv, WorkerSaw
    <2>3. seen \in SUBSET Parties /\ "them" \in Parties
      BY <1>2, <2>1, WorkerShape DEF WriteReaction, Parties
    <2>4. /\ messages' = [messages EXCEPT ![k].react = React(seen, "them", worker.job.ev.arg)]
          /\ hist' = [hist EXCEPT !.wish = React(@, <<k, "them">>, worker.job.ev.arg)]
          /\ worker' = NoJob /\ req' = req
      BY <1>2, <2>1 DEF WriteReaction, JobDone
    <2>5. /\ DOMAIN messages' = DOMAIN messages
          /\ hist'.wish \subseteq (DOMAIN messages') \X Parties
          /\ \A l \in DOMAIN messages' : l \in hist'.torn \/ messages'[l].react = Wished(l)'
          /\ \A l \in DOMAIN messages \ {k} : messages'[l].react = messages[l].react
          /\ hist'.torn = hist.torn
      BY <2>2, <2>3, <2>4, ReactSaved
    <2>6. WorkerSaw'
      BY <2>4 DEF WorkerSaw, NoJob
    <2>7. ASSUME NEW r \in Requests PROVE RequestSaw(r)'
      BY <2>2, <2>4, <2>5 DEF ReactInv, RequestSaw, Reacting
    <2> QED  BY <2>5, <2>6, <2>7 DEF ReactInv
  <1>3. ASSUME NEW r \in Requests, NEW k \in DOMAIN messages, NEW arg \in {"on", "off"},
               ReactRead(r, k, arg)
        PROVE  ReactInv'
    <2>1. PICK t : /\ t = [pc |-> "react", row |-> k, seen |-> messages[k].react, arg |-> arg]
                   /\ req' = [req EXCEPT ![r] = t]
      BY <1>3 DEF ReactRead
    <2>2. t \in RequestTasks /\ t.pc = "react" /\ t.row = k /\ t.seen = messages[k].react
      BY <2>1, RowShape, RequestTypes
    <2>3. req'[r] = t /\ \A q \in Requests \ {r} : req'[q] = req[q]
      BY <2>1, <2>2, BeginDoes
    <2>4. /\ messages' = messages /\ worker' = worker
          /\ hist' = IF Reacting(k) \/ (worker.pc = "react" /\ worker.row = k)
                     THEN [hist EXCEPT !.torn = @ \cup {k}] ELSE hist
      BY <1>3 DEF ReactRead, rows
    <2>5. /\ hist.torn \subseteq hist'.torn /\ hist'.wish = hist.wish
          /\ k \notin hist'.torn => ~Reacting(k) /\ ~(worker.pc = "react" /\ worker.row = k)
      BY <2>4 DEF TypeOK
    <2>6. req[r].pc # "react"
      BY <1>3 DEF ReactRead, Free, NoReq
    <2>7. WorkerSaw'
      BY <2>2, <2>3, <2>4, <2>5 DEF ReactInv, WorkerSaw, Reacting
    <2>8. ASSUME NEW q \in Requests PROVE RequestSaw(q)'
      <3>1. CASE q = r
        BY <2>2, <2>3, <2>4, <2>5, <3>1 DEF RequestSaw, Reacting
      <3>2. CASE q # r
        BY <2>2, <2>3, <2>4, <2>5, <3>2 DEF ReactInv, RequestSaw, Reacting
      <3> QED  BY <3>1, <3>2
    <2>9. /\ hist'.wish \subseteq (DOMAIN messages') \X Parties
          /\ \A l \in DOMAIN messages' : l \in hist'.torn \/ messages'[l].react = Wished(l)'
      BY <2>4, <2>5 DEF ReactInv, Wished
    <2> QED  BY <2>7, <2>8, <2>9 DEF ReactInv
  <1>4. ASSUME NEW r \in Requests, ReactWrite(r) PROVE ReactInv'
    <2>1. PICK k, seen : k = req[r].row /\ seen = req[r].seen
      OBVIOUS
    <2>2. /\ req[r].pc = "react" /\ k \in DOMAIN messages
          /\ k \notin hist.torn =>
               /\ seen = messages[k].react
               /\ \A q \in Requests \ {r} : req[q].pc = "react" => req[q].row # k
      BY <1>4, <2>1 DEF ReactWrite, ReactInv, RequestSaw
    <2>3. seen \in SUBSET Parties /\ "us" \in Parties
      BY <2>1, <2>2, RequestShape DEF Parties
    <2>4. /\ messages' = [messages EXCEPT ![k].react = React(seen, "us", req[r].arg)]
          /\ hist' = [hist EXCEPT !.wish = React(@, <<k, "us">>, req[r].arg)]
          /\ worker' = worker /\ Leave(r)
      BY <1>4, <2>1 DEF ReactWrite
    <2>5. /\ DOMAIN messages' = DOMAIN messages
          /\ hist'.wish \subseteq (DOMAIN messages') \X Parties
          /\ \A l \in DOMAIN messages' : l \in hist'.torn \/ messages'[l].react = Wished(l)'
          /\ \A l \in DOMAIN messages \ {k} : messages'[l].react = messages[l].react
          /\ hist'.torn = hist.torn
      BY <2>2, <2>3, <2>4, ReactSaved
    <2>6. req'[r].pc = "idle" /\ \A q \in Requests \ {r} : req'[q] = req[q]
      BY <2>4, LeaveDoes
    <2>7. WorkerSaw'
      BY <2>1, <2>2, <2>4, <2>5, <2>6 DEF ReactInv, WorkerSaw, Reacting
    <2>8. ASSUME NEW q \in Requests PROVE RequestSaw(q)'
      BY <2>1, <2>2, <2>5, <2>6 DEF ReactInv, RequestSaw
    <2> QED  BY <2>5, <2>7, <2>8 DEF ReactInv
  \* The others.
  <1>5. ASSUME UNCHANGED vars \/ DeleteSession \/ CreateSession \/ ReattachLook
               \/ \E ev \in Events : HandleEngineEvent(ev)
        PROVE  ReactInv'
    <2>1. /\ messages' = messages /\ hist'.torn = hist.torn /\ hist'.wish = hist.wish /\ req' = req
          /\ worker' = worker \/ worker'.pc # "react"
      BY <1>5 DEF vars, rows, DeleteSession, CreateSession, ReattachLook, NextStep, HandleEngineEvent, TypeOK
    <2> QED  BY <2>1, ReactSame
  <1>6. ASSUME NEW j \in queue, HandleMessage(j) \/ HandleChatsSynced(j) PROVE ReactInv'
    <2>1. /\ messages' = messages /\ hist'.torn = hist.torn /\ hist'.wish = hist.wish /\ req' = req
      BY <1>6 DEF rows, HandleMessage, HandleChatsSynced, TypeOK
    <2>2. worker' = NoJob \/ worker' = [pc |-> "reattach", job |-> j]
      BY <1>6 DEF HandleMessage, HandleChatsSynced, JobDone
    <2> QED  BY <2>1, <2>2, ReactSame DEF NoJob
  <1>7. ASSUME NEW dead, messages' = Detach(dead), req' = req, hist' = hist, worker'.pc # "react"
        PROVE  ReactInv'
    BY <1>7, DetachDoes, ReactRows DEF Same
  <1>8. ASSUME ReattachDelete \/ ReattachTrim PROVE ReactInv'
    <2>1. \E dead : messages' = Detach(dead)
      BY <1>8 DEF ReattachDelete, ReattachTrim
    <2>2. req' = req /\ hist' = hist
      BY <1>8 DEF ReattachDelete, ReattachTrim
    <2>3. worker'.pc \in {"sync", "conversation", "orphans"}
      <3>1. CASE ReattachDelete
        BY <3>1 DEF ReattachDelete, NextStep
      <3>2. CASE ReattachTrim
        BY <3>2 DEF ReattachTrim
      <3> QED  BY <1>8, <3>1, <3>2
    <2> QED  BY <1>7, <2>1, <2>2, <2>3
  <1>9. ASSUME JobThrows PROVE hist'.torn = hist.torn /\ hist'.wish = hist.wish /\ worker' = NoJob
    BY <1>9 DEF JobThrows, TypeOK
  <1>10. ASSUME ReattachKeep \/ DatabaseFails PROVE ReactInv'
    <2>1. \/ hist' = hist /\ worker'.pc # "react"
          \/ JobThrows
      BY <1>10 DEF ReattachKeep, DatabaseFails, JobDone, NextStep, NoJob
    <2>2. messages' = messages /\ req' = req
      BY <1>10 DEF ReattachKeep, DatabaseFails, rows
    <2> QED  BY <1>9, <2>1, <2>2, ReactSame DEF NoJob
  <1>11. ASSUME CountMessage PROVE ReactInv'
    <2>1. messages' = messages /\ req' = req
      BY <1>11 DEF CountMessage
    <2>2. CASE SessionFound(worker.job)
      <3>1. \/ hist' = hist
            \/ hist' = [hist EXCEPT !.disturbed = @ \cup {Upserted}]
        BY <1>11, <2>2 DEF CountMessage
      <3>2. hist'.torn = hist.torn /\ hist'.wish = hist.wish
        BY <3>1 DEF TypeOK
      <3>3. worker'.pc = "message"
        BY <1>11, <2>2 DEF CountMessage
      <3> QED  BY <2>1, <3>2, <3>3, ReactSame
    <2>3. CASE ~SessionFound(worker.job)
      BY <1>9, <1>11, <2>1, <2>3, ReactSame DEF CountMessage, NoJob
    <2> QED  BY <2>2, <2>3
  <1>12. ASSUME NEW u \in Row, u.react = {}, messages' = Append(messages, u),
                hist' = hist, worker' = worker \/ worker'.pc # "react",
                \A r \in Requests : req'[r].pc = "react" => req'[r] = req[r]
         PROVE  ReactInv'
    BY <1>12, RowAdded, ReactQuiet
  <1>13. ASSUME CreateMessage PROVE ReactInv'
    <2>1. /\ worker # NoJob /\ worker.job.ev \in Events /\ worker.conv \in 0 .. MaxSessions
          /\ worker.job.ev.kind \in {"received", "outgoing"} /\ worker.pc = "message"
      BY <1>13, WorkerShape DEF CreateMessage, NoJob, ConvIds
    <2>2. CASE SessionFound(worker.job)
      <3>1. PICK dir \in {"INBOUND", "OUTBOUND"}, st \in {"DELIVERED", "SENT"} :
              messages' = Append(messages,
                             NewRow(worker.job.ev.msg, dir, worker.conv, st, "engine"))
        BY <1>13, <2>2 DEF CreateMessage
      <3>2. PICK u : u = NewRow(worker.job.ev.msg, dir, worker.conv, st, "engine")
        OBVIOUS
      <3>3. st \in Statuses /\ worker.job.ev.msg \in Inbound \cup Sends
        BY <2>1, EventShape DEF Statuses
      <3>4. u \in Row /\ u.react = {}
        BY <2>1, <3>2, <3>3, NewRowShape
      <3>5. hist' = hist /\ worker' = NoJob /\ req' = req
        BY <1>13, <2>2 DEF CreateMessage, JobDone
      <3> QED  BY <1>12, <3>1, <3>2, <3>4, <3>5 DEF NoJob
    <2>3. CASE ~SessionFound(worker.job)
      BY <1>9, <1>13, <2>3, ReactSame DEF CreateMessage, NoJob
    <2> QED  BY <2>2, <2>3
  <1>14. ASSUME NEW r \in Requests, SendCreate(r) PROVE ReactInv'
    <2>1. /\ req[r].msg \in Sends /\ req[r].conv \in 0 .. MaxSessions /\ req[r].session \in ConvIds
          /\ req[r].by \in Senders
      BY <1>14, RequestShape DEF SendCreate, ConvIds
    <2>2. hist' = hist /\ worker' = worker
      BY <1>14 DEF SendCreate
    <2>3. CASE live /\ req[r].session = session /\ req[r].conv \in DOMAIN convs
      <3>1. PICK u : u = NewRow(req[r].msg, "OUTBOUND", req[r].conv, "PENDING", req[r].by)
        OBVIOUS
      <3>3. u \in Row /\ u.react = {}
        BY <1>14, <3>1, SentRow DEF SendCreate
      <3>4. messages' = Append(messages, u)
        BY <1>14, <2>3, <3>1 DEF SendCreate
      <3>5. PICK t : /\ t = [pc |-> "post", msg |-> req[r].msg, session |-> req[r].session,
                             row |-> Len(messages) + 1]
                     /\ req' = [req EXCEPT ![r] = t]
        BY <1>14, <2>3 DEF SendCreate
      <3>6. t \in RequestTasks /\ t.pc = "post"
        BY <2>1, <3>3, <3>4, <3>5, RowAdded, RequestTypes
      <3>7. \A q \in Requests : req'[q].pc = "react" => req'[q] = req[q]
        BY <3>5, <3>6, BeginDoes
      <3> QED  BY <1>12, <2>2, <3>3, <3>4, <3>7
    <2>4. CASE ~(live /\ req[r].session = session /\ req[r].conv \in DOMAIN convs)
      <3>1. Leave(r) /\ messages' = messages
        BY <1>14, <2>4 DEF SendCreate
      <3> QED  BY <2>2, <3>1, LeaveDoes, ReactSame
    <2> QED  BY <2>3, <2>4
  <1>15. ASSUME SyncChat PROVE ReactInv'
    <2>1. /\ messages' = messages /\ req' = req /\ worker' = NoJob
          /\ hist' = hist \/ hist' = [hist EXCEPT !.disturbed = @ \cup {Upserted}]
      BY <1>15 DEF SyncChat, JobDone
    <2>2. hist'.torn = hist.torn /\ hist'.wish = hist.wish
      BY <2>1 DEF TypeOK
    <2> QED  BY <2>1, <2>2, ReactSame DEF NoJob
  <1>16. ASSUME NEW j \in Jobs, j.ev.kind = "ack", NEW n, TryAck(j, n), hist' = hist, req' = req
         PROVE  ReactInv'
    <2>1. worker'.pc # "react"
      BY <1>16 DEF TryAck, JobDone, NoJob
    <2>2. CASE Rows(j.ev.msg) # {}
      <3>1. WriteAck(j) /\ j.ev.arg \in Acks
        BY <1>16, <2>2, JobShape, EventShape DEF TryAck
      <3> QED  BY <1>16, <2>1, <3>1, AckDoes, ReactRows DEF SameRows, Same, Rows
    <2>3. CASE Rows(j.ev.msg) = {}
      BY <1>16, <2>1, <2>3, ReactSame DEF TryAck
    <2> QED  BY <2>2, <2>3
  <1>17. ASSUME NEW j \in queue, HandleMessageAck(j) PROVE ReactInv'
    BY <1>16, <1>17, Taken DEF HandleMessageAck
  <1>18. ASSUME RetryAck PROVE ReactInv'
    BY <1>16, <1>18, WorkerShape DEF RetryAck, NoJob
  <1>19. ASSUME NEW r \in Requests, NEW t \in RequestTasks, t.pc # "react", req' = [req EXCEPT ![r] = t]
         PROVE  \A q \in Requests : req'[q].pc = "react" => req'[q] = req[q]
    BY <1>19, BeginDoes
  <1>20. ASSUME NEW r \in Requests, NEW o \in Sends, NEW c \in DOMAIN convs, SendReply(r, o, c)
         PROVE  ReactInv'
    <2>1. c \in ConvIds /\ "send" \in Senders
      BY ConvShape DEF Senders
    <2>2. \A q \in Requests : req'[q].pc = "react" => req'[q] = req[q]
      BY <1>20, <2>1, CreatesDoes DEF SendReply
    <2> QED  BY <1>20, <2>2, ReactSame DEF SendReply, rows
  <1>21. ASSUME NEW r \in Requests, NEW o \in Sends, SendNew(r, o) PROVE ReactInv'
    <2>1. Upserted \in ConvIds /\ "send" \in Senders
      BY <1>21, UpsertedConv DEF SendNew, Senders
    <2>2. \A q \in Requests : req'[q].pc = "react" => req'[q] = req[q]
      BY <1>21, <2>1, CreatesDoes DEF SendNew
    <2>4. hist' = hist \/ hist' = [hist EXCEPT !.split = @ \cup Orphans \cup {session}]
      BY <1>21 DEF SendNew
    <2>5. hist'.torn = hist.torn /\ hist'.wish = hist.wish
      BY <2>4 DEF TypeOK
    <2> QED  BY <1>21, <2>2, <2>5, ReactSame DEF SendNew
  <1>22. ASSUME NEW r \in Requests, NEW c \in DOMAIN convs, MarkMessages(r, c) PROVE ReactInv'
    <2>1. PICK t : t = [pc |-> "reset", conv |-> c] /\ req' = [req EXCEPT ![r] = t]
      BY <1>22 DEF MarkMessages
    <2>2. t \in RequestTasks /\ t.pc = "reset"
      BY <2>1, ConvShape, RequestTypes
    <2>3. SameRows /\ \A k \in DOMAIN messages : Same(k, {"react"})
      BY <1>22, MarkDoes DEF MarkMessages, Same
    <2>4. worker' = worker
      BY <1>22 DEF MarkMessages
    <2>5. hist'.torn = hist.torn /\ hist'.wish = hist.wish
      BY <1>22 DEF MarkMessages, TypeOK
    <2> QED  BY <1>19, <2>1, <2>2, <2>3, <2>4, <2>5, ReactRows
  <1>23. ASSUME NEW r \in Requests, Leave(r)
         PROVE  \A q \in Requests : req'[q].pc = "react" => req'[q] = req[q]
    BY <1>23, LeaveDoes
  <1>24. ASSUME NEW r \in Requests, req[r].pc \in {"post", "save", "count", "catch"},
                NEW pc \in {"post", "save", "count", "catch"}, Goto(r, pc)
         PROVE  \A q \in Requests : req'[q].pc = "react" => req'[q] = req[q]
    BY <1>24, GotoDoes
  <1>25. ASSUME NEW r \in Requests, SendPost(r) PROVE ReactInv'
    BY <1>24, <1>25, ReactSame DEF SendPost, rows
  <1>26. ASSUME NEW r \in Requests, SendSave(r) PROVE ReactInv'
    <2>1. hist'.torn = hist.torn /\ hist'.wish = hist.wish
      BY <1>26 DEF SendSave, TypeOK
    <2>2. SameRows /\ \A k \in DOMAIN messages : Same(k, {"react"})
      BY <1>26, SavedDoes DEF Same
    <2> QED  BY <1>24, <1>26, <2>1, <2>2, ReactRows DEF SendSave
  <1>27. ASSUME NEW r \in Requests, SendCount(r) PROVE ReactInv'
    <2>1. Leave(r) \/ Goto(r, "catch")
      BY <1>27 DEF SendCount
    <2>2. hist'.torn = hist.torn /\ hist'.wish = hist.wish
      BY <1>27 DEF SendCount, TypeOK
    <2> QED  BY <1>23, <1>24, <1>27, <2>1, <2>2, ReactSame DEF SendCount, rows
  <1>28. ASSUME NEW r \in Requests, SendCatch(r) PROVE ReactInv'
    <2>1. req[r].row \in Nat /\ "FAILED" \in Statuses
      BY <1>28, RequestShape DEF SendCatch, Statuses
    <2>2. SameRows /\ \A k \in DOMAIN messages : Same(k, {"react"})
      BY <1>28, <2>1, StatusSet DEF SendCatch, Same
    <2> QED  BY <1>23, <1>28, <2>2, ReactRows DEF SendCatch
  <1>29. ASSUME NEW r \in Requests, ResetUnread(r) PROVE ReactInv'
    BY <1>23, <1>29, ReactSame DEF ResetUnread
  <1>30. ASSUME NEW r \in Requests, SendPostFails(r) \/ SendSaveFails(r) PROVE ReactInv'
    <2>1. hist'.torn = hist.torn /\ hist'.wish = hist.wish
      BY <1>30 DEF SendPostFails, SendSaveFails, TypeOK
    <2> QED  BY <1>24, <1>30, <2>1, ReactSame DEF SendPostFails, SendSaveFails, rows
  <1>31. ASSUME NEW r \in Requests, RequestFails(r) PROVE ReactInv'
    <2>1. hist'.torn = hist.torn /\ hist'.wish = hist.wish
      BY <1>31 DEF RequestFails, TypeOK
    <2> QED  BY <1>23, <1>31, <2>1, ReactSame DEF RequestFails, rows
  <1>32. ASSUME Crash PROVE ReactInv'
    <2>1. hist'.torn = hist.torn /\ hist'.wish = hist.wish
      BY <1>32 DEF Crash, TypeOK
    <2>2. messages' = messages /\ worker'.pc # "react" /\ \A r \in Requests : req'[r].pc # "react"
      BY <1>32 DEF Crash, rows, NoJob, NoReq
    <2> QED  BY <2>1, <2>2, ReactSame
  <1>37. ASSUME NEW r \in Requests, CampaignLook(r) PROVE ReactInv'
    <2>1. PICK t : /\ t = [pc |-> IF Keepers # {} THEN "purge" ELSE "attach", session |-> session]
                   /\ req' = [req EXCEPT ![r] = t]
      BY <1>37 DEF CampaignLook
    <2>2. t \in RequestTasks /\ t.pc # "react"
      BY <2>1, RequestTypes DEF TypeOK
    <2> QED  BY <1>19, <1>37, <2>1, <2>2, ReactSame DEF CampaignLook, rows
  <1>38. ASSUME NEW r \in Requests, CampaignPurge(r) PROVE ReactInv'
    <2>1. SameRows /\ \A k \in DOMAIN messages : Same(k, {"react"})
      BY <1>38, DetachDoes DEF CampaignPurge, Same
    <2> QED  BY <1>38, <2>1, MailGoes, ReactRows DEF CampaignPurge
  <1>39. ASSUME NEW r \in Requests, CampaignAttach(r) PROVE ReactInv'
    <2>1. req[r].pc = "attach" /\ (Leave(r) \/ Goto(r, "upsert"))
      BY <1>39, AttachDoes DEF CampaignAttach
    <2> QED  BY <1>39, <2>1, LeaveDoes, MailGoes, ReactSame DEF CampaignAttach
  <1>40. ASSUME NEW r \in Requests, NEW o \in Sends, CampaignUpsert(r, o) PROVE ReactInv'
    <2>1. CASE live /\ req[r].session = session
      <3>1. Upserted \in ConvIds /\ "campaign" \in Senders
        BY <1>40, <2>1, UpsertedConv DEF CampaignUpsert, Senders
      <3>2. \A q \in Requests : req'[q].pc = "react" => req'[q] = req[q]
        BY <1>40, <2>1, <3>1, CreatesDoes DEF CampaignUpsert
      <3> QED  BY <1>40, <3>2, ReactSame DEF CampaignUpsert
    <2>2. CASE ~(live /\ req[r].session = session)
      BY <1>23, <1>40, <2>2, ReactSame DEF CampaignUpsert
    <2> QED  BY <2>1, <2>2
  <1>33. ASSUME Worker PROVE ReactInv'
    BY <1>1, <1>2, <1>5, <1>6, <1>8, <1>10, <1>11, <1>13, <1>15, <1>17, <1>18, <1>33
       DEF Worker, Receive
  <1>34. ASSUME NEW r \in Requests, Ask(r) PROVE ReactInv'
    BY <1>3, <1>20, <1>21, <1>22, <1>34, <1>37 DEF Ask
  <1>35. ASSUME NEW r \in Requests, Handler(r) PROVE ReactInv'
    BY <1>4, <1>14, <1>25, <1>26, <1>27, <1>28, <1>29, <1>35 DEF Handler
  <1>36. ASSUME Faults PROVE ReactInv'
    BY <1>10, <1>30, <1>31, <1>32, <1>36 DEF Faults
  <1>41. ASSUME NEW r \in Requests, Mail(r) PROVE ReactInv'
    BY <1>38, <1>39, <1>40, <1>41 DEF Mail
  <1> QED  BY <1>5, <1>33, <1>34, <1>35, <1>36, <1>41 DEF Next

\* handleMessageReaction and reactToMessage: nobody's reaction to a message is
\* lost or comes back, unless two of them were handled at once.
THEOREM ReactionsAreKept == Spec => []ReactionsKept
  <1>1. ReactInv => ReactionsKept
    BY DEF ReactInv, ReactionsKept, Wished
  <1> QED  BY <1>1, TypeInit, TypeStep, ReactInit, ReactStep, PTL DEF Spec

-----------------------------------------------------------------------------
(***************************************************************************)
(* A chat has a second conversation only where a send opened it.           *)
(***************************************************************************)
MessagesHome == \A k \in DOMAIN messages : messages[k].conv \in DOMAIN convs \cup {0}
ConvsSplit ==
  /\ live /\ session \in DOMAIN convs => convs[session].session = session
  /\ \A c, d \in DOMAIN convs : c # d => c \in hist.split
  /\ MessagesHome
JobsPast ==
  /\ \A j \in queue : j.session <= session
  /\ worker # NoJob => worker.job.session <= session
WorkerKnows ==
  /\ worker.pc = "orphans" =>
       /\ \A c \in worker.kept : c <= session /\ (live => c # session)
       /\ \A c, d \in worker.kept : c # d =>
            c \in hist.split /\ (c \in DOMAIN convs => c \in Orphans /\ d \in DOMAIN convs)
       /\ worker.kept = {} => Orphans \subseteq hist.split \/ Keepers # {}
  /\ worker.pc \in {"conversation", "sync"} =>
       (SessionFound(worker.job) /\ Keepers = {} => Orphans = {})
  /\ worker.pc = "message" => /\ SessionFound(worker.job) => worker.conv \in Keepers
                             /\ worker.conv <= worker.job.session
ChatInv == ConvsSplit /\ JobsPast /\ WorkerKnows

\* What the campaign worker has found when it deletes or upserts.
MailKnows ==
  \A r \in Requests :
    /\ req[r].pc \in {"purge", "attach", "upsert"} => req[r].session <= session
    /\ req[r].pc = "purge" => Orphans \subseteq hist.split \/ Keepers # {}
    /\ req[r].pc = "upsert" =>
         (live /\ req[r].session = session /\ Keepers = {} => Orphans = {})
ConvInv == ChatInv /\ MailKnows

LEMMA ConvInit == Init => ConvInv
  <1> SUFFICES ASSUME Init PROVE ConvInv
    OBVIOUS
  <1>1. session \in 1 .. (MaxSessions - 1) /\ DOMAIN convs = {session - 1} \ {0}
    BY DEF Init
  <1>2. session \in Int /\ session \notin DOMAIN convs
    BY <1>1, InboxAssumption
  <1>3. \A c, d \in DOMAIN convs : c = d
    BY <1>1
  <1>4. messages = <<>> /\ queue = {} /\ worker = NoJob
    BY DEF Init
  <1>5. MailKnows
    BY DEF Init, MailKnows, NoReq
  <1> QED
    BY <1>2, <1>3, <1>4, <1>5
       DEF ConvInv, ChatInv, ConvsSplit, MessagesHome, JobsPast, WorkerKnows, NoJob

\* Every conversation is this session's or an orphan.
LEMMA KeeperOrOrphan ==
  ASSUME TypeOK
  PROVE  /\ DOMAIN convs = Keepers \cup Orphans /\ Keepers \cap Orphans = {}
         /\ ~live => Keepers = {}
         /\ \A c, d \in Keepers : c = d
  <1>1. session # 0
    BY InboxAssumption DEF TypeOK, ConvIds
  <1> QED  BY <1>1 DEF TypeOK, Keepers, Orphans

\* Steps that leave the conversations alone.
ConvsStay ==
  /\ UNCHANGED <<session, live>>
  /\ DOMAIN convs' = DOMAIN convs /\ \A c \in DOMAIN convs : convs'[c].session = convs[c].session
  /\ hist'.split = hist.split

LEMMA SplitStays ==
  ASSUME ChatInv, ConvsStay, MessagesHome'
  PROVE  ConvsSplit'
  BY DEF ChatInv, ConvsSplit, ConvsStay

LEMMA HomeStays ==
  ASSUME ChatInv, TypeOK, DOMAIN convs \subseteq DOMAIN convs',
         \/ messages' = messages
         \/ SameRows /\ \A k \in DOMAIN messages : Same(k, {"conv"})
         \/ \E u \in Row : messages' = Append(messages, u) /\ u.conv \in DOMAIN convs
  PROVE  MessagesHome'
  <1>1. CASE messages' = messages
    BY <1>1 DEF ChatInv, ConvsSplit, MessagesHome
  <1>2. CASE SameRows /\ \A k \in DOMAIN messages : Same(k, {"conv"})
    BY <1>2 DEF ChatInv, ConvsSplit, MessagesHome, SameRows, Same
  <1>3. ASSUME NEW u \in Row, messages' = Append(messages, u), u.conv \in DOMAIN convs
        PROVE  MessagesHome'
    BY <1>3, RowAdded DEF ChatInv, ConvsSplit, MessagesHome
  <1> QED  BY <1>1, <1>2, <1>3

LEMMA KeepersStay ==
  ASSUME ConvsStay
  PROVE  Keepers' = Keepers /\ Orphans' = Orphans
  BY DEF ConvsStay, Keepers, Orphans

LEMMA WorkerKnowsStays ==
  ASSUME ChatInv, ConvsStay,
         worker' = worker \/ worker'.pc \notin {"orphans", "conversation", "sync", "message"}
  PROVE  WorkerKnows'
  BY KeepersStay DEF ChatInv, WorkerKnows, ConvsStay, SessionFound

\* A job the worker takes or puts back is not of a later session.
LEMMA JobsStay ==
  ASSUME ChatInv, session' = session,
         \A j \in queue' : j \in queue \/ (worker # NoJob /\ j.session = worker.job.session),
         \/ worker' = NoJob
         \/ worker # NoJob /\ worker'.job = worker.job
         \/ worker'.job \in queue
  PROVE  JobsPast'
  BY DEF ChatInv, JobsPast

\* The steps that do all of this.
LEMMA ConvQuiet ==
  ASSUME ChatInv, TypeOK, ConvsStay,
         \/ messages' = messages
         \/ SameRows /\ \A k \in DOMAIN messages : Same(k, {"conv"})
         \/ \E u \in Row : messages' = Append(messages, u) /\ u.conv \in DOMAIN convs,
         worker' = worker \/ worker'.pc \notin {"orphans", "conversation", "sync", "message"},
         \A j \in queue' : j \in queue \/ (worker # NoJob /\ j.session = worker.job.session),
         \/ worker' = NoJob \/ worker' = worker
         \/ worker # NoJob /\ worker'.job = worker.job
         \/ worker'.job \in queue
  PROVE  ChatInv'
  <1>1. MessagesHome'
    BY HomeStays DEF ConvsStay
  <1>2. JobsPast'
    BY JobsStay DEF ConvsStay
  <1> QED  BY <1>1, <1>2, SplitStays, WorkerKnowsStays DEF ChatInv

LEMMA ThrowConv ==
  ASSUME TypeOK, ChatInv, JobThrows, worker # NoJob, messages' = messages, UNCHANGED <<session, live, convs>>
  PROVE  ChatInv'
  <1>1. hist'.split = hist.split
    BY DEF JobThrows, TypeOK
  <1>2. worker' = NoJob /\ \A j \in queue' : j \in queue \/ j.session = worker.job.session
    BY ThrowDoes
  <1> QED  BY <1>1, <1>2, ConvQuiet DEF ConvsStay, NoJob

\* The upsert keeps the rule, if it finds no orphan where it makes a row.
LEMMA UpsertConv ==
  ASSUME TypeOK, ChatInv, NEW c, NEW n, Upserts(c, n), session' = session, live' = live, live,
         hist.split \subseteq hist'.split,
         Keepers = {} => Orphans \cup {c} \subseteq hist'.split \/ Orphans = {},
         messages' = messages
  PROVE  /\ ConvsSplit' /\ c \in Keepers' /\ Keepers \subseteq Keepers' /\ Orphans' = Orphans
         /\ DOMAIN convs' \subseteq DOMAIN convs \cup {session}
         /\ DOMAIN convs \subseteq DOMAIN convs'
  <1>1. DOMAIN convs' = DOMAIN convs \cup {c} /\ convs'[c].session = session
    BY DEF Upserts
  <1>2. \A d \in DOMAIN convs \ {c} : convs'[d] = convs[d]
    BY DEF Upserts
  <1>3. c \in Keepers' /\ Keepers \subseteq Keepers'
    BY <1>1, <1>2 DEF Keepers, Upserts
  <1>4. MessagesHome'
    BY <1>1, HomeStays
  <1>5. live' /\ session' \in DOMAIN convs' => convs'[session'].session = session'
    BY <1>1, <1>2 DEF ChatInv, ConvsSplit
  <1>6. ASSUME NEW d \in DOMAIN convs', NEW e \in DOMAIN convs', d # e PROVE d \in hist'.split
    <2>1. CASE Keepers # {}
      <3>1. d \in DOMAIN convs /\ e \in DOMAIN convs
        BY <1>1, <2>1 DEF Upserts, Keepers
      <3> QED  BY <1>6, <3>1 DEF ChatInv, ConvsSplit
    <2>2. CASE Keepers = {} /\ Orphans = {}
      <3>1. DOMAIN convs = {}
        BY <2>2, KeeperOrOrphan
      <3> QED  BY <1>1, <1>6, <3>1
    <2>3. CASE Keepers = {} /\ Orphans # {}
      <3>1. d \in Orphans \cup {c}
        BY <1>1, <2>3, KeeperOrOrphan
      <3> QED  BY <2>3, <3>1
    <2> QED  BY <2>1, <2>2, <2>3
  <1>7. \A d \in DOMAIN convs : convs[d].session = 0 => convs'[d].session = 0
    <2> SUFFICES ASSUME NEW d \in DOMAIN convs, convs[d].session = 0 PROVE convs'[d].session = 0
      OBVIOUS
    <2>1. d \notin Keepers
      BY InboxAssumption DEF Keepers, TypeOK, ConvIds
    <2>2. d # session
      BY <2>1 DEF ChatInv, ConvsSplit, Keepers
    <2>3. d # c
      BY <2>1, <2>2 DEF Upserts
    <2> QED  BY <1>2, <2>3
  <1>8. session # 0
    BY InboxAssumption DEF TypeOK, ConvIds
  <1>9. Orphans' = Orphans
    BY <1>1, <1>2, <1>7, <1>8 DEF Orphans, Upserts
  <1>10. DOMAIN convs' \subseteq DOMAIN convs \cup {session}
    BY <1>1 DEF Upserts, Keepers
  <1> QED  BY <1>1, <1>3, <1>4, <1>5, <1>6, <1>9, <1>10 DEF ConvsSplit

\* An upsert beside the webhook worker.
LEMMA UpsertBeside ==
  ASSUME TypeOK, ChatInv, NEW c, NEW n, Upserts(c, n), live,
         UNCHANGED <<session, live, messages, queue, worker>>, hist.split \subseteq hist'.split,
         Keepers = {} => Orphans \cup {c} \subseteq hist'.split \/ Orphans = {}
  PROVE  ChatInv'
  <1>1. /\ ConvsSplit' /\ Keepers' # {} /\ Keepers \subseteq Keepers' /\ Orphans' = Orphans
        /\ DOMAIN convs' \subseteq DOMAIN convs \cup {session} /\ DOMAIN convs \subseteq DOMAIN convs'
    BY UpsertConv
  <1>2. JobsPast'
    BY DEF ChatInv, JobsPast
  <1>3. worker # NoJob => SessionFound(worker.job)' = SessionFound(worker.job)
    BY DEF SessionFound
  <1>4. ASSUME worker.pc = "orphans" PROVE WorkerKnows'
    BY <1>1, <1>4 DEF ChatInv, WorkerKnows
  <1>5. ASSUME worker.pc = "message" PROVE WorkerKnows'
    <2>1. worker # NoJob
      BY <1>5 DEF NoJob
    <2> QED  BY <1>1, <1>3, <1>5, <2>1 DEF ChatInv, WorkerKnows
  <1>6. ASSUME worker.pc \notin {"orphans", "message"} PROVE WorkerKnows'
    BY <1>1, <1>6 DEF WorkerKnows
  <1> QED  BY <1>1, <1>2, <1>4, <1>5, <1>6 DEF ChatInv

LEMMA ConvSession ==
  ASSUME TypeOK, ChatInv, DeleteSession \/ CreateSession
  PROVE  ChatInv'
  <1>0. session \in Nat /\ session # 0 /\ \A j \in queue : j.session \in Nat
    BY JobShape, InboxAssumption DEF TypeOK, ConvIds
  <1>1. ASSUME DeleteSession PROVE ChatInv'
    <2>1. /\ DOMAIN convs' = DOMAIN convs /\ Keepers' = {}
          /\ \A d \in DOMAIN convs : convs'[d].session = 0
      BY <1>1, OrphansMade
    <2>2. /\ session' = session /\ ~live' /\ messages' = messages /\ queue' = queue /\ worker' = worker
      BY <1>1 DEF DeleteSession
    <2>3. hist' = IF worker.pc = "orphans" \/ Purging
                  THEN [hist EXCEPT !.split = @ \cup Keepers] ELSE hist
      BY <1>1 DEF DeleteSession
    <2>4. hist'.split = IF worker.pc = "orphans" \/ Purging
                        THEN hist.split \cup Keepers ELSE hist.split
      BY <2>3 DEF TypeOK
    <2>5. ConvsSplit'
      BY <2>1, <2>2, <2>4 DEF ChatInv, ConvsSplit, MessagesHome
    <2>6. JobsPast'
      BY <2>2 DEF ChatInv, JobsPast
    <2>7. ~SessionFound(worker.job)'
      BY <2>2 DEF SessionFound
    <2>8. ASSUME worker.pc = "orphans", worker.kept = {} PROVE Orphans' \subseteq hist'.split
      <3>1. Orphans' = DOMAIN convs
        BY <2>1 DEF Orphans
      <3>2. CASE Orphans \subseteq hist.split
        BY <2>4, <2>8, <3>1, <3>2, KeeperOrOrphan
      <3>3. CASE Keepers # {}
        <4>1. PICK k : k \in Keepers
          BY <3>3
        <4>2. \A c \in Orphans : c # k /\ c \in DOMAIN convs /\ k \in DOMAIN convs
          BY <4>1, KeeperOrOrphan
        <4>3. Orphans \subseteq hist.split
          BY <4>2 DEF ChatInv, ConvsSplit
        <4> QED  BY <2>4, <2>8, <3>1, <4>3, KeeperOrOrphan
      <3> QED  BY <2>8, <3>2, <3>3 DEF ChatInv, WorkerKnows
    <2>10. Orphans' = DOMAIN convs' /\ hist.split \subseteq hist'.split
      BY <2>1, <2>4 DEF Orphans
    <2>9. WorkerKnows'
      BY <2>1, <2>2, <2>7, <2>8, <2>10 DEF ChatInv, WorkerKnows
    <2> QED  BY <2>5, <2>6, <2>9 DEF ChatInv
  <1>2. ASSUME CreateSession PROVE ChatInv'
    <2>1. /\ ~live /\ live' /\ session' = session + 1
          /\ UNCHANGED <<convs, messages, queue, worker, hist>>
      BY <1>2 DEF CreateSession
    <2>2. Keepers = {} /\ Orphans' = Orphans /\ DOMAIN convs \subseteq 1 .. session
      BY <2>1, KeeperOrOrphan DEF Orphans, TypeOK
    <2>3. ConvsSplit'
      BY <1>0, <2>1, <2>2 DEF ChatInv, ConvsSplit, MessagesHome
    <2>4. worker # NoJob => worker.job \in Jobs
      BY WorkerShape
    <2>5. worker # NoJob => worker.job.session \in Nat /\ worker.job.session <= session
      BY <2>4, JobShape DEF ConvIds, ChatInv, JobsPast
    <2>6. JobsPast'
      BY <1>0, <2>1, <2>5 DEF ChatInv, JobsPast
    <2>7. worker # NoJob => ~SessionFound(worker.job)'
      BY <1>0, <2>1, <2>5 DEF SessionFound
    <2>8. worker.pc \in {"orphans", "conversation", "sync", "message"} => worker # NoJob
      BY DEF NoJob
    <2>10. ASSUME worker.pc = "orphans", NEW c \in worker.kept PROVE c <= session' /\ c # session'
      <3>1. c \in Nat /\ c <= session
        BY <2>10, WorkerShape DEF ChatInv, WorkerKnows, ConvIds
      <3> QED  BY <1>0, <2>1, <3>1
    <2>11. ASSUME worker.pc = "orphans" PROVE WorkerKnows'
      BY <2>1, <2>2, <2>10, <2>11 DEF ChatInv, WorkerKnows
    <2>9. WorkerKnows'
      BY <2>1, <2>7, <2>8, <2>11 DEF ChatInv, WorkerKnows
    <2> QED  BY <2>3, <2>6, <2>9 DEF ChatInv
  <1> QED  BY <1>1, <1>2

\* reattachOrphan, and the upserts after it.
LEMMA ConvWorker ==
  ASSUME TypeOK, ChatInv,
         ReattachLook \/ ReattachDelete \/ ReattachTrim \/ ReattachKeep \/ CountMessage \/ SyncChat
  PROVE  ChatInv'
  <1>0. session \in Nat /\ session # 0
    BY InboxAssumption DEF TypeOK, ConvIds
  <1>1. ASSUME ReattachLook PROVE ChatInv'
    <2>1. UNCHANGED <<session, live, convs, messages, queue, hist>> /\ worker # NoJob
      BY <1>1 DEF ReattachLook, rows, NoJob
    <2>2. worker'.job = worker.job
      BY <1>1 DEF ReattachLook
    <2>3. ConvsSplit' /\ JobsPast' /\ Keepers' = Keepers /\ Orphans' = Orphans
      BY <2>1, <2>2 DEF ChatInv, ConvsSplit, MessagesHome, JobsPast, Keepers, Orphans
    <2>4. CASE MineOrAny # {}
      <3>1. worker' = [pc |-> "orphans", job |-> worker.job, kept |-> {}]
        BY <1>1, <2>4 DEF ReattachLook
      <3>2. Keepers # {}
        BY <2>4 DEF MineOrAny
      <3> QED  BY <2>3, <3>1, <3>2 DEF ChatInv, WorkerKnows
    <2>5. CASE MineOrAny = {} /\ Orphans # {}
      <3>1. worker' = [pc |-> "orphans", job |-> worker.job, kept |-> Orphans]
        BY <1>1, <2>5 DEF ReattachLook
      <3>2. \A c \in Orphans : c <= session /\ (live => c # session) /\ c \in DOMAIN convs
        BY <1>0 DEF Orphans, ChatInv, ConvsSplit, TypeOK
      <3>3. \A c, d \in Orphans : c # d => c \in hist.split
        BY DEF Orphans, ChatInv, ConvsSplit
      <3>4. WorkerKnows'
        BY <2>1, <2>3, <2>5, <3>1, <3>2, <3>3 DEF WorkerKnows
      <3> QED  BY <2>3, <3>4 DEF ChatInv
    <2>6. CASE MineOrAny = {} /\ Orphans = {}
      <3>1. worker' = [pc |-> NextStep, job |-> worker.job]
        BY <1>1, <2>6 DEF ReattachLook
      <3> QED  BY <2>3, <2>6, <3>1 DEF ChatInv, WorkerKnows, NextStep
    <2> QED  BY <2>4, <2>5, <2>6
  <1>2. ASSUME NEW dead, dead \cap Keepers = {}, convs' = Without(dead), messages' = Detach(dead),
               UNCHANGED <<session, live, queue, hist>>, worker # NoJob, worker'.job = worker.job
        PROVE  /\ ConvsSplit' /\ JobsPast' /\ Keepers' = Keepers /\ Orphans' = Orphans \ dead
               /\ DOMAIN convs' = DOMAIN convs \ dead
               /\ \A c \in DOMAIN convs' : convs'[c].session = convs[c].session
    <2>1. /\ DOMAIN convs' = DOMAIN convs \ dead
          /\ \A c \in DOMAIN convs \ dead : convs'[c] = convs[c]
      BY <1>2, WithoutDoes
    <2>2. MessagesHome'
      <3>1. SameRows /\ \A k \in DOMAIN messages :
              messages'[k].conv = IF messages[k].conv \in dead THEN 0 ELSE messages[k].conv
        BY <1>2, DetachDoes
      <3> QED  BY <2>1, <3>1 DEF ChatInv, ConvsSplit, MessagesHome, SameRows
    <2>3. ConvsSplit'
      BY <1>2, <2>1, <2>2 DEF ChatInv, ConvsSplit
    <2>4. JobsPast'
      BY <1>2 DEF ChatInv, JobsPast
    <2>6. Keepers' = Keepers /\ Orphans' = Orphans \ dead
      BY <1>2, <2>1 DEF Keepers, Orphans
    <2> QED  BY <2>1, <2>3, <2>4, <2>6
  <1>3. ASSUME ReattachDelete PROVE ChatInv'
    <2>1. /\ worker # NoJob /\ worker' = [pc |-> NextStep, job |-> worker.job]
          /\ convs' = Without(Orphans) /\ messages' = Detach(Orphans)
          /\ UNCHANGED <<session, live, queue, hist>>
      BY <1>3 DEF ReattachDelete, NoJob
    <2>2. worker'.job = worker.job /\ worker'.pc \in {"sync", "conversation"}
      BY <2>1 DEF NextStep
    <2>4. Orphans \cap Keepers = {}
      BY KeeperOrOrphan
    <2>3. ConvsSplit' /\ JobsPast' /\ Orphans' = {}
      BY <1>2, <2>1, <2>2, <2>4
    <2> QED  BY <2>2, <2>3 DEF ChatInv, WorkerKnows
  <1>4. ASSUME ReattachTrim PROVE ChatInv'
    <2>1. PICK c \in Oldest(worker.kept) :
            /\ convs' = Without(worker.kept \ {c})
            /\ messages' = Detach(worker.kept \ {c})
            /\ worker' = [pc |-> "orphans", job |-> worker.job, kept |-> {c}]
      BY <1>4 DEF ReattachTrim
    <2>2. /\ worker # NoJob /\ worker'.job = worker.job /\ worker.pc = "orphans"
          /\ UNCHANGED <<session, live, queue, hist>>
      BY <1>4, <2>1 DEF ReattachTrim, NoJob
    <2>3. c \in worker.kept /\ c <= session /\ (live => c # session)
      BY <2>2 DEF ChatInv, WorkerKnows, Oldest
    <2>4. (worker.kept \ {c}) \cap Keepers = {}
      <3>1. \A d \in worker.kept : d # c => (d \in DOMAIN convs => d \in Orphans)
        BY <2>2, <2>3 DEF ChatInv, WorkerKnows
      <3> QED  BY <3>1, KeeperOrOrphan
    <2>5. ConvsSplit' /\ JobsPast'
      BY <1>2, <2>1, <2>2, <2>4
    <2>6. WorkerKnows'
      BY <2>1, <2>2, <2>3 DEF WorkerKnows
    <2> QED  BY <2>5, <2>6 DEF ChatInv
  <1>5. ASSUME ReattachKeep PROVE ChatInv'
    <2>1. PICK c \in worker.kept :
            /\ worker.kept = {c}
            /\ IF Attachable(c)
               THEN /\ convs' = [convs EXCEPT ![c].session = session]
                    /\ worker' = [pc |-> NextStep, job |-> worker.job]
                    /\ UNCHANGED <<queue, hist>>
               ELSE /\ convs' = convs
                    /\ IF worker.job.ev.kind = "sync"
                       THEN JobDone /\ UNCHANGED <<queue, hist>> ELSE JobThrows
      BY <1>5 DEF ReattachKeep
    <2>2. /\ worker # NoJob /\ worker.pc = "orphans" /\ UNCHANGED <<session, live, messages>>
      BY <1>5 DEF ReattachKeep, NoJob
    <2>3. c \in ConvIds
      BY <2>1, <2>2, WorkerShape
    <2>4. CASE Attachable(c)
      <3>1. /\ convs' = [convs EXCEPT ![c].session = session]
            /\ worker' = [pc |-> NextStep, job |-> worker.job]
            /\ UNCHANGED <<queue, hist>> /\ live /\ Keepers \subseteq {c} /\ c \in DOMAIN convs
        BY <2>1, <2>4 DEF SessionFound, Attachable
      <3>2. /\ DOMAIN convs' = DOMAIN convs
            /\ \A d \in DOMAIN convs :
                 convs'[d].session = IF d = c THEN session ELSE convs[d].session
        BY <2>2, <2>3, <3>1, KeptDoes
      <3>3. ConvsSplit' /\ JobsPast'
        BY <2>2, <3>1, <3>2 DEF ChatInv, ConvsSplit, MessagesHome, JobsPast
      <3>4. c \in Keepers'
        BY <2>2, <3>1, <3>2 DEF Keepers
      <3>5. worker'.pc \in {"sync", "conversation"}
        BY <3>1 DEF NextStep
      <3> QED  BY <3>3, <3>4, <3>5 DEF ChatInv, WorkerKnows
    <2>5. CASE ~Attachable(c)
      <3>1. /\ convs' = convs
            /\ \/ worker' = NoJob /\ UNCHANGED <<queue, hist>>
               \/ JobThrows
        BY <2>1, <2>5 DEF JobDone
      <3>2. CASE JobThrows
        BY <2>2, <3>1, <3>2, ThrowConv
      <3>3. CASE worker' = NoJob /\ UNCHANGED <<queue, hist>>
        BY <2>2, <3>1, <3>3, ConvQuiet DEF ConvsStay, NoJob
      <3> QED  BY <3>1, <3>2, <3>3
    <2> QED  BY <2>4, <2>5
  <1>6. ASSUME CountMessage PROVE ChatInv'
    <2>1. /\ worker # NoJob /\ worker.pc = "conversation" /\ UNCHANGED <<session, live, messages>>
      BY <1>6 DEF CountMessage, NoJob
    <2>2. CASE SessionFound(worker.job)
      <3>1. PICK one \in {0, 1} :
              /\ Upsert(TRUE, one)
              /\ worker' = [pc |-> "message", job |-> worker.job, conv |-> Upserted]
              /\ queue' = queue
        BY <1>6, <2>2 DEF CountMessage
      <3>2. PICK n : Upserts(Upserted, n)
        BY <3>1, UpsertDoes
      <3>3. \/ hist' = hist
            \/ hist' = [hist EXCEPT !.disturbed = @ \cup {Upserted}]
        BY <1>6, <2>2 DEF CountMessage
      <3>4. hist'.split = hist.split
        BY <3>3 DEF TypeOK
      <3>5. Keepers = {} => Orphans = {}
        BY <2>1, <2>2 DEF ChatInv, WorkerKnows
      <3>6. ConvsSplit' /\ Upserted \in Keepers'
        BY <2>1, <2>2, <3>2, <3>4, <3>5, UpsertConv DEF SessionFound
      <3>7. JobsPast'
        BY <2>1, <3>1 DEF ChatInv, JobsPast
      <3>8. worker'.pc = "message" /\ worker'.conv \in Keepers'
        BY <3>1, <3>6
      <3>9. worker'.conv <= worker'.job.session
        BY <2>2, <3>1, <3>2 DEF Upserts, SessionFound
      <3> QED  BY <3>6, <3>7, <3>8, <3>9 DEF ChatInv, WorkerKnows
    <2>3. CASE ~SessionFound(worker.job)
      BY <1>6, <2>1, <2>3, ThrowConv DEF CountMessage
    <2> QED  BY <2>2, <2>3
  <1>7. ASSUME SyncChat PROVE ChatInv'
    <2>1. /\ worker # NoJob /\ worker.pc = "sync" /\ UNCHANGED <<session, live, messages, queue>>
          /\ worker' = NoJob
      BY <1>7 DEF SyncChat, NoJob, JobDone
    <2>2. CASE convs' = convs /\ hist' = hist
      BY <2>1, <2>2, ConvQuiet DEF ConvsStay, NoJob
    <2>3. CASE ~(convs' = convs /\ hist' = hist)
      <3>1. PICK count \in {0, 1} :
              /\ SessionFound(worker.job)
              /\ Upsert(FALSE, count)
              /\ hist' = [hist EXCEPT !.disturbed = @ \cup {Upserted}]
        BY <1>7, <2>3 DEF SyncChat, HasRow
      <3>2. PICK n : Upserts(Upserted, n)
        BY <3>1, UpsertDoes
      <3>3. hist'.split = hist.split
        BY <3>1 DEF TypeOK
      <3>4. Keepers = {} => Orphans = {}
        BY <2>1, <3>1 DEF ChatInv, WorkerKnows
      <3>5. ConvsSplit'
        BY <2>1, <3>1, <3>2, <3>3, <3>4, UpsertConv DEF SessionFound
      <3> QED  BY <2>1, <3>5 DEF ChatInv, JobsPast, WorkerKnows, NoJob
    <2> QED  BY <2>2, <2>3
  <1> QED  BY <1>1, <1>3, <1>4, <1>5, <1>6, <1>7

\* The campaign worker beside the webhook worker.
LEMMA PurgeDoes ==
  ASSUME TypeOK, NEW r \in Requests, CampaignPurge(r)
  PROVE  /\ DOMAIN convs' = DOMAIN convs \ Orphans
         /\ \A c \in DOMAIN convs' : convs'[c] = convs[c]
         /\ Keepers' = Keepers /\ Orphans' = {} /\ DOMAIN convs' = Keepers
         /\ UNCHANGED <<session, live, queue, worker, hist>>
  <1>1. convs' = Without(Orphans) /\ UNCHANGED <<session, live, queue, worker, hist>>
    BY DEF CampaignPurge
  <1>2. /\ DOMAIN convs' = DOMAIN convs \ Orphans
        /\ \A c \in DOMAIN convs' : convs'[c] = convs[c]
    BY <1>1, WithoutDoes
  <1>3. DOMAIN convs = Keepers \cup Orphans /\ Keepers \cap Orphans = {}
    BY KeeperOrOrphan
  <1> QED  BY <1>1, <1>2, <1>3 DEF Keepers, Orphans

LEMMA ConvMail ==
  ASSUME TypeOK, ConvInv, NEW r \in Requests, Mail(r)
  PROVE  ChatInv'
  <1>0. ChatInv /\ MailKnows
    BY DEF ConvInv
  <1>1. ASSUME CampaignPurge(r) PROVE ChatInv'
    <2>1. /\ \A c \in DOMAIN convs' : convs'[c] = convs[c]
          /\ Keepers' = Keepers /\ Orphans' = {} /\ DOMAIN convs' = Keepers
          /\ UNCHANGED <<session, live, queue, worker, hist>>
      BY <1>1, PurgeDoes
    <2>2. DOMAIN convs = Keepers \cup Orphans /\ Keepers \cap Orphans = {}
      BY KeeperOrOrphan
    <2>3. MessagesHome'
      <3>1. SameRows /\ \A k \in DOMAIN messages :
              messages'[k].conv = IF messages[k].conv \in Orphans THEN 0 ELSE messages[k].conv
        BY <1>1, DetachDoes DEF CampaignPurge
      <3> QED  BY <1>0, <2>1, <2>2, <3>1 DEF ChatInv, ConvsSplit, MessagesHome, SameRows
    <2>4. ConvsSplit'
      BY <1>0, <2>1, <2>2, <2>3 DEF ChatInv, ConvsSplit
    <2>5. JobsPast'
      BY <1>0, <2>1 DEF ChatInv, JobsPast
    <2>6. SessionFound(worker.job)' = SessionFound(worker.job)
      BY <2>1 DEF SessionFound
    <2>7. WorkerKnows'
      BY <1>0, <2>1, <2>2, <2>6 DEF ChatInv, WorkerKnows
    <2> QED  BY <2>4, <2>5, <2>7 DEF ChatInv
  <1>2. ASSUME CampaignAttach(r) PROVE ChatInv'
    <2>1. UNCHANGED <<session, live, messages, queue, worker, hist>>
      BY <1>2 DEF CampaignAttach
    <2>2. CASE convs' = convs
      BY <1>0, <2>1, <2>2, ConvQuiet DEF ConvsStay
    <2>3. CASE convs' # convs
      <3>1. PICK c \in ConvIds : /\ Orphans = {c} /\ convs' = [convs EXCEPT ![c].session = session]
                                 /\ live /\ Keepers = {}
        BY <1>2, <2>3, AttachDoes
      <3>2. /\ DOMAIN convs' = DOMAIN convs
            /\ \A d \in DOMAIN convs :
                 convs'[d].session = IF d = c THEN session ELSE convs[d].session
        BY <2>1, <3>1, KeptDoes
      <3>3. DOMAIN convs = {c} /\ c \in Keepers'
        BY <2>1, <3>1, <3>2, KeeperOrOrphan DEF Keepers, Orphans
      <3>4. ConvsSplit' /\ JobsPast'
        BY <1>0, <2>1, <3>2, <3>3 DEF ChatInv, ConvsSplit, MessagesHome, JobsPast
      <3>5. \A d, e \in worker.kept : worker.pc = "orphans" /\ d # e => d \notin DOMAIN convs
        BY <1>0, <3>1, <3>3 DEF ChatInv, WorkerKnows
      <3>6. worker.pc = "message" => ~SessionFound(worker.job)
        BY <1>0, <3>1 DEF ChatInv, WorkerKnows
      <3>7. SessionFound(worker.job)' = SessionFound(worker.job)
        BY <2>1 DEF SessionFound
      <3>8. WorkerKnows'
        BY <1>0, <2>1, <3>2, <3>3, <3>5, <3>6, <3>7 DEF ChatInv, WorkerKnows
      <3> QED  BY <3>4, <3>8 DEF ChatInv
    <2> QED  BY <2>2, <2>3
  <1>3. ASSUME NEW o \in Sends, CampaignUpsert(r, o) PROVE ChatInv'
    <2>1. UNCHANGED <<session, live, messages, queue, worker, hist>>
      BY <1>3 DEF CampaignUpsert
    <2>2. CASE live /\ req[r].session = session
      <3>1. PICK n : Upserts(Upserted, n)
        BY <1>3, <2>2, UpsertDoes DEF CampaignUpsert
      <3>2. Keepers = {} => Orphans = {}
        BY <1>0, <1>3, <2>2 DEF MailKnows, CampaignUpsert
      <3> QED  BY <1>0, <2>1, <2>2, <3>1, <3>2, UpsertBeside
    <2>3. CASE ~(live /\ req[r].session = session)
      BY <1>0, <1>3, <2>1, <2>3, ConvQuiet DEF CampaignUpsert, ConvsStay
    <2> QED  BY <2>2, <2>3
  <1> QED  BY <1>1, <1>2, <1>3 DEF Mail

LEMMA ConvRequest ==
  ASSUME TypeOK, ChatInv, NEW r \in Requests, Ask(r) \/ Handler(r)
  PROVE  ChatInv'
  <1>1. ASSUME NEW o \in Sends, SendNew(r, o) PROVE ChatInv'
    <2>1. PICK n : Upserts(Upserted, n)
      BY <1>1, UpsertDoes DEF SendNew, Creates
    <2>2. live /\ UNCHANGED <<session, live, messages, queue, worker>>
      BY <1>1 DEF SendNew, Creates
    <2>3. hist' = IF Keepers = {} /\ Orphans # {}
                  THEN [hist EXCEPT !.split = @ \cup Orphans \cup {session}] ELSE hist
      BY <1>1 DEF SendNew, Creates
    <2>4. hist'.split = IF Keepers = {} /\ Orphans # {}
                        THEN hist.split \cup Orphans \cup {session} ELSE hist.split
      BY <2>3 DEF TypeOK
    <2>5. Keepers = {} => Orphans \cup {Upserted} \subseteq hist'.split \/ Orphans = {}
      BY <2>4 DEF Upserted
    <2>6. hist.split \subseteq hist'.split
      BY <2>4
    <2> QED  BY <2>1, <2>2, <2>5, <2>6, UpsertBeside
  <1>2. ASSUME NEW o \in Sends, NEW c \in DOMAIN convs, SendReply(r, o, c) PROVE ChatInv'
    BY <1>2, ConvQuiet DEF SendReply, Creates, rows, ConvsStay
  <1>3. ASSUME NEW c \in DOMAIN convs, MarkMessages(r, c) PROVE ChatInv'
    <2>1. SameRows /\ \A k \in DOMAIN messages : Same(k, {"conv"})
      BY <1>3, MarkDoes DEF MarkMessages, Same
    <2>2. hist'.split = hist.split
      BY <1>3 DEF MarkMessages, TypeOK
    <2> QED  BY <1>3, <2>1, <2>2, ConvQuiet DEF MarkMessages, ConvsStay
  <1>4. ASSUME NEW k \in DOMAIN messages, NEW arg \in {"on", "off"}, ReactRead(r, k, arg) PROVE ChatInv'
    <2>1. hist'.split = hist.split
      BY <1>4 DEF ReactRead, TypeOK
    <2> QED  BY <1>4, <2>1, ConvQuiet DEF ReactRead, rows, ConvsStay
  <1>5. ASSUME SendCreate(r) PROVE ChatInv'
    <2>2. ConvsStay /\ worker' = worker /\ queue' = queue
      BY <1>5 DEF SendCreate, ConvsStay
    <2>3. CASE live /\ req[r].session = session /\ req[r].conv \in DOMAIN convs
      <3>1. PICK u : u = NewRow(req[r].msg, "OUTBOUND", req[r].conv, "PENDING", req[r].by)
        OBVIOUS
      <3>3. u \in Row /\ u.conv \in DOMAIN convs
        BY <1>5, <2>3, <3>1, SentRow DEF SendCreate
      <3>4. messages' = Append(messages, u)
        BY <1>5, <2>3, <3>1 DEF SendCreate
      <3> QED  BY <2>2, <3>3, <3>4, ConvQuiet
    <2>4. CASE ~(live /\ req[r].session = session /\ req[r].conv \in DOMAIN convs)
      <3>1. messages' = messages
        BY <1>5, <2>4 DEF SendCreate
      <3> QED  BY <2>2, <3>1, ConvQuiet
    <2> QED  BY <2>3, <2>4
  <1>6. ASSUME SendPost(r) PROVE ChatInv'
    BY <1>6, ConvQuiet DEF SendPost, rows, ConvsStay
  <1>7. ASSUME SendSave(r) PROVE ChatInv'
    <2>1. hist'.split = hist.split
      BY <1>7 DEF SendSave, TypeOK
    <2>2. SameRows /\ \A k \in DOMAIN messages : Same(k, {"conv"})
      BY <1>7, SavedDoes DEF Same
    <2> QED  BY <1>7, <2>1, <2>2, ConvQuiet DEF SendSave, ConvsStay
  <1>8. ASSUME SendCount(r) PROVE ChatInv'
    <2>1. hist'.split = hist.split
      BY <1>8 DEF SendCount, TypeOK
    <2> QED  BY <1>8, <2>1, ConvQuiet DEF SendCount, rows, ConvsStay
  <1>9. ASSUME SendCatch(r) PROVE ChatInv'
    <2>1. req[r].row \in Nat /\ "FAILED" \in Statuses
      BY <1>9, RequestShape DEF SendCatch, Statuses
    <2>2. SameRows /\ \A k \in DOMAIN messages : Same(k, {"conv"})
      BY <1>9, <2>1, StatusSet DEF SendCatch, Same
    <2> QED  BY <1>9, <2>2, ConvQuiet DEF SendCatch, ConvsStay
  <1>10. ASSUME ResetUnread(r) PROVE ChatInv'
    <2>1. ConvsStay
      BY <1>10, BadgeReset DEF ResetUnread, ConvsStay
    <2> QED  BY <1>10, <2>1, ConvQuiet DEF ResetUnread
  <1>11. ASSUME ReactWrite(r) PROVE ChatInv'
    <2>1. req[r].row \in Nat /\ React(req[r].seen, "us", req[r].arg) \in SUBSET Parties
      BY <1>11, RequestShape DEF ReactWrite, React, Parties
    <2>2. SameRows /\ \A k \in DOMAIN messages : Same(k, {"conv"})
      BY ZenonT(60), <1>11, <2>1, ReactSet DEF ReactWrite, Same
    <2>3. hist'.split = hist.split
      BY <1>11 DEF ReactWrite, TypeOK
    <2> QED  BY <1>11, <2>2, <2>3, ConvQuiet DEF ReactWrite, ConvsStay
  <1>12. ASSUME CampaignLook(r) PROVE ChatInv'
    BY <1>12, ConvQuiet DEF CampaignLook, rows, ConvsStay
  <1>13. ASSUME Ask(r) PROVE ChatInv'
    BY <1>1, <1>2, <1>3, <1>4, <1>12, <1>13 DEF Ask
  <1>14. ASSUME Handler(r) PROVE ChatInv'
    BY <1>5, <1>6, <1>7, <1>8, <1>9, <1>10, <1>11, <1>14 DEF Handler
  <1> QED  BY <1>13, <1>14

LEMMA ConvFaults ==
  ASSUME TypeOK, ChatInv, Faults
  PROVE  ChatInv'
  <1>1. ASSUME DatabaseFails PROVE ChatInv'
    BY <1>1, ThrowConv DEF DatabaseFails, rows, NoJob
  <1>2. ASSUME Crash PROVE ChatInv'
    <2>1. hist'.split = hist.split
      BY <1>2 DEF Crash, TypeOK
    <2>2. /\ worker' = NoJob
          /\ \A j \in queue' : j \in queue \/ (worker # NoJob /\ j.session = worker.job.session)
      BY <1>2, CrashQueues
    <2> QED  BY <1>2, <2>1, <2>2, ConvQuiet DEF Crash, rows, ConvsStay, NoJob
  <1>3. ASSUME NEW r \in Requests, SendPostFails(r) \/ SendSaveFails(r) \/ RequestFails(r)
        PROVE  ChatInv'
    <2>1. hist'.split = hist.split
      BY <1>3 DEF SendPostFails, SendSaveFails, RequestFails, TypeOK
    <2>2. UNCHANGED rows /\ worker' = worker /\ queue' = queue
      BY <1>3 DEF SendPostFails, SendSaveFails, RequestFails
    <2> QED  BY <2>1, <2>2, ConvQuiet DEF rows, ConvsStay
  <1> QED  BY <1>1, <1>2, <1>3 DEF Faults

LEMMA ChatStep ==
  ASSUME TypeOK, ConvInv, [Next]_vars
  PROVE  ChatInv'
  <1>0. ChatInv
    BY DEF ConvInv
  <1> HIDE DEF ConvInv
  <1>1. ASSUME UNCHANGED vars PROVE ChatInv'
    BY <1>0, <1>1, ConvQuiet DEF vars, ConvsStay
  <1>2. ASSUME NEW ev \in Events, HandleEngineEvent(ev) PROVE ChatInv'
    <2>1. /\ UNCHANGED <<session, live, convs, messages, worker, hist>>
          /\ queue' = queue \cup {[ev |-> ev, session |-> session, left |-> MaxAttempts, stalled |-> FALSE]}
      BY <1>2 DEF HandleEngineEvent, rows
    <2>2. session <= session
      BY DEF TypeOK, ConvIds
    <2>3. JobsPast'
      BY <1>0, <2>1, <2>2 DEF ChatInv, JobsPast
    <2>4. ConvsStay /\ messages' = messages
      BY <2>1 DEF ConvsStay
    <2>5. MessagesHome'
      BY <1>0, <2>4, HomeStays DEF ConvsStay
    <2> QED  BY <1>0, <2>1, <2>3, <2>4, <2>5, SplitStays, WorkerKnowsStays DEF ChatInv
  <1>3. ASSUME NEW j \in queue, HandleMessage(j) \/ HandleChatsSynced(j) \/ HandleReaction(j)
        PROVE  ChatInv'
    <2>1. hist'.split = hist.split
      BY <1>3 DEF HandleMessage, HandleChatsSynced, HandleReaction, TypeOK
    <2>2. UNCHANGED rows /\ queue' \subseteq queue
      BY <1>3 DEF HandleMessage, HandleChatsSynced, HandleReaction, Take
    <2>3. worker' = NoJob \/ (worker'.job = j /\ worker'.pc \in {"reattach", "react"})
      BY <1>3 DEF HandleMessage, HandleChatsSynced, HandleReaction, JobDone
    <2> QED  BY <1>0, <2>1, <2>2, <2>3, ConvQuiet DEF rows, ConvsStay, NoJob
  <1>4. ASSUME NEW j \in Jobs, j.ev.kind = "ack", NEW n, TryAck(j, n), hist' = hist,
               UNCHANGED <<session, live, convs>>, queue' \subseteq queue,
               j \in queue \/ (worker # NoJob /\ worker.job = j)
        PROVE  ChatInv'
    <2>1. worker' = NoJob \/ (worker'.job = j /\ worker'.pc = "try")
      BY <1>4 DEF TryAck, JobDone
    <2>2. ConvsStay
      BY <1>4 DEF ConvsStay
    <2>3. messages' = messages \/ (SameRows /\ \A k \in DOMAIN messages : Same(k, {"conv"}))
      <3>1. CASE Rows(j.ev.msg) # {}
        <4>1. WriteAck(j) /\ j.ev.arg \in Acks
          BY <1>4, <3>1, JobShape, EventShape DEF TryAck
        <4> QED  BY <1>4, <4>1, AckDoes DEF Same
      <3>2. CASE Rows(j.ev.msg) = {}
        BY <1>4, <3>2 DEF TryAck
      <3> QED  BY <3>1, <3>2
    <2> QED  BY <1>0, <1>4, <2>1, <2>2, <2>3, ConvQuiet DEF NoJob
  <1>5. ASSUME NEW j \in queue, HandleMessageAck(j) PROVE ChatInv'
    <2>1. j \in Jobs /\ j.ev.kind = "ack" /\ queue' \subseteq queue
      BY <1>5, Taken DEF HandleMessageAck
    <2> QED  BY <1>4, <1>5, <2>1 DEF HandleMessageAck
  <1>6. ASSUME RetryAck PROVE ChatInv'
    BY <1>4, <1>6, WorkerShape DEF RetryAck, NoJob
  <1>7. ASSUME CreateMessage PROVE ChatInv'
    <2>1. /\ worker # NoJob /\ worker.job.ev \in Events /\ worker.conv \in 0 .. MaxSessions
          /\ worker.job.ev.kind \in {"received", "outgoing"} /\ worker.pc = "message"
      BY <1>7, WorkerShape DEF CreateMessage, NoJob, ConvIds
    <2>2. CASE SessionFound(worker.job)
      <3>1. PICK dir \in {"INBOUND", "OUTBOUND"}, st \in {"DELIVERED", "SENT"} :
              messages' = Append(messages,
                             NewRow(worker.job.ev.msg, dir, worker.conv, st, "engine"))
        BY <1>7, <2>2 DEF CreateMessage
      <3>2. PICK u : u = NewRow(worker.job.ev.msg, dir, worker.conv, st, "engine")
        OBVIOUS
      <3>3. st \in Statuses /\ worker.job.ev.msg \in Inbound \cup Sends
        BY <2>1, EventShape DEF Statuses
      <3>4. u \in Row /\ u.conv = worker.conv
        BY <2>1, <3>2, <3>3, NewRowShape
      <3>5. u.conv \in DOMAIN convs
        BY <1>0, <2>1, <2>2, <3>4 DEF ChatInv, WorkerKnows, Keepers
      <3>6. ConvsStay /\ worker' = NoJob /\ queue' = queue
        BY <1>7, <2>2 DEF CreateMessage, JobDone, ConvsStay
      <3> QED  BY <1>0, <3>1, <3>2, <3>4, <3>5, <3>6, ConvQuiet DEF NoJob
    <2>3. CASE ~SessionFound(worker.job)
      BY <1>0, <1>7, <2>1, <2>3, ThrowConv DEF CreateMessage
    <2> QED  BY <2>2, <2>3
  <1>8. ASSUME WriteReaction PROVE ChatInv'
    <2>1. worker.row \in Nat /\ React(worker.seen, "them", worker.job.ev.arg) \in SUBSET Parties
      BY <1>8, WorkerShape DEF WriteReaction, NoJob, React, Parties
    <2>2. SameRows /\ \A k \in DOMAIN messages : Same(k, {"conv"})
      BY ZenonT(60), <1>8, <2>1, ReactSet DEF WriteReaction, Same
    <2>3. hist'.split = hist.split
      BY <1>8 DEF WriteReaction, TypeOK
    <2>4. worker' = NoJob /\ queue' = queue /\ UNCHANGED <<session, live, convs>>
      BY <1>8 DEF WriteReaction, JobDone
    <2> QED  BY <1>0, <2>2, <2>3, <2>4, ConvQuiet DEF ConvsStay, NoJob
  <1>9. ASSUME Worker PROVE ChatInv'
    BY <1>0, <1>3, <1>5, <1>6, <1>7, <1>8, <1>9, ConvWorker DEF Worker, Receive
  <1> QED  BY <1>0, <1>1, <1>2, <1>9, ConvSession, ConvRequest, ConvMail, ConvFaults DEF Next

\* While the session stays, its conversation does, and there are no new orphans.
ChatsGoOn ==
  /\ UNCHANGED <<session, live>>
  /\ Keepers \subseteq Keepers' /\ Orphans' \subseteq Orphans
  /\ hist.split \subseteq hist'.split

LEMMA SameChats ==
  ASSUME UNCHANGED <<session, live, convs>>, hist'.split = hist.split
  PROVE  ChatsGoOn
  BY DEF ChatsGoOn, Keepers, Orphans

LEMMA SameSessions ==
  ASSUME UNCHANGED <<session, live>>, DOMAIN convs' = DOMAIN convs, hist'.split = hist.split,
         \A c \in DOMAIN convs : convs'[c].session = convs[c].session
  PROVE  ChatsGoOn
  BY DEF ChatsGoOn, Keepers, Orphans

LEMMA UpsertGoesOn ==
  ASSUME TypeOK, NEW c, NEW n, Upserts(c, n), UNCHANGED <<session, live>>,
         hist.split \subseteq hist'.split
  PROVE  ChatsGoOn
  <1>1. session # 0
    BY InboxAssumption DEF TypeOK, ConvIds
  <1> QED  BY <1>1 DEF ChatsGoOn, Keepers, Orphans, Upserts

LEMMA RemovalGoesOn ==
  ASSUME TypeOK, NEW dead, dead \cap Keepers = {}, convs' = Without(dead),
         UNCHANGED <<session, live, hist>>
  PROVE  ChatsGoOn
  <1>1. DOMAIN convs' = DOMAIN convs \ dead /\ \A c \in DOMAIN convs \ dead : convs'[c] = convs[c]
    BY WithoutDoes
  <1> QED  BY <1>1 DEF ChatsGoOn, Keepers, Orphans

LEMMA KeepGoesOn ==
  ASSUME TypeOK, NEW c \in ConvIds, live, Keepers \subseteq {c},
         convs' = [convs EXCEPT ![c].session = session], UNCHANGED <<session, live, hist>>
  PROVE  ChatsGoOn
  <1>1. /\ DOMAIN convs' = DOMAIN convs
        /\ \A d \in DOMAIN convs : convs'[d].session = IF d = c THEN session ELSE convs[d].session
    BY KeptDoes
  <1>2. session # 0
    BY InboxAssumption DEF TypeOK, ConvIds
  <1> QED  BY <1>1, <1>2 DEF ChatsGoOn, Keepers, Orphans

LEMMA ChatsWorker ==
  ASSUME TypeOK, ChatInv, Worker
  PROVE  ChatsGoOn
  <1>1. ASSUME NEW j \in queue,
               HandleMessage(j) \/ HandleChatsSynced(j) \/ HandleMessageAck(j) \/ HandleReaction(j)
        PROVE  ChatsGoOn
    <2>1. hist'.split = hist.split
      BY <1>1 DEF HandleMessage, HandleChatsSynced, HandleMessageAck, HandleReaction, TypeOK
    <2>2. UNCHANGED <<session, live, convs>>
      BY <1>1 DEF HandleMessage, HandleChatsSynced, HandleMessageAck, HandleReaction, rows
    <2> QED  BY <2>1, <2>2, SameChats
  <1>2. ASSUME ReattachLook \/ CreateMessage \/ RetryAck \/ WriteReaction PROVE ChatsGoOn
    <2>1. hist'.split = hist.split
      BY <1>2 DEF ReattachLook, CreateMessage, RetryAck, WriteReaction, JobThrows, TypeOK
    <2>2. UNCHANGED <<session, live, convs>>
      BY <1>2 DEF ReattachLook, CreateMessage, RetryAck, WriteReaction, rows
    <2> QED  BY <2>1, <2>2, SameChats
  <1>3. ASSUME ReattachDelete PROVE ChatsGoOn
    <2>1. Orphans \cap Keepers = {}
      BY KeeperOrOrphan
    <2> QED  BY <1>3, <2>1, RemovalGoesOn DEF ReattachDelete
  <1>4. ASSUME ReattachTrim PROVE ChatsGoOn
    <2>1. PICK c \in worker.kept : convs' = Without(worker.kept \ {c})
      BY <1>4 DEF ReattachTrim, Oldest
    <2>2. (worker.kept \ {c}) \cap Keepers = {}
      <3>1. \A d \in worker.kept : d # c => (d \in DOMAIN convs => d \in Orphans)
        BY <1>4, <2>1 DEF ReattachTrim, ChatInv, WorkerKnows
      <3> QED  BY <3>1, KeeperOrOrphan
    <2> QED  BY <1>4, <2>1, <2>2, RemovalGoesOn DEF ReattachTrim
  <1>5. ASSUME ReattachKeep PROVE ChatsGoOn
    <2>1. PICK c \in worker.kept :
            IF Attachable(c)
            THEN convs' = [convs EXCEPT ![c].session = session] /\ hist' = hist
            ELSE convs' = convs /\ (hist' = hist \/ JobThrows)
      BY <1>5 DEF ReattachKeep
    <2>2. c \in ConvIds /\ UNCHANGED <<session, live>>
      BY <1>5, <2>1, WorkerShape DEF ReattachKeep
    <2>3. CASE Attachable(c)
      BY <2>1, <2>2, <2>3, KeepGoesOn DEF Attachable, SessionFound
    <2>4. CASE ~Attachable(c)
      <3>1. hist'.split = hist.split
        BY <2>1, <2>4 DEF JobThrows, TypeOK
      <3> QED  BY <2>1, <2>2, <2>4, <3>1, SameChats
    <2> QED  BY <2>3, <2>4
  <1>6. ASSUME CountMessage PROVE ChatsGoOn
    <2>1. hist'.split = hist.split /\ UNCHANGED <<session, live>>
      BY <1>6 DEF CountMessage, JobThrows, TypeOK
    <2>2. convs' = convs \/ Upsert(TRUE, 0) \/ Upsert(TRUE, 1)
      BY <1>6 DEF CountMessage
    <2>3. convs' = convs \/ \E n : Upserts(Upserted, n)
      BY <2>2, UpsertDoes
    <2> QED  BY <2>1, <2>3, SameChats, UpsertGoesOn
  <1>7. ASSUME SyncChat PROVE ChatsGoOn
    <2>1. hist'.split = hist.split /\ UNCHANGED <<session, live>>
      BY <1>7 DEF SyncChat, TypeOK
    <2>2. convs' = convs \/ Upsert(FALSE, 0) \/ Upsert(FALSE, 1)
      BY <1>7 DEF SyncChat
    <2>3. convs' = convs \/ \E n : Upserts(Upserted, n)
      BY <2>2, UpsertDoes
    <2> QED  BY <2>1, <2>3, SameChats, UpsertGoesOn
  <1> QED  BY <1>1, <1>2, <1>3, <1>4, <1>5, <1>6, <1>7 DEF Worker, Receive

LEMMA ChatsRequest ==
  ASSUME TypeOK, NEW r \in Requests, Ask(r) \/ Handler(r) \/ Mail(r)
  PROVE  ChatsGoOn
  <1>1. ASSUME NEW o \in Sends, SendNew(r, o) PROVE ChatsGoOn
    <2>1. \E n : Upserts(Upserted, n)
      BY <1>1, UpsertDoes DEF SendNew
    <2>2. hist.split \subseteq hist'.split
      BY <1>1 DEF SendNew, TypeOK
    <2> QED  BY <1>1, <2>1, <2>2, UpsertGoesOn DEF SendNew
  <1>2. ASSUME \/ \E o \in Sends, c \in DOMAIN convs : SendReply(r, o, c)
               \/ \E c \in DOMAIN convs : MarkMessages(r, c)
               \/ \E k \in DOMAIN messages, arg \in {"on", "off"} : ReactRead(r, k, arg)
               \/ CampaignLook(r)
        PROVE  ChatsGoOn
    <2>1. hist'.split = hist.split
      BY <1>2 DEF SendReply, MarkMessages, ReactRead, CampaignLook, TypeOK
    <2>2. UNCHANGED <<session, live, convs>>
      BY <1>2 DEF SendReply, MarkMessages, ReactRead, CampaignLook, rows
    <2> QED  BY <2>1, <2>2, SameChats
  <1>3. ASSUME Ask(r) PROVE ChatsGoOn
    BY <1>1, <1>2, <1>3 DEF Ask
  <1>4. ASSUME SendCreate(r) \/ SendPost(r) \/ SendSave(r) \/ SendCount(r) \/ SendCatch(r)
               \/ ReactWrite(r)
        PROVE  ChatsGoOn
    <2>1. hist'.split = hist.split
      BY <1>4 DEF SendCreate, SendPost, SendSave, SendCount, SendCatch, ReactWrite, TypeOK
    <2>2. UNCHANGED <<session, live, convs>>
      BY <1>4 DEF SendCreate, SendPost, SendSave, SendCount, SendCatch, ReactWrite, rows
    <2> QED  BY <2>1, <2>2, SameChats
  <1>5. ASSUME ResetUnread(r) PROVE ChatsGoOn
    BY <1>5, BadgeReset, SameSessions DEF ResetUnread
  <1>6. ASSUME Handler(r) PROVE ChatsGoOn
    BY <1>4, <1>5, <1>6 DEF Handler
  <1>7. ASSUME CampaignPurge(r) PROVE ChatsGoOn
    BY <1>7, PurgeDoes DEF ChatsGoOn
  <1>8. ASSUME CampaignAttach(r) PROVE ChatsGoOn
    <2>1. UNCHANGED <<session, live, hist>>
      BY <1>8 DEF CampaignAttach
    <2>2. CASE convs' = convs
      BY <2>1, <2>2, SameChats
    <2>3. CASE convs' # convs
      <3>1. PICK c \in ConvIds : /\ convs' = [convs EXCEPT ![c].session = session]
                                 /\ live /\ Keepers = {}
        BY <1>8, <2>3, AttachDoes
      <3> QED  BY <2>1, <3>1, KeepGoesOn
    <2> QED  BY <2>2, <2>3
  <1>9. ASSUME NEW o \in Sends, CampaignUpsert(r, o) PROVE ChatsGoOn
    <2>1. UNCHANGED <<session, live, hist>> /\ (convs' = convs \/ Upsert(TRUE, 0))
      BY <1>9 DEF CampaignUpsert
    <2>2. convs' = convs \/ \E n : Upserts(Upserted, n)
      BY <2>1, UpsertDoes
    <2> QED  BY <2>1, <2>2, SameChats, UpsertGoesOn
  <1> QED  BY <1>3, <1>6, <1>7, <1>8, <1>9 DEF Mail

LEMMA ChatsFaults ==
  ASSUME TypeOK, Faults
  PROVE  ChatsGoOn
  <1>1. hist'.split = hist.split
    BY DEF Faults, DatabaseFails, JobThrows, Crash, SendPostFails, SendSaveFails, RequestFails, TypeOK
  <1>2. UNCHANGED <<session, live, convs>>
    BY DEF Faults, DatabaseFails, Crash, SendPostFails, SendSaveFails, RequestFails, rows
  <1> QED  BY <1>1, <1>2, SameChats

LEMMA ChatsStep ==
  ASSUME TypeOK, ChatInv, [Next]_vars
  PROVE  ChatsGoOn \/ DeleteSession \/ CreateSession
  <1>1. ASSUME UNCHANGED vars \/ \E ev \in Events : HandleEngineEvent(ev) PROVE ChatsGoOn
    <2>1. UNCHANGED <<session, live, convs, hist>>
      BY <1>1 DEF vars, rows, HandleEngineEvent
    <2> QED  BY <2>1, SameChats
  <1> QED  BY <1>1, ChatsWorker, ChatsRequest, ChatsFaults DEF Next

\* What the campaign worker is about to do changes only by its own steps.
InMail(r) == req[r].pc \in {"purge", "attach", "upsert"}
LEMMA MailStays ==
  ASSUME TypeOK, [Next]_vars, NEW q \in Requests, InMail(q)'
  PROVE  req'[q] = req[q] \/ CampaignLook(q) \/ CampaignPurge(q) \/ CampaignAttach(q)
  <1> DEFINE Goal == req'[q] = req[q] \/ CampaignLook(q) \/ CampaignPurge(q) \/ CampaignAttach(q)
  <1>1. ASSUME NEW r \in Requests, \A p \in Requests \ {r} : req'[p] = req[p],
               req'[r].pc \notin {"purge", "attach", "upsert"}
        PROVE  Goal
    BY <1>1 DEF InMail
  <1>2. ASSUME NEW r \in Requests, NEW o \in Sends, NEW c \in ConvIds, NEW by \in Senders,
               Creates(r, o, c, by)
        PROVE  Goal
    BY <1>1, <1>2, CreatesDoes
  <1>3. ASSUME NEW r \in Requests, Leave(r) PROVE Goal
    BY <1>1, <1>3, LeaveDoes
  <1>4. ASSUME NEW r \in Requests, NEW t \in RequestTasks, req' = [req EXCEPT ![r] = t],
               t.pc \notin {"purge", "attach", "upsert"}
        PROVE  Goal
    BY <1>1, <1>4, BeginDoes
  <1>5. ASSUME NEW r \in Requests, req[r].pc \in {"post", "save", "count", "catch"},
               NEW pc \in {"post", "save", "count", "catch"}, Goto(r, pc)
        PROVE  Goal
    BY <1>1, <1>5, GotoDoes
  <1>6. ASSUME req' = req PROVE Goal
    BY <1>6
  <1>7. ASSUME NEW r \in Requests, NEW o \in Sends, SendNew(r, o) PROVE Goal
    <2>1. Upserted \in ConvIds /\ "send" \in Senders
      BY <1>7, UpsertedConv DEF SendNew, Senders
    <2> QED  BY <1>2, <1>7, <2>1 DEF SendNew
  <1>8. ASSUME NEW r \in Requests, NEW o \in Sends, NEW c \in DOMAIN convs, SendReply(r, o, c) PROVE Goal
    <2>1. c \in ConvIds /\ "send" \in Senders
      BY ConvShape DEF Senders
    <2> QED  BY <1>2, <1>8, <2>1 DEF SendReply
  <1>9. ASSUME NEW r \in Requests, NEW c \in DOMAIN convs, MarkMessages(r, c) PROVE Goal
    <2>1. PICK t : t = [pc |-> "reset", conv |-> c] /\ req' = [req EXCEPT ![r] = t]
      BY <1>9 DEF MarkMessages
    <2>2. t \in RequestTasks /\ t.pc = "reset"
      BY <2>1, ConvShape, RequestTypes
    <2> QED  BY <1>4, <2>1, <2>2
  <1>10. ASSUME NEW r \in Requests, NEW k \in DOMAIN messages, NEW arg \in {"on", "off"},
                ReactRead(r, k, arg)
         PROVE  Goal
    <2>1. PICK t : /\ t = [pc |-> "react", row |-> k, seen |-> messages[k].react, arg |-> arg]
                   /\ req' = [req EXCEPT ![r] = t]
      BY <1>10 DEF ReactRead
    <2>2. t \in RequestTasks /\ t.pc = "react"
      BY <2>1, RowShape, RequestTypes
    <2> QED  BY <1>4, <2>1, <2>2
  <1>11. ASSUME NEW r \in Requests, CampaignLook(r) PROVE Goal
    <2>1. PICK t : /\ t = [pc |-> IF Keepers # {} THEN "purge" ELSE "attach", session |-> session]
                   /\ req' = [req EXCEPT ![r] = t]
      BY <1>11 DEF CampaignLook
    <2>2. t \in RequestTasks
      BY <2>1, RequestTypes DEF TypeOK
    <2>3. q # r => req'[q] = req[q]
      BY <2>1, <2>2, BeginDoes
    <2> QED  BY <1>11, <2>3
  <1>12. ASSUME NEW r \in Requests, Ask(r) PROVE Goal
    BY <1>7, <1>8, <1>9, <1>10, <1>11, <1>12 DEF Ask
  <1>13. ASSUME NEW r \in Requests, SendCreate(r) PROVE Goal
    <2>1. CASE live /\ req[r].session = session /\ req[r].conv \in DOMAIN convs
      <3>1. PICK t : /\ t = [pc |-> "post", msg |-> req[r].msg, session |-> req[r].session,
                             row |-> Len(messages) + 1]
                     /\ req' = [req EXCEPT ![r] = t]
        BY <1>13, <2>1 DEF SendCreate
      <3>2. req[r].msg \in Sends /\ req[r].session \in ConvIds /\ Len(messages) + 1 \in Nat
        BY <1>13, RequestShape DEF SendCreate, TypeOK
      <3>3. t \in RequestTasks /\ t.pc = "post"
        BY <3>1, <3>2, RequestTypes
      <3> QED  BY <1>4, <3>1, <3>3
    <2>2. CASE ~(live /\ req[r].session = session /\ req[r].conv \in DOMAIN convs)
      BY <1>3, <1>13, <2>2 DEF SendCreate
    <2> QED  BY <2>1, <2>2
  <1>14. ASSUME NEW r \in Requests, Handler(r) PROVE Goal
    BY <1>3, <1>5, <1>13, <1>14
       DEF Handler, SendPost, SendSave, SendCount, SendCatch, ResetUnread, ReactWrite
  <1>15. ASSUME NEW r \in Requests, CampaignPurge(r) \/ CampaignAttach(r) PROVE Goal
    <2>1. Leave(r) \/ (req[r].pc \in {"purge", "attach"} /\ Goto(r, "upsert"))
      BY <1>15 DEF CampaignPurge, CampaignAttach
    <2>2. q # r => req'[q] = req[q]
      BY <2>1, LeaveDoes, MailGoes
    <2> QED  BY <1>15, <2>2
  <1>16. ASSUME NEW r \in Requests, NEW o \in Sends, CampaignUpsert(r, o) PROVE Goal
    <2>1. CASE live /\ req[r].session = session
      <3>1. Upserted \in ConvIds /\ "campaign" \in Senders
        BY <1>16, <2>1, UpsertedConv DEF CampaignUpsert, Senders
      <3> QED  BY <1>2, <1>16, <2>1, <3>1 DEF CampaignUpsert
    <2>2. CASE ~(live /\ req[r].session = session)
      BY <1>3, <1>16, <2>2 DEF CampaignUpsert
    <2> QED  BY <2>1, <2>2
  <1>17. ASSUME NEW r \in Requests, Mail(r) PROVE Goal
    BY <1>15, <1>16, <1>17 DEF Mail
  <1>18. ASSUME Faults PROVE Goal
    <2>1. ASSUME Crash PROVE Goal
      BY <2>1 DEF Crash, NoReq, InMail
    <2>2. ASSUME NEW r \in Requests, SendPostFails(r) \/ SendSaveFails(r) PROVE Goal
      BY <1>5, <2>2 DEF SendPostFails, SendSaveFails
    <2> QED  BY <1>3, <1>6, <1>18, <2>1, <2>2 DEF Faults, DatabaseFails, RequestFails
  <1>19. ASSUME Worker PROVE Goal
    <2>1. req' = req
      BY <1>19 DEF Worker, Receive, HandleMessage, HandleChatsSynced, HandleMessageAck, HandleReaction,
         ReattachLook, ReattachDelete, ReattachTrim, ReattachKeep, CountMessage, CreateMessage,
         SyncChat, RetryAck, WriteReaction
    <2> QED  BY <1>6, <2>1
  <1>20. ASSUME \/ UNCHANGED vars \/ DeleteSession \/ CreateSession
                \/ \E ev \in Events : HandleEngineEvent(ev)
         PROVE  Goal
    <2>1. req' = req
      BY <1>20 DEF vars, DeleteSession, CreateSession, HandleEngineEvent
    <2> QED  BY <1>6, <2>1
  <1> HIDE DEF Goal
  <1>21. Goal
    BY <1>12, <1>14, <1>17, <1>18, <1>19, <1>20 DEF Next
  <1> QED  BY <1>21 DEF Goal

LEMMA MailStep ==
  ASSUME TypeOK, ConvInv, [Next]_vars
  PROVE  MailKnows'
  <1>0. ChatInv /\ MailKnows /\ session \in Nat
    BY InboxAssumption DEF ConvInv, TypeOK, ConvIds
  <1> SUFFICES ASSUME NEW q \in Requests, InMail(q)'
      PROVE  /\ req'[q].session <= session'
             /\ req'[q].pc = "purge" => Orphans' \subseteq hist'.split \/ Keepers' # {}
             /\ req'[q].pc = "upsert" =>
                  (live' /\ req'[q].session = session' /\ Keepers' = {} => Orphans' = {})
    BY DEF MailKnows, InMail
  <1>1. CASE ChatsGoOn
    <2>1. CASE req'[q] = req[q]
      BY <1>0, <1>1, <2>1 DEF MailKnows, ChatsGoOn, InMail
    <2>2. CASE CampaignLook(q)
      <3>1. PICK t : /\ t = [pc |-> IF Keepers # {} THEN "purge" ELSE "attach", session |-> session]
                     /\ req' = [req EXCEPT ![q] = t]
        BY <2>2 DEF CampaignLook
      <3>2. req'[q] = t /\ session' = session
        BY <2>2, <3>1 DEF CampaignLook, rows, TypeOK
      <3>3. session <= session
        BY <1>0
      <3> QED  BY <1>1, <3>1, <3>2, <3>3 DEF ChatsGoOn
    <2>3. CASE CampaignPurge(q)
      <3>1. Orphans' = {} /\ session' = session /\ req'[q].pc = "upsert" /\ req'[q].session = req[q].session
        BY <2>3, PurgeDoes, MailGoes DEF CampaignPurge
      <3> QED  BY <1>0, <2>3, <3>1 DEF MailKnows, CampaignPurge
    <2>4. CASE CampaignAttach(q)
      <3>1. ~Leave(q)
        BY LeaveDoes DEF InMail
      <3>2. /\ req[q].pc = "attach" /\ session' = session
            /\ req'[q].pc = "upsert" /\ req'[q].session = req[q].session
        BY <2>4, <3>1, AttachDoes, MailGoes DEF CampaignAttach
      <3>3. Orphans' = {} \/ Keepers' # {}
        <4>1. CASE convs' = convs /\ Orphans = {}
          BY <1>1, <4>1 DEF ChatsGoOn
        <4>2. ASSUME NEW c \in ConvIds, live, Keepers = {}, Orphans = {c},
                     convs' = [convs EXCEPT ![c].session = session]
              PROVE  Keepers' # {}
          <5>1. DOMAIN convs' = DOMAIN convs /\ c \in DOMAIN convs /\ convs'[c].session = session
            BY <2>4, <4>2, KeptDoes DEF CampaignAttach, Orphans
          <5> QED  BY <3>2, <5>1 DEF Keepers
        <4> QED  BY <2>4, <3>1, <4>1, <4>2, AttachDoes
      <3> QED  BY <1>0, <3>2, <3>3 DEF MailKnows
    <2> QED  BY <2>1, <2>2, <2>3, <2>4, MailStays
  <1>2. CASE DeleteSession
    <2>1. req' = req /\ ~live' /\ session' = session
      BY <1>2 DEF DeleteSession
    <2>2. ASSUME req[q].pc = "purge" PROVE Orphans' \subseteq hist'.split
      <3>1. hist' = [hist EXCEPT !.split = @ \cup Keepers]
        BY <1>2, <2>2 DEF DeleteSession, Purging
      <3>2. hist'.split = hist.split \cup Keepers
        BY <3>1 DEF TypeOK
      <3>3. Orphans' \subseteq Orphans \cup Keepers
        BY <1>2, OrphansMade, KeeperOrOrphan DEF Orphans
      <3>4. ASSUME Keepers # {} PROVE Orphans \subseteq hist.split
        BY <1>0, <3>4, KeeperOrOrphan DEF ChatInv, ConvsSplit
      <3> QED  BY <1>0, <2>2, <3>2, <3>3, <3>4 DEF MailKnows
    <2> QED  BY <1>0, <2>1, <2>2 DEF MailKnows, InMail
  <1>3. CASE CreateSession
    <2>1. req' = req /\ ~live /\ session' = session + 1 /\ UNCHANGED <<convs, hist>>
      BY <1>3 DEF CreateSession
    <2>2. Keepers = {} /\ Orphans' = Orphans
      BY <2>1, KeeperOrOrphan DEF Orphans
    <2>3. req[q].session \in Nat /\ req[q].session <= session
      BY <1>0, <2>1, RequestShape DEF MailKnows, InMail, ConvIds
    <2> QED  BY <1>0, <2>1, <2>2, <2>3 DEF MailKnows, InMail
  <1> QED  BY <1>0, <1>1, <1>2, <1>3, ChatsStep

LEMMA ConvStep == TypeOK /\ ConvInv /\ [Next]_vars => ConvInv'
  BY ChatStep, MailStep DEF ConvInv

\* A message loses its conversation only where orphans are deleted, and there
\* only if the chat had a second one.
LEMMA HistoryStep ==
  ASSUME TypeOK, ConvInv, [Next]_vars,
         NEW k \in DOMAIN messages, messages[k].conv # 0, messages'[k].conv # messages[k].conv
  PROVE  messages[k].conv \in hist.split
  <1>0. ConvsSplit /\ WorkerKnows /\ MailKnows
    BY DEF ConvInv, ChatInv
  <1> DEFINE Goal == messages[k].conv \in hist.split
             Kept == messages'[k].conv = messages[k].conv
  <1>25. ASSUME messages' = Detach(Orphans), Orphans \subseteq hist.split \/ Keepers # {} PROVE Goal
    <2>1. messages[k].conv \in Orphans
      BY <1>25, DetachDoes
    <2>2. CASE Orphans \subseteq hist.split
      BY <2>1, <2>2
    <2>3. CASE Keepers # {}
      <3>1. PICK c : c \in Keepers
        BY <2>3
      <3> QED  BY <1>0, <2>1, <3>1, KeeperOrOrphan DEF ConvsSplit
    <2> QED  BY <1>25, <2>2, <2>3
  <1>1. ASSUME ReattachDelete PROVE Goal
    BY <1>0, <1>1, <1>25 DEF ReattachDelete, WorkerKnows
  <1>26. ASSUME NEW r \in Requests, CampaignPurge(r) PROVE Goal
    BY <1>0, <1>25, <1>26 DEF CampaignPurge, MailKnows
  <1>2. ASSUME ReattachTrim PROVE Goal
    <2>1. PICK c \in Oldest(worker.kept) : messages' = Detach(worker.kept \ {c})
      BY <1>2 DEF ReattachTrim
    <2>2. messages[k].conv \in worker.kept \ {c}
      BY <2>1, DetachDoes
    <2>3. worker.pc = "orphans" /\ c \in worker.kept
      BY <1>2 DEF ReattachTrim, Oldest
    <2> QED  BY <1>0, <2>2, <2>3 DEF WorkerKnows
  <1> HIDE DEF Goal
  <1>3. ASSUME messages' = messages PROVE Kept
    BY <1>3
  <1>4. ASSUME NEW u \in Row, messages' = Append(messages, u) PROVE Kept
    BY <1>4, RowAdded
  <1>5. ASSUME CreateMessage PROVE Kept
    <2>1. /\ worker # NoJob /\ worker.job.ev \in Events /\ worker.conv \in 0 .. MaxSessions
          /\ worker.job.ev.kind \in {"received", "outgoing"} /\ worker.pc = "message"
      BY <1>5, WorkerShape DEF CreateMessage, NoJob, ConvIds
    <2>2. CASE SessionFound(worker.job)
      <3>1. PICK dir \in {"INBOUND", "OUTBOUND"}, st \in {"DELIVERED", "SENT"} :
              messages' = Append(messages,
                             NewRow(worker.job.ev.msg, dir, worker.conv, st, "engine"))
        BY <1>5, <2>2 DEF CreateMessage
      <3>2. PICK u : u = NewRow(worker.job.ev.msg, dir, worker.conv, st, "engine")
        OBVIOUS
      <3>3. st \in Statuses /\ worker.job.ev.msg \in Inbound \cup Sends
        BY <2>1, EventShape DEF Statuses
      <3>4. u \in Row
        BY <2>1, <3>2, <3>3, NewRowShape
      <3> QED  BY <1>4, <3>1, <3>2, <3>4
    <2>3. CASE ~SessionFound(worker.job)
      BY <1>5, <2>3 DEF CreateMessage
    <2> QED  BY <2>2, <2>3
  <1>6. ASSUME NEW r \in Requests, SendCreate(r) PROVE Kept
    <2>2. PICK u : u = NewRow(req[r].msg, "OUTBOUND", req[r].conv, "PENDING", req[r].by)
      OBVIOUS
    <2>4. u \in Row
      BY <1>6, <2>2, SentRow DEF SendCreate
    <2>5. messages' = messages \/ messages' = Append(messages, u)
      BY <1>6, <2>2 DEF SendCreate
    <2> QED  BY <1>3, <1>4, <2>4, <2>5
  <1>7. ASSUME NEW r \in Requests, SendSave(r) PROVE Kept
    BY <1>7, SavedDoes DEF Same
  <1>8. ASSUME NEW r \in Requests, SendCatch(r) PROVE Kept
    <2>1. req[r].row \in Nat /\ "FAILED" \in Statuses
      BY <1>8, RequestShape DEF SendCatch, Statuses
    <2> QED  BY <1>8, <2>1, StatusSet DEF SendCatch, Same
  <1>9. ASSUME NEW r \in Requests, NEW c \in DOMAIN convs, MarkMessages(r, c) PROVE Kept
    BY <1>9, MarkDoes DEF MarkMessages, Same
  <1>10. ASSUME WriteReaction PROVE Kept
    <2>1. worker.row \in Nat /\ React(worker.seen, "them", worker.job.ev.arg) \in SUBSET Parties
      BY <1>10, WorkerShape DEF WriteReaction, NoJob, React, Parties
    <2> QED  BY <1>10, <2>1, ReactSet DEF WriteReaction, Same
  <1>11. ASSUME NEW r \in Requests, ReactWrite(r) PROVE Kept
    <2>1. req[r].row \in Nat /\ React(req[r].seen, "us", req[r].arg) \in SUBSET Parties
      BY <1>11, RequestShape DEF ReactWrite, React, Parties
    <2> QED  BY <1>11, <2>1, ReactSet DEF ReactWrite, Same
  <1>12. ASSUME NEW j \in Jobs, j.ev.kind = "ack", NEW n, TryAck(j, n) PROVE Kept
    <2>1. CASE Rows(j.ev.msg) # {}
      <3>1. WriteAck(j) /\ j.ev.arg \in Acks
        BY <1>12, <2>1, JobShape, EventShape DEF TryAck
      <3> QED  BY <1>12, <3>1, AckDoes DEF Same
    <2>2. CASE Rows(j.ev.msg) = {}
      BY <1>12, <2>2 DEF TryAck
    <2> QED  BY <2>1, <2>2
  <1>13. ASSUME NEW j \in queue, HandleMessageAck(j) PROVE Kept
    BY <1>12, <1>13, Taken DEF HandleMessageAck
  <1>14. ASSUME RetryAck PROVE Kept
    BY <1>12, <1>14, WorkerShape DEF RetryAck, NoJob
  <1>15. ASSUME DeleteSession \/ CreateSession \/ ReattachLook \/ ReattachKeep \/ CountMessage
                \/ SyncChat \/ DatabaseFails \/ Crash
         PROVE  Kept
    <2>1. messages' = messages
      BY <1>15 DEF rows, DeleteSession, CreateSession, ReattachLook, ReattachKeep, CountMessage,
         SyncChat, DatabaseFails, Crash
    <2> QED  BY <1>3, <2>1
  <1>16. ASSUME NEW j \in queue, HandleMessage(j) \/ HandleChatsSynced(j) \/ HandleReaction(j)
         PROVE  Kept
    <2>1. messages' = messages
      BY <1>16 DEF rows, HandleMessage, HandleChatsSynced, HandleReaction
    <2> QED  BY <1>3, <2>1
  <1>17. ASSUME NEW ev \in Events, HandleEngineEvent(ev) PROVE Kept
    BY <1>3, <1>17 DEF rows, HandleEngineEvent
  <1>18. ASSUME UNCHANGED vars PROVE Kept
    BY <1>3, <1>18 DEF vars
  <1>19. ASSUME NEW r \in Requests,
                \/ SendPost(r) \/ SendCount(r) \/ ResetUnread(r) \/ SendPostFails(r)
                \/ SendSaveFails(r) \/ RequestFails(r) \/ CampaignLook(r) \/ CampaignAttach(r)
                \/ \E o \in Sends : CampaignUpsert(r, o)
                \/ \E o \in Sends : SendNew(r, o) \/ \E c \in DOMAIN convs : SendReply(r, o, c)
                \/ \E l \in DOMAIN messages, arg \in {"on", "off"} : ReactRead(r, l, arg)
         PROVE  Kept
    <2>1. messages' = messages
      BY <1>19 DEF rows, SendPost, SendCount, ResetUnread, SendPostFails, SendSaveFails,
         RequestFails, SendNew, SendReply, ReactRead, CampaignLook, CampaignAttach, CampaignUpsert
    <2> QED  BY <1>3, <2>1
  <1> HIDE DEF Kept
  <1>20. ASSUME Worker PROVE Kept \/ Goal
    BY <1>1, <1>2, <1>5, <1>10, <1>13, <1>14, <1>15, <1>16, <1>20 DEF Worker, Receive
  <1>21. ASSUME NEW r \in Requests, Ask(r) PROVE Kept
    BY <1>9, <1>19, <1>21 DEF Ask
  <1>22. ASSUME NEW r \in Requests, Handler(r) PROVE Kept
    BY <1>6, <1>7, <1>8, <1>11, <1>19, <1>22 DEF Handler
  <1>23. ASSUME Faults PROVE Kept
    BY <1>15, <1>19, <1>23 DEF Faults
  <1>27. ASSUME NEW r \in Requests, Mail(r) PROVE Kept \/ Goal
    BY <1>19, <1>26, <1>27 DEF Mail
  <1>24. Kept \/ Goal
    BY <1>15, <1>17, <1>18, <1>20, <1>21, <1>22, <1>23, <1>27 DEF Next
  <1> QED  BY <1>24 DEF Kept, Goal

\* reattachOrphan and the campaign worker, side by side: when conversations of an
\* earlier session are merged, the messages keep theirs, unless a send that did
\* not look for orphans had left the chat with two, or the session was deleted
\* between a worker's look and its deleting the orphans.
THEOREM HistoryIsKept == Spec => HistoryKept
  <1>1. TypeOK /\ ConvInv /\ [Next]_vars =>
          [\A k \in DOMAIN messages :
             messages[k].conv # 0 /\ messages'[k].conv # messages[k].conv =>
               messages[k].conv \in hist.split]_vars
    BY HistoryStep
  <1> QED
    BY <1>1, TypeInit, TypeStep, ConvInit, ConvStep, PTL DEF Spec, HistoryKept

-----------------------------------------------------------------------------
(***************************************************************************)
(* The badge.  A message the worker has counted and not yet stored is one  *)
(* too many, and while a markAsRead is under way there is nothing unread.  *)
(***************************************************************************)
Counted(c) == worker.pc = "message" /\ worker.conv = c /\ worker.job.ev.kind = "received"
BadgeOk(c) ==
  IF Resetting(c) THEN Unread(c) = {} /\ ~Counted(c)
  ELSE convs[c].unread = Cardinality(Unread(c)) + (IF Counted(c) THEN 1 ELSE 0)
BadgeInv == \A c \in DOMAIN convs \ hist.disturbed : BadgeOk(c)

LEMMA BadgeInit == Init => BadgeInv
  <1> SUFFICES ASSUME Init, NEW c \in DOMAIN convs PROVE BadgeOk(c)
    BY DEF BadgeInv
  <1>1. convs[c].unread = 0 /\ Unread(c) = {} /\ ~Counted(c) /\ ~Resetting(c)
    BY DEF Init, Unread, Counted, Resetting, NoJob, NoReq
  <1> QED  BY <1>1, FS_EmptySet DEF BadgeOk

LEMMA UnreadCount ==
  ASSUME TypeOK, NEW c
  PROVE  IsFiniteSet(Unread(c)) /\ Cardinality(Unread(c)) \in Nat /\ Unread(c) \subseteq DOMAIN messages
  <1>1. messages \in Seq(Row) /\ Len(messages) \in Nat /\ DOMAIN messages = 1 .. Len(messages)
    BY LenProperties DEF TypeOK
  <1>2. IsFiniteSet(1 .. Len(messages))
    BY <1>1, FS_Interval
  <1>3. Unread(c) \subseteq DOMAIN messages
    BY DEF Unread
  <1>4. IsFiniteSet(Unread(c))
    BY <1>1, <1>2, <1>3, FS_Subset
  <1> QED  BY <1>3, <1>4, FS_CardinalityType

\* What is the same for the conversation c before and after a step.
SameUnread(c) == Unread(c)' = Unread(c)
SameResetting(c) == Resetting(c)' <=> Resetting(c)
SameCounted(c) == Counted(c)' <=> Counted(c)

LEMMA BadgeQuiet ==
  ASSUME BadgeInv, hist.disturbed \subseteq hist'.disturbed,
         \A c \in DOMAIN convs' \ hist'.disturbed :
           /\ c \in DOMAIN convs /\ convs'[c].unread = convs[c].unread
           /\ SameUnread(c) /\ SameResetting(c) /\ SameCounted(c)
  PROVE  BadgeInv'
  <1> SUFFICES ASSUME NEW c \in DOMAIN convs' \ hist'.disturbed PROVE BadgeOk(c)'
    BY DEF BadgeInv
  <1>1. BadgeOk(c) /\ convs'[c].unread = convs[c].unread
    BY DEF BadgeInv
  <1>2. Unread(c)' = Unread(c) /\ (Resetting(c)' <=> Resetting(c)) /\ (Counted(c)' <=> Counted(c))
    BY DEF SameUnread, SameResetting, SameCounted
  <1> QED  BY <1>1, <1>2 DEF BadgeOk

\* Rows of the other direction do not count.
LEMMA RowsSameUnread ==
  ASSUME TypeOK, SameRows,
         \A k \in DOMAIN messages :
           /\ Same(k, {"conv"})
           /\ messages[k].dir = "INBOUND" => messages'[k].status = messages[k].status
  PROVE  \A c : SameUnread(c)
  BY DEF SameUnread, SameRows, Same, Unread

LEMMA MessagesSameUnread ==
  ASSUME messages' = messages
  PROVE  \A c : SameUnread(c)
  BY DEF SameUnread, Unread

LEMMA AddedSameUnread ==
  ASSUME TypeOK, NEW u \in Row, messages' = Append(messages, u), u.dir # "INBOUND"
  PROVE  \A c : SameUnread(c)
  BY RowAdded DEF SameUnread, Unread

LEMMA ReqSameResetting ==
  ASSUME req' = req
  PROVE  \A c : SameResetting(c)
  BY DEF SameResetting, Resetting

LEMMA OneSameResetting ==
  ASSUME NEW r \in Requests, req[r].pc # "reset", req'[r].pc # "reset",
         \A q \in Requests \ {r} : req'[q] = req[q]
  PROVE  \A c : SameResetting(c)
  BY DEF SameResetting, Resetting

LEMMA WorkerSameCounted ==
  ASSUME worker' = worker \/ (worker.pc # "message" /\ worker'.pc # "message")
  PROVE  \A c : SameCounted(c)
  BY DEF SameCounted, Counted

LEMMA ThrowBadge ==
  ASSUME TypeOK, BadgeInv, JobThrows, worker # NoJob, UNCHANGED <<convs, messages, req>>
  PROVE  BadgeInv'
  <1>1. hist' = [hist EXCEPT
       !.disturbed = IF worker.pc = "message" /\ worker.job.ev.kind = "received"
                     THEN @ \cup {worker.conv} ELSE @,
       !.lost = IF worker.job.left = 1 /\ worker.job.ev.kind = "received"
                THEN @ \cup {worker.job.ev.msg} ELSE @]
    BY DEF JobThrows
  <1>2. hist'.disturbed = IF worker.pc = "message" /\ worker.job.ev.kind = "received"
                          THEN hist.disturbed \cup {worker.conv} ELSE hist.disturbed
    BY <1>1 DEF TypeOK
  <1>3. worker' = NoJob
    BY DEF JobThrows
  <1>4. \A c : c \notin hist'.disturbed => SameCounted(c)
    BY <1>2, <1>3 DEF SameCounted, Counted, NoJob
  <1>5. \A c : SameUnread(c) /\ SameResetting(c)
    BY MessagesSameUnread, ReqSameResetting
  <1> QED  BY <1>2, <1>4, <1>5, BadgeQuiet

\* A conversation the upsert makes has no messages, and nobody waits for it.
LEMMA FreshUpsert ==
  ASSUME TypeOK, ConvInv, live, Keepers = {}
  PROVE  session \notin DOMAIN convs /\ Unread(session) = {} /\ ~Counted(session)
  <1>0. ConvsSplit /\ JobsPast /\ WorkerKnows
    BY DEF ConvInv, ChatInv
  <1>1. session \notin DOMAIN convs
    BY <1>0 DEF ConvsSplit, Keepers
  <1>2. session # 0
    BY InboxAssumption DEF TypeOK, ConvIds
  <1>3. Unread(session) = {}
    BY <1>0, <1>1, <1>2 DEF ConvsSplit, MessagesHome, Unread
  <1>4. ASSUME worker.pc = "message" PROVE worker.conv # session
    <2>1. worker # NoJob
      BY <1>4 DEF NoJob
    <2>2. worker.job \in Jobs
      BY <2>1, WorkerShape
    <2>3. worker.job.session \in ConvIds /\ worker.job.session <= session /\ worker.job.session # session
      BY <1>0, <1>4, <2>1, <2>2, JobShape DEF WorkerKnows, JobsPast, SessionFound
    <2>4. worker.conv <= worker.job.session /\ worker.conv \in ConvIds
      BY <1>0, <1>4, WorkerShape DEF WorkerKnows
    <2>5. session \in ConvIds
      BY DEF TypeOK
    <2> QED  BY <2>3, <2>4, <2>5, InboxAssumption DEF ConvIds
  <1> QED  BY <1>1, <1>3, <1>4 DEF Counted

\* The upsert counts as many messages as the worker then has to store.
LEMMA UpsertBadge ==
  ASSUME TypeOK, ConvInv, BadgeInv, live, NEW count \in {0, 1}, Upsert(TRUE, count),
         NEW u, u = Upserted, messages' = messages, \A c : SameResetting(c),
         hist.disturbed \subseteq hist'.disturbed,
         count = 1 /\ Resetting(u) => u \in hist'.disturbed,
         \A c : c # u => SameCounted(c),
         count = 0 => SameCounted(u),
         count = 1 => ~Counted(u) /\ Counted(u)'
  PROVE  BadgeInv'
  <1>2. Upserts(u, IF Keepers # {} THEN convs[u].unread + count ELSE count)
    BY UpsertDoes
  <1>3. /\ DOMAIN convs' = DOMAIN convs \cup {u}
        /\ \A d \in DOMAIN convs \ {u} : convs'[d] = convs[d]
        /\ convs'[u].unread = IF Keepers # {} THEN convs[u].unread + count ELSE count
        /\ Keepers = {u} \/ (Keepers = {} /\ u = session)
    BY <1>2 DEF Upserts
  <1>4. \A c : Unread(c)' = Unread(c)
    BY MessagesSameUnread DEF SameUnread
  <1>5. \A c : Resetting(c)' <=> Resetting(c)
    BY DEF SameResetting
  <1>6. ASSUME NEW c \in DOMAIN convs' \ hist'.disturbed, c # u PROVE BadgeOk(c)'
    <2>1. c \in DOMAIN convs /\ convs'[c] = convs[c] /\ BadgeOk(c)
      BY <1>3, <1>6 DEF BadgeInv
    <2>2. Counted(c)' <=> Counted(c)
      BY <1>6 DEF SameCounted
    <2>3. Unread(c)' = Unread(c) /\ (Resetting(c)' <=> Resetting(c))
      BY <1>4, <1>5
    <2> QED  BY <2>1, <2>2, <2>3 DEF BadgeOk
  <1>7. ASSUME u \notin hist'.disturbed PROVE BadgeOk(u)'
    <2>1. Unread(u)' = Unread(u) /\ (Resetting(u)' <=> Resetting(u))
      BY <1>4, <1>5
    <2>2. Cardinality(Unread(u)) \in Nat
      BY UnreadCount
    <2>3. Resetting(u) => count = 0
      BY <1>7
    <2>4. count = 0 => (Counted(u)' <=> Counted(u))
      BY DEF SameCounted
    <2>5. count = 1 => ~Counted(u) /\ Counted(u)'
      OBVIOUS
    <2>6. CASE Keepers # {}
      <3>1. u \in DOMAIN convs /\ convs[u].unread \in Nat
        BY <1>3, <2>6, ConvShape DEF Keepers
      <3>2. BadgeOk(u)
        BY <1>7, <3>1 DEF BadgeInv
      <3>3. convs'[u].unread = convs[u].unread + count
        BY <1>3, <2>6
      <3>4. CASE count = 0
        BY <2>1, <2>4, <3>1, <3>2, <3>3, <3>4 DEF BadgeOk
      <3>5. CASE count = 1
        <4>1. convs[u].unread = Cardinality(Unread(u))
          BY <2>2, <2>3, <2>5, <3>2, <3>5 DEF BadgeOk
        <4>2. convs'[u].unread = Cardinality(Unread(u)) + 1
          BY <3>3, <3>5, <4>1
        <4> QED  BY <2>1, <2>3, <2>5, <3>5, <4>2 DEF BadgeOk
      <3> QED  BY <3>4, <3>5
    <2>7. CASE Keepers = {}
      <3>1. Unread(u) = {} /\ ~Counted(u)
        BY <1>3, <2>7, FreshUpsert
      <3>2. Cardinality(Unread(u)) = 0
        BY <3>1, FS_EmptySet
      <3>3. convs'[u].unread = count
        BY <1>3, <2>7
      <3> QED  BY <2>1, <2>3, <2>4, <2>5, <3>1, <3>2, <3>3 DEF BadgeOk
    <2> QED  BY <2>6, <2>7
  <1> QED  BY <1>6, <1>7 DEF BadgeInv

\* Deleted conversations have no badge, and the others keep their messages.
LEMMA RemovalBadge ==
  ASSUME TypeOK, BadgeInv, NEW dead, convs' = Without(dead), messages' = Detach(dead),
         UNCHANGED <<session, live, hist>>, \A c : SameResetting(c) /\ SameCounted(c)
  PROVE  BadgeInv'
  <1>1. /\ DOMAIN convs' = DOMAIN convs \ dead
        /\ \A c \in DOMAIN convs \ dead : convs'[c] = convs[c]
    BY WithoutDoes
  <1>2. SameRows /\ \A k \in DOMAIN messages :
          /\ Same(k, {"status", "id", "react"})
          /\ messages'[k].conv = IF messages[k].conv \in dead THEN 0 ELSE messages[k].conv
    BY DetachDoes
  <1>3. 0 \notin DOMAIN convs
    BY DEF TypeOK
  <1>4. ASSUME NEW c \in DOMAIN convs \ dead PROVE SameUnread(c)
    BY <1>2, <1>3 DEF SameUnread, Unread, SameRows, Same
  <1> QED  BY <1>1, <1>4, BadgeQuiet

LEMMA BadgeWorker ==
  ASSUME TypeOK, RowInv, ConvInv, BadgeInv,
         \/ ReattachLook \/ ReattachDelete \/ ReattachTrim \/ ReattachKeep \/ CountMessage
         \/ CreateMessage \/ SyncChat
  PROVE  BadgeInv'
  <1>1. ASSUME ReattachLook PROVE BadgeInv'
    <2>1. UNCHANGED <<convs, messages, req, hist>> /\ worker.pc = "reattach"
      BY <1>1 DEF ReattachLook, rows
    <2>2. worker'.pc \in {"orphans", "sync", "conversation"}
      <3>1. worker' \in {[pc |-> "orphans", job |-> worker.job, kept |-> {}],
                         [pc |-> "orphans", job |-> worker.job, kept |-> Orphans],
                         [pc |-> NextStep, job |-> worker.job]}
        BY <1>1 DEF ReattachLook
      <3> QED  BY <3>1 DEF NextStep
    <2> QED
      BY <2>1, <2>2, MessagesSameUnread, ReqSameResetting, WorkerSameCounted, BadgeQuiet
  <1>3. ASSUME ReattachDelete PROVE BadgeInv'
    <2>1. /\ convs' = Without(Orphans) /\ messages' = Detach(Orphans)
          /\ UNCHANGED <<session, live, req, hist>>
          /\ worker' = [pc |-> NextStep, job |-> worker.job] /\ worker.pc = "orphans"
      BY <1>3 DEF ReattachDelete
    <2>2. worker'.pc \in {"sync", "conversation"}
      BY <2>1 DEF NextStep
    <2> QED  BY <2>1, <2>2, WorkerSameCounted, ReqSameResetting, RemovalBadge
  <1>4. ASSUME ReattachTrim PROVE BadgeInv'
    <2>1. PICK c \in Oldest(worker.kept) :
            /\ convs' = Without(worker.kept \ {c})
            /\ messages' = Detach(worker.kept \ {c})
            /\ worker' = [pc |-> "orphans", job |-> worker.job, kept |-> {c}]
      BY <1>4 DEF ReattachTrim
    <2>2. UNCHANGED <<session, live, req, hist>> /\ worker.pc = "orphans"
      BY <1>4 DEF ReattachTrim
    <2> QED  BY <2>1, <2>2, WorkerSameCounted, ReqSameResetting, RemovalBadge
  <1>5. ASSUME ReattachKeep PROVE BadgeInv'
    <2>1. PICK c \in worker.kept :
            /\ worker.kept = {c}
            /\ IF Attachable(c)
               THEN /\ convs' = [convs EXCEPT ![c].session = session]
                    /\ worker' = [pc |-> NextStep, job |-> worker.job]
                    /\ UNCHANGED <<queue, hist>>
               ELSE /\ convs' = convs
                    /\ IF worker.job.ev.kind = "sync"
                       THEN JobDone /\ UNCHANGED <<queue, hist>> ELSE JobThrows
      BY <1>5 DEF ReattachKeep
    <2>2. /\ worker # NoJob /\ worker.pc = "orphans" /\ UNCHANGED <<session, live, messages, req>>
      BY <1>5 DEF ReattachKeep, NoJob
    <2>3. c \in ConvIds
      BY <2>1, <2>2, WorkerShape
    <2>4. CASE Attachable(c)
      <3>1. /\ convs' = [convs EXCEPT ![c].session = session]
            /\ worker' = [pc |-> NextStep, job |-> worker.job]
            /\ UNCHANGED <<queue, hist>> /\ live /\ Keepers \subseteq {c}
        BY <2>1, <2>4 DEF SessionFound, Attachable
      <3>2. /\ DOMAIN convs' = DOMAIN convs
            /\ \A d \in DOMAIN convs : convs'[d].unread = convs[d].unread
        BY <2>2, <2>3, <3>1, KeptDoes
      <3>3. worker'.pc \in {"sync", "conversation"}
        BY <3>1 DEF NextStep
      <3> QED
        BY <2>2, <3>1, <3>2, <3>3, MessagesSameUnread, ReqSameResetting, WorkerSameCounted, BadgeQuiet
    <2>5. CASE ~Attachable(c)
      <3>1. /\ convs' = convs
            /\ \/ worker' = NoJob /\ UNCHANGED <<queue, hist>>
               \/ JobThrows
        BY <2>1, <2>5 DEF JobDone
      <3>2. CASE JobThrows
        BY <2>2, <3>1, <3>2, ThrowBadge
      <3>3. CASE worker' = NoJob /\ UNCHANGED <<queue, hist>>
        <4>1. worker'.pc = "idle"
          BY <3>3 DEF NoJob
        <4> QED
          BY <2>2, <3>1, <3>3, <4>1, MessagesSameUnread, ReqSameResetting, WorkerSameCounted, BadgeQuiet
      <3> QED  BY <3>1, <3>2, <3>3
    <2> QED  BY <2>4, <2>5
  <1>6. ASSUME CountMessage PROVE BadgeInv'
    <2>1. /\ worker # NoJob /\ worker.pc = "conversation" /\ UNCHANGED <<session, live, messages, req>>
      BY <1>6 DEF CountMessage, NoJob
    <2>2. CASE SessionFound(worker.job)
      <3>1. PICK one \in {0, 1} :
              /\ one = IF worker.job.ev.kind = "received" THEN 1 ELSE 0
              /\ Upsert(TRUE, one)
              /\ worker' = [pc |-> "message", job |-> worker.job, conv |-> Upserted]
              /\ hist' = IF one = 1 /\ Resetting(Upserted)
                         THEN [hist EXCEPT !.disturbed = @ \cup {Upserted}] ELSE hist
        BY <1>6, <2>2 DEF CountMessage
      <3>2. /\ hist.disturbed \subseteq hist'.disturbed
            /\ one = 1 /\ Resetting(Upserted) => Upserted \in hist'.disturbed
        BY <3>1 DEF TypeOK
      <3>3. PICK u : u = Upserted
        OBVIOUS
      <3>4. \A c : ~Counted(c)
        BY <2>1 DEF Counted
      <3>5. \A c : Counted(c)' <=> (c = u /\ one = 1)
        BY <3>1, <3>3 DEF Counted
      <3>6. /\ \A c : c # u => SameCounted(c)
            /\ one = 0 => SameCounted(u)
            /\ one = 1 => ~Counted(u) /\ Counted(u)'
        BY <3>1, <3>4, <3>5 DEF SameCounted
      <3>7. \A c : SameResetting(c)
        BY <2>1, ReqSameResetting
      <3>8. live /\ Upsert(TRUE, one) /\ (one = 1 /\ Resetting(u) => u \in hist'.disturbed)
        BY <2>2, <3>1, <3>2, <3>3 DEF SessionFound
      <3> QED  BY <2>1, <3>2, <3>3, <3>6, <3>7, <3>8, UpsertBadge
    <2>3. CASE ~SessionFound(worker.job)
      BY <1>6, <2>1, <2>3, ThrowBadge DEF CountMessage
    <2> QED  BY <2>2, <2>3
  <1>7. ASSUME SyncChat PROVE BadgeInv'
    <2>1. /\ worker.pc = "sync" /\ UNCHANGED <<session, live, messages, queue, req>> /\ worker' = NoJob
      BY <1>7 DEF SyncChat, JobDone
    <2>2. \A c : SameUnread(c) /\ SameResetting(c) /\ SameCounted(c)
      BY <2>1, MessagesSameUnread, ReqSameResetting, WorkerSameCounted DEF NoJob
    <2>3. CASE convs' = convs /\ hist' = hist
      BY <2>2, <2>3, BadgeQuiet
    <2>4. CASE ~(convs' = convs /\ hist' = hist)
      <3>1. PICK count \in {0, 1} :
              /\ Upsert(FALSE, count)
              /\ hist' = [hist EXCEPT !.disturbed = @ \cup {Upserted}]
        BY <1>7, <2>4 DEF SyncChat
      <3>2. PICK n : Upserts(Upserted, n)
        BY <3>1, UpsertDoes
      <3>3. hist'.disturbed = hist.disturbed \cup {Upserted}
        BY <3>1 DEF TypeOK
      <3>4. \A c \in DOMAIN convs' \ hist'.disturbed : c \in DOMAIN convs /\ convs'[c] = convs[c]
        BY <3>2, <3>3 DEF Upserts
      <3> QED  BY <2>2, <3>3, <3>4, BadgeQuiet
    <2> QED  BY <2>3, <2>4
  <1>8. ASSUME CreateMessage PROVE BadgeInv'
    <2>1. /\ worker # NoJob /\ worker.job.ev \in Events /\ worker.conv \in 0 .. MaxSessions
          /\ worker.job.ev.kind \in {"received", "outgoing"} /\ worker.pc = "message"
          /\ UNCHANGED <<convs, req>>
      BY <1>8, WorkerShape DEF CreateMessage, NoJob, ConvIds
    <2>2. worker.job.ev.msg \in Inbound \cup Sends /\ {"DELIVERED", "SENT"} \subseteq Statuses
      BY <2>1, EventShape DEF Statuses
    <2>3. CASE SessionFound(worker.job) /\ worker.job.ev.kind = "received"
      <3>1. PICK u : u = NewRow(worker.job.ev.msg, "INBOUND", worker.conv, "DELIVERED", "engine")
        OBVIOUS
      <3>2. u \in Row /\ u.dir = "INBOUND" /\ u.status = "DELIVERED" /\ u.conv = worker.conv
        BY <2>1, <2>2, <3>1, NewRowShape
      <3>3. messages' = Append(messages, u) /\ worker' = NoJob /\ hist' = hist
        BY <1>8, <2>3, <3>1 DEF CreateMessage, JobDone
      <3>4. PICK n : n = Len(messages) + 1
        OBVIOUS
      <3>5. /\ DOMAIN messages' = DOMAIN messages \cup {n} /\ n \notin DOMAIN messages
            /\ messages'[n] = u /\ \A k \in DOMAIN messages : messages'[k] = messages[k]
        BY <3>2, <3>3, <3>4, RowAdded
      <3>6. PICK b : b = worker.conv
        OBVIOUS
      <3>7. \A c : Unread(c)' = IF c = b THEN Unread(c) \cup {n} ELSE Unread(c)
        BY <3>2, <3>5, <3>6 DEF Unread
      <3>8. (\A c : Counted(c) <=> c = b) /\ \A c : ~Counted(c)'
        BY <2>1, <2>3, <3>3, <3>6 DEF Counted, NoJob
      <3>9. \A c : Resetting(c)' <=> Resetting(c)
        BY <2>1 DEF Resetting
      <3>10. ASSUME NEW c \in DOMAIN convs \ hist.disturbed PROVE BadgeOk(c)'
        <4>1. BadgeOk(c) /\ convs[c].unread \in Nat
          BY ConvShape DEF BadgeInv
        <4>2. CASE c = b
          <5>1. ~Resetting(c) /\ convs[c].unread = Cardinality(Unread(c)) + 1
            BY <3>8, <4>1, <4>2 DEF BadgeOk
          <5>2. Cardinality(Unread(c) \cup {n}) = Cardinality(Unread(c)) + 1
            BY <3>5, UnreadCount, FS_AddElement
          <5>3. Unread(c)' = Unread(c) \cup {n} /\ ~Counted(c)' /\ ~Resetting(c)'
            BY <3>7, <3>8, <3>9, <4>2, <5>1
          <5>4. convs'[c].unread = Cardinality(Unread(c)') /\ convs'[c].unread \in Nat
            BY <2>1, <4>1, <5>1, <5>2, <5>3
          <5> QED  BY <5>3, <5>4 DEF BadgeOk
        <4>3. CASE c # b
          BY <2>1, <3>7, <3>8, <3>9, <4>1, <4>3 DEF BadgeOk
        <4> QED  BY <4>2, <4>3
      <3> QED  BY <2>1, <3>3, <3>10 DEF BadgeInv
    <2>4. CASE SessionFound(worker.job) /\ worker.job.ev.kind = "outgoing"
      <3>1. PICK u : u = NewRow(worker.job.ev.msg, "OUTBOUND", worker.conv, "SENT", "engine")
        OBVIOUS
      <3>2. u \in Row /\ u.dir = "OUTBOUND"
        BY <2>1, <2>2, <3>1, NewRowShape
      <3>3. messages' = Append(messages, u) /\ worker' = NoJob /\ hist' = hist
        BY <1>8, <2>4, <3>1 DEF CreateMessage, JobDone
      <3>4. \A c : SameUnread(c)
        BY <3>2, <3>3, AddedSameUnread
      <3>5. \A c : SameCounted(c)
        BY <2>4, <3>3 DEF SameCounted, Counted, NoJob
      <3> QED  BY <2>1, <3>3, <3>4, <3>5, ReqSameResetting, BadgeQuiet
    <2>5. CASE ~SessionFound(worker.job)
      BY <1>8, <2>1, <2>5, ThrowBadge DEF CreateMessage
    <2> QED  BY <2>1, <2>3, <2>4, <2>5
  <1> QED  BY <1>1, <1>3, <1>4, <1>5, <1>6, <1>7, <1>8

\* markAsRead on its own repairs the badge, in its two statements.
LEMMA BadgeMarked ==
  ASSUME TypeOK, BadgeInv, NEW r \in Requests, NEW b \in DOMAIN convs, MarkMessages(r, b)
  PROVE  BadgeInv'
  <1>1. /\ SameRows
        /\ \A k \in DOMAIN messages :
             /\ Same(k, {"conv", "id", "react"})
             /\ messages'[k].status = IF k \in Unread(b) THEN "READ" ELSE messages[k].status
    BY MarkDoes
  <1>2. Unread(b)' = {}
    BY <1>1 DEF Unread, SameRows, Same
  <1>3. \A c : c # b => SameUnread(c)
    BY <1>1 DEF SameUnread, Unread, SameRows, Same
  <1>4. [pc |-> "reset", conv |-> b] \in RequestTasks
    BY ConvShape DEF RequestTasks
  <1>5. /\ req'[r].pc = "reset" /\ req'[r].conv = b /\ req[r].pc = "idle"
        /\ \A q \in Requests \ {r} : req'[q] = req[q]
    <2>1. PICK t : t = [pc |-> "reset", conv |-> b]
      OBVIOUS
    <2>2. req' = [req EXCEPT ![r] = t] /\ req[r] = NoReq
      BY <2>1 DEF MarkMessages, Free
    <2>3. req'[r] = t /\ \A q \in Requests \ {r} : req'[q] = req[q]
      BY <1>4, <2>1, <2>2, BeginDoes
    <2> QED  BY <2>1, <2>2, <2>3 DEF NoReq
  <1>6. Resetting(b)' /\ \A c : c # b => SameResetting(c)
    BY <1>5 DEF Resetting, SameResetting
  <1>7. convs' = convs /\ worker' = worker
    BY DEF MarkMessages
  <1>8. \A c : SameCounted(c)
    BY <1>7, WorkerSameCounted
  <1>9. hist'.disturbed = IF Counted(b) THEN hist.disturbed \cup {b} ELSE hist.disturbed \ {b}
    BY DEF MarkMessages, Counted, TypeOK
  <1>10. ASSUME NEW c \in DOMAIN convs \ hist'.disturbed, c # b PROVE BadgeOk(c)'
    <2>1. BadgeOk(c)
      BY <1>9, <1>10 DEF BadgeInv
    <2>2. /\ Unread(c)' = Unread(c) /\ (Resetting(c)' <=> Resetting(c))
          /\ (Counted(c)' <=> Counted(c))
      BY <1>3, <1>6, <1>8, <1>10 DEF SameUnread, SameResetting, SameCounted
    <2> QED  BY <1>7, <2>1, <2>2 DEF BadgeOk
  <1>11. ASSUME b \notin hist'.disturbed PROVE BadgeOk(b)'
    <2>1. ~Counted(b)'
      BY <1>8, <1>9, <1>11 DEF SameCounted
    <2> QED  BY <1>2, <1>6, <2>1 DEF BadgeOk
  <1> QED  BY <1>7, <1>10, <1>11 DEF BadgeInv

LEMMA BadgeCleared ==
  ASSUME TypeOK, BadgeInv, NEW r \in Requests, ResetUnread(r)
  PROVE  BadgeInv'
  <1>1. PICK b : b = req[r].conv
    OBVIOUS
  <1>2. /\ DOMAIN convs' = DOMAIN convs
        /\ \A c \in DOMAIN convs : convs'[c].unread = IF c = b THEN 0 ELSE convs[c].unread
    BY <1>1, BadgeReset
  <1>3. req'[r].pc = "idle" /\ \A q \in Requests \ {r} : req'[q] = req[q]
    BY LeaveDoes DEF ResetUnread
  <1>4. Resetting(b) /\ \A c : c # b => SameResetting(c)
    BY <1>1, <1>3 DEF Resetting, SameResetting, ResetUnread
  <1>5. worker' = worker /\ messages' = messages /\ hist' = hist
    BY DEF ResetUnread
  <1>6. \A c : Unread(c)' = Unread(c) /\ (Counted(c)' <=> Counted(c))
    BY <1>5, MessagesSameUnread, WorkerSameCounted DEF SameUnread, SameCounted
  <1>7. ASSUME NEW c \in DOMAIN convs \ hist.disturbed PROVE BadgeOk(c)'
    <2>1. BadgeOk(c)
      BY DEF BadgeInv
    <2>2. CASE c = b
      <3>1. Unread(c) = {} /\ ~Counted(c)
        BY <1>4, <2>1, <2>2 DEF BadgeOk
      <3>2. Unread(c)' = {} /\ ~Counted(c)' /\ convs'[c].unread = 0
        BY <1>2, <1>6, <2>2, <3>1
      <3> QED  BY <3>2, FS_EmptySet DEF BadgeOk
    <2>3. CASE c # b
      <3>1. Resetting(c)' <=> Resetting(c)
        BY <1>4, <2>3 DEF SameResetting
      <3> QED  BY <1>2, <1>6, <2>1, <2>3, <3>1 DEF BadgeOk
    <2> QED  BY <2>2, <2>3
  <1> QED  BY <1>2, <1>5, <1>7 DEF BadgeInv

\* A request that neither begins nor ends a markAsRead, over rows that keep
\* what counts.
LEMMA BadgeRequestQuiet ==
  ASSUME TypeOK, BadgeInv, NEW r \in Requests, req[r].pc # "reset", req'[r].pc # "reset",
         \A q \in Requests \ {r} : req'[q] = req[q],
         convs' = convs, worker' = worker, hist'.disturbed = hist.disturbed,
         \A c : SameUnread(c)
  PROVE  BadgeInv'
  BY OneSameResetting, WorkerSameCounted, BadgeQuiet

\* The row a send has stored is one of ours.
LEMMA SendersRow ==
  ASSUME TypeOK, RowInv, SendInv, NEW r \in Requests, req[r].pc \in {"save", "catch"}
  PROVE  req[r].row \in DOMAIN messages /\ messages[req[r].row].dir = "OUTBOUND"
  <1>1. req[r].row \in DOMAIN messages /\ messages[req[r].row].msg = req[r].msg
    BY DEF SendInv, RequestKnows, SendingPcs
  <1>2. req[r].msg \in Sends
    BY RequestShape
  <1> QED  BY <1>1, <1>2 DEF RowInv

LEMMA BadgeRequest ==
  ASSUME TypeOK, RowInv, SendInv, ConvInv, BadgeInv, NEW r \in Requests,
         Ask(r) \/ Handler(r) \/ Mail(r)
  PROVE  BadgeInv'
  <1>1. ASSUME NEW o \in Sends, SendNew(r, o) PROVE BadgeInv'
    <2>1. PICK u : u = Upserted
      OBVIOUS
    <2>2. /\ live /\ Upsert(TRUE, 0) /\ messages' = messages /\ worker' = worker
          /\ req[r] = NoReq /\ NoReq.pc = "idle"
      BY <1>1 DEF SendNew, Free, NoReq
    <2>6. hist'.disturbed = hist.disturbed
      BY <1>1 DEF SendNew, TypeOK
    <2>3. Upserted \in ConvIds /\ "send" \in Senders
      BY <2>2, UpsertedConv DEF Senders
    <2>4. req'[r].pc = "create" /\ \A q \in Requests \ {r} : req'[q] = req[q]
      BY <1>1, <2>3, CreatesDoes DEF SendNew
    <2>5. \A c : SameResetting(c) /\ SameCounted(c)
      BY <2>2, <2>4, OneSameResetting, WorkerSameCounted
    <2> QED  BY <2>1, <2>2, <2>5, <2>6, UpsertBadge
  <1>2. ASSUME NEW o \in Sends, NEW b \in DOMAIN convs, SendReply(r, o, b) PROVE BadgeInv'
    <2>1. b \in ConvIds /\ "send" \in Senders
      BY ConvShape DEF Senders
    <2>2. req'[r].pc = "create" /\ \A q \in Requests \ {r} : req'[q] = req[q]
      BY <1>2, <2>1, CreatesDoes DEF SendReply
    <2>3. req[r].pc = "idle" /\ UNCHANGED <<convs, messages, worker, hist>>
      BY <1>2 DEF SendReply, Free, NoReq, rows
    <2> QED  BY <2>2, <2>3, MessagesSameUnread, BadgeRequestQuiet
  <1>3. ASSUME NEW k \in DOMAIN messages, NEW arg \in {"on", "off"}, ReactRead(r, k, arg)
        PROVE  BadgeInv'
    <2>1. PICK t : t = [pc |-> "react", row |-> k, seen |-> messages[k].react, arg |-> arg]
      OBVIOUS
    <2>2. t \in RequestTasks /\ t.pc = "react"
      BY <2>1, RowShape DEF RequestTasks, Row
    <2>3. /\ req' = [req EXCEPT ![r] = t] /\ req[r].pc = "idle"
          /\ UNCHANGED <<convs, messages, worker>>
      BY <1>3, <2>1 DEF ReactRead, Free, NoReq, rows
    <2>4. req'[r] = t /\ \A q \in Requests \ {r} : req'[q] = req[q]
      BY <2>2, <2>3, BeginDoes
    <2>5. hist'.disturbed = hist.disturbed
      BY <1>3 DEF ReactRead, TypeOK
    <2> QED  BY <2>2, <2>3, <2>4, <2>5, MessagesSameUnread, BadgeRequestQuiet
  <1>4. ASSUME SendCreate(r) PROVE BadgeInv'
    <2>1. /\ req[r].pc = "create" /\ req[r].msg \in Sends /\ req[r].conv \in 0 .. MaxSessions
          /\ UNCHANGED <<convs, worker, hist>> /\ req[r].session \in ConvIds
      BY <1>4, RequestShape DEF SendCreate, ConvIds
    <2>2. CASE live /\ req[r].session = session /\ req[r].conv \in DOMAIN convs
      <3>1. PICK u : u = NewRow(req[r].msg, "OUTBOUND", req[r].conv, "PENDING", req[r].by)
        OBVIOUS
      <3>3. u \in Row /\ u.dir = "OUTBOUND"
        BY <2>1, <3>1, SentRow
      <3>4. messages' = Append(messages, u)
        BY <1>4, <2>2, <3>1 DEF SendCreate
      <3>5. PICK t : t = [pc |-> "post", msg |-> req[r].msg, session |-> req[r].session,
                          row |-> Len(messages) + 1]
        OBVIOUS
      <3>6. Len(messages) \in Nat
        BY LenProperties DEF TypeOK
      <3>7. t \in RequestTasks /\ t.pc = "post"
        BY <2>1, <3>5, <3>6 DEF RequestTasks
      <3>8. req' = [req EXCEPT ![r] = t]
        BY <1>4, <2>2, <3>5 DEF SendCreate
      <3>9. req'[r] = t /\ \A q \in Requests \ {r} : req'[q] = req[q]
        BY <3>7, <3>8, BeginDoes
      <3> QED  BY <2>1, <3>3, <3>4, <3>7, <3>9, AddedSameUnread, BadgeRequestQuiet
    <2>3. CASE ~(live /\ req[r].session = session /\ req[r].conv \in DOMAIN convs)
      <3>1. Leave(r) /\ messages' = messages
        BY <1>4, <2>3 DEF SendCreate
      <3> QED  BY <2>1, <3>1, LeaveDoes, MessagesSameUnread, BadgeRequestQuiet
    <2> QED  BY <2>2, <2>3
  <1>5. ASSUME SendPost(r) PROVE BadgeInv'
    <2>1. /\ req'[r].pc = "save" /\ \A q \in Requests \ {r} : req'[q] = req[q]
      BY <1>5, GotoDoes DEF SendPost
    <2> QED
      BY <1>5, <2>1, MessagesSameUnread, BadgeRequestQuiet DEF SendPost, rows
  <1>6. ASSUME SendSave(r) PROVE BadgeInv'
    <2>1. /\ req'[r].pc = "count" /\ \A q \in Requests \ {r} : req'[q] = req[q]
      BY <1>6, GotoDoes DEF SendSave
    <2>2. /\ req[r].pc = "save" /\ UNCHANGED <<convs, worker>> /\ hist'.disturbed = hist.disturbed
      BY <1>6 DEF SendSave, TypeOK
    <2>3. /\ SameRows
          /\ \A k \in DOMAIN messages :
               /\ Same(k, {"conv", "react"})
               /\ messages'[k].status = IF k = req[r].row THEN "SENT" ELSE messages[k].status
      BY <1>6, SavedDoes
    <2>4. \A k \in DOMAIN messages : k = req[r].row => messages[k].dir = "OUTBOUND"
      BY <2>2, SendersRow
    <2>5. \A c : SameUnread(c)
      BY <2>3, <2>4, RowsSameUnread DEF Same
    <2> QED  BY <2>1, <2>2, <2>5, BadgeRequestQuiet
  <1>7. ASSUME SendCount(r) PROVE BadgeInv'
    <2>1. /\ req'[r].pc \in {"idle", "catch"} /\ \A q \in Requests \ {r} : req'[q] = req[q]
      BY <1>7, GotoDoes, LeaveDoes DEF SendCount
    <2>2. hist'.disturbed = hist.disturbed
      BY <1>7 DEF SendCount, TypeOK
    <2> QED
      BY <1>7, <2>1, <2>2, MessagesSameUnread, BadgeRequestQuiet DEF SendCount, rows
  <1>8. ASSUME SendCatch(r) PROVE BadgeInv'
    <2>1. /\ req'[r].pc = "idle" /\ \A q \in Requests \ {r} : req'[q] = req[q]
      BY <1>8, LeaveDoes DEF SendCatch
    <2>2. /\ req[r].pc = "catch" /\ req[r].row \in Nat /\ UNCHANGED <<convs, worker, hist>>
          /\ messages' = [messages EXCEPT ![req[r].row].status = "FAILED"] /\ "FAILED" \in Statuses
      BY <1>8, RequestShape DEF SendCatch, Statuses
    <2>3. /\ SameRows
          /\ \A k \in DOMAIN messages :
               /\ Same(k, {"conv", "id", "react"})
               /\ messages'[k].status = IF k = req[r].row THEN "FAILED" ELSE messages[k].status
      BY <2>2, StatusSet
    <2>4. \A k \in DOMAIN messages : k = req[r].row => messages[k].dir = "OUTBOUND"
      BY <2>2, SendersRow
    <2>5. \A c : SameUnread(c)
      BY <2>3, <2>4, RowsSameUnread DEF Same
    <2> QED  BY <2>1, <2>2, <2>5, BadgeRequestQuiet
  <1>9. ASSUME ReactWrite(r) PROVE BadgeInv'
    <2>1. /\ req'[r].pc = "idle" /\ \A q \in Requests \ {r} : req'[q] = req[q]
      BY <1>9, LeaveDoes DEF ReactWrite
    <2>2. /\ req[r].row \in Nat /\ React(req[r].seen, "us", req[r].arg) \in SUBSET Parties
          /\ req[r].pc = "react"
      BY <1>9, RequestShape DEF ReactWrite, React, Parties
    <2>3. SameRows /\ \A k \in DOMAIN messages : Same(k, {"conv", "id", "status"})
      BY <1>9, <2>2, ReactSet DEF ReactWrite
    <2>4. \A c : SameUnread(c)
      BY <2>3, RowsSameUnread DEF Same
    <2>5. convs' = convs /\ worker' = worker /\ hist'.disturbed = hist.disturbed
      BY <1>9 DEF ReactWrite, TypeOK
    <2> QED  BY <2>1, <2>2, <2>4, <2>5, BadgeRequestQuiet
  <1>12. ASSUME CampaignLook(r) PROVE BadgeInv'
    <2>1. PICK t : /\ t = [pc |-> IF Keepers # {} THEN "purge" ELSE "attach", session |-> session]
                   /\ req' = [req EXCEPT ![r] = t]
      BY <1>12 DEF CampaignLook
    <2>2. t \in RequestTasks /\ t.pc # "reset"
      BY <2>1, RequestTypes DEF TypeOK
    <2>3. req'[r] = t /\ \A q \in Requests \ {r} : req'[q] = req[q]
      BY <2>1, <2>2, BeginDoes
    <2>4. req[r].pc = "idle" /\ UNCHANGED <<convs, messages, worker, hist>>
      BY <1>12 DEF CampaignLook, Free, NoReq, rows
    <2> QED  BY <2>2, <2>3, <2>4, MessagesSameUnread, BadgeRequestQuiet
  <1>10. ASSUME Ask(r) PROVE BadgeInv'
    BY <1>1, <1>2, <1>3, <1>10, <1>12, BadgeMarked DEF Ask
  <1>11. ASSUME Handler(r) PROVE BadgeInv'
    BY <1>4, <1>5, <1>6, <1>7, <1>8, <1>9, <1>11, BadgeCleared DEF Handler
  <1>13. ASSUME CampaignPurge(r) PROVE BadgeInv'
    <2>1. /\ convs' = Without(Orphans) /\ messages' = Detach(Orphans) /\ req[r].pc = "purge"
          /\ UNCHANGED <<session, live, worker, hist>>
      BY <1>13 DEF CampaignPurge
    <2>2. req'[r].pc = "upsert" /\ \A q \in Requests \ {r} : req'[q] = req[q]
      BY <1>13, MailGoes DEF CampaignPurge
    <2>3. \A c : SameResetting(c) /\ SameCounted(c)
      BY <2>1, <2>2, OneSameResetting, WorkerSameCounted
    <2> QED  BY <2>1, <2>3, RemovalBadge
  <1>14. ASSUME CampaignAttach(r) PROVE BadgeInv'
    <2>1. /\ req[r].pc = "attach" /\ UNCHANGED <<session, live, messages, worker, hist>>
      BY <1>14 DEF CampaignAttach
    <2>2. Leave(r) \/ Goto(r, "upsert")
      BY <1>14, AttachDoes
    <2>3. req'[r].pc # "reset" /\ \A q \in Requests \ {r} : req'[q] = req[q]
      BY <2>1, <2>2, LeaveDoes, MailGoes
    <2>4. \A c : SameUnread(c) /\ SameResetting(c) /\ SameCounted(c)
      BY <2>1, <2>3, MessagesSameUnread, OneSameResetting, WorkerSameCounted
    <2>5. /\ DOMAIN convs' = DOMAIN convs
          /\ \A d \in DOMAIN convs : convs'[d].unread = convs[d].unread
      <3>1. CASE convs' = convs
        BY <3>1
      <3>2. CASE convs' # convs
        <4>1. PICK c \in ConvIds : /\ convs' = [convs EXCEPT ![c].session = session]
                                   /\ live /\ Keepers = {}
          BY <1>14, <3>2, AttachDoes
        <4> QED  BY <2>1, <4>1, KeptDoes
      <3> QED  BY <3>1, <3>2
    <2> QED  BY <2>1, <2>4, <2>5, BadgeQuiet
  <1>15. ASSUME NEW o \in Sends, CampaignUpsert(r, o) PROVE BadgeInv'
    <2>1. UNCHANGED <<messages, worker, hist>> /\ req[r].pc = "upsert"
      BY <1>15 DEF CampaignUpsert
    <2>2. CASE live /\ req[r].session = session
      <3>1. PICK u : u = Upserted
        OBVIOUS
      <3>2. live /\ Upsert(TRUE, 0) /\ Upserted \in ConvIds /\ "campaign" \in Senders
        BY <1>15, <2>2, UpsertedConv DEF CampaignUpsert, Senders
      <3>3. req'[r].pc = "create" /\ \A q \in Requests \ {r} : req'[q] = req[q]
        BY <1>15, <2>2, <3>2, CreatesDoes DEF CampaignUpsert
      <3>4. \A c : SameResetting(c) /\ SameCounted(c)
        BY <2>1, <3>3, OneSameResetting, WorkerSameCounted
      <3> QED  BY <2>1, <3>1, <3>2, <3>4, UpsertBadge
    <2>3. CASE ~(live /\ req[r].session = session)
      <3>1. Leave(r) /\ convs' = convs
        BY <1>15, <2>3 DEF CampaignUpsert
      <3> QED  BY <2>1, <3>1, LeaveDoes, MessagesSameUnread, BadgeRequestQuiet
    <2> QED  BY <2>2, <2>3
  <1>16. ASSUME Mail(r) PROVE BadgeInv'
    BY <1>13, <1>14, <1>15, <1>16 DEF Mail
  <1> QED  BY <1>10, <1>11, <1>16

\* Steps of the engine, of the session row and of the worker's other jobs.
LEMMA BadgeOther ==
  ASSUME TypeOK, BadgeInv, DeleteSession \/ CreateSession \/ \E ev \in Events : HandleEngineEvent(ev)
  PROVE  BadgeInv'
  <1>1. UNCHANGED <<messages, worker, req>> /\ hist'.disturbed = hist.disturbed
    BY DEF DeleteSession, CreateSession, HandleEngineEvent, rows, TypeOK
  <1>2. DOMAIN convs' = DOMAIN convs /\ \A c \in DOMAIN convs : convs'[c].unread = convs[c].unread
    BY OrphansMade DEF CreateSession, HandleEngineEvent, rows
  <1> QED
    BY <1>1, <1>2, MessagesSameUnread, ReqSameResetting, WorkerSameCounted, BadgeQuiet

LEMMA BadgeJobs ==
  ASSUME TypeOK, RowInv, BadgeInv,
         \/ \E j \in queue : \/ HandleMessage(j) \/ HandleChatsSynced(j)
                             \/ HandleMessageAck(j) \/ HandleReaction(j)
         \/ RetryAck \/ WriteReaction
  PROVE  BadgeInv'
  <1>1. ASSUME convs' = convs, req' = req, hist'.disturbed = hist.disturbed,
               worker.pc # "message", worker'.pc # "message", \A c : SameUnread(c)
        PROVE  BadgeInv'
    BY <1>1, ReqSameResetting, WorkerSameCounted, BadgeQuiet
  <1>2. ASSUME NEW j \in queue, HandleMessage(j) \/ HandleChatsSynced(j) \/ HandleReaction(j)
        PROVE  BadgeInv'
    <2>1. hist'.disturbed = hist.disturbed
      BY <1>2 DEF HandleMessage, HandleChatsSynced, HandleReaction, TypeOK
    <2>2. UNCHANGED <<convs, messages, req>> /\ worker = NoJob
      BY <1>2 DEF HandleMessage, HandleChatsSynced, HandleReaction, Take, rows
    <2>3. worker' = NoJob \/ worker'.pc \in {"reattach", "react"}
      <3>1. CASE HandleMessage(j)
        <4>1. worker' = NoJob \/ worker' = [pc |-> "reattach", job |-> j]
          BY <3>1, Zenon DEF HandleMessage, JobDone
        <4> QED  BY <4>1
      <3>2. CASE HandleChatsSynced(j)
        BY <3>2 DEF HandleChatsSynced, JobDone
      <3>3. CASE HandleReaction(j)
        BY <3>3 DEF HandleReaction, JobDone
      <3> QED  BY <1>2, <3>1, <3>2, <3>3
    <2> QED  BY <1>1, <2>1, <2>2, <2>3, MessagesSameUnread DEF NoJob
  <1>3. ASSUME NEW j \in Jobs, j.ev.kind = "ack", NEW n, TryAck(j, n)
        PROVE  (\A c : SameUnread(c)) /\ worker'.pc \in {"idle", "try"}
    <2>1. worker'.pc \in {"idle", "try"}
      BY <1>3 DEF TryAck, JobDone, NoJob
    <2>2. CASE Rows(j.ev.msg) # {}
      <3>1. WriteAck(j) /\ j.ev.msg \in Sends
        BY <1>3, <2>2, JobShape, EventShape DEF TryAck
      <3>2. /\ SameRows
            /\ \A k \in DOMAIN messages :
                 /\ Same(k, {"conv", "id", "react"})
                 /\ messages'[k].status = IF k \in Rows(j.ev.msg) THEN j.ev.arg ELSE messages[k].status
        BY <1>3, <3>1, AckDoes
      <3>3. \A k \in Rows(j.ev.msg) : messages[k].dir = "OUTBOUND"
        BY <3>1 DEF RowInv, Rows
      <3>4. \A k \in DOMAIN messages :
              /\ Same(k, {"conv"})
              /\ messages[k].dir = "INBOUND" => messages'[k].status = messages[k].status
        BY <3>2, <3>3 DEF Same
      <3> QED  BY <2>1, <3>2, <3>4, RowsSameUnread
    <2>3. CASE Rows(j.ev.msg) = {}
      BY <1>3, <2>1, <2>3, MessagesSameUnread DEF TryAck
    <2> QED  BY <2>2, <2>3
  <1>4. ASSUME NEW j \in queue, HandleMessageAck(j) PROVE BadgeInv'
    <2>1. j \in Jobs /\ j.ev.kind = "ack" /\ worker.pc = "idle"
      BY <1>4, Taken DEF HandleMessageAck, Take, NoJob
    <2>2. TryAck(j, 0) /\ UNCHANGED <<convs, req, hist>>
      BY <1>4 DEF HandleMessageAck
    <2> QED  BY <1>1, <1>3, <2>1, <2>2
  <1>5. ASSUME RetryAck PROVE BadgeInv'
    <2>1. /\ worker.pc = "try" /\ TryAck(worker.job, worker.tries) /\ UNCHANGED <<convs, req, hist>>
          /\ worker # NoJob
      BY <1>5 DEF RetryAck, NoJob
    <2>2. worker.job \in Jobs /\ worker.job.ev.kind = "ack"
      BY <2>1, WorkerShape
    <2> QED  BY <1>1, <1>3, <2>1, <2>2
  <1>6. ASSUME WriteReaction PROVE BadgeInv'
    <2>1. worker.row \in Nat /\ React(worker.seen, "them", worker.job.ev.arg) \in SUBSET Parties
      BY <1>6, WorkerShape DEF WriteReaction, React, Parties
    <2>2. SameRows /\ \A k \in DOMAIN messages : Same(k, {"conv", "id", "status"})
      BY <1>6, <2>1, ReactSet DEF WriteReaction
    <2>3. \A c : SameUnread(c)
      BY <2>2, RowsSameUnread DEF Same
    <2>4. /\ UNCHANGED <<convs, req>> /\ worker.pc = "react" /\ worker'.pc = "idle"
          /\ hist'.disturbed = hist.disturbed
      BY <1>6 DEF WriteReaction, JobDone, NoJob, TypeOK
    <2> QED  BY <1>1, <2>3, <2>4
  <1> QED  BY <1>2, <1>4, <1>5, <1>6

LEMMA BadgeFaults ==
  ASSUME TypeOK, BadgeInv, Faults
  PROVE  BadgeInv'
  <1>1. ASSUME DatabaseFails PROVE BadgeInv'
    BY <1>1, ThrowBadge DEF DatabaseFails, rows, NoJob
  <1>2. ASSUME Crash PROVE BadgeInv'
    <2>1. hist'.disturbed =
            hist.disturbed \cup {req[r].conv : r \in {q \in Requests : req[q].pc = "reset"}}
              \cup (IF worker.pc = "message" /\ worker.job.ev.kind = "received"
                    THEN {worker.conv} ELSE {})
      BY <1>2 DEF Crash, TypeOK
    <2>2. UNCHANGED <<convs, messages>> /\ worker' = NoJob /\ req' = [r \in Requests |-> NoReq]
      BY <1>2 DEF Crash, rows
    <2>3. \A c : ~Resetting(c)' /\ ~Counted(c)'
      BY <2>2 DEF Resetting, Counted, NoReq, NoJob
    <2>4. \A c : c \notin hist'.disturbed => ~Resetting(c) /\ ~Counted(c)
      BY <2>1 DEF Resetting, Counted
    <2>5. \A c : c \notin hist'.disturbed => SameResetting(c) /\ SameCounted(c)
      BY <2>3, <2>4 DEF SameResetting, SameCounted
    <2> QED  BY <2>1, <2>2, <2>5, MessagesSameUnread, BadgeQuiet
  <1>3. ASSUME NEW r \in Requests, SendPostFails(r) \/ SendSaveFails(r) PROVE BadgeInv'
    <2>1. /\ req[r].pc \in {"post", "save", "count"} /\ Goto(r, "catch")
          /\ UNCHANGED <<convs, messages, worker>>
      BY <1>3 DEF SendPostFails, SendSaveFails, rows
    <2>2. hist'.disturbed = hist.disturbed
      BY <1>3 DEF SendPostFails, SendSaveFails, TypeOK
    <2>3. req'[r].pc = "catch" /\ \A q \in Requests \ {r} : req'[q] = req[q]
      BY <2>1, GotoDoes
    <2> QED  BY <2>1, <2>2, <2>3, MessagesSameUnread, BadgeRequestQuiet
  <1>4. ASSUME NEW r \in Requests, RequestFails(r) PROVE BadgeInv'
    <2>1. req'[r].pc = "idle" /\ \A q \in Requests \ {r} : req'[q] = req[q]
      BY <1>4, LeaveDoes DEF RequestFails
    <2>2. UNCHANGED <<convs, messages, worker>>
      BY <1>4 DEF RequestFails, rows
    <2>3. hist'.disturbed = IF req[r].pc = "reset" THEN hist.disturbed \cup {req[r].conv}
                            ELSE hist.disturbed
      BY <1>4 DEF RequestFails, TypeOK
    <2>4. \A c : c \notin hist'.disturbed => SameResetting(c)
      BY <2>1, <2>3 DEF SameResetting, Resetting
    <2> QED  BY <2>2, <2>3, <2>4, MessagesSameUnread, WorkerSameCounted, BadgeQuiet
  <1> QED  BY <1>1, <1>2, <1>3, <1>4 DEF Faults

LEMMA BadgeStep == TypeOK /\ RowInv /\ SendInv /\ ConvInv /\ BadgeInv /\ [Next]_vars => BadgeInv'
  <1> SUFFICES ASSUME TypeOK, RowInv, SendInv, ConvInv, BadgeInv, [Next]_vars PROVE BadgeInv'
    OBVIOUS
  <1>1. ASSUME UNCHANGED vars PROVE BadgeInv'
    BY <1>1, MessagesSameUnread, ReqSameResetting, WorkerSameCounted, BadgeQuiet DEF vars
  <1>2. ASSUME Worker PROVE BadgeInv'
    BY <1>2, BadgeJobs, BadgeWorker DEF Worker, Receive
  <1> QED  BY <1>1, <1>2, BadgeOther, BadgeRequest, BadgeFaults DEF Next

\* The badge of a conversation (conversations.service.ts: unreadCount) is the
\* number of its unread messages whenever no handler is between counting a
\* message and storing it, or between marking messages and clearing the
\* counter, and nothing in hist.disturbed befell it.
THEOREM BadgesAreExact == Spec => []BadgeIsExact
  <1>1. TypeOK /\ BadgeInv => BadgeIsExact
    <2> SUFFICES ASSUME TypeOK, BadgeInv, NEW c \in DOMAIN convs \ hist.disturbed, ~Busy(c)
                 PROVE  convs[c].unread = Cardinality(Unread(c))
      BY DEF BadgeIsExact
    <2>1. BadgeOk(c) /\ ~Resetting(c) /\ ~Counted(c)
      BY DEF BadgeInv, Busy, Counted
    <2> QED  BY <2>1, UnreadCount DEF BadgeOk
  <1> QED
    BY <1>1, TypeInit, TypeStep, RowInit, RowStep, SendInit, SendInvStep, ConvInit, ConvStep,
       BadgeInit, BadgeStep, PTL DEF Spec
-----------------------------------------------------------------------------
(***************************************************************************)
(* What becomes of an event of the contact's.                              *)
(***************************************************************************)
Kept(i) == Waiting(i)' \/ Stored(i)' \/ i \in hist'.lost

\* Requests and campaigns touch neither the queue nor the worker.
LEMMA RequestsLeaveJobs ==
  \A r \in Requests : Ask(r) \/ Handler(r) \/ Mail(r) => queue' = queue /\ worker' = worker
  <1> SUFFICES ASSUME NEW r \in Requests
               PROVE  Ask(r) \/ Handler(r) \/ Mail(r) => queue' = queue /\ worker' = worker
    OBVIOUS
  <1>1. Ask(r) => queue' = queue /\ worker' = worker
    BY DEF Ask, SendNew, SendReply, CampaignLook, MarkMessages, ReactRead
  <1>2. Handler(r) => queue' = queue /\ worker' = worker
    BY DEF Handler, SendCreate, SendPost, SendSave, SendCount, SendCatch, ResetUnread, ReactWrite
  <1>3. Mail(r) => queue' = queue /\ worker' = worker
    BY DEF Mail, CampaignPurge, CampaignAttach, CampaignUpsert
  <1> QED  BY <1>1, <1>2, <1>3

\* A job is handed on between the queue and the worker, or kept.
LEMMA WaitKept ==
  ASSUME NEW i, Waiting(i),
         \A j \in queue : j.ev.kind = "received" =>
           j \in queue' \/ (worker' # NoJob /\ worker'.job = j),
         worker # NoJob /\ worker.job.ev.kind = "received" =>
           worker.job \in queue' \/ (worker' # NoJob /\ worker'.job = worker.job)
  PROVE  Kept(i)
  BY DEF Waiting, Kept

\* A job that throws is put back, or its message is given up.
LEMMA ThrowWait ==
  ASSUME TypeOK, JobThrows, worker # NoJob, NEW i, Waiting(i)
  PROVE  Kept(i)
  <1>1. worker.job \in Jobs /\ worker.job.left \in 1 .. MaxAttempts
    BY WorkerShape, JobShape
  <1>2. CASE worker.job.left > 1
    <2>1. PICK k : k = [worker.job EXCEPT !.left = @ - 1]
      OBVIOUS
    <2>2. k.ev = worker.job.ev
      BY <1>1, <1>2, <2>1, JobAgain
    <2>3. queue' = queue \cup {k}
      BY <1>2, <2>1 DEF JobThrows
    <2> QED  BY <2>2, <2>3 DEF Waiting, Kept
  <1>3. CASE ~(worker.job.left > 1)
    <2>1. worker.job.left = 1 /\ queue' = queue
      BY <1>1, <1>3, InboxAssumption DEF JobThrows
    <2>2. CASE worker.job.ev.kind = "received"
      <3>1. hist'.lost = hist.lost \cup {worker.job.ev.msg}
        BY <2>1, <2>2 DEF JobThrows, TypeOK
      <3> QED  BY <2>1, <3>1 DEF Waiting, Kept
    <2>3. CASE worker.job.ev.kind # "received"
      BY <2>1, <2>3 DEF Waiting, Kept
    <2> QED  BY <2>2, <2>3
  <1> QED  BY <1>2, <1>3

LEMMA WaitStep ==
  ASSUME TypeOK, Next, NEW i \in Inbound, Waiting(i)
  PROVE  Kept(i)
  <1>1. ASSUME queue \subseteq queue', worker' = worker PROVE Kept(i)
    BY <1>1, WaitKept
  <1>2. ASSUME queue' = queue, worker' = NoJob, worker # NoJob => worker.job.ev.kind # "received"
        PROVE  Kept(i)
    BY <1>2, WaitKept
  <1>3. ASSUME queue' = queue, worker'.pc # "idle", worker'.job = worker.job PROVE Kept(i)
    <2>1. worker' # NoJob
      BY <1>3 DEF NoJob
    <2> QED  BY <1>3, <2>1, WaitKept
  <1>4. ASSUME NEW j, NEW kinds, Take(j, kinds),
               (worker'.pc # "idle" /\ worker'.job = j) \/ j.ev.kind # "received"
        PROVE  Kept(i)
    <2>1. worker = NoJob /\ queue' = queue \ {j}
      BY <1>4, Taken
    <2>2. worker'.pc # "idle" => worker' # NoJob
      BY DEF NoJob
    <2> QED  BY <1>4, <2>1, <2>2, WaitKept
  <1>5. ASSUME NEW j \in queue, HandleMessage(j) PROVE Kept(i)
    <2>1. Take(j, {"received", "outgoing"})
      BY <1>5 DEF HandleMessage
    <2>2. CASE Duplicate(j)
      <3>1. worker = NoJob /\ queue' = queue \ {j} /\ messages' = messages
        BY <1>5, <2>1, Taken DEF HandleMessage, rows
      <3>2. Stored(j.ev.msg)'
        BY <2>2, <3>1 DEF Duplicate, Rows, Stored
      <3> QED  BY <3>1, <3>2 DEF Waiting, Kept
    <2>3. CASE ~Duplicate(j) /\ ~SessionFound(j)
      <3>1. worker = NoJob /\ queue' = queue \ {j}
        BY <2>1, Taken
      <3>2. j.ev.kind = "received" => j.ev.msg \in hist'.lost
        <4>1. PICK e : hist' = [hist EXCEPT !.early = e,
                 !.lost = IF j.ev.kind = "received" THEN hist.lost \cup {j.ev.msg} ELSE hist.lost]
          BY <1>5, <2>3 DEF HandleMessage
        <4> QED  BY <4>1 DEF TypeOK
      <3> QED  BY <3>1, <3>2 DEF Waiting, Kept
    <2>4. CASE ~Duplicate(j) /\ SessionFound(j)
      <3>1. worker' = [pc |-> "reattach", job |-> j]
        BY <1>5, <2>4 DEF HandleMessage
      <3> QED  BY <1>4, <2>1, <3>1
    <2> QED  BY <2>2, <2>3, <2>4
  <1>6. ASSUME ReattachLook \/ ReattachDelete \/ ReattachTrim PROVE Kept(i)
    <2>1. queue' = queue /\ worker'.job = worker.job /\ worker'.pc \in {"orphans", NextStep}
      <3>1. ASSUME ReattachLook
            PROVE  queue' = queue /\ worker'.job = worker.job /\ worker'.pc \in {"orphans", NextStep}
        BY <3>1 DEF ReattachLook
      <3>2. ASSUME ReattachDelete
            PROVE  queue' = queue /\ worker'.job = worker.job /\ worker'.pc \in {"orphans", NextStep}
        BY <3>2 DEF ReattachDelete
      <3>3. ASSUME ReattachTrim
            PROVE  queue' = queue /\ worker'.job = worker.job /\ worker'.pc \in {"orphans", NextStep}
        BY <3>3 DEF ReattachTrim
      <3> QED  BY <1>6, <3>1, <3>2, <3>3
    <2> QED  BY <1>3, <2>1 DEF NextStep
  <1>7. ASSUME ReattachKeep PROVE Kept(i)
    <2>1. worker # NoJob
      BY <1>7 DEF ReattachKeep, NoJob
    <2>2. CASE JobThrows
      BY <2>1, <2>2, ThrowWait
    <2>3. CASE queue' = queue /\ worker'.pc = NextStep /\ worker'.job = worker.job
      BY <1>3, <2>3 DEF NextStep
    <2>4. CASE queue' = queue /\ worker' = NoJob /\ worker.job.ev.kind = "sync"
      BY <1>2, <2>4
    <2> QED  BY <1>7, <2>2, <2>3, <2>4 DEF ReattachKeep, JobDone
  <1>8. ASSUME CountMessage PROVE Kept(i)
    <2>1. worker # NoJob
      BY <1>8 DEF CountMessage, NoJob
    <2>2. CASE SessionFound(worker.job)
      <3>1. queue' = queue /\ worker'.pc = "message" /\ worker'.job = worker.job
        BY <1>8, <2>2 DEF CountMessage
      <3> QED  BY <1>3, <3>1
    <2>3. CASE ~SessionFound(worker.job)
      BY <1>8, <2>1, <2>3, ThrowWait DEF CountMessage
    <2> QED  BY <2>2, <2>3
  <1>9. ASSUME CreateMessage PROVE Kept(i)
    <2>1. worker # NoJob /\ worker.job.ev \in Events /\ worker.conv \in 0 .. MaxSessions
      BY <1>9, WorkerShape DEF CreateMessage, NoJob, ConvIds
    <2>2. CASE SessionFound(worker.job)
      <3>1. queue' = queue
        BY <1>9, <2>2 DEF CreateMessage
      <3>2. CASE worker.job.ev.kind = "received"
        <4>1. PICK u : /\ u = NewRow(worker.job.ev.msg, "INBOUND", worker.conv, "DELIVERED", "engine")
                       /\ messages' = Append(messages, u)
          BY <1>9, <2>2, <3>2 DEF CreateMessage
        <4>2. u \in Row /\ u.msg = worker.job.ev.msg
          BY <2>1, <3>2, <4>1, NewRowShape, EventShape DEF Statuses
        <4>3. DOMAIN messages' = DOMAIN messages \cup {Len(messages) + 1}
              /\ messages'[Len(messages) + 1] = u
          BY <4>1, <4>2, RowAdded
        <4>4. \E k \in DOMAIN messages' : messages'[k].msg = worker.job.ev.msg
          BY <4>2, <4>3
        <4> QED  BY <3>1, <4>4 DEF Waiting, Kept, Stored
      <3>3. CASE worker.job.ev.kind # "received"
        BY <3>1, <3>3 DEF Waiting, Kept
      <3> QED  BY <3>2, <3>3
    <2>3. CASE ~SessionFound(worker.job)
      BY <1>9, <2>1, <2>3, ThrowWait DEF CreateMessage
    <2> QED  BY <2>2, <2>3
  <1>10. ASSUME SyncChat \/ WriteReaction PROVE Kept(i)
    <2>1. worker.job.ev.kind # "received"
      BY <1>10, WorkerShape DEF SyncChat, WriteReaction
    <2>2. queue' = queue /\ worker' = NoJob
      BY <1>10 DEF SyncChat, WriteReaction, JobDone
    <2> QED  BY <1>2, <2>1, <2>2
  <1>11. ASSUME RetryAck PROVE Kept(i)
    <2>1. worker # NoJob /\ worker.job.ev.kind = "ack" /\ queue' = queue
      BY <1>11, WorkerShape DEF RetryAck, NoJob
    <2> QED  BY <2>1 DEF Waiting, Kept
  <1>12. ASSUME NEW j \in queue,
                HandleChatsSynced(j) \/ HandleMessageAck(j) \/ HandleReaction(j)
         PROVE  Kept(i)
    <2>1. PICK kinds : Take(j, kinds) /\ "received" \notin kinds
      BY <1>12 DEF HandleChatsSynced, HandleMessageAck, HandleReaction
    <2>2. j.ev.kind # "received"
      BY <2>1, Taken
    <2> QED  BY <1>4, <2>1, <2>2
  <1>13. ASSUME DeleteSession \/ CreateSession PROVE Kept(i)
    BY <1>1, <1>13 DEF DeleteSession, CreateSession
  <1>14. ASSUME NEW ev \in Events, HandleEngineEvent(ev) PROVE Kept(i)
    BY <1>1, <1>14 DEF HandleEngineEvent
  <1>15. ASSUME NEW r \in Requests, Ask(r) \/ Handler(r) \/ Mail(r) PROVE Kept(i)
    BY <1>1, <1>15, RequestsLeaveJobs
  <1>16. ASSUME DatabaseFails PROVE Kept(i)
    BY <1>16, ThrowWait DEF DatabaseFails, NoJob
  <1>17. ASSUME Crash PROVE Kept(i)
    <2>1. CASE worker = NoJob \/ ~Twice
      <3>1. /\ queue \subseteq queue'
            /\ worker # NoJob => \E j \in queue' : j.ev = worker.job.ev
        BY <1>17, <2>1, CrashQueues
      <3> QED  BY <3>1 DEF Waiting, Kept
    <2>2. CASE worker # NoJob /\ Twice
      <3>1. queue' = queue
        BY <1>17, <2>2, CrashQueues
      <3>2. worker.job.ev.kind = "received" => worker.job.ev.msg \in hist'.lost
        BY <1>17, <2>2 DEF Crash, TypeOK
      <3> QED  BY <3>1, <3>2 DEF Waiting, Kept
    <2> QED  BY <2>1, <2>2
  <1>18. ASSUME NEW r \in Requests, SendPostFails(r) \/ SendSaveFails(r) \/ RequestFails(r)
         PROVE  Kept(i)
    <2>1. queue' = queue /\ worker' = worker
      BY <1>18 DEF SendPostFails, SendSaveFails, RequestFails
    <2> QED  BY <1>1, <2>1
  <1> QED
    BY <1>5, <1>6, <1>7, <1>8, <1>9, <1>10, <1>11, <1>12, <1>13, <1>14, <1>15, <1>16, <1>17, <1>18
       DEF Next, Worker, Receive, Faults

\* No step of the worker, no failed statement and no crash forgets an event
\* of the contact's: it waits until its message has a row, unless the session
\* has gone, or the job has used up its attempts or been stalled twice.
THEOREM ReceivedIsNeverForgotten == Spec => NeverForgotten
  <1>1. ASSUME TypeOK, [Next]_vars
        PROVE  [\A i \in Inbound : Waiting(i) => Waiting(i)' \/ Stored(i)' \/ i \in hist'.lost]_vars
    BY <1>1, WaitStep DEF Kept
  <1> QED  BY <1>1, TypeInit, TypeStep, PTL DEF Spec, NeverForgotten

\* How far the worker is from the end of its job.
LEMMA StepsLeftIs ==
  /\ worker.pc = "reattach" => StepsLeft = 5
  /\ worker.pc = "orphans" => StepsLeft \in {3, 4}
  /\ worker.pc = "orphans" /\ (\E c, d \in worker.kept : c # d) => StepsLeft = 4
  /\ worker.pc = "conversation" => StepsLeft = 2
  /\ worker.pc = "try" => StepsLeft = Retries + 1 - worker.tries
  /\ worker.pc \in {"message", "sync", "react"} => StepsLeft = 1
  /\ worker = NoJob => StepsLeft = 0
  BY DEF StepsLeft, NoJob

LEMMA StepsLeftBecomes ==
  /\ worker'.pc = "orphans" => StepsLeft' \in {3, 4}
  /\ worker'.pc = "orphans" /\ (\A c, d \in worker'.kept : c = d) => StepsLeft' = 3
  /\ worker'.pc = "conversation" => StepsLeft' = 2
  /\ worker'.pc = "try" => StepsLeft' = Retries + 1 - worker'.tries
  /\ worker'.pc \in {"message", "sync"} => StepsLeft' = 1
  /\ worker' = NoJob => StepsLeft' = 0
  BY DEF StepsLeft, NoJob

LEMMA JobOverShrinks ==
  ASSUME TypeOK, worker # NoJob, worker' = NoJob
  PROVE  StepsLeft' \in 0 .. (StepsLeft - 1)
  <1>1. worker.pc # "idle" /\ Retries \in Nat
    BY WorkerShape, InboxAssumption
  <1>2. StepsLeft' = 0 /\ StepsLeft \in Nat \ {0}
    BY <1>1, WorkerShape, StepsLeftIs, StepsLeftBecomes
  <1> QED  BY <1>2

LEMMA WorkerShrinks ==
  ASSUME TypeOK, Worker, worker # NoJob
  PROVE  StepsLeft' \in 0 .. (StepsLeft - 1)
  <1>0. worker.pc # "idle" /\ Retries \in Nat
    BY WorkerShape, InboxAssumption
  <1>1. ASSUME worker' = NoJob PROVE StepsLeft' \in 0 .. (StepsLeft - 1)
    BY <1>1, JobOverShrinks
  <1>2. ASSUME worker'.pc = NextStep, worker.pc \in {"reattach", "orphans"}
        PROVE  StepsLeft' \in 0 .. (StepsLeft - 1)
    <2>1. StepsLeft' \in {1, 2} /\ StepsLeft \in {3, 4, 5}
      BY <1>2, StepsLeftIs, StepsLeftBecomes DEF NextStep
    <2> QED  BY <2>1
  <1>3. CASE ReattachLook
    <2>1. worker.pc = "reattach" /\ worker'.pc \in {"orphans", NextStep}
      BY <1>3 DEF ReattachLook
    <2>2. CASE worker'.pc = "orphans"
      BY <2>1, <2>2, StepsLeftIs, StepsLeftBecomes
    <2> QED  BY <1>2, <2>1, <2>2
  <1>4. CASE ReattachDelete
    BY <1>2, <1>4 DEF ReattachDelete
  <1>5. CASE ReattachTrim
    <2>1. PICK c \in Oldest(worker.kept) :
            /\ worker.kept \ {c} # {}
            /\ worker' = [pc |-> "orphans", job |-> worker.job, kept |-> {c}]
      BY <1>5 DEF ReattachTrim
    <2>2. worker.pc = "orphans" /\ \E d \in worker.kept : c # d /\ c \in worker.kept
      BY <1>5, <2>1 DEF ReattachTrim, Oldest
    <2>3. StepsLeft = 4
      BY <2>2, StepsLeftIs
    <2>4. StepsLeft' = 3
      BY <2>1, StepsLeftBecomes
    <2> QED  BY <2>3, <2>4
  <1>6. CASE ReattachKeep
    <2>1. worker' = NoJob \/ (worker'.pc = NextStep /\ worker.pc = "orphans")
      BY <1>6 DEF ReattachKeep, JobDone, JobThrows
    <2> QED  BY <1>1, <1>2, <2>1
  <1>7. CASE CountMessage
    <2>1. CASE SessionFound(worker.job)
      <3>1. worker.pc = "conversation" /\ worker'.pc = "message"
        BY <1>7, <2>1 DEF CountMessage
      <3> QED  BY <3>1, StepsLeftIs, StepsLeftBecomes
    <2>2. CASE ~SessionFound(worker.job)
      BY <1>1, <1>7, <2>2 DEF CountMessage, JobThrows
    <2> QED  BY <2>1, <2>2
  <1>8. CASE CreateMessage \/ SyncChat \/ WriteReaction
    <2>1. CASE CreateMessage
      BY <1>1, <2>1 DEF CreateMessage, JobDone, JobThrows
    <2>2. CASE SyncChat
      BY <1>1, <2>2 DEF SyncChat, JobDone
    <2>3. CASE WriteReaction
      BY <1>1, <2>3 DEF WriteReaction, JobDone
    <2> QED  BY <1>8, <2>1, <2>2, <2>3
  <1>9. CASE RetryAck
    <2>1. /\ worker.pc = "try" /\ worker.tries \in 0 .. Retries
          /\ TryAck(worker.job, worker.tries)
      BY <1>9, WorkerShape DEF RetryAck
    <2>2. CASE worker' = NoJob
      BY <1>1, <2>2
    <2>3. CASE worker' # NoJob
      <3>1. worker.tries < Retries /\ worker' = [pc |-> "try", job |-> worker.job, tries |-> worker.tries + 1]
        BY <2>1, <2>3 DEF TryAck, JobDone
      <3>2. worker'.pc = "try" /\ worker'.tries = worker.tries + 1
        BY <3>1
      <3>3. StepsLeft' = Retries + 1 - (worker.tries + 1) /\ StepsLeft = Retries + 1 - worker.tries
        BY <2>1, <3>2, StepsLeftIs, StepsLeftBecomes
      <3> QED  BY <1>0, <2>1, <3>1, <3>3
    <2> QED  BY <2>2, <2>3
  <1>10. ASSUME NEW j \in queue,
                HandleMessage(j) \/ HandleChatsSynced(j) \/ HandleMessageAck(j) \/ HandleReaction(j)
         PROVE  FALSE
    BY <1>10 DEF HandleMessage, HandleChatsSynced, HandleMessageAck, HandleReaction, Take
  <1> QED  BY <1>3, <1>4, <1>5, <1>6, <1>7, <1>8, <1>9, <1>10 DEF Worker, Receive

\* Nothing but the worker, a failure and a crash touches what it is doing.
LEMMA OthersLeaveWorker ==
  ASSUME [Next]_vars, worker' # worker, worker' # NoJob
  PROVE  Worker
  <1>1. CASE DeleteSession \/ CreateSession
    BY <1>1 DEF DeleteSession, CreateSession
  <1>2. ASSUME NEW ev \in Events, HandleEngineEvent(ev) PROVE FALSE
    BY <1>2 DEF HandleEngineEvent
  <1>3. ASSUME NEW r \in Requests, Ask(r) \/ Handler(r) \/ Mail(r) PROVE FALSE
    BY <1>3, RequestsLeaveJobs
  <1>4. CASE DatabaseFails \/ Crash
    BY <1>4 DEF DatabaseFails, Crash, JobThrows
  <1>5. ASSUME NEW r \in Requests, SendPostFails(r) \/ SendSaveFails(r) \/ RequestFails(r)
        PROVE  FALSE
    BY <1>5 DEF SendPostFails, SendSaveFails, RequestFails
  <1>6. CASE UNCHANGED vars
    BY <1>6 DEF vars
  <1> QED  BY <1>1, <1>2, <1>3, <1>4, <1>5, <1>6 DEF Next, Faults

\* What comes back to the queue.
Again(j) ==
  \/ posted' = posted + 1
  \/ /\ faults' = faults + 1 /\ worker # NoJob
     /\ ~worker.job.stalled /\ j = [worker.job EXCEPT !.stalled = TRUE]
  \/ /\ worker # NoJob /\ worker' = NoJob
     /\ worker.job.left > 1 /\ j = [worker.job EXCEPT !.left = @ - 1]

LEMMA QueueStep ==
  ASSUME TypeOK, [Next]_vars, NEW j \in queue' \ queue
  PROVE  Again(j)
  <1>1. ASSUME JobThrows, worker # NoJob PROVE Again(j)
    BY <1>1 DEF JobThrows, Again
  <1>2. ASSUME queue' \subseteq queue PROVE Again(j)
    BY <1>2
  <1>3. CASE DeleteSession \/ CreateSession
    BY <1>2, <1>3 DEF DeleteSession, CreateSession
  <1>4. ASSUME NEW ev \in Events, HandleEngineEvent(ev) PROVE Again(j)
    BY <1>4 DEF HandleEngineEvent, Again
  <1>5. ASSUME NEW i \in queue,
               HandleMessage(i) \/ HandleChatsSynced(i) \/ HandleMessageAck(i) \/ HandleReaction(i)
        PROVE  Again(j)
    <2>1. queue' = queue \ {i}
      BY <1>5 DEF HandleMessage, HandleChatsSynced, HandleMessageAck, HandleReaction, Take
    <2> QED  BY <1>2, <2>1
  <1>6. CASE ReattachKeep
    <2>1. worker # NoJob /\ (JobThrows \/ queue' = queue)
      BY <1>6 DEF ReattachKeep, NoJob
    <2> QED  BY <1>1, <1>2, <2>1
  <1>7. CASE CountMessage
    <2>1. worker # NoJob
      BY <1>7 DEF CountMessage, NoJob
    <2>2. CASE SessionFound(worker.job)
      <3>1. queue' = queue
        BY <1>7, <2>2 DEF CountMessage
      <3> QED  BY <1>2, <3>1
    <2>3. CASE ~SessionFound(worker.job)
      <3>1. JobThrows
        BY <1>7, <2>3 DEF CountMessage
      <3> QED  BY <1>1, <2>1, <3>1
    <2> QED  BY <2>2, <2>3
  <1>8. CASE CreateMessage
    <2>1. worker # NoJob /\ (JobThrows \/ queue' = queue)
      BY <1>8 DEF CreateMessage, NoJob
    <2> QED  BY <1>1, <1>2, <2>1
  <1>9. CASE ReattachLook \/ ReattachDelete \/ ReattachTrim \/ SyncChat \/ RetryAck \/ WriteReaction
    <2>1. queue' = queue
      BY <1>9 DEF ReattachLook, ReattachDelete, ReattachTrim, SyncChat, RetryAck, WriteReaction
    <2> QED  BY <1>2, <2>1
  <1>10. ASSUME NEW r \in Requests, Ask(r) \/ Handler(r) \/ Mail(r) PROVE Again(j)
    BY <1>2, <1>10, RequestsLeaveJobs
  <1>11. CASE DatabaseFails
    BY <1>1, <1>11 DEF DatabaseFails, NoJob
  <1>12. CASE Crash
    <2>1. worker # NoJob /\ ~Twice
      BY <1>2, <1>12, CrashQueues
    <2>2. j = [worker.job EXCEPT !.stalled = TRUE] /\ faults' = faults + 1
      BY <1>12, <2>1 DEF Crash
    <2> QED  BY <2>1, <2>2 DEF Again, Twice
  <1>13. ASSUME NEW r \in Requests, SendPostFails(r) \/ SendSaveFails(r) \/ RequestFails(r)
         PROVE  Again(j)
    <2>1. queue' = queue
      BY <1>13 DEF SendPostFails, SendSaveFails, RequestFails
    <2> QED  BY <1>2, <2>1
  <1>14. CASE UNCHANGED vars
    BY <1>2, <1>14 DEF vars
  <1> QED
    BY <1>3, <1>4, <1>5, <1>6, <1>7, <1>8, <1>9, <1>10, <1>11, <1>12, <1>13, <1>14
       DEF Next, Worker, Receive, Faults

\* The worker's job ends after StepsLeft of its steps, however requests, failures
\* and other events come between, and a job comes back with an attempt less, or
\* once after a crash: so the queue drains once the engine is quiet, if the
\* worker goes on.
THEOREM JobsEnd == Spec => JobsRunOut
  <1>1. ASSUME TypeOK, [Next]_vars
        PROVE  [/\ worker # NoJob /\ (Worker \/ worker' # worker)
                     => StepsLeft' \in 0 .. (StepsLeft - 1)
                /\ \A j \in queue' \ queue :
                     \/ posted' = posted + 1
                     \/ /\ faults' = faults + 1 /\ worker # NoJob
                        /\ ~worker.job.stalled /\ j = [worker.job EXCEPT !.stalled = TRUE]
                     \/ /\ worker # NoJob /\ worker' = NoJob
                        /\ worker.job.left > 1 /\ j = [worker.job EXCEPT !.left = @ - 1]]_vars
    BY <1>1, WorkerShrinks, JobOverShrinks, OthersLeaveWorker, QueueStep DEF Again
  <1> QED  BY <1>1, TypeInit, TypeStep, PTL DEF Spec, JobsRunOut

-----------------------------------------------------------------------------
(***************************************************************************)
(* Fair weather: the session stays and nothing has failed.                 *)
(***************************************************************************)
\* Every job and every request is of this session; a job has been tried again
\* only if the conversation has been made meanwhile, and then it stays.
Calm == live /\ hist.upset = {} /\ hist.lost = {}
FairChats == \A c \in Orphans : c < session
FairJobs ==
  /\ \A j \in queue : j.session = session
  /\ worker # NoJob => worker.job.session = session
  /\ Keepers = {} => /\ \A j \in queue : j.left = MaxAttempts
                     /\ worker # NoJob => worker.job.left = MaxAttempts
FairWorker ==
  worker.pc = "orphans" => /\ worker.kept # {} => worker.job.left = MaxAttempts
                           /\ Keepers = {} => worker.kept \subseteq DOMAIN convs
MailPcs == {"purge", "attach", "upsert"}
FairRequests ==
  \A r \in Requests :
    /\ req[r].pc # "catch"
    /\ req[r].pc \in MailPcs \cup {"create", "post", "save", "count"} => req[r].session = session
    /\ req[r].pc = "purge" => Keepers # {}
FairRows ==
  \A k \in DOMAIN messages :
    messages[k].by # "engine" /\ messages[k].status = "FAILED" => messages[k].msg \in accepted
Fair == Calm /\ FairChats /\ FairJobs /\ FairWorker /\ FairRequests /\ FairRows

LEMMA FairInit == Init => Fair
  <1> SUFFICES ASSUME Init PROVE Fair
    OBVIOUS
  <1>1. session \in Int /\ \A c \in Orphans : c = session - 1
    BY InboxAssumption DEF Init, Orphans
  <1>2. FairChats
    BY <1>1 DEF FairChats
  <1>3. worker = NoJob /\ worker.pc = "idle" /\ queue = {} /\ messages = <<>> /\ live = TRUE
        /\ hist.upset = {} /\ hist.lost = {}
    BY DEF Init, NoJob
  <1>4. \A r \in Requests : req[r].pc = "idle"
    BY DEF Init, NoReq
  <1> QED
    BY <1>2, <1>3, <1>4 DEF Fair, Calm, FairJobs, FairWorker, FairRequests, FairRows, MailPcs

\* What the steps of fair weather have in common.
CalmGoesOn == UNCHANGED <<session, live>> /\ hist'.upset = hist.upset /\ hist'.lost = hist.lost
JobsGoOn ==
  /\ \A j \in queue' : \/ j \in queue
                       \/ worker # NoJob /\ j = worker.job
                       \/ j.session = session /\ j.left = MaxAttempts
  /\ worker' # NoJob => worker'.job \in queue \/ (worker # NoJob /\ worker'.job = worker.job)
WorkerGoesOn ==
  \/ worker'.pc # "orphans"
  \/ worker' = worker /\ (Keepers' = {} => DOMAIN convs \subseteq DOMAIN convs')
RequestsGoOn ==
  \A r \in Requests : \/ req'[r] = req[r] \/ req'[r].pc \in {"idle", "reset", "react"}
                      \/ /\ req'[r].pc # "catch" /\ req'[r].session = session
                         /\ req'[r].pc = "purge" => Keepers # {}
RowsGoOn ==
  /\ accepted \subseteq accepted'
  /\ \A k \in DOMAIN messages' :
       messages'[k].by # "engine" /\ messages'[k].status = "FAILED" =>
         \/ messages'[k].msg \in accepted
         \/ /\ k \in DOMAIN messages /\ messages[k].by # "engine"
            /\ messages[k].msg = messages'[k].msg /\ messages[k].status = "FAILED"

LEMMA FairJobsGoOn ==
  ASSUME FairJobs, session' = session, Keepers \subseteq Keepers', JobsGoOn
  PROVE  FairJobs'
  <1>1. \A j \in queue' : j.session = session /\ (Keepers = {} => j.left = MaxAttempts)
    BY DEF FairJobs, JobsGoOn
  <1>2. worker' # NoJob =>
          worker'.job.session = session /\ (Keepers = {} => worker'.job.left = MaxAttempts)
    BY DEF FairJobs, JobsGoOn
  <1> QED  BY <1>1, <1>2 DEF FairJobs

LEMMA FairWorkerGoesOn ==
  ASSUME FairWorker, Keepers \subseteq Keepers', WorkerGoesOn
  PROVE  FairWorker'
  <1>1. CASE worker'.pc # "orphans"
    BY <1>1 DEF FairWorker
  <1>2. CASE worker' = worker /\ (Keepers' = {} => DOMAIN convs \subseteq DOMAIN convs')
    BY <1>2 DEF FairWorker
  <1> QED  BY <1>1, <1>2 DEF WorkerGoesOn

LEMMA FairRequestsGoOn ==
  ASSUME FairRequests, session' = session, Keepers \subseteq Keepers', RequestsGoOn
  PROVE  FairRequests'
  <1> SUFFICES ASSUME NEW r \in Requests
               PROVE  /\ req'[r].pc # "catch"
                      /\ req'[r].pc \in MailPcs \cup {"create", "post", "save", "count"} =>
                           req'[r].session = session
                      /\ req'[r].pc = "purge" => Keepers' # {}
    BY DEF FairRequests
  <1> QED  BY DEF FairRequests, RequestsGoOn, MailPcs

LEMMA FairGoesOn ==
  ASSUME Fair, CalmGoesOn, ChatsGoOn, JobsGoOn, FairWorker' \/ WorkerGoesOn, RequestsGoOn, RowsGoOn
  PROVE  Fair'
  <1>1. Calm' /\ session' = session /\ Keepers \subseteq Keepers'
    BY DEF Fair, Calm, CalmGoesOn, ChatsGoOn
  <1>2. FairChats' /\ FairRows'
    BY <1>1 DEF Fair, FairChats, ChatsGoOn, FairRows, RowsGoOn
  <1>3. FairJobs' /\ FairWorker' /\ FairRequests'
    BY <1>1, FairJobsGoOn, FairWorkerGoesOn, FairRequestsGoOn DEF Fair
  <1> QED  BY <1>1, <1>2, <1>3 DEF Fair

LEMMA SameRowsGoOn ==
  ASSUME accepted \subseteq accepted', messages' = messages PROVE RowsGoOn
  BY DEF RowsGoOn

LEMMA SameStatusGoesOn ==
  ASSUME accepted \subseteq accepted', SameRows, \A k \in DOMAIN messages : Same(k, {"status"})
  PROVE RowsGoOn
  BY DEF RowsGoOn, SameRows, Same

LEMMA FairWorkerStep ==
  ASSUME TypeOK, ConvInv, SendInv, Fair, Worker, MaxAttempts >= 2
  PROVE  Fair'
  <1>0. MaxAttempts \in Nat /\ ChatsGoOn
    BY InboxAssumption, ChatsWorker DEF ConvInv
  <1>1. SessionFound(worker.job) \/ worker = NoJob
    BY DEF Fair, Calm, FairJobs, SessionFound
  <1>2. \A j \in queue : SessionFound(j)
    BY DEF Fair, Calm, FairJobs, SessionFound
  <1>3. ASSUME req' = req PROVE RequestsGoOn
    BY <1>3 DEF RequestsGoOn
  <1>4. ASSUME NEW j, NEW kinds, Take(j, kinds), worker'.pc # "orphans",
               worker' = NoJob \/ worker'.job = j
        PROVE  JobsGoOn /\ WorkerGoesOn
    BY <1>4, Taken DEF JobsGoOn, WorkerGoesOn
  <1>5. ASSUME queue' = queue, worker' = NoJob PROVE JobsGoOn /\ WorkerGoesOn
    BY <1>5 DEF JobsGoOn, WorkerGoesOn, NoJob
  <1>6. ASSUME queue' = queue, worker # NoJob, worker'.job = worker.job PROVE JobsGoOn
    BY <1>6 DEF JobsGoOn
  <1>7. ASSUME NEW j \in queue, HandleMessage(j) PROVE Fair'
    <2>1. Take(j, {"received", "outgoing"}) /\ UNCHANGED <<session, live, convs, messages, req, accepted>>
      BY <1>7 DEF HandleMessage, rows
    <2>2. worker' = NoJob \/ worker' = [pc |-> "reattach", job |-> j]
      BY <1>7 DEF HandleMessage, JobDone
    <2>3. PICK e : hist' = [hist EXCEPT !.early = e, !.lost = hist.lost]
      BY <1>2, <1>7 DEF HandleMessage
    <2>4. CalmGoesOn
      BY <2>1, <2>3 DEF CalmGoesOn, TypeOK
    <2>5. worker'.pc # "orphans" /\ (worker' = NoJob \/ worker'.job = j)
      BY <2>2 DEF NoJob
    <2> QED  BY <1>3, <1>4, <2>1, <2>4, <2>5, <1>0, SameRowsGoOn, FairGoesOn
  <1>8. ASSUME NEW j \in queue, HandleChatsSynced(j) \/ HandleReaction(j) PROVE Fair'
    <2>1. PICK kinds : Take(j, kinds)
      BY <1>8 DEF HandleChatsSynced, HandleReaction
    <2>2. UNCHANGED <<session, live, convs, messages, req, accepted>>
      BY <1>8 DEF HandleChatsSynced, HandleReaction, rows
    <2>3. worker' = NoJob \/ (worker'.pc \in {"reattach", "react"} /\ worker'.job = j)
      BY <1>8 DEF HandleChatsSynced, HandleReaction, JobDone
    <2>4. hist' = hist \/ \E k : hist' = [hist EXCEPT !.torn = @ \cup {k}]
      BY <1>8 DEF HandleChatsSynced, HandleReaction
    <2>5. CalmGoesOn
      BY <2>2, <2>4 DEF CalmGoesOn, TypeOK
    <2>6. worker'.pc # "orphans"
      BY <2>3 DEF NoJob
    <2> QED  BY <1>3, <1>4, <2>1, <2>2, <2>3, <2>5, <2>6, <1>0, SameRowsGoOn, FairGoesOn
  <1>9. ASSUME NEW j \in Jobs, j.ev.kind = "ack", j.ev.msg \in Sends => j.ev.msg \in accepted,
               NEW n, TryAck(j, n), accepted' = accepted
        PROVE  RowsGoOn
    <2>1. CASE Rows(j.ev.msg) # {}
      <3>1. /\ SameRows
            /\ \A k \in DOMAIN messages :
                 /\ messages'[k].msg = messages[k].msg /\ messages'[k].by = messages[k].by
                 /\ k \notin Rows(j.ev.msg) => messages'[k].status = messages[k].status
        BY <1>9, <2>1, AckDoes DEF TryAck, Same
      <3>2. j.ev.msg \in accepted
        BY <1>9, JobShape, EventShape
      <3>3. \A k \in Rows(j.ev.msg) : messages[k].msg \in accepted
        BY <3>2 DEF Rows
      <3> QED  BY <1>9, <3>1, <3>3 DEF RowsGoOn, SameRows
    <2>2. CASE Rows(j.ev.msg) = {}
      BY <1>9, <2>2, SameRowsGoOn DEF TryAck
    <2> QED  BY <2>1, <2>2
  <1>10. ASSUME NEW j \in queue, HandleMessageAck(j) PROVE Fair'
    <2>1. Take(j, {"ack"}) /\ UNCHANGED <<session, live, convs, req, accepted, hist>> /\ TryAck(j, 0)
      BY <1>10 DEF HandleMessageAck
    <2>2. j \in Jobs /\ j.ev.kind = "ack" /\ (j.ev.msg \in Sends => j.ev.msg \in accepted)
      BY <2>1, Taken DEF SendInv
    <2>3. RowsGoOn
      BY <1>9, <2>1, <2>2
    <2>4. worker' = NoJob \/ (worker'.pc = "try" /\ worker'.job = j)
      BY <2>1 DEF TryAck, JobDone
    <2>5. worker'.pc # "orphans"
      BY <2>4 DEF NoJob
    <2>6. CalmGoesOn
      BY <2>1 DEF CalmGoesOn
    <2> QED  BY <1>3, <1>4, <2>1, <2>3, <2>4, <2>5, <2>6, <1>0, FairGoesOn
  <1>11. ASSUME RetryAck PROVE Fair'
    <2>1. /\ worker # NoJob /\ worker.job \in Jobs /\ worker.job.ev.kind = "ack"
          /\ worker.job.ev.msg \in Sends => worker.job.ev.msg \in accepted
      BY <1>11, WorkerShape DEF RetryAck, NoJob, SendInv
    <2>2. UNCHANGED <<session, live, convs, queue, req, accepted, hist>> /\ TryAck(worker.job, worker.tries)
      BY <1>11 DEF RetryAck
    <2>3. RowsGoOn
      BY <1>9, <2>1, <2>2
    <2>4. worker' = NoJob \/ (worker'.pc = "try" /\ worker'.job = worker.job)
      BY <2>2 DEF TryAck, JobDone
    <2>5. JobsGoOn /\ WorkerGoesOn
      BY <2>1, <2>2, <2>4 DEF JobsGoOn, WorkerGoesOn, NoJob
    <2>6. CalmGoesOn
      BY <2>2 DEF CalmGoesOn
    <2> QED  BY <1>3, <2>2, <2>3, <2>5, <2>6, <1>0, FairGoesOn
  <1>12. ASSUME ReattachLook PROVE Fair'
    <2>1. /\ worker # NoJob /\ UNCHANGED <<session, live, convs, messages, queue, req, accepted, hist>>
          /\ worker'.job = worker.job
      BY <1>12 DEF ReattachLook, rows, NoJob
    <2>2. MineOrAny = Keepers
      BY <1>1, <2>1 DEF MineOrAny
    <2>3. FairWorker' \/ WorkerGoesOn
      <3>1. CASE MineOrAny # {}
        <4>1. worker' = [pc |-> "orphans", job |-> worker.job, kept |-> {}]
          BY <1>12, <3>1 DEF ReattachLook
        <4>2. worker'.kept = {}
          BY <4>1
        <4> QED  BY <4>2 DEF FairWorker
      <3>2. CASE MineOrAny = {} /\ Orphans # {}
        <4>1. worker' = [pc |-> "orphans", job |-> worker.job, kept |-> Orphans]
          BY <1>12, <3>2 DEF ReattachLook
        <4>2. worker.job.left = MaxAttempts
          BY <2>1, <2>2, <3>2 DEF Fair, FairJobs
        <4>3. worker'.kept = Orphans /\ worker'.job.left = MaxAttempts
          BY <2>1, <4>1, <4>2
        <4>4. worker'.kept \subseteq DOMAIN convs'
          BY <2>1, <4>3 DEF Orphans
        <4> QED  BY <4>3, <4>4 DEF FairWorker
      <3>3. CASE MineOrAny = {} /\ Orphans = {}
        BY <1>12, <3>3 DEF ReattachLook, NextStep, WorkerGoesOn
      <3> QED  BY <3>1, <3>2, <3>3
    <2>4. CalmGoesOn
      BY <2>1 DEF CalmGoesOn
    <2> QED  BY <1>3, <1>6, <2>1, <2>3, <2>4, <1>0, SameRowsGoOn, FairGoesOn
  <1>13. ASSUME NEW dead, convs' = Without(dead), messages' = Detach(dead),
                UNCHANGED <<session, live, queue, req, accepted, hist>>, worker # NoJob,
                worker'.job = worker.job, FairWorker' \/ WorkerGoesOn
         PROVE  Fair'
    <2>2. RowsGoOn
      BY <1>13, DetachDoes, SameStatusGoesOn DEF Same
    <2>3. CalmGoesOn
      BY <1>13 DEF CalmGoesOn
    <2> QED  BY <1>0, <1>3, <1>6, <1>13, <2>2, <2>3, FairGoesOn
  <1>14. ASSUME ReattachDelete PROVE Fair'
    <2>1. /\ worker # NoJob /\ worker'.job = worker.job /\ worker'.pc = NextStep
          /\ convs' = Without(Orphans) /\ messages' = Detach(Orphans)
          /\ UNCHANGED <<session, live, queue, req, accepted, hist>>
      BY <1>14 DEF ReattachDelete, NoJob
    <2>2. WorkerGoesOn
      BY <2>1 DEF WorkerGoesOn, NextStep
    <2> QED  BY <1>13, <2>1, <2>2
  <1>15. ASSUME ReattachTrim PROVE Fair'
    <2>1. PICK c \in Oldest(worker.kept) :
            /\ convs' = Without(worker.kept \ {c})
            /\ messages' = Detach(worker.kept \ {c})
            /\ worker' = [pc |-> "orphans", job |-> worker.job, kept |-> {c}]
      BY <1>15 DEF ReattachTrim
    <2>2. /\ worker # NoJob /\ worker'.job = worker.job /\ worker.pc = "orphans" /\ c \in worker.kept
          /\ UNCHANGED <<session, live, queue, req, accepted, hist>>
      BY <1>15, <2>1 DEF ReattachTrim, NoJob, Oldest
    <2>3. worker.job.left = MaxAttempts /\ (Keepers = {} => c \in DOMAIN convs)
      BY <2>2 DEF Fair, FairWorker
    <2>4. Keepers' = {} => c \in DOMAIN convs'
      BY <1>0, <2>1, <2>3 DEF ChatsGoOn, Without
    <2>5. worker'.kept = {c} /\ worker'.job.left = MaxAttempts
      BY <2>1, <2>3
    <2>6. FairWorker'
      BY <2>4, <2>5 DEF FairWorker
    <2> QED  BY <1>13, <2>1, <2>2, <2>6
  <1>16. ASSUME JobThrows, worker # NoJob, worker.job.left # 1 \/ worker.job.ev.kind # "received",
                Keepers' # {}, UNCHANGED <<session, live, messages, req, accepted>>
         PROVE  Fair'
    <2>1. hist'.upset = hist.upset /\ hist'.lost = hist.lost
      BY <1>16 DEF JobThrows, TypeOK
    <2>2. worker' = NoJob /\ \A j \in queue' : j.session = session
      BY <1>16, ThrowDoes DEF Fair, FairJobs
    <2>3. Calm' /\ FairChats' /\ FairJobs' /\ FairWorker'
      BY <1>0, <1>16, <2>1, <2>2
         DEF Fair, Calm, FairChats, ChatsGoOn, FairJobs, FairWorker, NoJob
    <2>4. FairRequests' /\ FairRows'
      BY <1>16 DEF Fair, FairRequests, FairRows
    <2> QED  BY <2>3, <2>4 DEF Fair
  <1>17. ASSUME ReattachKeep PROVE Fair'
    <2>1. PICK c \in worker.kept :
            /\ worker.kept = {c}
            /\ IF Attachable(c)
               THEN /\ convs' = [convs EXCEPT ![c].session = session]
                    /\ worker' = [pc |-> NextStep, job |-> worker.job]
                    /\ UNCHANGED <<queue, hist>>
               ELSE /\ convs' = convs
                    /\ IF worker.job.ev.kind = "sync"
                       THEN JobDone /\ UNCHANGED <<queue, hist>> ELSE JobThrows
      BY <1>17 DEF ReattachKeep
    <2>2. /\ worker # NoJob /\ worker.pc = "orphans"
          /\ UNCHANGED <<session, live, messages, req, accepted>>
      BY <1>17 DEF ReattachKeep, NoJob
    <2>3. CASE Attachable(c)
      <3>1. /\ UNCHANGED <<queue, hist>> /\ worker'.job = worker.job /\ worker'.pc = NextStep
        BY <2>1, <2>3
      <3>2. WorkerGoesOn /\ CalmGoesOn
        BY <2>2, <3>1 DEF WorkerGoesOn, NextStep, CalmGoesOn
      <3> QED  BY <1>0, <1>3, <1>6, <2>2, <3>1, <3>2, SameRowsGoOn, FairGoesOn
    <2>4. CASE ~Attachable(c)
      <3>1. convs' = convs /\ (JobThrows \/ (worker' = NoJob /\ UNCHANGED <<queue, hist>>))
        BY <2>1, <2>4 DEF JobDone
      <3>2. SessionFound(worker.job) /\ worker.job.left = MaxAttempts
            /\ (Keepers = {} => c \in DOMAIN convs)
        BY <1>1, <2>1, <2>2 DEF Fair, FairWorker
      <3>3. Keepers' # {}
        BY <1>0, <2>4, <3>2 DEF Attachable, ChatsGoOn
      <3>4. CASE JobThrows
        <4>1. worker.job.left # 1
          BY <1>0, <3>2
        <4> QED  BY <1>16, <2>2, <3>3, <3>4, <4>1
      <3>5. CASE worker' = NoJob /\ UNCHANGED <<queue, hist>>
        <4>1. CalmGoesOn
          BY <2>2, <3>5 DEF CalmGoesOn
        <4> QED  BY <1>0, <1>3, <1>5, <2>2, <3>5, <4>1, SameRowsGoOn, FairGoesOn
      <3> QED  BY <3>1, <3>4, <3>5
    <2> QED  BY <2>3, <2>4
  <1>18. ASSUME CountMessage PROVE Fair'
    <2>1. worker # NoJob /\ UNCHANGED <<session, live, messages, req, accepted>>
      BY <1>18 DEF CountMessage, NoJob
    <2>2. PICK one \in {0, 1} :
            /\ Upsert(TRUE, one) /\ queue' = queue
            /\ worker' = [pc |-> "message", job |-> worker.job, conv |-> Upserted]
            /\ hist' = hist \/ hist' = [hist EXCEPT !.disturbed = @ \cup {Upserted}]
      BY <1>1, <1>18, <2>1 DEF CountMessage
    <2>3. CalmGoesOn
      BY <2>1, <2>2 DEF CalmGoesOn, TypeOK
    <2>4. WorkerGoesOn /\ worker'.job = worker.job
      BY <2>2 DEF WorkerGoesOn
    <2> QED  BY <1>0, <1>3, <1>6, <2>1, <2>2, <2>3, <2>4, SameRowsGoOn, FairGoesOn
  <1>19. ASSUME CreateMessage PROVE Fair'
    <2>1. /\ worker # NoJob /\ worker.job.ev \in Events /\ worker.conv \in 0 .. MaxSessions
          /\ worker.job.ev.kind \in {"received", "outgoing"}
      BY <1>19, WorkerShape DEF CreateMessage, NoJob, ConvIds
    <2>2. PICK dir \in {"INBOUND", "OUTBOUND"}, st \in {"DELIVERED", "SENT"} :
            messages' = Append(messages, NewRow(worker.job.ev.msg, dir, worker.conv, st, "engine"))
      BY <1>1, <1>19, <2>1 DEF CreateMessage
    <2>3. worker' = NoJob /\ UNCHANGED <<session, live, convs, queue, req, accepted, hist>>
      BY <1>1, <1>19, <2>1 DEF CreateMessage, JobDone
    <2>4. PICK u : u = NewRow(worker.job.ev.msg, dir, worker.conv, st, "engine")
      OBVIOUS
    <2>5. st \in Statuses /\ worker.job.ev.msg \in Inbound \cup Sends
      BY <2>1, EventShape DEF Statuses
    <2>6. u \in Row /\ u.by = "engine"
      BY <2>1, <2>4, <2>5, NewRowShape
    <2>7. /\ DOMAIN messages' = DOMAIN messages \cup {Len(messages) + 1}
          /\ messages'[Len(messages) + 1] = u
          /\ \A k \in DOMAIN messages : messages'[k] = messages[k]
      BY <2>2, <2>4, <2>6, RowAdded
    <2>8. RowsGoOn
      BY <2>3, <2>6, <2>7 DEF RowsGoOn
    <2>9. CalmGoesOn
      BY <2>3 DEF CalmGoesOn
    <2> QED  BY <1>3, <1>5, <2>3, <2>8, <2>9, <1>0, FairGoesOn
  <1>20. ASSUME SyncChat PROVE Fair'
    <2>1. /\ worker' = NoJob /\ UNCHANGED <<session, live, messages, queue, req, accepted>>
      BY <1>20 DEF SyncChat, JobDone
    <2>2. hist' = hist \/ hist' = [hist EXCEPT !.disturbed = @ \cup {Upserted}]
      BY <1>20 DEF SyncChat
    <2>3. CalmGoesOn
      BY <2>1, <2>2 DEF CalmGoesOn, TypeOK
    <2> QED  BY <1>0, <1>3, <1>5, <2>1, <2>3, SameRowsGoOn, FairGoesOn
  <1>21. ASSUME WriteReaction PROVE Fair'
    <2>1. worker.row \in Nat /\ React(worker.seen, "them", worker.job.ev.arg) \in SUBSET Parties
      BY <1>21, WorkerShape DEF WriteReaction, NoJob, React, Parties
    <2>2. worker' = NoJob /\ UNCHANGED <<session, live, convs, queue, req, accepted>>
      BY <1>21 DEF WriteReaction, JobDone
    <2>3. RowsGoOn
      BY <1>21, <2>1, <2>2, ReactSet, SameStatusGoesOn DEF WriteReaction, Same
    <2>4. CalmGoesOn
      BY <1>21, <2>2 DEF WriteReaction, CalmGoesOn, TypeOK
    <2> QED  BY <1>3, <1>5, <2>2, <2>3, <2>4, <1>0, FairGoesOn
  <1> QED
    BY <1>7, <1>8, <1>10, <1>11, <1>12, <1>14, <1>15, <1>17, <1>18, <1>19, <1>20, <1>21
       DEF Worker, Receive
\* The steps of the requests: nobody sends for a session that has gone.
LEMMA FairRequestStep ==
  ASSUME TypeOK, SendInv, Fair, NEW r \in Requests, Ask(r) \/ Handler(r) \/ Mail(r)
  PROVE  Fair'
  <1>0. ChatsGoOn /\ queue' = queue /\ worker' = worker
    BY ChatsRequest, RequestsLeaveJobs
  <1>1. JobsGoOn
    BY <1>0 DEF JobsGoOn
  <1>2. DOMAIN convs \subseteq DOMAIN convs' \/ Keepers # {} => WorkerGoesOn
    BY <1>0 DEF WorkerGoesOn, ChatsGoOn
  <1>3. ASSUME \A q \in Requests \ {r} : req'[q] = req[q],
               \/ req'[r].pc \in {"idle", "reset", "react"}
               \/ /\ req'[r].pc # "catch" /\ req'[r].session = session
                  /\ req'[r].pc = "purge" => Keepers # {}
        PROVE  RequestsGoOn
    BY <1>3 DEF RequestsGoOn
  <1>4. ASSUME UNCHANGED <<session, live>>, DOMAIN convs \subseteq DOMAIN convs' \/ Keepers # {},
               hist'.upset = hist.upset, hist'.lost = hist.lost, RequestsGoOn, RowsGoOn
        PROVE  Fair'
    <2>1. CalmGoesOn
      BY <1>4 DEF CalmGoesOn
    <2> QED  BY <1>0, <1>1, <1>2, <1>4, <2>1, FairGoesOn
  <1>5. ASSUME UNCHANGED <<session, live, convs, hist>>, RequestsGoOn, RowsGoOn PROVE Fair'
    BY <1>4, <1>5
  <1>6. /\ req[r].pc \in MailPcs \cup {"create", "post", "save", "count"} => req[r].session = session
        /\ req[r].pc = "purge" => Keepers # {}
    BY DEF Fair, FairRequests
  <1>7. ASSUME NEW o \in Sends, NEW c \in DOMAIN convs, SendReply(r, o, c) PROVE Fair'
    <2>1. c \in ConvIds /\ Creates(r, o, c, "send") /\ "send" \in Senders
          /\ UNCHANGED <<session, live, convs, messages, accepted, hist>>
      BY <1>7, ConvShape DEF SendReply, rows, Senders
    <2>2. /\ \A q \in Requests \ {r} : req'[q] = req[q]
          /\ req'[r].pc = "create" /\ req'[r].session = session
      <3>1. /\ \A q \in Requests \ {r} : req'[q] = req[q]
            /\ req'[r] = [pc |-> "create", msg |-> o, conv |-> c, session |-> session, by |-> "send"]
        BY <2>1, CreatesDoes
      <3> QED  BY <3>1
    <2>3. RequestsGoOn
      BY <1>3, <2>2
    <2> QED  BY <1>5, <2>1, <2>3, SameRowsGoOn
  <1>8. ASSUME NEW o \in Sends, NEW by \in Senders, Upsert(TRUE, 0), Creates(r, o, Upserted, by),
               UNCHANGED <<session, live, messages, accepted>>,
               hist'.upset = hist.upset, hist'.lost = hist.lost
        PROVE  Fair'
    <2>1. PICK n : Upserts(Upserted, n)
      BY <1>8, UpsertDoes
    <2>2. Upserted \in ConvIds /\ DOMAIN convs \subseteq DOMAIN convs'
      BY <1>8, <2>1, UpsertedConv DEF Upserts
    <2>3. /\ \A q \in Requests \ {r} : req'[q] = req[q]
          /\ req'[r].pc = "create" /\ req'[r].session = session
      <3>1. /\ \A q \in Requests \ {r} : req'[q] = req[q]
            /\ req'[r] = [pc |-> "create", msg |-> o, conv |-> Upserted, session |-> session, by |-> by]
        BY <1>8, <2>2, CreatesDoes
      <3> QED  BY <3>1
    <2>4. RequestsGoOn
      BY <1>3, <2>3
    <2> QED  BY <1>4, <1>8, <2>2, <2>4, SameRowsGoOn
  <1>81. ASSUME NEW o \in Sends, SendNew(r, o) PROVE Fair'
    <2>1. /\ Upsert(TRUE, 0) /\ Creates(r, o, Upserted, "send") /\ "send" \in Senders
          /\ UNCHANGED <<session, live, messages, accepted>>
          /\ hist' = hist \/ \E s : hist' = [hist EXCEPT !.split = s]
      BY <1>81 DEF SendNew, Senders
    <2>2. hist'.upset = hist.upset /\ hist'.lost = hist.lost
      BY <2>1 DEF TypeOK
    <2> QED  BY <1>8, <2>1, <2>2
  <1>82. ASSUME CampaignLook(r) PROVE Fair'
    <2>1. /\ UNCHANGED <<session, live, convs, messages, accepted, hist>>
          /\ req' = [req EXCEPT ![r] = [pc |-> IF Keepers # {} THEN "purge" ELSE "attach",
                                        session |-> session]]
      BY <1>82 DEF CampaignLook, rows
    <2>2. PICK t : t = [pc |-> IF Keepers # {} THEN "purge" ELSE "attach", session |-> session]
      OBVIOUS
    <2>3. t \in RequestTasks /\ t.pc # "catch" /\ t.session = session /\ (t.pc = "purge" => Keepers # {})
      BY <2>2, RequestTypes DEF TypeOK
    <2>4. RequestsGoOn
      BY <1>3, <2>1, <2>2, <2>3, BeginDoes
    <2> QED  BY <1>5, <2>1, <2>4, SameRowsGoOn
  <1>83. ASSUME Mail(r), Leave(r) \/ Goto(r, "upsert"), req[r].pc \in {"purge", "attach"} PROVE RequestsGoOn
    <2>1. CASE Leave(r)
      BY <1>3, <2>1, LeaveDoes
    <2>2. CASE Goto(r, "upsert")
      <3>1. /\ \A q \in Requests \ {r} : req'[q] = req[q]
            /\ req'[r].pc = "upsert" /\ req'[r].session = req[r].session
        BY <1>83, <2>2, MailGoes
      <3> QED  BY <1>3, <1>6, <1>83, <3>1 DEF MailPcs
    <2> QED  BY <1>83, <2>1, <2>2
  <1>84. ASSUME CampaignPurge(r) PROVE Fair'
    <2>1. /\ UNCHANGED <<session, live, accepted, hist>> /\ messages' = Detach(Orphans)
          /\ Goto(r, "upsert") /\ req[r].pc = "purge"
      BY <1>84 DEF CampaignPurge
    <2>2. RequestsGoOn
      BY <1>83, <1>84, <2>1 DEF Mail
    <2>3. RowsGoOn
      BY <2>1, DetachDoes, SameStatusGoesOn DEF Same
    <2> QED  BY <1>4, <1>6, <2>1, <2>2, <2>3
  <1>85. ASSUME CampaignAttach(r) PROVE Fair'
    <2>1. /\ UNCHANGED <<session, live, messages, accepted, hist>>
          /\ Leave(r) \/ Goto(r, "upsert")
      BY <1>85 DEF CampaignAttach
    <2>2. req[r].pc = "attach" /\ DOMAIN convs' = DOMAIN convs
      BY <1>85 DEF CampaignAttach
    <2>3. RequestsGoOn
      BY <1>83, <1>85, <2>1, <2>2 DEF Mail
    <2> QED  BY <1>4, <2>1, <2>2, <2>3, SameRowsGoOn
  <1>86. ASSUME NEW o \in Sends, CampaignUpsert(r, o) PROVE Fair'
    <2>1. UNCHANGED <<session, live, messages, accepted, hist>> /\ req[r].pc = "upsert"
      BY <1>86 DEF CampaignUpsert
    <2>2. CASE live /\ req[r].session = session
      <3>1. Upsert(TRUE, 0) /\ Creates(r, o, Upserted, "campaign") /\ "campaign" \in Senders
        BY <1>86, <2>2 DEF CampaignUpsert, Senders
      <3> QED  BY <1>8, <2>1, <3>1
    <2>3. CASE ~(live /\ req[r].session = session)
      <3>1. Leave(r) /\ convs' = convs
        BY <1>86, <2>3 DEF CampaignUpsert
      <3> QED  BY <1>3, <1>5, <2>1, <3>1, LeaveDoes, SameRowsGoOn
    <2> QED  BY <2>2, <2>3
  <1>9. ASSUME SendCreate(r) PROVE Fair'
    <2>1. /\ req[r].pc = "create" /\ req[r].msg \in Sends
          /\ req[r].session \in ConvIds /\ req[r].session = session
      BY <1>6, <1>9, RequestShape DEF SendCreate, ConvIds
    <2>2. UNCHANGED <<session, live, convs, hist, accepted>>
      BY <1>9 DEF SendCreate
    <2>3. CASE live /\ req[r].session = session /\ req[r].conv \in DOMAIN convs
      <3>1. PICK u : u = NewRow(req[r].msg, "OUTBOUND", req[r].conv, "PENDING", req[r].by)
        OBVIOUS
      <3>3. u \in Row /\ u.status = "PENDING"
        BY <2>1, <3>1, SentRow
      <3>4. messages' = Append(messages, u)
        BY <1>9, <2>3, <3>1 DEF SendCreate
      <3>5. /\ DOMAIN messages' = DOMAIN messages \cup {Len(messages) + 1} /\ Len(messages) + 1 \in Nat
            /\ messages'[Len(messages) + 1] = u
            /\ \A k \in DOMAIN messages : messages'[k] = messages[k]
        BY <3>3, <3>4, RowAdded
      <3>6. RowsGoOn
        BY <2>2, <3>3, <3>5 DEF RowsGoOn
      <3>7. PICK t : /\ t = [pc |-> "post", msg |-> req[r].msg, session |-> req[r].session,
                             row |-> Len(messages) + 1]
                     /\ req' = [req EXCEPT ![r] = t]
        BY <1>9, <2>3 DEF SendCreate
      <3>8. t \in RequestTasks /\ t.pc = "post" /\ t.session = session
        BY <2>1, <3>5, <3>7, RequestTypes
      <3>9. RequestsGoOn
        BY <1>3, <3>7, <3>8, BeginDoes
      <3> QED  BY <1>5, <2>2, <3>6, <3>9
    <2>4. CASE ~(live /\ req[r].session = session /\ req[r].conv \in DOMAIN convs)
      <3>1. Leave(r) /\ messages' = messages
        BY <1>9, <2>4 DEF SendCreate
      <3> QED  BY <1>3, <1>5, <2>2, <3>1, LeaveDoes, SameRowsGoOn
    <2> QED  BY <2>3, <2>4
  <1>10. ASSUME SendPost(r) PROVE Fair'
    <2>1. Goto(r, "save") /\ req[r].pc = "post" /\ UNCHANGED <<session, live, convs, messages, hist>>
      BY <1>10 DEF SendPost, rows
    <2>2. RequestsGoOn
      BY <1>3, <1>6, <2>1, GotoDoes
    <2>3. RowsGoOn
      BY <1>10, <2>1, SameRowsGoOn DEF SendPost
    <2> QED  BY <1>5, <2>1, <2>2, <2>3
  <1>11. ASSUME SendSave(r) PROVE Fair'
    <2>1. /\ Goto(r, "count") /\ req[r].pc = "save" /\ req[r].row \in Nat
          /\ UNCHANGED <<session, live, convs, accepted>>
      BY <1>11, RequestShape DEF SendSave
    <2>2. RequestsGoOn
      BY <1>3, <1>6, <2>1, GotoDoes
    <2>3. /\ SameRows
          /\ \A k \in DOMAIN messages :
               /\ messages'[k].msg = messages[k].msg /\ messages'[k].by = messages[k].by
               /\ messages'[k].status = IF k = req[r].row THEN "SENT" ELSE messages[k].status
      BY <1>11, SavedDoes DEF Same
    <2>4. RowsGoOn
      BY <2>1, <2>3 DEF RowsGoOn, SameRows
    <2>5. hist' = hist \/ hist' = [hist EXCEPT !.mute = @ \cup {req[r].msg}]
      BY <1>11 DEF SendSave
    <2>6. hist'.upset = hist.upset /\ hist'.lost = hist.lost
      BY <2>5 DEF TypeOK
    <2> QED  BY <1>4, <2>1, <2>2, <2>4, <2>6
  <1>12. ASSUME SendCount(r) PROVE Fair'
    <2>1. /\ Leave(r) /\ UNCHANGED <<session, live, convs, messages, hist, accepted>>
      BY <1>6, <1>12 DEF SendCount, Counts, rows, Fair, Calm
    <2> QED  BY <1>3, <1>5, <2>1, LeaveDoes, SameRowsGoOn
  <1>13. ASSUME SendCatch(r) PROVE Fair'
    BY <1>13 DEF SendCatch, Fair, FairRequests
  <1>14. ASSUME NEW c \in DOMAIN convs, MarkMessages(r, c) PROVE Fair'
    <2>1. PICK t : t = [pc |-> "reset", conv |-> c] /\ req' = [req EXCEPT ![r] = t]
      BY <1>14 DEF MarkMessages
    <2>2. t \in RequestTasks /\ t.pc = "reset"
      BY <2>1, ConvShape, RequestTypes
    <2>3. RequestsGoOn
      BY <1>3, <2>1, <2>2, BeginDoes
    <2>4. UNCHANGED <<session, live, convs, accepted>> /\ \E d : hist' = [hist EXCEPT !.disturbed = d]
      BY <1>14 DEF MarkMessages
    <2>5. /\ SameRows
          /\ \A k \in DOMAIN messages :
               /\ messages'[k].msg = messages[k].msg /\ messages'[k].by = messages[k].by
               /\ messages'[k].status = IF k \in Unread(c) THEN "READ" ELSE messages[k].status
      BY <1>14, MarkDoes DEF Same
    <2>6. RowsGoOn
      BY <2>4, <2>5 DEF RowsGoOn, SameRows
    <2>7. hist'.upset = hist.upset /\ hist'.lost = hist.lost
      BY <2>4 DEF TypeOK
    <2> QED  BY <1>4, <2>3, <2>4, <2>6, <2>7
  <1>15. ASSUME ResetUnread(r) PROVE Fair'
    <2>1. Leave(r) /\ UNCHANGED <<session, live, messages, hist, accepted>>
      BY <1>15 DEF ResetUnread
    <2>2. DOMAIN convs' = DOMAIN convs
      BY <1>15 DEF ResetUnread
    <2> QED  BY <1>3, <1>4, <2>1, <2>2, LeaveDoes, SameRowsGoOn
  <1>16. ASSUME NEW k \in DOMAIN messages, NEW arg \in {"on", "off"}, ReactRead(r, k, arg) PROVE Fair'
    <2>1. PICK t : /\ t = [pc |-> "react", row |-> k, seen |-> messages[k].react, arg |-> arg]
                   /\ req' = [req EXCEPT ![r] = t]
      BY <1>16 DEF ReactRead
    <2>2. t \in RequestTasks /\ t.pc = "react"
      BY <2>1, RowShape, RequestTypes
    <2>3. RequestsGoOn
      BY <1>3, <2>1, <2>2, BeginDoes
    <2>4. /\ UNCHANGED <<session, live, convs, messages, accepted>>
          /\ hist' = hist \/ hist' = [hist EXCEPT !.torn = @ \cup {k}]
      BY <1>16 DEF ReactRead, rows
    <2>5. hist'.upset = hist.upset /\ hist'.lost = hist.lost
      BY <2>4 DEF TypeOK
    <2> QED  BY <1>4, <2>3, <2>4, <2>5, SameRowsGoOn
  <1>17. ASSUME ReactWrite(r) PROVE Fair'
    <2>1. req[r].row \in Nat /\ React(req[r].seen, "us", req[r].arg) \in SUBSET Parties
      BY <1>17, RequestShape DEF ReactWrite, React, Parties
    <2>2. Leave(r) /\ UNCHANGED <<session, live, convs, accepted>>
      BY <1>17 DEF ReactWrite
    <2>3. RowsGoOn
      BY <1>17, <2>1, <2>2, ReactSet, SameStatusGoesOn DEF ReactWrite, Same
    <2>4. hist'.upset = hist.upset /\ hist'.lost = hist.lost
      BY <1>17 DEF ReactWrite, TypeOK
    <2> QED  BY <1>3, <1>4, <2>2, <2>3, <2>4, LeaveDoes
  <1> QED
    BY <1>7, <1>81, <1>82, <1>84, <1>85, <1>86, <1>9, <1>10, <1>11, <1>12, <1>13, <1>14, <1>15, <1>16, <1>17 DEF Ask, Handler, Mail

FairInv == faults = 0 => Fair

LEMMA FairStep ==
  ASSUME TypeOK, ConvInv, SendInv, FairInv, [Next]_vars, [~DeleteSession]_vars, MaxAttempts >= 2
  PROVE  FairInv'
  <1> SUFFICES ASSUME faults' = 0 PROVE Fair'
    BY DEF FairInv
  <1>0. faults \in Nat
    BY InboxAssumption DEF TypeOK
  <1>1. ASSUME Faults PROVE FALSE
    <2>1. faults' = faults + 1
      BY <1>1 DEF Faults, DatabaseFails, Crash, SendPostFails, SendSaveFails, RequestFails
    <2> QED  BY <1>0, <2>1
  <1>2. ASSUME faults' = faults PROVE Fair
    BY <1>2 DEF FairInv
  <1>3. CASE UNCHANGED vars
    <2>1. Fair /\ UNCHANGED <<session, live, convs, messages, queue, worker, req, accepted, hist>>
      BY <1>2, <1>3 DEF vars
    <2>2. CalmGoesOn /\ JobsGoOn /\ RequestsGoOn
      BY <2>1 DEF CalmGoesOn, JobsGoOn, RequestsGoOn
    <2>3. ChatsGoOn /\ WorkerGoesOn
      BY <2>1, SameChats DEF WorkerGoesOn
    <2> QED  BY <2>1, <2>2, <2>3, SameRowsGoOn, FairGoesOn
  <1>4. CASE CreateSession
    BY <1>2, <1>4 DEF CreateSession, Fair, Calm
  <1>5. ASSUME NEW ev \in Events, HandleEngineEvent(ev) PROVE Fair'
    <2>1. Fair /\ UNCHANGED <<session, live, convs, messages, worker, req, accepted, hist>>
      BY <1>2, <1>5 DEF HandleEngineEvent, rows
    <2>2. queue' = queue \cup {[ev |-> ev, session |-> session, left |-> MaxAttempts, stalled |-> FALSE]}
      BY <1>5 DEF HandleEngineEvent
    <2>3. CalmGoesOn /\ JobsGoOn /\ RequestsGoOn
      BY <2>1, <2>2 DEF CalmGoesOn, JobsGoOn, RequestsGoOn
    <2>4. ChatsGoOn /\ WorkerGoesOn
      BY <2>1, SameChats DEF WorkerGoesOn
    <2> QED  BY <2>1, <2>3, <2>4, SameRowsGoOn, FairGoesOn
  <1>6. CASE Worker
    <2>1. faults' = faults \/ faults' = faults + 1
      <3>1. CASE SyncChat
        BY <3>1 DEF SyncChat
      <3>2. ASSUME NEW j \in queue, HandleMessage(j) \/ HandleChatsSynced(j) \/ HandleMessageAck(j)
                     \/ HandleReaction(j)
            PROVE  faults' = faults
        BY <3>2 DEF HandleMessage, HandleChatsSynced, HandleMessageAck, HandleReaction
      <3>3. CASE ReattachLook \/ ReattachDelete \/ ReattachTrim \/ ReattachKeep \/ CountMessage
                 \/ CreateMessage \/ RetryAck \/ WriteReaction
        BY <3>3 DEF ReattachLook, ReattachDelete, ReattachTrim, ReattachKeep, CountMessage,
                    CreateMessage, RetryAck, WriteReaction
      <3> QED  BY <1>6, <3>1, <3>2, <3>3 DEF Worker, Receive
    <2>2. faults' = faults
      BY <1>0, <2>1
    <2> QED  BY <1>2, <1>6, <2>2, FairWorkerStep
  <1>7. ASSUME NEW r \in Requests, Ask(r) \/ Handler(r) \/ Mail(r) PROVE Fair'
    <2>1. faults' = faults
      BY <1>7 DEF Ask, Handler, Mail, SendNew, SendReply, MarkMessages, ReactRead, SendCreate, SendPost,
                  SendSave, SendCount, SendCatch, ResetUnread, ReactWrite,
                  CampaignLook, CampaignPurge, CampaignAttach, CampaignUpsert
    <2> QED  BY <1>2, <1>7, <2>1, FairRequestStep
  <1>8. CASE DeleteSession
    <2>1. UNCHANGED vars
      BY <1>8
    <2> QED  BY <1>3, <2>1
  <1> QED  BY <1>1, <1>3, <1>4, <1>5, <1>6, <1>7, <1>8 DEF Next

\* With the session there all the time and nothing failed so far, no message of
\* the contact's is given up: a send may take the conversation from under a
\* job, which then throws, but its next attempt finds it made (MaxAttempts >= 2;
\* the code has three).  A send ends as its message did, and only an echo that
\* comes before the externalId is saved, or an answer of the engine without an
\* id to save, makes a second row.
THEOREM FairWeatherHolds == ASSUME MaxAttempts >= 2 PROVE Spec /\ SessionStays => []FairWeather
  <1>1. ASSUME TypeOK, RowInv, SendInv, FairInv PROVE FairWeather
    <2> SUFFICES ASSUME faults = 0 PROVE FairWeather
      BY DEF FairWeather
    <2>1. Fair /\ hist.upset = {} /\ hist.lost = {}
      BY <1>1 DEF FairInv, Fair, Calm
    <2>2. ASSUME NEW k \in DOMAIN messages, messages[k].by # "engine"
          PROVE  /\ messages[k].status = "PENDING" => Sending(k)
                 /\ messages[k].status # "PENDING" => messages[k].msg \in accepted
                 /\ messages[k].status = "FAILED" => "FAILED" \in Acks
      <3>1. messages[k].status \in Statuses
        BY <1>1, RowShape
      <3> QED  BY <1>1, <2>1, <2>2, <3>1 DEF SendInv, RowTells, Fair, FairRows, Statuses
    <2>3. OneRowPerSend
      BY <1>1, OneRow
    <2> QED  BY <2>1, <2>2, <2>3 DEF FairWeather, OneRowPerSend
  <1>2. Init => FairInv
    BY FairInit DEF FairInv
  <1>3. TypeOK /\ ConvInv /\ SendInv /\ FairInv /\ [Next]_vars /\ [~DeleteSession]_vars => FairInv'
    BY FairStep
  <1> QED
    BY <1>1, <1>2, <1>3, TypeInit, TypeStep, RowInit, RowStep, SendInit, SendInvStep, ConvInit, ConvStep,
       PTL DEF Spec, SessionStays
============
