--------------------------- MODULE Conversations ---------------------------
(***************************************************************************)
(* What the team does with its conversations (conversations.service.ts):   *)
(* assigning them to members, pinning and archiving them.  Requests share  *)
(* the slots of Team, whose requests go on meanwhile; a message of the     *)
(* contact reopens its conversation at any moment (webhooks.processor.ts). *)
(***************************************************************************)
EXTENDS Team

CONSTANTS Convs,     \* conversations
          MaxPins    \* how many may be pinned (3 in the code)

ASSUME ConvAssumption == MaxPins \in Nat \ {0}

VARIABLES convs,     \* Conversation rows: [status, agent, pinned, archived]
          crossed,   \* history: conversations written by two assignments at once
          reopened   \* history: assigned conversations a message has reopened

convVars == <<convs, crossed, reopened>>
vars == <<teamVars, convVars>>
membersVars == <<users, invites, tokens, signins, torn, late>>

ConvRow == [status : {"OPEN", "ASSIGNED"}, agent : Members \cup {Nobody},
            pinned : BOOLEAN, archived : BOOLEAN]
Pinned == {c \in Convs : convs[c].pinned}

Init ==
  /\ TeamInit
  /\ convs = [c \in Convs |-> [status |-> "OPEN", agent |-> Nobody,
                               pinned |-> FALSE, archived |-> FALSE]]
  /\ crossed = {} /\ reopened = {}

(***************************************************************************)
(* assignConversation: the conversation, the assignee and its manager are  *)
(* read; the status is chosen from what was read.  actor is Nobody for the *)
(* owner and admins, who may assign to every active member; a manager may  *)
(* assign to its own agents and unassign within its team.                  *)
(***************************************************************************)
MayAssign(actor, c, u) ==
  \/ actor = Nobody
  \/ u # Nobody /\ users[u].role = "AGENT" /\ users[u].manager = actor
  \/ /\ u = Nobody
     /\ convs[c].agent \in {Nobody, actor} \cup {v \in Members : users[v].manager = actor}

AssignRead(r, actor, c, u) ==
  /\ u # Nobody => Active(u)
  /\ actor # Nobody => IsManager(actor)
  /\ MayAssign(actor, c, u)
  /\ Begin(r, [pc |-> "assign", conv |-> c, agent |-> u, was |-> convs[c]])
  /\ UNCHANGED <<membersVars, convVars>>

\* Fault: unassigning leaves the status alone.
NewStatus_NeverOpen(read, now, u) == IF u # Nobody /\ read = "OPEN" THEN "ASSIGNED" ELSE now

\* An OPEN conversation becomes ASSIGNED with somebody, an ASSIGNED one OPEN
\* with nobody; otherwise the status is left alone.
NewStatus(read, now, u) ==
  IF u # Nobody /\ read = "OPEN" THEN "ASSIGNED"
  ELSE IF u = Nobody /\ read = "ASSIGNED" THEN "OPEN" ELSE now
AssignWrite(r) ==
  /\ req[r].pc = "assign"
  /\ LET c == req[r].conv
         u == req[r].agent
         was == req[r].was
     IN /\ convs' = [convs EXCEPT ![c].agent = u,
                                  ![c].status = NewStatus(was.status, @, u)]
        /\ crossed' = IF convs[c].status # was.status \/ convs[c].agent # was.agent
                      THEN crossed \cup {c} ELSE crossed
        /\ reopened' = IF u = Nobody \/ was.status = "OPEN" THEN reopened \ {c} ELSE reopened
  /\ End(r)
  /\ UNCHANGED <<membersVars, asked>>

\* handleMessageReceived writes OPEN whatever the status was.
MessageReopens(c) ==
  /\ convs[c].status = "ASSIGNED"
  /\ convs' = [convs EXCEPT ![c].status = "OPEN"]
  /\ reopened' = reopened \cup {c}
  /\ UNCHANGED <<teamVars, crossed>>

(***************************************************************************)
(* pinConversation counts first and writes later; archiveConversation      *)
(* unpins what it read as pinned.  Unpinning and unarchiving write what    *)
(* they write whatever was read.                                           *)
(***************************************************************************)
\* Fault: the limit is compared the wrong way round.
PinRead_OneMore(r, c) ==
  /\ ~convs[c].pinned
  /\ Cardinality(Pinned) <= MaxPins
  /\ Begin(r, [pc |-> "pin", conv |-> c])
  /\ UNCHANGED <<membersVars, convVars>>

PinRead(r, c) ==
  /\ ~convs[c].pinned
  /\ Cardinality(Pinned) < MaxPins
  /\ Begin(r, [pc |-> "pin", conv |-> c])
  /\ UNCHANGED <<membersVars, convVars>>
PinWrite(r) ==
  /\ req[r].pc = "pin"
  /\ convs' = [convs EXCEPT ![req[r].conv].pinned = TRUE]
  /\ End(r)
  /\ UNCHANGED <<membersVars, asked, crossed, reopened>>

ArchiveRead(r, c) ==
  /\ ~convs[c].archived
  /\ Begin(r, [pc |-> "archive", conv |-> c, unpin |-> convs[c].pinned])
  /\ UNCHANGED <<membersVars, convVars>>
ArchiveWrite(r) ==
  /\ req[r].pc = "archive"
  /\ convs' = [convs EXCEPT ![req[r].conv].archived = TRUE,
                            ![req[r].conv].pinned = @ /\ ~req[r].unpin]
  /\ End(r)
  /\ UNCHANGED <<membersVars, asked, crossed, reopened>>

Unpin(c) ==
  /\ asked < MaxRequests /\ asked' = asked + 1
  /\ convs[c].pinned
  /\ convs' = [convs EXCEPT ![c].pinned = FALSE]
  /\ UNCHANGED <<membersVars, req, crossed, reopened>>
Unarchive(c) ==
  /\ asked < MaxRequests /\ asked' = asked + 1
  /\ convs[c].archived
  /\ convs' = [convs EXCEPT ![c].archived = FALSE]
  /\ UNCHANGED <<membersVars, req, crossed, reopened>>

ConvNext ==
  \/ \E r \in Requests :
       \/ \E c \in Convs : PinRead(r, c) \/ ArchiveRead(r, c)
       \/ \E c \in Convs, u, actor \in Members \cup {Nobody} : AssignRead(r, actor, c, u)
       \/ AssignWrite(r) \/ PinWrite(r) \/ ArchiveWrite(r)
  \/ \E c \in Convs : MessageReopens(c) \/ Unpin(c) \/ Unarchive(c)
Next == (TeamNext /\ UNCHANGED convVars) \/ ConvNext
Spec == Init /\ [][Next]_vars

(***************************************************************************)
(* Properties.                                                             *)
(***************************************************************************)
TypeOK ==
  /\ TeamTypeOK
  /\ convs \in [Convs -> ConvRow]
  /\ crossed \subseteq Convs /\ reopened \subseteq Convs

\* pinConversation: the limit may be passed by as many conversations as there
\* were other pins under way, and no more.
PinsBounded == Cardinality(Pinned) <= MaxPins - 1 + Slots

\* assignConversation: ASSIGNED means that somebody has the conversation, and
\* who has one shows as ASSIGNED until a message reopens it, unless two
\* assignments (or an assignment and a message) crossed.
AssignmentIsShown ==
  \A c \in Convs \ crossed :
    /\ convs[c].status = "ASSIGNED" => convs[c].agent # Nobody
    /\ convs[c].agent # Nobody => convs[c].status = "ASSIGNED" \/ c \in reopened

\* What LinksHold, PinsBounded and AssignmentIsShown promise without their
\* exceptions.  The handlers keep it where a tenant's requests come one after
\* the other, even if some break off half way and messages come in between.
NoExceptions ==
  /\ \A u \in Members : LET m == users[u].manager IN
       m # Nobody /\ Active(u) => users[u].role = "AGENT" /\ IsManager(m)
  /\ Cardinality(Pinned) <= MaxPins
  /\ \A c \in Convs :
       /\ convs[c].status = "ASSIGNED" => convs[c].agent # Nobody
       /\ convs[c].agent # Nobody => convs[c].status = "ASSIGNED" \/ c \in reopened
=============================================================================
