-------------------------- MODULE Conversations_proofs ----------------------
(***************************************************************************)
(* What holds of Team and Conversations for any number of members,         *)
(* conversations, requests and pins.                                       *)
(***************************************************************************)
EXTENDS Conversations, FiniteSetTheorems, TLAPS

\* What a request may have in hand.
SeenRows == UNION {[S -> UserRow] : S \in SUBSET Members}
Token == [slot : Requests, no : 0 .. MaxRequests, user : Members]
RoleRequests == [pc : {"role"}, user : Members, role : Roles, seen : SeenRows]
LinkRequests == [pc : {"manager"}, user : Members, manager : Members \cup {Nobody}, seen : SeenRows]
RemoveRequests == [pc : {"unassign", "remove", "tokens"}, user : Members, seen : SeenRows]
InviteRequests == [pc : {"invite", "clear", "accept"}, user : Members, no : 0 .. MaxRequests]
RegisterRequests == [pc : {"register"}, user : Members]
LoginRequests == [pc : {"token"}, user : Members, new : {1}]
RefreshRequests == [pc : {"rotate", "token"}, user : Members, token : Token, new : {0}]
AssignRequests == [pc : {"assign"}, conv : Convs, agent : Members \cup {Nobody}, was : ConvRow]
PinRequests == [pc : {"pin"}, conv : Convs]
ArchiveRequests == [pc : {"archive"}, conv : Convs, unpin : BOOLEAN]
Request == {Idle} \cup RoleRequests \cup LinkRequests \cup RemoveRequests \cup InviteRequests
           \cup RegisterRequests \cup LoginRequests \cup RefreshRequests
           \cup AssignRequests \cup PinRequests \cup ArchiveRequests

TypeInv == TypeOK /\ req \in [Requests -> Request]

-----------------------------------------------------------------------------
(* What a request is, and what it has seen.                                *)

\* The step a request is at tells what it has in hand.
LEMMA Kinds ==
  ASSUME NEW q \in Request
  PROVE  /\ q.pc = "role" => q \in RoleRequests
         /\ q.pc = "manager" => q \in LinkRequests
         /\ q.pc \in {"unassign", "remove", "tokens"} => q \in RemoveRequests
         /\ q.pc \in {"invite", "clear", "accept"} => q \in InviteRequests
         /\ q.pc = "register" => q \in RegisterRequests
         /\ q.pc = "rotate" => q \in RefreshRequests
         /\ q.pc = "token" => q \in LoginRequests \cup RefreshRequests
         /\ q.pc = "assign" => q \in AssignRequests
         /\ q.pc = "pin" => q \in PinRequests
         /\ q.pc = "archive" => q \in ArchiveRequests
  BY DEF Request, Idle, RoleRequests, LinkRequests, RemoveRequests, InviteRequests,
         RegisterRequests, LoginRequests, RefreshRequests, AssignRequests, PinRequests, ArchiveRequests

LEMMA SeenIsRows ==
  ASSUME users \in [Members -> UserRow], NEW S, S \subseteq Members
  PROVE  Seen(S) \in SeenRows /\ DOMAIN Seen(S) = S /\ \A u \in S : Seen(S)[u] = users[u]
<1>1. Seen(S) \in [S -> UserRow] BY DEF Seen
<1> QED BY <1>1 DEF Seen, SeenRows

\* Registering: the row that was not there is made, and a token follows; or
\* nothing.
LEMMA Registers ==
  ASSUME TypeInv, NEW r \in Requests, RegisterWrite(r)
  PROVE  LET u == req[r].user
             admin == [role |-> "ADMIN", manager |-> Nobody, state |-> "active"]
         IN /\ u \in Members /\ req[r].pc = "register"
            /\ \/ UNCHANGED users /\ req' = [req EXCEPT ![r] = Idle]
               \/ /\ users[u].state = "none" /\ users' = [users EXCEPT ![u] = admin]
                  /\ req' = [req EXCEPT ![r] = [pc |-> "token", user |-> u, new |-> 1]]
            /\ req'[r].pc \in {"idle", "token"} /\ \A q \in Requests : q # r => req'[q] = req[q]
<1>1. req[r] \in RegisterRequests /\ req \in [Requests -> Request]
  BY Kinds DEF RegisterWrite, TypeInv
<1> QED BY <1>1 DEF RegisterWrite, RegisterRequests, End, Idle

LEMMA SeenMembers == ASSUME NEW s \in SeenRows PROVE DOMAIN s \subseteq Members
  BY DEF SeenRows

\* Rows with a column changed.
LEMMA LinkedIsRow ==
  ASSUME NEW x \in UserRow, NEW m \in Members \cup {Nobody}
  PROVE  [x EXCEPT !.manager = m] \in UserRow
  BY DEF UserRow
LEMMA RemovedIsRow == ASSUME NEW x \in UserRow PROVE [x EXCEPT !.state = "removed"] \in UserRow
  BY DEF UserRow
LEMMA InviteIsRow ==
  ASSUME NEW x \in InviteRow, NEW st \in {"none", "open", "expired", "accepted"}
  PROVE  [x EXCEPT !.state = st] \in InviteRow
  BY DEF InviteRow
LEMMA AssignedIsRow ==
  ASSUME NEW x \in ConvRow, NEW u \in Members \cup {Nobody}, NEW st \in {"OPEN", "ASSIGNED"}
  PROVE  [x EXCEPT !.agent = u, !.status = st] \in ConvRow
  BY DEF ConvRow
LEMMA PinnedIsRow ==
  ASSUME NEW x \in ConvRow, NEW b \in BOOLEAN
  PROVE  [x EXCEPT !.pinned = b] \in ConvRow
  BY DEF ConvRow
LEMMA ArchivedIsRow ==
  ASSUME NEW x \in ConvRow, NEW b \in BOOLEAN
  PROVE  [x EXCEPT !.archived = TRUE, !.pinned = @ /\ ~b] \in ConvRow
<1> DEFINE p == x.pinned /\ ~b
<1>1. p \in BOOLEAN BY Zenon
<1> HIDE DEF p
<1>2. [x EXCEPT !.archived = TRUE, !.pinned = p] \in ConvRow BY <1>1 DEF ConvRow
<1> QED BY <1>2 DEF p

-----------------------------------------------------------------------------
(* Types.                                                                  *)

\* Every step keeps the types.
LEMMA TypeStep == TypeInv /\ [Next]_vars => TypeInv'
<1> DEFINE Goal == TypeInv
<1> SUFFICES ASSUME TypeInv, [Next]_vars PROVE Goal'
  OBVIOUS
<1> USE TeamAssumption, ConvAssumption DEF TypeInv, TypeOK, TeamTypeOK, Requests, Roles,
convVars
<1>1. ASSUME NEW r \in Requests, NEW u \in Members, NEW role \in Roles, RoleRead(r, u, role),
             UNCHANGED convVars
      PROVE  Goal'
  <2>1. users \in [Members -> UserRow] OBVIOUS
  <2>2. req' \in [Requests -> Request]
    BY <1>1, <2>1, SeenIsRows DEF RoleRead, Begin, Active, IsManager, RoleRequests, Request
  <2>3. asked' \in 0 .. MaxRequests BY <1>1 DEF RoleRead, Begin
  <2> QED BY <1>1, <2>2, <2>3 DEF RoleRead
<1>2. ASSUME NEW r \in Requests, NEW u \in Members, NEW m \in Members \cup {Nobody},
             ManagerRead(r, u, m), UNCHANGED convVars
      PROVE  Goal'
  <2>1. users \in [Members -> UserRow] OBVIOUS
  <2> DEFINE task == [pc |-> "manager", user |-> u, manager |-> m,
                      seen |-> Seen({u, m} \ {Nobody})]
  <2>4. task \in Request
    <3>1. {u, m} \ {Nobody} \subseteq Members OBVIOUS
    <3> QED BY <2>1, <3>1, SeenIsRows DEF LinkRequests, Request
  <2>5. req' = [req EXCEPT ![r] = task] BY <1>2 DEF ManagerRead, Begin
  <2>2. req' \in [Requests -> Request]
    <3> HIDE DEF task
    <3> QED BY <2>4, <2>5
  <2>3. asked' \in 0 .. MaxRequests BY <1>2 DEF ManagerRead, Begin
  <2> QED BY <1>2, <2>2, <2>3 DEF ManagerRead
<1>3. ASSUME NEW r \in Requests, NEW u \in Members, RemoveRead(r, u), UNCHANGED convVars
      PROVE  Goal'
  <2>1. users \in [Members -> UserRow] OBVIOUS
  <2>2. req' \in [Requests -> Request]
    BY <1>3, <2>1, SeenIsRows DEF RemoveRead, Begin, Active, IsManager, RemoveRequests, Request
  <2>3. asked' \in 0 .. MaxRequests BY <1>3 DEF RemoveRead, Begin
  <2> QED BY <1>3, <2>2, <2>3 DEF RemoveRead
<1>4. ASSUME NEW r \in Requests, NEW u \in Members, InviteRead(r, u), UNCHANGED convVars
      PROVE  Goal'
  <2>1. req' \in [Requests -> Request]
    BY <1>4 DEF InviteRead, Begin, InviteRequests, InviteRow, Request
  <2>2. asked' \in 0 .. MaxRequests BY <1>4 DEF InviteRead, Begin
  <2> QED BY <1>4, <2>1, <2>2 DEF InviteRead
<1>5. ASSUME NEW r \in Requests, NEW u \in Members, AcceptRead(r, u), UNCHANGED convVars
      PROVE  Goal'
  <2>1. req' \in [Requests -> Request]
    BY <1>5 DEF AcceptRead, Begin, InviteRequests, InviteRow, Request
  <2>2. asked' \in 0 .. MaxRequests BY <1>5 DEF AcceptRead, Begin
  <2> QED BY <1>5, <2>1, <2>2 DEF AcceptRead
<1>6. ASSUME NEW r \in Requests, NEW u \in Members, LoginRead(r, u), UNCHANGED convVars
      PROVE  Goal'
  <2>1. req' \in [Requests -> Request] BY <1>6 DEF LoginRead, Begin, LoginRequests, Request
  <2>2. asked' \in 0 .. MaxRequests BY <1>6 DEF LoginRead, Begin
  <2> QED BY <1>6, <2>1, <2>2 DEF LoginRead
<1>7. ASSUME NEW r \in Requests, NEW t \in tokens, RefreshRead(r, t), UNCHANGED convVars
      PROVE  Goal'
  <2>1. req' \in [Requests -> Request]
    BY <1>7 DEF RefreshRead, Begin, RefreshRequests, Token, Request
  <2>2. asked' \in 0 .. MaxRequests BY <1>7 DEF RefreshRead, Begin
  <2> QED BY <1>7, <2>1, <2>2 DEF RefreshRead
<1>8. ASSUME NEW r \in Requests, RoleWrite(r), UNCHANGED convVars
      PROVE  Goal'
  <2>1. req[r] \in RoleRequests BY <1>8, Kinds DEF RoleWrite
  <2>2. users' \in [Members -> UserRow] BY <1>8, <2>1 DEF RoleWrite, RoleRequests, UserRow
  <2>3. torn' \subseteq Members BY <1>8, <2>1, SeenMembers DEF RoleWrite, RoleRequests, TornBy
  <2>4. req' \in [Requests -> Request] BY <1>8, <2>1 DEF RoleWrite, End, Request
  <2> QED BY <1>8, <2>2, <2>3, <2>4 DEF RoleWrite
<1>9. ASSUME NEW r \in Requests, ManagerWrite(r), UNCHANGED convVars
      PROVE  Goal'
  <2>1. req[r] \in LinkRequests BY <1>9, Kinds DEF ManagerWrite
  <2>2. users' \in [Members -> UserRow]
    BY <1>9, <2>1, LinkedIsRow DEF ManagerWrite, LinkRequests
  <2>3. torn' \subseteq Members BY <1>9, <2>1, SeenMembers DEF ManagerWrite, LinkRequests
  <2>4. req' \in [Requests -> Request] BY <1>9, <2>1 DEF ManagerWrite, End, Request
  <2> QED BY <1>9, <2>2, <2>3, <2>4 DEF ManagerWrite
<1>10. ASSUME NEW r \in Requests, RemoveUnassign(r), UNCHANGED convVars
      PROVE  Goal'
  <2>1. req[r] \in RemoveRequests BY <1>10, Kinds DEF RemoveUnassign
  <2>2. users' \in [Members -> UserRow] BY ZenonT(60), <1>10, <2>1 DEF RemoveUnassign, UserRow
  <2>3. req' \in [Requests -> Request]
    BY <1>10, <2>1 DEF RemoveUnassign, Goto, RemoveRequests, Request
  <2> QED BY <1>10, <2>2, <2>3 DEF RemoveUnassign
<1>11. ASSUME NEW r \in Requests, RemoveUser(r), UNCHANGED convVars
      PROVE  Goal'
  <2>1. req[r] \in RemoveRequests BY <1>11, Kinds DEF RemoveUser
  <2>2. users' \in [Members -> UserRow]
    BY <1>11, <2>1, RemovedIsRow DEF RemoveUser, RemoveRequests
  <2>3. torn' \subseteq Members
    BY <1>11, <2>1, SeenMembers DEF RemoveUser, RemoveRequests, TornBy
  <2>4. req' \in [Requests -> Request]
    BY <1>11, <2>1 DEF RemoveUser, Goto, RemoveRequests, Request
  <2> QED BY <1>11, <2>2, <2>3, <2>4 DEF RemoveUser
<1>12. ASSUME NEW r \in Requests, RemoveTokens(r), UNCHANGED convVars
      PROVE  Goal'
  BY <1>12 DEF RemoveTokens, End, Request
<1>13. ASSUME NEW r \in Requests, InviteClear(r), UNCHANGED convVars
      PROVE  Goal'
  <2> DEFINE u == req[r].user
  <2>1. req[r] \in InviteRequests BY <1>13, Kinds DEF InviteClear
  <2>2. u \in Members BY <2>1 DEF InviteRequests
  <2>3. NoInvite \in InviteRow BY DEF NoInvite, InviteRow
  <2>4. [req[r] EXCEPT !.pc = "invite"] \in Request /\ Idle \in Request
    BY <2>1 DEF InviteRequests, Request
  <2>5. CASE invites[u].no = req[r].no
    <3>1. invites' = [invites EXCEPT ![u] = NoInvite] /\ Goto(r, "invite")
      BY <1>13, <2>5 DEF InviteClear
    <3>2. invites' \in [Members -> InviteRow] BY <3>1, <2>2, <2>3
    <3>3. req' \in [Requests -> Request] BY <3>1, <2>4 DEF Goto
    <3> QED BY <1>13, <3>2, <3>3 DEF InviteClear
  <2>6. CASE invites[u].no # req[r].no
    <3>1. UNCHANGED invites /\ End(r) BY <1>13, <2>6 DEF InviteClear
    <3>2. req' \in [Requests -> Request] BY <3>1, <2>4 DEF End
    <3> QED BY <1>13, <3>1, <3>2 DEF InviteClear
  <2> QED BY <2>5, <2>6
<1>14. ASSUME NEW r \in Requests, InviteCreate(r), UNCHANGED convVars
      PROVE  Goal'
  <2>1. req[r] \in InviteRequests BY <1>14, Kinds DEF InviteCreate
  <2>2. invites' \in [Members -> InviteRow]
    BY <1>14, <2>1 DEF InviteCreate, InviteRequests, InviteRow
  <2>3. req' \in [Requests -> Request] BY <1>14, <2>1 DEF InviteCreate, End, Request
  <2> QED BY <1>14, <2>2, <2>3 DEF InviteCreate
<1>15. ASSUME NEW r \in Requests, NEW role \in Roles, AcceptWrite(r, role), UNCHANGED convVars
      PROVE  Goal'
  <2> DEFINE u == req[r].user
             joined == [role |-> role, manager |-> Nobody, state |-> "active"]
             used == [invites[u] EXCEPT !.state = "accepted"]
  <2>1. req[r] \in InviteRequests BY <1>15, Kinds DEF AcceptWrite
  <2>2. u \in Members BY <2>1 DEF InviteRequests
  <2>3. joined \in UserRow BY DEF UserRow
  <2>4. used \in InviteRow BY <2>2, InviteIsRow
  <2>5. NewToken(r, u) \in Token BY <2>2 DEF NewToken, Token
  <2>6. req' \in [Requests -> Request] BY <1>15 DEF AcceptWrite, End, Request
  <2>7. CASE users[u].state = "none" /\ invites[u].no = req[r].no
    <3>1. /\ users' = [users EXCEPT ![u] = joined] /\ invites' = [invites EXCEPT ![u] = used]
          /\ tokens' = tokens \cup {NewToken(r, u)} /\ signins' = [signins EXCEPT ![u] = @ + 1]
      BY <1>15, <2>7 DEF AcceptWrite
    <3> HIDE DEF joined, used, u
    <3>2. users' \in [Members -> UserRow] BY <3>1, <2>2, <2>3
    <3>3. invites' \in [Members -> InviteRow] BY <3>1, <2>2, <2>4
    <3>4. tokens' \subseteq Token BY <3>1, <2>5 DEF Token
    <3>5. signins' \in [Members -> Nat] BY <3>1, <2>2
    <3> QED BY <1>15, <2>6, <3>2, <3>3, <3>4, <3>5 DEF AcceptWrite, Token
  <2>8. CASE ~(users[u].state = "none" /\ invites[u].no = req[r].no)
    <3>1. UNCHANGED <<users, invites, tokens, signins>> BY <1>15, <2>8 DEF AcceptWrite
    <3> QED BY <1>15, <2>6, <3>1 DEF AcceptWrite
  <2> QED BY <2>7, <2>8
<1>16. ASSUME NEW r \in Requests, RefreshDelete(r), UNCHANGED convVars
      PROVE  Goal'
  <2>1. req[r] \in RefreshRequests BY <1>16, Kinds DEF RefreshDelete
  <2>2. [req[r] EXCEPT !.pc = "token"] \in Request /\ Idle \in Request
    BY <2>1 DEF RefreshRequests, Request
  <2>3. End(r) \/ Goto(r, "token") BY <1>16 DEF RefreshDelete
  <2>4. req' \in [Requests -> Request] BY <2>2, <2>3 DEF End, Goto
  <2>5. tokens' \subseteq tokens BY <1>16 DEF RefreshDelete
  <2> QED BY <1>16, <2>4, <2>5 DEF RefreshDelete
<1>17. ASSUME NEW r \in Requests, CreateToken(r), UNCHANGED convVars
      PROVE  Goal'
  <2>1. req[r] \in LoginRequests \cup RefreshRequests BY <1>17, Kinds DEF CreateToken
  <2>2. tokens' \subseteq Token
    BY <1>17, <2>1 DEF CreateToken, LoginRequests, RefreshRequests, NewToken, Token
  <2>3. signins' \in [Members -> Nat]
    BY <1>17, <2>1 DEF CreateToken, LoginRequests, RefreshRequests
  <2>4. late' \subseteq Members BY <1>17, <2>1 DEF CreateToken, LoginRequests, RefreshRequests
  <2>5. req' \in [Requests -> Request] BY <1>17, <2>1 DEF CreateToken, End, Request
  <2> QED BY <1>17, <2>2, <2>3, <2>4, <2>5 DEF CreateToken, Token
<1>18. ASSUME NEW r \in Requests, RequestLost(r), UNCHANGED convVars
      PROVE  Goal'
  <2>1. req[r].pc = "tokens" => req[r] \in RemoveRequests BY Kinds
  <2> QED BY <1>18, <2>1 DEF RequestLost, End, RemoveRequests, Request
<1>19. ASSUME NEW u \in Members, ResendInvite(u), UNCHANGED convVars
      PROVE  Goal'
  <2>1. invites' \in [Members -> InviteRow] BY <1>19, InviteIsRow DEF ResendInvite
  <2>2. asked' \in 0 .. MaxRequests BY <1>19 DEF ResendInvite
  <2> QED BY <1>19, <2>1, <2>2 DEF ResendInvite
<1>20. ASSUME NEW u \in Members, RevokeInvite(u), UNCHANGED convVars
      PROVE  Goal'
  BY <1>20 DEF RevokeInvite, InviteRow, NoInvite
<1>21. ASSUME NEW u \in Members, InviteExpires(u), UNCHANGED convVars
      PROVE  Goal'
  BY <1>21 DEF InviteExpires, InviteRow
<1>22. ASSUME NEW t \in tokens, Logout(t), UNCHANGED convVars
      PROVE  Goal'
  BY <1>22 DEF Logout
<1>23. ASSUME NEW r \in Requests, NEW c \in Convs, PinRead(r, c)
      PROVE  Goal'
  <2>1. req' \in [Requests -> Request] BY <1>23 DEF PinRead, Begin, PinRequests, Request
  <2>2. asked' \in 0 .. MaxRequests BY <1>23 DEF PinRead, Begin
  <2> QED BY <1>23, <2>1, <2>2 DEF PinRead, membersVars, convVars
<1>24. ASSUME NEW r \in Requests, NEW c \in Convs, ArchiveRead(r, c)
      PROVE  Goal'
  <2>1. convs[c].pinned \in BOOLEAN BY DEF ConvRow
  <2>2. req' \in [Requests -> Request]
    BY <1>24, <2>1 DEF ArchiveRead, Begin, ArchiveRequests, Request
  <2>3. asked' \in 0 .. MaxRequests BY <1>24 DEF ArchiveRead, Begin
  <2> QED BY <1>24, <2>2, <2>3 DEF ArchiveRead, membersVars, convVars
<1>25. ASSUME NEW r \in Requests, NEW c \in Convs, NEW u \in Members \cup {Nobody},
              NEW actor \in Members \cup {Nobody}, AssignRead(r, actor, c, u)
      PROVE  Goal'
  <2>1. req' \in [Requests -> Request] BY <1>25 DEF AssignRead, Begin, AssignRequests, Request
  <2>2. asked' \in 0 .. MaxRequests BY <1>25 DEF AssignRead, Begin
  <2> QED BY <1>25, <2>1, <2>2 DEF AssignRead, membersVars, convVars
<1>26. ASSUME NEW r \in Requests, AssignWrite(r)
      PROVE  Goal'
  <2> DEFINE c == req[r].conv
             u == req[r].agent
             st == NewStatus(req[r].was.status, convs[c].status, u)
             x == [convs[c] EXCEPT !.agent = u, !.status = st]
  <2>1. req[r] \in AssignRequests BY <1>26, Kinds DEF AssignWrite
  <2>2. c \in Convs /\ u \in Members \cup {Nobody} BY <2>1 DEF AssignRequests
  <2>3. st \in {"OPEN", "ASSIGNED"} BY <2>2 DEF NewStatus, ConvRow
  <2>4. x \in ConvRow
    <3> HIDE DEF c, u, st
    <3> QED BY <2>2, <2>3, AssignedIsRow
  <2>5. convs' = [convs EXCEPT ![c] = x] BY <1>26, <2>2 DEF AssignWrite
  <2>6. convs' \in [Convs -> ConvRow]
    <3> HIDE DEF c, x
    <3> QED BY <2>4, <2>5
  <2>7. crossed' \subseteq Convs /\ reopened' \subseteq Convs
    BY <1>26, <2>1 DEF AssignWrite, AssignRequests
  <2>8. req' \in [Requests -> Request] BY <1>26 DEF AssignWrite, End, Request
  <2> QED BY <1>26, <2>6, <2>7, <2>8 DEF AssignWrite, membersVars
<1>27. ASSUME NEW r \in Requests, PinWrite(r)
      PROVE  Goal'
  <2>1. req[r] \in PinRequests BY <1>27, Kinds DEF PinWrite
  <2>2. convs' \in [Convs -> ConvRow] BY <1>27, <2>1, PinnedIsRow DEF PinWrite, PinRequests
  <2>4. req' \in [Requests -> Request] BY <1>27 DEF PinWrite, End, Request
  <2> QED BY <1>27, <2>2, <2>4 DEF PinWrite, membersVars
<1>28. ASSUME NEW r \in Requests, ArchiveWrite(r)
      PROVE  Goal'
  <2>1. req[r] \in ArchiveRequests BY <1>28, Kinds DEF ArchiveWrite
  <2> DEFINE c == req[r].conv
             b == req[r].unpin
  <2>2. c \in Convs /\ b \in BOOLEAN BY <2>1 DEF ArchiveRequests
  <2>3. convs' = [convs EXCEPT ![c] = [convs[c] EXCEPT !.archived = TRUE, !.pinned = @ /\ ~b]]
    BY <1>28, <2>2 DEF ArchiveWrite
  <2>4. [convs[c] EXCEPT !.archived = TRUE, !.pinned = @ /\ ~b] \in ConvRow
    <3> HIDE DEF c, b
    <3> QED BY <2>2, ArchivedIsRow
  <2>5. convs' \in [Convs -> ConvRow]
    <3> DEFINE x == [convs[c] EXCEPT !.archived = TRUE, !.pinned = @ /\ ~b]
    <3>1. x \in ConvRow BY <2>4
    <3>2. convs' = [convs EXCEPT ![c] = x] BY <2>3
    <3> HIDE DEF x, c, b
    <3> QED BY <3>1, <3>2
  <2>6. req' \in [Requests -> Request] BY <1>28 DEF ArchiveWrite, End, Request
  <2> QED BY <1>28, <2>5, <2>6 DEF ArchiveWrite, membersVars
<1>29. ASSUME NEW c \in Convs, MessageReopens(c)
      PROVE  Goal'
  BY ZenonT(60), <1>29 DEF MessageReopens, teamVars, ConvRow
<1>30. ASSUME NEW c \in Convs, Unpin(c)
      PROVE  Goal'
  <2>1. convs' \in [Convs -> ConvRow] BY <1>30, PinnedIsRow DEF Unpin
  <2>2. asked' \in 0 .. MaxRequests BY <1>30 DEF Unpin
  <2> QED BY <1>30, <2>1, <2>2 DEF Unpin, membersVars
<1>31. ASSUME NEW c \in Convs, Unarchive(c)
      PROVE  Goal'
  <2>1. convs' \in [Convs -> ConvRow] BY ZenonT(60), <1>31 DEF Unarchive, ConvRow
  <2>2. asked' \in 0 .. MaxRequests BY <1>31 DEF Unarchive
  <2> QED BY <1>31, <2>1, <2>2 DEF Unarchive, membersVars
<1>33. ASSUME NEW r \in Requests, NEW u \in Members, RegisterRead(r, u), UNCHANGED convVars
      PROVE  Goal'
  <2>1. req' \in [Requests -> Request]
    BY <1>33 DEF RegisterRead, Begin, RegisterRequests, Request
  <2>2. asked' \in 0 .. MaxRequests BY <1>33 DEF RegisterRead, Begin
  <2> QED BY <1>33, <2>1, <2>2 DEF RegisterRead
<1>34. ASSUME NEW r \in Requests, RegisterWrite(r), UNCHANGED convVars
      PROVE  Goal'
  <2> DEFINE u == req[r].user
             admin == [role |-> "ADMIN", manager |-> Nobody, state |-> "active"]
             next == [pc |-> "token", user |-> u, new |-> 1]
  <2>1. /\ u \in Members
        /\ \/ UNCHANGED users /\ req' = [req EXCEPT ![r] = Idle]
           \/ users' = [users EXCEPT ![u] = admin] /\ req' = [req EXCEPT ![r] = next]
    BY <1>34, Registers
  <2>2. admin \in UserRow /\ next \in Request /\ Idle \in Request
    BY <2>1 DEF UserRow, LoginRequests, Request
  <2>3. users' \in [Members -> UserRow] /\ req' \in [Requests -> Request]
    <3>1. users \in [Members -> UserRow] /\ req \in [Requests -> Request] OBVIOUS
    <3> HIDE DEF u, admin, next, TypeInv
    <3>2. users' \in [Members -> UserRow] BY <2>1, <2>2, <3>1
    <3>3. req' \in [Requests -> Request] BY <2>1, <2>2, <3>1
    <3> QED BY <3>2, <3>3
  <2> QED BY <1>34, <2>3 DEF RegisterWrite
<1>32. CASE UNCHANGED vars
  BY <1>32 DEF vars, teamVars, convVars
<1> QED BY SMTT(60), <1>1, <1>2, <1>3, <1>4, <1>5, <1>6, <1>7, <1>8, <1>9, <1>10, <1>11, <1>12,
           <1>13, <1>14, <1>15, <1>16, <1>17, <1>18, <1>19, <1>20, <1>21, <1>22, <1>23, <1>24,
           <1>25, <1>26, <1>27, <1>28, <1>29, <1>30, <1>31, <1>32,
           <1>33, <1>34
           DEF Next, TeamNext, TeamBegin, TeamGoOn, ConvNext, TokensOf

-----------------------------------------------------------------------------
(* Members: who is removed, who joins, and who reports to whom.            *)

\* A removal signs its member out, and what overlaps it is known to be late.
LEMMA SignedOutStep == TypeInv /\ RemovedIsSignedOut /\ [Next]_vars => RemovedIsSignedOut'
<1> DEFINE Goal == RemovedIsSignedOut
<1> SUFFICES ASSUME TypeInv /\ RemovedIsSignedOut, [Next]_vars PROVE Goal'
  OBVIOUS
<1> USE DEF TypeInv, TypeOK, TeamTypeOK, RemovedIsSignedOut, TokensOf, Idle, convVars,
membersVars
<1>1. ASSUME NEW r \in Requests, NEW u \in Members, NEW role \in Roles, RoleRead(r, u, role),
             UNCHANGED convVars
      PROVE  Goal'
  BY <1>1 DEF RoleRead, Begin, Seen, Active
<1>2. ASSUME NEW r \in Requests, NEW u \in Members, NEW m \in Members \cup {Nobody},
             ManagerRead(r, u, m), UNCHANGED convVars
      PROVE  Goal'
  BY <1>2 DEF ManagerRead, Begin, Seen, Active, IsManager
<1>3. ASSUME NEW r \in Requests, NEW u \in Members, RemoveRead(r, u), UNCHANGED convVars
      PROVE  Goal'
  BY <1>3 DEF RemoveRead, Begin, Seen, Active
<1>4. ASSUME NEW r \in Requests, NEW u \in Members, InviteRead(r, u), UNCHANGED convVars
      PROVE  Goal'
  BY <1>4 DEF InviteRead, Begin, Active
<1>5. ASSUME NEW r \in Requests, NEW u \in Members, AcceptRead(r, u), UNCHANGED convVars
      PROVE  Goal'
  BY <1>5 DEF AcceptRead, Begin
<1>6. ASSUME NEW r \in Requests, NEW u \in Members, LoginRead(r, u), UNCHANGED convVars
      PROVE  Goal'
  BY <1>6 DEF LoginRead, Begin, Active
<1>7. ASSUME NEW r \in Requests, NEW t \in tokens, RefreshRead(r, t), UNCHANGED convVars
      PROVE  Goal'
  BY <1>7 DEF RefreshRead, Begin
<1>8. ASSUME NEW r \in Requests, RoleWrite(r), UNCHANGED convVars
      PROVE  Goal'
  BY <1>8 DEF RoleWrite, TornBy, End, Stale
<1>9. ASSUME NEW r \in Requests, ManagerWrite(r), UNCHANGED convVars
      PROVE  Goal'
  BY <1>9 DEF ManagerWrite, End, Stale, Leaving
<1>10. ASSUME NEW r \in Requests, RemoveUnassign(r), UNCHANGED convVars
      PROVE  Goal'
  BY <1>10 DEF RemoveUnassign, Goto
<1>11. ASSUME NEW r \in Requests, RemoveUser(r), UNCHANGED convVars
      PROVE  Goal'
  <2>1. req'[r].pc = "tokens" /\ req'[r].user = req[r].user
    BY <1>11 DEF RemoveUser, Goto, Requests
  <2>2. \A q \in Requests : q # r => req'[q] = req[q] BY <1>11 DEF RemoveUser, Goto
  <2>3. \A v \in Members : v # req[r].user => users'[v] = users[v] BY <1>11 DEF RemoveUser
  <2>4. \A q \in Requests : req[q].pc = "tokens" => req'[q].pc = "tokens" /\ req'[q].user = req[q].user
    BY <1>11, <2>2 DEF RemoveUser
  <2> QED BY <1>11, <2>1, <2>3, <2>4 DEF RemoveUser
<1>12. ASSUME NEW r \in Requests, RemoveTokens(r), UNCHANGED convVars
      PROVE  Goal'
  BY <1>12 DEF RemoveTokens, End, TokensOf
<1>13. ASSUME NEW r \in Requests, InviteClear(r), UNCHANGED convVars
      PROVE  Goal'
  BY <1>13 DEF InviteClear, End, Goto, NoInvite
<1>14. ASSUME NEW r \in Requests, InviteCreate(r), UNCHANGED convVars
      PROVE  Goal'
  BY <1>14 DEF InviteCreate, End
<1>15. ASSUME NEW r \in Requests, NEW role \in Roles, AcceptWrite(r, role), UNCHANGED convVars
      PROVE  Goal'
  BY <1>15 DEF AcceptWrite, End, NewToken
<1>16. ASSUME NEW r \in Requests, RefreshDelete(r), UNCHANGED convVars
      PROVE  Goal'
  BY <1>16 DEF RefreshDelete, End, Goto
<1>17. ASSUME NEW r \in Requests, CreateToken(r), UNCHANGED convVars
      PROVE  Goal'
  BY <1>17 DEF CreateToken, End, NewToken, Active
<1>18. ASSUME NEW r \in Requests, RequestLost(r), UNCHANGED convVars
      PROVE  Goal'
  BY <1>18 DEF RequestLost, End
<1>19. ASSUME NEW u \in Members, ResendInvite(u), UNCHANGED convVars
      PROVE  Goal'
  BY <1>19 DEF ResendInvite
<1>20. ASSUME NEW u \in Members, RevokeInvite(u), UNCHANGED convVars
      PROVE  Goal'
  BY <1>20 DEF RevokeInvite, NoInvite
<1>21. ASSUME NEW u \in Members, InviteExpires(u), UNCHANGED convVars
      PROVE  Goal'
  BY <1>21 DEF InviteExpires
<1>22. ASSUME NEW t \in tokens, Logout(t), UNCHANGED convVars
      PROVE  Goal'
  BY <1>22 DEF Logout
<1>23. ASSUME NEW r \in Requests, NEW c \in Convs, PinRead(r, c)
      PROVE  Goal'
  BY <1>23 DEF PinRead, Begin
<1>24. ASSUME NEW r \in Requests, NEW c \in Convs, ArchiveRead(r, c)
      PROVE  Goal'
  BY <1>24 DEF ArchiveRead, Begin
<1>25. ASSUME NEW r \in Requests, NEW c \in Convs, NEW u \in Members \cup {Nobody},
              NEW actor \in Members \cup {Nobody}, AssignRead(r, actor, c, u)
      PROVE  Goal'
  BY <1>25 DEF AssignRead, Begin
<1>26. ASSUME NEW r \in Requests, AssignWrite(r)
      PROVE  Goal'
  BY <1>26 DEF AssignWrite, End, NewStatus
<1>27. ASSUME NEW r \in Requests, PinWrite(r)
      PROVE  Goal'
  BY <1>27 DEF PinWrite, End
<1>28. ASSUME NEW r \in Requests, ArchiveWrite(r)
      PROVE  Goal'
  BY <1>28 DEF ArchiveWrite, End
<1>29. ASSUME NEW c \in Convs, MessageReopens(c)
      PROVE  Goal'
  BY <1>29 DEF MessageReopens, teamVars
<1>30. ASSUME NEW c \in Convs, Unpin(c)
      PROVE  Goal'
  BY <1>30 DEF Unpin
<1>31. ASSUME NEW c \in Convs, Unarchive(c)
      PROVE  Goal'
  BY <1>31 DEF Unarchive
<1>33. ASSUME NEW r \in Requests, NEW u \in Members, RegisterRead(r, u), UNCHANGED convVars
      PROVE  Goal'
  BY <1>33 DEF RegisterRead, Begin
<1>34. ASSUME NEW r \in Requests, RegisterWrite(r), UNCHANGED convVars
      PROVE  Goal'
  <2>1. /\ \A v \in Members : users'[v].state = "removed" => users[v].state = "removed"
        /\ UNCHANGED <<tokens, late>>
    BY <1>34, Registers DEF RegisterWrite
  <2>2. \A q \in Requests : req[q].pc = "tokens" => req'[q] = req[q]
    BY <1>34, Registers
  <2> QED BY <2>1, <2>2
<1>32. CASE UNCHANGED vars
  BY <1>32 DEF vars, teamVars, convVars
<1> QED BY <1>1, <1>2, <1>3, <1>4, <1>5, <1>6, <1>7, <1>8, <1>9, <1>10, <1>11, <1>12,
           <1>13, <1>14, <1>15, <1>16, <1>17, <1>18, <1>19, <1>20, <1>21, <1>22, <1>23, <1>24,
           <1>25, <1>26, <1>27, <1>28, <1>29, <1>30, <1>31, <1>32,
           <1>33, <1>34
           DEF Next, TeamNext, TeamBegin, TeamGoOn, ConvNext, TokensOf

\* What an invitation says of itself, of its email and of who is accepting it.
JoinInv ==
  /\ \A u \in Members : invites[u].state = "accepted" => users[u].state # "none"
  /\ \A u \in Members : invites[u].state = "none" <=> invites[u].no = 0
  /\ \A r \in Requests : req[r].pc = "accept" => req[r].no > 0
  /\ \A r \in Requests : req[r].pc # "idle" => asked > 0

\* Invitations keep a number of their own until they are used or withdrawn.
LEMMA JoinStep == TypeInv /\ JoinInv /\ [Next]_vars => JoinInv'
<1> DEFINE Goal == JoinInv
<1> SUFFICES ASSUME TypeInv /\ JoinInv, [Next]_vars PROVE Goal'
  OBVIOUS
<1> USE DEF TypeInv, TypeOK, TeamTypeOK, JoinInv, InviteRow, Idle, Roles, convVars, membersVars
<1>1. ASSUME NEW r \in Requests, NEW u \in Members, NEW role \in Roles, RoleRead(r, u, role),
             UNCHANGED convVars
      PROVE  Goal'
  BY <1>1 DEF RoleRead, Begin, Seen, Active
<1>2. ASSUME NEW r \in Requests, NEW u \in Members, NEW m \in Members \cup {Nobody},
             ManagerRead(r, u, m), UNCHANGED convVars
      PROVE  Goal'
  BY <1>2 DEF ManagerRead, Begin, Seen, Active, IsManager
<1>3. ASSUME NEW r \in Requests, NEW u \in Members, RemoveRead(r, u), UNCHANGED convVars
      PROVE  Goal'
  BY <1>3 DEF RemoveRead, Begin, Seen, Active
<1>4. ASSUME NEW r \in Requests, NEW u \in Members, InviteRead(r, u), UNCHANGED convVars
      PROVE  Goal'
  BY <1>4 DEF InviteRead, Begin, Active
<1>5. ASSUME NEW r \in Requests, NEW u \in Members, AcceptRead(r, u), UNCHANGED convVars
      PROVE  Goal'
  BY <1>5 DEF AcceptRead, Begin
<1>6. ASSUME NEW r \in Requests, NEW u \in Members, LoginRead(r, u), UNCHANGED convVars
      PROVE  Goal'
  BY <1>6 DEF LoginRead, Begin, Active
<1>7. ASSUME NEW r \in Requests, NEW t \in tokens, RefreshRead(r, t), UNCHANGED convVars
      PROVE  Goal'
  BY <1>7 DEF RefreshRead, Begin
<1>8. ASSUME NEW r \in Requests, RoleWrite(r), UNCHANGED convVars
      PROVE  Goal'
  BY <1>8 DEF RoleWrite, TornBy, End, Stale
<1>9. ASSUME NEW r \in Requests, ManagerWrite(r), UNCHANGED convVars
      PROVE  Goal'
  BY <1>9 DEF ManagerWrite, End, Stale, Leaving
<1>10. ASSUME NEW r \in Requests, RemoveUnassign(r), UNCHANGED convVars
      PROVE  Goal'
  BY <1>10 DEF RemoveUnassign, Goto
<1>11. ASSUME NEW r \in Requests, RemoveUser(r), UNCHANGED convVars
      PROVE  Goal'
  BY <1>11 DEF RemoveUser, TornBy, Goto, Stale
<1>12. ASSUME NEW r \in Requests, RemoveTokens(r), UNCHANGED convVars
      PROVE  Goal'
  BY <1>12 DEF RemoveTokens, End, TokensOf
<1>13. ASSUME NEW r \in Requests, InviteClear(r), UNCHANGED convVars
      PROVE  Goal'
  <2>1. CASE UNCHANGED invites /\ End(r)
    BY <1>13, <2>1 DEF InviteClear, End
  <2>2. CASE invites' = [invites EXCEPT ![req[r].user] = NoInvite] /\ Goto(r, "invite")
    <3>1. \A q \in Requests : req'[q] = IF q = r THEN [req[r] EXCEPT !.pc = "invite"] ELSE req[q]
      BY <2>2 DEF Goto
    <3>2. \A u \in Members : invites'[u] = invites[u] \/ invites'[u] = NoInvite BY <2>2
    <3>3. req[r].pc = "clear" /\ UNCHANGED <<users, asked>> BY <1>13 DEF InviteClear
    <3>4. [req[r] EXCEPT !.pc = "invite"].pc = "invite"
      <4>1. req[r] \in InviteRequests BY <3>3, Kinds
      <4> QED BY <4>1 DEF InviteRequests
    <3>5. \A u \in Members : invites'[u].state = "accepted" => users'[u].state # "none"
      BY <3>2, <3>3 DEF NoInvite
    <3>6. \A u \in Members : invites'[u].state = "none" <=> invites'[u].no = 0
      BY <3>2 DEF NoInvite
    <3>7. \A q \in Requests : req'[q].pc = "accept" => req'[q].no > 0 BY <3>1, <3>4
    <3>8. \A q \in Requests : req'[q].pc # "idle" => asked' > 0 BY <3>1, <3>3
    <3> QED BY <3>5, <3>6, <3>7, <3>8
  <2> QED BY <1>13, <2>1, <2>2 DEF InviteClear
<1>14. ASSUME NEW r \in Requests, InviteCreate(r), UNCHANGED convVars
      PROVE  Goal'
  BY <1>14 DEF InviteCreate, End
<1>15. ASSUME NEW r \in Requests, NEW role \in Roles, AcceptWrite(r, role), UNCHANGED convVars
      PROVE  Goal'
  BY <1>15 DEF AcceptWrite, End, NewToken
<1>16. ASSUME NEW r \in Requests, RefreshDelete(r), UNCHANGED convVars
      PROVE  Goal'
  <2>1. End(r) \/ Goto(r, "token") BY <1>16 DEF RefreshDelete
  <2>2. UNCHANGED <<users, invites, asked>> /\ req[r].pc = "rotate" BY <1>16 DEF RefreshDelete
  <2>3. CASE End(r) BY <2>2, <2>3 DEF End
  <2>4. CASE Goto(r, "token")
    <3>1. [req[r] EXCEPT !.pc = "token"].pc = "token"
      <4>1. req[r] \in RefreshRequests BY <2>2, Kinds
      <4> QED BY <4>1 DEF RefreshRequests
    <3>2. \A q \in Requests : req'[q] = IF q = r THEN [req[r] EXCEPT !.pc = "token"] ELSE req[q]
      BY <2>4 DEF Goto
    <3> QED BY <2>2, <3>1, <3>2
  <2> QED BY <2>1, <2>3, <2>4
<1>17. ASSUME NEW r \in Requests, CreateToken(r), UNCHANGED convVars
      PROVE  Goal'
  BY <1>17 DEF CreateToken, End, NewToken, Active
<1>18. ASSUME NEW r \in Requests, RequestLost(r), UNCHANGED convVars
      PROVE  Goal'
  BY <1>18 DEF RequestLost, End
<1>19. ASSUME NEW u \in Members, ResendInvite(u), UNCHANGED convVars
      PROVE  Goal'
  BY <1>19 DEF ResendInvite
<1>20. ASSUME NEW u \in Members, RevokeInvite(u), UNCHANGED convVars
      PROVE  Goal'
  BY <1>20 DEF RevokeInvite, NoInvite
<1>21. ASSUME NEW u \in Members, InviteExpires(u), UNCHANGED convVars
      PROVE  Goal'
  BY <1>21 DEF InviteExpires
<1>22. ASSUME NEW t \in tokens, Logout(t), UNCHANGED convVars
      PROVE  Goal'
  BY <1>22 DEF Logout
<1>23. ASSUME NEW r \in Requests, NEW c \in Convs, PinRead(r, c)
      PROVE  Goal'
  BY <1>23 DEF PinRead, Begin
<1>24. ASSUME NEW r \in Requests, NEW c \in Convs, ArchiveRead(r, c)
      PROVE  Goal'
  BY <1>24 DEF ArchiveRead, Begin
<1>25. ASSUME NEW r \in Requests, NEW c \in Convs, NEW u \in Members \cup {Nobody},
              NEW actor \in Members \cup {Nobody}, AssignRead(r, actor, c, u)
      PROVE  Goal'
  BY <1>25 DEF AssignRead, Begin
<1>26. ASSUME NEW r \in Requests, AssignWrite(r)
      PROVE  Goal'
  BY <1>26 DEF AssignWrite, End, NewStatus
<1>27. ASSUME NEW r \in Requests, PinWrite(r)
      PROVE  Goal'
  BY <1>27 DEF PinWrite, End
<1>28. ASSUME NEW r \in Requests, ArchiveWrite(r)
      PROVE  Goal'
  BY <1>28 DEF ArchiveWrite, End
<1>29. ASSUME NEW c \in Convs, MessageReopens(c)
      PROVE  Goal'
  BY <1>29 DEF MessageReopens, teamVars
<1>30. ASSUME NEW c \in Convs, Unpin(c)
      PROVE  Goal'
  BY <1>30 DEF Unpin
<1>31. ASSUME NEW c \in Convs, Unarchive(c)
      PROVE  Goal'
  BY <1>31 DEF Unarchive
<1>33. ASSUME NEW r \in Requests, NEW u \in Members, RegisterRead(r, u), UNCHANGED convVars
      PROVE  Goal'
  BY <1>33 DEF RegisterRead, Begin
<1>34. ASSUME NEW r \in Requests, RegisterWrite(r), UNCHANGED convVars
      PROVE  Goal'
  <2>1. /\ \A v \in Members : users[v].state # "none" => users'[v].state # "none"
        /\ UNCHANGED <<invites, asked>> /\ asked > 0
    BY <1>34, Registers DEF RegisterWrite
  <2> QED BY <1>34, <2>1, Registers
<1>32. CASE UNCHANGED vars
  BY <1>32 DEF vars, teamVars, convVars
<1> QED BY ZenonT(60), <1>1, <1>2, <1>3, <1>4, <1>5, <1>6, <1>7, <1>8, <1>9, <1>10, <1>11, <1>12,
           <1>13, <1>14, <1>15, <1>16, <1>17, <1>18, <1>19, <1>20, <1>21, <1>22, <1>23, <1>24,
           <1>25, <1>26, <1>27, <1>28, <1>29, <1>30, <1>31, <1>32,
           <1>33, <1>34
           DEF Next, TeamNext, TeamBegin, TeamGoOn, ConvNext, TokensOf

\* Who becomes active was never a member: it uses up an invitation, or has
\* registered; and nothing else uses an invitation up.
Joins(u) ==
  /\ users[u].state = "none"
  /\ \/ invites[u].state \in {"open", "expired"} /\ invites'[u].state = "accepted"
     \/ users'[u].role = "ADMIN" /\ \E r \in Requests : req[r].pc = "register" /\ req[r].user = u
JoinsOnly ==
  \A u \in Members :
    /\ users'[u].state = "active" /\ ~Active(u) => Joins(u)
    /\ invites'[u].state = "accepted" /\ invites[u].state # "accepted" =>
         ~Active(u) /\ users'[u].state = "active"
LEMMA JoinAction == TypeInv /\ JoinInv /\ [Next]_vars => JoinsOnly
<1> DEFINE Goal == JoinsOnly
<1> DEFINE Same == \A u \in Members :
                     /\ users'[u].state = "active" => users[u].state = "active"
                     /\ invites'[u].state = "accepted" => invites[u].state = "accepted"
<1> SUFFICES ASSUME TypeInv, JoinInv, [Next]_vars PROVE Goal
  OBVIOUS
<1> USE DEF TypeInv, TypeOK, TeamTypeOK, UserRow, InviteRow, convVars, membersVars, JoinsOnly, Joins, Active
<1>1. ASSUME NEW r \in Requests, NEW u \in Members, NEW role \in Roles, RoleRead(r, u, role),
             UNCHANGED convVars
      PROVE  Goal
  <2>1. Same BY <1>1 DEF RoleRead, Begin, Seen, Active
  <2> QED BY <2>1
<1>2. ASSUME NEW r \in Requests, NEW u \in Members, NEW m \in Members \cup {Nobody},
             ManagerRead(r, u, m), UNCHANGED convVars
      PROVE  Goal
  <2>1. Same BY <1>2 DEF ManagerRead, Begin, Seen, Active, IsManager
  <2> QED BY <2>1
<1>3. ASSUME NEW r \in Requests, NEW u \in Members, RemoveRead(r, u), UNCHANGED convVars
      PROVE  Goal
  <2>1. Same BY <1>3 DEF RemoveRead, Begin, Seen, Active
  <2> QED BY <2>1
<1>4. ASSUME NEW r \in Requests, NEW u \in Members, InviteRead(r, u), UNCHANGED convVars
      PROVE  Goal
  <2>1. Same BY <1>4 DEF InviteRead, Begin, Active
  <2> QED BY <2>1
<1>5. ASSUME NEW r \in Requests, NEW u \in Members, AcceptRead(r, u), UNCHANGED convVars
      PROVE  Goal
  <2>1. Same BY <1>5 DEF AcceptRead, Begin
  <2> QED BY <2>1
<1>6. ASSUME NEW r \in Requests, NEW u \in Members, LoginRead(r, u), UNCHANGED convVars
      PROVE  Goal
  <2>1. Same BY <1>6 DEF LoginRead, Begin, Active
  <2> QED BY <2>1
<1>7. ASSUME NEW r \in Requests, NEW t \in tokens, RefreshRead(r, t), UNCHANGED convVars
      PROVE  Goal
  <2>1. Same BY <1>7 DEF RefreshRead, Begin
  <2> QED BY <2>1
<1>8. ASSUME NEW r \in Requests, RoleWrite(r), UNCHANGED convVars
      PROVE  Goal
  <2>1. Same BY <1>8 DEF RoleWrite
  <2> QED BY <2>1
<1>9. ASSUME NEW r \in Requests, ManagerWrite(r), UNCHANGED convVars
      PROVE  Goal
  <2>1. Same BY <1>9 DEF ManagerWrite, End, Stale, Leaving
  <2> QED BY <2>1
<1>10. ASSUME NEW r \in Requests, RemoveUnassign(r), UNCHANGED convVars
      PROVE  Goal
  <2>1. Same BY <1>10 DEF RemoveUnassign, Goto
  <2> QED BY <2>1
<1>11. ASSUME NEW r \in Requests, RemoveUser(r), UNCHANGED convVars
      PROVE  Goal
  <2>1. Same BY <1>11 DEF RemoveUser, TornBy, Goto, Stale
  <2> QED BY <2>1
<1>12. ASSUME NEW r \in Requests, RemoveTokens(r), UNCHANGED convVars
      PROVE  Goal
  <2>1. Same BY <1>12 DEF RemoveTokens, End, TokensOf
  <2> QED BY <2>1
<1>13. ASSUME NEW r \in Requests, InviteClear(r), UNCHANGED convVars
      PROVE  Goal
  <2>1. Same BY <1>13 DEF InviteClear, End, Goto, NoInvite
  <2> QED BY <2>1
<1>14. ASSUME NEW r \in Requests, InviteCreate(r), UNCHANGED convVars
      PROVE  Goal
  <2>1. Same BY <1>14 DEF InviteCreate, End
  <2> QED BY <2>1
<1>15. ASSUME NEW r \in Requests, NEW role \in Roles, AcceptWrite(r, role), UNCHANGED convVars
      PROVE  Goal
  <2>1. \A u \in Members : u # req[r].user => users'[u] = users[u] /\ invites'[u] = invites[u]
    BY <1>15 DEF AcceptWrite
  <2>2. req[r] \in InviteRequests BY <1>15, Kinds DEF AcceptWrite
  <2>3. req[r].user \in Members BY <2>2 DEF InviteRequests
  <2>4. CASE users[req[r].user].state = "none" /\ invites[req[r].user].no = req[r].no
    <3>0. invites' = [invites EXCEPT ![req[r].user].state = "accepted"]
      BY <1>15, <2>4 DEF AcceptWrite
    <3>1. invites'[req[r].user].state = "accepted" BY <2>3, <3>0 DEF InviteRow
    <3>2. invites[req[r].user].state \in {"open", "expired"}
      BY <1>15, <2>3, <2>4 DEF AcceptWrite, JoinInv, InviteRow
    <3>3. users'[req[r].user].state = "active" BY <1>15, <2>3, <2>4 DEF AcceptWrite
    <3> QED BY <2>1, <2>4, <3>1, <3>2, <3>3
  <2>5. CASE ~(users[req[r].user].state = "none" /\ invites[req[r].user].no = req[r].no)
    <3>1. UNCHANGED <<users, invites>> BY <1>15, <2>5 DEF AcceptWrite
    <3> QED BY <3>1
  <2> QED BY <2>4, <2>5
<1>16. ASSUME NEW r \in Requests, RefreshDelete(r), UNCHANGED convVars
      PROVE  Goal
  <2>1. Same BY <1>16 DEF RefreshDelete, End, Goto
  <2> QED BY <2>1
<1>17. ASSUME NEW r \in Requests, CreateToken(r), UNCHANGED convVars
      PROVE  Goal
  <2>1. Same BY <1>17 DEF CreateToken, End, NewToken, Active
  <2> QED BY <2>1
<1>18. ASSUME NEW r \in Requests, RequestLost(r), UNCHANGED convVars
      PROVE  Goal
  <2>1. Same BY <1>18 DEF RequestLost, End
  <2> QED BY <2>1
<1>19. ASSUME NEW u \in Members, ResendInvite(u), UNCHANGED convVars
      PROVE  Goal
  <2>1. Same BY <1>19 DEF ResendInvite
  <2> QED BY <2>1
<1>20. ASSUME NEW u \in Members, RevokeInvite(u), UNCHANGED convVars
      PROVE  Goal
  <2>1. Same BY <1>20 DEF RevokeInvite, NoInvite
  <2> QED BY <2>1
<1>21. ASSUME NEW u \in Members, InviteExpires(u), UNCHANGED convVars
      PROVE  Goal
  <2>1. Same BY <1>21 DEF InviteExpires
  <2> QED BY <2>1
<1>22. ASSUME NEW t \in tokens, Logout(t), UNCHANGED convVars
      PROVE  Goal
  <2>1. Same BY <1>22 DEF Logout
  <2> QED BY <2>1
<1>23. ASSUME NEW r \in Requests, NEW c \in Convs, PinRead(r, c)
      PROVE  Goal
  <2>1. Same BY <1>23 DEF PinRead, Begin
  <2> QED BY <2>1
<1>24. ASSUME NEW r \in Requests, NEW c \in Convs, ArchiveRead(r, c)
      PROVE  Goal
  <2>1. Same BY <1>24 DEF ArchiveRead, Begin
  <2> QED BY <2>1
<1>25. ASSUME NEW r \in Requests, NEW c \in Convs, NEW u \in Members \cup {Nobody},
              NEW actor \in Members \cup {Nobody}, AssignRead(r, actor, c, u)
      PROVE  Goal
  <2>1. Same BY <1>25 DEF AssignRead, Begin
  <2> QED BY <2>1
<1>26. ASSUME NEW r \in Requests, AssignWrite(r)
      PROVE  Goal
  <2>1. Same BY <1>26 DEF AssignWrite, End, NewStatus
  <2> QED BY <2>1
<1>27. ASSUME NEW r \in Requests, PinWrite(r)
      PROVE  Goal
  <2>1. Same BY <1>27 DEF PinWrite, End
  <2> QED BY <2>1
<1>28. ASSUME NEW r \in Requests, ArchiveWrite(r)
      PROVE  Goal
  <2>1. Same BY <1>28 DEF ArchiveWrite, End
  <2> QED BY <2>1
<1>29. ASSUME NEW c \in Convs, MessageReopens(c)
      PROVE  Goal
  <2>1. Same BY <1>29 DEF MessageReopens, teamVars
  <2> QED BY <2>1
<1>30. ASSUME NEW c \in Convs, Unpin(c)
      PROVE  Goal
  <2>1. Same BY <1>30 DEF Unpin
  <2> QED BY <2>1
<1>31. ASSUME NEW c \in Convs, Unarchive(c)
      PROVE  Goal
  <2>1. Same BY <1>31 DEF Unarchive
  <2> QED BY <2>1
<1>33. ASSUME NEW r \in Requests, NEW u \in Members, RegisterRead(r, u), UNCHANGED convVars
      PROVE  Goal
  <2>1. Same BY <1>33 DEF RegisterRead, Begin
  <2> QED BY <2>1
<1>34. ASSUME NEW r \in Requests, RegisterWrite(r), UNCHANGED convVars
      PROVE  Goal
  <2>1. /\ req[r].user \in Members /\ req[r].pc = "register" /\ UNCHANGED invites
        /\ \A v \in Members : v # req[r].user => users'[v] = users[v]
        /\ \/ UNCHANGED users
           \/ users[req[r].user].state = "none" /\ users'[req[r].user].role = "ADMIN"
    BY <1>34, Registers DEF RegisterWrite
  <2> QED BY <2>1
<1>32. CASE UNCHANGED vars
  <2>1. Same BY <1>32 DEF vars, teamVars
  <2> QED BY <2>1
<1> HIDE DEF JoinsOnly, Joins
<1> QED BY <1>1, <1>2, <1>3, <1>4, <1>5, <1>6, <1>7, <1>8, <1>9, <1>10, <1>11, <1>12,
           <1>13, <1>14, <1>15, <1>16, <1>17, <1>18, <1>19, <1>20, <1>21, <1>22, <1>23, <1>24,
           <1>25, <1>26, <1>27, <1>28, <1>29, <1>30, <1>31, <1>32,
           <1>33, <1>34
           DEF Next, TeamNext, TeamBegin, TeamGoOn, ConvNext, TokensOf

\* Clearing an invitation or using up a token either goes on or ends.
LEMMA ClearGoesOn ==
  ASSUME TypeInv, NEW r \in Requests, InviteClear(r)
  PROVE  req'[r].pc \in {"idle", "invite"} /\ \A q \in Requests : q # r => req'[q] = req[q]
<1>1. req[r] \in InviteRequests BY Kinds DEF InviteClear, TypeInv
<1>2. [req[r] EXCEPT !.pc = "invite"].pc = "invite" BY <1>1 DEF InviteRequests
<1>3. End(r) \/ Goto(r, "invite") BY DEF InviteClear
<1>4. CASE End(r) BY <1>4 DEF End, Idle, TypeInv
<1>5. CASE Goto(r, "invite") BY <1>2, <1>5 DEF Goto, TypeInv
<1> QED BY <1>3, <1>4, <1>5

LEMMA RefreshGoesOn ==
  ASSUME TypeInv, NEW r \in Requests, RefreshDelete(r)
  PROVE  req'[r].pc \in {"idle", "token"} /\ \A q \in Requests : q # r => req'[q] = req[q]
<1>1. req[r] \in RefreshRequests BY Kinds DEF RefreshDelete, TypeInv
<1>2. [req[r] EXCEPT !.pc = "token"].pc = "token" BY <1>1 DEF RefreshRequests
<1>3. End(r) \/ Goto(r, "token") BY DEF RefreshDelete
<1>4. CASE End(r) BY <1>4 DEF End, Idle, TypeInv
<1>5. CASE Goto(r, "token") BY <1>2, <1>5 DEF Goto, TypeInv
<1> QED BY <1>3, <1>4, <1>5

\* The rows a request to change a role or a link has seen, and the agents of a
\* manager that is about to be removed.
RoleSeen == \A r \in Requests : req[r].pc = "role" => DOMAIN req[r].seen = {req[r].user}
LinkSeen ==
  \A r \in Requests : req[r].pc = "manager" =>
    LET u == req[r].user
        m == req[r].manager
        seen == req[r].seen
    IN /\ DOMAIN seen = {u, m} \ {Nobody}
       /\ seen[u].role = "AGENT"
       /\ m # Nobody => seen[m].role = "MANAGER" /\ seen[m].state = "active"
LeavingClear ==
  \A u \in Members : LET m == users[u].manager IN
    (m # Nobody /\ Active(u) /\ {u, m} \cap torn = {}) => ~Leaving(m)
LinkInv == LinksHold /\ RoleSeen /\ LinkSeen /\ LeavingClear

\* Links hold, whatever overlaps.
LEMMA LinkStep == TypeInv /\ LinkInv /\ [Next]_vars => LinkInv'
<1> DEFINE Goal == LinkInv
<1> SUFFICES ASSUME TypeInv /\ LinkInv, [Next]_vars PROVE Goal'
  OBVIOUS
<1> USE TeamAssumption DEF TypeInv, TypeOK, TeamTypeOK, LinkInv, LinksHold, RoleSeen, LinkSeen,
LeavingClear, Leaving,
        IsManager, Active, UserRow, Idle, Roles, convVars, membersVars
<1>1. ASSUME NEW r \in Requests, NEW u \in Members, NEW role \in Roles, RoleRead(r, u, role),
             UNCHANGED convVars
      PROVE  Goal'
  BY <1>1 DEF RoleRead, Begin, Seen, Active
<1>2. ASSUME NEW r \in Requests, NEW u \in Members, NEW m \in Members \cup {Nobody},
             ManagerRead(r, u, m), UNCHANGED convVars
      PROVE  Goal'
  BY <1>2 DEF ManagerRead, Begin, Seen, Active, IsManager
<1>3. ASSUME NEW r \in Requests, NEW u \in Members, RemoveRead(r, u), UNCHANGED convVars
      PROVE  Goal'
  BY <1>3 DEF RemoveRead, Begin, Seen, Active
<1>4. ASSUME NEW r \in Requests, NEW u \in Members, InviteRead(r, u), UNCHANGED convVars
      PROVE  Goal'
  BY <1>4 DEF InviteRead, Begin, Active
<1>5. ASSUME NEW r \in Requests, NEW u \in Members, AcceptRead(r, u), UNCHANGED convVars
      PROVE  Goal'
  BY <1>5 DEF AcceptRead, Begin
<1>6. ASSUME NEW r \in Requests, NEW u \in Members, LoginRead(r, u), UNCHANGED convVars
      PROVE  Goal'
  BY <1>6 DEF LoginRead, Begin, Active
<1>7. ASSUME NEW r \in Requests, NEW t \in tokens, RefreshRead(r, t), UNCHANGED convVars
      PROVE  Goal'
  BY <1>7 DEF RefreshRead, Begin
<1>8. ASSUME NEW r \in Requests, RoleWrite(r), UNCHANGED convVars
      PROVE  Goal'
  <2> DEFINE u == req[r].user
             was == req[r].seen[u]
             role == req[r].role
             manager(v) == IF (v = u /\ was.role # role /\ role # "AGENT" /\ was.manager # Nobody)
                              \/ (was.role # role /\ was.role = "MANAGER" /\ users[v].manager = u)
                           THEN Nobody ELSE users[v].manager
  <2>1. req[r].pc = "role" /\ u \in Members /\ role \in Roles
    <3>1. req[r] \in RoleRequests BY <1>8, Kinds DEF RoleWrite
    <3> QED BY <1>8, <3>1 DEF RoleWrite, RoleRequests
  <2>2. users' = [v \in Members |-> [role |-> IF v = u THEN role ELSE users[v].role,
                                    state |-> users[v].state, manager |-> manager(v)]]
    BY <1>8, Zenon DEF RoleWrite
  <2>3. torn' = torn \cup {u} \/ (torn' = torn /\ users[u] = was)
    BY <1>8 DEF RoleWrite, TornBy, Stale
  <2>4. req'[r].pc = "idle" /\ \A q \in Requests : q # r => req'[q] = req[q]
    BY <1>8 DEF RoleWrite, End
  <2>5. \A v \in Members :
          /\ users'[v].role = IF v = u THEN role ELSE users[v].role
          /\ users'[v].state = users[v].state
          /\ users'[v].manager = manager(v)
    <3> HIDE DEF u, role, was, manager
    <3> QED BY <2>2
  <2>6. LinksHold'
    <3> SUFFICES ASSUME NEW v \in Members, users'[v].manager # Nobody,
                        users'[v].state = "active",
                        {v, users'[v].manager} \cap torn' = {}
                 PROVE  /\ users'[v].role = "AGENT"
                        /\ users'[users'[v].manager].state = "active"
                        /\ users'[users'[v].manager].role = "MANAGER"
      BY DEF LinksHold, IsManager, Active
    <3> DEFINE m == users[v].manager
    <3>1. users'[v].manager = m /\ m # Nobody BY <2>5
    <3>2. m \in Members BY <3>1
    <3>3. /\ ~(v = u /\ was.role # role /\ role # "AGENT" /\ was.manager # Nobody)
          /\ ~(was.role # role /\ was.role = "MANAGER" /\ m = u)
      BY <2>5
    <3>4. {v, m} \cap torn = {} BY <2>3, <3>1
    <3>5. /\ users[v].role = "AGENT" /\ users[m].role = "MANAGER" /\ users[m].state = "active"
      BY <2>5, <3>1, <3>4 DEF LinksHold
    <3>6. v = u \/ m = u => users[u] = was BY ZenonT(60), <2>3, <3>1
    <3> HIDE DEF u, was, role, manager
    <3>7. users'[v].role = "AGENT"
      <4>1. CASE v = u BY <2>5, <3>1, <3>3, <3>5, <3>6, <4>1
      <4>2. CASE v # u BY <2>5, <3>5, <4>2
      <4> QED BY <4>1, <4>2
    <3>8. users'[m].role = "MANAGER"
      <4>1. CASE m = u BY <2>5, <3>2, <3>3, <3>5, <3>6, <4>1
      <4>2. CASE m # u BY <2>5, <3>2, <3>5, <4>2
      <4> QED BY <4>1, <4>2
    <3>9. users'[m].state = "active" BY <2>5, <3>2, <3>5
    <3> QED BY <3>1, <3>7, <3>8, <3>9
  <2>7. LeavingClear'
    <3>1. \A v \in Members : users'[v].manager \in {users[v].manager, Nobody} BY <2>5
    <3> HIDE DEF u, role, was, manager
    <3> QED BY <2>1, <2>3, <2>4, <2>5, <3>1
  <2>8. RoleSeen' /\ LinkSeen' BY <2>4
  <2> QED BY <2>6, <2>7, <2>8
<1>9. ASSUME NEW r \in Requests, ManagerWrite(r), UNCHANGED convVars
      PROVE  Goal'
  BY <1>9 DEF ManagerWrite, End, Stale, Leaving
<1>10. ASSUME NEW r \in Requests, RemoveUnassign(r), UNCHANGED convVars
      PROVE  Goal'
  BY <1>10 DEF RemoveUnassign, Goto
<1>11. ASSUME NEW r \in Requests, RemoveUser(r), UNCHANGED convVars
      PROVE  Goal'
  <2> DEFINE u == req[r].user
  <2>1. \A v \in Members : /\ users'[v].role = users[v].role /\ users'[v].manager = users[v].manager
                            /\ users'[v].state = "active" => users[v].state = "active" /\ v # u
    BY <1>11 DEF RemoveUser
  <2>2. LinksHold'
    BY <1>11, <2>1 DEF RemoveUser, TornBy, Goto, Stale
  <2>3. RoleSeen'
    BY <1>11, <2>1 DEF RemoveUser, TornBy, Goto, Stale
  <2>4. LinkSeen'
    BY <1>11, <2>1 DEF RemoveUser, TornBy, Goto, Stale
  <2>5. LeavingClear'
    BY <1>11, <2>1 DEF RemoveUser, TornBy, Goto, Stale
  <2> QED BY <2>2, <2>3, <2>4, <2>5
<1>12. ASSUME NEW r \in Requests, RemoveTokens(r), UNCHANGED convVars
      PROVE  Goal'
  BY <1>12 DEF RemoveTokens, End, TokensOf
<1>13. ASSUME NEW r \in Requests, InviteClear(r), UNCHANGED convVars
      PROVE  Goal'
  <2>1. UNCHANGED <<users, torn>> /\ req[r].pc = "clear" BY <1>13 DEF InviteClear
  <2>2. req'[r].pc \in {"idle", "invite"} /\ \A q \in Requests : q # r => req'[q] = req[q]
    BY <1>13, ClearGoesOn
  <2> QED BY <2>1, <2>2
<1>14. ASSUME NEW r \in Requests, InviteCreate(r), UNCHANGED convVars
      PROVE  Goal'
  BY <1>14 DEF InviteCreate, End
<1>15. ASSUME NEW r \in Requests, NEW role \in Roles, AcceptWrite(r, role), UNCHANGED convVars
      PROVE  Goal'
  BY SMTT(60), <1>15 DEF AcceptWrite, End, NewToken
<1>16. ASSUME NEW r \in Requests, RefreshDelete(r), UNCHANGED convVars
      PROVE  Goal'
  <2>1. UNCHANGED <<users, torn>> /\ req[r].pc = "rotate" BY <1>16 DEF RefreshDelete
  <2>2. req'[r].pc \in {"idle", "token"} /\ \A q \in Requests : q # r => req'[q] = req[q]
    BY <1>16, RefreshGoesOn
  <2> QED BY <2>1, <2>2
<1>17. ASSUME NEW r \in Requests, CreateToken(r), UNCHANGED convVars
      PROVE  Goal'
  BY <1>17 DEF CreateToken, End, NewToken, Active
<1>18. ASSUME NEW r \in Requests, RequestLost(r), UNCHANGED convVars
      PROVE  Goal'
  BY <1>18 DEF RequestLost, End
<1>19. ASSUME NEW u \in Members, ResendInvite(u), UNCHANGED convVars
      PROVE  Goal'
  BY <1>19 DEF ResendInvite
<1>20. ASSUME NEW u \in Members, RevokeInvite(u), UNCHANGED convVars
      PROVE  Goal'
  BY <1>20 DEF RevokeInvite, NoInvite
<1>21. ASSUME NEW u \in Members, InviteExpires(u), UNCHANGED convVars
      PROVE  Goal'
  BY <1>21 DEF InviteExpires
<1>22. ASSUME NEW t \in tokens, Logout(t), UNCHANGED convVars
      PROVE  Goal'
  BY <1>22 DEF Logout
<1>23. ASSUME NEW r \in Requests, NEW c \in Convs, PinRead(r, c)
      PROVE  Goal'
  BY <1>23 DEF PinRead, Begin
<1>24. ASSUME NEW r \in Requests, NEW c \in Convs, ArchiveRead(r, c)
      PROVE  Goal'
  BY <1>24 DEF ArchiveRead, Begin
<1>25. ASSUME NEW r \in Requests, NEW c \in Convs, NEW u \in Members \cup {Nobody},
              NEW actor \in Members \cup {Nobody}, AssignRead(r, actor, c, u)
      PROVE  Goal'
  BY <1>25 DEF AssignRead, Begin
<1>26. ASSUME NEW r \in Requests, AssignWrite(r)
      PROVE  Goal'
  BY SMTT(60), <1>26 DEF AssignWrite, End, NewStatus
<1>27. ASSUME NEW r \in Requests, PinWrite(r)
      PROVE  Goal'
  BY <1>27 DEF PinWrite, End
<1>28. ASSUME NEW r \in Requests, ArchiveWrite(r)
      PROVE  Goal'
  BY <1>28 DEF ArchiveWrite, End
<1>29. ASSUME NEW c \in Convs, MessageReopens(c)
      PROVE  Goal'
  BY <1>29 DEF MessageReopens, teamVars
<1>30. ASSUME NEW c \in Convs, Unpin(c)
      PROVE  Goal'
  BY <1>30 DEF Unpin
<1>31. ASSUME NEW c \in Convs, Unarchive(c)
      PROVE  Goal'
  BY <1>31 DEF Unarchive
<1>33. ASSUME NEW r \in Requests, NEW u \in Members, RegisterRead(r, u), UNCHANGED convVars
      PROVE  Goal'
  BY <1>33 DEF RegisterRead, Begin
<1>34. ASSUME NEW r \in Requests, RegisterWrite(r), UNCHANGED convVars
      PROVE  Goal'
  <2>1. /\ \A v \in Members :
             \/ users'[v] = users[v]
             \/ users'[v].manager = Nobody /\ users[v].state = "none"
        /\ UNCHANGED torn
    BY <1>34, Registers DEF RegisterWrite
  <2>2. req'[r].pc \in {"idle", "token"} /\ \A q \in Requests : q # r => req'[q] = req[q]
    BY <1>34, Registers
  <2> QED BY <2>1, <2>2
<1>32. CASE UNCHANGED vars
  BY <1>32 DEF vars, teamVars, convVars
<1> HIDE DEF LinkInv, Goal
<1> QED BY <1>1, <1>2, <1>3, <1>4, <1>5, <1>6, <1>7, <1>8, <1>9, <1>10, <1>11, <1>12,
           <1>13, <1>14, <1>15, <1>16, <1>17, <1>18, <1>19, <1>20, <1>21, <1>22, <1>23, <1>24,
           <1>25, <1>26, <1>27, <1>28, <1>29, <1>30, <1>31, <1>32,
           <1>33, <1>34
           DEF Next, TeamNext, TeamBegin, TeamGoOn, ConvNext, TokensOf

\* Status and agent of a conversation agree unless writes crossed.
LEMMA ShownStep == TypeInv /\ AssignmentIsShown /\ [Next]_vars => AssignmentIsShown'
<1> DEFINE Goal == AssignmentIsShown
<1> SUFFICES ASSUME TypeInv /\ AssignmentIsShown, [Next]_vars PROVE Goal'
  OBVIOUS
<1> USE DEF TypeInv, TypeOK, AssignmentIsShown, ConvRow, teamVars, convVars, membersVars
<1>1. ASSUME NEW r \in Requests, NEW u \in Members, NEW role \in Roles, RoleRead(r, u, role),
             UNCHANGED convVars
      PROVE  Goal'
  BY <1>1 DEF RoleRead, Begin, Seen, Active
<1>2. ASSUME NEW r \in Requests, NEW u \in Members, NEW m \in Members \cup {Nobody},
             ManagerRead(r, u, m), UNCHANGED convVars
      PROVE  Goal'
  BY <1>2 DEF ManagerRead, Begin, Seen, Active, IsManager
<1>3. ASSUME NEW r \in Requests, NEW u \in Members, RemoveRead(r, u), UNCHANGED convVars
      PROVE  Goal'
  BY <1>3 DEF RemoveRead, Begin, Seen, Active
<1>4. ASSUME NEW r \in Requests, NEW u \in Members, InviteRead(r, u), UNCHANGED convVars
      PROVE  Goal'
  BY <1>4 DEF InviteRead, Begin, Active
<1>5. ASSUME NEW r \in Requests, NEW u \in Members, AcceptRead(r, u), UNCHANGED convVars
      PROVE  Goal'
  BY <1>5 DEF AcceptRead, Begin
<1>6. ASSUME NEW r \in Requests, NEW u \in Members, LoginRead(r, u), UNCHANGED convVars
      PROVE  Goal'
  BY <1>6 DEF LoginRead, Begin, Active
<1>7. ASSUME NEW r \in Requests, NEW t \in tokens, RefreshRead(r, t), UNCHANGED convVars
      PROVE  Goal'
  BY <1>7 DEF RefreshRead, Begin
<1>8. ASSUME NEW r \in Requests, RoleWrite(r), UNCHANGED convVars
      PROVE  Goal'
  BY <1>8 DEF RoleWrite, TornBy, End, Stale
<1>9. ASSUME NEW r \in Requests, ManagerWrite(r), UNCHANGED convVars
      PROVE  Goal'
  BY <1>9 DEF ManagerWrite, End, Stale, Leaving
<1>10. ASSUME NEW r \in Requests, RemoveUnassign(r), UNCHANGED convVars
      PROVE  Goal'
  BY <1>10 DEF RemoveUnassign, Goto
<1>11. ASSUME NEW r \in Requests, RemoveUser(r), UNCHANGED convVars
      PROVE  Goal'
  BY <1>11 DEF RemoveUser, TornBy, Goto, Stale
<1>12. ASSUME NEW r \in Requests, RemoveTokens(r), UNCHANGED convVars
      PROVE  Goal'
  BY <1>12 DEF RemoveTokens, End, TokensOf
<1>13. ASSUME NEW r \in Requests, InviteClear(r), UNCHANGED convVars
      PROVE  Goal'
  BY <1>13 DEF InviteClear, End, Goto, NoInvite
<1>14. ASSUME NEW r \in Requests, InviteCreate(r), UNCHANGED convVars
      PROVE  Goal'
  BY <1>14 DEF InviteCreate, End
<1>15. ASSUME NEW r \in Requests, NEW role \in Roles, AcceptWrite(r, role), UNCHANGED convVars
      PROVE  Goal'
  BY <1>15 DEF AcceptWrite, End, NewToken
<1>16. ASSUME NEW r \in Requests, RefreshDelete(r), UNCHANGED convVars
      PROVE  Goal'
  BY <1>16 DEF RefreshDelete, End, Goto
<1>17. ASSUME NEW r \in Requests, CreateToken(r), UNCHANGED convVars
      PROVE  Goal'
  BY <1>17 DEF CreateToken, End, NewToken, Active
<1>18. ASSUME NEW r \in Requests, RequestLost(r), UNCHANGED convVars
      PROVE  Goal'
  BY <1>18 DEF RequestLost, End
<1>19. ASSUME NEW u \in Members, ResendInvite(u), UNCHANGED convVars
      PROVE  Goal'
  BY <1>19 DEF ResendInvite
<1>20. ASSUME NEW u \in Members, RevokeInvite(u), UNCHANGED convVars
      PROVE  Goal'
  BY <1>20 DEF RevokeInvite, NoInvite
<1>21. ASSUME NEW u \in Members, InviteExpires(u), UNCHANGED convVars
      PROVE  Goal'
  BY <1>21 DEF InviteExpires
<1>22. ASSUME NEW t \in tokens, Logout(t), UNCHANGED convVars
      PROVE  Goal'
  BY <1>22 DEF Logout
<1>23. ASSUME NEW r \in Requests, NEW c \in Convs, PinRead(r, c)
      PROVE  Goal'
  BY <1>23 DEF PinRead, Begin
<1>24. ASSUME NEW r \in Requests, NEW c \in Convs, ArchiveRead(r, c)
      PROVE  Goal'
  BY <1>24 DEF ArchiveRead, Begin
<1>25. ASSUME NEW r \in Requests, NEW c \in Convs, NEW u \in Members \cup {Nobody},
              NEW actor \in Members \cup {Nobody}, AssignRead(r, actor, c, u)
      PROVE  Goal'
  BY <1>25 DEF AssignRead, Begin
<1>26. ASSUME NEW r \in Requests, AssignWrite(r)
      PROVE  Goal'
  <2>1. req[r] \in AssignRequests BY <1>26, Kinds DEF AssignWrite
  <2>2. req[r].conv \in Convs /\ req[r].was \in ConvRow BY <2>1 DEF AssignRequests
  <2> QED BY <1>26, <2>2 DEF AssignWrite, NewStatus
<1>27. ASSUME NEW r \in Requests, PinWrite(r)
      PROVE  Goal'
  BY <1>27 DEF PinWrite, End
<1>28. ASSUME NEW r \in Requests, ArchiveWrite(r)
      PROVE  Goal'
  BY <1>28 DEF ArchiveWrite, End
<1>29. ASSUME NEW c \in Convs, MessageReopens(c)
      PROVE  Goal'
  BY <1>29 DEF MessageReopens, teamVars
<1>30. ASSUME NEW c \in Convs, Unpin(c)
      PROVE  Goal'
  BY <1>30 DEF Unpin
<1>31. ASSUME NEW c \in Convs, Unarchive(c)
      PROVE  Goal'
  BY <1>31 DEF Unarchive
<1>33. ASSUME NEW r \in Requests, NEW u \in Members, RegisterRead(r, u), UNCHANGED convVars
      PROVE  Goal'
  BY <1>33 DEF RegisterRead, Begin
<1>34. ASSUME NEW r \in Requests, RegisterWrite(r), UNCHANGED convVars
      PROVE  Goal'
  BY <1>34
<1>32. CASE UNCHANGED vars
  BY <1>32 DEF vars, teamVars, convVars
<1> QED BY <1>1, <1>2, <1>3, <1>4, <1>5, <1>6, <1>7, <1>8, <1>9, <1>10, <1>11, <1>12,
           <1>13, <1>14, <1>15, <1>16, <1>17, <1>18, <1>19, <1>20, <1>21, <1>22, <1>23, <1>24,
           <1>25, <1>26, <1>27, <1>28, <1>29, <1>30, <1>31, <1>32,
           <1>33, <1>34
           DEF Next, TeamNext, TeamBegin, TeamGoOn, ConvNext, TokensOf

-----------------------------------------------------------------------------
(* Pins: every request that counted before another wrote adds at most one. *)

Pinning == {r \in Requests : req[r].pc = "pin"}
PinInv ==
  /\ IsFiniteSet(Pinned)
  /\ Cardinality(Pinned) + Cardinality(Pinning) <= MaxPins - 1 + Slots

\* Requests under way are finitely many, and no more than there are slots.
LEMMA FewRequests ==
  ASSUME NEW P, P \subseteq Requests
  PROVE  IsFiniteSet(P) /\ Cardinality(P) \in Nat /\ Cardinality(P) <= Slots
<1>1. IsFiniteSet(Requests) /\ Cardinality(Requests) = Slots
  BY FS_Interval, TeamAssumption DEF Requests
<1> QED BY <1>1, FS_Subset, FS_CardinalityType, TeamAssumption

\* Sets with one element more or less.
LEMMA AddOne ==
  ASSUME NEW S, NEW x, IsFiniteSet(S)
  PROVE  /\ IsFiniteSet(S \cup {x}) /\ Cardinality(S) \in Nat /\ Cardinality(S \cup {x}) \in Nat
         /\ Cardinality(S \cup {x}) <= Cardinality(S) + 1
         /\ x \notin S => Cardinality(S \cup {x}) = Cardinality(S) + 1
<1>1. Cardinality(S) \in Nat BY FS_CardinalityType
<1>2. /\ IsFiniteSet(S \cup {x})
      /\ Cardinality(S \cup {x}) = IF x \in S THEN Cardinality(S) ELSE Cardinality(S) + 1
  BY FS_AddElement
<1> QED BY <1>1, <1>2

LEMMA RemoveOne ==
  ASSUME NEW S, NEW x, IsFiniteSet(S), x \in S
  PROVE  /\ IsFiniteSet(S \ {x}) /\ Cardinality(S) \in Nat /\ Cardinality(S \ {x}) \in Nat
         /\ Cardinality(S \ {x}) = Cardinality(S) - 1
<1>1. Cardinality(S) \in Nat BY FS_CardinalityType
<1>2. IsFiniteSet(S \ {x}) /\ Cardinality(S \ {x}) = Cardinality(S) - 1 BY FS_RemoveElement
<1> QED BY <1>1, <1>2, FS_CardinalityType

LEMMA PinFewer ==
  PinInv /\ Pinned' \subseteq Pinned /\ Pinning' \subseteq Pinning => PinInv'
<1> SUFFICES ASSUME PinInv, Pinned' \subseteq Pinned, Pinning' \subseteq Pinning PROVE PinInv'
  OBVIOUS
<1>1. Pinning \subseteq Requests BY DEF Pinning
<1>2. IsFiniteSet(Pinned') /\ Cardinality(Pinned') <= Cardinality(Pinned)
  BY FS_Subset DEF PinInv
<1>3. IsFiniteSet(Pinning) /\ Cardinality(Pinning) \in Nat BY <1>1, FewRequests
<1>4. Cardinality(Pinning') <= Cardinality(Pinning) /\ Cardinality(Pinning') \in Nat
  BY <1>3, FS_Subset, FS_CardinalityType
<1>5. Cardinality(Pinned) \in Nat /\ Cardinality(Pinned') \in Nat
  BY <1>2, FS_CardinalityType DEF PinInv
<1> QED BY <1>2, <1>3, <1>4, <1>5, TeamAssumption, ConvAssumption DEF PinInv

\* No more pins than the limit allows, and one for every other pin under way.
LEMMA PinStep == TypeInv /\ PinInv /\ [Next]_vars => PinInv'
<1> DEFINE Goal == PinInv
<1> SUFFICES ASSUME TypeInv /\ PinInv, [Next]_vars PROVE Goal'
  OBVIOUS
<1> DEFINE Less == Pinned' \subseteq Pinned /\ Pinning' \subseteq Pinning
<1>0. Less => Goal' BY PinFewer
<1> HIDE DEF Goal
<1> USE DEF TypeInv, TypeOK, Idle, convVars, membersVars, Pinned, Pinning
<1>1. ASSUME NEW r \in Requests, NEW u \in Members, NEW role \in Roles, RoleRead(r, u, role),
             UNCHANGED convVars
      PROVE  Goal'
  <2>1. Less BY <1>1 DEF RoleRead, Begin, Seen, Active
  <2> QED BY <1>0, <2>1
<1>2. ASSUME NEW r \in Requests, NEW u \in Members, NEW m \in Members \cup {Nobody},
             ManagerRead(r, u, m), UNCHANGED convVars
      PROVE  Goal'
  <2>1. Less BY <1>2 DEF ManagerRead, Begin, Seen, Active, IsManager
  <2> QED BY <1>0, <2>1
<1>3. ASSUME NEW r \in Requests, NEW u \in Members, RemoveRead(r, u), UNCHANGED convVars
      PROVE  Goal'
  <2>1. Less BY <1>3 DEF RemoveRead, Begin, Seen, Active
  <2> QED BY <1>0, <2>1
<1>4. ASSUME NEW r \in Requests, NEW u \in Members, InviteRead(r, u), UNCHANGED convVars
      PROVE  Goal'
  <2>1. Less BY <1>4 DEF InviteRead, Begin, Active
  <2> QED BY <1>0, <2>1
<1>5. ASSUME NEW r \in Requests, NEW u \in Members, AcceptRead(r, u), UNCHANGED convVars
      PROVE  Goal'
  <2>1. Less BY <1>5 DEF AcceptRead, Begin
  <2> QED BY <1>0, <2>1
<1>6. ASSUME NEW r \in Requests, NEW u \in Members, LoginRead(r, u), UNCHANGED convVars
      PROVE  Goal'
  <2>1. Less BY <1>6 DEF LoginRead, Begin, Active
  <2> QED BY <1>0, <2>1
<1>7. ASSUME NEW r \in Requests, NEW t \in tokens, RefreshRead(r, t), UNCHANGED convVars
      PROVE  Goal'
  <2>1. Less BY <1>7 DEF RefreshRead, Begin
  <2> QED BY <1>0, <2>1
<1>8. ASSUME NEW r \in Requests, RoleWrite(r), UNCHANGED convVars
      PROVE  Goal'
  <2>1. Less BY <1>8 DEF RoleWrite, TornBy, End, Stale
  <2> QED BY <1>0, <2>1
<1>9. ASSUME NEW r \in Requests, ManagerWrite(r), UNCHANGED convVars
      PROVE  Goal'
  <2>1. Less BY <1>9 DEF ManagerWrite, End, Stale, Leaving
  <2> QED BY <1>0, <2>1
<1>10. ASSUME NEW r \in Requests, RemoveUnassign(r), UNCHANGED convVars
      PROVE  Goal'
  <2>1. Less BY <1>10 DEF RemoveUnassign, Goto
  <2> QED BY <1>0, <2>1
<1>11. ASSUME NEW r \in Requests, RemoveUser(r), UNCHANGED convVars
      PROVE  Goal'
  <2>1. Less BY <1>11 DEF RemoveUser, TornBy, Goto, Stale
  <2> QED BY <1>0, <2>1
<1>12. ASSUME NEW r \in Requests, RemoveTokens(r), UNCHANGED convVars
      PROVE  Goal'
  <2>1. Less BY <1>12 DEF RemoveTokens, End, TokensOf
  <2> QED BY <1>0, <2>1
<1>13. ASSUME NEW r \in Requests, InviteClear(r), UNCHANGED convVars
      PROVE  Goal'
  <2>1. UNCHANGED convs /\ req[r].pc = "clear" BY <1>13 DEF InviteClear
  <2>2. req'[r].pc \in {"idle", "invite"} /\ \A q \in Requests : q # r => req'[q] = req[q]
    BY <1>13, ClearGoesOn
  <2>3. Less BY <2>1, <2>2
  <2> QED BY <1>0, <2>3
<1>14. ASSUME NEW r \in Requests, InviteCreate(r), UNCHANGED convVars
      PROVE  Goal'
  <2>1. Less BY <1>14 DEF InviteCreate, End
  <2> QED BY <1>0, <2>1
<1>15. ASSUME NEW r \in Requests, NEW role \in Roles, AcceptWrite(r, role), UNCHANGED convVars
      PROVE  Goal'
  <2>1. Less BY <1>15 DEF AcceptWrite, End, NewToken
  <2> QED BY <1>0, <2>1
<1>16. ASSUME NEW r \in Requests, RefreshDelete(r), UNCHANGED convVars
      PROVE  Goal'
  <2>1. UNCHANGED convs /\ req[r].pc = "rotate" BY <1>16 DEF RefreshDelete
  <2>2. req'[r].pc \in {"idle", "token"} /\ \A q \in Requests : q # r => req'[q] = req[q]
    BY <1>16, RefreshGoesOn
  <2>3. Less BY <2>1, <2>2
  <2> QED BY <1>0, <2>3
<1>17. ASSUME NEW r \in Requests, CreateToken(r), UNCHANGED convVars
      PROVE  Goal'
  <2>1. Less BY <1>17 DEF CreateToken, End, NewToken, Active
  <2> QED BY <1>0, <2>1
<1>18. ASSUME NEW r \in Requests, RequestLost(r), UNCHANGED convVars
      PROVE  Goal'
  <2>1. Less BY <1>18 DEF RequestLost, End
  <2> QED BY <1>0, <2>1
<1>19. ASSUME NEW u \in Members, ResendInvite(u), UNCHANGED convVars
      PROVE  Goal'
  <2>1. Less BY <1>19 DEF ResendInvite
  <2> QED BY <1>0, <2>1
<1>20. ASSUME NEW u \in Members, RevokeInvite(u), UNCHANGED convVars
      PROVE  Goal'
  <2>1. Less BY <1>20 DEF RevokeInvite, NoInvite
  <2> QED BY <1>0, <2>1
<1>21. ASSUME NEW u \in Members, InviteExpires(u), UNCHANGED convVars
      PROVE  Goal'
  <2>1. Less BY <1>21 DEF InviteExpires
  <2> QED BY <1>0, <2>1
<1>22. ASSUME NEW t \in tokens, Logout(t), UNCHANGED convVars
      PROVE  Goal'
  <2>1. Less BY <1>22 DEF Logout
  <2> QED BY <1>0, <2>1
<1>23. ASSUME NEW r \in Requests, NEW c \in Convs, PinRead(r, c)
      PROVE  Goal'
  <2>1. Pinning' \subseteq Requests BY DEF Pinning
  <2>2. Cardinality(Pinning') <= Slots /\ Cardinality(Pinning') \in Nat BY <2>1, FewRequests
  <2>3. Pinned' = Pinned BY <1>23 DEF PinRead
  <2>4. Cardinality(Pinned) \in Nat BY FS_CardinalityType DEF PinInv
  <2> HIDE DEF Pinned, Pinning
  <2> QED BY <1>23, <2>2, <2>3, <2>4, TeamAssumption, ConvAssumption DEF PinRead, PinInv, Goal
<1>24. ASSUME NEW r \in Requests, NEW c \in Convs, ArchiveRead(r, c)
      PROVE  Goal'
  <2>1. Less BY <1>24 DEF ArchiveRead, Begin
  <2> QED BY <1>0, <2>1
<1>25. ASSUME NEW r \in Requests, NEW c \in Convs, NEW u \in Members \cup {Nobody},
              NEW actor \in Members \cup {Nobody}, AssignRead(r, actor, c, u)
      PROVE  Goal'
  <2>1. Less BY <1>25 DEF AssignRead, Begin
  <2> QED BY <1>0, <2>1
<1>26. ASSUME NEW r \in Requests, AssignWrite(r)
      PROVE  Goal'
  <2>1. Less BY <1>26 DEF AssignWrite, End, NewStatus
  <2> QED BY <1>0, <2>1
<1>27. ASSUME NEW r \in Requests, PinWrite(r)
      PROVE  Goal'
  <2> DEFINE c == req[r].conv
  <2>1. req[r] \in PinRequests BY <1>27, Kinds DEF PinWrite
  <2>2. c \in Convs /\ r \in Pinning BY <1>27, <2>1 DEF PinWrite, PinRequests
  <2>3. Pinned' \subseteq Pinned \cup {c} BY <1>27 DEF PinWrite
  <2>4. Pinning' = Pinning \ {r} BY <1>27 DEF PinWrite, End
  <2>5. IsFiniteSet(Pinning) BY FewRequests
  <2> HIDE DEF Pinned, Pinning, c
  <2>6. Cardinality(Pinning') = Cardinality(Pinning) - 1 /\ Cardinality(Pinning) \in Nat
    BY <2>2, <2>4, <2>5, RemoveOne
  <2>7. IsFiniteSet(Pinned \cup {c}) /\ Cardinality(Pinned \cup {c}) <= Cardinality(Pinned) + 1
    BY AddOne DEF PinInv
  <2>8. IsFiniteSet(Pinned') /\ Cardinality(Pinned') <= Cardinality(Pinned \cup {c})
    BY <2>3, <2>7, FS_Subset
  <2>9. Cardinality(Pinned) \in Nat /\ Cardinality(Pinned') \in Nat /\ Cardinality(Pinned \cup {c}) \in Nat
    BY <2>7, <2>8, FS_CardinalityType DEF PinInv
  <2> QED BY <2>6, <2>7, <2>8, <2>9, TeamAssumption, ConvAssumption DEF PinInv, Goal
<1>28. ASSUME NEW r \in Requests, ArchiveWrite(r)
      PROVE  Goal'
  <2>1. \A c \in Convs : convs'[c].pinned => convs[c].pinned BY <1>28 DEF ArchiveWrite, ConvRow
  <2>2. Pinning' \subseteq Pinning BY <1>28 DEF ArchiveWrite, End
  <2>3. Less BY <2>1, <2>2
  <2> QED BY <1>0, <2>3
<1>29. ASSUME NEW c \in Convs, MessageReopens(c)
      PROVE  Goal'
  <2>1. Less BY <1>29 DEF MessageReopens, teamVars, ConvRow
  <2> QED BY <1>0, <2>1
<1>30. ASSUME NEW c \in Convs, Unpin(c)
      PROVE  Goal'
  <2>1. Less BY <1>30 DEF Unpin
  <2> QED BY <1>0, <2>1
<1>31. ASSUME NEW c \in Convs, Unarchive(c)
      PROVE  Goal'
  <2>1. Less BY <1>31 DEF Unarchive
  <2> QED BY <1>0, <2>1
<1>33. ASSUME NEW r \in Requests, NEW u \in Members, RegisterRead(r, u), UNCHANGED convVars
      PROVE  Goal'
  <2>1. Less BY <1>33 DEF RegisterRead, Begin
  <2> QED BY <1>0, <2>1
<1>34. ASSUME NEW r \in Requests, RegisterWrite(r), UNCHANGED convVars
      PROVE  Goal'
  <2>1. Less BY <1>34, Registers
  <2> QED BY <1>0, <2>1
<1>32. CASE UNCHANGED vars
  <2>1. Less BY <1>32 DEF vars, teamVars, convVars
  <2> QED BY <1>0, <2>1
<1> QED BY <1>1, <1>2, <1>3, <1>4, <1>5, <1>6, <1>7, <1>8, <1>9, <1>10, <1>11, <1>12,
           <1>13, <1>14, <1>15, <1>16, <1>17, <1>18, <1>19, <1>20, <1>21, <1>22, <1>23, <1>24,
           <1>25, <1>26, <1>27, <1>28, <1>29, <1>30, <1>31, <1>32,
           <1>33, <1>34
           DEF Next, TeamNext, TeamBegin, TeamGoOn, ConvNext, TokensOf

-----------------------------------------------------------------------------
(* Tokens: a rotation that has deleted its token is owed one.              *)

Rotating(u) == {r \in Requests : req[r].pc = "token" /\ req[r].new = 0 /\ req[r].user = u}
TokenOwn == \A r \in Requests : req[r].pc = "rotate" => req[r].token.user = req[r].user
TokenInv ==
  /\ IsFiniteSet(tokens) /\ TokenOwn
  /\ \A u \in Members : Cardinality(TokensOf(u)) + Cardinality(Rotating(u)) <= signins[u]

LEMMA TokenSets ==
  ASSUME TokenInv, NEW u
  PROVE  /\ IsFiniteSet(TokensOf(u)) /\ Cardinality(TokensOf(u)) \in Nat
         /\ IsFiniteSet(Rotating(u)) /\ Cardinality(Rotating(u)) \in Nat
<1>1. TokensOf(u) \subseteq tokens BY DEF TokensOf
<1>2. Rotating(u) \subseteq Requests BY DEF Rotating
<1> QED BY <1>1, <1>2, FS_Subset, FS_CardinalityType, FewRequests DEF TokenInv

LEMMA TokenFewer ==
  /\ TypeInv /\ TokenInv /\ TokenOwn'
  /\ tokens' \subseteq tokens /\ signins' = signins
  /\ \A u \in Members : Rotating(u)' \subseteq Rotating(u)
  => TokenInv'
<1> SUFFICES ASSUME TypeInv, TokenInv, TokenOwn', tokens' \subseteq tokens, signins' = signins,
                    \A u \in Members : Rotating(u)' \subseteq Rotating(u)
             PROVE  TokenInv'
  OBVIOUS
<1>1. IsFiniteSet(tokens') BY FS_Subset DEF TokenInv
<1>2. ASSUME NEW u \in Members
      PROVE  Cardinality(TokensOf(u)') + Cardinality(Rotating(u)') <= signins'[u]
  <2>1. TokensOf(u)' \subseteq TokensOf(u) BY DEF TokensOf
  <2>2. Cardinality(TokensOf(u)') <= Cardinality(TokensOf(u)) /\ IsFiniteSet(TokensOf(u)')
    BY <2>1, TokenSets, FS_Subset
  <2>3. Cardinality(Rotating(u)') <= Cardinality(Rotating(u)) /\ IsFiniteSet(Rotating(u)')
    BY TokenSets, FS_Subset
  <2>4. signins[u] \in Nat BY DEF TypeInv, TypeOK, TeamTypeOK
  <2>5. Cardinality(TokensOf(u)) + Cardinality(Rotating(u)) <= signins[u] BY DEF TokenInv
  <2> QED BY <2>2, <2>3, <2>4, <2>5, TokenSets, FS_CardinalityType
<1> QED BY <1>1, <1>2 DEF TokenInv

\* A sign-in: one more token, and one more sign-in to account for it.
LEMMA TokenMore ==
  ASSUME TypeInv, TokenInv, TokenOwn', NEW u \in Members, NEW t, t.user = u,
         tokens' = tokens \cup {t}, signins' = [signins EXCEPT ![u] = @ + 1],
         \A v \in Members : Rotating(v)' = Rotating(v)
  PROVE  TokenInv'
<1>1. IsFiniteSet(tokens') BY FS_AddElement DEF TokenInv
<1>2. ASSUME NEW v \in Members
      PROVE  Cardinality(TokensOf(v)') + Cardinality(Rotating(v)') <= signins'[v]
  <2>1. signins[v] \in Nat /\ Cardinality(TokensOf(v)) + Cardinality(Rotating(v)) <= signins[v]
    BY DEF TokenInv, TypeInv, TypeOK, TeamTypeOK
  <2>2. CASE v = u
    <3>1. TokensOf(v)' = TokensOf(v) \cup {t} BY <2>2 DEF TokensOf
    <3>2. Cardinality(TokensOf(v)') <= Cardinality(TokensOf(v)) + 1 BY <3>1, TokenSets, AddOne
    <3>3. signins'[v] = signins[v] + 1 BY <2>2 DEF TypeInv, TypeOK, TeamTypeOK
    <3>4. Cardinality(TokensOf(v)') \in Nat BY <3>1, TokenSets, AddOne
    <3> QED BY <2>1, <3>2, <3>3, <3>4, TokenSets
  <2>3. CASE v # u
    <3>1. TokensOf(v)' = TokensOf(v) BY <2>3 DEF TokensOf
    <3>2. signins'[v] = signins[v] BY <2>3 DEF TypeInv, TypeOK, TeamTypeOK
    <3> QED BY <2>1, <3>1, <3>2
  <2> QED BY <2>2, <2>3
<1> QED BY <1>1, <1>2 DEF TokenInv

\* Tokens and rotations under way never outnumber the sign-ins.
LEMMA TokenStep == TypeInv /\ TokenInv /\ [Next]_vars => TokenInv'
<1> DEFINE Goal == TokenInv
<1> SUFFICES ASSUME TypeInv /\ TokenInv, [Next]_vars PROVE Goal'
  OBVIOUS
<1> DEFINE Less == /\ TokenOwn' /\ tokens' \subseteq tokens /\ signins' = signins
                   /\ \A u \in Members : Rotating(u)' \subseteq Rotating(u)
<1>0. Less => Goal' BY TokenFewer
<1> HIDE DEF Goal
<1>a. TokenOwn BY DEF TokenInv
<1> USE DEF TypeInv, TypeOK, TeamTypeOK, Idle, convVars, membersVars, TokenOwn, Rotating
<1>1. ASSUME NEW r \in Requests, NEW u \in Members, NEW role \in Roles, RoleRead(r, u, role),
             UNCHANGED convVars
      PROVE  Goal'
  <2>1. Less BY <1>1, <1>a DEF RoleRead, Begin, Seen, Active
  <2> QED BY <1>0, <2>1
<1>2. ASSUME NEW r \in Requests, NEW u \in Members, NEW m \in Members \cup {Nobody},
             ManagerRead(r, u, m), UNCHANGED convVars
      PROVE  Goal'
  <2>1. Less BY <1>2, <1>a DEF ManagerRead, Begin, Seen, Active, IsManager
  <2> QED BY <1>0, <2>1
<1>3. ASSUME NEW r \in Requests, NEW u \in Members, RemoveRead(r, u), UNCHANGED convVars
      PROVE  Goal'
  <2>1. Less BY <1>3, <1>a DEF RemoveRead, Begin, Seen, Active
  <2> QED BY <1>0, <2>1
<1>4. ASSUME NEW r \in Requests, NEW u \in Members, InviteRead(r, u), UNCHANGED convVars
      PROVE  Goal'
  <2>1. Less BY <1>4, <1>a DEF InviteRead, Begin, Active
  <2> QED BY <1>0, <2>1
<1>5. ASSUME NEW r \in Requests, NEW u \in Members, AcceptRead(r, u), UNCHANGED convVars
      PROVE  Goal'
  <2>1. Less BY <1>5, <1>a DEF AcceptRead, Begin
  <2> QED BY <1>0, <2>1
<1>6. ASSUME NEW r \in Requests, NEW u \in Members, LoginRead(r, u), UNCHANGED convVars
      PROVE  Goal'
  <2>1. Less BY <1>6, <1>a DEF LoginRead, Begin, Active
  <2> QED BY <1>0, <2>1
<1>7. ASSUME NEW r \in Requests, NEW t \in tokens, RefreshRead(r, t), UNCHANGED convVars
      PROVE  Goal'
  <2>1. Less BY <1>7, <1>a DEF RefreshRead, Begin
  <2> QED BY <1>0, <2>1
<1>8. ASSUME NEW r \in Requests, RoleWrite(r), UNCHANGED convVars
      PROVE  Goal'
  <2>1. Less BY <1>8, <1>a DEF RoleWrite, TornBy, End, Stale
  <2> QED BY <1>0, <2>1
<1>9. ASSUME NEW r \in Requests, ManagerWrite(r), UNCHANGED convVars
      PROVE  Goal'
  <2>1. Less BY <1>9, <1>a DEF ManagerWrite, End, Stale, Leaving
  <2> QED BY <1>0, <2>1
<1>10. ASSUME NEW r \in Requests, RemoveUnassign(r), UNCHANGED convVars
      PROVE  Goal'
  <2>1. Less BY <1>10, <1>a DEF RemoveUnassign, Goto
  <2> QED BY <1>0, <2>1
<1>11. ASSUME NEW r \in Requests, RemoveUser(r), UNCHANGED convVars
      PROVE  Goal'
  <2>1. Less BY <1>11, <1>a DEF RemoveUser, TornBy, Goto, Stale
  <2> QED BY <1>0, <2>1
<1>12. ASSUME NEW r \in Requests, RemoveTokens(r), UNCHANGED convVars
      PROVE  Goal'
  <2>1. Less BY <1>12, <1>a DEF RemoveTokens, End, TokensOf
  <2> QED BY <1>0, <2>1
<1>13. ASSUME NEW r \in Requests, InviteClear(r), UNCHANGED convVars
      PROVE  Goal'
  <2>1. UNCHANGED <<tokens, signins>> /\ req[r].pc = "clear" BY <1>13 DEF InviteClear
  <2>2. req'[r].pc \in {"idle", "invite"} /\ \A q \in Requests : q # r => req'[q] = req[q]
    BY <1>13, ClearGoesOn
  <2>3. Less BY <1>a, <2>1, <2>2
  <2> QED BY <1>0, <2>3
<1>14. ASSUME NEW r \in Requests, InviteCreate(r), UNCHANGED convVars
      PROVE  Goal'
  <2>1. Less BY <1>14, <1>a DEF InviteCreate, End
  <2> QED BY <1>0, <2>1
<1>15. ASSUME NEW r \in Requests, NEW role \in Roles, AcceptWrite(r, role), UNCHANGED convVars
      PROVE  Goal'
  <2>1. req[r] \in InviteRequests BY <1>15, Kinds DEF AcceptWrite
  <2>2. PICK u \in Members : u = req[r].user BY <2>1 DEF InviteRequests
  <2>0. PICK t : t = NewToken(r, u) OBVIOUS
  <2>3. End(r) /\ req[r].pc = "accept" BY <1>15 DEF AcceptWrite
  <2>4. TokenOwn' BY <2>3, <1>a DEF End
  <2>5. \A v \in Members : Rotating(v)' = Rotating(v) BY <2>3 DEF End
  <2>6. CASE UNCHANGED <<tokens, signins>>
    <3>1. Less BY <2>4, <2>5, <2>6
    <3> QED BY <1>0, <3>1
  <2>7. CASE tokens' = tokens \cup {t} /\ signins' = [signins EXCEPT ![u] = @ + 1]
    <3>1. t.user = u BY <2>0 DEF NewToken
    <3> HIDE DEF Rotating
    <3> QED BY <2>2, <2>4, <2>5, <2>7, <3>1, TokenMore DEF Goal
  <2> QED BY <1>15, <2>2, <2>0, <2>6, <2>7 DEF AcceptWrite
<1>16. ASSUME NEW r \in Requests, RefreshDelete(r), UNCHANGED convVars
      PROVE  Goal'
  <2>1. req[r] \in RefreshRequests /\ req[r].pc = "rotate" BY <1>16, Kinds DEF RefreshDelete
  <2>2. PICK u \in Members : u = req[r].user /\ req[r].new = 0 BY <2>1 DEF RefreshRequests
  <2>0. PICK t : t = req[r].token OBVIOUS
  <2>3. t.user = u BY <2>1, <2>2, <2>0, <1>a
  <2>4. CASE UNCHANGED tokens /\ End(r)
    <3>1. Less BY <1>16, <2>4, <1>a DEF RefreshDelete, End
    <3> QED BY <1>0, <3>1
  <2>5. CASE t \in tokens /\ tokens' = tokens \ {t} /\ Goto(r, "token")
    <3>1. [req[r] EXCEPT !.pc = "token"].pc = "token" /\ [req[r] EXCEPT !.pc = "token"].new = 0
          /\ [req[r] EXCEPT !.pc = "token"].user = u
      BY <2>1, <2>2 DEF RefreshRequests
    <3>2. req'[r].pc = "token" /\ req'[r].new = 0 /\ req'[r].user = u BY <2>5, <3>1 DEF Goto
    <3>3. \A q \in Requests : q # r => req'[q] = req[q] BY <2>5 DEF Goto
    <3>4. TokenOwn' BY <1>a, <3>2, <3>3
    <3>5. Rotating(u)' = Rotating(u) \cup {r} /\ r \notin Rotating(u) BY <2>1, <3>2, <3>3
    <3>6. \A v \in Members : v # u => Rotating(v)' = Rotating(v) BY <2>1, <2>2, <3>2, <3>3
    <3>7. signins' = signins BY <1>16 DEF RefreshDelete
    <3> HIDE DEF Rotating, TokenOwn
    <3>8. IsFiniteSet(tokens') BY <2>5, FS_RemoveElement DEF TokenInv
    <3>9. ASSUME NEW v \in Members
          PROVE  Cardinality(TokensOf(v)') + Cardinality(Rotating(v)') <= signins'[v]
      <4>0. signins[v] \in Nat /\ Cardinality(TokensOf(v)) + Cardinality(Rotating(v)) <= signins[v]
        BY DEF TokenInv
      <4>1. CASE v = u
        <5>1. t \in TokensOf(v) /\ TokensOf(v)' = TokensOf(v) \ {t}
          BY <2>3, <2>5, <4>1 DEF TokensOf
        <5>2. Cardinality(TokensOf(v)') = Cardinality(TokensOf(v)) - 1
          BY <5>1, TokenSets, RemoveOne
        <5>3. Cardinality(Rotating(v)') = Cardinality(Rotating(v)) + 1
          <6>1. IsFiniteSet(Rotating(u)) BY TokenSets
          <6> QED BY <3>5, <4>1, <6>1, AddOne
        <5> QED BY <4>0, <5>2, <5>3, <3>7, TokenSets
      <4>2. CASE v # u
        <5>1. TokensOf(v)' = TokensOf(v) BY <2>3, <2>5, <4>2 DEF TokensOf
        <5> QED BY <3>6, <3>7, <4>0, <4>2, <5>1
      <4> QED BY <4>1, <4>2
    <3> QED BY <3>4, <3>8, <3>9 DEF TokenInv, Goal
  <2> QED BY <1>16, <2>0, <2>4, <2>5 DEF RefreshDelete
<1>17. ASSUME NEW r \in Requests, CreateToken(r), UNCHANGED convVars
      PROVE  Goal'
  <2>1. req[r] \in LoginRequests \cup RefreshRequests /\ req[r].pc = "token"
    BY <1>17, Kinds DEF CreateToken
  <2>2. PICK u \in Members : u = req[r].user /\ req[r].new \in {0, 1}
    BY <2>1 DEF LoginRequests, RefreshRequests
  <2>0. PICK t : t = NewToken(r, u) OBVIOUS
  <2>3. End(r) /\ tokens' = tokens \cup {t} /\ signins' = [signins EXCEPT ![u] = @ + req[r].new]
    BY <1>17, <2>2, <2>0 DEF CreateToken
  <2>4. TokenOwn' BY <2>3, <1>a DEF End
  <2>5. t.user = u BY <2>0 DEF NewToken
  <2>6. CASE req[r].new = 1
    <3>1. \A v \in Members : Rotating(v)' = Rotating(v) BY <2>3, <2>6 DEF End
    <3> HIDE DEF Rotating
    <3> QED BY <2>2, <2>3, <2>4, <2>5, <2>6, <3>1, TokenMore DEF Goal
  <2>7. CASE req[r].new = 0
    <3>0. req'[r].pc = "idle" /\ \A q \in Requests : q # r => req'[q] = req[q] BY <2>3 DEF End
    <3>1. r \in Rotating(u) /\ Rotating(u)' = Rotating(u) \ {r} BY <2>1, <2>2, <2>7, <3>0
    <3>2. \A v \in Members : v # u => Rotating(v)' = Rotating(v) BY <2>2, <3>0
    <3>3. \A v \in Members : signins'[v] = signins[v] BY <2>2, <2>3, <2>7
    <3> HIDE DEF Rotating, TokenOwn
    <3>4. IsFiniteSet(tokens') BY <2>3, FS_AddElement DEF TokenInv
    <3>5. ASSUME NEW v \in Members
          PROVE  Cardinality(TokensOf(v)') + Cardinality(Rotating(v)') <= signins'[v]
      <4>0. signins[v] \in Nat /\ Cardinality(TokensOf(v)) + Cardinality(Rotating(v)) <= signins[v]
        BY DEF TokenInv
      <4>1. CASE v = u
        <5>1. TokensOf(v)' = TokensOf(v) \cup {t} BY <2>3, <2>5, <4>1 DEF TokensOf
        <5>2. Cardinality(TokensOf(v)') <= Cardinality(TokensOf(v)) + 1
          BY <5>1, TokenSets, AddOne
        <5>3. Cardinality(Rotating(v)') = Cardinality(Rotating(v)) - 1 
          <6>1. IsFiniteSet(Rotating(u)) BY TokenSets
          <6> QED BY <3>1, <4>1, <6>1, RemoveOne
        <5>4. Cardinality(TokensOf(v)') \in Nat BY <5>1, TokenSets, AddOne
        <5> QED BY <4>0, <5>2, <5>3, <5>4, <3>3, TokenSets
      <4>2. CASE v # u
        <5>1. TokensOf(v)' = TokensOf(v) BY <2>3, <2>5, <4>2 DEF TokensOf
        <5> QED BY <3>2, <3>3, <4>0, <4>2, <5>1
      <4> QED BY <4>1, <4>2
    <3> QED BY <2>4, <3>4, <3>5 DEF TokenInv, Goal
  <2> QED BY <2>2, <2>6, <2>7
<1>18. ASSUME NEW r \in Requests, RequestLost(r), UNCHANGED convVars
      PROVE  Goal'
  <2>1. Less BY <1>18, <1>a DEF RequestLost, End
  <2> QED BY <1>0, <2>1
<1>19. ASSUME NEW u \in Members, ResendInvite(u), UNCHANGED convVars
      PROVE  Goal'
  <2>1. Less BY <1>19, <1>a DEF ResendInvite
  <2> QED BY <1>0, <2>1
<1>20. ASSUME NEW u \in Members, RevokeInvite(u), UNCHANGED convVars
      PROVE  Goal'
  <2>1. Less BY <1>20, <1>a DEF RevokeInvite, NoInvite
  <2> QED BY <1>0, <2>1
<1>21. ASSUME NEW u \in Members, InviteExpires(u), UNCHANGED convVars
      PROVE  Goal'
  <2>1. Less BY <1>21, <1>a DEF InviteExpires
  <2> QED BY <1>0, <2>1
<1>22. ASSUME NEW t \in tokens, Logout(t), UNCHANGED convVars
      PROVE  Goal'
  <2>1. Less BY <1>22, <1>a DEF Logout
  <2> QED BY <1>0, <2>1
<1>23. ASSUME NEW r \in Requests, NEW c \in Convs, PinRead(r, c)
      PROVE  Goal'
  <2>1. Less BY <1>23, <1>a DEF PinRead, Begin
  <2> QED BY <1>0, <2>1
<1>24. ASSUME NEW r \in Requests, NEW c \in Convs, ArchiveRead(r, c)
      PROVE  Goal'
  <2>1. Less BY <1>24, <1>a DEF ArchiveRead, Begin
  <2> QED BY <1>0, <2>1
<1>25. ASSUME NEW r \in Requests, NEW c \in Convs, NEW u \in Members \cup {Nobody},
              NEW actor \in Members \cup {Nobody}, AssignRead(r, actor, c, u)
      PROVE  Goal'
  <2>1. Less BY <1>25, <1>a DEF AssignRead, Begin
  <2> QED BY <1>0, <2>1
<1>26. ASSUME NEW r \in Requests, AssignWrite(r)
      PROVE  Goal'
  <2>1. Less BY <1>26, <1>a DEF AssignWrite, End, NewStatus
  <2> QED BY <1>0, <2>1
<1>27. ASSUME NEW r \in Requests, PinWrite(r)
      PROVE  Goal'
  <2>1. Less BY <1>27, <1>a DEF PinWrite, End
  <2> QED BY <1>0, <2>1
<1>28. ASSUME NEW r \in Requests, ArchiveWrite(r)
      PROVE  Goal'
  <2>1. Less BY <1>28, <1>a DEF ArchiveWrite, End
  <2> QED BY <1>0, <2>1
<1>29. ASSUME NEW c \in Convs, MessageReopens(c)
      PROVE  Goal'
  <2>1. Less BY <1>29, <1>a DEF MessageReopens, teamVars
  <2> QED BY <1>0, <2>1
<1>30. ASSUME NEW c \in Convs, Unpin(c)
      PROVE  Goal'
  <2>1. Less BY <1>30, <1>a DEF Unpin
  <2> QED BY <1>0, <2>1
<1>31. ASSUME NEW c \in Convs, Unarchive(c)
      PROVE  Goal'
  <2>1. Less BY <1>31, <1>a DEF Unarchive
  <2> QED BY <1>0, <2>1
<1>33. ASSUME NEW r \in Requests, NEW u \in Members, RegisterRead(r, u), UNCHANGED convVars
      PROVE  Goal'
  <2>1. Less BY <1>33, <1>a DEF RegisterRead, Begin
  <2> QED BY <1>0, <2>1
<1>34. ASSUME NEW r \in Requests, RegisterWrite(r), UNCHANGED convVars
      PROVE  Goal'
  <2>1. /\ \A q \in Requests : q # r => req'[q] = req[q]
        /\ \/ req'[r] = Idle \/ req'[r] = [pc |-> "token", user |-> req[r].user, new |-> 1]
        /\ UNCHANGED <<tokens, signins>>
    BY <1>34, Registers DEF RegisterWrite
  <2>2. Less BY <1>a, <2>1
  <2> QED BY <1>0, <2>2
<1>32. CASE UNCHANGED vars
  <2>1. Less BY <1>32, <1>a DEF vars, teamVars, convVars
  <2> QED BY <1>0, <2>1
<1> QED BY <1>1, <1>2, <1>3, <1>4, <1>5, <1>6, <1>7, <1>8, <1>9, <1>10, <1>11, <1>12,
           <1>13, <1>14, <1>15, <1>16, <1>17, <1>18, <1>19, <1>20, <1>21, <1>22, <1>23, <1>24,
           <1>25, <1>26, <1>27, <1>28, <1>29, <1>30, <1>31, <1>32,
           <1>33, <1>34
           DEF Next, TeamNext, TeamBegin, TeamGoOn, ConvNext, TokensOf

-----------------------------------------------------------------------------
(* Theorems.                                                               *)

LEMMA TypeInitially == Init => TypeInv
  BY TeamAssumption DEF Init, TeamInit, TypeInv, TypeOK, TeamTypeOK, UserRow, InviteRow,
     NoInvite, ConvRow, Roles, Request, Requests

\* Types: every variable of the tenant keeps its type, and every request holds
\* what its step needs (team.service.ts, conversations.service.ts).
THEOREM WorkspaceTypeCorrect == Spec => []TypeOK
<1>1. Init => TypeInv BY TypeInitially
<1>2. TypeInv /\ [Next]_vars => TypeInv' BY TypeStep
<1>3. TypeInv => TypeOK BY DEF TypeInv
<1> QED BY <1>1, <1>2, <1>3, PTL DEF Spec

LEMMA LinkInitially == Init => LinkInv
  BY TypeInitially DEF Init, TeamInit, LinkInv, LinksHold, RoleSeen, LinkSeen, LeavingClear,
     Leaving, IsManager, Active, Idle
LEMMA PinInitially == Init => PinInv
<1> SUFFICES ASSUME Init PROVE PinInv OBVIOUS
<1>1. Pinned = {} BY DEF Init, Pinned
<1>2. Pinning = {} BY DEF Init, TeamInit, Pinning, Idle
<1> QED BY <1>1, <1>2, FS_EmptySet, TeamAssumption, ConvAssumption DEF PinInv

\* updateMemberRole, setMemberManager, removeMember: links are between an agent
\* and a manager, for any number of members and requests.
THEOREM LinksKept == Spec => []LinksHold
<1>1. Init => TypeInv /\ LinkInv
  BY TypeInitially, LinkInitially
<1>2. TypeInv /\ [Next]_vars => TypeInv' BY TypeStep
<1>3. TypeInv /\ LinkInv /\ [Next]_vars => LinkInv' BY LinkStep
<1>4. LinkInv => LinksHold BY DEF LinkInv
<1> QED BY <1>1, <1>2, <1>3, <1>4, PTL DEF Spec

\* removeMember: who is removed is signed out, unless a sign-in overlapped it.
THEOREM RemovalSignsOut == Spec => []RemovedIsSignedOut
<1>1. Init => TypeInv /\ RemovedIsSignedOut
  BY TypeInitially DEF Init, TeamInit, RemovedIsSignedOut, TokensOf
<1>2. TypeInv /\ [Next]_vars => TypeInv' BY TypeStep
<1>3. TypeInv /\ RemovedIsSignedOut /\ [Next]_vars => RemovedIsSignedOut' BY SignedOutStep
<1> QED BY <1>1, <1>2, <1>3, PTL DEF Spec

\* refresh: rotation never makes more tokens than there were sign-ins.
THEOREM TokensAccounted == Spec => []OneTokenPerSignIn
<1>1. Init => TypeInv /\ TokenInv
  <2> SUFFICES ASSUME Init PROVE TokenInv BY TypeInitially
  <2>1. \A u \in Members : TokensOf(u) = {} /\ Rotating(u) = {} /\ signins[u] = 0
    BY DEF Init, TeamInit, TokensOf, Rotating, Idle
  <2>2. tokens = {} /\ TokenOwn BY DEF Init, TeamInit, TokenOwn, Idle
  <2> QED BY <2>1, <2>2, FS_EmptySet DEF TokenInv
<1>2. TypeInv /\ [Next]_vars => TypeInv' BY TypeStep
<1>3. TypeInv /\ TokenInv /\ [Next]_vars => TokenInv' BY TokenStep
<1>4. TypeInv /\ TokenInv => OneTokenPerSignIn
  <2> SUFFICES ASSUME TypeInv, TokenInv, NEW u \in Members
               PROVE  Cardinality(TokensOf(u)) <= signins[u]
    BY DEF OneTokenPerSignIn
  <2>1. Cardinality(TokensOf(u)) + Cardinality(Rotating(u)) <= signins[u] /\ signins[u] \in Nat
    BY DEF TokenInv, TypeInv, TypeOK, TeamTypeOK
  <2> QED BY <2>1, TokenSets
<1> QED BY <1>1, <1>2, <1>3, <1>4, PTL DEF Spec

\* pinConversation: the limit is passed by no more than the other pins under way.
THEOREM PinsLimited == Spec => []PinsBounded
<1>1. Init => TypeInv /\ PinInv BY TypeInitially, PinInitially
<1>2. TypeInv /\ [Next]_vars => TypeInv' BY TypeStep
<1>3. TypeInv /\ PinInv /\ [Next]_vars => PinInv' BY PinStep
<1>4. PinInv => PinsBounded
  <2> SUFFICES ASSUME PinInv PROVE PinsBounded OBVIOUS
  <2>1. Pinning \subseteq Requests BY DEF Pinning
  <2>2. Cardinality(Pinning) \in Nat BY <2>1, FewRequests
  <2>3. Cardinality(Pinned) \in Nat BY FS_CardinalityType DEF PinInv
  <2> QED BY <2>2, <2>3, TeamAssumption, ConvAssumption DEF PinInv, PinsBounded
<1> QED BY <1>1, <1>2, <1>3, <1>4, PTL DEF Spec

\* assignConversation: status and agent agree unless writes crossed.
THEOREM AssignmentsShown == Spec => []AssignmentIsShown
<1>1. Init => TypeInv /\ AssignmentIsShown BY TypeInitially DEF Init, AssignmentIsShown
<1>2. TypeInv /\ [Next]_vars => TypeInv' BY TypeStep
<1>3. TypeInv /\ AssignmentIsShown /\ [Next]_vars => AssignmentIsShown' BY ShownStep
<1> QED BY <1>1, <1>2, <1>3, PTL DEF Spec

\* acceptInvite, register: who joins was never a member, and has an invitation
\* still good or has registered; an invitation is used up by joining only.
THEOREM MembersJoinOnce == Spec => JoinsOnce
<1>1. Init => TypeInv /\ JoinInv BY TypeInitially DEF Init, TeamInit, JoinInv, NoInvite, Idle
<1>2. TypeInv /\ [Next]_vars => TypeInv' BY TypeStep
<1>3. TypeInv /\ JoinInv /\ [Next]_vars => JoinInv' BY JoinStep
<1>4. TypeInv /\ JoinInv /\ [Next]_vars => [JoinsOnly]_teamVars
  BY JoinAction
<1>5. []JoinInv /\ [][JoinsOnly]_teamVars => JoinsOnce
  BY PTL DEF JoinsOnce, JoinsOnly, Joins
<1> QED BY <1>1, <1>2, <1>3, <1>4, <1>5, PTL DEF Spec

-----------------------------------------------------------------------------
(* One request after the other: what is left of the exceptions.            *)

\* What the one request under way has read is still so, but for a message of
\* the contact; and nobody is the manager of itself.
AsRead(r) ==
  /\ req[r].pc \in {"role", "manager", "unassign", "remove"} => ~Stale(r)
  /\ req[r].pc = "unassign" => DOMAIN req[r].seen = {req[r].user}
ConvAsRead(r) ==
  req[r].pc = "assign" =>
    LET c == req[r].conv
        was == req[r].was
    IN /\ was.agent = convs[c].agent
       /\ was.status = "OPEN" => convs[c].status = "OPEN"
       /\ was.status = "ASSIGNED" => convs[c].status = "ASSIGNED" \/ c \in reopened
AllShown ==
  \A c \in Convs :
    /\ convs[c].status = "ASSIGNED" => convs[c].agent # Nobody
    /\ convs[c].agent # Nobody => convs[c].status = "ASSIGNED" \/ c \in reopened
MembersAlone == /\ torn = {} /\ \A u \in Members : users[u].manager # u
                /\ \A r \in Requests : AsRead(r)
ConvsAlone == AllShown /\ \A r \in Requests : ConvAsRead(r)

LEMMA OnlyRequest == ASSUME Slots <= 1, NEW r \in Requests PROVE Requests = {r}
  BY TeamAssumption DEF Requests

\* A request that starts, or ends, or goes on to a step that relies on nothing
\* it has read, leaves the rest as it was.
LEMMA MembersUntouched ==
  ASSUME MembersAlone, UNCHANGED <<users, torn>>,
         \A r \in Requests : req'[r] = req[r] \/ AsRead(r)'
  PROVE  MembersAlone'
  BY DEF MembersAlone, AsRead, Stale
LEMMA ConvsUntouched ==
  ASSUME ConvsAlone, UNCHANGED <<convs, reopened>>,
         \A r \in Requests : req'[r] = req[r] \/ ConvAsRead(r)'
  PROVE  ConvsAlone'
  BY DEF ConvsAlone, ConvAsRead, AllShown

\* The members' side.
LEMMA MembersStep == Slots <= 1 /\ TypeInv /\ LinkInv /\ MembersAlone /\ [Next]_vars => MembersAlone'
<1> SUFFICES ASSUME Slots <= 1, TypeInv, LinkInv, MembersAlone, [Next]_vars PROVE MembersAlone'
  OBVIOUS
<1> DEFINE Relying == {"role", "manager", "unassign", "remove"}
           Elsewhere(r) == req'[r].pc \notin Relying
<1>0. ASSUME NEW r \in Requests, UNCHANGED <<users, torn>>, Elsewhere(r) PROVE MembersAlone'
  BY <1>0, MembersUntouched, OnlyRequest DEF AsRead
<1>1. ASSUME NEW r \in Requests, NEW S \in SUBSET Members, UNCHANGED <<users, torn>>,
             req'[r].seen = Seen(S), req'[r].pc = "unassign" => S = {req'[r].user}
      PROVE  MembersAlone'
  <2>1. ~Stale(r)' /\ DOMAIN req'[r].seen = S
    BY <1>1 DEF Stale, Seen
  <2> QED BY <1>1, <2>1, MembersUntouched, OnlyRequest DEF AsRead
<1>2. ASSUME NEW r \in Requests, NEW u \in Members, NEW role \in Roles, RoleRead(r, u, role)
      PROVE  MembersAlone'
  <2>1. req'[r] = [pc |-> "role", user |-> u, role |-> role, seen |-> Seen({u})]
    BY <1>2 DEF RoleRead, Begin, TypeInv
  <2>2. UNCHANGED <<users, torn>>
    BY <1>2 DEF RoleRead
  <2> QED BY <1>1, <2>1, <2>2
<1>21. ASSUME NEW r \in Requests, NEW u \in Members, RemoveRead(r, u) PROVE MembersAlone'
  <2>1. req'[r].seen = Seen({u}) /\ req'[r].user = u
    BY <1>21 DEF RemoveRead, Begin, TypeInv
  <2>2. UNCHANGED <<users, torn>>
    BY <1>21 DEF RemoveRead
  <2> QED BY <1>1, <2>1, <2>2
<1>3. ASSUME NEW r \in Requests, NEW u \in Members, NEW m \in Members \cup {Nobody},
             ManagerRead(r, u, m)
      PROVE  MembersAlone'
  <2>1. req'[r] = [pc |-> "manager", user |-> u, manager |-> m, seen |-> Seen({u, m} \ {Nobody})]
    BY <1>3 DEF ManagerRead, Begin, TypeInv
  <2>2. {u, m} \ {Nobody} \in SUBSET Members
    BY TeamAssumption
  <2>3. UNCHANGED <<users, torn>>
    BY <1>3 DEF ManagerRead
  <2> QED BY <1>1, <2>1, <2>2, <2>3
<1>4. ASSUME NEW r \in Requests, RoleWrite(r) PROVE MembersAlone'
  <2>1. req[r] \in RoleRequests /\ ~Stale(r)
    BY <1>4, Kinds DEF RoleWrite, TypeInv, MembersAlone, AsRead
  <2>2. torn' = torn /\ req' = [req EXCEPT ![r] = Idle]
    BY <1>4, <2>1 DEF RoleWrite, TornBy, End
  <2>3. \A v \in Members : users'[v].manager \in {users[v].manager, Nobody}
    BY <1>4 DEF RoleWrite
  <2>4. \A v \in Members : users'[v].manager # v
    BY <2>3, TeamAssumption DEF MembersAlone
  <2> QED BY <2>2, <2>4, OnlyRequest DEF MembersAlone, AsRead, Idle, TypeInv
<1>5. ASSUME NEW r \in Requests, ManagerWrite(r) PROVE MembersAlone'
  <2>1. req[r] \in LinkRequests /\ ~Stale(r)
    BY <1>5, Kinds DEF ManagerWrite, TypeInv, MembersAlone, AsRead
  <2> DEFINE u == req[r].user
             m == req[r].manager
  <2>2. u \in Members /\ m \in Members \cup {Nobody} /\ m # u
    BY <1>5, <2>1, TeamAssumption DEF LinkRequests, ManagerWrite, LinkInv, LinkSeen
  <2>3. ~Leaving(m)
    BY <1>5, OnlyRequest DEF Leaving, ManagerWrite
  <2>4. torn' = torn /\ req' = [req EXCEPT ![r] = Idle]
    BY <1>5, <2>1, <2>3 DEF ManagerWrite, End
  <2>5. users' = [users EXCEPT ![u].manager = m]
    BY <1>5 DEF ManagerWrite
  <2>6. \A v \in Members : users'[v].manager # v
    <3>1. users \in [Members -> UserRow]
      BY DEF TypeInv, TypeOK, TeamTypeOK
    <3> QED BY <2>2, <2>5, <3>1 DEF MembersAlone, UserRow
  <2> QED BY <2>4, <2>6, OnlyRequest DEF MembersAlone, AsRead, Idle, TypeInv
<1>6. ASSUME NEW r \in Requests, RemoveUnassign(r) PROVE MembersAlone'
  <2>1. req[r] \in RemoveRequests /\ ~Stale(r)
    BY <1>6, Kinds DEF RemoveUnassign, TypeInv, MembersAlone, AsRead
  <2>2. req' = [req EXCEPT ![r].pc = "remove"] /\ torn' = torn
    BY <1>6 DEF RemoveUnassign, Goto
  <2>3. \A v \in Members : users'[v] = IF users[v].manager = req[r].user
                                        THEN [users[v] EXCEPT !.manager = Nobody] ELSE users[v]
    BY <1>6 DEF RemoveUnassign
  <2>4. users \in [Members -> UserRow]
    BY DEF TypeInv, TypeOK, TeamTypeOK
  <2>5. \A v \in Members : users'[v].manager # v
    BY <2>3, <2>4, TeamAssumption DEF MembersAlone, UserRow
  <2>6. DOMAIN req[r].seen = {req[r].user} /\ req'[r].seen = req[r].seen /\ req[r].user \in Members
    BY <1>6, <2>1, <2>2 DEF RemoveRequests, TypeInv, RemoveUnassign, MembersAlone, AsRead
  <2>7. users'[req[r].user] = users[req[r].user]
    BY <2>3, <2>6 DEF MembersAlone
  <2>8. ~Stale(r)'
    BY <2>1, <2>6, <2>7 DEF Stale
  <2> QED BY <2>2, <2>5, <2>8, OnlyRequest DEF MembersAlone, AsRead
<1>7. ASSUME NEW r \in Requests, RemoveUser(r) PROVE MembersAlone'
  <2>1. req[r] \in RemoveRequests /\ ~Stale(r)
    BY <1>7, Kinds DEF RemoveUser, TypeInv, MembersAlone, AsRead
  <2>2. torn' = torn /\ req' = [req EXCEPT ![r].pc = "tokens"]
    BY <1>7, <2>1 DEF RemoveUser, TornBy, Goto
  <2>3. req'[r].pc = "tokens"
    BY <2>1, <2>2 DEF RemoveRequests, TypeInv
  <2>4. users' = [users EXCEPT ![req[r].user].state = "removed"] /\ users \in [Members -> UserRow]
    BY <1>7 DEF RemoveUser, TypeInv, TypeOK, TeamTypeOK
  <2>5. \A v \in Members : users'[v].manager # v
    BY <2>4 DEF MembersAlone, UserRow
  <2> QED BY <2>2, <2>3, <2>5, OnlyRequest DEF MembersAlone, AsRead
<1>8. ASSUME NEW r \in Requests,
             \/ RemoveTokens(r) \/ InviteCreate(r) \/ CreateToken(r) \/ RequestLost(r)
             \/ AssignWrite(r) \/ PinWrite(r) \/ ArchiveWrite(r)
      PROVE  MembersAlone'
  BY <1>0, <1>8 DEF RemoveTokens, InviteCreate, CreateToken, RequestLost, AssignWrite, PinWrite,
     ArchiveWrite, End, Idle, TypeInv, membersVars
<1>9. ASSUME NEW r \in Requests, NEW role \in Roles, AcceptWrite(r, role) PROVE MembersAlone'
  <2>1. req[r] \in InviteRequests
    BY <1>9, Kinds DEF AcceptWrite, TypeInv
  <2>2. req[r].user \in Members
    BY <2>1 DEF InviteRequests
  <2>3. torn' = torn /\ req' = [req EXCEPT ![r] = Idle]
    BY <1>9 DEF AcceptWrite, End
  <2>4. \/ users' = users
        \/ users' = [users EXCEPT ![req[r].user] = [role |-> role, manager |-> Nobody, state |-> "active"]]
    BY <1>9 DEF AcceptWrite
  <2>5. \A v \in Members : users'[v].manager # v
    BY <2>2, <2>4, TeamAssumption DEF MembersAlone, TypeInv, TypeOK, TeamTypeOK
  <2> QED BY <2>3, <2>5, OnlyRequest DEF MembersAlone, AsRead, Idle, TypeInv
<1>10. ASSUME NEW r \in Requests, NEW u \in Members,
              InviteRead(r, u) \/ AcceptRead(r, u) \/ RegisterRead(r, u) \/ LoginRead(r, u)
       PROVE  MembersAlone'
  <2>1. Elsewhere(r)
    BY <1>10 DEF InviteRead, AcceptRead, RegisterRead, LoginRead, Begin, TypeInv
  <2> QED BY <1>0, <1>10, <2>1 DEF InviteRead, AcceptRead, RegisterRead, LoginRead
<1>17. ASSUME NEW r \in Requests, RegisterWrite(r) PROVE MembersAlone'
  <2>1. /\ UNCHANGED torn /\ req'[r].pc \in {"idle", "token"}
        /\ \A v \in Members : users'[v] = users[v] \/ users'[v].manager = Nobody
    BY <1>17, Registers DEF RegisterWrite, TypeInv, TypeOK, TeamTypeOK
  <2>2. \A v \in Members : users'[v].manager # v
    BY <2>1, TeamAssumption DEF MembersAlone
  <2> QED BY <2>1, <2>2, OnlyRequest DEF MembersAlone, AsRead
<1>11. ASSUME NEW r \in Requests, NEW t \in tokens, RefreshRead(r, t) PROVE MembersAlone'
  BY <1>0, <1>11 DEF RefreshRead, Begin, TypeInv
<1>12. ASSUME NEW r \in Requests, InviteClear(r) PROVE MembersAlone'
  <2>1. Elsewhere(r)
    BY <1>12, ClearGoesOn
  <2> QED BY <1>0, <1>12, <2>1 DEF InviteClear
<1>13. ASSUME NEW r \in Requests, RefreshDelete(r) PROVE MembersAlone'
  <2>1. Elsewhere(r)
    BY <1>13, RefreshGoesOn
  <2> QED BY <1>0, <1>13, <2>1 DEF RefreshDelete
<1>14. ASSUME NEW r \in Requests, NEW c \in Convs, PinRead(r, c) \/ ArchiveRead(r, c)
       PROVE  MembersAlone'
  BY <1>0, <1>14 DEF PinRead, ArchiveRead, Begin, TypeInv, membersVars
<1>15. ASSUME NEW r \in Requests, NEW c \in Convs, NEW u \in Members \cup {Nobody},
              NEW actor \in Members \cup {Nobody}, AssignRead(r, actor, c, u)
       PROVE  MembersAlone'
  BY <1>0, <1>15 DEF AssignRead, Begin, TypeInv, membersVars
<1>16. CASE \/ \E u \in Members : ResendInvite(u) \/ RevokeInvite(u) \/ InviteExpires(u)
            \/ \E t \in tokens : Logout(t)
            \/ \E c \in Convs : MessageReopens(c) \/ Unpin(c) \/ Unarchive(c)
            \/ UNCHANGED vars
  <2>1. UNCHANGED <<users, torn, req>>
    BY <1>16 DEF ResendInvite, RevokeInvite, InviteExpires, Logout, MessageReopens, Unpin, Unarchive,
       vars, teamVars, membersVars
  <2> QED BY <2>1, MembersUntouched
<1> QED BY <1>2, <1>21, <1>3, <1>4, <1>5, <1>6, <1>7, <1>8, <1>9, <1>10, <1>11, <1>12, <1>13, <1>14,
           <1>15, <1>16, <1>17 DEF Next, TeamNext, TeamBegin, TeamGoOn, ConvNext, TokensOf

\* The conversations' side: a message that comes in between reopens, and what
\* the assignment then writes still fits.
LEMMA ConvsStep == Slots <= 1 /\ TypeInv /\ ConvsAlone /\ [Next]_vars => ConvsAlone'
<1> SUFFICES ASSUME Slots <= 1, TypeInv, ConvsAlone, [Next]_vars PROVE ConvsAlone'
  OBVIOUS
<1> DEFINE Elsewhere(r) == req'[r].pc # "assign"
<1>0. ASSUME NEW r \in Requests, UNCHANGED <<convs, reopened>>, Elsewhere(r) PROVE ConvsAlone'
  BY <1>0, ConvsUntouched, OnlyRequest DEF ConvAsRead
<1>1. CASE TeamNext /\ UNCHANGED convVars
  <2>1. ASSUME NEW r \in Requests, TeamBegin(r) \/ TeamGoOn(r) PROVE Elsewhere(r)
    <3>0. ASSUME NEW task, task.pc # "assign", Begin(r, task) PROVE Elsewhere(r)
      BY <3>0 DEF Begin, TypeInv
    <3>1. CASE TeamBegin(r)
      <4>1. ASSUME NEW u \in Members,
                   \/ \E role \in Roles : RoleRead(r, u, role)
                   \/ \E m \in (Members \ {u}) \cup {Nobody} : ManagerRead(r, u, m)
            PROVE  Elsewhere(r)
        BY <3>0, <4>1 DEF RoleRead, ManagerRead
      <4>2. ASSUME NEW u \in Members, RemoveRead(r, u) \/ InviteRead(r, u)
            PROVE  Elsewhere(r)
        BY <3>0, <4>2 DEF RemoveRead, InviteRead
      <4>3. ASSUME NEW u \in Members, AcceptRead(r, u) \/ RegisterRead(r, u) \/ LoginRead(r, u)
            PROVE  Elsewhere(r)
        BY <3>0, <4>3 DEF AcceptRead, RegisterRead, LoginRead
      <4>4. ASSUME NEW t \in tokens, RefreshRead(r, t) PROVE Elsewhere(r)
        BY <3>0, <4>4 DEF RefreshRead
      <4> QED BY <3>1, <4>1, <4>2, <4>3, <4>4 DEF TeamBegin, TokensOf
    <3>2. CASE \/ RoleWrite(r) \/ ManagerWrite(r) \/ RemoveTokens(r) \/ InviteCreate(r)
               \/ CreateToken(r) \/ RequestLost(r) \/ \E role \in Roles : AcceptWrite(r, role)
      <4>1. End(r)
        BY <3>2, Zenon DEF RoleWrite, ManagerWrite, RemoveTokens, InviteCreate, CreateToken, RequestLost,
           AcceptWrite
      <4> QED BY <4>1 DEF End, Idle, TypeInv
    <3>3. CASE RemoveUnassign(r) \/ RemoveUser(r)
      <4>1. req[r] \in RemoveRequests
        BY <3>3, Kinds DEF RemoveUnassign, RemoveUser, TypeInv
      <4> QED BY <3>3, <4>1 DEF RemoveUnassign, RemoveUser, Goto, RemoveRequests, TypeInv
    <3>4. CASE InviteClear(r)
      BY <3>4, ClearGoesOn
    <3>5. CASE RefreshDelete(r)
      BY <3>5, RefreshGoesOn
    <3>6. CASE RegisterWrite(r)
      BY <3>6, Registers
    <3> QED BY <2>1, <3>1, <3>2, <3>3, <3>4, <3>5, <3>6 DEF TeamGoOn
  <2>2. CASE \E r \in Requests : TeamBegin(r) \/ TeamGoOn(r)
    BY <1>0, <1>1, <2>1, <2>2 DEF convVars
  <2>3. CASE \/ \E u \in Members : ResendInvite(u) \/ RevokeInvite(u) \/ InviteExpires(u)
             \/ \E t \in tokens : Logout(t)
    BY <1>1, <2>3, ConvsUntouched DEF ResendInvite, RevokeInvite, InviteExpires, Logout, convVars
  <2> QED BY <1>1, <2>2, <2>3 DEF TeamNext
<1>2. ASSUME NEW r \in Requests, NEW c \in Convs, PinRead(r, c) \/ ArchiveRead(r, c)
      PROVE  ConvsAlone'
  BY <1>0, <1>2 DEF PinRead, ArchiveRead, Begin, TypeInv, convVars
<1>3. ASSUME NEW r \in Requests, NEW c \in Convs, NEW u \in Members \cup {Nobody},
             NEW actor \in Members \cup {Nobody}, AssignRead(r, actor, c, u)
      PROVE  ConvsAlone'
  <2>1. req'[r] = [pc |-> "assign", conv |-> c, agent |-> u, was |-> convs[c]]
    BY <1>3 DEF AssignRead, Begin, TypeInv
  <2>2. UNCHANGED <<convs, reopened>>
    BY <1>3 DEF AssignRead, convVars
  <2>3. ConvAsRead(r)'
    BY <2>1, <2>2 DEF ConvAsRead
  <2> QED BY <2>2, <2>3, ConvsUntouched, OnlyRequest
<1>4. ASSUME NEW r \in Requests, AssignWrite(r) PROVE ConvsAlone'
  <2>1. req[r] \in AssignRequests /\ ConvAsRead(r) /\ req[r].pc = "assign"
    BY <1>4, Kinds DEF AssignWrite, TypeInv, ConvsAlone
  <2> DEFINE c == req[r].conv
             u == req[r].agent
             was == req[r].was
  <2>2. c \in Convs /\ u \in Members \cup {Nobody} /\ was \in ConvRow
    BY <2>1 DEF AssignRequests
  <2>3. /\ reopened' = IF u = Nobody \/ was.status = "OPEN" THEN reopened \ {c} ELSE reopened
        /\ req' = [req EXCEPT ![r] = Idle]
    BY <1>4, Zenon DEF AssignWrite, End
  <2>4. convs \in [Convs -> ConvRow]
    BY DEF TypeInv, TypeOK
  <2>5. /\ convs'[c].agent = u /\ convs'[c].status = NewStatus(was.status, convs[c].status, u)
        /\ \A d \in Convs \ {c} : convs'[d] = convs[d] /\ (d \in reopened' <=> d \in reopened)
    <3>1. PICK next : next = NewStatus(was.status, convs[c].status, u)
      OBVIOUS
    <3>2. convs' = [convs EXCEPT ![c].agent = u, ![c].status = next]
      BY <1>4, <2>2, <2>4, <3>1 DEF AssignWrite, ConvRow
    <3>3. /\ convs'[c].agent = u /\ convs'[c].status = next
          /\ \A d \in Convs \ {c} : convs'[d] = convs[d]
      BY <2>2, <2>4, <3>2 DEF ConvRow
    <3> QED BY <2>3, <3>1, <3>3
  <2>6. /\ convs'[c].status = "ASSIGNED" => u # Nobody
        /\ u # Nobody => convs'[c].status = "ASSIGNED" \/ c \in reopened'
    BY <2>1, <2>2, <2>3, <2>4, <2>5 DEF ConvAsRead, NewStatus, ConvRow
  <2>7. AllShown'
    BY <2>5, <2>6 DEF ConvsAlone, AllShown
  <2> QED BY <2>3, <2>7, OnlyRequest DEF ConvsAlone, ConvAsRead, Idle, TypeInv
<1>5. ASSUME NEW r \in Requests, PinWrite(r) \/ ArchiveWrite(r) PROVE ConvsAlone'
  <2>1. req[r].conv \in Convs
    BY <1>5, Kinds DEF PinWrite, ArchiveWrite, TypeInv, PinRequests, ArchiveRequests
  <2>2. convs \in [Convs -> ConvRow] /\ req' = [req EXCEPT ![r] = Idle] /\ reopened' = reopened
    BY <1>5 DEF PinWrite, ArchiveWrite, End, TypeInv, TypeOK
  <2>3. \A d \in Convs : convs'[d].status = convs[d].status /\ convs'[d].agent = convs[d].agent
    BY <1>5, <2>1, <2>2 DEF PinWrite, ArchiveWrite, ConvRow
  <2> QED BY <2>2, <2>3, OnlyRequest DEF ConvsAlone, AllShown, ConvAsRead, Idle, TypeInv
<1>6. ASSUME NEW c \in Convs, MessageReopens(c) PROVE ConvsAlone'
  <2>1. /\ convs \in [Convs -> ConvRow] /\ convs[c].status = "ASSIGNED"
        /\ convs' = [convs EXCEPT ![c].status = "OPEN"]
        /\ reopened' = reopened \cup {c} /\ req' = req
    BY <1>6 DEF MessageReopens, teamVars, TypeInv, TypeOK
  <2>2. /\ convs'[c].status = "OPEN" /\ convs'[c].agent = convs[c].agent
        /\ \A d \in Convs \ {c} : convs'[d] = convs[d]
    BY <2>1 DEF ConvRow
  <2>3. AllShown'
    BY <2>1, <2>2 DEF ConvsAlone, AllShown
  <2>4. ASSUME NEW r \in Requests, req[r].pc = "assign" PROVE ConvAsRead(r)'
    <3>1. req[r].conv \in Convs /\ ConvAsRead(r) /\ req[r].was \in ConvRow
      BY <2>4, Kinds DEF TypeInv, AssignRequests, ConvsAlone
    <3> QED BY <2>1, <2>2, <2>4, <3>1 DEF ConvAsRead, ConvRow
  <2> QED BY <2>1, <2>3, <2>4 DEF ConvsAlone, ConvAsRead
<1>7. ASSUME NEW c \in Convs, Unpin(c) \/ Unarchive(c) PROVE ConvsAlone'
  <2>1. convs \in [Convs -> ConvRow] /\ UNCHANGED <<req, reopened>>
    BY <1>7 DEF Unpin, Unarchive, TypeInv, TypeOK
  <2>2. \A d \in Convs : convs'[d].status = convs[d].status /\ convs'[d].agent = convs[d].agent
    BY <1>7, <2>1 DEF Unpin, Unarchive, ConvRow
  <2>3. AllShown'
    BY <2>1, <2>2 DEF ConvsAlone, AllShown
  <2>4. ASSUME NEW r \in Requests PROVE ConvAsRead(r)'
    <3>1. req[r].pc = "assign" => req[r].conv \in Convs
      BY Kinds DEF TypeInv, AssignRequests
    <3> QED BY <2>1, <2>2, <3>1 DEF ConvAsRead, ConvsAlone
  <2> QED BY <2>3, <2>4 DEF ConvsAlone
<1>8. CASE UNCHANGED vars
  BY <1>8, ConvsUntouched DEF vars, teamVars, convVars
<1> QED BY <1>1, <1>2, <1>3, <1>4, <1>5, <1>6, <1>7, <1>8 DEF Next, ConvNext

\* Where a tenant's requests come one after the other, links, pins and
\* assignments hold without any exception: what the rules above except comes
\* from overlapping requests alone.
THEOREM OneByOneIsExact == Slots <= 1 => (Spec => []NoExceptions)
<1> SUFFICES ASSUME Slots <= 1 PROVE Spec => []NoExceptions
  OBVIOUS
<1>1. Init => TypeInv /\ MembersAlone /\ ConvsAlone
  <2> SUFFICES ASSUME Init PROVE MembersAlone /\ ConvsAlone BY TypeInitially
  <2>1. \A u \in Members : users[u].manager # u
    BY TeamAssumption DEF Init, TeamInit, IsManager
  <2> QED BY <2>1 DEF Init, TeamInit, MembersAlone, ConvsAlone, AllShown, AsRead, ConvAsRead, Idle
<1>2. TypeInv /\ [Next]_vars => TypeInv' BY TypeStep
<1>3. TypeInv /\ LinkInv /\ MembersAlone /\ [Next]_vars => MembersAlone' BY MembersStep
<1>4. TypeInv /\ ConvsAlone /\ [Next]_vars => ConvsAlone' BY ConvsStep
<1>5. LinksHold /\ PinsBounded /\ PinInv /\ MembersAlone /\ ConvsAlone => NoExceptions
  <2> SUFFICES ASSUME LinksHold, PinsBounded, PinInv, MembersAlone, ConvsAlone PROVE NoExceptions
    OBVIOUS
  <2>1. Cardinality(Pinned) \in Nat /\ Slots \in Nat /\ MaxPins \in Nat
    BY FS_CardinalityType, TeamAssumption, ConvAssumption DEF PinInv
  <2>2. Cardinality(Pinned) <= MaxPins
    BY <2>1 DEF PinsBounded
  <2> QED BY <2>2 DEF NoExceptions, LinksHold, MembersAlone, ConvsAlone, AllShown
<1>6. Init => LinkInv /\ PinInv
  BY LinkInitially, PinInitially
<1>7. TypeInv /\ LinkInv /\ [Next]_vars => LinkInv' BY LinkStep
<1>8. TypeInv /\ PinInv /\ [Next]_vars => PinInv' BY PinStep
<1>9. LinkInv => LinksHold BY DEF LinkInv
<1> QED BY <1>1, <1>2, <1>3, <1>4, <1>5, <1>6, <1>7, <1>8, <1>9, PinsLimited, PTL DEF Spec
=============================================================================
