-------------------------------- MODULE Team --------------------------------
(***************************************************************************)
(* The members of a tenant (team.service.ts) and how they join and sign in *)
(* (auth.service.ts).  The owner is made with its tenant at signup, and no *)
(* request to a tenant that exists makes an owner, changes or removes the  *)
(* one it has: the owner is always there to make the requests below and is *)
(* not a variable.  Everybody else joins by an invitation, or registers as *)
(* an administrator, which takes none.  A member is named by its email:    *)
(* the table has one row for it, kept when the member is removed           *)
(* (deletedAt).                                                            *)
(*                                                                         *)
(* A request reads, checks and writes in separate statements; a request    *)
(* remembers the rows it read, and its writes are modelled with what it    *)
(* decided from them.                                                      *)
(***************************************************************************)
EXTENDS Integers, FiniteSets

CONSTANTS Members,      \* emails of the members other than the owner
          Nobody,       \* null in managerId
          Slots,        \* bound: requests under way at once
          MaxRequests   \* bound: requests made altogether

ASSUME TeamAssumption ==
  /\ Nobody \notin Members
  /\ Slots \in Nat /\ MaxRequests \in Nat

VARIABLES users,    \* User rows: [role, manager, state]
          invites,  \* Invitation rows by email: [no, state]
          tokens,   \* RefreshToken rows: [slot, no, user]
          req,      \* what each request is doing
          asked,    \* requests made so far
          signins,  \* history: how often each member signed in
          torn,     \* history: members whose row was written on what is no longer so
          late      \* history: removed members who signed in meanwhile

teamVars == <<users, invites, tokens, req, asked, signins, torn, late>>

Roles == {"ADMIN", "MANAGER", "AGENT"}   \* INVITABLE_ROLES
UserRow == [role : Roles, manager : Members \cup {Nobody}, state : {"none", "active", "removed"}]
InviteRow == [no : 0 .. MaxRequests, state : {"none", "open", "expired", "accepted"}]
Requests == 1 .. Slots
Idle == [pc |-> "idle"]
NoInvite == [no |-> 0, state |-> "none"]

Active(u) == users[u].state = "active"
IsManager(u) == Active(u) /\ users[u].role = "MANAGER"
TokensOf(u) == {t \in tokens : t.user = u}

\* The rows a request read are not the rows of now.
Stale(r) == \E u \in DOMAIN req[r].seen : users[u] # req[r].seen[u]
TornBy(r) == torn' = IF Stale(r) THEN torn \cup DOMAIN req[r].seen ELSE torn
Seen(S) == [u \in S |-> users[u]]

Begin(r, record) ==
  /\ req[r] = Idle /\ \A q \in 1 .. (r - 1) : req[q] # Idle
  /\ asked < MaxRequests /\ asked' = asked + 1
  /\ req' = [req EXCEPT ![r] = record]
Goto(r, pc) == req' = [req EXCEPT ![r].pc = pc]
End(r) == req' = [req EXCEPT ![r] = Idle]

\* A tenant some time after its signup: some members have joined, an agent
\* may report to a manager; the others are not known yet.
TeamInit ==
  /\ users \in [Members -> [role : {"MANAGER", "AGENT"}, manager : Members \cup {Nobody},
                            state : {"none", "active"}]]
  /\ \A u \in Members :
       /\ users[u].manager # Nobody =>
            /\ users[u].role = "AGENT" /\ Active(u)
            /\ IsManager(users[u].manager)
       /\ users[u].state = "none" => users[u].role = "AGENT"
  /\ invites = [u \in Members |-> NoInvite]
  /\ tokens = {}
  /\ req = [r \in Requests |-> Idle]
  /\ asked = 0
  /\ signins = [u \in Members |-> 0]
  /\ torn = {} /\ late = {}

(***************************************************************************)
(* updateMemberRole: the row is read first; then one transaction unassigns *)
(* the agents of a former manager, writes the role, and clears the link of *)
(* a member who is no agent any more.                                      *)
(***************************************************************************)
RoleRead(r, u, role) ==
  /\ Active(u)
  /\ Begin(r, [pc |-> "role", user |-> u, role |-> role, seen |-> Seen({u})])
  /\ UNCHANGED <<users, invites, tokens, signins, torn, late>>

\* Fault: a member who is no agent any more keeps its manager.
RoleWrite_KeepsLink(r) ==
  /\ req[r].pc = "role"
  /\ LET u == req[r].user
         unassign == req[r].seen[u].role = "MANAGER" /\ req[r].role # "MANAGER"
     IN users' = [v \in Members |->
          [role |-> IF v = u THEN req[r].role ELSE users[v].role,
           state |-> users[v].state,
           manager |-> IF unassign /\ users[v].manager = u THEN Nobody ELSE users[v].manager]]
  /\ TornBy(r) /\ End(r)
  /\ UNCHANGED <<invites, tokens, asked, signins, late>>

RoleWrite(r) ==
  /\ req[r].pc = "role"
  /\ LET u == req[r].user
         was == req[r].seen[u]
         away == was.role # req[r].role
         unassign == away /\ was.role = "MANAGER"
         unlink == away /\ req[r].role # "AGENT" /\ was.manager # Nobody
     IN users' = [v \in Members |->
          [role |-> IF v = u THEN req[r].role ELSE users[v].role,
           state |-> users[v].state,
           manager |-> IF (v = u /\ unlink) \/ (unassign /\ users[v].manager = u)
                       THEN Nobody ELSE users[v].manager]]
  /\ TornBy(r) /\ End(r)
  /\ UNCHANGED <<invites, tokens, asked, signins, late>>

(***************************************************************************)
(* setMemberManager: both ends are checked, then the link is written.      *)
(***************************************************************************)
ManagerRead(r, u, m) ==
  /\ Active(u) /\ users[u].role = "AGENT"
  /\ m # Nobody => IsManager(m)
  /\ Begin(r, [pc |-> "manager", user |-> u, manager |-> m, seen |-> Seen({u, m} \ {Nobody})])
  /\ UNCHANGED <<users, invites, tokens, signins, torn, late>>

\* A removal that has unassigned the manager's agents and not yet removed it.
Leaving(m) == \E q \in Requests : req[q].pc = "remove" /\ req[q].user = m
ManagerWrite(r) ==
  /\ req[r].pc = "manager"
  /\ users' = [users EXCEPT ![req[r].user].manager = req[r].manager]
  /\ torn' = IF Stale(r) \/ Leaving(req[r].manager)
             THEN torn \cup DOMAIN req[r].seen ELSE torn
  /\ End(r)
  /\ UNCHANGED <<invites, tokens, asked, signins, late>>

(***************************************************************************)
(* removeMember: a manager's agents are unassigned, then the member is     *)
(* deactivated, then its refresh tokens go; three statements.              *)
(***************************************************************************)
RemoveRead(r, u) ==
  /\ Active(u)
  /\ Begin(r, [pc |-> IF users[u].role = "MANAGER" THEN "unassign" ELSE "remove",
               user |-> u, seen |-> Seen({u})])
  /\ UNCHANGED <<users, invites, tokens, signins, torn, late>>

RemoveUnassign(r) ==
  /\ req[r].pc = "unassign"
  /\ users' = [v \in Members |-> IF users[v].manager = req[r].user
                                 THEN [users[v] EXCEPT !.manager = Nobody] ELSE users[v]]
  /\ Goto(r, "remove")
  /\ UNCHANGED <<invites, tokens, asked, signins, torn, late>>

\* Fault: the tokens are left to expire.
RemoveUser_KeepsTokens(r) ==
  /\ req[r].pc = "remove"
  /\ users' = [users EXCEPT ![req[r].user].state = "removed"]
  /\ TornBy(r) /\ End(r)
  /\ UNCHANGED <<invites, tokens, asked, signins, late>>

RemoveUser(r) ==
  /\ req[r].pc = "remove"
  /\ users' = [users EXCEPT ![req[r].user].state = "removed"]
  /\ TornBy(r) /\ Goto(r, "tokens")
  /\ UNCHANGED <<invites, tokens, asked, signins, late>>

RemoveTokens(r) ==
  /\ req[r].pc = "tokens"
  /\ tokens' = tokens \ TokensOf(req[r].user)
  /\ End(r)
  /\ UNCHANGED <<users, invites, asked, signins, torn, late>>

(***************************************************************************)
(* Invitations: one row per email.  A stale row is deleted before a new    *)
(* one is made; each statement fails if another request was faster.        *)
(***************************************************************************)
InviteRead(r, u) ==
  /\ ~Active(u) /\ invites[u].state # "open"
  /\ Begin(r, [pc |-> IF invites[u].state = "none" THEN "invite" ELSE "clear",
               user |-> u, no |-> invites[u].no])
  /\ UNCHANGED <<users, invites, tokens, signins, torn, late>>

InviteClear(r) ==
  /\ req[r].pc = "clear"
  /\ LET u == req[r].user
     IN IF invites[u].no = req[r].no
        THEN invites' = [invites EXCEPT ![u] = NoInvite] /\ Goto(r, "invite")
        ELSE UNCHANGED invites /\ End(r)
  /\ UNCHANGED <<users, tokens, asked, signins, torn, late>>

InviteCreate(r) ==
  /\ req[r].pc = "invite"
  /\ LET u == req[r].user
     IN invites' = IF invites[u].state = "none"
                   THEN [invites EXCEPT ![u] = [no |-> asked, state |-> "open"]] ELSE invites
  /\ End(r)
  /\ UNCHANGED <<users, tokens, asked, signins, torn, late>>

\* acceptInvite: the check, a slow hash, and one transaction that fails if
\* the email has a row already or the invitation is gone.
AcceptRead(r, u) ==
  /\ invites[u].state = "open"
  /\ Begin(r, [pc |-> "accept", user |-> u, no |-> invites[u].no])
  /\ UNCHANGED <<users, invites, tokens, signins, torn, late>>

\* The role is the one of the invitation, which nobody looked at so far.
NewToken(r, u) == [slot |-> r, no |-> asked, user |-> u]
\* Fault: the invitation is not read again in the transaction.
AcceptWrite_UserOnly(r, role) ==
  /\ req[r].pc = "accept"
  /\ LET u == req[r].user
     IN IF users[u].state = "none"
        THEN /\ users' = [users EXCEPT ![u] = [role |-> role, manager |-> Nobody, state |-> "active"]]
             /\ tokens' = tokens \cup {NewToken(r, u)}
             /\ signins' = [signins EXCEPT ![u] = @ + 1]
        ELSE UNCHANGED <<users, tokens, signins>>
  /\ End(r)
  /\ UNCHANGED <<invites, asked, torn, late>>

AcceptWrite(r, role) ==
  /\ req[r].pc = "accept"
  /\ LET u == req[r].user
     IN IF users[u].state = "none" /\ invites[u].no = req[r].no
        THEN /\ users' = [users EXCEPT ![u] = [role |-> role, manager |-> Nobody, state |-> "active"]]
             /\ invites' = [invites EXCEPT ![u].state = "accepted"]
             /\ tokens' = tokens \cup {NewToken(r, u)}
             /\ signins' = [signins EXCEPT ![u] = @ + 1]
        ELSE UNCHANGED <<users, invites, tokens, signins>>
  /\ End(r)
  /\ UNCHANGED <<asked, torn, late>>

\* resendInvite, revokeInvite: one row by its id, or an error; and time.
ResendInvite(u) ==
  /\ asked < MaxRequests /\ asked' = asked + 1
  /\ invites[u].state = "expired"
  /\ invites' = [invites EXCEPT ![u].state = "open"]
  /\ UNCHANGED <<users, tokens, req, signins, torn, late>>
RevokeInvite(u) ==
  /\ asked < MaxRequests /\ asked' = asked + 1
  /\ invites[u].state # "none"
  /\ invites' = [invites EXCEPT ![u] = NoInvite]
  /\ UNCHANGED <<users, tokens, req, signins, torn, late>>
InviteExpires(u) ==
  /\ invites[u].state = "open"
  /\ invites' = [invites EXCEPT ![u].state = "expired"]
  /\ UNCHANGED <<users, tokens, req, asked, signins, torn, late>>

(***************************************************************************)
(* register: an address without a row joins as an administrator, signed in *)
(* at once.  The look-up, a slow hash, and an insert that the unique       *)
(* address makes fail if another request was faster.                       *)
(***************************************************************************)
RegisterRead(r, u) ==
  /\ users[u].state = "none"
  /\ Begin(r, [pc |-> "register", user |-> u])
  /\ UNCHANGED <<users, invites, tokens, signins, torn, late>>

RegisterWrite(r) ==
  /\ req[r].pc = "register"
  /\ LET u == req[r].user
     IN IF users[u].state = "none"
        THEN /\ users' = [users EXCEPT ![u] = [role |-> "ADMIN", manager |-> Nobody, state |-> "active"]]
             /\ req' = [req EXCEPT ![r] = [pc |-> "token", user |-> u, new |-> 1]]
        ELSE UNCHANGED users /\ End(r)
  /\ UNCHANGED <<invites, tokens, asked, signins, torn, late>>

(***************************************************************************)
(* login checks the member and makes a token some awaits later; refresh    *)
(* deletes the token it was given, which only one request can do, and      *)
(* makes another without looking at the member again.                      *)
(***************************************************************************)
LoginRead(r, u) ==
  /\ Active(u)
  /\ Begin(r, [pc |-> "token", user |-> u, new |-> 1])
  /\ UNCHANGED <<users, invites, tokens, signins, torn, late>>

RefreshRead(r, t) ==
  /\ Begin(r, [pc |-> "rotate", user |-> t.user, token |-> t, new |-> 0])
  /\ UNCHANGED <<users, invites, tokens, signins, torn, late>>

\* Fault: deleting a token that is gone is no error (deleteMany).
RefreshDelete_NoError(r) ==
  /\ req[r].pc = "rotate"
  /\ tokens' = tokens \ {req[r].token} /\ Goto(r, "token")
  /\ UNCHANGED <<users, invites, asked, signins, torn, late>>

RefreshDelete(r) ==
  /\ req[r].pc = "rotate"
  /\ IF req[r].token \in tokens
     THEN tokens' = tokens \ {req[r].token} /\ Goto(r, "token")
     ELSE End(r) /\ UNCHANGED tokens
  /\ UNCHANGED <<users, invites, asked, signins, torn, late>>

CreateToken(r) ==
  /\ req[r].pc = "token"
  /\ LET u == req[r].user
     IN /\ tokens' = tokens \cup {NewToken(r, u)}
        /\ signins' = [signins EXCEPT ![u] = @ + req[r].new]
        /\ late' = IF Active(u) THEN late ELSE late \cup {u}
  /\ End(r)
  /\ UNCHANGED <<users, invites, asked, torn>>

Logout(t) ==
  /\ asked < MaxRequests /\ asked' = asked + 1
  /\ tokens' = tokens \ {t}
  /\ UNCHANGED <<users, invites, req, signins, torn, late>>

\* The process exits, or a statement fails, with a request half done.
RequestLost(r) ==
  /\ req[r] # Idle
  /\ End(r)
  /\ late' = IF req[r].pc = "tokens" THEN late \cup {req[r].user} ELSE late
  /\ UNCHANGED <<users, invites, tokens, asked, signins, torn>>

TeamBegin(r) ==
  \E u \in Members :
    \/ \E role \in Roles : RoleRead(r, u, role)
    \/ \E m \in (Members \ {u}) \cup {Nobody} : ManagerRead(r, u, m)
    \/ RemoveRead(r, u) \/ InviteRead(r, u) \/ AcceptRead(r, u)
    \/ RegisterRead(r, u) \/ LoginRead(r, u)
    \/ \E t \in TokensOf(u) : RefreshRead(r, t)
TeamGoOn(r) ==
  \/ RoleWrite(r) \/ ManagerWrite(r) \/ RemoveUnassign(r) \/ RemoveUser(r) \/ RemoveTokens(r)
  \/ InviteClear(r) \/ InviteCreate(r) \/ \E role \in Roles : AcceptWrite(r, role)
  \/ RegisterWrite(r) \/ RefreshDelete(r) \/ CreateToken(r) \/ RequestLost(r)
TeamNext ==
  \/ \E r \in Requests : TeamBegin(r) \/ TeamGoOn(r)
  \/ \E u \in Members : ResendInvite(u) \/ RevokeInvite(u) \/ InviteExpires(u)
  \/ \E t \in tokens : Logout(t)

TeamSpec == TeamInit /\ [][TeamNext]_teamVars

(***************************************************************************)
(* Properties.                                                             *)
(***************************************************************************)
TeamTypeOK ==
  /\ users \in [Members -> UserRow]
  /\ invites \in [Members -> InviteRow]
  /\ tokens \subseteq [slot : Requests, no : 0 .. MaxRequests, user : Members]
  /\ asked \in 0 .. MaxRequests
  /\ signins \in [Members -> Nat]
  /\ torn \subseteq Members /\ late \subseteq Members

\* updateMemberRole, setMemberManager, removeMember: an active member's
\* manager is an active MANAGER and the member an AGENT, unless one of the
\* two rows was written on a check that was no longer true.
LinksHold ==
  \A u \in Members : LET m == users[u].manager IN
    (m # Nobody /\ Active(u) /\ {u, m} \cap torn = {}) => (users[u].role = "AGENT" /\ IsManager(m))

\* removeMember: a removed member has no refresh token once the removal is
\* through, unless a sign-in overlapped it or it broke off half way.
RemovedIsSignedOut ==
  \A u \in Members :
    (users[u].state = "removed" /\ TokensOf(u) # {}) =>
      u \in late \/ \E r \in Requests : req[r].pc = "tokens" /\ req[r].user = u

\* refresh: rotating tokens, at once or one after the other, never leaves a
\* member with more of them than sign-ins.
OneTokenPerSignIn == \A u \in Members : Cardinality(TokensOf(u)) <= signins[u]

\* acceptInvite, register: who joins was never a member before, and either
\* uses up in that step an invitation neither used nor revoked, or has
\* registered and is an administrator; and an invitation is used up by the
\* step in which its member joins and no other.
JoinsOnce ==
  [][\A u \in Members :
       /\ users'[u].state = "active" /\ ~Active(u) =>
            /\ users[u].state = "none"
            /\ \/ invites[u].state \in {"open", "expired"} /\ invites'[u].state = "accepted"
               \/ users'[u].role = "ADMIN"
                  /\ \E r \in Requests : req[r].pc = "register" /\ req[r].user = u
       /\ invites'[u].state = "accepted" /\ invites[u].state # "accepted" =>
            ~Active(u) /\ users'[u].state = "active"]_teamVars
=============================================================================
