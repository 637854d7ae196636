------------------------------ MODULE Tenancy ------------------------------
(***************************************************************************)
(* Organizations, teams, invitations and the deletion of accounts: the     *)
(* handlers of internal/api/organizations.go, teams.go, invitations.go and *)
(* DeleteMe of me.go, the tiers they run behind and the methods of         *)
(* internal/auth/auth.go they call.                                        *)
(*                                                                         *)
(* Every element of Request is one HTTP request in a goroutine of its own, *)
(* and a step is one statement: nothing here runs in a transaction except  *)
(* what Limen does inside one of its calls, which is modelled as one step. *)
(* Ids never repeat; a row created by request r has the id r, so has the   *)
(* token of a session r opens.                                             *)
(*                                                                         *)
(* A tier's lookups are one step with the arrival of the request: the rows *)
(* they read (session, membership, role, team) go only when their user is  *)
(* deleted, together.  Requests a tier turns away change nothing and are   *)
(* left out.  Limen's routes for organizations are disabled, so no other   *)
(* operation writes these tables.                                          *)
(***************************************************************************)
EXTENDS FiniteSets

CONSTANTS
  Request,   \* requests, each with its goroutine
  Founding,  \* ids of the rows a run starts from
  Email,     \* e-mail addresses, as limen.NormalizeEmail leaves them
  Word,      \* team names up to case
  None       \* SQL NULL, "not loaded"

Id   == Request \cup Founding
Name == Word \X {"upper", "lower"}   \* strings.EqualFold compares the word
Role == {"owner", "admin", "member"}

VARIABLES
  users,           \* table users
  sessions,        \* table sessions
  orgs,            \* table organizations, with its founder
  members,         \* organization_members with their one role
  teams,           \* table teams
  teamMembers,     \* table team_members
  invitations,     \* table organization_invitations
  invitationTeams, \* table invitation_teams
  pc,              \* where each request's goroutine stands
  call,            \* what its handler holds in memory; known is history
  reply            \* what the client was told

tenancy == <<orgs, members, teams, teamMembers, invitations, invitationTeams>>
tables  == <<users, sessions, tenancy>>
vars    == <<tables, pc, call, reply>>

User       == [id : Id, email : Email]
Session    == [token : Id, user : Id, active : Id \cup {None}]
Org        == [id : Id, founder : Id]
Member     == [org : Id, user : Id, role : Role]
Team       == [id : Id, org : Id, name : Name]
\* "expired" stands for a pending row past its expires_at.
Invitation == [id : Id, org : Id, email : Email, role : Role, inviter : Id,
               status : {"pending", "expired", "accepted", "rejected", "canceled"}]

Op == {"create organization", "switch", "create team", "add team member",
       "remove team member", "invite", "cancel", "accept", "reject", "register",
       "delete me"}
PC == (Op \ {"switch", "accept", "register"}) \cup
      {"idle", "insert team", "insert team member", "create invitation", "set team",
       "reread", "cancel invitation", "create user", "respond", "join organization",
       "read team", "join team", "start session", "activate", "set active",
       "revoke sessions", "delete user", "done"}
Reply == {"ok", "not found", "deleted", "error"}

\* subject is the invitation or the user the request is about.
Call == [op : Op \cup {None}, user : Id \cup {None}, token : Id \cup {None},
         org : Id \cup {None}, team : Id \cup {None}, subject : Id \cup {None},
         name : Name \cup {None}, email : Email \cup {None}, known : SUBSET Id]
NoCall == [op |-> None, user |-> None, token |-> None, org |-> None, team |-> None,
           subject |-> None, name |-> None, email |-> None, known |-> {}]

ASSUME TenancyAssumption ==
  /\ Request \cap Founding = {}
  /\ None \notin Id \cup Name \cup Op \cup Reply
-----------------------------------------------------------------------------
\* Moves of one request.
Goes(r, from, to) == pc[r] = from /\ pc' = [pc EXCEPT ![r] = to]
Answers(r, answer) == reply' = [reply EXCEPT ![r] = answer]
Finishes(r, from, answer) == Goes(r, from, "done") /\ Answers(r, answer)
Loads(r, field, value) == call' = [call EXCEPT ![r][field] = value]

\* A foreign key to users lets a row in.
UserExists_NoForeignKey(u) == TRUE
UserExists(u) == \E x \in users : x.id = u

\* users_email_unique
EmailFree(e) == \A u \in users : u.email # e
EmailOf(u) == (CHOOSE x \in users : x.id = u).email

IsMember(o, u) == \E m \in members : m.org = o /\ m.user = u
InvitationExists(i) == \E x \in invitations : x.id = i

IsOrgAdmin(role) == role \in {"owner", "admin"}
InviteRole(role) == role \in {"admin", "member"}
-----------------------------------------------------------------------------
\* The tiers: Session with RequireSession, RequireOrg, RequireOrgAdmin,
\* RequireTeam with RequireTeamAdmin.
Arrives(r, op, s) ==
  /\ Goes(r, "idle", op)
  /\ s \in sessions

SessionTier(r, op) ==
  \E s \in sessions :
    /\ Arrives(r, op, s)
    /\ call' = [call EXCEPT ![r].op = op, ![r].user = s.user, ![r].token = s.token]

\* POST .../accept and .../reject name an invitation.
InvitationTier(r, op) ==
  \E s \in sessions, i \in invitations :
    /\ Arrives(r, "respond", s)
    /\ call' = [call EXCEPT ![r].op = op, ![r].user = s.user, ![r].token = s.token,
                            ![r].subject = i.id]

OrgTier(r, op) ==
  \E s \in sessions, m \in members :
    /\ Arrives(r, "activate", s) /\ m.user = s.user
    /\ call' = [call EXCEPT ![r].op = op, ![r].user = s.user, ![r].token = s.token,
                            ![r].org = m.org]

OrgAdminTier(r, op) ==
  \E s \in sessions, m \in members :
    /\ Arrives(r, op, s) /\ m.user = s.user /\ IsOrgAdmin(m.role)
    /\ call' = [call EXCEPT ![r].op = op, ![r].user = s.user, ![r].token = s.token,
                            ![r].org = m.org]

TeamAdminTier(r, op) ==
  \E s \in sessions, m \in members, t \in teams :
    /\ Arrives(r, op, s) /\ m.user = s.user /\ m.org = t.org /\ IsOrgAdmin(m.role)
    /\ call' = [call EXCEPT ![r].op = op, ![r].user = s.user, ![r].token = s.token,
                            ![r].org = t.org, ![r].team = t.id]

Arrive(r) ==
  /\ \/ SessionTier(r, "create organization")
     \/ SessionTier(r, "delete me")
     \/ OrgTier(r, "switch")
     \/ OrgAdminTier(r, "create team")
     \/ OrgAdminTier(r, "invite")
     \/ OrgAdminTier(r, "cancel")
     \/ TeamAdminTier(r, "add team member")
     \/ TeamAdminTier(r, "remove team member")
     \/ InvitationTier(r, "accept")
     \/ InvitationTier(r, "reject")
  /\ UNCHANGED <<tables, reply>>
-----------------------------------------------------------------------------
\* Limen's sign-up and sign-in; both are one request.
SignUp(r) ==
  /\ Finishes(r, "idle", "ok")
  /\ \E e \in Email :
       /\ EmailFree(e)
       /\ users' = users \cup {[id |-> r, email |-> e]}
  /\ UNCHANGED <<sessions, tenancy, call>>

SignIn(r) ==
  /\ Finishes(r, "idle", "ok")
  /\ \E u \in users :
       sessions' = sessions \cup {[token |-> r, user |-> u.id, active |-> None]}
  /\ UNCHANGED <<users, tenancy, call>>

CreateOrganization(r) ==
  /\ Finishes(r, "create organization", "ok")
  /\ UserExists(call[r].user)
  /\ orgs' = orgs \cup {[id |-> r, founder |-> call[r].user]}
  /\ members' = members \cup {[org |-> r, user |-> call[r].user, role |-> "owner"]}
  /\ UNCHANGED <<users, sessions, teams, teamMembers, invitations, invitationTeams, call>>
-----------------------------------------------------------------------------
\* CreateTeam lists the teams and compares names without regard to case ...
ValidName_Any(n) == TRUE
ValidName(n) == n # None   \* a blank name

SameTeamName(m, n) == m[1] = n[1]

ListTeams(r) ==
  /\ Goes(r, "create team", "insert team")
  /\ \E n \in {m \in Name \cup {None} : ValidName(m)} :
       /\ \A t \in teams : t.org = call[r].org /\ n # None => ~SameTeamName(t.name, n)
       /\ Loads(r, "name", n)
  /\ UNCHANGED <<tables, reply>>

\* ... and inserts under teams_org_name_unique, which knows case.
NameFree(o, n) == \A t \in teams : ~(t.org = o /\ t.name = n)

CreateTeam(r) ==
  /\ Finishes(r, "insert team", "ok")
  /\ NameFree(call[r].org, call[r].name)
  /\ teams' = teams \cup {[id |-> r, org |-> call[r].org, name |-> call[r].name]}
  /\ UNCHANGED <<users, sessions, orgs, members, teamMembers, invitations,
                 invitationTeams, call>>

\* AddTeamMember counts the organization membership, then inserts.
Admits_Anyone(o, u) == TRUE
Admits(o, u) == IsMember(o, u)

CheckMembership(r) ==
  /\ Goes(r, "add team member", "insert team member")
  /\ \E u \in users : Admits(call[r].org, u.id) /\ Loads(r, "subject", u.id)
  /\ UNCHANGED <<tables, reply>>

\* AddTeamMember of teams.sql: a duplicate is no error.
Joins(t, u) ==
  /\ UserExists(u)
  /\ teamMembers' = teamMembers \cup {[team |-> t, user |-> u]}

AddTeamMember(r) ==
  /\ Finishes(r, "insert team member", "ok")
  /\ Joins(call[r].team, call[r].subject)
  /\ UNCHANGED <<users, sessions, orgs, members, teams, invitations, invitationTeams, call>>

RemoveTeamMember(r) ==
  /\ Finishes(r, "remove team member", "ok")
  /\ \E m \in teamMembers :
       m.team = call[r].team /\ teamMembers' = teamMembers \ {m}
  /\ UNCHANGED <<users, sessions, orgs, members, teams, invitations, invitationTeams, call>>
-----------------------------------------------------------------------------
\* CreateInvitation: the team named in the body must be the organization's.
TeamInOrg_Anywhere(t, o) == TRUE
TeamInOrg(t, o) == t.org = o

GetTeam(r) ==
  /\ Goes(r, "invite", "create invitation")
  /\ \/ UNCHANGED call
     \/ \E t \in teams : TeamInOrg(t, call[r].org) /\ Loads(r, "team", t.id)
  /\ UNCHANGED <<tables, reply>>

\* Limen checks the inviter's role itself, stores the invitation and mails it.
\* It refuses an address that is a member's or has an invitation already (Fail);
\* two calls at once may miss each other, so the model does not insist.
CreateInvitation(r) ==
  /\ Goes(r, "create invitation", IF call[r].team = None THEN "reread" ELSE "set team")
  /\ UserExists(call[r].user)
  /\ \E e \in Email, role \in Role :
       /\ InviteRole(role)
       /\ invitations' = invitations \cup
            {[id |-> r, org |-> call[r].org, email |-> e, role |-> role,
              inviter |-> call[r].user, status |-> "pending"]}
  /\ UNCHANGED <<users, sessions, orgs, members, teams, teamMembers, invitationTeams,
                 call, reply>>

SetInvitationTeam(r) ==
  /\ Goes(r, "set team", "reread")
  /\ InvitationExists(r)
  /\ invitationTeams' = invitationTeams \cup {[invitation |-> r, team |-> call[r].team]}
  /\ UNCHANGED <<users, sessions, orgs, members, teams, teamMembers, invitations,
                 call, reply>>

Reread(r) ==
  /\ Finishes(r, "reread", IF InvitationExists(r) THEN "ok" ELSE "not found")
  /\ UNCHANGED <<tables, call>>

\* An invitation changes its status.  Whether Limen, asked to cancel or reject,
\* sees a status that changed since the handler looked is not known either: the
\* model lets it go on.
Resolves(i, status) ==
  invitations' = (invitations \ {i}) \cup {[i EXCEPT !.status = status]}

CheckCancel(r) ==
  /\ Goes(r, "cancel", "cancel invitation")
  /\ \E i \in invitations :
       /\ i.org = call[r].org /\ i.status \in {"pending", "expired"}
       /\ Loads(r, "subject", i.id)
  /\ UNCHANGED <<tables, reply>>

CancelInvitation(r) ==
  /\ Finishes(r, "cancel invitation", "ok")
  /\ UserExists(call[r].user)
  /\ \E i \in invitations : i.id = call[r].subject /\ Resolves(i, "canceled")
  /\ UNCHANGED <<users, sessions, orgs, members, teams, teamMembers, invitationTeams, call>>

\* The clock passes expires_at.
Expire(i) ==
  /\ i.status = "pending"
  /\ Resolves(i, "expired")
  /\ UNCHANGED <<users, sessions, orgs, members, teams, teamMembers, invitationTeams,
                 pc, call, reply>>
-----------------------------------------------------------------------------
\* RegisterWithInvitation, up to the new account.
Register(r) ==
  /\ Goes(r, "idle", "create user")
  /\ \E i \in invitations :
       /\ i.status = "pending"
       /\ EmailFree(i.email)
       /\ call' = [call EXCEPT ![r].op = "register", ![r].subject = i.id,
                               ![r].email = i.email]
  /\ UNCHANGED <<tables, reply>>

CreateUser(r) ==
  /\ Goes(r, "create user", "respond")
  /\ EmailFree(call[r].email)
  /\ users' = users \cup {[id |-> r, email |-> call[r].email]}
  /\ Loads(r, "user", r)
  /\ UNCHANGED <<sessions, tenancy, reply>>

\* respond of auth.go: the invitation must still be pending ...
CheckPending(r) ==
  /\ Goes(r, "respond", IF call[r].op = "reject" THEN "reject" ELSE "join organization")
  /\ UserExists(call[r].user)
  /\ \E i \in invitations : i.id = call[r].subject /\ i.status = "pending"
  /\ UNCHANGED <<tables, call, reply>>

\* ... when Limen is asked to answer it.  Limen holds the e-mail against the
\* user's.  Nothing tells whether it sees a status that changed in between:
\* the model lets it accept.
JoinOrganization(r) ==
  /\ Goes(r, "join organization", "read team")
  /\ UserExists(call[r].user)
  /\ \E i \in invitations :
       /\ i.id = call[r].subject /\ i.email = EmailOf(call[r].user)
       /\ ~IsMember(i.org, call[r].user)
       /\ members' = members \cup
            {[org |-> i.org, user |-> call[r].user, role |-> i.role]}
       /\ Resolves(i, "accepted")
       /\ Loads(r, "org", i.org)
  /\ UNCHANGED <<users, sessions, orgs, teams, teamMembers, invitationTeams, reply>>

RejectInvitation(r) ==
  /\ Finishes(r, "reject", "ok")
  /\ UserExists(call[r].user)
  /\ \E i \in invitations :
       /\ i.id = call[r].subject /\ i.email = EmailOf(call[r].user)
       /\ Resolves(i, "rejected")
  /\ UNCHANGED <<users, sessions, orgs, members, teams, teamMembers, invitationTeams, call>>

\* joinTeamIfInvited reads the invitation again and inserts.  Whatever goes
\* wrong in it is logged, and the handler goes on.
AfterTeam(r) == IF call[r].op = "register" THEN "start session" ELSE "activate"

ReadInvitationTeam(r) ==
  /\ InvitationExists(call[r].subject)
  /\ \/ /\ \A x \in invitationTeams : x.invitation # call[r].subject
        /\ Goes(r, "read team", AfterTeam(r))
        /\ UNCHANGED call
     \/ \E x \in invitationTeams :
          /\ x.invitation = call[r].subject
          /\ Goes(r, "read team", "join team")
          /\ Loads(r, "team", x.team)
  /\ UNCHANGED <<tables, reply>>

JoinTeam(r) ==
  /\ Goes(r, "join team", AfterTeam(r))
  /\ Joins(call[r].team, call[r].user)
  /\ UNCHANGED <<users, sessions, orgs, members, teams, invitations, invitationTeams,
                 call, reply>>

TeamJoinFailed(r) ==
  /\ pc[r] \in {"read team", "join team"}
  /\ pc' = [pc EXCEPT ![r] = AfterTeam(r)]
  /\ UNCHANGED <<tables, call, reply>>

StartSession(r) ==
  /\ Goes(r, "start session", "activate")
  /\ UserExists(call[r].user)
  /\ sessions' = sessions \cup {[token |-> r, user |-> call[r].user, active |-> None]}
  /\ Loads(r, "token", r)
  /\ UNCHANGED <<users, tenancy, reply>>

\* SetActiveOrganization checks session and membership, then updates; an
\* UPDATE that finds no session is no error.
CheckActive(r) ==
  /\ Goes(r, "activate", "set active")
  /\ \E s \in sessions : s.token = call[r].token /\ IsMember(call[r].org, s.user)
  /\ UNCHANGED <<tables, call, reply>>

Activated(r, s) ==
  IF s.token = call[r].token THEN [s EXCEPT !.active = call[r].org] ELSE s

SetActive(r) ==
  /\ Finishes(r, "set active", "ok")
  /\ sessions' = {Activated(r, s) : s \in sessions}
  /\ UNCHANGED <<users, tenancy, call>>
-----------------------------------------------------------------------------
\* DeleteMe: the organizations only this user owns, then the sessions, then
\* the row with everything that cascades from it.
Owns(o, u) == \E m \in members : m.org = o /\ m.user = u /\ m.role = "owner"
OtherOwner_AnyMember(o, u) == \E m \in members : m.org = o /\ m.user # u
OtherOwner(o, u) == \E v \in Id \ {u} : Owns(o, v)

CheckSoleOwner(r) ==
  /\ Goes(r, "delete me", "revoke sessions")
  /\ \A o \in orgs : Owns(o.id, call[r].user) => OtherOwner(o.id, call[r].user)
  /\ Loads(r, "known", {o.id : o \in orgs})
  /\ UNCHANGED <<tables, reply>>

RevokeAllSessions(r) ==
  /\ Goes(r, "revoke sessions", "delete user")
  /\ sessions' = {s \in sessions : s.user # call[r].user}
  /\ UNCHANGED <<users, tenancy, call, reply>>

\* ON DELETE CASCADE from users, and from invitations to invitation_teams.
Losing_Sessions(rows, u) == rows
Losing(rows, u) == {row \in rows : row.user # u}
Inviting_Kept(u) == {}
Inviting(u) == {i \in invitations : i.inviter = u}

DeleteUser(r) ==
  LET u == call[r].user
  IN  /\ Finishes(r, "delete user", "deleted")
      /\ users' = {x \in users : x.id # u}
      /\ sessions' = Losing(sessions, u)
      /\ members' = {m \in members : m.user # u}
      /\ teamMembers' = {m \in teamMembers : m.user # u}
      /\ invitations' = invitations \ Inviting(u)
      /\ invitationTeams' = {x \in invitationTeams :
                               \A i \in Inviting(u) : i.id # x.invitation}
      /\ UNCHANGED <<orgs, teams, call>>
-----------------------------------------------------------------------------
\* A check that refuses, a statement that fails, a client that went away: the
\* request ends where it stands, and what it wrote stays.
Fail(r) ==
  /\ pc[r] \notin {"idle", "read team", "join team", "done"}
  /\ pc' = [pc EXCEPT ![r] = "done"]
  /\ Answers(r, "error")
  /\ UNCHANGED <<tables, call>>

Init ==
  /\ users = {} /\ sessions = {} /\ orgs = {} /\ members = {} /\ teams = {}
  /\ teamMembers = {} /\ invitations = {} /\ invitationTeams = {}
  /\ pc = [r \in Request |-> "idle"]
  /\ call = [r \in Request |-> NoCall]
  /\ reply = [r \in Request |-> None]

Handle(r) ==
  \/ CreateOrganization(r) \/ ListTeams(r) \/ CreateTeam(r)
  \/ CheckMembership(r) \/ AddTeamMember(r) \/ RemoveTeamMember(r)
  \/ GetTeam(r) \/ CreateInvitation(r) \/ SetInvitationTeam(r) \/ Reread(r)
  \/ CheckCancel(r) \/ CancelInvitation(r)
  \/ CreateUser(r) \/ CheckPending(r) \/ JoinOrganization(r) \/ RejectInvitation(r)
  \/ ReadInvitationTeam(r) \/ JoinTeam(r) \/ TeamJoinFailed(r)
  \/ StartSession(r) \/ CheckActive(r) \/ SetActive(r)
  \/ CheckSoleOwner(r) \/ RevokeAllSessions(r) \/ DeleteUser(r)

Next ==
  \/ \E r \in Request :
       SignUp(r) \/ SignIn(r) \/ Register(r) \/ Arrive(r) \/ Handle(r) \/ Fail(r)
  \/ \E i \in invitations : Expire(i)

Spec == Init /\ [][Next]_vars
-----------------------------------------------------------------------------
TypeOK ==
  /\ users \subseteq User /\ sessions \subseteq Session
  /\ orgs \subseteq Org /\ members \subseteq Member /\ teams \subseteq Team
  /\ teamMembers \subseteq [team : Id, user : Id]
  /\ invitations \subseteq Invitation
  /\ invitationTeams \subseteq [invitation : Id, team : Id]
  /\ call \in [Request -> Call]
  /\ pc \in [Request -> PC]
  /\ reply \in [Request -> Reply \cup {None}]

\* Teams are inside organizations (README, Product Rules): whoever is in a
\* team belongs to its organization, although teams are joined through
\* invitations and by admins, each time some statements after the check.
TeamMembersInOrg ==
  \A x \in teamMembers : \E t \in teams : t.id = x.team /\ IsMember(t.org, x.user)

\* The middleware trusts the session's active organization (auth.go, comment
\* of SetActiveOrganization): it is always one the session's user belongs to,
\* and a sign-in during the deletion of the account leaves no session behind.
SessionsStayHome ==
  \A s \in sessions :
    /\ UserExists(s.user)
    /\ s.active # None => IsMember(s.active, s.user)

\* Once DELETE /api/me was answered with 204, no table has a row of that user:
\* no handler that read the account earlier brings anything back.
GoneIsGone ==
  \A r \in Request : reply[r] = "deleted" =>
    LET u == call[r].user
    IN  /\ \A x \in users : x.id # u
        /\ \A x \in sessions \cup members \cup teamMembers : x.user # u
        /\ Inviting(u) = {}

\* Nobody is made an owner (spec, Roles and teams): the founder is the only
\* owner an organization ever has.
FoundersOwn ==
  \A m \in members : m.role = "owner" => [id |-> m.org, founder |-> m.user] \in orgs

\* An organization that existed when DeleteMe looked for sole ownership keeps
\* an owner: only one founded after that look can end up without.
OwnerLeavesOnlyUnseen ==
  \A o \in orgs :
    \/ \E u \in Id : Owns(o.id, u)
    \/ \E r \in Request :
         reply[r] = "deleted" /\ call[r].user = o.founder /\ o.id \notin call[r].known

\* openapi: deleting an account is "Refused with LAST_OWNER when the user is
\* the sole owner of an organization", so every organization has an owner.
EveryOrgHasOwner == \A o \in orgs : \E u \in Id : Owns(o.id, u)

\* Spec section 5: accepting adds "the org membership [...] and, when the
\* invitation carries a team, the team membership in the same transaction".
\* An accepted invitation with a team has its user in that team, unless an
\* admin removed the user again.
AcceptanceJoinsTeam ==
  \A r \in Request : \A x \in invitationTeams :
    /\ call[r].op \in {"accept", "register"} /\ reply[r] = "ok"
    /\ call[r].subject = x.invitation
    /\ UserExists(call[r].user)
    => \/ [team |-> x.team, user |-> call[r].user] \in teamMembers
       \/ \E q \in Request : call[q].op = "remove team member"
-----------------------------------------------------------------------------
\* What others see of these tables: rows by their ids, and the sessions that
\* have an active organization.
Accounts == {u.id : u \in users}
OrgIds == {o.id : o \in orgs}
TeamIds == {[id |-> t.id, org |-> t.org] : t \in teams}
Working == {[session |-> s.token, user |-> s.user, org |-> s.active] :
              s \in {x \in sessions : x.active # None}}

Offers == {[id |-> i.id, org |-> i.org, by |-> i.inviter, role |-> i.role] : i \in invitations}

Registry == INSTANCE Memberships
              WITH accounts <- Accounts, orgs <- OrgIds, teams <- TeamIds,
                   offers <- Offers, working <- Working

\* Every statement of every handler is one of the registry's operations or
\* changes nothing there: nobody belongs, joins or works anywhere without the
\* right to at that very instant, although every check is an earlier statement.
ImplementsMemberships == Registry!Spec
=============================================================================
