--------------------------- MODULE TenancyProofs ---------------------------
(***************************************************************************)
(* Tenancy for any number of requests, accounts, organizations and teams:  *)
(* type correctness and the invariants MCTenancy checks for two requests,  *)
(* from every consistent database.                                         *)
(*                                                                         *)
(* No handler holds a lock or a transaction across its statements, so what *)
(* one has checked may be gone when it writes.  The argument is that       *)
(* nothing checked comes back changed: a row carries the id of the request *)
(* that made it (Born), so an account, an invitation, a session or an      *)
(* organization that disappeared is never made again, a member stays one   *)
(* for as long as the account lives, and a team stays in its organization. *)
(* Each step of a handler then finds what it checked, or nothing.          *)
(***************************************************************************)
EXTENDS Tenancy, TLAPS

(***************************************************************************)
(* Ids that have been given out, by the table they are for.                *)
(***************************************************************************)
Born(id, early) == id \in Founding \/ (id \in Request /\ pc[id] \notin early)
UserBorn(u) == Born(u, {"idle", "create user"})
Unsigned == {"idle", "create user", "respond", "join organization", "read team",
             "join team", "start session"}
SessionBorn(t) == Born(t, Unsigned)
OrgBorn(o) == Born(o, PC \ {"done"})
InvitationBorn(i) == Born(i, PC \ {"set team", "reread", "done"})

Rows ==
  /\ \A u \in users : UserBorn(u.id)
  /\ \A s \in sessions : SessionBorn(s.token)
  /\ \A o \in orgs : OrgBorn(o.id)
  /\ \A i \in invitations : InvitationBorn(i.id) /\ InviteRole(i.role)

\* What an id stands for does not depend on the row.
Keys ==
  /\ \A s, t \in sessions : s.token = t.token => s.user = t.user
  /\ \A o, p \in orgs : o.id = p.id => o.founder = p.founder
  /\ \A i, j \in invitations : i.id = j.id => i.org = j.org

\* The foreign keys to users.
Alive ==
  /\ \A s \in sessions : UserExists(s.user)
  /\ \A m \in members : UserExists(m.user)
  /\ \A m \in teamMembers : UserExists(m.user)
  /\ \A i \in invitations : UserExists(i.inviter)

TeamOf(t, o) == \E x \in teams : x.id = t /\ x.org = o
InvitedTo(i, o) == \A x \in invitations : x.id = i => x.org = o

\* The team an invitation names is one of the invitation's organization.
InvitationTeams ==
  \A x \in invitationTeams :
    InvitationBorn(x.invitation) /\ \E t \in teams : t.id = x.team /\ InvitedTo(x.invitation, t.org)

(***************************************************************************)
(* What a handler holds between its statements.                            *)
(***************************************************************************)
InOrg == {"create team", "insert team", "add team member", "insert team member",
          "remove team member", "invite", "create invitation", "set team", "read team",
          "join team", "start session", "activate", "set active"}
WithTeam == {"add team member", "insert team member", "set team", "join team"}
Held(r) ==
  /\ pc[r] = "idle" => call[r] = NoCall
  /\ pc[r] \notin {"idle", "create user", "done"} => call[r].user \in Id
  /\ pc[r] = "create user" => call[r].email \in Email
  /\ pc[r] \in InOrg => call[r].org \in Id
  /\ pc[r] = "insert team" => call[r].name \in Name
  /\ pc[r] \in WithTeam => call[r].team \in Id
  /\ call[r].user # None => UserBorn(call[r].user)
  /\ reply[r] # None => pc[r] = "done"

\* The team is the organization's.
Teaming(r) ==
  pc[r] \in WithTeam \cup {"invite", "create invitation"} /\ call[r].team # None =>
    TeamOf(call[r].team, call[r].org)

\* Who is about to join a team is in the organization, or gone.
InOrgOrGone(o, u) == UserBorn(u) /\ (UserExists(u) => IsMember(o, u))
Joining(r) ==
  /\ pc[r] = "insert team member" => InOrgOrGone(call[r].org, call[r].subject)
  /\ pc[r] \in {"read team", "join team"} => InOrgOrGone(call[r].org, call[r].user)

\* The invitation is to the organization the handler works for.
Invited(r) ==
  /\ pc[r] = "set team" => InvitedTo(r, call[r].org)
  /\ pc[r] = "read team" => /\ InvitationBorn(call[r].subject)
                            /\ InvitedTo(call[r].subject, call[r].org)

\* The session about to be switched is a member's.
Switching(r) ==
  pc[r] = "set active" =>
    /\ SessionBorn(call[r].token)
    /\ \A s \in sessions : s.token = call[r].token => IsMember(call[r].org, s.user)

\* Whoever is about to be deleted owns nothing of what was looked at.
Leaving(r) ==
  pc[r] \in {"revoke sessions", "delete user"} =>
    \A o \in call[r].known : OrgBorn(o) /\ ~Owns(o, call[r].user)

Gone(r) == reply[r] = "deleted" => call[r].user # None /\ ~UserExists(call[r].user)

IndInv ==
  /\ TypeOK
  /\ Rows /\ Keys /\ Alive /\ InvitationTeams
  /\ \A r \in Request : Held(r)
  /\ \A r \in Request : Teaming(r) /\ Joining(r) /\ Invited(r) /\ Switching(r)
  /\ \A r \in Request : Leaving(r) /\ Gone(r)
  /\ TeamMembersInOrg /\ SessionsStayHome /\ FoundersOwn /\ OwnerLeavesOnlyUnseen
-----------------------------------------------------------------------------

(***************************************************************************)
(* The actions, by what they change.                                       *)
(***************************************************************************)
Acts(r) == SignUp(r) \/ SignIn(r) \/ Register(r) \/ Arrive(r) \/ Handle(r) \/ Fail(r)

\* Nothing but the handler's memory and what it answers.
Looks(r) ==
  \/ ListTeams(r) \/ CheckMembership(r) \/ GetTeam(r) \/ Reread(r) \/ CheckCancel(r)
  \/ CheckPending(r) \/ ReadInvitationTeam(r) \/ TeamJoinFailed(r) \/ CheckActive(r)
  \/ CheckSoleOwner(r) \/ Register(r) \/ Arrive(r) \/ Fail(r)
WritesUsers(r) == SignUp(r) \/ CreateUser(r)
WritesSessions(r) == SignIn(r) \/ StartSession(r) \/ SetActive(r) \/ RevokeAllSessions(r)
WritesTeams(r) == CreateTeam(r) \/ AddTeamMember(r) \/ RemoveTeamMember(r) \/ JoinTeam(r)
WritesInvitations(r) ==
  CreateInvitation(r) \/ SetInvitationTeam(r) \/ CancelInvitation(r) \/ RejectInvitation(r)

LEMMA NextByEffect ==
  Next <=> \/ \E r \in Request : Acts(r)
           \/ \E i \in invitations : Expire(i)
BY DEF Next, Acts

LEMMA ActsByEffect ==
  ASSUME NEW r \in Request
  PROVE  Acts(r) <=> \/ Looks(r) \/ WritesUsers(r) \/ WritesSessions(r) \/ WritesTeams(r)
                     \/ WritesInvitations(r) \/ CreateOrganization(r)
                     \/ JoinOrganization(r) \/ DeleteUser(r)
BY DEF Acts, Handle, Looks, WritesUsers, WritesSessions, WritesTeams, WritesInvitations

LEMMA LooksEffect ==
  ASSUME NEW r \in Request, Looks(r)
  PROVE  UNCHANGED tables
BY DEF Looks, ListTeams, CheckMembership, GetTeam, Reread, CheckCancel, CheckPending,
       ReadInvitationTeam, TeamJoinFailed, CheckActive, CheckSoleOwner, Register, Arrive, Fail

\* A request moves forward, and only its own memory changes.
Forward(r) ==
  /\ pc' = [pc EXCEPT ![r] = pc'[r]]
  /\ pc[r] # "done" /\ pc'[r] \in PC \ {"idle"}
  /\ pc'[r] = "create user" => pc[r] = "idle"
  /\ pc[r] \notin Unsigned => pc'[r] \notin Unsigned
  /\ pc[r] \in {"set team", "reread"} => pc'[r] \in {"reread", "done"}
OwnMemory(r) ==
  /\ reply' = [reply EXCEPT ![r] = reply'[r]]
  /\ \A q \in Request \ {r} : call'[q] = call[q] /\ reply'[q] = reply[q]
  /\ reply'[r] = reply[r] \/ (pc'[r] = "done" /\ reply'[r] \in Reply)
  /\ pc'[r] = "done" => call'[r] = call[r]

LEMMA TeamAdminTierForward ==
  ASSUME TypeOK, NEW r \in Request, NEW op, TeamAdminTier(r, op)
  PROVE  Goes(r, "idle", op) /\ \A q \in Request \ {r} : call'[q] = call[q]
<1>1. PICK s \in sessions, m \in members, t \in teams :
        /\ Arrives(r, op, s)
        /\ call' = [call EXCEPT ![r].op = op, ![r].user = s.user, ![r].token = s.token,
                                ![r].org = t.org, ![r].team = t.id]
  BY Zenon DEF TeamAdminTier
<1> QED BY <1>1 DEF Arrives, TypeOK

LEMMA ActsForward ==
  ASSUME TypeOK, NEW r \in Request, Acts(r)
  PROVE  Forward(r) /\ OwnMemory(r)
<1> USE DEF TypeOK, PC, Op, Unsigned, Goes, Forward
<1> USE DEF Finishes, Answers, Loads, OwnMemory, Reply
<1>1. CASE SignUp(r) \/ SignIn(r)
  BY <1>1 DEF SignUp, SignIn
<1>2. CASE Register(r)
  BY <1>2 DEF Register
<1>3. CASE Arrive(r)
  <2> USE DEF Arrives
  <2>1. ASSUME NEW op, op \in {"create organization", "delete me"}, SessionTier(r, op),
               UNCHANGED reply
        PROVE  Forward(r) /\ OwnMemory(r)
    BY <2>1 DEF SessionTier
  <2>2. ASSUME NEW op, OrgTier(r, op) \/ InvitationTier(r, op), UNCHANGED reply
        PROVE  Forward(r) /\ OwnMemory(r)
    BY <2>2 DEF OrgTier, InvitationTier
  <2>3. ASSUME NEW op, op \in {"create team", "invite", "cancel"}, OrgAdminTier(r, op),
               UNCHANGED reply
        PROVE  Forward(r) /\ OwnMemory(r)
    BY <2>3 DEF OrgAdminTier
  <2>4. ASSUME NEW op, op \in {"add team member", "remove team member"}, TeamAdminTier(r, op),
               UNCHANGED reply
        PROVE  Forward(r) /\ OwnMemory(r)
    <3>1. Goes(r, "idle", op)
      BY <2>4, TeamAdminTierForward
    <3>2. \A q \in Request \ {r} : call'[q] = call[q]
      BY <2>4, TeamAdminTierForward
    <3>3. Forward(r)
      BY <2>4, <3>1
    <3> QED BY <2>4, <3>1, <3>2, <3>3
  <2> QED BY <1>3, <2>1, <2>2, <2>3, <2>4 DEF Arrive
<1>4. CASE CreateOrganization(r) \/ ListTeams(r) \/ CreateTeam(r)
  BY <1>4 DEF CreateOrganization, ListTeams, CreateTeam
<1>5. CASE CheckMembership(r) \/ AddTeamMember(r) \/ RemoveTeamMember(r)
  BY <1>5 DEF CheckMembership, AddTeamMember, RemoveTeamMember
<1>6. CASE GetTeam(r) \/ CreateInvitation(r)
  BY <1>6 DEF GetTeam, CreateInvitation
<1>7. CASE SetInvitationTeam(r) \/ Reread(r)
  BY <1>7 DEF SetInvitationTeam, Reread
<1>8. CASE CheckCancel(r) \/ CancelInvitation(r) \/ RejectInvitation(r)
  BY <1>8 DEF CheckCancel, CancelInvitation, RejectInvitation
<1>9. CASE CreateUser(r) \/ CheckPending(r) \/ JoinOrganization(r)
  <2>1. CASE CreateUser(r)
    BY <2>1 DEF CreateUser
  <2>2. CASE CheckPending(r)
    <3>1. \E to \in {"reject", "join organization"} : Goes(r, "respond", to)
      BY <2>2 DEF CheckPending
    <3> QED BY <2>2, <3>1 DEF CheckPending
  <2>3. CASE JoinOrganization(r)
    BY <2>3 DEF JoinOrganization
  <2> QED BY <1>9, <2>1, <2>2, <2>3
<1>10. CASE ReadInvitationTeam(r) \/ JoinTeam(r) \/ TeamJoinFailed(r)
  BY <1>10 DEF ReadInvitationTeam, JoinTeam, TeamJoinFailed, AfterTeam
<1>11. CASE StartSession(r) \/ CheckActive(r) \/ SetActive(r)
  BY <1>11 DEF StartSession, CheckActive, SetActive
<1>12. CASE CheckSoleOwner(r) \/ RevokeAllSessions(r) \/ DeleteUser(r)
  BY <1>12 DEF CheckSoleOwner, RevokeAllSessions, DeleteUser
<1>13. CASE Fail(r)
  BY <1>13 DEF Fail
<1> QED BY <1>1, <1>2, <1>3, <1>4, <1>5, <1>6, <1>7, <1>8, <1>9, <1>10, <1>11, <1>12,
           <1>13 DEF Acts, Handle

\* The clock changes invitations and nothing else.
LEMMA ExpireEffect ==
  ASSUME NEW i \in invitations, Expire(i)
  PROVE  UNCHANGED <<users, sessions, orgs, members, teams, teamMembers, invitationTeams,
                     pc, call, reply>>
BY DEF Expire

\* What is born stays so.
LEMMA BornStays ==
  ASSUME TypeOK, [Next]_vars, NEW id
  PROVE  /\ UserBorn(id) => UserBorn(id)'
         /\ SessionBorn(id) => SessionBorn(id)'
         /\ OrgBorn(id) => OrgBorn(id)'
         /\ InvitationBorn(id) => InvitationBorn(id)'
<1>1. CASE UNCHANGED pc
  BY <1>1 DEF UserBorn, SessionBorn, OrgBorn, InvitationBorn, Born
<1>2. ASSUME NEW r \in Request, Forward(r)
      PROVE  /\ UserBorn(id) => UserBorn(id)'
             /\ SessionBorn(id) => SessionBorn(id)'
             /\ OrgBorn(id) => OrgBorn(id)'
             /\ InvitationBorn(id) => InvitationBorn(id)'
  BY <1>2 DEF UserBorn, SessionBorn, OrgBorn, InvitationBorn, Born, Forward, TypeOK, PC
<1> QED BY <1>1, <1>2, ActsForward, NextByEffect DEF Expire, vars
-----------------------------------------------------------------------------

(***************************************************************************)
(* Types.                                                                  *)
(***************************************************************************)

\* What a tier leaves in the handler's memory.
Arrived(r) ==
  /\ UNCHANGED tables /\ reply' = reply
  /\ call' = [call EXCEPT ![r] = call'[r]] /\ call'[r] \in Call
  /\ call'[r].known = call[r].known
  /\ \E s \in sessions :
       /\ call'[r].user = s.user
       /\ \/ pc'[r] \in {"create organization", "delete me", "respond"}
          \/ /\ pc'[r] \in {"activate", "create team", "invite", "cancel"}
             /\ \E m \in members : call'[r].org = m.org
             /\ call'[r].team = call[r].team
          \/ /\ pc'[r] \in {"add team member", "remove team member"}
             /\ \E t \in teams : call'[r].org = t.org /\ call'[r].team = t.id

LEMMA ArriveEffect ==
  ASSUME TypeOK, NEW r \in Request, Arrive(r)
  PROVE  Arrived(r)
<1>0. /\ call[r] \in Call
      /\ \A s \in sessions : s.user \in Id /\ s.token \in Id
      /\ \A m \in members : m.org \in Id
      /\ \A t \in teams : t.id \in Id /\ t.org \in Id
      /\ \A i \in invitations : i.id \in Id
  BY DEF TypeOK, Session, Member, Team, Invitation
<1>1. ASSUME NEW op \in {"create organization", "delete me"}, SessionTier(r, op), UNCHANGED <<tables, reply>>
      PROVE  Arrived(r)
  <2>1. PICK s \in sessions :
          /\ Arrives(r, op, s)
          /\ call' = [call EXCEPT ![r].op = op, ![r].user = s.user, ![r].token = s.token]
    BY <1>1 DEF SessionTier
  <2> DEFINE new == [call[r] EXCEPT !.op = op, !.user = s.user, !.token = s.token]
  <2>2. new \in Call /\ new.user = s.user /\ new.known = call[r].known
    BY <1>0 DEF Call, Op
  <2>3. call' = [call EXCEPT ![r] = new]
    BY <2>1
  <2>4. pc'[r] = op
    BY <2>1 DEF Arrives, Goes, TypeOK
  <2> HIDE DEF new
  <2>5. call'[r] = new
    BY <2>3 DEF TypeOK
  <2> QED BY <1>1, <2>1, <2>2, <2>3, <2>4, <2>5 DEF Arrived, Arrives
<1>2. ASSUME NEW op \in {"accept", "reject"}, InvitationTier(r, op), UNCHANGED <<tables, reply>>
      PROVE  Arrived(r)
  <2>1. PICK s \in sessions, i \in invitations :
          /\ Arrives(r, "respond", s)
          /\ call' = [call EXCEPT ![r].op = op, ![r].user = s.user, ![r].token = s.token,
                   ![r].subject = i.id]
    BY <1>2 DEF InvitationTier
  <2> DEFINE new == [call[r] EXCEPT !.op = op, !.user = s.user, !.token = s.token,
                   !.subject = i.id]
  <2>2. new \in Call /\ new.user = s.user /\ new.known = call[r].known
    BY <1>0 DEF Call, Op
  <2>3. call' = [call EXCEPT ![r] = new]
    BY <2>1
  <2>4. pc'[r] = "respond"
    BY <2>1 DEF Arrives, Goes, TypeOK
  <2> HIDE DEF new
  <2>5. call'[r] = new
    BY <2>3 DEF TypeOK
  <2> QED BY <1>2, <2>1, <2>2, <2>3, <2>4, <2>5 DEF Arrived, Arrives
<1>3. ASSUME NEW op \in {"switch"}, OrgTier(r, op), UNCHANGED <<tables, reply>>
      PROVE  Arrived(r)
  <2>1. PICK s \in sessions, m \in members :
          /\ Arrives(r, "activate", s)
          /\ call' = [call EXCEPT ![r].op = op, ![r].user = s.user, ![r].token = s.token, ![r].org = m.org]
    BY <1>3 DEF OrgTier
  <2> DEFINE new == [call[r] EXCEPT !.op = op, !.user = s.user, !.token = s.token, !.org = m.org]
  <2>2. /\ new \in Call /\ new.user = s.user /\ new.known = call[r].known
        /\ new.org = m.org /\ new.team = call[r].team
    BY <1>0 DEF Call, Op
  <2>3. call' = [call EXCEPT ![r] = new]
    BY <2>1
  <2>4. pc'[r] = "activate"
    BY <2>1 DEF Arrives, Goes, TypeOK
  <2> HIDE DEF new
  <2>5. call'[r] = new
    BY <2>3 DEF TypeOK
  <2> QED BY <1>3, <2>1, <2>2, <2>3, <2>4, <2>5 DEF Arrived, Arrives
<1>4. ASSUME NEW op \in {"create team", "invite", "cancel"}, OrgAdminTier(r, op), UNCHANGED <<tables, reply>>
      PROVE  Arrived(r)
  <2>1. PICK s \in sessions, m \in members :
          /\ Arrives(r, op, s)
          /\ call' = [call EXCEPT ![r].op = op, ![r].user = s.user, ![r].token = s.token, ![r].org = m.org]
    BY <1>4 DEF OrgAdminTier
  <2> DEFINE new == [call[r] EXCEPT !.op = op, !.user = s.user, !.token = s.token, !.org = m.org]
  <2>2. /\ new \in Call /\ new.user = s.user /\ new.known = call[r].known
        /\ new.org = m.org /\ new.team = call[r].team
    BY <1>0 DEF Call, Op
  <2>3. call' = [call EXCEPT ![r] = new]
    BY <2>1
  <2>4. pc'[r] = op
    BY <2>1 DEF Arrives, Goes, TypeOK
  <2> HIDE DEF new
  <2>5. call'[r] = new
    BY <2>3 DEF TypeOK
  <2> QED BY <1>4, <2>1, <2>2, <2>3, <2>4, <2>5 DEF Arrived, Arrives
<1>5. ASSUME NEW op \in {"add team member", "remove team member"}, TeamAdminTier(r, op), UNCHANGED <<tables, reply>>
      PROVE  Arrived(r)
  <2>1. PICK s \in sessions, m \in members, t \in teams :
          /\ Arrives(r, op, s)
          /\ call' = [call EXCEPT ![r].op = op, ![r].user = s.user, ![r].token = s.token,
                   ![r].org = t.org, ![r].team = t.id]
    BY <1>5 DEF TeamAdminTier
  <2> DEFINE new == [call[r] EXCEPT !.op = op, !.user = s.user, !.token = s.token,
                   !.org = t.org, !.team = t.id]
  <2>2. /\ new \in Call /\ new.user = s.user /\ new.known = call[r].known
        /\ new.org = t.org /\ new.team = t.id
    BY <1>0 DEF Call, Op
  <2>3. call' = [call EXCEPT ![r] = new]
    BY <2>1
  <2>4. pc'[r] = op
    BY <2>1 DEF Arrives, Goes, TypeOK
  <2> HIDE DEF new
  <2>5. call'[r] = new
    BY <2>3 DEF TypeOK
  <2> QED BY <1>5, <2>1, <2>2, <2>3, <2>4, <2>5 DEF Arrived, Arrives
<1> QED BY <1>1, <1>2, <1>3, <1>4, <1>5 DEF Arrive

LEMMA RegisterEffect ==
  ASSUME TypeOK, NEW r \in Request, Register(r)
  PROVE  /\ UNCHANGED <<tables, reply>> /\ pc[r] = "idle" /\ pc'[r] = "create user"
         /\ call' = [call EXCEPT ![r] = call'[r]] /\ call'[r] \in Call
         /\ call'[r].email \in Email
         /\ call'[r].user = call[r].user /\ call'[r].org = call[r].org
         /\ call'[r].team = call[r].team /\ call'[r].token = call[r].token
         /\ call'[r].known = call[r].known
<1>1. call[r] \in Call
  BY DEF TypeOK
<1>2. PICK i \in invitations :
        call' = [call EXCEPT ![r].op = "register", ![r].subject = i.id, ![r].email = i.email]
  BY DEF Register
<1>3. i.id \in Id /\ i.email \in Email
  BY DEF TypeOK, Invitation
<1> DEFINE new == [call[r] EXCEPT !.op = "register", !.subject = i.id, !.email = i.email]
<1>4. /\ new \in Call /\ new.email = i.email /\ new.user = call[r].user
      /\ new.org = call[r].org /\ new.team = call[r].team /\ new.token = call[r].token
      /\ new.known = call[r].known
  BY <1>1, <1>3 DEF Call, Op
<1>5. call' = [call EXCEPT ![r] = new]
  BY <1>2
<1> HIDE DEF new
<1> QED BY <1>3, <1>4, <1>5 DEF Register, Goes, TypeOK

\* One field is loaded.
LEMMA LoadsEffect ==
  ASSUME TypeOK, NEW r \in Request, NEW field, NEW value,
         \/ field = "name" /\ value \in Name
         \/ field \in {"subject", "team", "org", "user", "token"} /\ value \in Id
         \/ field = "known" /\ value \in SUBSET Id,
         Loads(r, field, value)
  PROVE  /\ call' = [call EXCEPT ![r] = call'[r]] /\ call'[r] \in Call
         /\ call'[r] = [call[r] EXCEPT ![field] = value]
<1> DEFINE new == [call[r] EXCEPT ![field] = value]
<1>1. new \in Call
  BY DEF TypeOK, Call
<1>2. call' = [call EXCEPT ![r] = new]
  BY DEF Loads, TypeOK
<1> HIDE DEF new
<1>3. call'[r] = new
  BY <1>2 DEF TypeOK
<1> QED BY <1>1, <1>2, <1>3 DEF new

\* An invitation changes its status and nothing else.
LEMMA ResolvesEffect ==
  ASSUME TypeOK, NEW i \in invitations,
         NEW status \in {"expired", "accepted", "rejected", "canceled"},
         Resolves(i, status)
  PROVE  \E j \in Invitation :
           /\ invitations' = (invitations \ {i}) \cup {j}
           /\ j.id = i.id /\ j.org = i.org /\ j.role = i.role /\ j.inviter = i.inviter
<1>1. i \in Invitation
  BY DEF TypeOK
<1> DEFINE j == [i EXCEPT !.status = status]
<1>2. /\ j \in Invitation
      /\ j.id = i.id /\ j.org = i.org /\ j.role = i.role /\ j.inviter = i.inviter
  BY <1>1 DEF Invitation
<1> HIDE DEF j
<1> QED BY <1>2 DEF Resolves, j

LEMMA CallTypeStep ==
  ASSUME TypeOK, NEW r \in Request, Held(r), Acts(r)
  PROVE  call' = [call EXCEPT ![r] = call'[r]] /\ call'[r] \in Call
<1>1. CASE UNCHANGED call
  BY <1>1 DEF TypeOK
<1>2. ASSUME NEW field, NEW value,
             \/ field = "name" /\ value \in Name
             \/ field \in {"subject", "team", "org", "user", "token"} /\ value \in Id
             \/ field = "known" /\ value \in SUBSET Id,
             Loads(r, field, value)
      PROVE  call' = [call EXCEPT ![r] = call'[r]] /\ call'[r] \in Call
  BY <1>2, LoadsEffect
<1>3. CASE ListTeams(r)
  <2>1. \E n \in Name : Loads(r, "name", n)
    BY <1>3, TenancyAssumption DEF ListTeams, ValidName
  <2> QED BY <1>2, <2>1
<1>4. CASE CheckMembership(r) \/ CheckCancel(r)
  <2>1. \E i \in Id : Loads(r, "subject", i)
    BY <1>4 DEF CheckMembership, CheckCancel, TypeOK, User, Invitation
  <2> QED BY <1>2, <2>1
<1>5. CASE GetTeam(r) \/ ReadInvitationTeam(r)
  <2>1. UNCHANGED call \/ \E i \in Id : Loads(r, "team", i)
    BY <1>5 DEF GetTeam, ReadInvitationTeam, TypeOK, Team
  <2> QED BY <1>1, <1>2, <2>1
<1>6. CASE JoinOrganization(r)
  <2>1. \E i \in Id : Loads(r, "org", i)
    BY <1>6 DEF JoinOrganization, TypeOK, Invitation
  <2> QED BY <1>2, <2>1
<1>7. CASE CreateUser(r) \/ StartSession(r)
  BY <1>2, <1>7 DEF CreateUser, StartSession, Id
<1>8. CASE CheckSoleOwner(r)
  <2>1. {o.id : o \in orgs} \in SUBSET Id
    BY DEF TypeOK, Org
  <2> QED BY <1>2, <1>8, <2>1 DEF CheckSoleOwner
<1>9. CASE Arrive(r)
  BY <1>9, ArriveEffect DEF Arrived
<1>10. CASE Register(r)
  BY <1>10, RegisterEffect
<1>11. CASE \/ SignUp(r) \/ SignIn(r) \/ CreateOrganization(r) \/ CreateTeam(r)
            \/ AddTeamMember(r) \/ RemoveTeamMember(r) \/ CreateInvitation(r)
            \/ SetInvitationTeam(r) \/ Reread(r) \/ CancelInvitation(r) \/ CheckPending(r)
            \/ RejectInvitation(r) \/ JoinTeam(r) \/ TeamJoinFailed(r) \/ CheckActive(r)
            \/ SetActive(r) \/ RevokeAllSessions(r) \/ DeleteUser(r) \/ Fail(r)
  <2>1. UNCHANGED call
    BY <1>11 DEF SignUp, SignIn, CreateOrganization, CreateTeam, AddTeamMember,
         RemoveTeamMember, CreateInvitation, SetInvitationTeam, Reread, CancelInvitation,
         CheckPending, RejectInvitation, JoinTeam, TeamJoinFailed, CheckActive, SetActive,
         RevokeAllSessions, DeleteUser, Fail
  <2> QED BY <1>1, <2>1
<1> QED BY <1>3, <1>4, <1>5, <1>6, <1>7, <1>8, <1>9, <1>10, <1>11 DEF Acts, Handle

Tables ==
  /\ users \subseteq User /\ sessions \subseteq Session
  /\ orgs \subseteq Org /\ members \subseteq Member /\ teams \subseteq Team
  /\ teamMembers \subseteq [team : Id, user : Id]
  /\ invitations \subseteq Invitation
  /\ invitationTeams \subseteq [invitation : Id, team : Id]

LEMMA TablesStep ==
  ASSUME TypeOK, NEW r \in Request, Held(r), Acts(r)
  PROVE  Tables'
<1> USE DEF Tables
<1>0. /\ r \in Id /\ Tables
      /\ pc[r] \in {"create organization", "start session", "join organization",
                    "create invitation", "join team"} => call[r].user \in Id
      /\ pc[r] \in InOrg => call[r].org \in Id
      /\ pc[r] = "create user" => call[r].email \in Email
      /\ pc[r] = "insert team" => call[r].name \in Name
      /\ pc[r] \in WithTeam => call[r].team \in Id
      /\ \A u \in users : u.id \in Id
  BY DEF Id, TypeOK, Held, User
<1>1. CASE Looks(r)
  BY <1>0, <1>1, LooksEffect DEF tables, tenancy
<1>2. CASE SignUp(r)
  <2>1. \A e \in Email : [id |-> r, email |-> e] \in User
    BY <1>0 DEF User
  <2> QED BY <1>0, <1>2, <2>1 DEF SignUp, tenancy
<1>3. CASE CreateUser(r)
  <2>1. [id |-> r, email |-> call[r].email] \in User
    BY <1>0, <1>3 DEF CreateUser, Goes, User
  <2> QED BY <1>0, <1>3, <2>1 DEF CreateUser, tenancy
<1>4. CASE SignIn(r)
  <2>1. \A u \in users : [token |-> r, user |-> u.id, active |-> None] \in Session
    BY <1>0 DEF Session
  <2> QED BY <1>0, <1>4, <2>1 DEF SignIn, tenancy
<1>5. CASE StartSession(r)
  <2>1. [token |-> r, user |-> call[r].user, active |-> None] \in Session
    BY <1>0, <1>5 DEF StartSession, Goes, Session
  <2> QED BY <1>0, <1>5, <2>1 DEF StartSession, tenancy
<1>6. CASE SetActive(r)
  <2>1. call[r].org \in Id
    BY <1>0, <1>6 DEF SetActive, Finishes, Goes, InOrg
  <2>2. ASSUME NEW s \in sessions PROVE Activated(r, s) \in Session
    BY <1>0, <2>1 DEF Activated, Session
  <2> QED BY <1>0, <1>6, <2>2 DEF SetActive, tenancy
<1>7. CASE RevokeAllSessions(r) \/ RemoveTeamMember(r) \/ DeleteUser(r)
  BY <1>0, <1>7 DEF RevokeAllSessions, RemoveTeamMember, DeleteUser, Losing, tenancy
<1>8. CASE CreateOrganization(r)
  <2>1. /\ [id |-> r, founder |-> call[r].user] \in Org
        /\ [org |-> r, user |-> call[r].user, role |-> "owner"] \in Member
    BY <1>0, <1>8 DEF CreateOrganization, Finishes, Goes, Org, Member, Role
  <2> QED BY <1>0, <1>8, <2>1 DEF CreateOrganization
<1>9. CASE CreateTeam(r)
  <2>1. [id |-> r, org |-> call[r].org, name |-> call[r].name] \in Team
    BY <1>0, <1>9 DEF CreateTeam, Finishes, Goes, InOrg, Team
  <2> QED BY <1>0, <1>9, <2>1 DEF CreateTeam
<1>10. CASE AddTeamMember(r)
  <2>1. [team |-> call[r].team, user |-> call[r].subject] \in [team : Id, user : Id]
    BY <1>0, <1>10 DEF AddTeamMember, Joins, UserExists, Finishes, Goes, WithTeam
  <2> QED BY <1>0, <1>10, <2>1 DEF AddTeamMember, Joins
<1>11. CASE JoinTeam(r)
  <2>1. [team |-> call[r].team, user |-> call[r].user] \in [team : Id, user : Id]
    BY <1>0, <1>11 DEF JoinTeam, Joins, UserExists, Goes, WithTeam
  <2> QED BY <1>0, <1>11, <2>1 DEF JoinTeam, Joins
<1>12. CASE CreateInvitation(r)
  <2>1. call[r].user \in Id /\ call[r].org \in Id
    BY <1>0, <1>12 DEF CreateInvitation, Goes, InOrg
  <2>2. PICK e \in Email, role \in Role :
          invitations' = invitations \cup
            {[id |-> r, org |-> call[r].org, email |-> e, role |-> role,
              inviter |-> call[r].user, status |-> "pending"]}
    BY <1>12 DEF CreateInvitation
  <2>3. [id |-> r, org |-> call[r].org, email |-> e, role |-> role,
         inviter |-> call[r].user, status |-> "pending"] \in Invitation
    BY <1>0, <2>1 DEF Invitation
  <2> QED BY <1>0, <1>12, <2>2, <2>3 DEF CreateInvitation
<1>13. CASE SetInvitationTeam(r)
  <2>1. [invitation |-> r, team |-> call[r].team] \in [invitation : Id, team : Id]
    BY <1>0, <1>13 DEF SetInvitationTeam, Goes, WithTeam
  <2> QED BY <1>0, <1>13, <2>1 DEF SetInvitationTeam
<1>14. CASE CancelInvitation(r) \/ RejectInvitation(r)
  <2>1. \E i \in invitations : Resolves(i, "canceled") \/ Resolves(i, "rejected")
    BY <1>14 DEF CancelInvitation, RejectInvitation
  <2>2. invitations' \subseteq Invitation
    BY <1>0, <2>1, ResolvesEffect
  <2> QED BY <1>0, <1>14, <2>2 DEF CancelInvitation, RejectInvitation
<1>15. CASE JoinOrganization(r)
  <2>1. PICK i \in invitations :
          /\ members' = members \cup {[org |-> i.org, user |-> call[r].user, role |-> i.role]}
          /\ Resolves(i, "accepted")
    BY <1>15 DEF JoinOrganization
  <2>2. invitations' \subseteq Invitation
    BY <1>0, <2>1, ResolvesEffect
  <2>3. [org |-> i.org, user |-> call[r].user, role |-> i.role] \in Member
    BY <1>0, <1>15 DEF JoinOrganization, Goes, Invitation, Member
  <2> QED BY <1>0, <1>15, <2>1, <2>2, <2>3 DEF JoinOrganization
<1> QED BY <1>1, <1>2, <1>3, <1>4, <1>5, <1>6, <1>7, <1>8, <1>9, <1>10, <1>11, <1>12, <1>13,
           <1>14, <1>15, ActsByEffect
           DEF WritesUsers, WritesSessions, WritesTeams, WritesInvitations

LEMMA TypeStep == IndInv /\ [Next]_vars => TypeOK'
<1> SUFFICES ASSUME IndInv, [Next]_vars PROVE TypeOK'
  OBVIOUS
<1> USE DEF IndInv
<1>1. ASSUME NEW r \in Request, Acts(r) PROVE TypeOK'
  <2>1. Tables'
    BY <1>1, TablesStep
  <2>2. call' \in [Request -> Call]
    BY <1>1, CallTypeStep DEF TypeOK
  <2>3. pc' \in [Request -> PC]
    BY <1>1, ActsForward DEF Forward, TypeOK
  <2>4. reply' \in [Request -> Reply \cup {None}]
    BY <1>1, ActsForward DEF OwnMemory, TypeOK
  <2> QED BY <2>1, <2>2, <2>3, <2>4 DEF TypeOK, Tables
<1>2. ASSUME NEW i \in invitations, Expire(i) PROVE TypeOK'
  <2>1. invitations' \subseteq Invitation
    BY <1>2, ResolvesEffect DEF Expire, TypeOK
  <2> QED BY <1>2, <2>1, ExpireEffect DEF TypeOK
<1>3. CASE UNCHANGED vars
  BY <1>3 DEF vars, tables, tenancy, TypeOK
<1> QED BY <1>1, <1>2, <1>3, NextByEffect
-----------------------------------------------------------------------------

(***************************************************************************)
(* Who writes a table.                                                     *)
(***************************************************************************)
LEMMA Writers ==
  ASSUME [Next]_vars
  PROVE  /\ UNCHANGED users \/ \E r \in Request : WritesUsers(r) \/ DeleteUser(r)
         /\ UNCHANGED sessions \/ \E r \in Request : WritesSessions(r) \/ DeleteUser(r)
         /\ UNCHANGED orgs \/ \E r \in Request : CreateOrganization(r)
         /\ \/ UNCHANGED members
            \/ \E r \in Request : \/ CreateOrganization(r) \/ JoinOrganization(r)
                                  \/ DeleteUser(r)
         /\ UNCHANGED teams \/ \E r \in Request : CreateTeam(r)
         /\ \/ UNCHANGED teamMembers
            \/ \E r \in Request : \/ AddTeamMember(r) \/ RemoveTeamMember(r)
                                  \/ JoinTeam(r) \/ DeleteUser(r)
         /\ \/ UNCHANGED invitations
            \/ \E r \in Request : \/ CreateInvitation(r) \/ CancelInvitation(r)
                                  \/ RejectInvitation(r) \/ JoinOrganization(r)
                                  \/ DeleteUser(r)
            \/ \E i \in invitations : Expire(i)
         /\ \/ UNCHANGED invitationTeams
            \/ \E r \in Request : SetInvitationTeam(r) \/ DeleteUser(r)
<1> USE DEF tables, tenancy
<1>1. CASE UNCHANGED tables
  BY <1>1
<1>2. ASSUME NEW r \in Request, WritesUsers(r)
      PROVE  UNCHANGED <<sessions, tenancy>>
  BY <1>2 DEF WritesUsers, SignUp, CreateUser
<1>3. ASSUME NEW r \in Request, WritesSessions(r)
      PROVE  UNCHANGED <<users, tenancy>>
  BY <1>3 DEF WritesSessions, SignIn, StartSession, SetActive, RevokeAllSessions
<1>4. ASSUME NEW r \in Request, WritesTeams(r)
      PROVE  /\ UNCHANGED <<users, sessions, orgs, members, invitations, invitationTeams>>
             /\ UNCHANGED teams \/ CreateTeam(r)
             /\ UNCHANGED teamMembers \/ ~CreateTeam(r)
  BY <1>4 DEF WritesTeams, CreateTeam, AddTeamMember, RemoveTeamMember, JoinTeam
<1>5. ASSUME NEW r \in Request, WritesInvitations(r)
      PROVE  /\ UNCHANGED <<users, sessions, orgs, members, teams, teamMembers>>
             /\ UNCHANGED invitations \/ ~SetInvitationTeam(r)
             /\ UNCHANGED invitationTeams \/ SetInvitationTeam(r)
  BY <1>5 DEF WritesInvitations, CreateInvitation, SetInvitationTeam, CancelInvitation,
              RejectInvitation
<1>6. ASSUME NEW r \in Request, CreateOrganization(r)
      PROVE  UNCHANGED <<users, sessions, teams, teamMembers, invitations, invitationTeams>>
  BY <1>6 DEF CreateOrganization
<1>7. ASSUME NEW r \in Request, JoinOrganization(r)
      PROVE  UNCHANGED <<users, sessions, orgs, teams, teamMembers, invitationTeams>>
  BY <1>7 DEF JoinOrganization
<1>8. ASSUME NEW r \in Request, DeleteUser(r) PROVE UNCHANGED <<orgs, teams>>
  BY <1>8 DEF DeleteUser
<1>9. ASSUME NEW i \in invitations, Expire(i)
      PROVE  UNCHANGED <<users, sessions, orgs, members, teams, teamMembers, invitationTeams>>
  BY <1>9 DEF Expire
<1>10. CASE UNCHANGED vars
  BY <1>1, <1>10 DEF vars
<1>11. ASSUME NEW r \in Request, Looks(r) PROVE UNCHANGED tables
  BY <1>11, LooksEffect
<1>12. CASE \E r \in Request : Acts(r)
  <2>1. PICK r \in Request : Acts(r)
    BY <1>12
  <2>2. CASE Looks(r)
    BY <1>1, <1>11, <2>2
  <2>3. CASE WritesUsers(r)
    BY <1>2, <2>3
  <2>4. CASE WritesSessions(r)
    BY <1>3, <2>4
  <2>5. CASE WritesTeams(r)
    BY <1>4, <2>5 DEF WritesTeams
  <2>6. CASE WritesInvitations(r)
    BY <1>5, <2>6 DEF WritesInvitations
  <2>7. CASE CreateOrganization(r) \/ JoinOrganization(r) \/ DeleteUser(r)
    BY <1>6, <1>7, <1>8, <2>7
  <2> QED BY <2>1, <2>2, <2>3, <2>4, <2>5, <2>6, <2>7, ActsByEffect
<1> QED BY <1>9, <1>10, <1>12, NextByEffect

(***************************************************************************)
(* What was checked stays true, or its subject is gone.                    *)
(***************************************************************************)
LEMMA TeamsAndOrgsStay ==
  ASSUME [Next]_vars
  PROVE  /\ teams \subseteq teams' /\ orgs \subseteq orgs'
         /\ \A t, o : TeamOf(t, o) => TeamOf(t, o)'
<1>1. teams \subseteq teams' /\ orgs \subseteq orgs'
  BY Writers DEF CreateOrganization, CreateTeam
<1> QED BY <1>1 DEF TeamOf

\* A user that is gone is not born again.
LEMMA UsersDie ==
  ASSUME [Next]_vars, NEW u, UserBorn(u), UserExists(u)'
  PROVE  UserExists(u)
<1>1. ASSUME NEW r \in Request, WritesUsers(r), u # r PROVE UserExists(u)
  <2>1. \E e : users' = users \cup {[id |-> r, email |-> e]}
    BY <1>1, Zenon DEF WritesUsers, SignUp, CreateUser
  <2>2. PICK e : users' = users \cup {[id |-> r, email |-> e]}
    BY <2>1
  <2>3. PICK x \in users' : x.id = u
    BY DEF UserExists
  <2>4. x # [id |-> r, email |-> e]
    BY <1>1, <2>3
  <2> QED BY <2>2, <2>3, <2>4 DEF UserExists
<1>2. ASSUME NEW r \in Request, WritesUsers(r), u = r PROVE FALSE
  BY <1>2, TenancyAssumption DEF WritesUsers, SignUp, CreateUser, Finishes, Goes, UserBorn, Born
<1>3. ASSUME NEW r \in Request, DeleteUser(r) PROVE UserExists(u)
  BY <1>3 DEF DeleteUser, UserExists
<1>4. CASE UNCHANGED users
  BY <1>4 DEF UserExists
<1> QED BY <1>1, <1>2, <1>3, <1>4, Writers

\* A member stays one for as long as the account lives.
LEMMA MembersStay ==
  ASSUME [Next]_vars, NEW o, NEW u, IsMember(o, u), UserExists(u)'
  PROVE  IsMember(o, u)'
<1>1. ASSUME NEW r \in Request, CreateOrganization(r) \/ JoinOrganization(r)
      PROVE  IsMember(o, u)'
  BY <1>1 DEF CreateOrganization, JoinOrganization, IsMember
<1>2. ASSUME NEW r \in Request, DeleteUser(r) PROVE IsMember(o, u)'
  BY <1>2 DEF DeleteUser, IsMember, UserExists
<1>3. CASE UNCHANGED members
  BY <1>3 DEF IsMember
<1> QED BY <1>1, <1>2, <1>3, Writers

\* Rows of invitations, and their organizations, are not made again.
LEMMA InvitationsStay ==
  ASSUME TypeOK, [Next]_vars, NEW k, InvitationBorn(k), NEW j \in invitations', j.id = k
  PROVE  \E i \in invitations : i.id = k /\ i.org = j.org
<1>1. ASSUME NEW r \in Request, CreateInvitation(r) PROVE \E i \in invitations : i.id = k /\ i.org = j.org
  <2>1. k # r
    BY <1>1, TenancyAssumption DEF CreateInvitation, Goes, InvitationBorn, Born, PC, Op
  <2>2. PICK e \in Email, role \in Role :
          invitations' = invitations \cup
            {[id |-> r, org |-> call[r].org, email |-> e, role |-> role,
              inviter |-> call[r].user, status |-> "pending"]}
    BY <1>1 DEF CreateInvitation
  <2>3. j \in invitations
    BY <2>1, <2>2
  <2> QED BY <2>3
<1>2. ASSUME NEW i \in invitations,
             NEW status \in {"expired", "accepted", "rejected", "canceled"},
             Resolves(i, status)
      PROVE  \E x \in invitations : x.id = k /\ x.org = j.org
  BY <1>2, ResolvesEffect
<1>3. ASSUME NEW r \in Request, CancelInvitation(r) \/ RejectInvitation(r) \/ JoinOrganization(r)
      PROVE  \E x \in invitations : x.id = k /\ x.org = j.org
  BY <1>2, <1>3 DEF CancelInvitation, RejectInvitation, JoinOrganization
<1>4. ASSUME NEW r \in Request, DeleteUser(r)
      PROVE  \E x \in invitations : x.id = k /\ x.org = j.org
  BY <1>4 DEF DeleteUser
<1>5. CASE UNCHANGED invitations \/ \E i \in invitations : Expire(i)
  BY <1>2, <1>5 DEF Expire
<1> QED BY <1>1, <1>3, <1>4, <1>5, Writers

LEMMA InvitedToStays ==
  ASSUME TypeOK, [Next]_vars, NEW k, NEW o, InvitationBorn(k), InvitedTo(k, o)
  PROVE  InvitedTo(k, o)'
BY InvitationsStay DEF InvitedTo

\* A session belongs to whoever it was opened for.
LEMMA SessionsStay ==
  ASSUME TypeOK, [Next]_vars, NEW t, SessionBorn(t), NEW x \in sessions', x.token = t
  PROVE  \E s \in sessions : s.token = t /\ s.user = x.user
<1>1. ASSUME NEW r \in Request, SignIn(r) \/ StartSession(r)
      PROVE  \E s \in sessions : s.token = t /\ s.user = x.user
  <2>1. t # r
    BY <1>1, TenancyAssumption DEF SignIn, StartSession, Finishes, Goes, SessionBorn, Born,
                                   Unsigned
  <2>2. \E u : sessions' = sessions \cup {[token |-> r, user |-> u, active |-> None]}
    BY <1>1, Zenon DEF SignIn, StartSession
  <2>3. x \in sessions
    BY <2>1, <2>2
  <2> QED BY <2>3
<1>2. ASSUME NEW r \in Request, SetActive(r)
      PROVE  \E s \in sessions : s.token = t /\ s.user = x.user
  <2>1. PICK s \in sessions : x = Activated(r, s)
    BY <1>2 DEF SetActive
  <2>2. s \in Session
    BY DEF TypeOK
  <2>3. x.token = s.token /\ x.user = s.user
    BY <2>1, <2>2 DEF Activated, Session
  <2> QED BY <2>3
<1>3. ASSUME NEW r \in Request, RevokeAllSessions(r) \/ DeleteUser(r)
      PROVE  x \in sessions
  BY <1>3 DEF RevokeAllSessions, DeleteUser, Losing
<1> QED BY <1>1, <1>2, <1>3, Writers DEF WritesSessions

\* Nobody becomes an owner of an organization that exists.
LEMMA OwnersStay ==
  ASSUME Rows, [Next]_vars, NEW o, NEW u, OrgBorn(o), Owns(o, u)'
  PROVE  Owns(o, u)
<1>0. PICK m \in members' : m.org = o /\ m.user = u /\ m.role = "owner"
  BY DEF Owns
<1>1. ASSUME NEW r \in Request, CreateOrganization(r) PROVE m \in members
  <2>1. o # r
    BY <1>1, TenancyAssumption DEF CreateOrganization, Finishes, Goes, OrgBorn, Born, PC, Op
  <2>2. members' = members \cup {[org |-> r, user |-> call[r].user, role |-> "owner"]}
    BY <1>1 DEF CreateOrganization
  <2> QED BY <1>0, <2>1, <2>2
<1>2. ASSUME NEW r \in Request, JoinOrganization(r) PROVE m \in members
  <2>1. PICK i \in invitations :
          members' = members \cup {[org |-> i.org, user |-> call[r].user, role |-> i.role]}
    BY <1>2 DEF JoinOrganization
  <2>2. i.role # "owner"
    BY DEF Rows, InviteRole
  <2> QED BY <1>0, <2>1, <2>2
<1>3. ASSUME NEW r \in Request, DeleteUser(r) PROVE m \in members
  BY <1>0, <1>3 DEF DeleteUser
<1> QED BY <1>0, <1>1, <1>2, <1>3, Writers DEF Owns
-----------------------------------------------------------------------------

(***************************************************************************)
(* Handlers.                                                               *)
(***************************************************************************)

\* Where an action leads.
LEMMA Destinations ==
  ASSUME TypeOK, NEW r \in Request, Acts(r)
  PROVE  /\ pc'[r] = "create user" => Register(r)
         /\ pc'[r] = "insert team" => ListTeams(r)
         /\ pc'[r] = "insert team member" => CheckMembership(r)
         /\ pc'[r] = "create invitation" => GetTeam(r)
         /\ pc'[r] = "set team" => CreateInvitation(r)
         /\ pc'[r] = "read team" => JoinOrganization(r)
         /\ pc'[r] = "join team" => ReadInvitationTeam(r)
         /\ pc'[r] = "set active" => CheckActive(r)
         /\ pc'[r] = "revoke sessions" => CheckSoleOwner(r)
         /\ pc'[r] = "delete user" => RevokeAllSessions(r)
         /\ pc'[r] \in {"start session", "activate"} =>
              \/ Arrive(r) \/ StartSession(r)
              \/ pc[r] \in {"read team", "join team"}
         /\ pc'[r] \in {"create team", "add team member", "remove team member", "invite"} =>
              Arrive(r)
         /\ pc[r] = "idle" => Arrive(r) \/ pc'[r] \in {"create user", "done"}
         /\ pc[r] = "create user" => CreateUser(r) \/ pc'[r] = "done"
<1> USE DEF TypeOK, Goes, Finishes
<1>1. SignUp(r) \/ SignIn(r) => pc'[r] = "done"
  BY DEF SignUp, SignIn
<1>2. Register(r) => pc[r] = "idle" /\ pc'[r] = "create user"
  BY DEF Register
<1>3. Arrive(r) => pc[r] = "idle" /\ pc'[r] \in {"create organization", "delete me",
        "respond", "activate", "create team", "invite", "cancel", "add team member",
        "remove team member"}
  <2>1. Arrive(r) => pc[r] = "idle"
    BY DEF Arrive, Arrives, SessionTier, OrgTier, OrgAdminTier, TeamAdminTier, InvitationTier
  <2> QED BY <2>1, ArriveEffect DEF Arrived
<1>4. CreateOrganization(r) \/ CreateTeam(r) \/ AddTeamMember(r) \/ RemoveTeamMember(r)
      \/ Reread(r) \/ CancelInvitation(r) \/ RejectInvitation(r) \/ SetActive(r)
      \/ DeleteUser(r) \/ Fail(r)
        => pc[r] # "idle" /\ pc'[r] = "done"
  BY DEF CreateOrganization, CreateTeam, AddTeamMember, RemoveTeamMember, Reread,
         CancelInvitation, RejectInvitation, SetActive, DeleteUser, Fail
<1>5. /\ ListTeams(r) => pc[r] = "create team" /\ pc'[r] = "insert team"
      /\ CheckMembership(r) => pc[r] = "add team member" /\ pc'[r] = "insert team member"
      /\ GetTeam(r) => pc[r] = "invite" /\ pc'[r] = "create invitation"
      /\ SetInvitationTeam(r) => pc[r] = "set team" /\ pc'[r] = "reread"
      /\ CheckCancel(r) => pc[r] = "cancel" /\ pc'[r] = "cancel invitation"
  BY DEF ListTeams, CheckMembership, GetTeam, SetInvitationTeam, CheckCancel
<1>6. CreateInvitation(r) => pc[r] = "create invitation" /\ pc'[r] \in {"reread", "set team"}
  BY DEF CreateInvitation
<1>7. CheckPending(r) => pc[r] = "respond" /\ pc'[r] \in {"reject", "join organization"}
  BY DEF CheckPending
<1>8. /\ CreateUser(r) => pc[r] = "create user" /\ pc'[r] = "respond"
      /\ JoinOrganization(r) => pc[r] = "join organization" /\ pc'[r] = "read team"
      /\ StartSession(r) => pc[r] = "start session" /\ pc'[r] = "activate"
      /\ CheckActive(r) => pc[r] = "activate" /\ pc'[r] = "set active"
  BY DEF CreateUser, JoinOrganization, StartSession, CheckActive
<1>9. /\ CheckSoleOwner(r) => pc[r] = "delete me" /\ pc'[r] = "revoke sessions"
      /\ RevokeAllSessions(r) => pc[r] = "revoke sessions" /\ pc'[r] = "delete user"
  BY DEF CheckSoleOwner, RevokeAllSessions
<1>10. /\ ReadInvitationTeam(r) =>
            pc[r] = "read team" /\ pc'[r] \in {"start session", "activate", "join team"}
       /\ JoinTeam(r) => pc[r] = "join team" /\ pc'[r] \in {"start session", "activate"}
       /\ TeamJoinFailed(r) =>
            pc[r] \in {"read team", "join team"} /\ pc'[r] \in {"start session", "activate"}
  BY DEF ReadInvitationTeam, JoinTeam, TeamJoinFailed, AfterTeam
<1> QED BY <1>1, <1>2, <1>3, <1>4, <1>5, <1>6, <1>7, <1>8, <1>9, <1>10 DEF Acts, Handle

\* Where an action starts.
LEMMA Origins ==
  ASSUME NEW r \in Request
  PROVE  /\ SignUp(r) \/ SignIn(r) \/ Register(r) \/ Arrive(r) => pc[r] = "idle"
         /\ ListTeams(r) => pc[r] = "create team"
         /\ CheckMembership(r) => pc[r] = "add team member"
         /\ GetTeam(r) => pc[r] = "invite"
         /\ CheckCancel(r) => pc[r] = "cancel"
         /\ CreateUser(r) => pc[r] = "create user"
         /\ JoinOrganization(r) => pc[r] = "join organization"
         /\ ReadInvitationTeam(r) => pc[r] = "read team"
         /\ StartSession(r) => pc[r] = "start session"
         /\ CheckActive(r) => pc[r] = "activate"
         /\ CheckSoleOwner(r) => pc[r] = "delete me"
         /\ RevokeAllSessions(r) => pc[r] = "revoke sessions"
         /\ CreateInvitation(r) => pc[r] = "create invitation"
<1>1. /\ SignUp(r) \/ SignIn(r) \/ Register(r) => pc[r] = "idle"
      /\ ListTeams(r) => pc[r] = "create team"
      /\ CheckMembership(r) => pc[r] = "add team member"
      /\ GetTeam(r) => pc[r] = "invite"
      /\ CheckCancel(r) => pc[r] = "cancel"
      /\ CreateUser(r) => pc[r] = "create user"
      /\ JoinOrganization(r) => pc[r] = "join organization"
      /\ ReadInvitationTeam(r) => pc[r] = "read team"
  BY DEF SignUp, SignIn, Register, Finishes, Goes, ListTeams, CheckMembership, GetTeam,
         CheckCancel, CreateUser, JoinOrganization, ReadInvitationTeam
<1>2. Arrive(r) => pc[r] = "idle"
  BY DEF Arrive, Arrives, Goes, SessionTier, OrgTier, OrgAdminTier, TeamAdminTier,
         InvitationTier
<1>3. /\ StartSession(r) => pc[r] = "start session"
      /\ CheckActive(r) => pc[r] = "activate"
      /\ CheckSoleOwner(r) => pc[r] = "delete me"
      /\ RevokeAllSessions(r) => pc[r] = "revoke sessions"
      /\ CreateInvitation(r) => pc[r] = "create invitation"
  BY DEF StartSession, CheckActive, CheckSoleOwner, RevokeAllSessions, CreateInvitation, Goes
<1> QED BY <1>1, <1>2, <1>3

\* What loading one field does to the others.
LEMMA Fields ==
  ASSUME TypeOK, NEW r \in Request, NEW value
  PROVE  /\ Loads(r, "name", value) =>
              /\ call'[r].name = value /\ call'[r].user = call[r].user
              /\ call'[r].org = call[r].org /\ call'[r].team = call[r].team
              /\ call'[r].subject = call[r].subject /\ call'[r].token = call[r].token
              /\ call'[r].known = call[r].known
         /\ Loads(r, "subject", value) =>
              /\ call'[r].subject = value /\ call'[r].user = call[r].user
              /\ call'[r].org = call[r].org /\ call'[r].team = call[r].team
              /\ call'[r].token = call[r].token /\ call'[r].known = call[r].known
         /\ Loads(r, "team", value) =>
              /\ call'[r].team = value /\ call'[r].user = call[r].user
              /\ call'[r].org = call[r].org /\ call'[r].subject = call[r].subject
              /\ call'[r].token = call[r].token /\ call'[r].known = call[r].known
         /\ Loads(r, "org", value) =>
              /\ call'[r].org = value /\ call'[r].user = call[r].user
              /\ call'[r].team = call[r].team /\ call'[r].subject = call[r].subject
              /\ call'[r].token = call[r].token /\ call'[r].known = call[r].known
         /\ Loads(r, "user", value) =>
              /\ call'[r].user = value /\ call'[r].org = call[r].org
              /\ call'[r].team = call[r].team /\ call'[r].subject = call[r].subject
              /\ call'[r].token = call[r].token /\ call'[r].known = call[r].known
         /\ Loads(r, "token", value) =>
              /\ call'[r].token = value /\ call'[r].user = call[r].user
              /\ call'[r].org = call[r].org /\ call'[r].team = call[r].team
              /\ call'[r].subject = call[r].subject /\ call'[r].known = call[r].known
         /\ Loads(r, "known", value) =>
              /\ call'[r].known = value /\ call'[r].user = call[r].user
              /\ call'[r].org = call[r].org /\ call'[r].team = call[r].team
              /\ call'[r].subject = call[r].subject /\ call'[r].token = call[r].token
<1>1. call[r] \in Call
  BY DEF TypeOK
<1>2. ASSUME NEW field, Loads(r, field, value)
      PROVE  call'[r] = [call[r] EXCEPT ![field] = value]
  BY <1>2 DEF Loads, TypeOK
<1>3. Loads(r, "name", value) =>
        /\ call'[r].name = value /\ call'[r].user = call[r].user
        /\ call'[r].org = call[r].org /\ call'[r].team = call[r].team
        /\ call'[r].subject = call[r].subject /\ call'[r].token = call[r].token
        /\ call'[r].known = call[r].known
  <2> SUFFICES ASSUME Loads(r, "name", value)
               PROVE  /\ call'[r].name = value
                      /\ call'[r].user = call[r].user
                      /\ call'[r].org = call[r].org
                      /\ call'[r].team = call[r].team
                      /\ call'[r].subject = call[r].subject
                      /\ call'[r].token = call[r].token
                      /\ call'[r].known = call[r].known
    OBVIOUS
  <2>1. call'[r] = [call[r] EXCEPT !.name = value]
    BY <1>2
  <2> QED BY <1>1, <2>1 DEF Call
<1>4. Loads(r, "subject", value) =>
        /\ call'[r].subject = value /\ call'[r].user = call[r].user
        /\ call'[r].org = call[r].org /\ call'[r].team = call[r].team
        /\ call'[r].token = call[r].token /\ call'[r].known = call[r].known
  <2> SUFFICES ASSUME Loads(r, "subject", value)
               PROVE  /\ call'[r].subject = value
                      /\ call'[r].user = call[r].user
                      /\ call'[r].org = call[r].org
                      /\ call'[r].team = call[r].team
                      /\ call'[r].token = call[r].token
                      /\ call'[r].known = call[r].known
    OBVIOUS
  <2>1. call'[r] = [call[r] EXCEPT !.subject = value]
    BY <1>2
  <2> QED BY <1>1, <2>1 DEF Call
<1>5. Loads(r, "team", value) =>
        /\ call'[r].team = value /\ call'[r].user = call[r].user
        /\ call'[r].org = call[r].org /\ call'[r].subject = call[r].subject
        /\ call'[r].token = call[r].token /\ call'[r].known = call[r].known
  <2> SUFFICES ASSUME Loads(r, "team", value)
               PROVE  /\ call'[r].team = value
                      /\ call'[r].user = call[r].user
                      /\ call'[r].org = call[r].org
                      /\ call'[r].subject = call[r].subject
                      /\ call'[r].token = call[r].token
                      /\ call'[r].known = call[r].known
    OBVIOUS
  <2>1. call'[r] = [call[r] EXCEPT !.team = value]
    BY <1>2
  <2> QED BY <1>1, <2>1 DEF Call
<1>6. Loads(r, "org", value) =>
        /\ call'[r].org = value /\ call'[r].user = call[r].user
        /\ call'[r].team = call[r].team /\ call'[r].subject = call[r].subject
        /\ call'[r].token = call[r].token /\ call'[r].known = call[r].known
  <2> SUFFICES ASSUME Loads(r, "org", value)
               PROVE  /\ call'[r].org = value
                      /\ call'[r].user = call[r].user
                      /\ call'[r].team = call[r].team
                      /\ call'[r].subject = call[r].subject
                      /\ call'[r].token = call[r].token
                      /\ call'[r].known = call[r].known
    OBVIOUS
  <2>1. call'[r] = [call[r] EXCEPT !.org = value]
    BY <1>2
  <2> QED BY <1>1, <2>1 DEF Call
<1>7. Loads(r, "user", value) =>
        /\ call'[r].user = value /\ call'[r].org = call[r].org
        /\ call'[r].team = call[r].team /\ call'[r].subject = call[r].subject
        /\ call'[r].token = call[r].token /\ call'[r].known = call[r].known
  <2> SUFFICES ASSUME Loads(r, "user", value)
               PROVE  /\ call'[r].user = value
                      /\ call'[r].org = call[r].org
                      /\ call'[r].team = call[r].team
                      /\ call'[r].subject = call[r].subject
                      /\ call'[r].token = call[r].token
                      /\ call'[r].known = call[r].known
    OBVIOUS
  <2>1. call'[r] = [call[r] EXCEPT !.user = value]
    BY <1>2
  <2> QED BY <1>1, <2>1 DEF Call
<1>8. Loads(r, "token", value) =>
        /\ call'[r].token = value /\ call'[r].user = call[r].user
        /\ call'[r].org = call[r].org /\ call'[r].team = call[r].team
        /\ call'[r].subject = call[r].subject /\ call'[r].known = call[r].known
  <2> SUFFICES ASSUME Loads(r, "token", value)
               PROVE  /\ call'[r].token = value
                      /\ call'[r].user = call[r].user
                      /\ call'[r].org = call[r].org
                      /\ call'[r].team = call[r].team
                      /\ call'[r].subject = call[r].subject
                      /\ call'[r].known = call[r].known
    OBVIOUS
  <2>1. call'[r] = [call[r] EXCEPT !.token = value]
    BY <1>2
  <2> QED BY <1>1, <2>1 DEF Call
<1>9. Loads(r, "known", value) =>
        /\ call'[r].known = value /\ call'[r].user = call[r].user
        /\ call'[r].org = call[r].org /\ call'[r].team = call[r].team
        /\ call'[r].subject = call[r].subject /\ call'[r].token = call[r].token
  <2> SUFFICES ASSUME Loads(r, "known", value)
               PROVE  /\ call'[r].known = value
                      /\ call'[r].user = call[r].user
                      /\ call'[r].org = call[r].org
                      /\ call'[r].team = call[r].team
                      /\ call'[r].subject = call[r].subject
                      /\ call'[r].token = call[r].token
    OBVIOUS
  <2>1. call'[r] = [call[r] EXCEPT !.known = value]
    BY <1>2
  <2> QED BY <1>1, <2>1 DEF Call
<1> QED BY <1>3, <1>4, <1>5, <1>6, <1>7, <1>8, <1>9

\* Which action loads a field, and with what.
LEMMA Loading ==
  ASSUME TypeOK, NEW r \in Request, Acts(r)
  PROVE  /\ \/ call'[r].user = call[r].user
            \/ CreateUser(r) \/ Arrive(r)
         /\ CreateUser(r) => call'[r].user = r
         /\ \/ call'[r].org = call[r].org
            \/ JoinOrganization(r)
            \/ Arrive(r)
         /\ \/ call'[r].team = call[r].team
            \/ GetTeam(r) /\ \E t \in teams : t.org = call[r].org /\ call'[r].team = t.id
            \/ ReadInvitationTeam(r)
            \/ Arrive(r)
         /\ \/ call'[r].subject = call[r].subject
            \/ CheckMembership(r) \/ CheckCancel(r) \/ Register(r) \/ Arrive(r)
         /\ \/ call'[r].token = call[r].token
            \/ StartSession(r) /\ call'[r].token = r
            \/ Arrive(r)
         /\ \/ call'[r].known = call[r].known
            \/ CheckSoleOwner(r) /\ call'[r].known = {o.id : o \in orgs}
         /\ ListTeams(r) => call'[r].name \in Name
         /\ CheckMembership(r) =>
              \E u \in users : IsMember(call[r].org, u.id) /\ call'[r].subject = u.id
         /\ ReadInvitationTeam(r) /\ pc'[r] = "join team" =>
              /\ InvitationExists(call[r].subject)
              /\ \E x \in invitationTeams :
                   x.invitation = call[r].subject /\ call'[r].team = x.team
         /\ JoinOrganization(r) =>
              \E i \in invitations :
                /\ i.id = call[r].subject /\ call'[r].org = i.org
                /\ members' = members \cup
                     {[org |-> i.org, user |-> call[r].user, role |-> i.role]}
<1> USE DEF InvitationExists
<1>1. CASE ListTeams(r)
  <2>1. PICK n \in Name : Loads(r, "name", n)
    BY <1>1, TenancyAssumption DEF ListTeams, ValidName
  <2>2. call'[r].name = n
    BY <2>1 DEF Loads, TypeOK, Call
  <2> QED BY <1>1, <2>1, <2>2, Fields, Origins
<1>2. CASE CheckMembership(r)
  <2>1. PICK u \in users : IsMember(call[r].org, u.id) /\ Loads(r, "subject", u.id)
    BY <1>2 DEF CheckMembership, Admits
  <2>2. call'[r].subject = u.id
    BY <2>1, Fields
  <2> QED BY <1>2, <2>1, <2>2, Fields, Origins
<1>3. CASE CheckCancel(r)
  <2>1. PICK i : Loads(r, "subject", i)
    BY <1>3 DEF CheckCancel
  <2> QED BY <1>3, <2>1, Fields, Origins
<1>4. CASE GetTeam(r)
  <2>1. UNCHANGED call \/ \E t \in teams : t.org = call[r].org /\ Loads(r, "team", t.id)
    BY <1>4 DEF GetTeam, TeamInOrg
  <2> QED BY <1>4, <2>1, Fields, Origins
<1>5. CASE ReadInvitationTeam(r)
  <2>1. /\ InvitationExists(call[r].subject)
        /\ \/ UNCHANGED call /\ pc'[r] # "join team"
           \/ \E x \in invitationTeams :
                x.invitation = call[r].subject /\ Loads(r, "team", x.team)
    BY <1>5 DEF ReadInvitationTeam, Goes, AfterTeam, TypeOK
  <2>2. /\ call'[r].user = call[r].user /\ call'[r].org = call[r].org
        /\ call'[r].subject = call[r].subject /\ call'[r].token = call[r].token
        /\ call'[r].known = call[r].known
    BY <2>1, Fields
  <2>3. pc'[r] = "join team" =>
          \E x \in invitationTeams : x.invitation = call[r].subject /\ call'[r].team = x.team
    <3>1. ASSUME NEW x \in invitationTeams, Loads(r, "team", x.team)
          PROVE  call'[r].team = x.team
      BY <3>1, Fields
    <3> QED BY <2>1, <3>1
  <2>4. pc[r] = "read team"
    BY <1>5, Origins
  <2> QED BY <1>5, <2>1, <2>2, <2>3, <2>4, Origins
<1>6. CASE JoinOrganization(r)
  <2>1. PICK i \in invitations :
          /\ i.id = call[r].subject /\ Loads(r, "org", i.org)
          /\ members' = members \cup
               {[org |-> i.org, user |-> call[r].user, role |-> i.role]}
    BY <1>6 DEF JoinOrganization
  <2>2. /\ call'[r].org = i.org /\ call'[r].user = call[r].user
        /\ call'[r].team = call[r].team /\ call'[r].subject = call[r].subject
        /\ call'[r].token = call[r].token /\ call'[r].known = call[r].known
    BY <2>1, Fields
  <2> QED BY <1>6, <2>1, <2>2, Origins
<1>7. CASE CreateUser(r)
  BY <1>7, Fields, Origins DEF CreateUser
<1>8. CASE StartSession(r)
  BY <1>8, Fields, Origins DEF StartSession
<1>9. CASE CheckSoleOwner(r)
  BY <1>9, Fields, Origins DEF CheckSoleOwner
<1>10. CASE Arrive(r)
  BY <1>10, ArriveEffect, Origins DEF Arrived
<1>11. CASE Register(r)
  BY <1>11, RegisterEffect, Origins
<1>12. CASE UNCHANGED call /\ ~(\/ ListTeams(r) \/ CheckMembership(r) \/ JoinOrganization(r)
                                \/ ReadInvitationTeam(r) \/ CreateUser(r))
  BY <1>12
<1> QED BY <1>1, <1>2, <1>3, <1>4, <1>5, <1>6, <1>7, <1>8, <1>9, <1>10, <1>11, <1>12
        DEF Acts, Handle, SignUp, SignIn, CreateOrganization, CreateTeam, AddTeamMember,
         RemoveTeamMember, CreateInvitation, SetInvitationTeam, Reread, CancelInvitation,
         CheckPending, RejectInvitation, JoinTeam, TeamJoinFailed, CheckActive, SetActive,
         RevokeAllSessions, DeleteUser, Fail

\* A request another one's step leaves alone.
Quiet(q) == pc'[q] = pc[q] /\ call'[q] = call[q] /\ reply'[q] = reply[q]

LEMMA QuietOrActs ==
  ASSUME TypeOK, [Next]_vars, NEW q \in Request
  PROVE  Quiet(q) \/ Acts(q)
<1>1. ASSUME NEW r \in Request, Acts(r), q # r PROVE Quiet(q)
  <2>1. Forward(r) /\ OwnMemory(r)
    BY <1>1, ActsForward
  <2> QED BY <1>1, <2>1 DEF Quiet, Forward, OwnMemory, TypeOK
<1> QED BY <1>1, NextByEffect, ExpireEffect DEF Quiet, vars

LEMMA HeldStep ==
  ASSUME IndInv, [Next]_vars, NEW q \in Request
  PROVE  Held(q)'
<1> USE DEF IndInv
<1>1. CASE Quiet(q)
  BY <1>1, BornStays DEF Quiet, Held
<1>2. CASE Acts(q)
  <2>0. /\ call[q] \in Call /\ call'[q] \in Call /\ Held(q) /\ q \in Id
        /\ \A s \in sessions : s.user \in Id /\ UserBorn(s.user)
        /\ \A m \in members : m.org \in Id
        /\ \A t \in teams : t.id \in Id /\ t.org \in Id
        /\ \A i \in invitations : i.org \in Id
        /\ \A x \in invitationTeams : x.team \in Id
    BY <1>2, CallTypeStep DEF TypeOK, Session, Member, Team, Invitation, Alive, Rows,
                              UserExists, Id
  <2> DEFINE Known(u) == u \in Founding \/ (u \in Request /\ pc'[u] \notin {"idle", "create user"})
  <2>8. \A u : UserBorn(u) => Known(u)
    BY BornStays DEF UserBorn, Born
  <2>1. pc'[q] # "idle" /\ pc[q] # "done" /\ OwnMemory(q)
    BY <1>2, ActsForward DEF Forward, PC
  <2>2. /\ pc'[q] \notin {"idle", "create user", "done"} => call'[q].user \in Id
        /\ call'[q].user # None => Known(call'[q].user)
    <3>1. CASE Arrive(q)
      <4>1. PICK s \in sessions : call'[q].user = s.user
        BY <3>1, ArriveEffect DEF Arrived
      <4> QED BY <2>0, <2>8, <4>1
    <3>2. CASE CreateUser(q) /\ call'[q].user = q
      <4>1. pc'[q] = "respond"
        BY <3>2 DEF CreateUser, Goes, TypeOK
      <4> QED BY <2>0, <3>2, <4>1
    <3>3. CASE ~Arrive(q) /\ ~CreateUser(q) /\ call'[q].user = call[q].user
      <4>1. call[q].user # None => Known(call[q].user)
        BY <2>0, <2>8 DEF Held
      <4>2. pc'[q] \notin {"idle", "create user", "done"} =>
              pc[q] \notin {"idle", "create user", "done"}
        BY <1>2, <2>1, <3>3, Destinations
      <4> QED BY <2>0, <3>3, <4>1, <4>2 DEF Held
    <3> QED BY <1>2, <3>1, <3>2, <3>3, Loading
  <2>3. pc'[q] \in InOrg => call'[q].org \in Id
    <3>1. CASE Arrive(q)
      BY <2>0, <3>1, ArriveEffect DEF Arrived, InOrg
    <3>2. CASE JoinOrganization(q)
      BY <1>2, <2>0, <3>2, Loading
    <3>3. CASE call'[q].org = call[q].org /\ ~Arrive(q) /\ ~JoinOrganization(q)
      <4>1. pc'[q] \in InOrg => pc[q] \in InOrg
        BY <1>2, <3>3, Destinations, Origins DEF InOrg
      <4> QED BY <2>0, <3>3, <4>1 DEF Held
    <3> QED BY <1>2, <2>0, <3>1, <3>2, <3>3, Loading
  <2>4. pc'[q] = "create user" => call'[q].email \in Email
    BY <1>2, Destinations, RegisterEffect
  <2>5. pc'[q] = "insert team" => call'[q].name \in Name
    BY <1>2, Loading, Destinations
  <2>6. pc'[q] \in WithTeam => call'[q].team \in Id
    <3>1. CASE pc'[q] = "add team member"
      BY <1>2, <2>0, <3>1, Destinations, ArriveEffect DEF Arrived
    <3>2. CASE pc'[q] = "insert team member"
      <4>1. pc[q] = "add team member" /\ call'[q].team = call[q].team
        BY <1>2, <2>0, <3>2, Destinations, Loading, Origins
      <4> QED BY <2>0, <4>1 DEF Held, WithTeam
    <3>3. CASE pc'[q] = "set team"
      <4>1. CreateInvitation(q)
        BY <1>2, <3>3, Destinations
      <4>2. call' = call /\ call[q].team # None
        BY <3>3, <4>1 DEF CreateInvitation, Goes, TypeOK
      <4> QED BY <2>0, <4>2 DEF Call
    <3>4. CASE pc'[q] = "join team"
      BY <1>2, <2>0, <3>4, Loading, Destinations
    <3> QED BY <3>1, <3>2, <3>3, <3>4 DEF WithTeam
  <2>7. reply'[q] # None => pc'[q] = "done"
    BY <2>0, <2>1 DEF OwnMemory, Held
  <2> QED BY <2>1, <2>2, <2>3, <2>4, <2>5, <2>6, <2>7 DEF Held, UserBorn, Born
<1> QED BY <1>1, <1>2, QuietOrActs
-----------------------------------------------------------------------------

(***************************************************************************)
(* The tables stay consistent.                                             *)
(***************************************************************************)

\* A user leaves by its own deletion only.
LEMMA UsersStay ==
  ASSUME [Next]_vars, NEW u, UserExists(u)
  PROVE  UserExists(u)' \/ \E r \in Request : DeleteUser(r) /\ call[r].user = u
<1>1. ASSUME NEW r \in Request, WritesUsers(r) PROVE UserExists(u)'
  BY <1>1 DEF WritesUsers, SignUp, CreateUser, UserExists
<1>2. ASSUME NEW r \in Request, DeleteUser(r), call[r].user # u PROVE UserExists(u)'
  BY <1>2 DEF DeleteUser, UserExists
<1>3. CASE UNCHANGED users
  BY <1>3 DEF UserExists
<1> QED BY <1>1, <1>2, <1>3, Writers

\* The invitation a request makes.
LEMMA InviteEffect ==
  ASSUME NEW r \in Request, CreateInvitation(r), NEW i \in invitations', i \notin invitations
  PROVE  /\ i.id = r /\ i.org = call[r].org /\ i.inviter = call[r].user
         /\ InviteRole(i.role)
<1>1. PICK e \in Email, role \in Role :
        /\ InviteRole(role)
        /\ invitations' = invitations \cup
             {[id |-> r, org |-> call[r].org, email |-> e, role |-> role,
               inviter |-> call[r].user, status |-> "pending"]}
  BY DEF CreateInvitation
<1>2. i = [id |-> r, org |-> call[r].org, email |-> e, role |-> role,
           inviter |-> call[r].user, status |-> "pending"]
  BY <1>1
<1> QED BY <1>1, <1>2

LEMMA RowsStep == IndInv /\ [Next]_vars => Rows'
<1> SUFFICES ASSUME IndInv, [Next]_vars PROVE Rows'
  OBVIOUS
<1>0. TypeOK /\ Rows
  BY DEF IndInv
<1>1. ASSUME NEW u \in users' PROVE UserBorn(u.id)'
  <2>1. CASE u \in users
    BY <1>0, <2>1, BornStays DEF Rows
  <2>2. ASSUME NEW r \in Request, WritesUsers(r), u \notin users PROVE UserBorn(u.id)'
    <3>1. \E e : users' = users \cup {[id |-> r, email |-> e]}
      BY <2>2, Zenon DEF WritesUsers, SignUp, CreateUser
    <3>2. u.id = r
      BY <2>2, <3>1
    <3>3. pc'[r] \in {"done", "respond"}
      BY <1>0, <2>2 DEF WritesUsers, SignUp, CreateUser, Finishes, Goes, TypeOK
    <3> QED BY <3>2, <3>3 DEF UserBorn, Born
  <2>3. ASSUME NEW r \in Request, DeleteUser(r) PROVE u \in users
    BY <2>3 DEF DeleteUser
  <2> QED BY <2>1, <2>2, <2>3, Writers
<1>2. ASSUME NEW s \in sessions' PROVE SessionBorn(s.token)'
  <2>1. CASE s \in sessions
    BY <1>0, <2>1, BornStays DEF Rows
  <2>2. ASSUME NEW r \in Request, SignIn(r) \/ StartSession(r), s \notin sessions
        PROVE  SessionBorn(s.token)'
    <3>1. \E u : sessions' = sessions \cup {[token |-> r, user |-> u, active |-> None]}
      BY <2>2, Zenon DEF SignIn, StartSession
    <3>2. s.token = r
      BY <2>2, <3>1
    <3>3. pc'[r] \in {"done", "activate"}
      BY <1>0, <2>2 DEF SignIn, StartSession, Finishes, Goes, TypeOK
    <3> QED BY <3>2, <3>3 DEF SessionBorn, Born, Unsigned
  <2>3. ASSUME NEW r \in Request, SetActive(r) PROVE SessionBorn(s.token)'
    <3>1. PICK t \in sessions : s = Activated(r, t)
      BY <2>3 DEF SetActive
    <3>2. t \in Session /\ SessionBorn(t.token)
      BY <1>0 DEF TypeOK, Rows
    <3>3. s.token = t.token
      BY <3>1, <3>2 DEF Activated, Session
    <3> QED BY <1>0, <3>2, <3>3, BornStays
  <2>4. ASSUME NEW r \in Request, RevokeAllSessions(r) \/ DeleteUser(r) PROVE s \in sessions
    BY <2>4 DEF RevokeAllSessions, DeleteUser, Losing
  <2> QED BY <2>1, <2>2, <2>3, <2>4, Writers DEF WritesSessions
<1>3. ASSUME NEW o \in orgs' PROVE OrgBorn(o.id)'
  <2>1. CASE o \in orgs
    BY <1>0, <2>1, BornStays DEF Rows
  <2>2. ASSUME NEW r \in Request, CreateOrganization(r), o \notin orgs PROVE OrgBorn(o.id)'
    <3>1. orgs' = orgs \cup {[id |-> r, founder |-> call[r].user]}
      BY <2>2 DEF CreateOrganization
    <3>2. o.id = r
      BY <2>2, <3>1
    <3>3. pc'[r] = "done"
      BY <1>0, <2>2 DEF CreateOrganization, Finishes, Goes, TypeOK
    <3> QED BY <3>2, <3>3 DEF OrgBorn, Born
  <2> QED BY <2>1, <2>2, Writers
<1>4. ASSUME NEW i \in invitations' PROVE InvitationBorn(i.id)' /\ InviteRole(i.role)
  <2>1. CASE i \in invitations
    BY <1>0, <2>1, BornStays DEF Rows
  <2>2. ASSUME NEW r \in Request, CreateInvitation(r), i \notin invitations
        PROVE InvitationBorn(i.id)' /\ InviteRole(i.role)
    <3>1. i.id = r /\ InviteRole(i.role)
      BY <2>2, InviteEffect
    <3>2. pc'[r] \in {"set team", "reread"}
      BY <1>0, <2>2 DEF CreateInvitation, Goes, TypeOK
    <3> QED BY <3>1, <3>2 DEF InvitationBorn, Born
  <2>3. ASSUME NEW j \in invitations,
               NEW status \in {"expired", "accepted", "rejected", "canceled"},
               Resolves(j, status)
        PROVE InvitationBorn(i.id)' /\ InviteRole(i.role)
    <3>1. \/ i \in invitations
          \/ i.id = j.id /\ i.role = j.role
      BY <1>0, <2>3, ResolvesEffect
    <3>2. InvitationBorn(j.id) /\ InviteRole(j.role)
      BY <1>0 DEF Rows
    <3> QED BY <1>0, <2>1, <3>1, <3>2, BornStays
  <2>4. ASSUME NEW r \in Request, DeleteUser(r) PROVE i \in invitations
    BY <2>4 DEF DeleteUser
  <2> QED BY <2>1, <2>2, <2>3, <2>4, Writers
          DEF CancelInvitation, RejectInvitation, JoinOrganization, Expire
<1> QED BY <1>1, <1>2, <1>3, <1>4 DEF Rows

LEMMA KeysStep == IndInv /\ [Next]_vars => Keys'
<1> SUFFICES ASSUME IndInv, [Next]_vars PROVE Keys'
  OBVIOUS
<1>0. TypeOK /\ Rows /\ Keys
  BY DEF IndInv
<1>1. ASSUME NEW s \in sessions', NEW t \in sessions', s.token = t.token
      PROVE  s.user = t.user
  <2>1. CASE SessionBorn(s.token)
    BY <1>0, <1>1, <2>1, SessionsStay DEF Keys
  <2>2. CASE ~SessionBorn(s.token)
    <3>1. s \notin sessions /\ t \notin sessions
      BY <1>0, <1>1, <2>2 DEF Rows
    <3>2. ASSUME NEW r \in Request, SetActive(r) PROVE FALSE
      <4>1. PICK x \in sessions : s = Activated(r, x)
        BY <3>2 DEF SetActive
      <4>2. x \in Session /\ SessionBorn(x.token)
        BY <1>0 DEF TypeOK, Rows
      <4>3. s.token = x.token
        BY <4>1, <4>2 DEF Activated, Session
      <4> QED BY <2>2, <4>2, <4>3
    <3>3. ASSUME NEW r \in Request, RevokeAllSessions(r) \/ DeleteUser(r) PROVE FALSE
      BY <3>1, <3>3 DEF RevokeAllSessions, DeleteUser, Losing
    <3>4. ASSUME NEW r \in Request, SignIn(r) \/ StartSession(r) PROVE s.user = t.user
      <4>1. \E u : sessions' = sessions \cup {[token |-> r, user |-> u, active |-> None]}
        BY <3>4, Zenon DEF SignIn, StartSession
      <4> QED BY <3>1, <4>1
    <3> QED BY <3>1, <3>2, <3>3, <3>4, Writers DEF WritesSessions
  <2> QED BY <2>1, <2>2
<1>2. ASSUME NEW o \in orgs', NEW p \in orgs', o.id = p.id
      PROVE  o.founder = p.founder
  <2>1. CASE UNCHANGED orgs
    BY <1>0, <1>2, <2>1 DEF Keys
  <2>2. ASSUME NEW r \in Request, CreateOrganization(r) PROVE o.founder = p.founder
    <3>1. ~OrgBorn(r)
      BY <2>2, TenancyAssumption DEF CreateOrganization, Finishes, Goes, OrgBorn, Born, PC, Op
    <3>2. \A x \in orgs : x.id # r
      BY <1>0, <3>1 DEF Rows
    <3>3. orgs' = orgs \cup {[id |-> r, founder |-> call[r].user]}
      BY <2>2 DEF CreateOrganization
    <3> QED BY <1>0, <1>2, <3>2, <3>3 DEF Keys
  <2> QED BY <2>1, <2>2, Writers
<1>3. ASSUME NEW i \in invitations', NEW j \in invitations', i.id = j.id
      PROVE  i.org = j.org
  <2>1. CASE InvitationBorn(i.id)
    BY <1>0, <1>3, <2>1, InvitationsStay DEF Keys
  <2>2. CASE ~InvitationBorn(i.id)
    <3>1. i \notin invitations /\ j \notin invitations
      BY <1>0, <1>3, <2>2 DEF Rows
    <3>2. ASSUME NEW x \in invitations,
                 NEW status \in {"expired", "accepted", "rejected", "canceled"},
                 Resolves(x, status)
          PROVE FALSE
      <4>1. i.id = x.id
        BY <1>0, <3>1, <3>2, ResolvesEffect
      <4> QED BY <1>0, <2>2, <4>1 DEF Rows
    <3>3. ASSUME NEW r \in Request, DeleteUser(r) PROVE FALSE
      BY <3>1, <3>3 DEF DeleteUser
    <3>4. ASSUME NEW r \in Request, CreateInvitation(r) PROVE i.org = j.org
      BY <3>1, <3>4, InviteEffect
    <3> QED BY <3>1, <3>2, <3>3, <3>4, Writers
            DEF CancelInvitation, RejectInvitation, JoinOrganization, Expire
  <2> QED BY <2>1, <2>2
<1> QED BY <1>1, <1>2, <1>3 DEF Keys

LEMMA AliveStep == IndInv /\ [Next]_vars => Alive'
<1> SUFFICES ASSUME IndInv, [Next]_vars PROVE Alive'
  OBVIOUS
<1>0. TypeOK /\ Alive
  BY DEF IndInv
<1>1. ASSUME NEW u, UserExists(u), \A r \in Request : ~(DeleteUser(r) /\ call[r].user = u)
      PROVE  UserExists(u)'
  BY <1>1, UsersStay
<1>3. ASSUME NEW s \in sessions' PROVE UserExists(s.user)'
  <2>1. CASE s \in sessions
    <3>1. \A r \in Request : DeleteUser(r) => call[r].user # s.user
      BY DEF DeleteUser, Losing
    <3> QED BY <1>0, <1>1, <2>1, <3>1 DEF Alive
  <2>2. ASSUME NEW r \in Request, SignIn(r) \/ StartSession(r), s \notin sessions
        PROVE  UserExists(s.user)'
    <3>1. UNCHANGED users /\ \E u : /\ UserExists(u)
                                    /\ sessions' = sessions \cup
                                         {[token |-> r, user |-> u, active |-> None]}
      BY <2>2 DEF SignIn, StartSession, UserExists
    <3> QED BY <2>2, <3>1 DEF UserExists
  <2>3. ASSUME NEW r \in Request, SetActive(r) PROVE UserExists(s.user)'
    <3>1. PICK t \in sessions : s = Activated(r, t)
      BY <2>3 DEF SetActive
    <3>2. t \in Session /\ UserExists(t.user)
      BY <1>0 DEF TypeOK, Alive
    <3>3. s.user = t.user
      BY <3>1, <3>2 DEF Activated, Session
    <3> QED BY <2>3, <3>2, <3>3 DEF SetActive, UserExists
  <2>4. ASSUME NEW r \in Request, RevokeAllSessions(r) \/ DeleteUser(r) PROVE s \in sessions
    BY <2>4 DEF RevokeAllSessions, DeleteUser, Losing
  <2> QED BY <2>1, <2>2, <2>3, <2>4, Writers DEF WritesSessions
<1>4. ASSUME NEW m \in members' PROVE UserExists(m.user)'
  <2>1. CASE m \in members
    <3>1. \A r \in Request : DeleteUser(r) => call[r].user # m.user
      BY DEF DeleteUser
    <3> QED BY <1>0, <1>1, <2>1, <3>1 DEF Alive
  <2>2. ASSUME NEW r \in Request, CreateOrganization(r) \/ JoinOrganization(r), m \notin members
        PROVE  UserExists(m.user)'
    <3>1. UNCHANGED users /\ UserExists(call[r].user)
      BY <2>2 DEF CreateOrganization, JoinOrganization
    <3>2. \E o, role : members' = members \cup
                         {[org |-> o, user |-> call[r].user, role |-> role]}
      BY <2>2, Zenon DEF CreateOrganization, JoinOrganization
    <3>3. m.user = call[r].user
      BY <2>2, <3>2
    <3> QED BY <3>1, <3>3 DEF UserExists
  <2>3. ASSUME NEW r \in Request, DeleteUser(r) PROVE m \in members
    BY <2>3 DEF DeleteUser
  <2> QED BY <2>1, <2>2, <2>3, Writers
<1>5. ASSUME NEW m \in teamMembers' PROVE UserExists(m.user)'
  <2>1. CASE m \in teamMembers
    <3>1. \A r \in Request : DeleteUser(r) => call[r].user # m.user
      BY DEF DeleteUser
    <3> QED BY <1>0, <1>1, <2>1, <3>1 DEF Alive
  <2>2. ASSUME NEW r \in Request, AddTeamMember(r) \/ JoinTeam(r), m \notin teamMembers
        PROVE  UserExists(m.user)'
    <3>1. \E t, u : /\ UNCHANGED users /\ UserExists(u)
                    /\ teamMembers' = teamMembers \cup {[team |-> t, user |-> u]}
      BY <2>2, Zenon DEF AddTeamMember, JoinTeam, Joins
    <3> QED BY <2>2, <3>1 DEF UserExists
  <2>3. ASSUME NEW r \in Request, DeleteUser(r) \/ RemoveTeamMember(r) PROVE m \in teamMembers
    BY <2>3 DEF DeleteUser, RemoveTeamMember
  <2> QED BY <2>1, <2>2, <2>3, Writers
<1>6. ASSUME NEW i \in invitations' PROVE UserExists(i.inviter)'
  <2>1. ASSUME NEW j \in invitations, j.inviter = i.inviter,
               \A r \in Request : DeleteUser(r) => i \in invitations
        PROVE  UserExists(i.inviter)'
    <3>1. \A r \in Request : DeleteUser(r) => call[r].user # i.inviter
      BY <2>1 DEF DeleteUser, Inviting
    <3> QED BY <1>0, <1>1, <2>1, <3>1 DEF Alive
  <2>2. ASSUME NEW r \in Request, CreateInvitation(r), i \notin invitations
        PROVE  UserExists(i.inviter)'
    <3>1. UNCHANGED users /\ UserExists(call[r].user)
      BY <2>2 DEF CreateInvitation
    <3>2. i.inviter = call[r].user
      BY <2>2, InviteEffect
    <3> QED BY <3>1, <3>2 DEF UserExists
  <2>3. ASSUME NEW j \in invitations,
               NEW status \in {"expired", "accepted", "rejected", "canceled"},
               Resolves(j, status), UNCHANGED users
        PROVE  UserExists(i.inviter)'
    <3>1. i \in invitations \/ i.inviter = j.inviter
      BY <1>0, <2>3, ResolvesEffect
    <3> QED BY <1>0, <2>3, <3>1 DEF Alive, UserExists
  <2>4. \A r \in Request : DeleteUser(r) => i \in invitations
    BY DEF DeleteUser
  <2> QED BY <2>1, <2>2, <2>3, <2>4, Writers
          DEF CancelInvitation, RejectInvitation, JoinOrganization, Expire
<1> QED BY <1>3, <1>4, <1>5, <1>6 DEF Alive

LEMMA InvitationTeamsStep == IndInv /\ [Next]_vars => InvitationTeams'
<1> SUFFICES ASSUME IndInv, [Next]_vars, NEW x \in invitationTeams'
             PROVE  /\ InvitationBorn(x.invitation)'
                    /\ \E t \in teams' : t.id = x.team /\ InvitedTo(x.invitation, t.org)'
  BY DEF InvitationTeams
<1>0. TypeOK /\ InvitationTeams
  BY DEF IndInv
<1>1. ASSUME NEW k, NEW o, InvitationBorn(k), InvitedTo(k, o)
      PROVE  InvitationBorn(k)' /\ InvitedTo(k, o)'
  BY <1>0, <1>1, BornStays, InvitedToStays
<1>2. CASE x \in invitationTeams
  BY <1>0, <1>1, <1>2, TeamsAndOrgsStay DEF InvitationTeams
<1>3. ASSUME NEW r \in Request, SetInvitationTeam(r), x \notin invitationTeams
      PROVE  /\ InvitationBorn(x.invitation)'
             /\ \E t \in teams' : t.id = x.team /\ InvitedTo(x.invitation, t.org)'
  <2>1. invitationTeams' = invitationTeams \cup {[invitation |-> r, team |-> call[r].team]}
    BY <1>3 DEF SetInvitationTeam
  <2>2. pc[r] = "set team"
    BY <1>3 DEF SetInvitationTeam, Goes
  <2>3. x = [invitation |-> r, team |-> call[r].team]
    BY <1>3, <2>1
  <2>4. x.invitation = r /\ x.team = call[r].team /\ pc[r] = "set team"
    BY <2>2, <2>3
  <2>5. call[r].team # None /\ TeamOf(call[r].team, call[r].org) /\ InvitedTo(r, call[r].org)
    BY <2>4, TenancyAssumption DEF IndInv, Held, Teaming, Invited, WithTeam
  <2>6. InvitationBorn(r)
    BY <2>4 DEF InvitationBorn, Born
  <2>7. PICK t \in teams : t.id = x.team /\ t.org = call[r].org
    BY <2>4, <2>5 DEF TeamOf
  <2>8. InvitationBorn(x.invitation) /\ InvitedTo(x.invitation, t.org)
    BY <2>4, <2>5, <2>6, <2>7
  <2>9. InvitationBorn(x.invitation)' /\ InvitedTo(x.invitation, t.org)'
    BY <1>1, <2>8
  <2>10. t \in teams'
    BY TeamsAndOrgsStay
  <2> QED BY <2>7, <2>9, <2>10
<1>4. ASSUME NEW r \in Request, DeleteUser(r) PROVE x \in invitationTeams
  BY <1>4 DEF DeleteUser
<1> QED BY <1>2, <1>3, <1>4, Writers
-----------------------------------------------------------------------------

(***************************************************************************)
(* The invariants MCTenancy checks, step by step.                          *)
(***************************************************************************)

\* The row a user joins a team with.
LEMMA JoinsEffect ==
  ASSUME NEW t, NEW u, Joins(t, u), NEW x \in teamMembers', x \notin teamMembers
  PROVE  x.team = t /\ x.user = u /\ UserExists(u)
<1>1. teamMembers' = teamMembers \cup {[team |-> t, user |-> u]}
  BY DEF Joins
<1>2. x = [team |-> t, user |-> u]
  BY <1>1
<1> QED BY <1>2 DEF Joins

LEMMA TeamMembersInOrgStep == IndInv /\ [Next]_vars => TeamMembersInOrg'
<1> SUFFICES ASSUME IndInv, [Next]_vars, NEW x \in teamMembers'
             PROVE  \E t \in teams' : t.id = x.team /\ IsMember(t.org, x.user)'
  BY DEF TeamMembersInOrg
<1>1. UserExists(x.user)'
  BY AliveStep DEF Alive
<1>2. ASSUME NEW t \in teams, t.id = x.team, IsMember(t.org, x.user)
      PROVE  \E y \in teams' : y.id = x.team /\ IsMember(y.org, x.user)'
  BY <1>1, <1>2, MembersStay, TeamsAndOrgsStay
<1>3. CASE x \in teamMembers
  BY <1>2, <1>3 DEF IndInv, TeamMembersInOrg
<1>4. ASSUME NEW r \in Request, AddTeamMember(r), x \notin teamMembers
      PROVE  \E t \in teams : t.id = x.team /\ IsMember(t.org, x.user)
  <2>1. pc[r] = "insert team member" /\ Joins(call[r].team, call[r].subject)
    BY <1>4 DEF AddTeamMember, Finishes, Goes
  <2>2. x.team = call[r].team /\ x.user = call[r].subject /\ UserExists(call[r].subject)
    BY <1>4, <2>1, JoinsEffect
  <2>3. call[r].team # None
    BY <2>1, TenancyAssumption DEF IndInv, Held, WithTeam
  <2>4. TeamOf(call[r].team, call[r].org) /\ IsMember(call[r].org, call[r].subject)
    BY <2>1, <2>2, <2>3 DEF IndInv, Teaming, WithTeam, Joining, InOrgOrGone
  <2> QED BY <2>2, <2>4 DEF TeamOf
<1>5. ASSUME NEW r \in Request, JoinTeam(r), x \notin teamMembers
      PROVE  \E t \in teams : t.id = x.team /\ IsMember(t.org, x.user)
  <2>1. pc[r] = "join team" /\ Joins(call[r].team, call[r].user)
    BY <1>5 DEF JoinTeam, Goes
  <2>2. x.team = call[r].team /\ x.user = call[r].user /\ UserExists(call[r].user)
    BY <1>5, <2>1, JoinsEffect
  <2>3. call[r].team # None
    BY <2>1, TenancyAssumption DEF IndInv, Held, WithTeam
  <2>4. TeamOf(call[r].team, call[r].org) /\ IsMember(call[r].org, call[r].user)
    BY <2>1, <2>2, <2>3 DEF IndInv, Teaming, WithTeam, Joining, InOrgOrGone
  <2> QED BY <2>2, <2>4 DEF TeamOf
<1>6. ASSUME NEW r \in Request, RemoveTeamMember(r) \/ DeleteUser(r) PROVE x \in teamMembers
  BY <1>6 DEF RemoveTeamMember, DeleteUser
<1> QED BY <1>2, <1>3, <1>4, <1>5, <1>6, Writers

LEMMA SessionsStayHomeStep == IndInv /\ [Next]_vars => SessionsStayHome'
<1> SUFFICES ASSUME IndInv, [Next]_vars, NEW s \in sessions', s.active # None
             PROVE  IsMember(s.active, s.user)'
  BY AliveStep DEF SessionsStayHome, Alive
<1>1. UserExists(s.user)'
  BY AliveStep DEF Alive
<1>2. CASE s \in sessions
  BY <1>1, <1>2, MembersStay DEF IndInv, SessionsStayHome
<1>3. ASSUME NEW r \in Request, SignIn(r) \/ StartSession(r) PROVE s \in sessions
  <2>1. \E u : sessions' = sessions \cup {[token |-> r, user |-> u, active |-> None]}
    BY <1>3, Zenon DEF SignIn, StartSession
  <2> QED BY <2>1
<1>4. ASSUME NEW r \in Request, SetActive(r), s \notin sessions
      PROVE  IsMember(s.active, s.user)
  <2>1. PICK t \in sessions : s = Activated(r, t)
    BY <1>4 DEF SetActive
  <2>2. t.token = call[r].token
    BY <1>4, <2>1 DEF Activated
  <2>3. t \in Session
    BY DEF IndInv, TypeOK
  <2>4. s = [t EXCEPT !.active = call[r].org]
    BY <2>1, <2>2 DEF Activated
  <2>5. s.active = call[r].org /\ s.user = t.user
    BY <2>3, <2>4 DEF Session
  <2>6. pc[r] = "set active"
    BY <1>4 DEF SetActive, Finishes, Goes
  <2> QED BY <2>2, <2>5, <2>6 DEF IndInv, Switching
<1>5. ASSUME NEW r \in Request, RevokeAllSessions(r) \/ DeleteUser(r) PROVE s \in sessions
  BY <1>5 DEF RevokeAllSessions, DeleteUser, Losing
<1> QED BY <1>1, <1>2, <1>3, <1>4, <1>5, Writers, MembersStay DEF WritesSessions

LEMMA FoundersOwnStep == IndInv /\ [Next]_vars => FoundersOwn'
<1> SUFFICES ASSUME IndInv, [Next]_vars, NEW m \in members', m.role = "owner"
             PROVE  [id |-> m.org, founder |-> m.user] \in orgs'
  BY DEF FoundersOwn
<1>1. CASE m \in members
  BY <1>1, TeamsAndOrgsStay DEF IndInv, FoundersOwn
<1>2. ASSUME NEW r \in Request, CreateOrganization(r), m \notin members
      PROVE  [id |-> m.org, founder |-> m.user] \in orgs'
  <2>1. members' = members \cup {[org |-> r, user |-> call[r].user, role |-> "owner"]}
    BY <1>2 DEF CreateOrganization
  <2>2. m = [org |-> r, user |-> call[r].user, role |-> "owner"]
    BY <1>2, <2>1
  <2>3. m.org = r /\ m.user = call[r].user
    BY <2>2
  <2>4. [id |-> r, founder |-> call[r].user] \in orgs'
    BY <1>2 DEF CreateOrganization
  <2> QED BY <2>3, <2>4
<1>3. ASSUME NEW r \in Request, JoinOrganization(r) PROVE m \in members
  <2>1. PICK i \in invitations :
          members' = members \cup {[org |-> i.org, user |-> call[r].user, role |-> i.role]}
    BY <1>3 DEF JoinOrganization
  <2>2. i.role # "owner"
    BY DEF IndInv, Rows, InviteRole
  <2> QED BY <2>1, <2>2
<1>4. ASSUME NEW r \in Request, DeleteUser(r) PROVE m \in members
  BY <1>4 DEF DeleteUser
<1> QED BY <1>1, <1>2, <1>3, <1>4, Writers

LEMMA OwnerLeavesStep == IndInv /\ [Next]_vars => OwnerLeavesOnlyUnseen'
<1> DEFINE Left(o, r) == /\ reply'[r] = "deleted" /\ call'[r].user = o.founder
                         /\ o.id \notin call'[r].known
<1> SUFFICES ASSUME IndInv, [Next]_vars, NEW o \in orgs'
             PROVE  (\E u \in Id : Owns(o.id, u)') \/ \E r \in Request : Left(o, r)
  BY DEF OwnerLeavesOnlyUnseen
<1>1. ASSUME NEW r \in Request, CreateOrganization(r), o \notin orgs
      PROVE  \E u \in Id : Owns(o.id, u)'
  <2>1. /\ orgs' = orgs \cup {[id |-> r, founder |-> call[r].user]}
        /\ [org |-> r, user |-> call[r].user, role |-> "owner"] \in members'
    BY <1>1 DEF CreateOrganization
  <2>2. o = [id |-> r, founder |-> call[r].user]
    BY <1>1, <2>1
  <2>3. o.id = r
    BY <2>2
  <2>4. call[r].user \in Id
    BY <1>1 DEF CreateOrganization, Finishes, Goes, IndInv, Held
  <2>5. PICK m \in members' : m.org = r /\ m.user = call[r].user /\ m.role = "owner"
    BY <2>1
  <2> QED BY <2>3, <2>4, <2>5 DEF Owns
<1>2. ASSUME NEW r \in Request, reply[r] = "deleted", call[r].user = o.founder,
             o.id \notin call[r].known
      PROVE  Left(o, r)
  <2>1. pc[r] = "done"
    BY <1>2, TenancyAssumption DEF IndInv, Held, Reply
  <2>2. Quiet(r)
    BY <2>1, QuietOrActs, ActsForward DEF IndInv, Forward
  <2> QED BY <1>2, <2>2 DEF Quiet
<1>3. ASSUME NEW u \in Id, Owns(o.id, u), o \in orgs
      PROVE  Owns(o.id, u)' \/ \E r \in Request : Left(o, r)
  <2>1. PICK m \in members : m.org = o.id /\ m.user = u /\ m.role = "owner"
    BY <1>3 DEF Owns
  <2>2. CASE m \in members'
    BY <2>1, <2>2 DEF Owns
  <2>3. ASSUME NEW r \in Request, DeleteUser(r), m \notin members'
        PROVE  Left(o, r)
    <3>1. call[r].user = u /\ pc[r] = "delete user" /\ call' = call
      BY <2>1, <2>3 DEF DeleteUser, Finishes, Goes
    <3>2. reply'[r] = "deleted"
      BY <2>3 DEF DeleteUser, Finishes, Answers, IndInv, TypeOK
    <3>3. o.id \notin call[r].known
      BY <1>3, <3>1 DEF IndInv, Leaving
    <3>4. [id |-> o.id, founder |-> u] \in orgs
      BY <2>1 DEF IndInv, FoundersOwn
    <3>5. PICK p \in orgs : p.id = o.id /\ p.founder = u
      BY <3>4
    <3>6. o.founder = u
      BY <1>3, <3>5 DEF IndInv, Keys
    <3> QED BY <3>1, <3>2, <3>3, <3>6
  <2>4. ASSUME NEW r \in Request, CreateOrganization(r) \/ JoinOrganization(r)
        PROVE  m \in members'
    BY <2>4 DEF CreateOrganization, JoinOrganization
  <2> QED BY <2>2, <2>3, <2>4, Writers
<1>4. CASE o \in orgs
  BY <1>2, <1>3, <1>4 DEF IndInv, OwnerLeavesOnlyUnseen
<1> QED BY <1>1, <1>4, Writers
-----------------------------------------------------------------------------

(***************************************************************************)
(* What a handler holds stays true while it, and the others, move on.      *)
(***************************************************************************)
LEMMA NoTeam == NoCall.team = None
BY DEF NoCall

LEMMA TeamingStep ==
  ASSUME IndInv, [Next]_vars, NEW q \in Request
  PROVE  Teaming(q)'
<1> USE DEF IndInv
<1>1. CASE Quiet(q)
  BY <1>1, TeamsAndOrgsStay DEF Quiet, Teaming
<1>2. CASE Acts(q)
  <2> SUFFICES ASSUME pc'[q] \in WithTeam \cup {"invite", "create invitation"},
                      call'[q].team # None
               PROVE  \E t \in teams : t.id = call'[q].team /\ t.org = call'[q].org
    BY TeamsAndOrgsStay DEF Teaming, TeamOf
  <2>1. CASE pc'[q] = "add team member"
    BY <1>2, <2>1, Destinations, ArriveEffect DEF Arrived
  <2>2. CASE pc'[q] = "invite"
    <3>1. Arrive(q) /\ pc[q] = "idle"
      BY <1>2, <2>2, Destinations, Origins
    <3>2. call[q] = NoCall
      BY <3>1 DEF Held
    <3>3. call[q].team = None
      BY <3>2, NoTeam
    <3> QED BY <2>2, <3>1, <3>3, ArriveEffect DEF Arrived
  <2>3. CASE pc'[q] \in {"insert team member", "set team"}
    <3>1. pc[q] \in {"add team member", "create invitation"}
      BY <1>2, <2>3, Destinations, Origins
    <3>2. call'[q].team = call[q].team /\ call'[q].org = call[q].org
      BY <1>2, <2>3, <3>1, Destinations, Loading, Origins
    <3> QED BY <3>1, <3>2 DEF Teaming, TeamOf, WithTeam
  <2>4. CASE pc'[q] = "create invitation"
    <3>1. pc[q] = "invite" /\ call'[q].org = call[q].org
      BY <1>2, <2>4, Destinations, Loading, Origins
    <3>2. \/ call'[q].team = call[q].team
          \/ \E t \in teams : t.org = call[q].org /\ call'[q].team = t.id
      BY <1>2, <3>1, Loading, Origins
    <3> QED BY <3>1, <3>2 DEF Teaming, TeamOf
  <2>5. CASE pc'[q] = "join team"
    <3>1. ReadInvitationTeam(q) /\ pc[q] = "read team" /\ call'[q].org = call[q].org
      BY <1>2, <2>5, Destinations, Loading, Origins
    <3>2. PICK x \in invitationTeams :
            x.invitation = call[q].subject /\ call'[q].team = x.team
      BY <1>2, <2>5, <3>1, Loading
    <3>3. PICK t \in teams : t.id = x.team /\ InvitedTo(x.invitation, t.org)
      BY DEF InvitationTeams
    <3>4. PICK i \in invitations : i.id = call[q].subject
      BY <3>1 DEF ReadInvitationTeam, InvitationExists
    <3>5. i.org = t.org /\ i.org = call[q].org
      BY <3>1, <3>2, <3>3, <3>4 DEF InvitedTo, Invited
    <3> QED BY <3>1, <3>2, <3>3, <3>5
  <2> QED BY <2>1, <2>2, <2>3, <2>4, <2>5 DEF WithTeam
<1> QED BY <1>1, <1>2, QuietOrActs

LEMMA InOrgOrGoneStays ==
  ASSUME TypeOK, [Next]_vars, NEW o, NEW u, InOrgOrGone(o, u)
  PROVE  InOrgOrGone(o, u)'
<1>1. UserBorn(u)'
  BY BornStays DEF InOrgOrGone
<1>2. UserExists(u)' => IsMember(o, u)'
  BY UsersDie, MembersStay DEF InOrgOrGone
<1> QED BY <1>1, <1>2 DEF InOrgOrGone

LEMMA JoiningStep ==
  ASSUME IndInv, [Next]_vars, NEW q \in Request
  PROVE  Joining(q)'
<1> USE DEF IndInv
<1>1. CASE Quiet(q)
  BY <1>1, InOrgOrGoneStays DEF Quiet, Joining
<1>2. CASE Acts(q)
  <2>1. CASE pc'[q] = "insert team member"
    <3>1. CheckMembership(q) /\ call'[q].org = call[q].org
      BY <1>2, <2>1, Destinations, Loading, Origins
    <3>2. PICK u \in users : IsMember(call[q].org, u.id) /\ call'[q].subject = u.id
      BY <1>2, <3>1, Loading
    <3>3. InOrgOrGone(call[q].org, u.id)
      BY <3>2 DEF InOrgOrGone, Rows
    <3> QED BY <2>1, <3>1, <3>2, <3>3, InOrgOrGoneStays DEF Joining
  <2>2. CASE pc'[q] = "read team"
    <3>1. JoinOrganization(q) /\ pc[q] = "join organization" /\ call'[q].user = call[q].user
      BY <1>2, <2>2, Destinations, Loading, Origins
    <3>2. PICK i \in invitations :
            /\ call'[q].org = i.org
            /\ members' = members \cup
                 {[org |-> i.org, user |-> call[q].user, role |-> i.role]}
      BY <1>2, <3>1, Loading
    <3> DEFINE m == [org |-> i.org, user |-> call[q].user, role |-> i.role]
    <3>3. m \in members' /\ m.org = i.org /\ m.user = call[q].user
      BY <3>2
    <3> HIDE DEF m
    <3>4. UserBorn(call[q].user)
      BY <3>1, TenancyAssumption DEF Held
    <3>5. ASSUME NEW u, u = call[q].user PROVE UserBorn(u)'
      BY <3>4, <3>5, BornStays
    <3> QED BY <2>2, <3>1, <3>2, <3>3, <3>5 DEF Joining, InOrgOrGone, IsMember
  <2>3. CASE pc'[q] = "join team"
    <3>1. /\ pc[q] = "read team"
          /\ call'[q].org = call[q].org /\ call'[q].user = call[q].user
      BY <1>2, <2>3, Destinations, Loading, Origins
    <3>2. InOrgOrGone(call[q].org, call[q].user)
      BY <3>1 DEF Joining
    <3> QED BY <2>3, <3>1, <3>2, InOrgOrGoneStays DEF Joining
  <2> QED BY <2>1, <2>2, <2>3 DEF Joining
<1> QED BY <1>1, <1>2, QuietOrActs

LEMMA InvitedStep ==
  ASSUME IndInv, [Next]_vars, NEW q \in Request
  PROVE  Invited(q)'
<1> USE DEF IndInv
<1>1. CASE Quiet(q)
  <2>1. pc[q] = "set team" => InvitationBorn(q)
    BY DEF InvitationBorn, Born
  <2> QED BY <1>1, <2>1, BornStays, InvitedToStays DEF Quiet, Invited
<1>2. CASE Acts(q)
  <2>1. CASE pc'[q] = "set team"
    <3>1. CreateInvitation(q) /\ pc[q] = "create invitation" /\ call'[q].org = call[q].org
      BY <1>2, <2>1, Destinations, Loading, Origins
    <3>2. ~InvitationBorn(q)
      BY <3>1, TenancyAssumption DEF InvitationBorn, Born, PC, Op
    <3>3. ASSUME NEW i \in invitations', i.id = q PROVE i.org = call[q].org
      <4>1. i \notin invitations
        BY <3>2, <3>3 DEF Rows
      <4> QED BY <3>1, <4>1, InviteEffect
    <3> QED BY <2>1, <3>1, <3>3 DEF Invited, InvitedTo
  <2>2. CASE pc'[q] = "read team"
    <3>1. JoinOrganization(q) /\ call'[q].subject = call[q].subject
      BY <1>2, <2>2, Destinations, Loading, Origins
    <3>2. PICK i \in invitations : i.id = call[q].subject /\ call'[q].org = i.org
      BY <1>2, <3>1, Loading
    <3>3. InvitationBorn(i.id) /\ InvitedTo(i.id, i.org)
      BY DEF Rows, Keys, InvitedTo
    <3> QED BY <2>2, <3>1, <3>2, <3>3, BornStays, InvitedToStays DEF Invited
  <2> QED BY <2>1, <2>2 DEF Invited
<1> QED BY <1>1, <1>2, QuietOrActs

LEMMA SwitchingStep ==
  ASSUME IndInv, [Next]_vars, NEW q \in Request
  PROVE  Switching(q)'
<1> USE DEF IndInv
<1>1. CASE Quiet(q)
  <2> SUFFICES ASSUME pc[q] = "set active"
               PROVE  /\ SessionBorn(call[q].token)'
                      /\ \A s \in sessions' : s.token = call[q].token =>
                           IsMember(call[q].org, s.user)'
    BY <1>1 DEF Quiet, Switching
  <2>1. SessionBorn(call[q].token)
    BY DEF Switching
  <2>2. ASSUME NEW t, t = call[q].token PROVE SessionBorn(t)'
    BY <2>1, <2>2, BornStays
  <2>3. ASSUME NEW s \in sessions', s.token = call[q].token, NEW o, o = call[q].org
        PROVE  IsMember(o, s.user)'
    <3>1. PICK t \in sessions : t.token = call[q].token /\ t.user = s.user
      BY <2>1, <2>3, SessionsStay
    <3>2. IsMember(o, s.user)
      BY <2>3, <3>1 DEF Switching
    <3>3. UserExists(s.user)'
      BY AliveStep DEF Alive
    <3> QED BY <3>2, <3>3, MembersStay
  <2> QED BY <1>1, <2>2, <2>3 DEF Quiet
<1>2. CASE Acts(q)
  <2> SUFFICES ASSUME pc'[q] = "set active" PROVE Switching(q)'
    BY DEF Switching
  <2>1. CheckActive(q) /\ UNCHANGED <<sessions, members, call>>
    BY <1>2, Destinations DEF CheckActive, tables, tenancy
  <2>2. PICK s \in sessions : s.token = call[q].token /\ IsMember(call[q].org, s.user)
    BY <2>1 DEF CheckActive
  <2>3. ASSUME NEW t \in sessions, t.token = call[q].token
        PROVE  IsMember(call[q].org, t.user)
    BY <2>2, <2>3 DEF Keys
  <2>4. SessionBorn(s.token)'
    BY BornStays DEF Rows
  <2> QED BY <2>1, <2>2, <2>3, <2>4 DEF Switching, IsMember
<1> QED BY <1>1, <1>2, QuietOrActs

LEMMA LeavingStep ==
  ASSUME IndInv, [Next]_vars, NEW q \in Request
  PROVE  Leaving(q)'
<1> USE DEF IndInv
<1>1. ASSUME NEW o, NEW u, OrgBorn(o), ~Owns(o, u)
      PROVE  OrgBorn(o)' /\ ~Owns(o, u)'
  BY <1>1, BornStays, OwnersStay
<1>2. CASE Quiet(q)
  BY <1>1, <1>2 DEF Quiet, Leaving
<1>3. CASE Acts(q)
  <2>1. CASE pc'[q] = "revoke sessions"
    <3>0. CheckSoleOwner(q) /\ Loads(q, "known", {o.id : o \in orgs})
      BY <1>3, <2>1, Destinations DEF CheckSoleOwner
    <3>1. /\ CheckSoleOwner(q) /\ call'[q].user = call[q].user
          /\ call'[q].known = {o.id : o \in orgs}
      BY <3>0, Fields
    <3>2. ASSUME NEW o \in orgs PROVE OrgBorn(o.id) /\ ~Owns(o.id, call[q].user)
      <4>1. ASSUME Owns(o.id, call[q].user), NEW v, Owns(o.id, v)
            PROVE  v = call[q].user
        <5>1. PICK m \in members : m.org = o.id /\ m.user = call[q].user /\ m.role = "owner"
          BY <4>1 DEF Owns
        <5>2. PICK n \in members : n.org = o.id /\ n.user = v /\ n.role = "owner"
          BY <4>1 DEF Owns
        <5>3. PICK x \in orgs : x.id = o.id /\ x.founder = call[q].user
          BY <5>1 DEF FoundersOwn
        <5>4. PICK y \in orgs : y.id = o.id /\ y.founder = v
          BY <5>2 DEF FoundersOwn
        <5> QED BY <5>3, <5>4 DEF Keys
      <4>2. Owns(o.id, call[q].user) => \E v \in Id \ {call[q].user} : Owns(o.id, v)
        BY <3>1 DEF CheckSoleOwner, OtherOwner
      <4> QED BY <4>1, <4>2 DEF Rows
    <3> QED BY <1>1, <2>1, <3>1, <3>2 DEF Leaving
  <2>2. CASE pc'[q] = "delete user"
    <3>1. /\ pc[q] = "revoke sessions"
          /\ call'[q].user = call[q].user /\ call'[q].known = call[q].known
      BY <1>3, <2>2, Destinations, Origins DEF RevokeAllSessions
    <3> QED BY <1>1, <2>2, <3>1 DEF Leaving
  <2> QED BY <2>1, <2>2 DEF Leaving
<1> QED BY <1>2, <1>3, QuietOrActs

\* Only the handler that deletes an account says so.
LEMMA OnlyDeleteUserAnswers ==
  ASSUME TypeOK, NEW q \in Request, Acts(q), reply'[q] = "deleted", reply[q] # "deleted"
  PROVE  DeleteUser(q)
<1> USE DEF TypeOK, Finishes, Answers
<1>1. /\ ~SignUp(q) /\ ~SignIn(q) /\ ~CreateOrganization(q) /\ ~CreateTeam(q)
      /\ ~AddTeamMember(q) /\ ~RemoveTeamMember(q) /\ ~Reread(q) /\ ~CancelInvitation(q)
      /\ ~RejectInvitation(q) /\ ~SetActive(q) /\ ~Fail(q)
  BY DEF SignUp, SignIn, CreateOrganization, CreateTeam, AddTeamMember, RemoveTeamMember,
         Reread, CancelInvitation, RejectInvitation, SetActive, Fail
<1>2. /\ ~Register(q) /\ ~Arrive(q) /\ ~ListTeams(q) /\ ~CheckMembership(q) /\ ~GetTeam(q)
      /\ ~CreateInvitation(q) /\ ~SetInvitationTeam(q) /\ ~CheckCancel(q) /\ ~CreateUser(q)
      /\ ~CheckPending(q) /\ ~JoinOrganization(q) /\ ~ReadInvitationTeam(q)
  BY DEF Register, Arrive, ListTeams, CheckMembership, GetTeam, CreateInvitation,
         SetInvitationTeam, CheckCancel, CreateUser, CheckPending, JoinOrganization,
         ReadInvitationTeam
<1>3. /\ ~JoinTeam(q) /\ ~TeamJoinFailed(q) /\ ~StartSession(q) /\ ~CheckActive(q)
      /\ ~CheckSoleOwner(q) /\ ~RevokeAllSessions(q)
  BY DEF JoinTeam, TeamJoinFailed, StartSession, CheckActive, CheckSoleOwner,
         RevokeAllSessions
<1> QED BY <1>1, <1>2, <1>3 DEF Acts, Handle

LEMMA GoneStep ==
  ASSUME IndInv, [Next]_vars, NEW q \in Request
  PROVE  Gone(q)'
<1> USE DEF IndInv
<1>1. CASE Quiet(q)
  <2> SUFFICES ASSUME reply[q] = "deleted", NEW u, u = call[q].user
               PROVE  u # None /\ ~UserExists(u)'
    BY <1>1 DEF Quiet, Gone, UserExists
  <2>1. u # None /\ ~UserExists(u) /\ UserBorn(u)
    BY DEF Gone, Held
  <2> QED BY <2>1, UsersDie
<1>2. CASE Acts(q)
  <2> SUFFICES ASSUME reply'[q] = "deleted"
               PROVE  call'[q].user # None /\ ~UserExists(call[q].user)' /\ call' = call
    BY DEF Gone, UserExists
  <2>1. pc[q] # "done"
    BY <1>2, ActsForward DEF Forward
  <2>2. reply[q] = None
    BY <2>1 DEF Held
  <2>3. DeleteUser(q)
    BY <1>2, <2>2, OnlyDeleteUserAnswers, TenancyAssumption DEF Reply
  <2>4. call' = call /\ users' = {x \in users : x.id # call[q].user} /\ pc[q] = "delete user"
    BY <2>3 DEF DeleteUser, Finishes, Goes
  <2>5. call[q].user # None
    BY <2>4, TenancyAssumption DEF Held
  <2> QED BY <2>4, <2>5 DEF UserExists
<1> QED BY <1>1, <1>2, QuietOrActs
-----------------------------------------------------------------------------

(***************************************************************************)
(* The theorems.  A run may start from any consistent database, empty      *)
(* (Init) or left by earlier requests (MCInit), with nothing under way.    *)
(***************************************************************************)
Consistent ==
  /\ Tables /\ Rows /\ Keys /\ Alive /\ InvitationTeams
  /\ TeamMembersInOrg /\ SessionsStayHome /\ FoundersOwn /\ EveryOrgHasOwner

NothingUnderWay ==
  /\ pc = [r \in Request |-> "idle"]
  /\ call = [r \in Request |-> NoCall]
  /\ reply = [r \in Request |-> None]

ConsistentSpec == Consistent /\ NothingUnderWay /\ [][Next]_vars

LEMMA NoCallType == NoCall \in Call /\ NoCall.user = None /\ NoCall.team = None
BY DEF NoCall, Call

LEMMA InvInit == Consistent /\ NothingUnderWay => IndInv
<1> SUFFICES ASSUME Consistent, NothingUnderWay PROVE IndInv
  OBVIOUS
<1>1. \A r \in Request : pc[r] = "idle" /\ call[r] = NoCall /\ reply[r] = None
  BY DEF NothingUnderWay
<1>2. TypeOK
  <2>1. call \in [Request -> Call] /\ reply \in [Request -> Reply \cup {None}]
    BY NoCallType DEF NothingUnderWay
  <2>2. pc \in [Request -> PC]
    BY DEF NothingUnderWay, PC
  <2> QED BY <2>1, <2>2 DEF TypeOK, Consistent, Tables
<1>3. ASSUME NEW r \in Request PROVE Held(r) /\ Teaming(r)
  BY <1>1, NoCallType DEF Held, Teaming, InOrg, WithTeam
<1>4. ASSUME NEW r \in Request
      PROVE  Joining(r) /\ Invited(r) /\ Switching(r) /\ Leaving(r) /\ Gone(r)
  BY <1>1, TenancyAssumption DEF Joining, Invited, Switching, Leaving, Gone, Reply
<1>5. OwnerLeavesOnlyUnseen
  BY DEF Consistent, EveryOrgHasOwner, OwnerLeavesOnlyUnseen
<1> QED BY <1>2, <1>3, <1>4, <1>5 DEF IndInv, Consistent

LEMMA InvStep == IndInv /\ [Next]_vars => IndInv'
<1> SUFFICES ASSUME IndInv, [Next]_vars PROVE IndInv'
  OBVIOUS
<1>1. TypeOK' /\ Rows' /\ Keys' /\ Alive' /\ InvitationTeams'
  BY TypeStep, RowsStep, KeysStep, AliveStep, InvitationTeamsStep
<1>2. \A r \in Request : Held(r)' /\ Teaming(r)' /\ Joining(r)' /\ Invited(r)'
  BY HeldStep, TeamingStep, JoiningStep, InvitedStep
<1>3. \A r \in Request : Switching(r)' /\ Leaving(r)' /\ Gone(r)'
  BY SwitchingStep, LeavingStep, GoneStep
<1>4. TeamMembersInOrg' /\ SessionsStayHome' /\ FoundersOwn' /\ OwnerLeavesOnlyUnseen'
  BY TeamMembersInOrgStep, SessionsStayHomeStep, FoundersOwnStep, OwnerLeavesStep
<1> QED BY <1>1, <1>2, <1>3, <1>4 DEF IndInv

\* The empty database is consistent: what holds from every consistent database
\* holds of Spec.
THEOREM SpecIsConsistent == Spec => ConsistentSpec
<1>1. Init => Consistent /\ NothingUnderWay
  BY DEF Init, Consistent, NothingUnderWay, Tables, Rows, Keys, Alive, InvitationTeams,
         TeamMembersInOrg, SessionsStayHome, FoundersOwn, EveryOrgHasOwner
<1> QED BY <1>1, PTL DEF Spec, ConsistentSpec

\* The invariant holds throughout, for any number of requests, whatever they are
\* and wherever they fail.
THEOREM Invariant == ConsistentSpec => []IndInv
BY InvInit, InvStep, PTL DEF ConsistentSpec

\* Tables and handlers keep their types.
THEOREM TypeCorrect == ConsistentSpec => []TypeOK
<1>1. IndInv => TypeOK
  BY DEF IndInv
<1> QED BY <1>1, Invariant, PTL

\* Whoever is in a team belongs to its organization, whether an admin added the
\* user (teams.go) or an invitation did (invitations.go), whatever happened
\* between the check and the row.
THEOREM TeamMembersStayInOrg == ConsistentSpec => []TeamMembersInOrg
<1>1. IndInv => TeamMembersInOrg
  BY DEF IndInv
<1> QED BY <1>1, Invariant, PTL

\* A session's active organization is one its user belongs to, as the middleware
\* trusts (auth.go), and its user exists.
THEOREM SessionsNeverStray == ConsistentSpec => []SessionsStayHome
<1>1. IndInv => SessionsStayHome
  BY DEF IndInv
<1> QED BY <1>1, Invariant, PTL

\* A deleted account stays deleted (me.go): whatever other requests of that user
\* had read before, no table has a row of it again.
THEOREM DeletedStayDeleted == ConsistentSpec => []GoneIsGone
<1>1. ASSUME IndInv PROVE GoneIsGone
  <2> SUFFICES ASSUME NEW r \in Request, reply[r] = "deleted"
               PROVE  /\ \A x \in users : x.id # call[r].user
                      /\ \A x \in sessions \cup members \cup teamMembers : x.user # call[r].user
                      /\ \A i \in invitations : i.inviter # call[r].user
    BY DEF GoneIsGone, Inviting
  <2>1. ~UserExists(call[r].user)
    BY <1>1 DEF IndInv, Gone
  <2>2. Alive
    BY <1>1 DEF IndInv
  <2> QED BY <2>1, <2>2 DEF Alive, UserExists
<1> QED BY <1>1, Invariant, PTL

\* Nobody but its founder ever owns an organization: CreateOrganization makes the
\* only owner, and no invitation carries the role (invitations.go).
THEOREM OnlyFoundersOwn == ConsistentSpec => []FoundersOwn
<1>1. IndInv => FoundersOwn
  BY DEF IndInv
<1> QED BY <1>1, Invariant, PTL

\* DeleteMe takes the owner only of an organization founded after it looked
\* (me.go).
THEOREM OwnersLeaveOnlyUnseen == ConsistentSpec => []OwnerLeavesOnlyUnseen
<1>1. IndInv => OwnerLeavesOnlyUnseen
  BY DEF IndInv
<1> QED BY <1>1, Invariant, PTL
=============================================================================
