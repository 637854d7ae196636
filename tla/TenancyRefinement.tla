------------------------- MODULE TenancyRefinement -------------------------
(***************************************************************************)
(* Tenancy implements Memberships, from every consistent database: each    *)
(* statement of each handler is one operation of the registry, allowed at  *)
(* that very instant, or changes nothing the registry keeps.               *)
(*                                                                         *)
(* Memberships asks more of a statement than the invariants of             *)
(* TenancyProofs tell: that the organization of a new team exists, and     *)
(* that somebody with the right to still vouches for whoever is admitted.  *)
(* Placed is what is needed on top of IndInv: rows hang on organizations   *)
(* that exist, and every invitation on an admin or owner of its            *)
(* organization, since roles are given once and an invitation goes with    *)
(* the account of its inviter.                                             *)
(***************************************************************************)
EXTENDS TenancyProofs

OrgExists(o) == \E x \in orgs : x.id = o
Manages(o, u) == \E m \in members : m.org = o /\ m.user = u /\ IsOrgAdmin(m.role)

\* The foreign keys to organizations, and who stands behind an invitation.  A
\* team is made, as an organization is, by the last statement of its request.
Placed ==
  /\ \A m \in members : OrgExists(m.org)
  /\ \A t \in teams : OrgBorn(t.id) /\ OrgExists(t.org)
  /\ \A i \in invitations : Manages(i.org, i.inviter)

\* A handler for admins works for an organization that exists, in the name of
\* one of its admins, or of an account that is gone.
Authorized(r) ==
  /\ pc[r] \in {"create team", "insert team"} => OrgExists(call[r].org)
  /\ pc[r] \in {"invite", "create invitation"} /\ UserExists(call[r].user) =>
       Manages(call[r].org, call[r].user)

Inv ==
  /\ IndInv
  /\ Placed
  /\ \A r \in Request : Authorized(r)
-----------------------------------------------------------------------------

(***************************************************************************)
(* Placed is inductive.                                                    *)
(***************************************************************************)
LEMMA OrgExistsStays ==
  ASSUME [Next]_vars, NEW o, OrgExists(o)
  PROVE  OrgExists(o)'
BY TeamsAndOrgsStay DEF OrgExists

\* An admin stays one for as long as the account lives.
LEMMA ManagesStays ==
  ASSUME [Next]_vars, NEW o, NEW u, Manages(o, u), UserExists(u)'
  PROVE  Manages(o, u)'
<1>1. ASSUME NEW r \in Request, CreateOrganization(r) \/ JoinOrganization(r)
      PROVE  Manages(o, u)'
  BY <1>1 DEF CreateOrganization, JoinOrganization, Manages
<1>2. ASSUME NEW r \in Request, DeleteUser(r) PROVE Manages(o, u)'
  BY <1>2 DEF DeleteUser, Manages, UserExists
<1>3. CASE UNCHANGED members
  BY <1>3 DEF Manages
<1> QED BY <1>1, <1>2, <1>3, Writers

\* Where a row of invitations comes from.
LEMMA InvitationOrigins ==
  ASSUME TypeOK, [Next]_vars, NEW i \in invitations'
  PROVE  \/ \E j \in invitations : j.org = i.org /\ j.inviter = i.inviter
         \/ \E r \in Request :
              CreateInvitation(r) /\ i.org = call[r].org /\ i.inviter = call[r].user
<1> DEFINE Older == \E j \in invitations : j.org = i.org /\ j.inviter = i.inviter
<1>1. i \in invitations => Older
  OBVIOUS
<1>2. ASSUME NEW j \in invitations,
             NEW status \in {"expired", "accepted", "rejected", "canceled"},
             Resolves(j, status)
      PROVE  Older
  <2>1. PICK k \in Invitation :
          /\ invitations' = (invitations \ {j}) \cup {k}
          /\ k.org = j.org /\ k.inviter = j.inviter
    BY <1>2, ResolvesEffect
  <2> QED BY <2>1
<1>3. ASSUME NEW r \in Request,
             CancelInvitation(r) \/ RejectInvitation(r) \/ JoinOrganization(r)
      PROVE  Older
  BY <1>2, <1>3 DEF CancelInvitation, RejectInvitation, JoinOrganization
<1>4. ASSUME NEW r \in Request, DeleteUser(r) PROVE Older
  BY <1>1, <1>4 DEF DeleteUser
<1>5. ASSUME NEW j \in invitations, Expire(j) PROVE Older
  BY <1>2, <1>5 DEF Expire
<1>6. ASSUME NEW r \in Request, CreateInvitation(r), i \notin invitations
      PROVE  i.org = call[r].org /\ i.inviter = call[r].user
  BY <1>6, InviteEffect
<1> QED BY <1>1, <1>3, <1>4, <1>5, <1>6, Writers

LEMMA PlacedStep ==
  ASSUME Inv, [Next]_vars
  PROVE  Placed'
<1> USE DEF Inv
<1>0. TypeOK /\ Alive /\ Alive'
  BY AliveStep DEF IndInv
<1>1. ASSUME NEW m \in members' PROVE OrgExists(m.org)'
  <2>1. CASE m \in members
    BY <2>1, OrgExistsStays DEF Placed
  <2>2. ASSUME NEW r \in Request, CreateOrganization(r), m \notin members
        PROVE  OrgExists(m.org)'
    <3>1. m = [org |-> r, user |-> call[r].user, role |-> "owner"]
      BY <2>2 DEF CreateOrganization
    <3>2. orgs' = orgs \cup {[id |-> r, founder |-> call[r].user]}
      BY <2>2 DEF CreateOrganization
    <3>3. OrgExists(r)'
      <4> DEFINE new == [id |-> r, founder |-> call[r].user]
      <4>1. new \in orgs' /\ new.id = r
        BY <3>2
      <4> HIDE DEF new
      <4> QED BY <4>1 DEF OrgExists
    <3> QED BY <3>1, <3>3
  <2>3. ASSUME NEW r \in Request, JoinOrganization(r), m \notin members
        PROVE  OrgExists(m.org)'
    <3>1. PICK i \in invitations :
            members' = members \cup
              {[org |-> i.org, user |-> call[r].user, role |-> i.role]}
      BY <2>3 DEF JoinOrganization
    <3>2. m.org = i.org
      BY <2>3, <3>1
    <3>3. PICK n \in members : n.org = i.org
      BY DEF Placed, Manages
    <3> QED BY <3>2, <3>3, OrgExistsStays DEF Placed
  <2>4. ASSUME NEW r \in Request, DeleteUser(r) PROVE m \in members
    BY <2>4 DEF DeleteUser
  <2> QED BY <2>1, <2>2, <2>3, <2>4, Writers
<1>2. ASSUME NEW t \in teams' PROVE OrgBorn(t.id)' /\ OrgExists(t.org)'
  <2>1. CASE t \in teams
    BY <1>0, <2>1, OrgExistsStays, BornStays DEF Placed
  <2>2. ASSUME NEW r \in Request, CreateTeam(r), t \notin teams
        PROVE  OrgBorn(t.id)' /\ OrgExists(t.org)'
    <3>1. t = [id |-> r, org |-> call[r].org, name |-> call[r].name]
      BY <2>2 DEF CreateTeam
    <3>2. pc[r] = "insert team" /\ pc'[r] = "done"
      BY <1>0, <2>2 DEF CreateTeam, Finishes, Goes, TypeOK
    <3>3. OrgExists(call[r].org)
      BY <3>2 DEF Authorized
    <3>4. OrgExists(t.org)'
      BY <3>1, <3>3, OrgExistsStays
    <3> QED BY <3>1, <3>2, <3>4 DEF OrgBorn, Born
  <2> QED BY <2>1, <2>2, Writers
<1>3. ASSUME NEW i \in invitations' PROVE Manages(i.org, i.inviter)'
  <2>1. ASSUME NEW j \in invitations, j.org = i.org, j.inviter = i.inviter
        PROVE  Manages(i.org, i.inviter)
    BY <2>1 DEF Placed
  <2>2. ASSUME NEW r \in Request, CreateInvitation(r), i.org = call[r].org,
               i.inviter = call[r].user
        PROVE  Manages(i.org, i.inviter)
    BY <2>2 DEF CreateInvitation, Goes, Authorized
  <2>3. Manages(i.org, i.inviter)
    BY <1>0, <2>1, <2>2, InvitationOrigins
  <2>4. UserExists(i.inviter)'
    BY <1>0 DEF Alive
  <2> QED BY <2>3, <2>4, ManagesStays
<1> QED BY <1>1, <1>2, <1>3 DEF Placed

\* The tiers for admins find an admin.
LEMMA ArriveAsAdmin ==
  ASSUME TypeOK, NEW r \in Request, Arrive(r), pc'[r] \in {"create team", "invite"}
  PROVE  UNCHANGED tables /\ Manages(call'[r].org, call'[r].user)
<1>1. ASSUME NEW op, OrgAdminTier(r, op) PROVE Manages(call'[r].org, call'[r].user)
  <2>1. PICK s \in sessions, m \in members :
          /\ m.user = s.user /\ IsOrgAdmin(m.role)
          /\ call' = [call EXCEPT ![r].op = op, ![r].user = s.user, ![r].token = s.token,
                                  ![r].org = m.org]
    BY <1>1 DEF OrgAdminTier
  <2>2. call[r] \in Call
    BY DEF TypeOK
  <2> DEFINE new == [call[r] EXCEPT !.op = op, !.user = s.user, !.token = s.token,
                                    !.org = m.org]
  <2>3. new.user = s.user /\ new.org = m.org
    BY <2>2 DEF Call
  <2>4. call' = [call EXCEPT ![r] = new]
    BY <2>1
  <2> HIDE DEF new
  <2>5. call'[r] = new
    BY <2>4 DEF TypeOK
  <2> QED BY <2>1, <2>3, <2>5 DEF Manages
<1>2. /\ ~SessionTier(r, "create organization") /\ ~SessionTier(r, "delete me")
      /\ ~OrgTier(r, "switch")
  BY DEF TypeOK, Arrives, Goes, SessionTier, OrgTier
<1>3. ~TeamAdminTier(r, "add team member") /\ ~TeamAdminTier(r, "remove team member")
  <2>1. ~Goes(r, "idle", "add team member") /\ ~Goes(r, "idle", "remove team member")
    BY DEF TypeOK, Goes
  <2> QED BY <2>1, TeamAdminTierForward
<1>4. ~InvitationTier(r, "accept") /\ ~InvitationTier(r, "reject")
  BY DEF TypeOK, Arrives, Goes, InvitationTier
<1> QED BY <1>1, <1>2, <1>3, <1>4 DEF Arrive

LEMMA AuthorizedStep ==
  ASSUME Inv, [Next]_vars, NEW q \in Request
  PROVE  Authorized(q)'
<1> USE DEF Inv
<1>0. TypeOK /\ Held(q) /\ Authorized(q)
  BY DEF IndInv
<1>1. CASE Quiet(q)
  <2>1. ASSUME NEW o, o = call[q].org, pc[q] \in {"create team", "insert team"}
        PROVE  OrgExists(o)'
    BY <1>0, <2>1, OrgExistsStays DEF Authorized
  <2>2. ASSUME NEW o, o = call[q].org, NEW u, u = call[q].user,
               pc[q] \in {"invite", "create invitation"}, UserExists(u)'
        PROVE  Manages(o, u)'
    <3>1. u \in Id
      BY <1>0, <2>2 DEF Held
    <3>2. UserBorn(u)
      BY <1>0, <2>2, <3>1, TenancyAssumption DEF Held
    <3>3. UserExists(u)
      BY <2>2, <3>2, UsersDie
    <3> QED BY <1>0, <2>2, <3>3, ManagesStays DEF Authorized
  <2>3. pc'[q] = pc[q] /\ call'[q].org = call[q].org /\ call'[q].user = call[q].user
    BY <1>1 DEF Quiet
  <2>4. OrgExists(call[q].org)' \/ pc'[q] \notin {"create team", "insert team"}
    BY <2>1, <2>3 DEF OrgExists
  <2>5. \/ pc'[q] \notin {"invite", "create invitation"}
        \/ ~UserExists(call[q].user)'
        \/ Manages(call[q].org, call[q].user)'
    <3> SUFFICES ASSUME pc[q] \in {"invite", "create invitation"},
                        UserExists(call[q].user)'
                 PROVE  Manages(call[q].org, call[q].user)'
      BY <2>3
    <3>1. ASSUME NEW o, o = call[q].org, NEW u, u = call[q].user PROVE Manages(o, u)'
      <4>1. UserExists(u)'
        BY <2>3, <3>1 DEF UserExists
      <4> QED BY <2>2, <3>1, <4>1
    <3> QED BY <2>3, <3>1 DEF Manages
  <2> QED BY <2>4, <2>5 DEF Authorized
<1>2. CASE Acts(q)
  <2>1. CASE pc'[q] \in {"create team", "invite"}
    <3>1. Arrive(q)
      BY <1>0, <1>2, <2>1, Destinations
    <3>2. UNCHANGED tables /\ Manages(call'[q].org, call'[q].user)
      BY <1>0, <2>1, <3>1, ArriveAsAdmin
    <3>3. OrgExists(call'[q].org)
      BY <3>2 DEF Manages, Placed
    <3> QED BY <3>2, <3>3 DEF Authorized, Manages, OrgExists, tables, tenancy
  <2>2. CASE pc'[q] = "insert team"
    <3>1. ListTeams(q) /\ pc[q] = "create team"
      BY <1>0, <1>2, <2>2, Destinations, Origins
    <3>2. call'[q].org = call[q].org /\ UNCHANGED orgs
      BY <1>0, <3>1, Fields DEF ListTeams, tables, tenancy
    <3> QED BY <1>0, <2>2, <3>1, <3>2 DEF Authorized, OrgExists
  <2>3. CASE pc'[q] = "create invitation"
    <3>1. GetTeam(q) /\ pc[q] = "invite"
      BY <1>0, <1>2, <2>3, Destinations, Origins
    <3>2. /\ call'[q].org = call[q].org /\ call'[q].user = call[q].user
          /\ UNCHANGED <<users, members>>
      BY <1>0, <3>1, Fields DEF GetTeam, tables, tenancy
    <3> QED BY <1>0, <2>3, <3>1, <3>2 DEF Authorized, UserExists, Manages
  <2> QED BY <2>1, <2>2, <2>3 DEF Authorized
<1> QED BY <1>0, <1>1, <1>2, QuietOrActs

LEMMA InvStrongStep == Inv /\ [Next]_vars => Inv'
BY InvStep, PlacedStep, AuthorizedStep DEF Inv
-----------------------------------------------------------------------------

(***************************************************************************)
(* The step of the registry each writing statement is.                     *)
(***************************************************************************)
LEMMA Views ==
  /\ \A u : u \in Accounts <=> UserExists(u)
  /\ \A o : o \in OrgIds <=> OrgExists(o)
  /\ \A o, u : Registry!Belongs(o, u) <=> IsMember(o, u)
  /\ \A o, u : Registry!Governs(o, u) <=> Manages(o, u)
BY DEF Accounts, OrgIds, UserExists, OrgExists, IsMember, Manages, IsOrgAdmin,
       Registry!Belongs, Registry!Governs

\* A table the registry sees is as it was.
LEMMA ViewsStay ==
  /\ UNCHANGED users => UNCHANGED Accounts
  /\ UNCHANGED orgs => UNCHANGED OrgIds
  /\ UNCHANGED teams => UNCHANGED TeamIds
  /\ UNCHANGED sessions => UNCHANGED Working
  /\ UNCHANGED invitations => UNCHANGED Offers
BY DEF Accounts, OrgIds, TeamIds, Working, Offers

\* A new status is nothing to the registry.
LEMMA OffersStay ==
  ASSUME TypeOK, NEW i \in invitations,
         NEW status \in {"expired", "accepted", "rejected", "canceled"}, Resolves(i, status)
  PROVE  UNCHANGED Offers
<1>1. PICK j \in Invitation :
        /\ invitations' = (invitations \ {i}) \cup {j}
        /\ j.id = i.id /\ j.org = i.org /\ j.role = i.role /\ j.inviter = i.inviter
  BY ResolvesEffect
<1> QED BY <1>1 DEF Offers

LEMMA EnrollStep ==
  ASSUME Inv, NEW r \in Request, WritesUsers(r)
  PROVE  Registry!Enroll(r)
<1>1. /\ pc[r] \in {"idle", "create user"}
      /\ \E e : users' = users \cup {[id |-> r, email |-> e]}
  BY Zenon DEF WritesUsers, SignUp, CreateUser, Finishes, Goes
<1>2. UNCHANGED <<sessions, orgs, members, teams, teamMembers, invitations>>
  BY DEF WritesUsers, SignUp, CreateUser, tenancy
<1>3. r \notin Accounts
  BY <1>1, TenancyAssumption DEF Inv, IndInv, Rows, UserBorn, Born, Accounts
<1>4. Accounts' = Accounts \cup {r}
  <2>1. PICK e : users' = users \cup {[id |-> r, email |-> e]}
    BY <1>1
  <2> DEFINE new == [id |-> r, email |-> e]
  <2>2. new.id = r /\ users' = users \cup {new}
    BY <2>1
  <2> HIDE DEF new
  <2> QED BY <2>2 DEF Accounts
<1> QED BY <1>2, <1>3, <1>4, ViewsStay DEF Registry!Enroll

LEMMA FoundStep ==
  ASSUME Inv, NEW r \in Request, CreateOrganization(r)
  PROVE  Registry!Found(r, call[r].user)
<1>1. pc[r] = "create organization" /\ UserExists(call[r].user)
  BY DEF CreateOrganization, Finishes, Goes
<1>2. /\ orgs' = orgs \cup {[id |-> r, founder |-> call[r].user]}
      /\ members' = members \cup {[org |-> r, user |-> call[r].user, role |-> "owner"]}
      /\ UNCHANGED <<users, sessions, teams, teamMembers, invitations>>
  BY DEF CreateOrganization
<1>3. r \notin OrgIds
  BY <1>1, TenancyAssumption DEF Inv, IndInv, Rows, OrgBorn, Born, OrgIds, PC, Op
<1>4. OrgIds' = OrgIds \cup {r}
  <2> DEFINE new == [id |-> r, founder |-> call[r].user]
  <2>1. new.id = r /\ orgs' = orgs \cup {new}
    BY <1>2
  <2> HIDE DEF new
  <2> QED BY <2>1 DEF OrgIds
<1> QED BY <1>1, <1>2, <1>3, <1>4, Views, ViewsStay DEF Registry!Found

LEMMA OfferStep ==
  ASSUME Inv, NEW r \in Request, CreateInvitation(r)
  PROVE  \E m \in members, role \in {"admin", "member"} : Registry!Offer(r, m, role)
<1>1. PICK e \in Email, role \in Role :
        /\ InviteRole(role)
        /\ invitations' = invitations \cup
             {[id |-> r, org |-> call[r].org, email |-> e, role |-> role,
               inviter |-> call[r].user, status |-> "pending"]}
  BY DEF CreateInvitation
<1>2. /\ pc[r] = "create invitation" /\ UserExists(call[r].user)
      /\ UNCHANGED <<users, sessions, orgs, members, teams, teamMembers>>
  BY DEF CreateInvitation, Goes
<1>3. Manages(call[r].org, call[r].user)
  BY <1>2 DEF Inv, Authorized
<1>4. PICK m \in members : m.org = call[r].org /\ m.user = call[r].user
  BY <1>3 DEF Manages
<1>5. ASSUME NEW f \in Offers PROVE f.id # r
  <2>1. PICK i \in invitations : f.id = i.id
    BY DEF Offers
  <2>2. InvitationBorn(i.id) /\ ~InvitationBorn(r)
    BY <1>2, TenancyAssumption DEF Inv, IndInv, Rows, InvitationBorn, Born, PC, Op
  <2> QED BY <2>1, <2>2
<1>6. Offers' = Offers \cup
        {[id |-> r, org |-> m.org, by |-> m.user, role |-> role]}
  <2> DEFINE new == [id |-> r, org |-> call[r].org, email |-> e, role |-> role,
                     inviter |-> call[r].user, status |-> "pending"]
  <2>1. /\ new.id = r /\ new.org = m.org /\ new.inviter = m.user
        /\ new.role = role /\ invitations' = invitations \cup {new}
    BY <1>1, <1>4
  <2> HIDE DEF new
  <2> QED BY <2>1 DEF Offers
<1>7. Registry!Governs(m.org, m.user)
  BY <1>3, <1>4, Views
<1>8. Registry!Offer(r, m, role)
  BY <1>2, <1>5, <1>6, <1>7, ViewsStay DEF Registry!Offer
<1> QED BY <1>1, <1>8 DEF InviteRole

\* The inviter still governs the organization when somebody accepts.
LEMMA AdmitStep ==
  ASSUME Inv, NEW r \in Request, JoinOrganization(r)
  PROVE  \E f \in Offers : Registry!Admit(f, call[r].user)
<1>1. PICK i \in invitations :
        /\ ~IsMember(i.org, call[r].user)
        /\ members' = members \cup
             {[org |-> i.org, user |-> call[r].user, role |-> i.role]}
        /\ Resolves(i, "accepted")
  BY DEF JoinOrganization
<1>2. UserExists(call[r].user) /\ UNCHANGED <<users, sessions, orgs, teams, teamMembers>>
  BY DEF JoinOrganization
<1>3. Manages(i.org, i.inviter) /\ UserExists(i.inviter)
  BY DEF Inv, IndInv, Placed, Alive
<1> DEFINE f == [id |-> i.id, org |-> i.org, by |-> i.inviter, role |-> i.role]
<1>4. f \in Offers /\ f.org = i.org /\ f.by = i.inviter /\ f.role = i.role
  BY DEF Offers
<1> HIDE DEF f
<1>5. f.by \in Accounts /\ Registry!Governs(f.org, f.by)
  BY <1>3, <1>4, Views
<1>6. call[r].user \in Accounts /\ ~Registry!Belongs(f.org, call[r].user)
  BY <1>1, <1>2, <1>4, Views
<1>7. UNCHANGED Offers
  BY <1>1, OffersStay DEF Inv, IndInv
<1>8. Registry!Admit(f, call[r].user)
  BY <1>1, <1>2, <1>4, <1>5, <1>6, <1>7, ViewsStay DEF Registry!Admit
<1> QED BY <1>4, <1>8

LEMMA OpenTeamStep ==
  ASSUME Inv, NEW r \in Request, CreateTeam(r)
  PROVE  Registry!OpenTeam(r, call[r].org)
<1>1. pc[r] = "insert team"
  BY DEF CreateTeam, Finishes, Goes
<1>2. /\ teams' = teams \cup {[id |-> r, org |-> call[r].org, name |-> call[r].name]}
      /\ UNCHANGED <<users, sessions, orgs, members, teamMembers, invitations>>
  BY DEF CreateTeam
<1>3. call[r].org \in OrgIds
  BY <1>1, Views DEF Inv, Authorized
<1>4. ASSUME NEW x \in TeamIds PROVE x.id # r
  <2>1. PICK t \in teams : x = [id |-> t.id, org |-> t.org]
    BY DEF TeamIds
  <2>2. OrgBorn(t.id) /\ ~OrgBorn(r)
    BY <1>1, TenancyAssumption DEF Inv, Placed, OrgBorn, Born, PC, Op
  <2> QED BY <2>1, <2>2
<1>5. TeamIds' = TeamIds \cup {[id |-> r, org |-> call[r].org]}
  <2> DEFINE new == [id |-> r, org |-> call[r].org, name |-> call[r].name]
  <2>1. new.id = r /\ new.org = call[r].org /\ teams' = teams \cup {new}
    BY <1>2
  <2> HIDE DEF new
  <2> QED BY <2>1 DEF TeamIds
<1> QED BY <1>2, <1>3, <1>4, <1>5, ViewsStay DEF Registry!OpenTeam

\* Whoever joins a team belongs to its organization at that moment.
LEMMA JoinTeamStep ==
  ASSUME Inv, NEW r \in Request, NEW u, Joins(call[r].team, u),
         TeamOf(call[r].team, call[r].org), InOrgOrGone(call[r].org, u),
         UNCHANGED <<users, sessions, orgs, members, teams, invitations>>
  PROVE  \E t \in TeamIds, m \in members : Registry!JoinTeam(t, m)
<1>1. UserExists(u) /\ teamMembers' = teamMembers \cup {[team |-> call[r].team, user |-> u]}
  BY DEF Joins
<1>2. PICK m \in members : m.org = call[r].org /\ m.user = u
  BY <1>1 DEF InOrgOrGone, IsMember
<1>3. PICK t \in teams : t.id = call[r].team /\ t.org = call[r].org
  BY DEF TeamOf
<1> DEFINE view == [id |-> t.id, org |-> t.org]
<1>4. view \in TeamIds /\ view.id = call[r].team /\ view.org = m.org
  BY <1>2, <1>3 DEF TeamIds
<1> HIDE DEF view
<1>5. Registry!JoinTeam(view, m)
  BY <1>1, <1>2, <1>4, ViewsStay DEF Registry!JoinTeam
<1> QED BY <1>4, <1>5

\* The session turns to an organization its user belongs to, or is gone.
LEMMA EnterStep ==
  ASSUME Inv, NEW r \in Request, SetActive(r)
  PROVE  \/ \E s \in Id, m \in members : Registry!Enter(s, m)
         \/ UNCHANGED Registry!vars
<1> DEFINE k == call[r].token
           o == call[r].org
<1>1. pc[r] = "set active" /\ sessions' = {Activated(r, s) : s \in sessions}
  BY DEF SetActive, Finishes, Goes
<1>2. UNCHANGED <<users, orgs, members, teams, teamMembers, invitations>>
  BY DEF SetActive, tenancy
<1>3. sessions \subseteq Session /\ o \in Id /\ o # None
  BY <1>1, TenancyAssumption DEF Inv, IndInv, TypeOK, Held, InOrg
<1>4. CASE \A s \in sessions : s.token # k
  <2>1. sessions' = sessions
    BY <1>1, <1>4 DEF Activated
  <2> QED BY <1>2, <2>1, ViewsStay DEF Registry!vars
<1>5. ASSUME NEW t \in sessions, t.token = k
      PROVE  \E s \in Id, m \in members : Registry!Enter(s, m)
  <2>1. k \in Id
    BY <1>3, <1>5 DEF Session
  <2>2. PICK m \in members : m.org = o /\ m.user = t.user
    BY <1>1, <1>5 DEF Inv, IndInv, Switching, IsMember
  <2>3. \A s \in sessions : s.token = k => s.user = t.user
    BY <1>5 DEF Inv, IndInv, Keys
  <2>4. \A w \in Working : w.session = k => w.user = t.user
    BY <2>3 DEF Working
  <2> DEFINE new == [session |-> k, user |-> t.user, org |-> o]
             others == {w \in Working : w.session # k}
  <2>5. Working' = others \cup {new}
    <3>1. ASSUME NEW s \in sessions
          PROVE  /\ s.token = k => /\ Activated(r, s).token = k
                                   /\ Activated(r, s).user = t.user
                                   /\ Activated(r, s).active = o
                 /\ s.token # k => Activated(r, s) = s
      BY <1>3, <2>3 DEF Activated, Session
    <3>2. ASSUME NEW w \in Working' PROVE w \in others \cup {new}
      <4>1. PICK x \in sessions' :
              x.active # None /\ w = [session |-> x.token, user |-> x.user, org |-> x.active]
        BY DEF Working
      <4>2. PICK s \in sessions : x = Activated(r, s)
        BY <1>1
      <4>3. CASE s.token = k
        BY <3>1, <4>1, <4>2, <4>3
      <4>4. CASE s.token # k
        BY <3>1, <4>1, <4>2, <4>4 DEF Working
      <4> QED BY <4>3, <4>4
    <3>3. ASSUME NEW w \in others PROVE w \in Working'
      <4>1. PICK s \in sessions :
              s.active # None /\ w = [session |-> s.token, user |-> s.user, org |-> s.active]
        BY DEF Working
      <4>2. s.token # k
        BY <4>1
      <4>3. s \in sessions'
        BY <1>1, <3>1, <4>2
      <4> QED BY <4>1, <4>3 DEF Working
    <3>4. new \in Working'
      <4>1. Activated(r, t) \in sessions'
        BY <1>1
      <4> QED BY <1>3, <1>5, <3>1, <4>1 DEF Working
    <3> QED BY <3>2, <3>3, <3>4
  <2> HIDE DEF k, o
  <2>6. Registry!Enter(k, m)
    BY <1>2, <2>2, <2>4, <2>5, ViewsStay DEF Registry!Enter
  <2> QED BY <2>1, <2>6
<1> QED BY <1>4, <1>5

LEMMA EndSessionsStep ==
  ASSUME Inv, NEW r \in Request, RevokeAllSessions(r)
  PROVE  Registry!EndSessions(call[r].user)
<1>1. /\ sessions' = {s \in sessions : s.user # call[r].user}
      /\ UNCHANGED <<users, orgs, members, teams, teamMembers, invitations>>
  BY DEF RevokeAllSessions, tenancy
<1>2. Working' = {w \in Working : w.user # call[r].user}
  BY <1>1 DEF Working
<1> QED BY <1>1, <1>2, ViewsStay DEF Registry!EndSessions

LEMMA DepartStep ==
  ASSUME Inv, NEW r \in Request, DeleteUser(r)
  PROVE  Registry!Depart(call[r].user)
<1> DEFINE u == call[r].user
<1>1. /\ users' = {x \in users : x.id # u}
      /\ sessions' = {s \in sessions : s.user # u}
      /\ members' = {m \in members : m.user # u}
      /\ teamMembers' = {m \in teamMembers : m.user # u}
      /\ invitations' = invitations \ {i \in invitations : i.inviter = u}
      /\ UNCHANGED <<orgs, teams>>
  BY DEF DeleteUser, Losing, Inviting
<1>2. Accounts' = Accounts \ {u}
  BY <1>1 DEF Accounts
<1>3. Working' = {w \in Working : w.user # u}
  BY <1>1 DEF Working
<1>4. Offers' = {f \in Offers : f.by # u}
  BY <1>1 DEF Offers
<1> QED BY <1>1, <1>2, <1>3, <1>4, ViewsStay DEF Registry!Depart

\* A new session works nowhere.
LEMMA OpenSessionStep ==
  ASSUME NEW r \in Request, SignIn(r) \/ StartSession(r)
  PROVE  UNCHANGED Registry!vars
<1>1. \E u : sessions' = sessions \cup {[token |-> r, user |-> u, active |-> None]}
  BY Zenon DEF SignIn, StartSession
<1>2. UNCHANGED <<users, orgs, members, teams, teamMembers, invitations>>
  BY DEF SignIn, StartSession, tenancy
<1>3. Working' = Working
  BY <1>1 DEF Working
<1> QED BY <1>2, <1>3, ViewsStay DEF Registry!vars

LEMMA RegistryStep ==
  ASSUME Inv, [Next]_vars
  PROVE  [Registry!Next]_(Registry!vars)
<1>0. \A r \in Request : pc[r] \notin {"idle", "create user", "done"} => call[r].user \in Id
  BY DEF Inv, IndInv, Held
<1>1. ASSUME NEW r \in Request, Acts(r) PROVE [Registry!Next]_(Registry!vars)
  <2> USE DEF Goes, Finishes
  <2>1. r \in Id
    BY DEF Id
  <2>2. CASE WritesUsers(r)
    BY <2>1, <2>2, EnrollStep DEF Registry!Next
  <2>3. CASE CreateOrganization(r)
    <3>1. call[r].user \in Accounts
      BY <2>3, Views DEF CreateOrganization
    <3> QED BY <2>1, <2>3, <3>1, FoundStep DEF Registry!Next
  <2>4. CASE JoinOrganization(r)
    <3>1. call[r].user \in Accounts
      BY <2>4, Views DEF JoinOrganization
    <3> QED BY <2>4, <3>1, AdmitStep DEF Registry!Next
  <2>5. CASE CreateTeam(r)
    <3>1. call[r].org \in OrgIds
      BY <2>5, Views DEF CreateTeam, Inv, Authorized
    <3> QED BY <2>1, <2>5, <3>1, OpenTeamStep DEF Registry!Next
  <2>6. CASE AddTeamMember(r)
    <3>1. pc[r] = "insert team member" /\ Joins(call[r].team, call[r].subject)
      BY <2>6 DEF AddTeamMember
    <3>2. /\ TeamOf(call[r].team, call[r].org)
          /\ InOrgOrGone(call[r].org, call[r].subject)
      BY <3>1, TenancyAssumption DEF Inv, IndInv, Held, Teaming, Joining, WithTeam
    <3>3. \E t \in TeamIds, m \in members : Registry!JoinTeam(t, m)
      BY <2>6, <3>1, <3>2, JoinTeamStep DEF AddTeamMember
    <3> QED BY <3>3 DEF Registry!Next
  <2>7. CASE JoinTeam(r)
    <3>1. pc[r] = "join team" /\ Joins(call[r].team, call[r].user)
      BY <2>7 DEF JoinTeam
    <3>2. /\ TeamOf(call[r].team, call[r].org)
          /\ InOrgOrGone(call[r].org, call[r].user)
      BY <3>1, TenancyAssumption DEF Inv, IndInv, Held, Teaming, Joining, WithTeam
    <3>3. \E t \in TeamIds, m \in members : Registry!JoinTeam(t, m)
      BY <2>7, <3>1, <3>2, JoinTeamStep DEF JoinTeam
    <3> QED BY <3>3 DEF Registry!Next
  <2>8. CASE RemoveTeamMember(r)
    <3>1. PICK m \in teamMembers : teamMembers' = teamMembers \ {m}
      BY <2>8 DEF RemoveTeamMember
    <3>2. Registry!LeaveTeam(m)
      BY <2>8, <3>1, ViewsStay DEF RemoveTeamMember, Registry!LeaveTeam
    <3> QED BY <3>2 DEF Registry!Next
  <2>9. CASE SetActive(r)
    BY <2>9, EnterStep DEF Registry!Next
  <2>10. CASE SignIn(r) \/ StartSession(r)
    BY <2>10, OpenSessionStep
  <2>11. CASE RevokeAllSessions(r)
    <3>1. call[r].user \in Id
      BY <1>0, <2>11 DEF RevokeAllSessions
    <3> QED BY <2>11, <3>1, EndSessionsStep DEF Registry!Next
  <2>12. CASE DeleteUser(r)
    <3>1. call[r].user \in Id
      BY <1>0, <2>12 DEF DeleteUser
    <3> QED BY <2>12, <3>1, DepartStep DEF Registry!Next
  <2>13. CASE Looks(r)
    BY <2>13, LooksEffect, ViewsStay DEF tables, tenancy, Registry!vars
  <2>14. CASE CreateInvitation(r)
    BY <2>1, <2>14, OfferStep DEF Registry!Next
  <2>15. CASE SetInvitationTeam(r)
    BY <2>15, ViewsStay DEF SetInvitationTeam, Registry!vars
  <2>16. CASE CancelInvitation(r) \/ RejectInvitation(r)
    <3>1. UNCHANGED <<users, sessions, orgs, members, teams, teamMembers>>
      BY <2>16 DEF CancelInvitation, RejectInvitation
    <3>2. UNCHANGED Offers
      BY <2>16, OffersStay DEF CancelInvitation, RejectInvitation, Inv, IndInv
    <3> QED BY <3>1, <3>2, ViewsStay DEF Registry!vars
  <2> QED BY <1>1, <2>2, <2>3, <2>4, <2>5, <2>6, <2>7, <2>8, <2>9, <2>10, <2>11, <2>12,
             <2>13, <2>14, <2>15, <2>16, ActsByEffect
             DEF WritesSessions, WritesTeams, WritesInvitations
<1>2. ASSUME NEW i \in invitations, Expire(i) PROVE UNCHANGED Registry!vars
  <2>1. UNCHANGED Offers
    BY <1>2, OffersStay DEF Expire, Inv, IndInv
  <2> QED BY <1>2, <2>1, ExpireEffect, ViewsStay DEF Registry!vars
<1>3. CASE UNCHANGED vars
  BY <1>3, ViewsStay DEF vars, tables, tenancy, Registry!vars
<1> QED BY <1>1, <1>2, <1>3, NextByEffect
-----------------------------------------------------------------------------

(***************************************************************************)
(* The theorems, from a consistent database whose rows are Placed.         *)
(***************************************************************************)
PlacedSpec == Consistent /\ Placed /\ NothingUnderWay /\ [][Next]_vars

LEMMA StrongInit == Consistent /\ Placed /\ NothingUnderWay => Inv
<1> SUFFICES ASSUME Consistent, Placed, NothingUnderWay PROVE Inv
  OBVIOUS
<1>1. ASSUME NEW r \in Request PROVE Authorized(r)
  BY DEF NothingUnderWay, Authorized
<1> QED BY <1>1, InvInit DEF Inv

LEMMA RegistryInit == Consistent /\ Placed => Registry!Init
<1> SUFFICES ASSUME Consistent, Placed PROVE Registry!Init
  OBVIOUS
<1>1. \A m \in members : m.user \in Accounts /\ m.org \in OrgIds
  BY Views DEF Consistent, Alive, Placed
<1>2. ASSUME NEW x \in teamMembers
      PROVE  \E t \in TeamIds : t.id = x.team /\ Registry!Belongs(t.org, x.user)
  <2>1. PICK t \in teams : t.id = x.team /\ IsMember(t.org, x.user)
    BY DEF Consistent, TeamMembersInOrg
  <2>2. [id |-> t.id, org |-> t.org] \in TeamIds
    BY DEF TeamIds
  <2> QED BY <2>1, <2>2, Views
<1>3. ASSUME NEW w \in Working PROVE Registry!Belongs(w.org, w.user)
  <2>1. PICK s \in sessions : s.active # None /\ w.user = s.user /\ w.org = s.active
    BY DEF Working
  <2> QED BY <2>1, Views DEF Consistent, SessionsStayHome
<1>4. ASSUME NEW f \in Offers PROVE f.by \in Accounts /\ Registry!Governs(f.org, f.by)
  <2>1. PICK i \in invitations : f.org = i.org /\ f.by = i.inviter
    BY DEF Offers
  <2> QED BY <2>1, Views DEF Consistent, Alive, Placed
<1> QED BY <1>1, <1>2, <1>3, <1>4 DEF Registry!Init

\* The empty database is placed, too.
THEOREM SpecIsPlaced == Spec => PlacedSpec
<1>1. Init => Consistent /\ Placed /\ NothingUnderWay
  BY DEF Init, Consistent, NothingUnderWay, Tables, Rows, Keys, Alive, InvitationTeams,
         TeamMembersInOrg, SessionsStayHome, FoundersOwn, EveryOrgHasOwner, Placed
<1> QED BY <1>1, PTL DEF Spec, PlacedSpec

\* The invariant of TenancyProofs, and where the rows hang.
THEOREM StrongInvariant == PlacedSpec => []Inv
BY StrongInit, InvStrongStep, PTL DEF PlacedSpec

\* Behind every row of organization_invitations stands an account that is an admin
\* or owner of the organization now, not only when CreateInvitation looked: roles
\* never change, and the row goes with the account (invitations.go, me.go).
InvitersGovern == \A i \in invitations : UserExists(i.inviter) /\ Manages(i.org, i.inviter)

THEOREM InvitersStand == PlacedSpec => []InvitersGovern
<1>1. Inv => InvitersGovern
  BY DEF Inv, IndInv, Alive, Placed, InvitersGovern
<1> QED BY <1>1, StrongInvariant, PTL

\* The handlers of organizations, teams, invitations and DeleteMe together keep
\* the registry of memberships: whatever their interleaving, each of their
\* statements is one of its operations, or changes nothing in it.
THEOREM KeepsTheRegistry == PlacedSpec => ImplementsMemberships
<1>1. Consistent /\ Placed => Registry!Init
  BY RegistryInit
<1>2. Inv /\ [Next]_vars => [Registry!Next]_(Registry!vars)
  BY RegistryStep
<1> QED BY <1>1, <1>2, StrongInvariant, PTL DEF PlacedSpec, ImplementsMemberships, Registry!Spec
=============================================================================
