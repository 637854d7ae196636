---------------------------- MODULE Memberships ----------------------------
(***************************************************************************)
(* What the tenancy promises to whoever relies on it (the tiers, the       *)
(* links of an organization): who belongs where, with every request        *)
(* reduced to the instants at which it takes effect.                       *)
(*                                                                         *)
(* Somebody belongs to an organization by founding it, or on an offer of   *)
(* an admin or owner who governs it still, and belongs, with the role once *)
(* given, until the account goes; is in a team, and works in an            *)
(* organization, only while belonging to it.  It does NOT promise that an  *)
(* organization keeps an owner, that an offer is taken once or can be      *)
(* called off, or that one into a team ends in the team.                   *)
(***************************************************************************)
CONSTANT Id  \* ids of accounts, organizations, teams, offers and sessions

VARIABLES
  accounts,    \* who has an account
  orgs,        \* organizations
  members,     \* who belongs to which organization, with one role
  teams,       \* teams, each of an organization
  teamMembers, \* who is in which team
  offers,      \* invitations, each by somebody into an organization
  working      \* sessions with an active organization

vars == <<accounts, orgs, members, teams, teamMembers, offers, working>>

Belongs(o, u) == \E m \in members : m.org = o /\ m.user = u
Governs(o, u) == \E m \in members : m.org = o /\ m.user = u /\ m.role \in {"owner", "admin"}
-----------------------------------------------------------------------------
Init ==
  /\ \A m \in members : m.user \in accounts /\ m.org \in orgs
  /\ \A x \in teamMembers : \E t \in teams : t.id = x.team /\ Belongs(t.org, x.user)
  /\ \A f \in offers : f.by \in accounts /\ Governs(f.org, f.by)
  /\ \A w \in working : Belongs(w.org, w.user)

Enroll(u) ==
  /\ u \notin accounts
  /\ accounts' = accounts \cup {u}
  /\ UNCHANGED <<orgs, members, teams, teamMembers, offers, working>>

Found(o, u) ==
  /\ u \in accounts /\ o \notin orgs
  /\ orgs' = orgs \cup {o}
  /\ members' = members \cup {[org |-> o, user |-> u, role |-> "owner"]}
  /\ UNCHANGED <<accounts, teams, teamMembers, offers, working>>

\* The member m invites somebody.
Offer(i, m, role) ==
  /\ m \in members /\ Governs(m.org, m.user)
  /\ \A f \in offers : f.id # i
  /\ offers' = offers \cup {[id |-> i, org |-> m.org, by |-> m.user, role |-> role]}
  /\ UNCHANGED <<accounts, orgs, members, teams, teamMembers, working>>

\* Whoever made the offer is there to stand behind it.
Admit(f, u) ==
  /\ f \in offers /\ f.by \in accounts /\ Governs(f.org, f.by)
  /\ u \in accounts /\ ~Belongs(f.org, u)
  /\ members' = members \cup {[org |-> f.org, user |-> u, role |-> f.role]}
  /\ UNCHANGED <<accounts, orgs, teams, teamMembers, offers, working>>

OpenTeam(t, o) ==
  /\ o \in orgs
  /\ \A x \in teams : x.id # t
  /\ teams' = teams \cup {[id |-> t, org |-> o]}
  /\ UNCHANGED <<accounts, orgs, members, teamMembers, offers, working>>

JoinTeam(t, m) ==
  /\ t \in teams /\ m \in members /\ m.org = t.org
  /\ teamMembers' = teamMembers \cup {[team |-> t.id, user |-> m.user]}
  /\ UNCHANGED <<accounts, orgs, members, teams, offers, working>>

LeaveTeam(x) ==
  /\ x \in teamMembers
  /\ teamMembers' = teamMembers \ {x}
  /\ UNCHANGED <<accounts, orgs, members, teams, offers, working>>

\* The session s turns to the organization its user is the member m of.
Enter(s, m) ==
  /\ m \in members
  /\ \A w \in working : w.session = s => w.user = m.user
  /\ working' = {w \in working : w.session # s} \cup
                  {[session |-> s, user |-> m.user, org |-> m.org]}
  /\ UNCHANGED <<accounts, orgs, members, teams, teamMembers, offers>>

EndSessions(u) ==
  /\ working' = {w \in working : w.user # u}
  /\ UNCHANGED <<accounts, orgs, members, teams, teamMembers, offers>>

Depart(u) ==
  /\ accounts' = accounts \ {u}
  /\ members' = {m \in members : m.user # u}
  /\ teamMembers' = {m \in teamMembers : m.user # u}
  /\ offers' = {f \in offers : f.by # u}
  /\ working' = {w \in working : w.user # u}
  /\ UNCHANGED <<orgs, teams>>

Next ==
  \/ \E u \in Id : Enroll(u) \/ EndSessions(u) \/ Depart(u)
  \/ \E o \in Id, u \in accounts : Found(o, u)
  \/ \E i \in Id, m \in members, role \in {"admin", "member"} : Offer(i, m, role)
  \/ \E f \in offers, u \in accounts : Admit(f, u)
  \/ \E t \in Id, o \in orgs : OpenTeam(t, o)
  \/ \E t \in teams, m \in members : JoinTeam(t, m)
  \/ \E x \in teamMembers : LeaveTeam(x)
  \/ \E s \in Id, m \in members : Enter(s, m)

Spec == Init /\ [][Next]_vars
=============================================================================
