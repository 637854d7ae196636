----------------------------- MODULE MCTenancy -----------------------------
(***************************************************************************)
(* Tenancy for TLC, from a database with two organizations: ann founded    *)
(* acme with the team sales and made bob an admin; cyd founded beta with   *)
(* the team ops.  All three are signed in; bob has invited cyd into sales  *)
(* and a person without an account into acme.                              *)
(***************************************************************************)
EXTENDS Tenancy, TLC

People == {"ann", "bob", "cyd"}
UpperCase == <<"sales", "upper">>

MCInit ==
  /\ users = {[id |-> p, email |-> p] : p \in People}
  /\ sessions = {[token |-> p, user |-> p, active |-> None] : p \in People}
  /\ orgs = {[id |-> "acme", founder |-> "ann"], [id |-> "beta", founder |-> "cyd"]}
  /\ members = {[org |-> "acme", user |-> "ann", role |-> "owner"],
                [org |-> "acme", user |-> "bob", role |-> "admin"],
                [org |-> "beta", user |-> "cyd", role |-> "owner"]}
  /\ teams = {[id |-> "sales", org |-> "acme", name |-> UpperCase],
              [id |-> "ops", org |-> "beta", name |-> UpperCase]}
  /\ teamMembers = {[team |-> "sales", user |-> "bob"]}
  /\ invitations =
       {[id |-> "to cyd", org |-> "acme", email |-> "cyd", role |-> "member",
         inviter |-> "bob", status |-> "pending"],
        [id |-> "to new", org |-> "acme", email |-> "new", role |-> "member",
         inviter |-> "bob", status |-> "pending"]}
  /\ invitationTeams = {[invitation |-> "to cyd", team |-> "sales"]}
  /\ pc = [r \in Request |-> "idle"]
  /\ call = [r \in Request |-> NoCall]
  /\ reply = [r \in Request |-> None]

MCSpec == MCInit /\ [][Next]_vars

\* Requests are interchangeable.
Symmetry == Permutations(Request)
=============================================================================
