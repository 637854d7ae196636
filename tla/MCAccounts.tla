----------------------------- MODULE MCAccounts -----------------------------
(***************************************************************************)
(* Accounts for TLC, from a database where ann has three sessions, an image  *)
(* and an unconfirmed change of address, and bob has one session.          *)
(***************************************************************************)
EXTENDS Accounts, TLC

MCId == Request \cup Seed
MCLower == [e \in {"bob", "new", " NEW "} |-> IF e = " NEW " THEN "new" ELSE e]

Change0 == [token |-> "link", user |-> "ann", email |-> "new"]

MCInit ==
  /\ users = [u \in User |-> [email |-> u, name |-> "link",
                              image |-> IF u = "ann" THEN "photo" ELSE None]]
  /\ sessions = {[token |-> "laptop", user |-> "ann"], [token |-> "phone", user |-> "ann"],
                 [token |-> "tablet", user |-> "ann"],
                 [token |-> "desk", user |-> "bob"]}
  /\ changes = {[token |-> "link", user |-> "ann", email |-> "new", expired |-> FALSE]}
  /\ mailed = {Change0}
  /\ lostAck = {}
  /\ StorageInit([k \in Key |-> IF k = "photo" THEN k ELSE None])
  /\ pc = [r \in Request |-> "idle"]
  /\ call = [r \in Request |-> NoCall]
  /\ reply = [r \in Request |-> None]

MCSpec == MCInit /\ [][Next]_vars

\* Requests are interchangeable.
Symmetry == Permutations(Request)
=============================================================================
