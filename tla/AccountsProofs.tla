--------------------------- MODULE AccountsProofs ---------------------------
(***************************************************************************)
(* Accounts for any number of requests, accounts and addresses: type       *)
(* correctness, the invariants MCAccounts checks for two requests, and the *)
(* refinement of ObjectStore.                                              *)
(*                                                                         *)
(* All of it rests on one fact: what a request creates carries its id, and *)
(* a request that has created something never gets back to where it could  *)
(* create it again.  So a token or a key somebody remembers (known, image, *)
(* subject) can disappear but not be born a second time.                   *)
(***************************************************************************)
EXTENDS Accounts, TLAPS

EmailSteps == {"count address", "delete changes", "create change", "send mail",
               "find token", "update address", "drop changes"}
Past == {"undo", "delete old", "done"}

\* What a handler holds at each step.
Held(r) ==
  /\ pc[r] \notin {"idle", "done"} => call[r].user \in User
  /\ pc[r] \in EmailSteps \ {"find token"} => call[r].email \in Address
  /\ pc[r] \notin EmailSteps \cup {"done"} => call[r].email = None
  /\ pc[r] = "idle" => call[r] = NoCall
  /\ reply[r] # None => pc[r] = "done"

\* Sessions and known tokens were created, and are not created again.
Opened ==
  /\ \A s \in sessions : s.token \in Request /\ pc[s.token] = "done"
  /\ \A s, t \in sessions : s.token = t.token => s = t
  /\ \A r \in Request : \A t \in call[r].known :
       t \in Request /\ pc[t] \in {"send mail", "done"}

\* What a revocation still has to do.
Revoking(r) ==
  /\ pc[r] \in {"get session", "revoke"} => call[r].known = {call[r].subject}
  /\ pc[r] = "revoke others" =>
       \A s \in sessions : s.token \in call[r].known => s.token \in call[r].todo
  /\ pc[r] = "revoke all" =>
       \A s \in sessions : s.token \in call[r].known => s.user = call[r].user

\* A change of address and its mail are those of the request that made them.
Asked ==
  \A c \in changes : /\ c.token \in Request /\ pc[c.token] \in {"send mail", "done"}
                     /\ c.user = call[c.token].user /\ c.email = call[c.token].email
Told ==
  \A m \in mailed : /\ m.token \in Request /\ pc[m.token] = "done"
                    /\ m.user = call[m.token].user /\ m.email = call[m.token].email
Proven(r) ==
  /\ pc[r] = "find token" => \E m \in mailed : m.token = call[r].subject
  /\ pc[r] = "update address" =>
       \E m \in mailed : m.user = call[r].user /\ m.email = call[r].email

\* The links a request found are its user's, and gone once it deleted them.
Superseding(r) ==
  /\ pc[r] \in {"count address", "delete changes", "find token", "update address",
                "drop changes"} =>
       \A c \in changes : c.token \in call[r].known => c.user = call[r].user
  /\ pc[r] \in {"create change", "send mail"} => TokensOf(changes) \cap call[r].known = {}

\* An image in a row, and one remembered, were uploaded for the same user by a
\* request that will not store them again.
Shown(u) ==
  LET k == users[u].image
  IN  k # None => /\ k \in Request /\ pc[k] \in Past /\ call[k].user = u
                  /\ pc[k] = "undo" => k \in lostAck
                  /\ files[k] = k \/ k \in lostAck
Remembered(r) ==
  LET k == call[r].image
  IN  k # None => /\ k \in Request /\ pc[k] \in Past /\ call[k].user = call[r].user
                  /\ pc[r] = "delete old" => \A u \in User : users[u].image # k
Stored(r) == pc[r] = "update image" => files[r] = r
WholeObjects == \A k \in Key : files[k] \in {None, k}

IndInv ==
  /\ TypeOK
  /\ \A r \in Request : Held(r)
  /\ Opened /\ \A r \in Request : Revoking(r)
  /\ Asked /\ Told /\ \A r \in Request : Proven(r) /\ Superseding(r)
  /\ WholeObjects /\ \A u \in User : Shown(u)
  /\ \A r \in Request : Remembered(r) /\ Stored(r)
  /\ RevokedStayOut /\ OldLinksDie
-----------------------------------------------------------------------------

(***************************************************************************)
(* What a step does to what handlers hold, for the actions that load it.   *)
(***************************************************************************)
Others(r) ==
  /\ call' \in [Request -> Call]
  /\ \A q \in Request \ {r} : call'[q] = call[q] /\ pc'[q] = pc[q] /\ reply'[q] = reply[q]

\* One field is loaded.
LEMMA LoadsType ==
  ASSUME TypeOK, NEW r \in Request, NEW field, NEW value,
         \/ field = "body" /\ value \in Object \cup {None}
         \/ field = "email" /\ value \in Address \cup {None}
         \/ field \in {"todo", "known"} /\ value \in SUBSET Id,
         Loads(r, field, value)
  PROVE  call' \in [Request -> Call]
<1>1. [call[r] EXCEPT ![field] = value] \in Call
  BY DEF TypeOK, Call
<1>2. call' = [call EXCEPT ![r] = [call[r] EXCEPT ![field] = value]]
  BY DEF Loads, TypeOK
<1> QED BY <1>1, <1>2 DEF TypeOK

\* The session tier loads the session and its user; what else depends on the
\* route.
Arrived(r) ==
  /\ Others(r) /\ pc[r] = "idle" /\ pc' \in [Request -> PC]
  /\ UNCHANGED <<rows, storage, mailed, lostAck, reply>>
  /\ \E s \in sessions :
       /\ call'[r].user = s.user
       /\ \/ /\ pc'[r] \in {"update name", "put", "clear image", "list sessions"}
             /\ call'[r].image = users[s.user].image
             /\ call'[r].email = None /\ call'[r].known = {}
          \/ /\ pc'[r] = "get session"
             /\ call'[r].image = None /\ call'[r].email = None
             /\ \E x \in SessionsOf(s.user) :
                  call'[r].subject = x.token /\ call'[r].known = {x.token}
          \/ /\ pc'[r] = "count address"
             /\ call'[r].image = None /\ call'[r].email \in Address
             /\ call'[r].known = TokensOf(ChangesOf(s.user))
          \/ /\ pc'[r] = "find token"
             /\ call'[r].image = None /\ call'[r].email = None
             /\ call'[r].known = TokensOf(ChangesOf(s.user))

LEMMA Arriving ==
  ASSUME TypeOK, NEW r \in Request, Held(r), Arrive(r)
  PROVE  Arrived(r)
<1> DEFINE Known(s) == TokensOf(ChangesOf(s.user))
<1>1. PICK s \in sessions :
        \/ /\ \E to \in {"update name", "put", "clear image", "list sessions"} : SignedIn(r, to, s)
           /\ call' = [call EXCEPT ![r].user = s.user, ![r].token = s.token,
                                   ![r].image = users[s.user].image]
        \/ /\ SignedIn(r, "get session", s)
           /\ \E x \in SessionsOf(s.user) :
                call' = [call EXCEPT ![r].user = s.user, ![r].token = s.token,
                                     ![r].subject = x.token, ![r].known = {x.token}]
        \/ /\ SignedIn(r, "count address", s)
           /\ \E e \in Typed :
                call' = [call EXCEPT ![r].user = s.user, ![r].token = s.token,
                                     ![r].email = NewEmail(e), ![r].known = Known(s)]
        \/ /\ SignedIn(r, "find token", s)
           /\ \E m \in mailed :
                call' = [call EXCEPT ![r].user = s.user, ![r].token = s.token,
                                     ![r].subject = m.token, ![r].known = Known(s)]
  BY DEF Arrive
<1>2. /\ s.user \in User /\ s.token \in Id /\ users[s.user].image \in Key \cup {None}
      /\ Known(s) \subseteq Id /\ s \in Session
  BY DEF TypeOK, Session, Profile, TokensOf, ChangesOf, Change
<1>3. call[r] \in Call /\ call[r].image = None /\ call[r].email = None /\ call[r].known = {}
  <2>1. pc[r] = "idle"
    BY <1>1 DEF SignedIn, Goes
  <2> QED BY <2>1 DEF TypeOK, Held, NoCall
<1> HIDE DEF Known
<1>4. CASE /\ \E to \in {"update name", "put", "clear image", "list sessions"} : SignedIn(r, to, s)
           /\ call' = [call EXCEPT ![r].user = s.user, ![r].token = s.token,
                                   ![r].image = users[s.user].image]
  <2>1. [call[r] EXCEPT !.user = s.user, !.token = s.token, !.image = users[s.user].image] \in Call
    BY <1>2, <1>3 DEF Call
  <2>2. call' = [call EXCEPT ![r] = [call[r] EXCEPT !.user = s.user, !.token = s.token,
                                                    !.image = users[s.user].image]]
    BY <1>4 DEF TypeOK
  <2>3. PICK to \in {"update name", "put", "clear image", "list sessions"} : SignedIn(r, to, s)
    BY <1>4
  <2>4. /\ Others(r) /\ pc[r] = "idle" /\ pc' \in [Request -> PC] /\ pc'[r] = to
        /\ UNCHANGED <<rows, storage, mailed, lostAck, reply>>
    BY <2>1, <2>2, <2>3 DEF SignedIn, Goes, Others, TypeOK, PC
  <2>5. /\ call'[r].user = s.user /\ call'[r].image = users[s.user].image
        /\ call'[r].email = None /\ call'[r].known = {}
    BY <1>3, <2>1, <2>2 DEF TypeOK, Call
  <2> QED BY <2>3, <2>4, <2>5 DEF Arrived
<1>5. CASE /\ SignedIn(r, "get session", s)
           /\ \E x \in SessionsOf(s.user) :
                call' = [call EXCEPT ![r].user = s.user, ![r].token = s.token,
                                     ![r].subject = x.token, ![r].known = {x.token}]
  <2>1. PICK x \in SessionsOf(s.user) :
          call' = [call EXCEPT ![r].user = s.user, ![r].token = s.token,
                               ![r].subject = x.token, ![r].known = {x.token}]
    BY <1>5
  <2>2. x.token \in Id
    BY <2>1 DEF SessionsOf, TypeOK, Session
  <2>3. [call[r] EXCEPT !.user = s.user, !.token = s.token,
                        !.subject = x.token, !.known = {x.token}] \in Call
    BY <1>2, <1>3, <2>2 DEF Call
  <2>4. call' = [call EXCEPT ![r] = [call[r] EXCEPT !.user = s.user, !.token = s.token,
                                                    !.subject = x.token, !.known = {x.token}]]
    BY <2>1 DEF TypeOK
  <2> QED BY <1>3, <1>5, <2>3, <2>4 DEF SignedIn, Goes, Others, TypeOK, PC, Call, Arrived
<1>6. CASE /\ SignedIn(r, "count address", s)
           /\ \E e \in Typed :
                call' = [call EXCEPT ![r].user = s.user, ![r].token = s.token,
                                     ![r].email = NewEmail(e), ![r].known = Known(s)]
  <2>1. PICK e \in Typed :
          call' = [call EXCEPT ![r].user = s.user, ![r].token = s.token,
                               ![r].email = NewEmail(e), ![r].known = Known(s)]
    BY <1>6
  <2>2. NewEmail(e) \in Address
    BY AccountsAssumption DEF NewEmail
  <2>3. [call[r] EXCEPT !.user = s.user, !.token = s.token,
                        !.email = NewEmail(e), !.known = Known(s)] \in Call
    BY <1>2, <1>3, <2>2 DEF Call
  <2>4. call' = [call EXCEPT ![r] = [call[r] EXCEPT !.user = s.user, !.token = s.token,
                                                    !.email = NewEmail(e), !.known = Known(s)]]
    BY <2>1 DEF TypeOK
  <2> QED BY <1>3, <1>6, <2>2, <2>3, <2>4 DEF SignedIn, Goes, Others, TypeOK, PC, Call,
     Arrived, Known
<1>7. CASE /\ SignedIn(r, "find token", s)
           /\ \E m \in mailed :
                call' = [call EXCEPT ![r].user = s.user, ![r].token = s.token,
                                     ![r].subject = m.token, ![r].known = Known(s)]
  <2>1. PICK m \in mailed :
          call' = [call EXCEPT ![r].user = s.user, ![r].token = s.token,
                               ![r].subject = m.token, ![r].known = Known(s)]
    BY <1>7
  <2>2. m.token \in Id
    BY DEF TypeOK, Mail
  <2>3. [call[r] EXCEPT !.user = s.user, !.token = s.token,
                        !.subject = m.token, !.known = Known(s)] \in Call
    BY <1>2, <1>3, <2>2 DEF Call
  <2>4. call' = [call EXCEPT ![r] = [call[r] EXCEPT !.user = s.user, !.token = s.token,
                                                    !.subject = m.token, !.known = Known(s)]]
    BY <2>1 DEF TypeOK
  <2> QED BY <1>3, <1>7, <2>3, <2>4 DEF SignedIn, Goes, Others, TypeOK, PC, Call, Arrived,
     Known
<1> QED BY <1>1, <1>4, <1>5, <1>6, <1>7 DEF Arrived

\* A link is opened by somebody who has the mail.
LEMMA Opening ==
  ASSUME TypeOK, NEW r \in Request, Held(r), Arrive(r), pc'[r] = "find token"
  PROVE  \E m \in mailed : m.token = call'[r].subject
<1>1. PICK s \in sessions :
        /\ SignedIn(r, "find token", s)
        /\ \E m \in mailed :
             call' = [call EXCEPT ![r].user = s.user, ![r].token = s.token,
                                  ![r].subject = m.token,
                                  ![r].known = TokensOf(ChangesOf(s.user))]
  BY ZenonT(60) DEF Arrive, SignedIn, Goes, TypeOK
<1>2. PICK m \in mailed :
        call' = [call EXCEPT ![r].user = s.user, ![r].token = s.token,
                             ![r].subject = m.token,
                             ![r].known = TokensOf(ChangesOf(s.user))]
  BY <1>1
<1>3. call'[r].subject = m.token
  BY <1>2 DEF TypeOK, Call
<1> QED BY <1>3

\* A reset loads the account and, for the record, its sessions.
Reset(r) ==
  /\ Others(r) /\ pc[r] = "idle" /\ pc' = [pc EXCEPT ![r] = "revoke all"]
  /\ UNCHANGED <<rows, storage, mailed, lostAck, reply>>
  /\ call'[r].user \in User /\ call'[r].image = None /\ call'[r].email = None
  /\ call'[r].known = TokensOf(SessionsOf(call'[r].user))

LEMMA Resetting ==
  ASSUME TypeOK, NEW r \in Request, Held(r), ResetPassword(r)
  PROVE  Reset(r)
<1> DEFINE Known(u) == TokensOf(SessionsOf(u))
<1>1. PICK u \in User : call' = [call EXCEPT ![r].user = u, ![r].known = Known(u)]
  BY DEF ResetPassword
<1>2. Known(u) \subseteq Id
  BY DEF TypeOK, Session, TokensOf, SessionsOf
<1>3. call[r] \in Call /\ call[r].image = None /\ call[r].email = None
  <2>1. pc[r] = "idle"
    BY DEF ResetPassword, Goes
  <2> QED BY <2>1 DEF TypeOK, Held, NoCall
<1> HIDE DEF Known
<1>4. [call[r] EXCEPT !.user = u, !.known = Known(u)] \in Call
  BY <1>2, <1>3 DEF Call
<1>5. call' = [call EXCEPT ![r] = [call[r] EXCEPT !.user = u, !.known = Known(u)]]
  BY <1>1 DEF TypeOK
<1> QED BY <1>3, <1>4, <1>5 DEF ResetPassword, Goes, Others, TypeOK, Call, Known, Reset

\* The list of the other sessions is loaded.
Listed(r) ==
  /\ Others(r) /\ Goes(r, "list sessions", "revoke others")
  /\ UNCHANGED <<rows, storage, mailed, lostAck, reply>>
  /\ call'[r].user = call[r].user /\ call'[r].image = call[r].image
  /\ call'[r].email = call[r].email
  /\ call'[r].todo = call'[r].known /\ call'[r].known \subseteq TokensOf(sessions)

LEMMA Listing ==
  ASSUME TypeOK, NEW r \in Request, ListSessions(r)
  PROVE  Listed(r)
<1> DEFINE others == TokensOf(SessionsOf(call[r].user)) \ {call[r].token}
<1>1. call' = [call EXCEPT ![r].todo = others, ![r].known = others]
  BY DEF ListSessions
<1>2. others \subseteq Id /\ others \subseteq TokensOf(sessions) /\ call[r] \in Call
  BY DEF TypeOK, Session, TokensOf, SessionsOf
<1> HIDE DEF others
<1>3. [call[r] EXCEPT !.todo = others, !.known = others] \in Call
  BY <1>2 DEF Call
<1>4. call' = [call EXCEPT ![r] = [call[r] EXCEPT !.todo = others, !.known = others]]
  BY <1>1 DEF TypeOK
<1>5. /\ Others(r) /\ Goes(r, "list sessions", "revoke others")
      /\ UNCHANGED <<rows, storage, mailed, lostAck, reply>>
  BY <1>3, <1>4 DEF ListSessions, Goes, Others, TypeOK
<1>6. /\ call'[r].user = call[r].user /\ call'[r].image = call[r].image
      /\ call'[r].email = call[r].email
      /\ call'[r].todo = others /\ call'[r].known = others
  BY <1>2, <1>3, <1>4 DEF TypeOK, Call
<1> QED BY <1>2, <1>5, <1>6 DEF Listed

\* A sign-out remembers the session it ended.
SignedOut(r) ==
  /\ Others(r) /\ Finishes(r, "idle", "revoked")
  /\ UNCHANGED <<users, changes, storage, mailed, lostAck>>
  /\ call'[r].user = call[r].user /\ call'[r].image = call[r].image
  /\ call'[r].email = call[r].email
  /\ \E s \in sessions : sessions' = sessions \ {s} /\ call'[r].known = {s.token}

LEMMA SigningOut ==
  ASSUME TypeOK, NEW r \in Request, SignOut(r)
  PROVE  SignedOut(r)
<1>1. PICK s \in sessions : sessions' = sessions \ {s} /\ Loads(r, "known", {s.token})
  BY DEF SignOut
<1>2. {s.token} \in SUBSET Id
  BY DEF TypeOK, Session
<1>3. call' \in [Request -> Call]
  BY <1>1, <1>2, LoadsType
<1> QED BY <1>1, <1>3 DEF SignOut, Finishes, Goes, Answers, Others, TypeOK, Loads, Call,
   SignedOut

\* The address of the change that was found.
Found(r) ==
  /\ Others(r) /\ Goes(r, "find token", "update address")
  /\ UNCHANGED <<rows, storage, mailed, lostAck, reply>>
  /\ call'[r].user = call[r].user /\ call'[r].image = call[r].image
  /\ call'[r].known = call[r].known
  /\ \E c \in changes : /\ c.token = call[r].subject /\ c.user = call[r].user
                        /\ call'[r].email = c.email /\ c.email \in Address

LEMMA Finding ==
  ASSUME TypeOK, NEW r \in Request, FindToken(r)
  PROVE  Found(r)
<1>1. PICK c \in changes : /\ c.token = call[r].subject
                           /\ Confirmable(c, call[r].user)
                           /\ Loads(r, "email", c.email)
  BY DEF FindToken
<1>2. c.email \in Address
  BY DEF TypeOK, Change
<1>3. call' \in [Request -> Call]
  BY <1>1, <1>2, LoadsType
<1> QED BY ZenonT(60), <1>1, <1>2, <1>3 DEF FindToken, Goes, Others, TypeOK, Loads, Call, Confirmable,
   Found

\* One session less to revoke.
RevokedOne(r) ==
  /\ Others(r) /\ pc[r] = "revoke others"
  /\ UNCHANGED <<users, changes, storage, mailed, lostAck, pc, reply>>
  /\ call'[r].user = call[r].user /\ call'[r].image = call[r].image
  /\ call'[r].email = call[r].email /\ call'[r].known = call[r].known
  /\ \E t \in Id : /\ sessions' = {s \in sessions : s.token # t}
                   /\ call'[r].todo = call[r].todo \ {t}

LEMMA RevokingOne ==
  ASSUME TypeOK, NEW r \in Request, RevokeNext(r)
  PROVE  RevokedOne(r)
<1>1. PICK t \in call[r].todo : /\ sessions' = {s \in sessions : s.token # t}
                                /\ Loads(r, "todo", Rest(r, t))
  BY DEF RevokeNext
<1>2. t \in Id /\ Rest(r, t) \in SUBSET Id
  BY DEF TypeOK, Call, Rest
<1>3. call' \in [Request -> Call]
  BY <1>1, <1>2, LoadsType
<1> QED BY <1>1, <1>2, <1>3 DEF RevokeNext, Others, TypeOK, Loads, Call, Rest, RevokedOne

\* What was streamed to the client: never a torn object.
Served(r) ==
  /\ Others(r) /\ (\E answer \in {"ok", "missing"} : Finishes(r, "idle", answer))
  /\ UNCHANGED <<rows, storage, mailed, lostAck>>
  /\ call'[r].user = call[r].user /\ call'[r].image = call[r].image
  /\ call'[r].email = call[r].email /\ call'[r].known = call[r].known

LEMMA Serving ==
  ASSUME TypeOK, WholeObjects, NEW r \in Request, ServeImage(r)
  PROVE  Served(r)
<1>1. PICK k \in Key : /\ Finishes(r, "idle", IF files[k] = None THEN "missing" ELSE "ok")
                       /\ Loads(r, "body", files[k])
  BY DEF ServeImage, GetStream
<1>2. files[k] \in Object \cup {None}
  BY AccountsAssumption DEF WholeObjects
<1>3. call' \in [Request -> Call]
  BY <1>1, <1>2, LoadsType
<1>4. /\ call'[r].user = call[r].user /\ call'[r].image = call[r].image
      /\ call'[r].email = call[r].email /\ call'[r].known = call[r].known
      /\ \A q \in Request \ {r} : call'[q] = call[q]
  BY <1>1 DEF TypeOK, Loads, Call
<1>5. \E answer \in {"ok", "missing"} : Finishes(r, "idle", answer)
  BY <1>1
<1>6. \A q \in Request \ {r} : pc'[q] = pc[q] /\ reply'[q] = reply[q]
  BY <1>5 DEF Finishes, Goes, Answers, TypeOK
<1> QED BY <1>3, <1>4, <1>5, <1>6 DEF ServeImage, Others, Served
-----------------------------------------------------------------------------

\* A column of a user is written.
LEMMA SetsType ==
  ASSUME TypeOK, NEW u \in User, NEW column, NEW value,
         \/ column = "email" /\ value \in Address
         \/ column = "image" /\ value \in Key \cup {None}
         \/ column = "name" /\ value \in Id,
         Sets(u, column, value)
  PROVE  users' \in [User -> Profile]
<1>1. [users[u] EXCEPT ![column] = value] \in Profile
  BY DEF TypeOK, Profile
<1>2. users' = [users EXCEPT ![u] = [users[u] EXCEPT ![column] = value]]
  BY DEF Sets, TypeOK
<1> QED BY <1>1, <1>2 DEF TypeOK

\* Only a write to the image changes what is shown, of that user.
LEMMA SetsImage ==
  ASSUME TypeOK, NEW u \in User, NEW column \in {"email", "image", "name"}, NEW value,
         Sets(u, column, value)
  PROVE  /\ \A v \in User \ {u} : users'[v] = users[v]
         /\ users'[u].image = IF column = "image" THEN value ELSE users[u].image
BY DEF TypeOK, Sets, Profile

\* Tokens of some rows are tokens of the table.
LEMMA Tokens ==
  /\ \A u : TokensOf(SessionsOf(u)) \subseteq TokensOf(sessions)
  /\ \A u : TokensOf(ChangesOf(u)) \subseteq TokensOf(changes)
  /\ \A s \in sessions : s.token \in TokensOf(sessions)
  /\ \A u : SessionsOf(u) \subseteq sessions
BY DEF TokensOf, SessionsOf, ChangesOf

\* Every step keeps the types.
LEMMA TypeStep ==
  ASSUME TypeOK, WholeObjects, \A q \in Request : Held(q), [Next]_vars
  PROVE  TypeOK'
<1>1. CASE UNCHANGED vars
  BY <1>1 DEF Goes, Answers, Finishes, Loads, Sets, rows, storage, vars, TypeOK,
     StorageTypeOK, Id, Profile, Session, Change, Mail, PC, Reply, Held, EmailSteps
<1>2. CASE Kill
  BY <1>2, AccountsAssumption DEF Kill, Goes, Answers, Finishes, Loads, Sets, rows,
     storage, vars, TypeOK, StorageTypeOK, Id, Profile, Session, Change, Mail, PC, Reply,
     Held, EmailSteps
<1>3. ASSUME NEW x \in changes, Expire(x) PROVE TypeOK'
  BY <1>3, AccountsAssumption DEF Expire, Goes, Answers, Finishes, Loads, Sets, rows,
     storage, vars, TypeOK, StorageTypeOK, Id, Profile, Session, Change, Mail, PC, Reply,
     Held, EmailSteps
<1>4. ASSUME NEW r \in Request,
             Arrive(r) \/ SignIn(r) \/ SignOut(r) \/ ResetPassword(r) \/ ServeImage(r)
               \/ Fail(r) \/ Handle(r)
      PROVE  TypeOK'
  <2>1. CASE Arrive(r)
    <3>1. Arrived(r)
      BY <2>1, Arriving
    <3> QED BY <3>1, AccountsAssumption DEF Arrived, Others, Goes, Answers, Finishes,
       Loads, Sets, rows, storage, vars, TypeOK, StorageTypeOK, Id, Profile, Session,
       Change, Mail, PC, Reply, Held, EmailSteps
  <2>2. CASE SignIn(r)
    <3>1. pc' \in [Request -> PC] /\ reply' \in [Request -> Reply] /\ call' \in [Request -> Call]
      BY <2>2 DEF SignIn, Goes, Answers, Finishes, rows, storage, TypeOK, PC, Reply
    <3>2. users' \in [User -> Profile]
      BY <2>2 DEF SignIn, Goes, Answers, Finishes, rows, storage, TypeOK
    <3>3. /\ sessions' \subseteq Session /\ changes' \subseteq Change
          /\ mailed' \subseteq Mail /\ lostAck' \subseteq Key
      <4>1. PICK u \in User : sessions' = sessions \cup {[token |-> r, user |-> u]}
        BY <2>2 DEF SignIn
      <4>2. [token |-> r, user |-> u] \in Session
        BY DEF Session, Id
      <4> QED BY <2>2, <4>1, <4>2 DEF SignIn, TypeOK, storage
    <3>4. StorageTypeOK'
      BY <2>2, AccountsAssumption DEF SignIn, Goes, Answers, Finishes, rows, storage,
         TypeOK, StorageTypeOK, Id
    <3> QED BY <3>1, <3>2, <3>3, <3>4 DEF TypeOK
  <2>3. CASE SignOut(r)
    <3>1. SignedOut(r)
      BY <2>3, SigningOut
    <3> QED BY <3>1, AccountsAssumption DEF SignedOut, Others, Goes, Answers, Finishes,
       Loads, Sets, rows, storage, vars, TypeOK, StorageTypeOK, Id, Profile, Session,
       Change, Mail, PC, Reply, Held, EmailSteps
  <2>4. CASE ResetPassword(r)
    <3>1. Reset(r)
      BY <2>4, Resetting
    <3> QED BY <3>1, AccountsAssumption DEF Reset, Others, Goes, Answers, Finishes,
       Loads, Sets, rows, storage, vars, TypeOK, StorageTypeOK, Id, Profile, Session,
       Change, Mail, PC, Reply, Held, EmailSteps
  <2>5. CASE ServeImage(r)
    <3>0. Served(r)
      BY <2>5, Serving
    <3>1. pc' \in [Request -> PC] /\ reply' \in [Request -> Reply] /\ call' \in [Request -> Call]
      BY ZenonT(60), <3>0 DEF Served, Others, Goes, Answers, Finishes, rows,
         storage, TypeOK, PC, Reply
    <3>2. users' \in [User -> Profile]
      BY <3>0 DEF Served, Others, Goes, Answers, Finishes, rows, storage, TypeOK
    <3>3. /\ sessions' \subseteq Session /\ changes' \subseteq Change
          /\ mailed' \subseteq Mail /\ lostAck' \subseteq Key
      BY <3>0, AccountsAssumption DEF Served, Others, Goes, Answers, Finishes, rows,
         storage, TypeOK, Session, Change, Mail, Id, KeyOf, Held, EmailSteps
    <3>4. StorageTypeOK'
      BY <3>0, AccountsAssumption DEF Served, Others, Goes, Answers, Finishes, rows,
         storage, TypeOK, StorageTypeOK, Id
    <3> QED BY <3>1, <3>2, <3>3, <3>4 DEF TypeOK
  <2>6. CASE Fail(r)
    BY <2>6, AccountsAssumption DEF Fail, Goes, Answers, Finishes, Loads, Sets, rows,
       storage, vars, TypeOK, StorageTypeOK, Id, Profile, Session, Change, Mail, PC,
       Reply, Held, EmailSteps
  <2>7. CASE UpdateName(r)
    <3>1. pc' \in [Request -> PC] /\ reply' \in [Request -> Reply] /\ call' \in [Request -> Call]
      BY <2>7 DEF UpdateName, Reports, Goes, Answers, Finishes, rows, storage, TypeOK,
         PC, Reply
    <3>2. users' \in [User -> Profile]
      <4>1. call[r].user \in User /\ r \in Id
        BY <2>7, AccountsAssumption DEF UpdateName, Reports, Goes, Finishes, Held,
           EmailSteps, Id, KeyOf
      <4>2. Sets(call[r].user, "name", r) \/ UNCHANGED users
        BY <2>7 DEF UpdateName, Reports, rows
      <4> QED BY <4>1, <4>2, SetsType DEF TypeOK
    <3>3. /\ sessions' \subseteq Session /\ changes' \subseteq Change
          /\ mailed' \subseteq Mail /\ lostAck' \subseteq Key
      BY <2>7, AccountsAssumption DEF UpdateName, Reports, Goes, Answers, Finishes,
         rows, storage, TypeOK, Session, Change, Mail, Id, KeyOf, Held, EmailSteps
    <3>4. StorageTypeOK'
      BY <2>7, AccountsAssumption DEF UpdateName, Reports, Goes, Answers, Finishes,
         rows, storage, TypeOK, StorageTypeOK, Id
    <3> QED BY <3>1, <3>2, <3>3, <3>4 DEF TypeOK
  <2>8. CASE CountAddress(r)
    BY ZenonT(60), <2>8, AccountsAssumption DEF CountAddress, AddressTaken, Goes, Answers, Finishes,
       Loads, Sets, rows, storage, vars, TypeOK, StorageTypeOK, Id, Profile, Session,
       Change, Mail, PC, Reply, Held, EmailSteps
  <2>9. CASE DeleteChanges(r)
    BY <2>9, AccountsAssumption DEF DeleteChanges, Superseded, ChangesOf, Goes, Answers,
       Finishes, Loads, Sets, rows, storage, vars, TypeOK, StorageTypeOK, Id, Profile,
       Session, Change, Mail, PC, Reply, Held, EmailSteps
  <2>10. CASE CreateChange(r)
    <3>1. pc' \in [Request -> PC] /\ reply' \in [Request -> Reply] /\ call' \in [Request -> Call]
      BY <2>10 DEF CreateChange, Goes, Answers, Finishes, rows, storage, TypeOK, PC, Reply
    <3>2. users' \in [User -> Profile]
      BY <2>10 DEF CreateChange, Goes, Answers, Finishes, rows, storage, TypeOK
    <3>3. /\ sessions' \subseteq Session /\ changes' \subseteq Change
          /\ mailed' \subseteq Mail /\ lostAck' \subseteq Key
      <4>1. r \in Id /\ call[r].user \in User /\ call[r].email \in Address
        BY <2>10 DEF CreateChange, Goes, Finishes, Held, EmailSteps, Id
      <4>2. [token |-> r, user |-> call[r].user, email |-> call[r].email,
             expired |-> FALSE] \in Change
        BY <4>1 DEF Change, Mail
      <4> QED BY <2>10, <4>2 DEF CreateChange, TypeOK, rows
    <3>4. StorageTypeOK'
      BY <2>10, AccountsAssumption DEF CreateChange, Goes, Answers, Finishes, rows,
         storage, TypeOK, StorageTypeOK, Id
    <3> QED BY <3>1, <3>2, <3>3, <3>4 DEF TypeOK
  <2>11. CASE SendMail(r)
    <3>1. pc' \in [Request -> PC] /\ reply' \in [Request -> Reply] /\ call' \in [Request -> Call]
      BY <2>11 DEF SendMail, Goes, Answers, Finishes, rows, storage, TypeOK, PC, Reply
    <3>2. users' \in [User -> Profile]
      BY <2>11 DEF SendMail, Goes, Answers, Finishes, rows, storage, TypeOK
    <3>3. /\ sessions' \subseteq Session /\ changes' \subseteq Change
          /\ mailed' \subseteq Mail /\ lostAck' \subseteq Key
      <4>1. r \in Id /\ call[r].user \in User /\ call[r].email \in Address
        BY <2>11 DEF SendMail, Goes, Finishes, Held, EmailSteps, Id
      <4>2. [token |-> r, user |-> call[r].user, email |-> call[r].email] \in Mail
        BY <4>1 DEF Change, Mail
      <4> QED BY <2>11, <4>2 DEF SendMail, TypeOK, rows
    <3>4. StorageTypeOK'
      BY <2>11, AccountsAssumption DEF SendMail, Goes, Answers, Finishes, rows,
         storage, TypeOK, StorageTypeOK, Id
    <3> QED BY <3>1, <3>2, <3>3, <3>4 DEF TypeOK
  <2>12. CASE FindToken(r)
    <3>1. Found(r)
      BY <2>12, Finding
    <3> QED BY <3>1, AccountsAssumption DEF Found, Others, Goes, Answers, Finishes,
       Loads, Sets, rows, storage, vars, TypeOK, StorageTypeOK, Id, Profile, Session,
       Change, Mail, PC, Reply, Held, EmailSteps
  <2>13. CASE UpdateAddress(r)
    <3>1. pc' \in [Request -> PC] /\ reply' \in [Request -> Reply] /\ call' \in [Request -> Call]
      BY <2>13 DEF UpdateAddress, Goes, Answers, Finishes, rows, storage, TypeOK, PC, Reply
    <3>2. users' \in [User -> Profile]
      <4>1. call[r].user \in User /\ call[r].email \in Address
        BY <2>13, AccountsAssumption DEF UpdateAddress, Goes, Finishes, Held,
           EmailSteps, Id, KeyOf
      <4>2. Sets(call[r].user, "email", call[r].email) \/ UNCHANGED users
        BY <2>13 DEF UpdateAddress, rows
      <4> QED BY <4>1, <4>2, SetsType DEF TypeOK
    <3>3. /\ sessions' \subseteq Session /\ changes' \subseteq Change
          /\ mailed' \subseteq Mail /\ lostAck' \subseteq Key
      BY <2>13, AccountsAssumption DEF UpdateAddress, Goes, Answers, Finishes, rows,
         storage, TypeOK, Session, Change, Mail, Id, KeyOf, Held, EmailSteps
    <3>4. StorageTypeOK'
      BY <2>13, AccountsAssumption DEF UpdateAddress, Goes, Answers, Finishes, rows,
         storage, TypeOK, StorageTypeOK, Id
    <3> QED BY <3>1, <3>2, <3>3, <3>4 DEF TypeOK
  <2>14. CASE DropChanges(r)
    <3>1. pc' \in [Request -> PC] /\ reply' \in [Request -> Reply] /\ call' \in [Request -> Call]
      BY <2>14 DEF DropChanges, Reports, Superseded, ChangesOf, Goes, Answers,
         Finishes, rows, storage, TypeOK, PC, Reply
    <3>2. users' \in [User -> Profile]
      BY <2>14 DEF DropChanges, Reports, Superseded, ChangesOf, Goes, Answers,
         Finishes, rows, storage, TypeOK
    <3>3. /\ sessions' \subseteq Session /\ changes' \subseteq Change
          /\ mailed' \subseteq Mail /\ lostAck' \subseteq Key
      BY <2>14, AccountsAssumption DEF DropChanges, Reports, Superseded, ChangesOf,
         Goes, Answers, Finishes, rows, storage, TypeOK, Session, Change, Mail, Id,
         KeyOf, Held, EmailSteps
    <3>4. StorageTypeOK'
      BY <2>14, AccountsAssumption DEF DropChanges, Reports, Superseded, ChangesOf,
         Goes, Answers, Finishes, rows, storage, TypeOK, StorageTypeOK, Id
    <3> QED BY <3>1, <3>2, <3>3, <3>4 DEF TypeOK
  <2>15. CASE RevokeAll(r)
    BY <2>15, AccountsAssumption DEF RevokeAll, SessionsOf, Goes, Answers, Finishes,
       Loads, Sets, rows, storage, vars, TypeOK, StorageTypeOK, Id, Profile, Session,
       Change, Mail, PC, Reply, Held, EmailSteps
  <2>16. CASE GetSession(r)
    BY <2>16, AccountsAssumption DEF GetSession, TokensOf, SessionsOf, Goes, Answers,
       Finishes, Loads, Sets, rows, storage, vars, TypeOK, StorageTypeOK, Id, Profile,
       Session, Change, Mail, PC, Reply, Held, EmailSteps
  <2>17. CASE RevokeSession(r)
    BY <2>17, AccountsAssumption DEF RevokeSession, TokensOf, Goes, Answers, Finishes,
       Loads, Sets, rows, storage, vars, TypeOK, StorageTypeOK, Id, Profile, Session,
       Change, Mail, PC, Reply, Held, EmailSteps
  <2>18. CASE ListSessions(r)
    <3>1. Listed(r)
      BY <2>18, Listing
    <3> QED BY <3>1, AccountsAssumption DEF Listed, Others, Goes, Answers, Finishes,
       Loads, Sets, rows, storage, vars, TypeOK, StorageTypeOK, Id, Profile, Session,
       Change, Mail, PC, Reply, Held, EmailSteps
  <2>19. CASE RevokeNext(r)
    <3>1. RevokedOne(r)
      BY <2>19, RevokingOne
    <3> QED BY <3>1, AccountsAssumption DEF RevokedOne, Others, Goes, Answers, Finishes,
       Loads, Sets, rows, storage, vars, TypeOK, StorageTypeOK, Id, Profile, Session,
       Change, Mail, PC, Reply, Held, EmailSteps
  <2>20. CASE AllRevoked(r)
    BY <2>20, AccountsAssumption DEF AllRevoked, Goes, Answers, Finishes, Loads, Sets,
       rows, storage, vars, TypeOK, StorageTypeOK, Id, Profile, Session, Change, Mail,
       PC, Reply, Held, EmailSteps
  <2>21. CASE StartPut(r)
    BY <2>21, AccountsAssumption DEF StartPut, CreateTemp, Goes, Answers, Finishes,
       Loads, Sets, rows, storage, vars, TypeOK, StorageTypeOK, Id, Profile, Session,
       Change, Mail, PC, Reply, Held, EmailSteps
  <2>22. CASE CopyBody(r)
    BY <2>22, AccountsAssumption DEF CopyBody, Copy, Goes, Answers, Finishes, Loads,
       Sets, rows, storage, vars, TypeOK, StorageTypeOK, Id, Profile, Session, Change,
       Mail, PC, Reply, Held, EmailSteps
  <2>23. CASE FinishPut(r)
    <3>1. pc' \in [Request -> PC] /\ reply' \in [Request -> Reply] /\ call' \in [Request -> Call]
      BY <2>23 DEF FinishPut, Rename, ReadyToRename, PutObject, KeyOf, Goes, Answers,
         Finishes, rows, storage, TypeOK, PC, Reply
    <3>2. users' \in [User -> Profile]
      BY <2>23 DEF FinishPut, Rename, ReadyToRename, PutObject, KeyOf, Goes, Answers,
         Finishes, rows, storage, TypeOK
    <3>3. /\ sessions' \subseteq Session /\ changes' \subseteq Change
          /\ mailed' \subseteq Mail /\ lostAck' \subseteq Key
      BY <2>23, AccountsAssumption DEF FinishPut, Rename, ReadyToRename, PutObject,
         KeyOf, Goes, Answers, Finishes, rows, storage, TypeOK, Session, Change, Mail,
         Id, KeyOf, Held, EmailSteps
    <3>4. StorageTypeOK'
      <4>1. r \in Key /\ r \in Object
        BY AccountsAssumption DEF Id
      <4>2. CASE Rename(r, KeyOf(r), r)
        BY <4>1, <4>2 DEF Rename, ReadyToRename, KeyOf, TypeOK, StorageTypeOK
      <4>3. CASE PutObject(KeyOf(r), r)
        BY <4>1, <4>3 DEF PutObject, KeyOf, TypeOK, StorageTypeOK
      <4> QED BY <2>23, <4>2, <4>3 DEF FinishPut
    <3> QED BY <3>1, <3>2, <3>3, <3>4 DEF TypeOK
  <2>24. CASE PutAnswerLost(r)
    BY <2>24, AccountsAssumption DEF PutAnswerLost, PutObject, KeyOf, Goes, Answers,
       Finishes, Loads, Sets, rows, storage, vars, TypeOK, StorageTypeOK, Id, Profile,
       Session, Change, Mail, PC, Reply, Held, EmailSteps
  <2>25. CASE PutFails(r)
    BY <2>25, AccountsAssumption DEF PutFails, Abandon, Goes, Answers, Finishes, Loads,
       Sets, rows, storage, vars, TypeOK, StorageTypeOK, Id, Profile, Session, Change,
       Mail, PC, Reply, Held, EmailSteps
  <2>26. CASE UpdateImage(r)
    <3>1. pc' \in [Request -> PC] /\ reply' \in [Request -> Reply] /\ call' \in [Request -> Call]
      BY <2>26 DEF UpdateImage, KeyOf, Goes, Answers, Finishes, rows, storage, TypeOK,
         PC, Reply
    <3>2. users' \in [User -> Profile]
      <4>1. call[r].user \in User /\ KeyOf(r) \in Key
        BY <2>26, AccountsAssumption DEF UpdateImage, Goes, Finishes, Held,
           EmailSteps, Id, KeyOf
      <4>2. Sets(call[r].user, "image", KeyOf(r)) \/ UNCHANGED users
        BY <2>26 DEF UpdateImage, rows
      <4> QED BY <4>1, <4>2, SetsType DEF TypeOK
    <3>3. /\ sessions' \subseteq Session /\ changes' \subseteq Change
          /\ mailed' \subseteq Mail /\ lostAck' \subseteq Key
      BY <2>26, AccountsAssumption DEF UpdateImage, KeyOf, Goes, Answers, Finishes,
         rows, storage, TypeOK, Session, Change, Mail, Id, KeyOf, Held, EmailSteps
    <3>4. StorageTypeOK'
      BY <2>26, AccountsAssumption DEF UpdateImage, KeyOf, Goes, Answers, Finishes,
         rows, storage, TypeOK, StorageTypeOK, Id
    <3> QED BY <3>1, <3>2, <3>3, <3>4 DEF TypeOK
  <2>27. CASE UpdateImageFails(r)
    <3>1. pc' \in [Request -> PC] /\ reply' \in [Request -> Reply] /\ call' \in [Request -> Call]
      BY <2>27 DEF UpdateImageFails, KeyOf, Goes, Answers, Finishes, rows, storage,
         TypeOK, PC, Reply
    <3>2. users' \in [User -> Profile]
      <4>1. call[r].user \in User /\ KeyOf(r) \in Key
        BY <2>27, AccountsAssumption DEF UpdateImageFails, Goes, Finishes, Held,
           EmailSteps, Id, KeyOf
      <4>2. Sets(call[r].user, "image", KeyOf(r)) \/ UNCHANGED users
        BY <2>27 DEF UpdateImageFails, rows
      <4> QED BY <4>1, <4>2, SetsType DEF TypeOK
    <3>3. /\ sessions' \subseteq Session /\ changes' \subseteq Change
          /\ mailed' \subseteq Mail /\ lostAck' \subseteq Key
      BY <2>27, AccountsAssumption DEF UpdateImageFails, KeyOf, Goes, Answers,
         Finishes, rows, storage, TypeOK, Session, Change, Mail, Id, KeyOf, Held,
         EmailSteps
    <3>4. StorageTypeOK'
      BY <2>27, AccountsAssumption DEF UpdateImageFails, KeyOf, Goes, Answers,
         Finishes, rows, storage, TypeOK, StorageTypeOK, Id
    <3> QED BY <3>1, <3>2, <3>3, <3>4 DEF TypeOK
  <2>28. CASE UndoPut(r)
    BY <2>28, AccountsAssumption DEF UndoPut, KeyOf, Remove, Goes, Answers, Finishes,
       Loads, Sets, rows, storage, vars, TypeOK, StorageTypeOK, Id, Profile, Session,
       Change, Mail, PC, Reply, Held, EmailSteps
  <2>29. CASE ClearImage(r)
    <3>1. pc' \in [Request -> PC] /\ reply' \in [Request -> Reply] /\ call' \in [Request -> Call]
      BY <2>29 DEF ClearImage, Goes, Answers, Finishes, rows, storage, TypeOK, PC, Reply
    <3>2. users' \in [User -> Profile]
      <4>1. call[r].user \in User
        BY <2>29, AccountsAssumption DEF ClearImage, Goes, Finishes, Held,
           EmailSteps, Id, KeyOf
      <4>2. Sets(call[r].user, "image", None) \/ UNCHANGED users
        BY <2>29 DEF ClearImage, rows
      <4> QED BY <4>1, <4>2, SetsType DEF TypeOK
    <3>3. /\ sessions' \subseteq Session /\ changes' \subseteq Change
          /\ mailed' \subseteq Mail /\ lostAck' \subseteq Key
      BY <2>29, AccountsAssumption DEF ClearImage, Goes, Answers, Finishes, rows,
         storage, TypeOK, Session, Change, Mail, Id, KeyOf, Held, EmailSteps
    <3>4. StorageTypeOK'
      BY <2>29, AccountsAssumption DEF ClearImage, Goes, Answers, Finishes, rows,
         storage, TypeOK, StorageTypeOK, Id
    <3> QED BY <3>1, <3>2, <3>3, <3>4 DEF TypeOK
  <2>30. CASE DeleteOld(r)
    BY <2>30, AccountsAssumption DEF DeleteOld, OldImage, Remove, Goes, Answers,
       Finishes, Loads, Sets, rows, storage, vars, TypeOK, StorageTypeOK, Id, Profile,
       Session, Change, Mail, PC, Reply, Held, EmailSteps
  <2> QED BY <1>4, <2>1, <2>2, <2>3, <2>4, <2>5, <2>6, <2>7, <2>8, <2>9, <2>10, <2>11,
     <2>12, <2>13, <2>14, <2>15, <2>16, <2>17, <2>18, <2>19, <2>20, <2>21, <2>22, <2>23,
     <2>24, <2>25, <2>26, <2>27, <2>28, <2>29, <2>30 DEF Handle
<1> QED BY <1>1, <1>2, <1>3, <1>4 DEF Next

\* What a handler holds.
LEMMA HeldStep ==
  ASSUME TypeOK, WholeObjects, \A q \in Request : Held(q), [Next]_vars
  PROVE  \A q \in Request : Held(q)'
<1>1. CASE UNCHANGED vars
  BY <1>1 DEF Goes, Answers, Finishes, Loads, Sets, rows, storage, vars, TypeOK, Session,
     Held, EmailSteps
<1>2. CASE Kill
  BY <1>2, AccountsAssumption DEF Kill, Goes, Answers, Finishes, Loads, Sets, rows,
     storage, vars, TypeOK, Session, Held, EmailSteps
<1>3. ASSUME NEW x \in changes, Expire(x) PROVE \A q \in Request : Held(q)'
  BY <1>3, AccountsAssumption DEF Expire, Goes, Answers, Finishes, Loads, Sets, rows,
     storage, vars, TypeOK, Session, Held, EmailSteps
<1>4. ASSUME NEW r \in Request,
             Arrive(r) \/ SignIn(r) \/ SignOut(r) \/ ResetPassword(r) \/ ServeImage(r)
               \/ Fail(r) \/ Handle(r)
      PROVE  \A q \in Request : Held(q)'
  <2>1. CASE Arrive(r)
    <3>1. Arrived(r)
      BY <2>1, Arriving
    <3> QED BY ZenonT(60), <3>1, AccountsAssumption DEF Arrived, Others, Goes, Answers, Finishes,
       Loads, Sets, rows, storage, vars, TypeOK, Session, Held, EmailSteps
  <2>2. CASE SignIn(r)
    BY <2>2, AccountsAssumption DEF SignIn, Goes, Answers, Finishes, Loads, Sets, rows,
       storage, vars, TypeOK, Session, Held, EmailSteps
  <2>3. CASE SignOut(r)
    <3>1. SignedOut(r)
      BY <2>3, SigningOut
    <3> QED BY ZenonT(60), <3>1, AccountsAssumption DEF SignedOut, Others, Goes, Answers, Finishes,
       Loads, Sets, rows, storage, vars, TypeOK, Session, Held, EmailSteps
  <2>4. CASE ResetPassword(r)
    <3>1. Reset(r)
      BY <2>4, Resetting
    <3> QED BY ZenonT(60), <3>1, AccountsAssumption DEF Reset, Others, Goes, Answers, Finishes,
       Loads, Sets, rows, storage, vars, TypeOK, Session, Held, EmailSteps
  <2>5. CASE ServeImage(r)
    <3>1. Served(r)
      BY <2>5, Serving
    <3> QED BY ZenonT(60), <3>1, AccountsAssumption DEF Served, Others, Goes, Answers, Finishes,
       Loads, Sets, rows, storage, vars, TypeOK, Session, Held, EmailSteps
  <2>6. CASE Fail(r)
    BY <2>6, AccountsAssumption DEF Fail, Goes, Answers, Finishes, Loads, Sets, rows,
       storage, vars, TypeOK, Session, Held, EmailSteps
  <2>7. CASE UpdateName(r)
    BY ZenonT(60), <2>7, AccountsAssumption DEF UpdateName, Reports, Goes, Answers, Finishes, Loads,
       Sets, rows, storage, vars, TypeOK, Session, Held, EmailSteps
  <2>8. CASE CountAddress(r)
    BY ZenonT(60), <2>8, AccountsAssumption DEF CountAddress, AddressTaken, Goes, Answers, Finishes,
       Loads, Sets, rows, storage, vars, TypeOK, Session, Held, EmailSteps
  <2>9. CASE DeleteChanges(r)
    BY <2>9, AccountsAssumption DEF DeleteChanges, Superseded, ChangesOf, Goes, Answers,
       Finishes, Loads, Sets, rows, storage, vars, TypeOK, Session, Held, EmailSteps
  <2>10. CASE CreateChange(r)
    BY <2>10, AccountsAssumption DEF CreateChange, Goes, Answers, Finishes, Loads, Sets,
       rows, storage, vars, TypeOK, Session, Held, EmailSteps
  <2>11. CASE SendMail(r)
    BY <2>11, AccountsAssumption DEF SendMail, Goes, Answers, Finishes, Loads, Sets,
       rows, storage, vars, TypeOK, Session, Held, EmailSteps
  <2>12. CASE FindToken(r)
    <3>1. Found(r)
      BY <2>12, Finding
    <3> QED BY ZenonT(60), <3>1, AccountsAssumption DEF Found, Others, Goes, Answers, Finishes,
       Loads, Sets, rows, storage, vars, TypeOK, Session, Held, EmailSteps
  <2>13. CASE UpdateAddress(r)
    BY ZenonT(60), <2>13, AccountsAssumption DEF UpdateAddress, Goes, Answers, Finishes, Loads,
       Sets, rows, storage, vars, TypeOK, Session, Held, EmailSteps
  <2>14. CASE DropChanges(r)
    BY <2>14, AccountsAssumption DEF DropChanges, Reports, Superseded, ChangesOf, Goes,
       Answers, Finishes, Loads, Sets, rows, storage, vars, TypeOK, Session, Held,
       EmailSteps
  <2>15. CASE RevokeAll(r)
    BY <2>15, AccountsAssumption DEF RevokeAll, SessionsOf, Goes, Answers, Finishes,
       Loads, Sets, rows, storage, vars, TypeOK, Session, Held, EmailSteps
  <2>16. CASE GetSession(r)
    BY <2>16, AccountsAssumption DEF GetSession, TokensOf, SessionsOf, Goes, Answers,
       Finishes, Loads, Sets, rows, storage, vars, TypeOK, Session, Held, EmailSteps
  <2>17. CASE RevokeSession(r)
    BY <2>17, AccountsAssumption DEF RevokeSession, TokensOf, Goes, Answers, Finishes,
       Loads, Sets, rows, storage, vars, TypeOK, Session, Held, EmailSteps
  <2>18. CASE ListSessions(r)
    <3>1. Listed(r)
      BY <2>18, Listing
    <3> QED BY ZenonT(60), <3>1, AccountsAssumption DEF Listed, Others, Goes, Answers, Finishes,
       Loads, Sets, rows, storage, vars, TypeOK, Session, Held, EmailSteps
  <2>19. CASE RevokeNext(r)
    <3>1. RevokedOne(r)
      BY <2>19, RevokingOne
    <3> QED BY <3>1, AccountsAssumption DEF RevokedOne, Others, Goes, Answers, Finishes,
       Loads, Sets, rows, storage, vars, TypeOK, Session, Held, EmailSteps
  <2>20. CASE AllRevoked(r)
    BY <2>20, AccountsAssumption DEF AllRevoked, Goes, Answers, Finishes, Loads, Sets,
       rows, storage, vars, TypeOK, Session, Held, EmailSteps
  <2>21. CASE StartPut(r)
    BY <2>21, AccountsAssumption DEF StartPut, CreateTemp, Goes, Answers, Finishes,
       Loads, Sets, rows, storage, vars, TypeOK, Session, Held, EmailSteps
  <2>22. CASE CopyBody(r)
    BY <2>22, AccountsAssumption DEF CopyBody, Copy, Goes, Answers, Finishes, Loads,
       Sets, rows, storage, vars, TypeOK, Session, Held, EmailSteps
  <2>23. CASE FinishPut(r)
    BY ZenonT(60), <2>23, AccountsAssumption DEF FinishPut, Rename, ReadyToRename, PutObject, KeyOf,
       Goes, Answers, Finishes, Loads, Sets, rows, storage, vars, TypeOK, Session, Held,
       EmailSteps
  <2>24. CASE PutAnswerLost(r)
    BY <2>24, AccountsAssumption DEF PutAnswerLost, PutObject, KeyOf, Goes, Answers,
       Finishes, Loads, Sets, rows, storage, vars, TypeOK, Session, Held, EmailSteps
  <2>25. CASE PutFails(r)
    BY <2>25, AccountsAssumption DEF PutFails, Abandon, Goes, Answers, Finishes, Loads,
       Sets, rows, storage, vars, TypeOK, Session, Held, EmailSteps
  <2>26. CASE UpdateImage(r)
    BY <2>26, AccountsAssumption DEF UpdateImage, KeyOf, Goes, Answers, Finishes, Loads,
       Sets, rows, storage, vars, TypeOK, Session, Held, EmailSteps
  <2>27. CASE UpdateImageFails(r)
    BY <2>27, AccountsAssumption DEF UpdateImageFails, KeyOf, Goes, Answers, Finishes,
       Loads, Sets, rows, storage, vars, TypeOK, Session, Held, EmailSteps
  <2>28. CASE UndoPut(r)
    BY <2>28, AccountsAssumption DEF UndoPut, KeyOf, Remove, Goes, Answers, Finishes,
       Loads, Sets, rows, storage, vars, TypeOK, Session, Held, EmailSteps
  <2>29. CASE ClearImage(r)
    BY <2>29, AccountsAssumption DEF ClearImage, Goes, Answers, Finishes, Loads, Sets,
       rows, storage, vars, TypeOK, Session, Held, EmailSteps
  <2>30. CASE DeleteOld(r)
    BY <2>30, AccountsAssumption DEF DeleteOld, OldImage, Remove, Goes, Answers,
       Finishes, Loads, Sets, rows, storage, vars, TypeOK, Session, Held, EmailSteps
  <2> QED BY <1>4, <2>1, <2>2, <2>3, <2>4, <2>5, <2>6, <2>7, <2>8, <2>9, <2>10, <2>11,
     <2>12, <2>13, <2>14, <2>15, <2>16, <2>17, <2>18, <2>19, <2>20, <2>21, <2>22, <2>23,
     <2>24, <2>25, <2>26, <2>27, <2>28, <2>29, <2>30 DEF Handle
<1> QED BY <1>1, <1>2, <1>3, <1>4 DEF Next

\* Sessions and tokens are created once.
LEMMA OpenedStep ==
  ASSUME TypeOK, WholeObjects, Opened, Asked, \A q \in Request : Held(q), [Next]_vars
  PROVE  Opened'
<1>1. CASE UNCHANGED vars
  BY <1>1 DEF Goes, Answers, Finishes, Loads, Sets, rows, storage, vars, TypeOK, Session,
     Opened, Asked, TokensOf, ChangesOf, SessionsOf
<1>2. CASE Kill
  BY <1>2, AccountsAssumption DEF Kill, Goes, Answers, Finishes, Loads, Sets, rows,
     storage, vars, TypeOK, Session, Opened, Asked, TokensOf, ChangesOf, SessionsOf
<1>3. ASSUME NEW x \in changes, Expire(x) PROVE Opened'
  BY <1>3, AccountsAssumption DEF Expire, Goes, Answers, Finishes, Loads, Sets, rows,
     storage, vars, TypeOK, Session, Opened, Asked, TokensOf, ChangesOf, SessionsOf
<1>4. ASSUME NEW r \in Request,
             Arrive(r) \/ SignIn(r) \/ SignOut(r) \/ ResetPassword(r) \/ ServeImage(r)
               \/ Fail(r) \/ Handle(r)
      PROVE  Opened'
  <2>1. CASE Arrive(r)
    <3>1. Arrived(r)
      BY <2>1, Arriving
    <3>2. call'[r].known \subseteq TokensOf(sessions) \cup TokensOf(changes)
      BY ZenonT(60), <3>1, Tokens DEF Arrived
    <3>3. \A t \in TokensOf(sessions) \cup TokensOf(changes) :
            t \in Request /\ pc[t] \in {"send mail", "done"}
      BY DEF Opened, Asked, TokensOf
    <3>4. sessions' \subseteq sessions /\ pc[r] \notin {"send mail", "done"}
      BY <3>1 DEF Arrived, rows, Goes, Finishes
    <3>5. \A t \in Request : pc[t] \in {"send mail", "done"} => pc'[t] = pc[t]
      BY <3>1, <3>4 DEF Arrived, Others
    <3>6. \A s \in sessions' : s.token \in Request /\ pc'[s.token] = "done"
      BY <3>4, <3>5 DEF Opened
    <3>7. \A q \in Request : \A t \in call'[q].known : t \in Request /\ pc'[t] \in {"send mail", "done"}
      <4>1. \A q \in Request \ {r} : call'[q] = call[q]
        BY <3>1 DEF Arrived, Others
      <4> QED BY <3>2, <3>3, <3>5, <4>1 DEF Opened
    <3>8. \A s, t \in sessions' : s.token = t.token => s = t
      BY <3>4 DEF Opened
    <3> QED BY <3>6, <3>7, <3>8 DEF Opened
  <2>2. CASE SignIn(r)
    <3>1. PICK u \in User : sessions' = sessions \cup {[token |-> r, user |-> u]}
      BY <2>2 DEF SignIn
    <3>2. pc[r] = "idle" /\ pc' = [pc EXCEPT ![r] = "done"] /\ UNCHANGED call
      BY <2>2 DEF SignIn, Finishes, Goes
    <3>3. \A s \in sessions : s.token # r
      BY <3>2 DEF Opened
    <3>4. \A s \in sessions' : s \in sessions \/ (s.token = r /\ s = [token |-> r, user |-> u])
      BY <3>1
    <3>5. \A t \in Request : pc[t] \in {"send mail", "done"} => pc'[t] = pc[t]
      BY <3>2 DEF TypeOK
    <3>7. \A s \in sessions' : s.token \in Request /\ pc'[s.token] = "done"
      BY ZenonT(60), <3>2, <3>4, <3>5 DEF Opened, TypeOK
    <3>8. \A s, t \in sessions' : s.token = t.token => s = t
      BY <3>3, <3>4 DEF Opened
    <3>6. \A q \in Request : \A t \in call'[q].known : t \in Request /\ pc'[t] \in {"send mail", "done"}
      BY <3>2 DEF Opened, TypeOK
    <3> QED BY <3>6, <3>7, <3>8 DEF Opened
  <2>3. CASE SignOut(r)
    <3>1. SignedOut(r)
      BY <2>3, SigningOut
    <3>2. call'[r].known \subseteq TokensOf(sessions) \cup TokensOf(changes)
      BY <3>1, Tokens DEF SignedOut
    <3>3. \A t \in TokensOf(sessions) \cup TokensOf(changes) :
            t \in Request /\ pc[t] \in {"send mail", "done"}
      BY DEF Opened, Asked, TokensOf
    <3>4. sessions' \subseteq sessions /\ pc[r] \notin {"send mail", "done"}
      BY <3>1 DEF SignedOut, rows, Goes, Finishes
    <3>5. \A t \in Request : pc[t] \in {"send mail", "done"} => pc'[t] = pc[t]
      BY <3>1, <3>4 DEF SignedOut, Others
    <3>6. \A s \in sessions' : s.token \in Request /\ pc'[s.token] = "done"
      BY <3>4, <3>5 DEF Opened
    <3>7. \A q \in Request : \A t \in call'[q].known : t \in Request /\ pc'[t] \in {"send mail", "done"}
      <4>1. \A q \in Request \ {r} : call'[q] = call[q]
        BY <3>1 DEF SignedOut, Others
      <4> QED BY <3>2, <3>3, <3>5, <4>1 DEF Opened
    <3>8. \A s, t \in sessions' : s.token = t.token => s = t
      BY <3>4 DEF Opened
    <3> QED BY <3>6, <3>7, <3>8 DEF Opened
  <2>4. CASE ResetPassword(r)
    <3>1. Reset(r)
      BY <2>4, Resetting
    <3>2. call'[r].known \subseteq TokensOf(sessions) \cup TokensOf(changes)
      BY <3>1, Tokens DEF Reset
    <3>3. \A t \in TokensOf(sessions) \cup TokensOf(changes) :
            t \in Request /\ pc[t] \in {"send mail", "done"}
      BY DEF Opened, Asked, TokensOf
    <3>4. sessions' \subseteq sessions /\ pc[r] \notin {"send mail", "done"}
      BY <3>1 DEF Reset, rows, Goes, Finishes
    <3>5. \A t \in Request : pc[t] \in {"send mail", "done"} => pc'[t] = pc[t]
      BY <3>1, <3>4 DEF Reset, Others
    <3>6. \A s \in sessions' : s.token \in Request /\ pc'[s.token] = "done"
      BY <3>4, <3>5 DEF Opened
    <3>7. \A q \in Request : \A t \in call'[q].known : t \in Request /\ pc'[t] \in {"send mail", "done"}
      <4>1. \A q \in Request \ {r} : call'[q] = call[q]
        BY <3>1 DEF Reset, Others
      <4> QED BY <3>2, <3>3, <3>5, <4>1 DEF Opened
    <3>8. \A s, t \in sessions' : s.token = t.token => s = t
      BY <3>4 DEF Opened
    <3> QED BY <3>6, <3>7, <3>8 DEF Opened
  <2>5. CASE ServeImage(r)
    <3>1. Served(r)
      BY <2>5, Serving
    <3> QED BY ZenonT(60), <3>1, AccountsAssumption DEF Served, Others, Goes, Answers, Finishes,
       Loads, Sets, rows, storage, vars, TypeOK, Session, Opened, Asked, TokensOf,
       ChangesOf, SessionsOf
  <2>6. CASE Fail(r)
    BY <2>6, AccountsAssumption DEF Fail, Goes, Answers, Finishes, Loads, Sets, rows,
       storage, vars, TypeOK, Session, Opened, Asked, TokensOf, ChangesOf, SessionsOf
  <2>7. CASE UpdateName(r)
    BY <2>7, AccountsAssumption DEF UpdateName, Reports, Goes, Answers, Finishes, Loads,
       Sets, rows, storage, vars, TypeOK, Session, Opened, Asked, TokensOf, ChangesOf,
       SessionsOf
  <2>8. CASE CountAddress(r)
    BY ZenonT(60), <2>8, AccountsAssumption DEF CountAddress, AddressTaken, Goes, Answers, Finishes,
       Loads, Sets, rows, storage, vars, TypeOK, Session, Opened, Asked, TokensOf,
       ChangesOf, SessionsOf
  <2>9. CASE DeleteChanges(r)
    BY <2>9, AccountsAssumption DEF DeleteChanges, Superseded, ChangesOf, Goes, Answers,
       Finishes, Loads, Sets, rows, storage, vars, TypeOK, Session, Opened, Asked,
       TokensOf, ChangesOf, SessionsOf
  <2>10. CASE CreateChange(r)
    BY <2>10, AccountsAssumption DEF CreateChange, Goes, Answers, Finishes, Loads, Sets,
       rows, storage, vars, TypeOK, Session, Opened, Asked, TokensOf, ChangesOf,
       SessionsOf
  <2>11. CASE SendMail(r)
    BY <2>11, AccountsAssumption DEF SendMail, Goes, Answers, Finishes, Loads, Sets,
       rows, storage, vars, TypeOK, Session, Opened, Asked, TokensOf, ChangesOf,
       SessionsOf
  <2>12. CASE FindToken(r)
    <3>1. Found(r)
      BY <2>12, Finding
    <3> QED BY ZenonT(60), <3>1, AccountsAssumption DEF Found, Others, Goes, Answers, Finishes,
       Loads, Sets, rows, storage, vars, TypeOK, Session, Opened, Asked, TokensOf,
       ChangesOf, SessionsOf
  <2>13. CASE UpdateAddress(r)
    BY ZenonT(60), <2>13, AccountsAssumption DEF UpdateAddress, Goes, Answers, Finishes, Loads,
       Sets, rows, storage, vars, TypeOK, Session, Opened, Asked, TokensOf, ChangesOf,
       SessionsOf
  <2>14. CASE DropChanges(r)
    BY <2>14, AccountsAssumption DEF DropChanges, Reports, Superseded, ChangesOf, Goes,
       Answers, Finishes, Loads, Sets, rows, storage, vars, TypeOK, Session, Opened,
       Asked, TokensOf, ChangesOf, SessionsOf
  <2>15. CASE RevokeAll(r)
    BY <2>15, AccountsAssumption DEF RevokeAll, SessionsOf, Goes, Answers, Finishes,
       Loads, Sets, rows, storage, vars, TypeOK, Session, Opened, Asked, TokensOf,
       ChangesOf, SessionsOf
  <2>16. CASE GetSession(r)
    BY <2>16, AccountsAssumption DEF GetSession, TokensOf, SessionsOf, Goes, Answers,
       Finishes, Loads, Sets, rows, storage, vars, TypeOK, Session, Opened, Asked,
       TokensOf, ChangesOf, SessionsOf
  <2>17. CASE RevokeSession(r)
    BY <2>17, AccountsAssumption DEF RevokeSession, TokensOf, Goes, Answers, Finishes,
       Loads, Sets, rows, storage, vars, TypeOK, Session, Opened, Asked, TokensOf,
       ChangesOf, SessionsOf
  <2>18. CASE ListSessions(r)
    <3>1. Listed(r)
      BY <2>18, Listing
    <3>2. call'[r].known \subseteq TokensOf(sessions) \cup TokensOf(changes)
      BY <3>1, Tokens DEF Listed
    <3>3. \A t \in TokensOf(sessions) \cup TokensOf(changes) :
            t \in Request /\ pc[t] \in {"send mail", "done"}
      BY DEF Opened, Asked, TokensOf
    <3>4. sessions' \subseteq sessions /\ pc[r] \notin {"send mail", "done"}
      BY <3>1 DEF Listed, rows, Goes, Finishes
    <3>5. \A t \in Request : pc[t] \in {"send mail", "done"} => pc'[t] = pc[t]
      BY <3>1, <3>4 DEF Listed, Others
    <3>6. \A s \in sessions' : s.token \in Request /\ pc'[s.token] = "done"
      BY <3>4, <3>5 DEF Opened
    <3>7. \A q \in Request : \A t \in call'[q].known : t \in Request /\ pc'[t] \in {"send mail", "done"}
      <4>1. \A q \in Request \ {r} : call'[q] = call[q]
        BY <3>1 DEF Listed, Others
      <4> QED BY <3>2, <3>3, <3>5, <4>1 DEF Opened
    <3>8. \A s, t \in sessions' : s.token = t.token => s = t
      BY <3>4 DEF Opened
    <3> QED BY <3>6, <3>7, <3>8 DEF Opened
  <2>19. CASE RevokeNext(r)
    <3>1. RevokedOne(r)
      BY <2>19, RevokingOne
    <3> QED BY ZenonT(60), <3>1, AccountsAssumption DEF RevokedOne, Others, Goes, Answers, Finishes,
       Loads, Sets, rows, storage, vars, TypeOK, Session, Opened, Asked, TokensOf,
       ChangesOf, SessionsOf
  <2>20. CASE AllRevoked(r)
    BY <2>20, AccountsAssumption DEF AllRevoked, Goes, Answers, Finishes, Loads, Sets,
       rows, storage, vars, TypeOK, Session, Opened, Asked, TokensOf, ChangesOf,
       SessionsOf
  <2>21. CASE StartPut(r)
    BY <2>21, AccountsAssumption DEF StartPut, CreateTemp, Goes, Answers, Finishes,
       Loads, Sets, rows, storage, vars, TypeOK, Session, Opened, Asked, TokensOf,
       ChangesOf, SessionsOf
  <2>22. CASE CopyBody(r)
    BY <2>22, AccountsAssumption DEF CopyBody, Copy, Goes, Answers, Finishes, Loads,
       Sets, rows, storage, vars, TypeOK, Session, Opened, Asked, TokensOf, ChangesOf,
       SessionsOf
  <2>23. CASE FinishPut(r)
    BY <2>23, AccountsAssumption DEF FinishPut, Rename, ReadyToRename, PutObject, KeyOf,
       Goes, Answers, Finishes, Loads, Sets, rows, storage, vars, TypeOK, Session,
       Opened, Asked, TokensOf, ChangesOf, SessionsOf
  <2>24. CASE PutAnswerLost(r)
    BY <2>24, AccountsAssumption DEF PutAnswerLost, PutObject, KeyOf, Goes, Answers,
       Finishes, Loads, Sets, rows, storage, vars, TypeOK, Session, Opened, Asked,
       TokensOf, ChangesOf, SessionsOf
  <2>25. CASE PutFails(r)
    BY <2>25, AccountsAssumption DEF PutFails, Abandon, Goes, Answers, Finishes, Loads,
       Sets, rows, storage, vars, TypeOK, Session, Opened, Asked, TokensOf, ChangesOf,
       SessionsOf
  <2>26. CASE UpdateImage(r)
    BY <2>26, AccountsAssumption DEF UpdateImage, KeyOf, Goes, Answers, Finishes, Loads,
       Sets, rows, storage, vars, TypeOK, Session, Opened, Asked, TokensOf, ChangesOf,
       SessionsOf
  <2>27. CASE UpdateImageFails(r)
    BY <2>27, AccountsAssumption DEF UpdateImageFails, KeyOf, Goes, Answers, Finishes,
       Loads, Sets, rows, storage, vars, TypeOK, Session, Opened, Asked, TokensOf,
       ChangesOf, SessionsOf
  <2>28. CASE UndoPut(r)
    BY <2>28, AccountsAssumption DEF UndoPut, KeyOf, Remove, Goes, Answers, Finishes,
       Loads, Sets, rows, storage, vars, TypeOK, Session, Opened, Asked, TokensOf,
       ChangesOf, SessionsOf
  <2>29. CASE ClearImage(r)
    BY <2>29, AccountsAssumption DEF ClearImage, Goes, Answers, Finishes, Loads, Sets,
       rows, storage, vars, TypeOK, Session, Opened, Asked, TokensOf, ChangesOf,
       SessionsOf
  <2>30. CASE DeleteOld(r)
    BY <2>30, AccountsAssumption DEF DeleteOld, OldImage, Remove, Goes, Answers,
       Finishes, Loads, Sets, rows, storage, vars, TypeOK, Session, Opened, Asked,
       TokensOf, ChangesOf, SessionsOf
  <2> QED BY <1>4, <2>1, <2>2, <2>3, <2>4, <2>5, <2>6, <2>7, <2>8, <2>9, <2>10, <2>11,
     <2>12, <2>13, <2>14, <2>15, <2>16, <2>17, <2>18, <2>19, <2>20, <2>21, <2>22, <2>23,
     <2>24, <2>25, <2>26, <2>27, <2>28, <2>29, <2>30 DEF Handle
<1> QED BY <1>1, <1>2, <1>3, <1>4 DEF Next

-----------------------------------------------------------------------------
(***************************************************************************)
(* What any step can do to the requests and the tables.                    *)
(***************************************************************************)
\* A request that has asked, stored or finished keeps what it holds.
Settled(q) ==
  /\ pc[q] \in Past \cup {"send mail"} => call'[q] = call[q]
  /\ pc[q] \in Past => pc'[q] \in Past
  /\ pc[q] = "done" => pc'[q] = "done" /\ reply'[q] = reply[q]
  /\ pc[q] = "send mail" => pc'[q] \in {"send mail", "done"}
  /\ pc[q] = "delete old" => pc'[q] \in {"delete old", "done"}
  /\ pc[q] # "update image" => pc'[q] # "undo" \/ pc[q] = "undo"

\* Such a request is not moved by others, and never goes back.
LEMMA SettledStep ==
  ASSUME TypeOK, WholeObjects, \A q \in Request : Held(q), [Next]_vars
  PROVE  \A q \in Request : Settled(q)
<1>1. CASE UNCHANGED vars
  BY <1>1 DEF Goes, Answers, Finishes, Loads, Sets, rows, storage, vars, TypeOK, Settled,
     Past
<1>2. CASE Kill
  BY <1>2, AccountsAssumption DEF Kill, Goes, Answers, Finishes, Loads, Sets, rows,
     storage, vars, TypeOK, Settled, Past
<1>3. ASSUME NEW x \in changes, Expire(x) PROVE \A q \in Request : Settled(q)
  BY <1>3, AccountsAssumption DEF Expire, Goes, Answers, Finishes, Loads, Sets, rows,
     storage, vars, TypeOK, Settled, Past
<1>4. ASSUME NEW r \in Request,
             Arrive(r) \/ SignIn(r) \/ SignOut(r) \/ ResetPassword(r) \/ ServeImage(r)
               \/ Fail(r) \/ Handle(r)
      PROVE  \A q \in Request : Settled(q)
  <2>1. CASE Arrive(r)
    <3>1. Arrived(r)
      BY <2>1, Arriving
    <3> QED BY <3>1, AccountsAssumption DEF Arrived, Others, Goes, Answers, Finishes,
       Loads, Sets, rows, storage, vars, TypeOK, Settled, Past
  <2>2. CASE SignIn(r)
    BY <2>2, AccountsAssumption DEF SignIn, Goes, Answers, Finishes, Loads, Sets, rows,
       storage, vars, TypeOK, Settled, Past
  <2>3. CASE SignOut(r)
    <3>1. SignedOut(r)
      BY <2>3, SigningOut
    <3> QED BY <3>1, AccountsAssumption DEF SignedOut, Others, Goes, Answers, Finishes,
       Loads, Sets, rows, storage, vars, TypeOK, Settled, Past
  <2>4. CASE ResetPassword(r)
    <3>1. Reset(r)
      BY <2>4, Resetting
    <3> QED BY <3>1, AccountsAssumption DEF Reset, Others, Goes, Answers, Finishes,
       Loads, Sets, rows, storage, vars, TypeOK, Settled, Past
  <2>5. CASE ServeImage(r)
    <3>1. Served(r)
      BY <2>5, Serving
    <3> QED BY <3>1, AccountsAssumption DEF Served, Others, Goes, Answers, Finishes,
       Loads, Sets, rows, storage, vars, TypeOK, Settled, Past
  <2>6. CASE Fail(r)
    BY <2>6, AccountsAssumption DEF Fail, Goes, Answers, Finishes, Loads, Sets, rows,
       storage, vars, TypeOK, Settled, Past
  <2>7. CASE UpdateName(r)
    BY <2>7, AccountsAssumption DEF UpdateName, Reports, Goes, Answers, Finishes, Loads,
       Sets, rows, storage, vars, TypeOK, Settled, Past
  <2>8. CASE CountAddress(r)
    BY <2>8, AccountsAssumption DEF CountAddress, AddressTaken, Goes, Answers, Finishes,
       Loads, Sets, rows, storage, vars, TypeOK, Settled, Past
  <2>9. CASE DeleteChanges(r)
    BY <2>9, AccountsAssumption DEF DeleteChanges, Superseded, ChangesOf, Goes, Answers,
       Finishes, Loads, Sets, rows, storage, vars, TypeOK, Settled, Past
  <2>10. CASE CreateChange(r)
    BY <2>10, AccountsAssumption DEF CreateChange, Goes, Answers, Finishes, Loads, Sets,
       rows, storage, vars, TypeOK, Settled, Past
  <2>11. CASE SendMail(r)
    BY <2>11, AccountsAssumption DEF SendMail, Goes, Answers, Finishes, Loads, Sets,
       rows, storage, vars, TypeOK, Settled, Past
  <2>12. CASE FindToken(r)
    <3>1. Found(r)
      BY <2>12, Finding
    <3> QED BY <3>1, AccountsAssumption DEF Found, Others, Goes, Answers, Finishes,
       Loads, Sets, rows, storage, vars, TypeOK, Settled, Past
  <2>13. CASE UpdateAddress(r)
    BY <2>13, AccountsAssumption DEF UpdateAddress, Goes, Answers, Finishes, Loads,
       Sets, rows, storage, vars, TypeOK, Settled, Past
  <2>14. CASE DropChanges(r)
    BY <2>14, AccountsAssumption DEF DropChanges, Reports, Superseded, ChangesOf, Goes,
       Answers, Finishes, Loads, Sets, rows, storage, vars, TypeOK, Settled, Past
  <2>15. CASE RevokeAll(r)
    BY <2>15, AccountsAssumption DEF RevokeAll, SessionsOf, Goes, Answers, Finishes,
       Loads, Sets, rows, storage, vars, TypeOK, Settled, Past
  <2>16. CASE GetSession(r)
    BY <2>16, AccountsAssumption DEF GetSession, TokensOf, SessionsOf, Goes, Answers,
       Finishes, Loads, Sets, rows, storage, vars, TypeOK, Settled, Past
  <2>17. CASE RevokeSession(r)
    BY <2>17, AccountsAssumption DEF RevokeSession, TokensOf, Goes, Answers, Finishes,
       Loads, Sets, rows, storage, vars, TypeOK, Settled, Past
  <2>18. CASE ListSessions(r)
    <3>1. Listed(r)
      BY <2>18, Listing
    <3> QED BY <3>1, AccountsAssumption DEF Listed, Others, Goes, Answers, Finishes,
       Loads, Sets, rows, storage, vars, TypeOK, Settled, Past
  <2>19. CASE RevokeNext(r)
    <3>1. RevokedOne(r)
      BY <2>19, RevokingOne
    <3> QED BY <3>1, AccountsAssumption DEF RevokedOne, Others, Goes, Answers, Finishes,
       Loads, Sets, rows, storage, vars, TypeOK, Settled, Past
  <2>20. CASE AllRevoked(r)
    BY <2>20, AccountsAssumption DEF AllRevoked, Goes, Answers, Finishes, Loads, Sets,
       rows, storage, vars, TypeOK, Settled, Past
  <2>21. CASE StartPut(r)
    BY <2>21, AccountsAssumption DEF StartPut, CreateTemp, Goes, Answers, Finishes,
       Loads, Sets, rows, storage, vars, TypeOK, Settled, Past
  <2>22. CASE CopyBody(r)
    BY <2>22, AccountsAssumption DEF CopyBody, Copy, Goes, Answers, Finishes, Loads,
       Sets, rows, storage, vars, TypeOK, Settled, Past
  <2>23. CASE FinishPut(r)
    BY <2>23, AccountsAssumption DEF FinishPut, Rename, ReadyToRename, PutObject, KeyOf,
       Goes, Answers, Finishes, Loads, Sets, rows, storage, vars, TypeOK, Settled, Past
  <2>24. CASE PutAnswerLost(r)
    BY <2>24, AccountsAssumption DEF PutAnswerLost, PutObject, KeyOf, Goes, Answers,
       Finishes, Loads, Sets, rows, storage, vars, TypeOK, Settled, Past
  <2>25. CASE PutFails(r)
    BY <2>25, AccountsAssumption DEF PutFails, Abandon, Goes, Answers, Finishes, Loads,
       Sets, rows, storage, vars, TypeOK, Settled, Past
  <2>26. CASE UpdateImage(r)
    BY <2>26, AccountsAssumption DEF UpdateImage, KeyOf, Goes, Answers, Finishes, Loads,
       Sets, rows, storage, vars, TypeOK, Settled, Past
  <2>27. CASE UpdateImageFails(r)
    BY <2>27, AccountsAssumption DEF UpdateImageFails, KeyOf, Goes, Answers, Finishes,
       Loads, Sets, rows, storage, vars, TypeOK, Settled, Past
  <2>28. CASE UndoPut(r)
    BY <2>28, AccountsAssumption DEF UndoPut, KeyOf, Remove, Goes, Answers, Finishes,
       Loads, Sets, rows, storage, vars, TypeOK, Settled, Past
  <2>29. CASE ClearImage(r)
    BY <2>29, AccountsAssumption DEF ClearImage, Goes, Answers, Finishes, Loads, Sets,
       rows, storage, vars, TypeOK, Settled, Past
  <2>30. CASE DeleteOld(r)
    BY <2>30, AccountsAssumption DEF DeleteOld, OldImage, Remove, Goes, Answers,
       Finishes, Loads, Sets, rows, storage, vars, TypeOK, Settled, Past
  <2> QED BY <1>4, <2>1, <2>2, <2>3, <2>4, <2>5, <2>6, <2>7, <2>8, <2>9, <2>10, <2>11,
     <2>12, <2>13, <2>14, <2>15, <2>16, <2>17, <2>18, <2>19, <2>20, <2>21, <2>22, <2>23,
     <2>24, <2>25, <2>26, <2>27, <2>28, <2>29, <2>30 DEF Handle
<1> QED BY <1>1, <1>2, <1>3, <1>4 DEF Next

\* Confirmation links: an old one, perhaps expired, or that of its request.
ChangesCome ==
  \A c \in changes' :
    \/ \E d \in changes : c.token = d.token /\ c.user = d.user /\ c.email = d.email
    \/ /\ c.token \in Request
       /\ pc[c.token] = "create change" /\ pc'[c.token] = "send mail"
       /\ c.user = call[c.token].user /\ c.email = call[c.token].email
       /\ call' = call

\* Only CreateChange makes one.
LEMMA ChangesStep ==
  ASSUME TypeOK, WholeObjects, \A q \in Request : Held(q), [Next]_vars
  PROVE  ChangesCome
<1>1. CASE UNCHANGED vars
  BY <1>1 DEF Goes, Answers, Finishes, Loads, Sets, rows, storage, vars, TypeOK,
     ChangesCome, Change
<1>2. CASE Kill
  BY <1>2, AccountsAssumption DEF Kill, Goes, Answers, Finishes, Loads, Sets, rows,
     storage, vars, TypeOK, ChangesCome, Change
<1>3. ASSUME NEW x \in changes, Expire(x) PROVE ChangesCome
  BY <1>3, AccountsAssumption DEF Expire, Goes, Answers, Finishes, Loads, Sets, rows,
     storage, vars, TypeOK, ChangesCome, Change
<1>4. ASSUME NEW r \in Request,
             Arrive(r) \/ SignIn(r) \/ SignOut(r) \/ ResetPassword(r) \/ ServeImage(r)
               \/ Fail(r) \/ Handle(r)
      PROVE  ChangesCome
  <2>1. CASE Arrive(r)
    <3>1. Arrived(r)
      BY <2>1, Arriving
    <3> QED BY <3>1, AccountsAssumption DEF Arrived, Others, Goes, Answers, Finishes,
       Loads, Sets, rows, storage, vars, TypeOK, ChangesCome, Change
  <2>2. CASE SignIn(r)
    BY <2>2, AccountsAssumption DEF SignIn, Goes, Answers, Finishes, Loads, Sets, rows,
       storage, vars, TypeOK, ChangesCome, Change
  <2>3. CASE SignOut(r)
    <3>1. SignedOut(r)
      BY <2>3, SigningOut
    <3> QED BY <3>1, AccountsAssumption DEF SignedOut, Others, Goes, Answers, Finishes,
       Loads, Sets, rows, storage, vars, TypeOK, ChangesCome, Change
  <2>4. CASE ResetPassword(r)
    <3>1. Reset(r)
      BY <2>4, Resetting
    <3> QED BY <3>1, AccountsAssumption DEF Reset, Others, Goes, Answers, Finishes,
       Loads, Sets, rows, storage, vars, TypeOK, ChangesCome, Change
  <2>5. CASE ServeImage(r)
    <3>1. Served(r)
      BY <2>5, Serving
    <3> QED BY <3>1, AccountsAssumption DEF Served, Others, Goes, Answers, Finishes,
       Loads, Sets, rows, storage, vars, TypeOK, ChangesCome, Change
  <2>6. CASE Fail(r)
    BY <2>6, AccountsAssumption DEF Fail, Goes, Answers, Finishes, Loads, Sets, rows,
       storage, vars, TypeOK, ChangesCome, Change
  <2>7. CASE UpdateName(r)
    BY <2>7, AccountsAssumption DEF UpdateName, Reports, Goes, Answers, Finishes, Loads,
       Sets, rows, storage, vars, TypeOK, ChangesCome, Change
  <2>8. CASE CountAddress(r)
    BY <2>8, AccountsAssumption DEF CountAddress, AddressTaken, Goes, Answers, Finishes,
       Loads, Sets, rows, storage, vars, TypeOK, ChangesCome, Change
  <2>9. CASE DeleteChanges(r)
    BY <2>9, AccountsAssumption DEF DeleteChanges, Superseded, ChangesOf, Goes, Answers,
       Finishes, Loads, Sets, rows, storage, vars, TypeOK, ChangesCome, Change
  <2>10. CASE CreateChange(r)
    <3>1. /\ changes' = changes \cup {[token |-> r, user |-> call[r].user,
                                         email |-> call[r].email, expired |-> FALSE]}
          /\ pc[r] = "create change" /\ pc'[r] = "send mail" /\ call' = call
      BY <2>10 DEF CreateChange, Goes, TypeOK
    <3>2. SUFFICES ASSUME NEW c \in changes', c \notin changes
                   PROVE  /\ c.token \in Request
                          /\ pc[c.token] = "create change" /\ pc'[c.token] = "send mail"
                          /\ c.user = call[c.token].user /\ c.email = call[c.token].email
      BY <3>1 DEF ChangesCome
    <3>3. c = [token |-> r, user |-> call[r].user, email |-> call[r].email, expired |-> FALSE]
      BY <3>1, <3>2
    <3>4. c.token = r /\ c.user = call[r].user /\ c.email = call[r].email
      BY <3>3
    <3> QED BY <3>1, <3>4
  <2>11. CASE SendMail(r)
    BY <2>11, AccountsAssumption DEF SendMail, Goes, Answers, Finishes, Loads, Sets,
       rows, storage, vars, TypeOK, ChangesCome, Change
  <2>12. CASE FindToken(r)
    <3>1. Found(r)
      BY <2>12, Finding
    <3> QED BY <3>1, AccountsAssumption DEF Found, Others, Goes, Answers, Finishes,
       Loads, Sets, rows, storage, vars, TypeOK, ChangesCome, Change
  <2>13. CASE UpdateAddress(r)
    BY <2>13, AccountsAssumption DEF UpdateAddress, Goes, Answers, Finishes, Loads,
       Sets, rows, storage, vars, TypeOK, ChangesCome, Change
  <2>14. CASE DropChanges(r)
    BY <2>14, AccountsAssumption DEF DropChanges, Reports, Superseded, ChangesOf, Goes,
       Answers, Finishes, Loads, Sets, rows, storage, vars, TypeOK, ChangesCome, Change
  <2>15. CASE RevokeAll(r)
    BY <2>15, AccountsAssumption DEF RevokeAll, SessionsOf, Goes, Answers, Finishes,
       Loads, Sets, rows, storage, vars, TypeOK, ChangesCome, Change
  <2>16. CASE GetSession(r)
    BY <2>16, AccountsAssumption DEF GetSession, TokensOf, SessionsOf, Goes, Answers,
       Finishes, Loads, Sets, rows, storage, vars, TypeOK, ChangesCome, Change
  <2>17. CASE RevokeSession(r)
    BY <2>17, AccountsAssumption DEF RevokeSession, TokensOf, Goes, Answers, Finishes,
       Loads, Sets, rows, storage, vars, TypeOK, ChangesCome, Change
  <2>18. CASE ListSessions(r)
    <3>1. Listed(r)
      BY <2>18, Listing
    <3> QED BY <3>1, AccountsAssumption DEF Listed, Others, Goes, Answers, Finishes,
       Loads, Sets, rows, storage, vars, TypeOK, ChangesCome, Change
  <2>19. CASE RevokeNext(r)
    <3>1. RevokedOne(r)
      BY <2>19, RevokingOne
    <3> QED BY <3>1, AccountsAssumption DEF RevokedOne, Others, Goes, Answers, Finishes,
       Loads, Sets, rows, storage, vars, TypeOK, ChangesCome, Change
  <2>20. CASE AllRevoked(r)
    BY <2>20, AccountsAssumption DEF AllRevoked, Goes, Answers, Finishes, Loads, Sets,
       rows, storage, vars, TypeOK, ChangesCome, Change
  <2>21. CASE StartPut(r)
    BY <2>21, AccountsAssumption DEF StartPut, CreateTemp, Goes, Answers, Finishes,
       Loads, Sets, rows, storage, vars, TypeOK, ChangesCome, Change
  <2>22. CASE CopyBody(r)
    BY <2>22, AccountsAssumption DEF CopyBody, Copy, Goes, Answers, Finishes, Loads,
       Sets, rows, storage, vars, TypeOK, ChangesCome, Change
  <2>23. CASE FinishPut(r)
    BY <2>23, AccountsAssumption DEF FinishPut, Rename, ReadyToRename, PutObject, KeyOf,
       Goes, Answers, Finishes, Loads, Sets, rows, storage, vars, TypeOK, ChangesCome,
       Change
  <2>24. CASE PutAnswerLost(r)
    BY <2>24, AccountsAssumption DEF PutAnswerLost, PutObject, KeyOf, Goes, Answers,
       Finishes, Loads, Sets, rows, storage, vars, TypeOK, ChangesCome, Change
  <2>25. CASE PutFails(r)
    BY <2>25, AccountsAssumption DEF PutFails, Abandon, Goes, Answers, Finishes, Loads,
       Sets, rows, storage, vars, TypeOK, ChangesCome, Change
  <2>26. CASE UpdateImage(r)
    BY <2>26, AccountsAssumption DEF UpdateImage, KeyOf, Goes, Answers, Finishes, Loads,
       Sets, rows, storage, vars, TypeOK, ChangesCome, Change
  <2>27. CASE UpdateImageFails(r)
    BY <2>27, AccountsAssumption DEF UpdateImageFails, KeyOf, Goes, Answers, Finishes,
       Loads, Sets, rows, storage, vars, TypeOK, ChangesCome, Change
  <2>28. CASE UndoPut(r)
    BY <2>28, AccountsAssumption DEF UndoPut, KeyOf, Remove, Goes, Answers, Finishes,
       Loads, Sets, rows, storage, vars, TypeOK, ChangesCome, Change
  <2>29. CASE ClearImage(r)
    BY <2>29, AccountsAssumption DEF ClearImage, Goes, Answers, Finishes, Loads, Sets,
       rows, storage, vars, TypeOK, ChangesCome, Change
  <2>30. CASE DeleteOld(r)
    BY <2>30, AccountsAssumption DEF DeleteOld, OldImage, Remove, Goes, Answers,
       Finishes, Loads, Sets, rows, storage, vars, TypeOK, ChangesCome, Change
  <2> QED BY <1>4, <2>1, <2>2, <2>3, <2>4, <2>5, <2>6, <2>7, <2>8, <2>9, <2>10, <2>11,
     <2>12, <2>13, <2>14, <2>15, <2>16, <2>17, <2>18, <2>19, <2>20, <2>21, <2>22, <2>23,
     <2>24, <2>25, <2>26, <2>27, <2>28, <2>29, <2>30 DEF Handle
<1> QED BY <1>1, <1>2, <1>3, <1>4 DEF Next

\* Mails are never taken back, and sent by the request that asked.
MailLeaves ==
  /\ mailed \subseteq mailed'
  /\ \A m \in mailed' \ mailed :
       /\ m.token \in Request /\ pc[m.token] = "send mail" /\ pc'[m.token] = "done"
       /\ m.user = call[m.token].user /\ m.email = call[m.token].email
       /\ call' = call

\* Only SendMail sends one.
LEMMA MailStep ==
  ASSUME TypeOK, WholeObjects, \A q \in Request : Held(q), [Next]_vars
  PROVE  MailLeaves
<1>1. CASE UNCHANGED vars
  BY <1>1 DEF Goes, Answers, Finishes, Loads, Sets, rows, storage, vars, TypeOK, MailLeaves
<1>2. CASE Kill
  BY <1>2, AccountsAssumption DEF Kill, Goes, Answers, Finishes, Loads, Sets, rows,
     storage, vars, TypeOK, MailLeaves
<1>3. ASSUME NEW x \in changes, Expire(x) PROVE MailLeaves
  BY <1>3, AccountsAssumption DEF Expire, Goes, Answers, Finishes, Loads, Sets, rows,
     storage, vars, TypeOK, MailLeaves
<1>4. ASSUME NEW r \in Request,
             Arrive(r) \/ SignIn(r) \/ SignOut(r) \/ ResetPassword(r) \/ ServeImage(r)
               \/ Fail(r) \/ Handle(r)
      PROVE  MailLeaves
  <2>1. CASE Arrive(r)
    <3>1. Arrived(r)
      BY <2>1, Arriving
    <3> QED BY <3>1, AccountsAssumption DEF Arrived, Others, Goes, Answers, Finishes,
       Loads, Sets, rows, storage, vars, TypeOK, MailLeaves
  <2>2. CASE SignIn(r)
    BY <2>2, AccountsAssumption DEF SignIn, Goes, Answers, Finishes, Loads, Sets, rows,
       storage, vars, TypeOK, MailLeaves
  <2>3. CASE SignOut(r)
    <3>1. SignedOut(r)
      BY <2>3, SigningOut
    <3> QED BY <3>1, AccountsAssumption DEF SignedOut, Others, Goes, Answers, Finishes,
       Loads, Sets, rows, storage, vars, TypeOK, MailLeaves
  <2>4. CASE ResetPassword(r)
    <3>1. Reset(r)
      BY <2>4, Resetting
    <3> QED BY <3>1, AccountsAssumption DEF Reset, Others, Goes, Answers, Finishes,
       Loads, Sets, rows, storage, vars, TypeOK, MailLeaves
  <2>5. CASE ServeImage(r)
    <3>1. Served(r)
      BY <2>5, Serving
    <3> QED BY <3>1, AccountsAssumption DEF Served, Others, Goes, Answers, Finishes,
       Loads, Sets, rows, storage, vars, TypeOK, MailLeaves
  <2>6. CASE Fail(r)
    BY <2>6, AccountsAssumption DEF Fail, Goes, Answers, Finishes, Loads, Sets, rows,
       storage, vars, TypeOK, MailLeaves
  <2>7. CASE UpdateName(r)
    BY <2>7, AccountsAssumption DEF UpdateName, Reports, Goes, Answers, Finishes, Loads,
       Sets, rows, storage, vars, TypeOK, MailLeaves
  <2>8. CASE CountAddress(r)
    BY <2>8, AccountsAssumption DEF CountAddress, AddressTaken, Goes, Answers, Finishes,
       Loads, Sets, rows, storage, vars, TypeOK, MailLeaves
  <2>9. CASE DeleteChanges(r)
    BY <2>9, AccountsAssumption DEF DeleteChanges, Superseded, ChangesOf, Goes, Answers,
       Finishes, Loads, Sets, rows, storage, vars, TypeOK, MailLeaves
  <2>10. CASE CreateChange(r)
    BY <2>10, AccountsAssumption DEF CreateChange, Goes, Answers, Finishes, Loads, Sets,
       rows, storage, vars, TypeOK, MailLeaves
  <2>11. CASE SendMail(r)
    <3>1. /\ \/ mailed' = mailed \cup {[token |-> r, user |-> call[r].user, email |-> call[r].email]}
             \/ mailed' = mailed
          /\ pc[r] = "send mail" /\ pc'[r] = "done" /\ call' = call
      BY <2>11 DEF SendMail, Finishes, Goes, TypeOK
    <3>2. ASSUME NEW m \in mailed' \ mailed
          PROVE  m.token = r /\ m.user = call[r].user /\ m.email = call[r].email
      <4>1. m = [token |-> r, user |-> call[r].user, email |-> call[r].email]
        BY <3>1, <3>2
      <4> QED BY <4>1
    <3> QED BY <3>1, <3>2 DEF MailLeaves
  <2>12. CASE FindToken(r)
    <3>1. Found(r)
      BY <2>12, Finding
    <3> QED BY <3>1, AccountsAssumption DEF Found, Others, Goes, Answers, Finishes,
       Loads, Sets, rows, storage, vars, TypeOK, MailLeaves
  <2>13. CASE UpdateAddress(r)
    BY <2>13, AccountsAssumption DEF UpdateAddress, Goes, Answers, Finishes, Loads,
       Sets, rows, storage, vars, TypeOK, MailLeaves
  <2>14. CASE DropChanges(r)
    BY <2>14, AccountsAssumption DEF DropChanges, Reports, Superseded, ChangesOf, Goes,
       Answers, Finishes, Loads, Sets, rows, storage, vars, TypeOK, MailLeaves
  <2>15. CASE RevokeAll(r)
    BY <2>15, AccountsAssumption DEF RevokeAll, SessionsOf, Goes, Answers, Finishes,
       Loads, Sets, rows, storage, vars, TypeOK, MailLeaves
  <2>16. CASE GetSession(r)
    BY <2>16, AccountsAssumption DEF GetSession, TokensOf, SessionsOf, Goes, Answers,
       Finishes, Loads, Sets, rows, storage, vars, TypeOK, MailLeaves
  <2>17. CASE RevokeSession(r)
    BY <2>17, AccountsAssumption DEF RevokeSession, TokensOf, Goes, Answers, Finishes,
       Loads, Sets, rows, storage, vars, TypeOK, MailLeaves
  <2>18. CASE ListSessions(r)
    <3>1. Listed(r)
      BY <2>18, Listing
    <3> QED BY <3>1, AccountsAssumption DEF Listed, Others, Goes, Answers, Finishes,
       Loads, Sets, rows, storage, vars, TypeOK, MailLeaves
  <2>19. CASE RevokeNext(r)
    <3>1. RevokedOne(r)
      BY <2>19, RevokingOne
    <3> QED BY <3>1, AccountsAssumption DEF RevokedOne, Others, Goes, Answers, Finishes,
       Loads, Sets, rows, storage, vars, TypeOK, MailLeaves
  <2>20. CASE AllRevoked(r)
    BY <2>20, AccountsAssumption DEF AllRevoked, Goes, Answers, Finishes, Loads, Sets,
       rows, storage, vars, TypeOK, MailLeaves
  <2>21. CASE StartPut(r)
    BY <2>21, AccountsAssumption DEF StartPut, CreateTemp, Goes, Answers, Finishes,
       Loads, Sets, rows, storage, vars, TypeOK, MailLeaves
  <2>22. CASE CopyBody(r)
    BY <2>22, AccountsAssumption DEF CopyBody, Copy, Goes, Answers, Finishes, Loads,
       Sets, rows, storage, vars, TypeOK, MailLeaves
  <2>23. CASE FinishPut(r)
    BY <2>23, AccountsAssumption DEF FinishPut, Rename, ReadyToRename, PutObject, KeyOf,
       Goes, Answers, Finishes, Loads, Sets, rows, storage, vars, TypeOK, MailLeaves
  <2>24. CASE PutAnswerLost(r)
    BY <2>24, AccountsAssumption DEF PutAnswerLost, PutObject, KeyOf, Goes, Answers,
       Finishes, Loads, Sets, rows, storage, vars, TypeOK, MailLeaves
  <2>25. CASE PutFails(r)
    BY <2>25, AccountsAssumption DEF PutFails, Abandon, Goes, Answers, Finishes, Loads,
       Sets, rows, storage, vars, TypeOK, MailLeaves
  <2>26. CASE UpdateImage(r)
    BY <2>26, AccountsAssumption DEF UpdateImage, KeyOf, Goes, Answers, Finishes, Loads,
       Sets, rows, storage, vars, TypeOK, MailLeaves
  <2>27. CASE UpdateImageFails(r)
    BY <2>27, AccountsAssumption DEF UpdateImageFails, KeyOf, Goes, Answers, Finishes,
       Loads, Sets, rows, storage, vars, TypeOK, MailLeaves
  <2>28. CASE UndoPut(r)
    BY <2>28, AccountsAssumption DEF UndoPut, KeyOf, Remove, Goes, Answers, Finishes,
       Loads, Sets, rows, storage, vars, TypeOK, MailLeaves
  <2>29. CASE ClearImage(r)
    BY <2>29, AccountsAssumption DEF ClearImage, Goes, Answers, Finishes, Loads, Sets,
       rows, storage, vars, TypeOK, MailLeaves
  <2>30. CASE DeleteOld(r)
    BY <2>30, AccountsAssumption DEF DeleteOld, OldImage, Remove, Goes, Answers,
       Finishes, Loads, Sets, rows, storage, vars, TypeOK, MailLeaves
  <2> QED BY <1>4, <2>1, <2>2, <2>3, <2>4, <2>5, <2>6, <2>7, <2>8, <2>9, <2>10, <2>11,
     <2>12, <2>13, <2>14, <2>15, <2>16, <2>17, <2>18, <2>19, <2>20, <2>21, <2>22, <2>23,
     <2>24, <2>25, <2>26, <2>27, <2>28, <2>29, <2>30 DEF Handle
<1> QED BY <1>1, <1>2, <1>3, <1>4 DEF Next

\* Sessions are opened by a sign-in.
SessionsOpen ==
  \A s \in sessions' \ sessions : /\ s.token \in Request /\ pc[s.token] = "idle"
                                  /\ pc'[s.token] = "done" /\ call' = call

\* Only SignIn opens one.
LEMMA SessionsStep ==
  ASSUME TypeOK, WholeObjects, \A q \in Request : Held(q), [Next]_vars
  PROVE  SessionsOpen
<1>1. CASE UNCHANGED vars
  BY <1>1 DEF Goes, Answers, Finishes, Loads, Sets, rows, storage, vars, TypeOK,
     SessionsOpen
<1>2. CASE Kill
  BY <1>2, AccountsAssumption DEF Kill, Goes, Answers, Finishes, Loads, Sets, rows,
     storage, vars, TypeOK, SessionsOpen
<1>3. ASSUME NEW x \in changes, Expire(x) PROVE SessionsOpen
  BY <1>3, AccountsAssumption DEF Expire, Goes, Answers, Finishes, Loads, Sets, rows,
     storage, vars, TypeOK, SessionsOpen
<1>4. ASSUME NEW r \in Request,
             Arrive(r) \/ SignIn(r) \/ SignOut(r) \/ ResetPassword(r) \/ ServeImage(r)
               \/ Fail(r) \/ Handle(r)
      PROVE  SessionsOpen
  <2>1. CASE Arrive(r)
    <3>1. Arrived(r)
      BY <2>1, Arriving
    <3> QED BY <3>1, AccountsAssumption DEF Arrived, Others, Goes, Answers, Finishes,
       Loads, Sets, rows, storage, vars, TypeOK, SessionsOpen
  <2>2. CASE SignIn(r)
    BY <2>2, AccountsAssumption DEF SignIn, Goes, Answers, Finishes, Loads, Sets, rows,
       storage, vars, TypeOK, SessionsOpen
  <2>3. CASE SignOut(r)
    <3>1. SignedOut(r)
      BY <2>3, SigningOut
    <3> QED BY <3>1, AccountsAssumption DEF SignedOut, Others, Goes, Answers, Finishes,
       Loads, Sets, rows, storage, vars, TypeOK, SessionsOpen
  <2>4. CASE ResetPassword(r)
    <3>1. Reset(r)
      BY <2>4, Resetting
    <3> QED BY <3>1, AccountsAssumption DEF Reset, Others, Goes, Answers, Finishes,
       Loads, Sets, rows, storage, vars, TypeOK, SessionsOpen
  <2>5. CASE ServeImage(r)
    <3>1. Served(r)
      BY <2>5, Serving
    <3> QED BY <3>1, AccountsAssumption DEF Served, Others, Goes, Answers, Finishes,
       Loads, Sets, rows, storage, vars, TypeOK, SessionsOpen
  <2>6. CASE Fail(r)
    BY <2>6, AccountsAssumption DEF Fail, Goes, Answers, Finishes, Loads, Sets, rows,
       storage, vars, TypeOK, SessionsOpen
  <2>7. CASE UpdateName(r)
    BY <2>7, AccountsAssumption DEF UpdateName, Reports, Goes, Answers, Finishes, Loads,
       Sets, rows, storage, vars, TypeOK, SessionsOpen
  <2>8. CASE CountAddress(r)
    BY <2>8, AccountsAssumption DEF CountAddress, AddressTaken, Goes, Answers, Finishes,
       Loads, Sets, rows, storage, vars, TypeOK, SessionsOpen
  <2>9. CASE DeleteChanges(r)
    BY <2>9, AccountsAssumption DEF DeleteChanges, Superseded, ChangesOf, Goes, Answers,
       Finishes, Loads, Sets, rows, storage, vars, TypeOK, SessionsOpen
  <2>10. CASE CreateChange(r)
    BY <2>10, AccountsAssumption DEF CreateChange, Goes, Answers, Finishes, Loads, Sets,
       rows, storage, vars, TypeOK, SessionsOpen
  <2>11. CASE SendMail(r)
    BY <2>11, AccountsAssumption DEF SendMail, Goes, Answers, Finishes, Loads, Sets,
       rows, storage, vars, TypeOK, SessionsOpen
  <2>12. CASE FindToken(r)
    <3>1. Found(r)
      BY <2>12, Finding
    <3> QED BY <3>1, AccountsAssumption DEF Found, Others, Goes, Answers, Finishes,
       Loads, Sets, rows, storage, vars, TypeOK, SessionsOpen
  <2>13. CASE UpdateAddress(r)
    BY <2>13, AccountsAssumption DEF UpdateAddress, Goes, Answers, Finishes, Loads,
       Sets, rows, storage, vars, TypeOK, SessionsOpen
  <2>14. CASE DropChanges(r)
    BY <2>14, AccountsAssumption DEF DropChanges, Reports, Superseded, ChangesOf, Goes,
       Answers, Finishes, Loads, Sets, rows, storage, vars, TypeOK, SessionsOpen
  <2>15. CASE RevokeAll(r)
    BY <2>15, AccountsAssumption DEF RevokeAll, SessionsOf, Goes, Answers, Finishes,
       Loads, Sets, rows, storage, vars, TypeOK, SessionsOpen
  <2>16. CASE GetSession(r)
    BY <2>16, AccountsAssumption DEF GetSession, TokensOf, SessionsOf, Goes, Answers,
       Finishes, Loads, Sets, rows, storage, vars, TypeOK, SessionsOpen
  <2>17. CASE RevokeSession(r)
    BY <2>17, AccountsAssumption DEF RevokeSession, TokensOf, Goes, Answers, Finishes,
       Loads, Sets, rows, storage, vars, TypeOK, SessionsOpen
  <2>18. CASE ListSessions(r)
    <3>1. Listed(r)
      BY <2>18, Listing
    <3> QED BY <3>1, AccountsAssumption DEF Listed, Others, Goes, Answers, Finishes,
       Loads, Sets, rows, storage, vars, TypeOK, SessionsOpen
  <2>19. CASE RevokeNext(r)
    <3>1. RevokedOne(r)
      BY <2>19, RevokingOne
    <3> QED BY <3>1, AccountsAssumption DEF RevokedOne, Others, Goes, Answers, Finishes,
       Loads, Sets, rows, storage, vars, TypeOK, SessionsOpen
  <2>20. CASE AllRevoked(r)
    BY <2>20, AccountsAssumption DEF AllRevoked, Goes, Answers, Finishes, Loads, Sets,
       rows, storage, vars, TypeOK, SessionsOpen
  <2>21. CASE StartPut(r)
    BY <2>21, AccountsAssumption DEF StartPut, CreateTemp, Goes, Answers, Finishes,
       Loads, Sets, rows, storage, vars, TypeOK, SessionsOpen
  <2>22. CASE CopyBody(r)
    BY <2>22, AccountsAssumption DEF CopyBody, Copy, Goes, Answers, Finishes, Loads,
       Sets, rows, storage, vars, TypeOK, SessionsOpen
  <2>23. CASE FinishPut(r)
    BY <2>23, AccountsAssumption DEF FinishPut, Rename, ReadyToRename, PutObject, KeyOf,
       Goes, Answers, Finishes, Loads, Sets, rows, storage, vars, TypeOK, SessionsOpen
  <2>24. CASE PutAnswerLost(r)
    BY <2>24, AccountsAssumption DEF PutAnswerLost, PutObject, KeyOf, Goes, Answers,
       Finishes, Loads, Sets, rows, storage, vars, TypeOK, SessionsOpen
  <2>25. CASE PutFails(r)
    BY <2>25, AccountsAssumption DEF PutFails, Abandon, Goes, Answers, Finishes, Loads,
       Sets, rows, storage, vars, TypeOK, SessionsOpen
  <2>26. CASE UpdateImage(r)
    BY <2>26, AccountsAssumption DEF UpdateImage, KeyOf, Goes, Answers, Finishes, Loads,
       Sets, rows, storage, vars, TypeOK, SessionsOpen
  <2>27. CASE UpdateImageFails(r)
    BY <2>27, AccountsAssumption DEF UpdateImageFails, KeyOf, Goes, Answers, Finishes,
       Loads, Sets, rows, storage, vars, TypeOK, SessionsOpen
  <2>28. CASE UndoPut(r)
    BY <2>28, AccountsAssumption DEF UndoPut, KeyOf, Remove, Goes, Answers, Finishes,
       Loads, Sets, rows, storage, vars, TypeOK, SessionsOpen
  <2>29. CASE ClearImage(r)
    BY <2>29, AccountsAssumption DEF ClearImage, Goes, Answers, Finishes, Loads, Sets,
       rows, storage, vars, TypeOK, SessionsOpen
  <2>30. CASE DeleteOld(r)
    BY <2>30, AccountsAssumption DEF DeleteOld, OldImage, Remove, Goes, Answers,
       Finishes, Loads, Sets, rows, storage, vars, TypeOK, SessionsOpen
  <2> QED BY <1>4, <2>1, <2>2, <2>3, <2>4, <2>5, <2>6, <2>7, <2>8, <2>9, <2>10, <2>11,
     <2>12, <2>13, <2>14, <2>15, <2>16, <2>17, <2>18, <2>19, <2>20, <2>21, <2>22, <2>23,
     <2>24, <2>25, <2>26, <2>27, <2>28, <2>29, <2>30 DEF Handle
<1> QED BY <1>1, <1>2, <1>3, <1>4 DEF Next

\* An image is shown once its object is stored, by the request that stored it.
ImagesAppear ==
  \A u \in User :
    LET k == users'[u].image
    IN  \/ k \in {None, users[u].image}
        \/ /\ k \in Request /\ pc[k] = "update image" /\ call[k].user = u /\ call' = call
           /\ pc'[k] = "delete old" \/ (pc'[k] = "undo" /\ k \in lostAck')
           /\ files' = files

\* Only UpdateImage and its failure show one.
LEMMA ImagesStep ==
  ASSUME TypeOK, WholeObjects, \A q \in Request : Held(q), [Next]_vars
  PROVE  ImagesAppear /\ lostAck \subseteq lostAck'
<1>1. CASE UNCHANGED vars
  BY <1>1 DEF Goes, Answers, Finishes, Loads, Sets, rows, storage, vars, TypeOK,
     ImagesAppear, Profile
<1>2. CASE Kill
  BY <1>2, AccountsAssumption DEF Kill, Goes, Answers, Finishes, Loads, Sets, rows,
     storage, vars, TypeOK, ImagesAppear, Profile
<1>3. ASSUME NEW x \in changes, Expire(x) PROVE ImagesAppear /\ lostAck \subseteq lostAck'
  BY <1>3, AccountsAssumption DEF Expire, Goes, Answers, Finishes, Loads, Sets, rows,
     storage, vars, TypeOK, ImagesAppear, Profile
<1>4. ASSUME NEW r \in Request,
             Arrive(r) \/ SignIn(r) \/ SignOut(r) \/ ResetPassword(r) \/ ServeImage(r)
               \/ Fail(r) \/ Handle(r)
      PROVE  ImagesAppear /\ lostAck \subseteq lostAck'
  <2>1. CASE Arrive(r)
    <3>1. Arrived(r)
      BY <2>1, Arriving
    <3> QED BY <3>1, AccountsAssumption DEF Arrived, Others, Goes, Answers, Finishes,
       Loads, Sets, rows, storage, vars, TypeOK, ImagesAppear, Profile
  <2>2. CASE SignIn(r)
    BY <2>2, AccountsAssumption DEF SignIn, Goes, Answers, Finishes, Loads, Sets, rows,
       storage, vars, TypeOK, ImagesAppear, Profile
  <2>3. CASE SignOut(r)
    <3>1. SignedOut(r)
      BY <2>3, SigningOut
    <3> QED BY <3>1, AccountsAssumption DEF SignedOut, Others, Goes, Answers, Finishes,
       Loads, Sets, rows, storage, vars, TypeOK, ImagesAppear, Profile
  <2>4. CASE ResetPassword(r)
    <3>1. Reset(r)
      BY <2>4, Resetting
    <3> QED BY <3>1, AccountsAssumption DEF Reset, Others, Goes, Answers, Finishes,
       Loads, Sets, rows, storage, vars, TypeOK, ImagesAppear, Profile
  <2>5. CASE ServeImage(r)
    <3>1. Served(r)
      BY <2>5, Serving
    <3> QED BY <3>1, AccountsAssumption DEF Served, Others, Goes, Answers, Finishes,
       Loads, Sets, rows, storage, vars, TypeOK, ImagesAppear, Profile
  <2>6. CASE Fail(r)
    BY <2>6, AccountsAssumption DEF Fail, Goes, Answers, Finishes, Loads, Sets, rows,
       storage, vars, TypeOK, ImagesAppear, Profile
  <2>7. CASE UpdateName(r)
    <3>1. call[r].user \in User
      BY <2>7 DEF UpdateName, Reports, Goes, Finishes, Held
    <3>2. Sets(call[r].user, "name", r) \/ UNCHANGED users
      BY <2>7 DEF UpdateName, Reports, rows
    <3>3. \A u \in User : users'[u].image = users[u].image
      BY <3>1, <3>2, SetsImage
    <3> QED BY <2>7, <3>3 DEF UpdateName, Reports, ImagesAppear, storage
  <2>8. CASE CountAddress(r)
    BY <2>8, AccountsAssumption DEF CountAddress, AddressTaken, Goes, Answers, Finishes,
       Loads, Sets, rows, storage, vars, TypeOK, ImagesAppear, Profile
  <2>9. CASE DeleteChanges(r)
    BY <2>9, AccountsAssumption DEF DeleteChanges, Superseded, ChangesOf, Goes, Answers,
       Finishes, Loads, Sets, rows, storage, vars, TypeOK, ImagesAppear, Profile
  <2>10. CASE CreateChange(r)
    BY <2>10, AccountsAssumption DEF CreateChange, Goes, Answers, Finishes, Loads, Sets,
       rows, storage, vars, TypeOK, ImagesAppear, Profile
  <2>11. CASE SendMail(r)
    BY <2>11, AccountsAssumption DEF SendMail, Goes, Answers, Finishes, Loads, Sets,
       rows, storage, vars, TypeOK, ImagesAppear, Profile
  <2>12. CASE FindToken(r)
    <3>1. Found(r)
      BY <2>12, Finding
    <3> QED BY <3>1, AccountsAssumption DEF Found, Others, Goes, Answers, Finishes,
       Loads, Sets, rows, storage, vars, TypeOK, ImagesAppear, Profile
  <2>13. CASE UpdateAddress(r)
    <3>1. call[r].user \in User
      BY <2>13 DEF UpdateAddress, Goes, Finishes, Held
    <3>2. Sets(call[r].user, "email", call[r].email) \/ UNCHANGED users
      BY <2>13 DEF UpdateAddress, rows
    <3>3. \A u \in User : users'[u].image = users[u].image
      BY <3>1, <3>2, SetsImage
    <3> QED BY <2>13, <3>3 DEF UpdateAddress, ImagesAppear, storage
  <2>14. CASE DropChanges(r)
    BY <2>14, AccountsAssumption DEF DropChanges, Reports, Superseded, ChangesOf, Goes,
       Answers, Finishes, Loads, Sets, rows, storage, vars, TypeOK, ImagesAppear,
       Profile
  <2>15. CASE RevokeAll(r)
    BY <2>15, AccountsAssumption DEF RevokeAll, SessionsOf, Goes, Answers, Finishes,
       Loads, Sets, rows, storage, vars, TypeOK, ImagesAppear, Profile
  <2>16. CASE GetSession(r)
    BY <2>16, AccountsAssumption DEF GetSession, TokensOf, SessionsOf, Goes, Answers,
       Finishes, Loads, Sets, rows, storage, vars, TypeOK, ImagesAppear, Profile
  <2>17. CASE RevokeSession(r)
    BY <2>17, AccountsAssumption DEF RevokeSession, TokensOf, Goes, Answers, Finishes,
       Loads, Sets, rows, storage, vars, TypeOK, ImagesAppear, Profile
  <2>18. CASE ListSessions(r)
    <3>1. Listed(r)
      BY <2>18, Listing
    <3> QED BY <3>1, AccountsAssumption DEF Listed, Others, Goes, Answers, Finishes,
       Loads, Sets, rows, storage, vars, TypeOK, ImagesAppear, Profile
  <2>19. CASE RevokeNext(r)
    <3>1. RevokedOne(r)
      BY <2>19, RevokingOne
    <3> QED BY <3>1, AccountsAssumption DEF RevokedOne, Others, Goes, Answers, Finishes,
       Loads, Sets, rows, storage, vars, TypeOK, ImagesAppear, Profile
  <2>20. CASE AllRevoked(r)
    BY <2>20, AccountsAssumption DEF AllRevoked, Goes, Answers, Finishes, Loads, Sets,
       rows, storage, vars, TypeOK, ImagesAppear, Profile
  <2>21. CASE StartPut(r)
    BY <2>21, AccountsAssumption DEF StartPut, CreateTemp, Goes, Answers, Finishes,
       Loads, Sets, rows, storage, vars, TypeOK, ImagesAppear, Profile
  <2>22. CASE CopyBody(r)
    BY <2>22, AccountsAssumption DEF CopyBody, Copy, Goes, Answers, Finishes, Loads,
       Sets, rows, storage, vars, TypeOK, ImagesAppear, Profile
  <2>23. CASE FinishPut(r)
    BY <2>23, AccountsAssumption DEF FinishPut, Rename, ReadyToRename, PutObject, KeyOf,
       Goes, Answers, Finishes, Loads, Sets, rows, storage, vars, TypeOK, ImagesAppear,
       Profile
  <2>24. CASE PutAnswerLost(r)
    BY <2>24, AccountsAssumption DEF PutAnswerLost, PutObject, KeyOf, Goes, Answers,
       Finishes, Loads, Sets, rows, storage, vars, TypeOK, ImagesAppear, Profile
  <2>25. CASE PutFails(r)
    BY <2>25, AccountsAssumption DEF PutFails, Abandon, Goes, Answers, Finishes, Loads,
       Sets, rows, storage, vars, TypeOK, ImagesAppear, Profile
  <2>26. CASE UpdateImage(r)
    BY <2>26, AccountsAssumption DEF UpdateImage, KeyOf, Goes, Answers, Finishes, Loads,
       Sets, rows, storage, vars, TypeOK, ImagesAppear, Profile
  <2>27. CASE UpdateImageFails(r)
    <3>1. /\ call[r].user \in User /\ pc[r] = "update image" /\ pc'[r] = "undo"
          /\ call' = call /\ files' = files
      BY <2>27 DEF UpdateImageFails, Goes, Held, TypeOK, storage
    <3>2. CASE UNCHANGED <<users, lostAck>>
      BY <3>2 DEF ImagesAppear
    <3>3. CASE Sets(call[r].user, "image", r) /\ lostAck' = lostAck \cup {r}
      <4>1. /\ \A v \in User \ {call[r].user} : users'[v] = users[v]
            /\ users'[call[r].user].image = r
        BY <3>1, <3>3, SetsImage
      <4> QED BY <3>1, <3>3, <4>1 DEF ImagesAppear
    <3> QED BY <2>27, <3>2, <3>3 DEF UpdateImageFails, KeyOf
  <2>28. CASE UndoPut(r)
    BY <2>28, AccountsAssumption DEF UndoPut, KeyOf, Remove, Goes, Answers, Finishes,
       Loads, Sets, rows, storage, vars, TypeOK, ImagesAppear, Profile
  <2>29. CASE ClearImage(r)
    BY <2>29, AccountsAssumption DEF ClearImage, Goes, Answers, Finishes, Loads, Sets,
       rows, storage, vars, TypeOK, ImagesAppear, Profile
  <2>30. CASE DeleteOld(r)
    BY <2>30, AccountsAssumption DEF DeleteOld, OldImage, Remove, Goes, Answers,
       Finishes, Loads, Sets, rows, storage, vars, TypeOK, ImagesAppear, Profile
  <2> QED BY <1>4, <2>1, <2>2, <2>3, <2>4, <2>5, <2>6, <2>7, <2>8, <2>9, <2>10, <2>11,
     <2>12, <2>13, <2>14, <2>15, <2>16, <2>17, <2>18, <2>19, <2>20, <2>21, <2>22, <2>23,
     <2>24, <2>25, <2>26, <2>27, <2>28, <2>29, <2>30 DEF Handle
<1> QED BY <1>1, <1>2, <1>3, <1>4 DEF Next

\* An object is stored by the request with its key, which removes it when it
\* could not show it; other objects go when the row shows another.
ObjectsMove ==
  /\ \A k \in Key :
       \/ files'[k] = files[k]
       \/ k \in Request /\ pc[k] \in {"put", "copy"} /\ files'[k] = k
       \/ k \in Request /\ pc[k] = "undo" /\ files'[k] = None
       \/ \E r \in Request : pc[r] = "delete old" /\ call[r].image = k /\ files'[k] = None
  /\ \A q \in Request :
       pc'[q] = "update image" => pc[q] = "update image" \/ files'[q] = q

\* Rename and PutObject store, Remove removes.
LEMMA ObjectsStep ==
  ASSUME TypeOK, WholeObjects, \A q \in Request : Held(q), [Next]_vars
  PROVE  ObjectsMove
<1>1. CASE UNCHANGED vars
  BY <1>1 DEF Goes, Answers, Finishes, Loads, Sets, rows, storage, vars, TypeOK,
     StorageTypeOK, ObjectsMove, Id
<1>2. CASE Kill
  BY <1>2, AccountsAssumption DEF Kill, Goes, Answers, Finishes, Loads, Sets, rows,
     storage, vars, TypeOK, StorageTypeOK, ObjectsMove, Id
<1>3. ASSUME NEW x \in changes, Expire(x) PROVE ObjectsMove
  BY <1>3, AccountsAssumption DEF Expire, Goes, Answers, Finishes, Loads, Sets, rows,
     storage, vars, TypeOK, StorageTypeOK, ObjectsMove, Id
<1>4. ASSUME NEW r \in Request,
             Arrive(r) \/ SignIn(r) \/ SignOut(r) \/ ResetPassword(r) \/ ServeImage(r)
               \/ Fail(r) \/ Handle(r)
      PROVE  ObjectsMove
  <2>1. CASE Arrive(r)
    <3>1. Arrived(r)
      BY <2>1, Arriving
    <3> QED BY <3>1, AccountsAssumption DEF Arrived, Others, Goes, Answers, Finishes,
       Loads, Sets, rows, storage, vars, TypeOK, StorageTypeOK, ObjectsMove, Id
  <2>2. CASE SignIn(r)
    BY <2>2, AccountsAssumption DEF SignIn, Goes, Answers, Finishes, Loads, Sets, rows,
       storage, vars, TypeOK, StorageTypeOK, ObjectsMove, Id
  <2>3. CASE SignOut(r)
    <3>1. SignedOut(r)
      BY <2>3, SigningOut
    <3> QED BY <3>1, AccountsAssumption DEF SignedOut, Others, Goes, Answers, Finishes,
       Loads, Sets, rows, storage, vars, TypeOK, StorageTypeOK, ObjectsMove, Id
  <2>4. CASE ResetPassword(r)
    <3>1. Reset(r)
      BY <2>4, Resetting
    <3> QED BY <3>1, AccountsAssumption DEF Reset, Others, Goes, Answers, Finishes,
       Loads, Sets, rows, storage, vars, TypeOK, StorageTypeOK, ObjectsMove, Id
  <2>5. CASE ServeImage(r)
    <3>1. Served(r)
      BY <2>5, Serving
    <3> QED BY <3>1, AccountsAssumption DEF Served, Others, Goes, Answers, Finishes,
       Loads, Sets, rows, storage, vars, TypeOK, StorageTypeOK, ObjectsMove, Id
  <2>6. CASE Fail(r)
    BY <2>6, AccountsAssumption DEF Fail, Goes, Answers, Finishes, Loads, Sets, rows,
       storage, vars, TypeOK, StorageTypeOK, ObjectsMove, Id
  <2>7. CASE UpdateName(r)
    BY <2>7, AccountsAssumption DEF UpdateName, Reports, Goes, Answers, Finishes, Loads,
       Sets, rows, storage, vars, TypeOK, StorageTypeOK, ObjectsMove, Id
  <2>8. CASE CountAddress(r)
    BY <2>8, AccountsAssumption DEF CountAddress, AddressTaken, Goes, Answers, Finishes,
       Loads, Sets, rows, storage, vars, TypeOK, StorageTypeOK, ObjectsMove, Id
  <2>9. CASE DeleteChanges(r)
    BY <2>9, AccountsAssumption DEF DeleteChanges, Superseded, ChangesOf, Goes, Answers,
       Finishes, Loads, Sets, rows, storage, vars, TypeOK, StorageTypeOK, ObjectsMove,
       Id
  <2>10. CASE CreateChange(r)
    BY <2>10, AccountsAssumption DEF CreateChange, Goes, Answers, Finishes, Loads, Sets,
       rows, storage, vars, TypeOK, StorageTypeOK, ObjectsMove, Id
  <2>11. CASE SendMail(r)
    BY <2>11, AccountsAssumption DEF SendMail, Goes, Answers, Finishes, Loads, Sets,
       rows, storage, vars, TypeOK, StorageTypeOK, ObjectsMove, Id
  <2>12. CASE FindToken(r)
    <3>1. Found(r)
      BY <2>12, Finding
    <3> QED BY <3>1, AccountsAssumption DEF Found, Others, Goes, Answers, Finishes,
       Loads, Sets, rows, storage, vars, TypeOK, StorageTypeOK, ObjectsMove, Id
  <2>13. CASE UpdateAddress(r)
    BY <2>13, AccountsAssumption DEF UpdateAddress, Goes, Answers, Finishes, Loads,
       Sets, rows, storage, vars, TypeOK, StorageTypeOK, ObjectsMove, Id
  <2>14. CASE DropChanges(r)
    BY <2>14, AccountsAssumption DEF DropChanges, Reports, Superseded, ChangesOf, Goes,
       Answers, Finishes, Loads, Sets, rows, storage, vars, TypeOK, StorageTypeOK,
       ObjectsMove, Id
  <2>15. CASE RevokeAll(r)
    BY <2>15, AccountsAssumption DEF RevokeAll, SessionsOf, Goes, Answers, Finishes,
       Loads, Sets, rows, storage, vars, TypeOK, StorageTypeOK, ObjectsMove, Id
  <2>16. CASE GetSession(r)
    BY <2>16, AccountsAssumption DEF GetSession, TokensOf, SessionsOf, Goes, Answers,
       Finishes, Loads, Sets, rows, storage, vars, TypeOK, StorageTypeOK, ObjectsMove,
       Id
  <2>17. CASE RevokeSession(r)
    BY <2>17, AccountsAssumption DEF RevokeSession, TokensOf, Goes, Answers, Finishes,
       Loads, Sets, rows, storage, vars, TypeOK, StorageTypeOK, ObjectsMove, Id
  <2>18. CASE ListSessions(r)
    <3>1. Listed(r)
      BY <2>18, Listing
    <3> QED BY <3>1, AccountsAssumption DEF Listed, Others, Goes, Answers, Finishes,
       Loads, Sets, rows, storage, vars, TypeOK, StorageTypeOK, ObjectsMove, Id
  <2>19. CASE RevokeNext(r)
    <3>1. RevokedOne(r)
      BY <2>19, RevokingOne
    <3> QED BY <3>1, AccountsAssumption DEF RevokedOne, Others, Goes, Answers, Finishes,
       Loads, Sets, rows, storage, vars, TypeOK, StorageTypeOK, ObjectsMove, Id
  <2>20. CASE AllRevoked(r)
    BY <2>20, AccountsAssumption DEF AllRevoked, Goes, Answers, Finishes, Loads, Sets,
       rows, storage, vars, TypeOK, StorageTypeOK, ObjectsMove, Id
  <2>21. CASE StartPut(r)
    BY <2>21, AccountsAssumption DEF StartPut, CreateTemp, Goes, Answers, Finishes,
       Loads, Sets, rows, storage, vars, TypeOK, StorageTypeOK, ObjectsMove, Id
  <2>22. CASE CopyBody(r)
    BY <2>22, AccountsAssumption DEF CopyBody, Copy, Goes, Answers, Finishes, Loads,
       Sets, rows, storage, vars, TypeOK, StorageTypeOK, ObjectsMove, Id
  <2>23. CASE FinishPut(r)
    <3>1. r \in Key /\ pc[r] \in {"put", "copy"} /\ pc' = [pc EXCEPT ![r] = "update image"]
      BY <2>23, AccountsAssumption DEF FinishPut, Goes, Id
    <3>2. files' = [files EXCEPT ![r] = r]
      BY <2>23 DEF FinishPut, Rename, ReadyToRename, PutObject, KeyOf
    <3> QED BY <3>1, <3>2 DEF ObjectsMove, TypeOK, StorageTypeOK
  <2>24. CASE PutAnswerLost(r)
    BY <2>24, AccountsAssumption DEF PutAnswerLost, PutObject, KeyOf, Goes, Answers,
       Finishes, Loads, Sets, rows, storage, vars, TypeOK, StorageTypeOK, ObjectsMove,
       Id
  <2>25. CASE PutFails(r)
    BY <2>25, AccountsAssumption DEF PutFails, Abandon, Goes, Answers, Finishes, Loads,
       Sets, rows, storage, vars, TypeOK, StorageTypeOK, ObjectsMove, Id
  <2>26. CASE UpdateImage(r)
    BY <2>26, AccountsAssumption DEF UpdateImage, KeyOf, Goes, Answers, Finishes, Loads,
       Sets, rows, storage, vars, TypeOK, StorageTypeOK, ObjectsMove, Id
  <2>27. CASE UpdateImageFails(r)
    BY <2>27, AccountsAssumption DEF UpdateImageFails, KeyOf, Goes, Answers, Finishes,
       Loads, Sets, rows, storage, vars, TypeOK, StorageTypeOK, ObjectsMove, Id
  <2>28. CASE UndoPut(r)
    BY <2>28, AccountsAssumption DEF UndoPut, KeyOf, Remove, Goes, Answers, Finishes,
       Loads, Sets, rows, storage, vars, TypeOK, StorageTypeOK, ObjectsMove, Id
  <2>29. CASE ClearImage(r)
    BY <2>29, AccountsAssumption DEF ClearImage, Goes, Answers, Finishes, Loads, Sets,
       rows, storage, vars, TypeOK, StorageTypeOK, ObjectsMove, Id
  <2>30. CASE DeleteOld(r)
    BY <2>30, AccountsAssumption DEF DeleteOld, OldImage, Remove, Goes, Answers,
       Finishes, Loads, Sets, rows, storage, vars, TypeOK, StorageTypeOK, ObjectsMove,
       Id
  <2> QED BY <1>4, <2>1, <2>2, <2>3, <2>4, <2>5, <2>6, <2>7, <2>8, <2>9, <2>10, <2>11,
     <2>12, <2>13, <2>14, <2>15, <2>16, <2>17, <2>18, <2>19, <2>20, <2>21, <2>22, <2>23,
     <2>24, <2>25, <2>26, <2>27, <2>28, <2>29, <2>30 DEF Handle
<1> QED BY <1>1, <1>2, <1>3, <1>4 DEF Next

-----------------------------------------------------------------------------
(***************************************************************************)
(* The invariants about the tables.                                        *)
(***************************************************************************)
\* Asked and told by the request whose id the token is.
LEMMA LettersStep ==
  ASSUME TypeOK, WholeObjects, \A q \in Request : Held(q), Asked, Told, [Next]_vars
  PROVE  Asked' /\ Told'
<1>1. ChangesCome /\ MailLeaves /\ \A q \in Request : Settled(q)
  BY ChangesStep, MailStep, SettledStep
<1>2. Asked'
  <2> SUFFICES ASSUME NEW c \in changes'
               PROVE  /\ c.token \in Request /\ pc'[c.token] \in {"send mail", "done"}
                      /\ c.user = call'[c.token].user /\ c.email = call'[c.token].email
    BY DEF Asked
  <2>1. CASE \E d \in changes : c.token = d.token /\ c.user = d.user /\ c.email = d.email
    <3>1. PICK d \in changes : c.token = d.token /\ c.user = d.user /\ c.email = d.email
      BY <2>1
    <3>2. /\ d.token \in Request /\ pc[d.token] \in {"send mail", "done"}
          /\ d.user = call[d.token].user /\ d.email = call[d.token].email
      BY DEF Asked
    <3>3. pc'[d.token] \in {"send mail", "done"} /\ call'[d.token] = call[d.token]
      BY <1>1, <3>2 DEF Settled, Past
    <3> QED BY <3>1, <3>2, <3>3
  <2>2. CASE /\ c.token \in Request
             /\ pc[c.token] = "create change" /\ pc'[c.token] = "send mail"
             /\ c.user = call[c.token].user /\ c.email = call[c.token].email
             /\ call' = call
    BY <2>2
  <2> QED BY <1>1, <2>1, <2>2 DEF ChangesCome
<1>3. Told'
  <2> SUFFICES ASSUME NEW m \in mailed'
               PROVE  /\ m.token \in Request /\ pc'[m.token] = "done"
                      /\ m.user = call'[m.token].user /\ m.email = call'[m.token].email
    BY DEF Told
  <2>1. CASE m \in mailed
    BY ZenonT(60), <1>1, <2>1 DEF Told, Settled, Past
  <2>2. CASE m \notin mailed
    BY <1>1, <2>2 DEF MailLeaves
  <2> QED BY <2>1, <2>2
<1> QED BY <1>2, <1>3

\* Objects are whole, and stored where a request is about to show one.
LEMMA WholeStep ==
  ASSUME TypeOK, WholeObjects, \A q \in Request : Held(q), [Next]_vars
  PROVE  WholeObjects'
BY ObjectsStep DEF ObjectsMove, WholeObjects

\* What rows show is there, and nobody is about to remove it.
LEMMA ShownStep ==
  ASSUME TypeOK, WholeObjects, \A q \in Request : Held(q) /\ Remembered(q) /\ Stored(q),
         \A u \in User : Shown(u), [Next]_vars
  PROVE  \A u \in User : Shown(u)'
<1>1. ImagesAppear /\ lostAck \subseteq lostAck' /\ ObjectsMove /\ \A q \in Request : Settled(q)
  BY ImagesStep, ObjectsStep, SettledStep
<1> SUFFICES ASSUME NEW u \in User, NEW k, k = users'[u].image, k # None
             PROVE  /\ k \in Request /\ pc'[k] \in Past /\ call'[k].user = u
                    /\ pc'[k] = "undo" => k \in lostAck'
                    /\ files'[k] = k \/ k \in lostAck'
  BY DEF Shown
<1>2. CASE k = users[u].image
  <2>1. /\ k \in Request /\ pc[k] \in Past /\ call[k].user = u
        /\ pc[k] = "undo" => k \in lostAck
        /\ files[k] = k \/ k \in lostAck
    BY <1>2 DEF Shown
  <2>2. pc'[k] \in Past /\ call'[k].user = u /\ (pc'[k] = "undo" => k \in lostAck')
    BY <1>1, <2>1 DEF Settled, Past
  <2>3. files'[k] = k \/ k \in lostAck'
    <3>1. k \in Key
      BY <2>1, AccountsAssumption DEF Id
    <3>2. CASE files'[k] = files[k]
      BY <1>1, <2>1, <3>2
    <3>3. CASE pc[k] \in {"put", "copy"}
      BY <2>1, <3>3 DEF Past
    <3>4. CASE pc[k] = "undo"
      BY <1>1, <2>1, <3>4
    <3>5. ASSUME NEW r \in Request, pc[r] = "delete old", call[r].image = k
          PROVE  FALSE
      BY ZenonT(60), <1>2, <3>5 DEF Remembered
    <3> QED BY <1>1, <3>1, <3>2, <3>3, <3>4, <3>5 DEF ObjectsMove
  <2> QED BY <2>1, <2>2, <2>3
<1>3. CASE k # users[u].image
  <2>1. /\ k \in Request /\ pc[k] = "update image" /\ call[k].user = u /\ call' = call
        /\ pc'[k] = "delete old" \/ (pc'[k] = "undo" /\ k \in lostAck')
        /\ files' = files
    BY <1>1, <1>3 DEF ImagesAppear
  <2>2. files[k] = k
    BY <2>1 DEF Stored
  <2> QED BY <2>1, <2>2 DEF Past
<1> QED BY <1>2, <1>3


\* A request about to show its object has stored it, and nobody else remembers it.
LEMMA StoredStep ==
  ASSUME TypeOK, WholeObjects, \A q \in Request : Held(q) /\ Remembered(q) /\ Stored(q),
         [Next]_vars
  PROVE  \A q \in Request : Stored(q)'
<1>1. ObjectsMove
  BY ObjectsStep
<1> SUFFICES ASSUME NEW q \in Request, pc'[q] = "update image", pc[q] = "update image"
             PROVE  files'[q] = q
  BY <1>1 DEF Stored, ObjectsMove
<1>2. q \in Key /\ files[q] = q
  BY AccountsAssumption DEF Id, Stored
<1>3. ASSUME NEW r \in Request, call[r].image = q
      PROVE  FALSE
  <2>1. q # None
    BY AccountsAssumption DEF Id
  <2> QED BY <1>3, <2>1 DEF Remembered, Past
<1> QED BY <1>1, <1>2, <1>3 DEF ObjectsMove

\* The image a request remembers is loaded with its session; it is deleted
\* after the row shows another.
ImageLoads(q) ==
  /\ \/ call'[q].image = call[q].image /\ call'[q].user = call[q].user
     \/ call'[q].image = None
     \/ call'[q].user \in User /\ call'[q].image = users[call'[q].user].image
  /\ pc'[q] = "delete old" /\ pc[q] # "delete old" =>
       /\ call' = call /\ pc[q] \notin Past /\ call[q].user \in User
       /\ users'[call[q].user].image \in {None, q}

\* Only the session tier loads one.
LEMMA LoadsStep ==
  ASSUME TypeOK, WholeObjects, \A q \in Request : Held(q), [Next]_vars
  PROVE  \A q \in Request : ImageLoads(q)
<1>1. CASE UNCHANGED vars
  BY <1>1 DEF Goes, Answers, Finishes, Loads, Sets, rows, storage, vars, TypeOK,
     ImageLoads, Past, Session
<1>2. CASE Kill
  BY <1>2, AccountsAssumption DEF Kill, Goes, Answers, Finishes, Loads, Sets, rows,
     storage, vars, TypeOK, ImageLoads, Past, Session
<1>3. ASSUME NEW x \in changes, Expire(x) PROVE \A q \in Request : ImageLoads(q)
  BY <1>3, AccountsAssumption DEF Expire, Goes, Answers, Finishes, Loads, Sets, rows,
     storage, vars, TypeOK, ImageLoads, Past, Session
<1>4. ASSUME NEW r \in Request,
             Arrive(r) \/ SignIn(r) \/ SignOut(r) \/ ResetPassword(r) \/ ServeImage(r)
               \/ Fail(r) \/ Handle(r)
      PROVE  \A q \in Request : ImageLoads(q)
  <2>1. CASE Arrive(r)
    <3>1. Arrived(r)
      BY <2>1, Arriving
    <3> QED BY <3>1, AccountsAssumption DEF Arrived, Others, Goes, Answers, Finishes,
       Loads, Sets, rows, storage, vars, TypeOK, ImageLoads, Past, Session
  <2>2. CASE SignIn(r)
    BY <2>2, AccountsAssumption DEF SignIn, Goes, Answers, Finishes, Loads, Sets, rows,
       storage, vars, TypeOK, ImageLoads, Past, Session
  <2>3. CASE SignOut(r)
    <3>1. SignedOut(r)
      BY <2>3, SigningOut
    <3> QED BY <3>1, AccountsAssumption DEF SignedOut, Others, Goes, Answers, Finishes,
       Loads, Sets, rows, storage, vars, TypeOK, ImageLoads, Past, Session
  <2>4. CASE ResetPassword(r)
    <3>1. Reset(r)
      BY <2>4, Resetting
    <3> QED BY <3>1, AccountsAssumption DEF Reset, Others, Goes, Answers, Finishes,
       Loads, Sets, rows, storage, vars, TypeOK, ImageLoads, Past, Session
  <2>5. CASE ServeImage(r)
    <3>1. Served(r)
      BY <2>5, Serving
    <3> QED BY <3>1, AccountsAssumption DEF Served, Others, Goes, Answers, Finishes,
       Loads, Sets, rows, storage, vars, TypeOK, ImageLoads, Past, Session
  <2>6. CASE Fail(r)
    BY <2>6, AccountsAssumption DEF Fail, Goes, Answers, Finishes, Loads, Sets, rows,
       storage, vars, TypeOK, ImageLoads, Past, Session
  <2>7. CASE UpdateName(r)
    BY <2>7, AccountsAssumption DEF UpdateName, Reports, Goes, Answers, Finishes, Loads,
       Sets, rows, storage, vars, TypeOK, ImageLoads, Past, Session
  <2>8. CASE CountAddress(r)
    BY <2>8, AccountsAssumption DEF CountAddress, AddressTaken, Goes, Answers, Finishes,
       Loads, Sets, rows, storage, vars, TypeOK, ImageLoads, Past, Session
  <2>9. CASE DeleteChanges(r)
    BY <2>9, AccountsAssumption DEF DeleteChanges, Superseded, ChangesOf, Goes, Answers,
       Finishes, Loads, Sets, rows, storage, vars, TypeOK, ImageLoads, Past, Session
  <2>10. CASE CreateChange(r)
    BY <2>10, AccountsAssumption DEF CreateChange, Goes, Answers, Finishes, Loads, Sets,
       rows, storage, vars, TypeOK, ImageLoads, Past, Session
  <2>11. CASE SendMail(r)
    BY <2>11, AccountsAssumption DEF SendMail, Goes, Answers, Finishes, Loads, Sets,
       rows, storage, vars, TypeOK, ImageLoads, Past, Session
  <2>12. CASE FindToken(r)
    <3>1. Found(r)
      BY <2>12, Finding
    <3> QED BY <3>1, AccountsAssumption DEF Found, Others, Goes, Answers, Finishes,
       Loads, Sets, rows, storage, vars, TypeOK, ImageLoads, Past, Session
  <2>13. CASE UpdateAddress(r)
    BY <2>13, AccountsAssumption DEF UpdateAddress, Goes, Answers, Finishes, Loads,
       Sets, rows, storage, vars, TypeOK, ImageLoads, Past, Session
  <2>14. CASE DropChanges(r)
    BY <2>14, AccountsAssumption DEF DropChanges, Reports, Superseded, ChangesOf, Goes,
       Answers, Finishes, Loads, Sets, rows, storage, vars, TypeOK, ImageLoads, Past,
       Session
  <2>15. CASE RevokeAll(r)
    BY <2>15, AccountsAssumption DEF RevokeAll, SessionsOf, Goes, Answers, Finishes,
       Loads, Sets, rows, storage, vars, TypeOK, ImageLoads, Past, Session
  <2>16. CASE GetSession(r)
    BY <2>16, AccountsAssumption DEF GetSession, TokensOf, SessionsOf, Goes, Answers,
       Finishes, Loads, Sets, rows, storage, vars, TypeOK, ImageLoads, Past, Session
  <2>17. CASE RevokeSession(r)
    BY <2>17, AccountsAssumption DEF RevokeSession, TokensOf, Goes, Answers, Finishes,
       Loads, Sets, rows, storage, vars, TypeOK, ImageLoads, Past, Session
  <2>18. CASE ListSessions(r)
    <3>1. Listed(r)
      BY <2>18, Listing
    <3> QED BY <3>1, AccountsAssumption DEF Listed, Others, Goes, Answers, Finishes,
       Loads, Sets, rows, storage, vars, TypeOK, ImageLoads, Past, Session
  <2>19. CASE RevokeNext(r)
    <3>1. RevokedOne(r)
      BY <2>19, RevokingOne
    <3> QED BY <3>1, AccountsAssumption DEF RevokedOne, Others, Goes, Answers, Finishes,
       Loads, Sets, rows, storage, vars, TypeOK, ImageLoads, Past, Session
  <2>20. CASE AllRevoked(r)
    BY <2>20, AccountsAssumption DEF AllRevoked, Goes, Answers, Finishes, Loads, Sets,
       rows, storage, vars, TypeOK, ImageLoads, Past, Session
  <2>21. CASE StartPut(r)
    BY <2>21, AccountsAssumption DEF StartPut, CreateTemp, Goes, Answers, Finishes,
       Loads, Sets, rows, storage, vars, TypeOK, ImageLoads, Past, Session
  <2>22. CASE CopyBody(r)
    BY <2>22, AccountsAssumption DEF CopyBody, Copy, Goes, Answers, Finishes, Loads,
       Sets, rows, storage, vars, TypeOK, ImageLoads, Past, Session
  <2>23. CASE FinishPut(r)
    BY <2>23, AccountsAssumption DEF FinishPut, Rename, ReadyToRename, PutObject, KeyOf,
       Goes, Answers, Finishes, Loads, Sets, rows, storage, vars, TypeOK, ImageLoads,
       Past, Session
  <2>24. CASE PutAnswerLost(r)
    BY <2>24, AccountsAssumption DEF PutAnswerLost, PutObject, KeyOf, Goes, Answers,
       Finishes, Loads, Sets, rows, storage, vars, TypeOK, ImageLoads, Past, Session
  <2>25. CASE PutFails(r)
    BY <2>25, AccountsAssumption DEF PutFails, Abandon, Goes, Answers, Finishes, Loads,
       Sets, rows, storage, vars, TypeOK, ImageLoads, Past, Session
  <2>26. CASE UpdateImage(r)
    <3>1. /\ pc[r] = "update image" /\ pc'[r] = "delete old" /\ call' = call
          /\ call[r].user \in User /\ Sets(call[r].user, "image", r)
      BY <2>26 DEF UpdateImage, KeyOf, Goes, Held, TypeOK
    <3>2. users'[call[r].user].image = r
      BY <3>1, SetsImage
    <3> QED BY <2>26, <3>1, <3>2 DEF UpdateImage, Goes, ImageLoads, TypeOK, Past
  <2>27. CASE UpdateImageFails(r)
    BY <2>27, AccountsAssumption DEF UpdateImageFails, KeyOf, Goes, Answers, Finishes,
       Loads, Sets, rows, storage, vars, TypeOK, ImageLoads, Past, Session
  <2>28. CASE UndoPut(r)
    BY <2>28, AccountsAssumption DEF UndoPut, KeyOf, Remove, Goes, Answers, Finishes,
       Loads, Sets, rows, storage, vars, TypeOK, ImageLoads, Past, Session
  <2>29. CASE ClearImage(r)
    <3>1. /\ pc[r] = "clear image" /\ pc'[r] = "delete old" /\ call' = call
          /\ call[r].user \in User /\ Sets(call[r].user, "image", None)
      BY <2>29 DEF ClearImage, Goes, Held, TypeOK
    <3>2. users'[call[r].user].image = None
      BY <3>1, SetsImage
    <3> QED BY <2>29, <3>1, <3>2 DEF ClearImage, Goes, ImageLoads, TypeOK, Past
  <2>30. CASE DeleteOld(r)
    BY <2>30, AccountsAssumption DEF DeleteOld, OldImage, Remove, Goes, Answers,
       Finishes, Loads, Sets, rows, storage, vars, TypeOK, ImageLoads, Past, Session
  <2> QED BY <1>4, <2>1, <2>2, <2>3, <2>4, <2>5, <2>6, <2>7, <2>8, <2>9, <2>10, <2>11,
     <2>12, <2>13, <2>14, <2>15, <2>16, <2>17, <2>18, <2>19, <2>20, <2>21, <2>22, <2>23,
     <2>24, <2>25, <2>26, <2>27, <2>28, <2>29, <2>30 DEF Handle
<1> QED BY <1>1, <1>2, <1>3, <1>4 DEF Next

\* What is remembered was stored for the same user, and is not shown when it
\* is about to be deleted.
LEMMA RememberedStep ==
  ASSUME TypeOK, WholeObjects, \A q \in Request : Held(q) /\ Remembered(q),
         \A u \in User : Shown(u), \A u \in User : Shown(u)', [Next]_vars
  PROVE  \A q \in Request : Remembered(q)'
<1>1. /\ ImagesAppear
      /\ \A q \in Request : Settled(q) /\ ImageLoads(q)
  BY ImagesStep, SettledStep, LoadsStep
<1> SUFFICES ASSUME NEW q \in Request, NEW k, k = call'[q].image, k # None
             PROVE  /\ k \in Request /\ pc'[k] \in Past /\ call'[k].user = call'[q].user
                    /\ pc'[q] = "delete old" => \A u \in User : users'[u].image # k
  BY DEF Remembered
<1>2. k \in Request /\ pc[k] \in Past /\ call[k].user = call'[q].user
  <2>1. CASE call'[q].image = call[q].image /\ call'[q].user = call[q].user
    BY <2>1 DEF Remembered
  <2>2. CASE call'[q].user \in User /\ call'[q].image = users[call'[q].user].image
    BY <2>2 DEF Shown
  <2> QED BY <1>1, <2>1, <2>2 DEF ImageLoads
<1>3. pc'[k] \in Past /\ call'[k] = call[k]
  BY <1>1, <1>2 DEF Settled
<1>4. ASSUME pc'[q] = "delete old", NEW u \in User, users'[u].image = k
      PROVE  FALSE
  <2>1. CASE pc[q] = "delete old"
    <3>1. call[q].image = k
      BY <1>1, <2>1 DEF Settled, Past
    <3>2. users[u].image # k
      BY ZenonT(60), <2>1, <3>1 DEF Remembered
    <3>3. users'[u].image \notin {None, users[u].image}
      BY <1>4, <3>2
    <3>4. pc[users'[u].image] = "update image"
      BY <1>1, <1>4, <3>3 DEF ImagesAppear
    <3> QED BY <1>2, <1>4, <3>4 DEF Past
  <2>2. CASE pc[q] # "delete old"
    <3>1. /\ call' = call /\ pc[q] \notin Past /\ call[q].user \in User
          /\ users'[call[q].user].image \in {None, q}
      BY <1>1, <1>4, <2>2 DEF ImageLoads
    <3>2. call'[k].user = u
      BY <1>4 DEF Shown
    <3>3. u = call[q].user
      BY <1>2, <1>3, <3>1, <3>2
    <3>4. k # q
      BY <1>2, <3>1
    <3> QED BY <1>4, <3>1, <3>3, <3>4
  <2> QED BY <2>1, <2>2
<1> QED BY <1>2, <1>3, <1>4


\* A link that is opened was mailed, with the address of its request.
LEMMA ProvenStep ==
  ASSUME TypeOK, WholeObjects, \A q \in Request : Held(q), Asked, Told, \A q \in Request : Proven(q), [Next]_vars
  PROVE  \A q \in Request : Proven(q)'
<1>1. CASE UNCHANGED vars
  BY <1>1 DEF Goes, Answers, Finishes, Loads, Sets, rows, storage, vars, TypeOK, Proven
<1>2. CASE Kill
  BY <1>2, AccountsAssumption DEF Kill, Goes, Answers, Finishes, Loads, Sets, rows,
     storage, vars, TypeOK, Proven
<1>3. ASSUME NEW x \in changes, Expire(x) PROVE \A q \in Request : Proven(q)'
  BY <1>3, AccountsAssumption DEF Expire, Goes, Answers, Finishes, Loads, Sets, rows,
     storage, vars, TypeOK, Proven
<1>4. ASSUME NEW r \in Request,
             Arrive(r) \/ SignIn(r) \/ SignOut(r) \/ ResetPassword(r) \/ ServeImage(r)
               \/ Fail(r) \/ Handle(r)
      PROVE  \A q \in Request : Proven(q)'
  <2>1. CASE Arrive(r)
    <3>1. Arrived(r)
      BY <2>1, Arriving
    <3>2. mailed' = mailed /\ pc'[r] # "update address"
      BY <3>1 DEF Arrived
    <3>3. pc'[r] = "find token" => \E m \in mailed : m.token = call'[r].subject
      BY <2>1, Opening
    <3>4. \A q \in Request \ {r} : call'[q] = call[q] /\ pc'[q] = pc[q]
      BY <3>1 DEF Arrived, Others
    <3> QED BY ZenonT(60), <3>2, <3>3, <3>4 DEF Proven
  <2>2. CASE SignIn(r)
    BY <2>2, AccountsAssumption DEF SignIn, Goes, Answers, Finishes, Loads, Sets, rows,
       storage, vars, TypeOK, Proven
  <2>3. CASE SignOut(r)
    <3>1. SignedOut(r)
      BY <2>3, SigningOut
    <3>2. mailed' = mailed
      BY <3>1 DEF SignedOut
    <3>3. pc'[r] \notin {"find token", "update address"}
      BY <3>1 DEF SignedOut, Finishes, Goes, TypeOK
    <3>4. \A q \in Request \ {r} : call'[q] = call[q] /\ pc'[q] = pc[q]
      BY <3>1 DEF SignedOut, Others
    <3> QED BY ZenonT(60), <3>2, <3>3, <3>4 DEF Proven
  <2>4. CASE ResetPassword(r)
    <3>1. Reset(r)
      BY <2>4, Resetting
    <3>2. mailed' = mailed
      BY <3>1 DEF Reset
    <3>3. pc'[r] \notin {"find token", "update address"}
      BY <3>1 DEF Reset, Finishes, Goes, TypeOK
    <3>4. \A q \in Request \ {r} : call'[q] = call[q] /\ pc'[q] = pc[q]
      BY <3>1 DEF Reset, Others
    <3> QED BY ZenonT(60), <3>2, <3>3, <3>4 DEF Proven
  <2>5. CASE ServeImage(r)
    <3>1. Served(r)
      BY <2>5, Serving
    <3>2. mailed' = mailed
      BY <3>1 DEF Served
    <3>3. pc'[r] \notin {"find token", "update address"}
      BY <3>1 DEF Served, Finishes, Goes, TypeOK
    <3>4. \A q \in Request \ {r} : call'[q] = call[q] /\ pc'[q] = pc[q]
      BY <3>1 DEF Served, Others
    <3> QED BY ZenonT(60), <3>2, <3>3, <3>4 DEF Proven
  <2>6. CASE Fail(r)
    BY <2>6, AccountsAssumption DEF Fail, Goes, Answers, Finishes, Loads, Sets, rows,
       storage, vars, TypeOK, Proven
  <2>7. CASE UpdateName(r)
    BY <2>7, AccountsAssumption DEF UpdateName, Reports, Goes, Answers, Finishes, Loads,
       Sets, rows, storage, vars, TypeOK, Proven
  <2>8. CASE CountAddress(r)
    BY ZenonT(60), <2>8, AccountsAssumption DEF CountAddress, AddressTaken, Goes, Answers, Finishes,
       Loads, Sets, rows, storage, vars, TypeOK, Proven
  <2>9. CASE DeleteChanges(r)
    BY <2>9, AccountsAssumption DEF DeleteChanges, Superseded, ChangesOf, Goes, Answers,
       Finishes, Loads, Sets, rows, storage, vars, TypeOK, Proven
  <2>10. CASE CreateChange(r)
    BY <2>10, AccountsAssumption DEF CreateChange, Goes, Answers, Finishes, Loads, Sets,
       rows, storage, vars, TypeOK, Proven
  <2>11. CASE SendMail(r)
    <3>1. mailed \subseteq mailed' /\ call' = call
      BY <2>11 DEF SendMail
    <3>2. \A q \in Request : pc'[q] \in {"find token", "update address"} => pc'[q] = pc[q]
      BY <2>11 DEF SendMail, Finishes, Goes, TypeOK
    <3> QED BY <3>1, <3>2 DEF Proven
  <2>12. CASE FindToken(r)
    <3>1. Found(r)
      BY <2>12, Finding
    <3>2. PICK c \in changes : /\ c.token = call[r].subject /\ c.user = call[r].user
                               /\ call'[r].email = c.email
      BY <3>1 DEF Found
    <3>3. PICK m \in mailed : m.token = call[r].subject
      BY <3>1 DEF Found, Goes, Proven
    <3>8. call'[r].user = call[r].user
      BY <3>1 DEF Found
    <3>9. /\ c.user = call[c.token].user /\ c.email = call[c.token].email
          /\ m.user = call[m.token].user /\ m.email = call[m.token].email
      BY DEF Asked, Told
    <3>4. m.user = call'[r].user /\ m.email = call'[r].email
      BY <3>2, <3>3, <3>8, <3>9
    <3>5. \A q \in Request : pc'[q] = "find token" => q # r
      BY <3>1 DEF Found, Goes, TypeOK
    <3>6. \A q \in Request \ {r} : call'[q] = call[q] /\ pc'[q] = pc[q]
      BY <3>1 DEF Found, Others
    <3>7. mailed' = mailed /\ pc'[r] = "update address"
      BY <3>1 DEF Found, Goes, TypeOK
    <3> QED BY ZenonT(60), <3>4, <3>5, <3>6, <3>7 DEF Proven
  <2>13. CASE UpdateAddress(r)
    BY ZenonT(60), <2>13, AccountsAssumption DEF UpdateAddress, Goes, Answers, Finishes, Loads,
       Sets, rows, storage, vars, TypeOK, Proven
  <2>14. CASE DropChanges(r)
    BY <2>14, AccountsAssumption DEF DropChanges, Reports, Superseded, ChangesOf, Goes,
       Answers, Finishes, Loads, Sets, rows, storage, vars, TypeOK, Proven
  <2>15. CASE RevokeAll(r)
    BY <2>15, AccountsAssumption DEF RevokeAll, SessionsOf, Goes, Answers, Finishes,
       Loads, Sets, rows, storage, vars, TypeOK, Proven
  <2>16. CASE GetSession(r)
    BY <2>16, AccountsAssumption DEF GetSession, TokensOf, SessionsOf, Goes, Answers,
       Finishes, Loads, Sets, rows, storage, vars, TypeOK, Proven
  <2>17. CASE RevokeSession(r)
    BY <2>17, AccountsAssumption DEF RevokeSession, TokensOf, Goes, Answers, Finishes,
       Loads, Sets, rows, storage, vars, TypeOK, Proven
  <2>18. CASE ListSessions(r)
    <3>1. Listed(r)
      BY <2>18, Listing
    <3>2. mailed' = mailed
      BY <3>1 DEF Listed
    <3>3. pc'[r] \notin {"find token", "update address"}
      BY <3>1 DEF Listed, Finishes, Goes, TypeOK
    <3>4. \A q \in Request \ {r} : call'[q] = call[q] /\ pc'[q] = pc[q]
      BY <3>1 DEF Listed, Others
    <3> QED BY ZenonT(60), <3>2, <3>3, <3>4 DEF Proven
  <2>19. CASE RevokeNext(r)
    <3>1. RevokedOne(r)
      BY <2>19, RevokingOne
    <3>2. mailed' = mailed /\ pc' = pc /\ pc[r] = "revoke others"
      BY <3>1 DEF RevokedOne
    <3>3. \A q \in Request \ {r} : call'[q] = call[q]
      BY <3>1 DEF RevokedOne, Others
    <3> QED BY <3>2, <3>3 DEF Proven
  <2>20. CASE AllRevoked(r)
    BY <2>20, AccountsAssumption DEF AllRevoked, Goes, Answers, Finishes, Loads, Sets,
       rows, storage, vars, TypeOK, Proven
  <2>21. CASE StartPut(r)
    BY <2>21, AccountsAssumption DEF StartPut, CreateTemp, Goes, Answers, Finishes,
       Loads, Sets, rows, storage, vars, TypeOK, Proven
  <2>22. CASE CopyBody(r)
    BY <2>22, AccountsAssumption DEF CopyBody, Copy, Goes, Answers, Finishes, Loads,
       Sets, rows, storage, vars, TypeOK, Proven
  <2>23. CASE FinishPut(r)
    BY <2>23, AccountsAssumption DEF FinishPut, Rename, ReadyToRename, PutObject, KeyOf,
       Goes, Answers, Finishes, Loads, Sets, rows, storage, vars, TypeOK, Proven
  <2>24. CASE PutAnswerLost(r)
    BY <2>24, AccountsAssumption DEF PutAnswerLost, PutObject, KeyOf, Goes, Answers,
       Finishes, Loads, Sets, rows, storage, vars, TypeOK, Proven
  <2>25. CASE PutFails(r)
    BY <2>25, AccountsAssumption DEF PutFails, Abandon, Goes, Answers, Finishes, Loads,
       Sets, rows, storage, vars, TypeOK, Proven
  <2>26. CASE UpdateImage(r)
    BY <2>26, AccountsAssumption DEF UpdateImage, KeyOf, Goes, Answers, Finishes, Loads,
       Sets, rows, storage, vars, TypeOK, Proven
  <2>27. CASE UpdateImageFails(r)
    BY <2>27, AccountsAssumption DEF UpdateImageFails, KeyOf, Goes, Answers, Finishes,
       Loads, Sets, rows, storage, vars, TypeOK, Proven
  <2>28. CASE UndoPut(r)
    BY <2>28, AccountsAssumption DEF UndoPut, KeyOf, Remove, Goes, Answers, Finishes,
       Loads, Sets, rows, storage, vars, TypeOK, Proven
  <2>29. CASE ClearImage(r)
    BY <2>29, AccountsAssumption DEF ClearImage, Goes, Answers, Finishes, Loads, Sets,
       rows, storage, vars, TypeOK, Proven
  <2>30. CASE DeleteOld(r)
    BY <2>30, AccountsAssumption DEF DeleteOld, OldImage, Remove, Goes, Answers,
       Finishes, Loads, Sets, rows, storage, vars, TypeOK, Proven
  <2> QED BY <1>4, <2>1, <2>2, <2>3, <2>4, <2>5, <2>6, <2>7, <2>8, <2>9, <2>10, <2>11,
     <2>12, <2>13, <2>14, <2>15, <2>16, <2>17, <2>18, <2>19, <2>20, <2>21, <2>22, <2>23,
     <2>24, <2>25, <2>26, <2>27, <2>28, <2>29, <2>30 DEF Handle
<1> QED BY <1>1, <1>2, <1>3, <1>4 DEF Next

-----------------------------------------------------------------------------
(***************************************************************************)
(* Revocations and old links.                                              *)
(***************************************************************************)
\* The steps of a revocation.
RevokeMoves(q) ==
  \/ pc'[q] \notin {"get session", "revoke", "revoke others", "revoke all"}
  \/ pc'[q] = pc[q] /\ call'[q] = call[q]
  \/ pc[q] = "get session" /\ pc'[q] = "revoke" /\ call'[q] = call[q]
  \/ /\ pc[q] = "revoke others" /\ pc'[q] = "revoke others" /\ call'[q].known = call[q].known
     /\ \E t \in Id : /\ sessions' = {s \in sessions : s.token # t}
                      /\ call'[q].todo = call[q].todo \ {t}
  \/ /\ sessions' = sessions
     /\ \/ pc'[q] = "get session" /\ call'[q].known = {call'[q].subject}
        \/ pc'[q] = "revoke others" /\ call'[q].known = call'[q].todo
        \/ pc'[q] = "revoke all" /\ call'[q].known = TokensOf(SessionsOf(call'[q].user))

\* Every step is one of them, or none.
LEMMA RevokeMovesStep ==
  ASSUME TypeOK, WholeObjects, \A q \in Request : Held(q), [Next]_vars
  PROVE  \A q \in Request : RevokeMoves(q)
<1>1. CASE UNCHANGED vars
  BY <1>1 DEF Goes, Answers, Finishes, Loads, Sets, rows, storage, vars, TypeOK, RevokeMoves
<1>2. CASE Kill
  BY <1>2, AccountsAssumption DEF Kill, Goes, Answers, Finishes, Loads, Sets, rows,
     storage, vars, TypeOK, RevokeMoves
<1>3. ASSUME NEW x \in changes, Expire(x) PROVE \A q \in Request : RevokeMoves(q)
  BY <1>3, AccountsAssumption DEF Expire, Goes, Answers, Finishes, Loads, Sets, rows,
     storage, vars, TypeOK, RevokeMoves
<1>4. ASSUME NEW r \in Request,
             Arrive(r) \/ SignIn(r) \/ SignOut(r) \/ ResetPassword(r) \/ ServeImage(r)
               \/ Fail(r) \/ Handle(r)
      PROVE  \A q \in Request : RevokeMoves(q)
  <2>1. CASE Arrive(r)
    <3>1. Arrived(r)
      BY <2>1, Arriving
    <3> QED BY <3>1, AccountsAssumption DEF Arrived, Others, Goes, Answers, Finishes,
       Loads, Sets, rows, storage, vars, TypeOK, RevokeMoves
  <2>2. CASE SignIn(r)
    BY <2>2, AccountsAssumption DEF SignIn, Goes, Answers, Finishes, Loads, Sets, rows,
       storage, vars, TypeOK, RevokeMoves
  <2>3. CASE SignOut(r)
    <3>1. SignedOut(r)
      BY <2>3, SigningOut
    <3> QED BY <3>1, AccountsAssumption DEF SignedOut, Others, Goes, Answers, Finishes,
       Loads, Sets, rows, storage, vars, TypeOK, RevokeMoves
  <2>4. CASE ResetPassword(r)
    <3>1. Reset(r)
      BY <2>4, Resetting
    <3> QED BY <3>1, AccountsAssumption DEF Reset, Others, Goes, Answers, Finishes,
       Loads, Sets, rows, storage, vars, TypeOK, RevokeMoves
  <2>5. CASE ServeImage(r)
    <3>1. Served(r)
      BY <2>5, Serving
    <3> QED BY <3>1, AccountsAssumption DEF Served, Others, Goes, Answers, Finishes,
       Loads, Sets, rows, storage, vars, TypeOK, RevokeMoves
  <2>6. CASE Fail(r)
    BY <2>6, AccountsAssumption DEF Fail, Goes, Answers, Finishes, Loads, Sets, rows,
       storage, vars, TypeOK, RevokeMoves
  <2>7. CASE UpdateName(r)
    BY <2>7, AccountsAssumption DEF UpdateName, Reports, Goes, Answers, Finishes, Loads,
       Sets, rows, storage, vars, TypeOK, RevokeMoves
  <2>8. CASE CountAddress(r)
    BY <2>8, AccountsAssumption DEF CountAddress, AddressTaken, Goes, Answers, Finishes,
       Loads, Sets, rows, storage, vars, TypeOK, RevokeMoves
  <2>9. CASE DeleteChanges(r)
    BY <2>9, AccountsAssumption DEF DeleteChanges, Superseded, ChangesOf, Goes, Answers,
       Finishes, Loads, Sets, rows, storage, vars, TypeOK, RevokeMoves
  <2>10. CASE CreateChange(r)
    BY <2>10, AccountsAssumption DEF CreateChange, Goes, Answers, Finishes, Loads, Sets,
       rows, storage, vars, TypeOK, RevokeMoves
  <2>11. CASE SendMail(r)
    BY <2>11, AccountsAssumption DEF SendMail, Goes, Answers, Finishes, Loads, Sets,
       rows, storage, vars, TypeOK, RevokeMoves
  <2>12. CASE FindToken(r)
    <3>1. Found(r)
      BY <2>12, Finding
    <3> QED BY <3>1, AccountsAssumption DEF Found, Others, Goes, Answers, Finishes,
       Loads, Sets, rows, storage, vars, TypeOK, RevokeMoves
  <2>13. CASE UpdateAddress(r)
    BY <2>13, AccountsAssumption DEF UpdateAddress, Goes, Answers, Finishes, Loads,
       Sets, rows, storage, vars, TypeOK, RevokeMoves
  <2>14. CASE DropChanges(r)
    BY <2>14, AccountsAssumption DEF DropChanges, Reports, Superseded, ChangesOf, Goes,
       Answers, Finishes, Loads, Sets, rows, storage, vars, TypeOK, RevokeMoves
  <2>15. CASE RevokeAll(r)
    BY <2>15, AccountsAssumption DEF RevokeAll, SessionsOf, Goes, Answers, Finishes,
       Loads, Sets, rows, storage, vars, TypeOK, RevokeMoves
  <2>16. CASE GetSession(r)
    BY <2>16, AccountsAssumption DEF GetSession, TokensOf, SessionsOf, Goes, Answers,
       Finishes, Loads, Sets, rows, storage, vars, TypeOK, RevokeMoves
  <2>17. CASE RevokeSession(r)
    BY <2>17, AccountsAssumption DEF RevokeSession, TokensOf, Goes, Answers, Finishes,
       Loads, Sets, rows, storage, vars, TypeOK, RevokeMoves
  <2>18. CASE ListSessions(r)
    <3>1. Listed(r)
      BY <2>18, Listing
    <3> QED BY <3>1, AccountsAssumption DEF Listed, Others, Goes, Answers, Finishes,
       Loads, Sets, rows, storage, vars, TypeOK, RevokeMoves
  <2>19. CASE RevokeNext(r)
    <3>1. RevokedOne(r)
      BY <2>19, RevokingOne
    <3> QED BY <3>1, AccountsAssumption DEF RevokedOne, Others, Goes, Answers, Finishes,
       Loads, Sets, rows, storage, vars, TypeOK, RevokeMoves
  <2>20. CASE AllRevoked(r)
    BY <2>20, AccountsAssumption DEF AllRevoked, Goes, Answers, Finishes, Loads, Sets,
       rows, storage, vars, TypeOK, RevokeMoves
  <2>21. CASE StartPut(r)
    BY <2>21, AccountsAssumption DEF StartPut, CreateTemp, Goes, Answers, Finishes,
       Loads, Sets, rows, storage, vars, TypeOK, RevokeMoves
  <2>22. CASE CopyBody(r)
    BY <2>22, AccountsAssumption DEF CopyBody, Copy, Goes, Answers, Finishes, Loads,
       Sets, rows, storage, vars, TypeOK, RevokeMoves
  <2>23. CASE FinishPut(r)
    BY <2>23, AccountsAssumption DEF FinishPut, Rename, ReadyToRename, PutObject, KeyOf,
       Goes, Answers, Finishes, Loads, Sets, rows, storage, vars, TypeOK, RevokeMoves
  <2>24. CASE PutAnswerLost(r)
    BY <2>24, AccountsAssumption DEF PutAnswerLost, PutObject, KeyOf, Goes, Answers,
       Finishes, Loads, Sets, rows, storage, vars, TypeOK, RevokeMoves
  <2>25. CASE PutFails(r)
    BY <2>25, AccountsAssumption DEF PutFails, Abandon, Goes, Answers, Finishes, Loads,
       Sets, rows, storage, vars, TypeOK, RevokeMoves
  <2>26. CASE UpdateImage(r)
    BY <2>26, AccountsAssumption DEF UpdateImage, KeyOf, Goes, Answers, Finishes, Loads,
       Sets, rows, storage, vars, TypeOK, RevokeMoves
  <2>27. CASE UpdateImageFails(r)
    BY <2>27, AccountsAssumption DEF UpdateImageFails, KeyOf, Goes, Answers, Finishes,
       Loads, Sets, rows, storage, vars, TypeOK, RevokeMoves
  <2>28. CASE UndoPut(r)
    BY <2>28, AccountsAssumption DEF UndoPut, KeyOf, Remove, Goes, Answers, Finishes,
       Loads, Sets, rows, storage, vars, TypeOK, RevokeMoves
  <2>29. CASE ClearImage(r)
    BY <2>29, AccountsAssumption DEF ClearImage, Goes, Answers, Finishes, Loads, Sets,
       rows, storage, vars, TypeOK, RevokeMoves
  <2>30. CASE DeleteOld(r)
    BY <2>30, AccountsAssumption DEF DeleteOld, OldImage, Remove, Goes, Answers,
       Finishes, Loads, Sets, rows, storage, vars, TypeOK, RevokeMoves
  <2> QED BY <1>4, <2>1, <2>2, <2>3, <2>4, <2>5, <2>6, <2>7, <2>8, <2>9, <2>10, <2>11,
     <2>12, <2>13, <2>14, <2>15, <2>16, <2>17, <2>18, <2>19, <2>20, <2>21, <2>22, <2>23,
     <2>24, <2>25, <2>26, <2>27, <2>28, <2>29, <2>30 DEF Handle
<1> QED BY <1>1, <1>2, <1>3, <1>4 DEF Next

\* A revocation knows what it still has to do.
LEMMA RevokingStep ==
  ASSUME TypeOK, WholeObjects, \A q \in Request : Held(q), Opened,
         \A q \in Request : Revoking(q), [Next]_vars
  PROVE  \A q \in Request : Revoking(q)'
<1>1. SessionsOpen /\ \A q \in Request : RevokeMoves(q)
  BY SessionsStep, RevokeMovesStep
<1> SUFFICES ASSUME NEW q \in Request PROVE Revoking(q)'
  OBVIOUS
<1>2. \A s \in sessions' : s.token \in call[q].known => s \in sessions
  BY <1>1 DEF SessionsOpen, Opened
<1>3. CASE pc'[q] \notin {"get session", "revoke", "revoke others", "revoke all"}
  BY <1>3 DEF Revoking
<1>4. CASE pc'[q] = pc[q] /\ call'[q] = call[q]
  BY <1>2, <1>4 DEF Revoking
<1>5. CASE pc[q] = "get session" /\ pc'[q] = "revoke" /\ call'[q] = call[q]
  BY <1>5 DEF Revoking
<1>6. CASE /\ pc[q] = "revoke others" /\ pc'[q] = "revoke others"
           /\ call'[q].known = call[q].known
           /\ \E t \in Id : /\ sessions' = {s \in sessions : s.token # t}
                            /\ call'[q].todo = call[q].todo \ {t}
  BY <1>6 DEF Revoking
<1>7. CASE /\ sessions' = sessions
           /\ \/ pc'[q] = "get session" /\ call'[q].known = {call'[q].subject}
              \/ pc'[q] = "revoke others" /\ call'[q].known = call'[q].todo
              \/ pc'[q] = "revoke all" /\ call'[q].known = TokensOf(SessionsOf(call'[q].user))
  <2>1. \A u : \A s \in sessions : s.token \in TokensOf(SessionsOf(u)) => s.user = u
    BY DEF Opened, TokensOf, SessionsOf
  <2>2. CASE pc'[q] = "get session" /\ call'[q].known = {call'[q].subject}
    BY <2>2 DEF Revoking
  <2>3. CASE pc'[q] = "revoke others" /\ call'[q].known = call'[q].todo
    BY <2>3 DEF Revoking
  <2>4. CASE pc'[q] = "revoke all" /\ call'[q].known = TokensOf(SessionsOf(call'[q].user))
    <3>1. \A s \in sessions' : s.token \in call'[q].known => s.user = call'[q].user
      BY <1>7, <2>1, <2>4
    <3> QED BY <2>4, <3>1 DEF Revoking
  <2> QED BY <1>7, <2>2, <2>3, <2>4
<1> QED BY <1>1, <1>3, <1>4, <1>5, <1>6, <1>7 DEF RevokeMoves


\* A revocation that is answered has done it.
RevocationEnds(q) ==
  reply'[q] = "revoked" =>
    reply[q] = "revoked" \/ TokensOf(sessions') \cap call'[q].known = {}

\* Sign-out, reset, one by one: all have.
LEMMA RevocationStep ==
  ASSUME TypeOK, WholeObjects, \A q \in Request : Held(q), Opened, \A q \in Request : Revoking(q), [Next]_vars
  PROVE  \A q \in Request : RevocationEnds(q)
<1>1. CASE UNCHANGED vars
  BY <1>1 DEF Goes, Answers, Finishes, Loads, Sets, rows, storage, vars, TypeOK,
     RevocationEnds
<1>2. CASE Kill
  BY <1>2, AccountsAssumption DEF Kill, Goes, Answers, Finishes, Loads, Sets, rows,
     storage, vars, TypeOK, RevocationEnds
<1>3. ASSUME NEW x \in changes, Expire(x) PROVE \A q \in Request : RevocationEnds(q)
  BY <1>3, AccountsAssumption DEF Expire, Goes, Answers, Finishes, Loads, Sets, rows,
     storage, vars, TypeOK, RevocationEnds
<1>4. ASSUME NEW r \in Request,
             Arrive(r) \/ SignIn(r) \/ SignOut(r) \/ ResetPassword(r) \/ ServeImage(r)
               \/ Fail(r) \/ Handle(r)
      PROVE  \A q \in Request : RevocationEnds(q)
  <2>1. CASE Arrive(r)
    <3>1. Arrived(r)
      BY <2>1, Arriving
    <3>2. \A q \in Request : reply'[q] = "revoked" => reply[q] = "revoked"
      BY <3>1 DEF Arrived, Others, Finishes, Answers, TypeOK
    <3> QED BY <3>2 DEF RevocationEnds
  <2>2. CASE SignIn(r)
    BY <2>2, AccountsAssumption DEF SignIn, Goes, Answers, Finishes, Loads, Sets, rows,
       storage, vars, TypeOK, RevocationEnds
  <2>3. CASE SignOut(r)
    <3>1. SignedOut(r)
      BY <2>3, SigningOut
    <3>2. PICK s \in sessions : sessions' = sessions \ {s} /\ call'[r].known = {s.token}
      BY <3>1 DEF SignedOut
    <3>3. \A t \in sessions' : t.token # s.token
      BY <3>2 DEF Opened
    <3>4. TokensOf(sessions') \cap call'[r].known = {}
      BY <3>2, <3>3 DEF TokensOf
    <3>5. \A q \in Request \ {r} : reply'[q] = reply[q]
      BY <3>1 DEF SignedOut, Others
    <3> QED BY <3>4, <3>5 DEF RevocationEnds
  <2>4. CASE ResetPassword(r)
    <3>1. Reset(r)
      BY <2>4, Resetting
    <3>2. \A q \in Request : reply'[q] = "revoked" => reply[q] = "revoked"
      BY <3>1 DEF Reset, Others, Finishes, Answers, TypeOK
    <3> QED BY <3>2 DEF RevocationEnds
  <2>5. CASE ServeImage(r)
    <3>1. Served(r)
      BY <2>5, Serving
    <3>2. \A q \in Request : reply'[q] = "revoked" => reply[q] = "revoked"
      BY <3>1 DEF Served, Others, Finishes, Answers, TypeOK
    <3> QED BY <3>2 DEF RevocationEnds
  <2>6. CASE Fail(r)
    BY <2>6, AccountsAssumption DEF Fail, Goes, Answers, Finishes, Loads, Sets, rows,
       storage, vars, TypeOK, RevocationEnds
  <2>7. CASE UpdateName(r)
    BY <2>7, AccountsAssumption DEF UpdateName, Reports, Goes, Answers, Finishes, Loads,
       Sets, rows, storage, vars, TypeOK, RevocationEnds
  <2>8. CASE CountAddress(r)
    BY <2>8, AccountsAssumption DEF CountAddress, AddressTaken, Goes, Answers, Finishes,
       Loads, Sets, rows, storage, vars, TypeOK, RevocationEnds
  <2>9. CASE DeleteChanges(r)
    BY <2>9, AccountsAssumption DEF DeleteChanges, Superseded, ChangesOf, Goes, Answers,
       Finishes, Loads, Sets, rows, storage, vars, TypeOK, RevocationEnds
  <2>10. CASE CreateChange(r)
    BY <2>10, AccountsAssumption DEF CreateChange, Goes, Answers, Finishes, Loads, Sets,
       rows, storage, vars, TypeOK, RevocationEnds
  <2>11. CASE SendMail(r)
    BY <2>11, AccountsAssumption DEF SendMail, Goes, Answers, Finishes, Loads, Sets,
       rows, storage, vars, TypeOK, RevocationEnds
  <2>12. CASE FindToken(r)
    <3>1. Found(r)
      BY <2>12, Finding
    <3>2. \A q \in Request : reply'[q] = "revoked" => reply[q] = "revoked"
      BY <3>1 DEF Found, Others, Finishes, Answers, TypeOK
    <3> QED BY <3>2 DEF RevocationEnds
  <2>13. CASE UpdateAddress(r)
    BY <2>13, AccountsAssumption DEF UpdateAddress, Goes, Answers, Finishes, Loads,
       Sets, rows, storage, vars, TypeOK, RevocationEnds
  <2>14. CASE DropChanges(r)
    BY <2>14, AccountsAssumption DEF DropChanges, Reports, Superseded, ChangesOf, Goes,
       Answers, Finishes, Loads, Sets, rows, storage, vars, TypeOK, RevocationEnds
  <2>15. CASE RevokeAll(r)
    <3>1. \A q \in Request \ {r} : reply'[q] = reply[q]
      BY <2>15 DEF RevokeAll, Finishes, Answers, TypeOK
    <3>2. reply'[r] = "revoked" => TokensOf(sessions') \cap call'[r].known = {}
      <4>1. CASE sessions' = sessions \ SessionsOf(call[r].user)
        BY ZenonT(60), <2>15, <4>1 DEF RevokeAll, Goes, Revoking, TokensOf, SessionsOf
      <4>2. CASE Answers(r, "ok")
        BY <4>2 DEF Answers, TypeOK
      <4> QED BY <2>15, <4>1, <4>2 DEF RevokeAll
    <3> QED BY <3>1, <3>2 DEF RevocationEnds
  <2>16. CASE GetSession(r)
    BY <2>16, AccountsAssumption DEF GetSession, TokensOf, SessionsOf, Goes, Answers,
       Finishes, Loads, Sets, rows, storage, vars, TypeOK, RevocationEnds
  <2>17. CASE RevokeSession(r)
    <3>1. \A q \in Request \ {r} : reply'[q] = reply[q]
      BY <2>17 DEF RevokeSession, Finishes, Answers, TypeOK
    <3>2. reply'[r] = "revoked" => TokensOf(sessions') \cap call'[r].known = {}
      BY <2>17 DEF RevokeSession, Finishes, Goes, Revoking, TokensOf
    <3> QED BY <3>1, <3>2 DEF RevocationEnds
  <2>18. CASE ListSessions(r)
    <3>1. Listed(r)
      BY <2>18, Listing
    <3>2. \A q \in Request : reply'[q] = "revoked" => reply[q] = "revoked"
      BY <3>1 DEF Listed, Others, Finishes, Answers, TypeOK
    <3> QED BY <3>2 DEF RevocationEnds
  <2>19. CASE RevokeNext(r)
    <3>1. RevokedOne(r)
      BY <2>19, RevokingOne
    <3>2. \A q \in Request : reply'[q] = "revoked" => reply[q] = "revoked"
      BY <3>1 DEF RevokedOne, Others, Finishes, Answers, TypeOK
    <3> QED BY <3>2 DEF RevocationEnds
  <2>20. CASE AllRevoked(r)
    <3>1. \A q \in Request \ {r} : reply'[q] = reply[q]
      BY <2>20 DEF AllRevoked, Finishes, Answers, TypeOK
    <3>2. reply'[r] = "revoked" => TokensOf(sessions') \cap call'[r].known = {}
      <4>1. /\ pc[r] = "revoke others" /\ call[r].todo = {} /\ sessions' = sessions
            /\ call' = call
        BY <2>20 DEF AllRevoked, Finishes, Goes, rows
      <4>2. \A s \in sessions : s.token \notin call[r].known
        BY <4>1 DEF Revoking
      <4> QED BY <4>1, <4>2 DEF TokensOf
    <3> QED BY <3>1, <3>2 DEF RevocationEnds
  <2>21. CASE StartPut(r)
    BY <2>21, AccountsAssumption DEF StartPut, CreateTemp, Goes, Answers, Finishes,
       Loads, Sets, rows, storage, vars, TypeOK, RevocationEnds
  <2>22. CASE CopyBody(r)
    BY <2>22, AccountsAssumption DEF CopyBody, Copy, Goes, Answers, Finishes, Loads,
       Sets, rows, storage, vars, TypeOK, RevocationEnds
  <2>23. CASE FinishPut(r)
    BY <2>23, AccountsAssumption DEF FinishPut, Rename, ReadyToRename, PutObject, KeyOf,
       Goes, Answers, Finishes, Loads, Sets, rows, storage, vars, TypeOK, RevocationEnds
  <2>24. CASE PutAnswerLost(r)
    BY <2>24, AccountsAssumption DEF PutAnswerLost, PutObject, KeyOf, Goes, Answers,
       Finishes, Loads, Sets, rows, storage, vars, TypeOK, RevocationEnds
  <2>25. CASE PutFails(r)
    BY <2>25, AccountsAssumption DEF PutFails, Abandon, Goes, Answers, Finishes, Loads,
       Sets, rows, storage, vars, TypeOK, RevocationEnds
  <2>26. CASE UpdateImage(r)
    BY <2>26, AccountsAssumption DEF UpdateImage, KeyOf, Goes, Answers, Finishes, Loads,
       Sets, rows, storage, vars, TypeOK, RevocationEnds
  <2>27. CASE UpdateImageFails(r)
    BY <2>27, AccountsAssumption DEF UpdateImageFails, KeyOf, Goes, Answers, Finishes,
       Loads, Sets, rows, storage, vars, TypeOK, RevocationEnds
  <2>28. CASE UndoPut(r)
    BY <2>28, AccountsAssumption DEF UndoPut, KeyOf, Remove, Goes, Answers, Finishes,
       Loads, Sets, rows, storage, vars, TypeOK, RevocationEnds
  <2>29. CASE ClearImage(r)
    BY <2>29, AccountsAssumption DEF ClearImage, Goes, Answers, Finishes, Loads, Sets,
       rows, storage, vars, TypeOK, RevocationEnds
  <2>30. CASE DeleteOld(r)
    BY <2>30, AccountsAssumption DEF DeleteOld, OldImage, Remove, Goes, Answers,
       Finishes, Loads, Sets, rows, storage, vars, TypeOK, RevocationEnds
  <2> QED BY <1>4, <2>1, <2>2, <2>3, <2>4, <2>5, <2>6, <2>7, <2>8, <2>9, <2>10, <2>11,
     <2>12, <2>13, <2>14, <2>15, <2>16, <2>17, <2>18, <2>19, <2>20, <2>21, <2>22, <2>23,
     <2>24, <2>25, <2>26, <2>27, <2>28, <2>29, <2>30 DEF Handle
<1> QED BY <1>1, <1>2, <1>3, <1>4 DEF Next

\* What was revoked stays so: tokens are not created a second time.
LEMMA RevokedStep ==
  ASSUME TypeOK, WholeObjects, \A q \in Request : Held(q), Opened,
         \A q \in Request : Revoking(q), RevokedStayOut, [Next]_vars
  PROVE  RevokedStayOut'
<1>1. SessionsOpen /\ \A q \in Request : RevocationEnds(q) /\ Settled(q)
  BY SessionsStep, RevocationStep, SettledStep
<1> SUFFICES ASSUME NEW q \in Request, reply'[q] = "revoked"
             PROVE  TokensOf(sessions') \cap call'[q].known = {}
  BY DEF RevokedStayOut
<1>2. CASE reply[q] = "revoked"
  <2>1. call'[q] = call[q]
    BY <1>1, <1>2, AccountsAssumption DEF Held, Settled, Past
  <2>2. TokensOf(sessions) \cap call[q].known = {}
    BY <1>2 DEF RevokedStayOut
  <2>3. \A s \in sessions' : s.token \in call[q].known => s \in sessions
    BY <1>1 DEF SessionsOpen, Opened
  <2> QED BY <2>1, <2>2, <2>3 DEF TokensOf
<1> QED BY <1>1, <1>2 DEF RevocationEnds


\* The steps of a request with the links it found.
SupersedeMoves(q) ==
  \/ pc'[q] \notin {"count address", "delete changes", "create change", "send mail",
                    "find token", "update address", "drop changes"}
  \/ pc'[q] = pc[q] /\ call'[q] = call[q]
  \/ /\ changes' = changes /\ pc'[q] \in {"count address", "find token"}
     /\ call'[q].known = TokensOf(ChangesOf(call'[q].user))
  \/ /\ changes' = changes /\ pc[q] \in {"count address", "find token", "update address"}
     /\ pc'[q] \in {"delete changes", "update address", "drop changes"}
     /\ call'[q].known = call[q].known /\ call'[q].user = call[q].user
  \/ /\ pc[q] = "delete changes" /\ pc'[q] = "create change" /\ call'[q] = call[q]
     /\ changes' = changes \ ChangesOf(call[q].user)
  \/ pc[q] = "create change" /\ pc'[q] = "send mail" /\ call'[q] = call[q]

\* Every step is one of them, or none.
LEMMA SupersedeMovesStep ==
  ASSUME TypeOK, WholeObjects, \A q \in Request : Held(q), [Next]_vars
  PROVE  \A q \in Request : SupersedeMoves(q)
<1>1. CASE UNCHANGED vars
  BY <1>1 DEF Goes, Answers, Finishes, Loads, Sets, rows, storage, vars, TypeOK,
     SupersedeMoves
<1>2. CASE Kill
  BY <1>2, AccountsAssumption DEF Kill, Goes, Answers, Finishes, Loads, Sets, rows,
     storage, vars, TypeOK, SupersedeMoves
<1>3. ASSUME NEW x \in changes, Expire(x) PROVE \A q \in Request : SupersedeMoves(q)
  BY <1>3, AccountsAssumption DEF Expire, Goes, Answers, Finishes, Loads, Sets, rows,
     storage, vars, TypeOK, SupersedeMoves
<1>4. ASSUME NEW r \in Request,
             Arrive(r) \/ SignIn(r) \/ SignOut(r) \/ ResetPassword(r) \/ ServeImage(r)
               \/ Fail(r) \/ Handle(r)
      PROVE  \A q \in Request : SupersedeMoves(q)
  <2>1. CASE Arrive(r)
    <3>1. Arrived(r)
      BY <2>1, Arriving
    <3> QED BY <3>1, AccountsAssumption DEF Arrived, Others, Goes, Answers, Finishes,
       Loads, Sets, rows, storage, vars, TypeOK, SupersedeMoves
  <2>2. CASE SignIn(r)
    BY <2>2, AccountsAssumption DEF SignIn, Goes, Answers, Finishes, Loads, Sets, rows,
       storage, vars, TypeOK, SupersedeMoves
  <2>3. CASE SignOut(r)
    <3>1. SignedOut(r)
      BY <2>3, SigningOut
    <3> QED BY <3>1, AccountsAssumption DEF SignedOut, Others, Goes, Answers, Finishes,
       Loads, Sets, rows, storage, vars, TypeOK, SupersedeMoves
  <2>4. CASE ResetPassword(r)
    <3>1. Reset(r)
      BY <2>4, Resetting
    <3> QED BY <3>1, AccountsAssumption DEF Reset, Others, Goes, Answers, Finishes,
       Loads, Sets, rows, storage, vars, TypeOK, SupersedeMoves
  <2>5. CASE ServeImage(r)
    <3>1. Served(r)
      BY <2>5, Serving
    <3> QED BY ZenonT(60), <3>1, AccountsAssumption DEF Served, Others, Goes, Answers, Finishes,
       Loads, Sets, rows, storage, vars, TypeOK, SupersedeMoves
  <2>6. CASE Fail(r)
    BY <2>6, AccountsAssumption DEF Fail, Goes, Answers, Finishes, Loads, Sets, rows,
       storage, vars, TypeOK, SupersedeMoves
  <2>7. CASE UpdateName(r)
    BY <2>7, AccountsAssumption DEF UpdateName, Reports, Goes, Answers, Finishes, Loads,
       Sets, rows, storage, vars, TypeOK, SupersedeMoves
  <2>8. CASE CountAddress(r)
    BY <2>8, AccountsAssumption DEF CountAddress, AddressTaken, Goes, Answers, Finishes,
       Loads, Sets, rows, storage, vars, TypeOK, SupersedeMoves
  <2>9. CASE DeleteChanges(r)
    <3>1. /\ pc[r] = "delete changes" /\ pc'[r] = "create change" /\ call' = call
          /\ changes' = changes \ ChangesOf(call[r].user)
      BY <2>9 DEF DeleteChanges, Goes, Superseded, TypeOK
    <3>2. \A q \in Request \ {r} : pc'[q] = pc[q]
      BY <2>9 DEF DeleteChanges, Goes, TypeOK
    <3> QED BY <3>1, <3>2 DEF SupersedeMoves
  <2>10. CASE CreateChange(r)
    BY <2>10, AccountsAssumption DEF CreateChange, Goes, Answers, Finishes, Loads, Sets,
       rows, storage, vars, TypeOK, SupersedeMoves
  <2>11. CASE SendMail(r)
    BY <2>11, AccountsAssumption DEF SendMail, Goes, Answers, Finishes, Loads, Sets,
       rows, storage, vars, TypeOK, SupersedeMoves
  <2>12. CASE FindToken(r)
    <3>1. Found(r)
      BY <2>12, Finding
    <3> QED BY <3>1, AccountsAssumption DEF Found, Others, Goes, Answers, Finishes,
       Loads, Sets, rows, storage, vars, TypeOK, SupersedeMoves
  <2>13. CASE UpdateAddress(r)
    BY <2>13, AccountsAssumption DEF UpdateAddress, Goes, Answers, Finishes, Loads,
       Sets, rows, storage, vars, TypeOK, SupersedeMoves
  <2>14. CASE DropChanges(r)
    <3>1. call' = call /\ pc'[r] = "done" /\ \A q \in Request \ {r} : pc'[q] = pc[q]
      BY <2>14 DEF DropChanges, Reports, Finishes, Goes, TypeOK
    <3> QED BY <3>1 DEF SupersedeMoves
  <2>15. CASE RevokeAll(r)
    BY <2>15, AccountsAssumption DEF RevokeAll, SessionsOf, Goes, Answers, Finishes,
       Loads, Sets, rows, storage, vars, TypeOK, SupersedeMoves
  <2>16. CASE GetSession(r)
    BY <2>16, AccountsAssumption DEF GetSession, TokensOf, SessionsOf, Goes, Answers,
       Finishes, Loads, Sets, rows, storage, vars, TypeOK, SupersedeMoves
  <2>17. CASE RevokeSession(r)
    BY <2>17, AccountsAssumption DEF RevokeSession, TokensOf, Goes, Answers, Finishes,
       Loads, Sets, rows, storage, vars, TypeOK, SupersedeMoves
  <2>18. CASE ListSessions(r)
    <3>1. Listed(r)
      BY <2>18, Listing
    <3> QED BY <3>1, AccountsAssumption DEF Listed, Others, Goes, Answers, Finishes,
       Loads, Sets, rows, storage, vars, TypeOK, SupersedeMoves
  <2>19. CASE RevokeNext(r)
    <3>1. RevokedOne(r)
      BY <2>19, RevokingOne
    <3> QED BY <3>1, AccountsAssumption DEF RevokedOne, Others, Goes, Answers, Finishes,
       Loads, Sets, rows, storage, vars, TypeOK, SupersedeMoves
  <2>20. CASE AllRevoked(r)
    BY <2>20, AccountsAssumption DEF AllRevoked, Goes, Answers, Finishes, Loads, Sets,
       rows, storage, vars, TypeOK, SupersedeMoves
  <2>21. CASE StartPut(r)
    BY <2>21, AccountsAssumption DEF StartPut, CreateTemp, Goes, Answers, Finishes,
       Loads, Sets, rows, storage, vars, TypeOK, SupersedeMoves
  <2>22. CASE CopyBody(r)
    BY <2>22, AccountsAssumption DEF CopyBody, Copy, Goes, Answers, Finishes, Loads,
       Sets, rows, storage, vars, TypeOK, SupersedeMoves
  <2>23. CASE FinishPut(r)
    BY <2>23, AccountsAssumption DEF FinishPut, Rename, ReadyToRename, PutObject, KeyOf,
       Goes, Answers, Finishes, Loads, Sets, rows, storage, vars, TypeOK, SupersedeMoves
  <2>24. CASE PutAnswerLost(r)
    BY <2>24, AccountsAssumption DEF PutAnswerLost, PutObject, KeyOf, Goes, Answers,
       Finishes, Loads, Sets, rows, storage, vars, TypeOK, SupersedeMoves
  <2>25. CASE PutFails(r)
    BY <2>25, AccountsAssumption DEF PutFails, Abandon, Goes, Answers, Finishes, Loads,
       Sets, rows, storage, vars, TypeOK, SupersedeMoves
  <2>26. CASE UpdateImage(r)
    BY <2>26, AccountsAssumption DEF UpdateImage, KeyOf, Goes, Answers, Finishes, Loads,
       Sets, rows, storage, vars, TypeOK, SupersedeMoves
  <2>27. CASE UpdateImageFails(r)
    BY <2>27, AccountsAssumption DEF UpdateImageFails, KeyOf, Goes, Answers, Finishes,
       Loads, Sets, rows, storage, vars, TypeOK, SupersedeMoves
  <2>28. CASE UndoPut(r)
    BY <2>28, AccountsAssumption DEF UndoPut, KeyOf, Remove, Goes, Answers, Finishes,
       Loads, Sets, rows, storage, vars, TypeOK, SupersedeMoves
  <2>29. CASE ClearImage(r)
    BY <2>29, AccountsAssumption DEF ClearImage, Goes, Answers, Finishes, Loads, Sets,
       rows, storage, vars, TypeOK, SupersedeMoves
  <2>30. CASE DeleteOld(r)
    BY <2>30, AccountsAssumption DEF DeleteOld, OldImage, Remove, Goes, Answers,
       Finishes, Loads, Sets, rows, storage, vars, TypeOK, SupersedeMoves
  <2> QED BY <1>4, <2>1, <2>2, <2>3, <2>4, <2>5, <2>6, <2>7, <2>8, <2>9, <2>10, <2>11,
     <2>12, <2>13, <2>14, <2>15, <2>16, <2>17, <2>18, <2>19, <2>20, <2>21, <2>22, <2>23,
     <2>24, <2>25, <2>26, <2>27, <2>28, <2>29, <2>30 DEF Handle
<1> QED BY <1>1, <1>2, <1>3, <1>4 DEF Next

\* The links a request found are its user's, and gone once it deleted them.
LEMMA SupersedingStep ==
  ASSUME TypeOK, WholeObjects, \A q \in Request : Held(q), Opened, Asked,
         \A q \in Request : Superseding(q), [Next]_vars
  PROVE  \A q \in Request : Superseding(q)'
<1>1. ChangesCome /\ \A q \in Request : SupersedeMoves(q)
  BY ChangesStep, SupersedeMovesStep
<1> SUFFICES ASSUME NEW q \in Request PROVE Superseding(q)'
  OBVIOUS
<1>2. \A c \in changes' : c.token \in call[q].known =>
        \E d \in changes : d.token = c.token /\ d.user = c.user
  BY <1>1 DEF ChangesCome, Opened
<1>3. TokensOf(changes) \cap call[q].known = {} => TokensOf(changes') \cap call[q].known = {}
  BY <1>2 DEF TokensOf
<1>4. CASE pc'[q] \notin {"count address", "delete changes", "create change", "send mail",
                          "find token", "update address", "drop changes"}
  BY <1>4 DEF Superseding
<1>5. CASE pc'[q] = pc[q] /\ call'[q] = call[q]
  <2>1. CASE pc[q] \in {"create change", "send mail"}
    BY <1>3, <1>5, <2>1 DEF Superseding
  <2>2. CASE pc[q] \notin {"create change", "send mail"}
    <3>1. ASSUME pc[q] \in {"count address", "delete changes", "find token", "update address",
                            "drop changes"},
                 NEW c \in changes', c.token \in call[q].known
          PROVE  c.user = call[q].user
      <4>1. PICK d \in changes : d.token = c.token /\ d.user = c.user
        BY <1>2, <3>1
      <4> QED BY <3>1, <4>1 DEF Superseding
    <3> QED BY <1>5, <2>2, <3>1 DEF Superseding
  <2> QED BY <2>1, <2>2
<1>6. CASE /\ changes' = changes /\ pc'[q] \in {"count address", "find token"}
           /\ call'[q].known = TokensOf(ChangesOf(call'[q].user))
  <2>1. \A c \in changes : \A u : c.token \in TokensOf(ChangesOf(u)) => c.user = u
    BY DEF Asked, TokensOf, ChangesOf
  <2>2. \A c \in changes' : c.token \in call'[q].known => c.user = call'[q].user
    BY <1>6, <2>1
  <2> QED BY <1>6, <2>2 DEF Superseding
<1>7. CASE /\ changes' = changes
           /\ pc[q] \in {"count address", "find token", "update address"}
           /\ pc'[q] \in {"delete changes", "update address", "drop changes"}
           /\ call'[q].known = call[q].known /\ call'[q].user = call[q].user
  BY <1>7 DEF Superseding
<1>8. CASE /\ pc[q] = "delete changes" /\ pc'[q] = "create change" /\ call'[q] = call[q]
           /\ changes' = changes \ ChangesOf(call[q].user)
  <2>1. TokensOf(changes') \cap call[q].known = {}
    BY <1>8 DEF Superseding, TokensOf, ChangesOf
  <2> QED BY <1>8, <2>1 DEF Superseding
<1>9. CASE pc[q] = "create change" /\ pc'[q] = "send mail" /\ call'[q] = call[q]
  BY <1>3, <1>9 DEF Superseding
<1> QED BY <1>1, <1>4, <1>5, <1>6, <1>7, <1>8, <1>9 DEF SupersedeMoves


\* A request about an address that succeeds has just deleted its links.
LinksEnd(q) ==
  pc'[q] = "done" /\ reply'[q] = "ok" /\ call'[q].email # None =>
    \/ pc[q] = "done" /\ reply[q] = "ok"
    \/ pc[q] = "send mail" /\ changes' = changes
    \/ /\ pc[q] = "drop changes" /\ call'[q] = call[q]
       /\ changes' = changes \ ChangesOf(call[q].user)

\* The request and the confirmation do.
LEMMA LinksEndStep ==
  ASSUME TypeOK, WholeObjects, \A q \in Request : Held(q), Opened, [Next]_vars
  PROVE  \A q \in Request : LinksEnd(q)
<1>1. CASE UNCHANGED vars
  BY <1>1 DEF Goes, Answers, Finishes, Loads, Sets, rows, storage, vars, TypeOK, LinksEnd,
     Held, EmailSteps
<1>2. CASE Kill
  BY <1>2, AccountsAssumption DEF Kill, Goes, Answers, Finishes, Loads, Sets, rows,
     storage, vars, TypeOK, LinksEnd, Held, EmailSteps
<1>3. ASSUME NEW x \in changes, Expire(x) PROVE \A q \in Request : LinksEnd(q)
  BY <1>3, AccountsAssumption DEF Expire, Goes, Answers, Finishes, Loads, Sets, rows,
     storage, vars, TypeOK, LinksEnd, Held, EmailSteps
<1>4. ASSUME NEW r \in Request,
             Arrive(r) \/ SignIn(r) \/ SignOut(r) \/ ResetPassword(r) \/ ServeImage(r)
               \/ Fail(r) \/ Handle(r)
      PROVE  \A q \in Request : LinksEnd(q)
  <2>1. CASE Arrive(r)
    <3>1. Arrived(r)
      BY <2>1, Arriving
    <3> QED BY <3>1, AccountsAssumption DEF Arrived, Others, Goes, Answers, Finishes,
       Loads, Sets, rows, storage, vars, TypeOK, LinksEnd, Held, EmailSteps
  <2>2. CASE SignIn(r)
    BY <2>2, AccountsAssumption DEF SignIn, Goes, Answers, Finishes, Loads, Sets, rows,
       storage, vars, TypeOK, LinksEnd, Held, EmailSteps
  <2>3. CASE SignOut(r)
    <3>1. SignedOut(r)
      BY <2>3, SigningOut
    <3> QED BY <3>1, AccountsAssumption DEF SignedOut, Others, Goes, Answers, Finishes,
       Loads, Sets, rows, storage, vars, TypeOK, LinksEnd, Held, EmailSteps
  <2>4. CASE ResetPassword(r)
    <3>1. Reset(r)
      BY <2>4, Resetting
    <3> QED BY <3>1, AccountsAssumption DEF Reset, Others, Goes, Answers, Finishes,
       Loads, Sets, rows, storage, vars, TypeOK, LinksEnd, Held, EmailSteps
  <2>5. CASE ServeImage(r)
    <3>1. Served(r)
      BY <2>5, Serving
    <3> QED BY <3>1, AccountsAssumption DEF Served, Others, Goes, Answers, Finishes,
       Loads, Sets, rows, storage, vars, TypeOK, LinksEnd, Held, EmailSteps
  <2>6. CASE Fail(r)
    BY <2>6, AccountsAssumption DEF Fail, Goes, Answers, Finishes, Loads, Sets, rows,
       storage, vars, TypeOK, LinksEnd, Held, EmailSteps
  <2>7. CASE UpdateName(r)
    BY <2>7, AccountsAssumption DEF UpdateName, Reports, Goes, Answers, Finishes, Loads,
       Sets, rows, storage, vars, TypeOK, LinksEnd, Held, EmailSteps
  <2>8. CASE CountAddress(r)
    BY <2>8, AccountsAssumption DEF CountAddress, AddressTaken, Goes, Answers, Finishes,
       Loads, Sets, rows, storage, vars, TypeOK, LinksEnd, Held, EmailSteps
  <2>9. CASE DeleteChanges(r)
    BY <2>9, AccountsAssumption DEF DeleteChanges, Superseded, ChangesOf, Goes, Answers,
       Finishes, Loads, Sets, rows, storage, vars, TypeOK, LinksEnd, Held, EmailSteps
  <2>10. CASE CreateChange(r)
    BY <2>10, AccountsAssumption DEF CreateChange, Goes, Answers, Finishes, Loads, Sets,
       rows, storage, vars, TypeOK, LinksEnd, Held, EmailSteps
  <2>11. CASE SendMail(r)
    BY <2>11, AccountsAssumption DEF SendMail, Goes, Answers, Finishes, Loads, Sets,
       rows, storage, vars, TypeOK, LinksEnd, Held, EmailSteps
  <2>12. CASE FindToken(r)
    <3>1. Found(r)
      BY <2>12, Finding
    <3> QED BY <3>1, AccountsAssumption DEF Found, Others, Goes, Answers, Finishes,
       Loads, Sets, rows, storage, vars, TypeOK, LinksEnd, Held, EmailSteps
  <2>13. CASE UpdateAddress(r)
    BY <2>13, AccountsAssumption DEF UpdateAddress, Goes, Answers, Finishes, Loads,
       Sets, rows, storage, vars, TypeOK, LinksEnd, Held, EmailSteps
  <2>14. CASE DropChanges(r)
    <3>1. /\ pc[r] = "drop changes" /\ call' = call
          /\ changes' = changes \ ChangesOf(call[r].user)
      BY <2>14 DEF DropChanges, Reports, Finishes, Goes, Superseded
    <3>2. \A q \in Request \ {r} : pc'[q] = pc[q] /\ reply'[q] = reply[q]
      BY <2>14 DEF DropChanges, Reports, Finishes, Goes, Answers, TypeOK
    <3> QED BY <3>1, <3>2 DEF LinksEnd
  <2>15. CASE RevokeAll(r)
    BY <2>15, AccountsAssumption DEF RevokeAll, SessionsOf, Goes, Answers, Finishes,
       Loads, Sets, rows, storage, vars, TypeOK, LinksEnd, Held, EmailSteps
  <2>16. CASE GetSession(r)
    BY <2>16, AccountsAssumption DEF GetSession, TokensOf, SessionsOf, Goes, Answers,
       Finishes, Loads, Sets, rows, storage, vars, TypeOK, LinksEnd, Held, EmailSteps
  <2>17. CASE RevokeSession(r)
    BY <2>17, AccountsAssumption DEF RevokeSession, TokensOf, Goes, Answers, Finishes,
       Loads, Sets, rows, storage, vars, TypeOK, LinksEnd, Held, EmailSteps
  <2>18. CASE ListSessions(r)
    <3>1. Listed(r)
      BY <2>18, Listing
    <3> QED BY <3>1, AccountsAssumption DEF Listed, Others, Goes, Answers, Finishes,
       Loads, Sets, rows, storage, vars, TypeOK, LinksEnd, Held, EmailSteps
  <2>19. CASE RevokeNext(r)
    <3>1. RevokedOne(r)
      BY <2>19, RevokingOne
    <3> QED BY <3>1, AccountsAssumption DEF RevokedOne, Others, Goes, Answers, Finishes,
       Loads, Sets, rows, storage, vars, TypeOK, LinksEnd, Held, EmailSteps
  <2>20. CASE AllRevoked(r)
    BY <2>20, AccountsAssumption DEF AllRevoked, Goes, Answers, Finishes, Loads, Sets,
       rows, storage, vars, TypeOK, LinksEnd, Held, EmailSteps
  <2>21. CASE StartPut(r)
    BY <2>21, AccountsAssumption DEF StartPut, CreateTemp, Goes, Answers, Finishes,
       Loads, Sets, rows, storage, vars, TypeOK, LinksEnd, Held, EmailSteps
  <2>22. CASE CopyBody(r)
    BY <2>22, AccountsAssumption DEF CopyBody, Copy, Goes, Answers, Finishes, Loads,
       Sets, rows, storage, vars, TypeOK, LinksEnd, Held, EmailSteps
  <2>23. CASE FinishPut(r)
    BY <2>23, AccountsAssumption DEF FinishPut, Rename, ReadyToRename, PutObject, KeyOf,
       Goes, Answers, Finishes, Loads, Sets, rows, storage, vars, TypeOK, LinksEnd,
       Held, EmailSteps
  <2>24. CASE PutAnswerLost(r)
    BY <2>24, AccountsAssumption DEF PutAnswerLost, PutObject, KeyOf, Goes, Answers,
       Finishes, Loads, Sets, rows, storage, vars, TypeOK, LinksEnd, Held, EmailSteps
  <2>25. CASE PutFails(r)
    BY <2>25, AccountsAssumption DEF PutFails, Abandon, Goes, Answers, Finishes, Loads,
       Sets, rows, storage, vars, TypeOK, LinksEnd, Held, EmailSteps
  <2>26. CASE UpdateImage(r)
    BY <2>26, AccountsAssumption DEF UpdateImage, KeyOf, Goes, Answers, Finishes, Loads,
       Sets, rows, storage, vars, TypeOK, LinksEnd, Held, EmailSteps
  <2>27. CASE UpdateImageFails(r)
    BY <2>27, AccountsAssumption DEF UpdateImageFails, KeyOf, Goes, Answers, Finishes,
       Loads, Sets, rows, storage, vars, TypeOK, LinksEnd, Held, EmailSteps
  <2>28. CASE UndoPut(r)
    BY <2>28, AccountsAssumption DEF UndoPut, KeyOf, Remove, Goes, Answers, Finishes,
       Loads, Sets, rows, storage, vars, TypeOK, LinksEnd, Held, EmailSteps
  <2>29. CASE ClearImage(r)
    BY <2>29, AccountsAssumption DEF ClearImage, Goes, Answers, Finishes, Loads, Sets,
       rows, storage, vars, TypeOK, LinksEnd, Held, EmailSteps
  <2>30. CASE DeleteOld(r)
    BY <2>30, AccountsAssumption DEF DeleteOld, OldImage, Remove, Goes, Answers,
       Finishes, Loads, Sets, rows, storage, vars, TypeOK, LinksEnd, Held, EmailSteps
  <2> QED BY <1>4, <2>1, <2>2, <2>3, <2>4, <2>5, <2>6, <2>7, <2>8, <2>9, <2>10, <2>11,
     <2>12, <2>13, <2>14, <2>15, <2>16, <2>17, <2>18, <2>19, <2>20, <2>21, <2>22, <2>23,
     <2>24, <2>25, <2>26, <2>27, <2>28, <2>29, <2>30 DEF Handle
<1> QED BY <1>1, <1>2, <1>3, <1>4 DEF Next

\* The links a request found stay deleted.
LEMMA OldLinksStep ==
  ASSUME TypeOK, WholeObjects, \A q \in Request : Held(q), Opened,
         \A q \in Request : Superseding(q), OldLinksDie, [Next]_vars
  PROVE  OldLinksDie'
<1>1. ChangesCome /\ \A q \in Request : LinksEnd(q) /\ Settled(q)
  BY ChangesStep, LinksEndStep, SettledStep
<1> SUFFICES ASSUME NEW q \in Request, pc'[q] = "done", reply'[q] = "ok", call'[q].email # None
             PROVE  TokensOf(changes') \cap call'[q].known = {}
  BY DEF OldLinksDie
<1>2. TokensOf(changes) \cap call[q].known = {} => TokensOf(changes') \cap call[q].known = {}
  <2>1. \A c \in changes' : c.token \in call[q].known => \E d \in changes : d.token = c.token
    BY <1>1 DEF ChangesCome, Opened
  <2> QED BY <2>1 DEF TokensOf
<1>3. CASE pc[q] = "done" /\ reply[q] = "ok"
  <2>1. call'[q] = call[q]
    BY <1>1, <1>3 DEF Settled, Past
  <2> QED BY <1>2, <1>3, <2>1 DEF OldLinksDie
<1>4. CASE pc[q] = "send mail" /\ changes' = changes
  <2>1. call'[q] = call[q]
    BY <1>1, <1>4 DEF Settled
  <2> QED BY <1>4, <2>1 DEF Superseding
<1>5. CASE /\ pc[q] = "drop changes" /\ call'[q] = call[q]
           /\ changes' = changes \ ChangesOf(call[q].user)
  BY <1>5 DEF Superseding, TokensOf, ChangesOf
<1> QED BY <1>1, <1>3, <1>4, <1>5 DEF LinksEnd


-----------------------------------------------------------------------------
(***************************************************************************)
(* Addresses and objects, step by step.                                    *)
(***************************************************************************)
\* Only a write to the address changes it, that of one user.
LEMMA SetsEmail ==
  ASSUME TypeOK, NEW u \in User, NEW column \in {"email", "image", "name"}, NEW value,
         Sets(u, column, value)
  PROVE  /\ \A v \in User \ {u} : users'[v] = users[v]
         /\ users'[u].email = IF column = "email" THEN value ELSE users[u].email
BY DEF TypeOK, Sets, Profile

\* An address changes to one that was mailed.
EmailsMove ==
  \A u \in User : users'[u].email # users[u].email =>
    \E m \in mailed : m.user = u /\ m.email = users'[u].email

\* UpdateAddress writes the address of the link that was opened.
LEMMA EmailsStep ==
  ASSUME TypeOK, WholeObjects, \A q \in Request : Held(q), \A q \in Request : Proven(q), [Next]_vars
  PROVE  EmailsMove
<1>1. CASE UNCHANGED vars
  BY <1>1 DEF Goes, Answers, Finishes, Loads, Sets, rows, storage, vars, TypeOK, EmailsMove
<1>2. CASE Kill
  BY <1>2, AccountsAssumption DEF Kill, Goes, Answers, Finishes, Loads, Sets, rows,
     storage, vars, TypeOK, EmailsMove
<1>3. ASSUME NEW x \in changes, Expire(x) PROVE EmailsMove
  BY <1>3, AccountsAssumption DEF Expire, Goes, Answers, Finishes, Loads, Sets, rows,
     storage, vars, TypeOK, EmailsMove
<1>4. ASSUME NEW r \in Request,
             Arrive(r) \/ SignIn(r) \/ SignOut(r) \/ ResetPassword(r) \/ ServeImage(r)
               \/ Fail(r) \/ Handle(r)
      PROVE  EmailsMove
  <2>1. CASE Arrive(r)
    <3>1. Arrived(r)
      BY <2>1, Arriving
    <3> QED BY <3>1, AccountsAssumption DEF Arrived, Others, Goes, Answers, Finishes,
       Loads, Sets, rows, storage, vars, TypeOK, EmailsMove
  <2>2. CASE SignIn(r)
    BY <2>2, AccountsAssumption DEF SignIn, Goes, Answers, Finishes, Loads, Sets, rows,
       storage, vars, TypeOK, EmailsMove
  <2>3. CASE SignOut(r)
    <3>1. SignedOut(r)
      BY <2>3, SigningOut
    <3> QED BY <3>1, AccountsAssumption DEF SignedOut, Others, Goes, Answers, Finishes,
       Loads, Sets, rows, storage, vars, TypeOK, EmailsMove
  <2>4. CASE ResetPassword(r)
    <3>1. Reset(r)
      BY <2>4, Resetting
    <3> QED BY <3>1, AccountsAssumption DEF Reset, Others, Goes, Answers, Finishes,
       Loads, Sets, rows, storage, vars, TypeOK, EmailsMove
  <2>5. CASE ServeImage(r)
    <3>1. Served(r)
      BY <2>5, Serving
    <3> QED BY <3>1, AccountsAssumption DEF Served, Others, Goes, Answers, Finishes,
       Loads, Sets, rows, storage, vars, TypeOK, EmailsMove
  <2>6. CASE Fail(r)
    BY <2>6, AccountsAssumption DEF Fail, Goes, Answers, Finishes, Loads, Sets, rows,
       storage, vars, TypeOK, EmailsMove
  <2>7. CASE UpdateName(r)
    <3>1. call[r].user \in User
      BY <2>7 DEF UpdateName, Reports, Goes, Finishes, Held
    <3>2. Sets(call[r].user, "name", r) \/ UNCHANGED users
      BY <2>7 DEF UpdateName, Reports, rows
    <3>3. \A u \in User : users'[u].email = users[u].email
      BY <3>1, <3>2, SetsEmail
    <3> QED BY <3>3 DEF EmailsMove
  <2>8. CASE CountAddress(r)
    BY <2>8, AccountsAssumption DEF CountAddress, AddressTaken, Goes, Answers, Finishes,
       Loads, Sets, rows, storage, vars, TypeOK, EmailsMove
  <2>9. CASE DeleteChanges(r)
    BY <2>9, AccountsAssumption DEF DeleteChanges, Superseded, ChangesOf, Goes, Answers,
       Finishes, Loads, Sets, rows, storage, vars, TypeOK, EmailsMove
  <2>10. CASE CreateChange(r)
    BY <2>10, AccountsAssumption DEF CreateChange, Goes, Answers, Finishes, Loads, Sets,
       rows, storage, vars, TypeOK, EmailsMove
  <2>11. CASE SendMail(r)
    BY <2>11, AccountsAssumption DEF SendMail, Goes, Answers, Finishes, Loads, Sets,
       rows, storage, vars, TypeOK, EmailsMove
  <2>12. CASE FindToken(r)
    <3>1. Found(r)
      BY <2>12, Finding
    <3> QED BY <3>1, AccountsAssumption DEF Found, Others, Goes, Answers, Finishes,
       Loads, Sets, rows, storage, vars, TypeOK, EmailsMove
  <2>13. CASE UpdateAddress(r)
    <3>1. /\ pc[r] = "update address" /\ call[r].user \in User
          /\ Sets(call[r].user, "email", call[r].email) \/ UNCHANGED users
      BY <2>13 DEF UpdateAddress, Goes, Finishes, Held
    <3>2. \E m \in mailed : m.user = call[r].user /\ m.email = call[r].email
      BY <3>1 DEF Proven
    <3>3. CASE Sets(call[r].user, "email", call[r].email)
      <4>1. /\ \A v \in User \ {call[r].user} : users'[v] = users[v]
            /\ users'[call[r].user].email = call[r].email
        BY <3>1, <3>3, SetsEmail
      <4> QED BY <3>2, <4>1 DEF EmailsMove
    <3> QED BY <3>1, <3>3 DEF EmailsMove
  <2>14. CASE DropChanges(r)
    BY <2>14, AccountsAssumption DEF DropChanges, Reports, Superseded, ChangesOf, Goes,
       Answers, Finishes, Loads, Sets, rows, storage, vars, TypeOK, EmailsMove
  <2>15. CASE RevokeAll(r)
    BY <2>15, AccountsAssumption DEF RevokeAll, SessionsOf, Goes, Answers, Finishes,
       Loads, Sets, rows, storage, vars, TypeOK, EmailsMove
  <2>16. CASE GetSession(r)
    BY <2>16, AccountsAssumption DEF GetSession, TokensOf, SessionsOf, Goes, Answers,
       Finishes, Loads, Sets, rows, storage, vars, TypeOK, EmailsMove
  <2>17. CASE RevokeSession(r)
    BY <2>17, AccountsAssumption DEF RevokeSession, TokensOf, Goes, Answers, Finishes,
       Loads, Sets, rows, storage, vars, TypeOK, EmailsMove
  <2>18. CASE ListSessions(r)
    <3>1. Listed(r)
      BY <2>18, Listing
    <3> QED BY <3>1, AccountsAssumption DEF Listed, Others, Goes, Answers, Finishes,
       Loads, Sets, rows, storage, vars, TypeOK, EmailsMove
  <2>19. CASE RevokeNext(r)
    <3>1. RevokedOne(r)
      BY <2>19, RevokingOne
    <3> QED BY <3>1, AccountsAssumption DEF RevokedOne, Others, Goes, Answers, Finishes,
       Loads, Sets, rows, storage, vars, TypeOK, EmailsMove
  <2>20. CASE AllRevoked(r)
    BY <2>20, AccountsAssumption DEF AllRevoked, Goes, Answers, Finishes, Loads, Sets,
       rows, storage, vars, TypeOK, EmailsMove
  <2>21. CASE StartPut(r)
    BY <2>21, AccountsAssumption DEF StartPut, CreateTemp, Goes, Answers, Finishes,
       Loads, Sets, rows, storage, vars, TypeOK, EmailsMove
  <2>22. CASE CopyBody(r)
    BY <2>22, AccountsAssumption DEF CopyBody, Copy, Goes, Answers, Finishes, Loads,
       Sets, rows, storage, vars, TypeOK, EmailsMove
  <2>23. CASE FinishPut(r)
    BY <2>23, AccountsAssumption DEF FinishPut, Rename, ReadyToRename, PutObject, KeyOf,
       Goes, Answers, Finishes, Loads, Sets, rows, storage, vars, TypeOK, EmailsMove
  <2>24. CASE PutAnswerLost(r)
    BY <2>24, AccountsAssumption DEF PutAnswerLost, PutObject, KeyOf, Goes, Answers,
       Finishes, Loads, Sets, rows, storage, vars, TypeOK, EmailsMove
  <2>25. CASE PutFails(r)
    BY <2>25, AccountsAssumption DEF PutFails, Abandon, Goes, Answers, Finishes, Loads,
       Sets, rows, storage, vars, TypeOK, EmailsMove
  <2>26. CASE UpdateImage(r)
    <3>1. call[r].user \in User
      BY <2>26 DEF UpdateImage, Goes, Finishes, Held
    <3>2. Sets(call[r].user, "image", KeyOf(r)) \/ UNCHANGED users
      BY <2>26 DEF UpdateImage, rows
    <3>3. \A u \in User : users'[u].email = users[u].email
      BY <3>1, <3>2, SetsEmail
    <3> QED BY <3>3 DEF EmailsMove
  <2>27. CASE UpdateImageFails(r)
    <3>1. call[r].user \in User
      BY <2>27 DEF UpdateImageFails, Goes, Finishes, Held
    <3>2. Sets(call[r].user, "image", KeyOf(r)) \/ UNCHANGED users
      BY <2>27 DEF UpdateImageFails, rows
    <3>3. \A u \in User : users'[u].email = users[u].email
      BY <3>1, <3>2, SetsEmail
    <3> QED BY <3>3 DEF EmailsMove
  <2>28. CASE UndoPut(r)
    BY <2>28, AccountsAssumption DEF UndoPut, KeyOf, Remove, Goes, Answers, Finishes,
       Loads, Sets, rows, storage, vars, TypeOK, EmailsMove
  <2>29. CASE ClearImage(r)
    <3>1. call[r].user \in User
      BY <2>29 DEF ClearImage, Goes, Finishes, Held
    <3>2. Sets(call[r].user, "image", None) \/ UNCHANGED users
      BY <2>29 DEF ClearImage, rows
    <3>3. \A u \in User : users'[u].email = users[u].email
      BY <3>1, <3>2, SetsEmail
    <3> QED BY <3>3 DEF EmailsMove
  <2>30. CASE DeleteOld(r)
    BY <2>30, AccountsAssumption DEF DeleteOld, OldImage, Remove, Goes, Answers,
       Finishes, Loads, Sets, rows, storage, vars, TypeOK, EmailsMove
  <2> QED BY <1>4, <2>1, <2>2, <2>3, <2>4, <2>5, <2>6, <2>7, <2>8, <2>9, <2>10, <2>11,
     <2>12, <2>13, <2>14, <2>15, <2>16, <2>17, <2>18, <2>19, <2>20, <2>21, <2>22, <2>23,
     <2>24, <2>25, <2>26, <2>27, <2>28, <2>29, <2>30 DEF Handle
<1> QED BY <1>1, <1>2, <1>3, <1>4 DEF Next

\* What a step does to the objects, an ObjectStore may do.
StoreMoves == Port!ObjectStoreNext \/ UNCHANGED files

\* Rename and PutObject are a Put of the same content, Remove is a Delete.
LEMMA StoreStep ==
  ASSUME TypeOK, WholeObjects, \A q \in Request : Held(q), [Next]_vars
  PROVE  StoreMoves
<1>1. CASE UNCHANGED vars
  BY <1>1 DEF Goes, Answers, Finishes, Loads, Sets, rows, storage, vars, StoreMoves
<1>2. CASE Kill
  BY <1>2, AccountsAssumption DEF Kill, Goes, Answers, Finishes, Loads, Sets, rows,
     storage, vars, StoreMoves
<1>3. ASSUME NEW x \in changes, Expire(x) PROVE StoreMoves
  BY <1>3, AccountsAssumption DEF Expire, Goes, Answers, Finishes, Loads, Sets, rows,
     storage, vars, StoreMoves
<1>4. ASSUME NEW r \in Request,
             Arrive(r) \/ SignIn(r) \/ SignOut(r) \/ ResetPassword(r) \/ ServeImage(r)
               \/ Fail(r) \/ Handle(r)
      PROVE  StoreMoves
  <2>1. CASE Arrive(r)
    <3>1. Arrived(r)
      BY <2>1, Arriving
    <3> QED BY <3>1, AccountsAssumption DEF Arrived, Others, Goes, Answers, Finishes,
       Loads, Sets, rows, storage, vars, StoreMoves
  <2>2. CASE SignIn(r)
    BY <2>2, AccountsAssumption DEF SignIn, Goes, Answers, Finishes, Loads, Sets, rows,
       storage, vars, StoreMoves
  <2>3. CASE SignOut(r)
    <3>1. SignedOut(r)
      BY <2>3, SigningOut
    <3> QED BY <3>1, AccountsAssumption DEF SignedOut, Others, Goes, Answers, Finishes,
       Loads, Sets, rows, storage, vars, StoreMoves
  <2>4. CASE ResetPassword(r)
    <3>1. Reset(r)
      BY <2>4, Resetting
    <3> QED BY <3>1, AccountsAssumption DEF Reset, Others, Goes, Answers, Finishes,
       Loads, Sets, rows, storage, vars, StoreMoves
  <2>5. CASE ServeImage(r)
    <3>1. Served(r)
      BY <2>5, Serving
    <3> QED BY <3>1, AccountsAssumption DEF Served, Others, Goes, Answers, Finishes,
       Loads, Sets, rows, storage, vars, StoreMoves
  <2>6. CASE Fail(r)
    BY <2>6, AccountsAssumption DEF Fail, Goes, Answers, Finishes, Loads, Sets, rows,
       storage, vars, StoreMoves
  <2>7. CASE UpdateName(r)
    BY <2>7, AccountsAssumption DEF UpdateName, Reports, Goes, Answers, Finishes, Loads,
       Sets, rows, storage, vars, StoreMoves
  <2>8. CASE CountAddress(r)
    BY <2>8, AccountsAssumption DEF CountAddress, AddressTaken, Goes, Answers, Finishes,
       Loads, Sets, rows, storage, vars, StoreMoves
  <2>9. CASE DeleteChanges(r)
    BY <2>9, AccountsAssumption DEF DeleteChanges, Superseded, ChangesOf, Goes, Answers,
       Finishes, Loads, Sets, rows, storage, vars, StoreMoves
  <2>10. CASE CreateChange(r)
    BY <2>10, AccountsAssumption DEF CreateChange, Goes, Answers, Finishes, Loads, Sets,
       rows, storage, vars, StoreMoves
  <2>11. CASE SendMail(r)
    BY <2>11, AccountsAssumption DEF SendMail, Goes, Answers, Finishes, Loads, Sets,
       rows, storage, vars, StoreMoves
  <2>12. CASE FindToken(r)
    <3>1. Found(r)
      BY <2>12, Finding
    <3> QED BY <3>1, AccountsAssumption DEF Found, Others, Goes, Answers, Finishes,
       Loads, Sets, rows, storage, vars, StoreMoves
  <2>13. CASE UpdateAddress(r)
    BY <2>13, AccountsAssumption DEF UpdateAddress, Goes, Answers, Finishes, Loads,
       Sets, rows, storage, vars, StoreMoves
  <2>14. CASE DropChanges(r)
    BY <2>14, AccountsAssumption DEF DropChanges, Reports, Superseded, ChangesOf, Goes,
       Answers, Finishes, Loads, Sets, rows, storage, vars, StoreMoves
  <2>15. CASE RevokeAll(r)
    BY <2>15, AccountsAssumption DEF RevokeAll, SessionsOf, Goes, Answers, Finishes,
       Loads, Sets, rows, storage, vars, StoreMoves
  <2>16. CASE GetSession(r)
    BY <2>16, AccountsAssumption DEF GetSession, TokensOf, SessionsOf, Goes, Answers,
       Finishes, Loads, Sets, rows, storage, vars, StoreMoves
  <2>17. CASE RevokeSession(r)
    BY <2>17, AccountsAssumption DEF RevokeSession, TokensOf, Goes, Answers, Finishes,
       Loads, Sets, rows, storage, vars, StoreMoves
  <2>18. CASE ListSessions(r)
    <3>1. Listed(r)
      BY <2>18, Listing
    <3> QED BY <3>1, AccountsAssumption DEF Listed, Others, Goes, Answers, Finishes,
       Loads, Sets, rows, storage, vars, StoreMoves
  <2>19. CASE RevokeNext(r)
    <3>1. RevokedOne(r)
      BY <2>19, RevokingOne
    <3> QED BY <3>1, AccountsAssumption DEF RevokedOne, Others, Goes, Answers, Finishes,
       Loads, Sets, rows, storage, vars, StoreMoves
  <2>20. CASE AllRevoked(r)
    BY <2>20, AccountsAssumption DEF AllRevoked, Goes, Answers, Finishes, Loads, Sets,
       rows, storage, vars, StoreMoves
  <2>21. CASE StartPut(r)
    BY <2>21, AccountsAssumption DEF StartPut, CreateTemp, Goes, Answers, Finishes,
       Loads, Sets, rows, storage, vars, StoreMoves
  <2>22. CASE CopyBody(r)
    BY <2>22, AccountsAssumption DEF CopyBody, Copy, Goes, Answers, Finishes, Loads,
       Sets, rows, storage, vars, StoreMoves
  <2>23. CASE FinishPut(r)
    <3>1. files' = [files EXCEPT ![r] = r]
      BY <2>23 DEF FinishPut, Rename, ReadyToRename, PutObject, KeyOf
    <3>2. r \in Key /\ r \in Object /\ files[r] \in {None, r}
      BY AccountsAssumption DEF Id, WholeObjects
    <3>3. Port!Put(r, r)
      BY <3>1, <3>2 DEF Port!Put
    <3> QED BY <3>2, <3>3 DEF StoreMoves, Port!ObjectStoreNext
  <2>24. CASE PutAnswerLost(r)
    <3>1. files' = [files EXCEPT ![r] = r]
      BY <2>24 DEF PutAnswerLost, PutObject, KeyOf
    <3>2. r \in Key /\ r \in Object /\ files[r] \in {None, r}
      BY AccountsAssumption DEF Id, WholeObjects
    <3>3. Port!Put(r, r)
      BY <3>1, <3>2 DEF Port!Put
    <3> QED BY <3>2, <3>3 DEF StoreMoves, Port!ObjectStoreNext
  <2>25. CASE PutFails(r)
    BY <2>25, AccountsAssumption DEF PutFails, Abandon, Goes, Answers, Finishes, Loads,
       Sets, rows, storage, vars, StoreMoves
  <2>26. CASE UpdateImage(r)
    BY <2>26, AccountsAssumption DEF UpdateImage, KeyOf, Goes, Answers, Finishes, Loads,
       Sets, rows, storage, vars, StoreMoves
  <2>27. CASE UpdateImageFails(r)
    BY <2>27, AccountsAssumption DEF UpdateImageFails, KeyOf, Goes, Answers, Finishes,
       Loads, Sets, rows, storage, vars, StoreMoves
  <2>28. CASE UndoPut(r)
    <3>1. r \in Key
      BY AccountsAssumption DEF Id
    <3>2. files' = [files EXCEPT ![r] = None] \/ UNCHANGED files
      BY <2>28 DEF UndoPut, Remove, KeyOf, storage
    <3> QED BY <3>1, <3>2 DEF StoreMoves, Port!ObjectStoreNext, Port!Delete
  <2>29. CASE ClearImage(r)
    BY <2>29, AccountsAssumption DEF ClearImage, Goes, Answers, Finishes, Loads, Sets,
       rows, storage, vars, StoreMoves
  <2>30. CASE DeleteOld(r)
    <3>1. UNCHANGED files \/ (OldImage(r) # None /\ files' = [files EXCEPT ![OldImage(r)] = None])
      BY <2>30 DEF DeleteOld, Remove, storage
    <3>2. OldImage(r) \in Key \cup {None}
      BY DEF TypeOK, Call, OldImage
    <3> QED BY <3>1, <3>2 DEF StoreMoves, Port!ObjectStoreNext, Port!Delete
  <2> QED BY <1>4, <2>1, <2>2, <2>3, <2>4, <2>5, <2>6, <2>7, <2>8, <2>9, <2>10, <2>11,
     <2>12, <2>13, <2>14, <2>15, <2>16, <2>17, <2>18, <2>19, <2>20, <2>21, <2>22, <2>23,
     <2>24, <2>25, <2>26, <2>27, <2>28, <2>29, <2>30 DEF Handle
<1> QED BY <1>1, <1>2, <1>3, <1>4 DEF Next

-----------------------------------------------------------------------------
(***************************************************************************)
(* The theorems.                                                           *)
(***************************************************************************)
\* An empty database, whoever has an account.
LEMMA IndInvInit == Init => IndInv
<1> SUFFICES ASSUME Init PROVE IndInv
  OBVIOUS
<1>1. \A q \in Request : pc[q] = "idle" /\ call[q] = NoCall /\ reply[q] = None
  BY DEF Init
<1>2. NoCall \in Call
  BY DEF NoCall, Call
<1>3. TypeOK
  <2>1. StorageTypeOK
    BY DEF Init, StorageInit, StorageTypeOK
  <2>2. pc \in [Request -> PC] /\ call \in [Request -> Call] /\ reply \in [Request -> Reply]
    BY <1>2 DEF Init, PC, Reply
  <2> QED BY <2>1, <2>2 DEF Init, TypeOK
<1>4. ASSUME NEW q \in Request
      PROVE  Held(q) /\ Revoking(q) /\ Proven(q) /\ Superseding(q) /\ Remembered(q) /\ Stored(q)
  <2>1. /\ pc[q] = "idle" /\ reply[q] = None /\ call[q] = NoCall
        /\ call[q].image = None /\ call[q].email = None /\ call[q].known = {}
    BY <1>1 DEF NoCall
  <2>2. Held(q)
    BY <2>1 DEF Held, EmailSteps
  <2>3. Revoking(q) /\ Proven(q) /\ Superseding(q)
    BY <2>1 DEF Revoking, Proven, Superseding
  <2>4. Remembered(q) /\ Stored(q)
    BY <2>1 DEF Remembered, Stored
  <2> QED BY <2>2, <2>3, <2>4
<1>6. Opened /\ Asked /\ Told
  BY <1>1 DEF Init, Opened, Asked, Told, NoCall
<1>7. WholeObjects /\ \A u \in User : Shown(u)
  BY DEF Init, StorageInit, WholeObjects, Shown
<1>8. RevokedStayOut /\ OldLinksDie
  BY <1>1 DEF RevokedStayOut, OldLinksDie, NoCall
<1> QED BY <1>3, <1>4, <1>6, <1>7, <1>8 DEF IndInv

\* Every step preserves the invariant.
LEMMA IndInvStep == IndInv /\ [Next]_vars => IndInv'
<1> SUFFICES ASSUME IndInv, [Next]_vars PROVE IndInv'
  OBVIOUS
<1> USE DEF IndInv
<1>1. TypeOK'
  BY TypeStep
<1>2. \A q \in Request : Held(q)'
  BY HeldStep
<1>3. Opened'
  BY OpenedStep
<1>4. \A q \in Request : Revoking(q)'
  BY RevokingStep
<1>5. Asked' /\ Told'
  BY LettersStep
<1>6. \A q \in Request : Proven(q)'
  BY ProvenStep
<1>7. \A q \in Request : Superseding(q)'
  BY SupersedingStep
<1>8. WholeObjects'
  BY WholeStep
<1>9. \A u \in User : Shown(u)'
  BY ShownStep
<1>10. \A q \in Request : Remembered(q)'
  BY <1>9, RememberedStep
<1>11. \A q \in Request : Stored(q)'
  BY StoredStep
<1>12. RevokedStayOut' /\ OldLinksDie'
  BY RevokedStep, OldLinksStep
<1> QED BY <1>1, <1>2, <1>3, <1>4, <1>5, <1>6, <1>7, <1>8, <1>9, <1>10, <1>11, <1>12

\* The invariant of the handlers holds throughout, for any number of requests,
\* whatever they are and wherever processes are killed.
THEOREM Invariance == Spec => []IndInv
BY IndInvInit, IndInvStep, PTL DEF Spec

\* Tables, objects and handlers keep their types.
THEOREM TypeCorrect == Spec => []TypeOK
<1>1. IndInv => TypeOK
  BY DEF IndInv
<1> QED BY <1>1, Invariance, PTL

\* The image a profile names is stored, unless its UPDATE was wrongly reported
\* as failed (images.go).
THEOREM ImagesAreStored == Spec => []ImageIsStored
<1>1. ASSUME IndInv PROVE ImageIsStored
  <2> SUFFICES ASSUME NEW u \in User, users[u].image # None
               PROVE  files[users[u].image] # None \/ users[u].image \in lostAck
    BY DEF ImageIsStored
  <2>1. files[users[u].image] = users[u].image \/ users[u].image \in lostAck
    BY <1>1 DEF IndInv, Shown
  <2> QED BY <2>1
<1> QED BY <1>1, Invariance, PTL

\* Sessions that a sign-out, a reset or a revocation ended stay ended.
THEOREM RevokedSessionsStayOut == Spec => []RevokedStayOut
<1>1. IndInv => RevokedStayOut
  BY DEF IndInv
<1> QED BY <1>1, Invariance, PTL

\* Confirmation links that were superseded or used up stay dead.
THEOREM SupersededLinksDie == Spec => []OldLinksDie
<1>1. IndInv => OldLinksDie
  BY DEF IndInv
<1> QED BY <1>1, Invariance, PTL

\* An account only gets an address to which a link for it was mailed.
THEOREM AddressesAreProven == Spec => AddressProven
<1>1. IndInv /\ [Next]_vars => EmailsMove
  BY EmailsStep DEF IndInv
<1> QED BY <1>1, Invariance, PTL DEF Spec, AddressProven, EmailsMove

\* Seen through its keys the storage is an ObjectStore: whole objects that
\* appear and disappear in one step and never change.
THEOREM StorageRefinesStore == Spec => ImplementsStore
<1>1. IndInv => Port!ObjectStoreTypeOK
  <2> SUFFICES ASSUME IndInv PROVE files \in [Key -> Object \cup {None}]
    BY DEF Port!ObjectStoreTypeOK
  <2>1. \A k \in Key : files[k] \in Object \cup {None}
    BY AccountsAssumption DEF IndInv, WholeObjects
  <2> QED BY <2>1 DEF IndInv, TypeOK, StorageTypeOK
<1>2. IndInv /\ [Next]_vars => [Port!ObjectStoreNext]_files
  BY StoreStep DEF IndInv, StoreMoves
<1> QED BY <1>1, <1>2, IndInvInit, Invariance, PTL DEF Spec, ImplementsStore,
   Port!ObjectStoreSpec
=============================================================================
