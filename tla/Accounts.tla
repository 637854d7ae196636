------------------------------ MODULE Accounts ------------------------------
(***************************************************************************)
(* What a signed-in user does to the own account: the handlers of          *)
(* internal/api/me.go (DeleteMe is in Tenancy) and images.go, on the       *)
(* object storage, with Limen's sign-in, sign-out and password reset.      *)
(*                                                                         *)
(* As in Tenancy every element of Request is one HTTP request, a step is   *)
(* one statement or storage call, and what request r creates has the id r: *)
(* the session it opens, the token it mails, the image it stores.          *)
(***************************************************************************)
EXTENDS FiniteSets, Storage

CONSTANTS
  Request,
  Seed,     \* ids of what a run starts from
  User,
  Address,  \* e-mail addresses, trimmed and in lower case
  Typed,    \* what people type for them
  Lower     \* strings.ToLower(strings.TrimSpace(_))

Id == Request \cup Seed

ASSUME AccountsAssumption ==
  /\ None \notin Id \cup User \cup Address \cup {"ok", "revoked"}
  /\ Writer = Request /\ Key = Id /\ Object = Id
  /\ Lower \in [Typed -> Address]

VARIABLES
  users,     \* table users, by id
  sessions,  \* table sessions
  changes,   \* table email_change_requests
  mailed,    \* messages that left with a confirmation link (history)
  lostAck,   \* keys whose UPDATE took effect and was reported failed (history)
  pc,        \* where each request's goroutine stands
  call,      \* what its handler holds in memory; known is history
  reply      \* what the client was told

rows == <<users, sessions, changes>>
vars == <<rows, storage, mailed, lostAck, pc, call, reply>>

Profile == [email : Address, image : Key \cup {None}, name : Id]
Session == [token : Id, user : User]
Change  == [token : Id, user : User, email : Address, expired : BOOLEAN]
Mail    == [token : Id, user : User, email : Address]

PC == {"idle", "update name", "count address", "delete changes", "create change",
       "send mail", "find token", "update address", "drop changes", "get session",
       "revoke", "list sessions", "revoke others", "revoke all", "put", "copy",
       "update image", "undo", "clear image", "delete old", "done"}
Reply == {None, "ok", "taken", "revoked", "missing", "error"}

\* image is the user's when the session was loaded, body what was streamed to
\* the client, subject a session or confirmation token, todo the sessions
\* RevokeOtherSessions has yet to revoke.
Call == [user : User \cup {None}, token : Id \cup {None}, image : Key \cup {None},
         body : Object \cup {None}, subject : Id \cup {None}, email : Address \cup {None},
         todo : SUBSET Id, known : SUBSET Id]
NoCall == [user |-> None, token |-> None, image |-> None, body |-> None,
           subject |-> None, email |-> None, todo |-> {}, known |-> {}]
-----------------------------------------------------------------------------
Goes(r, from, to) == pc[r] = from /\ pc' = [pc EXCEPT ![r] = to]
Answers(r, answer) == reply' = [reply EXCEPT ![r] = answer]
Finishes(r, from, answer) == Goes(r, from, "done") /\ Answers(r, answer)
Loads(r, field, value) == call' = [call EXCEPT ![r][field] = value]
Sets(u, column, value) == users' = [users EXCEPT ![u][column] = value]

SessionsOf(u) == {s \in sessions : s.user = u}
TokensOf(rs) == {x.token : x \in rs}
ChangesOf(u) == {c \in changes : c.user = u}
NewEmail_AsTyped(e) == e
NewEmail(e) == Lower[e]
AddressTaken(e) == \E u \in User : users[u].email = e

\* The session tier: SessionFromRequest loads the session with its user.
SignedIn(r, to, s) ==
  /\ Goes(r, "idle", to)
  /\ s \in sessions
  /\ UNCHANGED <<rows, storage, mailed, lostAck, reply>>

Arrive(r) ==
  \E s \in sessions :
    \/ /\ \E to \in {"update name", "put", "clear image", "list sessions"} : SignedIn(r, to, s)
       /\ call' = [call EXCEPT ![r].user = s.user, ![r].token = s.token,
                               ![r].image = users[s.user].image]
    \/ /\ SignedIn(r, "get session", s)
       /\ \E x \in SessionsOf(s.user) :
            call' = [call EXCEPT ![r].user = s.user, ![r].token = s.token,
                                 ![r].subject = x.token, ![r].known = {x.token}]
    \/ /\ SignedIn(r, "count address", s)
       /\ \E e \in Typed :
            call' = [call EXCEPT ![r].user = s.user, ![r].token = s.token,
                                 ![r].email = NewEmail(e), ![r].known = TokensOf(ChangesOf(s.user))]
    \/ /\ SignedIn(r, "find token", s)
       /\ \E m \in mailed :
            call' = [call EXCEPT ![r].user = s.user, ![r].token = s.token,
                                 ![r].subject = m.token,
                                 ![r].known = TokensOf(ChangesOf(s.user))]
-----------------------------------------------------------------------------
\* The profile is read again for the answer, which may fail.
Reports(r, from) == \E answer \in {"ok", "error"} : Finishes(r, from, answer)

\* UpdateMe: UpdateUserName writes its own column.
UpdateName(r) ==
  /\ Reports(r, "update name")
  /\ Sets(call[r].user, "name", r)
  /\ UNCHANGED <<sessions, changes, storage, mailed, lostAck, call>>

\* RequestEmailChange: CountUsersByEmail, after VerifyPassword ...
CountAddress(r) ==
  /\ IF AddressTaken(call[r].email)
     THEN Finishes(r, "count address", "taken")
     ELSE Goes(r, "count address", "delete changes") /\ UNCHANGED reply
  /\ UNCHANGED <<rows, storage, mailed, lostAck, call>>

\* ... DeleteEmailChangeRequestsForUser ...
Superseded_Kept(u) == {}
Superseded(u) == ChangesOf(u)

DeleteChanges(r) ==
  /\ Goes(r, "delete changes", "create change")
  /\ changes' = changes \ Superseded(call[r].user)
  /\ UNCHANGED <<users, sessions, storage, mailed, lostAck, call, reply>>

\* ... CreateEmailChangeRequest ...
CreateChange(r) ==
  /\ Goes(r, "create change", "send mail")
  /\ changes' = changes \cup
       {[token |-> r, user |-> call[r].user, email |-> call[r].email, expired |-> FALSE]}
  /\ UNCHANGED <<users, sessions, storage, mailed, lostAck, call, reply>>

\* ... and the mail, whose failure is only logged.
SendMail(r) ==
  /\ Finishes(r, "send mail", "ok")
  /\ \/ mailed' = mailed \cup
          {[token |-> r, user |-> call[r].user, email |-> call[r].email]}
     \/ UNCHANGED mailed
  /\ UNCHANGED <<rows, storage, lostAck, call>>

\* The hour of a confirmation link is over.
Expire(c) ==
  /\ ~c.expired
  /\ changes' = (changes \ {c}) \cup {[c EXCEPT !.expired = TRUE]}
  /\ UNCHANGED <<users, sessions, storage, mailed, lostAck, pc, call, reply>>

\* ConfirmEmailChange: the token must be the caller's own and in time.
Confirmable_ByAnyone(c, u) == ~c.expired
Confirmable(c, u) == c.user = u /\ ~c.expired

FindToken(r) ==
  /\ Goes(r, "find token", "update address")
  /\ \E c \in changes :
       /\ c.token = call[r].subject
       /\ Confirmable(c, call[r].user)
       /\ Loads(r, "email", c.email)
  /\ UNCHANGED <<rows, storage, mailed, lostAck, reply>>

\* UpdateUserEmail, under users_email_unique.
UpdateAddress(r) ==
  LET u == call[r].user
  IN  /\ IF \E v \in User \ {u} : users[v].email = call[r].email
         THEN Finishes(r, "update address", "taken") /\ UNCHANGED users
         ELSE /\ Goes(r, "update address", "drop changes")
              /\ Sets(u, "email", call[r].email)
              /\ UNCHANGED reply
      /\ UNCHANGED <<sessions, changes, storage, mailed, lostAck, call>>

DropChanges(r) ==
  /\ Reports(r, "drop changes")
  /\ changes' = changes \ Superseded(call[r].user)
  /\ UNCHANGED <<users, sessions, storage, mailed, lostAck, call>>
-----------------------------------------------------------------------------
\* Limen's sign-in and sign-out.
SignIn(r) ==
  /\ Finishes(r, "idle", "ok")
  /\ \E u \in User : sessions' = sessions \cup {[token |-> r, user |-> u]}
  /\ UNCHANGED <<users, changes, storage, mailed, lostAck, call>>

SignOut(r) ==
  /\ Finishes(r, "idle", "revoked")
  /\ \E s \in sessions :
       /\ sessions' = sessions \ {s}
       /\ Loads(r, "known", {s.token})
  /\ UNCHANGED <<users, changes, storage, mailed, lostAck>>

\* Limen's password reset, for whoever holds the mailed token; the hook of
\* auth.New revokes the sessions afterwards.  The hook's failure is only
\* logged: then the reset promises nothing about sessions.
ResetPassword(r) ==
  /\ Goes(r, "idle", "revoke all")
  /\ \E u \in User :
       call' = [call EXCEPT ![r].user = u, ![r].known = TokensOf(SessionsOf(u))]
  /\ UNCHANGED <<rows, storage, mailed, lostAck, reply>>

RevokeAll(r) ==
  /\ Goes(r, "revoke all", "done")
  /\ \/ sessions' = sessions \ SessionsOf(call[r].user) /\ Answers(r, "revoked")
     \/ UNCHANGED sessions /\ Answers(r, "ok")
  /\ UNCHANGED <<users, changes, storage, mailed, lostAck, call>>

\* RevokeMySession reads the token by id and user, then revokes it.
GetSession(r) ==
  /\ Goes(r, "get session", "revoke")
  /\ call[r].subject \in TokensOf(SessionsOf(call[r].user))
  /\ UNCHANGED <<rows, storage, mailed, lostAck, call, reply>>

RevokeSession(r) ==
  /\ Finishes(r, "revoke", "revoked")
  /\ call[r].subject \in TokensOf(sessions)
  /\ sessions' = {s \in sessions : s.token # call[r].subject}
  /\ UNCHANGED <<users, changes, storage, mailed, lostAck, call>>

\* RevokeOtherSessions lists them and revokes one by one; one that is gone
\* already is passed over.
ListSessions(r) ==
  /\ Goes(r, "list sessions", "revoke others")
  /\ LET others == TokensOf(SessionsOf(call[r].user)) \ {call[r].token}
     IN  call' = [call EXCEPT ![r].todo = others, ![r].known = others]
  /\ UNCHANGED <<rows, storage, mailed, lostAck, reply>>

Rest_StopsAtMissing(r, t) ==
  IF t \in TokensOf(sessions) THEN call[r].todo \ {t} ELSE {}
Rest(r, t) == call[r].todo \ {t}

RevokeNext(r) ==
  /\ pc[r] = "revoke others"
  /\ \E t \in call[r].todo :
       /\ sessions' = {s \in sessions : s.token # t}
       /\ Loads(r, "todo", Rest(r, t))
  /\ UNCHANGED <<users, changes, storage, mailed, lostAck, pc, reply>>

AllRevoked(r) ==
  /\ Finishes(r, "revoke others", "revoked")
  /\ call[r].todo = {}
  /\ UNCHANGED <<rows, storage, mailed, lostAck, call>>
-----------------------------------------------------------------------------
\* uploadProfileImage: a key of its own for every upload ...
KeyOf(r) == r

\* ... Put, in the steps of the driver ...
StartPut(r) ==
  /\ Goes(r, "put", "copy")
  /\ CreateTemp(r)
  /\ UNCHANGED <<rows, mailed, lostAck, call, reply>>

CopyBody(r) ==
  /\ pc[r] = "copy"
  /\ Copy(r)
  /\ UNCHANGED <<rows, mailed, lostAck, pc, call, reply>>

FinishPut(r) ==
  /\ \/ Goes(r, "copy", "update image") /\ Rename(r, KeyOf(r), r)
     \/ Goes(r, "put", "update image") /\ PutObject(KeyOf(r), r)
  /\ UNCHANGED <<rows, mailed, lostAck, call, reply>>

\* ... whose answer may get lost when the object is stored already ...
PutAnswerLost(r) ==
  /\ driver = "s3"
  /\ Finishes(r, "put", "error")
  /\ PutObject(KeyOf(r), r)
  /\ UNCHANGED <<rows, mailed, lostAck, call>>

PutFails(r) ==
  /\ Finishes(r, "copy", "error")
  /\ Abandon(r)
  /\ UNCHANGED <<rows, mailed, lostAck, call>>

\* ... UpdateUserImage ...
UpdateImage(r) ==
  /\ Goes(r, "update image", "delete old")
  /\ Sets(call[r].user, "image", KeyOf(r))
  /\ UNCHANGED <<sessions, changes, storage, mailed, lostAck, call, reply>>

\* ... after whose failure the new object is deleted.  An UPDATE may also be
\* reported failed when it took effect (the connection broke).
UpdateImageFails(r) ==
  /\ Goes(r, "update image", "undo")
  /\ \/ UNCHANGED <<users, lostAck>>
     \/ Sets(call[r].user, "image", KeyOf(r)) /\ lostAck' = lostAck \cup {KeyOf(r)}
  /\ UNCHANGED <<sessions, changes, storage, mailed, call, reply>>

UndoPut(r) ==
  /\ Finishes(r, "undo", "error")
  /\ Remove(KeyOf(r)) \/ UNCHANGED storage
  /\ UNCHANGED <<rows, mailed, lostAck, call>>

\* deleteProfileImage
ClearImage(r) ==
  /\ Goes(r, "clear image", "delete old")
  /\ Sets(call[r].user, "image", None)
  /\ UNCHANGED <<sessions, changes, storage, mailed, lostAck, call, reply>>

\* Both delete the image the session was loaded with, as well as they can.
OldImage_Current(r) == users[call[r].user].image
OldImage(r) == call[r].image

DeleteOld(r) ==
  /\ Finishes(r, "delete old", "ok")
  /\ \/ OldImage(r) # None /\ Remove(OldImage(r))
     \/ UNCHANGED storage
  /\ UNCHANGED <<rows, mailed, lostAck, call>>

\* serveProfileImage, for anyone: GetStream and the copy to the client.  An
\* open file is not disturbed by a rename over it or its removal.
ServeImage(r) ==
  \E k \in Key :
    /\ Finishes(r, "idle", IF files[k] = None THEN "missing" ELSE "ok")
    /\ Loads(r, "body", GetStream(k))
    /\ UNCHANGED <<rows, storage, mailed, lostAck>>
-----------------------------------------------------------------------------
\* A check that refuses or a statement that fails without a trace.
Fail(r) ==
  /\ pc[r] \notin {"idle", "copy", "update image", "undo", "delete old", "done"}
  /\ pc' = [pc EXCEPT ![r] = "done"]
  /\ Answers(r, "error")
  /\ UNCHANGED <<rows, storage, mailed, lostAck, call>>

\* The process is killed: every request in flight ends without an answer.
Kill ==
  /\ \E r \in Request : pc[r] \notin {"idle", "done"}
  /\ pc' = [r \in Request |-> IF pc[r] = "idle" THEN "idle" ELSE "done"]
  /\ UNCHANGED <<rows, storage, mailed, lostAck, call, reply>>

Init ==
  /\ users \in [User -> Profile]
  /\ \A u, v \in User : users[u].email = users[v].email => u = v
  /\ \A u \in User : users[u].image = None
  /\ sessions = {} /\ changes = {} /\ mailed = {} /\ lostAck = {}
  /\ StorageInit([k \in Key |-> None])
  /\ pc = [r \in Request |-> "idle"]
  /\ call = [r \in Request |-> NoCall]
  /\ reply = [r \in Request |-> None]

Handle(r) ==
  \/ UpdateName(r)
  \/ CountAddress(r) \/ DeleteChanges(r) \/ CreateChange(r) \/ SendMail(r)
  \/ FindToken(r) \/ UpdateAddress(r) \/ DropChanges(r)
  \/ RevokeAll(r) \/ GetSession(r) \/ RevokeSession(r)
  \/ ListSessions(r) \/ RevokeNext(r) \/ AllRevoked(r)
  \/ StartPut(r) \/ CopyBody(r) \/ FinishPut(r) \/ PutAnswerLost(r) \/ PutFails(r)
  \/ UpdateImage(r) \/ UpdateImageFails(r) \/ UndoPut(r) \/ ClearImage(r) \/ DeleteOld(r)

Next ==
  \/ \E r \in Request :
       Arrive(r) \/ SignIn(r) \/ SignOut(r) \/ ResetPassword(r) \/ ServeImage(r) \/ Handle(r) \/ Fail(r)
  \/ \E c \in changes : Expire(c)
  \/ Kill

Spec == Init /\ [][Next]_vars
-----------------------------------------------------------------------------
TypeOK ==
  /\ StorageTypeOK
  /\ users \in [User -> Profile]
  /\ sessions \subseteq Session /\ changes \subseteq Change /\ mailed \subseteq Mail
  /\ lostAck \subseteq Key
  /\ pc \in [Request -> PC]
  /\ call \in [Request -> Call]
  /\ reply \in [Request -> Reply]

\* An account only ever gets an address to which a link for this account was
\* mailed (me.go, ConfirmEmailChange), whichever links are opened in whichever
\* browser: nobody signs in with an address they could not read mail at.
AddressProven ==
  [][\A u \in User : users'[u].email # users[u].email =>
       \E m \in mailed : m.user = u /\ m.email = users'[u].email]_vars

\* A confirmation link dies when a newer one was requested or the address
\* confirmed: of the links a request found, none is left once it was answered.
OldLinksDie ==
  \A r \in Request :
    pc[r] = "done" /\ reply[r] = "ok" /\ call[r].email # None
      => TokensOf(changes) \cap call[r].known = {}

\* The sessions a revocation was about do not survive its answer, although
\* they are listed first and revoked one by one while others revoke, too.
RevokedStayOut ==
  \A r \in Request : reply[r] = "revoked" => TokensOf(sessions) \cap call[r].known = {}

\* A profile never shows a broken image: the object a row names is stored,
\* whichever uploads and deletions of the same user overlap and wherever the
\* process is killed.  The one exception is an UPDATE that took effect and was
\* reported failed.
ImageIsStored ==
  \A u \in User : LET i == users[u].image
                  IN  i # None => files[i] # None \/ i \in lostAck

\* "A reader can only ever observe the old content or the complete new
\* content -- never a partial write, even if the process is killed mid-Put"
\* (fs.go), and no key ever gets another content: uploads overlap and processes
\* are killed, yet seen through its keys the storage is an ObjectStore.
ImplementsStore == Port!ObjectStoreSpec
=============================================================================
