------------------------------- MODULE Links -------------------------------
(***************************************************************************)
(* The link store of apps/server: the handlers of internal/api/links.go,   *)
(* the public redirect of internal/api/redirect.go and the goroutine of    *)
(* internal/redirect/recorder.go, over the tables links,                   *)
(* link_target_history and click_events.                                   *)
(*                                                                         *)
(* Every element of Request is one HTTP request served by its own          *)
(* goroutine.  A step is one statement or one transaction as the others    *)
(* see it: Postgres runs at READ COMMITTED, and the row lock of UPDATE and *)
(* the unique index make a write transaction visible at one instant, its   *)
(* COMMIT.  Its now(), however, is the instant of BEGIN, which is why      *)
(* Begin... and Commit... are separate steps.                              *)
(*                                                                         *)
(* auth.NewID() never repeats: the id of a link is the request that        *)
(* created it.  The columns redirect_status, is_active, title and          *)
(* description are treated alike by PATCH; the model keeps is_active.      *)
(***************************************************************************)
EXTENDS Naturals, FiniteSets

CONSTANTS
  Request,          \* requests, each with its goroutine
  Slug,             \* slugs, custom or generated
  Target,           \* target URLs that pass ValidateTargetURL
  None,             \* SQL NULL, an absent JSON field, "not loaded yet"
  MaxSlugAttempts   \* links.go: maxSlugAttempts

VARIABLES
  links,      \* table links
  history,    \* table link_target_history
  clicks,     \* table click_events
  now,        \* the database clock, one tick per BEGIN
  pc,         \* where each request's goroutine stands
  body,       \* the request body, None for an absent field
  seen,       \* the row the handler holds in memory
  attempt,    \* CreateLink's loop counter
  began,      \* now() of the request's transaction
  reply       \* what the client was told

tables == <<links, history, clicks>>
vars   == <<links, history, clicks, now, pc, body, seen, attempt, began, reply>>

Row  == [id : Request, slug : Slug, target : Target, active : BOOLEAN]
Body == [slug : Slug \cup {None}, target : Target \cup {None},
         active : BOOLEAN \cup {None}]

ASSUME LinksAssumption ==
  /\ MaxSlugAttempts \in Nat \ {0}
  /\ None \notin Slug
  /\ None \notin Target
  /\ None \notin BOOLEAN
  /\ None \notin Row
  /\ None # "deleted"

PC == {"idle", "insert", "inserting", "update", "updating", "delete",
       "reread", "click", "done"}
Reply == {None, "ok", "error", "taken", "conflict", "not found", "deleted",
          "redirect", "redirect to HEAD"}
-----------------------------------------------------------------------------
\* Moves of one request.
Goes(r, from, to)  == pc[r] = from /\ pc' = [pc EXCEPT ![r] = to]
Answers(r, answer) == reply' = [reply EXCEPT ![r] = answer]
Finishes(r, from, answer) == Goes(r, from, "done") /\ Answers(r, answer)

\* links_slug_unique
SlugFree_NoIndex(s) == TRUE
SlugFree(s) == \A l \in links : l.slug # s

LinkExists(id) == \E l \in links : l.id = id

\* The foreign key link_id of click_events lets an insert through.
ForeignKeyHolds_Dropped(id) == TRUE
ForeignKeyHolds(id) == LinkExists(id)

\* ON DELETE CASCADE of the two tables.
Keeping_NoCascade(rows, id) == rows
Keeping(rows, id) == {row \in rows : row.link # id}

\* BEGIN: now() is fixed for the whole transaction.
Begin(r) == now' = now + 1 /\ began' = [began EXCEPT ![r] = now + 1]

HistoryRow(r, id, old, new) == [link |-> id, old |-> old, new |-> new, at |-> began[r]]
-----------------------------------------------------------------------------
\* CreateLink, up to its loop: the body is validated and the team accessible.
CreateLink(r) ==
  /\ Goes(r, "idle", "insert")
  /\ \E s \in Slug \cup {None}, t \in Target :
       body' = [body EXCEPT ![r] = [slug |-> s, target |-> t, active |-> None]]
  /\ UNCHANGED <<tables, now, seen, attempt, began, reply>>

BeginInsert(r) ==
  /\ Goes(r, "insert", "inserting")
  /\ Begin(r)
  /\ UNCHANGED <<tables, body, seen, attempt, reply>>

\* The custom slug, or whatever GenerateSlug draws.
Candidates(r) == IF body[r].slug = None THEN Slug ELSE {body[r].slug}

BirthRows_None(r, target) == {}
BirthRows(r, target) == {HistoryRow(r, r, None, target)}

CommitInsert(r) ==
  /\ Goes(r, "inserting", "reread")
  /\ \E s \in Candidates(r) :
       LET row == [id |-> r, slug |-> s, target |-> body[r].target, active |-> TRUE]
       IN  /\ SlugFree(s)
           /\ links' = links \cup {row}
           /\ seen' = [seen EXCEPT ![r] = row]
  /\ history' = history \cup BirthRows(r, body[r].target)
  /\ UNCHANGED <<clicks, now, body, attempt, began, reply>>

\* The insert hits links_slug_unique and rolls back: a custom slug is refused ...
CustomSlugTaken(r) ==
  /\ body[r].slug # None
  /\ ~SlugFree(body[r].slug)
  /\ Finishes(r, "inserting", "taken")
  /\ UNCHANGED <<tables, now, body, seen, attempt, began>>

\* ... and a generated one is drawn again, maxSlugAttempts times in all.
RetryInsert(r) ==
  /\ body[r].slug = None
  /\ \E s \in Slug : ~SlugFree(s)
  /\ attempt[r] < MaxSlugAttempts - 1
  /\ attempt' = [attempt EXCEPT ![r] = @ + 1]
  /\ Goes(r, "inserting", "insert")
  /\ UNCHANGED <<tables, now, body, seen, began, reply>>

AttemptsExhausted(r) ==
  /\ body[r].slug = None
  /\ \E s \in Slug : ~SlugFree(s)
  /\ attempt[r] >= MaxSlugAttempts - 1
  /\ Finishes(r, "inserting", "conflict")
  /\ UNCHANGED <<tables, now, body, seen, attempt, began>>

\* GetLink after the transaction of CreateLink or UpdateLink.
Reread(r) ==
  /\ pc[r] = "reread"
  /\ Finishes(r, "reread", IF LinkExists(seen[r].id) THEN "ok" ELSE "not found")
  /\ UNCHANGED <<tables, now, body, seen, attempt, began>>
-----------------------------------------------------------------------------
\* UpdateLink loads the row, outside any transaction, and checks the body.
UpdateLink(r) ==
  /\ Goes(r, "idle", "update")
  /\ \E l \in links, t \in Target \cup {None}, a \in BOOLEAN \cup {None} :
       /\ seen' = [seen EXCEPT ![r] = l]
       /\ body' = [body EXCEPT ![r] = [slug |-> None, target |-> t, active |-> a]]
  /\ UNCHANGED <<tables, now, attempt, began, reply>>

BeginUpdate(r) ==
  /\ Goes(r, "update", "updating")
  /\ Begin(r)
  /\ UNCHANGED <<tables, body, seen, attempt, reply>>

\* A field absent from the body takes the value of the row loaded before.
Merge_NullsAbsent(field, current) == field
Merge(field, current) == IF field = None THEN current ELSE field

NewTarget(r) == Merge(body[r].target, seen[r].target)
NewActive(r) == Merge(body[r].active, seen[r].active)

TargetChanges_Never(r) == FALSE
TargetChanges(r) == NewTarget(r) # seen[r].target

CommitUpdate(r) ==
  /\ Goes(r, "updating", "reread")
  /\ \E l \in links :
       /\ l.id = seen[r].id
       /\ links' = (links \ {l}) \cup
            {[id |-> l.id, slug |-> l.slug,
              target |-> NewTarget(r), active |-> NewActive(r)]}
  /\ history' = IF TargetChanges(r)
                THEN history \cup
                     {HistoryRow(r, seen[r].id, seen[r].target, NewTarget(r))}
                ELSE history
  /\ UNCHANGED <<clicks, now, body, seen, attempt, began, reply>>

\* The link is gone: UPDATE matches no row, which is no error; the history
\* insert, if there is one, hits the foreign key and rolls back.
UpdateMissed(r) ==
  /\ pc[r] = "updating"
  /\ ~LinkExists(seen[r].id)
  /\ IF TargetChanges(r)
     THEN Finishes(r, "updating", "error")
     ELSE Goes(r, "updating", "reread") /\ UNCHANGED reply
  /\ UNCHANGED <<tables, now, body, seen, attempt, began>>

DeleteLink(r) ==
  /\ Goes(r, "idle", "delete")
  /\ \E l \in links : seen' = [seen EXCEPT ![r] = l]
  /\ UNCHANGED <<tables, now, body, attempt, began, reply>>

\* 204 even when another request deleted the row first.
CommitDelete(r) ==
  /\ Finishes(r, "delete", "deleted")
  /\ links'   = {l \in links : l.id # seen[r].id}
  /\ history' = Keeping(history, seen[r].id)
  /\ clicks'  = Keeping(clicks, seen[r].id)
  /\ UNCHANGED <<now, body, seen, attempt, began>>
-----------------------------------------------------------------------------
\* followLink reads the active link and writes the redirect; a GET then hands
\* the click to the recorder, a HEAD does not.
Counts_HeadToo(head) == TRUE
Counts(head) == ~head

FollowLink(r) ==
  /\ pc[r] = "idle"
  /\ \E l \in {k \in links : k.active}, head \in BOOLEAN :
       /\ seen' = [seen EXCEPT ![r] = l]
       /\ Answers(r, IF head THEN "redirect to HEAD" ELSE "redirect")
       /\ pc' = [pc EXCEPT ![r] = IF Counts(head) THEN "click" ELSE "done"]
  /\ UNCHANGED <<tables, now, body, attempt, began>>

\* Recorder.Record's goroutine, some time after the redirect was answered.
InsertClick(r) ==
  /\ Goes(r, "click", "done")
  /\ ForeignKeyHolds(seen[r].id)
  /\ clicks' = clicks \cup {[link |-> seen[r].id, by |-> r]}
  /\ UNCHANGED <<links, history, now, body, seen, attempt, began, reply>>

\* The link is gone, the insert fails or takes longer than insertTimeout.
LoseClick(r) ==
  /\ Goes(r, "click", "done")
  /\ UNCHANGED <<tables, now, body, seen, attempt, began, reply>>

\* Every early return that changes no table: a body that fails validation, a
\* caller without access, an unknown id or slug, a failing query or a
\* transaction rolled back on one.
Refuse(r) ==
  /\ pc[r] \notin {"click", "done"}
  /\ pc' = [pc EXCEPT ![r] = "done"]
  /\ Answers(r, "error")
  /\ UNCHANGED <<tables, now, body, seen, attempt, began>>
-----------------------------------------------------------------------------
Init ==
  /\ links = {} /\ history = {} /\ clicks = {}
  /\ now = 0
  /\ pc = [r \in Request |-> "idle"]
  /\ body = [r \in Request |-> [slug |-> None, target |-> None, active |-> None]]
  /\ seen = [r \in Request |-> None]
  /\ attempt = [r \in Request |-> 0]
  /\ began = [r \in Request |-> 0]
  /\ reply = [r \in Request |-> None]

Arrive(r) == CreateLink(r) \/ UpdateLink(r) \/ DeleteLink(r) \/ FollowLink(r)

\* What the goroutine of a request does once the request has arrived.
Handle(r) ==
  \/ BeginInsert(r) \/ CommitInsert(r) \/ CustomSlugTaken(r)
  \/ RetryInsert(r) \/ AttemptsExhausted(r) \/ Reread(r)
  \/ BeginUpdate(r) \/ CommitUpdate(r) \/ UpdateMissed(r)
  \/ CommitDelete(r) \/ InsertClick(r) \/ LoseClick(r)

Next == \E r \in Request : Arrive(r) \/ Handle(r) \/ Refuse(r)

Spec == Init /\ [][Next]_vars
-----------------------------------------------------------------------------
\* Types of the variables, and which program counters have loaded a row.
TypeOK ==
  /\ links \subseteq Row
  /\ history \subseteq [link : Request, old : Target \cup {None},
                        new : Target, at : Nat]
  /\ clicks \subseteq [link : Request, by : Request]
  /\ now \in Nat
  /\ pc \in [Request -> PC]
  /\ body \in [Request -> Body]
  /\ seen \in [Request -> Row \cup {None}]
  /\ attempt \in [Request -> Nat]
  /\ began \in [Request -> Nat]
  /\ reply \in [Request -> Reply]

\* README, Product Rules, Links 2: slugs are globally unique, whatever custom
\* and generated slugs race for the same name; and no id is given twice.
SlugUnique ==
  \A k, l \in links : k.slug = l.slug \/ k.id = l.id => k = l

\* History rows and clicks belong to a link that exists, although a click is
\* inserted long after its redirect and an update works on a row it read
\* before the link was deleted.
NoOrphans ==
  /\ \A h \in history : LinkExists(h.link)
  /\ \A c \in clicks : LinkExists(c.link)

\* A link has exactly one history row without an old target, written with the
\* link itself, and it precedes every other row of the link in changed_at.
BirthRow(h) ==
  /\ h.old = None
  /\ \A g \in history : g.link = h.link /\ g # h => g.old # None /\ h.at < g.at

BornOnce ==
  \A l \in links : \E h \in history : h.link = l.id /\ BirthRow(h)

\* The target a link points at, and the old target of each of its history
\* rows, is the new target of some row (for a row: of an earlier one).  Lost
\* updates may repeat or skip rows but never invent a target.
Explained(id, target, before) ==
  \E h \in history : h.link = id /\ h.new = target /\ h.at < before

HistoryConnected ==
  /\ \A l \in links : Explained(l.id, l.target, now + 1)
  /\ \A h \in history : h.old # None => Explained(h.link, h.old, h.at)

\* Only a GET that was answered with the redirect of that link is counted,
\* and it is counted after the answer (README, Analytics).
ClicksWereServed ==
  \A c \in clicks :
    /\ reply[c.by] = "redirect" /\ pc[c.by] = "done"
    /\ seen[c.by].id = c.link

\* README, Product Rules, Analytics 4: once a DELETE was answered with 204,
\* neither a late update nor a late click brings back any row of that link.
DeletedStaysDeleted ==
  \A r \in Request : reply[r] = "deleted" =>
    /\ ~LinkExists(seen[r].id)
    /\ \A h \in history : h.link # seen[r].id
    /\ \A c \in clicks : c.link # seen[r].id

\* The store implements LinkRegistry: each step of a handler is one atomic
\* registry operation or none.
Registry == INSTANCE LinkRegistry WITH LinkId <- Request, Visit <- Request

ImplementsRegistry == Registry!Spec

\* README, Product Rules, Links 7: "Target changes are recorded in history".
\* Every step that changes the target of a link adds the row that says so.
TargetChangesRecorded ==
  [][\A k \in links, l \in links' :
       k.id = l.id /\ k.target # l.target =>
         \E h \in history' \ history :
           h.link = k.id /\ h.old = k.target /\ h.new = l.target]_vars
=============================================================================
