---------------------------- MODULE LinksProofs ----------------------------
(***************************************************************************)
(* Links for any number of requests, slugs and targets: type correctness,  *)
(* the safety invariants MCLinks checks on small instances, and that the   *)
(* store implements LinkRegistry.                                          *)
(*                                                                         *)
(* The invariants are not inductive alone.  A handler acts on a row it     *)
(* loaded earlier, so what has to be carried along is what that row still  *)
(* means when the handler writes: Held says which program counters own a   *)
(* row, SeenExplained that its target is in the history although the link  *)
(* has moved on, Unborn that an id not yet inserted occurs nowhere, and    *)
(* Clock that every timestamp lies in the past.                            *)
(***************************************************************************)
EXTENDS Links, TLAPS

Holding == {"update", "updating", "delete", "reread", "click"}
Before  == {"idle", "insert", "inserting"}

\* A request that works on a row has loaded it, from a link that was born.
Held(r) ==
  /\ pc[r] \in Holding => seen[r] \in Row
  /\ reply[r] = "deleted" => seen[r] \in Row /\ pc[r] = "done"
  /\ seen[r] \in Row => pc[seen[r].id] \notin Before

\* A request that creates a link has a target and no link yet.
Unborn(r) ==
  /\ pc[r] \in Before => ~LinkExists(r)
  /\ pc[r] \in {"insert", "inserting"} => body[r].target \in Target

\* The target an update read is still named by the link's history, and the
\* row that names it began before the update's transaction.
SeenExplained(r) ==
  /\ pc[r] = "update" /\ LinkExists(seen[r].id) =>
       Explained(seen[r].id, seen[r].target, now + 1)
  /\ pc[r] = "updating" /\ LinkExists(seen[r].id) =>
       Explained(seen[r].id, seen[r].target, began[r])

\* A click waiting to be inserted was redirected.
ClickPending(r) == pc[r] = "click" => reply[r] = "redirect"

\* DeletedStaysDeleted, of one request.
Gone(id) ==
  /\ ~LinkExists(id)
  /\ \A h \in history : h.link # id
  /\ \A c \in clicks : c.link # id

RequestInv(r) ==
  /\ Held(r)
  /\ Unborn(r)
  /\ SeenExplained(r)
  /\ ClickPending(r)
  /\ began[r] <= now
  /\ reply[r] = "deleted" => Gone(seen[r].id)

TableInv ==
  /\ SlugUnique
  /\ NoOrphans
  /\ BornOnce
  /\ HistoryConnected
  /\ \A h \in history : h.at <= now

IndInv ==
  /\ TypeOK
  /\ TableInv
  /\ ClicksWereServed
  /\ \A r \in Request : RequestInv(r)
-----------------------------------------------------------------------------
(***************************************************************************)
(* Type correctness.                                                       *)
(***************************************************************************)
\* Whatever a handler tells its client is a reply.
LEMMA Answer ==
  {"ok", "error", "taken", "conflict", "not found", "deleted", "redirect",
   "redirect to HEAD"} \subseteq Reply
BY DEF Reply

\* PATCH merges an absent or present field with the stored one to a value of
\* the same type.
LEMMA MergeType ==
  ASSUME NEW S, NEW field \in S \cup {None}, NEW current \in S
  PROVE  Merge(field, current) \in S
BY DEF Merge

\* The handlers that write no table keep the types.
LEMMA QuietTypes ==
  ASSUME TypeOK, NEW r \in Request,
         \/ CreateLink(r) \/ BeginInsert(r) \/ CustomSlugTaken(r)
         \/ RetryInsert(r) \/ AttemptsExhausted(r) \/ Reread(r)
         \/ UpdateLink(r) \/ BeginUpdate(r) \/ UpdateMissed(r)
         \/ DeleteLink(r) \/ FollowLink(r) \/ LoseClick(r) \/ Refuse(r)
  PROVE  TypeOK'
<1>1. CASE CreateLink(r)
  <2>1. body' \in [Request -> Body]
    BY <1>1 DEF CreateLink, TypeOK, Body
  <2> QED BY <1>1, <2>1, Answer DEF CreateLink, TypeOK, PC, tables, Goes, Finishes, Answers
<1>2. CASE BeginInsert(r)
  <2>1. now' \in Nat /\ began' \in [Request -> Nat]
    BY <1>2 DEF BeginInsert, Begin, TypeOK
  <2> QED BY <1>2, <2>1, Answer DEF BeginInsert, TypeOK, PC, tables, Goes, Finishes, Answers
<1>3. CASE CustomSlugTaken(r)
    BY <1>3, Answer DEF CustomSlugTaken, TypeOK, PC, tables, Goes, Finishes, Answers
<1>4. CASE RetryInsert(r)
  <2>1. attempt' \in [Request -> Nat]
    BY <1>4 DEF RetryInsert, TypeOK
  <2> QED BY <1>4, <2>1, Answer DEF RetryInsert, TypeOK, PC, tables, Goes, Finishes, Answers
<1>5. CASE AttemptsExhausted(r)
    BY <1>5, Answer DEF AttemptsExhausted, TypeOK, PC, tables, Goes, Finishes, Answers
<1>6. CASE Reread(r)
    BY <1>6, Answer DEF Reread, TypeOK, PC, tables, Goes, Finishes, Answers
<1>7. CASE UpdateLink(r)
  <2>1. body' \in [Request -> Body] /\ seen' \in [Request -> Row \cup {None}]
    BY <1>7 DEF UpdateLink, TypeOK, Body
  <2> QED BY <1>7, <2>1, Answer DEF UpdateLink, TypeOK, PC, tables, Goes, Finishes, Answers
<1>8. CASE BeginUpdate(r)
  <2>1. now' \in Nat /\ began' \in [Request -> Nat]
    BY <1>8 DEF BeginUpdate, Begin, TypeOK
  <2> QED BY <1>8, <2>1, Answer DEF BeginUpdate, TypeOK, PC, tables, Goes, Finishes, Answers
<1>9. CASE UpdateMissed(r)
    BY <1>9, Answer DEF UpdateMissed, TypeOK, PC, tables, Goes, Finishes, Answers
<1>10. CASE DeleteLink(r)
    BY <1>10, Answer DEF DeleteLink, TypeOK, PC, tables, Goes, Finishes, Answers
<1>11. CASE FollowLink(r)
  <2>1. seen' \in [Request -> Row \cup {None}]
    BY <1>11 DEF FollowLink, TypeOK
  <2>2. pc' \in [Request -> PC]
    BY <1>11 DEF FollowLink, TypeOK, PC
  <2>3. reply' \in [Request -> Reply]
    BY <1>11, Answer DEF FollowLink, Answers, TypeOK
  <2> QED BY <1>11, <2>1, <2>2, <2>3 DEF FollowLink, TypeOK, tables
<1>12. CASE LoseClick(r)
    BY <1>12, Answer DEF LoseClick, TypeOK, PC, tables, Goes, Finishes, Answers
<1>13. CASE Refuse(r)
    BY <1>13, Answer DEF Refuse, TypeOK, PC, tables, Goes, Finishes, Answers
<1> QED BY <1>1, <1>2, <1>3, <1>4, <1>5, <1>6, <1>7, <1>8, <1>9, <1>10, <1>11, <1>12, <1>13

\* The row CommitUpdate stores and the history row it may add.
LEMMA UpdateValues ==
  ASSUME TypeOK, NEW r \in Request, seen[r] \in Row
  PROVE  NewTarget(r) \in Target /\ NewActive(r) \in BOOLEAN
<1>1. body[r].target \in Target \cup {None} /\ body[r].active \in BOOLEAN \cup {None}
  BY DEF TypeOK, Body
<1>2. seen[r].target \in Target /\ seen[r].active \in BOOLEAN
  BY DEF Row
<1> QED BY <1>1, <1>2, MergeType DEF NewTarget, NewActive

\* The handlers that write a table keep the types.
LEMMA WriteTypes ==
  ASSUME TypeOK, NEW r \in Request, Held(r), Unborn(r),
         CommitInsert(r) \/ CommitUpdate(r) \/ CommitDelete(r) \/ InsertClick(r)
  PROVE  TypeOK'
<1>1. CASE CommitInsert(r)
  <2>1. body[r].target \in Target
    BY <1>1 DEF CommitInsert, Unborn, Goes
  <2>2. PICK s \in Slug :
          /\ links' = links \cup {[id |-> r, slug |-> s, target |-> body[r].target, active |-> TRUE]}
          /\ seen' = [seen EXCEPT ![r] =
               [id |-> r, slug |-> s, target |-> body[r].target, active |-> TRUE]]
    BY <1>1, <2>1 DEF CommitInsert, Candidates, TypeOK, Body
  <2>3. [id |-> r, slug |-> s, target |-> body[r].target, active |-> TRUE] \in Row
    BY <2>1 DEF Row
  <2>4. links' \subseteq Row /\ seen' \in [Request -> Row \cup {None}]
    BY <2>2, <2>3 DEF TypeOK
  <2>5. HistoryRow(r, r, None, body[r].target)
          \in [link : Request, old : Target \cup {None}, new : Target, at : Nat]
    BY <2>1 DEF HistoryRow, TypeOK
  <2>6. history' \subseteq [link : Request, old : Target \cup {None}, new : Target, at : Nat]
    BY <1>1, <2>5 DEF CommitInsert, BirthRows, TypeOK
  <2> QED BY <1>1, <2>4, <2>6, Answer DEF CommitInsert, TypeOK, PC, Goes, Finishes, Answers
<1>2. CASE CommitUpdate(r)
  <2>1. seen[r] \in Row
    BY <1>2 DEF CommitUpdate, Held, Holding, Goes
  <2>2. NewTarget(r) \in Target /\ NewActive(r) \in BOOLEAN
    BY <2>1, UpdateValues
  <2>4. links' \subseteq Row
    BY <1>2, <2>2 DEF CommitUpdate, TypeOK, Row
  <2>5. HistoryRow(r, seen[r].id, seen[r].target, NewTarget(r))
          \in [link : Request, old : Target \cup {None}, new : Target, at : Nat]
    BY <2>1, <2>2 DEF HistoryRow, TypeOK, Row
  <2>6. history' \subseteq [link : Request, old : Target \cup {None}, new : Target, at : Nat]
    BY <1>2, <2>5 DEF CommitUpdate, TypeOK
  <2> QED BY <1>2, <2>4, <2>6, Answer DEF CommitUpdate, TypeOK, tables, PC, Goes, Finishes, Answers
<1>3. CASE CommitDelete(r)
  BY <1>3, Answer DEF CommitDelete, Keeping, TypeOK, PC, Goes, Finishes, Answers
<1>4. CASE InsertClick(r)
  <2>1. seen[r].id \in Request
    BY <1>4 DEF InsertClick, Held, Holding, Goes, Row
  <2>2. clicks' \subseteq [link : Request, by : Request]
    BY <1>4, <2>1 DEF InsertClick, TypeOK
  <2> QED BY <1>4, <2>2 DEF InsertClick, TypeOK, PC, Goes
<1> QED BY <1>1, <1>2, <1>3, <1>4
-----------------------------------------------------------------------------
(***************************************************************************)
(* Steps that write no table.                                              *)
(***************************************************************************)
Quiet(r) ==
  \/ CreateLink(r) \/ BeginInsert(r) \/ CustomSlugTaken(r)
  \/ RetryInsert(r) \/ AttemptsExhausted(r) \/ Reread(r)
  \/ UpdateLink(r) \/ BeginUpdate(r) \/ UpdateMissed(r)
  \/ DeleteLink(r) \/ FollowLink(r) \/ LoseClick(r) \/ Refuse(r)

Writes(r) == CommitInsert(r) \/ CommitUpdate(r) \/ CommitDelete(r) \/ InsertClick(r)

\* A step of r changes no other request, and never takes r back to creating.
OthersUntouched(r) ==
  /\ \A q \in Request \ {r} :
       /\ pc'[q] = pc[q] /\ body'[q] = body[q] /\ seen'[q] = seen[q]
       /\ began'[q] = began[q] /\ reply'[q] = reply[q]
  /\ pc[r] \notin Before => pc'[r] \notin Before
  /\ pc[r] # "done"

\* Each step of a request leaves the goroutines of the others alone.
LEMMA StepFrame ==
  ASSUME TypeOK, NEW r \in Request, Quiet(r) \/ Writes(r)
  PROVE  OthersUntouched(r)
<1> USE DEF TypeOK, OthersUntouched, Before, Goes, Finishes, Answers, Begin
<1>1. CASE CreateLink(r)         BY <1>1 DEF CreateLink
<1>2. CASE BeginInsert(r)        BY <1>2 DEF BeginInsert
<1>3. CASE CustomSlugTaken(r)    BY <1>3 DEF CustomSlugTaken
<1>4. CASE RetryInsert(r)        BY <1>4 DEF RetryInsert
<1>5. CASE AttemptsExhausted(r)  BY <1>5 DEF AttemptsExhausted
<1>6. CASE Reread(r)             BY <1>6 DEF Reread
<1>7. CASE UpdateLink(r)         BY <1>7 DEF UpdateLink
<1>8. CASE BeginUpdate(r)        BY <1>8 DEF BeginUpdate
<1>9. CASE UpdateMissed(r)       BY <1>9 DEF UpdateMissed
<1>10. CASE DeleteLink(r)        BY <1>10 DEF DeleteLink
<1>11. CASE FollowLink(r)        BY <1>11 DEF FollowLink
<1>12. CASE LoseClick(r)         BY <1>12 DEF LoseClick
<1>13. CASE Refuse(r)            BY <1>13 DEF Refuse
<1>14. CASE CommitInsert(r)      BY <1>14 DEF CommitInsert
<1>15. CASE CommitUpdate(r)      BY <1>15 DEF CommitUpdate
<1>16. CASE CommitDelete(r)      BY <1>16 DEF CommitDelete
<1>17. CASE InsertClick(r)       BY <1>17 DEF InsertClick
<1> QED
  BY <1>1, <1>2, <1>3, <1>4, <1>5, <1>6, <1>7, <1>8, <1>9, <1>10, <1>11, <1>12, <1>13,
     <1>14, <1>15, <1>16, <1>17 DEF Quiet, Writes

\* A quiet step writes no table and never turns the clock back.
LEMMA QuietTables ==
  ASSUME TypeOK, NEW r \in Request, Quiet(r)
  PROVE  UNCHANGED tables /\ now' \in Nat /\ now' >= now
<1>1. UNCHANGED tables /\ (UNCHANGED now \/ now' = now + 1)
  BY DEF tables, Begin, Quiet, CreateLink, BeginInsert, CustomSlugTaken, RetryInsert,
     AttemptsExhausted, Reread, UpdateLink, BeginUpdate, UpdateMissed,
     DeleteLink, FollowLink, LoseClick, Refuse
<1> QED BY <1>1 DEF TypeOK

\* Without a write the table invariants can only be disturbed by the clock.
LEMMA QuietTableInv ==
  ASSUME TypeOK, TableInv, UNCHANGED tables, now' \in Nat, now' >= now
  PROVE  TableInv'
<1>1. SlugUnique' /\ NoOrphans' /\ BornOnce'
  BY DEF TableInv, tables, SlugUnique, NoOrphans, LinkExists, BornOnce, BirthRow
<1>2. \A h \in history : h.at \in Nat
  BY DEF TypeOK
<1>3. HistoryConnected'
  BY <1>2 DEF TypeOK, TableInv, tables, HistoryConnected, Explained
<1>4. (\A h \in history : h.at <= now)'
  BY <1>2 DEF TypeOK, TableInv, tables
<1> QED BY <1>1, <1>3, <1>4 DEF TableInv

\* What the invariant says of the requests that do not take the step.
LEMMA QuietOthers ==
  ASSUME TypeOK, NEW r \in Request, OthersUntouched(r),
         UNCHANGED tables, now' \in Nat, now' >= now,
         NEW q \in Request \ {r}, RequestInv(q)
  PROVE  RequestInv(q)'
<1>1. Held(q)'
  BY DEF RequestInv, Held, OthersUntouched, Row
<1>2. Unborn(q)'
  BY DEF RequestInv, Unborn, OthersUntouched, LinkExists, tables
<1>3. \A h \in history : h.at \in Nat
  BY DEF TypeOK
<1>4. SeenExplained(q)'
  BY <1>3 DEF TypeOK, RequestInv, SeenExplained, Explained, OthersUntouched, LinkExists, tables
<1>5. ClickPending(q)'
  BY DEF RequestInv, ClickPending, OthersUntouched
<1>6. began'[q] <= now'
  BY DEF TypeOK, RequestInv, OthersUntouched
<1>7. reply'[q] = "deleted" => Gone(seen[q].id)'
  BY DEF RequestInv, Gone, OthersUntouched, LinkExists, tables
<1> QED BY <1>1, <1>2, <1>4, <1>5, <1>6, <1>7 DEF RequestInv, OthersUntouched

\* Clicks already counted stay accounted for in a quiet step.
LEMMA QuietClicks ==
  ASSUME TypeOK, ClicksWereServed, NEW r \in Request, OthersUntouched(r), UNCHANGED tables
  PROVE  ClicksWereServed'
BY DEF TypeOK, ClicksWereServed, OthersUntouched, tables

\* A link that exists has its target explained, and its creator is past the insert.
LEMMA LivingLink ==
  ASSUME IndInv, NEW l \in links
  PROVE  /\ l \in Row
         /\ pc[l.id] \notin Before
         /\ Explained(l.id, l.target, now + 1)
         /\ LinkExists(l.id)
<1>1. l \in Row /\ l.id \in Request
  BY DEF IndInv, TypeOK, Row
<1>2. LinkExists(l.id)
  BY DEF LinkExists
<1>3. pc[l.id] \notin Before
  BY <1>1, <1>2 DEF IndInv, RequestInv, Unborn
<1> QED BY <1>1, <1>2, <1>3 DEF IndInv, TableInv, HistoryConnected

\* The request that takes a quiet step.
LEMMA QuietSelf ==
  ASSUME IndInv, NEW r \in Request, Quiet(r)
  PROVE  RequestInv(r)'
<1>1. UNCHANGED tables /\ now' \in Nat /\ now' >= now
  BY QuietTables DEF IndInv
<1>2. TypeOK /\ RequestInv(r) /\ pc \in [Request -> PC] /\ seen \in [Request -> Row \cup {None}]
  BY DEF IndInv, TypeOK
<1>3. pc' \in [Request -> PC] /\ (seen[r] \in Row => seen[r].id \in Request)
  BY <1>2, QuietTypes DEF Quiet, TypeOK, Row
<1>4. \A h \in history : h.at \in Nat
  BY DEF IndInv, TypeOK
<1>5. OthersUntouched(r)
  BY <1>2, StepFrame
<1>6. reply[r] # "deleted"
  BY <1>2, <1>5 DEF RequestInv, Held, OthersUntouched
<1>7. \A l \in links : pc'[l.id] \notin Before
  BY <1>2, <1>5, LivingLink DEF OthersUntouched, Row
<1>8. seen'[r] = seen[r] => (seen'[r] \in Row => pc'[seen'[r].id] \notin Before)
  BY <1>2, <1>3, <1>5 DEF RequestInv, Held, OthersUntouched
<1>9. (seen'[r] \in links \/ seen'[r] = seen[r]) =>
        (seen'[r] \in Row => pc'[seen'[r].id] \notin Before)
  BY <1>7, <1>8
<1> DEFINE Sound ==
      /\ seen'[r] \in links \/ seen'[r] = seen[r]
      /\ pc'[r] \in Holding => seen'[r] \in Row
      /\ pc'[r] \in Before => pc[r] \in Before
      /\ pc'[r] \in {"insert", "inserting"} => body'[r].target \in Target
      /\ SeenExplained(r)'
      /\ pc'[r] = "click" => reply'[r] = "redirect"
      /\ began'[r] <= now'
      /\ reply'[r] # "deleted"
<1>10. ASSUME Sound PROVE RequestInv(r)'
  BY <1>1, <1>2, <1>9, <1>10 DEF RequestInv, Held, Unborn, LinkExists, ClickPending, tables
<1> HIDE DEF Sound
<1>11. CASE CreateLink(r)
  <2>1. pc'[r] = "insert" /\ pc[r] = "idle" /\ UNCHANGED <<seen, reply, began>>
    BY <1>2, <1>11 DEF CreateLink, Goes, TypeOK
  <2>2. body'[r].target \in Target
    BY <1>2, <1>11 DEF CreateLink, TypeOK
  <2> QED BY <1>1, <1>2, <1>6, <1>10, <2>1, <2>2 DEF Sound, Holding, Before, RequestInv, SeenExplained, TypeOK
<1>12. CASE BeginInsert(r)
  <2>1. pc'[r] = "inserting" /\ pc[r] = "insert" /\ UNCHANGED <<seen, body, reply>>
    BY <1>2, <1>12 DEF BeginInsert, Goes, TypeOK
  <2>2. began'[r] = now'
    BY <1>2, <1>12 DEF BeginInsert, Begin, TypeOK
  <2> QED BY <1>1, <1>2, <1>6, <1>10, <2>1, <2>2
      DEF Sound, Holding, Before, RequestInv, Unborn, SeenExplained, TypeOK
<1>13. CASE CustomSlugTaken(r)
  BY <1>1, <1>2, <1>6, <1>10, <1>13, LivingLink DEF Sound, CustomSlugTaken, Goes, Finishes, Answers,
     RequestInv, Held, SeenExplained, Holding, Before, TypeOK
<1>14. CASE RetryInsert(r)
  <2>1. pc'[r] = "insert" /\ pc[r] = "inserting" /\ UNCHANGED <<seen, body, began, reply>>
    BY <1>2, <1>14 DEF RetryInsert, Goes, TypeOK
  <2> QED BY <1>1, <1>2, <1>6, <1>10, <2>1
      DEF Sound, Holding, Before, RequestInv, Unborn, SeenExplained, TypeOK
<1>15. CASE AttemptsExhausted(r)
  BY <1>1, <1>2, <1>6, <1>10, <1>15, LivingLink DEF Sound, AttemptsExhausted, Goes, Finishes, Answers,
     RequestInv, Held, SeenExplained, Holding, Before, TypeOK
<1>16. CASE Reread(r)
  <2>1. pc'[r] = "done" /\ UNCHANGED <<seen, began>>
    BY <1>2, <1>16 DEF Reread, Finishes, Goes, TypeOK
  <2>2. reply'[r] # "deleted"
    BY <1>2, <1>16 DEF Reread, Finishes, Answers, TypeOK
  <2> QED BY <1>1, <1>2, <1>10, <2>1, <2>2
      DEF Sound, Holding, Before, RequestInv, SeenExplained, TypeOK
<1>17. CASE UpdateLink(r)
  <2>1. pc'[r] = "update" /\ UNCHANGED <<began, reply>>
    BY <1>2, <1>17 DEF UpdateLink, Goes, TypeOK
  <2>2. seen'[r] \in links
    BY <1>2, <1>17 DEF UpdateLink, TypeOK
  <2>3. seen'[r] \in Row /\ Explained(seen'[r].id, seen'[r].target, now + 1)
    BY <2>2, LivingLink
  <2>4. SeenExplained(r)'
    BY <1>1, <1>17, <2>1, <2>3 DEF UpdateLink, SeenExplained, Explained, tables
  <2> QED BY <1>1, <1>2, <1>6, <1>10, <2>1, <2>2, <2>3, <2>4 DEF Sound, Before, RequestInv, TypeOK
<1>18. CASE BeginUpdate(r)
  <2>1. pc'[r] = "updating" /\ pc[r] = "update" /\ UNCHANGED <<seen, body, reply>>
    BY <1>2, <1>18 DEF BeginUpdate, Goes, TypeOK
  <2>2. began'[r] = now' /\ now' = now + 1
    BY <1>2, <1>18 DEF BeginUpdate, Begin, TypeOK
  <2>3. SeenExplained(r)'
    BY <1>1, <1>2, <2>1, <2>2 DEF RequestInv, SeenExplained, Explained, LinkExists, tables
  <2> QED BY <1>1, <1>2, <1>6, <1>10, <2>1, <2>2, <2>3 DEF Sound, Holding, Before, RequestInv, Held, TypeOK
<1>19. CASE UpdateMissed(r)
  <2>1. /\ pc[r] = "updating" /\ pc'[r] \in {"done", "reread"}
        /\ UNCHANGED <<seen, body, began>>
    BY <1>2, <1>19 DEF UpdateMissed, Finishes, Goes, TypeOK
  <2>2. reply'[r] # "deleted"
    BY <1>2, <1>19, <1>6 DEF UpdateMissed, Finishes, Answers, TypeOK
  <2> QED BY <1>1, <1>2, <1>10, <2>1, <2>2
      DEF Sound, Holding, Before, RequestInv, Held, SeenExplained, TypeOK
<1>20. CASE DeleteLink(r)
  BY <1>1, <1>2, <1>6, <1>10, <1>20, LivingLink DEF Sound, DeleteLink, Goes, Finishes, Answers,
     RequestInv, Held, SeenExplained, Holding, Before, TypeOK
<1>21. CASE FollowLink(r)
  <2>1. pc'[r] \in {"click", "done"} /\ UNCHANGED began
    BY <1>2, <1>21 DEF FollowLink, TypeOK
  <2>2. seen'[r] \in links /\ seen'[r] \in Row
    BY <1>2, <1>21, LivingLink DEF FollowLink, TypeOK
  <2>3. reply'[r] # "deleted" /\ (pc'[r] = "click" => reply'[r] = "redirect")
    BY <1>2, <1>21 DEF FollowLink, Answers, Counts, TypeOK
  <2> QED BY <1>1, <1>2, <1>10, <2>1, <2>2, <2>3 DEF Sound, Before, RequestInv, SeenExplained, TypeOK
<1>22. CASE LoseClick(r)
  BY <1>1, <1>2, <1>6, <1>10, <1>22, LivingLink DEF Sound, LoseClick, Goes, Finishes, Answers,
     RequestInv, Held, SeenExplained, Holding, Before, TypeOK
<1>23. CASE Refuse(r)
  BY <1>1, <1>2, <1>6, <1>10, <1>23, LivingLink DEF Sound, Refuse, Goes, Finishes, Answers,
     RequestInv, Held, SeenExplained, Holding, Before, TypeOK
<1> QED
  BY <1>2, <1>11, <1>12, <1>13, <1>14, <1>15, <1>16, <1>17, <1>18, <1>19, <1>20, <1>21, <1>22, <1>23 DEF Quiet
-----------------------------------------------------------------------------
(***************************************************************************)
(* Steps that write a table.                                               *)
(***************************************************************************)

\* CreateLink's transaction: the id is fresh, the slug is free.
LEMMA InsertTables ==
  ASSUME IndInv, NEW r \in Request, CommitInsert(r)
  PROVE  TableInv' /\ (\A id \in Request \ {r} : LinkExists(id)' => LinkExists(id))
<1>1. TypeOK /\ TableInv /\ pc[r] = "inserting" /\ ~LinkExists(r) /\ body[r].target \in Target
      /\ began[r] <= now
  BY DEF IndInv, TypeOK, CommitInsert, Goes, RequestInv, Unborn, Before
<1>2. PICK s \in Slug :
        /\ SlugFree(s)
        /\ links' = links \cup {[id |-> r, slug |-> s, target |-> body[r].target, active |-> TRUE]}
  BY <1>1 DEF CommitInsert, Candidates, TypeOK, Body
<1>3. PICK birth : birth = [link |-> r, old |-> None, new |-> body[r].target, at |-> began[r]]
  OBVIOUS
<1>4. PICK row : row = [id |-> r, slug |-> s, target |-> body[r].target, active |-> TRUE]
  OBVIOUS
<1>5. /\ birth.link = r /\ birth.old = None /\ birth.new = body[r].target /\ birth.at = began[r]
      /\ row.id = r /\ row.slug = s /\ row.target = body[r].target
  BY <1>3, <1>4
<1>6. /\ history' = history \cup {birth} /\ now' = now /\ clicks' = clicks
       /\ links' = links \cup {row}
  BY <1>2, <1>3, <1>4 DEF CommitInsert, BirthRows, HistoryRow
<1>7. \A h \in history : h.link # r
  BY <1>1 DEF TableInv, NoOrphans
<1>8. SlugUnique'
  BY <1>1, <1>2, <1>5, <1>6 DEF TableInv, SlugUnique, SlugFree, LinkExists
<1>9. \A id : LinkExists(id) => LinkExists(id)'
  BY <1>5, <1>6 DEF LinkExists
<1>10. LinkExists(r)'
  BY <1>5, <1>6 DEF LinkExists
<1>11. NoOrphans'
  BY <1>1, <1>9, <1>10, <1>5, <1>6 DEF TableInv, NoOrphans
<1>12. BornOnce'
  <2>1. ASSUME NEW l \in links PROVE \E h \in history' : h.link = l.id /\ BirthRow(h)'
    <3>1. PICK h \in history : h.link = l.id /\ BirthRow(h)
      BY <1>1 DEF TableInv, BornOnce
    <3>2. BirthRow(h)'
      BY <1>7, <3>1, <1>5, <1>6 DEF BirthRow
    <3> QED BY <3>1, <3>2, <1>5, <1>6
  <2>2. BirthRow(birth)' /\ birth \in history'
    BY <1>7, <1>5, <1>6 DEF BirthRow
  <2> QED BY <2>1, <2>2, <1>5, <1>6 DEF BornOnce
<1>13. HistoryConnected'
  <2>1. ASSUME NEW id, NEW t, NEW b, Explained(id, t, b) PROVE Explained(id, t, b)'
    BY <2>1, <1>5, <1>6 DEF Explained
  <2>2. began[r] < now + 1
    BY <1>1 DEF TypeOK
  <2>3. Explained(row.id, row.target, now + 1)'
    BY <2>2, <1>5, <1>6 DEF Explained
  <2>4. \A l \in links' : Explained(l.id, l.target, now + 1)'
    BY <1>1, <2>1, <2>3, <1>5, <1>6 DEF TableInv, HistoryConnected
  <2>5. \A h \in history' : h.old # None => Explained(h.link, h.old, h.at)'
    BY <1>1, <2>1, <1>5, <1>6 DEF TableInv, HistoryConnected
  <2> QED BY <2>4, <2>5 DEF HistoryConnected
<1>14. (\A h \in history : h.at <= now)'
  BY <1>1, <1>5, <1>6 DEF TableInv
<1>15. \A id \in Request \ {r} : LinkExists(id)' => LinkExists(id)
  BY <1>5, <1>6 DEF LinkExists
<1> QED BY <1>8, <1>11, <1>12, <1>13, <1>14, <1>15 DEF TableInv

\* UpdateLink's transaction: ids, slugs and the set of links stay, and a row
\* added to the history is later than the row that explains its old target.
LEMMA UpdateTables ==
  ASSUME IndInv, NEW r \in Request, CommitUpdate(r)
  PROVE  /\ TableInv'
         /\ \A id : LinkExists(id)' <=> LinkExists(id)
         /\ \A id, t, b : Explained(id, t, b) => Explained(id, t, b)'
<1>1. TypeOK /\ TableInv /\ pc[r] = "updating" /\ seen[r] \in Row /\ began[r] <= now
  BY DEF IndInv, TypeOK, CommitUpdate, Goes, RequestInv, Held, Holding
<1>2. PICK l \in links : l.id = seen[r].id /\ links' = (links \ {l}) \cup
        {[id |-> l.id, slug |-> l.slug, target |-> NewTarget(r), active |-> NewActive(r)]}
  BY DEF CommitUpdate
<1>3. PICK row : row = [id |-> l.id, slug |-> l.slug, target |-> NewTarget(r), active |-> NewActive(r)]
  OBVIOUS
<1>4. PICK add : add = [link |-> seen[r].id, old |-> seen[r].target, new |-> NewTarget(r), at |-> began[r]]
  OBVIOUS
<1>5. /\ row.id = l.id /\ row.slug = l.slug /\ row.target = NewTarget(r)
      /\ add.link = l.id /\ add.old = seen[r].target /\ add.new = NewTarget(r) /\ add.at = began[r]
  BY <1>2, <1>3, <1>4
<1>6. /\ now' = now /\ clicks' = clicks /\ links' = (links \ {l}) \cup {row}
      /\ \/ NewTarget(r) # seen[r].target /\ history' = history \cup {add}
         \/ NewTarget(r) = seen[r].target /\ history' = history
  BY <1>2, <1>3, <1>4 DEF CommitUpdate, TargetChanges, HistoryRow
<1>7. \A id : LinkExists(id)' <=> LinkExists(id)
  BY <1>5, <1>6 DEF LinkExists
<1>8. Explained(l.id, seen[r].target, began[r])
  <2>1. LinkExists(seen[r].id)
    BY <1>2 DEF LinkExists
  <2> QED BY <1>1, <1>2, <2>1 DEF IndInv, RequestInv, SeenExplained
<1>9. \A id, t, b : Explained(id, t, b) => Explained(id, t, b)'
  BY <1>6 DEF Explained
<1>10. SlugUnique'
  BY <1>1, <1>5, <1>6 DEF TableInv, SlugUnique
<1>11. NoOrphans'
  <2>1. LinkExists(l.id)'
    BY <1>5, <1>6 DEF LinkExists
  <2> QED BY <1>1, <1>5, <1>6, <1>7, <2>1 DEF TableInv, NoOrphans
<1>12. BornOnce'
  <2>1. ASSUME NEW k \in links PROVE \E h \in history' : h.link = k.id /\ BirthRow(h)'
    <3>1. PICK h \in history : h.link = k.id /\ BirthRow(h)
      BY <1>1 DEF TableInv, BornOnce
    <3>2. CASE history' = history
      BY <3>1, <3>2 DEF BirthRow
    <3>3. CASE history' = history \cup {add}
      <4>1. PICK e \in history : e.link = l.id /\ e.at < began[r]
        BY <1>8 DEF Explained
      <4>2. add.old # None
        BY <1>1, <1>5, LinksAssumption DEF Row
      <4>3. h.at \in Nat /\ e.at \in Nat /\ began[r] \in Nat
        BY <1>1 DEF TypeOK
      <4>4. h.link = l.id => h.at < began[r]
        BY <3>1, <4>1, <4>3 DEF BirthRow
      <4>5. BirthRow(h)'
        BY <1>5, <3>1, <3>3, <4>2, <4>4 DEF BirthRow
      <4> QED BY <3>1, <3>3, <4>5
    <3> QED BY <1>6, <3>2, <3>3
  <2> QED BY <1>5, <1>6, <2>1 DEF BornOnce
<1>13. HistoryConnected'
  <2>1. began[r] < now + 1 /\ began[r] \in Nat /\ now \in Nat /\ \A h \in history : h.at \in Nat
    BY <1>1 DEF TypeOK
  <2>2. Explained(row.id, row.target, now + 1)'
    <3>1. CASE history' = history \cup {add}
      BY <1>5, <1>6, <2>1, <3>1 DEF Explained
    <3>2. CASE NewTarget(r) = seen[r].target
      BY <1>5, <1>6, <1>8, <2>1, <3>2 DEF Explained
    <3> QED BY <1>6, <3>1, <3>2
  <2>3. \A k \in links' : Explained(k.id, k.target, now + 1)'
    BY <1>1, <1>6, <1>9, <2>2 DEF TableInv, HistoryConnected
  <2>4. Explained(add.link, add.old, add.at)'
    BY <1>5, <1>8, <1>9
  <2>5. \A h \in history' : h.old # None => Explained(h.link, h.old, h.at)'
    BY <1>1, <1>6, <1>9, <2>4 DEF TableInv, HistoryConnected
  <2> QED BY <2>3, <2>5 DEF HistoryConnected
<1>14. (\A h \in history : h.at <= now)'
  BY <1>1, <1>5, <1>6 DEF TableInv
<1> QED BY <1>7, <1>9, <1>10, <1>11, <1>12, <1>13, <1>14 DEF TableInv

\* DeleteLink: the cascade takes every row of the link, and only those.
LEMMA DeleteTables ==
  ASSUME IndInv, NEW r \in Request, CommitDelete(r)
  PROVE  /\ TableInv'
         /\ \A id : LinkExists(id)' <=> LinkExists(id) /\ id # seen[r].id
         /\ \A id, t, b : id # seen[r].id /\ Explained(id, t, b) => Explained(id, t, b)'
         /\ Gone(seen[r].id)'
<1>1. TypeOK /\ TableInv
  BY DEF IndInv
<1>2. /\ links' = {l \in links : l.id # seen[r].id}
      /\ history' = {h \in history : h.link # seen[r].id}
      /\ clicks' = {c \in clicks : c.link # seen[r].id}
      /\ now' = now /\ seen' = seen
  BY DEF CommitDelete, Keeping
<1>3. \A id : LinkExists(id)' <=> LinkExists(id) /\ id # seen[r].id
  BY <1>2 DEF LinkExists
<1>4. \A id, t, b : id # seen[r].id /\ Explained(id, t, b) => Explained(id, t, b)'
  BY <1>2 DEF Explained
<1>5. SlugUnique'
  BY <1>1, <1>2 DEF TableInv, SlugUnique
<1>6. NoOrphans'
  BY <1>1, <1>2, <1>3 DEF TableInv, NoOrphans
<1>7. BornOnce'
  BY <1>1, <1>2 DEF TableInv, BornOnce, BirthRow
<1>8. HistoryConnected'
  BY <1>1, <1>2, <1>4 DEF TableInv, HistoryConnected
<1>9. (\A h \in history : h.at <= now)'
  BY <1>1, <1>2 DEF TableInv
<1>10. Gone(seen[r].id)'
  BY <1>2, <1>3 DEF Gone
<1> QED BY <1>3, <1>4, <1>5, <1>6, <1>7, <1>8, <1>9, <1>10 DEF TableInv

\* The recorder's insert passes the foreign key.
LEMMA ClickTables ==
  ASSUME IndInv, NEW r \in Request, InsertClick(r)
  PROVE  TableInv'
BY DEF IndInv, TableInv, InsertClick, ForeignKeyHolds, SlugUnique, NoOrphans, BornOnce, BirthRow,
   HistoryConnected, Explained, LinkExists

\* The requests that do not take a writing step.
LEMMA WriteOthers ==
  ASSUME IndInv, NEW r \in Request, Writes(r), NEW q \in Request \ {r}
  PROVE  RequestInv(q)'
<1>1. TypeOK /\ OthersUntouched(r) /\ RequestInv(q)
  BY StepFrame DEF IndInv
<1>2. pc'[q] = pc[q] /\ body'[q] = body[q] /\ seen'[q] = seen[q] /\ began'[q] = began[q]
      /\ reply'[q] = reply[q]
  BY <1>1 DEF OthersUntouched
<1>3. now' = now
  BY DEF Writes, CommitInsert, CommitUpdate, CommitDelete, InsertClick
<1>4. Held(q)'
  BY <1>1, <1>2 DEF RequestInv, Held, OthersUntouched, Row
<1>5. ClickPending(q)' /\ began'[q] <= now'
  BY <1>1, <1>2, <1>3 DEF RequestInv, ClickPending
<1>6. pc[q] \in Holding \/ reply[q] = "deleted" => seen[q] \in Row /\ seen[q].id \in Request
  BY <1>1 DEF RequestInv, Held, Row
\* It is enough that no id of q's concern is inserted and that what explains
\* q's row survives wherever the link does.
<1>7. ASSUME LinkExists(q)' => LinkExists(q),
             pc[q] \in Holding /\ LinkExists(seen[q].id)' => LinkExists(seen[q].id),
             \A t, b : pc[q] \in Holding /\ LinkExists(seen[q].id)' /\ Explained(seen[q].id, t, b) =>
               \E h \in history' : h.link = seen[q].id /\ h.new = t /\ h.at < b,
             reply[q] = "deleted" /\ Gone(seen[q].id) => Gone(seen[q].id)'
      PROVE  RequestInv(q)'
  <2>1. Unborn(q)'
    BY <1>1, <1>2, <1>7 DEF RequestInv, Unborn, LinkExists
  <2>2. SeenExplained(q)'
    <3>1. pc[q] = "update" /\ LinkExists(seen[q].id)' =>
            \E h \in history' : h.link = seen[q].id /\ h.new = seen[q].target /\ h.at < now + 1
      BY <1>1, <1>7 DEF RequestInv, SeenExplained, Holding
    <3>2. pc[q] = "updating" /\ LinkExists(seen[q].id)' =>
            \E h \in history' : h.link = seen[q].id /\ h.new = seen[q].target /\ h.at < began[q]
      BY <1>1, <1>7 DEF RequestInv, SeenExplained, Holding
    <3> QED BY <1>2, <1>3, <3>1, <3>2 DEF SeenExplained, Explained, LinkExists
  <2>3. reply'[q] = "deleted" => Gone(seen[q].id)'
    BY <1>1, <1>2, <1>7 DEF RequestInv, Gone
  <2> QED BY <1>2, <1>4, <1>5, <2>1, <2>2, <2>3 DEF RequestInv
<1>8. CASE CommitInsert(r)
  <2>1. \A id \in Request \ {r} : LinkExists(id)' => LinkExists(id)
    BY <1>8, InsertTables
  <2>2. seen[q] \in Row => seen[q].id # r
    BY <1>1, <1>8 DEF CommitInsert, Goes, RequestInv, Held, Before
  <2>3. /\ \A h \in history' : h \in history \/ h.link = r
        /\ history \subseteq history' /\ clicks' = clicks
    BY <1>8 DEF CommitInsert, BirthRows, HistoryRow
  <2>4. reply[q] = "deleted" /\ Gone(seen[q].id) => Gone(seen[q].id)'
    BY <1>2, <1>6, <2>1, <2>2, <2>3 DEF Gone, LinkExists
  <2>5. pc[q] \in Holding /\ LinkExists(seen[q].id)' => LinkExists(seen[q].id)
    BY <1>2, <1>6, <2>1, <2>2 DEF LinkExists
  <2> QED BY <1>7, <2>1, <2>3, <2>4, <2>5 DEF Explained
<1>9. CASE CommitUpdate(r)
  <2>1. \A id : LinkExists(id)' <=> LinkExists(id)
    BY <1>9, UpdateTables
  <2>2. seen[r] \in links \/ LinkExists(seen[r].id)
    BY <1>9 DEF CommitUpdate, LinkExists
  <2>3. /\ \A h \in history' : h \in history \/ h.link = seen[r].id
        /\ history \subseteq history' /\ clicks' = clicks
    BY <1>9 DEF CommitUpdate, HistoryRow
  <2>4. reply[q] = "deleted" /\ Gone(seen[q].id) => Gone(seen[q].id)'
    BY <1>2, <2>1, <2>2, <2>3 DEF Gone, LinkExists
  <2>5. pc[q] \in Holding /\ LinkExists(seen[q].id)' => LinkExists(seen[q].id)
    BY <1>2, <2>1 DEF LinkExists
  <2> QED BY <1>7, <2>1, <2>3, <2>4, <2>5 DEF Explained
<1>10. CASE CommitDelete(r)
  <2>1. \A id : LinkExists(id)' => LinkExists(id) /\ id # seen[r].id
    BY <1>10, DeleteTables
  <2>2. /\ history' = {h \in history : h.link # seen[r].id}
        /\ clicks' \subseteq clicks
    BY <1>10 DEF CommitDelete, Keeping
  <2>3. reply[q] = "deleted" /\ Gone(seen[q].id) => Gone(seen[q].id)'
    BY <1>2, <2>1, <2>2 DEF Gone, LinkExists
  <2>4. pc[q] \in Holding /\ LinkExists(seen[q].id)' =>
          LinkExists(seen[q].id) /\ seen[q].id # seen[r].id
    BY <1>2, <2>1 DEF LinkExists
  <2> QED BY <1>7, <2>1, <2>2, <2>3, <2>4 DEF Explained
<1>11. CASE InsertClick(r)
  <2>1. links' = links /\ history' = history /\ LinkExists(seen[r].id)
        /\ clicks' = clicks \cup {[link |-> seen[r].id, by |-> r]}
    BY <1>11 DEF InsertClick, ForeignKeyHolds
  <2>2. reply[q] = "deleted" /\ Gone(seen[q].id) => Gone(seen[q].id)'
    BY <1>2, <2>1 DEF Gone, LinkExists
  <2> QED BY <1>2, <1>7, <2>1, <2>2 DEF Explained, LinkExists
<1> QED BY <1>8, <1>9, <1>10, <1>11 DEF Writes

\* The request that takes a writing step, and the clicks.
LEMMA WriteSelf ==
  ASSUME IndInv, NEW r \in Request, Writes(r)
  PROVE  RequestInv(r)' /\ ClicksWereServed'
<1>1. TypeOK /\ OthersUntouched(r) /\ RequestInv(r) /\ ClicksWereServed
  BY StepFrame DEF IndInv
<1>2. /\ pc[r] \notin {"idle", "done"} /\ began' = began /\ now' = now
      /\ reply[r] # "deleted"
  BY <1>1 DEF Writes, CommitInsert, CommitUpdate, CommitDelete, InsertClick,
     Goes, Finishes, RequestInv, Held
<1>3. pc'[r] \in {"reread", "done"}
  BY <1>1 DEF TypeOK, Writes, CommitInsert, CommitUpdate, CommitDelete, InsertClick, Goes, Finishes
<1>4. \A c \in clicks : c.by \in Request /\ c.by # r
  BY <1>1, <1>2 DEF TypeOK, ClicksWereServed
<1>5. CASE CommitInsert(r)
  <2>1. PICK s \in Slug : seen'[r] = [id |-> r, slug |-> s, target |-> body[r].target, active |-> TRUE]
    <3>1. pc[r] = "inserting"
      BY <1>5 DEF CommitInsert, Goes
    <3> QED BY <1>1, <1>5, <3>1 DEF CommitInsert, Candidates, TypeOK, Body
  <2>2. body[r].target \in Target
    BY <1>1, <1>5 DEF CommitInsert, Goes, RequestInv, Unborn
  <2>3. seen'[r] \in Row /\ seen'[r].id = r
    BY <2>1, <2>2 DEF Row
  <2>4. pc'[r] = "reread" /\ reply' = reply /\ clicks' = clicks
    BY <1>1, <1>5 DEF CommitInsert, Goes, TypeOK
  <2>5. ClicksWereServed'
    BY <1>1, <1>4, <2>4 DEF ClicksWereServed, OthersUntouched
  <2> QED BY <1>1, <1>2, <2>3, <2>4, <2>5
      DEF RequestInv, Held, Unborn, SeenExplained, ClickPending, Holding, Before
<1>6. CASE ~CommitInsert(r)
  <2>1. seen' = seen
    BY <1>6 DEF Writes, CommitUpdate, CommitDelete, InsertClick
  <2>2. pc[r] \in Holding /\ seen[r] \in Row
    BY <1>1, <1>6 DEF Writes, CommitUpdate, CommitDelete, InsertClick, Goes, Finishes,
       RequestInv, Held, Holding
  <2>3. pc'[seen[r].id] \notin Before
    BY <1>1, <1>3, <2>2 DEF RequestInv, Held, OthersUntouched, Row, Before
  <2>4. reply'[r] = "deleted" => pc'[r] = "done" /\ Gone(seen[r].id)'
    BY <1>1, <1>2, <1>6, DeleteTables
       DEF Writes, CommitUpdate, CommitDelete, InsertClick, Finishes, Goes, TypeOK
  <2>5. RequestInv(r)'
    BY <1>1, <1>2, <1>3, <2>1, <2>2, <2>3, <2>4
       DEF RequestInv, Held, Unborn, SeenExplained, ClickPending, Holding, Before
  <2>6. ClicksWereServed'
    <3>1. CASE InsertClick(r)
      <4>1. /\ pc[r] = "click" /\ pc'[r] = "done" /\ reply' = reply
            /\ clicks' = clicks \cup {[link |-> seen[r].id, by |-> r]}
        BY <1>1, <3>1 DEF InsertClick, Goes, TypeOK
      <4>2. reply[r] = "redirect"
        BY <1>1, <4>1 DEF RequestInv, ClickPending
      <4> QED BY <1>1, <1>4, <2>1, <4>1, <4>2 DEF ClicksWereServed, OthersUntouched
    <3>2. CASE CommitUpdate(r) \/ CommitDelete(r)
      <4>1. clicks' \subseteq clicks
        BY <3>2 DEF CommitUpdate, CommitDelete, Keeping
      <4> QED BY <1>1, <1>4, <2>1, <4>1 DEF ClicksWereServed, OthersUntouched
    <3> QED BY <1>6, <3>1, <3>2 DEF Writes
  <2> QED BY <2>5, <2>6
<1> QED BY <1>5, <1>6
-----------------------------------------------------------------------------
(***************************************************************************)
(* The invariant, and what it gives.                                       *)
(***************************************************************************)
\* The empty store satisfies the invariant.
LEMMA InitIndInv == Init => IndInv
<1> SUFFICES ASSUME Init PROVE IndInv
  OBVIOUS
<1>1. TypeOK
  BY DEF Init, TypeOK, PC, Body, Reply
<1>2. TableInv /\ ClicksWereServed
  BY DEF Init, TableInv, SlugUnique, NoOrphans, BornOnce, HistoryConnected, ClicksWereServed
<1>3. None \notin Row
  BY LinksAssumption
<1>4. ASSUME NEW r \in Request PROVE RequestInv(r)
  <2>1. pc[r] = "idle" /\ seen[r] = None /\ reply[r] = None /\ began[r] = 0 /\ now = 0 /\ links = {}
    BY DEF Init
  <2>2. None # "deleted"
    BY LinksAssumption
  <2> QED BY <1>3, <2>1, <2>2 DEF Init, RequestInv, Held, Unborn, SeenExplained, ClickPending, Holding, Before,
     LinkExists
<1> QED BY <1>1, <1>2, <1>4 DEF IndInv

\* Every step of every handler preserves the invariant.
LEMMA NextIndInv == IndInv /\ [Next]_vars => IndInv'
<1> SUFFICES ASSUME IndInv, [Next]_vars PROVE IndInv'
  OBVIOUS
<1>1. CASE UNCHANGED vars
  BY <1>1 DEF vars, tables, IndInv, TypeOK, TableInv, SlugUnique, NoOrphans, BornOnce, BirthRow,
     HistoryConnected, Explained, ClicksWereServed, LinkExists, RequestInv, Held, Unborn,
     SeenExplained, ClickPending, Gone
<1>2. ASSUME NEW r \in Request, Quiet(r) PROVE IndInv'
  <2>1. UNCHANGED tables /\ now' \in Nat /\ now' >= now /\ OthersUntouched(r) /\ TypeOK
    BY <1>2, QuietTables, StepFrame DEF IndInv
  <2>2. TypeOK'
    BY <1>2, QuietTypes DEF IndInv, Quiet
  <2>3. TableInv' /\ ClicksWereServed'
    BY <2>1, QuietTableInv, QuietClicks DEF IndInv
  <2>4. RequestInv(r)'
    BY <1>2, QuietSelf
  <2>5. \A q \in Request \ {r} : RequestInv(q)'
    BY <2>1, QuietOthers DEF IndInv
  <2> QED BY <2>2, <2>3, <2>4, <2>5 DEF IndInv
<1>3. ASSUME NEW r \in Request, Writes(r) PROVE IndInv'
  <2>1. TypeOK'
    BY <1>3, WriteTypes DEF IndInv, RequestInv, Writes
  <2>2. TableInv'
    BY <1>3, InsertTables, UpdateTables, DeleteTables, ClickTables DEF Writes
  <2>3. RequestInv(r)' /\ ClicksWereServed'
    BY <1>3, WriteSelf
  <2>4. \A q \in Request \ {r} : RequestInv(q)'
    BY <1>3, WriteOthers
  <2> QED BY <2>1, <2>2, <2>3, <2>4 DEF IndInv
<1> QED BY <1>1, <1>2, <1>3 DEF Next, Arrive, Handle, Quiet, Writes

\* The inductive invariant holds in every reachable state.
THEOREM Invariance == Spec => []IndInv
BY InitIndInv, NextIndInv, PTL DEF Spec

\* The variables keep their types in every reachable state.
THEOREM TypeCorrect == Spec => []TypeOK
BY Invariance, PTL DEF IndInv

\* Slugs are globally unique (README, Product Rules, Links 2), however many
\* creations race.
THEOREM SlugsAreUnique == Spec => []SlugUnique
BY Invariance, PTL DEF IndInv, TableInv

\* No history row and no click ever refers to a link that is not there.
THEOREM NeverOrphaned == Spec => []NoOrphans
BY Invariance, PTL DEF IndInv, TableInv

\* Each link has one birth row, and it is the oldest of its history.
THEOREM BirthRecorded == Spec => []BornOnce
BY Invariance, PTL DEF IndInv, TableInv

\* Every target a link points at or ever moved away from is in its history,
\* in spite of the lost updates that concurrent PATCHes cause.
THEOREM HistoryIsConnected == Spec => []HistoryConnected
BY Invariance, PTL DEF IndInv, TableInv

\* Only redirected GETs are counted as clicks, on the link they were sent to.
THEOREM OnlyServedClicks == Spec => []ClicksWereServed
BY Invariance, PTL DEF IndInv

\* After a 204 to DELETE nothing of the link ever comes back.
THEOREM DeletionIsFinal == Spec => []DeletedStaysDeleted
<1>1. IndInv => DeletedStaysDeleted
  BY DEF IndInv, RequestInv, Gone, DeletedStaysDeleted
<1> QED BY <1>1, Invariance, PTL
-----------------------------------------------------------------------------
(***************************************************************************)
(* The store implements LinkRegistry.                                      *)
(***************************************************************************)

\* A committed creation publishes the link.
LEMMA InsertPublishes ==
  ASSUME IndInv, NEW r \in Request, CommitInsert(r)
  PROVE  Registry!Next
<1>1. TypeOK /\ pc[r] = "inserting" /\ ~LinkExists(r) /\ body[r].target \in Target /\ NoOrphans
  BY DEF IndInv, TableInv, TypeOK, CommitInsert, Goes, RequestInv, Unborn, Before
<1>2. PICK s \in Slug :
        /\ SlugFree(s)
        /\ links' = links \cup {[id |-> r, slug |-> s, target |-> body[r].target, active |-> TRUE]}
  BY <1>1 DEF CommitInsert, Candidates, TypeOK, Body
<1>3. PICK birth : birth = [link |-> r, old |-> None, new |-> body[r].target, at |-> began[r]]
  OBVIOUS
<1>4. birth.link = r /\ birth.old = None /\ birth.new = body[r].target
  BY <1>3
<1>5. history' = history \cup {birth} /\ clicks' = clicks
  BY <1>3 DEF CommitInsert, BirthRows, HistoryRow
<1>6. birth \notin history
  BY <1>1, <1>4 DEF NoOrphans
<1>7. birth \in Registry!Added
  BY <1>5, <1>6 DEF Registry!Added
<1>8. r \notin Registry!Living
  BY <1>1 DEF LinkExists, Registry!Living
<1>9. Registry!Publish(r, s, body[r].target)
  BY <1>2, <1>4, <1>5, <1>7, <1>8 DEF SlugFree, Registry!Publish
<1> QED BY <1>1, <1>9 DEF Registry!Next

\* A committed update revises the link it finds, to a target its history names.
LEMMA UpdateRevises ==
  ASSUME IndInv, NEW r \in Request, CommitUpdate(r)
  PROVE  Registry!Next
<1>1. TypeOK /\ RequestInv(r) /\ pc[r] = "updating" /\ seen[r] \in Row
  BY DEF IndInv, CommitUpdate, Goes, RequestInv, Held, Holding
<1>2. NewTarget(r) \in Target /\ NewActive(r) \in BOOLEAN
  BY <1>1, UpdateValues
<1>3. PICK l \in links :
        /\ l.id = seen[r].id
        /\ links' = (links \ {l}) \cup
             {[id |-> l.id, slug |-> l.slug, target |-> NewTarget(r), active |-> NewActive(r)]}
  BY DEF CommitUpdate
<1>4. PICK e \in history : e.link = l.id /\ e.new = seen[r].target
  BY <1>1, <1>3 DEF RequestInv, SeenExplained, LinkExists, Explained
<1>5. seen[r].target \in Registry!Named(l.id)
  BY <1>4 DEF Registry!Named
<1>6. CASE TargetChanges(r)
  <2>1. PICK add : add = [link |-> seen[r].id, old |-> seen[r].target,
                          new |-> NewTarget(r), at |-> began[r]]
    OBVIOUS
  <2>2. add.link = l.id /\ add.old = seen[r].target /\ add.new = NewTarget(r)
    BY <1>3, <2>1
  <2>3. history' = history \cup {add} /\ clicks' = clicks
    BY <1>6, <2>1 DEF CommitUpdate, HistoryRow
  <2>4. CASE add \in history
    <3>1. NewTarget(r) \in Registry!Named(l.id)
      BY <2>2, <2>4 DEF Registry!Named
    <3>2. Registry!Revise(l, NewTarget(r), NewActive(r))
      BY <1>3, <2>3, <2>4, <3>1 DEF Registry!Revise
    <3> QED BY <1>2, <3>2 DEF Registry!Next
  <2>5. CASE add \notin history
    <3>1. add \in Registry!Added
      BY <2>3, <2>5 DEF Registry!Added
    <3>2. Registry!Revise(l, NewTarget(r), NewActive(r))
      BY <1>3, <1>5, <2>2, <2>3, <3>1 DEF Registry!Revise
    <3> QED BY <1>2, <3>2 DEF Registry!Next
  <2> QED BY <2>4, <2>5
<1>7. CASE ~TargetChanges(r)
  <2>1. history' = history /\ clicks' = clicks /\ NewTarget(r) = seen[r].target
    BY <1>7 DEF CommitUpdate, TargetChanges
  <2>2. Registry!Revise(l, NewTarget(r), NewActive(r))
    BY <1>3, <1>5, <2>1 DEF Registry!Revise
  <2> QED BY <1>2, <2>2 DEF Registry!Next
<1> QED BY <1>6, <1>7

\* A committed deletion withdraws the link, or finds nothing left of it.
LEMMA DeleteWithdraws ==
  ASSUME IndInv, NEW r \in Request, CommitDelete(r)
  PROVE  Registry!Next \/ UNCHANGED tables
<1>1. SlugUnique /\ NoOrphans
  BY DEF IndInv, TableInv
<1>2. /\ links' = {l \in links : l.id # seen[r].id}
      /\ history' = {h \in history : h.link # seen[r].id}
      /\ clicks' = {c \in clicks : c.link # seen[r].id}
  BY DEF CommitDelete, Keeping
<1>3. CASE LinkExists(seen[r].id)
  <2>1. PICK l \in links : l.id = seen[r].id
    BY <1>3 DEF LinkExists
  <2>2. links' = links \ {l}
    BY <1>1, <1>2, <2>1 DEF SlugUnique
  <2>3. Registry!Withdraw(l)
    BY <1>2, <2>1, <2>2 DEF Registry!Withdraw
  <2> QED BY <2>3 DEF Registry!Next
<1>4. CASE ~LinkExists(seen[r].id)
  BY <1>1, <1>2, <1>4 DEF NoOrphans, LinkExists, tables
<1> QED BY <1>3, <1>4

\* The recorder's insert counts a visit that was not counted before.
LEMMA ClickCounts ==
  ASSUME IndInv, NEW r \in Request, InsertClick(r)
  PROVE  Registry!Next
<1>1. PICK l \in links : l.id = seen[r].id
  BY DEF InsertClick, ForeignKeyHolds, LinkExists
<1>2. \A c \in clicks : c.by # r
  BY DEF IndInv, ClicksWereServed, InsertClick, Goes
<1>3. Registry!Count(l, r)
  BY <1>1, <1>2 DEF InsertClick, Registry!Count
<1> QED BY <1>3 DEF Registry!Next

\* Every step of every handler is one registry operation or none: with any
\* number of concurrent requests, readers of the tables see the store as if
\* each request took effect at one instant.
THEOREM StoreImplementsRegistry == Spec => ImplementsRegistry
<1>1. Init => Registry!Init
  BY DEF Init, Registry!Init
<1>2. IndInv /\ [Next]_vars => [Registry!Next]_(Registry!vars)
  <2> SUFFICES ASSUME IndInv, [Next]_vars PROVE Registry!Next \/ UNCHANGED tables
    BY DEF Registry!vars, tables
  <2>1. CASE UNCHANGED vars
    BY <2>1 DEF vars, tables
  <2>2. ASSUME NEW r \in Request, Quiet(r) PROVE UNCHANGED tables
    BY <2>2, QuietTables DEF IndInv
  <2>3. ASSUME NEW r \in Request, Writes(r) PROVE Registry!Next \/ UNCHANGED tables
    BY <2>3, InsertPublishes, UpdateRevises, DeleteWithdraws, ClickCounts DEF Writes
  <2> QED BY <2>1, <2>2, <2>3 DEF Next, Arrive, Handle, Quiet, Writes
<1> QED BY <1>1, <1>2, Invariance, PTL DEF Spec, ImplementsRegistry, Registry!Spec
=============================================================================
