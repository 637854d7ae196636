---------------------------- MODULE LinkRegistry ----------------------------
(***************************************************************************)
(* What the link store promises to its readers (redirects, the history     *)
(* page, analytics), with every request reduced to the one instant at      *)
(* which it takes effect.                                                  *)
(*                                                                         *)
(* A link enters together with its first history row; its id and slug are  *)
(* then fixed; it only ever points at a target that its history names;     *)
(* history and clicks grow while the link lives and leave with it.  The    *)
(* registry does NOT promise that each change of target adds a history     *)
(* row: Links.tla shows that concurrent PATCHes break that.                *)
(***************************************************************************)
EXTENDS Naturals

CONSTANTS
  LinkId,   \* ids a link may be given
  Slug,     \* public names under /l/
  Target,   \* validated target URLs
  Visit,    \* redirect requests that may be counted as clicks
  None      \* SQL NULL

VARIABLES
  links,    \* rows of the table links
  history,  \* rows of the table link_target_history
  clicks    \* rows of the table click_events

vars == <<links, history, clicks>>

Living    == {l.id : l \in links}
Named(id) == {h.new : h \in {g \in history : g.link = id}}

\* The rows of which the step adds exactly one to the history.
Added == {h \in history' \ history : history' = history \cup {h}}
-----------------------------------------------------------------------------
Init == links = {} /\ history = {} /\ clicks = {}

Publish(id, slug, target) ==
  /\ id \notin Living
  /\ \A l \in links : l.slug # slug
  /\ links' = links \cup
       {[id |-> id, slug |-> slug, target |-> target, active |-> TRUE]}
  /\ \E h \in Added : h.link = id /\ h.old = None /\ h.new = target
  /\ UNCHANGED clicks

\* The registry row of l becomes one with another target or active flag, and
\* the history may gain the row that explains the target.
Revise(l, target, active) ==
  /\ l \in links
  /\ links' = (links \ {l}) \cup
       {[id |-> l.id, slug |-> l.slug, target |-> target, active |-> active]}
  /\ \/ target \in Named(l.id) /\ UNCHANGED history
     \/ \E h \in Added : h.link = l.id /\ h.old \in Named(l.id) /\ h.new = target
  /\ UNCHANGED clicks

Withdraw(l) ==
  /\ l \in links
  /\ links'   = links \ {l}
  /\ history' = {h \in history : h.link # l.id}
  /\ clicks'  = {c \in clicks : c.link # l.id}

Count(l, visit) ==
  /\ l \in links
  /\ \A c \in clicks : c.by # visit
  /\ clicks' = clicks \cup {[link |-> l.id, by |-> visit]}
  /\ UNCHANGED <<links, history>>

Next ==
  \/ \E id \in LinkId, s \in Slug, t \in Target : Publish(id, s, t)
  \/ \E l \in links, t \in Target, a \in BOOLEAN : Revise(l, t, a)
  \/ \E l \in links : Withdraw(l)
  \/ \E l \in links, v \in Visit : Count(l, v)

Spec == Init /\ [][Next]_vars
=============================================================================
