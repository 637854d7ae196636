-------------------------- MODULE ServerLifecycle --------------------------
(***************************************************************************)
(* One server process from its first request to its exit: serve of         *)
(* cmd/snarvei/main.go, the redirect handler, the click recorder of        *)
(* internal/redirect/recorder.go and the connection pool they share.       *)
(*                                                                         *)
(* Three clocks run: Shutdown's context, Drain's time.After and the        *)
(* context of each insert, which its own goroutine starts, some time after *)
(* the handler started the goroutine.  A clock is the ticks it has left.   *)
(* It may fire late (Tick does not wait for it) but never early.           *)
(*                                                                         *)
(* net/http, sync.WaitGroup and pgxpool are modelled from how the code     *)
(* uses them.  The WaitGroup includes what its documentation forbids: an   *)
(* Add from zero while the last Done wakes a Wait panics in both           *)
(* goroutines; net/http recovers the handler's, nobody recovers the        *)
(* inserter's.                                                             *)
(***************************************************************************)
EXTENDS Naturals, FiniteSets

CONSTANTS
  Request,          \* redirect requests, each with its handler goroutine
  PoolSize,         \* connections of the pool
  InsertTimeout,    \* recorder.go: insertTimeout
  ShutdownTimeout,  \* main.go: shutdownTimeout
  DrainTimeout      \* main.go: clickDrainTimeout

\* The code gives an insert and the drain 5 s each.
ASSUME LifecycleAssumption ==
  /\ PoolSize \in Nat \ {0}
  /\ ShutdownTimeout \in Nat \ {0}
  /\ InsertTimeout \in Nat \ {0}
  /\ DrainTimeout \in Nat
  /\ InsertTimeout <= DrainTimeout

VARIABLES
  stage,    \* where serve stands
  left,     \* ticks left to Shutdown's or Drain's timeout
  gaveUp,   \* Shutdown returned with requests still in flight
  drained,  \* what Drain returned
  failed,   \* ListenAndServe failed: exit code 1
  req,      \* where each handler stands
  click,    \* where each insert goroutine stands
  due,      \* ticks left to its insertTimeout, once it runs
  wg,       \* the counter of Recorder.wg
  waiter    \* Drain's goroutine in wg.Wait()

serving  == <<stage, left, gaveUp, drained, failed>>
recorder == <<click, due, wg, waiter>>
vars     == <<stage, left, gaveUp, drained, failed, req, click, due, wg, waiter>>

Stage  == {"serving", "shutdown", "stopped", "draining", "closing", "exited", "crashed"}
Req    == {"idle", "limit", "limiting", "lookup", "looking", "redirected", "done"}
Click  == {"none", "spawned", "waiting", "inserting", "stored", "failed", "refused"}
Waiter == {"none", "starting", "waiting", "waking", "done"}

Alive  == stage \notin {"exited", "crashed"}
Closed == stage = "closing"

\* Insert goroutines, and those whose clock runs.
Running  == {c \in Request : click[c] \in {"waiting", "inserting"}}
InFlight == Running \cup {c \in Request : click[c] = "spawned"}
AllIdle  == \A c \in Request : req[c] \in {"idle", "done"}

\* The connections in use: one per running query.
Querying == {c \in Request : req[c] \in {"limiting", "looking"}}
Held     == Querying \cup {c \in Request : click[c] = "inserting"}
Available == ~Closed /\ Cardinality(Held) < PoolSize
-----------------------------------------------------------------------------
\* The handler: the rate limiter's query, the lookup, the redirect, the click.
Handler(c, from, to) == Alive /\ req[c] = from /\ req' = [req EXCEPT ![c] = to]

Arrive(c) ==
  /\ stage = "serving"
  /\ Handler(c, "idle", "limit")
  /\ UNCHANGED <<serving, recorder>>

Acquire(c) ==
  /\ Available
  /\ Handler(c, "limit", "limiting") \/ Handler(c, "lookup", "looking")
  /\ UNCHANGED <<serving, recorder>>

\* pgxpool refuses after Close; a client that hangs up cancels the context.
AcquireFails(c) ==
  /\ Closed
  /\ Handler(c, "limit", "done") \/ Handler(c, "lookup", "done")
  /\ UNCHANGED <<serving, recorder>>

HangUp(c) ==
  /\ Handler(c, "limit", "done") \/ Handler(c, "lookup", "done")
  /\ UNCHANGED <<serving, recorder>>

\* Postgres answers: within the limit or 429, an active link or 404, an error,
\* a link and a HEAD.
Answer(c) ==
  /\ \/ Handler(c, "limiting", "lookup") \/ Handler(c, "limiting", "done")
     \/ Handler(c, "looking", "redirected") \/ Handler(c, "looking", "done")
  /\ UNCHANGED <<serving, recorder>>

\* Add would take the counter from zero while a Wait is being woken.
Misuse == waiter = "waking" /\ wg = 0

\* wg.Add(1) and the go statement.
AddOne_Forgotten(n) == n
AddOne(n) == n + 1

Record(c) ==
  /\ ~Misuse
  /\ Handler(c, "redirected", "done")
  /\ wg' = AddOne(wg)
  /\ click' = [click EXCEPT ![c] = "spawned"]
  /\ UNCHANGED <<serving, due, waiter>>

RecordPanics(c) ==
  /\ Misuse
  /\ Handler(c, "redirected", "done")
  /\ wg' = AddOne(wg)
  /\ UNCHANGED <<serving, click, due, waiter>>
-----------------------------------------------------------------------------
\* The insert goroutine, up to its deferred wg.Done().  Its clock starts when
\* the scheduler gets to it: context.WithTimeout(.., insertTimeout).
TimerStarts(c) ==
  /\ Alive
  /\ click[c] = "spawned"
  /\ click' = [click EXCEPT ![c] = "waiting"]
  /\ due' = [due EXCEPT ![c] = InsertTimeout]
  /\ UNCHANGED <<serving, req, wg, waiter>>

InsertStarts(c) ==
  /\ Alive /\ Available
  /\ click[c] = "waiting"
  /\ click' = [click EXCEPT ![c] = "inserting"]
  /\ UNCHANGED <<serving, req, due, wg, waiter>>

Settle(c, from, to) ==
  /\ Alive
  /\ click[c] = from
  /\ click' = [click EXCEPT ![c] = to]
  /\ wg' = wg - 1
  /\ waiter' = IF waiter = "waiting" /\ wg = 1 THEN "waking" ELSE waiter
  /\ UNCHANGED <<serving, req, due>>

InsertEnds(c) == Settle(c, "inserting", "stored") \/ Settle(c, "inserting", "failed")

\* The pool was closed before the insert got a connection.
InsertRefused(c) == Closed /\ Settle(c, "waiting", "refused")

\* The context has expired.
Expired_Never(c) == FALSE
Expired(c) == due[c] = 0

InsertTimesOut(c) ==
  /\ Expired(c)
  /\ Settle(c, "waiting", "failed") \/ Settle(c, "inserting", "failed")

\* The last Done wakes Drain's goroutine, unless an Add came in between.
Wake ==
  /\ Alive
  /\ waiter = "waking"
  /\ IF wg = 0
     THEN waiter' = "done" /\ UNCHANGED stage
     ELSE stage' = "crashed" /\ UNCHANGED waiter
  /\ UNCHANGED <<left, gaveUp, drained, failed, req, click, due, wg>>
-----------------------------------------------------------------------------
\* serve: SIGTERM or SIGINT; a second signal is never read.
Signal ==
  /\ stage = "serving"
  /\ stage' = "shutdown"
  /\ left' = ShutdownTimeout
  /\ UNCHANGED <<gaveUp, drained, failed, req, recorder>>

ListenFails ==
  /\ stage = "serving"
  /\ stage' = "closing"
  /\ failed' = TRUE
  /\ UNCHANGED <<left, gaveUp, drained, req, recorder>>

\* Shutdown returns when every connection is idle or its context expires, the
\* error is logged and Drain called either way.
ShutdownDone_Immediately == TRUE
ShutdownDone_NoTimeout == AllIdle
ShutdownDone == AllIdle \/ left = 0

ShutdownReturns ==
  /\ stage = "shutdown"
  /\ ShutdownDone
  /\ stage' = "stopped"
  /\ gaveUp' = (left = 0 /\ ~AllIdle)
  /\ UNCHANGED <<left, drained, failed, req, recorder>>

\* Drain starts its goroutine and its clock.
DrainTicks_OneShort == DrainTimeout - 1
DrainTicks == DrainTimeout

Drain ==
  /\ stage = "stopped"
  /\ stage' = "draining"
  /\ left' = DrainTicks
  /\ waiter' = "starting"
  /\ UNCHANGED <<gaveUp, drained, failed, req, click, due, wg>>

\* Drain's goroutine calls wg.Wait(), which returns at once on zero.
Wait ==
  /\ Alive
  /\ waiter = "starting"
  /\ waiter' = IF wg = 0 THEN "done" ELSE "waiting"
  /\ UNCHANGED <<serving, req, click, due, wg>>

\* select: when both are ready, either.
DrainReturns ==
  /\ stage = "draining"
  /\ \/ waiter = "done" /\ drained' = TRUE
     \/ left = 0 /\ drained' = FALSE
  /\ stage' = "closing"
  /\ UNCHANGED <<left, gaveUp, failed, req, recorder>>

\* The deferred closeDeps: pool.Close() returns once every connection is back.
Exit ==
  /\ stage = "closing"
  /\ Held = {}
  /\ stage' = "exited"
  /\ UNCHANGED <<left, gaveUp, drained, failed, req, recorder>>

Less(ticks) == IF ticks = 0 THEN 0 ELSE ticks - 1
Timed == stage \in {"shutdown", "draining"}

Tick ==
  /\ Alive
  /\ (Timed /\ left > 0) \/ \E c \in Running : due[c] > 0
  /\ left' = IF Timed THEN Less(left) ELSE left
  /\ due' = [c \in Request |-> IF c \in Running THEN Less(due[c]) ELSE due[c]]
  /\ UNCHANGED <<stage, gaveUp, drained, failed, req, click, wg, waiter>>
-----------------------------------------------------------------------------
Init ==
  /\ stage = "serving" /\ left = 0 /\ gaveUp = FALSE /\ drained = FALSE /\ failed = FALSE
  /\ req = [c \in Request |-> "idle"]
  /\ click = [c \in Request |-> "none"]
  /\ due = [c \in Request |-> 0]
  /\ wg = 0 /\ waiter = "none"

Clients(c) == Arrive(c) \/ HangUp(c)
Postgres(c) == Answer(c) \/ InsertEnds(c)
Goroutine(c) ==
  \/ AcquireFails(c) \/ Record(c) \/ RecordPanics(c) \/ TimerStarts(c)
  \/ InsertRefused(c) \/ InsertTimesOut(c)
Main == ShutdownReturns \/ Drain \/ DrainReturns \/ Exit

Next ==
  \/ \E c \in Request : \/ Clients(c) \/ Postgres(c) \/ Goroutine(c)
                        \/ Acquire(c) \/ InsertStarts(c)
  \/ Signal \/ ListenFails \/ Wait \/ Wake \/ Main \/ Tick

Spec == Init /\ [][Next]_vars

\* Time passes and Go runs every goroutine that can move.  Nothing is assumed
\* of clients, of Postgres or of who gets the next connection.
FairSpec ==
  /\ Spec
  /\ WF_vars(Tick) /\ WF_vars(Main) /\ WF_vars(Wait) /\ WF_vars(Wake)
  /\ \A c \in Request : WF_vars(Goroutine(c))
-----------------------------------------------------------------------------
\* Types of the variables; no counter ever goes below zero.
TypeOK ==
  /\ stage \in Stage
  /\ left \in Nat /\ gaveUp \in BOOLEAN /\ drained \in BOOLEAN /\ failed \in BOOLEAN
  /\ req \in [Request -> Req]
  /\ click \in [Request -> Click]
  /\ due \in [Request -> Nat]
  /\ wg \in Nat
  /\ waiter \in Waiter

\* An exit after a signal on which Shutdown did not give up.
CleanStop == stage \in {"closing", "exited"} /\ ~gaveUp /\ ~failed

BeforeDrain == stage \in {"serving", "shutdown", "stopped"}
Settled(c)  == click[c] \in {"none", "stored", "failed"}
Cut(c)      == ~Settled(c) /\ due[c] > 0

\* A clean stop abandons no request, and if Drain returned true, which means
\* "every in-flight insert finished" (phase 3 plan), no click either: nothing
\* is recorded behind its back.  If it gave up, an insert whose clock ran
\* before Drain's did has still had all of its time: the drain is no shorter
\* than an insert.  (One that got to run later may be cut with time left.)
CleanStopKeepsClicks ==
  /\ [](CleanStop => AllIdle /\ (drained => \A c \in Request : Settled(c)))
  /\ \A c \in Request : [](BeforeDrain /\ c \in Running => [](CleanStop => ~Cut(c)))

\* The WaitGroup is misused, and the process dies of it, only when Shutdown
\* has given up on a request (main.go, comment before Drain).
CrashOnlyAfterGivingUp == stage = "crashed" \/ (Misuse /\ ~AllIdle) => gaveUp

\* recorder.go, comment on insertTimeout: a stuck database does not pin insert
\* goroutines; they end although Postgres never answers and the pool is empty.
InsertsEnd ==
  \A c \in Request : c \in InFlight ~> (c \notin InFlight \/ ~Alive)

\* A signal, or a failed listener, is always followed by the exit, unless some
\* handler's query, which has no timeout, stays unanswered: pool.Close waits for
\* its connection.
ExitsUnlessQueryHangs ==
  []<>(Querying = {}) => (stage \in {"shutdown", "closing"} ~> ~Alive)

\* main.go, comment before Drain: "the recorder's WaitGroup must not receive
\* new Records once we start waiting on it".
NoRecordWhileDraining == [][stage = "draining" => wg' <= wg]_vars
=============================================================================
