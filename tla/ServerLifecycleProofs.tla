----------------------- MODULE ServerLifecycleProofs -----------------------
(***************************************************************************)
(* ServerLifecycle for any number of requests, connections and ticks: the  *)
(* safety properties MCServerLifecycle checks.                             *)
(*                                                                         *)
(* Unless Shutdown gave up, the WaitGroup counts exactly the inserts in    *)
(* flight and every handler is idle once Shutdown has returned.  What      *)
(* becomes of one insert until the exit is a condition on the state that,  *)
(* once true, stays true (Kept).                                           *)
(***************************************************************************)
EXTENDS ServerLifecycle, FiniteSetTheorems, TLAPS

\* The WaitGroup counts the inserts; after Shutdown gave up, perhaps also the
\* handlers that panicked.
Counted ==
  /\ IsFiniteSet(InFlight)
  /\ Cardinality(InFlight) <= wg
  /\ ~gaveUp => wg = Cardinality(InFlight)

\* Where serve stands tells what it has done.
Staged ==
  /\ stage \in {"serving", "shutdown"} => waiter = "none" /\ ~gaveUp /\ ~failed
  /\ stage = "stopped" => waiter = "none" /\ ~failed
  /\ stage = "draining" => waiter # "none" /\ ~failed
  /\ stage \in {"closing", "exited"} => (failed <=> waiter = "none")
  /\ stage = "crashed" => gaveUp
  /\ failed => ~gaveUp
  /\ \A c \in Request : click[c] = "refused" => stage \in {"closing", "exited", "crashed"}

\* From Shutdown's return on the handlers are idle, and Drain's goroutine is
\* woken by a counter at zero.
Waited ==
  ~gaveUp => /\ stage = "stopped" \/ waiter # "none" => AllIdle
             /\ waiter \in {"waking", "done"} => wg = 0

\* No insert gets more than its timeout.
Bounded == \A c \in Request : due[c] <= InsertTimeout

\* What a clean stop leaves, and what Drain's result says of it.
Finished == CleanStop => AllIdle /\ (drained => \A c \in Request : Settled(c))

\* A handler records its click last, and once.
Recorded == \A c \in Request : click[c] # "none" => req[c] = "done"

IndInv ==
  TypeOK /\ Recorded /\ Counted /\ Staged /\ Waited /\ Bounded /\ Finished
-----------------------------------------------------------------------------

(***************************************************************************)
(* The actions, by what they change.                                       *)
(***************************************************************************)

\* A handler moves without recording a click.
Moves(c) == Arrive(c) \/ Acquire(c) \/ AcquireFails(c) \/ HangUp(c) \/ Answer(c)

\* An insert ends, one way or another.
Settles(c) == InsertEnds(c) \/ InsertRefused(c) \/ InsertTimesOut(c)

\* An insert's goroutine starts its clock, or gets its connection.
Starts(c) == TimerStarts(c) \/ InsertStarts(c)

LEMMA NextByEffect ==
  Next <=> \/ \E c \in Request : \/ Moves(c) \/ Record(c) \/ RecordPanics(c)
                                 \/ Starts(c) \/ Settles(c)
           \/ Signal \/ ListenFails \/ ShutdownReturns \/ Drain \/ Wait \/ Wake
           \/ DrainReturns \/ Exit \/ Tick
BY DEF Next, Moves, Starts, Settles, Clients, Postgres, Goroutine, Main

LEMMA MovesEffect ==
  ASSUME TypeOK, NEW c \in Request, Moves(c)
  PROVE  /\ UNCHANGED <<serving, recorder>> /\ Alive
         /\ \E to \in Req \ {"idle"} : req' = [req EXCEPT ![c] = to]
         /\ req[c] \in Req \ {"done", "redirected"}
         /\ req[c] = "idle" => stage = "serving"
BY DEF TypeOK, Req, Moves, Arrive, Acquire, AcquireFails, HangUp, Answer, Handler

LEMMA RecordEffect ==
  ASSUME TypeOK, NEW c \in Request, Record(c)
  PROVE  /\ UNCHANGED <<serving, due, waiter>> /\ ~Misuse
         /\ req[c] = "redirected" /\ req' = [req EXCEPT ![c] = "done"]
         /\ click' = [click EXCEPT ![c] = "spawned"]
         /\ wg' = wg + 1
BY DEF Record, Handler, AddOne

LEMMA PanicEffect ==
  ASSUME TypeOK, NEW c \in Request, RecordPanics(c)
  PROVE  /\ UNCHANGED <<serving, click, due, waiter>> /\ Misuse
         /\ req[c] = "redirected" /\ req' = [req EXCEPT ![c] = "done"]
         /\ wg' = wg + 1
BY DEF RecordPanics, Handler, AddOne

LEMMA StartsEffect ==
  ASSUME TypeOK, NEW c \in Request, Starts(c)
  PROVE  /\ UNCHANGED <<serving, req, wg, waiter>>
         /\ \/ /\ click[c] = "spawned"
               /\ click' = [click EXCEPT ![c] = "waiting"]
               /\ due' = [due EXCEPT ![c] = InsertTimeout]
            \/ /\ click[c] = "waiting"
               /\ click' = [click EXCEPT ![c] = "inserting"]
               /\ due' = due
BY DEF Starts, TimerStarts, InsertStarts

LEMMA SettlesEffect ==
  ASSUME TypeOK, NEW c \in Request, Settles(c)
  PROVE  /\ UNCHANGED <<serving, req, due>>
         /\ Alive /\ c \in Running /\ wg' = wg - 1
         /\ waiter' = IF waiter = "waiting" /\ wg = 1 THEN "waking" ELSE waiter
         /\ \E to \in {"stored", "failed", "refused"} :
              /\ click' = [click EXCEPT ![c] = to]
              /\ to = "refused" => stage = "closing" /\ click[c] = "waiting"
BY DEF Settles, InsertEnds, InsertRefused, InsertTimesOut, Settle, Running, Closed

\* How the set of inserts in flight changes.
LEMMA InFlightEffect ==
  ASSUME TypeOK, Recorded, NEW c \in Request
  PROVE  /\ Record(c) => InFlight' = InFlight \cup {c} /\ c \notin InFlight
         /\ Settles(c) => InFlight' = InFlight \ {c} /\ c \in InFlight
         /\ Moves(c) \/ RecordPanics(c) \/ Starts(c) => InFlight' = InFlight
<1> USE DEF InFlight, Running
<1>1. ASSUME Record(c) PROVE InFlight' = InFlight \cup {c} /\ c \notin InFlight
  BY <1>1, RecordEffect DEF Recorded, TypeOK
<1>2. ASSUME Settles(c) PROVE InFlight' = InFlight \ {c} /\ c \in InFlight
  BY <1>2, SettlesEffect DEF TypeOK
<1>3. ASSUME Moves(c) \/ RecordPanics(c) PROVE InFlight' = InFlight
  BY <1>3, MovesEffect, PanicEffect DEF recorder
<1>4. ASSUME Starts(c) PROVE InFlight' = InFlight
  BY <1>4, StartsEffect DEF TypeOK
<1> QED BY <1>1, <1>2, <1>3, <1>4

\* Nothing else touches the inserts.
LEMMA InFlightFrame ==
  \/ Signal \/ ListenFails \/ ShutdownReturns \/ Drain \/ Wait \/ Wake
  \/ DrainReturns \/ Exit \/ Tick \/ UNCHANGED vars
  => UNCHANGED <<req, click, wg, InFlight>>
BY DEF Signal, ListenFails, ShutdownReturns, Drain, Wait, Wake, DrainReturns, Exit, Tick,
       vars, recorder, InFlight, Running
-----------------------------------------------------------------------------

(***************************************************************************)
(* Every conjunct of the invariant is preserved.                           *)
(***************************************************************************)
LEMMA InvInit == Init => IndInv
<1> SUFFICES ASSUME Init PROVE IndInv
  OBVIOUS
<1>1. TypeOK
  BY LifecycleAssumption DEF Init, TypeOK, Stage, Req, Click, Waiter
<1>2. InFlight = {}
  BY DEF Init, InFlight, Running
<1>3. Counted
  BY <1>2, FS_EmptySet DEF Init, Counted
<1>4. Recorded /\ Staged /\ Waited /\ Bounded /\ Finished
  BY LifecycleAssumption DEF Init, Recorded, Staged, Waited, Bounded, Finished, CleanStop
<1> QED BY <1>1, <1>3, <1>4 DEF IndInv

LEMMA TypeStep == IndInv /\ [Next]_vars => TypeOK'
<1> SUFFICES ASSUME IndInv, [Next]_vars PROVE TypeOK'
  OBVIOUS
<1> USE LifecycleAssumption DEF IndInv, Req, Click, Waiter, Stage
<1>1. ASSUME NEW c \in Request, Moves(c) PROVE TypeOK'
  BY <1>1, MovesEffect DEF TypeOK, serving, recorder
<1>2. ASSUME NEW c \in Request, Record(c) \/ RecordPanics(c) PROVE TypeOK'
  BY <1>2, RecordEffect, PanicEffect DEF TypeOK, serving
<1>3. ASSUME NEW c \in Request, Starts(c) PROVE TypeOK'
  BY <1>3, StartsEffect DEF TypeOK, serving
<1>4. ASSUME NEW c \in Request, Settles(c) PROVE TypeOK'
  <2>1. wg # 0
    <3>1. Cardinality(InFlight) # 0
      BY <1>4, SettlesEffect, FS_EmptySet DEF Counted, InFlight
    <3> QED BY <3>1, FS_CardinalityType DEF Counted, TypeOK
  <2> QED BY <1>4, <2>1, SettlesEffect DEF TypeOK, serving
<1>5. CASE \/ Signal \/ ListenFails \/ ShutdownReturns \/ Drain \/ Wait \/ Wake
           \/ DrainReturns \/ Exit
  BY <1>5 DEF Signal, ListenFails, ShutdownReturns, Drain, Wait, Wake, DrainReturns, Exit,
              DrainTicks, TypeOK, serving, recorder
<1>6. CASE Tick
  BY <1>6 DEF Tick, Less, TypeOK
<1>7. CASE UNCHANGED vars
  BY <1>7 DEF vars, TypeOK
<1> QED BY <1>1, <1>2, <1>3, <1>4, <1>5, <1>6, <1>7, NextByEffect

LEMMA RecordedStep == IndInv /\ [Next]_vars => Recorded'
<1> SUFFICES ASSUME IndInv, [Next]_vars PROVE Recorded'
  OBVIOUS
<1> USE DEF IndInv, Recorded
<1>1. ASSUME NEW c \in Request, Moves(c) PROVE Recorded'
  BY <1>1, MovesEffect DEF TypeOK, recorder
<1>2. ASSUME NEW c \in Request, Record(c) \/ RecordPanics(c) PROVE Recorded'
  BY <1>2, RecordEffect, PanicEffect DEF TypeOK
<1>3. ASSUME NEW c \in Request, Starts(c) PROVE Recorded'
  BY <1>3, StartsEffect DEF TypeOK
<1>4. ASSUME NEW c \in Request, Settles(c) PROVE Recorded'
  BY <1>4, SettlesEffect DEF TypeOK, Running
<1> QED BY <1>1, <1>2, <1>3, <1>4, NextByEffect, InFlightFrame

LEMMA CountedStep == IndInv /\ [Next]_vars => Counted'
<1> SUFFICES ASSUME IndInv, [Next]_vars PROVE Counted'
  OBVIOUS
<1> USE DEF IndInv
<1>0. /\ IsFiniteSet(InFlight) /\ Cardinality(InFlight) \in Nat /\ wg \in Nat
      /\ Cardinality(InFlight) <= wg
      /\ ~gaveUp => wg = Cardinality(InFlight)
  BY FS_CardinalityType DEF Counted, TypeOK
<1>1. ASSUME NEW c \in Request, Moves(c) \/ Starts(c) PROVE Counted'
  <2>1. UNCHANGED <<InFlight, wg, gaveUp>>
    BY <1>1, InFlightEffect, MovesEffect, StartsEffect DEF serving, recorder
  <2> QED BY <2>1 DEF Counted
<1>2. ASSUME NEW c \in Request, Record(c) PROVE Counted'
  <2>1. wg' = wg + 1 /\ gaveUp' = gaveUp
    BY <1>2, RecordEffect DEF serving
  <2>2. InFlight' = InFlight \cup {c} /\ c \notin InFlight
    BY <1>2, InFlightEffect
  <2>3. IsFiniteSet(InFlight') /\ Cardinality(InFlight') = Cardinality(InFlight) + 1
    BY <1>0, <2>2, FS_AddElement
  <2> QED BY <1>0, <2>1, <2>3 DEF Counted
<1>3. ASSUME NEW c \in Request, RecordPanics(c) PROVE Counted'
  <2>1. wg' = wg + 1 /\ UNCHANGED <<gaveUp, InFlight>>
    BY <1>3, PanicEffect, InFlightEffect DEF serving
  <2>2. gaveUp
    BY <1>3, PanicEffect DEF Misuse, Waited, AllIdle
  <2> QED BY <1>0, <2>1, <2>2 DEF Counted
<1>4. ASSUME NEW c \in Request, Settles(c) PROVE Counted'
  <2>1. wg' = wg - 1 /\ gaveUp' = gaveUp
    BY <1>4, SettlesEffect DEF serving
  <2>2. InFlight' = InFlight \ {c} /\ c \in InFlight
    BY <1>4, InFlightEffect
  <2>3. IsFiniteSet(InFlight') /\ Cardinality(InFlight') = Cardinality(InFlight) - 1
    BY <1>0, <2>2, FS_RemoveElement
  <2> QED BY <1>0, <2>1, <2>3 DEF Counted
<1>5. CASE ShutdownReturns
  <2>1. UNCHANGED <<wg, InFlight>> /\ ~gaveUp
    BY <1>5, InFlightFrame DEF ShutdownReturns, Staged
  <2> QED BY <1>0, <2>1 DEF Counted
<1>6. CASE \/ Signal \/ ListenFails \/ Drain \/ Wait \/ Wake \/ DrainReturns \/ Exit \/ Tick
           \/ UNCHANGED vars
  <2>1. UNCHANGED <<wg, InFlight, gaveUp>>
    BY <1>6, InFlightFrame DEF Signal, ListenFails, Drain, Wait, Wake, DrainReturns, Exit, Tick,
                               vars, serving, recorder
  <2> QED BY <2>1 DEF Counted
<1> QED BY <1>1, <1>2, <1>3, <1>4, <1>5, <1>6, NextByEffect

LEMMA StagedStep == IndInv /\ [Next]_vars => Staged'
<1> SUFFICES ASSUME IndInv, [Next]_vars PROVE Staged'
  OBVIOUS
<1> USE DEF IndInv, Staged
<1>1. ASSUME NEW c \in Request,
             Moves(c) \/ Record(c) \/ RecordPanics(c) \/ Starts(c) \/ Settles(c)
      PROVE  UNCHANGED serving
  BY <1>1, MovesEffect, RecordEffect, PanicEffect, StartsEffect, SettlesEffect
<1>2. ASSUME NEW c \in Request, Moves(c) \/ RecordPanics(c) PROVE Staged'
  BY <1>1, <1>2, MovesEffect, PanicEffect DEF serving, recorder
<1>3. ASSUME NEW c \in Request, Record(c) PROVE Staged'
  BY <1>1, <1>3, RecordEffect DEF serving, TypeOK
<1>4. ASSUME NEW c \in Request, Starts(c) PROVE Staged'
  BY <1>1, <1>4, StartsEffect DEF serving, TypeOK
<1>5. ASSUME NEW c \in Request, Settles(c) PROVE Staged'
  <2>1. waiter' = "none" <=> waiter = "none"
    BY <1>5, SettlesEffect
  <2>2. \A q \in Request : click'[q] = "refused" => stage \in {"closing", "exited", "crashed"}
    BY <1>5, SettlesEffect DEF TypeOK
  <2> QED BY <1>1, <1>5, <2>1, <2>2 DEF serving
<1>6. CASE Wake
  <2>1. ~gaveUp => wg = 0
    BY <1>6 DEF Wake, Waited
  <2> QED BY <1>6, <2>1 DEF Wake, Alive, TypeOK
<1>7. CASE Signal \/ ListenFails \/ ShutdownReturns \/ Drain \/ Wait \/ DrainReturns \/ Exit
  <2>1. CASE Signal \/ ListenFails
    BY <2>1 DEF Signal, ListenFails, recorder, TypeOK
  <2>2. CASE ShutdownReturns
    BY <2>2 DEF ShutdownReturns, recorder, TypeOK
  <2>3. CASE Wait
    BY <2>3 DEF Wait, serving
  <2>4. CASE DrainReturns \/ Exit
    BY <2>4 DEF DrainReturns, Exit, recorder, TypeOK
  <2>5. CASE Drain
    BY <2>5 DEF Drain, TypeOK
  <2> QED BY <1>7, <2>1, <2>2, <2>3, <2>4, <2>5
<1>8. CASE Tick \/ UNCHANGED vars
  BY <1>8 DEF Tick, vars
<1> QED BY <1>2, <1>3, <1>4, <1>5, <1>6, <1>7, <1>8, NextByEffect

\* Shutdown returns only on idle handlers, or gives up; after that no request
\* arrives, so the handlers stay idle and nobody records.
LEMMA WaitedStep == IndInv /\ [Next]_vars => Waited'
<1> SUFFICES ASSUME IndInv, [Next]_vars PROVE Waited'
  OBVIOUS
<1> USE DEF IndInv, Waited
<1>1. ASSUME NEW c \in Request, Moves(c) PROVE Waited'
  <2>1. CASE req[c] = "idle"
    BY <1>1, <2>1, MovesEffect DEF Staged, serving, recorder
  <2>2. CASE req[c] # "idle"
    <3>1. ~AllIdle /\ UNCHANGED <<stage, gaveUp, waiter, wg>>
      BY <1>1, <2>2, MovesEffect DEF AllIdle, serving, recorder
    <3> QED BY <3>1
  <2> QED BY <2>1, <2>2
<1>2. ASSUME NEW c \in Request, Record(c) \/ RecordPanics(c) PROVE Waited'
  <2>1. ~AllIdle /\ UNCHANGED <<stage, gaveUp, waiter>>
    BY <1>2, RecordEffect, PanicEffect DEF AllIdle, serving
  <2> QED BY <2>1
<1>3. ASSUME NEW c \in Request, Starts(c) PROVE Waited'
  BY <1>3, StartsEffect DEF serving, AllIdle
<1>4. ASSUME NEW c \in Request, Settles(c) PROVE Waited'
  <2>1. /\ UNCHANGED <<stage, gaveUp, AllIdle>> /\ wg' = wg - 1 /\ wg \in Nat
        /\ waiter' = IF waiter = "waiting" /\ wg = 1 THEN "waking" ELSE waiter
    BY <1>4, SettlesEffect DEF AllIdle, serving, TypeOK
  <2>2. wg # 0
    BY <1>4, SettlesEffect, FS_EmptySet, FS_CardinalityType DEF Counted, TypeOK, InFlight
  <2> QED BY <2>1, <2>2
<1>5. CASE ShutdownReturns
  BY <1>5 DEF ShutdownReturns, ShutdownDone, Staged, recorder, AllIdle
<1>6. CASE Wait
  BY <1>6 DEF Wait, serving, AllIdle
<1>7. CASE Wake
  BY <1>7 DEF Wake, AllIdle
<1>8. CASE Drain
  BY <1>8 DEF Drain, AllIdle
<1>9. CASE Signal \/ ListenFails \/ DrainReturns \/ Exit \/ Tick \/ UNCHANGED vars
  <2>1. UNCHANGED <<gaveUp, waiter, wg, AllIdle>> /\ (stage' = "stopped" => stage = "stopped")
    BY <1>9 DEF Signal, ListenFails, DrainReturns, Exit, Tick, vars, recorder, AllIdle
  <2> QED BY <2>1
<1> QED BY <1>1, <1>2, <1>3, <1>4, <1>5, <1>6, <1>7, <1>8, <1>9, NextByEffect

LEMMA BoundedStep == IndInv /\ [Next]_vars => Bounded'
<1> SUFFICES ASSUME IndInv, [Next]_vars PROVE Bounded'
  OBVIOUS
<1> USE LifecycleAssumption DEF IndInv, Bounded, TypeOK
<1>1. ASSUME NEW c \in Request, Moves(c) \/ Record(c) \/ RecordPanics(c) \/ Settles(c)
      PROVE  UNCHANGED due
  BY <1>1, MovesEffect, RecordEffect, PanicEffect, SettlesEffect DEF recorder
<1>2. ASSUME NEW c \in Request, Starts(c) PROVE Bounded'
  BY <1>2, StartsEffect
<1>3. CASE Tick
  BY <1>3 DEF Tick, Less
<1>4. CASE \/ Signal \/ ListenFails \/ ShutdownReturns \/ Drain \/ Wait \/ Wake
           \/ DrainReturns \/ Exit \/ UNCHANGED vars
  BY <1>4 DEF Signal, ListenFails, ShutdownReturns, Drain, Wait, Wake, DrainReturns, Exit,
              vars, recorder
<1> QED BY <1>1, <1>2, <1>3, <1>4, NextByEffect

\* Once Drain has returned no handler moves; it returns true only when nothing
\* is in flight.
LEMMA FinishedStep == IndInv /\ [Next]_vars => Finished'
<1> SUFFICES ASSUME IndInv, [Next]_vars, CleanStop'
             PROVE  AllIdle' /\ (drained' => \A c \in Request : Settled(c)')
  BY DEF Finished
<1> USE DEF IndInv, Finished
<1>1. ASSUME NEW c \in Request, Moves(c) \/ Record(c) \/ RecordPanics(c) PROVE FALSE
  <2>1. CleanStop /\ AllIdle
    BY <1>1, MovesEffect, RecordEffect, PanicEffect DEF CleanStop, serving
  <2>2. req[c] # "idle" => ~AllIdle
    BY <1>1, MovesEffect, RecordEffect, PanicEffect DEF AllIdle
  <2>3. req[c] = "idle" => stage = "serving"
    BY <1>1, MovesEffect, RecordEffect, PanicEffect
  <2> QED BY <2>1, <2>2, <2>3 DEF CleanStop
<1>2. ASSUME NEW c \in Request, Starts(c) \/ Settles(c)
      PROVE  AllIdle' /\ (drained' => \A q \in Request : Settled(q)')
  <2>1. CleanStop /\ UNCHANGED <<serving, req>> /\ ~Settled(c)
    BY <1>2, StartsEffect, SettlesEffect DEF CleanStop, serving, Settled, Running
  <2> QED BY <2>1 DEF serving, AllIdle
<1>3. CASE DrainReturns
  <2>1. /\ stage = "draining" /\ ~gaveUp /\ waiter # "none"
        /\ UNCHANGED <<req, click>> /\ (drained' => waiter = "done")
    BY <1>3 DEF DrainReturns, CleanStop, Staged, recorder
  <2>2. AllIdle /\ \A c \in Request : click[c] # "refused"
    BY <2>1 DEF Waited, Staged
  <2>3. ASSUME waiter = "done" PROVE InFlight = {}
    <3>1. Cardinality(InFlight) = 0 /\ IsFiniteSet(InFlight)
      BY <2>1, <2>3 DEF Waited, Counted
    <3> QED BY <3>1, FS_EmptySet
  <2>4. waiter = "done" => \A c \in Request : Settled(c)
    BY <2>2, <2>3 DEF InFlight, Running, Settled, TypeOK, Click
  <2> QED BY <2>1, <2>2, <2>4 DEF AllIdle, Settled
<1>4. CASE Signal \/ ListenFails \/ ShutdownReturns \/ Drain
  BY <1>4 DEF Signal, ListenFails, ShutdownReturns, Drain, CleanStop
<1>5. CASE Wait \/ Wake \/ Exit \/ Tick \/ UNCHANGED vars
  BY <1>5 DEF Wait, Wake, Exit, Tick, vars, serving, recorder, CleanStop, AllIdle, Settled
<1> QED BY <1>1, <1>2, <1>3, <1>4, <1>5, NextByEffect

LEMMA InvStep == IndInv /\ [Next]_vars => IndInv'
BY TypeStep, RecordedStep, CountedStep, StagedStep, WaitedStep, BoundedStep,
   FinishedStep
   DEF IndInv

THEOREM Invariant == Spec => []IndInv
BY InvInit, InvStep, PTL DEF Spec

\* Types of the variables; the WaitGroup's counter and the clocks never go
\* below zero, so wg.Done never panics.
THEOREM TypeCorrect == Spec => []TypeOK
<1>1. IndInv => TypeOK
  BY DEF IndInv
<1> QED BY Invariant, <1>1, PTL

-----------------------------------------------------------------------------

(***************************************************************************)
(* What a clean stop does to an insert whose clock ran before Drain's.     *)
(***************************************************************************)

\* The insert is over, out of time or still ahead of Drain, and Drain has at
\* least as many ticks left as it has; or the stop is not a clean one.
Kept(c) ==
  \/ gaveUp \/ failed \/ stage = "crashed"
  \/ click[c] \in {"stored", "failed"}
  \/ click[c] \in {"waiting", "inserting", "refused"} /\ due[c] = 0
  \/ c \in Running /\ BeforeDrain
  \/ c \in Running /\ stage = "draining" /\ due[c] <= left

LEMMA KeptStep ==
  ASSUME NEW c \in Request, IndInv, Kept(c), [Next]_vars PROVE Kept(c)'
<1> USE LifecycleAssumption DEF IndInv, Kept
<1>0. /\ due[c] \in Nat /\ due[c] <= InsertTimeout /\ left \in Nat
      /\ click \in [Request -> Click] /\ due \in [Request -> Nat]
  BY DEF TypeOK, Bounded
<1>1. ASSUME NEW q \in Request, Moves(q) \/ RecordPanics(q) PROVE Kept(c)'
  BY <1>1, MovesEffect, PanicEffect DEF serving, recorder, Running, BeforeDrain
<1>2. ASSUME NEW q \in Request, Record(q) PROVE Kept(c)'
  <2>1. click[q] = "none" /\ click' = [click EXCEPT ![q] = "spawned"]
        /\ UNCHANGED <<serving, due>>
    BY <1>2, RecordEffect DEF Recorded, TypeOK, Click
  <2> QED BY <1>0, <2>1 DEF serving, Running, BeforeDrain
<1>3. ASSUME NEW q \in Request, Starts(q) PROVE Kept(c)'
  BY <1>0, <1>3, StartsEffect DEF serving, Running, BeforeDrain
<1>4. ASSUME NEW q \in Request, Settles(q) PROVE Kept(c)'
  <2>1. PICK to \in {"stored", "failed", "refused"} :
             /\ click' = [click EXCEPT ![q] = to]
             /\ to = "refused" => stage = "closing" /\ click[q] = "waiting"
    BY <1>4, SettlesEffect
  <2>2. UNCHANGED <<serving, due>> /\ q \in Running
    BY <1>4, SettlesEffect
  <2> QED BY <1>0, <2>1, <2>2 DEF serving, Running, BeforeDrain
<1>5. CASE Signal \/ ListenFails \/ ShutdownReturns
  BY <1>5 DEF Signal, ListenFails, ShutdownReturns, Staged, recorder, Running, BeforeDrain
<1>6. CASE Drain
  BY <1>0, <1>6 DEF Drain, DrainTicks, Running, BeforeDrain
<1>7. CASE DrainReturns
  <2>1. stage = "draining" /\ UNCHANGED <<click, due, gaveUp, failed>>
        /\ (waiter = "done" \/ left = 0)
    BY <1>7 DEF DrainReturns, recorder
  <2>2. CASE waiter = "done" /\ ~gaveUp
    <3>1. Cardinality(InFlight) = 0 /\ IsFiniteSet(InFlight)
      BY <2>2 DEF Waited, Counted
    <3>2. c \notin Running
      BY <3>1, FS_EmptySet DEF InFlight
    <3> QED BY <2>1, <3>2 DEF BeforeDrain
  <2>3. CASE left = 0
    BY <1>0, <2>1, <2>3 DEF Running, BeforeDrain
  <2> QED BY <2>1, <2>2, <2>3
<1>8. CASE Tick
  <2>1. /\ UNCHANGED <<stage, gaveUp, failed, click>>
        /\ due'[c] = IF c \in Running THEN Less(due[c]) ELSE due[c]
        /\ stage = "draining" => left' = Less(left)
    BY <1>8 DEF Tick, Timed
  <2> QED BY <1>0, <2>1 DEF Less, Running, BeforeDrain
<1>9. CASE Wait \/ Wake \/ Exit \/ UNCHANGED vars
  BY <1>9 DEF Wait, Wake, Exit, vars, serving, recorder, Running, BeforeDrain
<1> QED BY <1>1, <1>2, <1>3, <1>4, <1>5, <1>6, <1>7, <1>8, <1>9, NextByEffect

LEMMA KeptUntilExit ==
  ASSUME NEW c \in Request
  PROVE  Spec => [](BeforeDrain /\ c \in Running => [](CleanStop => ~Cut(c)))
<1>1. BeforeDrain /\ c \in Running => Kept(c)
  BY DEF Kept
<1>2. IndInv /\ Kept(c) /\ [Next]_vars => Kept(c)'
  BY KeptStep
<1>3. IndInv /\ Kept(c) => (CleanStop => ~Cut(c))
  BY DEF IndInv, TypeOK, Kept, CleanStop, Cut, Settled, BeforeDrain
<1> QED BY Invariant, <1>1, <1>2, <1>3, PTL DEF Spec

\* A stop on which Shutdown did not give up abandons no request; Drain returns
\* true only when every insert has ended; and an insert whose clock ran before
\* Drain's is not cut short of its timeout.  For any number of requests and
\* connections and any timeouts with the drain's no shorter than an insert's.
THEOREM CleanStopKeepsAllClicks == Spec => CleanStopKeepsClicks
<1>1. IndInv => (CleanStop => AllIdle /\ (drained => \A c \in Request : Settled(c)))
  BY DEF IndInv, Finished
<1>2. Spec => [](CleanStop => AllIdle /\ (drained => \A c \in Request : Settled(c)))
  BY Invariant, <1>1, PTL
<1>3. Spec => \A c \in Request : [](BeforeDrain /\ c \in Running => [](CleanStop => ~Cut(c)))
  BY KeptUntilExit
<1> QED BY <1>2, <1>3 DEF CleanStopKeepsClicks

\* The WaitGroup is not misused while Shutdown has not given up on a request.
THEOREM CrashesOnlyAfterGivingUp == Spec => []CrashOnlyAfterGivingUp
<1>1. IndInv => CrashOnlyAfterGivingUp
  BY DEF IndInv, CrashOnlyAfterGivingUp, Staged, Waited, Misuse
<1> QED BY Invariant, <1>1, PTL

\* What main.go says of Drain holds when Shutdown did not give up: once it is
\* waited on, the WaitGroup receives no Record.
RecordsBeforeDrain == [][stage = "draining" /\ ~gaveUp => wg' <= wg]_vars
THEOREM DrainReceivesNothing == Spec => RecordsBeforeDrain
<1>1. IndInv /\ [Next]_vars => [stage = "draining" /\ ~gaveUp => wg' <= wg]_vars
  <2> SUFFICES ASSUME IndInv, [Next]_vars, stage = "draining", ~gaveUp PROVE wg' <= wg
    OBVIOUS
  <2>1. wg \in Nat /\ AllIdle
    BY DEF IndInv, TypeOK, Staged, Waited
  <2>2. ASSUME NEW c \in Request, Moves(c) \/ Starts(c) \/ Settles(c) PROVE wg' <= wg
    BY <2>1, <2>2, MovesEffect, StartsEffect, SettlesEffect DEF recorder, IndInv
  <2>3. ASSUME NEW c \in Request, Record(c) \/ RecordPanics(c) PROVE FALSE
    BY <2>1, <2>3, RecordEffect, PanicEffect DEF AllIdle, IndInv
  <2> QED BY <2>1, <2>2, <2>3, NextByEffect, InFlightFrame
<1> QED BY Invariant, <1>1, PTL DEF Spec, RecordsBeforeDrain
=============================================================================
