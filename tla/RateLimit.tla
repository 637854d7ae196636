----------------------------- MODULE RateLimit -----------------------------
(***************************************************************************)
(* The fixed-window limiter of internal/ratelimit and the middleware       *)
(* RateLimit that asks it, over the table rate_limit all replicas share.   *)
(*                                                                         *)
(* A request reads its replica's clock twice: the middleware builds the    *)
(* key from the first reading, Hit the window start from the second; in    *)
(* between, and before its statement reaches Postgres, it may be held up   *)
(* (a goroutine not scheduled, no free connection).  MaxStall bounds that  *)
(* delay and MaxSkew how far apart the replicas' clocks are, in seconds;   *)
(* the code bounds neither, so what the limiter enforces is stated under   *)
(* an assumption on both.                                                  *)
(***************************************************************************)
EXTENDS Integers, FiniteSets

CONSTANTS
  Request,   \* requests to one limited route
  Bucket,    \* hashed client addresses
  Limit,     \* requests allowed per window
  Window,    \* seconds per window
  MaxStall,  \* seconds from the first clock reading to the upsert
  MaxSkew,   \* seconds a replica's clock may be ahead
  MaxTime    \* bound of the run

ASSUME RateLimitAssumption ==
  /\ Limit \in Nat \ {0}
  /\ Window \in Nat \ {0}
  /\ MaxStall \in Nat /\ MaxSkew \in Nat /\ MaxTime \in Nat

VARIABLES
  now,     \* true time
  row,     \* table rate_limit: keys to [start, count]
  pc,      \* where each request stands
  skew,    \* how far ahead its replica's clock is
  asked,   \* true time of its first clock reading
  key,     \* its bucket and window index
  began,   \* Hit's clock reading
  count,   \* what the upsert returned
  retry    \* Retry-After of a 429

request == <<pc, skew, asked, key, began, count, retry>>
vars    == <<now, row, pc, skew, asked, key, began, count, retry>>

Key == Bucket \X Nat
NoKey == <<>>

Clock(r) == now + skew[r]

\* Key: the window index is the bucket's name, so all replicas agree on it.
Index(t) == t \div Window
WindowStart(t) == Index(t) * Window
-----------------------------------------------------------------------------
\* The middleware hashes the address and builds the key.
Enter(r) ==
  /\ pc[r] = "idle"
  /\ \E b \in Bucket, s \in 0..MaxSkew :
       /\ skew' = [skew EXCEPT ![r] = s]
       /\ key' = [key EXCEPT ![r] = <<b, Index(now + s)>>]
  /\ asked' = [asked EXCEPT ![r] = now]
  /\ pc' = [pc EXCEPT ![r] = "keyed"]
  /\ UNCHANGED <<now, row, began, count, retry>>

\* Hit reads the clock again.
ReadClock(r) ==
  /\ pc[r] = "keyed"
  /\ began' = [began EXCEPT ![r] = Clock(r)]
  /\ pc' = [pc EXCEPT ![r] = "hit"]
  /\ UNCHANGED <<now, row, skew, asked, key, count, retry>>

\* HitRateLimit: INSERT ... ON CONFLICT DO UPDATE, which keeps window_start.
Upserted_Restarts(k, start) == [start |-> start, count |-> 1]
Upserted(k, start) ==
  IF k \in DOMAIN row
  THEN [row[k] EXCEPT !.count = @ + 1]
  ELSE [start |-> start, count |-> 1]

Hit(r) ==
  /\ pc[r] = "hit"
  /\ LET new == Upserted(key[r], WindowStart(began[r]))
     IN  /\ row' = [k \in DOMAIN row \cup {key[r]} |->
                      IF k = key[r] THEN new ELSE row[k]]
         /\ count' = [count EXCEPT ![r] = new.count]
         /\ pc' = [pc EXCEPT ![r] = IF new.count = 1 THEN "sweep" ELSE "answer"]
  /\ UNCHANGED <<now, skew, asked, key, began, retry>>

\* SweepRateLimit, on the first hit of a bucket; its failure is ignored.
Cutoff_OwnWindow(start) == start + Window
Cutoff(start) == start - 2 * Window

Sweep(r) ==
  /\ pc[r] = "sweep"
  /\ \/ row' = [k \in {j \in DOMAIN row :
                         row[j].start >= Cutoff(WindowStart(began[r]))} |-> row[k]]
     \/ UNCHANGED row
  /\ pc' = [pc EXCEPT ![r] = "answer"]
  /\ UNCHANGED <<now, skew, asked, key, began, count, retry>>

\* Seconds to the end of the window Hit saw.
RetryAfter_OneShort(t) == WindowStart(t) + Window - 1 - t
RetryAfter_NextWindow(t) == WindowStart(t) + 2 * Window - t
RetryAfter(t) ==
  LET rest == WindowStart(t) + Window - t IN IF rest <= 0 THEN 1 ELSE rest

Exceeded_AtLimit(n) == n >= Limit
Exceeded(n) == n > Limit

Answer(r) ==
  /\ pc[r] = "answer"
  /\ IF Exceeded(count[r])
     THEN /\ pc' = [pc EXCEPT ![r] = "limited"]
          /\ retry' = [retry EXCEPT ![r] = RetryAfter(began[r])]
     ELSE pc' = [pc EXCEPT ![r] = "allowed"] /\ UNCHANGED retry
  /\ UNCHANGED <<now, row, skew, asked, key, began, count>>

\* Hit's statement fails: the middleware answers 500.
Fail(r) ==
  /\ pc[r] \in {"keyed", "hit"}
  /\ pc' = [pc EXCEPT ![r] = "failed"]
  /\ UNCHANGED <<now, row, skew, asked, key, began, count, retry>>

\* A second passes; no request is held up for longer than MaxStall.
Tick ==
  /\ now < MaxTime
  /\ \A r \in Request : pc[r] \in {"keyed", "hit"} => now < asked[r] + MaxStall
  /\ now' = now + 1
  /\ UNCHANGED <<row, request>>
-----------------------------------------------------------------------------
Init ==
  /\ now = 0
  /\ row = <<>>
  /\ pc = [r \in Request |-> "idle"]
  /\ skew = [r \in Request |-> 0]
  /\ asked = [r \in Request |-> 0]
  /\ key = [r \in Request |-> NoKey]
  /\ began = [r \in Request |-> 0]
  /\ count = [r \in Request |-> 0]
  /\ retry = [r \in Request |-> 0]

Next ==
  \/ \E r \in Request : \/ Enter(r) \/ ReadClock(r) \/ Hit(r) \/ Sweep(r)
                        \/ Answer(r) \/ Fail(r)
  \/ Tick

Spec == Init /\ [][Next]_vars
-----------------------------------------------------------------------------
PC == {"idle", "keyed", "hit", "sweep", "answer", "allowed", "limited", "failed"}

\* Types of the variables; Retry-After is at least a second and at most a window.
TypeOK ==
  /\ now \in Nat
  /\ DOMAIN row \subseteq Key
  /\ \A k \in DOMAIN row : row[k] \in [start : Nat, count : Nat \ {0}]
  /\ pc \in [Request -> PC]
  /\ skew \in [Request -> 0..MaxSkew]
  /\ asked \in [Request -> Nat]
  /\ key \in [Request -> Key \cup {NoKey}]
  /\ began \in [Request -> Nat]
  /\ count \in [Request -> Nat]
  /\ retry \in [Request -> 0..Window]

Admitted(k) == {r \in Request : pc[r] = "allowed" /\ key[r] = k}
Counted(k)  == {r \in Request : key[r] = k /\ count[r] > 0}

\* At most Limit requests of a client pass per window, on all replicas
\* together, although sweeps delete buckets under running requests - provided
\* no request is held up so long, or by clocks so far apart, that its bucket
\* is two windows old (MaxStall + MaxSkew <= 2 * Window).
WindowLimit == \A r \in Request : Cardinality(Admitted(key[r])) <= Limit

\* A 429 is deserved: Limit requests of the same client and window were
\* counted before, none of them from another window or another client.
OnlyExcessLimited ==
  \A r \in Request : pc[r] = "limited" => Cardinality(Counted(key[r]) \ {r}) >= Limit

\* A client that waits for as long as Retry-After says, on the clock that
\* counted it, gets a bucket that is not the one that was full, even when the
\* window ended between the two clock readings.
RetryReachesFreshBucket ==
  \A r \in Request : pc[r] = "limited" => Index(began[r] + retry[r]) > key[r][2]
=============================================================================
