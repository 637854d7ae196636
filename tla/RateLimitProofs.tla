-------------------------- MODULE RateLimitProofs --------------------------
(***************************************************************************)
(* RateLimit for any number of requests, clients and seconds: type         *)
(* correctness and the properties MCRateLimit checks for three requests.   *)
(*                                                                         *)
(* The counts one bucket has handed out are without gaps (Gapless), so a   *)
(* 429 is deserved whatever the clocks do.  That they are also distinct,   *)
(* and the limit with it, needs that a bucket which was swept counts       *)
(* nobody anymore.  It is arithmetic on clocks, under Punctual: whoever    *)
(* may still hit the bucket named it too recently for any replica to think *)
(* it two windows old (Over, Pending).                                     *)
(***************************************************************************)
EXTENDS RateLimit, FiniteSetTheorems, TLAPS

\* What the limit is stated under.
Punctual == MaxStall + MaxSkew <= 2 * Window

Waiting == {"keyed", "hit"}
Done    == {"sweep", "answer", "allowed", "limited"}

\* Finitely many requests were made so far.
Begun == IsFiniteSet({r \in Request : pc[r] # "idle"})

\* A request that has yet to hit its bucket named it not long ago; one that has
\* was counted.
Pending(r) ==
  /\ pc[r] \in Waiting \cup Done => /\ key[r] \in Key
                                    /\ key[r][2] = Index(asked[r] + skew[r])
  /\ pc[r] \in Waiting => asked[r] <= now /\ now <= asked[r] + MaxStall
  /\ pc[r] \in Done \cup {"hit"} =>
       asked[r] + skew[r] <= began[r] /\ began[r] <= now + MaxSkew
  /\ pc[r] \in Done <=> count[r] > 0
  /\ pc[r] = "allowed" => count[r] <= Limit
  /\ pc[r] = "limited" => count[r] > Limit /\ retry[r] = RetryAfter(began[r])

\* Every count below one that was handed out was handed out too.
Filled(k, n) == \A i \in 1 .. n : \E r \in Request : key[r] = k /\ count[r] = i
Gapless ==
  /\ \A k \in DOMAIN row : Filled(k, row[k].count)
  /\ \A r \in Request : Filled(key[r], count[r])

CountInv == TypeOK /\ Begun /\ (\A r \in Request : Pending(r)) /\ Gapless

\* Some replica's clock may be past the bucket's window by two more windows.
Over(k) == (k[2] + 3) * Window <= now + MaxSkew

\* A bucket that exists started in its window or later and counts everybody
\* it ever counted; one that was swept is over.
Kept(k) ==
  /\ \E j \in Nat : row[k].start = j * Window /\ k[2] <= j
  /\ \A r \in Request : key[r] = k => count[r] <= row[k].count
Swept(r) == count[r] > 0 /\ key[r] \notin DOMAIN row => Over(key[r])
Distinct ==
  \A q, r \in Request :
    q # r /\ key[q] = key[r] /\ count[q] > 0 /\ count[r] > 0 => count[q] # count[r]

WindowInv ==
  /\ CountInv
  /\ \A k \in DOMAIN row : Kept(k)
  /\ \A r \in Request : Swept(r)
  /\ Distinct
-----------------------------------------------------------------------------

(***************************************************************************)
(* Windows.                                                                *)
(***************************************************************************)

\* Division by the window, which is all the provers know of Index.
LEMMA IndexBounds ==
  ASSUME NEW t \in Nat
  PROVE  /\ Index(t) \in Nat /\ WindowStart(t) \in Nat
         /\ WindowStart(t) = Index(t) * Window
         /\ Index(t) * Window <= t /\ t < (Index(t) + 1) * Window
<1>1. Index(t) \in Nat /\ Index(t) * Window <= t /\ t < (Index(t) + 1) * Window
  BY RateLimitAssumption DEF Index
<1> QED BY <1>1, RateLimitAssumption DEF WindowStart

LEMMA StartsInOrder ==
  ASSUME NEW i \in Int, NEW j \in Int
  PROVE  i * Window < j * Window <=> i < j
BY RateLimitAssumption

LEMMA Distribute ==
  ASSUME NEW i \in Int
  PROVE  /\ (i + 1) * Window = i * Window + Window
         /\ (i + 3) * Window = i * Window + 3 * Window
         /\ (i - 2) * Window = i * Window - 2 * Window
         /\ i * Window \in Int
BY RateLimitAssumption

LEMMA IndexMonotone ==
  ASSUME NEW s \in Nat, NEW t \in Nat, s <= t
  PROVE  Index(s) <= Index(t)
<1>1. Index(s) * Window < (Index(t) + 1) * Window
  BY IndexBounds, RateLimitAssumption
<1> QED BY <1>1, StartsInOrder, IndexBounds

\* Retry-After is what is left of the window Hit saw.
LEMMA RetryIsRest ==
  ASSUME NEW t \in Nat
  PROVE  /\ RetryAfter(t) \in 0 .. Window
         /\ Index(t) < Index(t + RetryAfter(t))
<1> DEFINE rest == WindowStart(t) + Window - t
<1>1. rest \in 1 .. Window /\ t + rest = (Index(t) + 1) * Window
  BY IndexBounds, Distribute, RateLimitAssumption
<1>2. RetryAfter(t) = rest
  BY <1>1 DEF RetryAfter
<1>3. (Index(t) + 1) * Window < (Index(t + rest) + 1) * Window
  BY <1>1, IndexBounds, RateLimitAssumption
<1>4. Index(t) + 1 < Index(t + rest) + 1
  BY <1>1, <1>3, StartsInOrder, IndexBounds, RateLimitAssumption
<1> HIDE DEF rest
<1> QED BY <1>1, <1>2, <1>4, IndexBounds, RateLimitAssumption
-----------------------------------------------------------------------------

(***************************************************************************)
(* What each action does, and that it preserves types.                     *)
(***************************************************************************)

\* What a hit does to its bucket.
LEMMA HitCounts ==
  ASSUME TypeOK, NEW r \in Request, Pending(r), Hit(r)
  PROVE  /\ key[r] \in Key /\ key[r] \in DOMAIN row'
         /\ DOMAIN row' = DOMAIN row \cup {key[r]}
         /\ \A k \in DOMAIN row \ {key[r]} : row'[k] = row[k]
         /\ row'[key[r]] \in [start : Nat, count : Nat \ {0}]
         /\ count'[r] = row'[key[r]].count
         /\ \/ /\ key[r] \in DOMAIN row
               /\ row'[key[r]].count = row[key[r]].count + 1
               /\ row'[key[r]].start = row[key[r]].start
            \/ /\ key[r] \notin DOMAIN row
               /\ row'[key[r]].count = 1
               /\ row'[key[r]].start = WindowStart(began[r])
         /\ count[r] = 0 /\ count' = [count EXCEPT ![r] = count'[r]]
<1> DEFINE new == Upserted(key[r], WindowStart(began[r]))
<1>1. key[r] \in Key /\ WindowStart(began[r]) \in Nat /\ count[r] = 0
  BY IndexBounds DEF Hit, Pending, Waiting, Done, TypeOK
<1>2. /\ new \in [start : Nat, count : Nat \ {0}]
      /\ \/ /\ key[r] \in DOMAIN row
            /\ new.count = row[key[r]].count + 1 /\ new.start = row[key[r]].start
         \/ /\ key[r] \notin DOMAIN row
            /\ new.count = 1 /\ new.start = WindowStart(began[r])
  <2>1. CASE key[r] \in DOMAIN row
    <3>1. row[key[r]] \in [start : Nat, count : Nat \ {0}]
      BY <2>1 DEF TypeOK
    <3> QED BY <2>1, <3>1 DEF Upserted
  <2>2. CASE key[r] \notin DOMAIN row
    BY <1>1, <2>2 DEF Upserted
  <2> QED BY <2>1, <2>2
<1>3. /\ row' = [k \in DOMAIN row \cup {key[r]} |-> IF k = key[r] THEN new ELSE row[k]]
      /\ count' = [count EXCEPT ![r] = new.count]
  BY DEF Hit
<1> HIDE DEF new
<1>4. row'[key[r]] = new /\ count'[r] = new.count
  BY <1>3 DEF TypeOK
<1> QED BY <1>1, <1>2, <1>3, <1>4

LEMMA TypeStep ==
  ASSUME TypeOK, \A r \in Request : Pending(r), [Next]_vars
  PROVE  TypeOK'
<1> USE RateLimitAssumption
<1>1. ASSUME NEW r \in Request, Enter(r) PROVE TypeOK'
  <2>1. PICK b \in Bucket, s \in 0 .. MaxSkew :
          /\ skew' = [skew EXCEPT ![r] = s]
          /\ key' = [key EXCEPT ![r] = <<b, Index(now + s)>>]
    BY <1>1 DEF Enter
  <2>2. <<b, Index(now + s)>> \in Key
    BY IndexBounds DEF Key, TypeOK
  <2>3. key' \in [Request -> Key \cup {NoKey}] /\ skew' \in [Request -> 0 .. MaxSkew]
    BY <2>1, <2>2 DEF TypeOK
  <2> QED BY <1>1, <2>3 DEF Enter, TypeOK, PC
<1>2. ASSUME NEW r \in Request, ReadClock(r) PROVE TypeOK'
  BY <1>2 DEF ReadClock, Clock, TypeOK, PC
<1>3. ASSUME NEW r \in Request, Hit(r) PROVE TypeOK'
  <2>1. pc' \in [Request -> PC]
    BY <1>3 DEF Hit, TypeOK, PC
  <2>2. /\ DOMAIN row' \subseteq Key
        /\ \A k \in DOMAIN row' : row'[k] \in [start : Nat, count : Nat \ {0}]
    <3>1. \A k \in DOMAIN row \ {key[r]} :
            row'[k] = row[k] /\ row[k] \in [start : Nat, count : Nat \ {0}]
      BY <1>3, HitCounts DEF TypeOK
    <3>2. /\ DOMAIN row' = DOMAIN row \cup {key[r]} /\ key[r] \in Key
          /\ row'[key[r]] \in [start : Nat, count : Nat \ {0}]
      BY <1>3, HitCounts
    <3> QED BY <3>1, <3>2 DEF TypeOK
  <2>3. count'[r] \in Nat /\ count' = [count EXCEPT ![r] = count'[r]]
    BY <1>3, HitCounts
  <2>4. count' \in [Request -> Nat]
    BY <2>3 DEF TypeOK
  <2> QED BY <1>3, <2>1, <2>2, <2>4 DEF Hit, TypeOK
<1>4. ASSUME NEW r \in Request, Sweep(r) PROVE TypeOK'
  BY <1>4 DEF Sweep, TypeOK, PC
<1>5. ASSUME NEW r \in Request, Answer(r) PROVE TypeOK'
  BY <1>5, RetryIsRest DEF Answer, TypeOK, PC
<1>6. ASSUME NEW r \in Request, Fail(r) PROVE TypeOK'
  BY <1>6 DEF Fail, TypeOK, PC
<1>7. CASE Tick
  BY <1>7 DEF Tick, TypeOK, request
<1>8. CASE UNCHANGED vars
  BY <1>8 DEF vars, TypeOK
<1> QED BY <1>1, <1>2, <1>3, <1>4, <1>5, <1>6, <1>7, <1>8 DEF Next
-----------------------------------------------------------------------------

(***************************************************************************)
(* Counts are without gaps.                                                *)
(***************************************************************************)
LEMMA CountInit == Init => CountInv
<1> SUFFICES ASSUME Init PROVE CountInv
  OBVIOUS
<1> USE RateLimitAssumption
<1>1. TypeOK
  BY DEF Init, TypeOK, PC
<1>2. Begun
  <2>1. {r \in Request : pc[r] # "idle"} = {}
    BY DEF Init
  <2> QED BY <2>1, FS_EmptySet DEF Begun
<1>3. \A r \in Request : Pending(r)
  BY DEF Init, Pending, Waiting, Done
<1>4. Gapless
  BY DEF Init, Gapless, Filled
<1> QED BY <1>1, <1>2, <1>3, <1>4 DEF CountInv

LEMMA BegunStep == TypeOK /\ Begun /\ [Next]_vars => Begun'
<1> SUFFICES ASSUME TypeOK, Begun, [Next]_vars PROVE Begun'
  OBVIOUS
<1> DEFINE B == {r \in Request : pc[r] # "idle"}
<1>1. ASSUME NEW r \in Request, pc[r] = "idle" \/ pc'[r] # "idle",
             \A q \in Request \ {r} : pc'[q] = pc[q]
      PROVE  Begun'
  <2>1. B' \subseteq B \cup {r}
    BY <1>1
  <2>2. IsFiniteSet(B \cup {r})
    BY FS_AddElement DEF Begun
  <2> QED BY <2>1, <2>2, FS_Subset DEF Begun
<1>2. ASSUME NEW r \in Request,
             \/ Enter(r) \/ ReadClock(r) \/ Hit(r) \/ Sweep(r) \/ Answer(r) \/ Fail(r)
      PROVE  /\ pc'[r] # "idle"
             /\ \A q \in Request \ {r} : pc'[q] = pc[q]
  BY <1>2 DEF TypeOK, Enter, ReadClock, Hit, Sweep, Answer, Fail
<1>3. CASE UNCHANGED pc
  BY <1>3 DEF Begun
<1> QED BY <1>1, <1>2, <1>3 DEF Next, Tick, request, vars

\* What a request knows of its bucket and its clocks.
LEMMA PendingStep ==
  ASSUME CountInv, [Next]_vars, NEW q \in Request
  PROVE  Pending(q)'
<1> USE RateLimitAssumption DEF CountInv
<1>1. /\ now \in Nat /\ asked[q] \in Nat /\ skew[q] \in 0 .. MaxSkew
      /\ began[q] \in Nat /\ count[q] \in Nat /\ Pending(q)
  BY DEF TypeOK
<1>2. ASSUME NEW r \in Request, Enter(r) PROVE Pending(q)'
  <2>1. CASE q # r
    BY <1>1, <1>2, <2>1 DEF Enter, Pending, TypeOK
  <2>2. CASE q = r
    <3>1. PICK b \in Bucket, s \in 0 .. MaxSkew :
            /\ skew' = [skew EXCEPT ![r] = s]
            /\ key' = [key EXCEPT ![r] = <<b, Index(now + s)>>]
      BY <1>2 DEF Enter
    <3>2. <<b, Index(now + s)>> \in Key
      BY IndexBounds DEF Key, TypeOK
    <3>3. /\ key'[r] = <<b, Index(now + s)>> /\ skew'[r] = s /\ asked'[r] = now
          /\ pc'[r] = "keyed" /\ count'[r] = count[r] /\ now' = now
      BY <1>2, <3>1 DEF Enter, TypeOK
    <3>4. count[r] = 0
      BY <1>1, <1>2, <2>2 DEF Enter, Pending, Done
    <3> QED BY <1>1, <2>2, <3>2, <3>3, <3>4 DEF Pending, Waiting, Done
  <2> QED BY <2>1, <2>2
<1>3. ASSUME NEW r \in Request, ReadClock(r) PROVE Pending(q)'
  BY <1>1, <1>3 DEF ReadClock, Clock, Pending, Waiting, Done, TypeOK
<1>4. ASSUME NEW r \in Request, Hit(r) PROVE Pending(q)'
  <2>1. count'[r] \in Nat \ {0} /\ count' = [count EXCEPT ![r] = count'[r]]
    BY <1>4, HitCounts
  <2> QED BY <1>1, <1>4, <2>1 DEF Hit, Pending, Waiting, Done, TypeOK
<1>5. ASSUME NEW r \in Request, Sweep(r) PROVE Pending(q)'
  BY <1>1, <1>5 DEF Sweep, Pending, Waiting, Done, TypeOK
<1>6. ASSUME NEW r \in Request, Answer(r) PROVE Pending(q)'
  BY <1>1, <1>6 DEF Answer, Exceeded, Pending, Waiting, Done, TypeOK
<1>7. ASSUME NEW r \in Request, Fail(r) PROVE Pending(q)'
  BY <1>1, <1>7 DEF Fail, Pending, Waiting, Done, TypeOK
<1>8. CASE Tick
  BY <1>1, <1>8 DEF Tick, request, Pending, Waiting, Done, TypeOK
<1>9. CASE UNCHANGED vars
  BY <1>1, <1>9 DEF vars, Pending
<1> QED BY <1>2, <1>3, <1>4, <1>5, <1>6, <1>7, <1>8, <1>9 DEF Next

\* Keys and counts of requests that were counted are never touched again.
LEMMA CountedStay ==
  ASSUME CountInv, [Next]_vars, NEW r \in Request, count[r] > 0
  PROVE  key'[r] = key[r] /\ count'[r] = count[r]
<1>1. pc[r] \in Done
  BY DEF CountInv, Pending
<1> QED BY <1>1 DEF Done, CountInv, TypeOK, Next, vars, Enter, ReadClock, Hit, Sweep,
              Answer, Fail, Tick, request

\* Only Hit counts, and only Hit and Sweep touch the table.
LEMMA OnlyHitCounts ==
  ASSUME [Next]_vars, \A r \in Request : ~Hit(r)
  PROVE  /\ UNCHANGED count
         /\ UNCHANGED row \/ \E r \in Request : Sweep(r)
BY DEF Next, vars, Enter, ReadClock, Sweep, Answer, Fail, Tick, request

LEMMA FilledStays ==
  ASSUME CountInv, [Next]_vars, NEW k, NEW n \in Nat, Filled(k, n)
  PROVE  \A i \in 1 .. n : \E r \in Request : key'[r] = k /\ count'[r] = i
<1> SUFFICES ASSUME NEW i \in 1 .. n
             PROVE  \E r \in Request : key'[r] = k /\ count'[r] = i
  OBVIOUS
<1>1. PICK r \in Request : key[r] = k /\ count[r] = i
  BY DEF Filled
<1> QED BY <1>1, CountedStay

LEMMA GaplessStep == CountInv /\ [Next]_vars => Gapless'
<1> SUFFICES ASSUME CountInv, [Next]_vars PROVE Gapless'
  OBVIOUS
<1> DEFINE Served(k, i) == \E q \in Request : key'[q] = k /\ count'[q] = i
<1>1. TypeOK /\ Gapless /\ \A r \in Request : Pending(r) /\ count[r] \in Nat
  BY DEF CountInv, TypeOK
<1>2. SUFFICES /\ \A k \in DOMAIN row' : \A i \in 1 .. row'[k].count : Served(k, i)
               /\ \A r \in Request : \A i \in 1 .. count'[r] : Served(key'[r], i)
  BY DEF Gapless, Filled
<1>3. \A k \in DOMAIN row : row[k].count \in Nat /\ \A i \in 1 .. row[k].count : Served(k, i)
  BY <1>1, FilledStays DEF Gapless, TypeOK
<1>4. \A r \in Request : \A i \in 1 .. count[r] : Served(key'[r], i)
  BY <1>1, FilledStays, CountedStay DEF Gapless
<1> HIDE DEF Served
<1>5. CASE \E r \in Request : Hit(r)
  <2>1. PICK r \in Request : Hit(r)
    BY <1>5
  <2>2. Served(key[r], count'[r]) /\ key' = key
    BY <2>1 DEF Hit, Served
  <2>3. /\ count'[r] = row'[key[r]].count /\ count'[r] \in Nat \ {0}
        /\ DOMAIN row' = DOMAIN row \cup {key[r]}
        /\ \A k \in DOMAIN row \ {key[r]} : row'[k] = row[k]
        /\ \/ key[r] \in DOMAIN row /\ count'[r] = row[key[r]].count + 1
           \/ count'[r] = 1
        /\ count' = [count EXCEPT ![r] = count'[r]]
    BY <1>1, <2>1, HitCounts
  <2>4. \A i \in 1 .. count'[r] : Served(key[r], i)
    <3> SUFFICES ASSUME NEW i \in 1 .. count'[r], i # count'[r] PROVE Served(key[r], i)
      BY <2>2
    <3>1. key[r] \in DOMAIN row /\ i \in 1 .. row[key[r]].count
      BY <1>3, <2>3
    <3> QED BY <1>3, <3>1
  <2>5. \A q \in Request \ {r} : count'[q] = count[q]
    BY <1>1, <2>3 DEF TypeOK
  <2> QED BY <1>3, <1>4, <2>2, <2>3, <2>4, <2>5
<1>6. CASE \A r \in Request : ~Hit(r)
  <2>1. count' = count
    BY <1>6, OnlyHitCounts
  <2>2. \A k \in DOMAIN row' : k \in DOMAIN row /\ row'[k] = row[k]
    BY <1>6, OnlyHitCounts DEF Sweep
  <2> QED BY <1>3, <1>4, <2>1, <2>2
<1> QED BY <1>5, <1>6

LEMMA CountStep == CountInv /\ [Next]_vars => CountInv'
BY TypeStep, BegunStep, PendingStep, GaplessStep DEF CountInv

THEOREM CountInvariant == Spec => []CountInv
BY CountInit, CountStep, PTL DEF Spec

\* Every table, clock and request keeps its type, and Retry-After is a number
\* of seconds no longer than the window.
THEOREM TypeCorrect == Spec => []TypeOK
<1>1. CountInv => TypeOK
  BY DEF CountInv
<1> QED BY CountInvariant, <1>1, PTL

\* Whoever is limited has at least Limit others of its bucket before it: the
\* counts from one to Limit are theirs.
LEMMA CountedEnough == CountInv => OnlyExcessLimited
<1> SUFFICES ASSUME CountInv, NEW r \in Request, pc[r] = "limited"
             PROVE  Cardinality(Counted(key[r]) \ {r}) >= Limit
  BY DEF OnlyExcessLimited
<1> DEFINE C == Counted(key[r]) \ {r}
           Holder(i) == CHOOSE q \in Request : key[q] = key[r] /\ count[q] = i
           f == [i \in 1 .. Limit |-> Holder(i)]
<1> USE RateLimitAssumption
<1>1. count[r] \in Nat /\ count[r] > Limit
  BY DEF CountInv, TypeOK, Pending
<1>2. ASSUME NEW i \in 1 .. Limit
      PROVE  Holder(i) \in Request /\ key[Holder(i)] = key[r] /\ count[Holder(i)] = i
  <2>1. \E q \in Request : key[q] = key[r] /\ count[q] = i
    BY <1>1 DEF CountInv, Gapless, Filled
  <2> QED BY <2>1
<1>3. \A i \in 1 .. Limit : Holder(i) \in C
  BY <1>1, <1>2 DEF Counted
<1>4. \A i, j \in 1 .. Limit : i # j => Holder(i) # Holder(j)
  BY <1>2
<1> HIDE DEF Holder
<1>5. f \in Injection(1 .. Limit, C)
  BY <1>3, <1>4 DEF Injection, IsInjective
<1>6. IsFiniteSet(C)
  <2>1. C \subseteq {q \in Request : pc[q] # "idle"}
    BY DEF Counted, CountInv, Pending, Done
  <2> QED BY <2>1, FS_Subset DEF CountInv, Begun
<1>7. IsFiniteSet(1 .. Limit) /\ Cardinality(1 .. Limit) = Limit
  BY FS_Interval
<1>8. Cardinality(1 .. Limit) <= Cardinality(C)
  BY <1>5, <1>6, FS_Injection
<1> QED BY <1>6, <1>7, <1>8, FS_CardinalityType

\* A 429 is deserved, whatever the clocks do and however long a request stalls.
THEOREM OnlyExcessIsLimited == Spec => []OnlyExcessLimited
BY CountInvariant, CountedEnough, PTL

\* A client that waits for Retry-After comes to a later bucket: the one it is
\* limited by is not later than the window Hit saw.
LEMMA RetryIsLater == CountInv => RetryReachesFreshBucket
<1> SUFFICES ASSUME CountInv, NEW r \in Request, pc[r] = "limited"
             PROVE  Index(began[r] + retry[r]) > key[r][2]
  BY DEF RetryReachesFreshBucket
<1>1. /\ asked[r] + skew[r] \in Nat /\ began[r] \in Nat
      /\ asked[r] + skew[r] <= began[r]
      /\ key[r][2] = Index(asked[r] + skew[r])
      /\ retry[r] = RetryAfter(began[r])
  BY RateLimitAssumption DEF CountInv, TypeOK, Pending, Done
<1>2. key[r][2] <= Index(began[r]) /\ Index(began[r]) < Index(began[r] + retry[r])
  BY <1>1, IndexMonotone, RetryIsRest
<1>3. began[r] + retry[r] \in Nat
  BY <1>1, RetryIsRest, RateLimitAssumption
<1> QED BY <1>1, <1>2, <1>3, IndexBounds

\* Waiting for Retry-After leads out of the bucket that was full.
THEOREM RetryReachesAFreshBucket == Spec => []RetryReachesFreshBucket
BY CountInvariant, RetryIsLater, PTL
-----------------------------------------------------------------------------

(***************************************************************************)
(* The limit, for requests and clocks that are punctual.                   *)
(***************************************************************************)

\* A bucket somebody may still hit is not over.
LEMMA PendingNotOver ==
  ASSUME Punctual, CountInv, NEW r \in Request, pc[r] \in Waiting
  PROVE  ~Over(key[r])
<1> DEFINE named == asked[r] + skew[r]
           i == key[r][2]
<1>1. /\ now \in Nat /\ named \in Nat /\ asked[r] <= named
      /\ now <= asked[r] + MaxStall /\ i = Index(named) /\ asked[r] \in Nat
  BY RateLimitAssumption DEF CountInv, TypeOK, Pending
<1>2. i \in Nat /\ named < (i + 1) * Window
  BY <1>1, IndexBounds
<1> HIDE DEF named, i
<1>3. now + MaxSkew < (i + 1) * Window + 2 * Window
  BY <1>1, <1>2, RateLimitAssumption DEF Punctual
<1>4. now + MaxSkew < (i + 3) * Window
  BY <1>1, <1>2, <1>3, Distribute, RateLimitAssumption
<1>5. (i + 3) * Window \in Int
  BY <1>2, RateLimitAssumption
<1> QED BY <1>1, <1>4, <1>5, RateLimitAssumption DEF Over, i

\* What a sweep deletes is over, on the clock of the replica that sweeps.
LEMMA SweptIsOver ==
  ASSUME CountInv, NEW r \in Request, pc[r] = "sweep",
         NEW k \in DOMAIN row, Kept(k), row[k].start < Cutoff(WindowStart(began[r]))
  PROVE  Over(k)
<1>1. began[r] \in Nat /\ began[r] <= now + MaxSkew /\ now \in Nat /\ k \in Key
  BY DEF CountInv, TypeOK, Pending, Done
<1>2. PICK j \in Nat : row[k].start = j * Window /\ k[2] <= j
  BY DEF Kept
<1> DEFINE b == Index(began[r])
<1>3. b \in Nat /\ WindowStart(began[r]) = b * Window /\ b * Window <= began[r]
  BY <1>1, IndexBounds
<1> HIDE DEF b
<1>4. j * Window < (b - 2) * Window
  BY <1>2, <1>3, Distribute DEF Cutoff
<1>5. j < b - 2 /\ k[2] \in Nat
  BY <1>1, <1>3, <1>4, StartsInOrder DEF Key
<1>6. ~(b * Window < (k[2] + 3) * Window)
  BY <1>2, <1>3, <1>5, StartsInOrder
<1>7. b * Window \in Int /\ (k[2] + 3) * Window \in Int
  BY <1>3, <1>5, RateLimitAssumption
<1> QED BY <1>1, <1>3, <1>6, <1>7, RateLimitAssumption DEF Over

\* Time only passes.
LEMMA OverStays ==
  ASSUME CountInv, [Next]_vars, NEW k \in Key, Over(k)
  PROVE  Over(k)'
<1>1. now' = now \/ now' = now + 1
  BY DEF Next, vars, Enter, ReadClock, Hit, Sweep, Answer, Fail, Tick
<1>2. (k[2] + 3) * Window \in Int
  BY RateLimitAssumption DEF Key
<1>3. now \in Nat
  BY DEF CountInv, TypeOK
<1> QED BY <1>1, <1>2, <1>3, RateLimitAssumption DEF Over

LEMMA WindowInit == Init => WindowInv
<1> SUFFICES ASSUME Init PROVE WindowInv
  OBVIOUS
<1> QED BY CountInit DEF Init, WindowInv, Swept, Distinct

LEMMA WindowStep == Punctual => (WindowInv /\ [Next]_vars => WindowInv')
<1> SUFFICES ASSUME Punctual, WindowInv, [Next]_vars PROVE WindowInv'
  OBVIOUS
<1>1. /\ CountInv /\ CountInv' /\ TypeOK /\ \A r \in Request : Pending(r)
      /\ \A k \in DOMAIN row : k \in Key /\ Kept(k)
      /\ \A r \in Request : Swept(r)
      /\ \A r \in Request : count[r] > 0 => key[r] \in Key
  BY CountStep DEF WindowInv, CountInv, TypeOK, Pending
<1>2. \A r \in Request : count[r] \in Nat /\ count'[r] \in Nat
  BY <1>1 DEF CountInv, TypeOK
<1>3. CASE \E r \in Request : Hit(r)
  <2>1. PICK r \in Request : Hit(r)
    BY <1>3
  <2> DEFINE k == key[r]
  <2>2. /\ key' = key /\ k \in Key
        /\ DOMAIN row' = DOMAIN row \cup {k}
        /\ \A j \in DOMAIN row \ {k} : row'[j] = row[j]
        /\ count'[r] = row'[k].count /\ count'[r] \in Nat \ {0} /\ count[r] = 0
        /\ \A q \in Request \ {r} : count'[q] = count[q]
    BY <1>1, <2>1, HitCounts DEF Hit, TypeOK
  <2>3. \A q \in Request : q # r /\ key[q] = k => count[q] < count'[r]
    <3> SUFFICES ASSUME NEW q \in Request, q # r, key[q] = k PROVE count[q] < count'[r]
      OBVIOUS
    <3>1. CASE k \in DOMAIN row
      <4>1. count'[r] = row[k].count + 1 /\ count[q] <= row[k].count /\ row[k].count \in Nat
        BY <1>1, <2>1, <2>2, <3>1, HitCounts DEF Kept, TypeOK
      <4> QED BY <1>2, <4>1
    <3>2. CASE k \notin DOMAIN row
      <4>1. ~Over(k)
        BY <1>1, <2>1, PendingNotOver DEF Hit, Waiting
      <4>2. ~(count[q] > 0)
        BY <1>1, <3>2, <4>1 DEF Swept
      <4> QED BY <1>2, <2>2, <4>2
    <3> QED BY <3>1, <3>2
  <2>4. \E j \in Nat : row'[k].start = j * Window /\ k[2] <= j
    <3>1. CASE k \in DOMAIN row
      BY <1>1, <2>1, <3>1, HitCounts DEF Kept
    <3>2. CASE k \notin DOMAIN row
      <4>1. row'[k].start = Index(began[r]) * Window
        BY <1>1, <2>1, <3>2, HitCounts DEF WindowStart
      <4>2. /\ k[2] = Index(asked[r] + skew[r]) /\ asked[r] + skew[r] <= began[r]
            /\ began[r] \in Nat /\ asked[r] + skew[r] \in Nat
        BY <1>1, <2>1, RateLimitAssumption DEF Hit, Pending, Waiting, TypeOK
      <4>3. k[2] <= Index(began[r]) /\ Index(began[r]) \in Nat
        BY <4>2, IndexMonotone, IndexBounds
      <4> QED BY <4>1, <4>3
    <3> QED BY <3>1, <3>2
  <2>5. \A j \in DOMAIN row' : Kept(j)'
    <3>1. Kept(k)'
      BY <1>2, <2>2, <2>3, <2>4 DEF Kept
    <3>2. ASSUME NEW j \in DOMAIN row \ {k} PROVE Kept(j)'
      BY <1>1, <2>2, <3>2 DEF Kept
    <3> QED BY <2>2, <3>1, <3>2
  <2>6. \A q \in Request : Swept(q)'
    BY <1>1, <2>1, <2>2 DEF Swept, Over, Hit
  <2>7. Distinct'
    BY <1>2, <2>2, <2>3 DEF Distinct, WindowInv
  <2> QED BY <1>1, <2>5, <2>6, <2>7 DEF WindowInv
<1>4. CASE \A r \in Request : ~Hit(r)
  <2>1. count' = count
    BY <1>4, OnlyHitCounts
  <2>2. \A q \in Request : count[q] > 0 => key'[q] = key[q]
    BY <1>1, CountedStay
  <2>3. \A k \in DOMAIN row' : k \in DOMAIN row /\ row'[k] = row[k]
    BY <1>4, OnlyHitCounts DEF Sweep
  <2>4. \A k \in DOMAIN row' : Kept(k)'
    <3> SUFFICES ASSUME NEW k \in DOMAIN row' PROVE Kept(k)'
      OBVIOUS
    <3>1. Kept(k) /\ row'[k] = row[k] /\ row[k].count \in Nat
      BY <1>1, <2>3 DEF TypeOK
    <3> QED BY <1>2, <2>1, <2>2, <3>1 DEF Kept
  <2>5. \A q \in Request : Swept(q)'
    <3> SUFFICES ASSUME NEW q \in Request, count[q] > 0, key[q] \notin DOMAIN row'
                 PROVE  Over(key[q])'
      BY <2>1, <2>2 DEF Swept
    <3>1. Over(key[q])
      <4>1. CASE key[q] \notin DOMAIN row
        BY <1>1, <4>1 DEF Swept
      <4>2. CASE key[q] \in DOMAIN row
        <5>1. PICK r \in Request : Sweep(r)
          BY <1>4, <4>2, OnlyHitCounts
        <5>2. pc[r] = "sweep" /\ ~(row[key[q]].start >= Cutoff(WindowStart(began[r])))
          BY <4>2, <5>1 DEF Sweep
        <5>3. row[key[q]].start \in Int /\ Cutoff(WindowStart(began[r])) \in Int
          BY <1>1, <4>2, IndexBounds, RateLimitAssumption DEF TypeOK, Cutoff
        <5> QED BY <1>1, <4>2, <5>2, <5>3, SweptIsOver
      <4> QED BY <4>1, <4>2
    <3>2. \A k \in Key : Over(k) => (k[2] + 3) * Window <= now' + MaxSkew
      BY <1>1, OverStays DEF Over
    <3>3. key'[q] = key[q] /\ key[q] \in Key
      BY <1>1, <2>2
    <3> QED BY <3>1, <3>2, <3>3 DEF Over
  <2>6. Distinct'
    BY <2>1, <2>2 DEF Distinct, WindowInv
  <2> QED BY <1>1, <2>4, <2>5, <2>6 DEF WindowInv
<1> QED BY <1>3, <1>4

\* The counts of those that passed are different numbers up to Limit.
LEMMA DistinctCountsLimit == WindowInv => WindowLimit
<1> SUFFICES ASSUME WindowInv, NEW r \in Request
             PROVE  Cardinality(Admitted(key[r])) <= Limit
  BY DEF WindowLimit
<1> DEFINE A == Admitted(key[r])
           f == [q \in A |-> count[q]]
<1> USE RateLimitAssumption
<1>1. \A q \in A : q \in Request /\ key[q] = key[r] /\ count[q] \in 1 .. Limit
  BY DEF WindowInv, CountInv, TypeOK, Pending, Done, Admitted
<1>2. \A p, q \in A : count[p] = count[q] => p = q
  BY <1>1 DEF WindowInv, Distinct
<1>3. f \in Injection(A, 1 .. Limit)
  BY <1>1, <1>2 DEF Injection, IsInjective
<1>4. IsFiniteSet(1 .. Limit) /\ Cardinality(1 .. Limit) = Limit
  BY FS_Interval
<1>5. Cardinality(A) <= Cardinality(1 .. Limit)
  BY <1>3, <1>4, FS_Injection
<1> QED BY <1>4, <1>5

\* No more than Limit requests of a client pass in a window, on all replicas
\* together and in spite of the sweeps, if the delays are punctual.
THEOREM LimitHolds == ASSUME Punctual PROVE Spec => []WindowLimit
<1>1. Init => WindowInv
  BY WindowInit
<1>2. WindowInv /\ [Next]_vars => WindowInv'
  BY WindowStep
<1>3. WindowInv => WindowLimit
  BY DistinctCountsLimit
<1> QED BY <1>1, <1>2, <1>3, PTL DEF Spec
=============================================================================
