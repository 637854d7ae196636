--------------------------- MODULE StartupProofs ---------------------------
(***************************************************************************)
(* Startup for any number of containers, releases and environments: type   *)
(* correctness and the invariants MCStartup checks for two containers.     *)
(*                                                                         *)
(* None of them is inductive.  That migrations are applied in order rests  *)
(* on what goose read: next, read once, may lag behind the version table   *)
(* but never runs ahead of it, so a migration that does not fail on        *)
(* existing tables is the next one (Ahead).  That a replica serves its own *)
(* schema rests on the same and on the modes that reach each step          *)
(* (Arrived).  That two migrators exclude each other rests on who holds    *)
(* the lock while migrating (Holds).                                       *)
(***************************************************************************)
EXTENDS Startup, TLAPS

\* What goose read is not ahead of the version table.
Ahead(p) ==
  /\ pc[p] = "apply" => next[p] \in 1 .. Len(log) + 1
  /\ pc[p] = "unlock" => Ships[p] <= Len(log)

\* How a process of some mode got where it stands.
Arrived(p) ==
  /\ pc[p] \in {"lock", "read", "apply", "unlock"} => mode[p] \in {"default", "migrate"}
  /\ pc[p] \in {"pool", "deps", "listen", "serving"} => mode[p] \in {"default", "server"}

\* A migrator whose connection never broke holds the lock of its key.
Holds(p) ==
  /\ cfg[p] # None => cfg[p].lockKey \in LockKey
  /\ pc[p] \in {"read", "apply", "unlock"} /\ p \notin lost => lock[cfg[p].lockKey] = p

IndInv ==
  /\ TypeOK
  /\ MigrationsInOrder
  /\ WholeConfig
  /\ \A p \in Process : Ahead(p) /\ Arrived(p) /\ Holds(p)
  /\ ServesMigrated
-----------------------------------------------------------------------------
(***************************************************************************)
(* What Load makes of an environment without problems.                     *)
(***************************************************************************)
\* A number that is given and well-formed is one.
LEMMA NumberType == \A w \in DOMAIN Number : Number[w] \in Int
BY DEF Number

\* MIGRATION_LOCK_KEY is a key, given or not.
LEMMA LoadLockKey ==
  ASSUME NEW env, Problems(env) = {}
  PROVE  Load(env).lockKey \in LockKey
<1>1. CASE Given(env, "MIGRATION_LOCK_KEY")
  <2>1. env["MIGRATION_LOCK_KEY"] \in WellFormed["MIGRATION_LOCK_KEY"]
    <3>1. "MIGRATION_LOCK_KEY" \in Field /\ "MIGRATION_LOCK_KEY" \in Checked(env)
      BY DEF Field, Optional, Checked
    <3> QED BY <1>1, <3>1 DEF Problems, Malformed
  <2>2. WellFormed["MIGRATION_LOCK_KEY"] = IntAtLeast(-1)
    BY DEF WellFormed
  <2> QED BY <1>1, <2>1, <2>2 DEF IntAtLeast, Load, IntOr, LockKey
<1>2. CASE ~Given(env, "MIGRATION_LOCK_KEY")
  BY <1>2 DEF Load, IntOr, LockKey
<1> QED BY <1>1, <1>2

\* What is mandatory is given, and what is given and looked at is well-formed.
LEMMA LoadGiven ==
  ASSUME NEW env, Problems(env) = {}
  PROVE  /\ env["STORAGE_DRIVER"] \in {"fs", "s3"}
         /\ env["APP_URL"] \in AbsoluteURL
<1>1. Given(env, "STORAGE_DRIVER") /\ Given(env, "APP_URL")
  BY DEF Problems, Missing, Mandatory
<1>2. {"STORAGE_DRIVER", "APP_URL"} \subseteq Checked(env)
  BY DEF Checked, Mandatory
<1>3. {"STORAGE_DRIVER", "APP_URL"} \subseteq Field
  BY DEF Field, Mandatory
<1>4. env["STORAGE_DRIVER"] \in WellFormed["STORAGE_DRIVER"]
      /\ env["APP_URL"] \in WellFormed["APP_URL"]
  BY <1>1, <1>2, <1>3 DEF Problems, Malformed
<1> QED BY <1>4 DEF WellFormed, Drivers

LEMMA LoadType ==
  ASSUME NEW env, Problems(env) = {}
  PROVE  Load(env) \in Configuration
<1>1. Load(env).lockKey \in Int
  <2>1. DefaultLockKey \in Int
    BY SMT DEF DefaultLockKey
  <2> QED BY <2>1, LoadLockKey, NumberType DEF LockKey
<1> QED BY <1>1, LoadGiven DEF Load, Configuration

\* Nothing is configured in part.
LEMMA LoadWhole ==
  ASSUME NEW env, Problems(env) = {}
  PROVE  NothingPartial(Load(env))
<1>1. \A f \in StorageFields(env) \cup MailFields(env) : Given(env, f)
  <2>1. \A f \in StorageFields(env) \cup MailFields(env) :
          f \in {"STORAGE_FS_PATH"} \cup S3 \cup SMTP
    BY DEF StorageFields, MailFields
  <2> QED BY <2>1 DEF Problems, Missing
<1>2. env["STORAGE_DRIVER"] = "fs" => Given(env, "STORAGE_FS_PATH")
  BY <1>1 DEF StorageFields, S3
<1>3. env["STORAGE_DRIVER"] = "s3" => \A f \in S3 : Given(env, f)
  BY <1>1 DEF StorageFields
<1>4. (\E f \in SMTP : Given(env, f)) => \A f \in SMTP : Given(env, f)
  BY <1>1 DEF MailFields
<1>5. env["E2E_TEST_HOOKS"] = "1" => env["APP_URL"] \in Loopback
  BY LoadGiven DEF Problems, Exposed
<1>6. "SMTP_HOST" \in SMTP
  BY DEF SMTP
<1> QED BY <1>2, <1>3, <1>4, <1>5, <1>6 DEF NothingPartial, Load
-----------------------------------------------------------------------------
(***************************************************************************)
(* A step is an action of one process; each invariant looks at its own     *)
(* variables.                                                              *)
(***************************************************************************)
\* Exits and GivesUp, without the case that does not occur.
LEMMA Exiting ==
  \A p \in Process, c \in {0, 1} : Exits(p, c) =>
    /\ pc' = [pc EXCEPT ![p] = "exited"] /\ code' = [code EXCEPT ![p] = c]
    /\ cfg' = [cfg EXCEPT ![p] = None] /\ next' = [next EXCEPT ![p] = 1]
    /\ lost' = lost \ {p} /\ sig' = [sig EXCEPT ![p] = FALSE]
BY DEF Exits, Becomes

LEMMA GivingUp ==
  \A p \in Process : GivesUp(p) =>
    /\ pc' = [pc EXCEPT ![p] = "exited"] /\ code' = [code EXCEPT ![p] = 1]
    /\ cfg' = [cfg EXCEPT ![p] = None] /\ next' = [next EXCEPT ![p] = 1]
    /\ lost' = lost \ {p} /\ sig' = [sig EXCEPT ![p] = FALSE]
    /\ Releases(p) /\ UNCHANGED <<mode, restarts>>
BY DEF GivesUp, AfterFailure, Becomes

\* Giving up is exiting with 1 and letting go of the lock.
LEMMA GivingUpExits ==
  \A p \in Process : GivesUp(p) => Exits(p, 1) /\ Releases(p) /\ UNCHANGED <<mode, restarts>>
BY DEF GivesUp, AfterFailure, Exits

LEMMA ReleaseType ==
  ASSUME TypeOK, NEW p \in Process, Releases(p)
  PROVE  lock' \in [LockKey -> Process \cup {None}]
BY DEF TypeOK, Releases

LEMMA Tables ==
  TypeOK => log \in Seq(Nat) /\ lock \in [LockKey -> Process \cup {None}]
BY DEF TypeOK

\* A process that ends leaves every variable in its type.
LEMMA ExitType ==
  ASSUME TypeOK, NEW p \in Process, NEW c \in {0, 1}, Exits(p, c),
         log' \in Seq(Nat), lock' \in [LockKey -> Process \cup {None}], UNCHANGED <<mode, restarts>>
  PROVE  TypeOK'
<1> USE Exiting
<1>1. pc' \in [Process -> PC]
  BY DEF TypeOK, PC
<1>2. cfg' \in [Process -> Configuration \cup {None}]
  BY DEF TypeOK
<1>3. \A q \in Process : pc'[q] \notin {"main", "config", "exited"} => cfg'[q] # None
  BY DEF TypeOK
<1>4. next' \in [Process -> Nat]
  <2>1. next \in [Process -> Nat] /\ 1 \in Nat
    BY DEF TypeOK
  <2>2. next' = [next EXCEPT ![p] = 1]
    OBVIOUS
  <2> QED BY <2>1, <2>2, Zenon
<1>5. lost' \subseteq Process /\ sig' \in [Process -> BOOLEAN] /\ code' \in [Process -> {0, 1}]
  BY DEF TypeOK
<1>6. mode' \in [Process -> Mode \cup {None}] /\ restarts' \in 0 .. MaxRestarts
  BY DEF TypeOK
<1> QED BY <1>1, <1>2, <1>3, <1>4, <1>5, <1>6 DEF TypeOK

\* Every action keeps every variable in its type.
LEMMA TypeStep ==
  ASSUME TypeOK, [Next]_vars
  PROVE  TypeOK'
<1>1. CASE UNCHANGED vars
  BY <1>1 DEF vars, memory, TypeOK, PC
<1>2. ASSUME NEW p \in Process,
             Step(p) \/ MigrationFails(p) \/ LoseConnection(p) \/ Signal(p) \/ Die(p) \/ Restart(p)
      PROVE  TypeOK'
  <2>1. CASE Run(p)
    BY <2>1, StartupAssumption DEF Run, GoesOn, Goes, Mode, memory, TypeOK, PC
  <2>2. CASE RunWithoutConfig(p)
    <3>1. PICK c \in {0, 1} : Exits(p, c)
      BY <2>2 DEF RunWithoutConfig
    <3> QED BY <2>2, <3>1, ExitType, Tables DEF RunWithoutConfig
  <2>3. CASE LoadConfig(p)
    <3>1. CASE Exits(p, 1)
      BY <2>3, <3>1, ExitType, Tables DEF LoadConfig
    <3>2. CASE ~Exits(p, 1)
      <4>1. PICK env \in Accepted : cfg' = [cfg EXCEPT ![p] = Load(env)]
        BY <2>3, <3>2 DEF LoadConfig
      <4>2. Load(env) \in Configuration
        BY LoadType DEF Accepted
      <4>3. Load(env) # None
        BY <4>2, StartupAssumption
      <4>4. cfg' \in [Process -> Configuration \cup {None}]
        BY <4>1, <4>2 DEF TypeOK
      <4>5. pc' \in [Process -> PC]
        BY <2>3, <3>2 DEF LoadConfig, GoesOn, Goes, TypeOK, PC
      <4>6. \A q \in Process : pc'[q] \notin {"main", "config", "exited"} => cfg'[q] # None
        BY <2>3, <3>2, <4>1, <4>3 DEF LoadConfig, GoesOn, Goes, TypeOK
      <4> QED BY <2>3, <3>2, <4>4, <4>5, <4>6 DEF LoadConfig, GoesOn, TypeOK
    <3> QED BY <3>1, <3>2
  <2>4. CASE AcquireLock(p)
    BY <2>4, StartupAssumption DEF AcquireLock, Goes, LockFree, memory, TypeOK, PC
  <2>5. CASE ReadVersions(p)
    BY <2>5, StartupAssumption DEF ReadVersions, Goes, Pending, memory, TypeOK, PC
  <2>6. CASE ApplyMigration(p)
    BY <2>6, StartupAssumption DEF ApplyMigration, Goes, Pending, Conflicts, Migrations, memory, TypeOK, PC
  <2>7. CASE MigrationConflicts(p)
    BY <2>7, GivingUpExits, ReleaseType, ExitType, Tables DEF MigrationConflicts
  <2>8. CASE MigrationFails(p)
    <3>1. log' \in Seq(Nat)
      <4>1. log \in Seq(Nat) /\ next[p] \in Nat
        BY DEF TypeOK
      <4>2. log' = log \/ log' = Append(log, next[p])
        BY <2>8 DEF MigrationFails
      <4> QED BY <4>1, <4>2
    <3> QED BY <2>8, <3>1, GivingUpExits, ReleaseType, ExitType DEF MigrationFails
  <2>9. CASE LoseConnection(p)
    BY <2>9, StartupAssumption DEF LoseConnection, Releases, memory, TypeOK, PC
  <2>10. CASE Unlock(p)
    <3>1. lock' \in [LockKey -> Process \cup {None}]
      BY <2>10, ReleaseType DEF Unlock
    <3>2. CASE mode[p] = "migrate"
      BY <2>10, <3>1, <3>2, ExitType, Tables DEF Unlock
    <3>3. CASE mode[p] # "migrate"
      BY <2>10, <3>1, <3>3 DEF Unlock, GoesOn, Goes, TypeOK, PC
    <3> QED BY <3>2, <3>3
  <2>11. CASE OpenPool(p)
    <3>1. CASE Exits(p, 1)
      BY <2>11, <3>1, ExitType, Tables DEF OpenPool
    <3>2. CASE ~Exits(p, 1)
      BY <2>11, <3>2 DEF OpenPool, GoesOn, Goes, memory, TypeOK, PC
    <3> QED BY <3>1, <3>2
  <2>12. CASE BuildDeps(p)
    <3>1. CASE Exits(p, 1)
      BY <2>12, <3>1, ExitType, Tables DEF BuildDeps
    <3>2. CASE ~Exits(p, 1)
      BY <2>12, <3>2 DEF BuildDeps, GoesOn, Goes, memory, TypeOK, PC
    <3> QED BY <3>1, <3>2
  <2>13. CASE Listen(p)
    <3>1. CASE Exits(p, 1)
      BY <2>13, <3>1, ExitType, Tables DEF Listen
    <3>2. CASE ~Exits(p, 1)
      BY <2>13, <3>2 DEF Listen, GoesOn, Goes, memory, TypeOK, PC
    <3> QED BY <3>1, <3>2
  <2>14. CASE Signal(p)
    BY <2>14, StartupAssumption DEF Signal, Notified, memory, TypeOK, PC
  <2>15. CASE TakeSignal(p)
    BY <2>15, ExitType, Tables DEF TakeSignal
  <2>16. CASE Die(p)
    BY <2>16, ExitType, ReleaseType, Tables DEF Die
  <2>17. CASE Restart(p)
    BY <2>17, StartupAssumption DEF Restart, Goes, memory, TypeOK, PC
  <2> QED BY <1>2, <2>1, <2>2, <2>3, <2>4, <2>5, <2>6, <2>7, <2>8, <2>9, <2>10, <2>11, <2>12, <2>13, <2>14, <2>15, <2>16, <2>17 DEF Step
<1> QED BY <1>1, <1>2 DEF Next

\* Whoever applies a migration applies the next one.
LEMMA NextInOrder ==
  ASSUME TypeOK, MigrationsInOrder, NEW p \in Process, Ahead(p), pc[p] = "apply", ~Conflicts(p),
         log' = Append(log, next[p])
  PROVE  next[p] = Len(log) + 1 /\ Len(log') = Len(log) + 1 /\ MigrationsInOrder'
<1>1. log \in Seq(Nat) /\ next[p] \in Nat /\ Len(log) \in Nat /\ DOMAIN log = 1 .. Len(log)
  BY DEF TypeOK
<1>2. \A i \in 1 .. Len(log) : log[i] = i
  BY <1>1 DEF MigrationsInOrder
<1>3. \A i \in 1 .. Len(log) : i \in Migrations
  BY <1>1, <1>2 DEF Migrations
<1>4. next[p] \in 1 .. Len(log) + 1 /\ next[p] \notin Migrations
  BY DEF Ahead, Conflicts
<1>5. next[p] = Len(log) + 1
  BY <1>1, <1>3, <1>4
<1>6. Len(log') = Len(log) + 1 /\ DOMAIN log' = 1 .. Len(log) + 1
  BY <1>1
<1>7. \A i \in 1 .. Len(log) + 1 : log'[i] = i
  BY <1>1, <1>2, <1>5
<1> QED BY <1>5, <1>6, <1>7 DEF MigrationsInOrder

\* What another process read lags behind as before.
LEMMA OthersAhead ==
  ASSUME NEW q \in Process, Ahead(q), pc'[q] = pc[q], next'[q] = next[q], Ships[q] \in Nat,
         Len(log) \in Nat, Len(log') = Len(log) \/ Len(log') = Len(log) + 1
  PROVE  Ahead(q)'
<1>1. CASE pc[q] = "apply"
  BY <1>1 DEF Ahead
<1>2. CASE pc[q] = "unlock"
  BY <1>2 DEF Ahead
<1> QED BY <1>1, <1>2 DEF Ahead

\* The version table grows by the next migration or not at all.
LEMMA OrderStep ==
  ASSUME TypeOK, MigrationsInOrder, \A q \in Process : Ahead(q), [Next]_vars
  PROVE  MigrationsInOrder' /\ \A q \in Process : Ahead(q)'
<1>1. CASE UNCHANGED vars
  BY <1>1 DEF vars, memory, TypeOK, MigrationsInOrder, Ahead
<1>2. ASSUME NEW p \in Process,
             Step(p) \/ MigrationFails(p) \/ LoseConnection(p) \/ Signal(p) \/ Die(p) \/ Restart(p)
      PROVE  MigrationsInOrder' /\ \A q \in Process : Ahead(q)'
  <2>1. CASE Run(p)
    BY <2>1, StartupAssumption DEF Run, GoesOn, Goes, Mode, memory, TypeOK, MigrationsInOrder, Ahead
  <2>2. CASE RunWithoutConfig(p)
    BY <2>2, StartupAssumption, Exiting DEF RunWithoutConfig, memory, TypeOK, MigrationsInOrder, Ahead
  <2>3. CASE LoadConfig(p)
    BY <2>3, StartupAssumption, Exiting DEF LoadConfig, GoesOn, Goes, Accepted, memory, TypeOK, MigrationsInOrder, Ahead
  <2>4. CASE AcquireLock(p)
    BY <2>4, StartupAssumption DEF AcquireLock, Goes, LockFree, memory, TypeOK, MigrationsInOrder, Ahead
  <2>5. CASE ReadVersions(p)
    <3>1. Len(log) \in Nat /\ Ships[p] \in Nat
      BY StartupAssumption DEF TypeOK
    <3>2. log' = log /\ pc' = [pc EXCEPT ![p] = IF Pending(p, Len(log) + 1) THEN "apply" ELSE "unlock"]
          /\ next' = [next EXCEPT ![p] = Len(log) + 1]
      BY <2>5 DEF ReadVersions, Goes
    <3>3. ASSUME NEW q \in Process PROVE Ahead(q)'
      <4>1. CASE q = p
        BY <3>1, <3>2, <4>1 DEF TypeOK, Ahead, Pending
      <4>2. CASE q # p
        BY <3>2, <4>2 DEF TypeOK, Ahead
      <4> QED BY <4>1, <4>2
    <3> QED BY <3>2, <3>3 DEF MigrationsInOrder
  <2>6. CASE ApplyMigration(p)
    <3>1. next[p] = Len(log) + 1 /\ Len(log') = Len(log) + 1 /\ MigrationsInOrder'
      BY <2>6, NextInOrder DEF ApplyMigration, Goes
    <3>2. pc' = [pc EXCEPT ![p] = IF Pending(p, next[p] + 1) THEN "apply" ELSE "unlock"]
          /\ next' = [next EXCEPT ![p] = @ + 1]
      BY <2>6 DEF ApplyMigration, Goes
    <3>3. Len(log) \in Nat /\ Ships \in [Process -> Nat]
      BY StartupAssumption DEF TypeOK
    <3>4. ASSUME NEW q \in Process PROVE Ahead(q)'
      <4>1. CASE q = p
        <5>1. next'[p] = Len(log) + 2 /\ pc'[p] = IF Pending(p, Len(log) + 2) THEN "apply" ELSE "unlock"
          BY <3>1, <3>2, <3>3 DEF TypeOK
        <5> QED BY <3>1, <3>3, <4>1, <5>1 DEF Ahead, Pending
      <4>2. CASE q # p
        <5>1. pc'[q] = pc[q] /\ next'[q] = next[q]
          BY <3>2, <4>2 DEF TypeOK
        <5> QED BY <3>1, <3>3, <5>1, OthersAhead
      <4> QED BY <4>1, <4>2
    <3> QED BY <3>1, <3>4
  <2>7. CASE MigrationConflicts(p)
    BY <2>7, StartupAssumption, GivingUp DEF MigrationConflicts, Releases, memory, TypeOK, MigrationsInOrder, Ahead
  <2>8. CASE MigrationFails(p)
    <3>1. pc' = [pc EXCEPT ![p] = "exited"] /\ next' = [next EXCEPT ![p] = 1]
      BY <2>8, GivingUp DEF MigrationFails
    <3>2. MigrationsInOrder' /\ (Len(log') = Len(log) \/ Len(log') = Len(log) + 1)
      <4>1. CASE log' = log
        BY <4>1 DEF MigrationsInOrder
      <4>2. CASE log' # log
        BY <2>8, <4>2, NextInOrder DEF MigrationFails
      <4> QED BY <4>1, <4>2
    <3>3. Len(log) \in Nat /\ Ships \in [Process -> Nat]
      BY StartupAssumption DEF TypeOK
    <3>4. ASSUME NEW q \in Process PROVE Ahead(q)'
      <4>1. CASE q = p
        BY <3>1, <4>1 DEF TypeOK, Ahead
      <4>2. CASE q # p
        <5>1. pc'[q] = pc[q] /\ next'[q] = next[q]
          BY <3>1, <4>2 DEF TypeOK
        <5> QED BY <3>2, <3>3, <5>1, OthersAhead
      <4> QED BY <4>1, <4>2
    <3> QED BY <3>2, <3>4
  <2>9. CASE LoseConnection(p)
    BY <2>9, StartupAssumption DEF LoseConnection, Releases, memory, TypeOK, MigrationsInOrder, Ahead
  <2>10. CASE Unlock(p)
    BY <2>10, StartupAssumption, Exiting DEF Unlock, GoesOn, Goes, Releases, memory, TypeOK, MigrationsInOrder, Ahead
  <2>11. CASE OpenPool(p)
    BY <2>11, StartupAssumption, Exiting DEF OpenPool, GoesOn, Goes, memory, TypeOK, MigrationsInOrder, Ahead
  <2>12. CASE BuildDeps(p)
    BY <2>12, StartupAssumption, Exiting DEF BuildDeps, GoesOn, Goes, memory, TypeOK, MigrationsInOrder, Ahead
  <2>13. CASE Listen(p)
    BY <2>13, StartupAssumption, Exiting DEF Listen, GoesOn, Goes, memory, TypeOK, MigrationsInOrder, Ahead
  <2>14. CASE Signal(p)
    BY <2>14, StartupAssumption DEF Signal, Notified, memory, TypeOK, MigrationsInOrder, Ahead
  <2>15. CASE TakeSignal(p)
    BY <2>15, StartupAssumption, Exiting DEF TakeSignal, memory, TypeOK, MigrationsInOrder, Ahead
  <2>16. CASE Die(p)
    BY <2>16, StartupAssumption, Exiting DEF Die, Releases, memory, TypeOK, MigrationsInOrder, Ahead
  <2>17. CASE Restart(p)
    BY <2>17, StartupAssumption DEF Restart, Goes, memory, TypeOK, MigrationsInOrder, Ahead
  <2> QED BY <1>2, <2>1, <2>2, <2>3, <2>4, <2>5, <2>6, <2>7, <2>8, <2>9, <2>10, <2>11, <2>12, <2>13, <2>14, <2>15, <2>16, <2>17 DEF Step
<1> QED BY <1>1, <1>2 DEF Next

\* No step changes a mode while it matters.
LEMMA ModeStep ==
  ASSUME TypeOK, \A q \in Process : Arrived(q), [Next]_vars
  PROVE  \A q \in Process : Arrived(q)'
<1>1. CASE UNCHANGED vars
  BY <1>1 DEF vars, memory, TypeOK, Arrived
<1>2. ASSUME NEW p \in Process,
             Step(p) \/ MigrationFails(p) \/ LoseConnection(p) \/ Signal(p) \/ Die(p) \/ Restart(p)
      PROVE  \A q \in Process : Arrived(q)'
  <2>1. CASE Run(p)
    BY <2>1 DEF Run, GoesOn, Goes, Mode, memory, TypeOK, Arrived
  <2>2. CASE RunWithoutConfig(p)
    BY <2>2, Exiting DEF RunWithoutConfig, memory, TypeOK, Arrived
  <2>3. CASE LoadConfig(p)
    BY <2>3, Exiting DEF LoadConfig, GoesOn, Goes, Accepted, memory, TypeOK, Arrived
  <2>4. CASE AcquireLock(p)
    BY <2>4 DEF AcquireLock, Goes, LockFree, memory, TypeOK, Arrived
  <2>5. CASE ReadVersions(p)
    BY <2>5 DEF ReadVersions, Goes, Pending, memory, TypeOK, Arrived
  <2>6. CASE ApplyMigration(p)
    BY <2>6 DEF ApplyMigration, Goes, Pending, Conflicts, Migrations, memory, TypeOK, Arrived
  <2>7. CASE MigrationConflicts(p)
    BY <2>7, GivingUp DEF MigrationConflicts, Releases, memory, TypeOK, Arrived
  <2>8. CASE MigrationFails(p)
    BY <2>8, GivingUp DEF MigrationFails, Releases, Conflicts, Migrations, memory, TypeOK, Arrived
  <2>9. CASE LoseConnection(p)
    BY <2>9 DEF LoseConnection, Releases, memory, TypeOK, Arrived
  <2>10. CASE Unlock(p)
    BY <2>10, Exiting DEF Unlock, GoesOn, Goes, Releases, memory, TypeOK, Arrived
  <2>11. CASE OpenPool(p)
    BY <2>11, Exiting DEF OpenPool, GoesOn, Goes, memory, TypeOK, Arrived
  <2>12. CASE BuildDeps(p)
    BY <2>12, Exiting DEF BuildDeps, GoesOn, Goes, memory, TypeOK, Arrived
  <2>13. CASE Listen(p)
    BY <2>13, Exiting DEF Listen, GoesOn, Goes, memory, TypeOK, Arrived
  <2>14. CASE Signal(p)
    BY <2>14 DEF Signal, Notified, memory, TypeOK, Arrived
  <2>15. CASE TakeSignal(p)
    BY <2>15, Exiting DEF TakeSignal, memory, TypeOK, Arrived
  <2>16. CASE Die(p)
    BY <2>16, Exiting DEF Die, Releases, memory, TypeOK, Arrived
  <2>17. CASE Restart(p)
    BY <2>17 DEF Restart, Goes, memory, TypeOK, Arrived
  <2> QED BY <1>2, <2>1, <2>2, <2>3, <2>4, <2>5, <2>6, <2>7, <2>8, <2>9, <2>10, <2>11, <2>12, <2>13, <2>14, <2>15, <2>16, <2>17 DEF Step
<1> QED BY <1>1, <1>2 DEF Next

\* A lock that a process lets go of is not another one's.
LEMMA OthersHold ==
  ASSUME TypeOK, NEW p \in Process, NEW q \in Process, q # p, Holds(q),
         pc'[q] = pc[q], cfg'[q] = cfg[q], q \in lost' <=> q \in lost,
         lock' = lock \/ Releases(p)
  PROVE  Holds(q)'
<1>1. ASSUME pc[q] \in {"read", "apply", "unlock"}, q \notin lost
      PROVE  lock'[cfg[q].lockKey] = q
  <2>1. cfg[q] # None
    BY <1>1 DEF TypeOK
  <2>2. cfg[q].lockKey \in LockKey /\ lock[cfg[q].lockKey] = q
    BY <1>1, <2>1 DEF Holds
  <2>3. CASE lock' = lock
    BY <2>2, <2>3
  <2>4. CASE Releases(p)
    BY <2>2, <2>4 DEF Releases
  <2> QED BY <2>3, <2>4
<1> QED BY <1>1 DEF Holds

LEMMA ExitHolds ==
  ASSUME TypeOK, NEW p \in Process, NEW c \in {0, 1}, Exits(p, c), \A q \in Process : Holds(q),
         lock' = lock \/ Releases(p)
  PROVE  \A q \in Process : Holds(q)'
<1>1. pc' = [pc EXCEPT ![p] = "exited"] /\ cfg' = [cfg EXCEPT ![p] = None] /\ lost' = lost \ {p}
  BY Exiting
<1>2. Holds(p)'
  BY <1>1 DEF TypeOK, Holds
<1>3. ASSUME NEW q \in Process, q # p PROVE Holds(q)'
  <2>1. pc'[q] = pc[q] /\ cfg'[q] = cfg[q] /\ (q \in lost' <=> q \in lost)
    BY <1>1, <1>3 DEF TypeOK
  <2> QED BY <1>3, <2>1, OthersHold
<1> QED BY <1>2, <1>3

\* A lock passes on when its holder lets go of it, ends, or is lost.
LEMMA LockStep ==
  ASSUME TypeOK, \A q \in Process : Holds(q), [Next]_vars
  PROVE  \A q \in Process : Holds(q)'
<1>1. CASE UNCHANGED vars
  BY <1>1 DEF vars, memory, TypeOK, Holds
<1>2. ASSUME NEW p \in Process,
             Step(p) \/ MigrationFails(p) \/ LoseConnection(p) \/ Signal(p) \/ Die(p) \/ Restart(p)
      PROVE  \A q \in Process : Holds(q)'
  <2>1. CASE Run(p)
    BY <2>1, StartupAssumption DEF Run, GoesOn, Goes, Mode, memory, TypeOK, Holds
  <2>2. CASE RunWithoutConfig(p)
    <3>1. PICK c \in {0, 1} : Exits(p, c)
      BY <2>2 DEF RunWithoutConfig
    <3> QED BY <2>2, <3>1, ExitHolds DEF RunWithoutConfig
  <2>3. CASE LoadConfig(p)
    <3>1. CASE Exits(p, 1)
      BY <2>3, <3>1, ExitHolds DEF LoadConfig
    <3>2. CASE ~Exits(p, 1)
      <4>1. PICK env \in Accepted : cfg' = [cfg EXCEPT ![p] = Load(env)]
        BY <2>3, <3>2 DEF LoadConfig
      <4>2. Load(env).lockKey \in LockKey
        BY LoadLockKey DEF Accepted
      <4>3. pc'[p] \in {"pool", "lock"} /\ cfg'[p] = Load(env)
        BY <2>3, <3>2, <4>1 DEF LoadConfig, GoesOn, Goes, TypeOK
      <4>4. Holds(p)'
        BY <4>2, <4>3 DEF Holds
      <4>5. ASSUME NEW q \in Process, q # p PROVE Holds(q)'
        <5>1. pc'[q] = pc[q] /\ cfg'[q] = cfg[q] /\ lost' = lost /\ lock' = lock
          BY <2>3, <3>2, <4>1, <4>5 DEF LoadConfig, GoesOn, Goes, TypeOK
        <5> QED BY <4>5, <5>1, OthersHold
      <4> QED BY <4>4, <4>5
    <3> QED BY <3>1, <3>2
  <2>4. CASE AcquireLock(p)
    <3>1. cfg[p] # None /\ cfg[p].lockKey \in LockKey
      BY <2>4 DEF AcquireLock, Goes, TypeOK, Holds
    <3>2. pc' = [pc EXCEPT ![p] = "read"] /\ lock' = [lock EXCEPT ![cfg[p].lockKey] = p]
          /\ cfg' = cfg /\ lost' = lost /\ lock[cfg[p].lockKey] = None
      BY <2>4 DEF AcquireLock, Goes, LockFree
    <3>3. Holds(p)'
      BY <3>1, <3>2 DEF Holds, TypeOK
    <3>4. ASSUME NEW q \in Process, q # p PROVE Holds(q)'
      <4>1. None # q
        BY StartupAssumption
      <4> QED BY <3>2, <3>4, <4>1 DEF Holds, TypeOK
    <3> QED BY <3>3, <3>4
  <2>5. CASE ReadVersions(p)
    BY <2>5, StartupAssumption DEF ReadVersions, Goes, Pending, memory, TypeOK, Holds
  <2>6. CASE ApplyMigration(p)
    BY <2>6, StartupAssumption DEF ApplyMigration, Goes, Pending, Conflicts, Migrations, memory, TypeOK, Holds
  <2>7. CASE MigrationConflicts(p)
    BY <2>7, GivingUpExits, ExitHolds DEF MigrationConflicts
  <2>8. CASE MigrationFails(p)
    BY <2>8, GivingUpExits, ExitHolds DEF MigrationFails
  <2>9. CASE LoseConnection(p)
    <3>1. pc' = pc /\ cfg' = cfg /\ lost' = lost \cup {p} /\ Releases(p)
      BY <2>9 DEF LoseConnection
    <3>2. ASSUME NEW q \in Process, q # p PROVE Holds(q)'
      BY <3>1, <3>2, OthersHold
    <3>3. Holds(p)'
      BY <3>1 DEF Holds
    <3> QED BY <3>2, <3>3
  <2>10. CASE Unlock(p)
    <3>1. CASE mode[p] = "migrate"
      BY <2>10, <3>1, ExitHolds DEF Unlock
    <3>2. CASE mode[p] # "migrate"
      <4>1. pc' = [pc EXCEPT ![p] = "pool"] /\ cfg' = cfg /\ lost' = lost \ {p} /\ Releases(p)
        BY <2>10, <3>2 DEF Unlock, GoesOn, Goes
      <4>2. Holds(p)'
        BY <4>1 DEF Holds, TypeOK
      <4>3. ASSUME NEW q \in Process, q # p PROVE Holds(q)'
        <5>1. pc'[q] = pc[q] /\ cfg'[q] = cfg[q] /\ (q \in lost' <=> q \in lost)
          BY <4>1, <4>3 DEF TypeOK
        <5> QED BY <4>1, <4>3, <5>1, OthersHold
      <4> QED BY <4>2, <4>3
    <3> QED BY <3>1, <3>2
  <2>11. CASE OpenPool(p)
    <3>1. CASE Exits(p, 1)
      BY <2>11, <3>1, ExitHolds DEF OpenPool
    <3>2. CASE ~Exits(p, 1)
      BY <2>11, <3>2 DEF OpenPool, GoesOn, Goes, memory, TypeOK, Holds
    <3> QED BY <3>1, <3>2
  <2>12. CASE BuildDeps(p)
    <3>1. CASE Exits(p, 1)
      BY <2>12, <3>1, ExitHolds DEF BuildDeps
    <3>2. CASE ~Exits(p, 1)
      BY <2>12, <3>2 DEF BuildDeps, GoesOn, Goes, memory, TypeOK, Holds
    <3> QED BY <3>1, <3>2
  <2>13. CASE Listen(p)
    <3>1. CASE Exits(p, 1)
      BY <2>13, <3>1, ExitHolds DEF Listen
    <3>2. CASE ~Exits(p, 1)
      BY <2>13, <3>2 DEF Listen, GoesOn, Goes, memory, TypeOK, Holds
    <3> QED BY <3>1, <3>2
  <2>14. CASE Signal(p)
    BY <2>14, StartupAssumption DEF Signal, Notified, memory, TypeOK, Holds
  <2>15. CASE TakeSignal(p)
    BY <2>15, ExitHolds DEF TakeSignal
  <2>16. CASE Die(p)
    BY <2>16, ExitHolds DEF Die
  <2>17. CASE Restart(p)
    BY <2>17, StartupAssumption DEF Restart, Goes, memory, TypeOK, Holds
  <2> QED BY <1>2, <2>1, <2>2, <2>3, <2>4, <2>5, <2>6, <2>7, <2>8, <2>9, <2>10, <2>11, <2>12, <2>13, <2>14, <2>15, <2>16, <2>17 DEF Step
<1> QED BY <1>1, <1>2 DEF Next

\* A configuration comes from Load, and goes with its process.
LEMMA WholeStep ==
  ASSUME TypeOK, WholeConfig, [Next]_vars
  PROVE  WholeConfig'
<1>1. CASE UNCHANGED vars
  BY <1>1 DEF vars, memory, TypeOK, WholeConfig
<1>2. ASSUME NEW p \in Process,
             Step(p) \/ MigrationFails(p) \/ LoseConnection(p) \/ Signal(p) \/ Die(p) \/ Restart(p)
      PROVE  WholeConfig'
  <2>1. CASE Run(p)
    BY <2>1 DEF Run, GoesOn, Goes, Mode, memory, TypeOK, WholeConfig
  <2>2. CASE RunWithoutConfig(p)
    BY <2>2, Exiting DEF RunWithoutConfig, memory, TypeOK, WholeConfig
  <2>3. CASE LoadConfig(p)
    <3>1. CASE Exits(p, 1)
      BY <2>3, <3>1, Exiting DEF LoadConfig, TypeOK, WholeConfig
    <3>2. CASE ~Exits(p, 1)
      <4>1. PICK env \in Accepted : cfg' = [cfg EXCEPT ![p] = Load(env)]
        BY <2>3, <3>2 DEF LoadConfig
      <4>2. NothingPartial(Load(env))
        BY LoadWhole DEF Accepted
      <4>3. ASSUME NEW q \in Process, cfg'[q] # None PROVE NothingPartial(cfg'[q])
        <5>1. CASE q = p
          BY <4>1, <4>2, <5>1 DEF TypeOK
        <5>2. CASE q # p
          BY <4>1, <4>3, <5>2 DEF TypeOK, WholeConfig
        <5> QED BY <5>1, <5>2
      <4> QED BY <4>3 DEF WholeConfig, NothingPartial
    <3> QED BY <3>1, <3>2
  <2>4. CASE AcquireLock(p)
    BY <2>4 DEF AcquireLock, Goes, LockFree, memory, TypeOK, WholeConfig
  <2>5. CASE ReadVersions(p)
    BY <2>5 DEF ReadVersions, Goes, Pending, memory, TypeOK, WholeConfig
  <2>6. CASE ApplyMigration(p)
    BY <2>6 DEF ApplyMigration, Goes, Pending, Conflicts, Migrations, memory, TypeOK, WholeConfig
  <2>7. CASE MigrationConflicts(p)
    BY <2>7, GivingUp DEF MigrationConflicts, Releases, memory, TypeOK, WholeConfig
  <2>8. CASE MigrationFails(p)
    BY <2>8, GivingUp DEF MigrationFails, Releases, Conflicts, Migrations, memory, TypeOK, WholeConfig
  <2>9. CASE LoseConnection(p)
    BY <2>9 DEF LoseConnection, Releases, memory, TypeOK, WholeConfig
  <2>10. CASE Unlock(p)
    BY <2>10, Exiting DEF Unlock, GoesOn, Goes, Releases, memory, TypeOK, WholeConfig
  <2>11. CASE OpenPool(p)
    BY <2>11, Exiting DEF OpenPool, GoesOn, Goes, memory, TypeOK, WholeConfig
  <2>12. CASE BuildDeps(p)
    BY <2>12, Exiting DEF BuildDeps, GoesOn, Goes, memory, TypeOK, WholeConfig
  <2>13. CASE Listen(p)
    BY <2>13, Exiting DEF Listen, GoesOn, Goes, memory, TypeOK, WholeConfig
  <2>14. CASE Signal(p)
    BY <2>14 DEF Signal, Notified, memory, TypeOK, WholeConfig
  <2>15. CASE TakeSignal(p)
    BY <2>15, Exiting DEF TakeSignal, memory, TypeOK, WholeConfig
  <2>16. CASE Die(p)
    BY <2>16, Exiting DEF Die, Releases, memory, TypeOK, WholeConfig
  <2>17. CASE Restart(p)
    BY <2>17 DEF Restart, Goes, memory, TypeOK, WholeConfig
  <2> QED BY <1>2, <2>1, <2>2, <2>3, <2>4, <2>5, <2>6, <2>7, <2>8, <2>9, <2>10, <2>11, <2>12, <2>13, <2>14, <2>15, <2>16, <2>17 DEF Step
<1> QED BY <1>1, <1>2 DEF Next

\* A replica passes Unlock with nothing left to migrate, and nothing is undone.
LEMMA ServeStep ==
  ASSUME IndInv, [Next]_vars
  PROVE  ServesMigrated'
<1>1. CASE UNCHANGED vars
  BY <1>1 DEF vars, memory, IndInv, TypeOK, Ahead, Arrived, ServesMigrated, Migrated
<1>2. ASSUME NEW p \in Process,
             Step(p) \/ MigrationFails(p) \/ LoseConnection(p) \/ Signal(p) \/ Die(p) \/ Restart(p)
      PROVE  ServesMigrated'
  <2>1. CASE Run(p)
    BY <2>1, StartupAssumption DEF Run, GoesOn, Goes, Mode, memory, IndInv, TypeOK, Ahead, Arrived, ServesMigrated, Migrated
  <2>2. CASE RunWithoutConfig(p)
    BY <2>2, StartupAssumption, Exiting DEF RunWithoutConfig, memory, IndInv, TypeOK, Ahead, Arrived, ServesMigrated, Migrated
  <2>3. CASE LoadConfig(p)
    BY <2>3, StartupAssumption, Exiting DEF LoadConfig, GoesOn, Goes, Accepted, memory, IndInv, TypeOK, Ahead, Arrived, ServesMigrated, Migrated
  <2>4. CASE AcquireLock(p)
    BY <2>4, StartupAssumption DEF AcquireLock, Goes, LockFree, memory, IndInv, TypeOK, Ahead, Arrived, ServesMigrated, Migrated
  <2>5. CASE ReadVersions(p)
    BY <2>5, StartupAssumption DEF ReadVersions, Goes, Pending, memory, IndInv, TypeOK, Ahead, Arrived, ServesMigrated, Migrated
  <2>6. CASE ApplyMigration(p)
    <3>1. Len(log') = Len(log) + 1
      BY <2>6, NextInOrder DEF IndInv, ApplyMigration, Goes
    <3>2. Len(log) \in Nat /\ Ships \in [Process -> Nat]
      BY StartupAssumption DEF IndInv, TypeOK
    <3>3. pc'[p] \in {"apply", "unlock"} /\ \A q \in Process \ {p} : pc'[q] = pc[q]
      BY <2>6 DEF ApplyMigration, Goes, IndInv, TypeOK
    <3>4. UNCHANGED <<code, mode>>
      BY <2>6 DEF ApplyMigration
    <3>5. ASSUME NEW q \in Process, Migrated(q)' PROVE Ships[q] <= Len(log')
      <4>1. Migrated(q)
        BY <3>3, <3>4, <3>5 DEF Migrated
      <4> QED BY <3>1, <3>2, <4>1 DEF IndInv, ServesMigrated
    <3> QED BY <3>5 DEF ServesMigrated
  <2>7. CASE MigrationConflicts(p)
    BY <2>7, StartupAssumption, GivingUp DEF MigrationConflicts, Releases, memory, IndInv, TypeOK, Ahead, Arrived, ServesMigrated, Migrated
  <2>8. CASE MigrationFails(p)
    BY <2>8, StartupAssumption, GivingUp DEF MigrationFails, Releases, Conflicts, Migrations, memory, IndInv, TypeOK, Ahead, Arrived, ServesMigrated, Migrated
  <2>9. CASE LoseConnection(p)
    BY <2>9, StartupAssumption DEF LoseConnection, Releases, memory, IndInv, TypeOK, Ahead, Arrived, ServesMigrated, Migrated
  <2>10. CASE Unlock(p)
    BY <2>10, StartupAssumption, Exiting DEF Unlock, GoesOn, Goes, Releases, memory, IndInv, TypeOK, Ahead, Arrived, ServesMigrated, Migrated
  <2>11. CASE OpenPool(p)
    BY <2>11, StartupAssumption, Exiting DEF OpenPool, GoesOn, Goes, memory, IndInv, TypeOK, Ahead, Arrived, ServesMigrated, Migrated
  <2>12. CASE BuildDeps(p)
    BY <2>12, StartupAssumption, Exiting DEF BuildDeps, GoesOn, Goes, memory, IndInv, TypeOK, Ahead, Arrived, ServesMigrated, Migrated
  <2>13. CASE Listen(p)
    BY <2>13, StartupAssumption, Exiting DEF Listen, GoesOn, Goes, memory, IndInv, TypeOK, Ahead, Arrived, ServesMigrated, Migrated
  <2>14. CASE Signal(p)
    BY <2>14, StartupAssumption DEF Signal, Notified, memory, IndInv, TypeOK, Ahead, Arrived, ServesMigrated, Migrated
  <2>15. CASE TakeSignal(p)
    BY <2>15, StartupAssumption, Exiting DEF TakeSignal, memory, IndInv, TypeOK, Ahead, Arrived, ServesMigrated, Migrated
  <2>16. CASE Die(p)
    BY <2>16, StartupAssumption, Exiting DEF Die, Releases, memory, IndInv, TypeOK, Ahead, Arrived, ServesMigrated, Migrated
  <2>17. CASE Restart(p)
    BY <2>17, StartupAssumption DEF Restart, Goes, memory, IndInv, TypeOK, Ahead, Arrived, ServesMigrated, Migrated
  <2> QED BY <1>2, <2>1, <2>2, <2>3, <2>4, <2>5, <2>6, <2>7, <2>8, <2>9, <2>10, <2>11, <2>12, <2>13, <2>14, <2>15, <2>16, <2>17 DEF Step
<1> QED BY <1>1, <1>2 DEF Next
-----------------------------------------------------------------------------
LEMMA IndInvInit == Init => IndInv
BY StartupAssumption
   DEF Init, IndInv, TypeOK, MigrationsInOrder, WholeConfig, Ahead, Arrived, Holds,
       ServesMigrated, Migrated, PC

LEMMA IndInvStep == IndInv /\ [Next]_vars => IndInv'
BY TypeStep, OrderStep, ModeStep, LockStep, WholeStep, ServeStep DEF IndInv

\* The inductive invariant holds in every reachable state of a start.
THEOREM Invariance == Spec => []IndInv
BY IndInvInit, IndInvStep, PTL DEF Spec
-----------------------------------------------------------------------------
\* Every variable keeps its type, whatever the containers are given.
THEOREM TypeCorrect == Spec => []TypeOK
<1>1. IndInv => TypeOK
  BY DEF IndInv
<1> QED BY <1>1, Invariance, PTL

\* db.ApplyMigrations: whatever keys, lost connections and killed migrators there
\* are, every migration is applied once, and in order.
THEOREM InOrder == Spec => []MigrationsInOrder
<1>1. IndInv => MigrationsInOrder
  BY DEF IndInv
<1> QED BY <1>1, Invariance, PTL

\* serveMode: a replica that migrates itself never serves on less than its schema,
\* and a migrate that exits with 0 leaves nothing to migrate.
THEOREM SchemaFirst == Spec => []ServesMigrated
<1>1. IndInv => ServesMigrated
  BY DEF IndInv
<1> QED BY <1>1, Invariance, PTL

\* ApplyMigrations' advisory lock: two processes with one key migrate at the same
\* time only after one of them lost its connection.
THEOREM Serialised == Spec => []OneMigrator
<1>1. IndInv => OneMigrator
  <2> SUFFICES ASSUME IndInv, NEW p \in Process, NEW q \in Process, p # q, Migrating(p), Migrating(q),
                      cfg[p].lockKey = cfg[q].lockKey, p \notin lost, q \notin lost
               PROVE  FALSE
    BY DEF OneMigrator
  <2>1. lock[cfg[p].lockKey] = p /\ lock[cfg[q].lockKey] = q
    BY DEF IndInv, Holds, Migrating
  <2> QED BY <2>1
<1> QED BY <1>1, Invariance, PTL

\* config.Load: a process holds a complete configuration or none, for every
\* environment.
THEOREM NeverPartial == Spec => []WholeConfig
<1>1. IndInv => WholeConfig
  BY DEF IndInv
<1> QED BY <1>1, Invariance, PTL
=============================================================================
