------------------------------ MODULE Startup ------------------------------
(***************************************************************************)
(* How processes of the server start next to each other on one database:   *)
(* cmd/snarvei/main.go from run to the select of serve, config.Load,       *)
(* db.ApplyMigrations and buildDeps.  ServerLifecycle takes over where a   *)
(* process serves.                                                         *)
(*                                                                         *)
(* A process is one container: it may be killed at any step and started    *)
(* again, with another environment.  Postgres frees an advisory lock when  *)
(* the connection that took it ends; goose runs every migration in one     *)
(* transaction with its row in the version table.                          *)
(***************************************************************************)
EXTENDS Config, Sequences

CONSTANTS
  Process,
  Argument,     \* first command-line arguments, "" for none
  Ships,        \* Ships[p] is the number of migrations embedded in p's binary
  Environment,  \* environments a container can be given
  MaxRestarts,  \* bound: how many containers are started again
  None

ASSUME StartupAssumption ==
  /\ Argument \subseteq STRING
  /\ Ships \in [Process -> Nat]
  /\ MaxRestarts \in Nat
  /\ None \notin Process \cup Configuration

VARIABLES
  log,     \* the version table: the migrations applied, in this order
  lock,    \* who holds the advisory lock of each key
  pc,      \* where each process stands
  mode,    \* what its argument asks for
  cfg,     \* its configuration
  next,    \* the next migration goose applies
  lost,    \* whose migration connection broke and was replaced (history)
  sig,     \* a signal waits in serveMode's channel
  code,    \* exit code: 0, or 1 for all others
  restarts \* how many containers were started again

memory == <<cfg, next, lost, sig>>
vars == <<log, lock, pc, mode, memory, code, restarts>>

PC == {"main", "config", "lock", "read", "apply", "unlock", "pool", "deps", "listen",
       "serving", "exited"}
LockKey == {Number[w] : w \in DOMAIN Number} \cup {DefaultLockKey}

\* parseArgs
parseArgs(a) ==
  CASE a = "" -> "default"
    [] a = "server" -> "server"
    [] a \in {"migrate", "migrations"} -> "migrate"
    [] a = "healthcheck" -> "healthcheck"
    [] OTHER -> "unknown"
Mode == {parseArgs(a) : a \in Argument}

Migrations == {log[i] : i \in DOMAIN log}
Migrating(p) == pc[p] \in {"read", "apply"}
-----------------------------------------------------------------------------
Goes(p, from, to) == pc[p] = from /\ pc' = [pc EXCEPT ![p] = to]
GoesOn(p, from, to) == Goes(p, from, to) /\ UNCHANGED code

\* What a process had in memory goes with it.
Becomes(p, step, c) ==
  /\ pc' = [pc EXCEPT ![p] = step]
  /\ code' = [code EXCEPT ![p] = c]
  /\ IF step = "exited"
     THEN /\ cfg' = [cfg EXCEPT ![p] = None]
          /\ next' = [next EXCEPT ![p] = 1]
          /\ lost' = lost \ {p}
          /\ sig' = [sig EXCEPT ![p] = FALSE]
     ELSE UNCHANGED memory
Exits(p, c) == Becomes(p, "exited", c)
\* sqlDB.Close, or the end of the process: the connection and its lock go.
Releases_Never(p) == UNCHANGED lock
Releases(p) == lock' = [k \in LockKey |-> IF lock[k] = p THEN None ELSE lock[k]]

Run(p) ==
  /\ GoesOn(p, "main", "config")
  /\ \E a \in Argument : mode' = [mode EXCEPT ![p] = parseArgs(a)]
  /\ UNCHANGED <<log, lock, memory, restarts>>

\* run: the modes that configure nothing ...
RunWithoutConfig(p) ==
  /\ pc[p] = "config"
  /\ \/ mode[p] = "unknown" /\ Exits(p, 1)
     \/ mode[p] = "healthcheck" /\ \E c \in {0, 1} : Exits(p, c)
  /\ UNCHANGED <<log, lock, mode, restarts>>

\* ... and those that stop at a bad configuration, with every problem listed.
Accepted == {env \in Environment : Problems(env) = {}}
Refused == Environment \ Accepted

LoadConfig(p) ==
  /\ pc[p] = "config"
  /\ mode[p] \in {"default", "server", "migrate"}
  /\ \/ Refused # {} /\ Exits(p, 1)
     \/ /\ GoesOn(p, "config", IF mode[p] = "server" THEN "pool" ELSE "lock")
        /\ \E env \in Accepted : cfg' = [cfg EXCEPT ![p] = Load(env)]
        /\ UNCHANGED <<next, lost, sig>>
  /\ UNCHANGED <<log, lock, mode, restarts>>
-----------------------------------------------------------------------------
\* ApplyMigrations: pg_advisory_lock waits for the other migrators ...
LockFree_Always(k) == TRUE
LockFree(k) == lock[k] = None

AcquireLock(p) ==
  /\ Goes(p, "lock", "read")
  /\ LockFree(cfg[p].lockKey)
  /\ lock' = [lock EXCEPT ![cfg[p].lockKey] = p]
  /\ UNCHANGED <<log, cfg, next, lost, sig, code, mode, restarts>>

\* ... goose reads once what is applied ...
Pending(p, n) == n <= Ships[p]
ReadVersions(p) ==
  LET n == Len(log) + 1
  IN  /\ Goes(p, "read", IF Pending(p, n) THEN "apply" ELSE "unlock")
      /\ next' = [next EXCEPT ![p] = n]
      /\ UNCHANGED <<log, lock, cfg, lost, sig, code, mode, restarts>>

\* ... and applies the rest.  A migration that ran already fails on the
\* tables that exist.
Conflicts_Never(p) == FALSE
Conflicts(p) == next[p] \in Migrations

ApplyMigration(p) ==
  /\ ~Conflicts(p)
  /\ Goes(p, "apply", IF Pending(p, next[p] + 1) THEN "apply" ELSE "unlock")
  /\ log' = Append(log, next[p])
  /\ next' = [next EXCEPT ![p] = @ + 1]
  /\ UNCHANGED <<lock, cfg, lost, sig, code, mode, restarts>>

\* The deferred calls unlock and close, and the process exits.
AfterFailure_Serves(p) == "pool"
AfterFailure(p) == "exited"
GivesUp(p) == Becomes(p, AfterFailure(p), 1) /\ Releases(p) /\ UNCHANGED <<mode, restarts>>

MigrationConflicts(p) ==
  /\ pc[p] = "apply" /\ Conflicts(p)
  /\ GivesUp(p)
  /\ UNCHANGED log

\* Any other step may fail as well, a commit also after it took effect.
MigrationFails(p) ==
  /\ pc[p] \in {"lock", "read", "apply"}
  /\ \/ UNCHANGED log
     \/ pc[p] = "apply" /\ ~Conflicts(p) /\ log' = Append(log, next[p])
  /\ GivesUp(p)

\* database/sql replaces a connection that broke while idle, without a word:
\* the lock is gone, the migration goes on.
LoseConnection(p) ==
  /\ pc[p] \in {"read", "unlock"} /\ p \notin lost
  /\ lost' = lost \cup {p}
  /\ Releases(p)
  /\ UNCHANGED <<log, pc, cfg, next, sig, code, mode, restarts>>

Unlock(p) ==
  /\ pc[p] = "unlock"
  /\ IF mode[p] = "migrate"
     THEN Exits(p, 0)
     ELSE /\ GoesOn(p, "unlock", "pool")
          /\ lost' = lost \ {p}
          /\ UNCHANGED <<cfg, next, sig>>
  /\ Releases(p)
  /\ UNCHANGED <<log, mode, restarts>>
-----------------------------------------------------------------------------
\* buildDeps: db.New opens and pings the pool ...
OpenPool(p) ==
  /\ \/ GoesOn(p, "pool", "deps") /\ UNCHANGED memory
     \/ pc[p] = "pool" /\ Exits(p, 1)
  /\ UNCHANGED <<log, lock, mode, restarts>>

\* ... auth.New and buildStorage (NewFS probes its directory) end the start
\* when they fail ...
BuildDeps(p) ==
  /\ \/ GoesOn(p, "deps", "listen") /\ cfg[p].driver \in {"fs", "s3"} /\ UNCHANGED memory
     \/ pc[p] = "deps" /\ Exits(p, 1)
  /\ UNCHANGED <<log, lock, mode, restarts>>

\* ... and so does a port in use.
Listen(p) ==
  /\ \/ GoesOn(p, "listen", "serving") /\ UNCHANGED memory
     \/ pc[p] = "listen" /\ Exits(p, 1)
  /\ UNCHANGED <<log, lock, mode, restarts>>

\* serveMode subscribes to the signals once it has a configuration, and looks
\* at them once it listens: migrations are never interrupted.  Everyone else
\* dies of the signal.
Notified(p) == pc[p] \notin {"main", "config", "exited"} /\ mode[p] \in {"default", "server"}

Signal(p) ==
  /\ Notified(p) /\ ~sig[p]
  /\ sig' = [sig EXCEPT ![p] = TRUE]
  /\ UNCHANGED <<log, lock, pc, cfg, next, lost, code, mode, restarts>>

TakeSignal(p) ==
  /\ pc[p] = "serving" /\ sig[p]
  /\ Exits(p, 0)
  /\ UNCHANGED <<log, lock, mode, restarts>>

\* SIGKILL, a crash, or a signal nobody listens for.
Die(p) ==
  /\ pc[p] # "exited"
  /\ Exits(p, 1)
  /\ Releases(p)
  /\ UNCHANGED <<log, mode, restarts>>

Restart(p) ==
  /\ restarts < MaxRestarts
  /\ Goes(p, "exited", "main")
  /\ code' = [code EXCEPT ![p] = 1]
  /\ restarts' = restarts + 1
  /\ UNCHANGED <<log, lock, mode, memory>>
-----------------------------------------------------------------------------
Init ==
  /\ log = <<>>
  /\ lock = [k \in LockKey |-> None]
  /\ pc = [p \in Process |-> "main"]
  /\ mode = [p \in Process |-> None]
  /\ cfg = [p \in Process |-> None]
  /\ next = [p \in Process |-> 1]
  /\ lost = {}
  /\ sig = [p \in Process |-> FALSE]
  /\ code = [p \in Process |-> 1]
  /\ restarts = 0

Step(p) ==
  \/ Run(p) \/ RunWithoutConfig(p) \/ LoadConfig(p)
  \/ AcquireLock(p) \/ ReadVersions(p) \/ ApplyMigration(p) \/ MigrationConflicts(p) \/ Unlock(p)
  \/ OpenPool(p) \/ BuildDeps(p) \/ Listen(p) \/ TakeSignal(p)

Next ==
  \E p \in Process :
    Step(p) \/ MigrationFails(p) \/ LoseConnection(p) \/ Signal(p) \/ Die(p) \/ Restart(p)

\* Every process goes on as long as it lives, and Postgres answers: goroutines
\* are scheduled, and no statement here waits for anything but the lock.
Fairness == \A p \in Process : WF_vars(Step(p))
Spec == Init /\ [][Next]_vars /\ Fairness
-----------------------------------------------------------------------------
TypeOK ==
  /\ log \in Seq(Nat)
  /\ lock \in [LockKey -> Process \cup {None}]
  /\ pc \in [Process -> PC]
  /\ mode \in [Process -> Mode \cup {None}]
  /\ cfg \in [Process -> Configuration \cup {None}]
  /\ \A p \in Process : pc[p] \notin {"main", "config", "exited"} => cfg[p] # None
  /\ next \in [Process -> Nat]
  /\ lost \subseteq Process
  /\ sig \in [Process -> BOOLEAN]
  /\ code \in [Process -> {0, 1}]
  /\ restarts \in 0 .. MaxRestarts

\* Whatever the locks are worth -- other keys, replaced connections, killed
\* migrators -- every migration is applied once, and in order.
MigrationsInOrder == \A i \in DOMAIN log : log[i] = i

\* "The default mode migrates itself ... before it serves" (README.md): a
\* replica that migrates never serves on less than its own schema, and a
\* migrate that reports success leaves nothing to migrate.
Migrated(p) ==
  \/ pc[p] \in {"pool", "deps", "listen", "serving"} /\ mode[p] = "default"
  \/ pc[p] = "exited" /\ code[p] = 0 /\ mode[p] = "migrate"
ServesMigrated == \A p \in Process : Migrated(p) => Ships[p] <= Len(log)

\* ApplyMigrations: containers booting at once "serialise instead of racing",
\* as long as they use the same key and none lost its connection.
OneMigrator ==
  \A p, q \in Process :
    p # q /\ Migrating(p) /\ Migrating(q) /\ cfg[p].lockKey = cfg[q].lockKey
      => p \in lost \/ q \in lost

\* config.go: "there is no lazy or partial state".  What buildDeps gets names
\* a storage driver with all it needs, all of SMTP or nothing of it, and test
\* hooks only on a loopback origin.
NothingPartial(c) ==
  /\ c.driver = "fs" => "STORAGE_FS_PATH" \in c.storage
  /\ c.driver = "s3" => S3 \subseteq c.storage
  /\ "SMTP_HOST" \in c.mail => c.mail = SMTP
  /\ c.mail # {} => "SMTP_HOST" \in c.mail
  /\ c.hooks => c.url \in Loopback

WholeConfig == \A p \in Process : cfg[p] # None => NothingPartial(cfg[p])

\* A start ends: every process serves or exits for good, however many wait for
\* the lock and wherever its holder dies, and a signal received while starting
\* is honoured.
Settles ==
  \A p \in Process : /\ <>[](pc[p] \in {"serving", "exited"})
                     /\ sig[p] ~> pc[p] = "exited"
=============================================================================
