----------------------------- MODULE MCStartup -----------------------------
(***************************************************************************)
(* Startup for TLC: two containers of different releases, in any mode, one *)
(* of which may be started again.  The environments are two good ones and  *)
(* those that differ from one of them in a single field.                   *)
(***************************************************************************)
EXTENDS Startup

CONSTANTS old, new

MCProcess == {old, new}
MCShips == [p \in MCProcess |-> IF p = old THEN 1 ELSE 2]
MCArgument == {"", "server", "migrations", "healthcheck", "serve"}

Unset == [f \in Field |-> ""]
OnDisk == [Unset EXCEPT !["DATABASE_URL"] = "postgres://", !["APP_URL"] = "https://s.example",
             !["AUTH_SECRET"] = "32 bytes", !["STORAGE_DRIVER"] = "fs",
             !["STORAGE_FS_PATH"] = "/data"]
InBucket ==
  [f \in Field |->
     CASE f = "APP_URL" -> "http://localhost"
       [] f = "STORAGE_DRIVER" -> "s3"
       [] f = "E2E_TEST_HOOKS" -> "1"
       [] f = "MIGRATION_LOCK_KEY" -> "7"
       [] f = "STORAGE_FS_PATH" -> ""
       [] f = "S3_ENDPOINT" -> "http://localhost"
       [] f = "SMTP_PORT" -> "7"
       [] f \in S3 \cup SMTP -> "set"
       [] OTHER -> OnDisk[f]]
Words == {" ", "1", "-1", "disk", "https://s.example", "debug"}

MCEnvironment ==
  {OnDisk, InBucket}
    \cup {[OnDisk EXCEPT ![f] = w] : f \in Field \ Optional, w \in Words}
    \cup {[OnDisk EXCEPT ![f] = "disk"] : f \in Optional}
    \cup {[OnDisk EXCEPT !["E2E_TEST_HOOKS"] = "1"]}
    \cup {[InBucket EXCEPT ![f] = w] : f \in S3 \cup SMTP, w \in {" ", "0"}}
=============================================================================
