------------------------------- MODULE Config -------------------------------
(***************************************************************************)
(* internal/config: what Load accepts as an environment, and what it makes *)
(* of it.  A value is a short word that stands for all values the checks   *)
(* of Load cannot tell apart; " " stands for the blank ones.               *)
(***************************************************************************)
EXTENDS Integers

Mandatory == {"DATABASE_URL", "APP_URL", "AUTH_SECRET", "STORAGE_DRIVER"}
S3 == {"S3_BUCKET", "S3_ENDPOINT", "S3_ACCESS_KEY_ID", "S3_SECRET_ACCESS_KEY"}
SMTP == {"SMTP_HOST", "SMTP_PORT", "SMTP_USERNAME", "SMTP_PASSWORD", "EMAIL_FROM"}
Optional == {"PORT", "TRUSTED_PROXY_HOPS", "OPEN_SIGNUP", "MIGRATION_LOCK_KEY",
             "LOG_LEVEL", "E2E_TEST_HOOKS"}
Field == Mandatory \cup {"STORAGE_FS_PATH"} \cup S3 \cup SMTP \cup Optional

Given(env, f) == env[f] \notin {"", " "}

AbsoluteURL == {"http://localhost", "https://s.example"}
Loopback == {"http://localhost"}

\* strconv.Atoi and ParseInt, for the words that are numbers.
Number == [w \in {"-1", "0", "1", "7"} |->
             IF w = "-1" THEN -1 ELSE IF w = "0" THEN 0 ELSE IF w = "1" THEN 1 ELSE 7]
IntAtLeast(n) == {w \in DOMAIN Number : Number[w] >= n}
IntOr(env, f, default) == IF Given(env, f) THEN Number[env[f]] ELSE default

\* problems.require: what must be there, in this environment.
StorageFields(env) ==
  {f \in {"STORAGE_FS_PATH"} \cup S3 :
     env["STORAGE_DRIVER"] = IF f \in S3 THEN "s3" ELSE "fs"}

\* "SMTP: all five or none."
MailFields_Host(env) == {}
MailFields(env) == IF \E f \in SMTP : Given(env, f) THEN SMTP ELSE {}

Missing(env) ==
  {f \in Mandatory \cup StorageFields(env) \cup MailFields(env) : ~Given(env, f)}

\* What a value that is looked at must look like.
Drivers_Any == {"fs", "s3", "disk"}
Drivers == {"fs", "s3"}

WellFormed ==
  [APP_URL |-> AbsoluteURL, S3_ENDPOINT |-> AbsoluteURL, AUTH_SECRET |-> {"32 bytes"},
   STORAGE_DRIVER |-> Drivers, PORT |-> IntAtLeast(1), SMTP_PORT |-> IntAtLeast(1),
   TRUSTED_PROXY_HOPS |-> IntAtLeast(0), MIGRATION_LOCK_KEY |-> IntAtLeast(-1),
   OPEN_SIGNUP |-> {"0", "1"}, E2E_TEST_HOOKS |-> {"0", "1"},
   LOG_LEVEL |-> {"debug", "info", "warn", "error"}]

Checked(env) ==
  ((Mandatory \ {"DATABASE_URL"}) \cup Optional
     \cup (StorageFields(env) \cap {"S3_ENDPOINT"})
     \cup (MailFields(env) \cap {"SMTP_PORT"}))

Malformed(env) == {f \in Checked(env) : Given(env, f) /\ env[f] \notin WellFormed[f]}

\* Test hooks are for a server nobody else can reach.
Exposed(env) ==
  IF env["E2E_TEST_HOOKS"] = "1" /\ env["APP_URL"] \in AbsoluteURL \ Loopback
  THEN {"E2E_TEST_HOOKS"}
  ELSE {}

Problems(env) == Missing(env) \cup Malformed(env) \cup Exposed(env)

DefaultLockKey == 1935762089

\* The part of the Config record that decides how a process starts.
Load(env) ==
  [driver  |-> env["STORAGE_DRIVER"],
   storage |-> {f \in {"STORAGE_FS_PATH"} \cup S3 : Given(env, f)},
   mail    |-> {f \in SMTP : Given(env, f)},
   hooks   |-> env["E2E_TEST_HOOKS"] = "1",
   url     |-> env["APP_URL"],
   lockKey |-> IntOr(env, "MIGRATION_LOCK_KEY", DefaultLockKey)]

Configuration ==
  [driver : {"fs", "s3"}, storage : SUBSET ({"STORAGE_FS_PATH"} \cup S3),
   mail : SUBSET SMTP, hooks : BOOLEAN, url : AbsoluteURL, lockKey : Int]
=============================================================================
