# A TLA+ model of Snarvei

Snarvei is a URL shortener for organizations: one Go binary serves the API, the
public redirect and the embedded web application, and keeps everything in
Postgres.  This directory holds TLA+ modules that model its server, the TLC
configurations that check them on small instances, and theorems that TLAPS
proves for every value of the constants.  Paths below are relative to the
repository; `api/links.go` and the like live in `apps/server/internal/`.

How to run: `tlc -config MCLinks.cfg MCLinks` for a model (the table of runs
below pairs each `.cfg` with its module), and `tlapm` for the proofs, on
`LinksProofs.tla`, `StartupProofs.tla`, `AccountsProofs.tla`, `RateLimitProofs.tla`,
`ServerLifecycleProofs.tla`, `TenancyProofs.tla`, `TenancyRefinement.tla` and
`FrontProofs.tla`.
`PROJECT.json` maps each definition to the lines it models and lists for each
property a mutation of the code that breaks it; an operator named `X_Something` in
a module is such a mutation of `X` and is used by nothing else.

## 1. The system

| Component | State it keeps | Operations | What is hard |
|---|---|---|---|
| Link store (`api/links.go`, `db/queries/links.sql`) | tables `links`, `link_target_history`, `click_events` | create (custom or generated slug), PATCH, delete, list, history | handlers act on rows they read earlier; READ COMMITTED; unique index races; cascades |
| Redirect and recorder (`api/redirect.go`, `redirect/`) | in-flight insert goroutines, a WaitGroup | follow, Record, Drain | a click is stored after its response, by a goroutine nobody waits for until shutdown |
| Server process (`cmd/snarvei/main.go`, `db/db.go`) | listener, pool | serve, signal, Shutdown, Drain, Close | three timeouts, one pool, handlers that outlive Shutdown |
| Rate limiter (`ratelimit/`, `api/middleware`) | table `rate_limit`, shared by replicas | Hit, opportunistic sweep | two clock readings, skewed clocks, stalled requests, sweeps |
| Tenancy (`api/organizations.go`, `teams.go`, `invitations.go`, `authz/`) | organizations, members and roles, teams, team members, invitations | create, invite, accept, register, cancel, join, leave | every handler is several statements; checks before writes; cascades |
| Accounts (`api/me.go`, `auth/`) | users, sessions, email change requests | profile, email change, revoke, sign in and out, password reset, delete account | superseded tokens, concurrent confirms, sessions revoked one by one |
| Profile images (`api/images.go`, `storage/`) | `users.image`, objects, temporary files | upload, replace, delete, serve | two stores without a transaction; a kill in a write; lost answers |
| Start (`cmd/snarvei/main.go`, `config/`, `db/migrate.go`, `db/db.go`) | goose version table, advisory lock, configuration | run in a mode, Load, ApplyMigrations, buildDeps, listen | replicas of several releases starting together; the lock dies with its connection; early signals |
| API layers (`api/api.go`, `api/gen`, `tiers.go`, `middleware/`, `errors.go`, `clientip/`) | the request's context, what was written | proxy, bind, validate, decode, tier, handler, answer | layers that answer themselves; a contract in another file; forged headers |
| Email (`email/`) | the SMTP session | Send | a server that refuses, falls silent or stops offering TLS |
| Link rules (`links/`, page parameters) | none | slug, target, page rules | boundaries and overflow |
| Analytics and lists (`api/analytics.go`, `api/links.go`) | none | several queries per response | no snapshot across the queries |
| Frontend (`apps/frontend`) | query cache, active organization | organization switch | tabs and in-flight queries |
| Release workflow (`.github/workflows/release.yml`) | tag, release | tag, publish, undo | cancellation between steps |

They interact through Postgres (every handler), through the recorder (redirect
to insert goroutine), through the pool (handlers, inserts and shutdown), and
through cascades: deleting a user, team or organization removes rows of other
components.  The process hands over in time, too: `Startup` ends where a process
listens, `ServerLifecycle` begins there; `Front` ends where a handler runs, and
`Links`, `Tenancy` and `Accounts` say what it does to the tables.

What makes each component correct, in brief: links keep unique, immutable
slugs, explained targets and no orphaned rows, and deletion is final; the
process stops in bounded time, and a clean stop loses no click that Drain says is
in and cuts no insert that ran before Drain; the limiter
admits no more than its limit per window and refuses nobody else; an active
organization implies membership, a team member is an organization member, an
organization keeps an owner and an invitation is used once; an account's email
is one its owner proved, its old confirmation links and revoked sessions are
dead, and the image it names exists; migrations are applied once and in order
and nobody serves without them; a configuration is complete or refused; an
handler runs only for the caller its document describes, whose address was not
forged, and answers once; and no password leaves in clear text.

## 2. Modules

| Module | Models | Kind |
|---|---|---|
| `LinkRegistry` | what the link store promises its readers: publish, revise, withdraw, count, each atomic | abstract specification |
| `Links` | the handlers of `api/links.go`, the redirect and the recorder's insert, over the three tables | specification |
| `LinksProofs` | inductive invariant, safety theorems, refinement of `LinkRegistry` | proofs |
| `ServerLifecycle` | `serve` from the first request to the exit, the recorder, the pool | specification |
| `ServerLifecycleProofs` | inductive invariant and safety theorems of `ServerLifecycle` | proofs |
| `RateLimit` | `Key`, `Hit`, the sweep, the middleware | specification |
| `RateLimitProofs` | inductive invariants and theorems of `RateLimit` | proofs |
| `Memberships` | what the tenancy promises: who belongs, is in a team, works where and has an offer to, each operation atomic | abstract specification |
| `Tenancy` | organizations, teams, invitations, account deletion, the tiers in front of them | specification |
| `TenancyProofs` | inductive invariant and safety theorems of `Tenancy`, from any consistent database | proofs |
| `TenancyRefinement` | stronger invariant, refinement of `Memberships` | proofs |
| `ObjectStore` | what the storage port promises: whole objects that never change, put and deleted atomically | abstract specification |
| `Storage` | the drivers: `fs` by system calls, `s3` and `memory` by calls | specification, used by `Accounts` |
| `Accounts` | the handlers of `api/me.go` and `api/images.go`, Limen's sign-in, sign-out and password reset | specification |
| `AccountsProofs` | inductive invariant and safety theorems of `Accounts`, refinement of `ObjectStore` | proofs |
| `Config` | `config.Load`: environments refused, and what the others become | operators |
| `Startup` | processes from `main` to the select of `serve`, `ApplyMigrations`, `buildDeps` | specification |
| `StartupProofs` | inductive invariant and safety theorems of `Startup` | proofs |
| `Operations` | the 34 operations: statuses, tier, context they need, errors, `classify` | operators |
| `Smtp` | `Send`, command by command | specification, used by `Front` |
| `Front` | one request through all layers of `internal/api` | specification |
| `FrontProofs` | inductive invariant and safety theorems of `Front` | proofs |
| `MCLinks`, `MCServerLifecycle`, `MCRateLimit`, `MCTenancy`, `MCAccounts`, `MCStartup`, `MCFront` | instances for TLC | model checking |

### Links

Each element of `Request` is one HTTP request with its goroutine.  A step is one
statement, or one transaction, as the others see it.  Under READ COMMITTED a
write transaction of this code becomes visible at one instant, its COMMIT: an
UPDATE or DELETE waits for the lock of the row and re-reads it, an INSERT with a
slug of an uncommitted one waits for its outcome.  The exception is `now()`, which is
the instant of BEGIN and becomes `created_at` and `changed_at`; hence the pairs
`BeginInsert`/`CommitInsert` and `BeginUpdate`/`CommitUpdate`.  The model's
clock advances with each BEGIN, so two transactions never share a timestamp;
Postgres gives microseconds, and ties or a clock set back are not modelled.

What the handler holds in memory is `seen` (the row it read) and `body` (`None`
for an absent field); `UpdateLink` merges the two, long after the read, exactly
as the code does.  Errors, failed validation, missing access and rolled back
transactions are `Refuse`: they change no table.  `is_active` stands for the
columns PATCH treats like it (status, title, description).  Titles, descriptions
and authors are left out, and so is team deletion, which no handler performs.

`LinkRegistry` is the contract readers can rely on.  Note what it does not
promise: that each change of target has a history row.  The code does not
deliver that (see the findings), and the strongest property it does deliver is
`HistoryConnected`: a target never appears from nowhere.

### ServerLifecycle

`req` is where each redirect handler stands (rate limit query, lookup, redirect
written), `click` where its insert goroutine stands, `stage` where `serve`
stands.  A running query holds one of `PoolSize` connections.  `Record` is what
the handler does: `wg.Add(1)` and the go statement; the goroutine it leaves
behind is `spawned` and starts its own clock when the scheduler gets to it
(`TimerStarts`), at any time, even after Drain's.  Likewise Shutdown returns
(`stopped`) before Drain starts its goroutine and its clock.  `drained` is what
Drain returned.  Three clocks count down: `left` for Shutdown and then Drain,
`due` for each insert whose goroutine runs.  They may fire late, never early.  `wg` and `waiter` are the WaitGroup and Drain's goroutine,
with the panics the standard library raises on misuse: `Misuse` is an Add
from zero between the last Done and the reset of the waiters.  `Exit` is the
deferred `closeDeps`: `pool.Close` waits for every connection.  The pool,
WaitGroup and `http.Server.Shutdown` are external and modelled from how the
code uses them.

### RateLimit

A request reads the clock of its replica for the key and again in `Hit` for the
window start; `skew` is how far its clock is ahead and the guard of `Tick`
bounds how long it may be held up before its upsert.  The upsert keeps the
`window_start` of the row it finds; the request that creates a bucket sweeps
rows more than two windows old, by its own window.

### Tenancy

The variables are the tables; `call` is what a handler holds in memory (its
session, organization, team, the invitation or user it is about) and `pc` the
statement it runs next.  No handler here opens a transaction, so every statement is
a step, and accepting an invitation is up to seven of them: `CheckPending`,
`JoinOrganization` (Limen), `ReadInvitationTeam`, `JoinTeam`, `CheckActive`,
`SetActive`, with `CreateUser` before and `StartSession` in the middle for a
registration.  `Fail` ends a request where it stands, whatever it has written: a
check that refuses, a failing statement and a client that went away look alike to
the tables.  Only the team join goes on after a failure (`TeamJoinFailed`), as in
the code.

Limen is external.  Each of its calls is one step with the effect the tests of
`internal/auth` show.  Where the source does not tell what Limen sees of a
status changed by somebody else between the handler's check and the call, the
model lets the call succeed; the properties hold all the same, and none is stated
that depends on the answer (that a canceled invitation admits nobody is therefore
not claimed).  `expired` is a pending row past its `expires_at`.  No handler removes
an organization, a team or an organization member: memberships end only with
`DeleteUser` and its cascades.  The session lookup, the role lookup and the arrival
of a request are one step, because the rows they read go together.

`Memberships` is the contract in which no handler has statements any more.  People
found organizations, are admitted on an offer of somebody who governs the
organization at that moment, join teams and work in organizations only while they
belong there, and lose everything when the account goes.  The mapping drops e-mail
addresses, names, statuses and sessions without an active organization; what is
left changes with twelve of the actions, and every other one is a stutter.  It
does not promise that an organization keeps an owner, nor that an offer into a team
ends there (findings 3 and 4), nor that an offer is taken only once or ends when
canceled, which is up to Limen.

### Accounts, Storage and ObjectStore

`users`, `sessions` and `changes` are tables; a step is one statement or one
storage call, since no handler here opens a transaction.  `call` is what a handler
holds: `image` is the picture its session was loaded with, which is what the
handlers delete in the end (`OldImage`), `todo` the sessions still to revoke.
`mailed`, `lostAck` and the field `known` are history, read by properties only
(`Arrive` also takes a confirmation token from `mailed`: a link can be opened by
whoever has the mail, in any session).  An e-mail change is `CountAddress`,
`DeleteChanges`, `CreateChange`, `SendMail`; its confirmation `FindToken`,
`UpdateAddress` under the unique index, `DropChanges`.  `Expire` is the end of the
link's hour.

`Put` of the file driver is `CreateTemp`, `Copy` in pieces and `Rename`.
`Kill` stops every request where it is and keeps files and rows.  `PutAnswerLost`
and the second branch of `UpdateImageFails` are calls that take effect and are
reported as failed.  A kill of the machine, where the missing fsync of the directory
would matter, is not modelled.  `Storage.List` has no caller outside the
tests.  Content is the upload it came from, so `ObjectStore` can say
that a key never changes its content, which the year-long `immutable` cache header
of `serveProfileImage` depends on.

### Startup and Config

A process is one container; all share `log`, the version table, and `lock`, the
advisory locks, by key.  `Ships[p]` is the number of migrations its binary embeds, so
releases differ.  Its steps are the calls of `run`, `serveMode`, `migrateMode` and
`ApplyMigrations` in their order, and any of them may fail.  goose is external: it reads
the applied versions once and then applies the rest, each with its row in one
transaction; a migration that has run fails on the tables it created
(`Conflicts`).  `LoseConnection` is what `database/sql` does to an idle
connection that broke: it opens another and says nothing, and the lock that
belonged to the old session is gone.  `Die` is a SIGKILL or a signal nobody
listens for, `Restart` starts the container again, possibly in another mode and
environment.  Exit codes other than 0 are one value.

In `Config` an environment maps each variable to a word that stands for the
values `Load` cannot tell apart (`" "` for blank, `"-1"` to `"7"` for numbers).
`APP_NAME`, `S3_REGION` and `IP_HASH_PEPPER` are free text and left out, and so
is the wording of the problems; `healthcheck` reads `PORT` without `Load`, which the
model leaves at "succeeds or fails".

### Front, Operations and Smtp

`pc` is the layer: `TrustedProxy`, the generated wrapper (`Bind`), the validation
against the document, the strict handler's decoding, the middlewares of the tier in
the order of `Deps.chain`, the handler, its mail, the answer.  `written` collects
every `WriteHeader`.  A handler is the set of ways it can end (`Outcome`, error by
error from the handlers and the errors Limen's calls map to), and `StatusOf` is
`classify`.  `Operations` takes the request and response types of every operation from
the generated server, tier by tier and error by error from the code written by
hand; nothing forces those to agree.  `GuardedAsPromised` checks that the tiers
guard what the contract says of each operation (a session where it declares 401, the
limiter's count, `counted`, where it declares 429, an admin of the right organization
for `OwnersAndAdmins`), `KnowsItsCaller` that handlers find in their context what
they read there.  `KeepsContract` is the contract for the answers themselves; the code
does not keep it, which is a finding.  `FromRequest` splits the header and drops blank parts; the
model keeps the header and counts over the positions of the parts that are not blank
(`Named`, `Nth`), which comes to the same and needs no recursive filter.  In `Smtp` the server may answer, refuse, or never answer,
to each command.

## 3. Runs

| Run | Config | Instance | Shows |
|---|---|---|---|
| `links` | `MCLinks.cfg` | 3 requests, 2 slugs, 2 targets, 2 attempts | integrity, final deletion, refinement of `LinkRegistry` |
| `links_history` | `MCLinksHistory.cfg` | as above, 1 slug | finding: an update not recorded in history |
| `lifecycle` | `MCServerLifecycle.cfg` | 3 requests, 1 connection, timeouts of one tick | what a clean stop keeps, no crash, termination |
| `lifecycle_drain` | `MCServerLifecycleDrain.cfg` | 2 requests | finding: clicks recorded during the drain |
| `ratelimit` | `MCRateLimit.cfg` | 3 requests, limit 1, window 2 s, stall 3 s, skew 1 s | limit per window, deserved 429s, useful Retry-After |
| `tenancy` | `MCTenancy.cfg` | 2 requests, 2 organizations with a team each, 3 accounts, 2 invitations | consistent memberships, nothing left of a deleted account, refinement of `Memberships` |
| `accounts` | `MCAccounts.cfg` | 2 requests, 2 accounts, 4 sessions, an image, a pending change, 3 drivers | dead links and sessions stay dead, stored images, proven addresses, `ObjectStore` implemented |
| `startup` | `MCStartup.cfg` | 2 containers of 2 releases, 1 restart, all modes, 2 good environments and those one field away | order of migrations, schema before serving, mutual exclusion, whole configurations, every start ends |
| `front` | `MCFront.cfg` | all 34 operations, 0 to 2 proxies, any mail server | the tiers guard what the contract promises, the caller's identity, private mail, one answer |
| `front_contract` | `MCFrontContract.cfg` | as `front` | finding: answers outside the contract |
| `tenancy_owner`, `tenancy_team` | `MCTenancyOwner.cfg`, `MCTenancyTeam.cfg` | as `tenancy` | findings 3 and 4 |

Why the bounds are enough.  `links`: the hazards need one request that creates
and two that interfere (two PATCHes, PATCH and DELETE, DELETE and click), or two
creations on one slug with a third link in the way; two slugs make retries
succeed or not, two attempts reach both the retry and its end.  The theorems remove
the bounds altogether.  `lifecycle`: one connection makes every competition for
the pool happen; three requests allow an insert to finish, one to wait and one
handler to come late, which is what the WaitGroup misuse needs; only the order of
the timeouts matters, an insert's is as long as the drain's, as in the code, and since
each goroutine starts its own clock, one tick already lets an insert's expire before,
with or after the drain's.  `ratelimit`: one request to fill a bucket, one to sweep it, one stalled in
between; `MaxStall + MaxSkew = 2 * Window` is the largest value for which
`WindowLimit` holds (with one second more TLC finds a bucket refilled), so the
instance sits on the boundary; five seconds reach the third window after the
first, where sweeping starts to matter.  `tenancy`: the run starts from a populated
database (`MCInit`), which a dozen calls of the API produce, so that two requests
suffice for every race the hazards name: a deletion against each of the others,
an answer against a cancellation, an invitation against its own answer, two
registrations, two creations of a team.  The second organization is there for
a team of the wrong organization, the invited stranger for registration.
`accounts`: it starts, like `tenancy`, from a database a few calls produce
(`MCInit`), in which the first request already finds a link to confirm, an image
to replace and two other sessions to revoke; the hazards are races of two
handlers, or of one with a kill or the end of the hour.  Two addresses taken
and one free, and one typed with blanks and capitals, cover the uniqueness and the
normalisation.  `startup`: each hazard needs an older and a newer migrator and one of
them to lose its connection, die, or come back; a restart makes a container of the
older release meet a newer schema.  Environments are the good ones and those
that differ from one of them in one field, which is where `Load` decides; two
wrong fields add little, since the problems are a union.  The theorems remove
these bounds, as they do for `ratelimit`, `lifecycle`, `tenancy`, `accounts` and
`front`.  `front`: one request, because layers share nothing between requests; all
operations, tiers, errors and answers occur; with two proxies every position of
the entry to trust (first, middle, last) occurs, with forged entries in front.
Symmetry is used where only safety is
checked.  Deadlock is not checked: each request is served once, containers are restarted
a bounded number of times, and the system then stops.

Fairness.  Three runs check liveness.  `lifecycle`: `FairSpec` assumes that time passes
and that Go runs a goroutine that can move (weak fairness of `Tick`, of main, of
Drain's goroutine and of each handler's and insert's own steps).  It assumes
nothing of clients, of Postgres or of who gets the next connection: that inserts
end (`InsertsEnd`) follows from their timeout alone.  That the process exits needs
handlers' queries to be answered, which have no timeout, and
`ExitsUnlessQueryHangs` says so in its premise.  `startup`: weak fairness of each
process's own `Step`, that is, a living process goes on and Postgres answers the
statements of a start; nothing is assumed of signals, kills, failures or the order in
which waiters get the lock.  `Settles` needs no strong fairness because a start takes
the lock once.  `front`: weak fairness of the request's own layers and
of the dial timeout, none of the mail server and of the client;
`OneAnswer` therefore allows a request to wait in its mail for ever, which is
what `smtp.go` does with a server that connects and says nothing.

### Findings

1. **A target change that history does not record** (`links_history`,
   `api/links.go:227`).  The product rules say "Target changes are recorded in
   history".  UpdateLink writes back every column of a row it read before its
   transaction, and compares the new target with that old row.  Two overlapping
   PATCHes: one moves t1 to t2 and records it, the other changes only the title and
   thereby moves the link back to t1, unrecorded.
2. **Records while draining** (`lifecycle_drain`, `cmd/snarvei/main.go:201`).
   The comment before Drain says the WaitGroup must not receive new Records once
   it is waited on; when Shutdown gives up after 20 s its error is only logged
   and handlers still running do call Record.  `CrashOnlyAfterGivingUp` shows that
   this is also the only way to the WaitGroup panic.
3. **An organization without an owner** (`tenancy_owner`, `api/me.go:74`).
   DeleteMe refuses the sole owner of an organization, but by a list read two
   statements before the deletion.  A `POST /api/organizations` already past its
   session check founds one in between.  `OwnerLeavesOnlyUnseen` bounds the damage:
   an organization the check saw always keeps an owner.
4. **Accepted without the team** (`tenancy_team`, `api/invitations.go:135`).  The
   specification wants both memberships in one transaction; the code answers 200
   without the team if its insert fails, if the invitee answers before
   `SetInvitationTeam`, or if the inviter's account goes in between.
5. **Answers outside the contract** (`front_contract`, `api/api.go:145`).  The
   migration design wants the error envelope "for every API error", and
   `openapi/snarvei.yaml` lists the statuses of every operation.  `NewHandler` gives the
   generated wrapper no `ErrorHandlerFunc`, so a query parameter that does not bind
   (`?page=abc`) is answered 400 in plain text.  The same property also excludes statuses
   the document does not declare for an operation, which the code gives: 400 of
   `DELETE /api/me` for a body that does not decode (the document has 204, 401 and
   409), 404 of `DeleteMe`, `GetMe`, `UpdateMe`, `RequestEmailChange`,
   `ConfirmEmailChange`, `CreateOrganization` and `SwitchOrganization` when a row goes
   between the session's lookup and the handler's, 409 of accepting an invitation, 410
   of cancelling one, 403 of registering with one.

### Observations without a run

Met while modelling.  Some contradict nothing the repository says of the program;
the others are small beside the five findings.

- An insert whose goroutine starts its clock after Drain's may be cut with time left:
  both have five seconds.  `CleanStopKeepsClicks` promises nothing for it, and the
  runbook accepts the loss of "a handful of clicks near a restart".
- Two migrators can run at once.  `README.md:234-236` says a `migrate` one-off and a
  starting container "can never race each other"; the advisory lock is gone with the
  connection that held it, while goose goes on with another, and containers with different
  keys do not contend at all.  `OneMigrator` names both exceptions, `MigrationsInOrder`
  shows that the schema survives them.
- Team names that differ only in case: the check (`api/teams.go:49`) ignores case, the
  unique index does not, and in `Tenancy` two creations both pass the check.  The test
  of `teams_test.go:29`, one creation after the other, expects 409.
- Two uploads of one user that overlap leave the loser's object in the store for
  good, as both delete the image they were loaded with.  `ImageIsStored` shows
  the harmful direction does not happen: what a row names is stored, except after an
  UPDATE that took effect and was reported failed.
- Two confirmations that have both read the same request both succeed.
  `AddressProven` holds all the same: both write the address that was proved.
- A temporary file outlives a kill in `Put`; nothing removes it.
- `page * pageSize` wraps in 64 bits before it is compared with the range of int32
  (`api/links.go:31`), so an absurd page need not be a 400.

## 4. Proofs

`LinksProofs` proves, for any sets of requests, slugs and targets and any
number of attempts, the seven invariants of the run `links` (type correctness
included) and `Spec => ImplementsRegistry`, the refinement.  The assumption is
`LinksAssumption`: there is at least one attempt, and `None` is not a slug, target,
Boolean, row or reply.

The invariants are not inductive alone, because handlers write on the strength of
rows they read long before.  `IndInv` adds, per request (`RequestInv`): a request
past its read holds a row whose creator is past its insert (`Held`); a request that
has not inserted yet has no row anywhere (`Unborn`: ids are never reused); the
target an update read is still named by a history row older than the update's
transaction, if the link still exists (`SeenExplained`: this is what keeps
`HistoryConnected` in spite of lost updates); a click about to be inserted was
redirected; timestamps lie in the past; and a deleted link is gone (`Gone`).  The
proof splits steps into `Quiet` ones, which write no table and can only disturb the
request itself or the clock, and the four that write one, each with a lemma on
what it does to the tables.  The refinement then maps the four writing steps to
`Publish`, `Revise`, `Withdraw` and `Count`; the deletion of a link already
deleted is a stutter because orphans do not exist.

`StartupProofs` proves, for any containers, releases, arguments, environments and
number of restarts, the five invariants of the run `startup`, from
`StartupAssumption` (binaries ship a natural number of migrations, `None` is
neither a process nor a configuration).  `IndInv` adds to `TypeOK`,
`MigrationsInOrder`, `WholeConfig` and `ServesMigrated` three facts per process.
`Ahead`: what goose read is at most one past the version table, and a process about
to unlock finds its own migrations applied.  This is why order survives lost locks:
two migrators may run at once, but the one that lags behind fails on a table that
exists, and none can run ahead.  `Arrived`: which modes reach which step; without it
a process in mode `server` could be taken for one that migrated.  `Holds`: a
migrator whose connection never broke holds the lock of its key, from which
`OneMigrator` follows at once.  The log only grows (`Ahead` and `ServesMigrated` of
the others survive a step, lemma `OthersAhead`), and locks of others are only
released by their owners (`OthersHold`).  `WholeConfig` rests on lemmas about
`Load` alone: an environment without problems gives a configuration without
gaps.

`AccountsProofs` proves, for any sets of requests, accounts, addresses and typed
strings, all six properties of the run `accounts`: the four invariants,
`AddressProven` and the refinement of `ObjectStore`.  The theorems are about `Spec`,
from any accounts with distinct addresses and no images, where the run starts from
`MCInit`, rows that are there already; with enough requests `Spec` creates such rows
itself.  `AccountsAssumption` says that `None` is nothing else (no id, account,
address or answer), that keys and contents are the ids, and that `Lower` maps what
people type to addresses.

None of the six is inductive: a handler deletes, revokes and writes what it read some
steps ago.  `IndInv` rests on one fact: what a request creates carries its id, and a
request past that step does not return to it.  So a token or a key somebody remembers
may disappear but is not created again (`Opened` for sessions and the tokens in
`known`, `Asked` and `Told` for changes and mails).  On it stand `Revoking` (what is
left of a list of sessions is in `todo`) for `RevokedStayOut`; `Superseding` (the links
a request found are its own user's until it deletes them) for `OldLinksDie`; `Proven`
(the link being confirmed is a mail of the same request) for `AddressProven`; and
`Shown`, `Remembered` and `Stored` for `ImageIsStored`: an image in a row was uploaded
for that user by a request past its undo, or one whose `UPDATE` was reported failed
and is in `lostAck`, and the image another request is about to delete is in no row.
This is where it matters that both handlers delete the image their session was loaded
with, and that its key is of no later upload.  The proof has one lemma per fact about
what any step may do (`SettledStep`, `ChangesStep`, `SessionsStep`, `ImagesStep`,
`ObjectsStep`, ...), each by cases over all actions, and derives the parts of
`IndInv` from those.

`RateLimitProofs` proves, for any requests, clients, limit, window and number of
seconds, the four invariants of the run `ratelimit`.  Three of them need nothing but
`RateLimitAssumption`.  Their invariant, `CountInv`, says that the counts a bucket has
handed out are without gaps (`Gapless`: who was told `n` can point to another that
was told `n - 1`), so `Limit` others were counted before a 429; a sweep does no harm,
because a bucket made again starts at 1.  `WindowLimit` is the one that a sweep can
break, and its theorem has the hypothesis `Punctual == MaxStall + MaxSkew <= 2 *
Window`.  The hypothesis is the comparison the sweep makes (`window_start` older than
two windows), and it is needed: with one second more TLC finds a bucket refilled.
In the code the window is a minute, so the limit holds unless an upsert waits for its
connection or its row for some two minutes, which no timeout of the code excludes.
`WindowInv` adds that counts in a bucket are distinct (`Distinct`), that a row counts
everybody its bucket ever counted (`Kept`), and that a bucket which was swept although
it had counted is over: nobody can hit it any more (`Swept`).

`ServerLifecycleProofs` proves, for any requests, pool size and timeouts, the three
safety properties of the run `lifecycle`, from `LifecycleAssumption`, and one action
property, `RecordsBeforeDrain`: while Drain waits and Shutdown had not given up, the
WaitGroup only goes down.  That is the comment in `main.go` of finding 2 with its
missing condition.  `IndInv` says that the WaitGroup counts the inserts in flight,
exactly unless Shutdown gave up (`Counted`); a handler that recorded has been answered
(`Recorded`: without it `Counted` is not inductive); where `serve` stands tells what it
has done (`Staged`); once Shutdown has returned without giving up all handlers are
idle, and Drain's goroutine is woken by a counter at zero (`Waited`); no insert has
more than its timeout left (`Bounded`); and what Drain's result says of the inserts at
the exit (`Finished`).  The first half of `CleanStopKeepsClicks` is `Finished`.  The
second is about one insert from the moment its clock runs, so it is proved apart:
`Kept` says that the insert is over, out of time, still ahead of Drain, or has no more
ticks left than Drain, or that the stop is not a clean one.  It is true when a clock
runs before Drain's and every step keeps it (`KeptStep`); where Drain sets its clock
`Bounded` and `InsertTimeout <= DrainTimeout` of the assumption are used (in the code
both are five seconds).  Nothing of the kind holds for an insert whose goroutine starts its
clock later, and nothing is claimed for it.

`TenancyProofs` proves, for any requests, accounts, organizations, teams and invitations,
the five invariants of the run `tenancy`, and `FoundersOwn`, that only a founder is ever
an owner.  The theorems are about `ConsistentSpec`:
requests start from any database that satisfies `Consistent` (typed rows, keys and
foreign keys, the invariants themselves, an owner for each organization), so the result
covers the empty database (`SpecIsConsistent`), the populated one the run starts from
and whatever an earlier process left behind.  `TenancyAssumption` says that `None` is
nothing else and that rows that exist already have other ids than requests.  No handler
holds a lock across its statements, so nothing it checked need be true when it
writes; the invariants survive because nothing comes back changed.  A row
carries the id of the request that made it, and no request returns to the step that
makes one (`Born`, `Rows`), so an account, session, organization or invitation that is
gone is never made again; a member stays one as long as the account lives (`Alive`);
a session's user and an organization's founder are fixed, and a team or an invitation
stays in its organization (`Keys`, `InvitationTeams`).  Per request, `Held`, `Teaming`, `Joining`,
`Invited`, `Switching` and `Leaving` say what the handler has checked and is about to
write, each in the form "still so, or the account is gone", and a foreign key turns
the second case into a failing statement.  `Leaving` has the list of organizations
DeleteMe read, which is why only an unseen one can lose its owner.

`TenancyRefinement` proves, from the same databases, that `Tenancy` implements
`Memberships` (`KeepsTheRegistry`).  The registry checks at the instant of a statement
what the code checked some statements before, so the proof has to carry every check
to its use, and two of them are not in `IndInv`.  A new team needs an organization that
exists, and an admission needs an inviter who still governs the organization, although
nothing asks when the invitation is answered.  `Placed` says that rows hang on existing
organizations and that the inviter of each invitation is an admin or owner of its
organization; `Authorized` carries the check of the tiers for admins up to the insert of a
team or an invitation.  `Placed` is inductive because roles never change and an invitation
is deleted with its inviter; without that cascade the refinement fails, which is the
mutant of the run.  The theorems are about `PlacedSpec`, whose first state satisfies
`Consistent` and `Placed`; the empty database does (`SpecIsPlaced`), and so does `MCInit`.
The step is proved by one lemma for each operation of the registry.

`FrontProofs` proves, for any number of proxies and whatever a client forges, the four
invariants of the run `front`, and `AnsweredOnce`, the safety half of `OneAnswer`; the
assumption is `FrontAssumption` (a number of proxies, and forged parts that are blank or
somebody else's address).  Many of its lemmas are about the operators.  `Locates`: counted from
the right, the n-th part that is not blank is the client's, by counting the parts in
front of it; an off-by-one in `Index` would make it false.  `Chains` goes through the
34 operations and finds for each the chain of its tier, what its handler reads and what
its contract declares (`Fits`).  From that, `RefusalsDeclared`: what a middleware may
answer is declared by every operation of its tier; `ChainsSuffice`: what a tier puts into
the context is what its handlers read; and `ChainsGuard`: what a tier lets pass is what
the contract asks for.  `TiersGuardAsPromised` is the theorem about `GuardedAsPromised`.
`IndInv` adds to the types that the middlewares no longer in the
chain have granted what they grant (`Passed`), that a middleware refuses with
what the operation declares (`RefusesAsDeclared`), that the answer was written as often as
the layer says (`Once`), and that a remote mail server past authentication is
behind TLS (`Encrypted`).

Every inductive invariant was first checked with TLC, as an invariant of the run.

Left to TLC: liveness (`InsertsEnd`, `ExitsUnlessQueryHangs`, `Settles`, the second
half of `OneAnswer`), which is out of the prover's reach, and the five
violations, which are counterexamples.  Every safety property of a passing run is a
theorem.

## 5. Not modelled, and what is left

Not modelled:

- Analytics and lists (`api/analytics.go`, the list handlers): they change nothing.
  The four queries of one analytics answer have no common snapshot, so its numbers
  may differ by the clicks of an instant; no document excludes that.
- Rules of one string or number (`links/`, `redirect/privacy.go`, the digest and
  the country of `clientip`): they have no state and table tests cover them.  `Links`
  assumes validated slugs and targets, `Operations` has the errors they cause.
- Static content: `web/web.go`, `docs.go`, the OpenAPI document as a file, mail
  templates.  `testhooks.go` is only reachable on a loopback origin, which
  `WholeConfig` checks.
- The frontend and the release workflow: their interleavings are decided by
  TanStack Query and by GitHub Actions, not by code here.
- Limen, goose, pgx, the AWS client and `net/http` are external; the models have
  what the code relies on.

Worth stating and proving next: an abstract specification of the process as a whole,
in which a click is recorded, stored or given up.
