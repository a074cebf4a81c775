# Verification of zxc

zxc is a control plane: a gRPC server keeps tenants, and for each tenant the
hosts (targets), archives (payloads) and deployments (releases) of its
programs; workers carry out deployments over SSH, probe the hosts and write
posts for the accounts that the deployed programs report to a webhook.  This
directory holds TLA+ models of that code, the TLC configurations that check
them on small instances, and theorems about them that TLAPS checks for every
value of the constants.

    tlc -workers 2 -config MCDeploy_lock.cfg MCDeploy     # one run
    tlc -workers 2 -config MCRecords.cfg MCRecords
    tlapm DeployProofs.tla                                # the proofs of one module

## 1. Inventory

Paths are relative to `src/`.  There is no shared memory between processes:
everything meets in PostgreSQL (one root database, and a main, deploy, account
and jobs database or schema per tenant) and in the object store.

| Component | State it keeps | Operations | Talks to |
|---|---|---|---|
| Release service, `internal/service/release.go` | releases (status, target, payload) | Create, Deploy, Get, List | jobs backend: instance `deploy:<id>` |
| Deploy workflow, `internal/jobs/deploy.go` | release status, deploy lock of a target (`deploying`, `deploying_at`), target status | one activity: load, lock, storage, SSH, mark, unlock | object store, hosts, deploy database |
| Target service, `internal/service/target.go` | targets (address, user, key, status, lock) | Create, Update, Delete, Get, List | jobs backend: instance `probe:<id>` |
| Probe workflow, `internal/jobs/probe.go` | target status | endless: load, ping, write, sleep 30 s | hosts, deploy database |
| Payload service, `internal/service/payload.go` | payload rows, archives | Create (validate, upload, insert), Update, Delete, Get, List | object store |
| SSH, `internal/infra/ssh.go` | the host | Deploy (stop, upload, extract, start), Ping | hosts |
| Webhook, `cmd/webhook`, `internal/request/handler.go` | requests | Create: token, row, instance `account:<id>` | jobs backend |
| Account workflow and service, `internal/jobs/account.go`, `internal/service/account.go` | profiles (unique name, status) | activity: create profile; Disable, Get, List, GetTalks | deploy and account databases |
| Sync workflow, `internal/jobs/sync.go`; generator plugin | talks, contacts, posts; plugin cache | endless: one post per profile, sleep 60 s | account database, plugin process |
| Session service, `internal/service/session.go` | session status | Start, Stop, Get, List | account database |
| Tenant service, `internal/service/tenant.go` | tenant rows, databases, schemas | Create (row, databases, migrations, backend, seed, `sync:<id>`), Get, List | PostgreSQL server |
| User and system services | rows of the main database | create, update, delete, list | main database |
| Interceptor, `internal/service/auth.go` | none | picks user, tenant and databases of a call | root and main database |
| Workers, `cmd/worker/main.go` | one engine worker per jobs database | discover every 30 s, start, shut down | all jobs databases |
| Caches, `internal/infra/db.go` | connections and jobs backends by connection string | Connect, Backend | PostgreSQL |
| Migrator, `cmd/migrator/main.go` | root database, default user, schemas | one sequential run at start | PostgreSQL |
| Client, `cmd/client` | none | one call per command, names resolved from the first page of a list | API server |
| Storage, configuration, models, generated API | objects; none | upload, download, delete; load | MinIO; file |

What is hard in it:

* **Interleaving.** Each handler and each activity issues one SQL statement (or
  one call to the engine, the store or a host) after the other and never opens
  a transaction around two of them.  Anything may happen in between.
* **Compensation.** Where two stores are written (a row and a workflow
  instance), the second failing is answered by undoing the first.  The undo can
  fail, can come after the second took effect (a lost reply), and can overwrite
  what others wrote meanwhile.
* **At-least-once execution.** The engine (go-workflows) repeats an activity
  that failed up to three times, and hands it out again when its worker is gone
  or merely slow.
* **Sessions without a limit.** Neither the SSH handshake nor a command of a
  client has a time limit, and a worker waits for them with the lock held.
* **A lock with an age.** The deploy lock of a target may be taken over after
  15 minutes and is released without asking who holds it.

Correctness, component by component: a deployment is exclusive on its target,
its status tells the truth and reaches a decision; a visible target is probed
and its status settles on the truth; a stored payload can be deployed; a report
of a node leads to one profile; a synchronisation survives failures and posts
once; a tenant exists completely or not at all; a migration can be repeated.
`PROJECT.json` lists the hazards at their lines.

## 2. Plan

Done in this order, most important first.

1. `TargetService`, `Deploy`, `ReleaseLifecycle`, `DeployProofs`: deployment and
   its lock.
2. `Probe`: the status of a target.
3. `Archive`, `Payload`: validation, archive, object and row, and what a
   deployment makes of them.
4. `Install`: what the commands of an installation leave on a host.
5. `Account`: webhook, request row, workflow, profile, Disable.
6. `Tenant`: provisioning over the shared name space of databases, composed with
   the discovery of tenants by the worker.
7. `Sync`: the endless workflow, its attempts and its plugins.
8. `Startup`: migrator and server, from one version to the next.
9. `Caches`, `Opener`, `RuntimeProofs`: the mutex of `Connect` and `Backend`.
10. `Access`, `Lists`, `Listing`, `Client`: who may call, what a page holds, what
    the client makes of it.

Not composed: `Deploy` and `Probe` over one `TargetService`.  Each assumes of the other
what it could do at worst (a deployment may mark any live target online; a probe
may write any status), so what is shown of each does not depend on the other.

The theorems were proved in the order of section 5: the lock and the releases, the
target, tenants, synchronisation and reports, then the modules that are checked
together, part by part.

## 3. The modules

### `TargetService` - `internal/service/target.go`

State: the `targets` table (`target`), the active instances `probe:<id>`
(`probing`), and what every handler goroutine of the API server is doing
(`handling`: its program counter and its local copy `previous`).  One action per
statement: `CreateTarget`, `EnqueueNewTarget`, `UndoCreateTarget` are Create;
`LoadPreviousTarget`, `WriteTarget`, `EnqueueTarget`, `RevertTarget` are Update;
`DeleteTarget` is Delete, whose first query only chooses the error it returns.
`enqueue` takes "the instance exists already" for success, so that an
`EnqueueSucceeds` of a probed target changes nothing.  Address, user and key
are one value, the endpoint.

Failures are counted by `Fail(kind)`.  `Faults` says which kinds may happen in a
configuration and `MaxFailures` how many; the kinds are listed in the module.
An API server that stops is modelled per handler (`AbandonTargetHandler`).  A
statement that reports an error has not taken effect; where it matters that it may
have (the lock and the final status of a release), both outcomes are modelled.

### `Deploy` - `internal/service/release.go`, `internal/jobs/deploy.go`

Extends `TargetService` with `release`, `payload` (what the row leads to),
`starting` (handlers of Release.Deploy), `workflow` (instance `deploy:<id>`:
state, attempts, the worker that has the activity), `execution` (per worker:
program counter and the local copies of the activity) and `clock`.

| Action | Code |
|---|---|
| `CreateRelease` | Release.Create |
| `AcceptRelease` | Release.Deploy, UPDATE ... WHERE status = unknown |
| `StartWorkflow` | CreateWorkflowInstance: created, refused, not reached, reply lost |
| `RevertRelease` | the UPDATE that withdraws |
| `AbandonDeployHandler` | return at line 121, or the server stops |
| `LoadRelease` | DeployActivity up to `now` |
| `AcquireLock` | the conditional UPDATE of the lock (`MayLock`, `TakeLock`) |
| `PrepareArchive` | storage, inject, upload |
| `InstallOverSSH` | infra.Deploy |
| `MarkDead`, `MarkOnline`, `MarkDeployed` | the three UPDATEs after it |
| `ReleaseLock` | the deferred unlock |
| `TakeTask`, `ReportResult`, `CrashWorker`, `RedeliverTask` | the engine (external) |
| `CreatePayload`, `UpdatePayload`, `DeletePayload` | payload.go, as seen from a deployment |
| `TargetStep` | any step of `TargetService` |

The reads of `LoadRelease` are one step: of what they return, the
references of a release never change, the target and the payload are used as
they were read at that moment, and reading the status later would only narrow the
window that is modelled.  A failed SSH deployment is one outcome, whatever the
commands did to the host; one that never returns is a worker that stays at "ssh".

The engine is modelled from its use: at most one active instance per id (a
finished id can be created again), `MaxAttempts` attempts at an activity
(three by default), redelivery after a crash without counting an attempt, and
redelivery of a task whose worker is still at work, whose late result is then
ignored.

Four variables are history: `installs` counts successful installations,
`forfeited` the targets whose lock was taken from, or rewritten under, a worker
that held it, `abandoned` the releases whose handler stopped half way, `failures`
the failures.

### `ReleaseLifecycle`

What a client is promised about the status of a release: unknown, accepted, and
decided once.  `Deploy` implements it (`FollowsLifecycle`) with
`status` mapped to the column.  `Overwritable` weakens it where the code does:
see the run `deploy_release` and the theorem `LifecycleIsFollowed`.

### `Probe` - `internal/jobs/probe.go`

Extends `TargetService` with the activity of each instance (`probe`), the
endpoints that accept a login (`reachable`) and a bounded number of `events`:
hosts that come and go, and deployments that mark a target online (`Deploy`'s
`MarkOnline`, which needs only a live row).  The UPDATE of the status skips a row
that has it already, which changes nothing and is not told apart.

### `Archive`, `Payload` - `internal/service/payload.go`, `internal/infra/storage.go`

`Archive` has the two algorithms on zip files as functions of a sequence of
entries: `Accepted` is `validate` (it opens the first entry with the name of the
config and looks for the two markers), `Inject` is `inject` (it reads every entry
and replaces the markers in every entry of that name).  Of the text of an entry
only the markers are kept.  `unzip -o` extracts the entries one after the other, so
that of several with one name the last is what the program reads (`Configured`).  It need
not be the one that `validate` looked at (`Shadowed`): an archive may hold the name
twice, and the key of the target is appended under the name "key".  Two
spellings of one path are two names here.

`Payload` is the two stores: the object under the path of a payload, and the row
with path and config.  Create is `CreatePayload` (validation), `UploadPayload`,
`InsertPayload` and `CleanUp`, the removal of the object after an insert that
reported an error; Update is `FindPayload`, `WriteUpdate`, Delete `WriteDelete`.
A builder (an activity of `Deploy`, seen from the payload) is `LoadPayload`,
`Download`, `Deliver`.  Every write may be refused, or be carried out and its
reply lost, and the server may stop after each.

### `Install` - `internal/infra/ssh.go`

One host: which installation wrote each file of the home directory (`home`), which
programs run on it and over whose files, the archives in `/tmp`.  What a release asks
for (`request`) is the set of its files and the two commands of the client, either of
which may be missing: a stop command stops what runs or does something else (the
tests of the repository have `true`), a start command leaves the release running or
does not.  `Connect`, `Stop`, `Upload`, `Extract`, `Start`, `Remove` are the commands in
their order; the extraction overlays what is there; any may fail, with all, some or
none of its effect, the session may be cut (`Cut`), and the host then goes on
with the command it is at (`Straggle`).  A start command that runs the release in
the foreground has started it and stays at "start".  Up to three installations use the
host, one after the other or, as a failure, at once.

### `Account` - `internal/request/handler.go`, `internal/jobs/account.go`, `internal/service/account.go`

`PostReport` stores the row of a report, `StartAccount` creates its workflow,
`RemoveRequest` is the compensation, `CrashWebhook` a process that ends at a
report.  The activity is `LoadRequest`, `LoadPayload`, `CreateProfile`; the engine
is the one of `Deploy` (`TakeTask`, `ReportResult`, `RedeliverTask`,
`CrashWorker`).  `Extract` finds the name of the node among the fields of a body.
`FindProfile` and `WriteDisabled` are Disable.

### `Tenant` - `internal/service/tenant.go`, `cmd/worker/main.go`

The databases of the PostgreSQL server are one name space: `exists`, `tables`
and `seeded` say what each has.  A name is a base and a length, so that the name
`acme_jobs`, the jobs database of `acme` and an identifier cut at 63 characters can
be told apart or not, as the case may be.  Create is one action per call:
`CheckName`, `MakeFolder`, `InsertTenant`, `CreateMainDatabase`,
`CreateJobsDatabase`, `Migrate`, `SeedUser`, `SeedSystem`, `StartSync`, with
`RollBack` after any of them.  A tenant may bring databases of its own, which are
not created.  The worker is `Discover` and `StartWorker`.

### `Sync` - `internal/jobs/sync.go`, `internal/service/system.go`, `plugin/generator`

Per tenant an endless workflow; its activity is `LoadSystem`, `LookUpPlugin`
(lock), `StartPlugin` (the process is started with the mutex held),
`ListProfiles`, and for each profile the talk, the contact and the post, one
statement each.  `EndLoop`, `ReportResult` and `WakeUp` close a round.  The cache of
plugin clients lives as long as the worker process (`CrashWorker`), a plugin may
exit by itself (`ExitPlugin`), and the system service may change, remove or
replace the default system (`UpdateSystem`, `RemoveDefault`, `CreateSystem`).

### `Startup` - `cmd/migrator/main.go`, `cmd/server/main.go`, `docker-compose.yml`

A version stands for the tables its code wants.  `BringUp` starts the migrator:
`EnsureRoot`, `MigrateRoot`, `CreateUser`, `ListTenants`, `MigrateTenant`, `EndRun`.
After a success `StopServer` and `EndServer` are the graceful stop of the old server with its
limit, `StartServer`, `ServerMigrates`, `ServerLoadsRoot` the start of the new one;
`BeginTenant` and `EndTenant` are the calls of Create a server is at, and both
processes may stop anywhere.

### `Caches`, `Opener` - `internal/infra/db.go`

`Connect` and `Backend` are one algorithm: `Begin`, `Lock`, `LookUp`, `Open`, `Unlock`,
`Return`.  `Opener` is what they promise to the goroutines that call them: at most
one connection for a string, everybody is given that one, and a call fails only
while there is none.  `Caches` implements it (`KeepsPromise`): `asked` and
`answered` are read off the callers, `shared` is the cache.

### `Access` - `internal/service/auth.go`, `user.go`, `system.go`, `session.go`

The three services are one algorithm over three tables.  A call begins with its
kind, caller, tenant and row (`CreateUser`, `UpdateUser`, ..., `StopSession`);
`CheckUser` is the interceptor, which asks the users table of the tenant once; the
statements of the handler follow (`InsertRow`, `LoadRow`, `WriteRow`, `ReadRow`,
`DeleteRow`), then the answer.

### `Lists`, `Listing` - the Get and List calls

`Lists` has the set of rows a call answers with, for the size and page asked for
(`SizeOf`, `PageOf`, `Page`), and the code Get answers with for a row that is missing.
Rows are numbered by the time they were made: the place of a row in the order of
the statement is the number of newer ones (`Place`), and LIMIT and OFFSET are a
range of places (`Slice`).
`Listing` is a reader of page after page while rows are stamped with a time
(`Stamp`), inserted and deleted.

### `Client` - `cmd/client`

A run of a command is a path to its exit: `LoadConfig`, `Dial`, `NameTenant`,
`Resolve`, `ReadFile`, `ParseIds`, `Send`, `Receive`, with `Expire` for the deadline.
`Serve` and `Cancel` are the server's end of the call.  Which steps a command has
is a set per step.  The interceptor looks up a user that calls for a tenant in
the tenant's own table, so the commands that resolve the name of a tenant, which
is a call without one, are for the root user (`auth.go:38`).

### MC modules

`MCDeploy`, `MCProbe`, `MCTenant` and `MCAccount` instantiate one module each.
Symmetry is used in the runs without liveness properties only.

`MCTenancy`, `MCRecords`, `MCRuntime` and `MCWorker` check several modules that
share no variable in one run.  Each extends one of its parts (`Tenant`, `Sync`,
`Caches`, `Sync`) and instantiates the others under names (`Host` is `Install`, `Rows`
is `Access`, ...).  The proof modules of section 5 extend the MC modules and state
their theorems about these instances, so that run and theorem are about the same
definition: `Host!Spec => []SuccessIsWhatRuns`.  The variable `part` names the module a
behaviour is of; the others rest in one of their initial states.  A property of one
module depends on its variables only, and the behaviours of the sum, seen through
these variables, are those of the module and some that never move: a safety or
action property holds of the sum if and only if it holds of the module with the
same constants.  That a behaviour of the sum is one of each of its parts is proved
(`TenancyFollowsItsParts`, `RecordsFollowTheirParts`, `RuntimeFollowsItsParts`), except for
the two instances of `Sync`, which share their variables, and for `MCWorker`.  In `MCRuntime` and `MCWorker`, which check liveness, the
specification is the conjunction of the fairness of all parts; no fair action of a
part that rests is enabled in its initial state, so the conjunction asks
nothing of it.  `MCRecords` has `Sync` twice, over the same variables: with failures
only, and as `Changing` with changes of the default system as well.

A module that is instantiated states what it needs of its constants as a
definition `Assumptions`, and the MC module assumes it of each instance.  `TypesOK`
in these modules is the conjunction of the `TypeOK` of their parts; it
holds on every instance given here, and can be added to the `INVARIANTS` of their
configurations.

Next to some definitions stand variants of them ("Variant: ..."): the code with
a plausible mistake, kept to see that a property notices it.  No specification
uses them.

## 4. The runs

| Run | Instance | Shows |
|---|---|---|
| `deploy_lock` | 1 target, 2 releases, 2 workers, takeover after 1 of 2 ticks, 1 failure (refused backend or crash) | `LockExcludes`, `NoOrphanLock` |
| `deploy_release` | 1 release, 2 callers, 2 workers, all kinds, 2 failures | `TypeOK`, `DeployedIsInstalled`, `RepeatedInstallsArePaidFor`, `WaitHasOwner`, `FollowsLifecycle` |
| `deploy_finish` | 1 release, 2 workers, fair, 1 failure of 5 kinds | `EveryInstanceFinishes` |
| `deploy_decided` | 1 release, 2 workers, fair, SSH fails | `StartedDeployIsDecided` |
| `deploy_contention` | 2 releases, 1 target, fair, no failure | `StartedDeployIsDecided` is **violated** |
| `probe` | 1 target, 2 handlers, 2 endpoints, 2 failures, 2 events | `LiveTargetIsProbed`: a target a client sees has its probe, but for failures |
| `tenant_longest` | 1 handler, one name of 63 characters, no failure | `LegalNameSuffices` is **violated** |
| `tenancy` | `Tenant`: 2 tenants, 2 handlers, 3 names, 2 failures of 6 kinds; `Access`: 1 tenant, 2 users, 1 session, no failure; `Client`: 2 tenants, lookup on a page of 1 | `AcknowledgedIsProvisioned`, `DatabasesAreNotShared`, `LossesArePaidFor`, `DesertedForGood`, `ExitsAreTrue` |
| `records` | `Payload`: 1 payload, 6 archives, 2 handlers, 1 builder, 2 failures; `Install`: 3 installations of 3 kinds of release, 2 files, 3 failures; `Sync`: 1 tenant, 2 profiles, with 2 failures or with 2 changes and 1 failure; `Access`: 1 tenant, 1 user, 1 system, 1 session, 2 failures; `Listing`: 3 rows, pages of 1 and 2 | `AcknowledgedPayloadBuilds`, `InstalledIsConfigured`, `StoresAgree`; `SuccessIsWhatRuns`, `LeftArchivesArePaidFor`; `PostsArePaidFor`, `SyncEndsForAReason`; `AnswersAreTrue`, `DeletedRowsAreLeftAlone`; `ReaderIsServed` |
| `account` | 2 requests of bodies that name one node, two or none, 2 goroutines of the webhook, 2 workers, 1 caller of Disable, 2 failures of 6 kinds | `AcceptedReportIsKept`, `StrandedRowsArePaidFor`, `ProfilesAreFinal` |
| `runtime` | `Caches`: 3 callers, 2 strings; `Startup`: 2 tenants, 2 versions, brought up 3 times, 2 failures; `Account`: one node, 1 failure; fair | `KeepsPromise`, `EveryCallReturns`; `MissingUserIsPaidFor`, `ServedTenantsAreMigrated`, `HalfMadeTenantsArePaidFor`, `ServerComesUp`; `AcceptedLeadsToProfile` |
| `worker` | `Probe`: 1 target, 1 handler, 2 failures, 2 events; `Sync`: 2 tenants, 1 plugin, 2 rounds, 1 failure; `Tenant`: 2 handlers, 2 failures; fair | `StatusSettles`; `OneProcessPerPlugin`, `SyncGoesOn`; `TenantIsServed` |

**Bounds.** A lock is about two workers and one target, and a takeover needs a
first holder, an age and a second worker: two workers, two releases and two ticks
beyond zero.  Everything about one release needs two callers (a withdrawal
racing a second Deploy) and two workers (a redelivery racing the first one).
Two failures let a failure strike the handling of a failure.  Two attempts
distinguish the last attempt from the ones before it; the contention run uses
the engine's three.  One target suffices because no statement touches
two targets.  `MaxFailures`, `MaxClock`, `MaxEvents` bound what the system itself
leaves unbounded.

For the other modules the same measure is applied.  Two handlers of `Tenant`
race for one name, or for a name and its own jobs database; the third name is the
one at the limit.  One payload and one builder are enough, because no
statement touches two payloads, and what is concurrent about them is Create,
Update and Delete by two handlers against the steps of a builder.  The archives
are one for each way `validate`, `inject` and the extraction differ.  Two files, and
releases with both, the one and the other, tell an overlay from a replacement, and three
installations let a third come over what a failed one left of the first.  Two requests of one node and
two workers race for one profile.  Two profiles let an attempt of `Sync` fail between
them; two tenants share one plugin and its mutex.  Three callers of two strings
have one that waits behind two.  Two versions and three times up let an upgrade
fail and be repeated.  Page sizes are scaled down (10 and 100 become 1 and 2) so
that three rows cross the end of a page, and the hundred tenants of the client's lookup are one.

**Deadlock** is not checked: with the bounds used up and no client asking for
anything, the system rests.

**Failures.** Several invariants count: so many rows without a workflow, objects
without a row, tenants that are not whole, archives left on a host, second posts,
as there were failures.  They say two things.  Without a failure, no order of
concurrent calls leaves a trace of itself; and one failure costs at most one
such trace, so that no compensation makes things worse.

**Fairness.** Handlers and activities that have begun go on (weak fairness:
goroutines, and statements that return); a queued activity is taken if a worker
is free again and again (strong fairness: the engine polls a queue).  Timers
fire in `Probe` and `Sync`, and the loop of the worker in `Tenant` goes on.  A caller that
waits for a mutex in `Caches` and `Sync` gets it if it is free again and again (strong
fairness: Go's mutex hands itself to a waiter after a millisecond).  The opening of a
connection (`infra/db.go:76`, which has no limit of its own) and the calls of a
plugin are taken to end, in success or failure.  In `Startup`
the processes go on, and a container that exits is restarted, as the compose file says.
Nothing is assumed of clients, of failures and of the clock.

Nothing is assumed of SSH sessions either: `NewClientConn` (`infra/ssh.go:42, 95`) has
no time limit, and `run` waits for a command of the client (`infra/ssh.go:114`)
whatever becomes of the context.  The fairness of a worker and of a probe leaves out
the step that ends a session.  `EveryInstanceFinishes` says what such a session may
cost: it keeps the instance whose worker waits for it, and, when every worker waits for one,
those that are queued; it keeps no other, and a release that finds its lock taken uses
up its attempts instead of waiting with it.  A decision (`StartedDeployIsDecided`) and
a true status (`StatusSettles`) are promised where sessions return, which both state as
a premise (`SessionsReturn`, `LoginsReturn`).

**Lifecycle.** In `deploy_release`, with a lost reply, a release may be withdrawn
to unknown while its workflow runs, and a failed installation then turns unknown
into dead; with a redelivery, a slow worker may turn deployed into dead, since
the UPDATE of line 138 excludes only dead.  The promise is weakened by exactly
these two, each by its own kind of failure.  That nothing is overwritten where neither
happens, through crashes, takeovers and installations that fail, is
`LifecycleIsFollowed`, which holds for every set of `Faults`.

**Contention.** While one release is being installed, each attempt of another
one for the same target ends in "target is locked, will retry".  After the last
attempt its workflow fails, the release stays in wait, and Release.Deploy
accepts only unknown releases: nothing can move it any more.  `deploy_decided`
shows the same property without contention.  A storage error that persists, or a
crash that leaves the lock behind, ends the same way; they are left out of the
run to show that no failure is needed.

**Status.** `StatusSettles` is conditional on a premise that behaviours do
satisfy (`Quiet`): from some point on the row's endpoint and the hosts do not
change.  Deployments may still write online, a bounded number of times, and undone
updates may write an old status back.

**Installed config.** `validate` looks at the first entry with the name of the config.
`InstalledIsConfigured` names the two ways in which another one may be extracted over
it, and says that even that one has no marker left.  An archive
`<<Config(conf), Half(conf)>>` is accepted, and what is installed lacks the token.

**What runs.** `SuccessIsWhatRuns` promises as much as the commands do.  Without a stop
command that stops, the earlier release goes on beside the new one, over files that were
replaced under it; that is what the client asked for.  Nothing is promised when
something else was at the host between the first command of an installation and its
success (`disturbed`): an installation at the same time, or a command of one that was cut.

**Longest name.** `validate` lets a name of 63 characters pass, and Create makes the
database of that name and the one with `_jobs` behind it.  PostgreSQL keeps 63
characters, so the second is the first over again, and its creation is refused.
In `tenant_longest` the row is soft deleted and the call fails, with nobody else
about and without a failure.  Shorter names, down to 59, get a jobs database
whose name is cut but different.

**Names of databases.** `DatabasesAreNotShared` holds although the check of a name
compares it with names of tenants only: that `acme_jobs` is the jobs database of
`acme` is found out by `CREATE DATABASE`, which one of two calls loses.  A
database that a tenant brings is not created, and is outside the property.

**Synchronisation.** `SyncEndsForAReason` names what ends the workflow of a tenant
for ever: as many failures as attempts, a change of its default system, or a
single exit of a plugin process, because the dead client stays in the cache and
all the attempts meet it.

**Startup.** `MissingUserIsPaidFor` and `HalfMadeTenantsArePaidFor` say that only a
failure brings about the two states the migrator never leaves: a root
database without its user, and a row of a tenant without its databases, on which
every later run of it fails.

## 5. Proofs

The theorems hold for all sets of targets, tenants, releases, workers, callers and
so on, infinite ones included unless said otherwise, for all `Faults` and for all
bounds.  They assume what the modules assume of their constants and no more: `Null`
is none of the ids, `Faults` are known kinds, bounds are natural numbers, an
activity has at least one attempt.  `Sync` has a finite set of workers, since it
counts executions, and at least one round.  Assumptions of single theorems are named below.

The modules are laid out alike.  A first part proves the types, which come with the facts
about references that the later parts need; a step lemma has one step per action, or
one per kind of action where several leave the same part of the state alone.  Lemmas
of the form "such a step keeps the invariant" (`LockInvFramed`, `OrphanFramed`,
`ReasonStays`, `ChargeKept`) say what an invariant depends on, and the actions are
dispatched to them.

**`TargetProofs`** has the lemmas about the target handlers that `DeployProofs`
and `ProbeProofs` share: their steps keep the types, a deleted row
stays deleted, and only a failure makes an Update undo itself.

**`DeployProofs`**

* `TypeCorrect`: `Spec => []TypeOK`.  `TypeOK` is inductive as stated: besides the
  types it says that references lead to existing rows.
* `LockIsExclusive`: `Spec => []LockExcludes`.  That two workers do not both hold a
  lock does not follow from itself: one must know that the row says so.  The
  inductive `LockInv` adds that, on a target that is not forfeited, the columns
  of a held lock are exactly `TRUE` and the `now` of its holder, and that an
  absent row is unlocked.  Then `AcquireLock` can only succeed against a holder
  by age, and `TakeLock` forfeits the target in that case.  `RevertTarget` rewrites
  the columns and forfeits if that changed them under a holder.  Nothing about
  attempts, redelivery or crashes is needed: they only remove holders.
* `DeployedImpliesInstalled`: `Spec => []DeployedIsInstalled`.  `InstallInv` adds
  that a worker between the installation and `MarkDeployed` has `installs > 0` for
  its release.
* `LocksAreHeld`: `Spec => []NoOrphanLock`.  `OrphanInv` adds that a handler is
  about to write a lock back only after a failure.  The rest is that, as long as
  nothing failed, whoever sets a lock holds it and clears it.
* `WaitingIsOwned`: `Spec => []WaitHasOwner`.  The workflow of a release ends
  as done when its activity reports success, so `OwnerInv` says that a worker about
  to report success leaves a release that does not wait for it.  `ExecutionInv` says
  who executes a task and where a worker may have failed.
* `LifecycleIsFollowed`: `Spec => FollowsLifecycle`, that is, `Deploy` implements
  `ReleaseLifecycle`: initial states map to initial states, and every step maps to one
  of its steps or to a stutter.  What `Overwritable` leaves out must not happen,
  and that takes two invariants with a premise about `Faults`.  Without lost
  replies a release has one party that works for it: a caller, or an instance
  (`LostReplyInv`).  Without redeliveries it has one worker, which has not yet made it
  deployed when its installation fails (`RedeliveryInv`).
* `InstallationsAreAccounted`: `Spec => []RepeatedInstallsArePaidFor`.  `Claims(r)` are
  the ways in which the release may still be installed: a status that Deploy accepts,
  callers, a queued task, workers before the installation.  Installations and claims
  together are at most one more than the failures (`ClaimInv`): every step passes one claim on,
  an installation uses one up, and a failure makes at most one more.

**`ProbeProofs`**

* `TypeCorrect`: `Spec => []TypeOK`.
* `LiveTargetsAreProbed`: `Spec => []LiveTargetIsProbed`, if neither statements fail
  nor the server stops (`Faults \cap {"db", "apiCrash"} = {}`), which is what the run
  `probe` has.  The premise is needed: a removal that fails leaves the target without
  a probe.  The backend may refuse and lose replies.

**`TenancyProofs`**, about `Tenant`, `Access` and `Client`

* `TypeCorrect`: `Spec => []TypeOK`, by `RowsInv`: a call that has inserted its row works
  from a copy of it, one that has not has an id nobody knows, and no two calls have
  one row.
* `AcknowledgedAreProvisioned`: `Spec => []AcknowledgedIsProvisioned`.  `ProgressInv` says
  of every step of a call what must be migrated and seeded by then, and
  `NothingIsUndone` that no step of any call takes it away.
* `DatabasesAreSeparate`: `Spec => []DatabasesAreNotShared`.  The databases that a
  tenant has made, as far as its call has come, are its claims.  Claims exist, and
  those of two tenants are disjoint (`ClaimInv`), because a database is created only if
  there was none.
* `LossesAreAccounted`: `Spec => []LossesArePaidFor`.  Every step adds at most one tenant
  to those that are half made or not synchronised, and only if it met a failure.
* `DesertedTenantsStayDeserted`: `Calls!Spec => DesertedForGood`, an action property of
  `Access`.  `CallsInv` says that a call under way names a tenant, a row and a user of the
  tables.  A step of a call writes in the table of its tenant only, and a call
  is accepted only if its user is alive there: where no user is left and no call is
  under way, the only step is one that is refused.
* `EveryExitIsTrue`: `Shell!Spec => []ExitsAreTrue`, of `Client`.  `ShellInv` adds what the
  client knows in each phase: nothing is sent before the last one, a name that was
  found is the tenant of that name, and once the server has answered, the request
  stays as it is.  A name that was not found was not on the page, and then at
  least as many newer tenants as a page holds were.
* `TenancyFollowsItsParts`: a behaviour of `MCTenancy` is one of each of its three parts.

**`SyncProofs`**

* `TypeCorrect`: `Spec => []TypeOK`, and `PluginsAreShared`: `Spec => []OneProcessPerPlugin`,
  proved together: the mutex is held by the worker between `LookUpPlugin` and
  `StartPlugin`, which starts a process only while no client is cached.
* `SyncsEndForAReason`: `Spec => []SyncEndsForAReason`.  `ReasonInv` says that without
  an excuse attempts are at most failures, and fewer while an error is not yet
  reported; that a dead client is one of a plugin that exited; and that an
  execution works with the default system as long as nobody changes it.
* `PostsAreAccounted`: `Spec => []PostsArePaidFor`.  `UpperInv` counts, beside the posts of a
  profile, the executions that will post without being the current attempt
  (`Prepaid`): those were paid for by the redelivery or the exit that made them so.
  `LowerInv` says that an execution that has passed a profile without an error has
  posted for it.  `LoopInv` is about the loop: each profile is passed once.

**`AccountProofs`**

* `TypeCorrect`: `Spec => []TypeOK`, by the invariants on rows, goroutines of the webhook,
  executions and workflows (`TypeInv`).  `ExtractIsName` is about `Extract`: it finds
  a name or nothing.
* `ReportsAreKept`: `Spec => []AcceptedReportIsKept`.  `FailsForAReason` counts as in `Sync`:
  unless the payload is gone or the name too long, every attempt that failed met a
  failure of its own.
* `RowsAreAccounted`: `Spec => []StrandedRowsArePaidFor`.  `ChargeInv` also counts the reports
  that are going to be refused (`Removing`): a report is charged when its
  goroutine meets the failure, not when it answers, and the row that a
  removal leaves is charged to the failure of the removal.
* `ProfilesStayFinal`: `Spec => ProfilesAreFinal`, an action property.

**`RuntimeProofs`**, about `Caches`, `Startup` and the composition with `Account`

* `TypeCorrect`: `Spec => []TypeOK`.  `TypeOK` includes that the mutex is held by
  exactly the caller that is between lock and unlock, which makes it inductive.
* `Refinement`: `Spec => KeepsPromise`, that is, `Caches` implements `Opener`.  The
  initial states map to initial states (`PromiseInit`), and every step maps to a
  step of `Opener` or to a stutter (`PromiseStep`).  The step that needs an
  invariant is the opening of a connection: it must be a first one.  `CallInv`
  says that a caller at "open" has seen that there is none, and it is kept because the
  caller has not let go of the mutex since: a step of anybody else leaves the
  cache alone (`CallFramed`).

* `MissingUsersAreAccounted`: `Installation!Spec => []MissingUserIsPaidFor`, of `Startup`.
  `UserInv` says why the default user is not lost: as long as nothing failed, the run
  that made the root database is the one that is about to make the user.
* `HalfMadeTenantsAreAccounted`: `Installation!Spec => []HalfMadeTenantsArePaidFor`.
  With the types (`ServerInv`: a tenant in the making has a row, and a server that serves
  or is stopping) it is inductive as stated.
* `ServedTenantsAreUpgraded`: `Installation!Spec => []ServedTenantsAreMigrated`.
  `UpgradeInv` follows the upgrade: what the migrator has passed is migrated unless it
  is failing, after a run that ended well all is, and the server was started after
  such a run.  Tenants made after the list was read are excepted, as in the property.
* `RuntimeFollowsItsParts`: a behaviour of `MCRuntime` is one of each of its three parts, with
  its fairness.

**`RecordsProofs`**, about `Install`, `Payload`, `Access` and `Listing`

* `SuccessesAreWhatRuns`: `Host!Spec => []SuccessIsWhatRuns`.  `SuccessInv` says that, unless
  it was disturbed, the installation that began last is alone on the host, and the
  host is as its next command wants it: after a stop command that stops, nothing of
  another release runs, and from the start on the files of its archive are its own.
  `HostInv` adds that no process of it runs before, so that the one that is started
  is over its files.  It holds for any files, releases and commands.
* `LeftArchivesAreAccounted`: `Host!Spec => []LeftArchivesArePaidFor`.  It is inductive with
  the types: a step leaves at most one archive, and then meets a failure.
* `AcknowledgedPayloadsBuild` and `EveryBundleIsConfigured`: `Uploads!Spec =>
  []AcknowledgedPayloadBuilds` and `[]InstalledIsConfigured`.  `UploadsInv` says what a call
  knows of its payload (`HandlerKnows`), what the service keeps of it (`PayloadKept`: a
  row nobody edited is that of its object, and the object was accepted), and what a
  builder knows of the payload it loaded (`BuilderKnows`).  That the archive it
  downloads later is still the accepted one is the point: an object appears in its
  Create only, and no step takes away that of an acknowledged payload (Delete marks
  the row).
  What validation and injection make of the entries is proved for archives of any
  length (`AcceptedIsConfigured`): if only one entry has the name, it is the one that was
  looked at, and the last.
* `EveryLossIsPaidFor`: `Uploads!Spec => []StoresAgree`.  A payload counts as lost also when a
  call is about to remove the object of a live row, so that it is charged when the
  failure happens and not when the object goes (`Lost`, `LossInv`).
* `EveryAnswerIsTrue`: `Rows!Spec => []AnswersAreTrue`, and `DeletedRowsStayAsTheyAre`:
  `Rows!Spec => DeletedRowsAreLeftAlone`.  `CallKnows` says what a call knows of its row
  while others write it: a call on a row it has seen finds it or finds it deleted,
  a call that makes a row is the only one with its id, and what an update
  reads back is its own value or one written since.
* `EveryReaderIsServed`: `Pages!Spec => []ReaderIsServed`.  `PagesInv`: a row that was there
  all the time and was on no page so far has a place behind the offset, unless a
  newer row was deleted; an insertion only moves it further back.  At the end, an
  empty page (`PageIsFilled`) says that no place behind the offset is taken.
  That a set of numbers has a least element comes from `WellFoundedInduction`.
* `RecordsFollowTheirParts`: a behaviour of `MCRecords` is one of each of these four parts.

Before it was proved, every inductive invariant was checked by TLC as an invariant of
the run of its module.

Every invariant and action property of the runs that pass is stated by one of these
theorems.  Only model-checked:

* the liveness properties (`EveryInstanceFinishes`, `StartedDeployIsDecided`, `StatusSettles`,
  `SyncGoesOn`, `TenantIsServed`, `EveryCallReturns`, `ServerComesUp`, `AcceptedLeadsToProfile`):
  fairness and `ENABLED` are out of the prover's reach;
* that `StartedDeployIsDecided` and `LegalNameSuffices` are violated: a counterexample is
  found by a run, not proved.

Nothing here needs induction over data: where a definition looks at a sequence or a
page, it does so with a quantifier or a cardinality and not by recursion.

## 6. Not modelled

* The generated API code (`*.pb.go`), more than half of the lines of the
  implementation: marshalling and the transport of calls, without state of its own.
* `GetTalks`, which reads only, and files, which no code writes.
* The loading of configurations, but for the client's: a process reads its file
  once, at the start, and exits if it cannot.
* The one connection of a database pool: a statement that waits for it is one
  that has not been issued yet.
* Printing, logging, TLS and tokens; the text of posts.
* Times other than the age of a lock (30 s and 60 s pauses, back-off between
  attempts), which are nondeterministic delays.

PostgreSQL, the engine and the object store are taken to do what they document:
statements are atomic and durable.
