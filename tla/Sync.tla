-------------------------------- MODULE Sync --------------------------------
(***************************************************************************)
(* The Sync workflow of a tenant (internal/jobs/sync.go): every 60 seconds *)
(* it lets a generator plugin write a post for each profile of the system  *)
(* with the name "default".  The plugin is a process of its own            *)
(* (plugin/generator, cmd/generator), started once per worker process and  *)
(* kept in a cache behind a mutex.  What the system service                *)
(* (internal/service/system.go) does to the default system is part of the  *)
(* module, because the workflow depends on it.                             *)
(*                                                                         *)
(* The workers here are the goroutines of one worker process, which serves *)
(* all tenants: they share the mutex, the cache and the plugins.  Status   *)
(* does not matter: a profile that was disabled gets its posts as well.    *)
(***************************************************************************)
EXTENDS Integers, FiniteSets

CONSTANTS
    Tenants, Profiles, Workers,
    TenantOf,      \* the tenant each profile belongs to
    Plugins,       \* executables in the directory of plugins
    Missing,       \* the name of a plugin that is not there
    Null,
    Faults,        \* kinds of failure the environment may cause
    MaxAttempts,   \* executions before the engine gives an activity up
    MaxRounds,     \* bound: rounds of a workflow
    MaxChanges,    \* bound: calls of the system service
    MaxFailures    \* bound: how many failures a behaviour contains

FaultKinds == {"db", "lostReply", "rpc", "pluginExit", "workerCrash", "redelivery"}

\* What the constants are; a module that instantiates this one states it.
Assumptions ==
    /\ TenantOf \in [Profiles -> Tenants]
    /\ Null \notin Tenants \cup Profiles \cup Workers \cup Plugins \cup {Missing}
    /\ Missing \notin Plugins
    /\ Faults \subseteq FaultKinds
    /\ MaxAttempts \in Nat \ {0}
    /\ MaxRounds \in Nat \ {0}
    /\ IsFiniteSet(Workers)
    /\ MaxChanges \in Nat
    /\ MaxFailures \in Nat

ASSUME SyncAssumptions == Assumptions

VARIABLES
    default,     \* the system of the name "default" of each tenant
    talks,       \* number of talks of each profile
    contacts,    \* number of contacts of each profile
    posts,       \* number of posts of each profile
    workflow,    \* the engine's instances "sync:<tenant>"
    rounds,      \* rounds each workflow has finished
    execution,   \* the activity each worker executes
    mutex,       \* syncDeps.mu: the worker that holds it
    cache,       \* syncDeps.cache: the state of the cached client of a plugin
    processes,   \* processes of each plugin that run
    touched,     \* history: tenants whose default system was changed
    exited,      \* history: plugins of which a process exited by itself
    changes,     \* number of calls of the system service
    failures     \* number of failures so far

tables == <<default, talks, contacts, posts>>
engineVars == <<workflow, rounds>>
pluginVars == <<mutex, cache, processes>>
environment == <<touched, exited, changes>>
vars == <<tables, engineVars, execution, pluginVars, environment, failures>>

-----------------------------------------------------------------------------
(* The state *)

\* "seeded" is the system that Tenant.Create made and the profiles belong to,
\* "new" one that a client gave the name.
DefaultSystem == [system : {"none", "seeded", "new"}, plugin : Plugins \cup {Missing}]

Workflow == [state    : {"none", "active", "sleeping", "failed"},
             attempts : 0..MaxAttempts,
             worker   : Workers \cup {Null}]

Execution == [pc      : {"idle", "system", "plugin", "start", "list", "talk", "newTalk",
                         "contact", "newContact", "generate", "post", "report"},
              tenant  : Tenants \cup {Null},
              system  : {"none", "seeded", "new"},
              plugin  : Plugins \cup {Missing, Null},
              todo    : SUBSET Profiles,
              profile : Profiles \cup {Null},
              failed  : BOOLEAN]

NoExecution == [pc |-> "idle", tenant |-> Null, system |-> "none", plugin |-> Null, todo |-> {},
                profile |-> Null, failed |-> FALSE]

ProfilesOf(t) == {p \in Profiles : TenantOf[p] = t}

Fail(k) ==
    /\ k \in Faults
    /\ failures < MaxFailures
    /\ failures' = failures + 1

GoTo(w, pc) == execution' = [execution EXCEPT ![w].pc = pc]

Finish(w, failed) ==
    execution' = [execution EXCEPT ![w].pc = "report", ![w].failed = failed]

-----------------------------------------------------------------------------
(* The engine, as for the workflow of a release in module Deploy; when the   *)
(* activity succeeded the workflow sleeps and schedules it again.            *)

\* Tenant.Create creates the instance, once.
StartSync(t) ==
    /\ workflow[t].state = "none"
    /\ workflow' = [workflow EXCEPT ![t].state = "active"]
    /\ UNCHANGED <<tables, rounds, execution, pluginVars, environment, failures>>

TakeTask(w, t) ==
    /\ execution[w].pc = "idle"
    /\ workflow[t].state = "active"
    /\ workflow[t].worker = Null
    /\ workflow' = [workflow EXCEPT ![t].worker = w]
    /\ execution' = [execution EXCEPT ![w] = [NoExecution EXCEPT !.pc = "system", !.tenant = t]]
    /\ UNCHANGED <<tables, rounds, pluginVars, environment, failures>>

\* Variant: the first error is the last.
ReportFinalResult(w) ==
    LET t == execution[w].tenant IN
    /\ execution[w].pc = "report"
    /\ workflow' = [workflow EXCEPT ![t] =
          [state |-> IF execution[w].failed THEN "failed" ELSE "sleeping", attempts |-> 0,
           worker |-> Null]]
    /\ rounds' = [rounds EXCEPT ![t] = IF execution[w].failed THEN @ ELSE @ + 1]
    /\ execution' = [execution EXCEPT ![w] = NoExecution]
    /\ UNCHANGED <<tables, pluginVars, environment, failures>>

ReportResult(w) ==
    LET t == execution[w].tenant
        tries == workflow[t].attempts + 1
        mine == workflow[t].worker = w
    IN
    /\ execution[w].pc = "report"
    /\ \/ /\ mine /\ ~execution[w].failed
          /\ workflow' = [workflow EXCEPT ![t] =
                [state |-> "sleeping", attempts |-> 0, worker |-> Null]]
          /\ rounds' = [rounds EXCEPT ![t] = @ + 1]
       \/ /\ mine /\ execution[w].failed
          /\ workflow' = [workflow EXCEPT ![t] =
                [state    |-> IF tries < MaxAttempts THEN "active" ELSE "failed",
                 attempts |-> tries,
                 worker   |-> Null]]
          /\ UNCHANGED rounds
       \/ ~mine /\ UNCHANGED engineVars
    /\ execution' = [execution EXCEPT ![w] = NoExecution]
    /\ UNCHANGED <<tables, pluginVars, environment, failures>>

WakeUp(t) ==
    /\ workflow[t].state = "sleeping"
    /\ rounds[t] < MaxRounds
    /\ workflow' = [workflow EXCEPT ![t].state = "active"]
    /\ UNCHANGED <<tables, rounds, execution, pluginVars, environment, failures>>

RedeliverTask(t) ==
    /\ workflow[t].worker # Null
    /\ Fail("redelivery")
    /\ workflow' = [workflow EXCEPT ![t].worker = Null]
    /\ UNCHANGED <<tables, rounds, execution, pluginVars, environment>>

\* The worker process stops, its plugins with it, and is started again.
CrashWorker ==
    /\ Fail("workerCrash")
    /\ execution' = [w \in Workers |-> NoExecution]
    /\ workflow' = [t \in Tenants |-> [workflow[t] EXCEPT !.worker = Null]]
    /\ mutex' = Null
    /\ cache' = [n \in Plugins |-> "none"]
    /\ processes' = [n \in Plugins |-> 0]
    /\ UNCHANGED <<tables, rounds, environment>>

-----------------------------------------------------------------------------
(* SyncActivity up to its loop: the default system; its plugin; the profiles *)
(* of the system, in whatever order the database returns them.               *)

LoadSystem(w) ==
    LET d == default[execution[w].tenant] IN
    /\ execution[w].pc = "system"
    /\ \/ /\ d.system # "none"
          /\ execution' = [execution EXCEPT ![w].pc = "plugin", ![w].system = d.system,
                                            ![w].plugin = d.plugin]
          /\ UNCHANGED failures
       \/ d.system = "none" /\ Finish(w, TRUE) /\ UNCHANGED failures
       \/ Fail("db") /\ Finish(w, TRUE)
    /\ UNCHANGED <<tables, engineVars, pluginVars, environment>>

\* The plugins with a client in the cache.
Cached == {n \in Plugins : cache[n] # "none"}

\* Variant: the cache is looked at, and filled, without the mutex.
LookUpUnlocked(w) ==
    LET n == execution[w].plugin IN
    /\ execution[w].pc = "plugin"
    /\ GoTo(w, IF n \in Cached THEN "list" ELSE "start")
    /\ UNCHANGED <<tables, engineVars, pluginVars, environment, failures>>

\* Only one worker at a time is past the mutex; a cached client is returned
\* whether its process still runs or not.
LookUpPlugin(w) ==
    LET n == execution[w].plugin IN
    /\ execution[w].pc = "plugin"
    /\ mutex = Null
    /\ \/ /\ n \in Cached
          /\ GoTo(w, "list")
          /\ UNCHANGED mutex
       \/ /\ n \notin Cached
          /\ GoTo(w, "start")
          /\ mutex' = w
    /\ UNCHANGED <<tables, engineVars, cache, processes, environment, failures>>

\* Variant: the mutex is not released when a plugin was started.
StartAndKeepMutex(w) ==
    LET n == execution[w].plugin IN
    /\ execution[w].pc = "start"
    /\ n \in Plugins
    /\ cache' = [cache EXCEPT ![n] = "running"]
    /\ processes' = [processes EXCEPT ![n] = @ + 1]
    /\ GoTo(w, "list")
    /\ UNCHANGED <<tables, engineVars, mutex, environment, failures>>

\* A process that does not come up is killed.
StartPlugin(w) ==
    LET n == execution[w].plugin IN
    /\ execution[w].pc = "start"
    /\ \/ /\ n \in Plugins
          /\ cache' = [cache EXCEPT ![n] = "running"]
          /\ processes' = [processes EXCEPT ![n] = @ + 1]
          /\ GoTo(w, "list")
          /\ UNCHANGED failures
       \/ /\ \/ n = Missing /\ UNCHANGED failures
             \/ Fail("rpc")
          /\ Finish(w, TRUE)
          /\ UNCHANGED <<cache, processes>>
    /\ mutex' = Null
    /\ UNCHANGED <<tables, engineVars, environment>>

\* A plugin process exits; its client stays in the cache.
ExitPlugin(n) ==
    /\ cache[n] = "running"
    /\ Fail("pluginExit")
    /\ cache' = [cache EXCEPT ![n] = "dead"]
    /\ processes' = [processes EXCEPT ![n] = @ - 1]
    /\ exited' = exited \cup {n}
    /\ UNCHANGED <<tables, engineVars, execution, mutex, touched, changes>>

ListProfiles(w) ==
    LET t == execution[w].tenant IN
    /\ execution[w].pc = "list"
    /\ \/ /\ execution' = [execution EXCEPT ![w].pc = "talk",
                ![w].todo = IF execution[w].system = "seeded" THEN ProfilesOf(t) ELSE {}]
          /\ UNCHANGED failures
       \/ Fail("db") /\ Finish(w, TRUE)
    /\ UNCHANGED <<tables, engineVars, pluginVars, environment>>

-----------------------------------------------------------------------------
(* post, for one profile after the other: a talk, if it has none; a contact, *)
(* if it has none; the text; the post.                                       *)

EndLoop(w) ==
    /\ execution[w].pc = "talk"
    /\ execution[w].todo = {}
    /\ Finish(w, FALSE)
    /\ UNCHANGED <<tables, engineVars, pluginVars, environment, failures>>

FindTalk(w, p) ==
    /\ execution[w].pc = "talk"
    /\ p \in execution[w].todo
    /\ \/ /\ execution' = [execution EXCEPT ![w].profile = p,
                                            ![w].todo = @ \ {p},
                                            ![w].pc = IF talks[p] = 0 THEN "newTalk" ELSE "contact"]
          /\ UNCHANGED failures
       \/ Fail("db") /\ Finish(w, TRUE)
    /\ UNCHANGED <<tables, engineVars, pluginVars, environment>>

\* The INSERT of a row of table for the profile in hand.
Insert(w, table, next) ==
    \/ /\ table' = [table EXCEPT ![execution[w].profile] = @ + 1]
       /\ GoTo(w, next)
       /\ UNCHANGED failures
    \/ /\ Fail("db")
       /\ Finish(w, TRUE)
       /\ UNCHANGED table
    \/ /\ Fail("lostReply")
       /\ table' = [table EXCEPT ![execution[w].profile] = @ + 1]
       /\ Finish(w, TRUE)

CreateTalk(w) ==
    /\ execution[w].pc = "newTalk"
    /\ Insert(w, talks, "contact")
    /\ UNCHANGED <<default, contacts, posts, engineVars, pluginVars, environment>>

FindContact(w) ==
    /\ execution[w].pc = "contact"
    /\ \/ GoTo(w, IF contacts[execution[w].profile] = 0 THEN "newContact" ELSE "generate")
          /\ UNCHANGED failures
       \/ Fail("db") /\ Finish(w, TRUE)
    /\ UNCHANGED <<tables, engineVars, pluginVars, environment>>

CreateContact(w) ==
    /\ execution[w].pc = "newContact"
    /\ Insert(w, contacts, "generate")
    /\ UNCHANGED <<default, talks, posts, engineVars, pluginVars, environment>>

\* The call of the plugin over net/rpc: it fails once the process is gone, and
\* the client in the cache stays what it is.
Generate(w) ==
    LET n == execution[w].plugin IN
    /\ execution[w].pc = "generate"
    /\ \/ cache[n] = "running" /\ GoTo(w, "post") /\ UNCHANGED failures
       \/ cache[n] = "dead" /\ Finish(w, TRUE) /\ UNCHANGED failures
       \/ Fail("rpc") /\ Finish(w, TRUE)
    /\ UNCHANGED <<tables, engineVars, pluginVars, environment>>

\* Variant: a post that cannot be written is tried again.
PostTwice(w) ==
    /\ execution[w].pc = "post"
    /\ \E n \in 1..2 : posts' = [posts EXCEPT ![execution[w].profile] = @ + n]
    /\ GoTo(w, "talk")
    /\ UNCHANGED <<default, talks, contacts, engineVars, pluginVars, environment, failures>>

CreatePost(w) ==
    /\ execution[w].pc = "post"
    /\ Insert(w, posts, "talk")
    /\ UNCHANGED <<default, talks, contacts, engineVars, pluginVars, environment>>

-----------------------------------------------------------------------------
(* The system service: Update gives the default system another plugin, or    *)
(* another name; Delete removes it; Create makes a system of that name.  The *)
(* name is not unique: of several the one with the least id is found, and    *)
(* ids are random, so a new one may take the place of the default, or an old *)
(* one come to light again when it is gone.                                  *)

Change(t, system, plugin) ==
    /\ changes < MaxChanges
    /\ changes' = changes + 1
    /\ touched' = touched \cup {t}
    /\ default' = [default EXCEPT ![t] = [system |-> system, plugin |-> plugin]]
    /\ UNCHANGED <<talks, contacts, posts, engineVars, execution, pluginVars, exited, failures>>

UpdateSystem(t, n) == default[t].system # "none" /\ Change(t, default[t].system, n)

RemoveDefault(t, n) ==
    \/ default[t].system # "none" /\ Change(t, "none", default[t].plugin)
    \/ default[t].system = "new" /\ Change(t, "seeded", n)

CreateSystem(t, n) == Change(t, "new", n)

-----------------------------------------------------------------------------
Init ==
    /\ default \in [Tenants -> {[system |-> "seeded", plugin |-> n] : n \in Plugins}]
    /\ talks = [p \in Profiles |-> 0]
    /\ contacts = [p \in Profiles |-> 0]
    /\ posts = [p \in Profiles |-> 0]
    /\ workflow = [t \in Tenants |-> [state |-> "none", attempts |-> 0, worker |-> Null]]
    /\ rounds = [t \in Tenants |-> 0]
    /\ execution = [w \in Workers |-> NoExecution]
    /\ mutex = Null
    /\ cache = [n \in Plugins |-> "none"]
    /\ processes = [n \in Plugins |-> 0]
    /\ touched = {}
    /\ exited = {}
    /\ changes = 0
    /\ failures = 0

ActivityStep(w) ==
    \/ LoadSystem(w)
    \/ LookUpPlugin(w)
    \/ StartPlugin(w)
    \/ ListProfiles(w)
    \/ EndLoop(w)
    \/ \E p \in Profiles : FindTalk(w, p)
    \/ CreateTalk(w)
    \/ FindContact(w)
    \/ CreateContact(w)
    \/ Generate(w)
    \/ CreatePost(w)
    \/ ReportResult(w)

Next ==
    \/ \E w \in Workers : ActivityStep(w)
    \/ \E t \in Tenants :
          \/ StartSync(t)
          \/ \E w \in Workers : TakeTask(w, t)
          \/ WakeUp(t)
          \/ RedeliverTask(t)
          \/ \E n \in Plugins \cup {Missing} :
                UpdateSystem(t, n) \/ CreateSystem(t, n) \/ RemoveDefault(t, n)
    \/ CrashWorker
    \/ \E n \in Plugins : ExitPlugin(n)

\* Workers go on with what they took, timers fire and tasks are polled for.  A
\* worker that waits for the mutex gets it if it is free again and again: a Go
\* mutex does not starve a waiter.
Fairness ==
    /\ \A w \in Workers : WF_vars(ActivityStep(w)) /\ SF_vars(LookUpPlugin(w))
    /\ \A t \in Tenants : WF_vars(WakeUp(t)) /\ SF_vars(\E w \in Workers : TakeTask(w, t))

Spec == Init /\ [][Next]_vars /\ Fairness

-----------------------------------------------------------------------------
(* Properties *)

\* Every variable keeps its type, the mutex is held by the worker that starts a
\* plugin and by nobody else (jobs/sync.go:93-117).
TypeOK ==
    /\ default \in [Tenants -> DefaultSystem]
    /\ talks \in [Profiles -> Nat] /\ contacts \in [Profiles -> Nat] /\ posts \in [Profiles -> Nat]
    /\ workflow \in [Tenants -> Workflow]
    /\ rounds \in [Tenants -> 0..MaxRounds]
    /\ execution \in [Workers -> Execution]
    /\ \A w \in Workers : mutex = w <=> execution[w].pc = "start"
    /\ cache \in [Plugins -> {"none", "running", "dead"}]
    /\ processes \in [Plugins -> Nat]
    /\ touched \subseteq Tenants /\ exited \subseteq Plugins
    /\ changes \in 0..MaxChanges
    /\ failures \in 0..MaxFailures

\* However many tenants use a plugin at once, one process of it runs, and none
\* runs that the cache does not know (jobs/sync.go:94-116).
OneProcessPerPlugin ==
    \A n \in Plugins : processes[n] = IF cache[n] = "running" THEN 1 ELSE 0

\* Every round writes a post for every profile, and a profile has more posts
\* than rounds only by the round under way and by the attempts that failures
\* cut short: an attempt that starts from the first profile again posts again
\* (jobs/sync.go:85-90, 155-160).
PostsArePaidFor ==
    \A p \in Profiles :
       LET t == TenantOf[p] IN
       /\ posts[p] <= rounds[t] + 1 + failures
       /\ t \notin touched => rounds[t] <= posts[p]

\* The workflow of a tenant ends only after as many failures as it has attempts,
\* or because its default system was changed, or because a plugin exited: its
\* client stays in the cache, and all the attempts fail for the one exit
\* (jobs/sync.go:25-31, 65-73, 96-98).
SyncEndsForAReason ==
    \A t \in Tenants : workflow[t].state = "failed" =>
       \/ failures >= MaxAttempts
       \/ t \in touched
       \/ default[t].plugin \in exited

\* A workflow that was started goes from round to round, or has ended: no tenant waits for ever
\* for the mutex, or behind the plugin of another (jobs/sync.go:93-117).
SyncGoesOn ==
    \A t \in Tenants :
       workflow[t].state # "none" ~> (rounds[t] = MaxRounds \/ workflow[t].state = "failed")

=============================================================================
