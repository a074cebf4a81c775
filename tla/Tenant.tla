------------------------------- MODULE Tenant -------------------------------
(***************************************************************************)
(* Provisioning of a tenant (Tenant.Create in internal/service/tenant.go)  *)
(* and its discovery by the worker process (cmd/worker/main.go).           *)
(*                                                                         *)
(* Create inserts a row into the tenants table of the root database and    *)
(* then sets up, one call after the other and without a transaction, the   *)
(* databases the row names.  When a call fails it soft deletes the row,    *)
(* ignores whether that worked, and leaves the rest as it is.  There is no *)
(* call that changes or deletes a tenant; Get and List read only.          *)
(*                                                                         *)
(* A name is the first length characters of a text: the base followed by   *)
(* "_jobs" over and over.  So the names a, a_jobs and a_jobs_jobs have one *)
(* base and three lengths, and what PostgreSQL makes of an identifier that *)
(* is too long is the same base cut at its limit.                          *)
(***************************************************************************)
EXTENDS Integers, FiniteSets

CONSTANTS
    Tenants,       \* ids that rows of tenants are given
    Bases,         \* texts that names begin with
    Names,         \* the names clients ask for: [base, length]
    External,      \* a database that clients bring with them
    Reserved,      \* names of databases that exist from the start
    Brought,       \* sets of connections that clients bring
    Handlers,      \* goroutines of the API server
    MaxName,       \* the limit of validate
    MaxIdentifier, \* the limit of PostgreSQL
    Suffix,        \* the length of "_jobs"
    Null,
    Faults,        \* kinds of failure the environment may cause
    MaxFailures    \* bound: how many failures a behaviour contains

Name == [base : Bases, length : Nat]

\* The parts of a tenant, each with a connection string of its own.
Parts == {"main", "deploy", "account", "jobs"}

Cut(length) == IF length > MaxIdentifier THEN MaxIdentifier ELSE length

JobsName(name) == [name EXCEPT !.length = Cut(name.length + Suffix)]

Databases == Names \cup {JobsName(n) : n \in Names} \cup Reserved \cup {External}

\* What the constants are; a module that instantiates this one states it.
Assumptions ==
    /\ Names \subseteq Name
    /\ Reserved \subseteq Name
    /\ Brought \subseteq SUBSET Parts
    /\ MaxName \in Nat
    /\ MaxIdentifier \in Nat
    /\ Suffix \in Nat \ {0}
    /\ MaxName <= MaxIdentifier
    /\ Null \notin Tenants \cup Name \cup {External}
    /\ External \notin Name
    /\ Faults \subseteq {"db", "storage", "backend", "lostReply", "apiCrash", "workerCrash"}
    /\ MaxFailures \in Nat

ASSUME TenantAssumptions == Assumptions

VARIABLES
    tenant,      \* the tenants table of the root database
    exists,      \* databases that exist
    tables,      \* tables[d]: parts that database d has the tables of
    seeded,      \* seeded[d]: which of the rows of seed database d has
    sync,        \* tenants with a workflow instance "sync:<id>"
    handling,    \* what each handler is doing
    found,       \* tenants the worker read and did not yet look at
    running,     \* databases the worker executes workflows of
    acked,       \* history: tenants whose Create was answered with success
    failures     \* number of failures so far

apiVars == <<tenant, exists, tables, seeded, sync, handling, acked>>
workerVars == <<found, running>>
vars == <<apiVars, workerVars, failures>>

-----------------------------------------------------------------------------
(* The state *)

TenantRow == [row    : {"absent", "live", "deleted"},
              name   : Name \cup {Null},
              brings : SUBSET Parts]

NoTenant == [row |-> "absent", name |-> Null, brings |-> {}]

Steps == {"idle", "folder", "insert", "createMain", "createJobs", "main", "deploy", "account",
          "jobs", "seedUser", "seedSystem", "sync", "rollback"}

Handling == [pc : Steps, tenant : Tenants \cup {Null}, name : Name \cup {Null}, brings : SUBSET Parts]

Idle == [pc |-> "idle", tenant |-> Null, name |-> Null, brings |-> {}]

Live(t) == tenant[t].row = "live"

Fail(k) ==
    /\ k \in Faults
    /\ failures < MaxFailures
    /\ failures' = failures + 1

GoTo(h, pc) == handling' = [handling EXCEPT ![h].pc = pc]

\* The database a connection string leads to: the one brought, or the one named
\* after the tenant, with schemas main, deploy and account, or with "_jobs".
Where(name, brings, part) ==
    IF part \in brings THEN External ELSE IF part = "jobs" THEN JobsName(name) ELSE name

DatabaseOf(t, part) == Where(tenant[t].name, tenant[t].brings, part)

HandlerDatabase(h, part) == Where(handling[h].name, handling[h].brings, part)

-----------------------------------------------------------------------------
(* Tenant.Create: validate and count the rows of the name; make the folder;  *)
(* insert the row.                                                           *)

CheckName(h, t, name, brings) ==
    /\ handling[h].pc = "idle"
    /\ tenant[t].row = "absent"
    /\ \A k \in Handlers : handling[k].tenant # t
    /\ name.length <= MaxName
    /\ \A u \in Tenants : Live(u) => tenant[u].name # name
    /\ handling' = [handling EXCEPT ![h] =
          [pc |-> "folder", tenant |-> t, name |-> name, brings |-> brings]]
    /\ UNCHANGED <<tenant, exists, tables, seeded, sync, acked, workerVars, failures>>

MakeFolder(h) ==
    /\ handling[h].pc = "folder"
    /\ \/ GoTo(h, "insert") /\ UNCHANGED failures
       \/ Fail("storage") /\ handling' = [handling EXCEPT ![h] = Idle]
    /\ UNCHANGED <<tenant, exists, tables, seeded, sync, acked, workerVars>>

\* The unique index also covers the rows that were soft deleted.
InsertTenant(h) ==
    LET t == handling[h].tenant
        taken == \E u \in Tenants : tenant[u].name = handling[h].name
        inserted == tenant' = [tenant EXCEPT ![t] =
            [row |-> "live", name |-> handling[h].name, brings |-> handling[h].brings]]
    IN
    /\ handling[h].pc = "insert"
    /\ \/ /\ ~taken
          /\ inserted
          /\ GoTo(h, "createMain")
          /\ UNCHANGED failures
       \/ /\ taken
          /\ handling' = [handling EXCEPT ![h] = Idle]
          /\ UNCHANGED <<tenant, failures>>
       \/ /\ Fail("db")
          /\ handling' = [handling EXCEPT ![h] = Idle]
          /\ UNCHANGED tenant
       \/ /\ Fail("lostReply")
          /\ ~taken
          /\ inserted
          /\ handling' = [handling EXCEPT ![h] = Idle]
    /\ UNCHANGED <<exists, tables, seeded, sync, acked, workerVars>>

-----------------------------------------------------------------------------
(* CREATE DATABASE for the tenant and for its jobs; that the database exists *)
(* already is an error.                                                      *)

\* Variant: a database that exists is good enough.
CreateOrReuse(h, step, database, brought, next) ==
    /\ handling[h].pc = step
    /\ exists' = IF brought THEN exists ELSE exists \cup {database}
    /\ GoTo(h, next)
    /\ UNCHANGED <<tenant, tables, seeded, sync, acked, workerVars, failures>>

CreateDatabase(h, step, database, brought, next) ==
    /\ handling[h].pc = step
    /\ \/ /\ brought
          /\ GoTo(h, next)
          /\ UNCHANGED <<exists, failures>>
       \/ /\ ~brought /\ database \notin exists
          /\ exists' = exists \cup {database}
          /\ GoTo(h, next)
          /\ UNCHANGED failures
       \/ /\ ~brought /\ database \in exists
          /\ GoTo(h, "rollback")
          /\ UNCHANGED <<exists, failures>>
       \/ /\ ~brought
          /\ \/ Fail("db") /\ UNCHANGED exists
             \/ Fail("lostReply") /\ exists' = exists \cup {database}
          /\ GoTo(h, "rollback")
    /\ UNCHANGED <<tenant, tables, seeded, sync, acked, workerVars>>

CreateMainDatabase(h) ==
    CreateDatabase(h, "createMain", handling[h].name, "main" \in handling[h].brings, "createJobs")

CreateJobsDatabase(h) ==
    CreateDatabase(h, "createJobs", JobsName(handling[h].name), "jobs" \in handling[h].brings, "main")

-----------------------------------------------------------------------------
(* The migrations of the three schemas and of the jobs backend: each needs a *)
(* database to connect to, and leaves tables that exist alone.               *)

After(part) == CASE part = "main"    -> "deploy"
                 [] part = "deploy"  -> "account"
                 [] part = "account" -> "jobs"
                 [] part = "jobs"    -> "seedUser"

\* Variant: a schema that cannot be migrated ends the call as it is.
MigrateOrLeave(h, part) ==
    LET d == HandlerDatabase(h, part) IN
    /\ handling[h].pc = part
    /\ \/ /\ d \in exists
          /\ tables' = [tables EXCEPT ![d] = @ \cup {part}]
          /\ GoTo(h, After(part))
       \/ /\ d \notin exists
          /\ handling' = [handling EXCEPT ![h] = Idle]
          /\ UNCHANGED tables
    /\ UNCHANGED <<tenant, exists, seeded, sync, acked, workerVars, failures>>

Migrate(h, part) ==
    LET d == HandlerDatabase(h, part) IN
    /\ handling[h].pc = part
    /\ \/ /\ d \in exists
          /\ tables' = [tables EXCEPT ![d] = @ \cup {part}]
          /\ GoTo(h, After(part))
          /\ UNCHANGED failures
       \/ /\ d \notin exists
          /\ GoTo(h, "rollback")
          /\ UNCHANGED <<tables, failures>>
       \/ /\ Fail(IF part = "jobs" THEN "backend" ELSE "db")
          /\ GoTo(h, "rollback")
          /\ UNCHANGED tables
    /\ UNCHANGED <<tenant, exists, seeded, sync, acked, workerVars>>

-----------------------------------------------------------------------------
(* seed: the root user, whose id is the same for every tenant, and a system  *)
(* of the name "default".                                                    *)

SeedUser(h) ==
    LET d == HandlerDatabase(h, "main") IN
    /\ handling[h].pc = "seedUser"
    /\ \/ /\ "user" \notin seeded[d]
          /\ seeded' = [seeded EXCEPT ![d] = @ \cup {"user"}]
          /\ GoTo(h, "seedSystem")
          /\ UNCHANGED failures
       \/ /\ "user" \in seeded[d]
          /\ GoTo(h, "rollback")
          /\ UNCHANGED <<seeded, failures>>
       \/ /\ Fail("db")
          /\ GoTo(h, "rollback")
          /\ UNCHANGED seeded
       \/ /\ Fail("lostReply")
          /\ seeded' = [seeded EXCEPT ![d] = @ \cup {"user"}]
          /\ GoTo(h, "rollback")
    /\ UNCHANGED <<tenant, exists, tables, sync, acked, workerVars>>

\* Variant: a system that cannot be seeded is no reason to give up.
SeedSystemOrNot(h) ==
    LET d == HandlerDatabase(h, "main") IN
    /\ handling[h].pc = "seedSystem"
    /\ \/ seeded' = [seeded EXCEPT ![d] = @ \cup {"system"}] /\ UNCHANGED failures
       \/ Fail("db") /\ UNCHANGED seeded
    /\ GoTo(h, "sync")
    /\ UNCHANGED <<tenant, exists, tables, sync, acked, workerVars>>

SeedSystem(h) ==
    LET d == HandlerDatabase(h, "main") IN
    /\ handling[h].pc = "seedSystem"
    /\ \/ /\ seeded' = [seeded EXCEPT ![d] = @ \cup {"system"}]
          /\ GoTo(h, "sync")
          /\ UNCHANGED failures
       \/ /\ Fail("db")
          /\ GoTo(h, "rollback")
          /\ UNCHANGED seeded
       \/ /\ Fail("lostReply")
          /\ seeded' = [seeded EXCEPT ![d] = @ \cup {"system"}]
          /\ GoTo(h, "rollback")
    /\ UNCHANGED <<tenant, exists, tables, sync, acked, workerVars>>

\* The error of CreateWorkflowInstance is dropped, and the call succeeds.
StartSync(h) ==
    LET t == handling[h].tenant IN
    /\ handling[h].pc = "sync"
    /\ \/ sync' = sync \cup {t} /\ UNCHANGED failures
       \/ Fail("backend") /\ UNCHANGED sync
    /\ acked' = acked \cup {t}
    /\ handling' = [handling EXCEPT ![h] = Idle]
    /\ UNCHANGED <<tenant, exists, tables, seeded, workerVars>>

\* The row is soft deleted; nobody looks whether that worked.
RollBack(h) ==
    LET t == handling[h].tenant IN
    /\ handling[h].pc = "rollback"
    /\ \/ tenant' = [tenant EXCEPT ![t].row = "deleted"] /\ UNCHANGED failures
       \/ Fail("db") /\ UNCHANGED tenant
    /\ handling' = [handling EXCEPT ![h] = Idle]
    /\ UNCHANGED <<exists, tables, seeded, sync, acked, workerVars>>

CrashApi(h) ==
    /\ handling[h].pc # "idle"
    /\ Fail("apiCrash")
    /\ handling' = [handling EXCEPT ![h] = Idle]
    /\ UNCHANGED <<tenant, exists, tables, seeded, sync, acked, workerVars>>

-----------------------------------------------------------------------------
(* The worker: at its start and every 30 seconds it reads the tenants and    *)
(* starts a worker for each jobs database it has none for.                   *)

Discover ==
    /\ found = {}
    /\ found' = {t \in Tenants : Live(t)}
    /\ UNCHANGED <<apiVars, running, failures>>

\* Variant: one worker is started, whether its database is there or not.
StartWorkerAnyway(t) ==
    /\ t \in found
    /\ found' = found \ {t}
    /\ running' = IF running = {} THEN {DatabaseOf(t, "jobs")} ELSE running
    /\ UNCHANGED <<apiVars, failures>>

\* Opening the backend of a database that does not exist yet is an error, which
\* is logged; the next round tries again.
StartWorker(t) ==
    LET d == DatabaseOf(t, "jobs") IN
    /\ t \in found
    /\ found' = found \ {t}
    /\ \/ /\ d \in running \/ d \notin exists
          /\ UNCHANGED <<running, tables, failures>>
       \/ /\ d \notin running /\ d \in exists
          /\ running' = running \cup {d}
          /\ tables' = [tables EXCEPT ![d] = @ \cup {"jobs"}]
          /\ UNCHANGED failures
       \/ /\ d \notin running
          /\ Fail("backend")
          /\ UNCHANGED <<running, tables>>
    /\ UNCHANGED <<tenant, exists, seeded, sync, handling, acked>>

\* The worker process stops, and is started again.
CrashWorker ==
    /\ running # {}
    /\ Fail("workerCrash")
    /\ found' = {}
    /\ running' = {}
    /\ UNCHANGED apiVars

-----------------------------------------------------------------------------
Init ==
    /\ tenant = [t \in Tenants |-> NoTenant]
    /\ exists = Reserved \cup {External}
    /\ tables = [d \in Databases |-> {}]
    /\ seeded = [d \in Databases |-> {}]
    /\ sync = {}
    /\ handling = [h \in Handlers |-> Idle]
    /\ found = {}
    /\ running = {}
    /\ acked = {}
    /\ failures = 0

HandlerStep(h) ==
    \/ MakeFolder(h)
    \/ InsertTenant(h)
    \/ CreateMainDatabase(h)
    \/ CreateJobsDatabase(h)
    \/ \E part \in Parts : Migrate(h, part)
    \/ SeedUser(h)
    \/ SeedSystem(h)
    \/ StartSync(h)
    \/ RollBack(h)

WorkerStep == Discover \/ \E t \in Tenants : StartWorker(t)

Next ==
    \/ \E h \in Handlers :
          \/ \E t \in Tenants, name \in Names, brings \in Brought : CheckName(h, t, name, brings)
          \/ HandlerStep(h)
          \/ CrashApi(h)
    \/ WorkerStep
    \/ CrashWorker

\* The loop of the worker goes on; an entry of found is looked at in its turn.
Fairness == WF_vars(Discover) /\ \A t \in Tenants : WF_vars(StartWorker(t))

Spec == Init /\ [][Next]_vars /\ Fairness

-----------------------------------------------------------------------------
(* Properties *)

\* Every variable keeps its type, and only a database that exists has tables
\* (models/tenant.go:10-23).
TypeOK ==
    /\ tenant \in [Tenants -> TenantRow]
    /\ exists \subseteq Databases
    /\ tables \in [Databases -> SUBSET Parts]
    /\ \A d \in Databases \ exists : tables[d] = {}
    /\ seeded \in [Databases -> SUBSET {"user", "system"}]
    /\ sync \subseteq Tenants
    /\ handling \in [Handlers -> Handling]
    /\ found \subseteq Tenants
    /\ running \subseteq exists
    /\ acked \subseteq Tenants
    /\ failures \in 0..MaxFailures

\* A tenant whose Create was answered with success is there for good, and every
\* database it names has what the services expect in it, whatever other calls
\* created and rolled back meanwhile (service/tenant.go:109-164).
AcknowledgedIsProvisioned ==
    \A t \in acked :
       /\ Live(t)
       /\ \A part \in Parts : part \in tables[DatabaseOf(t, part)]
       /\ seeded[DatabaseOf(t, "main")] = {"user", "system"}

OwnDatabases(t) == {DatabaseOf(t, part) : part \in Parts}

\* No two tenants that bring no connections use one database, though the jobs
\* database of one name may be the database of another, or of the name itself:
\* CREATE DATABASE decides, not the check of the name
\* (service/tenant.go:61-67, 116-128, 261-265).
DatabasesAreNotShared ==
    \A t, u \in acked :
       tenant[t].brings = {} /\ tenant[u].brings = {} =>
          /\ t # u => OwnDatabases(t) \cap OwnDatabases(u) = {}
          /\ DatabaseOf(t, "main") # DatabaseOf(t, "jobs")

\* Tenants that clients see but that were never finished, and finished ones
\* nobody synchronises.
HalfMade == {t \in Tenants : Live(t) /\ t \notin acked /\ \A h \in Handlers : handling[h].tenant # t}
Unsynchronised == acked \ sync

\* Every way out of Create that is not a success removes the row, unless the
\* removal itself, or the process, fails; and a tenant is without its Sync
\* workflow only if the jobs backend failed (service/tenant.go:116-162).
LossesArePaidFor == Cardinality(HalfMade) + Cardinality(Unsynchronised) <= failures

\* The worker ends up executing the workflows of every tenant that was created,
\* though it may look at the row before the database is there
\* (cmd/worker/main.go:66-75, 118-128).
TenantIsServed ==
    \A t \in Tenants : <>[](t \in acked => DatabaseOf(t, "jobs") \in running)

\* What the message of validate says: a name of up to 63 characters will do.
\* Here: with nobody else about and no failure, no Create is undone.
LegalNameSuffices == \A h \in Handlers : handling[h].pc # "rollback"

=============================================================================
