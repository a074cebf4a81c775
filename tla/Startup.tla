------------------------------- MODULE Startup ------------------------------
(***************************************************************************)
(* How an installation comes up and is upgraded: the migrator              *)
(* (cmd/migrator/main.go), the start of the API server (cmd/server/main.go)*)
(* and the order docker-compose.yml puts them in.  Every "up" runs the     *)
(* migrator once; when it exits with 0 the server of the new version is    *)
(* started in place of the old one, which goes on working until then.  A   *)
(* server that exits is started again.                                     *)
(*                                                                         *)
(* A version stands for the tables the code of that version wants; the     *)
(* migrations only add to what is there.  Loading the configuration and    *)
(* the certificates (internal/config/config.go) depends on files that do   *)
(* not change here: a process that cannot read them never gets anywhere.   *)
(***************************************************************************)
EXTENDS Integers

CONSTANTS
    Tenants,
    Faults,        \* kinds of failure the environment may cause
    MaxVersion,    \* bound: versions of the software
    MaxUps,        \* bound: how often the installation is brought up
    MaxFailures    \* bound: how many failures a behaviour contains

\* What the constants are; a module that instantiates this one states it.
Assumptions ==
    /\ Faults \subseteq {"db", "lostReply", "migratorCrash", "apiCrash", "stopTimeout"}
    /\ MaxVersion \in Nat \ {0}
    /\ MaxUps \in Nat
    /\ MaxFailures \in Nat

VARIABLES
    root,       \* the root database
    tenant,     \* the tenants in it, with the version of their tables
    version,    \* the version that was last brought up
    migrator,   \* the run of the migrator
    server,     \* the API server
    making,     \* the tenants whose creation the server is at
    late,       \* history: tenants made after the migrator read the list, and not
                \* migrated since
    ups,        \* how often the installation was brought up
    failures    \* number of failures so far

vars == <<root, tenant, version, migrator, server, making, late, ups, failures>>

-----------------------------------------------------------------------------
(* The state *)

Versions == 1..MaxVersion

RootDatabase == [exists : BOOLEAN, tables : BOOLEAN, user : BOOLEAN]

\* whole: its databases exist, all of them; a tenant whose creation was cut short
\* has a row and some of them.
TenantRow == [row : {"absent", "live", "deleted"}, whole : BOOLEAN, tables : 0..MaxVersion]

NoTenant == [row |-> "absent", whole |-> FALSE, tables |-> 0]

\* "ok" and "failed" are the exits with 0 and 1.
Migrator == [pc      : {"idle", "ensure", "root", "user", "list", "tenants", "ok", "failed"},
             created : BOOLEAN,
             todo    : SUBSET Tenants,
             failing : BOOLEAN]

NewRun == [pc |-> "ensure", created |-> FALSE, todo |-> {}, failing |-> FALSE]

\* "stopping" has been told to stop, and lets the calls it is at come to an end.
Server == [pc : {"down", "migrate", "load", "serving", "stopping"}, version : 0..MaxVersion]

Live == {t \in Tenants : tenant[t].row = "live"}

Fail(k) ==
    /\ k \in Faults
    /\ failures < MaxFailures
    /\ failures' = failures + 1

Exit(pc) == migrator' = [migrator EXCEPT !.pc = pc]

-----------------------------------------------------------------------------
(* The migrator *)

BringUp(v) ==
    /\ ups < MaxUps
    /\ migrator.pc \in {"idle", "ok", "failed"}
    /\ v >= version
    /\ version' = v
    /\ migrator' = NewRun
    /\ ups' = ups + 1
    /\ UNCHANGED <<root, tenant, server, making, late, failures>>

EnsureRoot ==
    LET created == root' = [root EXCEPT !.exists = TRUE] IN
    /\ migrator.pc = "ensure"
    /\ \/ /\ root.exists
          /\ Exit("root")
          /\ UNCHANGED <<root, failures>>
       \/ /\ ~root.exists
          /\ created
          /\ migrator' = [migrator EXCEPT !.pc = "root", !.created = TRUE]
          /\ UNCHANGED failures
       \/ Fail("db") /\ Exit("failed") /\ UNCHANGED root
       \/ Fail("lostReply") /\ ~root.exists /\ created /\ Exit("failed")
    /\ UNCHANGED <<tenant, version, server, making, late, ups>>

MigrateRoot ==
    /\ migrator.pc = "root"
    /\ \/ /\ root' = [root EXCEPT !.tables = TRUE]
          /\ Exit(IF migrator.created THEN "user" ELSE "list")
          /\ UNCHANGED failures
       \/ Fail("db") /\ Exit("failed") /\ UNCHANGED root
    /\ UNCHANGED <<tenant, version, server, making, late, ups>>

\* Variant: the user is made only when there are tenants to migrate.
CreateUserLate ==
    /\ migrator.pc = "user"
    /\ root' = [root EXCEPT !.user = Live # {}]
    /\ Exit("list")
    /\ UNCHANGED <<tenant, version, server, making, late, ups, failures>>

\* Only the run that created the database makes the default user.
CreateUser ==
    /\ migrator.pc = "user"
    /\ \/ /\ root' = [root EXCEPT !.user = TRUE]
          /\ Exit("list")
          /\ UNCHANGED failures
       \/ Fail("db") /\ Exit("failed") /\ UNCHANGED root
    /\ UNCHANGED <<tenant, version, server, making, late, ups>>

ListTenants ==
    /\ migrator.pc = "list"
    /\ \/ /\ migrator' = [migrator EXCEPT !.pc = "tenants", !.todo = Live]
          /\ UNCHANGED failures
       \/ Fail("db") /\ Exit("failed")
    /\ UNCHANGED <<root, tenant, version, server, making, late, ups>>

\* A tenant that fails does not keep the others from being migrated.  One that
\* is not whole may lack a database, or the server creates the last one just now.
MigrateTenant(t) ==
    /\ migrator.pc = "tenants"
    /\ t \in migrator.todo
    /\ \/ /\ tenant' = [tenant EXCEPT ![t].tables = version]
          /\ migrator' = [migrator EXCEPT !.todo = @ \ {t}]
          /\ late' = late \ {t}
          /\ UNCHANGED failures
       \/ /\ \/ ~tenant[t].whole /\ UNCHANGED failures
             \/ Fail("db")
          /\ migrator' = [migrator EXCEPT !.todo = @ \ {t}, !.failing = TRUE]
          /\ UNCHANGED <<tenant, late>>
    /\ UNCHANGED <<root, version, server, making, ups>>

\* Variant: failures are reported, and the exit is a success.
EndRunAnyway ==
    /\ migrator.pc = "tenants"
    /\ migrator.todo = {}
    /\ Exit("ok")
    /\ UNCHANGED <<root, tenant, version, server, making, late, ups, failures>>

EndRun ==
    /\ migrator.pc = "tenants"
    /\ migrator.todo = {}
    /\ Exit(IF migrator.failing THEN "failed" ELSE "ok")
    /\ UNCHANGED <<root, tenant, version, server, making, late, ups, failures>>

CrashMigrator ==
    /\ migrator.pc \notin {"idle", "ok", "failed"}
    /\ Fail("migratorCrash")
    /\ Exit("failed")
    /\ UNCHANGED <<root, tenant, version, server, making, late, ups>>

-----------------------------------------------------------------------------
(* The server *)

\* The run of the migrator succeeded: the old server is told to stop.
StopServer ==
    /\ migrator.pc = "ok"
    /\ server.pc \in {"migrate", "load", "serving"}
    /\ server.version # version
    /\ server' = [server EXCEPT !.pc = IF server.pc = "serving" THEN "stopping" ELSE "down"]
    /\ UNCHANGED <<root, tenant, version, migrator, making, late, ups, failures>>

\* Variant: Stop in place of GracefulStop.
CutCalls ==
    /\ server.pc = "stopping"
    /\ server' = [server EXCEPT !.pc = "down"]
    /\ making' = {}
    /\ UNCHANGED <<root, tenant, version, migrator, late, ups, failures>>

\* It stops when its calls have ended, or cuts them short when the time is up.
EndServer ==
    /\ server.pc = "stopping"
    /\ \/ making = {} /\ UNCHANGED failures
       \/ making # {} /\ Fail("stopTimeout")
    /\ server' = [server EXCEPT !.pc = "down"]
    /\ making' = {}
    /\ UNCHANGED <<root, tenant, version, migrator, late, ups>>

StartServer ==
    /\ migrator.pc = "ok"
    /\ server.pc = "down"
    /\ server' = [pc |-> "migrate", version |-> version]
    /\ UNCHANGED <<root, tenant, version, migrator, making, late, ups, failures>>

\* It migrates the root database once more; a failure is an exit.
ServerMigrates ==
    /\ server.pc = "migrate"
    /\ \/ server' = [server EXCEPT !.pc = "load"] /\ UNCHANGED failures
       \/ Fail("db") /\ UNCHANGED server
    /\ UNCHANGED <<root, tenant, version, migrator, making, late, ups>>

\* Variant: a server that cannot load the root user stays down.
ServerGivesUp ==
    /\ server.pc = "load"
    /\ \/ server' = [server EXCEPT !.pc = IF root.user THEN "serving" ELSE "down"]
       \/ server' = [server EXCEPT !.pc = "down"]
    /\ UNCHANGED <<root, tenant, version, migrator, making, late, ups, failures>>

\* Without the root user it exits, to be started again.
ServerLoadsRoot ==
    /\ server.pc = "load"
    /\ \/ /\ server' = [server EXCEPT !.pc = IF root.user THEN "serving" ELSE "migrate"]
          /\ UNCHANGED failures
       \/ /\ Fail("db")
          /\ server' = [server EXCEPT !.pc = "migrate"]
    /\ UNCHANGED <<root, tenant, version, migrator, making, late, ups>>

\* Tenant.Create, of module Tenant: the row, and later the databases.
BeginTenant(t) ==
    /\ server.pc = "serving"
    /\ tenant[t].row = "absent"
    /\ tenant' = [tenant EXCEPT ![t].row = "live"]
    /\ making' = making \cup {t}
    /\ late' = IF migrator.pc \in {"tenants", "ok", "failed"} THEN late \cup {t} ELSE late
    /\ UNCHANGED <<root, version, migrator, server, ups, failures>>

EndTenant(t) ==
    /\ t \in making
    /\ \/ /\ tenant' = [tenant EXCEPT ![t].whole = TRUE,
                                     ![t].tables = IF @ > server.version THEN @ ELSE server.version]
          /\ UNCHANGED failures
       \/ Fail("db") /\ tenant' = [tenant EXCEPT ![t].row = "deleted"]
    /\ making' = making \ {t}
    /\ UNCHANGED <<root, version, migrator, server, late, ups>>

CrashServer ==
    /\ server.pc \in {"serving", "stopping"}
    /\ Fail("apiCrash")
    /\ server' = [server EXCEPT !.pc = IF @ = "serving" THEN "migrate" ELSE "down"]
    /\ making' = {}
    /\ UNCHANGED <<root, tenant, version, migrator, late, ups>>

-----------------------------------------------------------------------------
Init ==
    /\ root = [exists |-> FALSE, tables |-> FALSE, user |-> FALSE]
    /\ tenant = [t \in Tenants |-> NoTenant]
    /\ version = 1
    /\ migrator = [NewRun EXCEPT !.pc = "idle"]
    /\ server = [pc |-> "down", version |-> 0]
    /\ making = {}
    /\ late = {}
    /\ ups = 0
    /\ failures = 0

MigratorStep ==
    \/ EnsureRoot
    \/ MigrateRoot
    \/ CreateUser
    \/ ListTenants
    \/ \E t \in Tenants : MigrateTenant(t)
    \/ EndRun

ServerStep == StopServer \/ EndServer \/ StartServer \/ ServerMigrates \/ ServerLoadsRoot

Next ==
    \/ \E v \in Versions : BringUp(v)
    \/ MigratorStep
    \/ CrashMigrator
    \/ ServerStep
    \/ \E t \in Tenants : BeginTenant(t) \/ EndTenant(t)
    \/ CrashServer

\* The processes go on, and the container of the server is restarted.
Fairness ==
    /\ WF_vars(MigratorStep)
    /\ WF_vars(ServerStep)
    /\ WF_vars(\E t \in Tenants : EndTenant(t))

Spec == Init /\ [][Next]_vars /\ Fairness

-----------------------------------------------------------------------------
(* Properties *)

\* Every variable keeps its type, and there is no table without its database.
TypeOK ==
    /\ root \in RootDatabase
    /\ root.tables \/ root.user => root.exists
    /\ tenant \in [Tenants -> TenantRow]
    /\ version \in Versions
    /\ migrator \in Migrator
    /\ server \in Server
    /\ making \subseteq Tenants
    /\ late \subseteq Tenants
    /\ ups \in 0..MaxUps
    /\ failures \in 0..MaxFailures

\* The default user is there whenever no migrator is at work on an installation
\* with a root database; but a failure between the creation of the database and
\* that of the user loses it for good, since no later run makes it
\* (cmd/migrator/main.go:40, 67-77, 135-152).
MissingUserIsPaidFor ==
    root.exists /\ ~root.user /\ migrator.pc \in {"idle", "ok", "failed"} => failures > 0

\* A server never works on a tenant whose tables are older than its code, but
\* for tenants the old server made after the migrator had read the list
\* (cmd/migrator/main.go:80-110, docker-compose.yml).
ServedTenantsAreMigrated ==
    server.pc = "serving" =>
       \A t \in Live : tenant[t].whole => tenant[t].tables >= server.version \/ t \in late

\* A tenant without its databases is one the server is still at, unless a crash
\* or the end of the time for stopping came between (cmd/server/main.go:105-125);
\* the migrator then fails on such a tenant at every run, and no new server starts.
HalfMadeTenantsArePaidFor ==
    \A t \in Live : tenant[t].whole \/ t \in making \/ failures > 0

\* A run of the migrator ends, and after a success the server of its version
\* serves, unless the default user is missing or the installation is brought
\* up once more (cmd/server/main.go:52-71).
ServerComesUp ==
    \A n \in 1..MaxUps :
       /\ ups = n ~> migrator.pc \in {"ok", "failed"} \/ ups > n
       /\ migrator.pc = "ok" /\ ups = n
             ~> \/ server.pc = "serving" /\ server.version = version
                \/ ~root.user
                \/ ups > n

=============================================================================
