----------------------------- MODULE MCRuntime -----------------------------
(***************************************************************************)
(* Small instances of the modules about the processes and what they share: *)
(* Caches, Startup, and Account for its liveness.                          *)
(*                                                                         *)
(* A behaviour is one of a single part, as in module MCTenancy.  The parts *)
(* that rest do so where none of the actions of their fairness is enabled, *)
(* so the conjunction of the fairness of all of them asks of a behaviour   *)
(* what the module of its part asks.  No symmetry.                         *)
(***************************************************************************)
EXTENDS Caches

CONSTANTS
    Workers, MaxAttempts, MaxFailures,
    Requests, Releases, Posts, Blank, n1, AccountFaults,
    Tenants, MaxVersion, MaxUps, StartupFaults

VARIABLES
    part,
    request, withPayload, profile, workflow, execution, posting, disabling, answer,
    accountFailures,
    root, tenant, version, migrator, server, making, late, ups, startupFailures

cacheVars == <<mutex, cache, call, opened>>
accountVars == <<request, withPayload, profile, workflow, execution, posting, disabling, answer,
                 accountFailures>>
startupVars == <<root, tenant, version, migrator, server, making, late, ups, startupFailures>>
allVars == <<part, cacheVars, accountVars, startupVars>>

-----------------------------------------------------------------------------
Nobody == [node_name |-> Blank, nodeName |-> Blank, node |-> Blank, nested |-> Blank]

\* One node, a report without one, and one failure.
Reports == INSTANCE Account WITH
    Names <- {n1}, LongNames <- {}, Bodies <- {[Nobody EXCEPT !.node_name = n1], Nobody},
    Callers <- {CHOOSE c \in Callers : TRUE}, Faults <- AccountFaults,
    MaxFailures <- 1, failures <- accountFailures

Installation == INSTANCE Startup WITH
    Faults <- StartupFaults, failures <- startupFailures

ASSUME AccountAssumptions == Reports!Assumptions
ASSUME StartupAssumptions == Installation!Assumptions

-----------------------------------------------------------------------------
CachesStep ==
    /\ part = "caches"
    /\ Next
    /\ UNCHANGED <<part, accountVars, startupVars>>

ReportsStep ==
    /\ part = "account"
    /\ Reports!Next
    /\ UNCHANGED <<part, cacheVars, startupVars>>

InstallationStep ==
    /\ part = "startup"
    /\ Installation!Next
    /\ UNCHANGED <<part, cacheVars, accountVars>>

PartInit ==
    /\ part \in {"caches", "account", "startup"}
    /\ Init
    /\ Reports!Init
    /\ Installation!Init

PartNext == CachesStep \/ ReportsStep \/ InstallationStep

PartFairness == Fairness /\ Reports!Fairness /\ Installation!Fairness

PartSpec == PartInit /\ [][PartNext]_allVars /\ PartFairness

-----------------------------------------------------------------------------
\* Accepted reports lead to profiles (jobs/account.go:22-87).
AcceptedLeadsToProfile == Reports!AcceptedLeadsToProfile

\* The default user is missing only after a failure (cmd/migrator/main.go:67-77).
MissingUserIsPaidFor == Installation!MissingUserIsPaidFor

\* Tenants that are served have the tables of the version (cmd/migrator/main.go:80-110).
ServedTenantsAreMigrated == Installation!ServedTenantsAreMigrated

\* A tenant is half made only after a failure (cmd/server/main.go:105-125).
HalfMadeTenantsArePaidFor == Installation!HalfMadeTenantsArePaidFor

\* A run of the migrator ends, and the server serves after it (cmd/server/main.go:52-71).
ServerComesUp == Installation!ServerComesUp

\* The type invariants of the parts together: every variable stays in its range.
TypesOK == TypeOK /\ Reports!TypeOK /\ Installation!TypeOK

=============================================================================
