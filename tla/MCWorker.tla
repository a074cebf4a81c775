------------------------------ MODULE MCWorker ------------------------------
(***************************************************************************)
(* Small instances of the modules with endless loops of the worker: Sync,  *)
(* Probe, and Tenant for the discovery of tenants.                         *)
(*                                                                         *)
(* A behaviour is one of a single part, as in module MCRuntime, and as     *)
(* there the parts that rest ask nothing of it.  No symmetry.              *)
(***************************************************************************)
EXTENDS Sync

CONSTANTS
    Targets, Endpoints, Handlers, ProbeMaxFailures, MaxEvents, ProbeFaults,
    acme, long, External, MaxName, MaxIdentifier, Suffix, TenantHandlers, TenantMaxFailures,
    TenantFaults

VARIABLES
    part,
    target, probing, handling, targetFailures, probe, reachable, events,
    tenant, exists, tenantTables, seeded, sync, tenantHandling, found, running, acked,
    tenantFailures

statusVars == <<target, probing, handling, targetFailures, probe, reachable, events>>
tenantVars == <<tenant, exists, tenantTables, seeded, sync, tenantHandling, found, running, acked,
                tenantFailures>>
allVars == <<part, vars, statusVars, tenantVars>>

-----------------------------------------------------------------------------
\* Each profile has a tenant of its own.
OneEach == CHOOSE f \in [Profiles -> Tenants] : \A p, q \in Profiles : f[p] = f[q] => p = q

TenantName(base, length) == [base |-> base, length |-> length]

Status == INSTANCE Probe WITH
    Faults <- ProbeFaults, MaxFailures <- ProbeMaxFailures, failures <- targetFailures

\* acme and acme_jobs, and the longest name; no client brings connections.
Provisioning == INSTANCE Tenant WITH
    Bases <- {acme, long},
    Names <- {TenantName(acme, 4), TenantName(acme, 9), TenantName(long, 63)},
    Reserved <- {}, Brought <- {{}}, Handlers <- TenantHandlers, Faults <- TenantFaults,
    MaxFailures <- TenantMaxFailures, tables <- tenantTables,
    handling <- tenantHandling, failures <- tenantFailures

ASSUME ProvisioningAssumptions == Provisioning!Assumptions

-----------------------------------------------------------------------------
SyncStep ==
    /\ part = "sync"
    /\ Next
    /\ UNCHANGED <<part, statusVars, tenantVars>>

StatusStep ==
    /\ part = "probe"
    /\ Status!Next
    /\ UNCHANGED <<part, vars, tenantVars>>

ProvisioningStep ==
    /\ part = "tenant"
    /\ Provisioning!Next
    /\ UNCHANGED <<part, vars, statusVars>>

PartInit ==
    /\ part \in {"sync", "probe", "tenant"}
    /\ Init
    /\ part # "sync" => default = CHOOSE d \in [Tenants -> DefaultSystem] :
                           \A t \in Tenants : d[t].system = "seeded"
    /\ Status!Init
    /\ part # "probe" => reachable = {}
    /\ Provisioning!Init

PartNext == SyncStep \/ StatusStep \/ ProvisioningStep

PartFairness == Fairness /\ Status!Fairness /\ Provisioning!Fairness

PartSpec == PartInit /\ [][PartNext]_allVars /\ PartFairness

-----------------------------------------------------------------------------
\* The status of a target settles on the truth (jobs/probe.go:21-97).
StatusSettles == Status!StatusSettles

\* The worker serves the tenants that were created (cmd/worker/main.go:66-75).
TenantIsServed == Provisioning!TenantIsServed

\* The type invariants of the parts together: every variable stays in its range.
TypesOK == TypeOK /\ Status!TypeOK /\ Provisioning!TypeOK

=============================================================================
