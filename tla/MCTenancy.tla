----------------------------- MODULE MCTenancy -----------------------------
(***************************************************************************)
(* Small instances of the modules about who there is and who may call:     *)
(* Tenant, Access and Client.                                              *)
(*                                                                         *)
(* The three share no state.  A behaviour is one of a single part, which   *)
(* it names at its start; the two others stay in one of their initial      *)
(* states.  What a part does not share with the others does not depend on  *)
(* them, so a property of one module holds here if and only if it holds of *)
(* the module alone, with the same constants.                              *)
(***************************************************************************)
EXTENDS Tenant, TLC

CONSTANTS
    acme, long,
    AccessTenants, AccessFaults, AccessMaxFailures, Root, Users, Systems, Sessions, Values, Online, Offline,
    Default, Largest, ResolveSize, MaxTenants

VARIABLES
    part,
    table, call, later, accessFailures,
    clientTenant, run, request, listed

accessVars == <<table, call, later, accessFailures>>
clientVars == <<clientTenant, run, request, listed>>
allVars == <<part, vars, accessVars, clientVars>>

TenantName(base, length) == [base |-> base, length |-> length]

\* acme and acme_jobs, and the longest name.
TenantNames == {TenantName(acme, 4), TenantName(acme, 9), TenantName(long, 63)}

\* A tenant brings nothing, its main database only, or all its databases.
MCBrought == {{}, {"main"}, {"main", "deploy", "account", "jobs"}}

Calls == INSTANCE Access WITH
    Tenants <- AccessTenants, Faults <- AccessFaults, MaxFailures <- AccessMaxFailures,
    failures <- accessFailures

Shell == INSTANCE Client WITH tenant <- clientTenant

ASSUME AccessAssumptions == Calls!Assumptions
ASSUME ClientAssumptions == Shell!Assumptions

-----------------------------------------------------------------------------
ProvisioningStep ==
    /\ part = "tenant"
    /\ Next
    /\ UNCHANGED <<part, accessVars, clientVars>>

CallsStep ==
    /\ part = "access"
    /\ Calls!Next
    /\ UNCHANGED <<part, vars, clientVars>>

ShellStep ==
    /\ part = "client"
    /\ Shell!Next
    /\ UNCHANGED <<part, vars, accessVars>>

PartInit ==
    /\ part \in {"tenant", "access", "client"}
    /\ Init
    /\ Calls!Init
    /\ part # "access" => \A t \in AccessTenants : table[t][Root].value = Offline
    /\ Shell!Init
    /\ part # "client" => run.command = CHOOSE c \in Shell!Commands : TRUE

PartNext == ProvisioningStep \/ CallsStep \/ ShellStep

PartSpec == PartInit /\ [][PartNext]_allVars

\* The handlers are those of Tenant and of Access.
Symmetry == Permutations(Tenants) \cup Permutations(Handlers)

-----------------------------------------------------------------------------
\* A tenant that has no user any more stays without (service/auth.go:79-85).
DesertedForGood == Calls!DesertedForGood

\* The exit of the client tells the truth (cmd/client/helpers.go:60-101).
ExitsAreTrue == Shell!ExitsAreTrue

\* The type invariants of the parts together: every variable stays in its range.
TypesOK == TypeOK /\ Calls!TypeOK /\ Shell!TypeOK

=============================================================================
