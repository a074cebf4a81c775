------------------------------- MODULE Client -------------------------------
(***************************************************************************)
(* The command line client (cmd/client).  A command loads the              *)
(* configuration, turns the name of a tenant into its id by asking for the *)
(* first page of the tenants, reads a file, parses its ids and makes one   *)
(* call; one deadline covers both calls, and it passes on the client alone:*)
(* what the server has been sent it may still do.                          *)
(*                                                                         *)
(* Tenants are made meanwhile (module Tenant): the row of a tenant is there*)
(* before its databases are, and is deleted if one of them fails.  Names   *)
(* are never used again, so a tenant is its number, in the order of        *)
(* creation, and that is its name too.  Printing is left out.  A behaviour *)
(* runs one command: nothing of it is there when the next one is run.      *)
(***************************************************************************)
EXTENDS Lists

CONSTANTS
    ResolveSize,   \* the page size of resolve: 100
    MaxTenants     \* bound: tenants a behaviour makes

\* What the constants are; a module that instantiates this one states it.
Assumptions ==
    /\ PageSizes
    /\ ResolveSize \in Nat \ {0}
    /\ MaxTenants \in Nat \ {0}

-----------------------------------------------------------------------------
(* The commands.  scope: "root" calls carry a user only, "tenant" calls a   *)
(* tenant too; file: whether a file is read; ids: whether a flag is parsed  *)
(* as an id, with MustParse.  The commands that name an owner send the user *)
(* of the configuration, which the server has parsed by then.               *)

Command(resource, verbs, scope, file, ids) ==
    {[resource |-> resource, verb |-> v, scope |-> scope, file |-> file, ids |-> ids] : v \in verbs}

TenantCommands ==
    Command("tenant", {"add", "list"}, "root", FALSE, FALSE)
        \cup Command("tenant", {"get"}, "root", FALSE, TRUE)

TargetCommands ==
    Command("target", {"add"}, "tenant", TRUE, FALSE)
        \cup Command("target", {"list"}, "tenant", FALSE, FALSE)
        \cup Command("target", {"update"}, "tenant", TRUE, TRUE)
        \cup Command("target", {"get", "update", "delete"}, "tenant", FALSE, TRUE)

PayloadCommands ==
    Command("payload", {"add"}, "tenant", TRUE, TRUE)
        \cup Command("payload", {"list"}, "tenant", FALSE, FALSE)
        \cup Command("payload", {"get", "update", "delete"}, "tenant", FALSE, TRUE)

ReleaseCommands ==
    Command("release", {"list"}, "tenant", FALSE, FALSE)
        \cup Command("release", {"add", "get", "deploy"}, "tenant", FALSE, TRUE)

AccountCommands ==
    Command("account", {"list"}, "tenant", FALSE, FALSE)
        \cup Command("account", {"get", "disable"}, "tenant", FALSE, TRUE)

SessionCommands ==
    Command("session", {"list"}, "tenant", FALSE, FALSE)
        \cup Command("session", {"get", "start", "stop"}, "tenant", FALSE, TRUE)

SystemCommands ==
    Command("system", {"add", "list"}, "tenant", FALSE, FALSE)
        \cup Command("system", {"get", "update", "delete"}, "tenant", FALSE, TRUE)

UserCommands ==
    Command("user", {"add", "list"}, "tenant", FALSE, FALSE)
        \cup Command("user", {"get", "update", "delete"}, "tenant", FALSE, TRUE)

Commands ==
    UNION {TenantCommands, TargetCommands, PayloadCommands, ReleaseCommands, AccountCommands,
           SessionCommands, SystemCommands, UserCommands}

-----------------------------------------------------------------------------
VARIABLES
    tenant,     \* tenant[n]: how far the creation of tenant n is
    run,        \* the command that is running
    request,    \* its call: what the server made of it, and in which tenant
    listed      \* history: the tenants there were when resolve asked

vars == <<tenant, run, request, listed>>

TenantIds == 1..MaxTenants

None == 0      \* no tenant

Visible == {n \in TenantIds : tenant[n] \in {"making", "made"}}

\* valid: the file parses, with an address and a timeout; tls: the certificates
\* can be read; tenant: the name, None if it is set nowhere.
Config == [valid : BOOLEAN, tls : BOOLEAN, user : {"unset", "malformed", "root", "other"},
           tenant : TenantIds \cup {None}]

\* "absent": the tenant was not found; "panic" is the exit of an id that does not
\* parse; "refused" stands for every error a call returns.
Outcomes == {"ok", "config", "absent", "file", "panic", "refused", "timeout"}

Run == [pc : {"idle", "load", "dial", "context", "resolve", "file", "args", "call", "exit"},
        command : Commands, config : Config, id : TenantIds \cup {None},
        outcome : Outcomes \cup {"none"}]

Request == [state : {"none", "sent", "served", "refused", "dropped"}, tenant : TenantIds \cup {None}]

NoRequest == [state |-> "none", tenant |-> None]

GoTo(pc) == run' = [run EXCEPT !.pc = pc]

Exit(outcome) == run' = [run EXCEPT !.pc = "exit", !.outcome = outcome]

Scoped == run.command.scope = "tenant"

-----------------------------------------------------------------------------
(* The client *)

Begin(command, config) ==
    /\ run.pc = "idle"
    /\ run' = [pc |-> "load", command |-> command, config |-> config, id |-> None,
               outcome |-> "none"]
    /\ UNCHANGED <<tenant, request, listed>>

LoadConfig ==
    /\ run.pc = "load"
    /\ IF run.config.valid THEN GoTo("dial") ELSE Exit("config")
    /\ UNCHANGED <<tenant, request, listed>>

\* grpc.NewClient connects to nobody yet.
Dial ==
    /\ run.pc = "dial"
    /\ IF run.config.tls THEN GoTo("context") ELSE Exit("config")
    /\ UNCHANGED <<tenant, request, listed>>

\* The user must be set for every call, a tenant for those that need one.
NameTenant ==
    /\ run.pc = "context"
    /\ IF run.config.user # "unset" /\ (Scoped => run.config.tenant # None)
       THEN GoTo(IF Scoped THEN "resolve" ELSE "args")
       ELSE Exit("config")
    /\ UNCHANGED <<tenant, request, listed>>

\* Variant: the newest tenant is taken.
ResolveFirst ==
    /\ run.pc = "resolve"
    /\ LET page == Page(Visible, "tenant", 1, ResolveSize) IN
       IF run.config.user # "root" THEN Exit("refused")
       ELSE IF page = {} THEN Exit("absent")
       ELSE run' = [run EXCEPT !.pc = "file", !.id = CHOOSE n \in page : \A m \in page : m <= n]
    /\ listed' = Visible
    /\ UNCHANGED <<tenant, request>>

\* The list is a call without a tenant, for the root user only.
Resolve ==
    /\ run.pc = "resolve"
    /\ \/ /\ run.config.user = "root"
          /\ listed' = Visible
          /\ IF run.config.tenant \in Page(Visible, "tenant", 1, ResolveSize)
             THEN run' = [run EXCEPT !.pc = "file", !.id = run.config.tenant]
             ELSE Exit("absent")
       \/ Exit("refused") /\ UNCHANGED listed
    /\ UNCHANGED <<tenant, request>>

ReadFile ==
    /\ run.pc = "file"
    /\ GoTo("args") \/ (run.command.file /\ Exit("file"))
    /\ UNCHANGED <<tenant, request, listed>>

ParseIds ==
    /\ run.pc = "args"
    /\ GoTo("call") \/ (run.command.ids /\ Exit("panic"))
    /\ UNCHANGED <<tenant, request, listed>>

Send ==
    /\ run.pc = "call"
    /\ request.state = "none"
    /\ request' = [state |-> "sent", tenant |-> run.id]
    /\ UNCHANGED <<tenant, run, listed>>

Receive ==
    /\ run.pc = "call"
    /\ request.state \in {"served", "refused"}
    /\ Exit(IF request.state = "served" THEN "ok" ELSE "refused")
    /\ UNCHANGED <<tenant, request, listed>>

\* Also when the address answers to nobody.
Expire ==
    /\ run.pc \in {"resolve", "call"}
    /\ Exit("timeout")
    /\ UNCHANGED <<tenant, request, listed>>

-----------------------------------------------------------------------------
(* The server, and the tenants that are made meanwhile *)

\* The interceptor and the handler; a handler may fail, and a tenant that is
\* still being made need not have the databases or the user it asks for.
Serve ==
    /\ request.state = "sent"
    /\ \/ /\ run.config.user = "root"
          /\ Scoped => request.tenant \in Visible
          /\ request' = [request EXCEPT !.state = "served"]
       \/ request' = [request EXCEPT !.state = "refused"]
    /\ UNCHANGED <<tenant, run, listed>>

\* The call of a client that has gone away may be cancelled.
Cancel ==
    /\ request.state = "sent"
    /\ run.pc = "exit"
    /\ request' = [request EXCEPT !.state = "dropped"]
    /\ UNCHANGED <<tenant, run, listed>>

MakeTenant(n) ==
    /\ \/ /\ tenant[n] = "none"
          /\ \A m \in TenantIds : m < n => tenant[m] # "none"
          /\ tenant' = [tenant EXCEPT ![n] = "making"]
       \/ /\ tenant[n] = "making"
          /\ \E s \in {"made", "rolledBack"} : tenant' = [tenant EXCEPT ![n] = s]
    /\ UNCHANGED <<run, request, listed>>

-----------------------------------------------------------------------------
Init ==
    /\ tenant = [n \in TenantIds |-> "none"]
    /\ run \in {[pc |-> "idle", command |-> c, id |-> None, outcome |-> "none",
                 config |-> [valid |-> FALSE, tls |-> FALSE, user |-> "unset", tenant |-> None]] : c \in Commands}
    /\ request = NoRequest
    /\ listed = {}

Next ==
    \/ \E c \in Commands, f \in Config : Begin(c, f)
    \/ LoadConfig
    \/ Dial
    \/ NameTenant
    \/ Resolve
    \/ ReadFile
    \/ ParseIds
    \/ Send
    \/ Receive
    \/ Expire
    \/ Serve
    \/ Cancel
    \/ \E n \in TenantIds : MakeTenant(n)

Spec == Init /\ [][Next]_vars

-----------------------------------------------------------------------------
(* Properties *)

\* Every variable keeps its type.
TypeOK ==
    /\ tenant \in [TenantIds -> {"none", "making", "made", "rolledBack"}]
    /\ run \in Run
    /\ request \in Request
    /\ listed \subseteq TenantIds

\* The exit of the client tells the truth (cmd/client/helpers.go:60-101,
\* main.go:52-84): after a success the call was done, and in the tenant that the
\* configuration names; after an error of its own nothing was sent; and "tenant
\* not found" means there was none when it asked, or that ResolveSize newer
\* ones hid it.
ExitsAreTrue ==
    run.pc = "exit" =>
       /\ run.outcome = "ok" =>
             request = [state |-> "served", tenant |-> IF Scoped THEN run.config.tenant ELSE None]
       /\ run.outcome \in {"config", "absent", "file", "panic"} => request = NoRequest
       /\ run.outcome = "absent" =>
             \/ run.config.tenant \notin listed
             \/ Cardinality({n \in listed : n > run.config.tenant}) >= ResolveSize

=============================================================================
