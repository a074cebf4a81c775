------------------------------- MODULE Access -------------------------------
(***************************************************************************)
(* The interceptor of the API server (internal/service/auth.go) and the    *)
(* services that edit rows of a tenant: users, systems and sessions        *)
(* (internal/service/user.go, system.go, session.go).                      *)
(*                                                                         *)
(* Every call that names a tenant is let through if its user has a row in  *)
(* the users table of that tenant, when the call begins; what the call     *)
(* then does to the tables of the tenant, it does in later statements.  So *)
(* the users are both the data of these services and what protects them.   *)
(* A call without a tenant is let through for the root user only, and no   *)
(* handler of this module accepts it; module Tenant has those it is for.   *)
(*                                                                         *)
(* The three services are one algorithm over three tables.  The value of a *)
(* row is its name, or the status of a session.  Sessions are made by      *)
(* nobody in this repository: they are there from the start.  Get and List *)
(* read only.                                                              *)
(***************************************************************************)
EXTENDS Integers, FiniteSets

CONSTANTS
    Tenants,
    Root,         \* the user Tenant.Create seeds in every tenant
    Users,        \* ids of rows of users, Root among them
    Systems,      \* ids of rows of systems
    Sessions,     \* ids of rows of sessions
    Values,       \* names, statuses
    Online,       \* the status Start sets
    Offline,      \* the status Stop sets
    Handlers,     \* goroutines of the API server
    Null,
    Faults,       \* kinds of failure: "db", "lostReply", "apiCrash"
    MaxFailures   \* bound: how many failures a behaviour contains

Ids == Users \cup Systems \cup Sessions

\* What the constants are; a module that instantiates this one states it.
Assumptions ==
    /\ Root \in Users
    /\ Sessions \cap (Users \cup Systems) = {}
    /\ Users \cap Systems = {}
    /\ Null \notin Tenants \cup Ids \cup Values
    /\ {Online, Offline} \subseteq Values
    /\ Values \cap {"denied", "notFound", "error", "done"} = {}
    /\ Faults \subseteq {"db", "lostReply", "apiCrash"}
    /\ MaxFailures \in Nat

VARIABLES
    table,        \* table[t][i]: the row i of tenant t
    call,         \* what each handler is doing
    later,        \* history: values others wrote to the row after the handler did
    failures      \* number of failures so far

vars == <<table, call, later, failures>>

-----------------------------------------------------------------------------
Row == [row : {"absent", "live", "deleted"}, value : Values \cup {Null}]

NoRow == [row |-> "absent", value |-> Null]

Answers == Values \cup {Null, "denied", "notFound", "error", "done"}

\* "set" is Start and Stop of a session, which do not look before they write.
Operations == {"create", "update", "delete", "set"}

Call == [pc     : {"idle", "check", "insert", "load", "write", "read", "delete", "answer"},
         op     : Operations \cup {Null},
         tenant : Tenants \cup {Null},
         user   : Users \cup {Null},
         id     : Ids \cup {Null},
         value  : Values \cup {Null},
         answer : Answers]

NoCall == [pc |-> "idle", op |-> Null, tenant |-> Null, user |-> Null, id |-> Null,
           value |-> Null, answer |-> Null]

Live(t, i) == table[t][i].row = "live"

Accepted(h) == call[h].pc \in {"insert", "load", "write", "read", "delete"}

Fail(k) ==
    /\ k \in Faults
    /\ failures < MaxFailures
    /\ failures' = failures + 1

GoTo(h, pc) == call' = [call EXCEPT ![h].pc = pc]

Answer(h, a) == call' = [call EXCEPT ![h].pc = "answer", ![h].answer = a]

\* The row of the call of h.
Mine(h) == table[call[h].tenant][call[h].id]

PutRow(h, r) == table' = [table EXCEPT ![call[h].tenant][call[h].id] = r]

\* A write of h to its row is later than those that other calls have done.
Written(h) ==
    later' = [k \in Handlers |->
        IF k # h /\ call[k].tenant = call[h].tenant /\ call[k].id = call[h].id
        THEN later[k] \cup {call[h].value} ELSE IF k = h THEN {} ELSE later[k]]

-----------------------------------------------------------------------------
(* The interceptor *)

BeginCall(h, op, t, u, i, v) ==
    /\ call[h].pc = "idle"
    /\ call' = [call EXCEPT ![h] = [pc |-> "check", op |-> op, tenant |-> t, user |-> u, id |-> i,
                                    value |-> v, answer |-> Null]]
    /\ later' = [later EXCEPT ![h] = {}]
    /\ UNCHANGED <<table, failures>>

First(op) == CASE op = "create" -> "insert"
               [] op = "update" -> "load"
               [] op = "delete" -> "delete"
               [] op = "set"    -> "write"

\* Variant: the root user needs no row.
CheckUserNotRoot(h) ==
    /\ call[h].pc = "check"
    /\ IF call[h].user = Root \/ Live(call[h].tenant, call[h].user)
       THEN GoTo(h, First(call[h].op)) ELSE Answer(h, "denied")
    /\ UNCHANGED <<table, later, failures>>

CheckUser(h) ==
    /\ call[h].pc = "check"
    /\ \/ /\ IF Live(call[h].tenant, call[h].user)
             THEN GoTo(h, First(call[h].op)) ELSE Answer(h, "denied")
          /\ UNCHANGED failures
       \/ Fail("db") /\ Answer(h, "error")
    /\ UNCHANGED <<table, later>>

-----------------------------------------------------------------------------
(* The handlers *)

\* The calls of the services, by the user u of the tenant t.  Ids are made by
\* the database: a row is new, or the client has seen it.
New(t, i) == table[t][i].row = "absent" /\ \A h \in Handlers : call[h].id # i
Seen(t, i) == table[t][i].row # "absent"

CreateUser(h, t, u, i, v) == i \in Users /\ New(t, i) /\ BeginCall(h, "create", t, u, i, v)
UpdateUser(h, t, u, i, v) == i \in Users /\ Seen(t, i) /\ BeginCall(h, "update", t, u, i, v)
DeleteUser(h, t, u, i) == i \in Users /\ Seen(t, i) /\ BeginCall(h, "delete", t, u, i, Null)

CreateSystem(h, t, u, i, v) == i \in Systems /\ New(t, i) /\ BeginCall(h, "create", t, u, i, v)
UpdateSystem(h, t, u, i, v) == i \in Systems /\ Seen(t, i) /\ BeginCall(h, "update", t, u, i, v)
DeleteSystem(h, t, u, i) == i \in Systems /\ Seen(t, i) /\ BeginCall(h, "delete", t, u, i, Null)

StartSession(h, t, u, i) == i \in Sessions /\ Seen(t, i) /\ BeginCall(h, "set", t, u, i, Online)
StopSession(h, t, u, i) == i \in Sessions /\ Seen(t, i) /\ BeginCall(h, "set", t, u, i, Offline)

NewRow(h) == [row |-> "live", value |-> call[h].value]

InsertRow(h) ==
    /\ call[h].pc = "insert"
    /\ \/ PutRow(h, NewRow(h)) /\ Answer(h, "done") /\ UNCHANGED failures
       \/ Fail("db") /\ Answer(h, "error") /\ UNCHANGED table
       \/ Fail("lostReply") /\ PutRow(h, NewRow(h)) /\ Answer(h, "error")
    /\ UNCHANGED later

LoadRow(h) ==
    /\ call[h].pc = "load"
    /\ \/ /\ IF Mine(h).row = "live" THEN GoTo(h, "write") ELSE Answer(h, "notFound")
          /\ UNCHANGED failures
       \/ Fail("db") /\ Answer(h, "error")
    /\ UNCHANGED <<table, later>>

\* Variant: the row that was loaded is saved.
SaveRow(h) ==
    /\ call[h].pc = "write"
    /\ PutRow(h, NewRow(h))
    /\ Written(h)
    /\ GoTo(h, "read")
    /\ UNCHANGED failures

\* Variant: the row is read before it is written.
ReadAndWriteRow(h) ==
    /\ call[h].pc = "write"
    /\ Mine(h).row = "live"
    /\ PutRow(h, NewRow(h))
    /\ Written(h)
    /\ Answer(h, Mine(h).value)
    /\ UNCHANGED failures

\* UPDATE ... WHERE id = ? AND deleted_at IS NULL.
WriteRow(h) ==
    /\ call[h].pc = "write"
    /\ \/ /\ Mine(h).row = "live"
          /\ PutRow(h, NewRow(h))
          /\ Written(h)
          /\ \/ GoTo(h, "read") /\ UNCHANGED failures
             \/ Fail("lostReply") /\ Answer(h, "error")
       \/ /\ Mine(h).row # "live"
          /\ Answer(h, "notFound")
          /\ UNCHANGED <<table, later, failures>>
       \/ /\ Fail("db")
          /\ Answer(h, "error")
          /\ UNCHANGED <<table, later>>

\* The answer is the row as it is now; that it is gone is an internal error.
ReadRow(h) ==
    /\ call[h].pc = "read"
    /\ \/ /\ Answer(h, IF Mine(h).row = "live" THEN Mine(h).value ELSE "error")
          /\ UNCHANGED failures
       \/ Fail("db") /\ Answer(h, "error")
    /\ UNCHANGED <<table, later>>

DeleteRow(h) ==
    /\ call[h].pc = "delete"
    /\ \/ /\ Mine(h).row = "live"
          /\ PutRow(h, [Mine(h) EXCEPT !.row = "deleted"])
          /\ \/ Answer(h, "done") /\ UNCHANGED failures
             \/ Fail("lostReply") /\ Answer(h, "error")
       \/ /\ Mine(h).row # "live"
          /\ Answer(h, "notFound")
          /\ UNCHANGED <<table, failures>>
       \/ /\ Fail("db")
          /\ Answer(h, "error")
          /\ UNCHANGED table
    /\ UNCHANGED later

ReturnCall(h) ==
    /\ call[h].pc = "answer"
    /\ call' = [call EXCEPT ![h] = NoCall]
    /\ later' = [later EXCEPT ![h] = {}]
    /\ UNCHANGED <<table, failures>>

CrashApi(h) ==
    /\ call[h].pc \notin {"idle", "answer"}
    /\ Fail("apiCrash")
    /\ call' = [call EXCEPT ![h] = NoCall]
    /\ later' = [later EXCEPT ![h] = {}]
    /\ UNCHANGED table

-----------------------------------------------------------------------------
Init ==
    /\ table \in [Tenants -> {[i \in Ids |->
           IF i \in Sessions \cup {Root} THEN [row |-> "live", value |-> v] ELSE NoRow] : v \in Values}]
    /\ call = [h \in Handlers |-> NoCall]
    /\ later = [h \in Handlers |-> {}]
    /\ failures = 0

Next ==
    \E h \in Handlers :
       \/ \E t \in Tenants, u \in Users, i \in Ids :
             \/ \E v \in Values :
                   \/ CreateUser(h, t, u, i, v)
                   \/ UpdateUser(h, t, u, i, v)
                   \/ CreateSystem(h, t, u, i, v)
                   \/ UpdateSystem(h, t, u, i, v)
             \/ DeleteUser(h, t, u, i)
             \/ DeleteSystem(h, t, u, i)
             \/ StartSession(h, t, u, i)
             \/ StopSession(h, t, u, i)
       \/ CheckUser(h)
       \/ InsertRow(h)
       \/ LoadRow(h)
       \/ WriteRow(h)
       \/ ReadRow(h)
       \/ DeleteRow(h)
       \/ ReturnCall(h)
       \/ CrashApi(h)

Spec == Init /\ [][Next]_vars

-----------------------------------------------------------------------------
(* Properties *)

\* Every variable keeps its type (models/user.go, system.go, session.go).
TypeOK ==
    /\ table \in [Tenants -> [Ids -> Row]]
    /\ call \in [Handlers -> Call]
    /\ later \in [Handlers -> SUBSET Values]
    /\ failures \in 0..MaxFailures

Deserted(t) ==
    /\ \A u \in Users : ~Live(t, u)
    /\ \A h \in Handlers : Accepted(h) => call[h].tenant # t

\* Only a user of the tenant makes users: once a tenant has none, its last one
\* having deleted itself say, and no call is under way there, the tenant stays
\* without, and nothing in it changes any more (service/auth.go:79-85,
\* service/user.go:97-114).
DesertedForGood ==
    [][\A t \in Tenants : Deserted(t) => Deserted(t)' /\ table'[t] = table[t]]_vars

\* A row that was deleted between two statements of an update is neither brought
\* back nor written (service/user.go:74-87, system.go:74-87, session.go:96-107).
DeletedRowsAreLeftAlone ==
    [][\A t \in Tenants, i \in Ids :
          table[t][i].row = "deleted" => table'[t][i] = table[t][i]]_vars

\* "Not found" is answered only for a row that is gone, success of a delete only
\* when it is, and the value an update or Start or Stop answers with is its own
\* or one that another call wrote over it, never an older one
\* (service/user.go:86-94, session.go:96-114).
AnswersAreTrue ==
    \A h \in Handlers : call[h].pc = "answer" =>
       LET a == call[h].answer IN
       /\ a = "notFound" => Mine(h).row = "deleted"
       /\ a = "done" /\ call[h].op = "delete" => Mine(h).row = "deleted"
       /\ a \in Values => a = call[h].value \/ a \in later[h]

=============================================================================
