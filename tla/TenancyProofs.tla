--------------------------- MODULE TenancyProofs ----------------------------
(***************************************************************************)
(* Theorems about the parts that MCTenancy puts together: Tenant, for all  *)
(* tenants, handlers, names and bounds, Access (Calls), for all tenants,   *)
(* users and rows, and the client (Shell).                                 *)
(***************************************************************************)
EXTENDS MCTenancy, FiniteSetTheorems, TLAPS

-----------------------------------------------------------------------------
(* Type correctness.  TypeOK is not inductive: that a handler works with a   *)
(* database of the set Databases depends on its row.                         *)

\* A handler that has not inserted its row yet has a tenant nobody knows; one
\* that has, works from a copy of the row.
HandlerHasRow(h) ==
    LET a == handling[h] IN
    IF a.pc = "idle" THEN a = Idle
    ELSE /\ a.tenant \in Tenants
         /\ a.name \in Names
         /\ IF a.pc \in {"folder", "insert"} THEN tenant[a.tenant].row = "absent"
            ELSE tenant[a.tenant] = [row |-> "live", name |-> a.name, brings |-> a.brings]

RowsInv ==
    /\ \A h \in Handlers : HandlerHasRow(h)
    /\ \A h, k \in Handlers : h # k => handling[h].tenant # handling[k].tenant \/ handling[h] = Idle
    /\ \A t \in Tenants : tenant[t].row # "absent" => tenant[t].name \in Names
    /\ \A t \in acked : Live(t) /\ \A h \in Handlers : handling[h].tenant # t

LEMMA FailureType == ASSUME TypeOK, NEW k, Fail(k) PROVE failures' \in 0..MaxFailures /\ failures' = failures + 1
BY TenantAssumptions DEF TypeOK, Fail, Assumptions

LEMMA NullIsNone == Null \notin Tenants /\ Null \notin Names
BY TenantAssumptions DEF Assumptions

LEMMA IdleType == Idle \in Handling
BY DEF Idle, Handling, Steps

\* A handler goes on with what it is doing.
GoesTo(h, pc) ==
    /\ pc \in Steps \ {"idle"}
    /\ handling' = [handling EXCEPT ![h].pc = pc]

Stops(h) == handling' = [handling EXCEPT ![h] = Idle]

LEMMA GoesToType ==
  ASSUME TypeOK, NEW h \in Handlers, NEW pc, GoesTo(h, pc)
  PROVE  /\ handling' \in [Handlers -> Handling]
         /\ handling'[h] = [handling[h] EXCEPT !.pc = pc]
         /\ handling'[h].pc = pc /\ handling'[h].tenant = handling[h].tenant
         /\ handling'[h].name = handling[h].name /\ handling'[h].brings = handling[h].brings
         /\ \A k \in Handlers \ {h} : handling'[k] = handling[k]
<1>1. handling' = [handling EXCEPT ![h] = [handling[h] EXCEPT !.pc = pc]]
  BY DEF GoesTo
<1>2. handling[h] \in Handling
  BY DEF TypeOK
<1>3. [handling[h] EXCEPT !.pc = pc] \in Handling
  BY <1>2 DEF Handling, GoesTo
<1> QED BY <1>1, <1>2, <1>3 DEF TypeOK, Handling

LEMMA StopsType ==
  ASSUME TypeOK, NEW h \in Handlers, Stops(h)
  PROVE  /\ handling' \in [Handlers -> Handling] /\ handling'[h] = Idle
         /\ \A k \in Handlers \ {h} : handling'[k] = handling[k]
BY IdleType DEF TypeOK, Stops

LEMMA DatabaseType ==
  ASSUME NEW name \in Names, NEW brings, NEW kind \in Parts
  PROVE  name \in Databases /\ JobsName(name) \in Databases /\ Where(name, brings, kind) \in Databases
BY DEF Databases, Where

LEMMA HandlerDatabaseType ==
  ASSUME RowsInv, NEW h \in Handlers, handling[h].pc # "idle"
  PROVE  /\ handling[h].tenant \in Tenants /\ handling[h].name \in Names
         /\ \A kind \in Parts : HandlerDatabase(h, kind) \in Databases
BY DatabaseType DEF RowsInv, HandlerHasRow, HandlerDatabase

\* What every step of a call has in common: it moves its own handler only, and
\* what it writes, it adds.
LEMMA CallMoves ==
  ASSUME TypeOK, RowsInv, NEW h \in Handlers, HandlerStep(h) \/ CrashApi(h)
  PROVE  /\ handling[h].pc # "idle"
         /\ Stops(h) \/ \E pc : GoesTo(h, pc)
         /\ failures' \in {failures, failures + 1} /\ failures' \in 0..MaxFailures
         /\ found' = found /\ running' = running
<1>0. \A k : Fail(k) => failures' = failures + 1 /\ failures' \in 0..MaxFailures
  BY FailureType
<1>00. failures \in 0..MaxFailures
  BY DEF TypeOK
<1>1. CASE MakeFolder(h)
  BY <1>0, <1>00, <1>1 DEF MakeFolder, workerVars, GoTo, GoesTo, Stops, Steps
<1>2. CASE InsertTenant(h)
  BY <1>0, <1>00, <1>2 DEF InsertTenant, workerVars, GoTo, GoesTo, Stops, Steps
<1>3. CASE CreateMainDatabase(h)
  BY <1>0, <1>00, <1>3 DEF CreateMainDatabase, CreateDatabase, workerVars, GoTo, GoesTo, Stops, Steps
<1>4. CASE CreateJobsDatabase(h)
  BY <1>0, <1>00, <1>4 DEF CreateJobsDatabase, CreateDatabase, workerVars, GoTo, GoesTo, Stops, Steps
<1>5. ASSUME NEW kind \in Parts, Migrate(h, kind)
      PROVE  /\ handling[h].pc # "idle"
             /\ Stops(h) \/ \E pc : GoesTo(h, pc)
             /\ failures' \in {failures, failures + 1} /\ failures' \in 0..MaxFailures
             /\ found' = found /\ running' = running
  <2>1. After(kind) \in Steps \ {"idle"} /\ kind # "idle"
    BY <1>5 DEF After, Steps, Parts
  <2> QED BY <1>0, <1>00, <1>5, <2>1 DEF Migrate, workerVars, GoTo, GoesTo, Stops, Steps
<1>6. CASE SeedUser(h)
  BY <1>0, <1>00, <1>6 DEF SeedUser, workerVars, GoTo, GoesTo, Stops, Steps
<1>7. CASE SeedSystem(h)
  BY <1>0, <1>00, <1>7 DEF SeedSystem, workerVars, GoTo, GoesTo, Stops, Steps
<1>8. CASE StartSync(h) \/ RollBack(h) \/ CrashApi(h)
  BY <1>0, <1>00, <1>8 DEF StartSync, RollBack, CrashApi, workerVars, GoTo, GoesTo, Stops, Steps
<1> QED BY <1>1, <1>2, <1>3, <1>4, <1>5, <1>6, <1>7, <1>8 DEF HandlerStep

\* A call that ends, or goes on with the row it has.
Continues(h) ==
    \/ handling'[h] = Idle
    \/ /\ handling'[h].tenant = handling[h].tenant
       /\ handling'[h].name = handling[h].name
       /\ handling'[h].brings = handling[h].brings
       /\ handling[h].pc # "idle"
       /\ handling'[h].pc # "idle"
       /\ (handling[h].pc \in {"folder", "insert"}) = (handling'[h].pc \in {"folder", "insert"})

LEMMA RowsKept ==
  ASSUME TypeOK, RowsInv, NEW h \in Handlers, UNCHANGED <<tenant, acked>>, Continues(h),
         \A k \in Handlers \ {h} : handling'[k] = handling[k]
  PROVE  RowsInv'
<1>1. ASSUME NEW k \in Handlers PROVE HandlerHasRow(k)'
  <2>1. HandlerHasRow(k)
    BY DEF RowsInv
  <2>2. CASE k # h
    BY <2>1, <2>2 DEF HandlerHasRow
  <2>3. CASE k = h
    BY <2>1, <2>3 DEF HandlerHasRow, Continues, Idle
  <2> QED BY <2>2, <2>3
<1>2. ASSUME NEW g \in Handlers, NEW k \in Handlers, g # k
      PROVE  handling'[g].tenant # handling'[k].tenant \/ handling'[g] = Idle
  <2>1. handling[g].tenant # handling[k].tenant \/ handling[g] = Idle
    BY <1>2 DEF RowsInv
  <2>2. handling[k].tenant # handling[g].tenant \/ handling[k] = Idle
    BY <1>2 DEF RowsInv
  <2>3. HandlerHasRow(g)' /\ HandlerHasRow(k)'
    BY <1>1
  <2>4. CASE g # h /\ k # h
    BY <2>1, <2>4
  <2>5. CASE handling'[h] = Idle
    BY <2>3, <2>4, <2>5, NullIsNone DEF HandlerHasRow, Idle
  <2>6. CASE handling'[h].tenant = handling[h].tenant /\ handling'[h].pc # "idle"
    <3>1. handling'[g].tenant = handling[g].tenant /\ handling'[k].tenant = handling[k].tenant
      BY <2>6
    <3>2. HandlerHasRow(g) /\ HandlerHasRow(k)
      BY DEF RowsInv
    <3>3. CASE handling[g].tenant # handling[k].tenant
      BY <3>1, <3>3
    <3>4. CASE handling[g] = Idle /\ handling[k] = Idle
      BY <1>2, <2>3, <2>6, <3>1, <3>4, NullIsNone DEF HandlerHasRow, Idle
    <3> QED BY <2>1, <2>2, <3>3, <3>4
  <2> QED BY <2>5, <2>6 DEF Continues
<1>3. ASSUME NEW t \in acked' PROVE Live(t)' /\ \A k \in Handlers : handling'[k].tenant # t
  <2>1. Live(t) /\ \A k \in Handlers : handling[k].tenant # t
    BY <1>3 DEF RowsInv
  <2>2. t # Null
    BY <1>3, NullIsNone DEF TypeOK
  <2> QED BY <2>1, <2>2 DEF Continues, Idle, Live
<1> QED BY <1>1, <1>2, <1>3 DEF RowsInv

LEMMA CallType ==
  ASSUME TypeOK, RowsInv, NEW h \in Handlers, HandlerStep(h) \/ CrashApi(h)
  PROVE  TypeOK' /\ exists \subseteq exists'
<1>0. /\ handling[h].pc # "idle" /\ handling' \in [Handlers -> Handling]
      /\ failures' \in 0..MaxFailures /\ found' = found /\ running' = running
  BY CallMoves, GoesToType, StopsType
<1>1. /\ handling[h].tenant \in Tenants /\ handling[h].name \in Names
      /\ handling[h].name \in Name /\ handling[h].brings \subseteq Parts
      /\ handling[h].name \in Databases /\ JobsName(handling[h].name) \in Databases
      /\ \A kind \in Parts : HandlerDatabase(h, kind) \in Databases
  <2>1. handling[h].tenant \in Tenants /\ handling[h].name \in Names
        /\ \A kind \in Parts : HandlerDatabase(h, kind) \in Databases
    BY <1>0, HandlerDatabaseType
  <2>2. handling[h].brings \subseteq Parts
    BY DEF TypeOK, Handling
  <2> QED BY <2>1, <2>2, TenantAssumptions DEF Assumptions, Databases
<1>2. /\ tenant \in [Tenants -> TenantRow] /\ exists \subseteq Databases
      /\ tables \in [Databases -> SUBSET Parts]
      /\ \A d \in Databases \ exists : tables[d] = {}
      /\ seeded \in [Databases -> SUBSET {"user", "system"}]
      /\ sync \subseteq Tenants /\ found \subseteq Tenants /\ running \subseteq exists
      /\ acked \subseteq Tenants
  BY DEF TypeOK
<1>3. CASE UNCHANGED <<exists, tables, seeded, sync, acked>> /\ tenant' \in [Tenants -> TenantRow]
  BY <1>0, <1>2, <1>3 DEF TypeOK
<1>4. CASE UNCHANGED <<tenant, tables, seeded, sync, acked>> /\ exists \subseteq exists'
           /\ exists' \subseteq Databases
  BY <1>0, <1>2, <1>4 DEF TypeOK
<1>5. ASSUME UNCHANGED <<tenant, exists, seeded, sync, acked>>, NEW d \in exists, NEW kind \in Parts,
             tables' = [tables EXCEPT ![d] = @ \cup {kind}]
      PROVE  TypeOK' /\ exists \subseteq exists'
  BY <1>0, <1>2, <1>5 DEF TypeOK
<1>6. ASSUME UNCHANGED <<tenant, exists, tables, sync, acked>>, NEW d \in Databases,
             NEW r \in {"user", "system"}, seeded' = [seeded EXCEPT ![d] = @ \cup {r}]
      PROVE  TypeOK' /\ exists \subseteq exists'
  BY <1>0, <1>2, <1>6 DEF TypeOK
<1>7. CASE UNCHANGED <<tenant, exists, tables, seeded>> /\ sync' \subseteq Tenants
           /\ acked' \subseteq Tenants
  BY <1>0, <1>2, <1>7 DEF TypeOK
<1>11. CASE MakeFolder(h) \/ CrashApi(h)
  BY <1>2, <1>3, <1>11 DEF MakeFolder, CrashApi
<1>12. CASE InsertTenant(h)
  <2>1. [row |-> "live", name |-> handling[h].name, brings |-> handling[h].brings] \in TenantRow
    BY <1>1 DEF TenantRow
  <2>2. tenant' \in [Tenants -> TenantRow]
    BY <1>1, <1>2, <1>12, <2>1 DEF InsertTenant
  <2> QED BY <1>3, <1>12, <2>2 DEF InsertTenant
<1>13. CASE CreateMainDatabase(h)
  BY <1>1, <1>2, <1>4, <1>13 DEF CreateMainDatabase, CreateDatabase
<1>14. CASE CreateJobsDatabase(h)
  BY <1>1, <1>2, <1>4, <1>14 DEF CreateJobsDatabase, CreateDatabase
<1>15. ASSUME NEW kind \in Parts, Migrate(h, kind) PROVE TypeOK' /\ exists \subseteq exists'
  BY <1>2, <1>3, <1>5, <1>15 DEF Migrate
<1>16. CASE SeedUser(h)
  <2>1. HandlerDatabase(h, "main") \in Databases
    BY <1>1 DEF Parts
  <2> QED BY <1>2, <1>3, <1>6, <1>16, <2>1 DEF SeedUser
<1>17. CASE SeedSystem(h)
  <2>1. HandlerDatabase(h, "main") \in Databases
    BY <1>1 DEF Parts
  <2> QED BY <1>2, <1>3, <1>6, <1>17, <2>1 DEF SeedSystem
<1>18. CASE StartSync(h)
  BY <1>1, <1>2, <1>7, <1>18 DEF StartSync
<1>19. CASE RollBack(h)
  <2>1. tenant' \in [Tenants -> TenantRow]
    BY <1>1, <1>2, <1>19 DEF RollBack, TenantRow
  <2> QED BY <1>3, <1>19, <2>1 DEF RollBack
<1> QED BY <1>11, <1>12, <1>13, <1>14, <1>15, <1>16, <1>17, <1>18, <1>19 DEF HandlerStep

LEMMA CallRows ==
  ASSUME TypeOK, RowsInv, NEW h \in Handlers, HandlerStep(h) \/ CrashApi(h)
  PROVE  RowsInv'
<1>a. handling[h].pc # "idle" /\ HandlerHasRow(h) /\ handling[h].tenant \in Tenants
  BY CallMoves DEF RowsInv, HandlerHasRow
<1> PICK t \in Tenants : t = handling[h].tenant
  BY <1>a
<1>b. \A k \in Handlers \ {h} : handling'[k] = handling[k]
  BY CallMoves, GoesToType, StopsType
<1>c. ASSUME NEW k \in Handlers \ {h} PROVE HandlerHasRow(k) /\ handling[k].tenant # t
  <2>1. HandlerHasRow(k) /\ (handling[k].tenant # t \/ handling[k] = Idle)
    BY DEF RowsInv
  <2>2. CASE handling[k] = Idle
    BY <2>1, <2>2, NullIsNone DEF Idle
  <2> QED BY <2>1, <2>2
<1>0. /\ handling[h].pc # "idle" /\ HandlerHasRow(h) /\ t # Null
      /\ \A k \in Handlers \ {h} : handling'[k] = handling[k]
      /\ \A k \in Handlers \ {h} : HandlerHasRow(k) /\ handling[k].tenant # t
  BY <1>a, <1>b, <1>c, NullIsNone
<1>1. CASE handling[h].pc # "insert" /\ ~StartSync(h) /\ ~RollBack(h)
  <2>1. UNCHANGED <<tenant, acked>>
    BY <1>1 DEF HandlerStep, CrashApi, MakeFolder, InsertTenant, CreateMainDatabase,
                CreateJobsDatabase, CreateDatabase, Migrate, SeedUser, SeedSystem
  <2>2. \/ Stops(h)
        \/ \E pc : /\ GoesTo(h, pc)
                   /\ \/ handling[h].pc = "folder" /\ pc = "insert"
                      \/ handling[h].pc \notin {"folder", "insert"} /\ pc \notin {"folder", "insert"}
    <3>1. CASE MakeFolder(h)
      BY <3>1 DEF MakeFolder, GoTo, GoesTo, Stops, Steps
    <3>7. CASE CrashApi(h)
      BY <3>7 DEF CrashApi, Stops
    <3>2. CASE CreateMainDatabase(h)
      BY <3>2 DEF CreateMainDatabase, CreateDatabase, GoTo, GoesTo, Steps
    <3>3. CASE CreateJobsDatabase(h)
      BY <3>3 DEF CreateJobsDatabase, CreateDatabase, GoTo, GoesTo, Steps
    <3>4. ASSUME NEW kind \in Parts, Migrate(h, kind)
          PROVE  \E pc : /\ GoesTo(h, pc) /\ handling[h].pc \notin {"folder", "insert"}
                         /\ pc \notin {"folder", "insert"}
      <4>1. After(kind) \in {"deploy", "account", "jobs", "seedUser"} /\ kind \notin {"folder", "insert"}
        BY <3>4 DEF After, Parts
      <4> QED BY <3>4, <4>1 DEF Migrate, GoTo, GoesTo, Steps
    <3>5. CASE SeedUser(h)
      BY <3>5 DEF SeedUser, GoTo, GoesTo, Steps
    <3>6. CASE SeedSystem(h)
      BY <3>6 DEF SeedSystem, GoTo, GoesTo, Steps
    <3> QED BY <1>1, <3>1, <3>2, <3>3, <3>4, <3>5, <3>6, <3>7 DEF HandlerStep, InsertTenant
  <2>3. ASSUME Stops(h) PROVE Continues(h)
    BY <2>3, StopsType DEF Continues, Stops
  <2>4. ASSUME NEW pc, GoesTo(h, pc),
               \/ handling[h].pc = "folder" /\ pc = "insert"
               \/ handling[h].pc \notin {"folder", "insert"} /\ pc \notin {"folder", "insert"}
        PROVE  Continues(h)
    <3>1. /\ pc # "idle" /\ handling'[h].pc = pc /\ handling'[h].tenant = handling[h].tenant
          /\ handling'[h].name = handling[h].name /\ handling'[h].brings = handling[h].brings
      BY <2>4, GoesToType DEF GoesTo
    <3>2. (handling[h].pc \in {"folder", "insert"}) = (pc \in {"folder", "insert"})
      BY <2>4
    <3> QED BY <1>0, <3>1, <3>2 DEF Continues
  <2>5. Continues(h)
    BY <2>2, <2>3, <2>4 DEF Continues
  <2> QED BY <1>0, <2>1, <2>5, RowsKept
<1>2. CASE Stops(h) /\ UNCHANGED <<tenant, acked>>
  <2>1. Continues(h)
    BY <1>2, StopsType DEF Continues, Stops
  <2> QED BY <1>0, <1>2, <2>1, RowsKept
<1>3. CASE InsertTenant(h) /\ ~(Stops(h) /\ UNCHANGED <<tenant, acked>>)
  <2>1. /\ handling[h].pc = "insert" /\ UNCHANGED acked
        /\ tenant' = [tenant EXCEPT ![t] =
              [row |-> "live", name |-> handling[h].name, brings |-> handling[h].brings]]
        /\ Stops(h) \/ GoesTo(h, "createMain")
    BY <1>3 DEF InsertTenant, Stops, GoTo, GoesTo, Steps
  <2>2. tenant'[t] = [row |-> "live", name |-> handling[h].name, brings |-> handling[h].brings]
        /\ \A u \in Tenants \ {t} : tenant'[u] = tenant[u]
    BY <1>0, <2>1 DEF TypeOK
  <2>3. t \notin acked /\ handling[h].name \in Names
    BY <1>0, <2>1 DEF RowsInv, HandlerHasRow
  <2>4. \/ handling'[h] = Idle
        \/ handling'[h].pc = "createMain" /\ handling'[h].tenant = t
           /\ handling'[h].name = handling[h].name /\ handling'[h].brings = handling[h].brings
    BY <2>1, GoesToType, StopsType
  <2>5. \A k \in Handlers : HandlerHasRow(k)'
    BY <1>0, <2>2, <2>3, <2>4 DEF HandlerHasRow, Idle
  <2>6. \A g, k \in Handlers : g # k => handling'[g].tenant # handling'[k].tenant \/ handling'[g] = Idle
    <3> SUFFICES ASSUME NEW g \in Handlers, NEW k \in Handlers, g # k, handling'[g] # Idle
                 PROVE  handling'[g].tenant # handling'[k].tenant
      OBVIOUS
    <3>1. handling'[g].tenant \in Tenants
      BY <2>5 DEF HandlerHasRow
    <3>2. CASE g # h /\ k # h
      BY <1>0, <3>2 DEF RowsInv
    <3>3. CASE handling'[k] = Idle
      BY <3>1, <3>3, NullIsNone DEF Idle
    <3> QED BY <1>0, <2>4, <3>2, <3>3
  <2>7. \A u \in Tenants : tenant'[u].row # "absent" => tenant'[u].name \in Names
    BY <2>2, <2>3 DEF RowsInv
  <2>8. \A u \in acked' : Live(u)' /\ \A k \in Handlers : handling'[k].tenant # u
    <3> SUFFICES ASSUME NEW u \in acked PROVE Live(u)' /\ \A k \in Handlers : handling'[k].tenant # u
      BY <2>1
    <3>1. u \in Tenants /\ u # t /\ u # Null /\ Live(u) /\ \A k \in Handlers : handling[k].tenant # u
      BY <2>3, NullIsNone DEF TypeOK, RowsInv
    <3> QED BY <1>0, <2>2, <2>4, <3>1 DEF Live, Idle
  <2> QED BY <2>5, <2>6, <2>7, <2>8 DEF RowsInv
<1>4. CASE StartSync(h) \/ RollBack(h)
  <2>1. /\ handling[h].pc \in {"sync", "rollback"} /\ Stops(h)
        /\ handling[h].pc = "sync" => UNCHANGED tenant /\ acked' = acked \cup {t}
        /\ handling[h].pc = "rollback" =>
              UNCHANGED acked /\ tenant' \in {tenant, [tenant EXCEPT ![t].row = "deleted"]}
    BY <1>4 DEF StartSync, RollBack, Stops
  <2>2. /\ tenant[t] = [row |-> "live", name |-> handling[h].name, brings |-> handling[h].brings]
        /\ handling[h].name \in Names
    BY <1>0, <2>1 DEF HandlerHasRow
  <2>3. /\ \A u \in Tenants \ {t} : tenant'[u] = tenant[u]
        /\ tenant'[t].name = tenant[t].name
        /\ handling[h].pc = "sync" => Live(t)'
    BY <1>0, <2>1, <2>2 DEF TypeOK, Live, TenantRow
  <2>4. handling'[h] = Idle
    BY <2>1, StopsType
  <2>5. ASSUME NEW k \in Handlers PROVE HandlerHasRow(k)'
    <3>1. CASE k = h
      BY <2>4, <3>1 DEF HandlerHasRow, Idle
    <3>2. CASE k # h
      BY <1>0, <2>3, <3>2 DEF HandlerHasRow
    <3> QED BY <3>1, <3>2
  <2>6. \A g, k \in Handlers : g # k => handling'[g].tenant # handling'[k].tenant \/ handling'[g] = Idle
    <3> SUFFICES ASSUME NEW g \in Handlers, NEW k \in Handlers, g # k, handling'[g] # Idle
                 PROVE  handling'[g].tenant # handling'[k].tenant
      OBVIOUS
    <3>1. handling'[g].tenant \in Tenants
      BY <2>5 DEF HandlerHasRow
    <3>2. CASE g # h /\ k # h
      BY <1>0, <3>2 DEF RowsInv
    <3>3. CASE handling'[k] = Idle
      BY <3>1, <3>3, NullIsNone DEF Idle
    <3> QED BY <1>0, <2>4, <3>2, <3>3
  <2>7. \A u \in Tenants : tenant'[u].row # "absent" => tenant'[u].name \in Names
    BY <2>2, <2>3 DEF RowsInv
  <2>8. \A u \in acked' : Live(u)' /\ \A k \in Handlers : handling'[k].tenant # u
    <3> SUFFICES ASSUME NEW u \in acked' PROVE Live(u)' /\ \A k \in Handlers : handling'[k].tenant # u
      OBVIOUS
    <3>1. CASE u = t
      <4>1. handling[h].pc = "sync"
        BY <1>0, <2>1, <3>1 DEF RowsInv
      <4> QED BY <1>0, <2>3, <2>4, <3>1, <4>1 DEF Idle
    <3>2. CASE u # t
      <4>1. u \in acked /\ u \in Tenants /\ u # Null /\ Live(u) /\ \A k \in Handlers : handling[k].tenant # u
        BY <2>1, <3>2, NullIsNone DEF TypeOK, RowsInv
      <4> QED BY <1>0, <2>3, <2>4, <3>2, <4>1 DEF Live, Idle
    <3> QED BY <3>1, <3>2
  <2> QED BY <2>5, <2>6, <2>7, <2>8 DEF RowsInv
<1>5. CASE CrashApi(h)
  BY <1>2, <1>5 DEF CrashApi, Stops
<1>6. CASE HandlerStep(h) /\ ~InsertTenant(h)
  <2>1. handling[h].pc # "insert"
    BY <1>6 DEF HandlerStep, MakeFolder, CreateMainDatabase, CreateJobsDatabase, CreateDatabase,
                Migrate, SeedUser, SeedSystem, StartSync, RollBack, Parts
  <2> QED BY <1>1, <1>4, <2>1
<1> QED BY <1>2, <1>3, <1>5, <1>6

LEMMA CheckNameKeeps ==
  ASSUME TypeOK, RowsInv, NEW h \in Handlers, NEW t \in Tenants, NEW name \in Names,
         NEW brings \in Brought, CheckName(h, t, name, brings)
  PROVE  /\ TypeOK' /\ RowsInv'
         /\ handling'[h] = [pc |-> "folder", tenant |-> t, name |-> name, brings |-> brings]
         /\ \A k \in Handlers \ {h} : handling'[k] = handling[k]
<1> DEFINE a == [pc |-> "folder", tenant |-> t, name |-> name, brings |-> brings]
<1>1. handling' = [handling EXCEPT ![h] = a]
  BY DEF CheckName
<1>2. a \in Handling
  BY TenantAssumptions DEF Handling, Steps, Assumptions
<1>3. /\ handling' \in [Handlers -> Handling] /\ handling'[h] = a
      /\ \A k \in Handlers \ {h} : handling'[k] = handling[k]
  BY <1>1, <1>2 DEF TypeOK
<1>4. TypeOK'
  BY <1>3 DEF CheckName, TypeOK, workerVars
<1>5. UNCHANGED <<tenant, acked>> /\ tenant[t].row = "absent" /\ \A k \in Handlers : handling[k].tenant # t
  BY DEF CheckName
<1>6. t # Null /\ t \notin acked
  BY <1>5, NullIsNone DEF RowsInv, Live
<1>7. \A k \in Handlers : HandlerHasRow(k)'
  BY <1>3, <1>5 DEF RowsInv, HandlerHasRow
<1>8. \A g, k \in Handlers : g # k => handling'[g].tenant # handling'[k].tenant \/ handling'[g] = Idle
  BY <1>3, <1>5 DEF RowsInv
<1>9. \A u \in acked' : Live(u)' /\ \A k \in Handlers : handling'[k].tenant # u
  BY <1>3, <1>5, <1>6 DEF RowsInv, Live
<1> QED BY <1>3, <1>4, <1>5, <1>7, <1>8, <1>9 DEF RowsInv

\* The worker only reads the tenants, and adds tables to a database that exists.
LEMMA WorkerKeeps ==
  ASSUME TypeOK, WorkerStep \/ CrashWorker
  PROVE  /\ TypeOK'
         /\ UNCHANGED <<tenant, exists, seeded, sync, handling, acked>>
         /\ \A d \in Databases : tables[d] \subseteq tables'[d]
         /\ failures' \in {failures, failures + 1}
<1>0. \A k : Fail(k) => failures' = failures + 1 /\ failures' \in 0..MaxFailures
  BY FailureType
<1>1. CASE Discover \/ CrashWorker
  BY <1>0, <1>1 DEF Discover, CrashWorker, TypeOK, apiVars
<1>2. ASSUME NEW t \in Tenants, StartWorker(t)
      PROVE  /\ TypeOK'
             /\ UNCHANGED <<tenant, exists, seeded, sync, handling, acked>>
             /\ \A d \in Databases : tables[d] \subseteq tables'[d]
             /\ failures' \in {failures, failures + 1}
  <2>0. UNCHANGED <<tenant, exists, seeded, sync, handling, acked>> /\ found' \subseteq Tenants
    BY <1>2 DEF StartWorker, TypeOK
  <2>1. CASE UNCHANGED <<running, tables>> /\ failures' \in {failures, failures + 1}
             /\ failures' \in 0..MaxFailures
    BY <2>0, <2>1 DEF TypeOK
  <2>2. ASSUME NEW d \in exists, running' = running \cup {d}, UNCHANGED failures,
               tables' = [tables EXCEPT ![d] = @ \cup {"jobs"}]
        PROVE  /\ TypeOK' /\ \A e \in Databases : tables[e] \subseteq tables'[e]
    BY <2>0, <2>2 DEF TypeOK, Parts
  <2> QED BY <1>0, <1>2, <2>0, <2>1, <2>2 DEF StartWorker, TypeOK
<1> QED BY <1>1, <1>2 DEF WorkerStep

LEMMA TypeStep == ASSUME TypeOK, RowsInv, [Next]_vars PROVE TypeOK' /\ RowsInv'
<1>1. CASE \E h \in Handlers : HandlerStep(h) \/ CrashApi(h)
  BY <1>1, CallType, CallRows
<1>2. CASE WorkerStep \/ CrashWorker
  <2>1. UNCHANGED <<tenant, handling, acked>>
    BY <1>2, WorkerKeeps
  <2>2. RowsInv'
    BY <2>1 DEF RowsInv, HandlerHasRow, Live
  <2> QED BY <1>2, <2>2, WorkerKeeps
<1>3. CASE UNCHANGED vars
  BY <1>3 DEF vars, apiVars, workerVars, TypeOK, RowsInv, HandlerHasRow, Live
<1> QED BY <1>1, <1>2, <1>3, CheckNameKeeps DEF Next

LEMMA InitType == Init => TypeOK /\ RowsInv
<1> SUFFICES ASSUME Init PROVE TypeOK /\ RowsInv
  OBVIOUS
<1>1. NoTenant \in TenantRow
  BY DEF NoTenant, TenantRow
<1>2. TypeOK
  BY <1>1, IdleType, TenantAssumptions DEF Init, TypeOK, Databases, Assumptions
<1>3. RowsInv
  BY DEF Init, RowsInv, HandlerHasRow, Idle, NoTenant
<1> QED BY <1>2, <1>3

\* The rows, the databases and what the calls know of them always have their
\* types, and only a database that exists has tables, whatever fails.
THEOREM TypeCorrect == Spec => []TypeOK
BY InitType, TypeStep, PTL DEF Spec

-----------------------------------------------------------------------------
(* An acknowledged tenant is provisioned *)

\* What a handler at a step has already put into the databases of its tenant.
Migrated(pc) == CASE pc = "deploy"  -> {"main"}
                  [] pc = "account" -> {"main", "deploy"}
                  [] pc = "jobs"    -> {"main", "deploy", "account"}
                  [] pc \in {"seedUser", "seedSystem", "sync"} -> Parts
                  [] OTHER -> {}

Seeds(pc) == CASE pc = "seedSystem" -> {"user"}
               [] pc = "sync"       -> {"user", "system"}
               [] OTHER -> {}

ProgressInv ==
    /\ \A h \in Handlers :
          /\ \A kind \in Migrated(handling[h].pc) : kind \in tables[HandlerDatabase(h, kind)]
          /\ \A r \in Seeds(handling[h].pc) : r \in seeded[HandlerDatabase(h, "main")]
    /\ AcknowledgedIsProvisioned

\* Rows that are there keep their name and their connections, and tables and seeds
\* that are there stay.
LEMMA NothingIsUndone ==
  ASSUME TypeOK, RowsInv, [Next]_vars
  PROVE  /\ \A d \in Databases : tables[d] \subseteq tables'[d] /\ seeded[d] \subseteq seeded'[d]
         /\ \A t \in Tenants : tenant[t].row # "absent" =>
               tenant'[t].name = tenant[t].name /\ tenant'[t].brings = tenant[t].brings
         /\ exists \subseteq exists'
<1>1. ASSUME NEW h \in Handlers, HandlerStep(h) \/ CrashApi(h)
      PROVE  /\ \A d \in Databases : tables[d] \subseteq tables'[d] /\ seeded[d] \subseteq seeded'[d]
             /\ \A t \in Tenants : tenant[t].row # "absent" =>
                   tenant'[t].name = tenant[t].name /\ tenant'[t].brings = tenant[t].brings
             /\ exists \subseteq exists'
  <2>1. exists \subseteq exists'
    BY <1>1, CallType
  <2>2. ASSUME NEW d \in Databases PROVE tables[d] \subseteq tables'[d] /\ seeded[d] \subseteq seeded'[d]
    BY <1>1 DEF TypeOK, HandlerStep, CrashApi, MakeFolder, InsertTenant, CreateMainDatabase,
                CreateJobsDatabase, CreateDatabase, Migrate, SeedUser, SeedSystem, StartSync, RollBack
  <2>3. ASSUME NEW t \in Tenants, tenant[t].row # "absent"
        PROVE  tenant'[t].name = tenant[t].name /\ tenant'[t].brings = tenant[t].brings
    <3>1. CASE UNCHANGED tenant
      BY <3>1
    <3>2. CASE InsertTenant(h)
      <4>1. tenant[handling[h].tenant].row = "absent"
        BY <3>2 DEF InsertTenant, RowsInv, HandlerHasRow
      <4> QED BY <2>3, <3>2, <4>1 DEF InsertTenant, TypeOK
    <3>3. CASE RollBack(h)
      BY <3>3 DEF RollBack, TypeOK, TenantRow
    <3> QED BY <1>1, <3>1, <3>2, <3>3 DEF HandlerStep, CrashApi, MakeFolder, CreateMainDatabase,
                CreateJobsDatabase, CreateDatabase, Migrate, SeedUser, SeedSystem, StartSync
  <2> QED BY <2>1, <2>2, <2>3
<1>2. CASE WorkerStep \/ CrashWorker
  BY <1>2, WorkerKeeps
<1>3. ASSUME NEW h \in Handlers, NEW t \in Tenants, NEW name \in Names, NEW brings \in Brought,
             CheckName(h, t, name, brings)
      PROVE  UNCHANGED <<tenant, exists, tables, seeded>>
  BY <1>3 DEF CheckName
<1>4. CASE UNCHANGED vars
  BY <1>4 DEF vars, apiVars
<1> QED BY <1>1, <1>2, <1>3, <1>4 DEF Next

\* A call at the step pc has put in its databases what the steps before are for.
HasDone(h) ==
    /\ \A kind \in Migrated(handling[h].pc) : kind \in tables[HandlerDatabase(h, kind)]
    /\ \A r \in Seeds(handling[h].pc) : r \in seeded[HandlerDatabase(h, "main")]

LEMMA AcknowledgedStays ==
  ASSUME TypeOK, RowsInv, ProgressInv, [Next]_vars, NEW t \in acked
  PROVE  /\ \A kind \in Parts : kind \in tables'[DatabaseOf(t, kind)']
         /\ seeded'[DatabaseOf(t, "main")'] = {"user", "system"}
<1>1. t \in Tenants /\ Live(t) /\ tenant[t].name \in Names
  BY DEF TypeOK, RowsInv, Live
<1>2. \A kind \in Parts : DatabaseOf(t, kind)' = DatabaseOf(t, kind) /\ DatabaseOf(t, kind) \in Databases
  BY <1>1, NothingIsUndone, DatabaseType DEF DatabaseOf, Where, Live
<1>3. \A kind \in Parts : kind \in tables'[DatabaseOf(t, kind)']
  BY <1>2, NothingIsUndone DEF ProgressInv, AcknowledgedIsProvisioned
<1>4. seeded[DatabaseOf(t, "main")] = {"user", "system"}
  BY DEF ProgressInv, AcknowledgedIsProvisioned
<1>5. DatabaseOf(t, "main")' = DatabaseOf(t, "main") /\ DatabaseOf(t, "main") \in Databases
  BY <1>2 DEF Parts
<1>6. seeded'[DatabaseOf(t, "main")] \subseteq {"user", "system"}
  BY <1>5, TypeStep DEF TypeOK
<1>7. seeded'[DatabaseOf(t, "main")'] = {"user", "system"}
  BY <1>4, <1>5, <1>6, NothingIsUndone
<1> QED BY <1>3, <1>7

\* Whoever stays out of a step has done what it had done.
LEMMA OthersHaveDone ==
  ASSUME TypeOK, RowsInv, ProgressInv, [Next]_vars, NEW k \in Handlers, handling'[k] = handling[k]
  PROVE  HasDone(k)'
<1>0. HasDone(k)
  BY DEF ProgressInv, HasDone
<1>1. CASE handling[k].pc = "idle"
  BY <1>1 DEF HasDone, Migrated, Seeds
<1>2. CASE handling[k].pc # "idle"
  <2>1. \A kind \in Parts : HandlerDatabase(k, kind)' = HandlerDatabase(k, kind)
                            /\ HandlerDatabase(k, kind) \in Databases
    BY <1>2, HandlerDatabaseType DEF HandlerDatabase
  <2>2. Migrated(handling[k].pc) \subseteq Parts /\ "main" \in Parts
    BY DEF Migrated, Parts
  <2> QED BY <1>0, <2>1, <2>2, NothingIsUndone DEF HasDone
<1> QED BY <1>1, <1>2

LEMMA CallHasDone ==
  ASSUME TypeOK, RowsInv, ProgressInv, NEW h \in Handlers, HandlerStep(h) \/ CrashApi(h)
  PROVE  HasDone(h)'
<1>a. [Next]_vars
  BY DEF Next
<1>0. HasDone(h) /\ handling[h].pc # "idle"
  BY CallMoves DEF ProgressInv, HasDone
<1>1. \A kind \in Parts : HandlerDatabase(h, kind) \in Databases
  BY <1>0, HandlerDatabaseType
<1>2. CASE handling'[h].pc \notin {"deploy", "account", "jobs", "seedUser", "seedSystem", "sync"}
  BY <1>2 DEF HasDone, Migrated, Seeds
<1>3. ASSUME NEW pc, GoesTo(h, pc), pc \in {"deploy", "account", "jobs", "seedUser", "seedSystem", "sync"}
      PROVE  HasDone(h)'
  <2>1. /\ handling'[h].pc = pc
        /\ \A kind \in Parts : HandlerDatabase(h, kind)' = HandlerDatabase(h, kind)
    BY <1>3, GoesToType DEF HandlerDatabase
  <2>2. \/ \E kind \in Parts : Migrate(h, kind) /\ pc = After(kind)
        \/ SeedUser(h) /\ pc = "seedSystem"
        \/ SeedSystem(h) /\ pc = "sync"
    <3>1. CASE MakeFolder(h) \/ CrashApi(h) \/ InsertTenant(h) \/ StartSync(h) \/ RollBack(h)
      <4>1. handling'[h].pc \in {"idle", "insert", "createMain"}
        BY <3>1 DEF MakeFolder, CrashApi, InsertTenant, StartSync, RollBack, GoTo, Idle, TypeOK, Handling
      <4> QED BY <1>3, <2>1, <4>1
    <3>2. CASE CreateMainDatabase(h) \/ CreateJobsDatabase(h)
      <4>1. handling'[h].pc \in {"createJobs", "main", "rollback"}
        BY <3>2 DEF CreateMainDatabase, CreateJobsDatabase, CreateDatabase, GoTo, TypeOK, Handling
      <4> QED BY <1>3, <2>1, <4>1
    <3>3. ASSUME NEW kind \in Parts, Migrate(h, kind) PROVE pc = After(kind)
      <4>1. handling'[h].pc \in {After(kind), "rollback"}
        BY <3>3 DEF Migrate, GoTo, TypeOK, Handling
      <4> QED BY <1>3, <2>1, <4>1
    <3>4. ASSUME SeedUser(h) PROVE pc = "seedSystem"
      <4>1. handling'[h].pc \in {"seedSystem", "rollback"}
        BY <3>4 DEF SeedUser, GoTo, TypeOK, Handling
      <4> QED BY <1>3, <2>1, <4>1
    <3>5. ASSUME SeedSystem(h) PROVE pc = "sync"
      <4>1. handling'[h].pc \in {"sync", "rollback"}
        BY <3>5 DEF SeedSystem, GoTo, TypeOK, Handling
      <4> QED BY <1>3, <2>1, <4>1
    <3> QED BY <3>1, <3>2, <3>3, <3>4, <3>5 DEF HandlerStep
  <2>3. ASSUME NEW kind \in Parts, Migrate(h, kind), pc = After(kind) PROVE HasDone(h)'
    <3>1. pc # "rollback" /\ handling[h].pc = kind
      BY <2>3 DEF After, Parts, Migrate
    <3>2. tables' = [tables EXCEPT ![HandlerDatabase(h, kind)] = @ \cup {kind}]
      <4>1. handling' # [handling EXCEPT ![h].pc = "rollback"]
        BY <2>1, <3>1 DEF TypeOK, Handling
      <4> QED BY <2>3, <4>1 DEF Migrate, GoTo
    <3>3. kind \in tables'[HandlerDatabase(h, kind)]
      BY <1>1, <3>2 DEF TypeOK
    <3>4. Migrated(pc) = Migrated(handling[h].pc) \cup {kind} /\ Seeds(pc) = {}
      BY <2>3, <3>1 DEF After, Parts, Migrated, Seeds
    <3>5. ASSUME NEW p \in Migrated(pc) PROVE p \in tables'[HandlerDatabase(h, p)]
      <4>1. Migrated(pc) \subseteq Parts
        BY DEF Migrated, Parts
      <4> QED BY <1>a, <1>0, <1>1, <3>3, <3>4, <3>5, <4>1, NothingIsUndone DEF HasDone
    <3>6. Migrated(pc) \subseteq Parts
      BY DEF Migrated, Parts
    <3> QED BY <2>1, <3>4, <3>5, <3>6 DEF HasDone
  <2>4. CASE (SeedUser(h) /\ pc = "seedSystem") \/ (SeedSystem(h) /\ pc = "sync")
    <3>0. "main" \in Parts
      BY DEF Parts
    <3>1. handling' # [handling EXCEPT ![h].pc = "rollback"]
      BY <1>3, <2>1 DEF TypeOK, Handling
    <3>2. Migrated(pc) = Parts /\ Migrated(handling[h].pc) = Parts
      BY <2>4 DEF Migrated, SeedUser, SeedSystem
    <3>3. \A p \in Parts : p \in tables'[HandlerDatabase(h, p)]
      BY <1>a, <1>0, <1>1, <3>2, NothingIsUndone DEF HasDone
    <3>4. CASE SeedUser(h) /\ pc = "seedSystem"
      <4>1. "user" \in seeded'[HandlerDatabase(h, "main")] /\ Seeds(pc) = {"user"}
        BY <1>1, <3>0, <3>1, <3>4 DEF SeedUser, GoTo, TypeOK, Seeds
      <4> QED BY <2>1, <3>0, <3>2, <3>3, <4>1 DEF HasDone
    <3>5. CASE SeedSystem(h) /\ pc = "sync"
      <4>1. "user" \in seeded[HandlerDatabase(h, "main")]
        BY <1>0, <3>5 DEF HasDone, Seeds, SeedSystem
      <4>2. {"user", "system"} \subseteq seeded'[HandlerDatabase(h, "main")]
        BY <1>1, <3>0, <3>1, <3>5, <4>1 DEF SeedSystem, GoTo, TypeOK
      <4>3. Seeds(pc) = {"user", "system"}
        BY <3>5 DEF Seeds
      <4> QED BY <2>1, <3>0, <3>2, <3>3, <4>2, <4>3 DEF HasDone
    <3> QED BY <2>4, <3>4, <3>5
  <2>5. CASE ~((SeedUser(h) /\ pc = "seedSystem") \/ (SeedSystem(h) /\ pc = "sync"))
    <3>1. PICK kind \in Parts : Migrate(h, kind) /\ pc = After(kind)
      BY <2>2, <2>5
    <3> QED BY <2>3, <3>1
  <2> QED BY <2>4, <2>5
<1>4. ASSUME Stops(h) PROVE handling'[h].pc = "idle"
  <2>1. handling'[h] = Idle
    BY <1>4, StopsType
  <2> QED BY <2>1 DEF Idle
<1>5. ASSUME NEW pc, GoesTo(h, pc) PROVE handling'[h].pc = pc
  BY <1>5, GoesToType
<1> QED BY <1>2, <1>3, <1>4, <1>5, CallMoves

LEMMA ProgressStep == ASSUME TypeOK, RowsInv, ProgressInv, [Next]_vars PROVE ProgressInv'
<1>1. ASSUME NEW k \in Handlers PROVE HasDone(k)'
  <2>1. CASE handling'[k] = handling[k]
    BY <2>1, OthersHaveDone
  <2>2. ASSUME NEW h \in Handlers, HandlerStep(h) \/ CrashApi(h) PROVE HasDone(k)'
    <3>1. k # h => handling'[k] = handling[k]
      BY <2>2, CallMoves, GoesToType, StopsType
    <3> QED BY <2>1, <2>2, <3>1, CallHasDone
  <2>3. ASSUME NEW h \in Handlers, NEW t \in Tenants, NEW name \in Names, NEW brings \in Brought,
               CheckName(h, t, name, brings)
        PROVE  HasDone(k)'
    <3>1. CASE k = h
      <4>0. handling'[h] = [pc |-> "folder", tenant |-> t, name |-> name, brings |-> brings]
        BY <2>3, CheckNameKeeps
      <4>1. handling'[k].pc = "folder"
        BY <3>1, <4>0
      <4> QED BY <4>1 DEF HasDone, Migrated, Seeds
    <3> QED BY <2>1, <2>3, <3>1, CheckNameKeeps
  <2>4. CASE WorkerStep \/ CrashWorker \/ UNCHANGED vars
    BY <2>1, <2>4, WorkerKeeps DEF vars, apiVars
  <2> QED BY <2>2, <2>3, <2>4 DEF Next
<1>2. AcknowledgedIsProvisioned'
  <2> SUFFICES ASSUME NEW t \in acked'
               PROVE  /\ Live(t)'
                      /\ \A kind \in Parts : kind \in tables'[DatabaseOf(t, kind)']
                      /\ seeded'[DatabaseOf(t, "main")'] = {"user", "system"}
    BY DEF AcknowledgedIsProvisioned
  <2>1. Live(t)' /\ t \in Tenants
    BY TypeStep DEF RowsInv, TypeOK
  <2>2. CASE t \in acked
    BY <2>1, <2>2, AcknowledgedStays
  <2>3. CASE t \notin acked
    <3>1. PICK h \in Handlers : StartSync(h) /\ t = handling[h].tenant
      <4>1. ~UNCHANGED acked
        BY <2>3
      <4>2. PICK h \in Handlers : HandlerStep(h) \/ CrashApi(h)
        BY <4>1, WorkerKeeps DEF Next, vars, apiVars, CheckName
      <4>3. StartSync(h)
        BY <4>1, <4>2 DEF HandlerStep, CrashApi, MakeFolder, InsertTenant, CreateMainDatabase,
              CreateJobsDatabase, CreateDatabase, Migrate, SeedUser, SeedSystem, RollBack
      <4>4. t = handling[h].tenant
        BY <2>3, <4>3 DEF StartSync
      <4> QED BY <4>3, <4>4
    <3>2. handling[h].pc = "sync" /\ UNCHANGED <<tenant, tables, seeded>>
      BY <3>1 DEF StartSync
    <3>3. tenant[t].name = handling[h].name /\ tenant[t].brings = handling[h].brings
      <4>1. HandlerHasRow(h)
        BY DEF RowsInv
      <4> QED BY <3>1, <3>2, <4>1 DEF HandlerHasRow
    <3>4. \A kind \in Parts : DatabaseOf(t, kind)' = HandlerDatabase(h, kind)
      BY <3>2, <3>3 DEF DatabaseOf, HandlerDatabase
    <3>5. /\ \A kind \in Parts : kind \in tables[HandlerDatabase(h, kind)]
          /\ {"user", "system"} \subseteq seeded[HandlerDatabase(h, "main")]
      BY <3>2 DEF ProgressInv, Migrated, Seeds
    <3>6. "main" \in Parts /\ handling[h].pc # "idle"
      BY <3>2 DEF Parts
    <3>7. HandlerDatabase(h, "main") \in Databases
      BY <3>6, HandlerDatabaseType
    <3>8. seeded[HandlerDatabase(h, "main")] = {"user", "system"}
      BY <3>5, <3>7 DEF TypeOK
    <3> QED BY <2>1, <3>2, <3>4, <3>5, <3>6, <3>8
  <2> QED BY <2>2, <2>3
<1> QED BY <1>1, <1>2 DEF ProgressInv, HasDone

LEMMA ProgressInit == Init => ProgressInv
BY DEF Init, ProgressInv, AcknowledgedIsProvisioned, Idle, Migrated, Seeds

\* A tenant whose Create was answered with success has its row and, in every
\* database the row names, the tables and the rows the services expect, whatever
\* other calls and the worker do meanwhile and whatever fails
\* (service/tenant.go:109-164).
THEOREM AcknowledgedAreProvisioned == Spec => []AcknowledgedIsProvisioned
<1>1. ProgressInv => AcknowledgedIsProvisioned
  BY DEF ProgressInv
<1> QED BY <1>1, InitType, TypeStep, ProgressInit, ProgressStep, PTL DEF Spec

-----------------------------------------------------------------------------
(* Databases are not shared *)

\* The databases that CREATE DATABASE made for the tenant, as far as it got.
MadeMain(pc) == pc \notin {"idle", "folder", "insert", "createMain", "rollback"}
MadeJobs(pc) == MadeMain(pc) /\ pc # "createJobs"

Made(name, brings, main, jobs) ==
    {d \in Databases : \/ main /\ "main" \notin brings /\ d = name
                       \/ jobs /\ "jobs" \notin brings /\ d = JobsName(name)}

\* The databases made for t by a call that goes on or succeeded.
Claimed(t) ==
    {d \in Databases :
       \/ t \in acked /\ d \in Made(tenant[t].name, tenant[t].brings, TRUE, TRUE)
       \/ \E h \in Handlers :
             /\ handling[h].tenant = t
             /\ d \in Made(handling[h].name, handling[h].brings,
                           MadeMain(handling[h].pc), MadeJobs(handling[h].pc))}

\* A database is made once, so at most one call claims it, for one purpose.
ClaimInv ==
    /\ \A t \in Tenants : Claimed(t) \subseteq exists
    /\ \A t, u \in Tenants : t # u => Claimed(t) \cap Claimed(u) = {}
    /\ \A t \in acked : tenant[t].brings = {} => tenant[t].name # JobsName(tenant[t].name)
    /\ \A h \in Handlers : MadeJobs(handling[h].pc) /\ handling[h].brings = {} =>
                              handling[h].name # JobsName(handling[h].name)

MadeOf(h) == Made(handling[h].name, handling[h].brings, MadeMain(handling[h].pc), MadeJobs(handling[h].pc))

KeptOf(t) == Made(tenant[t].name, tenant[t].brings, TRUE, TRUE)

\* A claim is kept, or lost, or is on a database that did not exist.
LEMMA ClaimsAreKept ==
  ASSUME TypeOK, ClaimInv, exists \subseteq exists', NEW t \in Tenants,
         \A u \in Tenants : Claimed(u)' \subseteq Claimed(u) \cup (IF u = t THEN exists' \ exists ELSE {})
  PROVE  /\ \A u \in Tenants : Claimed(u)' \subseteq exists'
         /\ \A u, v \in Tenants : u # v => Claimed(u)' \cap Claimed(v)' = {}
<1>1. ASSUME NEW u \in Tenants PROVE Claimed(u) \subseteq exists
  BY DEF ClaimInv
<1>2. ASSUME NEW u \in Tenants PROVE Claimed(u)' \subseteq exists'
  BY <1>1
<1>3. ASSUME NEW u \in Tenants, NEW v \in Tenants, u # v PROVE Claimed(u)' \cap Claimed(v)' = {}
  <2>1. Claimed(u) \cap Claimed(v) = {}
    BY <1>3 DEF ClaimInv
  <2> QED BY <1>1, <1>3, <2>1
<1> QED BY <1>2, <1>3

\* A step of a call claims the database it makes.
LEMMA CallClaims ==
  ASSUME TypeOK, RowsInv, ClaimInv, NEW h \in Handlers, HandlerStep(h) \/ CrashApi(h)
  PROVE  ClaimInv'
<1>0. /\ handling[h].pc # "idle" /\ HandlerHasRow(h) /\ handling[h].tenant \in Tenants
      /\ handling[h].name \in Names
  BY CallMoves DEF RowsInv, HandlerHasRow
<1> PICK t \in Tenants : t = handling[h].tenant
  BY <1>0
<1>1. \A k \in Handlers \ {h} : handling'[k] = handling[k]
  BY CallMoves, GoesToType, StopsType
<1>2. \/ handling'[h] = Idle
      \/ /\ handling'[h].tenant = t /\ handling'[h].name = handling[h].name
         /\ handling'[h].brings = handling[h].brings /\ handling'[h].pc # "idle"
  <2>1. ASSUME Stops(h) PROVE handling'[h] = Idle
    BY <2>1, StopsType
  <2>2. ASSUME NEW pc, GoesTo(h, pc)
        PROVE  /\ handling'[h].tenant = t /\ handling'[h].name = handling[h].name
               /\ handling'[h].brings = handling[h].brings /\ handling'[h].pc # "idle"
    <3>1. pc # "idle"
      BY <2>2 DEF GoesTo
    <3> QED BY <2>2, <3>1, GoesToType
  <2> QED BY <2>1, <2>2, CallMoves
<1>3. /\ exists \subseteq exists'
      /\ \A u \in Tenants : tenant[u].row # "absent" =>
            tenant'[u].name = tenant[u].name /\ tenant'[u].brings = tenant[u].brings
  BY NothingIsUndone DEF Next
\* What the call itself has made.
<1>4. /\ handling'[h] # Idle => MadeOf(h)' \subseteq MadeOf(h) \cup (exists' \ exists)
      /\ handling'[h] # Idle /\ MadeJobs(handling'[h].pc) =>
            \/ MadeJobs(handling[h].pc)
            \/ "jobs" \in handling[h].brings
            \/ JobsName(handling[h].name) \notin exists /\ MadeMain(handling[h].pc)
  <2>1. CASE handling'[h] = Idle
    BY <2>1
  <2>2. CASE handling'[h].pc # "idle" /\ MadeMain(handling[h].pc) = MadeMain(handling'[h].pc)
             /\ MadeJobs(handling[h].pc) = MadeJobs(handling'[h].pc)
    <3>1. handling'[h] # Idle => MadeOf(h)' \subseteq MadeOf(h)
      BY <1>2, <2>2 DEF MadeOf, Made
    <3> QED BY <2>2, <3>1
  <2>3. CASE handling'[h].pc = "rollback"
    <3>1. MadeOf(h)' = {}
      BY <2>3 DEF MadeOf, Made, MadeMain, MadeJobs
    <3> QED BY <2>3, <3>1 DEF MadeMain, MadeJobs
  <2>4. CASE InsertTenant(h)
    <3>1. handling'[h] = Idle \/ handling'[h].pc = "createMain"
      BY <2>4 DEF InsertTenant, GoTo, TypeOK, Handling
    <3>2. CASE handling'[h].pc = "createMain"
      <4>1. MadeOf(h)' = {}
        BY <3>2 DEF MadeOf, Made, MadeMain, MadeJobs
      <4> QED BY <3>2, <4>1 DEF MadeMain, MadeJobs
    <3> QED BY <2>1, <3>1, <3>2
  <2>5. CASE CreateMainDatabase(h) /\ handling'[h].pc # "rollback"
    <3>1. handling[h].pc = "createMain" /\ handling'[h].pc = "createJobs"
      BY <2>5 DEF CreateMainDatabase, CreateDatabase, GoTo, TypeOK, Handling
    <3>2. \/ "main" \in handling[h].brings
          \/ handling[h].name \notin exists /\ handling[h].name \in exists'
      BY <2>5, <3>1 DEF CreateMainDatabase, CreateDatabase, GoTo, TypeOK, Handling
    <3>3. ~MadeJobs(handling'[h].pc)
      BY <3>1 DEF MadeJobs
    <3>4. handling'[h].name = handling[h].name /\ handling'[h].brings = handling[h].brings
      BY <1>2, <3>1 DEF Idle
    <3>5. MadeOf(h)' \subseteq {handling[h].name} /\ ("main" \in handling[h].brings => MadeOf(h)' = {})
      BY <3>3, <3>4 DEF MadeOf, Made
    <3> QED BY <3>2, <3>3, <3>5
  <2>6. CASE CreateJobsDatabase(h) /\ handling'[h].pc # "rollback"
    <3>1. handling[h].pc = "createJobs" /\ handling'[h].pc = "main"
      BY <2>6 DEF CreateJobsDatabase, CreateDatabase, GoTo, TypeOK, Handling
    <3>2. \/ "jobs" \in handling[h].brings
          \/ JobsName(handling[h].name) \notin exists /\ JobsName(handling[h].name) \in exists'
      BY <2>6, <3>1 DEF CreateJobsDatabase, CreateDatabase, GoTo, TypeOK, Handling
    <3>3. MadeMain(handling[h].pc)
      BY <3>1 DEF MadeMain
    <3>4. handling'[h].name = handling[h].name /\ handling'[h].brings = handling[h].brings
      BY <1>2, <3>1 DEF Idle
    <3>5. /\ MadeOf(h)' \subseteq MadeOf(h) \cup {JobsName(handling[h].name)}
          /\ "jobs" \in handling[h].brings => MadeOf(h)' \subseteq MadeOf(h)
      BY <3>3, <3>4 DEF MadeOf, Made
    <3> QED BY <3>2, <3>3, <3>5
  <2>7. CASE MakeFolder(h) \/ CrashApi(h) \/ StartSync(h) \/ RollBack(h)
    <3>1. handling'[h] = Idle \/ (handling[h].pc = "folder" /\ handling'[h].pc = "insert")
      BY <2>7 DEF MakeFolder, CrashApi, StartSync, RollBack, GoTo, TypeOK, Handling
    <3> QED BY <2>1, <2>2, <3>1 DEF MadeMain, MadeJobs
  <2>8. ASSUME NEW kind \in Parts, Migrate(h, kind), handling'[h].pc # "rollback"
        PROVE  /\ handling'[h].pc # "idle" /\ MadeMain(handling[h].pc) = MadeMain(handling'[h].pc)
               /\ MadeJobs(handling[h].pc) = MadeJobs(handling'[h].pc)
    <3>1. handling[h].pc = kind /\ handling'[h].pc = After(kind)
      BY <2>8 DEF Migrate, GoTo, TypeOK, Handling
    <3>2. /\ kind \in {"main", "deploy", "account", "jobs"}
          /\ After(kind) \in {"deploy", "account", "jobs", "seedUser"}
      BY DEF After, Parts
    <3> QED BY <3>1, <3>2 DEF MadeMain, MadeJobs
  <2>9. ASSUME SeedUser(h) \/ SeedSystem(h), handling'[h].pc # "rollback"
        PROVE  /\ handling'[h].pc # "idle" /\ MadeMain(handling[h].pc) = MadeMain(handling'[h].pc)
               /\ MadeJobs(handling[h].pc) = MadeJobs(handling'[h].pc)
    <3>1. /\ handling[h].pc \in {"seedUser", "seedSystem"}
          /\ handling'[h].pc \in {"seedSystem", "sync"}
      BY <2>9 DEF SeedUser, SeedSystem, GoTo, TypeOK, Handling
    <3> QED BY <3>1 DEF MadeMain, MadeJobs
  <2> QED BY <2>2, <2>3, <2>4, <2>5, <2>6, <2>7, <2>8, <2>9 DEF HandlerStep
\* Who is acknowledged in this step has made what the call has made.
<1>5. ASSUME NEW u \in acked', u \notin acked
      PROVE  u = t /\ KeptOf(u)' = MadeOf(h) /\ MadeJobs(handling[h].pc)
             /\ tenant'[u].name = handling[h].name /\ tenant'[u].brings = handling[h].brings
  <2>1. StartSync(h)
    BY <1>5 DEF HandlerStep, CrashApi, MakeFolder, InsertTenant, CreateMainDatabase,
              CreateJobsDatabase, CreateDatabase, Migrate, SeedUser, SeedSystem, RollBack
  <2>2. u = t /\ UNCHANGED tenant /\ handling[h].pc = "sync"
    BY <1>5, <2>1 DEF StartSync
  <2>3. tenant[t].name = handling[h].name /\ tenant[t].brings = handling[h].brings
    BY <1>0, <2>2 DEF HandlerHasRow
  <2>4. MadeMain(handling[h].pc) /\ MadeJobs(handling[h].pc)
    BY <2>2 DEF MadeMain, MadeJobs
  <2>5. KeptOf(u)' = MadeOf(h)
    BY <2>2, <2>3, <2>4 DEF KeptOf, MadeOf, Made
  <2> QED BY <2>2, <2>3, <2>4, <2>5
<1>6. ASSUME NEW u \in acked
      PROVE  u \in Tenants /\ KeptOf(u)' = KeptOf(u)
             /\ tenant'[u].name = tenant[u].name /\ tenant'[u].brings = tenant[u].brings
  <2>1. u \in Tenants /\ tenant[u].row # "absent"
    BY DEF TypeOK, RowsInv, Live
  <2> QED BY <1>3, <2>1 DEF KeptOf, Made
<1>7. ASSUME NEW u \in Tenants
      PROVE  Claimed(u)' \subseteq Claimed(u) \cup (IF u = t THEN exists' \ exists ELSE {})
  <2> SUFFICES ASSUME NEW d \in Claimed(u)' PROVE d \in Claimed(u) \cup (IF u = t THEN exists' \ exists ELSE {})
    OBVIOUS
  <2>0. d \in Databases
    BY DEF Claimed
  <2>1. CASE u \in acked' /\ d \in KeptOf(u)'
    <3>1. CASE u \in acked
      BY <1>6, <2>0, <2>1, <3>1 DEF Claimed, KeptOf
    <3>2. CASE u \notin acked
      <4>1. handling[h].tenant = u /\ d \in MadeOf(h)
        BY <1>5, <2>1, <3>2
      <4> QED BY <2>0, <4>1 DEF Claimed, MadeOf
    <3> QED BY <3>1, <3>2
  <2>2. ASSUME NEW k \in Handlers, handling'[k].tenant = u, d \in MadeOf(k)'
        PROVE  d \in Claimed(u) \cup (IF u = t THEN exists' \ exists ELSE {})
    <3>1. CASE k # h
      <4>1. handling[k].tenant = u /\ d \in MadeOf(k)
        BY <1>1, <2>2, <3>1 DEF MadeOf, Made
      <4> QED BY <2>0, <4>1 DEF Claimed, MadeOf
    <3>2. CASE k = h
      <4>1. handling'[h] # Idle /\ u = t
        BY <1>2, <2>2, <3>2, NullIsNone DEF Idle
      <4>2. d \in MadeOf(h) \cup (exists' \ exists)
        BY <1>4, <2>2, <3>2, <4>1
      <4>3. CASE d \in MadeOf(h)
        BY <2>0, <4>1, <4>3 DEF Claimed, MadeOf
      <4> QED BY <4>1, <4>2, <4>3
    <3> QED BY <3>1, <3>2
  <2> QED BY <2>1, <2>2 DEF Claimed, KeptOf, MadeOf
<1>8. /\ \A u \in Tenants : Claimed(u)' \subseteq exists'
      /\ \A u, v \in Tenants : u # v => Claimed(u)' \cap Claimed(v)' = {}
  BY <1>3, <1>4, <1>7, ClaimsAreKept
<1>9. ASSUME NEW u \in acked', tenant'[u].brings = {}
      PROVE  tenant'[u].name # JobsName(tenant'[u].name)
  <2>1. CASE u \in acked
    BY <1>6, <1>9, <2>1 DEF ClaimInv
  <2>2. CASE u \notin acked
    BY <1>5, <1>9, <2>2 DEF ClaimInv
  <2> QED BY <2>1, <2>2
<1>10. ASSUME NEW k \in Handlers, MadeJobs(handling'[k].pc), handling'[k].brings = {}
       PROVE  handling'[k].name # JobsName(handling'[k].name)
  <2>1. CASE k # h
    BY <1>1, <1>10, <2>1 DEF ClaimInv
  <2>2. CASE k = h
    <3>1. /\ handling'[h] # Idle
          /\ handling'[h].name = handling[h].name /\ handling[h].brings = {}
      BY <1>2, <1>10, <2>2 DEF Idle, MadeJobs, MadeMain
    <3>2. CASE MadeJobs(handling[h].pc)
      BY <3>1, <3>2, <2>2 DEF ClaimInv
    <3>3. CASE JobsName(handling[h].name) \notin exists /\ MadeMain(handling[h].pc)
      <4>1. handling[h].name \in MadeOf(h) /\ handling[h].name \in Databases
        BY <1>0, <3>1, <3>3 DEF MadeOf, Made, Databases
      <4>2. handling[h].name \in Claimed(t)
        BY <4>1 DEF Claimed, MadeOf
      <4>3. handling[h].name \in exists
        BY <4>2 DEF ClaimInv
      <4> QED BY <2>2, <3>1, <3>3, <4>3
    <3> QED BY <1>4, <1>10, <2>2, <3>1, <3>2, <3>3
  <2> QED BY <2>1, <2>2
<1> QED BY <1>8, <1>9, <1>10 DEF ClaimInv

\* A new call has made nothing, and the worker makes no database.
LEMMA ClaimStep == ASSUME TypeOK, RowsInv, ClaimInv, [Next]_vars PROVE ClaimInv'
<1>1. CASE UNCHANGED <<tenant, exists, handling, acked>>
  BY <1>1 DEF ClaimInv, Claimed, Made
<1>2. ASSUME NEW h \in Handlers, NEW t \in Tenants, NEW name \in Names, NEW brings \in Brought,
             CheckName(h, t, name, brings)
      PROVE  ClaimInv'
  <2>1. UNCHANGED <<tenant, exists, acked>>
    BY <1>2 DEF CheckName
  <2>2. handling'[h] = [pc |-> "folder", tenant |-> t, name |-> name, brings |-> brings]
        /\ \A k \in Handlers \ {h} : handling'[k] = handling[k]
    BY <1>2, CheckNameKeeps
  <2>3. handling'[h].pc = "folder"
    BY <2>2
  <2>4. MadeOf(h)' = {} /\ ~MadeJobs(handling'[h].pc)
    BY <2>3 DEF MadeOf, Made, MadeMain, MadeJobs
  <2>5. ASSUME NEW u \in Tenants PROVE Claimed(u)' \subseteq Claimed(u)
    <3> SUFFICES ASSUME NEW d \in Claimed(u)' PROVE d \in Claimed(u)
      OBVIOUS
    <3>1. CASE u \in acked' /\ d \in KeptOf(u)'
      BY <2>1, <3>1 DEF Claimed, KeptOf, Made
    <3>2. ASSUME NEW k \in Handlers, handling'[k].tenant = u, d \in MadeOf(k)' PROVE d \in Claimed(u)
      <4>1. k # h
        BY <2>4, <3>2
      <4>2. handling[k].tenant = u /\ d \in MadeOf(k)
        BY <2>2, <3>2, <4>1 DEF MadeOf, Made
      <4>3. d \in Databases
        BY DEF Claimed
      <4> QED BY <4>2, <4>3 DEF Claimed, MadeOf
    <3> QED BY <3>1, <3>2 DEF Claimed, KeptOf, MadeOf
  <2>6. /\ \A u \in Tenants : Claimed(u)' \subseteq exists'
        /\ \A u, v \in Tenants : u # v => Claimed(u)' \cap Claimed(v)' = {}
    <3>1. \A u \in Tenants : Claimed(u)' \subseteq Claimed(u) \cup (IF u = t THEN exists' \ exists ELSE {})
      BY <2>5
    <3> QED BY <2>1, <3>1, ClaimsAreKept
  <2>7. \A u \in acked' : tenant'[u].brings = {} => tenant'[u].name # JobsName(tenant'[u].name)
    BY <2>1 DEF ClaimInv
  <2>8. \A k \in Handlers : MadeJobs(handling'[k].pc) /\ handling'[k].brings = {} =>
                               handling'[k].name # JobsName(handling'[k].name)
    BY <2>2, <2>4 DEF ClaimInv
  <2> QED BY <2>6, <2>7, <2>8 DEF ClaimInv
<1>3. CASE WorkerStep \/ CrashWorker \/ UNCHANGED vars
  BY <1>1, <1>3, WorkerKeeps DEF vars, apiVars
<1> QED BY <1>2, <1>3, CallClaims DEF Next

LEMMA ClaimInit == Init => ClaimInv
BY DEF Init, ClaimInv, Claimed, Made, Idle, MadeMain, MadeJobs

\* Two tenants that brought no connections and were both acknowledged have four
\* different databases, whatever names were asked for, in whatever order the calls
\* proceed and roll back, and wherever PostgreSQL cuts an identifier
\* (service/tenant.go:61-67, 116-128, 261-265).
THEOREM DatabasesAreSeparate == Spec => []DatabasesAreNotShared
<1>1. ASSUME TypeOK, RowsInv, ClaimInv PROVE DatabasesAreNotShared
  <2> SUFFICES ASSUME NEW t \in acked, NEW u \in acked, tenant[t].brings = {}, tenant[u].brings = {}
               PROVE  /\ t # u => OwnDatabases(t) \cap OwnDatabases(u) = {}
                      /\ DatabaseOf(t, "main") # DatabaseOf(t, "jobs")
    BY DEF DatabasesAreNotShared
  <2>1. /\ t \in Tenants /\ u \in Tenants
        /\ tenant[t].name \in Names /\ tenant[u].name \in Names
    BY <1>1 DEF TypeOK, RowsInv, Live
  <2>2. /\ OwnDatabases(t) \subseteq {tenant[t].name, JobsName(tenant[t].name)}
        /\ OwnDatabases(u) \subseteq {tenant[u].name, JobsName(tenant[u].name)}
    BY DEF OwnDatabases, DatabaseOf, Where
  <2>3. /\ {tenant[t].name, JobsName(tenant[t].name)} \subseteq Claimed(t)
        /\ {tenant[u].name, JobsName(tenant[u].name)} \subseteq Claimed(u)
    BY <2>1, DatabaseType DEF Claimed, Made, Databases
  <2>4. t # u => Claimed(t) \cap Claimed(u) = {}
    BY <1>1, <2>1 DEF ClaimInv
  <2>5. DatabaseOf(t, "main") = tenant[t].name /\ DatabaseOf(t, "jobs") = JobsName(tenant[t].name)
    BY DEF DatabaseOf, Where
  <2>6. tenant[t].name # JobsName(tenant[t].name)
    BY <1>1 DEF ClaimInv
  <2> QED BY <2>2, <2>3, <2>4, <2>5, <2>6
<1> QED BY <1>1, InitType, TypeStep, ClaimInit, ClaimStep, PTL DEF Spec

-----------------------------------------------------------------------------
(* Losses are paid for *)

\* The sets the property counts are finite, whatever the set of tenants is.
LossInv ==
    /\ IsFiniteSet(HalfMade)
    /\ IsFiniteSet(Unsynchronised)
    /\ LossesArePaidFor

LEMMA SetGrows == ASSUME NEW S, IsFiniteSet(S), NEW T, NEW b, T \subseteq S \cup {b}
                  PROVE  IsFiniteSet(T) /\ Cardinality(T) <= Cardinality(S) + 1
<1>0. Cardinality(S) \in Nat
  BY FS_CardinalityType
<1>1. IsFiniteSet(S \cup {b}) /\ Cardinality(S \cup {b}) <= Cardinality(S) + 1
  BY <1>0, FS_AddElement
<1>2. IsFiniteSet(T) /\ Cardinality(T) <= Cardinality(S \cup {b})
  BY <1>1, FS_Subset
<1> QED BY <1>1, <1>2, FS_CardinalityType

\* A step loses nothing, or one failure lets it lose one tenant.
LEMMA LossesAreKept ==
  ASSUME TypeOK, LossInv, NEW t,
         \/ /\ HalfMade' \subseteq HalfMade /\ Unsynchronised' \subseteq Unsynchronised
            /\ failures' \in {failures, failures + 1}
         \/ /\ HalfMade' \subseteq HalfMade \cup {t} /\ Unsynchronised' \subseteq Unsynchronised
            /\ failures' = failures + 1
         \/ /\ HalfMade' \subseteq HalfMade /\ Unsynchronised' \subseteq Unsynchronised \cup {t}
            /\ failures' = failures + 1
  PROVE  LossInv'
<1> PICK S, T, U, V : S = HalfMade /\ T = HalfMade' /\ U = Unsynchronised /\ V = Unsynchronised'
  OBVIOUS
<1>0. /\ failures \in Nat /\ IsFiniteSet(S) /\ IsFiniteSet(U)
      /\ Cardinality(S) \in Nat /\ Cardinality(U) \in Nat
      /\ Cardinality(S) + Cardinality(U) <= failures
  BY FS_CardinalityType, TenantAssumptions DEF TypeOK, LossInv, LossesArePaidFor, Assumptions
<1>1. /\ T \subseteq S => IsFiniteSet(T) /\ Cardinality(T) <= Cardinality(S)
      /\ V \subseteq U => IsFiniteSet(V) /\ Cardinality(V) <= Cardinality(U)
  BY <1>0, FS_Subset
<1>2. /\ T \subseteq S \cup {t} => IsFiniteSet(T) /\ Cardinality(T) <= Cardinality(S) + 1
      /\ V \subseteq U \cup {t} => IsFiniteSet(V) /\ Cardinality(V) <= Cardinality(U) + 1
  BY <1>0, SetGrows
<1>3. IsFiniteSet(T) /\ IsFiniteSet(V)
  BY <1>1, <1>2
<1>4. Cardinality(T) \in Nat /\ Cardinality(V) \in Nat
  BY <1>3, FS_CardinalityType
<1>5. Cardinality(T) + Cardinality(V) <= failures'
  BY <1>0, <1>1, <1>2, <1>4
<1> QED BY <1>3, <1>5 DEF LossInv, LossesArePaidFor

LEMMA CallLosses ==
  ASSUME TypeOK, RowsInv, LossInv, NEW h \in Handlers, HandlerStep(h) \/ CrashApi(h)
  PROVE  LossInv'
<1>0. /\ handling[h].pc # "idle" /\ HandlerHasRow(h) /\ handling[h].tenant \in Tenants
      /\ failures' \in {failures, failures + 1}
  BY CallMoves DEF RowsInv, HandlerHasRow
<1> PICK t \in Tenants : t = handling[h].tenant
  BY <1>0
<1>1. \A k \in Handlers \ {h} : handling'[k] = handling[k]
  BY CallMoves, GoesToType, StopsType
<1>2. \A u \in Tenants \ {t} : tenant'[u] = tenant[u]
  BY <1>0 DEF HandlerStep, CrashApi, MakeFolder, InsertTenant, CreateMainDatabase, CreateJobsDatabase,
      CreateDatabase, Migrate, SeedUser, SeedSystem, StartSync, RollBack, TypeOK
<1>3. acked \subseteq acked' /\ acked' \subseteq acked \cup {t} /\ sync \subseteq sync'
  BY DEF HandlerStep, CrashApi, MakeFolder, InsertTenant, CreateMainDatabase, CreateJobsDatabase,
      CreateDatabase, Migrate, SeedUser, SeedSystem, StartSync, RollBack
<1>4. HalfMade' \subseteq HalfMade \cup {t}
  <2> SUFFICES ASSUME NEW u \in HalfMade', u # t PROVE u \in HalfMade
    OBVIOUS
  <2>1. u \in Tenants /\ Live(u)' /\ u \notin acked' /\ \A k \in Handlers : handling'[k].tenant # u
    BY DEF HalfMade
  <2>2. Live(u) /\ u \notin acked
    BY <1>2, <1>3, <2>1 DEF Live
  <2>3. \A k \in Handlers : handling[k].tenant # u
    BY <1>1, <2>1
  <2> QED BY <2>1, <2>2, <2>3 DEF HalfMade
<1>5. CASE handling'[h].tenant = t /\ UNCHANGED <<sync, acked>>
  <2>1. t \notin HalfMade'
    BY <1>5 DEF HalfMade
  <2>2. HalfMade' \subseteq HalfMade /\ Unsynchronised' \subseteq Unsynchronised
    BY <1>4, <1>5, <2>1 DEF Unsynchronised
  <2> QED BY <1>0, <2>2, LossesAreKept
<1>6. CASE failures' = failures + 1 /\ UNCHANGED <<sync, acked>>
  <2>1. Unsynchronised' \subseteq Unsynchronised
    BY <1>6 DEF Unsynchronised
  <2> QED BY <1>4, <1>6, <2>1, LossesAreKept
<1>7. CASE ~Live(t)' /\ UNCHANGED <<sync, acked>>
  <2>1. t \notin HalfMade'
    BY <1>7 DEF HalfMade
  <2>2. HalfMade' \subseteq HalfMade /\ Unsynchronised' \subseteq Unsynchronised
    BY <1>4, <1>7, <2>1 DEF Unsynchronised
  <2> QED BY <1>0, <2>2, LossesAreKept
<1>8. CASE StartSync(h)
  <2>1. t \in acked' /\ (t \in sync' \/ failures' = failures + 1)
    BY <1>8, FailureType DEF StartSync
  <2>2. HalfMade' \subseteq HalfMade
    BY <1>4, <2>1 DEF HalfMade
  <2>3. Unsynchronised' \subseteq Unsynchronised \cup ({t} \ sync')
    BY <1>3 DEF Unsynchronised
  <2> QED BY <1>0, <2>1, <2>2, <2>3, LossesAreKept
<1>9. CASE RollBack(h)
  <2>1. UNCHANGED <<sync, acked>>
    BY <1>9 DEF RollBack
  <2>2. failures' = failures + 1 \/ ~Live(t)'
    BY <1>9, FailureType DEF RollBack, TypeOK, TenantRow, Live
  <2> QED BY <1>6, <1>7, <2>1, <2>2
<1>10. CASE MakeFolder(h) \/ InsertTenant(h)
  <2>1. UNCHANGED <<sync, acked>>
    BY <1>10 DEF MakeFolder, InsertTenant
  <2>2. tenant[t].row = "absent"
    BY <1>0, <1>10 DEF MakeFolder, InsertTenant, HandlerHasRow
  <2>3. ~Live(t)' \/ failures' = failures + 1 \/ handling'[h].tenant = t
    BY <1>10, <2>2, FailureType DEF MakeFolder, InsertTenant, GoTo, TypeOK, Handling, Live
  <2> QED BY <1>5, <1>6, <1>7, <2>1, <2>3
<1>11. CASE CrashApi(h)
  BY <1>6, <1>11, FailureType DEF CrashApi
<1>12. CASE \/ CreateMainDatabase(h) \/ CreateJobsDatabase(h) \/ SeedUser(h) \/ SeedSystem(h)
            \/ \E kind \in Parts : Migrate(h, kind)
  <2>1. UNCHANGED <<sync, acked>> /\ handling'[h].tenant = t
    BY <1>12 DEF CreateMainDatabase, CreateJobsDatabase, CreateDatabase, SeedUser, SeedSystem,
                 Migrate, GoTo, TypeOK, Handling
  <2> QED BY <1>5, <2>1
<1> QED BY <1>8, <1>9, <1>10, <1>11, <1>12 DEF HandlerStep

LEMMA LossStep == ASSUME TypeOK, RowsInv, LossInv, [Next]_vars PROVE LossInv'
<1>1. CASE UNCHANGED <<tenant, sync, acked, handling>> /\ failures' \in {failures, failures + 1}
  <2>1. HalfMade' = HalfMade /\ Unsynchronised' = Unsynchronised
    BY <1>1 DEF HalfMade, Unsynchronised, Live
  <2> QED BY <1>1, <2>1, LossesAreKept
<1>2. ASSUME NEW h \in Handlers, NEW t \in Tenants, NEW name \in Names, NEW brings \in Brought,
             CheckName(h, t, name, brings)
      PROVE  LossInv'
  <2>1. UNCHANGED <<tenant, sync, acked, failures>> /\ handling[h].pc = "idle"
    BY <1>2 DEF CheckName
  <2>2. handling[h] = Idle /\ \A k \in Handlers \ {h} : handling'[k] = handling[k]
    BY <1>2, <2>1, CheckNameKeeps DEF RowsInv, HandlerHasRow
  <2>3. \A u \in Tenants : handling[h].tenant # u
    BY <2>2, NullIsNone DEF Idle
  <2>4. HalfMade' \subseteq HalfMade /\ Unsynchronised' \subseteq Unsynchronised
    BY <2>1, <2>2, <2>3 DEF HalfMade, Unsynchronised, Live
  <2> QED BY <2>1, <2>4, LossesAreKept
<1>3. CASE WorkerStep \/ CrashWorker
  BY <1>1, <1>3, WorkerKeeps
<1>4. CASE UNCHANGED vars
  BY <1>1, <1>4 DEF vars, apiVars
<1> QED BY <1>2, <1>3, <1>4, CallLosses DEF Next

LEMMA LossInit == Init => LossInv
<1> SUFFICES ASSUME Init PROVE LossInv
  OBVIOUS
<1>1. HalfMade = {} /\ Unsynchronised = {}
  BY DEF Init, HalfMade, Unsynchronised, Live, NoTenant
<1>2. IsFiniteSet({}) /\ Cardinality({}) = 0
  BY FS_EmptySet
<1> QED BY <1>1, <1>2 DEF LossInv, LossesArePaidFor, Init

\* A tenant that clients see but nobody finishes, and a finished one that nobody
\* synchronises, each cost a failure of their own: no order of the calls leaves one
\* behind for free (service/tenant.go:116-162).
THEOREM LossesAreAccounted == Spec => []LossesArePaidFor
<1>1. LossInv => LossesArePaidFor
  BY DEF LossInv
<1> QED BY <1>1, InitType, TypeStep, LossInit, LossStep, PTL DEF Spec

-----------------------------------------------------------------------------
(* Access: a tenant that nobody can call any more *)

\* A call under way names a row of a tenant, and a user whom the interceptor
\* looks up there.
CallsInv ==
    /\ table \in [AccessTenants -> [Calls!Ids -> Calls!Row]]
    /\ call \in [Handlers -> Calls!Call]
    /\ \A h \in Handlers : call[h].pc # "idle" =>
          /\ call[h].tenant \in AccessTenants /\ call[h].user \in Users /\ call[h].id \in Calls!Ids
          /\ call[h].op \in Calls!Operations

LEMMA CallsInit == Calls!Init => CallsInv
<1> SUFFICES ASSUME Calls!Init PROVE CallsInv
  OBVIOUS
<1>1. /\ \A v \in Values : [row |-> "live", value |-> v] \in Calls!Row
      /\ Calls!NoRow \in Calls!Row
  BY DEF Calls!Row, Calls!NoRow
<1>2. ASSUME NEW t \in AccessTenants PROVE table[t] \in [Calls!Ids -> Calls!Row]
  <2>1. PICK v \in Values : table[t] = [i \in Calls!Ids |->
           IF i \in Sessions \cup {Root} THEN [row |-> "live", value |-> v] ELSE Calls!NoRow]
    BY DEF Calls!Init
  <2>2. \A i \in Calls!Ids : table[t][i] \in Calls!Row
    BY <1>1, <2>1
  <2> QED BY <2>1, <2>2
<1>3. table = [t \in AccessTenants |-> table[t]]
  BY DEF Calls!Init
<1>4. Calls!NoCall \in Calls!Call /\ Calls!NoCall.pc = "idle"
  BY DEF Calls!NoCall, Calls!Call, Calls!Answers
<1> QED BY <1>2, <1>3, <1>4 DEF Calls!Init, CallsInv

\* What a step does to the call of h: it begins, it passes the interceptor, it
\* goes on with its row, it answers, or it is over.
CallBecomes(h, c) ==
    /\ call' = [call EXCEPT ![h] = c]
    /\ c \in Calls!Call
    /\ c.pc # "idle" =>
          /\ c.tenant \in AccessTenants /\ c.user \in Users /\ c.id \in Calls!Ids
          /\ c.op \in Calls!Operations
    /\ \/ c.pc \in {"idle", "check", "answer"}
       \/ call[h].pc = "check" /\ c.tenant = call[h].tenant /\ Calls!Live(call[h].tenant, call[h].user)
       \/ Calls!Accepted(h) /\ c.tenant = call[h].tenant

\* What it does to the tables: only a call that was accepted touches them, and of
\* its own tenant.
TableMoves(h) ==
    \/ UNCHANGED table
    \/ Calls!Accepted(h) /\ \E r \in Calls!Row : Calls!PutRow(h, r)

LEMMA CallsFramed ==
  ASSUME CallsInv, NEW h \in Handlers, TableMoves(h), NEW c, CallBecomes(h, c)
  PROVE  /\ CallsInv'
         /\ \A t \in AccessTenants : Calls!Deserted(t) => Calls!Deserted(t)' /\ table'[t] = table[t]
<1>1. /\ call' \in [Handlers -> Calls!Call] /\ call'[h] = c
      /\ \A k \in Handlers \ {h} : call'[k] = call[k]
  BY DEF CallsInv, CallBecomes
<1>2. Calls!Accepted(h) => call[h].tenant \in AccessTenants /\ call[h].id \in Calls!Ids
  BY DEF CallsInv, Calls!Accepted
<1>3. table' \in [AccessTenants -> [Calls!Ids -> Calls!Row]]
  <2>1. CASE UNCHANGED table
    BY <2>1 DEF CallsInv
  <2>2. ASSUME Calls!Accepted(h), NEW r \in Calls!Row, Calls!PutRow(h, r)
        PROVE  table' \in [AccessTenants -> [Calls!Ids -> Calls!Row]]
    BY <1>2, <2>2 DEF CallsInv, Calls!PutRow
  <2> QED BY <2>1, <2>2 DEF TableMoves
<1>4. CallsInv'
  BY <1>1, <1>3 DEF CallsInv, CallBecomes
<1>5. ASSUME NEW t \in AccessTenants, Calls!Deserted(t)
      PROVE  Calls!Deserted(t)' /\ table'[t] = table[t]
  <2>1. Calls!Accepted(h) => call[h].tenant # t
    BY <1>5 DEF Calls!Deserted
  <2>2. table'[t] = table[t]
    BY <1>2, <2>1 DEF CallsInv, TableMoves, Calls!PutRow
  <2>3. \A u \in Users : ~ Calls!Live(t, u)'
    BY <1>5, <2>2 DEF Calls!Deserted, Calls!Live
  <2>4. c.pc \in {"idle", "check", "answer"} \/ c.tenant # t
    <3>1. ASSUME call[h].pc = "check", Calls!Live(call[h].tenant, call[h].user) PROVE call[h].tenant # t
      BY <1>5, <3>1 DEF CallsInv, Calls!Deserted
    <3> QED BY <2>1, <3>1 DEF CallBecomes
  <2>5. \A k \in Handlers : Calls!Accepted(k)' => call'[k].tenant # t
    BY <1>1, <1>5, <2>4 DEF Calls!Deserted, Calls!Accepted
  <2> QED BY <2>2, <2>3, <2>5 DEF Calls!Deserted
<1> QED BY <1>4, <1>5

LEMMA CallGoesOn ==
  ASSUME CallsInv, NEW h \in Handlers, NEW pc_ \in {"insert", "load", "write", "read", "delete"},
         Calls!GoTo(h, pc_),
         \/ call[h].pc = "check" /\ Calls!Live(call[h].tenant, call[h].user)
         \/ Calls!Accepted(h)
  PROVE  \E c : CallBecomes(h, c)
<1> DEFINE c == [call[h] EXCEPT !.pc = pc_]
<1>1. call[h] \in Calls!Call /\ call \in [Handlers -> Calls!Call] /\ call[h].pc # "idle"
  BY DEF CallsInv, Calls!Accepted
<1>2. /\ c \in Calls!Call /\ c.op = call[h].op /\ c.tenant = call[h].tenant
      /\ c.user = call[h].user /\ c.id = call[h].id
  BY <1>1 DEF Calls!Call
<1>3. call' = [call EXCEPT ![h] = c]
  BY <1>1 DEF Calls!GoTo
<1> HIDE DEF c
<1> QED BY <1>1, <1>2, <1>3 DEF CallBecomes, CallsInv

LEMMA CallAnswers ==
  ASSUME CallsInv, NEW h \in Handlers, call[h].pc # "idle", NEW a \in Calls!Answers, Calls!Answer(h, a)
  PROVE  \E c : CallBecomes(h, c)
<1> DEFINE c == [call[h] EXCEPT !.pc = "answer", !.answer = a]
<1>1. call[h] \in Calls!Call /\ call \in [Handlers -> Calls!Call]
  BY DEF CallsInv
<1>2. /\ c \in Calls!Call /\ c.op = call[h].op /\ c.tenant = call[h].tenant
      /\ c.user = call[h].user /\ c.id = call[h].id /\ c.pc = "answer"
  BY <1>1 DEF Calls!Call
<1>3. call' = [call EXCEPT ![h] = c]
  BY <1>1 DEF Calls!Answer
<1> HIDE DEF c
<1> QED BY <1>1, <1>2, <1>3 DEF CallBecomes, CallsInv

LEMMA CallBeginsOrEnds ==
  ASSUME CallsInv, NEW h \in Handlers,
         \/ \E op \in Calls!Operations, t \in AccessTenants, u \in Users, i \in Calls!Ids,
               v \in Values \cup {Null} : Calls!BeginCall(h, op, t, u, i, v)
         \/ call' = [call EXCEPT ![h] = Calls!NoCall]
  PROVE  \E c : CallBecomes(h, c)
<1>1. CASE call' = [call EXCEPT ![h] = Calls!NoCall]
  <2>1. Calls!NoCall \in Calls!Call /\ Calls!NoCall.pc = "idle"
    BY DEF Calls!NoCall, Calls!Call, Calls!Answers
  <2> QED BY <1>1, <2>1 DEF CallBecomes
<1>2. ASSUME NEW op \in Calls!Operations, NEW t \in AccessTenants, NEW u \in Users, NEW i \in Calls!Ids,
             NEW v \in Values \cup {Null}, Calls!BeginCall(h, op, t, u, i, v)
      PROVE  \E c : CallBecomes(h, c)
  <2> DEFINE c == [pc |-> "check", op |-> op, tenant |-> t, user |-> u, id |-> i,
                   value |-> v, answer |-> Null]
  <2>1. /\ c \in Calls!Call /\ c.pc = "check" /\ c.op = op /\ c.tenant = t /\ c.user = u /\ c.id = i
    BY DEF Calls!Call, Calls!Answers
  <2>2. call' = [call EXCEPT ![h] = c]
    BY <1>2 DEF Calls!BeginCall
  <2> HIDE DEF c
  <2> QED BY <2>1, <2>2 DEF CallBecomes
<1> QED BY <1>1, <1>2

\* What the row of an accepted call may become, and what is answered of it.
LEMMA RowsAreTyped ==
  ASSUME CallsInv, NEW h \in Handlers, Calls!Accepted(h)
  PROVE  /\ Calls!NewRow(h) \in Calls!Row
         /\ [Calls!Mine(h) EXCEPT !.row = "deleted"] \in Calls!Row
         /\ Calls!Mine(h).value \in Calls!Answers
         /\ {"denied", "notFound", "error", "done"} \subseteq Calls!Answers
<1>1. Calls!Mine(h) \in Calls!Row
  BY DEF CallsInv, Calls!Mine, Calls!Accepted
<1>2. call[h] \in Calls!Call
  BY DEF CallsInv
<1> QED BY <1>1, <1>2 DEF Calls!Row, Calls!NewRow, Calls!Call, Calls!Answers

LEMMA AnyCallStep ==
  ASSUME CallsInv, Calls!Next
  PROVE  \E h \in Handlers : TableMoves(h) /\ \E c : CallBecomes(h, c)
<1>1. PICK h \in Handlers :
         \/ \E t \in AccessTenants, u \in Users, i \in Calls!Ids :
               \/ \E v \in Values :
                     \/ Calls!CreateUser(h, t, u, i, v)
                     \/ Calls!UpdateUser(h, t, u, i, v)
                     \/ Calls!CreateSystem(h, t, u, i, v)
                     \/ Calls!UpdateSystem(h, t, u, i, v)
               \/ Calls!DeleteUser(h, t, u, i)
               \/ Calls!DeleteSystem(h, t, u, i)
               \/ Calls!StartSession(h, t, u, i)
               \/ Calls!StopSession(h, t, u, i)
         \/ Calls!CheckUser(h)
         \/ Calls!InsertRow(h)
         \/ Calls!LoadRow(h)
         \/ Calls!WriteRow(h)
         \/ Calls!ReadRow(h)
         \/ Calls!DeleteRow(h)
         \/ Calls!ReturnCall(h)
         \/ Calls!CrashApi(h)
  BY DEF Calls!Next
<1>2. {"denied", "notFound", "error", "done"} \subseteq Calls!Answers
  BY DEF Calls!Answers
<1>3. CASE \E t \in AccessTenants, u \in Users, i \in Calls!Ids :
              \/ \E v \in Values :
                    \/ Calls!CreateUser(h, t, u, i, v)
                    \/ Calls!UpdateUser(h, t, u, i, v)
                    \/ Calls!CreateSystem(h, t, u, i, v)
                    \/ Calls!UpdateSystem(h, t, u, i, v)
              \/ Calls!DeleteUser(h, t, u, i)
              \/ Calls!DeleteSystem(h, t, u, i)
              \/ Calls!StartSession(h, t, u, i)
              \/ Calls!StopSession(h, t, u, i)
  <2>1. PICK op \in Calls!Operations, t \in AccessTenants, u \in Users, i \in Calls!Ids,
             v \in Values \cup {Null} : Calls!BeginCall(h, op, t, u, i, v)
    BY <1>3, AccessAssumptions
    DEF Calls!Operations, Calls!Assumptions, Calls!CreateUser, Calls!UpdateUser, Calls!DeleteUser,
        Calls!CreateSystem, Calls!UpdateSystem, Calls!DeleteSystem, Calls!StartSession, Calls!StopSession
  <2>2. UNCHANGED table
    BY <2>1 DEF Calls!BeginCall
  <2> QED BY <2>1, <2>2, CallBeginsOrEnds DEF TableMoves
<1>4. CASE Calls!CheckUser(h)
  <2>1. call[h].pc = "check" /\ UNCHANGED table
    BY <1>4 DEF Calls!CheckUser
  <2>2. Calls!First(call[h].op) \in {"insert", "load", "write", "read", "delete"}
    BY <2>1 DEF CallsInv, Calls!Operations, Calls!First
  <2>3. CASE Calls!Live(call[h].tenant, call[h].user) /\ Calls!GoTo(h, Calls!First(call[h].op))
    BY <2>1, <2>2, <2>3, CallGoesOn DEF TableMoves
  <2>4. CASE Calls!Answer(h, "denied") \/ Calls!Answer(h, "error")
    BY <1>2, <2>1, <2>4, CallAnswers DEF TableMoves
  <2> QED BY <1>4, <2>3, <2>4 DEF Calls!CheckUser
<1>5. CASE Calls!InsertRow(h)
  <2>1. call[h].pc = "insert" /\ Calls!Accepted(h)
    BY <1>5 DEF Calls!InsertRow, Calls!Accepted
  <2>2. TableMoves(h)
    BY <1>5, <2>1, RowsAreTyped DEF Calls!InsertRow, TableMoves
  <2>3. Calls!Answer(h, "done") \/ Calls!Answer(h, "error")
    BY <1>5 DEF Calls!InsertRow
  <2> QED BY <1>2, <2>1, <2>2, <2>3, CallAnswers
<1>6. CASE Calls!LoadRow(h)
  <2>1. call[h].pc = "load" /\ Calls!Accepted(h) /\ UNCHANGED table
    BY <1>6 DEF Calls!LoadRow, Calls!Accepted
  <2>2. Calls!GoTo(h, "write") \/ Calls!Answer(h, "notFound") \/ Calls!Answer(h, "error")
    BY <1>6 DEF Calls!LoadRow
  <2> QED BY <1>2, <2>1, <2>2, CallGoesOn, CallAnswers DEF TableMoves
<1>7. CASE Calls!WriteRow(h)
  <2>1. call[h].pc = "write" /\ Calls!Accepted(h)
    BY <1>7 DEF Calls!WriteRow, Calls!Accepted
  <2>2. TableMoves(h)
    BY <1>7, <2>1, RowsAreTyped DEF Calls!WriteRow, TableMoves
  <2>3. Calls!GoTo(h, "read") \/ Calls!Answer(h, "notFound") \/ Calls!Answer(h, "error")
    BY <1>7 DEF Calls!WriteRow
  <2> QED BY <1>2, <2>1, <2>2, <2>3, CallGoesOn, CallAnswers
<1>8. CASE Calls!ReadRow(h)
  <2>1. call[h].pc = "read" /\ Calls!Accepted(h) /\ UNCHANGED table
    BY <1>8 DEF Calls!ReadRow, Calls!Accepted
  <2>2. \E a \in Calls!Answers : Calls!Answer(h, a)
    BY <1>2, <1>8, <2>1, RowsAreTyped DEF Calls!ReadRow
  <2> QED BY <2>1, <2>2, CallAnswers DEF TableMoves
<1>9. CASE Calls!DeleteRow(h)
  <2>1. call[h].pc = "delete" /\ Calls!Accepted(h)
    BY <1>9 DEF Calls!DeleteRow, Calls!Accepted
  <2>2. TableMoves(h)
    BY <1>9, <2>1, RowsAreTyped DEF Calls!DeleteRow, TableMoves
  <2>3. Calls!Answer(h, "done") \/ Calls!Answer(h, "notFound") \/ Calls!Answer(h, "error")
    BY <1>9 DEF Calls!DeleteRow
  <2> QED BY <1>2, <2>1, <2>2, <2>3, CallAnswers
<1>10. CASE Calls!ReturnCall(h) \/ Calls!CrashApi(h)
  BY <1>10, CallBeginsOrEnds DEF Calls!ReturnCall, Calls!CrashApi, TableMoves
<1> QED BY <1>1, <1>3, <1>4, <1>5, <1>6, <1>7, <1>8, <1>9, <1>10

\* Every step keeps the invariant, and what is deserted.
LEMMA CallsKeep ==
  ASSUME CallsInv, [Calls!Next]_(Calls!vars)
  PROVE  /\ CallsInv'
         /\ [\A t \in AccessTenants :
                Calls!Deserted(t) => Calls!Deserted(t)' /\ table'[t] = table[t]]_(Calls!vars)
<1>1. CASE UNCHANGED Calls!vars
  BY <1>1 DEF Calls!vars, CallsInv
<1>2. CASE Calls!Next
  BY <1>2, AnyCallStep, CallsFramed
<1> QED BY <1>1, <1>2

\* A tenant that no user may call any more, and where no call is under way, is
\* left as it is: the only way to make a user is a call that needs one
\* (service/auth.go:79-85, service/user.go:97-114).
THEOREM DesertedTenantsStayDeserted == Calls!Spec => DesertedForGood
<1>1. CallsInv /\ [Calls!Next]_(Calls!vars) =>
         [\A t \in AccessTenants :
             Calls!Deserted(t) => Calls!Deserted(t)' /\ table'[t] = table[t]]_(Calls!vars)
  BY CallsKeep
<1> QED BY <1>1, CallsInit, CallsKeep, PTL DEF Calls!Spec, DesertedForGood, Calls!DesertedForGood

-----------------------------------------------------------------------------
(* Client: what the exit of a command says *)

\* The tenant the one call of a command is about: the one that the configuration
\* names, if the command needs one.
MyTenant == IF Shell!Scoped THEN run.config.tenant ELSE Shell!None

\* Nothing is sent before the last phase, a name is resolved to itself, and once
\* the server has answered, the request stays as it is.
ShellInv ==
    /\ run \in Shell!Run
    /\ request \in Shell!Request
    /\ listed \subseteq Shell!TenantIds
    /\ run.pc \in {"idle", "load", "dial", "context", "resolve", "file", "args"} =>
          request = Shell!NoRequest
    /\ run.pc \in {"idle", "load", "dial", "context"} => run.id = Shell!None
    /\ run.pc \in {"resolve", "file"} => Shell!Scoped
    /\ run.pc \in {"args", "call"} => run.id = MyTenant
    /\ run.pc = "file" => run.id = run.config.tenant
    /\ run.pc = "call" /\ request.state # "none" => request.tenant = run.id
    /\ Shell!ExitsAreTrue

LEMMA ShellCount == ASSUME NEW S PROVE Shell!Cardinality(S) = Cardinality(S)
BY DEF Shell!Cardinality, Cardinality

LEMMA ShellInit == Shell!Init => ShellInv
<1> SUFFICES ASSUME Shell!Init PROVE ShellInv
  OBVIOUS
<1>1. PICK c \in Shell!Commands :
         run = [pc |-> "idle", command |-> c, id |-> Shell!None, outcome |-> "none",
                config |-> [valid |-> FALSE, tls |-> FALSE, user |-> "unset", tenant |-> Shell!None]]
  BY DEF Shell!Init
<1>2. run \in Shell!Run /\ run.pc = "idle" /\ run.id = Shell!None
  BY <1>1 DEF Shell!Run, Shell!Config
<1>3. Shell!NoRequest \in Shell!Request
  BY DEF Shell!NoRequest, Shell!Request
<1> QED BY <1>2, <1>3 DEF Shell!Init, ShellInv, Shell!ExitsAreTrue

\* The page that resolve asks for has the ResolveSize newest tenants: one that is
\* there and not on it has as many newer ones.
LEMMA HiddenByNewer ==
  ASSUME NEW S \in SUBSET Shell!TenantIds, NEW n \in S,
         n \notin Shell!Page(S, "tenant", 1, ResolveSize)
  PROVE  Shell!Cardinality({m \in S : m > n}) >= ResolveSize
<1>1. ResolveSize \in Nat \ {0} /\ MaxTenants \in Nat
  BY ClientAssumptions DEF Shell!Assumptions
<1>2. Shell!SizeOf("tenant", ResolveSize) = ResolveSize /\ Shell!PageOf(1) = 1
  BY <1>1 DEF Shell!SizeOf, Shell!ListOf, Shell!TenantList, Shell!PageOf
<1>3. n \notin Shell!Slice(S, (1 - 1) * ResolveSize, ResolveSize)
  BY <1>2 DEF Shell!Page
<1>4. (1 - 1) * ResolveSize = 0
  BY <1>1
<1>5. Shell!Place(n, S) \notin 0..(0 + ResolveSize - 1)
  BY <1>3, <1>4 DEF Shell!Slice
<1>6. Shell!Place(n, S) = Cardinality({m \in S : m > n})
  BY ShellCount DEF Shell!Place
<1>7. Cardinality({m \in S : m > n}) \in Nat
  <2>1. IsFiniteSet(Shell!TenantIds)
    BY <1>1, FS_Interval DEF Shell!TenantIds
  <2> QED BY <2>1, FS_Subset, FS_CardinalityType
<1> QED BY <1>1, <1>5, <1>6, <1>7, ShellCount

\* What a step of the client leaves as it was: the command and its configuration.
LEMMA PhaseChanges ==
  ASSUME ShellInv, NEW p \in {"dial", "context", "resolve", "file", "args", "call"}, Shell!GoTo(p)
  PROVE  /\ run' \in Shell!Run /\ run'.pc = p /\ run'.id = run.id /\ run'.config = run.config
         /\ run'.command = run.command /\ Shell!Scoped' = Shell!Scoped /\ MyTenant' = MyTenant
<1>1. run \in Shell!Run
  BY DEF ShellInv
<1>2. /\ run' \in Shell!Run /\ run'.pc = p /\ run'.id = run.id /\ run'.config = run.config
      /\ run'.command = run.command
  BY <1>1 DEF Shell!GoTo, Shell!Run
<1> QED BY <1>2 DEF Shell!Scoped, MyTenant

LEMMA ClientExits ==
  ASSUME ShellInv, NEW o \in Shell!Outcomes, Shell!Exit(o)
  PROVE  /\ run' \in Shell!Run /\ run'.pc = "exit" /\ run'.outcome = o /\ run'.id = run.id
         /\ run'.config = run.config
         /\ Shell!Scoped' = Shell!Scoped /\ MyTenant' = MyTenant
<1>1. run \in Shell!Run
  BY DEF ShellInv
<1>2. /\ run' \in Shell!Run /\ run'.pc = "exit" /\ run'.outcome = o /\ run'.id = run.id
      /\ run'.config = run.config /\ run'.command = run.command
  BY <1>1 DEF Shell!Exit, Shell!Run
<1> QED BY <1>2 DEF Shell!Scoped, MyTenant

\* An exit other than a success, with nothing sent, or after a call.
LEMMA FailureIsTrue ==
  ASSUME ShellInv, NEW o \in Shell!Outcomes \ {"ok", "absent"}, Shell!Exit(o), UNCHANGED <<request, listed>>,
         o \in {"config", "file", "panic"} => request = Shell!NoRequest
  PROVE  ShellInv'
<1>1. run' \in Shell!Run /\ run'.pc = "exit" /\ run'.outcome = o
  BY ClientExits
<1> QED BY <1>1 DEF ShellInv, Shell!ExitsAreTrue

LEMMA PhasesKeep ==
  ASSUME ShellInv,
         \/ \E c \in Shell!Commands, f \in Shell!Config : Shell!Begin(c, f)
         \/ Shell!LoadConfig \/ Shell!Dial \/ Shell!NameTenant \/ Shell!ReadFile \/ Shell!ParseIds
  PROVE  ShellInv'
<1>1. /\ request \in Shell!Request /\ request = Shell!NoRequest
      /\ listed \subseteq Shell!TenantIds /\ UNCHANGED <<request, listed>>
  BY DEF ShellInv, Shell!Begin, Shell!LoadConfig, Shell!Dial, Shell!NameTenant, Shell!ReadFile, Shell!ParseIds
<1>2. {"config", "file", "panic"} \subseteq Shell!Outcomes \ {"ok", "absent"}
  BY DEF Shell!Outcomes
<1>3. CASE \E c \in Shell!Commands, f \in Shell!Config : Shell!Begin(c, f)
  <2>1. run' \in Shell!Run /\ run'.pc = "load" /\ run'.id = Shell!None
    BY <1>3 DEF Shell!Begin, Shell!Run
  <2> QED BY <1>1, <2>1 DEF ShellInv, Shell!ExitsAreTrue
<1>4. CASE Shell!Exit("config") \/ Shell!Exit("file") \/ Shell!Exit("panic")
  BY <1>1, <1>2, <1>4, FailureIsTrue
<1>5. CASE \/ run.pc = "load" /\ Shell!GoTo("dial")
           \/ run.pc = "dial" /\ Shell!GoTo("context")
           \/ run.pc = "context" /\ Shell!Scoped /\ Shell!GoTo("resolve")
           \/ run.pc = "context" /\ ~Shell!Scoped /\ Shell!GoTo("args")
           \/ run.pc = "file" /\ Shell!GoTo("args")
           \/ run.pc = "args" /\ Shell!GoTo("call")
  <2>1. PICK p \in {"dial", "context", "resolve", "args", "call"} :
           /\ Shell!GoTo(p)
           /\ p \in {"dial", "context"} => run.pc \in {"load", "dial"}
           /\ p = "resolve" => run.pc = "context" /\ Shell!Scoped
           /\ p = "args" => \/ run.pc = "context" /\ ~Shell!Scoped
                            \/ run.pc = "file"
           /\ p = "call" => run.pc = "args"
    BY <1>5
  <2>2. /\ run' \in Shell!Run /\ run'.pc = p /\ run'.id = run.id
        /\ Shell!Scoped' = Shell!Scoped /\ MyTenant' = MyTenant
    BY <2>1, PhaseChanges
  <2>3. p \in {"args", "call"} => run.id = MyTenant
    BY <2>1 DEF ShellInv, MyTenant
  <2>4. request.state = "none"
    BY <1>1 DEF Shell!NoRequest
  <2> QED BY <1>1, <2>1, <2>2, <2>3, <2>4 DEF ShellInv, Shell!ExitsAreTrue
<1>6. \/ Shell!Exit("config") \/ Shell!Exit("file") \/ Shell!Exit("panic")
      \/ run.pc = "load" /\ Shell!GoTo("dial")
      \/ run.pc = "dial" /\ Shell!GoTo("context")
      \/ run.pc = "context" /\ Shell!Scoped /\ Shell!GoTo("resolve")
      \/ run.pc = "context" /\ ~Shell!Scoped /\ Shell!GoTo("args")
      \/ run.pc = "file" /\ Shell!GoTo("args")
      \/ run.pc = "args" /\ Shell!GoTo("call")
      \/ \E c \in Shell!Commands, f \in Shell!Config : Shell!Begin(c, f)
  BY DEF Shell!LoadConfig, Shell!Dial, Shell!NameTenant, Shell!ReadFile, Shell!ParseIds
<1> QED BY <1>3, <1>4, <1>5, <1>6

LEMMA ResolveKeeps ==
  ASSUME ShellInv, Shell!Resolve
  PROVE  ShellInv'
<1>1. /\ request \in Shell!Request /\ request = Shell!NoRequest /\ UNCHANGED request
      /\ listed \subseteq Shell!TenantIds /\ run \in Shell!Run /\ run.pc = "resolve" /\ Shell!Scoped
  BY DEF ShellInv, Shell!Resolve
<1>2. Shell!Visible \subseteq Shell!TenantIds
  BY DEF Shell!Visible
<1>3. CASE Shell!Exit("refused") /\ UNCHANGED listed
  BY <1>1, <1>3, FailureIsTrue DEF Shell!Outcomes
<1>4. CASE /\ listed' = Shell!Visible
           /\ run.config.tenant \in Shell!Page(Shell!Visible, "tenant", 1, ResolveSize)
           /\ run' = [run EXCEPT !.pc = "file", !.id = run.config.tenant]
  <2>1. /\ run' \in Shell!Run /\ run'.pc = "file" /\ run'.id = run.config.tenant
        /\ run'.config = run.config /\ run'.command = run.command
    BY <1>1, <1>4 DEF Shell!Run, Shell!Config
  <2>2. Shell!Scoped'
    BY <1>1, <2>1 DEF Shell!Scoped
  <2> QED BY <1>1, <1>2, <1>4, <2>1, <2>2 DEF ShellInv, Shell!ExitsAreTrue
<1>5. CASE /\ listed' = Shell!Visible
           /\ run.config.tenant \notin Shell!Page(Shell!Visible, "tenant", 1, ResolveSize)
           /\ Shell!Exit("absent")
  <2>1. run' \in Shell!Run /\ run'.pc = "exit" /\ run'.outcome = "absent" /\ run'.config = run.config
    BY <1>5, ClientExits DEF Shell!Outcomes
  <2>2. \/ run.config.tenant \notin Shell!Visible
        \/ Shell!Cardinality({n \in Shell!Visible : n > run.config.tenant}) >= ResolveSize
    BY <1>2, <1>5, HiddenByNewer
  <2>3. Shell!ExitsAreTrue'
    BY <1>1, <1>5, <2>1, <2>2 DEF Shell!ExitsAreTrue
  <2> QED BY <1>1, <1>2, <1>5, <2>1, <2>3 DEF ShellInv
<1> QED BY <1>3, <1>4, <1>5 DEF Shell!Resolve

LEMMA CallKeeps ==
  ASSUME ShellInv, Shell!Send \/ Shell!Receive \/ Shell!Expire \/ Shell!Serve \/ Shell!Cancel
  PROVE  ShellInv'
<1>1. run \in Shell!Run /\ request \in Shell!Request /\ UNCHANGED listed
  BY DEF ShellInv, Shell!Send, Shell!Receive, Shell!Expire, Shell!Serve, Shell!Cancel
<1>2. CASE Shell!Send
  <2>1. run.pc = "call" /\ request' = [state |-> "sent", tenant |-> run.id] /\ UNCHANGED <<run, listed>>
    BY <1>2 DEF Shell!Send
  <2>2. request' \in Shell!Request /\ request'.tenant = run.id
    BY <1>1, <2>1 DEF Shell!Request, Shell!Run
  <2>3. MyTenant' = MyTenant /\ Shell!Scoped' = Shell!Scoped
    BY <2>1 DEF MyTenant, Shell!Scoped
  <2> QED BY <1>1, <2>1, <2>2, <2>3 DEF ShellInv, Shell!ExitsAreTrue
<1>3. CASE Shell!Receive
  <2>1. run.pc = "call" /\ request.state \in {"served", "refused"} /\ UNCHANGED <<request, listed>>
    BY <1>3 DEF Shell!Receive
  <2>2. CASE request.state = "refused" /\ Shell!Exit("refused")
    BY <2>1, <2>2, FailureIsTrue DEF Shell!Outcomes
  <2>3. CASE request.state = "served" /\ Shell!Exit("ok")
    <3>1. run' \in Shell!Run /\ run'.pc = "exit" /\ run'.outcome = "ok" /\ MyTenant' = MyTenant
      BY <2>3, ClientExits DEF Shell!Outcomes
    <3>2. request = [state |-> "served", tenant |-> MyTenant]
      BY <1>1, <2>1, <2>3 DEF ShellInv, Shell!Request
    <3>3. Shell!ExitsAreTrue'
      BY <2>1, <3>1, <3>2 DEF Shell!ExitsAreTrue, MyTenant
    <3> QED BY <1>1, <2>1, <3>1, <3>3 DEF ShellInv
  <2> QED BY <1>3, <2>1, <2>2, <2>3 DEF Shell!Receive
<1>4. CASE Shell!Expire
  <2>1. Shell!Exit("timeout") /\ UNCHANGED <<request, listed>>
    BY <1>4 DEF Shell!Expire
  <2> QED BY <2>1, FailureIsTrue DEF Shell!Outcomes
<1>5. CASE Shell!Serve \/ Shell!Cancel
  <2>1. request.state = "sent" /\ UNCHANGED <<run, listed>>
    BY <1>5 DEF Shell!Serve, Shell!Cancel
  <2>2. \E s \in {"served", "refused", "dropped"} : request' = [request EXCEPT !.state = s]
    BY <1>5 DEF Shell!Serve, Shell!Cancel
  <2>3. request' \in Shell!Request /\ request'.tenant = request.tenant
    BY <1>1, <2>2 DEF Shell!Request
  <2>4. request # Shell!NoRequest
    BY <2>1 DEF Shell!NoRequest
  <2>5. MyTenant' = MyTenant /\ Shell!Scoped' = Shell!Scoped
    BY <2>1 DEF MyTenant, Shell!Scoped
  <2>6. run.pc = "exit" => run.outcome \notin {"ok", "config", "absent", "file", "panic"}
    BY <2>1, <2>4 DEF ShellInv, Shell!ExitsAreTrue
  <2>7. Shell!ExitsAreTrue'
    BY <2>1, <2>6 DEF Shell!ExitsAreTrue
  <2> QED BY <1>1, <2>1, <2>3, <2>4, <2>5, <2>7 DEF ShellInv
<1> QED BY <1>2, <1>3, <1>4, <1>5

LEMMA ShellKeeps ==
  ASSUME ShellInv, [Shell!Next]_(Shell!vars)
  PROVE  ShellInv'
<1>1. CASE UNCHANGED <<run, request, listed>>
  BY <1>1 DEF ShellInv, Shell!ExitsAreTrue, Shell!Scoped, MyTenant
<1>2. CASE Shell!Next
  <2>1. ASSUME NEW n \in Shell!TenantIds, Shell!MakeTenant(n) PROVE UNCHANGED <<run, request, listed>>
    BY <2>1 DEF Shell!MakeTenant
  <2> QED BY <1>1, <1>2, <2>1, PhasesKeep, ResolveKeeps, CallKeeps DEF Shell!Next
<1> QED BY <1>1, <1>2 DEF Shell!vars

\* The exit of the client tells the truth: a success was done in the tenant that
\* the configuration names, an error of its own sent nothing, and a tenant that
\* was not found was not there, or as many newer ones as a page has rows were
\* (cmd/client/helpers.go:60-101, main.go:52-84).
THEOREM EveryExitIsTrue == Shell!Spec => []ExitsAreTrue
<1>1. ShellInv => ExitsAreTrue
  BY DEF ShellInv, ExitsAreTrue
<1> QED BY <1>1, ShellInit, ShellKeeps, PTL DEF Shell!Spec

-----------------------------------------------------------------------------
(* The parts together *)

LEMMA PartMoves ==
  ASSUME [PartNext]_allVars
  PROVE  /\ [Next]_vars
         /\ [Calls!Next]_(Calls!vars)
         /\ [Shell!Next]_(Shell!vars)
<1>1. CASE ProvisioningStep
  BY <1>1 DEF ProvisioningStep, accessVars, clientVars, Calls!vars, Shell!vars
<1>2. CASE CallsStep
  BY <1>2 DEF CallsStep, clientVars, Shell!vars
<1>3. CASE ShellStep
  BY <1>3 DEF ShellStep, accessVars, Calls!vars
<1>4. CASE UNCHANGED allVars
  BY <1>4 DEF allVars, accessVars, clientVars, Calls!vars, Shell!vars
<1> QED BY <1>1, <1>2, <1>3, <1>4 DEF PartNext

\* A behaviour of the parts together is one of each of them, so what is proved of
\* a part holds of them together too (service/tenant.go, service/auth.go and
\* cmd/client share no state here).
THEOREM TenancyFollowsItsParts ==
  PartSpec => Init /\ [][Next]_vars /\ Calls!Spec /\ Shell!Spec
<1>1. PartInit => Init /\ Calls!Init /\ Shell!Init
  BY DEF PartInit
<1> QED BY <1>1, PartMoves, PTL DEF PartSpec, Calls!Spec, Shell!Spec

=============================================================================
