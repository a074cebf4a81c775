--------------------------- MODULE RuntimeProofs ----------------------------
(***************************************************************************)
(* Theorems about the parts that MCRuntime puts together: Caches, for all  *)
(* sets of callers and connection strings (the mutex is held by who is     *)
(* between lock and unlock, and the code implements what module Opener     *)
(* promises), and Startup (Installation), for every set of tenants, every  *)
(* number of versions and every bound on the failures.                     *)
(***************************************************************************)
EXTENDS MCRuntime, TLAPS

-----------------------------------------------------------------------------
(* What a call knows at each of its steps *)

\* A caller that opens a connection has seen that there is none, and still
\* holds the mutex: nobody has opened one since.
CallInv ==
    \A c \in Callers :
       /\ call[c].pc = "idle" => call[c] = NoCall
       /\ call[c].pc # "idle" => call[c].string \in Strings
       /\ call[c].pc \in {"lock", "look", "open"} => call[c].result = Null
       /\ call[c].pc \in {"unlock", "return"} => call[c].result # Null
       /\ call[c].pc = "open" => cache[call[c].string] = Null

LEMMA CallInit == Init => CallInv
BY DEF Init, CallInv, NoCall

\* A step of one caller that leaves the cache alone, or holds the mutex, keeps
\* what the others know.
LEMMA CallFramed ==
    ASSUME TypeOK, CallInv, NEW c \in Callers,
           \A b \in Callers \ {c} : call'[b] = call[b],
           UNCHANGED cache \/ mutex = c
    PROVE  \A b \in Callers \ {c} :
              /\ call'[b].pc = "idle" => call'[b] = NoCall
              /\ call'[b].pc # "idle" => call'[b].string \in Strings
              /\ call'[b].pc \in {"lock", "look", "open"} => call'[b].result = Null
              /\ call'[b].pc \in {"unlock", "return"} => call'[b].result # Null
              /\ call'[b].pc = "open" => cache'[call'[b].string] = Null
<1> SUFFICES ASSUME NEW b \in Callers \ {c}, call'[b].pc = "open"
             PROVE  UNCHANGED cache
  BY DEF CallInv
<1>1. mutex = b
  BY DEF TypeOK
<1> QED BY <1>1

LEMMA CallStep == ASSUME TypeOK, CallInv, [Next]_vars PROVE CallInv'
<1> USE NullAssumption, ErrorAssumption
<1>1. ASSUME NEW c \in Callers, NEW s \in Strings, Begin(c, s) PROVE CallInv'
  <2>1. \A b \in Callers \ {c} : call'[b] = call[b]
    BY <1>1 DEF Begin, TypeOK
  <2>2. call'[c] = [pc |-> "lock", string |-> s, result |-> Null] /\ UNCHANGED cache
    BY <1>1 DEF Begin, TypeOK
  <2> QED BY <2>1, <2>2, CallFramed DEF CallInv
<1>2. ASSUME NEW c \in Callers, Lock(c) PROVE CallInv'
  <2>1. \A b \in Callers \ {c} : call'[b] = call[b]
    BY <1>2 DEF Lock, TypeOK
  <2>2. call'[c] = [call[c] EXCEPT !.pc = "look"] /\ call[c].pc = "lock" /\ UNCHANGED cache
    BY <1>2 DEF Lock, TypeOK
  <2> QED BY <2>1, <2>2, CallFramed DEF CallInv, TypeOK, Call
<1>3. ASSUME NEW c \in Callers, LookUp(c) PROVE CallInv'
  <2>1. \A b \in Callers \ {c} : call'[b] = call[b]
    BY <1>3 DEF LookUp, TypeOK
  <2>2. call[c].pc = "look" /\ UNCHANGED cache
    BY <1>3 DEF LookUp
  <2>3. \/ /\ call'[c] = [call[c] EXCEPT !.pc = "unlock", !.result = cache[call[c].string]]
           /\ cache[call[c].string] # Null
        \/ /\ call'[c] = [call[c] EXCEPT !.pc = "open"]
           /\ cache[call[c].string] = Null
    BY <1>3 DEF LookUp, TypeOK
  <2>4. /\ call'[c].string \in Strings
        /\ \/ call'[c].pc = "unlock" /\ call'[c].result # Null
           \/ /\ call'[c].pc = "open"
              /\ call'[c].result = Null
              /\ cache[call'[c].string] = Null
    BY <2>2, <2>3 DEF CallInv, TypeOK, Call
  <2> QED BY <2>1, <2>2, <2>4, CallFramed DEF CallInv
<1>4. ASSUME NEW c \in Callers, Open(c) PROVE CallInv'
  <2>1. \A b \in Callers \ {c} : call'[b] = call[b]
    BY <1>4 DEF Open, TypeOK
  <2>2. call[c].pc = "open" /\ mutex = c
    BY <1>4 DEF Open, TypeOK
  <2>3. /\ call'[c].pc = "unlock"
        /\ call'[c].string = call[c].string
        /\ call'[c].result \in {opened + 1, Error}
    BY <1>4 DEF Open, TypeOK, Call
  <2>4. opened + 1 # Null /\ Error # Null
    BY DEF TypeOK
  <2>5. call[c].string \in Strings
    BY <2>2 DEF CallInv
  <2> QED BY <2>1, <2>2, <2>3, <2>4, <2>5, CallFramed DEF CallInv
<1>5. ASSUME NEW c \in Callers, Unlock(c) PROVE CallInv'
  <2>1. \A b \in Callers \ {c} : call'[b] = call[b]
    BY <1>5 DEF Unlock, TypeOK
  <2>2. call'[c] = [call[c] EXCEPT !.pc = "return"] /\ call[c].pc = "unlock" /\ UNCHANGED cache
    BY <1>5 DEF Unlock, TypeOK
  <2> QED BY <2>1, <2>2, CallFramed DEF CallInv, TypeOK, Call
<1>6. ASSUME NEW c \in Callers, Return(c) PROVE CallInv'
  <2>1. \A b \in Callers \ {c} : call'[b] = call[b]
    BY <1>6 DEF Return, TypeOK
  <2>2. call'[c] = NoCall /\ UNCHANGED cache
    BY <1>6 DEF Return, TypeOK
  <2> QED BY <2>1, <2>2, CallFramed DEF CallInv, NoCall
<1>7. CASE UNCHANGED vars
  BY <1>7 DEF vars, CallInv
<1> QED BY <1>1, <1>2, <1>3, <1>4, <1>5, <1>6, <1>7 DEF Next, Step

-----------------------------------------------------------------------------
(* Type correctness and mutual exclusion *)

LEMMA InitType == Init => TypeOK
BY NullAssumption DEF Init, TypeOK, Call, NoCall

LEMMA TypeStep == ASSUME TypeOK, CallInv, [Next]_vars PROVE TypeOK'
<1> USE NullAssumption, ErrorAssumption DEF TypeOK, Call, Connection
<1>1. ASSUME NEW c \in Callers, NEW s \in Strings, Begin(c, s) PROVE TypeOK'
  BY <1>1 DEF Begin
<1>2. ASSUME NEW c \in Callers, Lock(c) PROVE TypeOK'
  BY <1>2 DEF Lock
<1>3. ASSUME NEW c \in Callers, LookUp(c) PROVE TypeOK'
  <2>1. cache[call[c].string] \in Connection \cup {Null}
    BY <1>3 DEF LookUp, CallInv
  <2> QED BY <1>3, <2>1 DEF LookUp
<1>4. ASSUME NEW c \in Callers, Open(c) PROVE TypeOK'
  <2>1. call[c].string \in Strings /\ call[c].pc = "open"
    BY <1>4 DEF Open, CallInv
  <2> QED BY <1>4, <2>1 DEF Open
<1>5. ASSUME NEW c \in Callers, Unlock(c) PROVE TypeOK'
  BY <1>5 DEF Unlock
<1>6. ASSUME NEW c \in Callers, Return(c) PROVE TypeOK'
  BY <1>6 DEF Return, NoCall
<1>7. CASE UNCHANGED vars
  BY <1>7 DEF vars
<1> QED BY <1>1, <1>2, <1>3, <1>4, <1>5, <1>6, <1>7 DEF Next, Step

\* The variables keep their types, and exactly the caller between lock and
\* unlock holds the mutex: Connect and Backend release it on every way out.
THEOREM TypeCorrect == Spec => []TypeOK
BY InitType, CallInit, TypeStep, CallStep, PTL DEF Spec

-----------------------------------------------------------------------------
(* The refinement *)

LEMMA PromiseInit == Init => Promise!Init
BY DEF Init, NoCall, Promise!Init

LEMMA PromiseStep ==
    ASSUME TypeOK, CallInv, [Next]_vars PROVE [Promise!Next]_(Promise!vars)
<1> USE NullAssumption, ErrorAssumption DEF TypeOK, Call
<1> DEFINE asked == [c \in Callers |-> call[c].string]
           answered == [c \in Callers |-> call[c].result]
<1>1. ASSUME NEW c \in Callers, NEW s \in Strings, Begin(c, s) PROVE Promise!Ask(c, s)
  <2>1. call[c].string = Null /\ call[c].result = Null
    BY <1>1 DEF Begin, CallInv, NoCall
  <2>2. call' = [call EXCEPT ![c] = [pc |-> "lock", string |-> s, result |-> Null]]
    BY <1>1 DEF Begin
  <2>3. asked' = [asked EXCEPT ![c] = s]
    BY <2>2
  <2>4. answered' = answered
    BY <2>1, <2>2
  <2> QED BY <1>1, <2>1, <2>3, <2>4 DEF Begin, Promise!Ask
<1>2. ASSUME NEW c \in Callers, Lock(c) \/ Unlock(c) PROVE UNCHANGED Promise!vars
  BY <1>2 DEF Lock, Unlock, Promise!vars
<1>3. ASSUME NEW c \in Callers, LookUp(c)
      PROVE  Promise!GiveShared(c) \/ UNCHANGED Promise!vars
  <2>1. call[c].string \in Strings /\ call[c].result = Null
    BY <1>3 DEF LookUp, CallInv
  <2>2. CASE cache[call[c].string] = Null
    BY <1>3, <2>2 DEF LookUp, Promise!vars
  <2>3. CASE cache[call[c].string] # Null
    BY <1>3, <2>1, <2>3 DEF LookUp, Promise!GiveShared, Promise!Waiting
  <2> QED BY <2>2, <2>3
<1>4. ASSUME NEW c \in Callers, Open(c) PROVE Promise!OpenNew(c) \/ Promise!Refuse(c)
  <2>1. call[c].string \in Strings /\ call[c].result = Null /\ cache[call[c].string] = Null
    BY <1>4 DEF Open, CallInv
  <2> QED BY <1>4, <2>1 DEF Open, Promise!OpenNew, Promise!Refuse, Promise!Waiting
<1>5. ASSUME NEW c \in Callers, Return(c) PROVE Promise!Leave(c)
  <2>1. call[c].result # Null
    BY <1>5 DEF Return, CallInv
  <2> QED BY <1>5, <2>1 DEF Return, NoCall, Promise!Leave
<1>6. CASE UNCHANGED vars
  BY <1>6 DEF vars, Promise!vars
<1> QED BY <1>1, <1>2, <1>3, <1>4, <1>5, <1>6 DEF Next, Step, Promise!Next

\* Connect and Backend keep what Opener promises: one connection for a string,
\* the same for every caller, and an error only while there is none.
THEOREM Refinement == Spec => KeepsPromise
BY InitType, TypeStep, CallInit, CallStep, PromiseInit, PromiseStep, PTL
   DEF Spec, KeepsPromise, Promise!Spec

-----------------------------------------------------------------------------
(* Startup: types *)

\* A tenant in the making has a row, and a server that serves or is stopping.
ServerInv ==
    /\ \A t \in Tenants : tenant[t].row = "absent" => ~tenant[t].whole /\ t \notin making
    /\ making # {} => server.pc \in {"serving", "stopping"}
    /\ server.version <= version
    /\ migrator.pc \in {"root", "user"} => root.exists

InstallationInv == Installation!TypeOK /\ ServerInv

LEMMA StartupInit == Installation!Init => InstallationInv
<1> DEFINE idle == [Installation!NewRun EXCEPT !.pc = "idle"]
<1>1. Installation!NewRun \in Installation!Migrator
  BY DEF Installation!NewRun, Installation!Migrator
<1>2. idle \in Installation!Migrator /\ idle.pc = "idle"
  BY <1>1 DEF Installation!Migrator
<1> QED
  BY <1>2, StartupAssumptions
  DEF Installation!Init, InstallationInv, ServerInv, Installation!TypeOK, Installation!Assumptions,
      Installation!RootDatabase, Installation!TenantRow, Installation!NoTenant, Installation!Versions,
      Installation!Migrator, Installation!Server

LEMMA MigratorMoves ==
  ASSUME InstallationInv, NEW pc \in {"idle", "ensure", "root", "user", "list", "tenants", "ok", "failed"},
         Installation!Exit(pc)
  PROVE  /\ migrator' \in Installation!Migrator
         /\ migrator'.pc = pc /\ migrator'.created = migrator.created
         /\ migrator'.todo = migrator.todo /\ migrator'.failing = migrator.failing
BY DEF InstallationInv, Installation!TypeOK, Installation!Migrator, Installation!Exit

LEMMA StartupFails ==
  ASSUME InstallationInv, NEW k, Installation!Fail(k)
  PROVE  startupFailures' \in 1..MaxFailures
BY StartupAssumptions DEF InstallationInv, Installation!TypeOK, Installation!Fail, Installation!Assumptions

LEMMA StartupStep ==
  ASSUME InstallationInv, [Installation!Next]_(Installation!vars)
  PROVE  InstallationInv'
<1> USE StartupAssumptions
    DEF Installation!Assumptions, InstallationInv, ServerInv, Installation!TypeOK, Installation!RootDatabase,
        Installation!TenantRow, Installation!Versions, Installation!Migrator, Installation!Server,
        Installation!Fail, Installation!Exit, Installation!Live
<1>1. ASSUME NEW v \in Installation!Versions, Installation!BringUp(v) PROVE InstallationInv'
  BY <1>1 DEF Installation!BringUp, Installation!NewRun
<1>2. CASE Installation!EnsureRoot
  <2>1. /\ migrator' \in Installation!Migrator
        /\ migrator'.pc \in {"root", "failed"}
        /\ migrator'.pc = "root" => root'.exists
    BY <1>2, MigratorMoves DEF Installation!EnsureRoot
  <2>2. root' = root \/ root' = [root EXCEPT !.exists = TRUE]
    BY <1>2 DEF Installation!EnsureRoot
  <2>3. startupFailures' \in 0..MaxFailures
    BY <1>2, StartupFails DEF Installation!EnsureRoot
  <2>4. UNCHANGED <<tenant, version, server, making, late, ups>>
    BY <1>2 DEF Installation!EnsureRoot
  <2> QED BY <2>1, <2>2, <2>3, <2>4
<1>3. CASE Installation!MigrateRoot
  <2>1. /\ migrator' \in Installation!Migrator
        /\ migrator'.pc \in {"user", "list", "failed"}
        /\ migrator.pc = "root"
    BY <1>3, MigratorMoves DEF Installation!MigrateRoot
  <2>2. root' = root \/ root' = [root EXCEPT !.tables = TRUE]
    BY <1>3 DEF Installation!MigrateRoot
  <2>3. startupFailures' \in 0..MaxFailures
    BY <1>3, StartupFails DEF Installation!MigrateRoot
  <2>4. UNCHANGED <<tenant, version, server, making, late, ups>>
    BY <1>3 DEF Installation!MigrateRoot
  <2> QED BY <2>1, <2>2, <2>3, <2>4
<1>4. CASE Installation!CreateUser
  <2>1. /\ migrator' \in Installation!Migrator
        /\ migrator'.pc \in {"list", "failed"}
        /\ migrator.pc = "user"
    BY <1>4, MigratorMoves DEF Installation!CreateUser
  <2>2. root' = root \/ root' = [root EXCEPT !.user = TRUE]
    BY <1>4 DEF Installation!CreateUser
  <2>3. startupFailures' \in 0..MaxFailures
    BY <1>4, StartupFails DEF Installation!CreateUser
  <2>4. UNCHANGED <<tenant, version, server, making, late, ups>>
    BY <1>4 DEF Installation!CreateUser
  <2> QED BY <2>1, <2>2, <2>3, <2>4
<1>5. CASE Installation!ListTenants
  <2>1. migrator' \in Installation!Migrator /\ migrator'.pc \in {"tenants", "failed"}
    <3>1. Installation!Live \in SUBSET Tenants
      OBVIOUS
    <3>2. \/ migrator' = [migrator EXCEPT !.pc = "tenants", !.todo = Installation!Live]
          \/ migrator' = [migrator EXCEPT !.pc = "failed"]
      BY <1>5 DEF Installation!ListTenants
    <3> QED BY <3>1, <3>2
  <2>2. startupFailures' \in 0..MaxFailures
    BY <1>5, StartupFails DEF Installation!ListTenants
  <2>3. UNCHANGED <<root, tenant, version, server, making, late, ups>>
    BY <1>5 DEF Installation!ListTenants
  <2> QED BY <2>1, <2>2, <2>3
<1>6. ASSUME NEW t \in Tenants, Installation!MigrateTenant(t) PROVE InstallationInv'
  <2>1. migrator' \in Installation!Migrator /\ migrator'.pc = "tenants"
    <3>1. \/ migrator' = [migrator EXCEPT !.todo = @ \ {t}]
          \/ migrator' = [migrator EXCEPT !.todo = @ \ {t}, !.failing = TRUE]
      BY <1>6 DEF Installation!MigrateTenant
    <3>2. migrator.todo \ {t} \in SUBSET Tenants /\ migrator.pc = "tenants"
      BY <1>6 DEF Installation!MigrateTenant
    <3> QED BY <3>1, <3>2
  <2>2. tenant' = tenant \/ tenant' = [tenant EXCEPT ![t].tables = version]
    BY <1>6 DEF Installation!MigrateTenant
  <2>3. tenant' \in [Tenants -> Installation!TenantRow]
    BY <2>2
  <2>4. startupFailures' \in 0..MaxFailures
    BY <1>6, StartupFails DEF Installation!MigrateTenant
  <2>5. late' \subseteq Tenants /\ UNCHANGED <<root, version, server, making, ups>>
    BY <1>6 DEF Installation!MigrateTenant
  <2>6. \A s \in Tenants : tenant'[s].row = tenant[s].row /\ tenant'[s].whole = tenant[s].whole
    BY <2>2
  <2> QED BY <2>1, <2>3, <2>4, <2>5, <2>6
<1>7. CASE Installation!EndRun
  BY <1>7 DEF Installation!EndRun
<1>8. CASE Installation!CrashMigrator
  BY <1>8 DEF Installation!CrashMigrator
<1>9. CASE Installation!StopServer
  BY <1>9 DEF Installation!StopServer
<1>10. CASE Installation!EndServer
  BY <1>10 DEF Installation!EndServer
<1>11. CASE Installation!StartServer
  BY <1>11 DEF Installation!StartServer
<1>12. CASE Installation!ServerMigrates
  BY <1>12 DEF Installation!ServerMigrates
<1>13. CASE Installation!ServerLoadsRoot
  BY <1>13 DEF Installation!ServerLoadsRoot
<1>14. ASSUME NEW t \in Tenants, Installation!BeginTenant(t) PROVE InstallationInv'
  BY <1>14 DEF Installation!BeginTenant
<1>15. ASSUME NEW t \in Tenants, Installation!EndTenant(t) PROVE InstallationInv'
  <2>1. \/ \E n \in 0..MaxVersion : tenant' = [tenant EXCEPT ![t].whole = TRUE, ![t].tables = n]
        \/ tenant' = [tenant EXCEPT ![t].row = "deleted"]
    BY <1>15 DEF Installation!EndTenant
  <2>2. tenant' \in [Tenants -> Installation!TenantRow]
    <3>1. tenant[t] \in Installation!TenantRow
      OBVIOUS
    <3>2. \A n \in 0..MaxVersion :
             [tenant[t] EXCEPT !.whole = TRUE, !.tables = n] \in Installation!TenantRow
      BY <3>1
    <3>3. [tenant[t] EXCEPT !.row = "deleted"] \in Installation!TenantRow
      BY <3>1
    <3>4. \/ \E n \in 0..MaxVersion :
                tenant' = [tenant EXCEPT ![t] = [tenant[t] EXCEPT !.whole = TRUE, !.tables = n]]
          \/ tenant' = [tenant EXCEPT ![t] = [tenant[t] EXCEPT !.row = "deleted"]]
      BY <2>1
    <3>5. \E r \in Installation!TenantRow : tenant' = [tenant EXCEPT ![t] = r]
      BY ONLY <3>2, <3>3, <3>4
    <3> QED BY ONLY <3>5, tenant \in [Tenants -> Installation!TenantRow]
  <2>3. startupFailures' \in 0..MaxFailures
    BY <1>15, StartupFails DEF Installation!EndTenant
  <2>4. making' \subseteq making /\ UNCHANGED <<root, version, migrator, server, late, ups>>
    BY <1>15 DEF Installation!EndTenant
  <2>5. \A s \in Tenants : tenant'[s].row = "absent" => tenant[s].row = "absent" /\ tenant'[s] = tenant[s]
    <3>1. tenant[t].row # "absent"
      BY <1>15 DEF Installation!EndTenant
    <3>2. tenant'[t].row # "absent"
      BY <2>1, <3>1
    <3>3. \A s \in Tenants \ {t} : tenant'[s] = tenant[s]
      BY <2>1
    <3> QED BY <3>2, <3>3
  <2> QED BY <2>2, <2>3, <2>4, <2>5
<1>16. CASE Installation!CrashServer
  BY <1>16 DEF Installation!CrashServer
<1>17. CASE UNCHANGED Installation!vars
  BY <1>17 DEF Installation!vars
<1> QED
  BY ONLY [Installation!Next]_(Installation!vars), <1>1, <1>2, <1>3, <1>4, <1>5, <1>6, <1>7, <1>8,
          <1>9, <1>10, <1>11, <1>12, <1>13, <1>14, <1>15, <1>16, <1>17
  DEF Installation!Next, Installation!MigratorStep, Installation!ServerStep

-----------------------------------------------------------------------------
(* Startup: the default user *)

\* As long as nothing failed, the run that made the root database is about to
\* make the user.
UserInv ==
    startupFailures = 0 /\ root.exists /\ ~root.user =>
       migrator.created /\ migrator.pc \in {"root", "user"}

LEMMA UserStep ==
  ASSUME InstallationInv, UserInv, [Installation!Next]_(Installation!vars)
  PROVE  UserInv'
<1> USE DEF UserInv
<1> SUFFICES ASSUME startupFailures' = 0
             PROVE  root'.exists /\ ~root'.user => migrator'.created /\ migrator'.pc \in {"root", "user"}
  OBVIOUS
<1>1. ASSUME NEW k, Installation!Fail(k) PROVE FALSE
  BY <1>1, StartupFails
<1>2. CASE UNCHANGED <<root, migrator, startupFailures>>
  BY <1>2
<1>3. ASSUME NEW v \in Installation!Versions, Installation!BringUp(v)
      PROVE  ~(root'.exists /\ ~root'.user)
  BY <1>3 DEF Installation!BringUp
<1>4. CASE Installation!EnsureRoot
  <2>1. CASE root.exists
    <3>1. migrator.pc = "ensure" /\ UNCHANGED <<root, startupFailures>>
      BY <1>1, <1>4, <2>1 DEF Installation!EnsureRoot
    <3> QED BY <2>1, <3>1
  <2>2. CASE ~root.exists
    BY <1>1, <1>4, <2>2
    DEF Installation!EnsureRoot, InstallationInv, Installation!TypeOK, Installation!Migrator
  <2> QED BY <2>1, <2>2
<1>5. CASE Installation!MigrateRoot
  <2>1. /\ root' = [root EXCEPT !.tables = TRUE]
        /\ Installation!Exit(IF migrator.created THEN "user" ELSE "list")
        /\ UNCHANGED startupFailures
    BY <1>1, <1>5 DEF Installation!MigrateRoot
  <2>2. root'.exists = root.exists /\ root'.user = root.user
    BY <2>1 DEF InstallationInv, Installation!TypeOK, Installation!RootDatabase
  <2>3. CASE migrator.created
    BY <2>1, <2>3, MigratorMoves
  <2>4. CASE ~migrator.created
    BY <2>1, <2>2, <2>4
  <2> QED BY <2>3, <2>4
<1>6. CASE Installation!CreateUser
  BY <1>1, <1>6 DEF Installation!CreateUser, InstallationInv, Installation!TypeOK, Installation!RootDatabase
<1>7. CASE Installation!ListTenants
  BY <1>1, <1>7 DEF Installation!ListTenants
<1>8. ASSUME NEW t \in Tenants, Installation!MigrateTenant(t)
      PROVE  ~(root'.exists /\ ~root'.user)
  BY <1>1, <1>8 DEF Installation!MigrateTenant
<1>9. CASE Installation!EndRun
  BY <1>9 DEF Installation!EndRun
<1>10. CASE Installation!CrashMigrator
  BY <1>1, <1>10 DEF Installation!CrashMigrator
<1>11. CASE Installation!ServerStep
  BY <1>1, <1>2, <1>11
     DEF Installation!ServerStep, Installation!StopServer, Installation!EndServer, Installation!StartServer,
         Installation!ServerMigrates, Installation!ServerLoadsRoot
<1>12. ASSUME NEW t \in Tenants, Installation!BeginTenant(t) \/ Installation!EndTenant(t)
       PROVE  UNCHANGED <<root, migrator, startupFailures>>
  BY <1>1, <1>12 DEF Installation!BeginTenant, Installation!EndTenant
<1>13. CASE Installation!CrashServer
  BY <1>1, <1>13 DEF Installation!CrashServer
<1>14. CASE UNCHANGED Installation!vars
  BY <1>2, <1>14 DEF Installation!vars
<1> QED
  BY <1>2, <1>3, <1>4, <1>5, <1>6, <1>7, <1>8, <1>9, <1>10, <1>11, <1>12, <1>13, <1>14
  DEF Installation!Next, Installation!MigratorStep

\* The default user is missing only after a failure: of two runs of the migrator
\* the second does not make what the first should have (cmd/migrator/main.go:67-77).
THEOREM MissingUsersAreAccounted == Installation!Spec => []MissingUserIsPaidFor
<1>1. Installation!Init => UserInv
  BY DEF Installation!Init, UserInv
<1>2. InstallationInv /\ UserInv => MissingUserIsPaidFor
  BY StartupAssumptions
  DEF InstallationInv, UserInv, Installation!TypeOK, Installation!Assumptions, MissingUserIsPaidFor,
      Installation!MissingUserIsPaidFor
<1> QED BY <1>1, <1>2, StartupInit, StartupStep, UserStep, PTL DEF Installation!Spec

-----------------------------------------------------------------------------
(* Startup: tenants cut short *)

LEMMA HalfMadeStep ==
  ASSUME InstallationInv, HalfMadeTenantsArePaidFor, [Installation!Next]_(Installation!vars)
  PROVE  HalfMadeTenantsArePaidFor'
<1> USE DEF HalfMadeTenantsArePaidFor, Installation!HalfMadeTenantsArePaidFor, Installation!Live
<1>1. ASSUME NEW k, Installation!Fail(k) PROVE startupFailures' > 0
  BY <1>1, StartupFails
<1> SUFFICES ASSUME ~(startupFailures' > 0)
             PROVE  \A t \in Tenants : tenant'[t].row = "live" => tenant'[t].whole \/ t \in making'
  OBVIOUS
<1> DEFINE Kept == startupFailures' = startupFailures /\ tenant' = tenant /\ making \subseteq making'
<1>2. CASE Kept
  BY <1>2
<1>3. ASSUME NEW v \in Installation!Versions, Installation!BringUp(v) PROVE Kept
  BY <1>3 DEF Installation!BringUp
<1>4. CASE Installation!EnsureRoot \/ Installation!MigrateRoot \/ Installation!CreateUser
  <2>1. Kept
    BY <1>1, <1>4 DEF Installation!EnsureRoot, Installation!MigrateRoot, Installation!CreateUser
  <2> QED BY <1>2, <2>1
<1>5. CASE Installation!ListTenants \/ Installation!EndRun \/ Installation!CrashMigrator
  <2>1. Kept
    BY <1>1, <1>5 DEF Installation!ListTenants, Installation!EndRun, Installation!CrashMigrator
  <2> QED BY <1>2, <2>1
<1>6. ASSUME NEW t \in Tenants, Installation!MigrateTenant(t)
      PROVE  \A s \in Tenants : tenant'[s].row = "live" => tenant'[s].whole \/ s \in making'
  <2>1. startupFailures' = startupFailures /\ making' = making
    BY <1>1, <1>6 DEF Installation!MigrateTenant
  <2>2. tenant' = tenant \/ tenant' = [tenant EXCEPT ![t].tables = version]
    BY <1>6 DEF Installation!MigrateTenant
  <2>3. \A s \in Tenants : tenant'[s].row = tenant[s].row /\ tenant'[s].whole = tenant[s].whole
    BY <2>2 DEF InstallationInv, Installation!TypeOK, Installation!TenantRow
  <2> QED BY <2>1, <2>3
<1>7. CASE Installation!ServerStep
  <2>1. Kept
    BY <1>1, <1>7
       DEF Installation!ServerStep, Installation!StopServer, Installation!EndServer, Installation!StartServer,
           Installation!ServerMigrates, Installation!ServerLoadsRoot
  <2> QED BY <1>2, <2>1
<1>8. ASSUME NEW t \in Tenants, Installation!BeginTenant(t)
      PROVE  \A s \in Tenants : tenant'[s].row = "live" => tenant'[s].whole \/ s \in making'
  <2>1. /\ tenant' = [tenant EXCEPT ![t].row = "live"] /\ making' = making \cup {t}
        /\ startupFailures' = startupFailures
    BY <1>8 DEF Installation!BeginTenant
  <2>2. \A s \in Tenants \ {t} : tenant'[s] = tenant[s]
    BY <2>1 DEF InstallationInv, Installation!TypeOK
  <2> QED BY <2>1, <2>2
<1>9. ASSUME NEW t \in Tenants, Installation!EndTenant(t)
      PROVE  \A s \in Tenants : tenant'[s].row = "live" => tenant'[s].whole \/ s \in making'
  <2>1. PICK n : /\ tenant' = [tenant EXCEPT ![t].whole = TRUE, ![t].tables = n]
                 /\ making' = making \ {t} /\ startupFailures' = startupFailures
    BY <1>1, <1>9 DEF Installation!EndTenant
  <2>2. \A s \in Tenants \ {t} : tenant'[s] = tenant[s]
    BY <2>1 DEF InstallationInv, Installation!TypeOK
  <2>3. tenant'[t].whole
    BY <2>1 DEF InstallationInv, Installation!TypeOK, Installation!TenantRow
  <2> QED BY <2>1, <2>2, <2>3
<1>10. CASE Installation!CrashServer
  BY <1>1, <1>10 DEF Installation!CrashServer
<1>11. CASE UNCHANGED Installation!vars
  BY <1>2, <1>11 DEF Installation!vars
<1> QED
  BY <1>2, <1>3, <1>4, <1>5, <1>6, <1>7, <1>8, <1>9, <1>10, <1>11
  DEF Installation!Next, Installation!MigratorStep

\* A tenant is half made only after a failure: the server that is replaced first
\* ends the calls it is at (cmd/server/main.go:105-125).
THEOREM HalfMadeTenantsAreAccounted == Installation!Spec => []HalfMadeTenantsArePaidFor
<1>1. Installation!Init => HalfMadeTenantsArePaidFor
  BY DEF Installation!Init, HalfMadeTenantsArePaidFor, Installation!HalfMadeTenantsArePaidFor,
         Installation!Live, Installation!NoTenant
<1> QED BY <1>1, StartupInit, StartupStep, HalfMadeStep, PTL DEF Installation!Spec

-----------------------------------------------------------------------------
(* Startup: tenants of an older version *)

\* The tables of t are those of version v, or the migrator could not know t.
Upgraded(t, v) == tenant[t].tables >= v \/ t \in late

\* What the migrator has passed is migrated unless it fails; and the server was
\* started after a run that did not.  A tenant the server is at gets the tables
\* of the server's version when it gets its last database.
UpgradeInv ==
    /\ migrator.pc = "tenants" /\ ~migrator.failing =>
          \A t \in Installation!Live \ migrator.todo : Upgraded(t, version)
    /\ migrator.pc = "ok" => \A t \in Installation!Live : Upgraded(t, version)
    /\ server.pc # "down" =>
          \A t \in Installation!Live : tenant[t].whole => Upgraded(t, server.version)

\* A step after which the same tenants live, with tables no older than before.
LEMMA UpgradeFramed ==
  ASSUME InstallationInv, UpgradeInv,
         version' = version,
         Installation!Live' \subseteq Installation!Live,
         \A t \in Installation!Live' : \A v \in 0..version : Upgraded(t, v) => Upgraded(t, v)',
         \A t \in Installation!Live' : tenant'[t].whole => tenant[t].whole,
         migrator' = migrator \/ migrator'.pc \notin {"tenants", "ok"},
         server'.pc = "down" \/ (server.pc # "down" /\ server'.version = server.version)
  PROVE  UpgradeInv'
<1>1. version \in 0..version /\ server.version \in 0..version
  BY StartupAssumptions
  DEF InstallationInv, ServerInv, Installation!TypeOK, Installation!Versions, Installation!Server,
      Installation!Assumptions
<1>2. ASSUME migrator'.pc = "tenants", ~migrator'.failing,
             NEW t \in Installation!Live' \ migrator'.todo
      PROVE  Upgraded(t, version)'
  <2>1. migrator' = migrator
    BY <1>2
  <2>2. Upgraded(t, version)
    BY <1>2, <2>1 DEF UpgradeInv
  <2>3. \A v \in 0..version : Upgraded(t, v) => Upgraded(t, v)'
    OBVIOUS
  <2> QED BY <1>1, <2>2, <2>3 DEF Upgraded
<1> QED BY <1>1, <1>2 DEF UpgradeInv, Upgraded

LEMMA UpgradeStep ==
  ASSUME InstallationInv, UpgradeInv, [Installation!Next]_(Installation!vars)
  PROVE  UpgradeInv'
<1>0. /\ tenant \in [Tenants -> Installation!TenantRow] /\ migrator \in Installation!Migrator
      /\ server \in Installation!Server /\ version \in Nat /\ server.version \in Nat
      /\ server.version <= version
      /\ \A t \in Tenants : tenant[t].tables \in Nat
  BY StartupAssumptions
  DEF InstallationInv, ServerInv, Installation!TypeOK, Installation!Versions, Installation!Server,
      Installation!TenantRow, Installation!Assumptions
<1> DEFINE SameTenants == UNCHANGED <<tenant, late, version>>
<1>1. ASSUME SameTenants,
             migrator' = migrator \/ migrator'.pc \notin {"tenants", "ok"},
             server'.pc = "down" \/ (server.pc # "down" /\ server'.version = server.version)
      PROVE  UpgradeInv'
  <2>1. Installation!Live' = Installation!Live
    BY <1>1 DEF Installation!Live
  <2>2. \A t \in Tenants : \A v \in 0..version : Upgraded(t, v) => Upgraded(t, v)'
    BY <1>1 DEF Upgraded
  <2> QED BY <1>1, <2>1, <2>2, UpgradeFramed DEF Installation!Live
<1>2. ASSUME NEW v \in Installation!Versions, Installation!BringUp(v) PROVE UpgradeInv'
  <2>1. migrator'.pc = "ensure" /\ UNCHANGED <<tenant, late, server>>
    BY <1>2 DEF Installation!BringUp, Installation!NewRun
  <2> QED BY <2>1 DEF UpgradeInv, Upgraded, Installation!Live
<1>3. CASE Installation!EnsureRoot \/ Installation!MigrateRoot \/ Installation!CreateUser
            \/ Installation!CrashMigrator
  <2>1. SameTenants /\ server' = server
    BY <1>3 DEF Installation!EnsureRoot, Installation!MigrateRoot, Installation!CreateUser,
                Installation!CrashMigrator
  <2>2. migrator'.pc \notin {"tenants", "ok"}
    BY <1>3, MigratorMoves
    DEF Installation!EnsureRoot, Installation!MigrateRoot, Installation!CreateUser,
        Installation!CrashMigrator, InstallationInv, Installation!TypeOK, Installation!Migrator
  <2> QED BY <1>1, <2>1, <2>2
<1>4. CASE Installation!ListTenants
  <2>1. SameTenants /\ server' = server
    BY <1>4 DEF Installation!ListTenants
  <2>2. \/ migrator'.pc = "tenants" /\ migrator'.todo = Installation!Live
        \/ migrator'.pc = "failed"
    BY <1>0, <1>4, MigratorMoves DEF Installation!ListTenants, Installation!Migrator
  <2> QED BY <2>1, <2>2 DEF UpgradeInv, Upgraded, Installation!Live
<1>5. ASSUME NEW t \in Tenants, Installation!MigrateTenant(t) PROVE UpgradeInv'
  <2>1. migrator.pc = "tenants" /\ UNCHANGED <<version, server>>
    BY <1>5 DEF Installation!MigrateTenant
  <2>2. CASE /\ tenant' = [tenant EXCEPT ![t].tables = version]
             /\ migrator' = [migrator EXCEPT !.todo = @ \ {t}]
             /\ late' = late \ {t}
    <3>1. /\ migrator'.pc = "tenants" /\ migrator'.todo = migrator.todo \ {t}
          /\ migrator'.failing = migrator.failing
      BY <1>0, <2>1, <2>2 DEF Installation!Migrator
    <3>2. Installation!Live' = Installation!Live /\ \A s \in Tenants : tenant'[s].whole = tenant[s].whole
      BY <1>0, <2>2 DEF Installation!Live, Installation!TenantRow
    <3>3. \A s \in Tenants : \A v \in Nat : v <= version => (Upgraded(s, v) => Upgraded(s, v)')
      BY <1>0, <2>2 DEF Upgraded, Installation!TenantRow
    <3>4. Upgraded(t, version)'
      BY <1>0, <2>1, <2>2 DEF Upgraded, Installation!TenantRow
    <3> QED BY <1>0, <2>1, <3>1, <3>2, <3>3, <3>4 DEF UpgradeInv, Upgraded, Installation!Live
  <2>3. CASE migrator' = [migrator EXCEPT !.todo = @ \ {t}, !.failing = TRUE] /\ UNCHANGED <<tenant, late>>
    <3>1. migrator'.pc = "tenants" /\ migrator'.failing
      BY <1>0, <2>1, <2>3 DEF Installation!Migrator
    <3> QED BY <2>1, <2>3, <3>1 DEF UpgradeInv, Upgraded, Installation!Live
  <2> QED BY <1>5, <2>2, <2>3 DEF Installation!MigrateTenant
<1>6. CASE Installation!EndRun
  <2>1. /\ SameTenants /\ server' = server
        /\ migrator.pc = "tenants" /\ migrator.todo = {}
        /\ Installation!Exit(IF migrator.failing THEN "failed" ELSE "ok")
    BY <1>6 DEF Installation!EndRun
  <2>2. migrator'.pc = IF migrator.failing THEN "failed" ELSE "ok"
    BY <1>0, <2>1 DEF Installation!Exit, Installation!Migrator
  <2>3. migrator.failing \in BOOLEAN
    BY <1>0 DEF Installation!Migrator
  <2> QED BY <2>1, <2>2, <2>3 DEF UpgradeInv, Upgraded, Installation!Live
<1>7. CASE Installation!StartServer
  <2>1. /\ SameTenants /\ migrator' = migrator /\ migrator.pc = "ok"
        /\ server' = [pc |-> "migrate", version |-> version]
    BY <1>7 DEF Installation!StartServer
  <2> QED BY <2>1 DEF UpgradeInv, Upgraded, Installation!Live
<1>8. CASE Installation!StopServer \/ Installation!EndServer \/ Installation!ServerMigrates
            \/ Installation!ServerLoadsRoot \/ Installation!CrashServer
  <2>1. SameTenants /\ migrator' = migrator
    BY <1>8 DEF Installation!StopServer, Installation!EndServer, Installation!ServerMigrates,
                Installation!ServerLoadsRoot, Installation!CrashServer
  <2>2. server'.pc = "down" \/ (server.pc # "down" /\ server'.version = server.version)
    BY <1>0, <1>8
    DEF Installation!StopServer, Installation!EndServer, Installation!ServerMigrates,
        Installation!ServerLoadsRoot, Installation!CrashServer, Installation!Server
  <2> QED BY <1>1, <2>1, <2>2
<1>9. ASSUME NEW t \in Tenants, Installation!BeginTenant(t) PROVE UpgradeInv'
  <2>1. /\ tenant[t].row = "absent" /\ tenant' = [tenant EXCEPT ![t].row = "live"]
        /\ late' = IF migrator.pc \in {"tenants", "ok", "failed"} THEN late \cup {t} ELSE late
        /\ UNCHANGED <<version, migrator, server>>
    BY <1>9 DEF Installation!BeginTenant
  <2>2. \A s \in Tenants \ {t} : tenant'[s] = tenant[s]
    BY <1>0, <2>1
  <2>3. ~tenant'[t].whole
    BY <1>0, <2>1 DEF InstallationInv, ServerInv, Installation!TenantRow
  <2>4. migrator.pc \in {"tenants", "ok"} => t \in late'
    BY <2>1
  <2>5. late \subseteq late'
    BY <2>1
  <2> QED BY <2>1, <2>2, <2>3, <2>4, <2>5 DEF UpgradeInv, Upgraded, Installation!Live
<1>10. ASSUME NEW t \in Tenants, Installation!EndTenant(t) PROVE UpgradeInv'
  <2>1. UNCHANGED <<version, migrator, server, late>>
    BY <1>10 DEF Installation!EndTenant
  <2>2. \/ /\ tenant'[t].row = tenant[t].row
           /\ tenant'[t].tables >= server.version /\ tenant'[t].tables >= tenant[t].tables
        \/ tenant'[t].row = "deleted"
    BY <1>0, <1>10 DEF Installation!EndTenant, Installation!TenantRow
  <2>3. \A s \in Tenants \ {t} : tenant'[s] = tenant[s]
    BY <1>0, <1>10 DEF Installation!EndTenant
  <2>4. tenant'[t].row # "deleted" => tenant'[t].tables \in Nat
    BY <1>0, <1>10 DEF Installation!EndTenant, Installation!TenantRow
  <2>5. Installation!Live' \subseteq Installation!Live
    BY <2>2, <2>3 DEF Installation!Live
  <2>6. \A s \in Installation!Live' : Upgraded(s, version) => Upgraded(s, version)'
    BY <1>0, <2>1, <2>2, <2>3, <2>4 DEF Upgraded, Installation!Live
  <2>7. \A s \in Installation!Live' : tenant'[s].whole =>
           \/ tenant[s].whole /\ s # t /\ (Upgraded(s, server.version) => Upgraded(s, server.version)')
           \/ Upgraded(s, server.version)'
    BY <1>0, <2>1, <2>2, <2>3, <2>4 DEF Upgraded, Installation!Live
  <2> QED BY <2>1, <2>5, <2>6, <2>7 DEF UpgradeInv
<1>11. CASE UNCHANGED Installation!vars
  <2>1. SameTenants /\ migrator' = migrator /\ server' = server
    BY <1>11 DEF Installation!vars
  <2> QED BY <2>1 DEF UpgradeInv, Upgraded, Installation!Live
<1> QED
  BY <1>2, <1>3, <1>4, <1>5, <1>6, <1>7, <1>8, <1>9, <1>10, <1>11
  DEF Installation!Next, Installation!MigratorStep, Installation!ServerStep

\* A server never works on a tenant whose tables are older than its code, but for
\* those made after the migrator had read the list (cmd/migrator/main.go:80-110).
THEOREM ServedTenantsAreUpgraded == Installation!Spec => []ServedTenantsAreMigrated
<1>1. Installation!Init => UpgradeInv
  BY DEF Installation!Init, UpgradeInv, Installation!Live, Installation!NoTenant, Installation!NewRun
<1>2. InstallationInv /\ UpgradeInv => ServedTenantsAreMigrated
  BY DEF UpgradeInv, Upgraded, ServedTenantsAreMigrated, Installation!ServedTenantsAreMigrated
<1> QED BY <1>1, <1>2, StartupInit, StartupStep, UpgradeStep, PTL DEF Installation!Spec

-----------------------------------------------------------------------------
(* The parts together *)

LEMMA PartMoves ==
  ASSUME [PartNext]_allVars
  PROVE  /\ [Next]_vars
         /\ [Reports!Next]_(Reports!vars)
         /\ [Installation!Next]_(Installation!vars)
<1>1. CASE CachesStep
  BY <1>1 DEF CachesStep, accountVars, startupVars, Reports!vars, Installation!vars
<1>2. CASE ReportsStep
  BY <1>2 DEF ReportsStep, cacheVars, startupVars, vars, Installation!vars
<1>3. CASE InstallationStep
  BY <1>3 DEF InstallationStep, cacheVars, accountVars, vars, Reports!vars
<1>4. CASE UNCHANGED allVars
  BY <1>4 DEF allVars, cacheVars, accountVars, startupVars, vars, Reports!vars, Installation!vars
<1> QED BY <1>1, <1>2, <1>3, <1>4 DEF PartNext

\* A behaviour of the processes together is one of each part, with its fairness, so
\* what is proved of a part holds of them together too (infra/db.go, jobs/account.go,
\* cmd/migrator and cmd/server share no state here).
THEOREM RuntimeFollowsItsParts == PartSpec => Spec /\ Reports!Spec /\ Installation!Spec
<1>1. PartInit => Init /\ Reports!Init /\ Installation!Init
  BY DEF PartInit
<1> QED BY <1>1, PartMoves, PTL
        DEF PartSpec, PartFairness, Spec, Reports!Spec, Installation!Spec

=============================================================================
