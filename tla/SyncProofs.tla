----------------------------- MODULE SyncProofs -----------------------------
(***************************************************************************)
(* Theorems about Sync: its types, the one process of each plugin, how     *)
(* many posts a profile has, and why a synchronisation ends.               *)
(***************************************************************************)
EXTENDS Sync, FiniteSetTheorems, TLAPS

-----------------------------------------------------------------------------
(* Types *)

\* The steps in which an execution has a profile in hand.
AtProfile == {"newTalk", "contact", "newContact", "generate", "post"}

\* What a worker knows in each step: its tenant; after the system was loaded, a
\* plugin; in the loop, profiles of its tenant.  A plugin is started only while
\* no client of it is cached.
ExecutionInv ==
    \A w \in Workers :
       /\ execution[w].pc # "idle" => execution[w].tenant \in Tenants
       /\ execution[w].pc \in {"plugin", "start"} =>
             execution[w].plugin \in Plugins \cup {Missing}
       /\ execution[w].pc \in AtProfile \cup {"list", "talk"} => execution[w].plugin \in Plugins
       /\ execution[w].pc = "start" => execution[w].plugin \notin Cached
       /\ execution[w].pc \in AtProfile => execution[w].profile \in Profiles
       /\ execution[w].failed => execution[w].pc = "report"

\* A task is held by a worker that executes it, of a workflow that is active and
\* has an attempt and a round left.
WorkflowInv ==
    \A t \in Tenants :
       /\ workflow[t].worker # Null =>
             /\ workflow[t].state = "active"
             /\ execution[workflow[t].worker].pc # "idle"
             /\ execution[workflow[t].worker].tenant = t
       /\ workflow[t].state = "active" =>
             workflow[t].attempts < MaxAttempts /\ rounds[t] < MaxRounds
       /\ workflow[t].state \in {"none", "sleeping"} => workflow[t].attempts = 0
       /\ workflow[t].state = "none" => rounds[t] = 0

TypeInv == TypeOK /\ OneProcessPerPlugin /\ ExecutionInv /\ WorkflowInv

LEMMA TypeInit == Init => TypeInv
<1> SUFFICES ASSUME Init PROVE TypeInv
  OBVIOUS
<1> USE SyncAssumptions DEF Assumptions
<1>1. NoExecution \in Execution
  BY DEF NoExecution, Execution
<1>2. [state |-> "none", attempts |-> 0, worker |-> Null] \in Workflow
  BY DEF Workflow
<1>3. default \in [Tenants -> DefaultSystem]
  <2>1. {[system |-> "seeded", plugin |-> n] : n \in Plugins} \subseteq DefaultSystem
    BY DEF DefaultSystem
  <2> QED BY <2>1 DEF Init
<1>4. TypeOK
  BY <1>1, <1>2, <1>3 DEF Init, TypeOK, NoExecution
<1> QED
  BY <1>4 DEF Init, TypeInv, OneProcessPerPlugin, ExecutionInv, WorkflowInv, NoExecution, Cached,
              AtProfile

\* Worker w goes on to execution e, and the other workers go on with theirs.
Becomes(w, e) == execution' = [execution EXCEPT ![w] = e]

\* The executions that an activity reaches from its own.
Later(w) ==
    {e \in Execution :
       /\ e.pc \notin {"idle", "start"}
       /\ e.tenant = execution[w].tenant
       /\ e.pc = "plugin" => e.plugin \in Plugins \cup {Missing}
       /\ e.pc \in AtProfile \cup {"list", "talk"} => e.plugin \in Plugins
       /\ e.pc \in AtProfile => e.profile \in Profiles
       /\ e.failed => e.pc = "report"}

LEMMA FinishIsLater ==
  ASSUME TypeInv, NEW w \in Workers, execution[w].pc # "idle", NEW f \in BOOLEAN, Finish(w, f)
  PROVE  \E e \in Later(w) : Becomes(w, e) /\ e.pc = "report" /\ e.failed = f
<1> DEFINE e == [execution[w] EXCEPT !.pc = "report", !.failed = f]
<1>1. execution \in [Workers -> Execution] /\ execution[w] \in Execution
  BY DEF TypeInv, TypeOK
<1>2. e \in Later(w) /\ e.pc = "report" /\ e.failed = f
  BY <1>1 DEF Execution, Later, AtProfile
<1>3. Becomes(w, e)
  BY <1>1 DEF Finish, Becomes
<1> QED BY <1>2, <1>3

LEMMA GoToIsLater ==
  ASSUME TypeInv, NEW w \in Workers, execution[w].pc \notin {"idle", "system", "report"},
         execution[w].plugin \in Plugins,
         NEW pc \in {"list", "talk", "contact", "newContact", "generate", "post"}, GoTo(w, pc),
         pc \in AtProfile => execution[w].profile \in Profiles
  PROVE  \E e \in Later(w) : Becomes(w, e) /\ e = [execution[w] EXCEPT !.pc = pc]
<1> DEFINE e == [execution[w] EXCEPT !.pc = pc]
<1>1. execution \in [Workers -> Execution] /\ execution[w] \in Execution
  BY DEF TypeInv, TypeOK
<1>2. execution[w].tenant \in Tenants /\ execution[w].failed = FALSE
  BY <1>1 DEF TypeInv, ExecutionInv, Execution
<1>3. e \in Later(w)
  BY <1>1, <1>2 DEF Execution, Later
<1>4. Becomes(w, e)
  BY <1>1 DEF GoTo, Becomes
<1> QED BY <1>3, <1>4

\* Tables and counters a step may only raise.
CountersOK ==
    /\ talks' \in [Profiles -> Nat] /\ contacts' \in [Profiles -> Nat] /\ posts' \in [Profiles -> Nat]
    /\ failures' \in 0..MaxFailures

LEMMA FailCounts == ASSUME TypeOK, NEW k, Fail(k) PROVE failures' \in 0..MaxFailures
BY SyncAssumptions DEF TypeOK, Fail, Assumptions

LEMMA InsertIsLater ==
  ASSUME TypeInv, NEW w \in Workers, execution[w].pc \in {"newTalk", "newContact", "post"},
         \/ execution[w].pc = "newTalk" /\ Insert(w, talks, "contact") /\ UNCHANGED <<contacts, posts>>
         \/ execution[w].pc = "newContact" /\ Insert(w, contacts, "generate") /\ UNCHANGED <<talks, posts>>
         \/ execution[w].pc = "post" /\ Insert(w, posts, "talk") /\ UNCHANGED <<talks, contacts>>
  PROVE  CountersOK /\ \E e \in Later(w) : Becomes(w, e)
<1>1. PICK next \in {"contact", "generate", "talk"} : GoTo(w, next) \/ Finish(w, TRUE)
  BY DEF Insert
<1>2. execution[w].profile \in Profiles /\ execution[w].plugin \in Plugins
  BY DEF TypeInv, ExecutionInv, AtProfile
<1>3. \E e \in Later(w) : Becomes(w, e)
  <2>1. CASE GoTo(w, next)
    BY <1>1, <1>2, <2>1, GoToIsLater DEF AtProfile
  <2>2. CASE Finish(w, TRUE)
    BY <2>2, FinishIsLater
  <2> QED BY <1>1, <2>1, <2>2
<1>4. failures' \in 0..MaxFailures
  <2>1. UNCHANGED failures \/ Fail("db") \/ Fail("lostReply")
    BY DEF Insert
  <2> QED BY <2>1, FailCounts DEF TypeInv, TypeOK
<1>5. talks' \in [Profiles -> Nat] /\ contacts' \in [Profiles -> Nat] /\ posts' \in [Profiles -> Nat]
  <2>1. ASSUME NEW table \in [Profiles -> Nat]
        PROVE  [table EXCEPT ![execution[w].profile] = @ + 1] \in [Profiles -> Nat]
    BY <1>2, <2>1
  <2>2. talks \in [Profiles -> Nat] /\ contacts \in [Profiles -> Nat] /\ posts \in [Profiles -> Nat]
    BY DEF TypeInv, TypeOK
  <2> QED BY <2>1, <2>2 DEF Insert
<1> QED BY <1>3, <1>4, <1>5 DEF CountersOK

\* The steps of the activity outside the start of a plugin: from its own, the
\* worker goes on to a later execution, and leaves plugins and engine alone.
PlainStep(w) ==
    \/ LoadSystem(w)
    \/ ListProfiles(w)
    \/ EndLoop(w)
    \/ \E p \in Profiles : FindTalk(w, p)
    \/ CreateTalk(w)
    \/ FindContact(w)
    \/ CreateContact(w)
    \/ Generate(w)
    \/ CreatePost(w)

LEMMA PlainStepsGoOn ==
  ASSUME TypeInv, NEW w \in Workers, PlainStep(w)
  PROVE  /\ execution[w].pc \notin {"idle", "start"}
         /\ \E e \in Later(w) : Becomes(w, e)
         /\ CountersOK
         /\ UNCHANGED <<default, engineVars, pluginVars, environment>>
<1>2. ASSUME UNCHANGED failures \/ Fail("db") \/ Fail("rpc"), UNCHANGED tables PROVE CountersOK
  BY <1>2, FailCounts DEF TypeInv, TypeOK, CountersOK, tables
<1>3. execution[w] \in Execution /\ execution \in [Workers -> Execution]
  BY DEF TypeInv, TypeOK
<1>4. execution[w].pc # "idle" => execution[w].tenant \in Tenants
  BY DEF TypeInv, ExecutionInv
<1>5. CASE LoadSystem(w)
  <2>1. CASE Finish(w, TRUE)
    BY <1>2, <1>5, <2>1, FinishIsLater DEF LoadSystem, tables
  <2>2. CASE ~Finish(w, TRUE)
    <3> DEFINE d == default[execution[w].tenant]
               e == [execution[w] EXCEPT !.pc = "plugin", !.system = d.system, !.plugin = d.plugin]
    <3>1. execution' = [execution EXCEPT ![w].pc = "plugin", ![w].system = d.system,
                                         ![w].plugin = d.plugin]
          /\ UNCHANGED failures /\ execution[w].pc = "system"
      BY <1>5, <2>2 DEF LoadSystem
    <3>2. d \in DefaultSystem
      BY <1>4, <3>1 DEF TypeInv, TypeOK
    <3>3. e \in Execution /\ e.pc = "plugin" /\ e.tenant = execution[w].tenant
          /\ e.plugin \in Plugins \cup {Missing} /\ e.failed = execution[w].failed
      BY <1>3, <3>2 DEF Execution, DefaultSystem
    <3>4. ~execution[w].failed
      BY <3>1 DEF TypeInv, ExecutionInv
    <3>5. e \in Later(w)
      BY <3>3, <3>4 DEF Later, AtProfile
    <3>6. Becomes(w, e)
      BY <1>3, <3>1 DEF Becomes
    <3> QED BY <1>2, <1>5, <3>1, <3>5, <3>6 DEF LoadSystem, tables
  <2> QED BY <2>1, <2>2
<1>6. CASE ListProfiles(w)
  <2>1. CASE Finish(w, TRUE)
    BY <1>2, <1>6, <2>1, FinishIsLater DEF ListProfiles, tables
  <2>2. CASE ~Finish(w, TRUE)
    <3> DEFINE s == IF execution[w].system = "seeded" THEN ProfilesOf(execution[w].tenant) ELSE {}
               e == [execution[w] EXCEPT !.pc = "talk", !.todo = s]
    <3>1. execution' = [execution EXCEPT ![w].pc = "talk", ![w].todo = s]
          /\ UNCHANGED failures /\ execution[w].pc = "list"
      BY <1>6, <2>2 DEF ListProfiles
    <3>2. s \in SUBSET Profiles
      BY DEF ProfilesOf
    <3>3. e \in Execution /\ e.pc = "talk" /\ e.tenant = execution[w].tenant
          /\ e.plugin = execution[w].plugin /\ e.failed = execution[w].failed
      BY <1>3, <3>2 DEF Execution
    <3>4. ~execution[w].failed /\ execution[w].plugin \in Plugins
      BY <3>1 DEF TypeInv, ExecutionInv
    <3>5. e \in Later(w)
      BY <3>3, <3>4 DEF Later, AtProfile
    <3>6. Becomes(w, e)
      BY <1>3, <3>1 DEF Becomes
    <3> QED BY <1>2, <1>6, <3>1, <3>5, <3>6 DEF ListProfiles, tables
  <2> QED BY <2>1, <2>2
<1>7. CASE EndLoop(w)
  BY <1>2, <1>7, FinishIsLater DEF EndLoop, tables
<1>8. ASSUME NEW p \in Profiles, FindTalk(w, p)
      PROVE  execution[w].pc = "talk" /\ (\E e \in Later(w) : Becomes(w, e)) /\ CountersOK
  <2>1. CASE Finish(w, TRUE)
    BY <1>2, <1>8, <2>1, FinishIsLater DEF FindTalk, tables
  <2>2. CASE ~Finish(w, TRUE)
    <3> DEFINE pc == IF talks[p] = 0 THEN "newTalk" ELSE "contact"
               e == [execution[w] EXCEPT !.profile = p, !.todo = @ \ {p}, !.pc = pc]
    <3>1. execution' = [execution EXCEPT ![w].profile = p, ![w].todo = @ \ {p}, ![w].pc = pc]
          /\ UNCHANGED failures /\ execution[w].pc = "talk"
      BY <1>8, <2>2 DEF FindTalk
    <3>2. pc \in {"newTalk", "contact"}
      OBVIOUS
    <3> HIDE DEF pc
    <3>3. e \in Execution /\ e.pc = pc /\ e.tenant = execution[w].tenant /\ e.profile = p
          /\ e.plugin = execution[w].plugin /\ e.failed = execution[w].failed
      BY <1>3, <3>2 DEF Execution
    <3>4. ~execution[w].failed /\ execution[w].plugin \in Plugins
      BY <3>1 DEF TypeInv, ExecutionInv
    <3>5. e \in Later(w)
      BY <3>2, <3>3, <3>4 DEF Later, AtProfile
    <3>6. Becomes(w, e)
      BY <1>3, <3>1 DEF Becomes
    <3> QED BY <1>2, <1>8, <3>1, <3>5, <3>6 DEF FindTalk, tables
  <2> QED BY <2>1, <2>2
<1>9. CASE CreateTalk(w) \/ CreateContact(w) \/ CreatePost(w)
  BY <1>9, InsertIsLater DEF CreateTalk, CreateContact, CreatePost
<1>10. CASE FindContact(w) \/ Generate(w)
  <2>1. /\ execution[w].pc \in {"contact", "generate"}
        /\ execution[w].profile \in Profiles /\ execution[w].plugin \in Plugins
    BY <1>10 DEF FindContact, Generate, TypeInv, ExecutionInv, AtProfile
  <2>2. (\E pc \in {"newContact", "generate", "post"} : GoTo(w, pc)) \/ Finish(w, TRUE)
    BY <1>10 DEF FindContact, Generate
  <2>3. CountersOK
    BY <1>2, <1>10 DEF FindContact, Generate
  <2>4. \E e \in Later(w) : Becomes(w, e)
    <3>1. ASSUME NEW pc \in {"newContact", "generate", "post"}, GoTo(w, pc)
          PROVE  \E e \in Later(w) : Becomes(w, e)
      BY <2>1, <3>1, GoToIsLater
    <3>2. CASE Finish(w, TRUE)
      BY <2>1, <3>2, FinishIsLater
    <3> QED BY <2>2, <3>1, <3>2
  <2> QED BY <1>10, <2>1, <2>3, <2>4 DEF FindContact, Generate, tables
<1> QED
  BY <1>5, <1>6, <1>7, <1>8, <1>9, <1>10
     DEF PlainStep, LoadSystem, ListProfiles, EndLoop, FindTalk, CreateTalk, CreateContact,
         CreatePost, FindContact, Generate, tables

\* A worker that goes on with the same task leaves the workflows.
LEMMA WorkflowsStay ==
  ASSUME TypeInv, NEW w \in Workers, execution[w].pc # "idle", UNCHANGED engineVars,
         execution'[w].pc # "idle", execution'[w].tenant = execution[w].tenant,
         \A v \in Workers \ {w} : execution'[v] = execution[v]
  PROVE  WorkflowInv'
BY DEF TypeInv, TypeOK, WorkflowInv, Workflow, engineVars

\* A worker that goes on, beside the start of a plugin, leaves the invariant.
LEMMA PlainKeepsTypes ==
  ASSUME TypeInv, NEW w \in Workers, PlainStep(w)
  PROVE  TypeInv'
<1>1. PICK e \in Later(w) : Becomes(w, e)
  BY PlainStepsGoOn
<1>2. /\ execution[w].pc \notin {"idle", "start"} /\ CountersOK
      /\ UNCHANGED <<default, engineVars, pluginVars, environment>>
  BY PlainStepsGoOn
<1>3. /\ execution' \in [Workers -> Execution]
      /\ execution'[w] = e /\ \A v \in Workers \ {w} : execution'[v] = execution[v]
  BY <1>1 DEF TypeInv, TypeOK, Becomes, Later
<1>4. e.pc # "start" /\ e.pc # "idle" /\ e.tenant = execution[w].tenant
  BY DEF Later
<1>5. TypeOK'
  BY <1>2, <1>3, <1>4 DEF TypeInv, TypeOK, CountersOK, engineVars, pluginVars, environment
<1>6. OneProcessPerPlugin'
  BY <1>2 DEF TypeInv, OneProcessPerPlugin, pluginVars
<1>7. ExecutionInv'
  <2>1. execution[w].tenant \in Tenants
    BY <1>2 DEF TypeInv, ExecutionInv
  <2> SUFFICES ASSUME NEW v \in Workers
               PROVE  /\ execution'[v].pc # "idle" => execution'[v].tenant \in Tenants
                      /\ execution'[v].pc \in {"plugin", "start"} =>
                            execution'[v].plugin \in Plugins \cup {Missing}
                      /\ execution'[v].pc \in AtProfile \cup {"list", "talk"} =>
                            execution'[v].plugin \in Plugins
                      /\ execution'[v].pc = "start" => execution'[v].plugin \notin Cached'
                      /\ execution'[v].pc \in AtProfile => execution'[v].profile \in Profiles
                      /\ execution'[v].failed => execution'[v].pc = "report"
    BY DEF ExecutionInv
  <2>2. Cached' = Cached
    BY <1>2 DEF Cached, pluginVars
  <2>3. CASE v = w
    BY <1>3, <2>1, <2>3 DEF Later
  <2>4. CASE v # w
    BY <1>3, <2>2, <2>4 DEF TypeInv, ExecutionInv
  <2> QED BY <2>3, <2>4
<1>8. WorkflowInv'
  BY <1>2, <1>3, <1>4, WorkflowsStay
<1> QED BY <1>5, <1>6, <1>7, <1>8 DEF TypeInv

\* The step that looks a plugin up takes the mutex, if it is going to start one.
LEMMA LookUpKeepsTypes ==
  ASSUME TypeInv, NEW w \in Workers, LookUpPlugin(w)
  PROVE  TypeInv'
<1> DEFINE n == execution[w].plugin
<1> USE SyncAssumptions DEF Assumptions
<1>1. PICK pc \in {"list", "start"} :
        /\ GoTo(w, pc)
        /\ pc = "list" => UNCHANGED mutex /\ n \in Plugins
        /\ pc = "start" => n \notin Cached /\ mutex' = w
  BY DEF LookUpPlugin, Cached
<1>2. /\ execution[w].pc = "plugin" /\ mutex = Null
      /\ UNCHANGED <<tables, engineVars, cache, processes, environment, failures>>
  BY DEF LookUpPlugin
<1>3. /\ execution' \in [Workers -> Execution]
      /\ execution'[w] = [execution[w] EXCEPT !.pc = pc]
      /\ \A v \in Workers \ {w} : execution'[v] = execution[v]
  <2>1. execution \in [Workers -> Execution]
    BY DEF TypeInv, TypeOK
  <2>2. GoTo(w, pc) /\ pc \in {"list", "start"}
    BY <1>1
  <2>3. execution' = [execution EXCEPT ![w] = [execution[w] EXCEPT !.pc = pc]]
    BY <2>2 DEF GoTo
  <2>4. execution[w] \in Execution
    BY <2>1
  <2>5. [execution[w] EXCEPT !.pc = pc] \in Execution
    BY <2>2, <2>4 DEF Execution
  <2> QED BY <2>1, <2>3, <2>5
<1>4. /\ execution'[w].pc = pc /\ execution'[w].tenant = execution[w].tenant
      /\ execution'[w].plugin = n /\ execution'[w].profile = execution[w].profile
      /\ execution'[w].failed = execution[w].failed
  BY <1>3 DEF TypeInv, TypeOK, Execution
<1>5. \A v \in Workers : execution[v].pc # "start"
  BY <1>2 DEF TypeInv, TypeOK
<1>6. \A v \in Workers : mutex' = v <=> execution'[v].pc = "start"
  BY <1>1, <1>2, <1>3, <1>4, <1>5
<1>7. TypeOK'
  BY <1>2, <1>3, <1>6 DEF TypeInv, TypeOK, tables, engineVars, environment
<1>8. OneProcessPerPlugin'
  BY <1>2 DEF TypeInv, OneProcessPerPlugin
<1>9. ExecutionInv'
  <2>1. Cached' = Cached
    BY <1>2 DEF Cached
  <2>2. execution[w].tenant \in Tenants /\ n \in Plugins \cup {Missing} /\ ~execution[w].failed
    BY <1>2 DEF TypeInv, ExecutionInv
  <2>3. pc \notin AtProfile /\ (pc = "start" => n \notin Cached) /\ (pc = "list" => n \in Plugins)
    BY <1>1 DEF AtProfile
  <2> SUFFICES ASSUME NEW v \in Workers
               PROVE  /\ execution'[v].pc # "idle" => execution'[v].tenant \in Tenants
                      /\ execution'[v].pc \in {"plugin", "start"} =>
                            execution'[v].plugin \in Plugins \cup {Missing}
                      /\ execution'[v].pc \in AtProfile \cup {"list", "talk"} =>
                            execution'[v].plugin \in Plugins
                      /\ execution'[v].pc = "start" => execution'[v].plugin \notin Cached'
                      /\ execution'[v].pc \in AtProfile => execution'[v].profile \in Profiles
                      /\ execution'[v].failed => execution'[v].pc = "report"
    BY DEF ExecutionInv
  <2>4. CASE v = w
    BY <1>4, <2>1, <2>2, <2>3, <2>4
  <2>5. CASE v # w
    BY <1>3, <2>1, <2>5 DEF TypeInv, ExecutionInv
  <2> QED BY <2>4, <2>5
<1>10. WorkflowInv'
  BY <1>1, <1>2, <1>3, <1>4, WorkflowsStay
<1> QED BY <1>7, <1>8, <1>9, <1>10 DEF TypeInv

\* Only the holder of the mutex starts a plugin, and none is cached then: its
\* process is the first.
LEMMA StartKeepsTypes ==
  ASSUME TypeInv, NEW w \in Workers, StartPlugin(w)
  PROVE  TypeInv'
<1> DEFINE n == execution[w].plugin
<1> USE SyncAssumptions DEF Assumptions
<1>1. execution[w].pc = "start" /\ mutex' = Null
      /\ UNCHANGED <<tables, engineVars, environment>>
  BY DEF StartPlugin
<1>2. \A v \in Workers \ {w} : execution[v].pc # "start"
  BY <1>1 DEF TypeInv, TypeOK
<1>3. n \notin Cached
  BY <1>1 DEF TypeInv, ExecutionInv
<1>4. PICK e \in Later(w) : Becomes(w, e)
  <2>1. CASE GoTo(w, "list") /\ n \in Plugins
    BY <1>1, <2>1, GoToIsLater DEF AtProfile
  <2>2. CASE Finish(w, TRUE)
    BY <1>1, <2>2, FinishIsLater
  <2> QED BY <2>1, <2>2 DEF StartPlugin
<1>5. /\ execution' \in [Workers -> Execution]
      /\ execution'[w] = e /\ \A v \in Workers \ {w} : execution'[v] = execution[v]
  BY <1>4 DEF TypeInv, TypeOK, Becomes, Later
<1>6. e.pc # "start" /\ e.pc # "idle" /\ e.tenant = execution[w].tenant
  BY DEF Later
<1>7. failures' \in 0..MaxFailures
  BY FailCounts DEF StartPlugin, TypeInv, TypeOK
<1>8. /\ cache' \in [Plugins -> {"none", "running", "dead"}]
      /\ processes' \in [Plugins -> Nat]
      /\ OneProcessPerPlugin'
  <2>1. CASE UNCHANGED <<cache, processes>>
    BY <2>1 DEF TypeInv, TypeOK, OneProcessPerPlugin
  <2>2. CASE /\ n \in Plugins
             /\ cache' = [cache EXCEPT ![n] = "running"]
             /\ processes' = [processes EXCEPT ![n] = @ + 1]
    <3>1. processes[n] = 0
      BY <1>3, <2>2 DEF TypeInv, TypeOK, OneProcessPerPlugin, Cached
    <3> QED BY <2>2, <3>1 DEF TypeInv, TypeOK, OneProcessPerPlugin
  <2> QED BY <2>1, <2>2 DEF StartPlugin
<1>9. TypeOK'
  <2>1. \A v \in Workers : mutex' = v <=> execution'[v].pc = "start"
    BY <1>1, <1>2, <1>5, <1>6
  <2> QED BY <1>1, <1>5, <1>7, <1>8, <2>1 DEF TypeInv, TypeOK, tables, engineVars, environment
<1>10. ExecutionInv'
  <2>1. execution[w].tenant \in Tenants
    BY <1>1 DEF TypeInv, ExecutionInv
  <2> SUFFICES ASSUME NEW v \in Workers
               PROVE  /\ execution'[v].pc # "idle" => execution'[v].tenant \in Tenants
                      /\ execution'[v].pc \in {"plugin", "start"} =>
                            execution'[v].plugin \in Plugins \cup {Missing}
                      /\ execution'[v].pc \in AtProfile \cup {"list", "talk"} =>
                            execution'[v].plugin \in Plugins
                      /\ execution'[v].pc # "start"
                      /\ execution'[v].pc \in AtProfile => execution'[v].profile \in Profiles
                      /\ execution'[v].failed => execution'[v].pc = "report"
    BY DEF ExecutionInv
  <2>2. CASE v = w
    BY <1>5, <2>1, <2>2 DEF Later
  <2>3. CASE v # w
    BY <1>2, <1>5, <2>3 DEF TypeInv, ExecutionInv
  <2> QED BY <2>2, <2>3
<1>11. WorkflowInv'
  BY <1>1, <1>5, <1>6, WorkflowsStay
<1> QED BY <1>8, <1>9, <1>10, <1>11 DEF TypeInv

\* A step of the engine that leaves the plugins alone and no worker in the start of one.
LEMMA EngineKeepsTypes ==
  ASSUME TypeInv, WorkflowInv', UNCHANGED <<tables, pluginVars, environment>>,
         workflow' \in [Tenants -> Workflow], rounds' \in [Tenants -> 0..MaxRounds],
         failures' \in 0..MaxFailures, execution' \in [Workers -> Execution],
         \A v \in Workers :
            \/ execution'[v] = execution[v]
            \/ execution'[v] = NoExecution /\ execution[v].pc # "start"
            \/ /\ execution'[v].pc = "system" /\ execution'[v].tenant \in Tenants
               /\ execution'[v].failed = FALSE
               /\ execution[v].pc = "idle"
  PROVE  TypeInv'
<1>1. \A v \in Workers : execution'[v].pc = "start" <=> execution[v].pc = "start"
  BY DEF NoExecution
<1>2. TypeOK'
  BY <1>1 DEF TypeInv, TypeOK, tables, pluginVars, environment
<1>3. OneProcessPerPlugin'
  BY DEF TypeInv, OneProcessPerPlugin, pluginVars
<1>4. ExecutionInv'
  <2>1. Cached' = Cached
    BY DEF Cached, pluginVars
  <2> QED BY <2>1 DEF TypeInv, ExecutionInv, NoExecution, AtProfile
<1> QED BY <1>2, <1>3, <1>4 DEF TypeInv

LEMMA TakeKeepsTypes ==
  ASSUME TypeInv, NEW w \in Workers, NEW t \in Tenants, TakeTask(w, t)
  PROVE  TypeInv'
<1> DEFINE e == [NoExecution EXCEPT !.pc = "system", !.tenant = t]
<1> USE SyncAssumptions DEF Assumptions
<1>1. /\ execution[w].pc = "idle" /\ workflow[t].state = "active" /\ workflow[t].worker = Null
      /\ UNCHANGED <<tables, rounds, pluginVars, environment, failures>>
  BY DEF TakeTask
<1>2. e \in Execution /\ e.pc = "system" /\ e.tenant = t /\ e.failed = FALSE
  BY DEF NoExecution, Execution
<1>3. /\ execution' \in [Workers -> Execution]
      /\ execution'[w] = e /\ \A v \in Workers \ {w} : execution'[v] = execution[v]
  BY <1>2 DEF TakeTask, TypeInv, TypeOK
<1>4. /\ workflow' \in [Tenants -> Workflow]
      /\ workflow'[t].worker = w /\ workflow'[t].state = "active"
      /\ workflow'[t].attempts = workflow[t].attempts
      /\ \A u \in Tenants \ {t} : workflow'[u] = workflow[u]
  BY <1>1 DEF TakeTask, TypeInv, TypeOK, Workflow
<1>5. WorkflowInv'
  <2>1. \A u \in Tenants : workflow[u].worker # w
    BY <1>1 DEF TypeInv, WorkflowInv
  <2>2. \A u \in Tenants : workflow[u].worker \in Workers \cup {Null}
    BY DEF TypeInv, TypeOK, Workflow
  <2> SUFFICES ASSUME NEW u \in Tenants
               PROVE  /\ workflow'[u].worker # Null =>
                            /\ workflow'[u].state = "active"
                            /\ execution'[workflow'[u].worker].pc # "idle"
                            /\ execution'[workflow'[u].worker].tenant = u
                      /\ workflow'[u].state = "active" =>
                            workflow'[u].attempts < MaxAttempts /\ rounds'[u] < MaxRounds
                      /\ workflow'[u].state \in {"none", "sleeping"} => workflow'[u].attempts = 0
                      /\ workflow'[u].state = "none" => rounds'[u] = 0
    BY DEF WorkflowInv
  <2>3. CASE u = t
    BY <1>1, <1>2, <1>3, <1>4, <2>3 DEF TypeInv, WorkflowInv
  <2>4. CASE u # t
    <3>1. workflow'[u] = workflow[u]
      BY <1>4, <2>4
    <3>2. workflow[u].worker # Null => execution'[workflow[u].worker] = execution[workflow[u].worker]
      BY <1>3, <2>1, <2>2
    <3> QED BY <1>1, <3>1, <3>2 DEF TypeInv, WorkflowInv
  <2> QED BY <2>3, <2>4
<1>6. failures' \in 0..MaxFailures /\ rounds' \in [Tenants -> 0..MaxRounds]
  BY <1>1 DEF TypeInv, TypeOK
<1>7. \A v \in Workers :
         \/ execution'[v] = execution[v]
         \/ /\ execution'[v].pc = "system" /\ execution'[v].tenant \in Tenants
            /\ execution'[v].failed = FALSE
            /\ execution[v].pc = "idle"
  BY <1>1, <1>2, <1>3
<1> QED BY <1>1, <1>3, <1>4, <1>5, <1>6, <1>7, EngineKeepsTypes

LEMMA ReportKeepsTypes ==
  ASSUME TypeInv, NEW w \in Workers, ReportResult(w)
  PROVE  TypeInv'
<1> DEFINE t == execution[w].tenant
<1> USE SyncAssumptions DEF Assumptions
<1>1. /\ execution[w].pc = "report" /\ t \in Tenants
      /\ UNCHANGED <<tables, pluginVars, environment, failures>>
  BY DEF ReportResult, TypeInv, ExecutionInv
<1>2. /\ execution' \in [Workers -> Execution]
      /\ execution'[w] = NoExecution /\ \A v \in Workers \ {w} : execution'[v] = execution[v]
  <2>1. NoExecution \in Execution
    BY DEF NoExecution, Execution
  <2> QED BY <2>1 DEF ReportResult, TypeInv, TypeOK
<1>3. \A u \in Tenants \ {t} : workflow[u].worker # w
  BY <1>1 DEF TypeInv, WorkflowInv
<1>4. \A u \in Tenants : workflow[u].worker \in Workers \cup {Null}
  BY DEF TypeInv, TypeOK, Workflow
<1>5. workflow[t] \in Workflow /\ rounds[t] \in 0..MaxRounds
  BY <1>1 DEF TypeInv, TypeOK
<1>6. /\ \A u \in Tenants \ {t} : workflow'[u] = workflow[u] /\ rounds'[u] = rounds[u]
      /\ workflow' \in [Tenants -> Workflow] /\ rounds' \in [Tenants -> 0..MaxRounds]
      /\ \/ workflow[t].worker # w /\ workflow'[t] = workflow[t] /\ rounds'[t] = rounds[t]
         \/ workflow'[t] = [state |-> "sleeping", attempts |-> 0, worker |-> Null]
         \/ /\ rounds'[t] = rounds[t] /\ rounds[t] < MaxRounds
            /\ workflow'[t].worker = Null /\ workflow'[t].state \in {"active", "failed"}
            /\ workflow'[t].state = "active" => workflow'[t].attempts < MaxAttempts
  <2>1. CASE UNCHANGED engineVars /\ workflow[t].worker # w
    BY <2>1 DEF engineVars, TypeInv, TypeOK
  <2>2. CASE /\ workflow[t].worker = w
             /\ workflow' = [workflow EXCEPT ![t] =
                   [state |-> "sleeping", attempts |-> 0, worker |-> Null]]
             /\ rounds' = [rounds EXCEPT ![t] = @ + 1]
    <3>1. rounds[t] < MaxRounds
      BY <1>1, <2>2 DEF TypeInv, WorkflowInv
    <3>2. [state |-> "sleeping", attempts |-> 0, worker |-> Null] \in Workflow
      BY DEF Workflow
    <3> QED BY <1>1, <1>5, <2>2, <3>1, <3>2 DEF TypeInv, TypeOK
  <2>3. CASE /\ workflow[t].worker = w /\ UNCHANGED rounds
             /\ workflow' = [workflow EXCEPT ![t] =
                   [state    |-> IF workflow[t].attempts + 1 < MaxAttempts THEN "active" ELSE "failed",
                    attempts |-> workflow[t].attempts + 1,
                    worker   |-> Null]]
    <3>1. workflow[t].attempts < MaxAttempts /\ rounds[t] < MaxRounds
      BY <1>1, <2>3 DEF TypeInv, WorkflowInv
    <3>2. workflow[t].attempts + 1 \in 0..MaxAttempts
      BY <1>5, <3>1 DEF Workflow
    <3>3. [state    |-> IF workflow[t].attempts + 1 < MaxAttempts THEN "active" ELSE "failed",
           attempts |-> workflow[t].attempts + 1,
           worker   |-> Null] \in Workflow
      BY <3>2 DEF Workflow
    <3> QED BY <1>1, <2>3, <3>1, <3>3 DEF TypeInv, TypeOK
  <2> QED BY <2>1, <2>2, <2>3 DEF ReportResult
<1>7. WorkflowInv'
  <2> SUFFICES ASSUME NEW u \in Tenants
               PROVE  /\ workflow'[u].worker # Null =>
                            /\ workflow'[u].state = "active"
                            /\ execution'[workflow'[u].worker].pc # "idle"
                            /\ execution'[workflow'[u].worker].tenant = u
                      /\ workflow'[u].state = "active" =>
                            workflow'[u].attempts < MaxAttempts /\ rounds'[u] < MaxRounds
                      /\ workflow'[u].state \in {"none", "sleeping"} => workflow'[u].attempts = 0
                      /\ workflow'[u].state = "none" => rounds'[u] = 0
    BY DEF WorkflowInv
  <2>1. CASE workflow'[u] = workflow[u] /\ rounds'[u] = rounds[u] /\ workflow[u].worker # w
    <3>1. workflow[u].worker # Null => execution'[workflow[u].worker] = execution[workflow[u].worker]
      BY <1>2, <1>4, <2>1
    <3> QED BY <2>1, <3>1 DEF TypeInv, WorkflowInv
  <2>2. CASE u = t /\ workflow'[t] = [state |-> "sleeping", attempts |-> 0, worker |-> Null]
    BY <2>2
  <2>3. CASE /\ u = t /\ rounds'[t] = rounds[t] /\ rounds[t] < MaxRounds
             /\ workflow'[t].worker = Null /\ workflow'[t].state \in {"active", "failed"}
             /\ workflow'[t].state = "active" => workflow'[t].attempts < MaxAttempts
    BY <2>3
  <2> QED BY <1>3, <1>6, <2>1, <2>2, <2>3
<1>8. failures' \in 0..MaxFailures
  BY <1>1 DEF TypeInv, TypeOK
<1> QED BY <1>1, <1>2, <1>6, <1>7, <1>8, EngineKeepsTypes

LEMMA ScheduleKeepsTypes ==
  ASSUME TypeInv, NEW t \in Tenants, StartSync(t) \/ WakeUp(t) \/ RedeliverTask(t)
  PROVE  TypeInv'
<1> USE SyncAssumptions DEF Assumptions
<1>1. workflow[t] \in Workflow /\ execution \in [Workers -> Execution]
      /\ workflow \in [Tenants -> Workflow]
  BY DEF TypeInv, TypeOK
<1>2. UNCHANGED <<tables, rounds, execution, pluginVars, environment>>
  BY DEF StartSync, WakeUp, RedeliverTask
<1>3. failures' \in 0..MaxFailures
  BY FailCounts DEF StartSync, WakeUp, RedeliverTask, TypeInv, TypeOK
<1>4. /\ workflow' \in [Tenants -> Workflow]
      /\ \A u \in Tenants \ {t} : workflow'[u] = workflow[u]
      /\ workflow'[t].attempts = workflow[t].attempts
      /\ \/ /\ workflow[t].state \in {"none", "sleeping"} /\ workflow'[t].state = "active"
            /\ workflow'[t].worker = workflow[t].worker
         \/ workflow'[t].state = workflow[t].state /\ workflow'[t].worker = Null
  BY <1>1 DEF StartSync, WakeUp, RedeliverTask, Workflow
<1>5. \/ workflow'[t].state = workflow[t].state
      \/ rounds[t] < MaxRounds /\ workflow[t].attempts < MaxAttempts
  BY <1>1, <1>2 DEF StartSync, WakeUp, RedeliverTask, TypeInv, WorkflowInv, Workflow
<1>6. WorkflowInv'
  BY <1>2, <1>4, <1>5 DEF TypeInv, WorkflowInv
<1>7. rounds' \in [Tenants -> 0..MaxRounds] /\ execution' \in [Workers -> Execution]
  BY <1>2 DEF TypeInv, TypeOK
<1> QED BY <1>2, <1>3, <1>4, <1>6, <1>7, EngineKeepsTypes

\* The worker process stops: nothing of it is left.
LEMMA CrashKeepsTypes ==
  ASSUME TypeInv, CrashWorker
  PROVE  TypeInv'
<1> USE SyncAssumptions DEF Assumptions
<1>1. /\ execution' = [w \in Workers |-> NoExecution] /\ NoExecution \in Execution
      /\ mutex' = Null
      /\ cache' = [n \in Plugins |-> "none"] /\ processes' = [n \in Plugins |-> 0]
      /\ UNCHANGED <<tables, rounds, environment>>
  BY DEF CrashWorker, NoExecution, Execution
<1>2. failures' \in 0..MaxFailures
  BY FailCounts DEF CrashWorker, TypeInv
<1>3. /\ workflow' \in [Tenants -> Workflow]
      /\ \A t \in Tenants : /\ workflow'[t].worker = Null
                            /\ workflow'[t].state = workflow[t].state
                            /\ workflow'[t].attempts = workflow[t].attempts
  BY DEF CrashWorker, TypeInv, TypeOK, Workflow
<1>4. TypeOK'
  BY <1>1, <1>2, <1>3 DEF TypeInv, TypeOK, NoExecution, tables, environment
<1>5. OneProcessPerPlugin'
  BY <1>1 DEF OneProcessPerPlugin
<1>6. ExecutionInv'
  BY <1>1 DEF ExecutionInv, NoExecution, AtProfile
<1>7. WorkflowInv'
  BY <1>1, <1>3 DEF TypeInv, WorkflowInv
<1> QED BY <1>4, <1>5, <1>6, <1>7 DEF TypeInv

\* A plugin exits, or the default system changes: no worker takes a step.
LEMMA EnvironmentKeepsTypes ==
  ASSUME TypeInv,
         \/ \E n \in Plugins : ExitPlugin(n)
         \/ \E t \in Tenants, n \in Plugins \cup {Missing} :
               UpdateSystem(t, n) \/ CreateSystem(t, n) \/ RemoveDefault(t, n)
  PROVE  TypeInv'
<1> USE SyncAssumptions DEF Assumptions
<1>1. UNCHANGED <<talks, contacts, posts, engineVars, execution, mutex>>
  BY DEF ExitPlugin, UpdateSystem, CreateSystem, RemoveDefault, Change, tables, pluginVars
<1>2. WorkflowInv'
  BY <1>1 DEF TypeInv, WorkflowInv, engineVars
<1>3. ASSUME NEW n \in Plugins, ExitPlugin(n) PROVE TypeInv'
  <2>1. /\ cache[n] = "running" /\ cache' = [cache EXCEPT ![n] = "dead"]
        /\ processes' = [processes EXCEPT ![n] = @ - 1] /\ exited' = exited \cup {n}
        /\ UNCHANGED <<default, touched, changes>>
    BY <1>3 DEF ExitPlugin, tables
  <2>2. processes[n] = 1
    BY <2>1 DEF TypeInv, OneProcessPerPlugin
  <2>3. OneProcessPerPlugin' /\ Cached' = Cached
    BY <2>1, <2>2 DEF TypeInv, TypeOK, OneProcessPerPlugin, Cached
  <2>4. failures' \in 0..MaxFailures
    BY <1>3, FailCounts DEF ExitPlugin, TypeInv
  <2>5. processes' \in [Plugins -> Nat] /\ cache' \in [Plugins -> {"none", "running", "dead"}]
    BY <2>1, <2>2 DEF TypeInv, TypeOK
  <2>6. TypeOK'
    BY <1>1, <2>1, <2>4, <2>5 DEF TypeInv, TypeOK, engineVars
  <2>7. ExecutionInv'
    BY <1>1, <2>3 DEF TypeInv, ExecutionInv
  <2> QED BY <1>2, <2>3, <2>6, <2>7 DEF TypeInv
<1>4. ASSUME NEW t \in Tenants, NEW system \in {"none", "seeded", "new"},
             NEW n \in Plugins \cup {Missing}, Change(t, system, n)
      PROVE  TypeInv'
  <2>1. /\ default' \in [Tenants -> DefaultSystem] /\ touched' \subseteq Tenants
        /\ changes' \in 0..MaxChanges
        /\ UNCHANGED <<pluginVars, exited, failures>>
    BY <1>4 DEF Change, TypeInv, TypeOK, DefaultSystem
  <2>2. TypeOK'
    BY <1>1, <2>1 DEF TypeInv, TypeOK, engineVars, pluginVars
  <2>3. OneProcessPerPlugin' /\ Cached' = Cached
    BY <2>1 DEF TypeInv, OneProcessPerPlugin, Cached, pluginVars
  <2>4. ExecutionInv'
    BY <1>1, <2>3 DEF TypeInv, ExecutionInv
  <2> QED BY <1>2, <2>2, <2>3, <2>4 DEF TypeInv
<1>5. ASSUME NEW t \in Tenants, NEW n \in Plugins \cup {Missing},
             UpdateSystem(t, n) \/ CreateSystem(t, n) \/ RemoveDefault(t, n)
      PROVE  TypeInv'
  <2>1. default[t].system \in {"none", "seeded", "new"}
        /\ default[t].plugin \in Plugins \cup {Missing}
    BY DEF TypeInv, TypeOK, DefaultSystem
  <2> QED BY <1>4, <1>5, <2>1 DEF UpdateSystem, CreateSystem, RemoveDefault
<1> QED BY <1>3, <1>5

LEMMA TypeStep == TypeInv /\ [Next]_vars => TypeInv'
<1> SUFFICES ASSUME TypeInv, [Next]_vars PROVE TypeInv'
  OBVIOUS
<1>1. ASSUME NEW w \in Workers, ActivityStep(w) PROVE TypeInv'
  <2>1. PlainStep(w) \/ LookUpPlugin(w) \/ StartPlugin(w) \/ ReportResult(w)
    BY <1>1 DEF ActivityStep, PlainStep
  <2> QED BY <2>1, PlainKeepsTypes, LookUpKeepsTypes, StartKeepsTypes, ReportKeepsTypes
<1>2. CASE UNCHANGED vars
  BY <1>2 DEF TypeInv, TypeOK, OneProcessPerPlugin, ExecutionInv, WorkflowInv, Cached, vars,
              tables, engineVars, pluginVars, environment
<1> QED
  BY <1>1, <1>2, TakeKeepsTypes, ScheduleKeepsTypes, CrashKeepsTypes, EnvironmentKeepsTypes
     DEF Next

LEMMA TypesHold == Spec => []TypeInv
BY TypeInit, TypeStep, PTL DEF Spec

\* Every variable keeps its type: the mutex is held by the worker that starts a
\* plugin and by nobody else (jobs/sync.go:93-117).
THEOREM TypeCorrect == Spec => []TypeOK
<1>1. TypeInv => TypeOK
  BY DEF TypeInv
<1> QED BY <1>1, TypesHold, PTL

\* However many tenants use a plugin at once, and whatever fails, one process of
\* it runs, and the cache knows it (jobs/sync.go:94-116).
THEOREM PluginsAreShared == Spec => []OneProcessPerPlugin
<1>1. TypeInv => OneProcessPerPlugin
  BY DEF TypeInv
<1> QED BY <1>1, TypesHold, PTL

-----------------------------------------------------------------------------
(* What a worker does in a step of its activity *)

\* The client the worker was given is that of a process that exited.
Dead(w) == execution[w].plugin \in Plugins /\ cache[execution[w].plugin] = "dead"

WorkStep(w) == PlainStep(w) \/ LookUpPlugin(w) \/ StartPlugin(w)

Reaches(w, e) == execution'[w] = e /\ \A v \in Workers \ {w} : execution'[v] = execution[v]

\* The pairs of steps of the activity of which one follows the other.
Follows ==
    {<<"plugin", "start">>, <<"plugin", "list">>, <<"start", "list">>,
     <<"newTalk", "contact">>, <<"contact", "newContact">>, <<"contact", "generate">>,
     <<"newContact", "generate">>, <<"generate", "post">>, <<"post", "talk">>}

\* It fails, for a failure or for one of three other reasons.
CutShort(w) ==
    /\ Reaches(w, [execution[w] EXCEPT !.pc = "report", !.failed = TRUE])
    /\ \/ failures' = failures + 1
       \/ /\ execution[w].pc = "system"
          /\ default[execution[w].tenant].system = "none"
       \/ execution[w].pc = "start" /\ execution[w].plugin = Missing
       \/ execution[w].pc = "generate" /\ Dead(w)

Ends(w) ==
    /\ execution[w].pc = "talk" /\ execution[w].todo = {}
    /\ Reaches(w, [execution[w] EXCEPT !.pc = "report", !.failed = FALSE])

Loads(w) ==
    LET d == default[execution[w].tenant] IN
    /\ execution[w].pc = "system" /\ d.system # "none"
    /\ Reaches(w, [execution[w] EXCEPT !.pc = "plugin", !.system = d.system, !.plugin = d.plugin])

Proceeds(w) ==
    \E pc \in {"start", "list", "contact", "newContact", "generate", "post", "talk"} :
       /\ <<execution[w].pc, pc>> \in Follows
       /\ Reaches(w, [execution[w] EXCEPT !.pc = pc])
       /\ pc = "post" => ~Dead(w)

Lists(w) ==
    /\ execution[w].pc = "list"
    /\ Reaches(w, [execution[w] EXCEPT !.pc = "talk",
         !.todo = IF execution[w].system = "seeded" THEN ProfilesOf(execution[w].tenant) ELSE {}])

Finds(w) ==
    \E p \in Profiles, pc \in {"newTalk", "contact"} :
       /\ execution[w].pc = "talk" /\ p \in execution[w].todo
       /\ Reaches(w, [execution[w] EXCEPT !.profile = p, !.todo = execution[w].todo \ {p}, !.pc = pc])

\* Only the last step for a profile inserts a post.
Posts(w) ==
    \/ UNCHANGED posts /\ ~(Proceeds(w) /\ execution[w].pc = "post")
    \/ /\ execution[w].pc = "post"
       /\ posts' = [posts EXCEPT ![execution[w].profile] = @ + 1]
       /\ Proceeds(w) \/ failures' = failures + 1

LEMMA FinishReaches ==
  ASSUME TypeInv, NEW w \in Workers, NEW f \in BOOLEAN, Finish(w, f)
  PROVE  Reaches(w, [execution[w] EXCEPT !.pc = "report", !.failed = f])
BY DEF TypeInv, TypeOK, Execution, Finish, Reaches

LEMMA GoToReaches ==
  ASSUME TypeInv, NEW w \in Workers, NEW pc, GoTo(w, pc)
  PROVE  Reaches(w, [execution[w] EXCEPT !.pc = pc])
BY DEF TypeInv, TypeOK, Execution, GoTo, Reaches

LEMMA WorkMoves ==
  ASSUME TypeInv, NEW w \in Workers, WorkStep(w)
  PROVE  /\ execution[w].pc \notin {"idle", "report"}
         /\ UNCHANGED <<default, engineVars, environment>>
         /\ failures' \in {failures, failures + 1}
         /\ \A n \in Plugins : cache'[n] = "dead" <=> cache[n] = "dead"
         /\ CutShort(w) \/ Ends(w) \/ Loads(w) \/ Proceeds(w) \/ Lists(w) \/ Finds(w)
         /\ Posts(w)
<1> DEFINE Same == UNCHANGED <<default, engineVars, environment>>
           Counts == failures' \in {failures, failures + 1}
           Moves == CutShort(w) \/ Ends(w) \/ Loads(w) \/ Proceeds(w) \/ Lists(w) \/ Finds(w)
<1>1. ASSUME Fail("db") \/ Fail("rpc") \/ Fail("lostReply"), Finish(w, TRUE)
      PROVE  CutShort(w) /\ failures' = failures + 1
  BY <1>1, FinishReaches DEF Fail, CutShort
<1>2. ASSUME NEW pc \in {"start", "list", "contact", "newContact", "generate", "post", "talk"},
             GoTo(w, pc), <<execution[w].pc, pc>> \in Follows, pc = "post" => ~Dead(w)
      PROVE  Proceeds(w)
  BY <1>2, GoToReaches DEF Proceeds
<1>3. execution[w] \in Execution /\ execution \in [Workers -> Execution]
  BY DEF TypeInv, TypeOK
<1>4. CASE LoadSystem(w)
  <2> DEFINE d == default[execution[w].tenant]
  <2>1. CASE d.system = "none" /\ Finish(w, TRUE) /\ UNCHANGED failures
    <3>1. CutShort(w)
      BY <1>4, <2>1, FinishReaches DEF LoadSystem, CutShort
    <3> QED BY <1>4, <2>1, <3>1 DEF LoadSystem, tables, pluginVars, Posts
  <2>2. CASE Fail("db") /\ Finish(w, TRUE)
    BY <1>1, <1>4, <2>2 DEF LoadSystem, tables, pluginVars, Fail, Posts
  <2>3. CASE /\ d.system # "none" /\ UNCHANGED failures
             /\ execution' = [execution EXCEPT ![w].pc = "plugin", ![w].system = d.system,
                                               ![w].plugin = d.plugin]
    <3>1. Loads(w)
      BY <1>3, <1>4, <2>3 DEF LoadSystem, Loads, Reaches, Execution
    <3> QED BY <1>4, <2>3, <3>1 DEF LoadSystem, tables, pluginVars, Posts
  <2> QED BY <1>4, <2>1, <2>2, <2>3 DEF LoadSystem
<1>5. CASE LookUpPlugin(w)
  <2>1. Proceeds(w)
    BY <1>2, <1>5 DEF LookUpPlugin, Follows
  <2> QED BY <1>5, <2>1 DEF LookUpPlugin, tables, pluginVars, Posts
<1>6. CASE StartPlugin(w)
  <2>1. CutShort(w) \/ Proceeds(w)
    BY <1>1, <1>2, <1>6, FinishReaches DEF StartPlugin, Follows, CutShort
  <2>2. \A n \in Plugins : cache'[n] = "dead" <=> cache[n] = "dead"
    <3>1. execution[w].plugin \notin Cached
      BY <1>6 DEF StartPlugin, TypeInv, ExecutionInv
    <3> QED BY <1>6, <3>1 DEF StartPlugin, TypeInv, TypeOK, Cached
  <2> QED BY <1>6, <2>1, <2>2 DEF StartPlugin, tables, Fail, Posts
<1>7. CASE ListProfiles(w)
  <2>1. CASE Fail("db") /\ Finish(w, TRUE)
    BY <1>1, <1>7, <2>1 DEF ListProfiles, tables, pluginVars, Fail, Posts
  <2>2. CASE ~(Fail("db") /\ Finish(w, TRUE))
    <3>1. Lists(w)
      BY <1>3, <1>7, <2>2 DEF ListProfiles, Lists, Reaches, Execution
    <3> QED BY <1>7, <2>2, <3>1 DEF ListProfiles, tables, pluginVars, Posts
  <2> QED BY <2>1, <2>2
<1>8. CASE EndLoop(w)
  <2>1. Ends(w)
    BY <1>8, FinishReaches DEF EndLoop, Ends
  <2> QED BY <1>8, <2>1 DEF EndLoop, tables, pluginVars, Posts
<1>9. ASSUME NEW p \in Profiles, FindTalk(w, p)
       PROVE  Same /\ Counts /\ Moves /\ UNCHANGED <<posts, cache>> /\ execution[w].pc = "talk"
  <2>1. CASE Fail("db") /\ Finish(w, TRUE)
    BY <1>1, <1>9, <2>1 DEF FindTalk, tables, pluginVars, Fail
  <2>2. CASE /\ execution' = [execution EXCEPT ![w].profile = p,
                                               ![w].todo = @ \ {p},
                                               ![w].pc = IF talks[p] = 0 THEN "newTalk" ELSE "contact"]
             /\ UNCHANGED failures
    <3>1. PICK pc \in {"newTalk", "contact"} : pc = IF talks[p] = 0 THEN "newTalk" ELSE "contact"
      OBVIOUS
    <3>2. execution' = [execution EXCEPT ![w] =
             [execution[w] EXCEPT !.profile = p, !.todo = execution[w].todo \ {p}, !.pc = pc]]
      BY <1>3, <2>2, <3>1 DEF Execution
    <3>3. Reaches(w, [execution[w] EXCEPT !.profile = p, !.todo = execution[w].todo \ {p}, !.pc = pc])
      BY <1>3, <3>2 DEF Reaches
    <3>4. Finds(w)
      BY <1>9, <3>3 DEF FindTalk, Finds
    <3> QED BY <1>9, <2>2, <3>4 DEF FindTalk, tables, pluginVars
  <2> QED BY <1>9, <2>1, <2>2 DEF FindTalk
<1>10. CASE CreateTalk(w) \/ CreateContact(w)
  <2>1. CutShort(w) \/ Proceeds(w)
    BY <1>1, <1>2, <1>10 DEF CreateTalk, CreateContact, Insert, Follows
  <2> QED BY <1>10, <2>1 DEF CreateTalk, CreateContact, Insert, Fail, pluginVars, Posts
<1>11. CASE CreatePost(w)
  <2>1. CASE GoTo(w, "talk") /\ posts' = [posts EXCEPT ![execution[w].profile] = @ + 1] /\ UNCHANGED failures
    <3>1. Proceeds(w)
      BY <1>2, <1>11, <2>1 DEF CreatePost, Follows
    <3> QED BY <1>11, <2>1, <3>1 DEF CreatePost, pluginVars, Posts
  <2>2. CASE Fail("db") /\ Finish(w, TRUE) /\ UNCHANGED posts
    <3>1. CutShort(w) /\ failures' = failures + 1
      BY <1>1, <2>2
    <3>2. execution'[w].pc = "report"
      BY <1>3, <2>2 DEF Finish, Execution
    <3>3. Proceeds(w) => execution'[w].pc # "report"
      BY <1>3 DEF Proceeds, Reaches, Execution
    <3> QED BY <1>11, <2>2, <3>1, <3>2, <3>3 DEF CreatePost, pluginVars, Posts
  <2>3. CASE Fail("lostReply") /\ Finish(w, TRUE) /\ posts' = [posts EXCEPT ![execution[w].profile] = @ + 1]
    <3>1. CutShort(w) /\ failures' = failures + 1
      BY <1>1, <2>3
    <3> QED BY <1>11, <2>3, <3>1 DEF CreatePost, pluginVars, Posts
  <2> QED BY <1>11, <2>1, <2>2, <2>3 DEF CreatePost, Insert
<1>12. CASE FindContact(w)
  <2>1. CutShort(w) \/ Proceeds(w)
    BY <1>1, <1>2, <1>12 DEF FindContact, Follows
  <2> QED BY <1>12, <2>1 DEF FindContact, Fail, tables, pluginVars, Posts
<1>13. CASE Generate(w)
  <2>1. execution[w].plugin \in Plugins
    BY <1>13 DEF Generate, TypeInv, ExecutionInv, AtProfile
  <2>2. CASE cache[execution[w].plugin] = "running" /\ GoTo(w, "post")
    <3>1. Proceeds(w)
      BY <1>2, <1>13, <2>2 DEF Generate, Follows, Dead
    <3> QED BY <1>13, <2>2, <3>1 DEF Generate, Fail, tables, pluginVars, Posts
  <2>3. CASE cache[execution[w].plugin] = "dead" /\ Finish(w, TRUE)
    <3>1. CutShort(w)
      BY <1>13, <2>1, <2>3, FinishReaches DEF Generate, Dead, CutShort
    <3> QED BY <1>13, <2>3, <3>1 DEF Generate, Fail, tables, pluginVars, Posts
  <2>4. CASE Fail("rpc") /\ Finish(w, TRUE)
    BY <1>1, <1>13, <2>4 DEF Generate, Fail, tables, pluginVars, Posts
  <2> QED BY <1>13, <2>2, <2>3, <2>4 DEF Generate
<1> QED
  BY <1>4, <1>5, <1>6, <1>7, <1>8, <1>9, <1>10, <1>11, <1>12, <1>13
     DEF WorkStep, PlainStep, Posts

-----------------------------------------------------------------------------
(* Why a synchronisation ends *)

\* The reasons that are no failed attempt.
Excused(t) == t \in touched \/ default[t].plugin \in exited

\* The activity of the workflow ended with an error that it has not reported.
Failing(t) == workflow[t].worker # Null /\ execution[workflow[t].worker].failed

\* A client is dead because its plugin exited; until somebody changes the default
\* system of a tenant, its activities work with the one it was created with; and
\* without an excuse, every attempt that failed met a failure of its own.
ReasonInv ==
    /\ \A n \in Plugins : cache[n] = "dead" => n \in exited
    /\ \A t \in Tenants \ touched : default[t].system = "seeded" /\ default[t].plugin \in Plugins
    /\ \A w \in Workers :
          /\ execution[w].pc \notin {"idle", "system", "report"}
          /\ execution[w].tenant \notin touched
          => /\ execution[w].system = "seeded"
             /\ execution[w].plugin = default[execution[w].tenant].plugin
    /\ \A t \in Tenants :
          /\ workflow[t].state = "failed" => workflow[t].attempts = MaxAttempts
          /\ ~Excused(t) => /\ workflow[t].attempts <= failures
                            /\ Failing(t) => workflow[t].attempts < failures

LEMMA ReasonInit == Init => ReasonInv
BY SyncAssumptions
   DEF Init, ReasonInv, Assumptions, NoExecution, Failing

\* An excuse stays one.
LEMMA ExcusesStay ==
  ASSUME TypeInv, touched \subseteq touched', exited \subseteq exited',
         NEW t \in Tenants, t \notin touched' => default'[t] = default[t], Excused(t)
  PROVE  Excused(t)'
BY DEF Excused

\* What is to be shown of a step of a worker: it leaves the executions of the
\* others, the engine and the default systems alone; it keeps the plugin of its
\* tenant; and it fails for a reason, or at the expense of a failure.
LEMMA ReasonFramed ==
  ASSUME TypeInv, ReasonInv, NEW w \in Workers, execution[w].pc # "idle",
         UNCHANGED <<default, engineVars, environment>>, failures' \in {failures, failures + 1},
         \A n \in Plugins : cache'[n] = "dead" => cache[n] = "dead",
         \A v \in Workers \ {w} : execution'[v] = execution[v],
         execution'[w].tenant = execution[w].tenant,
         /\ execution'[w].pc \notin {"idle", "system", "report"}
         /\ execution[w].tenant \notin touched
         => /\ execution'[w].system = "seeded"
            /\ execution'[w].plugin = default[execution[w].tenant].plugin,
         execution'[w].failed =>
            execution[w].failed \/ failures' = failures + 1 \/ Excused(execution[w].tenant)
  PROVE  ReasonInv'
<1>1. \A t \in Tenants : Excused(t)' = Excused(t)
  BY DEF Excused, environment
<1>2. failures \in Nat /\ \A t \in Tenants : workflow[t].attempts \in Nat
  BY SyncAssumptions DEF TypeInv, TypeOK, Workflow, Assumptions
<1>3. \A t \in Tenants : workflow[t].worker \in Workers \cup {Null}
  BY DEF TypeInv, TypeOK, Workflow
<1>4. \A n \in Plugins : cache'[n] = "dead" => n \in exited'
  BY DEF ReasonInv, environment
<1>5. \A t \in Tenants \ touched' : default'[t].system = "seeded" /\ default'[t].plugin \in Plugins
  BY DEF ReasonInv, environment
<1>6. \A v \in Workers :
        /\ execution'[v].pc \notin {"idle", "system", "report"}
        /\ execution'[v].tenant \notin touched'
        => /\ execution'[v].system = "seeded"
           /\ execution'[v].plugin = default'[execution'[v].tenant].plugin
  BY DEF ReasonInv, environment
<1>7. ASSUME NEW t \in Tenants
      PROVE  /\ workflow'[t].state = "failed" => workflow'[t].attempts = MaxAttempts
             /\ ~Excused(t)' => /\ workflow'[t].attempts <= failures'
                                /\ Failing(t)' => workflow'[t].attempts < failures'
  <2>1. workflow'[t] = workflow[t]
    BY DEF engineVars
  <2>2. CASE workflow[t].worker = w
    <3>1. execution[w].tenant = t
      BY <2>2, SyncAssumptions DEF TypeInv, WorkflowInv, Assumptions
    <3> QED BY <1>1, <1>2, <2>1, <2>2, <3>1 DEF ReasonInv, Failing
  <2>3. CASE workflow[t].worker # w
    <3>1. Failing(t)' = Failing(t)
      BY <1>3, <2>1, <2>3 DEF Failing
    <3> QED BY <1>1, <1>2, <2>1, <3>1 DEF ReasonInv
  <2> QED BY <2>2, <2>3
<1> QED BY <1>4, <1>5, <1>6, <1>7 DEF ReasonInv

LEMMA WorkKeepsReasons ==
  ASSUME TypeInv, ReasonInv, NEW w \in Workers, WorkStep(w)
  PROVE  ReasonInv'
<1> DEFINE t == execution[w].tenant
<1>1. /\ execution[w].pc \notin {"idle", "report"} /\ t \in Tenants
      /\ UNCHANGED <<default, engineVars, environment>>
      /\ failures' \in {failures, failures + 1}
      /\ \A n \in Plugins : cache'[n] = "dead" <=> cache[n] = "dead"
  BY WorkMoves DEF TypeInv, ExecutionInv
<1>2. execution[w] \in Execution
  BY DEF TypeInv, TypeOK
<1>3. /\ \A v \in Workers \ {w} : execution'[v] = execution[v]
      /\ execution'[w].tenant = t
      /\ \/ Loads(w) /\ execution'[w].failed = execution[w].failed
         \/ /\ execution'[w].system = execution[w].system
            /\ execution'[w].plugin = execution[w].plugin
            /\ execution[w].pc # "system" \/ execution'[w].pc = "report"
            /\ CutShort(w) \/ execution'[w].failed \in {execution[w].failed, FALSE}
  <2>1. CASE CutShort(w)
    BY <1>2, <2>1 DEF CutShort, Reaches, Execution
  <2>2. CASE Ends(w)
    BY <1>2, <2>2 DEF Ends, Reaches, Execution
  <2>3. CASE Loads(w)
    BY <1>2, <2>3 DEF Loads, Reaches, Execution
  <2>4. CASE Proceeds(w)
    <3>1. execution[w].pc # "system"
      BY <2>4 DEF Proceeds, Follows
    <3> QED BY <1>2, <2>4, <3>1 DEF Proceeds, Reaches, Execution
  <2>5. CASE Lists(w)
    BY <1>2, <2>5 DEF Lists, Reaches, Execution
  <2>6. CASE Finds(w)
    BY <1>2, <2>6 DEF Finds, Reaches, Execution
  <2> QED BY <2>1, <2>2, <2>3, <2>4, <2>5, <2>6, WorkMoves
<1>4. ASSUME execution'[w].pc \notin {"idle", "system", "report"}, t \notin touched
      PROVE  /\ execution'[w].system = "seeded"
             /\ execution'[w].plugin = default[t].plugin
  <2>1. default[t].system = "seeded"
    BY <1>1, <1>4 DEF ReasonInv
  <2>2. CASE Loads(w)
    BY <1>2, <2>1, <2>2 DEF Loads, Reaches, Execution
  <2>3. CASE ~Loads(w)
    BY <1>1, <1>3, <1>4, <2>3 DEF ReasonInv
  <2> QED BY <2>2, <2>3
<1>5. CutShort(w) => failures' = failures + 1 \/ Excused(t)
  <2> SUFFICES ASSUME CutShort(w), t \notin touched, failures' # failures + 1 PROVE default[t].plugin \in exited
    BY DEF Excused
  <2>1. default[t].system = "seeded" /\ default[t].plugin \in Plugins
    BY <1>1 DEF ReasonInv
  <2>2. execution[w].pc # "system" => execution[w].plugin = default[t].plugin
    BY <1>1 DEF ReasonInv
  <2>3. execution[w].pc = "generate" /\ Dead(w)
    BY <2>1, <2>2, SyncAssumptions DEF CutShort, Assumptions
  <2> QED BY <2>2, <2>3 DEF Dead, ReasonInv
<1>6. execution'[w].failed => execution[w].failed \/ failures' = failures + 1 \/ Excused(t)
  BY <1>3, <1>5
<1> QED BY <1>1, <1>3, <1>4, <1>6, ReasonFramed

\* The steps of the engine: an attempt is counted when its result is reported.
LEMMA EngineKeepsReasons ==
  ASSUME TypeInv, ReasonInv, UNCHANGED <<default, environment>>,
         failures' \in {failures, failures + 1},
         \A n \in Plugins : cache'[n] = "dead" => cache[n] = "dead",
         \A v \in Workers : \/ execution'[v] = execution[v]
                            \/ execution'[v].pc \in {"idle", "system"} /\ ~execution'[v].failed,
         \A t \in Tenants :
            \/ /\ workflow'[t].attempts = workflow[t].attempts
               /\ workflow'[t].state = "failed" => workflow[t].state = "failed"
               /\ workflow'[t].worker # workflow[t].worker => ~Failing(t)'
            \/ /\ Failing(t)
               /\ workflow'[t].attempts = workflow[t].attempts + 1
               /\ workflow'[t].state = "failed" => workflow'[t].attempts = MaxAttempts
               /\ workflow'[t].worker = Null
            \/ workflow'[t] = [state |-> "sleeping", attempts |-> 0, worker |-> Null]
  PROVE  ReasonInv'
<1>1. \A t \in Tenants : Excused(t)' = Excused(t)
  BY DEF Excused, environment
<1>2. failures \in Nat /\ \A t \in Tenants : workflow[t].attempts \in Nat
  BY SyncAssumptions DEF TypeInv, TypeOK, Workflow, Assumptions
<1>3. \A n \in Plugins : cache'[n] = "dead" => n \in exited'
  BY DEF ReasonInv, environment
<1>4. \A t \in Tenants \ touched' : default'[t].system = "seeded" /\ default'[t].plugin \in Plugins
  BY DEF ReasonInv, environment
<1>5. \A v \in Workers :
        /\ execution'[v].pc \notin {"idle", "system", "report"}
        /\ execution'[v].tenant \notin touched'
        => /\ execution'[v].system = "seeded"
           /\ execution'[v].plugin = default'[execution'[v].tenant].plugin
  BY DEF ReasonInv, environment
<1>6. ASSUME NEW t \in Tenants
      PROVE  /\ workflow'[t].state = "failed" => workflow'[t].attempts = MaxAttempts
             /\ ~Excused(t)' => /\ workflow'[t].attempts <= failures'
                                /\ Failing(t)' => workflow'[t].attempts < failures'
  <2>1. CASE /\ workflow'[t].attempts = workflow[t].attempts
             /\ workflow'[t].state = "failed" => workflow[t].state = "failed"
             /\ workflow'[t].worker # workflow[t].worker => ~Failing(t)'
    <3>1. Failing(t)' => Failing(t)
      <4>1. workflow[t].worker \in Workers \cup {Null}
        BY DEF TypeInv, TypeOK, Workflow
      <4> QED BY <2>1, <4>1 DEF Failing
    <3> QED BY <1>1, <1>2, <2>1, <3>1 DEF ReasonInv
  <2>2. CASE /\ Failing(t)
             /\ workflow'[t].attempts = workflow[t].attempts + 1
             /\ workflow'[t].state = "failed" => workflow'[t].attempts = MaxAttempts
             /\ workflow'[t].worker = Null
    <3>1. ~Failing(t)'
      BY <2>2 DEF Failing
    <3> QED BY <1>1, <1>2, <2>2, <3>1 DEF ReasonInv
  <2>3. CASE workflow'[t] = [state |-> "sleeping", attempts |-> 0, worker |-> Null]
    <3>1. ~Failing(t)' /\ workflow'[t].attempts = 0 /\ workflow'[t].state = "sleeping"
      BY <2>3 DEF Failing
    <3> QED BY <1>2, <3>1
  <2> QED BY <2>1, <2>2, <2>3
<1> QED BY <1>3, <1>4, <1>5, <1>6 DEF ReasonInv

LEMMA ReportKeepsReasons ==
  ASSUME TypeInv, ReasonInv, NEW w \in Workers, ReportResult(w)
  PROVE  ReasonInv'
<1> DEFINE t == execution[w].tenant
<1> USE SyncAssumptions DEF Assumptions
<1>1. /\ execution[w].pc = "report" /\ t \in Tenants
      /\ UNCHANGED <<default, pluginVars, environment, failures>>
  BY DEF ReportResult, TypeInv, ExecutionInv, tables
<1>2. /\ execution'[w] = NoExecution /\ \A v \in Workers \ {w} : execution'[v] = execution[v]
      /\ ~NoExecution.failed /\ NoExecution.pc = "idle"
  BY DEF ReportResult, TypeInv, TypeOK, NoExecution
<1>3. workflow \in [Tenants -> Workflow] /\ workflow[t] \in Workflow
  BY <1>1 DEF TypeInv, TypeOK
<1>4. ASSUME NEW u \in Tenants
      PROVE
            \/ /\ workflow'[u].attempts = workflow[u].attempts
               /\ workflow'[u].state = "failed" => workflow[u].state = "failed"
               /\ workflow'[u].worker # workflow[u].worker => ~Failing(u)'
            \/ /\ Failing(u)
               /\ workflow'[u].attempts = workflow[u].attempts + 1
               /\ workflow'[u].state = "failed" => workflow'[u].attempts = MaxAttempts
               /\ workflow'[u].worker = Null
            \/ workflow'[u] = [state |-> "sleeping", attempts |-> 0, worker |-> Null]
  <2>1. CASE workflow'[u] = workflow[u]
    BY <2>1
  <2>2. CASE workflow'[u] # workflow[u]
    <3>1. u = t /\ workflow[t].worker = w
      BY <1>3, <2>2 DEF ReportResult, engineVars
    <3>2. CASE ~execution[w].failed
      BY <1>1, <1>3, <3>1, <3>2 DEF ReportResult
    <3>3. CASE execution[w].failed
      <4>1. Failing(t)
        BY <3>1, <3>3 DEF Failing
      <4>2. workflow'[t] = [state |-> IF workflow[t].attempts + 1 < MaxAttempts THEN "active" ELSE "failed",
                            attempts |-> workflow[t].attempts + 1, worker |-> Null]
        BY <1>1, <1>3, <3>1, <3>3 DEF ReportResult
      <4>3. workflow[t].attempts < MaxAttempts /\ workflow[t].attempts \in Nat
        BY <1>1, <1>3, <3>1 DEF TypeInv, WorkflowInv, Workflow
      <4> QED BY <3>1, <4>1, <4>2, <4>3
    <3> QED BY <3>2, <3>3
  <2> QED BY <2>1, <2>2
<1>5. \A n \in Plugins : cache'[n] = "dead" => cache[n] = "dead"
  BY <1>1 DEF pluginVars
<1> QED BY <1>1, <1>2, <1>4, <1>5, EngineKeepsReasons

LEMMA ScheduleKeepsReasons ==
  ASSUME TypeInv, ReasonInv,
         \/ CrashWorker
         \/ \E t \in Tenants : StartSync(t) \/ WakeUp(t) \/ RedeliverTask(t)
                               \/ \E w \in Workers : TakeTask(w, t)
  PROVE  ReasonInv'
<1> USE SyncAssumptions DEF Assumptions
<1>1. workflow \in [Tenants -> Workflow] /\ execution \in [Workers -> Execution]
  BY DEF TypeInv, TypeOK
<1>2. CASE CrashWorker
  <2>1. /\ UNCHANGED <<default, environment>> /\ failures' = failures + 1
        /\ \A n \in Plugins : cache'[n] # "dead"
        /\ \A v \in Workers : execution'[v].pc = "idle" /\ ~execution'[v].failed
    BY <1>2 DEF CrashWorker, Fail, NoExecution, tables
  <2>2. \A t \in Tenants : /\ workflow'[t].attempts = workflow[t].attempts
                           /\ workflow'[t].state = workflow[t].state
                           /\ workflow'[t].worker = Null
    BY <1>1, <1>2 DEF CrashWorker, Workflow
  <2>3. \A t \in Tenants : ~Failing(t)'
    BY <2>2 DEF Failing
  <2> QED BY <2>1, <2>2, <2>3, EngineKeepsReasons
<1>3. ASSUME NEW t \in Tenants, StartSync(t) \/ WakeUp(t) \/ RedeliverTask(t) PROVE ReasonInv'
  <2>1. /\ UNCHANGED <<default, environment, cache, execution>>
        /\ failures' \in {failures, failures + 1}
    BY <1>3 DEF StartSync, WakeUp, RedeliverTask, Fail, tables, pluginVars
  <2>2. \A u \in Tenants : /\ workflow'[u].attempts = workflow[u].attempts
                           /\ workflow'[u].state = "failed" => workflow[u].state = "failed"
                           /\ workflow'[u].worker # workflow[u].worker => workflow'[u].worker = Null
    BY <1>1, <1>3 DEF StartSync, WakeUp, RedeliverTask, Workflow
  <2>3. \A u \in Tenants : workflow'[u].worker # workflow[u].worker => ~Failing(u)'
    BY <2>2 DEF Failing
  <2> QED BY <2>1, <2>2, <2>3, EngineKeepsReasons
<1>4. ASSUME NEW t \in Tenants, NEW w \in Workers, TakeTask(w, t) PROVE ReasonInv'
  <2>1. /\ UNCHANGED <<default, environment, cache, failures>>
        /\ execution'[w].pc = "system" /\ ~execution'[w].failed
        /\ \A v \in Workers \ {w} : execution'[v] = execution[v]
    BY <1>1, <1>4 DEF TakeTask, NoExecution, tables, pluginVars
  <2>2. \A u \in Tenants : /\ workflow'[u].attempts = workflow[u].attempts
                           /\ workflow'[u].state = workflow[u].state
                           /\ workflow'[u].worker # workflow[u].worker => workflow'[u].worker = w
    <3>1. workflow' = [workflow EXCEPT ![t].worker = w]
      BY <1>4 DEF TakeTask
    <3>2. workflow'[t] = [workflow[t] EXCEPT !.worker = w] /\ workflow[t] \in Workflow
      BY <1>1, <3>1
    <3>3. \A u \in Tenants \ {t} : workflow'[u] = workflow[u]
      BY <1>1, <3>1
    <3> QED BY <3>2, <3>3 DEF Workflow
  <2>3. \A u \in Tenants : workflow'[u].worker # workflow[u].worker => ~Failing(u)'
    BY <2>1, <2>2 DEF Failing
  <2> QED BY <2>1, <2>2, <2>3, EngineKeepsReasons
<1> QED BY <1>2, <1>3, <1>4

LEMMA EnvironmentKeepsReasons ==
  ASSUME TypeInv, ReasonInv,
         \/ \E n \in Plugins : ExitPlugin(n)
         \/ \E t \in Tenants, n \in Plugins \cup {Missing} :
               UpdateSystem(t, n) \/ CreateSystem(t, n) \/ RemoveDefault(t, n)
  PROVE  ReasonInv'
<1>1. /\ UNCHANGED <<engineVars, execution>>
      /\ touched \subseteq touched' /\ exited \subseteq exited'
      /\ \A t \in Tenants \ touched' : default'[t] = default[t]
      /\ failures' \in {failures, failures + 1}
      /\ \A n \in Plugins : cache'[n] = "dead" => n \in exited' \/ cache[n] = "dead"
  <2>1. CASE \E n \in Plugins : ExitPlugin(n)
    BY <2>1 DEF TypeInv, TypeOK, ExitPlugin, Fail, tables
  <2>2. ASSUME NEW t \in Tenants, NEW s, NEW n, Change(t, s, n)
        PROVE  /\ UNCHANGED <<engineVars, execution, exited, failures, cache>>
               /\ touched \subseteq touched'
               /\ \A u \in Tenants \ touched' : default'[u] = default[u]
    BY <2>2 DEF TypeInv, TypeOK, Change, pluginVars
  <2> QED BY <2>1, <2>2 DEF UpdateSystem, CreateSystem, RemoveDefault
<1>2. \A t \in Tenants : ~Excused(t)' => ~Excused(t)
  BY <1>1, ExcusesStay
<1>3. \A t \in Tenants : workflow'[t] = workflow[t] /\ (Failing(t)' <=> Failing(t))
  BY <1>1 DEF engineVars, Failing
<1>4. failures \in Nat /\ \A t \in Tenants : workflow[t].attempts \in Nat
  BY SyncAssumptions DEF TypeInv, TypeOK, Workflow, Assumptions
<1>5. \A w \in Workers : execution[w].pc # "idle" => execution[w].tenant \in Tenants
  BY DEF TypeInv, ExecutionInv
<1>6. \A t \in Tenants :
        /\ workflow'[t].state = "failed" => workflow'[t].attempts = MaxAttempts
        /\ ~Excused(t)' => /\ workflow'[t].attempts <= failures'
                           /\ Failing(t)' => workflow'[t].attempts < failures'
  BY <1>1, <1>2, <1>3, <1>4 DEF ReasonInv
<1>7. \A t \in Tenants \ touched' : default'[t].system = "seeded" /\ default'[t].plugin \in Plugins
  BY <1>1 DEF ReasonInv
<1>8. \A v \in Workers :
        /\ execution'[v].pc \notin {"idle", "system", "report"}
        /\ execution'[v].tenant \notin touched'
        => /\ execution'[v].system = "seeded"
           /\ execution'[v].plugin = default'[execution'[v].tenant].plugin
  BY <1>1, <1>5 DEF ReasonInv
<1>9. \A n \in Plugins : cache'[n] = "dead" => n \in exited'
  BY <1>1 DEF ReasonInv
<1> QED BY <1>6, <1>7, <1>8, <1>9 DEF ReasonInv

LEMMA ReasonStep == TypeInv /\ ReasonInv /\ [Next]_vars => ReasonInv'
<1> SUFFICES ASSUME TypeInv, ReasonInv, [Next]_vars PROVE ReasonInv'
  OBVIOUS
<1>1. ASSUME NEW w \in Workers, ActivityStep(w) PROVE ReasonInv'
  BY <1>1, WorkKeepsReasons, ReportKeepsReasons DEF ActivityStep, WorkStep, PlainStep
<1>2. CASE UNCHANGED vars
  BY <1>2 DEF ReasonInv, Excused, Failing, vars, tables, engineVars, pluginVars, environment
<1> QED
  BY <1>1, <1>2, ScheduleKeepsReasons, EnvironmentKeepsReasons DEF Next

\* The workflow of a tenant ends only after as many failures as it has attempts,
\* or because its default system was changed, or because a plugin exited: every
\* other attempt that it reports as failed met a failure of its own, which no
\* other attempt of it met (jobs/sync.go:25-31, 65-73, 96-98).
THEOREM SyncsEndForAReason == Spec => []SyncEndsForAReason
<1>1. Init => ReasonInv
  BY ReasonInit
<1>2. TypeInv /\ ReasonInv /\ [Next]_vars => ReasonInv'
  BY ReasonStep
<1>3. TypeInv /\ ReasonInv => SyncEndsForAReason
  BY DEF ReasonInv, Excused, SyncEndsForAReason
<1> QED BY <1>1, <1>2, <1>3, TypesHold, PTL DEF Spec

-----------------------------------------------------------------------------
(* How many posts a profile has *)

\* The execution will get to profile p, or is at it.
Pending(e, p) ==
    \/ e.pc \in {"system", "plugin", "start", "list"}
    \/ e.pc \in AtProfile \cup {"talk"} /\ p \in e.todo
    \/ e.pc \in AtProfile /\ e.profile = p

\* The execution has passed profile p, and it has met no error.
Passed(e, p) ==
    /\ e.pc \in AtProfile \cup {"talk", "report"}
    /\ ~e.failed
    /\ ~Pending(e, p)

\* With a dead client, only a text that was generated before is still posted.
Open(w, p) ==
    /\ execution[w].tenant = TenantOf[p]
    /\ Pending(execution[w], p)
    /\ Dead(w) => execution[w].pc = "post" /\ execution[w].profile = p

\* A post of an execution that was given up, or whose plugin exited, is paid for
\* by the redelivery, or by the exit; one of the others by the round that the
\* execution ends, or by the failure that cuts it short.
Prepaid(p) == {w \in Workers : Open(w, p) /\ (workflow[TenantOf[p]].worker = w => Dead(w))}
Written(p) == LET w == workflow[TenantOf[p]].worker IN
              w # Null /\ ~Dead(w) /\ Passed(execution[w], p)

\* In the loop, the profiles are those of the tenant, each is passed once, and
\* only an error leaves it before the last.
LoopOK(e) ==
    /\ e.pc = "system" => e.plugin = Null
    /\ e.pc # "idle" => e.todo \subseteq ProfilesOf(e.tenant)
    /\ e.pc \in AtProfile => e.profile \in ProfilesOf(e.tenant) \ e.todo
    /\ e.pc = "report" /\ ~e.failed => e.todo = {}

LoopInv == \A w \in Workers : LoopOK(execution[w])

\* No profile has more posts than were paid for.
UpperInv ==
    \A p \in Profiles :
       posts[p] + Cardinality(Prepaid(p))
          <= rounds[TenantOf[p]] + failures + (IF Written(p) THEN 1 ELSE 0)

\* No round passes a profile by.
LowerInv ==
    \A p \in Profiles :
       LET t == TenantOf[p]
           w == workflow[t].worker
       IN t \notin touched =>
             /\ rounds[t] <= posts[p]
             /\ w # Null /\ Passed(execution[w], p) => rounds[t] < posts[p]

PostInv == LoopInv /\ UpperInv /\ LowerInv

LEMMA PostInit == Init => PostInv
<1> SUFFICES ASSUME Init PROVE PostInv
  OBVIOUS
<1> USE SyncAssumptions DEF Assumptions
<1>1. \A w \in Workers : execution[w].pc = "idle" /\ execution[w].todo = {}
  BY DEF Init, NoExecution
<1>2. LoopInv
  BY <1>1 DEF LoopInv, LoopOK, AtProfile
<1>3. \A p \in Profiles : Prepaid(p) = {}
  BY <1>1 DEF Prepaid, Open, Pending, AtProfile
<1>4. UpperInv
  <2>1. Cardinality({}) = 0
    BY FS_EmptySet
  <2>2. \A p \in Profiles : posts[p] = 0 /\ rounds[TenantOf[p]] = 0
    BY DEF Init
  <2>3. \A p \in Profiles : posts[p] + Cardinality(Prepaid(p)) = 0
    BY <1>3, <2>1, <2>2
  <2>4. \A p \in Profiles : 0 <= rounds[TenantOf[p]] + failures + (IF Written(p) THEN 1 ELSE 0)
    BY <2>2 DEF Init
  <2> QED BY <2>3, <2>4 DEF UpperInv
<1>5. LowerInv
  BY DEF Init, LowerInv
<1> QED BY <1>2, <1>4, <1>5 DEF PostInv

\* What a step of a worker means for a profile of its tenant.
Handles(w, p) ==
    /\ LoopOK(execution'[w])
    /\ Pending(execution'[w], p) => Pending(execution[w], p)
    /\ Passed(execution[w], p) =>
          Passed(execution'[w], p) \/ failures' = failures + 1 \/ Dead(w)
    /\ Passed(execution'[w], p) =>
          \/ Passed(execution[w], p)
          \/ posts'[p] = posts[p] + 1
          \/ execution[w].pc = "list" /\ execution[w].system # "seeded"
    /\ \/ posts'[p] = posts[p]
       \/ /\ posts'[p] = posts[p] + 1
          /\ execution[w].pc = "post" /\ execution[w].profile = p
          /\ ~Pending(execution'[w], p)
          /\ Passed(execution'[w], p) \/ failures' = failures + 1
    /\ execution'[w].pc = "post" /\ execution'[w].profile = p => ~Dead(w)
    /\ \/ execution'[w].plugin = execution[w].plugin
       \/ execution[w].pc = "system" /\ execution'[w].pc = "plugin"

LEMMA WorkHandles ==
  ASSUME TypeInv, LoopInv, NEW w \in Workers, WorkStep(w),
         NEW p \in ProfilesOf(execution[w].tenant)
  PROVE  Handles(w, p)
<1> DEFINE e == execution[w]
<1>1. e \in Execution /\ LoopOK(e) /\ e.pc \notin {"idle", "report"} /\ p \in Profiles
      /\ ~e.failed
  BY WorkMoves DEF TypeInv, TypeOK, LoopInv, ProfilesOf, ExecutionInv
<1>2. /\ posts[p] \in Nat
      /\ e.pc = "post" => e.profile \in Profiles
      /\ \A q \in Profiles : posts[q] \in Nat
  BY <1>1 DEF TypeInv, TypeOK, ExecutionInv, AtProfile
<1>3. \/ posts'[p] = posts[p] /\ ~(Proceeds(w) /\ e.pc = "post" /\ e.profile = p)
      \/ /\ posts'[p] = posts[p] + 1 /\ e.pc = "post" /\ e.profile = p
         /\ Proceeds(w) \/ failures' = failures + 1
  BY <1>1, <1>2, WorkMoves DEF Posts, TypeInv, TypeOK
<1>4. CASE CutShort(w)
  <2>1. execution'[w] = [e EXCEPT !.pc = "report", !.failed = TRUE]
    BY <1>4 DEF CutShort, Reaches
  <2>2. /\ execution'[w].pc = "report" /\ execution'[w].failed
        /\ execution'[w].plugin = e.plugin /\ execution'[w].todo = e.todo
        /\ execution'[w].tenant = e.tenant
    BY <1>1, <2>1 DEF Execution
  <2>3. failures' = failures + 1 \/ Dead(w) \/ e.pc \in {"system", "start"}
    BY <1>4 DEF CutShort
  <2>4. ~Proceeds(w)
    BY <1>1, <2>2 DEF Proceeds, Reaches, Execution
  <2> QED BY <1>1, <1>3, <2>2, <2>3, <2>4 DEF Handles, LoopOK, Pending, Passed, AtProfile
<1>5. CASE Ends(w)
  <2>1. execution'[w] = [e EXCEPT !.pc = "report", !.failed = FALSE] /\ e.pc = "talk" /\ e.todo = {}
    BY <1>5 DEF Ends, Reaches
  <2>2. /\ execution'[w].pc = "report" /\ ~execution'[w].failed
        /\ execution'[w].plugin = e.plugin /\ execution'[w].todo = e.todo
        /\ execution'[w].tenant = e.tenant
    BY <1>1, <2>1 DEF Execution
  <2> QED BY <1>1, <1>3, <2>1, <2>2 DEF Handles, LoopOK, Pending, Passed, AtProfile
<1>6. CASE Loads(w)
  <2> DEFINE d == default[e.tenant]
  <2>1. execution'[w] = [e EXCEPT !.pc = "plugin", !.system = d.system, !.plugin = d.plugin]
        /\ e.pc = "system"
    BY <1>6 DEF Loads, Reaches
  <2>2. /\ execution'[w].pc = "plugin" /\ execution'[w].todo = e.todo
        /\ execution'[w].tenant = e.tenant
    BY <1>1, <2>1 DEF Execution
  <2> QED BY <1>1, <1>3, <2>1, <2>2 DEF Handles, LoopOK, Pending, Passed, AtProfile
<1>7. CASE Proceeds(w)
  <2>1. PICK pc \in {"start", "list", "contact", "newContact", "generate", "post", "talk"} :
           /\ <<e.pc, pc>> \in Follows
           /\ execution'[w] = [e EXCEPT !.pc = pc]
           /\ pc = "post" => ~Dead(w)
    BY <1>7 DEF Proceeds, Reaches
  <2>2. /\ execution'[w].pc = pc /\ execution'[w].todo = e.todo
        /\ execution'[w].tenant = e.tenant /\ execution'[w].plugin = e.plugin
        /\ execution'[w].profile = e.profile /\ execution'[w].failed = e.failed
    BY <1>1, <2>1 DEF Execution
  <2>3. CASE e.pc = "post"
    <3>1. pc = "talk"
      BY <2>1, <2>3 DEF Follows
    <3> QED BY <1>1, <1>2, <1>3, <1>7, <2>2, <2>3, <3>1 DEF Handles, LoopOK, Pending, Passed, AtProfile
  <2>4. CASE e.pc # "post"
    <3>1. \/ e.pc \in {"plugin", "start"} /\ pc \in {"start", "list"}
          \/ e.pc \in AtProfile /\ pc \in AtProfile
      BY <2>1, <2>4 DEF Follows, AtProfile
    <3> QED BY <1>1, <1>3, <2>1, <2>2, <2>4, <3>1 DEF Handles, LoopOK, Pending, Passed, AtProfile
  <2> QED BY <2>3, <2>4
<1>8. CASE Lists(w)
  <2> DEFINE s == IF e.system = "seeded" THEN ProfilesOf(e.tenant) ELSE {}
  <2>1. execution'[w] = [e EXCEPT !.pc = "talk", !.todo = s] /\ e.pc = "list"
    BY <1>8 DEF Lists, Reaches
  <2>2. /\ execution'[w].pc = "talk" /\ execution'[w].todo = s
        /\ execution'[w].tenant = e.tenant /\ execution'[w].plugin = e.plugin
    BY <1>1, <2>1 DEF Execution
  <2> QED BY <1>1, <1>3, <2>1, <2>2 DEF Handles, LoopOK, Pending, Passed, AtProfile
<1>9. CASE Finds(w)
  <2>1. PICK q \in Profiles, pc \in {"newTalk", "contact"} :
           /\ e.pc = "talk" /\ q \in e.todo
           /\ execution'[w] = [e EXCEPT !.profile = q, !.todo = e.todo \ {q}, !.pc = pc]
    BY <1>9 DEF Finds, Reaches
  <2>2. /\ execution'[w].pc = pc /\ execution'[w].todo = e.todo \ {q} /\ execution'[w].profile = q
        /\ execution'[w].tenant = e.tenant /\ execution'[w].plugin = e.plugin
        /\ execution'[w].failed = e.failed
    BY <1>1, <2>1 DEF Execution
  <2> QED BY <1>1, <1>3, <2>1, <2>2 DEF Handles, LoopOK, Pending, Passed, AtProfile
<1> QED BY <1>4, <1>5, <1>6, <1>7, <1>8, <1>9, WorkMoves

LEMMA CountSubset ==
  ASSUME NEW T, IsFiniteSet(T), NEW S \in SUBSET T
  PROVE  /\ IsFiniteSet(S) /\ Cardinality(S) \in Nat /\ Cardinality(T) \in Nat
         /\ Cardinality(S) <= Cardinality(T)
         /\ \A x \in T \ S : Cardinality(S) + 1 <= Cardinality(T)
<1>1. IsFiniteSet(S) /\ Cardinality(S) <= Cardinality(T)
  BY FS_Subset
<1>2. Cardinality(S) \in Nat /\ Cardinality(T) \in Nat
  BY <1>1, FS_CardinalityType
<1>3. ASSUME NEW x \in T \ S PROVE Cardinality(S) + 1 <= Cardinality(T)
  <2>1. Cardinality(S) # Cardinality(T)
    BY <1>3, FS_Subset
  <2> QED BY <1>1, <1>2, <2>1
<1> QED BY <1>1, <1>2, <1>3

LEMMA CountAdded ==
  ASSUME NEW T, IsFiniteSet(T), NEW x, NEW S \in SUBSET (T \cup {x})
  PROVE  Cardinality(S) <= Cardinality(T) + 1
<1>1. /\ IsFiniteSet(T \cup {x})
      /\ Cardinality(T \cup {x}) = IF x \in T THEN Cardinality(T) ELSE Cardinality(T) + 1
  BY FS_AddElement
<1>2. Cardinality(S) \in Nat /\ Cardinality(T) \in Nat /\ Cardinality(S) <= Cardinality(T \cup {x})
  BY <1>1, CountSubset, FS_CardinalityType
<1> QED BY <1>1, <1>2

LEMMA PrepaidIsFinite ==
  ASSUME NEW p \in Profiles
  PROVE  IsFiniteSet(Prepaid(p)) /\ IsFiniteSet(Prepaid(p)')
<1>1. IsFiniteSet(Workers)
  BY SyncAssumptions DEF Assumptions
<1>2. Prepaid(p) \in SUBSET Workers /\ Prepaid(p)' \in SUBSET Workers
  BY DEF Prepaid
<1> QED BY <1>1, <1>2, CountSubset

LEMMA NumbersAre ==
  ASSUME TypeInv, NEW p \in Profiles
  PROVE  /\ posts[p] \in Nat /\ rounds[TenantOf[p]] \in Nat /\ failures \in Nat
         /\ Cardinality(Prepaid(p)) \in Nat /\ TenantOf[p] \in Tenants
         /\ workflow[TenantOf[p]] \in Workflow
<1>1. TenantOf[p] \in Tenants
  BY SyncAssumptions DEF Assumptions
<1>2. Cardinality(Prepaid(p)) \in Nat
  BY PrepaidIsFinite, FS_CardinalityType
<1> QED BY <1>1, <1>2, SyncAssumptions DEF Assumptions, TypeInv, TypeOK

\* A step of w leaves what counts of the other workers.
LEMMA OthersStay ==
  ASSUME TypeInv, LoopInv, NEW w \in Workers, WorkStep(w), NEW p \in Profiles
  PROVE  /\ Prepaid(p)' \ {w} = Prepaid(p) \ {w}
         /\ workflow[TenantOf[p]].worker # w => Written(p)' = Written(p)
<1>1. /\ UNCHANGED workflow /\ \A n \in Plugins : cache'[n] = "dead" <=> cache[n] = "dead"
      /\ \A v \in Workers \ {w} : execution'[v] = execution[v]
  <2>1. CutShort(w) \/ Ends(w) \/ Loads(w) \/ Proceeds(w) \/ Lists(w) \/ Finds(w)
    BY WorkMoves
  <2>2. \A v \in Workers \ {w} : execution'[v] = execution[v]
    BY <2>1 DEF CutShort, Ends, Loads, Proceeds, Lists, Finds, Reaches
  <2> QED BY <2>2, WorkMoves DEF engineVars
<1>2. \A v \in Workers \ {w} : Dead(v)' = Dead(v)
  BY <1>1 DEF Dead
<1>3. \A v \in Workers \ {w} : Open(v, p)' = Open(v, p)
  BY <1>1, <1>2 DEF Open, Pending
<1>4. \A v \in Workers \ {w} : v \in Prepaid(p)' <=> v \in Prepaid(p)
  BY <1>1, <1>2, <1>3 DEF Prepaid
<1>5. Prepaid(p) \subseteq Workers /\ Prepaid(p)' \subseteq Workers
  BY DEF Prepaid
<1>6. ASSUME workflow[TenantOf[p]].worker # w PROVE Written(p)' = Written(p)
  <2>1. workflow[TenantOf[p]].worker \in Workers \cup {Null}
    BY NumbersAre DEF Workflow
  <2> QED BY <1>1, <1>2, <1>6, <2>1 DEF Written, Passed, Pending
<1> QED BY <1>4, <1>5, <1>6

\* In a step of w, a profile of its tenant gets a post that was prepaid, or that
\* the execution of w, or a failure, accounts for.
LEMMA WorkKeepsUpper ==
  ASSUME TypeInv, PostInv, NEW w \in Workers, WorkStep(w), NEW p \in Profiles
  PROVE  posts'[p] + Cardinality(Prepaid(p)')
            <= rounds'[TenantOf[p]] + failures' + (IF Written(p)' THEN 1 ELSE 0)
<1> DEFINE t == TenantOf[p]
           before == IF Written(p) THEN 1 ELSE 0
           after == IF Written(p)' THEN 1 ELSE 0
<1>1. /\ posts[p] + Cardinality(Prepaid(p)) <= rounds[t] + failures + before
      /\ LoopInv /\ LoopOK(execution[w])
  BY DEF PostInv, UpperInv, LoopInv
<1>2. /\ posts[p] \in Nat /\ rounds[t] \in Nat /\ failures \in Nat /\ t \in Tenants
      /\ Cardinality(Prepaid(p)) \in Nat
      /\ before \in {0, 1} /\ after \in {0, 1}
  BY NumbersAre
<1>3. /\ UNCHANGED <<workflow, rounds>> /\ failures' \in {failures, failures + 1}
      /\ execution[w].pc \notin {"idle", "report"}
      /\ \A n \in Plugins : cache'[n] = "dead" <=> cache[n] = "dead"
  BY WorkMoves DEF engineVars
<1>4. execution'[w].tenant = execution[w].tenant
  <2>1. execution[w] \in Execution
    BY DEF TypeInv, TypeOK
  <2> QED BY <2>1, WorkMoves DEF CutShort, Ends, Loads, Proceeds, Lists, Finds, Reaches, Execution
<1>5. /\ Prepaid(p)' \ {w} = Prepaid(p) \ {w}
      /\ workflow[t].worker # w => Written(p)' = Written(p)
  BY <1>1, OthersStay
<1>6. w \notin Prepaid(p)' \/ w \in Prepaid(p) =>
         /\ Cardinality(Prepaid(p)') \in Nat
         /\ Cardinality(Prepaid(p)') <= Cardinality(Prepaid(p))
         /\ w \in Prepaid(p) /\ w \notin Prepaid(p)' =>
               Cardinality(Prepaid(p)') + 1 <= Cardinality(Prepaid(p))
  <2> SUFFICES ASSUME w \notin Prepaid(p)' \/ w \in Prepaid(p)
               PROVE  /\ Cardinality(Prepaid(p)') \in Nat
                      /\ Cardinality(Prepaid(p)') <= Cardinality(Prepaid(p))
                      /\ w \in Prepaid(p) /\ w \notin Prepaid(p)' =>
                            Cardinality(Prepaid(p)') + 1 <= Cardinality(Prepaid(p))
    OBVIOUS
  <2>1. Prepaid(p)' \in SUBSET Prepaid(p)
    BY <1>5
  <2> QED BY <2>1, PrepaidIsFinite, CountSubset
<1>7. CASE t # execution[w].tenant
  <2>1. w \notin Prepaid(p) /\ w \notin Prepaid(p)'
    BY <1>4, <1>7 DEF Prepaid, Open
  <2>2. workflow[t].worker # w
    BY <1>2, <1>7, SyncAssumptions DEF TypeInv, WorkflowInv, Assumptions
  <2>3. posts'[p] = posts[p]
    <3>1. execution[w].pc = "post" => execution[w].profile # p
      BY <1>1, <1>7 DEF LoopOK, AtProfile, ProfilesOf
    <3> QED BY <3>1, WorkMoves DEF Posts, TypeInv, TypeOK
  <2> QED BY <1>1, <1>2, <1>3, <1>5, <1>6, <2>1, <2>2, <2>3
<1>8. CASE t = execution[w].tenant
  <2>1. Handles(w, p)
    BY <1>1, <1>8, WorkHandles DEF ProfilesOf
  <2>2. execution[w].pc = "system" => ~Dead(w)
    BY <1>1, SyncAssumptions DEF LoopOK, Dead, Assumptions
  <2>3. Dead(w) => Dead(w)'
    BY <1>3, <2>1, <2>2 DEF Handles, Dead
  <2>4. Open(w, p)' => Open(w, p) /\ ~Dead(w)
    BY <1>4, <2>1, <2>3 DEF Handles, Open
  <2>5. w \in Prepaid(p)' => w \in Prepaid(p)
    <3> SUFFICES ASSUME w \in Prepaid(p)', workflow[t].worker = w PROVE FALSE
      BY <1>3, <2>4 DEF Prepaid
    <3>1. Dead(w)' /\ Open(w, p)' /\ ~Dead(w)
      BY <1>3, <2>4 DEF Prepaid
    <3>2. execution'[w].pc = "post"
      BY <3>1 DEF Open
    <3> QED BY <1>3, <2>1, <3>1, <3>2 DEF Handles, Dead
  <2>6. CASE workflow[t].worker # w
    <3>1. CASE posts'[p] = posts[p]
      BY <1>1, <1>2, <1>3, <1>5, <1>6, <2>5, <2>6, <3>1
    <3>2. CASE posts'[p] # posts[p]
      <4>1. w \in Prepaid(p)
        BY <1>8, <2>1, <2>6, <3>2 DEF Handles, Prepaid, Open, Pending, AtProfile
      <4>2. w \notin Prepaid(p)' /\ posts'[p] = posts[p] + 1
        BY <2>1, <3>2 DEF Handles, Prepaid, Open
      <4> QED BY <1>1, <1>2, <1>3, <1>5, <1>6, <2>6, <4>1, <4>2
    <3> QED BY <3>1, <3>2
  <2>7. CASE workflow[t].worker = w /\ Dead(w)
    <3>1. before = 0
      BY <2>7 DEF Written
    <3>2. CASE posts'[p] = posts[p]
      BY <1>1, <1>2, <1>3, <1>6, <2>5, <3>1, <3>2
    <3>3. CASE posts'[p] # posts[p]
      <4>1. w \in Prepaid(p)
        BY <1>8, <2>1, <2>7, <3>3 DEF Handles, Prepaid, Open, Pending, AtProfile
      <4>2. w \notin Prepaid(p)' /\ posts'[p] = posts[p] + 1
        BY <2>1, <3>3 DEF Handles, Prepaid, Open
      <4> QED BY <1>1, <1>2, <1>3, <1>6, <3>1, <4>1, <4>2
    <3> QED BY <3>2, <3>3
  <2>8. CASE workflow[t].worker = w /\ ~Dead(w)
    <3>1. w # Null
      BY SyncAssumptions DEF Assumptions
    <3>2. execution[w].pc # "system" => ~Dead(w)'
      BY <1>3, <2>1, <2>8 DEF Handles, Dead
    <3>3. Written(p) <=> Passed(execution[w], p)
      BY <2>8, <3>1 DEF Written
    <3>4. Passed(execution[w], p) \/ posts'[p] # posts[p] => execution[w].pc # "system"
      BY <2>1 DEF Passed, Handles, AtProfile
    <3>5. execution[w].pc # "system" => (Written(p)' <=> Passed(execution'[w], p))
      BY <1>3, <2>8, <3>1, <3>2 DEF Written, Passed, Pending
    <3>6. CASE posts'[p] = posts[p]
      <4>1. before = 0 \/ after = 1 \/ failures' = failures + 1
        BY <2>1, <2>8, <3>3, <3>4, <3>5 DEF Handles
      <4> QED BY <1>1, <1>2, <1>3, <1>6, <2>5, <3>6, <4>1
    <3>7. CASE posts'[p] # posts[p]
      <4>1. posts'[p] = posts[p] + 1 /\ (after = 1 \/ failures' = failures + 1)
        BY <2>1, <3>4, <3>5, <3>7 DEF Handles
      <4>2. before = 0
        BY <2>1, <3>3, <3>7 DEF Handles, Passed, Pending, AtProfile
      <4> QED BY <1>1, <1>2, <1>3, <1>6, <2>5, <4>1, <4>2
    <3> QED BY <3>6, <3>7
  <2> QED BY <2>6, <2>7, <2>8
<1> QED BY <1>7, <1>8

LEMMA WorkKeepsPosts ==
  ASSUME TypeInv, ReasonInv, PostInv, NEW w \in Workers, WorkStep(w)
  PROVE  PostInv'
<1>1. /\ UNCHANGED <<workflow, rounds, touched>> /\ execution[w].pc \notin {"idle", "report"}
      /\ CutShort(w) \/ Ends(w) \/ Loads(w) \/ Proceeds(w) \/ Lists(w) \/ Finds(w)
  BY WorkMoves DEF engineVars, environment
<1>2. \A v \in Workers \ {w} : execution'[v] = execution[v]
  BY <1>1 DEF CutShort, Ends, Loads, Proceeds, Lists, Finds, Reaches
<1>3. UpperInv'
  BY WorkKeepsUpper DEF UpperInv
<1>4. \A p \in Profiles : posts'[p] \in {posts[p], posts[p] + 1}
  <2>1. posts \in [Profiles -> Nat] /\ (execution[w].pc = "post" => execution[w].profile \in Profiles)
    BY DEF TypeInv, TypeOK, ExecutionInv, AtProfile
  <2> QED BY <2>1, WorkMoves DEF Posts
<1>5. execution'[w].tenant = execution[w].tenant
  <2>1. execution[w] \in Execution
    BY DEF TypeInv, TypeOK
  <2> QED BY <1>1, <2>1 DEF CutShort, Ends, Loads, Proceeds, Lists, Finds, Reaches, Execution
<1>6. LoopInv'
  <2>1. LoopOK(execution'[w])
    <3>1. CASE \E p : p \in ProfilesOf(execution[w].tenant)
      BY <3>1, WorkHandles DEF PostInv, Handles
    <3>2. CASE ProfilesOf(execution[w].tenant) = {}
      <4>1. LoopOK(execution[w]) /\ execution[w] \in Execution
        BY DEF PostInv, LoopInv, TypeInv, TypeOK
      <4>2. execution[w].todo = {} /\ execution[w].pc \notin AtProfile
        BY <1>1, <3>2, <4>1 DEF LoopOK
      <4>3. execution'[w].pc # "system" /\ execution'[w].todo = {} /\ execution'[w].pc \notin AtProfile
        BY <1>1, <3>2, <4>1, <4>2
           DEF CutShort, Ends, Loads, Proceeds, Lists, Finds, Reaches, Follows, Execution, AtProfile
      <4> QED BY <4>3 DEF LoopOK
    <3> QED BY <3>1, <3>2
  <2> QED BY <1>2, <2>1 DEF PostInv, LoopInv
<1>7. LowerInv'
  <2> SUFFICES ASSUME NEW p \in Profiles, TenantOf[p] \notin touched
               PROVE  /\ rounds[TenantOf[p]] <= posts'[p]
                      /\ workflow[TenantOf[p]].worker # Null
                         /\ Passed(execution'[workflow[TenantOf[p]].worker], p) =>
                            rounds[TenantOf[p]] < posts'[p]
    BY <1>1 DEF LowerInv
  <2> DEFINE t == TenantOf[p]
  <2>1. posts[p] \in Nat /\ rounds[t] \in Nat /\ workflow[t].worker \in Workers \cup {Null}
    BY NumbersAre DEF Workflow
  <2>2. /\ rounds[t] <= posts[p]
        /\ workflow[t].worker # Null /\ Passed(execution[workflow[t].worker], p) => rounds[t] < posts[p]
    BY DEF PostInv, LowerInv
  <2>3. CASE workflow[t].worker = w /\ w # Null
    <3>1. execution[w].tenant = t
      BY <2>3, NumbersAre DEF TypeInv, WorkflowInv
    <3>2. Handles(w, p)
      BY <3>1, WorkHandles DEF PostInv, ProfilesOf
    <3>3. execution[w].pc = "list" => execution[w].system = "seeded"
      BY <3>1 DEF ReasonInv
    <3> QED BY <1>4, <2>1, <2>2, <2>3, <3>2, <3>3 DEF Handles
  <2>4. CASE ~(workflow[t].worker = w /\ w # Null)
    <3>1. workflow[t].worker # Null => execution'[workflow[t].worker] = execution[workflow[t].worker]
      BY <1>2, <2>1, <2>4
    <3> QED BY <1>4, <2>1, <2>2, <3>1
  <2> QED BY <2>3, <2>4
<1> QED BY <1>3, <1>6, <1>7 DEF PostInv

\* The round that a result ends accounts for the posts of its execution; one that
\* is reported as failed wrote at the expense of a failure.
LEMMA ReportKeepsPosts ==
  ASSUME TypeInv, PostInv, NEW w \in Workers, ReportResult(w)
  PROVE  PostInv'
<1> DEFINE u == execution[w].tenant
<1> USE SyncAssumptions DEF Assumptions
<1>1. /\ execution[w].pc = "report" /\ u \in Tenants
      /\ UNCHANGED <<posts, cache, touched, failures>>
      /\ execution'[w] = NoExecution /\ \A v \in Workers \ {w} : execution'[v] = execution[v]
  BY DEF ReportResult, TypeInv, TypeOK, ExecutionInv, tables, pluginVars, environment
<1>2. LoopInv'
  <2>1. LoopOK(NoExecution)
    BY DEF LoopOK, NoExecution, AtProfile
  <2> QED BY <1>1, <2>1 DEF PostInv, LoopInv
<1>3. \A v \in Workers \ {w} : Dead(v)' = Dead(v)
  BY <1>1 DEF Dead
<1>4. ASSUME NEW p \in Profiles
      PROVE  /\ posts[p] + Cardinality(Prepaid(p)') <= rounds'[TenantOf[p]] + failures
                                                       + (IF Written(p)' THEN 1 ELSE 0)
             /\ TenantOf[p] \notin touched =>
                   /\ rounds'[TenantOf[p]] <= posts[p]
                   /\ workflow'[TenantOf[p]].worker # Null
                      /\ Passed(execution'[workflow'[TenantOf[p]].worker], p) =>
                         rounds'[TenantOf[p]] < posts[p]
  <2> DEFINE t == TenantOf[p]
             before == IF Written(p) THEN 1 ELSE 0
             after == IF Written(p)' THEN 1 ELSE 0
  <2>1. /\ posts[p] \in Nat /\ rounds[t] \in Nat /\ failures \in Nat /\ t \in Tenants
        /\ Cardinality(Prepaid(p)) \in Nat /\ workflow[t].worker \in Workers \cup {Null}
        /\ before \in {0, 1} /\ after \in {0, 1}
    BY NumbersAre DEF Workflow
  <2>2. posts[p] + Cardinality(Prepaid(p)) <= rounds[t] + failures + before
    BY DEF PostInv, UpperInv
  <2>3. t \notin touched => /\ rounds[t] <= posts[p]
                            /\ workflow[t].worker # Null
                               /\ Passed(execution[workflow[t].worker], p) => rounds[t] < posts[p]
    BY DEF PostInv, LowerInv
  <2>4. w \notin Prepaid(p) /\ w \notin Prepaid(p)'
    BY <1>1 DEF Prepaid, Open, Pending, NoExecution, AtProfile
  <2>5. \A v \in Workers \ {w} : Open(v, p)' = Open(v, p)
    BY <1>1, <1>3 DEF Open, Pending
  <2>6. CASE workflow'[t] = workflow[t] /\ rounds'[t] = rounds[t] /\ workflow[t].worker # w
    <3>1. Prepaid(p)' = Prepaid(p)
      BY <1>3, <2>4, <2>5, <2>6 DEF Prepaid
    <3>2. workflow[t].worker # Null => execution'[workflow[t].worker] = execution[workflow[t].worker]
      BY <1>1, <2>1, <2>6
    <3>3. Written(p)' = Written(p)
      BY <1>1, <2>6, <3>2 DEF Written, Dead, Passed, Pending
    <3> QED BY <2>1, <2>2, <2>3, <2>6, <3>1, <3>2, <3>3
  <2>7. CASE workflow[t].worker = w /\ t = u /\ workflow'[t].worker = Null
    <3>1. Prepaid(p)' = Prepaid(p)
      BY <1>1, <1>3, <2>4, <2>5, <2>7 DEF Prepaid
    <3>2. CASE ~execution[w].failed
      <4>1. rounds'[t] = rounds[t] + 1
        BY <1>1, <2>7, <3>2 DEF ReportResult, TypeInv, TypeOK
      <4>2. Passed(execution[w], p)
        BY <1>1, <3>2 DEF PostInv, LoopInv, LoopOK, Passed, Pending, AtProfile
      <4> QED BY <2>1, <2>2, <2>3, <2>7, <3>1, <4>1, <4>2
    <3>3. CASE execution[w].failed
      <4>1. rounds'[t] = rounds[t]
        BY <1>1, <2>7, <3>3 DEF ReportResult, TypeInv, TypeOK
      <4>2. before = 0
        BY <2>7, <3>3 DEF Written, Passed
      <4> QED BY <2>1, <2>2, <2>3, <2>7, <3>1, <4>1, <4>2
    <3> QED BY <3>2, <3>3
  <2>8. \/ workflow'[t] = workflow[t] /\ rounds'[t] = rounds[t] /\ workflow[t].worker # w
        \/ workflow[t].worker = w /\ t = u /\ workflow'[t].worker = Null
    <3>1. workflow \in [Tenants -> Workflow] /\ rounds \in [Tenants -> 0..MaxRounds]
      BY DEF TypeInv, TypeOK
    <3>2. workflow[t].worker = w => t = u
      BY <2>1 DEF TypeInv, WorkflowInv
    <3> QED BY <1>1, <2>1, <3>1, <3>2 DEF ReportResult, engineVars
  <2> QED BY <2>6, <2>7, <2>8
<1>5. UpperInv'
  BY <1>1, <1>4 DEF UpperInv
<1>6. LowerInv'
  BY <1>1, <1>4 DEF LowerInv
<1> QED BY <1>2, <1>5, <1>6 DEF PostInv

\* What the other steps have to show for one profile.
Accounted(p) ==
    /\ posts'[p] + Cardinality(Prepaid(p)') <= rounds'[TenantOf[p]] + failures'
                                              + (IF Written(p)' THEN 1 ELSE 0)
    /\ TenantOf[p] \notin touched' =>
          /\ rounds'[TenantOf[p]] <= posts'[p]
          /\ workflow'[TenantOf[p]].worker # Null
             /\ Passed(execution'[workflow'[TenantOf[p]].worker], p) =>
                rounds'[TenantOf[p]] < posts'[p]

LEMMA AccountedSuffices ==
  ASSUME \A v \in Workers : LoopOK(execution'[v]), \A p \in Profiles : Accounted(p)
  PROVE  PostInv'
BY DEF Accounted, PostInv, LoopInv, UpperInv, LowerInv

LEMMA TakeKeepsPosts ==
  ASSUME TypeInv, PostInv, NEW w \in Workers, NEW u \in Tenants, TakeTask(w, u)
  PROVE  PostInv'
<1> DEFINE e == [NoExecution EXCEPT !.pc = "system", !.tenant = u]
<1> USE SyncAssumptions DEF Assumptions
<1>1. /\ execution[w].pc = "idle" /\ workflow[u].worker = Null
      /\ UNCHANGED <<posts, cache, touched, failures, rounds>>
      /\ execution'[w] = e /\ \A v \in Workers \ {w} : execution'[v] = execution[v]
      /\ workflow'[u].worker = w /\ \A t \in Tenants \ {u} : workflow'[t] = workflow[t]
  BY DEF TakeTask, TypeInv, TypeOK, Workflow, tables, pluginVars, environment
<1>2. e.pc = "system" /\ e.plugin = Null /\ e.todo = {} /\ e.tenant = u
  BY DEF NoExecution
<1>3. \A v \in Workers : LoopOK(execution'[v])
  BY <1>1, <1>2 DEF LoopOK, AtProfile, PostInv, LoopInv
<1>4. \A v \in Workers \ {w} : Dead(v)' = Dead(v)
  BY <1>1 DEF Dead
<1>5. ~Dead(w)'
  BY <1>1, <1>2 DEF Dead
<1>6. \A t \in Tenants : workflow[t].worker # w
  BY <1>1 DEF TypeInv, WorkflowInv
<1>7. ASSUME NEW p \in Profiles PROVE Accounted(p)
  <2> DEFINE t == TenantOf[p]
             before == IF Written(p) THEN 1 ELSE 0
             after == IF Written(p)' THEN 1 ELSE 0
  <2>1. /\ posts[p] \in Nat /\ rounds[t] \in Nat /\ failures \in Nat /\ t \in Tenants
        /\ Cardinality(Prepaid(p)) \in Nat /\ workflow[t].worker \in Workers \cup {Null}
        /\ before \in {0, 1} /\ after \in {0, 1}
    BY NumbersAre DEF Workflow
  <2>2. posts[p] + Cardinality(Prepaid(p)) <= rounds[t] + failures + before
    BY DEF PostInv, UpperInv
  <2>3. t \notin touched => /\ rounds[t] <= posts[p]
                            /\ workflow[t].worker # Null
                               /\ Passed(execution[workflow[t].worker], p) => rounds[t] < posts[p]
    BY DEF PostInv, LowerInv
  <2>4. \A v \in Workers \ {w} : Open(v, p)' = Open(v, p)
    BY <1>1, <1>4 DEF Open, Pending
  <2>5. w \notin Prepaid(p)
    BY <1>1 DEF Prepaid, Open, Pending, AtProfile
  <2>6. w \notin Prepaid(p)'
    BY <1>1, <1>2, <1>5 DEF Prepaid, Open
  <2>7. CASE t = u
    <3>1. Prepaid(p)' = Prepaid(p)
      BY <1>1, <1>4, <2>4, <2>5, <2>6, <2>7 DEF Prepaid
    <3>2. before = 0
      BY <1>1, <2>7 DEF Written
    <3>3. ~Passed(execution'[w], p)
      BY <1>1, <1>2 DEF Passed, AtProfile
    <3> QED BY <1>1, <2>1, <2>2, <2>3, <2>7, <3>1, <3>2, <3>3 DEF Accounted
  <2>8. CASE t # u
    <3>1. Prepaid(p)' = Prepaid(p)
      BY <1>1, <1>4, <2>1, <2>4, <2>5, <2>6, <2>8 DEF Prepaid
    <3>2. workflow[t].worker # Null => execution'[workflow[t].worker] = execution[workflow[t].worker]
      BY <1>1, <1>6, <2>1
    <3>3. Written(p)' = Written(p)
      BY <1>1, <1>4, <1>6, <2>1, <2>8, <3>2 DEF Written
    <3> QED BY <1>1, <2>1, <2>2, <2>3, <2>8, <3>1, <3>2, <3>3 DEF Accounted
  <2> QED BY <2>7, <2>8
<1> QED BY <1>3, <1>7, AccountedSuffices

\* The worker stops: the failure pays for what its executions wrote.
LEMMA CrashKeepsPosts ==
  ASSUME TypeInv, PostInv, CrashWorker
  PROVE  PostInv'
<1>1. /\ UNCHANGED <<posts, touched, rounds>> /\ failures' = failures + 1
      /\ \A v \in Workers : execution'[v].pc = "idle" /\ execution'[v].todo = {}
      /\ \A t \in Tenants : workflow'[t].worker = Null
  BY DEF CrashWorker, TypeInv, TypeOK, Workflow, Fail, NoExecution, tables, environment
<1>2. \A v \in Workers : LoopOK(execution'[v])
  BY <1>1 DEF LoopOK, AtProfile
<1>3. ASSUME NEW p \in Profiles PROVE Accounted(p)
  <2> DEFINE t == TenantOf[p]
             before == IF Written(p) THEN 1 ELSE 0
  <2>1. /\ posts[p] \in Nat /\ rounds[t] \in Nat /\ failures \in Nat /\ t \in Tenants
        /\ Cardinality(Prepaid(p)) \in Nat /\ before \in {0, 1}
    BY NumbersAre
  <2>2. posts[p] + Cardinality(Prepaid(p)) <= rounds[t] + failures + before
    BY DEF PostInv, UpperInv
  <2>3. t \notin touched => rounds[t] <= posts[p]
    BY DEF PostInv, LowerInv
  <2>4. Prepaid(p)' = {}
    BY <1>1 DEF Prepaid, Open, Pending, AtProfile
  <2>5. Cardinality(Prepaid(p)') = 0
    BY <2>4, FS_EmptySet
  <2>6. ~Written(p)'
    BY <1>1, <2>1 DEF Written
  <2> QED BY <1>1, <2>1, <2>2, <2>3, <2>5, <2>6 DEF Accounted
<1> QED BY <1>2, <1>3, AccountedSuffices

\* A task that is given to nobody: what its execution may still post is prepaid.
LEMMA RedeliveryKeepsPosts ==
  ASSUME TypeInv, PostInv, NEW u \in Tenants, RedeliverTask(u)
  PROVE  PostInv'
<1>1. /\ UNCHANGED <<posts, cache, touched, rounds, execution>> /\ failures' = failures + 1
      /\ workflow'[u].worker = Null /\ \A t \in Tenants \ {u} : workflow'[t] = workflow[t]
  BY DEF RedeliverTask, TypeInv, TypeOK, Workflow, Fail, tables, pluginVars, environment
<1>2. \A v \in Workers : LoopOK(execution'[v])
  BY <1>1 DEF PostInv, LoopInv
<1>3. \A v \in Workers, p \in Profiles : Open(v, p)' = Open(v, p) /\ Dead(v)' = Dead(v)
  BY <1>1 DEF Open, Dead
<1>4. ASSUME NEW p \in Profiles PROVE Accounted(p)
  <2> PICK o \in Workers \cup {Null} : o = workflow[TenantOf[p]].worker
    BY NumbersAre DEF Workflow
  <2> DEFINE t == TenantOf[p]
             before == IF Written(p) THEN 1 ELSE 0
             after == IF Written(p)' THEN 1 ELSE 0
  <2>1. /\ posts[p] \in Nat /\ rounds[t] \in Nat /\ failures \in Nat /\ t \in Tenants
        /\ Cardinality(Prepaid(p)) \in Nat /\ o \in Workers \cup {Null}
        /\ before \in {0, 1} /\ after \in {0, 1}
    BY NumbersAre DEF Workflow
  <2>2. posts[p] + Cardinality(Prepaid(p)) <= rounds[t] + failures + before
    BY DEF PostInv, UpperInv
  <2>3. t \notin touched => /\ rounds[t] <= posts[p]
                            /\ o # Null /\ Passed(execution[o], p) => rounds[t] < posts[p]
    BY DEF PostInv, LowerInv
  <2>4. CASE t # u
    <3>1. Prepaid(p)' = Prepaid(p)
      BY <1>1, <1>3, <2>1, <2>4 DEF Prepaid
    <3>2. Written(p)' = Written(p)
      BY <1>1, <2>1, <2>4 DEF Written, Dead
    <3> QED BY <1>1, <2>1, <2>2, <2>3, <2>4, <3>1, <3>2 DEF Accounted
  <2>5. CASE t = u
    <3>1. Prepaid(p)' \in SUBSET (Prepaid(p) \cup {o})
      BY <1>1, <1>3, <2>5 DEF Prepaid
    <3>2. Cardinality(Prepaid(p)') \in Nat /\ Cardinality(Prepaid(p)') <= Cardinality(Prepaid(p)) + 1
      BY <3>1, PrepaidIsFinite, CountAdded, FS_CardinalityType
    <3>3. Written(p) => Cardinality(Prepaid(p)') <= Cardinality(Prepaid(p))
      <4> SUFFICES ASSUME Written(p) PROVE Cardinality(Prepaid(p)') <= Cardinality(Prepaid(p))
        OBVIOUS
      <4>1. ~Open(o, p)'
        BY <1>1 DEF Written, Passed, Open
      <4>2. Prepaid(p)' \in SUBSET Prepaid(p)
        BY <3>1, <4>1 DEF Prepaid
      <4> QED BY <4>2, PrepaidIsFinite, CountSubset
    <3> QED BY <1>1, <2>1, <2>2, <2>3, <2>5, <3>2, <3>3 DEF Accounted
  <2> QED BY <2>4, <2>5
<1> QED BY <1>2, <1>4, AccountedSuffices

\* A plugin exits: a text that was generated before is prepaid, and the exit pays
\* for what the executions with a dead client wrote.
LEMMA ExitKeepsPosts ==
  ASSUME TypeInv, PostInv, NEW n \in Plugins, ExitPlugin(n)
  PROVE  PostInv'
<1>1. /\ UNCHANGED <<posts, touched, rounds, execution, workflow>> /\ failures' = failures + 1
      /\ \A m \in Plugins : cache[m] = "dead" => cache'[m] = "dead"
  BY DEF ExitPlugin, TypeInv, TypeOK, Fail, tables, engineVars
<1>2. \A v \in Workers : LoopOK(execution'[v])
  BY <1>1 DEF PostInv, LoopInv
<1>3. \A v : Dead(v) => Dead(v)'
  BY <1>1 DEF Dead
<1>4. ASSUME NEW p \in Profiles PROVE Accounted(p)
  <2> PICK o \in Workers \cup {Null} : o = workflow[TenantOf[p]].worker
    BY NumbersAre DEF Workflow
  <2> DEFINE t == TenantOf[p]
             before == IF Written(p) THEN 1 ELSE 0
             after == IF Written(p)' THEN 1 ELSE 0
  <2>1. /\ posts[p] \in Nat /\ rounds[t] \in Nat /\ failures \in Nat /\ t \in Tenants
        /\ Cardinality(Prepaid(p)) \in Nat /\ o \in Workers \cup {Null}
        /\ before \in {0, 1} /\ after \in {0, 1}
    BY NumbersAre DEF Workflow
  <2>2. posts[p] + Cardinality(Prepaid(p)) <= rounds[t] + failures + before
    BY DEF PostInv, UpperInv
  <2>3. t \notin touched => /\ rounds[t] <= posts[p]
                            /\ o # Null /\ Passed(execution[o], p) => rounds[t] < posts[p]
    BY DEF PostInv, LowerInv
  <2>4. \A v \in Workers : Open(v, p)' => Open(v, p)
    BY <1>1, <1>3 DEF Open, Pending, AtProfile
  <2>5. Prepaid(p)' \in SUBSET (Prepaid(p) \cup {o})
    BY <1>1, <2>4 DEF Prepaid
  <2>6. Cardinality(Prepaid(p)') \in Nat /\ Cardinality(Prepaid(p)') <= Cardinality(Prepaid(p)) + 1
    BY <2>5, PrepaidIsFinite, CountAdded, FS_CardinalityType
  <2>7. Written(p) => Cardinality(Prepaid(p)') <= Cardinality(Prepaid(p))
    <3> SUFFICES ASSUME Written(p) PROVE Cardinality(Prepaid(p)') <= Cardinality(Prepaid(p))
      OBVIOUS
    <3>1. ~Open(o, p)'
      BY <1>1 DEF Written, Passed, Open
    <3>2. Prepaid(p)' \in SUBSET Prepaid(p)
      BY <2>5, <3>1 DEF Prepaid
    <3> QED BY <3>2, PrepaidIsFinite, CountSubset
  <2> QED BY <1>1, <2>1, <2>2, <2>3, <2>6, <2>7 DEF Accounted
<1> QED BY <1>2, <1>4, AccountedSuffices

\* The other steps leave the executions, and who holds a task, alone.
LEMMA RestKeepsPosts ==
  ASSUME TypeInv, PostInv, UNCHANGED <<posts, rounds, execution, cache, failures>>,
         touched \subseteq touched',
         \A t \in Tenants : workflow'[t].worker = workflow[t].worker
  PROVE  PostInv'
<1>1. \A v \in Workers : LoopOK(execution'[v])
  BY DEF PostInv, LoopInv
<1>2. ASSUME NEW p \in Profiles PROVE Accounted(p)
  <2>1. TenantOf[p] \in Tenants
    BY NumbersAre
  <2>2. Prepaid(p)' = Prepaid(p) /\ Written(p)' = Written(p)
    BY <2>1 DEF Prepaid, Written, Open, Dead
  <2> QED BY <2>1, <2>2 DEF Accounted, PostInv, UpperInv, LowerInv
<1> QED BY <1>1, <1>2, AccountedSuffices

LEMMA PostStep == TypeInv /\ ReasonInv /\ PostInv /\ [Next]_vars => PostInv'
<1> SUFFICES ASSUME TypeInv, ReasonInv, PostInv, [Next]_vars PROVE PostInv'
  OBVIOUS
<1>1. ASSUME NEW w \in Workers, ActivityStep(w) PROVE PostInv'
  BY <1>1, WorkKeepsPosts, ReportKeepsPosts DEF ActivityStep, WorkStep, PlainStep
<1>2. ASSUME NEW t \in Tenants, StartSync(t) \/ WakeUp(t) PROVE PostInv'
  <2>1. UNCHANGED <<posts, rounds, execution, cache, failures, touched>>
    BY <1>2 DEF StartSync, WakeUp, tables, pluginVars, environment
  <2>2. \A u \in Tenants : workflow'[u].worker = workflow[u].worker
    <3>1. workflow' = [workflow EXCEPT ![t].state = "active"]
      BY <1>2 DEF StartSync, WakeUp
    <3>2. workflow \in [Tenants -> Workflow] /\ workflow[t] \in Workflow
      BY DEF TypeInv, TypeOK
    <3>3. workflow'[t] = [workflow[t] EXCEPT !.state = "active"]
      BY <3>1, <3>2
    <3> QED BY <3>1, <3>2, <3>3 DEF Workflow
  <2> QED BY <2>1, <2>2, RestKeepsPosts
<1>3. ASSUME NEW t \in Tenants, NEW n \in Plugins \cup {Missing},
             UpdateSystem(t, n) \/ CreateSystem(t, n) \/ RemoveDefault(t, n)
      PROVE  PostInv'
  <2>1. UNCHANGED <<posts, rounds, execution, cache, failures, workflow>> /\ touched \subseteq touched'
    BY <1>3 DEF UpdateSystem, CreateSystem, RemoveDefault, Change, engineVars, pluginVars
  <2> QED BY <2>1, RestKeepsPosts
<1>4. CASE UNCHANGED vars
  <2>1. UNCHANGED <<posts, rounds, execution, cache, failures, workflow, touched>>
    BY <1>4 DEF vars, tables, engineVars, pluginVars, environment
  <2> QED BY <2>1, RestKeepsPosts
<1> QED
  BY <1>1, <1>2, <1>3, <1>4, TakeKeepsPosts, CrashKeepsPosts, RedeliveryKeepsPosts, ExitKeepsPosts
     DEF Next

\* A profile has a post of every round, unless the default system of its tenant
\* was changed, and more only by the round under way and by one for each
\* failure, however many tenants and plugins there are (jobs/sync.go:85-90,
\* 155-160).
THEOREM PostsAreAccounted == Spec => []PostsArePaidFor
<1>1. Init => ReasonInv /\ PostInv
  BY ReasonInit, PostInit
<1>2. TypeInv /\ ReasonInv /\ PostInv /\ [Next]_vars => ReasonInv' /\ PostInv'
  BY ReasonStep, PostStep
<1>3. TypeInv /\ PostInv => PostsArePaidFor
  <2> SUFFICES ASSUME TypeInv, PostInv, NEW p \in Profiles
               PROVE  /\ posts[p] <= rounds[TenantOf[p]] + 1 + failures
                      /\ TenantOf[p] \notin touched => rounds[TenantOf[p]] <= posts[p]
    BY DEF PostsArePaidFor
  <2>1. /\ posts[p] \in Nat /\ rounds[TenantOf[p]] \in Nat /\ failures \in Nat
        /\ Cardinality(Prepaid(p)) \in Nat
    BY NumbersAre
  <2> QED BY <2>1 DEF PostInv, UpperInv, LowerInv
<1> QED BY <1>1, <1>2, <1>3, TypesHold, PTL DEF Spec

=============================================================================
