---------------------------- MODULE DeployProofs ----------------------------
(***************************************************************************)
(* Theorems about Deploy, for every set of targets, releases, handlers and *)
(* workers, every set of faults and every bound: first its types and what  *)
(* the statements promise, then what becomes of a release and of the lock  *)
(* of its target, whatever fails.                                          *)
(***************************************************************************)
EXTENDS Deploy, TargetProofs, FiniteSets, FiniteSetTheorems, TLAPS

-----------------------------------------------------------------------------
(* Type correctness *)

LEMMA InitType == Init => TypeOK
BY MaxFailuresAssumption, MaxAttemptsAssumption, MaxClockAssumption
   DEF Init, TargetInit, TypeOK, TargetTypeOK, TargetRow, NoTarget, Handling, Idle,
       Release, NoRelease, PayloadState, Starting, NotStarting, Workflow, NoWorkflow,
       Execution, NoExecution, Executing, Exists

\* What the statements that set a status leave alone.
SameReleases ==
    /\ release' \in [Releases -> Release]
    /\ \A q \in Releases : /\ Exists(q)' <=> Exists(q)
                          /\ release'[q].target = release[q].target
                          /\ release'[q].payload = release[q].payload

LEMMA SetStatusType ==
  ASSUME release \in [Releases -> Release], NEW r, Exists(r),
         NEW s \in {"unknown", "wait", "deployed", "dead"},
         SetStatus(r, s) \/ UNCHANGED release
  PROVE  SameReleases
<1>1. CASE SetStatus(r, s)
  <2>1. release' = [release EXCEPT ![r] = [release[r] EXCEPT !.status = s]]
    BY <1>1 DEF SetStatus
  <2>2. [release[r] EXCEPT !.status = s] \in Release
    BY DEF Release, Exists
  <2>3. release' \in [Releases -> Release]
    BY <2>1, <2>2
  <2>4. ASSUME NEW q \in Releases
        PROVE  /\ Exists(q)' <=> Exists(q)
               /\ release'[q].target = release[q].target
               /\ release'[q].payload = release[q].payload
    BY <2>1 DEF Exists, Release
  <2> QED BY <2>3, <2>4 DEF SameReleases
<1>2. CASE UNCHANGED release
  BY <1>2 DEF SameReleases, Exists
<1> QED BY <1>1, <1>2

\* Every step of Deploy's own keeps the types of TargetService, when it changes
\* at most the failures of them.
LEMMA FrameType ==
  ASSUME TargetTypeOK, UNCHANGED <<target, probing, handling>>,
         failures' = failures \/ \E k \in FaultKinds : Fail(k)
  PROVE  TargetTypeOK'
BY FailureType DEF TargetTypeOK

\* A worker that goes on executes the release that it executed.
LEMMA GoOnType ==
  ASSUME TypeOK, NEW w \in Workers, execution[w].pc # "idle",
         NEW step \in {"storage", "ssh", "markDead", "markOnline", "markDeployed", "unlock", "report"},
         GoTo(w, step) \/ FailAt(w, step)
  PROVE  /\ execution' \in [Workers -> Execution]
         /\ \A v \in Workers : /\ execution'[v].release = execution[v].release
                              /\ execution'[v].now = execution[v].now
                              /\ execution'[v].pc = IF v = w THEN step ELSE execution[v].pc
<1>1. execution \in [Workers -> Execution]
  BY DEF TypeOK
<1>2. CASE GoTo(w, step)
  BY <1>1, <1>2 DEF GoTo, Execution
<1>3. CASE FailAt(w, step)
  <2>1. execution' = [execution EXCEPT ![w] = [execution[w] EXCEPT !.pc = step, !.failed = TRUE]]
    BY <1>3 DEF FailAt
  <2>2. [execution[w] EXCEPT !.pc = step, !.failed = TRUE] \in Execution
    BY <1>1 DEF Execution
  <2> QED BY <1>1, <2>1, <2>2 DEF Execution
<1> QED BY <1>2, <1>3

\* Writing the lock of a target leaves its other columns alone.
LEMMA WriteLockType ==
  ASSUME target \in [Targets -> TargetRow],
         NEW t \in Targets, NEW d \in BOOLEAN, NEW at \in Int \cup {Null},
         target' = [target EXCEPT ![t].deploying = d, ![t].deployingAt = at]
  PROVE  target' \in [Targets -> TargetRow]
<1>1. \A u \in Targets \ {t} : target'[u] = target[u]
  OBVIOUS
<1>2. target'[t] = [target[t] EXCEPT !.deploying = d, !.deployingAt = at]
  OBVIOUS
<1>3. target'[t] \in TargetRow
  BY <1>2 DEF TargetRow
<1>4. target' = [u \in Targets |-> target'[u]]
  OBVIOUS
<1> QED BY <1>1, <1>3, <1>4

\* Every step keeps the types.

LEMMA TypeStep == ASSUME TypeOK, [Next]_vars PROVE TypeOK'
<1> USE DEF TypeOK, Exists
<1>1. CASE TargetStep
  <2>1. TargetTypeOK'
    BY <1>1, TargetTypeStep DEF TargetStep
  <2> QED BY <1>1, <2>1 DEF TargetStep, BesideTheWorkers
<1>2. ASSUME NEW p \in Payloads, NEW s \in PayloadState, SetPayload(p, s) PROVE TypeOK'
  BY <1>2 DEF SetPayload, targetVars, TargetTypeOK
<1>3. ASSUME NEW r \in Releases, NEW t \in Targets, NEW p \in Payloads, CreateRelease(r, t, p)
      PROVE  TypeOK'
  BY <1>3 DEF CreateRelease, Release, targetVars, TargetTypeOK
<1>4. ASSUME NEW h \in Callers, NEW r \in Releases, AcceptRelease(h, r) PROVE TypeOK'
  BY <1>4 DEF AcceptRelease, SetStatus, Release, Starting, targetVars, TargetTypeOK
<1>5. ASSUME NEW h \in Callers, StartWorkflow(h) PROVE TypeOK'
  <2>1. TargetTypeOK'
    BY <1>5, FrameType DEF StartWorkflow, FaultKinds
  <2>2. starting[h].release \in Releases
    BY <1>5 DEF StartWorkflow
  <2>3. NewInstance(starting[h].release) \/ UNCHANGED workflow
    BY <1>5 DEF StartWorkflow
  <2>4. starting' \in [Callers -> Starting]
    BY <1>5 DEF StartWorkflow, Starting, NotStarting
  <2>5. \A g \in Callers : starting'[g].pc # "idle" =>
           starting[g].pc # "idle" /\ starting'[g].release = starting[g].release
    BY <1>5 DEF StartWorkflow, Starting, NotStarting
  <2>6. workflow' \in [Releases -> Workflow]
    BY <2>2, <2>3, MaxAttemptsAssumption DEF NewInstance, NoWorkflow, Workflow
  <2>7. \A q \in Releases :
           \/ workflow'[q] = workflow[q]
           \/ workflow'[q] = [NoWorkflow EXCEPT !.state = "active"] /\ q = starting[h].release
    BY <2>2, <2>3 DEF NewInstance, Workflow
  <2>8. \A q \in Releases :
           /\ workflow'[q].state # "none" => Exists(q)
           /\ workflow'[q].state = "active" => workflow'[q].attempts < MaxAttempts
           /\ workflow'[q].worker # Null => workflow'[q].state = "active"
    BY <1>5, <2>7, MaxAttemptsAssumption DEF NoWorkflow, StartWorkflow
  <2> QED BY <1>5, <2>1, <2>4, <2>5, <2>6, <2>8 DEF StartWorkflow
<1>6. ASSUME NEW h \in Callers, RevertRelease(h) PROVE TypeOK'
  <2>1. TargetTypeOK'
    BY <1>6, FrameType DEF RevertRelease, FaultKinds
  <2>2. SetStatus(starting[h].release, "unknown") \/ UNCHANGED release
    BY <1>6 DEF RevertRelease
  <2>3. starting' \in [Callers -> Starting]
    BY <1>6 DEF RevertRelease, Starting, NotStarting
  <2>4. \A g \in Callers : starting'[g].pc # "idle" =>
           starting[g].pc # "idle" /\ starting'[g].release = starting[g].release
    BY <1>6 DEF RevertRelease, Starting, NotStarting
  <2>5. starting[h].release \in Releases /\ Exists(starting[h].release)
    BY <1>6 DEF RevertRelease
  <2>6. SameReleases
    BY <2>2, <2>5, SetStatusType
  <2>7. abandoned' \subseteq Releases
    BY <1>6, <2>5 DEF RevertRelease
  <2> QED BY <1>6, <2>1, <2>3, <2>4, <2>6, <2>7 DEF RevertRelease, SameReleases
<1>7. ASSUME NEW h \in Callers, AbandonDeployHandler(h) PROVE TypeOK'
  <2>1. TargetTypeOK'
    BY <1>7, FrameType DEF AbandonDeployHandler, FaultKinds
  <2>2. starting' \in [Callers -> Starting]
    BY <1>7 DEF AbandonDeployHandler, Starting, NotStarting
  <2>3. \A g \in Callers : starting'[g].pc # "idle" =>
           starting[g].pc # "idle" /\ starting'[g].release = starting[g].release
    BY <1>7 DEF AbandonDeployHandler, Starting, NotStarting
  <2> QED BY <1>7, <2>1, <2>2, <2>3 DEF AbandonDeployHandler
<1>8. ASSUME NEW w \in Workers, NEW r \in Releases, TakeTask(w, r) PROVE TypeOK'
  <2>1. /\ workflow' \in [Releases -> Workflow]
        /\ \A q \in Releases : /\ workflow'[q].state = workflow[q].state
                              /\ workflow'[q].attempts = workflow[q].attempts
                              /\ workflow'[q].worker # Null => workflow[q].worker # Null \/ q = r
    BY <1>8 DEF TakeTask, Workflow
  <2>2. /\ execution' \in [Workers -> Execution]
        /\ \A v \in Workers : execution'[v].pc # "idle" =>
              \/ execution[v].pc # "idle" /\ execution'[v].release = execution[v].release
              \/ execution'[v].release = r
    BY <1>8 DEF TakeTask, Executing, Execution
  <2> QED BY <1>8, <2>1, <2>2 DEF TakeTask, targetVars, TargetTypeOK
<1>9. ASSUME NEW w \in Workers, ReportResult(w) PROVE TypeOK'
  <2> DEFINE r == execution[w].release
  <2>1. workflow' \in [Releases -> Workflow]
    <3>1. CASE workflow[r].worker # w
      BY <1>9, <3>1 DEF ReportResult
    <3>2. CASE workflow[r].worker = w
      <4>1. r \in Releases /\ workflow[r].attempts + 1 \in 0..MaxAttempts
        BY <1>9, <3>2, DeployNullAssumption, MaxAttemptsAssumption DEF ReportResult, Workflow
      <4> QED BY <1>9, <3>2, <4>1 DEF ReportResult, Workflow
    <3> QED BY <3>1, <3>2
  <2>2. \A q \in Releases :
           /\ workflow'[q].state # "none" => workflow[q].state # "none" \/ q = r
           /\ workflow'[q].state = "active" => workflow'[q].attempts < MaxAttempts
           /\ workflow'[q].worker # Null => workflow'[q].state = "active"
    BY <1>9 DEF ReportResult, Workflow
  <2>3. /\ execution' \in [Workers -> Execution]
        /\ \A v \in Workers : execution'[v].pc # "idle" =>
              execution[v].pc # "idle" /\ execution'[v].release = execution[v].release
    BY <1>9 DEF ReportResult, Execution, NoExecution, Executing
  <2> QED BY <1>9, <2>1, <2>2, <2>3 DEF ReportResult, targetVars, TargetTypeOK
<1>10. ASSUME NEW w \in Workers, CrashWorker(w) PROVE TypeOK'
  <2>1. TargetTypeOK'
    BY <1>10, FrameType DEF CrashWorker, FaultKinds
  <2>2. /\ workflow' \in [Releases -> Workflow]
        /\ \A q \in Releases : /\ workflow'[q].state = workflow[q].state
                              /\ workflow'[q].attempts = workflow[q].attempts
                              /\ workflow'[q].worker # Null => workflow[q].worker # Null
    BY <1>10 DEF CrashWorker, Workflow
  <2>3. /\ execution' \in [Workers -> Execution]
        /\ \A v \in Workers : execution'[v].pc # "idle" =>
              execution[v].pc # "idle" /\ execution'[v].release = execution[v].release
    BY <1>10 DEF CrashWorker, Execution, NoExecution, Executing
  <2> QED BY <1>10, <2>1, <2>2, <2>3 DEF CrashWorker
<1>11. ASSUME NEW r \in Releases, RedeliverTask(r) PROVE TypeOK'
  <2>1. TargetTypeOK'
    BY <1>11, FrameType DEF RedeliverTask, FaultKinds
  <2>2. /\ workflow' \in [Releases -> Workflow]
        /\ \A q \in Releases : /\ workflow'[q].state = workflow[q].state
                              /\ workflow'[q].attempts = workflow[q].attempts
                              /\ workflow'[q].worker # Null => workflow[q].worker # Null
    BY <1>11 DEF RedeliverTask, Workflow
  <2> QED BY <1>11, <2>1, <2>2 DEF RedeliverTask
<1>12. CASE Tick
  BY <1>12, MaxClockAssumption DEF Tick, targetVars, TargetTypeOK
<1>13. ASSUME NEW w \in Workers, LoadRelease(w) PROVE TypeOK'
  <2>1. TargetTypeOK'
    BY <1>13, FrameType DEF LoadRelease, FaultKinds
  <2>2. Exists(execution[w].release) /\ execution[w].pc # "idle"
    BY <1>13 DEF LoadRelease
  <2>3. /\ execution' \in [Workers -> Execution]
        /\ \A v \in Workers : execution'[v].release = execution[v].release
        /\ \A v \in Workers : execution'[v].pc # "idle" => execution[v].pc # "idle"
    <3>1. CASE GoTo(w, "report") \/ FailAt(w, "report")
      BY <2>2, <3>1, GoOnType
    <3>2. CASE ~(GoTo(w, "report") \/ FailAt(w, "report"))
      <4> DEFINE t == release[execution[w].release].target
      <4>1. target[t].endpoint \in Endpoints \cup {Null} /\ clock \in Int
        BY <2>2, MaxClockAssumption DEF TargetTypeOK, TargetRow
      <4>2. PICK e \in Execution :
               /\ execution' = [execution EXCEPT ![w] = e]
               /\ e.pc = "lock" /\ e.release = execution[w].release
        <5> DEFINE e == [execution[w] EXCEPT
                           !.pc = "lock", !.now = clock, !.endpoint = target[t].endpoint,
                           !.usable = payload[release[execution[w].release].payload] = "usable"]
        <5>1. execution' = [execution EXCEPT ![w] = e]
          BY <1>13, <3>2 DEF LoadRelease
        <5>2. execution[w] \in Execution
          OBVIOUS
        <5>3. e \in Execution /\ e.pc = "lock" /\ e.release = execution[w].release
          BY <4>1, <5>2 DEF Execution
        <5> QED BY <5>1, <5>3
      <4> QED BY <2>2, <4>2 DEF Execution
    <3> QED BY <3>1, <3>2
  <2> QED BY <1>13, <2>1, <2>3 DEF LoadRelease
<1>14. ASSUME NEW w \in Workers, AcquireLock(w) PROVE TypeOK'
  <2> DEFINE t == TargetOf(w)
             now == execution[w].now
  <2>1. Exists(execution[w].release) /\ t \in Targets /\ now \in Int
    BY <1>14 DEF AcquireLock, TargetOf, Execution
  <2>2. failures' \in 0..MaxFailures
    BY <1>14, FailureType DEF AcquireLock, TargetTypeOK
  <2>3. GoTo(w, "storage") \/ FailAt(w, "report")
    BY <1>14 DEF AcquireLock
  <2>4. TakeLock(t, now) \/ UNCHANGED <<target, forfeited>>
    BY <1>14 DEF AcquireLock
  <2>5. target' \in [Targets -> TargetRow] /\ forfeited' \subseteq Targets
    <3>1. CASE TakeLock(t, now)
      <4>1. target' = [target EXCEPT ![t].deploying = TRUE, ![t].deployingAt = now]
        BY <3>1 DEF TakeLock
      <4>2. target' \in [Targets -> TargetRow]
        BY <2>1, <4>1, WriteLockType DEF TargetTypeOK
      <4> QED BY <2>1, <3>1, <4>2 DEF TakeLock
    <3> QED BY <2>4, <3>1 DEF TargetTypeOK
  <2>6. TargetTypeOK'
    BY <1>14, <2>2, <2>5 DEF AcquireLock, TargetTypeOK
  <2>7. execution[w].pc # "idle"
    BY <1>14 DEF AcquireLock
  <2> QED BY <1>14, <2>3, <2>5, <2>6, <2>7, GoOnType DEF AcquireLock
<1>15. ASSUME NEW w \in Workers, PrepareArchive(w) PROVE TypeOK'
  <2>1. TargetTypeOK'
    BY <1>15, FrameType DEF PrepareArchive, FaultKinds
  <2>2. execution[w].pc # "idle" /\ (GoTo(w, "ssh") \/ FailAt(w, "unlock"))
    BY <1>15 DEF PrepareArchive
  <2> QED BY <1>15, <2>1, <2>2, GoOnType DEF PrepareArchive
<1>16. ASSUME NEW w \in Workers, InstallOverSSH(w) PROVE TypeOK'
  <2>1. TargetTypeOK'
    BY <1>16, FrameType DEF InstallOverSSH, FaultKinds
  <2>2. execution[w].pc # "idle" /\ (GoTo(w, "markOnline") \/ FailAt(w, "markDead"))
    BY <1>16 DEF InstallOverSSH
  <2>3. installs' \in [Releases -> Nat]
    BY <1>16 DEF InstallOverSSH
  <2> QED BY <1>16, <2>1, <2>2, <2>3, GoOnType DEF InstallOverSSH
<1>17. ASSUME NEW w \in Workers, MarkDead(w) PROVE TypeOK'
  <2>1. TargetTypeOK'
    BY <1>17, FrameType DEF MarkDead, FaultKinds
  <2>2. execution[w].pc # "idle" /\ GoTo(w, "unlock") /\ Exists(execution[w].release)
    BY <1>17 DEF MarkDead
  <2>3. SetStatus(execution[w].release, "dead") \/ UNCHANGED release
    BY <1>17 DEF MarkDead
  <2>4. SameReleases
    BY <2>2, <2>3, SetStatusType
  <2>5. /\ execution' \in [Workers -> Execution]
        /\ \A v \in Workers : execution'[v].release = execution[v].release
        /\ \A v \in Workers : execution'[v].pc # "idle" => execution[v].pc # "idle"
    BY <2>2, GoOnType
  <2> QED BY <1>17, <2>1, <2>4, <2>5 DEF MarkDead, SameReleases
<1>18. ASSUME NEW w \in Workers, MarkOnline(w) PROVE TypeOK'
  <2>1. failures' \in 0..MaxFailures
    BY <1>18, FailureType DEF MarkOnline, TargetTypeOK
  <2>2. target' \in [Targets -> TargetRow]
    BY <1>18 DEF MarkOnline, TargetTypeOK, TargetRow
  <2>3. TargetTypeOK'
    BY <1>18, <2>1, <2>2 DEF MarkOnline, TargetTypeOK
  <2>4. execution[w].pc # "idle" /\ GoTo(w, "markDeployed")
    BY <1>18 DEF MarkOnline
  <2> QED BY <1>18, <2>3, <2>4, GoOnType DEF MarkOnline
<1>19. ASSUME NEW w \in Workers, MarkDeployed(w) PROVE TypeOK'
  <2>1. TargetTypeOK'
    BY <1>19, FrameType DEF MarkDeployed, FaultKinds
  <2>2. /\ execution[w].pc # "idle" /\ Exists(execution[w].release)
        /\ GoTo(w, "unlock") \/ FailAt(w, "unlock")
    BY <1>19 DEF MarkDeployed
  <2>3. SetStatus(execution[w].release, "deployed") \/ UNCHANGED release
    BY <1>19 DEF MarkDeployed
  <2>4. SameReleases
    BY <2>2, <2>3, SetStatusType
  <2>5. /\ execution' \in [Workers -> Execution]
        /\ \A v \in Workers : execution'[v].release = execution[v].release
        /\ \A v \in Workers : execution'[v].pc # "idle" => execution[v].pc # "idle"
    BY <2>2, GoOnType
  <2> QED BY <1>19, <2>1, <2>4, <2>5 DEF MarkDeployed, SameReleases
<1>20. ASSUME NEW w \in Workers, ReleaseLock(w) PROVE TypeOK'
  <2>1. failures' \in 0..MaxFailures
    BY <1>20, FailureType DEF ReleaseLock, TargetTypeOK
  <2>2. target' \in [Targets -> TargetRow]
    <3>1. \/ target' = [target EXCEPT ![TargetOf(w)].deploying = FALSE, ![TargetOf(w)].deployingAt = Null]
          \/ UNCHANGED target
      BY <1>20 DEF ReleaseLock
    <3>2. TargetOf(w) \in Targets
      BY <1>20 DEF ReleaseLock, TargetOf
    <3>3. CASE target' = [target EXCEPT ![TargetOf(w)].deploying = FALSE, ![TargetOf(w)].deployingAt = Null]
      BY <3>2, <3>3, WriteLockType DEF TargetTypeOK
    <3>4. CASE UNCHANGED target
      BY <3>4 DEF TargetTypeOK
    <3> QED BY <3>1, <3>3, <3>4
  <2>3. TargetTypeOK'
    BY <1>20, <2>1, <2>2 DEF ReleaseLock, TargetTypeOK
  <2>4. execution[w].pc # "idle" /\ GoTo(w, "report")
    BY <1>20 DEF ReleaseLock
  <2> QED BY <1>20, <2>3, <2>4, GoOnType DEF ReleaseLock
<1>21. CASE UNCHANGED vars
  BY <1>21 DEF vars, targetVars, deployVars, TargetTypeOK
<1>22. CASE PayloadNext
  BY <1>2, <1>22 DEF PayloadNext, CreatePayload, UpdatePayload, DeletePayload, PayloadState
<1> QED
  BY <1>1, <1>3, <1>4, <1>5, <1>6, <1>7, <1>8, <1>9, <1>10, <1>11, <1>12, <1>13, <1>14,
     <1>15, <1>16, <1>17, <1>18, <1>19, <1>20, <1>21, <1>22
     DEF Next, DeployHandlerStep, ActivityStep

\* The rows, the workflow instances and the local copies of handlers and workers
\* always have their types, and point to rows that exist.
THEOREM TypeCorrect == Spec => []TypeOK
BY InitType, TypeStep, PTL DEF Spec

-----------------------------------------------------------------------------
(* The deploy lock *)

\* A row that was never inserted has no lock to lose; and as long as the lock of
\* a target was not forfeited, the row shows the lock of the one that holds it.
LockInv ==
    /\ \A t \in Targets : target[t].row = "absent" => LockOf(t) = <<FALSE, Null>>
    /\ \A t \in Targets \ forfeited : \A w \in Holders(t) :
          /\ \A v \in Holders(t) : v = w
          /\ LockOf(t) = <<TRUE, execution[w].now>>

\* What a step has to leave alone: a lock that somebody holds, unless it is
\* forfeited, and the workers that hold one, who may only stop holding it.
LockFrame ==
    /\ forfeited \subseteq forfeited'
    /\ \A t \in Targets : target'[t].row = "absent" => target[t].row = "absent" /\ LockOf(t)' = LockOf(t)
    /\ \A t \in Targets \ forfeited' : LockOf(t)' = LockOf(t) \/ Holders(t) = {}
    /\ \A w \in Workers : execution'[w].pc \in Locked =>
          /\ execution[w].pc \in Locked
          /\ TargetOf(w)' = TargetOf(w)
          /\ execution'[w].now = execution[w].now

LEMMA LockInvFramed == ASSUME LockInv, LockFrame PROVE LockInv'
<1>1. \A t \in Targets : target'[t].row = "absent" => LockOf(t)' = <<FALSE, Null>>
  BY DEF LockInv, LockFrame
<1>2. ASSUME NEW t \in Targets \ forfeited', NEW w \in Holders(t)'
      PROVE  /\ \A v \in Holders(t)' : v = w
             /\ LockOf(t)' = <<TRUE, execution'[w].now>>
  <2>1. \A v \in Holders(t)' : v \in Holders(t) /\ execution'[v].now = execution[v].now
    BY DEF Holders, LockFrame
  <2>2. t \in Targets \ forfeited /\ LockOf(t)' = LockOf(t)
    BY <1>2, <2>1 DEF LockFrame
  <2> QED BY <1>2, <2>1, <2>2 DEF LockInv
<1> QED BY <1>1, <1>2 DEF LockInv

\* A step that leaves the targets, the executions and the forfeited locks alone.
LEMMA LockInvUnchanged ==
  ASSUME TypeOK, LockInv, UNCHANGED <<target, execution, forfeited>>,
         \A r \in Releases : Exists(r) => release'[r].target = release[r].target
  PROVE  LockInv'
<1>1. \A w \in Workers : execution[w].pc \in Locked => TargetOf(w)' = TargetOf(w)
  BY DEF TypeOK, Locked, TargetOf, Exists
<1>2. LockFrame
  BY <1>1 DEF LockFrame, LockOf
<1> QED BY <1>2, LockInvFramed

\* A step of worker w to step, or to the end, that leaves the locks alone.
LEMMA LockInvGoOn ==
  ASSUME TypeOK, LockInv, NEW w \in Workers, UNCHANGED <<target, forfeited>>,
         \A r \in Releases : Exists(r) => release'[r].target = release[r].target,
         \A v \in Workers \ {w} : execution'[v] = execution[v],
         execution'[w].pc \in Locked =>
            /\ execution[w].pc \in Locked
            /\ execution'[w].release = execution[w].release
            /\ execution'[w].now = execution[w].now
  PROVE  LockInv'
<1>1. \A v \in Workers : execution'[v].pc \in Locked =>
         /\ execution[v].pc \in Locked
         /\ execution'[v].release = execution[v].release
         /\ execution'[v].now = execution[v].now
  OBVIOUS
<1>2. \A v \in Workers : execution'[v].pc \in Locked => TargetOf(v)' = TargetOf(v)
  BY <1>1 DEF TypeOK, Locked, TargetOf, Exists
<1>3. LockFrame
  BY <1>1, <1>2 DEF LockFrame, LockOf
<1> QED BY <1>3, LockInvFramed

LEMMA LockInit == Init => LockInv
<1> SUFFICES ASSUME Init PROVE LockInv
  OBVIOUS
<1>1. \A t \in Targets : LockOf(t) = <<FALSE, Null>>
  BY DEF Init, TargetInit, NoTarget, LockOf
<1>2. \A t \in Targets : Holders(t) = {}
  BY DEF Init, NoExecution, Executing, Holders, Locked
<1> QED BY <1>1, <1>2 DEF LockInv

\* What a step of the target handlers does to the lock of t: only an Update that
\* undoes itself rewrites it, and only Create inserts a row.
HandlersAndLock(t) ==
    /\ target'[t].row = "absent" => target[t].row = "absent"
    /\ \/ LockOf(t)' = LockOf(t)
       \/ /\ target'[t].row # "absent"
          /\ \E h \in Handlers : handling[h].pc = "revert" /\ handling[h].target = t

LEMMA HandlersKeepLocks == ASSUME TargetTypeOK, LockInv, TargetNext, NEW t \in Targets
                           PROVE  HandlersAndLock(t)
<1> USE DEF HandlersAndLock, LockOf
<1>0. target \in [Targets -> TargetRow] /\ handling \in [Handlers -> Handling]
  BY DEF TargetTypeOK
<1>1. ASSUME NEW h \in Handlers, NEW u \in Targets, NEW e \in Endpoints, CreateTarget(h, u, e)
      PROVE  HandlersAndLock(t)
  BY <1>0, <1>1 DEF CreateTarget, LockInv, NoTarget
<1>2. ASSUME UNCHANGED target PROVE HandlersAndLock(t)
  BY <1>2
<1>3. ASSUME NEW h \in Handlers, UndoCreateTarget(h) PROVE HandlersAndLock(t)
  BY <1>0, <1>3 DEF UndoCreateTarget, TargetRow
<1>4. ASSUME NEW h \in Handlers, NEW e \in Endpoints, WriteTarget(h, e) PROVE HandlersAndLock(t)
  BY <1>0, <1>4 DEF WriteTarget, TargetRow
<1>5. ASSUME NEW h \in Handlers, RevertTarget(h) PROVE HandlersAndLock(t)
  <2>1. CASE handling[h].target = t
    BY <1>0, <1>5, <2>1 DEF RevertTarget, TargetTypeOK
  <2>2. CASE handling[h].target # t
    BY <1>0, <1>5, <2>2 DEF RevertTarget
  <2> QED BY <2>1, <2>2
<1>6. ASSUME NEW u \in Targets, DeleteTarget(u) PROVE HandlersAndLock(t)
  BY <1>0, <1>6 DEF DeleteTarget, TargetRow
<1> QED
  BY <1>1, <1>2, <1>3, <1>4, <1>5, <1>6
     DEF TargetNext, TargetHandlerStep, LoadPreviousTarget, EnqueueNewTarget, EnqueueTarget,
         AbandonTargetHandler

LEMMA LockTargetStep == ASSUME TypeOK, LockInv, TargetStep PROVE LockInv'
<1>1. \A t \in Targets : HandlersAndLock(t)
  BY HandlersKeepLocks DEF TargetStep, TypeOK
<1>2. /\ UNCHANGED <<release, execution>>
      /\ forfeited' = forfeited \cup
           {t \in Targets : /\ \E h \in Handlers : handling[h].pc = "revert" /\ handling[h].target = t
                            /\ LockOf(t)' # LockOf(t)
                            /\ Holders(t) # {}}
  BY DEF TargetStep, BesideTheWorkers
<1>3. \A t \in Targets \ forfeited' : LockOf(t)' = LockOf(t) \/ Holders(t) = {}
  BY <1>1, <1>2 DEF HandlersAndLock
<1>4. LockFrame
  BY <1>1, <1>2, <1>3 DEF LockFrame, HandlersAndLock, TargetOf
<1> QED BY <1>4, LockInvFramed

\* A held lock is only taken over by age, which forfeits it.
LEMMA LockAcquired == ASSUME TypeOK, LockInv, NEW w \in Workers, AcquireLock(w) PROVE LockInv'
<1> PICK t, now : t = TargetOf(w) /\ now = execution[w].now
  OBVIOUS
<1>0. execution[w].pc = "lock" /\ UNCHANGED release
  BY DEF AcquireLock
<1>1. /\ Exists(execution[w].release) /\ t \in Targets /\ now \in Int
      /\ execution[w].pc = "lock" /\ UNCHANGED release
  BY <1>0 DEF TargetOf, TypeOK, Execution, Exists
<1>2. /\ \A v \in Workers \ {w} : execution'[v] = execution[v]
      /\ execution'[w].pc = "storage" => execution'[w].release = execution[w].release
                                         /\ execution'[w].now = now
      /\ execution'[w].pc \in {"storage", "report"}
  BY DEF AcquireLock, GoTo, FailAt, TypeOK, Execution
<1>3. CASE UNCHANGED <<target, forfeited>> /\ execution'[w].pc = "report"
  BY <1>1, <1>2, <1>3, LockInvGoOn DEF Locked
<1>4. CASE MayLock(t, now) /\ TakeLock(t, now)
  <2>1. /\ target' = [target EXCEPT ![t].deploying = TRUE, ![t].deployingAt = now]
        /\ Live(t)
        /\ forfeited \subseteq forfeited'
    BY <1>4 DEF TakeLock, MayLock
  <2>2. /\ LockOf(t)' = <<TRUE, now>>
        /\ target'[t].row = "live" /\ target[t].row = "live"
        /\ \A u \in Targets \ {t} : target'[u] = target[u] /\ LockOf(u)' = LockOf(u)
    <3>1. target \in [Targets -> TargetRow]
      BY DEF TypeOK, TargetTypeOK
    <3>2. target'[t] = [target[t] EXCEPT !.deploying = TRUE, !.deployingAt = now]
      BY <1>1, <2>1, <3>1
    <3>3. target[t].row = "live" /\ target[t] \in TargetRow
      BY <1>1, <2>1, <3>1 DEF Live
    <3>4. \A u \in Targets \ {t} : target'[u] = target[u]
      BY <2>1, <3>1
    <3> QED BY <3>2, <3>3, <3>4 DEF LockOf, TargetRow
  <2>3. t \notin forfeited' => Holders(t) = {}
    <3> SUFFICES ASSUME t \notin forfeited', NEW v \in Holders(t) PROVE FALSE
      OBVIOUS
    <3>1. LockOf(t) = <<TRUE, execution[v].now>>
      BY <1>1, <2>1 DEF LockInv
    <3>2. execution[v].now < now - StaleAfter
      BY <1>4, <3>1 DEF MayLock, LockOf
    <3> QED BY <1>4, <3>2 DEF TakeLock
  <2>4. \A v \in Workers \ {w} : /\ execution'[v] = execution[v]
                                /\ TargetOf(v)' = TargetOf(v)
    BY <1>1, <1>2 DEF TargetOf
  <2>5. ASSUME NEW u \in Targets \ forfeited', NEW x \in Holders(u)'
        PROVE  (\A v \in Holders(u)' : v = x) /\ LockOf(u)' = <<TRUE, execution'[x].now>>
    <3>1. CASE u = t
      <4>1. \A v \in Holders(t)' : v = w
        BY <2>3, <2>4, <2>5, <3>1 DEF Holders
      <4>2. x = w /\ execution'[w].pc \in Locked
        BY <2>5, <3>1, <4>1 DEF Holders
      <4> QED BY <1>2, <2>2, <3>1, <4>1, <4>2 DEF Locked
    <3>2. CASE u # t
      <4>1. TargetOf(w)' = t \/ execution'[w].pc \notin Locked
        BY <1>1, <1>2 DEF TargetOf, Locked
      <4>2. \A v \in Holders(u)' : v \in Holders(u) /\ execution'[v].now = execution[v].now
        BY <2>4, <3>2, <4>1 DEF Holders
      <4> QED BY <2>1, <2>2, <2>5, <3>2, <4>2 DEF LockInv
    <3> QED BY <3>1, <3>2
  <2>6. \A u \in Targets : target'[u].row = "absent" => LockOf(u)' = <<FALSE, Null>>
    BY <2>2 DEF LockInv
  <2> QED BY <2>5, <2>6 DEF LockInv
<1> QED BY <1>2, <1>3, <1>4 DEF AcquireLock, GoTo, FailAt, TypeOK, Execution

\* The deferred unlock clears the lock of the only holder, or a forfeited one.
LEMMA LockReleased == ASSUME TypeOK, LockInv, NEW w \in Workers, ReleaseLock(w) PROVE LockInv'
<1> PICK t : t = TargetOf(w)
  OBVIOUS
<1>0. execution[w].pc = "unlock" /\ UNCHANGED <<release, forfeited>> /\ GoTo(w, "report")
  BY DEF ReleaseLock
<1>1. t \in Targets /\ w \in Holders(t)
  BY <1>0 DEF TargetOf, TypeOK, Exists, Holders, Locked
<1>2. /\ \A v \in Workers \ {w} : execution'[v] = execution[v]
      /\ execution'[w].pc = "report"
  BY <1>0 DEF GoTo, TypeOK, Execution
<1>3. CASE UNCHANGED target
  BY <1>0, <1>2, <1>3, LockInvGoOn DEF Locked
<1>4. CASE Live(t) /\ target' = [target EXCEPT ![t].deploying = FALSE, ![t].deployingAt = Null]
  <2>1. \A u \in Targets : target'[u].row = target[u].row
    BY <1>1, <1>4 DEF TypeOK, TargetTypeOK, TargetRow
  <2>2. \A u \in Targets \ {t} : LockOf(u)' = LockOf(u)
    BY <1>4 DEF LockOf, TypeOK, TargetTypeOK
  <2>3. \A u \in Targets : \A v \in Holders(u)' : v # w /\ v \in Holders(u)
                                               /\ execution'[v].now = execution[v].now
    BY <1>0, <1>2 DEF Holders, TargetOf, Locked
  <2>4. t \notin forfeited' => Holders(t)' = {}
    BY <1>0, <1>1, <2>3 DEF LockInv
  <2>5. ASSUME NEW u \in Targets \ forfeited', NEW x \in Holders(u)'
        PROVE  (\A v \in Holders(u)' : v = x) /\ LockOf(u)' = <<TRUE, execution'[x].now>>
    <3>1. CASE u = t
      BY <2>4, <2>5, <3>1
    <3>2. CASE u # t
      <4>1. u \in Targets \ forfeited /\ LockOf(u)' = LockOf(u)
        BY <1>0, <2>2, <2>5, <3>2
      <4>2. \A v \in Holders(u)' : v \in Holders(u) /\ execution'[v].now = execution[v].now
        BY <2>3, <2>5
      <4>3. \A v \in Holders(u) : /\ \A y \in Holders(u) : y = v
                                 /\ LockOf(u) = <<TRUE, execution[v].now>>
        BY <4>1 DEF LockInv
      <4> QED BY <2>5, <4>1, <4>2, <4>3
    <3> QED BY <3>1, <3>2
  <2>6. \A u \in Targets : target'[u].row = "absent" => LockOf(u)' = <<FALSE, Null>>
    BY <1>4, <2>1, <2>2 DEF LockInv, Live
  <2> QED BY <2>5, <2>6 DEF LockInv
<1> QED BY <1>3, <1>4 DEF ReleaseLock

\* After the load, the activity asks for the lock or is over.
LEMMA LoadGoesOn ==
  ASSUME TypeOK, NEW w \in Workers, LoadRelease(w)
  PROVE  /\ execution'[w].pc \in {"lock", "report"}
         /\ \A v \in Workers \ {w} : execution'[v] = execution[v]
<1>1. execution \in [Workers -> Execution]
  BY DEF TypeOK
<1>2. CASE GoTo(w, "report") \/ FailAt(w, "report")
  BY <1>1, <1>2 DEF GoTo, FailAt, Execution
<1>3. CASE ~(GoTo(w, "report") \/ FailAt(w, "report"))
  BY <1>1, <1>3 DEF LoadRelease, Execution
<1> QED BY <1>2, <1>3

LEMMA LockStep == ASSUME TypeOK, LockInv, [Next]_vars PROVE LockInv'
<1>1. CASE TargetStep
  BY <1>1, LockTargetStep
<1>2. CASE PayloadNext
  BY <1>2, LockInvUnchanged
     DEF PayloadNext, CreatePayload, UpdatePayload, DeletePayload, SetPayload, targetVars
<1>3. ASSUME NEW r \in Releases, NEW t \in Targets, NEW p \in Payloads, CreateRelease(r, t, p)
      PROVE  LockInv'
  <2>1. \A q \in Releases : Exists(q) => release'[q].target = release[q].target
    BY <1>3 DEF CreateRelease, Exists, TypeOK
  <2> QED BY <1>3, <2>1, LockInvUnchanged DEF CreateRelease, targetVars
<1>4. ASSUME NEW h \in Callers, NEW r \in Releases, AcceptRelease(h, r) PROVE LockInv'
  <2>1. \A q \in Releases : release'[q].target = release[q].target
    BY <1>4 DEF AcceptRelease, SetStatus, TypeOK, Release
  <2> QED BY <1>4, <2>1, LockInvUnchanged DEF AcceptRelease, targetVars
<1>5. ASSUME NEW h \in Callers, StartWorkflow(h) PROVE LockInv'
  BY <1>5, LockInvUnchanged DEF StartWorkflow
<1>6. ASSUME NEW h \in Callers, RevertRelease(h) PROVE LockInv'
  <2>1. \A q \in Releases : release'[q].target = release[q].target
    <3>1. Exists(starting[h].release)
      BY <1>6 DEF RevertRelease, TypeOK
    <3>2. SetStatus(starting[h].release, "unknown") \/ UNCHANGED release
      BY <1>6 DEF RevertRelease
    <3> QED BY <3>1, <3>2, SetStatusType DEF SameReleases, TypeOK
  <2> QED BY <1>6, <2>1, LockInvUnchanged DEF RevertRelease
<1>7. ASSUME NEW h \in Callers, AbandonDeployHandler(h) PROVE LockInv'
  BY <1>7, LockInvUnchanged DEF AbandonDeployHandler
<1>8. ASSUME NEW w \in Workers, NEW r \in Releases, TakeTask(w, r) PROVE LockInv'
  <2>1. execution'[w].pc = "load" /\ \A v \in Workers \ {w} : execution'[v] = execution[v]
    BY <1>8 DEF TakeTask, Executing, TypeOK
  <2> QED BY <1>8, <2>1, LockInvGoOn DEF TakeTask, Locked, targetVars
<1>9. ASSUME NEW w \in Workers, ReportResult(w) \/ CrashWorker(w) PROVE LockInv'
  <2>1. execution'[w].pc = "idle" /\ \A v \in Workers \ {w} : execution'[v] = execution[v]
    BY <1>9 DEF ReportResult, CrashWorker, NoExecution, Executing, TypeOK
  <2> QED BY <1>9, <2>1, LockInvGoOn DEF ReportResult, CrashWorker, Locked, targetVars
<1>10. ASSUME NEW r \in Releases, RedeliverTask(r) PROVE LockInv'
  BY <1>10, LockInvUnchanged DEF RedeliverTask
<1>11. CASE Tick
  BY <1>11, LockInvUnchanged DEF Tick, targetVars
<1>12. ASSUME NEW w \in Workers, LoadRelease(w) PROVE LockInv'
  BY <1>12, LoadGoesOn, LockInvGoOn DEF LoadRelease, Locked
<1>13. ASSUME NEW w \in Workers, AcquireLock(w) PROVE LockInv'
  BY <1>13, LockAcquired
<1>14. ASSUME NEW w \in Workers,
              PrepareArchive(w) \/ InstallOverSSH(w) \/ MarkDead(w) \/ MarkDeployed(w)
       PROVE  LockInv'
  <2>1. \A q \in Releases : release'[q].target = release[q].target
    <3>1. CASE MarkDead(w) \/ MarkDeployed(w)
      <4>1. \/ UNCHANGED release
            \/ SetStatus(execution[w].release, "dead")
            \/ SetStatus(execution[w].release, "deployed")
        BY <3>1 DEF MarkDead, MarkDeployed
      <4>2. release \in [Releases -> Release]
        BY DEF TypeOK
      <4> QED BY <4>1, <4>2 DEF SetStatus, Release
    <3>2. CASE PrepareArchive(w) \/ InstallOverSSH(w)
      BY <3>2 DEF PrepareArchive, InstallOverSSH
    <3> QED BY <1>14, <3>1, <3>2
  <2>2. execution[w].pc \in Locked
    BY <1>14 DEF PrepareArchive, InstallOverSSH, MarkDead, MarkDeployed, Locked
  <2>3. \A v \in Workers : execution'[v].release = execution[v].release
                         /\ execution'[v].now = execution[v].now
                         /\ (v # w => execution'[v] = execution[v])
    BY <1>14 DEF PrepareArchive, InstallOverSSH, MarkDead, MarkDeployed, GoTo, FailAt, TypeOK, Execution
  <2> QED BY <1>14, <2>1, <2>2, <2>3, LockInvGoOn
          DEF PrepareArchive, InstallOverSSH, MarkDead, MarkDeployed
<1>15. ASSUME NEW w \in Workers, MarkOnline(w) PROVE LockInv'
  <2>1. \A t \in Targets : target'[t].row = target[t].row /\ LockOf(t)' = LockOf(t)
    BY <1>15 DEF MarkOnline, LockOf, TypeOK, TargetTypeOK, TargetRow
  <2>2. \A v \in Workers : execution'[v].pc \in Locked =>
           /\ execution[v].pc \in Locked
           /\ TargetOf(v)' = TargetOf(v)
           /\ execution'[v].now = execution[v].now
    BY <1>15 DEF MarkOnline, GoTo, TypeOK, Execution, TargetOf, Locked
  <2>3. LockFrame
    BY <1>15, <2>1, <2>2 DEF LockFrame, MarkOnline
  <2> QED BY <2>3, LockInvFramed
<1>16. ASSUME NEW w \in Workers, ReleaseLock(w) PROVE LockInv'
  BY <1>16, LockReleased
<1>17. CASE UNCHANGED vars
  BY <1>17, LockInvUnchanged DEF vars, targetVars, deployVars
<1> QED
  BY <1>1, <1>2, <1>3, <1>4, <1>5, <1>6, <1>7, <1>8, <1>9, <1>10, <1>11, <1>12, <1>13, <1>14,
     <1>15, <1>16, <1>17 DEF Next, DeployHandlerStep, ActivityStep

\* As long as no worker overstayed StaleAfter and no undone Target.Update rewrote
\* the lock of a target, at most one worker deploys to that target, whatever
\* else fails: crashes, redeliveries and lost replies included.
THEOREM LockIsExclusive == Spec => []LockExcludes
<1>1. LockInv => LockExcludes
  BY DEF LockInv, LockExcludes
<1> QED BY <1>1, InitType, TypeStep, LockInit, LockStep, PTL DEF Spec

-----------------------------------------------------------------------------
(* Deployed releases are installed *)

\* Between the installation and the status, the worker carries the evidence.
InstallInv ==
    /\ DeployedIsInstalled
    /\ \A w \in Workers : execution[w].pc \in {"markOnline", "markDeployed"} =>
          installs[execution[w].release] > 0

\* No step but MarkDeployed makes a release deployed, and installations count up.
LEMMA InstallFramed ==
  ASSUME TypeOK, TypeOK', InstallInv,
         \A r \in Releases : /\ installs'[r] >= installs[r]
                             /\ release'[r].status = "deployed" =>
                                   release[r].status = "deployed" \/ installs[r] > 0,
         \A w \in Workers : execution'[w].pc \in {"markOnline", "markDeployed"} =>
            \/ installs'[execution'[w].release] > 0
            \/ /\ execution[w].pc \in {"markOnline", "markDeployed"}
               /\ execution'[w].release = execution[w].release
  PROVE  InstallInv'
BY DEF InstallInv, DeployedIsInstalled, TypeOK, Exists

LEMMA InstallStep == ASSUME TypeOK, TypeOK', InstallInv, [Next]_vars PROVE InstallInv'
<1>1. CASE UNCHANGED <<release, execution, installs>>
  BY <1>1, InstallFramed DEF TypeOK
<1>2. ASSUME NEW r \in Releases, NEW t \in Targets, NEW p \in Payloads, CreateRelease(r, t, p)
      PROVE  InstallInv'
  BY <1>2, InstallFramed DEF CreateRelease, TypeOK
<1>3. ASSUME NEW h \in Callers, NEW r \in Releases, AcceptRelease(h, r) PROVE InstallInv'
  BY <1>3, InstallFramed DEF AcceptRelease, SetStatus, TypeOK, Release
<1>4. ASSUME NEW h \in Callers, RevertRelease(h) PROVE InstallInv'
  BY <1>4, InstallFramed DEF RevertRelease, SetStatus, TypeOK, Release
<1>5. ASSUME NEW w \in Workers, NEW r \in Releases, TakeTask(w, r) PROVE InstallInv'
  BY <1>5, InstallFramed DEF TakeTask, Executing, TypeOK
<1>6. ASSUME NEW w \in Workers, ReportResult(w) \/ CrashWorker(w) PROVE InstallInv'
  BY <1>6, InstallFramed DEF ReportResult, CrashWorker, NoExecution, Executing, TypeOK
<1>7. ASSUME NEW w \in Workers,
             LoadRelease(w) \/ AcquireLock(w) \/ PrepareArchive(w) \/ ReleaseLock(w)
      PROVE  InstallInv'
  <2>1. \A v \in Workers : v # w => execution'[v] = execution[v]
    BY <1>7 DEF LoadRelease, AcquireLock, PrepareArchive, ReleaseLock, GoTo, FailAt, TypeOK
  <2>2. execution'[w].pc \in {"lock", "storage", "ssh", "unlock", "report"}
    <3>1. CASE LoadRelease(w)
      BY <3>1, LoadGoesOn
    <3>2. CASE AcquireLock(w)
      BY <3>2 DEF AcquireLock, GoTo, FailAt, TypeOK, Execution
    <3>3. CASE PrepareArchive(w) \/ ReleaseLock(w)
      BY <3>3 DEF PrepareArchive, ReleaseLock, GoTo, FailAt, TypeOK, Execution
    <3> QED BY <1>7, <3>1, <3>2, <3>3
  <2>3. UNCHANGED <<release, installs>>
    BY <1>7 DEF LoadRelease, AcquireLock, PrepareArchive, ReleaseLock
  <2> QED BY <2>1, <2>2, <2>3, InstallFramed DEF TypeOK
<1>8. ASSUME NEW w \in Workers, InstallOverSSH(w) PROVE InstallInv'
  <2> DEFINE r == execution[w].release
  <2>1. r \in Releases /\ UNCHANGED release
    BY <1>8 DEF InstallOverSSH, TypeOK, Exists
  <2>2. \A v \in Workers : v # w => execution'[v] = execution[v]
    BY <1>8 DEF InstallOverSSH, GoTo, FailAt, TypeOK
  <2>3. \/ /\ execution'[w].pc = "markOnline" /\ execution'[w].release = r
           /\ installs' = [installs EXCEPT ![r] = @ + 1]
        \/ execution'[w].pc = "markDead" /\ UNCHANGED installs
    BY <1>8 DEF InstallOverSSH, GoTo, FailAt, TypeOK, Execution
  <2>4. installs \in [Releases -> Nat]
    BY DEF TypeOK
  <2>5. \A q \in Releases : installs'[q] >= installs[q]
    BY <2>1, <2>3, <2>4
  <2>6. execution'[w].pc = "markOnline" => installs'[execution'[w].release] > 0
    BY <2>1, <2>3, <2>4
  <2> QED BY <2>1, <2>2, <2>3, <2>5, <2>6, InstallFramed
<1>9. ASSUME NEW w \in Workers, MarkDead(w) \/ MarkOnline(w) PROVE InstallInv'
  <2>1. \A v \in Workers : v # w => execution'[v] = execution[v]
    BY <1>9 DEF MarkDead, MarkOnline, GoTo, TypeOK
  <2>2. execution'[w].pc \in {"markDeployed", "unlock"} /\ execution'[w].release = execution[w].release
        /\ (execution'[w].pc = "markDeployed" => execution[w].pc = "markOnline")
    BY <1>9 DEF MarkDead, MarkOnline, GoTo, TypeOK, Execution
  <2>3. UNCHANGED installs /\ \A r \in Releases :
           release'[r].status = "deployed" => release[r].status = "deployed"
    BY <1>9 DEF MarkDead, MarkOnline, SetStatus, TypeOK, Release
  <2> QED BY <2>1, <2>2, <2>3, InstallFramed DEF TypeOK
<1>10. ASSUME NEW w \in Workers, MarkDeployed(w) PROVE InstallInv'
  <2>1. \A v \in Workers : v # w => execution'[v] = execution[v]
    BY <1>10 DEF MarkDeployed, GoTo, FailAt, TypeOK
  <2>2. execution'[w].pc = "unlock" /\ installs[execution[w].release] > 0
    BY <1>10 DEF MarkDeployed, GoTo, FailAt, TypeOK, Execution, InstallInv
  <2>3. UNCHANGED installs /\ \A r \in Releases :
           release'[r].status = "deployed" =>
              release[r].status = "deployed" \/ r = execution[w].release
    BY <1>10 DEF MarkDeployed, SetStatus, TypeOK, Release
  <2> QED BY <2>1, <2>2, <2>3, InstallFramed DEF TypeOK
<1> QED
  BY <1>1, <1>2, <1>3, <1>4, <1>5, <1>6, <1>7, <1>8, <1>9, <1>10
     DEF Next, TargetStep, BesideTheWorkers, PayloadNext, CreatePayload, UpdatePayload,
         DeletePayload, SetPayload, DeployHandlerStep, StartWorkflow, AbandonDeployHandler,
         RedeliverTask, Tick, ActivityStep, vars, deployVars

\* A release whose status says deployed was installed, whatever failed.
THEOREM DeployedImpliesInstalled == Spec => []DeployedIsInstalled
<1>1. Init => InstallInv
  BY DEF Init, NoRelease, NoExecution, Executing, InstallInv, DeployedIsInstalled
<1>2. InstallInv => DeployedIsInstalled
  BY DEF InstallInv
<1> QED BY <1>1, <1>2, InitType, TypeStep, InstallStep, PTL DEF Spec

-----------------------------------------------------------------------------
(* What the steps have in common *)

\* A step of worker w to step, which leaves the other workers alone.
Moved(w, step, failed) ==
    /\ \A v \in Workers \ {w} : execution'[v] = execution[v]
    /\ execution'[w].pc = step
    /\ execution'[w].release = execution[w].release
    /\ execution'[w].failed = failed

LEMMA GoToMoves == ASSUME TypeOK, NEW w \in Workers, NEW step, GoTo(w, step)
                   PROVE  Moved(w, step, execution[w].failed)
BY DEF TypeOK, Execution, GoTo, Moved

LEMMA FailAtMoves == ASSUME TypeOK, NEW w \in Workers, NEW step, FailAt(w, step)
                     PROVE  Moved(w, step, TRUE)
BY DEF TypeOK, Execution, FailAt, Moved

\* The load ends the activity, or it goes on to the lock of a release that waits.
LEMMA LoadMoves ==
  ASSUME TypeOK, NEW w \in Workers, LoadRelease(w)
  PROVE  /\ execution[w].pc = "load"
         /\ \/ Moved(w, "lock", execution[w].failed) /\ release[execution[w].release].status = "wait"
            \/ Moved(w, "report", execution[w].failed) /\ release[execution[w].release].status # "wait"
            \/ Moved(w, "report", TRUE)
<1>1. CASE release[execution[w].release].status # "wait" /\ GoTo(w, "report")
  BY <1>1, GoToMoves DEF LoadRelease
<1>2. CASE FailAt(w, "report")
  BY <1>2, FailAtMoves DEF LoadRelease
<1>3. CASE ~FailAt(w, "report") /\ release[execution[w].release].status = "wait"
  <2> DEFINE t == release[execution[w].release].target
             e == [execution[w] EXCEPT
                     !.pc = "lock", !.now = clock, !.endpoint = target[t].endpoint,
                     !.usable = payload[release[execution[w].release].payload] = "usable"]
  <2>1. execution' = [execution EXCEPT ![w] = e]
    BY <1>3 DEF LoadRelease
  <2>2. execution \in [Workers -> Execution] /\ execution[w] \in Execution
    BY DEF TypeOK
  <2>3. e.pc = "lock" /\ e.release = execution[w].release /\ e.failed = execution[w].failed
    BY <2>2 DEF Execution
  <2>4. execution'[w] = e /\ \A v \in Workers \ {w} : execution'[v] = execution[v]
    BY <2>1, <2>2
  <2>5. Moved(w, "lock", execution[w].failed)
    BY <2>3, <2>4 DEF Moved
  <2> QED BY <1>3, <2>5 DEF LoadRelease
<1> QED BY <1>1, <1>2, <1>3 DEF LoadRelease

\* A step sees at most one failure.
LEMMA FailuresCount == ASSUME [Next]_vars PROVE failures' \in {failures, failures + 1}
<1>1. ASSUME TargetNext PROVE failures' \in {failures, failures + 1}
  BY <1>1
     DEF TargetNext, TargetHandlerStep, CreateTarget, LoadPreviousTarget, EnqueueNewTarget,
         UndoCreateTarget, WriteTarget, EnqueueTarget, RevertTarget, AbandonTargetHandler,
         DeleteTarget, EnqueueSucceeds, EnqueueFails, Fail
<1>2. ASSUME NEW w \in Workers, ActivityStep(w) \/ CrashWorker(w)
      PROVE  failures' \in {failures, failures + 1}
  BY <1>2
     DEF ActivityStep, LoadRelease, AcquireLock, PrepareArchive, InstallOverSSH, MarkDead,
         MarkOnline, MarkDeployed, ReleaseLock, ReportResult, CrashWorker, Fail, targetVars
<1>3. ASSUME NEW h \in Callers, DeployHandlerStep(h) \/ AbandonDeployHandler(h)
      PROVE  failures' \in {failures, failures + 1}
  BY <1>3 DEF DeployHandlerStep, StartWorkflow, RevertRelease, AbandonDeployHandler, Fail
<1>4. ASSUME PayloadNext \/ Tick \/ UNCHANGED vars PROVE failures' \in {failures, failures + 1}
  BY <1>4 DEF PayloadNext, CreatePayload, UpdatePayload, DeletePayload, SetPayload, Tick,
              vars, targetVars
<1>5. ASSUME NEW r \in Releases,
             \/ \E t \in Targets, p \in Payloads : CreateRelease(r, t, p)
             \/ \E h \in Callers : AcceptRelease(h, r)
             \/ \E w \in Workers : TakeTask(w, r)
             \/ RedeliverTask(r)
      PROVE  failures' \in {failures, failures + 1}
  BY <1>5 DEF CreateRelease, AcceptRelease, TakeTask, RedeliverTask, Fail, targetVars
<1> QED BY <1>1, <1>2, <1>3, <1>4, <1>5 DEF Next, TargetStep

\* The target of a release never changes.
LEMMA ReleasesStay ==
  ASSUME TypeOK, [Next]_vars, NEW r \in Releases, Exists(r)
  PROVE  release'[r].target = release[r].target
<1> USE DEF TypeOK, Exists
<1>1. CASE UNCHANGED release
  BY <1>1
<1>2. ASSUME NEW q \in Releases, NEW t \in Targets, NEW p \in Payloads, CreateRelease(q, t, p)
      PROVE  release'[r].target = release[r].target
  BY <1>2 DEF CreateRelease
<1>3. ASSUME NEW q, NEW s, SetStatus(q, s) PROVE release'[r].target = release[r].target
  BY <1>3 DEF SetStatus, Release
<1> QED
  BY <1>1, <1>2, <1>3
     DEF Next, TargetStep, BesideTheWorkers, PayloadNext, CreatePayload, UpdatePayload,
         DeletePayload, SetPayload, AcceptRelease, TakeTask, RedeliverTask, DeployHandlerStep,
         StartWorkflow, RevertRelease, AbandonDeployHandler, ActivityStep, CrashWorker,
         LoadRelease, AcquireLock, PrepareArchive, InstallOverSSH, MarkDead, MarkOnline,
         MarkDeployed, ReleaseLock, ReportResult, Tick, vars, deployVars

-----------------------------------------------------------------------------
(* Locks that nobody holds *)

\* Only a handler that saw an enqueue fail is going to write a lock back.
OrphanInv ==
    /\ NoOrphanLock
    /\ \A h \in Handlers : handling[h].pc = "revert" => failures > 0

\* As long as nothing failed, a lock is set by the worker that then holds it, and
\* a worker keeps the lock it holds until it clears it.
LEMMA OrphanFramed ==
  ASSUME TypeOK, OrphanInv, failures' \in {failures, failures + 1},
         failures' = 0 =>
            /\ \A h \in Handlers : handling'[h].pc = "revert" => handling[h].pc = "revert"
            /\ \A t \in Targets : Live(t)' /\ target'[t].deploying =>
                  \/ Holders(t)' # {}
                  \/ Live(t) /\ target[t].deploying /\ Holders(t) \subseteq Holders(t)'
  PROVE  OrphanInv'
<1>1. failures \in Nat /\ (failures' = 0 \/ failures' > 0)
  BY MaxFailuresAssumption DEF TypeOK, TargetTypeOK
<1>2. CASE failures' > 0
  BY <1>2 DEF OrphanInv, NoOrphanLock
<1>3. CASE failures' = 0
  <2>1. failures = 0
    BY <1>1, <1>3
  <2>2. \A t \in Targets : Live(t) /\ target[t].deploying => Holders(t) # {}
    BY <2>1 DEF OrphanInv, NoOrphanLock
  <2>3. \A h \in Handlers : handling[h].pc # "revert"
    BY <2>1 DEF OrphanInv
  <2> QED BY <1>3, <2>2, <2>3 DEF OrphanInv, NoOrphanLock
<1> QED BY <1>1, <1>2, <1>3

\* A worker goes on without touching a lock: what it held, it still holds.
LEMMA OrphanGoOn ==
  ASSUME TypeOK, OrphanInv, [Next]_vars, UNCHANGED handling,
         failures' = 0 => \A t \in Targets :
            /\ Live(t)' => Live(t)
            /\ target'[t].deploying => target[t].deploying,
         failures' = 0 => \A v \in Workers : execution[v].pc \in Locked =>
            /\ execution'[v].pc \in Locked
            /\ execution'[v].release = execution[v].release
  PROVE  OrphanInv'
<1>1. failures' \in {failures, failures + 1}
  BY FailuresCount
<1>2. ASSUME failures' = 0, NEW t \in Targets PROVE Holders(t) \subseteq Holders(t)'
  <2>1. ASSUME NEW v \in Holders(t) PROVE v \in Holders(t)'
    <3>1. v \in Workers /\ execution[v].pc \in Locked /\ TargetOf(v) = t
      BY <2>1 DEF Holders
    <3>2. execution[v].release \in Releases /\ Exists(execution[v].release)
      BY <3>1 DEF TypeOK, Locked, Exists
    <3>3. TargetOf(v)' = t
      BY <1>2, <3>1, <3>2, ReleasesStay DEF TargetOf
    <3> QED BY <1>2, <3>1, <3>3 DEF Holders
  <2> QED BY <2>1
<1>3. ASSUME failures' = 0, NEW t \in Targets, Live(t)', target'[t].deploying
      PROVE  Live(t) /\ target[t].deploying
  BY <1>3 DEF Live
<1>4. \A h \in Handlers : handling'[h].pc = "revert" => handling[h].pc = "revert"
  OBVIOUS
<1> QED BY <1>1, <1>2, <1>3, <1>4, OrphanFramed

\* The handlers of the targets set no lock, unless an Update undoes itself.
LEMMA OrphanTargetStep == ASSUME TypeOK, LockInv, OrphanInv, TargetStep PROVE OrphanInv'
<1>0. /\ failures \in Nat /\ failures' \in {failures, failures + 1}
      /\ TargetTypeOK /\ TargetNext
  BY FailuresCount, MaxFailuresAssumption DEF Next, TypeOK, TargetTypeOK, TargetStep
<1>1. ASSUME failures' = 0, NEW h \in Handlers, handling'[h].pc = "revert"
      PROVE  handling[h].pc = "revert"
  BY <1>0, <1>1, RevertsAreFailures
<1>2. ASSUME failures' = 0, NEW t \in Targets, Live(t)', target'[t].deploying
      PROVE  Live(t) /\ target[t].deploying /\ Holders(t) \subseteq Holders(t)'
  <2>1. failures = 0 /\ HandlersAndLock(t)
    BY <1>0, <1>2, HandlersKeepLocks
  <2>2. LockOf(t)' = LockOf(t)
    BY <2>1 DEF HandlersAndLock, OrphanInv
  <2>3. target[t].deploying
    BY <1>2, <2>2 DEF LockOf
  <2>4. target[t].row # "absent"
    BY <2>3 DEF LockInv, LockOf
  <2>5. target[t].row # "deleted"
    BY <1>0, <1>2, DeletedStays DEF Live
  <2>6. Live(t)
    BY <1>0, <2>4, <2>5 DEF Live, TargetTypeOK, TargetRow
  <2>7. Holders(t)' = Holders(t)
    BY DEF TargetStep, BesideTheWorkers, Holders, TargetOf
  <2> QED BY <2>3, <2>6, <2>7
<1> QED BY <1>0, <1>1, <1>2, OrphanFramed

LEMMA OrphanStep == ASSUME TypeOK, LockInv, OrphanInv, [Next]_vars PROVE OrphanInv'
<1>0. failures \in Nat /\ failures' \in {failures, failures + 1}
  BY FailuresCount, MaxFailuresAssumption DEF TypeOK, TargetTypeOK
<1>1. CASE TargetStep
  BY <1>1, OrphanTargetStep
<1>2. CASE UNCHANGED <<target, handling, execution>>
  BY <1>2, OrphanGoOn DEF Live
<1>3. ASSUME NEW w \in Workers, NEW r \in Releases, TakeTask(w, r) PROVE OrphanInv'
  BY <1>3, OrphanGoOn DEF TakeTask, Live, Locked, TypeOK, targetVars
<1>4. ASSUME NEW w \in Workers, ReportResult(w) PROVE OrphanInv'
  BY <1>4, OrphanGoOn DEF ReportResult, Live, Locked, TypeOK, targetVars
<1>5. ASSUME NEW w \in Workers, CrashWorker(w) PROVE OrphanInv'
  BY <1>0, <1>5, OrphanGoOn DEF CrashWorker, Fail
<1>6. ASSUME NEW w \in Workers, LoadRelease(w) PROVE OrphanInv'
  BY <1>6, LoadMoves, OrphanGoOn DEF Moved, LoadRelease, Live, Locked
<1>7. ASSUME NEW w \in Workers, AcquireLock(w) PROVE OrphanInv'
  <2> PICK t : t = TargetOf(w)
    OBVIOUS
  <2>1. t \in Targets /\ execution[w].pc = "lock"
    BY <1>7 DEF AcquireLock, TargetOf, TypeOK, Exists
  <2>2. CASE UNCHANGED target /\ FailAt(w, "report")
    BY <1>7, <2>1, <2>2, FailAtMoves, OrphanGoOn DEF Moved, AcquireLock, Live, Locked
  <2>3. CASE Fail("db")
    BY <1>0, <1>7, <2>3, OrphanFramed DEF Fail, AcquireLock
  <2>4. CASE TakeLock(t, execution[w].now) /\ GoTo(w, "storage")
    <3>1. target' = [target EXCEPT ![t].deploying = TRUE, ![t].deployingAt = execution[w].now]
      BY <2>4 DEF TakeLock
    <3>2. \A u \in Targets \ {t} : target'[u] = target[u]
      BY <2>1, <3>1 DEF TypeOK, TargetTypeOK
    <3>3. Moved(w, "storage", execution[w].failed) /\ UNCHANGED <<release, handling>>
      BY <1>7, <2>4, GoToMoves DEF AcquireLock
    <3>4. \A u \in Targets : Holders(u) \subseteq Holders(u)'
      BY <2>1, <3>3 DEF Holders, TargetOf, Moved, Locked
    <3>5. w \in Holders(t)'
      BY <3>3 DEF Holders, TargetOf, Moved, Locked
    <3> QED BY <1>0, <3>2, <3>3, <3>4, <3>5, OrphanFramed DEF Live
  <2> QED BY <1>7, <2>2, <2>3, <2>4 DEF AcquireLock
<1>8. ASSUME NEW w \in Workers,
             PrepareArchive(w) \/ InstallOverSSH(w) \/ MarkDead(w) \/ MarkDeployed(w)
      PROVE  OrphanInv'
  <2>1. \E step \in Locked : GoTo(w, step) \/ FailAt(w, step)
    BY <1>8 DEF PrepareArchive, InstallOverSSH, MarkDead, MarkDeployed, Locked
  <2>2. UNCHANGED <<target, handling>>
    BY <1>8 DEF PrepareArchive, InstallOverSSH, MarkDead, MarkDeployed
  <2> QED BY <2>1, <2>2, GoToMoves, FailAtMoves, OrphanGoOn DEF Moved, Live
<1>9. ASSUME NEW w \in Workers, MarkOnline(w) PROVE OrphanInv'
  <2>1. Moved(w, "markDeployed", execution[w].failed) /\ UNCHANGED handling
    BY <1>9, GoToMoves DEF MarkOnline
  <2>2. \A t \in Targets : target'[t].row = target[t].row
                         /\ target'[t].deploying = target[t].deploying
    <3>1. target \in [Targets -> TargetRow]
      BY DEF TypeOK, TargetTypeOK
    <3>2. \/ UNCHANGED target
          \/ target' = [target EXCEPT ![TargetOf(w)].status = "online"]
      BY <1>9 DEF MarkOnline
    <3> QED BY <3>1, <3>2 DEF TargetRow
  <2> QED BY <2>1, <2>2, OrphanGoOn DEF Moved, Live, Locked
<1>10. ASSUME NEW w \in Workers, ReleaseLock(w) PROVE OrphanInv'
  <2> PICK t : t = TargetOf(w)
    OBVIOUS
  <2>1. t \in Targets
    BY <1>10 DEF ReleaseLock, TargetOf, TypeOK, Exists
  <2>2. /\ Moved(w, "report", execution[w].failed) /\ execution[w].pc = "unlock"
        /\ UNCHANGED <<handling, release>>
    BY <1>10, GoToMoves DEF ReleaseLock
  <2>3. \A u \in Targets \ {t} : Holders(u) \subseteq Holders(u)'
    BY <2>2 DEF Holders, TargetOf, Moved
  <2>4. CASE Fail("db")
    BY <1>0, <2>4, OrphanFramed DEF Fail
  <2>5. CASE ~Live(t) /\ UNCHANGED target
    BY <1>0, <2>2, <2>3, <2>5, OrphanFramed DEF Live
  <2>6. CASE target' = [target EXCEPT ![t].deploying = FALSE, ![t].deployingAt = Null]
    <3>1. \A u \in Targets \ {t} : target'[u] = target[u]
      BY <2>1, <2>6 DEF TypeOK, TargetTypeOK
    <3>2. target'[t].deploying = FALSE
      BY <2>1, <2>6 DEF TypeOK, TargetTypeOK, TargetRow
    <3> QED BY <1>0, <2>2, <2>3, <3>1, <3>2, OrphanFramed DEF Live
  <2> QED BY <1>10, <2>4, <2>5, <2>6 DEF ReleaseLock
<1> QED
  BY <1>1, <1>2, <1>3, <1>4, <1>5, <1>6, <1>7, <1>8, <1>9, <1>10
     DEF Next, PayloadNext, CreatePayload, UpdatePayload, DeletePayload, SetPayload,
         CreateRelease, AcceptRelease, DeployHandlerStep, StartWorkflow, RevertRelease,
         AbandonDeployHandler, RedeliverTask, Tick, ActivityStep, vars, targetVars, deployVars

\* A lock that nobody holds is left behind only by a failure: as long as nothing
\* failed, every live target whose row says deploying has a worker that deploys
\* to it (jobs/deploy.go:86-101).
THEOREM LocksAreHeld == Spec => []NoOrphanLock
<1>1. Init => OrphanInv
  BY DEF Init, TargetInit, NoTarget, Live, Idle, OrphanInv, NoOrphanLock
<1>2. OrphanInv => NoOrphanLock
  BY DEF OrphanInv
<1> QED BY <1>1, <1>2, InitType, TypeStep, LockInit, LockStep, OrphanStep, PTL DEF Spec

-----------------------------------------------------------------------------
(* Workers and their tasks *)

\* The steps of the activity, and what each leaves in failed.
Goes(w, step, failed) ==
    LET pc == execution[w].pc
        same == failed = execution[w].failed
    IN
    \/ pc = "load" /\ step = "lock" /\ same /\ release[execution[w].release].status = "wait"
    \/ pc = "load" /\ step = "report" /\ same /\ release[execution[w].release].status # "wait"
    \/ pc \in {"load", "lock"} /\ step = "report" /\ failed = TRUE
    \/ pc = "lock" /\ step = "storage" /\ same
    \/ pc = "storage" /\ step = "ssh" /\ same
    \/ pc \in {"storage", "markDeployed"} /\ step = "unlock" /\ failed = TRUE
    \/ pc = "ssh" /\ step = "markOnline" /\ same
    \/ pc = "ssh" /\ step = "markDead" /\ failed = TRUE
    \/ pc \in {"markDead", "markDeployed"} /\ step = "unlock" /\ same
    \/ pc = "markOnline" /\ step = "markDeployed" /\ same
    \/ pc = "unlock" /\ step = "report" /\ same

LEMMA ActivityMoves ==
  ASSUME TypeOK, NEW w \in Workers,
         \/ LoadRelease(w) \/ AcquireLock(w) \/ PrepareArchive(w) \/ InstallOverSSH(w)
         \/ MarkDead(w) \/ MarkOnline(w) \/ MarkDeployed(w) \/ ReleaseLock(w)
  PROVE  /\ UNCHANGED <<workflow, starting, abandoned>>
         /\ \E step, failed : Moved(w, step, failed) /\ Goes(w, step, failed)
<1> USE GoToMoves, FailAtMoves
<1>1. CASE LoadRelease(w)
  BY <1>1, LoadMoves DEF Goes, LoadRelease
<1>2. CASE AcquireLock(w)
  BY <1>2 DEF Goes, AcquireLock
<1>3. CASE PrepareArchive(w)
  BY <1>3 DEF Goes, PrepareArchive
<1>4. CASE InstallOverSSH(w)
  BY <1>4 DEF Goes, InstallOverSSH
<1>5. CASE MarkDead(w)
  BY <1>5 DEF Goes, MarkDead
<1>6. CASE MarkOnline(w)
  BY <1>6 DEF Goes, MarkOnline
<1>7. CASE MarkDeployed(w)
  BY <1>7 DEF Goes, MarkDeployed
<1>8. CASE ReleaseLock(w)
  BY <1>8 DEF Goes, ReleaseLock
<1> QED BY <1>1, <1>2, <1>3, <1>4, <1>5, <1>6, <1>7, <1>8

\* The worker that a task belongs to executes that task, and a worker has failed
\* only where the activity is about to end.
ExecutionInv ==
    /\ \A r \in Releases, w \in Workers : workflow[r].worker = w =>
          execution[w].pc # "idle" /\ execution[w].release = r
    /\ \A w \in Workers :
          /\ execution[w].pc = "markDead" => execution[w].failed = TRUE
          /\ execution[w].failed = TRUE => execution[w].pc \in {"markDead", "unlock", "report"}

\* Who loses a task, or takes one, is the only one whose execution changes.
LEMMA ExecutionStep == ASSUME TypeOK, ExecutionInv, [Next]_vars PROVE ExecutionInv'
<1>0. /\ workflow \in [Releases -> Workflow] /\ execution \in [Workers -> Execution]
      /\ \A w \in Workers : w # Null
  BY DeployNullAssumption DEF TypeOK
<1>1. CASE UNCHANGED <<workflow, execution>>
  BY <1>1 DEF ExecutionInv
<1>2. ASSUME NEW h \in Callers, StartWorkflow(h) PROVE ExecutionInv'
  <2>1. NewInstance(starting[h].release) \/ UNCHANGED workflow
    BY <1>2 DEF StartWorkflow
  <2>2. \A r \in Releases : workflow'[r].worker \in {workflow[r].worker, Null}
    BY <1>0, <2>1 DEF NewInstance, NoWorkflow
  <2>3. UNCHANGED execution
    BY <1>2 DEF StartWorkflow
  <2> QED BY <1>0, <2>2, <2>3 DEF ExecutionInv
<1>3. ASSUME NEW w \in Workers, NEW r \in Releases, TakeTask(w, r) PROVE ExecutionInv'
  <2>1. \A q \in Releases : workflow'[q].worker = IF q = r THEN w ELSE workflow[q].worker
    BY <1>0, <1>3 DEF TakeTask, Workflow
  <2>2. /\ execution'[w].pc = "load" /\ execution'[w].release = r /\ ~execution'[w].failed
        /\ execution[w].pc = "idle"
        /\ \A v \in Workers \ {w} : execution'[v] = execution[v]
    BY <1>0, <1>3 DEF TakeTask, Executing
  <2> QED BY <2>1, <2>2 DEF ExecutionInv
<1>4. ASSUME NEW w \in Workers, ReportResult(w) \/ CrashWorker(w) PROVE ExecutionInv'
  <2> DEFINE r == execution[w].release
  <2>1. \A q \in Releases : /\ workflow'[q].worker \in {workflow[q].worker, Null}
                            /\ q = r => workflow'[q].worker # w
    BY <1>0, <1>4 DEF ReportResult, CrashWorker, Workflow
  <2>2. /\ execution'[w].pc = "idle" /\ ~execution'[w].failed
        /\ \A v \in Workers \ {w} : execution'[v] = execution[v]
    BY <1>0, <1>4 DEF ReportResult, CrashWorker, NoExecution, Executing
  <2> QED BY <1>0, <2>1, <2>2 DEF ExecutionInv
<1>5. ASSUME NEW r \in Releases, RedeliverTask(r) PROVE ExecutionInv'
  <2>1. \A q \in Releases : workflow'[q].worker \in {workflow[q].worker, Null}
    BY <1>0, <1>5 DEF RedeliverTask, Workflow
  <2> QED BY <1>0, <1>5, <2>1 DEF ExecutionInv, RedeliverTask
<1>6. ASSUME NEW w \in Workers,
             \/ LoadRelease(w) \/ AcquireLock(w) \/ PrepareArchive(w) \/ InstallOverSSH(w)
             \/ MarkDead(w) \/ MarkOnline(w) \/ MarkDeployed(w) \/ ReleaseLock(w)
      PROVE  ExecutionInv'
  <2>1. PICK step, failed : Moved(w, step, failed) /\ Goes(w, step, failed)
    BY <1>6, ActivityMoves
  <2>2. step # "idle" /\ execution[w].pc # "idle"
    BY <2>1 DEF Goes
  <2>3. /\ step = "markDead" => failed = TRUE
        /\ failed = TRUE => step \in {"markDead", "unlock", "report"}
    BY <2>1 DEF Goes, ExecutionInv
  <2>4. UNCHANGED workflow
    BY <1>6, ActivityMoves
  <2> QED BY <2>1, <2>2, <2>3, <2>4 DEF ExecutionInv, Moved
<1> QED
  BY <1>1, <1>2, <1>3, <1>4, <1>5, <1>6
     DEF Next, TargetStep, BesideTheWorkers, PayloadNext, CreatePayload, UpdatePayload,
         DeletePayload, SetPayload, CreateRelease, AcceptRelease, DeployHandlerStep,
         RevertRelease, AbandonDeployHandler, Tick, ActivityStep, vars, deployVars

LEMMA ExecutionInit == Init => ExecutionInv
BY DeployNullAssumption DEF Init, ExecutionInv, NoWorkflow, NoExecution, Executing

-----------------------------------------------------------------------------
(* Releases that wait *)

\* The handlers of Release.Deploy that accepted r and have not answered yet.
Starters(r) == {h \in Callers : starting[h].pc # "idle" /\ starting[h].release = r}

\* What a worker that succeeded leaves behind: r does not wait for it.
Settled(r) == release[r].status # "wait" \/ Starters(r) # {} \/ r \in abandoned

OwnerInv ==
    /\ WaitHasOwner
    /\ \A r \in Releases, w \in Workers :
          (workflow[r].worker = w /\ execution[w].pc \in {"unlock", "report"} /\ ~execution[w].failed)
          => Settled(r)

\* A step that lets no release wait anew and takes no owner away.
LEMMA OwnerFramed ==
  ASSUME OwnerInv,
         \A r \in Releases :
            \/ release'[r].status # "wait" \/ Starters(r)' # {} \/ r \in abandoned'
            \/ workflow'[r].state = "active" /\ workflow'[r].worker \notin Workers
            \/ /\ release[r].status = "wait"
               /\ Starters(r) = {}
               /\ r \notin abandoned
               /\ workflow'[r].state \in {"active", "failed"} \/ workflow'[r].state = workflow[r].state
               /\ \A w \in Workers :
                     (workflow'[r].worker = w /\ execution'[w].pc \in {"unlock", "report"} /\ ~execution'[w].failed)
                     => workflow[r].worker = w /\ execution[w].pc \in {"unlock", "report"} /\ ~execution[w].failed
  PROVE  OwnerInv'
<1>1. ASSUME NEW r \in Releases, release'[r].status = "wait"
      PROVE  \/ \E h \in Callers : starting'[h].pc # "idle" /\ starting'[h].release = r
             \/ workflow'[r].state \in {"active", "failed"}
             \/ r \in abandoned'
  BY <1>1 DEF OwnerInv, WaitHasOwner, Starters
<1>2. ASSUME NEW r \in Releases, NEW w \in Workers, workflow'[r].worker = w,
             execution'[w].pc \in {"unlock", "report"}, ~execution'[w].failed
      PROVE  Settled(r)'
  BY <1>2 DEF OwnerInv, Settled
<1> QED BY <1>1, <1>2 DEF OwnerInv, WaitHasOwner

LEMMA OwnerStep == ASSUME TypeOK, ExecutionInv, OwnerInv, [Next]_vars PROVE OwnerInv'
<1>0. /\ workflow \in [Releases -> Workflow] /\ execution \in [Workers -> Execution]
      /\ release \in [Releases -> Release] /\ starting \in [Callers -> Starting]
      /\ \A w \in Workers : w # Null
  BY DeployNullAssumption DEF TypeOK
<1>1. CASE UNCHANGED <<release, starting, workflow, execution, abandoned>>
  BY <1>1, OwnerFramed DEF Starters
<1>2. ASSUME NEW r \in Releases, NEW t \in Targets, NEW p \in Payloads, CreateRelease(r, t, p)
      PROVE  OwnerInv'
  <2>1. \A q \in Releases : release'[q].status = IF q = r THEN "unknown" ELSE release[q].status
    BY <1>0, <1>2 DEF CreateRelease
  <2> QED BY <1>2, <2>1, OwnerFramed DEF CreateRelease, Starters
<1>3. ASSUME NEW h \in Callers, NEW r \in Releases, AcceptRelease(h, r) PROVE OwnerInv'
  <2>1. \A q \in Releases : q # r => release'[q].status = release[q].status
    BY <1>0, <1>3 DEF AcceptRelease, SetStatus
  <2>2. h \in Starters(r)'
    BY <1>0, <1>3 DEF AcceptRelease, Starters
  <2>3. \A q \in Releases : q # r => Starters(q)' = Starters(q)
    BY <1>0, <1>3 DEF AcceptRelease, Starters
  <2> QED BY <1>3, <2>1, <2>2, <2>3, OwnerFramed DEF AcceptRelease
<1>4. ASSUME NEW h \in Callers, StartWorkflow(h) PROVE OwnerInv'
  <2> DEFINE r == starting[h].release
  <2>0. r \in Releases
    BY <1>4 DEF StartWorkflow, TypeOK, Exists
  <2>1. CASE starting' = [starting EXCEPT ![h].pc = "revert"]
    <3>1. h \in Starters(r) /\ \A q \in Releases : Starters(q)' = Starters(q)
      BY <1>0, <1>4, <2>1 DEF StartWorkflow, Starters, Starting
    <3>2. \A q \in Releases : q # r => workflow'[q] = workflow[q]
      BY <1>0, <1>4 DEF StartWorkflow, NewInstance
    <3> QED BY <1>4, <3>1, <3>2, OwnerFramed DEF StartWorkflow
  <2>2. CASE NewInstance(r)
    <3>1. /\ \A g \in Callers \ {h} : starting'[g] = starting[g]
          /\ starting'[h].pc = "idle" \/ starting'[h].release = r
      BY <1>0, <1>4 DEF StartWorkflow, NotStarting, Starting
    <3>2. \A q \in Releases : q # r => Starters(q)' = Starters(q)
      BY <3>1 DEF Starters
    <3>3. /\ \A q \in Releases : q # r => workflow'[q] = workflow[q]
          /\ workflow'[r].state = "active" /\ workflow'[r].worker = Null
      BY <1>0, <2>0, <2>2 DEF NewInstance, NoWorkflow
    <3>4. UNCHANGED <<release, execution, abandoned>> /\ Null \notin Workers
      BY <1>0, <1>4 DEF StartWorkflow
    <3> QED BY <3>2, <3>3, <3>4, OwnerFramed
  <2> QED BY <1>4, <2>1, <2>2 DEF StartWorkflow
<1>5. ASSUME NEW h \in Callers, RevertRelease(h) \/ AbandonDeployHandler(h) PROVE OwnerInv'
  <2> DEFINE r == starting[h].release
  <2>0. r \in Releases
    BY <1>5 DEF RevertRelease, AbandonDeployHandler, TypeOK, Exists
  <2>1. \A q \in Releases : q # r => release'[q].status = release[q].status
    BY <1>0, <1>5 DEF RevertRelease, AbandonDeployHandler, SetStatus
  <2>2. \A q \in Releases : q # r => Starters(q)' = Starters(q)
    BY <1>0, <1>5 DEF RevertRelease, AbandonDeployHandler, Starters, NotStarting
  <2>3. release'[r].status # "wait" \/ r \in abandoned'
    BY <1>0, <1>5, <2>0 DEF RevertRelease, AbandonDeployHandler, SetStatus, Release
  <2>4. UNCHANGED <<workflow, execution>> /\ abandoned \subseteq abandoned'
    BY <1>5 DEF RevertRelease, AbandonDeployHandler
  <2> QED BY <2>1, <2>2, <2>3, <2>4, OwnerFramed
<1>6. ASSUME NEW w \in Workers, NEW r \in Releases, TakeTask(w, r) PROVE OwnerInv'
  <2>1. \A q \in Releases : /\ workflow'[q].state = workflow[q].state
                            /\ workflow'[q].worker = IF q = r THEN w ELSE workflow[q].worker
    BY <1>0, <1>6 DEF TakeTask, Workflow
  <2>2. /\ execution'[w].pc = "load"
        /\ \A v \in Workers \ {w} : execution'[v] = execution[v]
    BY <1>0, <1>6 DEF TakeTask, Executing
  <2> QED BY <1>6, <2>1, <2>2, OwnerFramed DEF TakeTask, Starters
<1>7. ASSUME NEW w \in Workers, ReportResult(w) \/ CrashWorker(w) PROVE OwnerInv'
  <2> DEFINE r == execution[w].release
  <2>1. \A q \in Releases :
           /\ workflow'[q].worker \in {workflow[q].worker, Null}
           /\ \/ workflow'[q].state \in {"active", "failed", workflow[q].state}
              \/ q = r /\ execution[w].pc = "report" /\ ~execution[w].failed /\ workflow[q].worker = w
    BY <1>0, <1>7 DEF ReportResult, CrashWorker, Workflow
  <2>2. /\ execution'[w].pc = "idle"
        /\ \A v \in Workers \ {w} : execution'[v] = execution[v]
    BY <1>0, <1>7 DEF ReportResult, CrashWorker, NoExecution, Executing
  <2>3. UNCHANGED <<release, starting, abandoned>>
    BY <1>7 DEF ReportResult, CrashWorker
  <2>4. ASSUME NEW q \in Releases, ~Settled(q)
        PROVE  workflow'[q].state \in {"active", "failed", workflow[q].state}
    BY <2>1, <2>4 DEF OwnerInv
  <2>5. \A q \in Releases : Settled(q)' <=> Settled(q)
    BY <2>3 DEF Settled, Starters
  <2> QED BY <1>0, <2>1, <2>2, <2>3, <2>4, <2>5, OwnerFramed DEF Settled
<1>8. ASSUME NEW r \in Releases, RedeliverTask(r) PROVE OwnerInv'
  <2>1. \A q \in Releases : /\ workflow'[q].state = workflow[q].state
                            /\ workflow'[q].worker \in {workflow[q].worker, Null}
    BY <1>0, <1>8 DEF RedeliverTask, Workflow
  <2> QED BY <1>0, <1>8, <2>1, OwnerFramed DEF RedeliverTask, Starters
<1>9. ASSUME NEW w \in Workers,
             \/ LoadRelease(w) \/ AcquireLock(w) \/ PrepareArchive(w) \/ InstallOverSSH(w)
             \/ MarkDead(w) \/ MarkOnline(w) \/ MarkDeployed(w) \/ ReleaseLock(w)
      PROVE  OwnerInv'
  <2> DEFINE r == execution[w].release
  <2>1. PICK step, failed : Moved(w, step, failed) /\ Goes(w, step, failed)
    BY <1>9, ActivityMoves
  <2>2. UNCHANGED <<workflow, starting, abandoned>>
    BY <1>9, ActivityMoves
  <2>3. \A q \in Releases : \/ release'[q].status = release[q].status
                            \/ release'[q].status # "wait"
    <3>1. UNCHANGED release \/ SetStatus(r, "dead") \/ SetStatus(r, "deployed")
      BY <1>9 DEF LoadRelease, AcquireLock, PrepareArchive, InstallOverSSH, MarkDead,
                  MarkOnline, MarkDeployed, ReleaseLock
    <3> QED BY <1>0, <3>1 DEF SetStatus, Release
  <2>4. CASE \/ step \notin {"unlock", "report"}
             \/ failed = TRUE
             \/ execution[w].pc \in {"unlock", "report"} /\ failed = execution[w].failed
    BY <2>1, <2>2, <2>3, <2>4, OwnerFramed DEF Moved, Starters
  <2>5. CASE execution[w].pc = "load" /\ release[r].status # "wait"
    BY <2>1, <2>2, <2>3, <2>5, OwnerFramed DEF Moved, Starters, ExecutionInv
  <2>6. CASE execution[w].pc = "markDead"
    <3>1. failed = TRUE
      BY <2>1, <2>6 DEF Goes, ExecutionInv
    <3> QED BY <2>4, <3>1
  <2>7. CASE execution[w].pc = "markDeployed" /\ step = "unlock" /\ failed = execution[w].failed
    <3>1. r \in Releases
      BY <2>7 DEF TypeOK, Exists
    <3>2. MarkDeployed(w)
      BY <1>9, <2>7 DEF LoadRelease, AcquireLock, PrepareArchive, InstallOverSSH, MarkDead,
                        MarkOnline, ReleaseLock
    <3>3. release'[r].status # "wait" \/ failed = TRUE
      BY <1>0, <2>1, <3>1, <3>2, FailAtMoves DEF MarkDeployed, SetStatus, Release, Moved
    <3> QED BY <2>1, <2>2, <2>3, <2>4, <3>3, OwnerFramed DEF Moved, Starters, ExecutionInv
  <2> QED BY <2>1, <2>4, <2>5, <2>6, <2>7 DEF Goes
<1> QED
  BY <1>1, <1>2, <1>3, <1>4, <1>5, <1>6, <1>7, <1>8, <1>9
     DEF Next, TargetStep, BesideTheWorkers, PayloadNext, CreatePayload, UpdatePayload,
         DeletePayload, SetPayload, DeployHandlerStep, Tick, ActivityStep, vars, deployVars

\* A release that waits is somebody's: of the handler that accepted it, or of a
\* workflow that is active or failed; otherwise its handler stopped half way
\* (service/release.go:84-147, jobs/deploy.go:49-154).
THEOREM WaitingIsOwned == Spec => []WaitHasOwner
<1>1. Init => OwnerInv
  BY DEF Init, NoRelease, NoExecution, Executing, OwnerInv, WaitHasOwner
<1>2. OwnerInv => WaitHasOwner
  BY DEF OwnerInv
<1> QED BY <1>1, <1>2, InitType, TypeStep, ExecutionInit, ExecutionStep, OwnerStep, PTL DEF Spec

-----------------------------------------------------------------------------
(* The lifecycle of a release *)

\* One party at a time has to do with release r: nobody while it does not wait for
\* an instance, then the handler that accepted it, then the workflow.
OneParty(r) ==
    /\ release[r].status \in {"absent", "unknown"} => workflow[r].state = "none" /\ Starters(r) = {}
    /\ \A h \in Starters(r) : /\ Starters(r) = {h}
                              /\ workflow[r].state = "none"
                              /\ release[r].status = "wait"
    /\ workflow[r].state = "none" => \A w \in Workers : execution[w].release # r

\* So it is, unless the reply that creates an instance can be lost.
LostReplyInv == "lostReply" \notin Faults => \A r \in Releases : OneParty(r)

\* Unless a task can be handed out while it is executed, a release has one worker,
\* and that worker made it deployed, if anybody did.
RedeliveryInv ==
    "redelivery" \notin Faults => \A w \in Workers : execution[w].pc # "idle" =>
       /\ workflow[execution[w].release].worker = w
       /\ execution[w].pc \in {"lock", "storage", "ssh", "markDead"} =>
             release[execution[w].release].status # "deployed"

LEMMA LifecycleInit == Init => LostReplyInv /\ RedeliveryInv
<1> SUFFICES ASSUME Init PROVE LostReplyInv /\ RedeliveryInv
  OBVIOUS
<1>1. \A r \in Releases : Starters(r) = {}
  BY DEF Init, NotStarting, Starters
<1>2. \A w \in Workers : execution[w].pc = "idle" /\ execution[w].release = Null
  BY DEF Init, NoExecution, Executing
<1>3. \A r \in Releases : workflow[r].state = "none" /\ r # Null
  BY DeployNullAssumption DEF Init, NoWorkflow
<1> QED BY <1>1, <1>2, <1>3 DEF LostReplyInv, OneParty, RedeliveryInv

\* The workers leave the handlers and the instances alone, and do not make a
\* release unknown, or wait, again.
LEMMA StatusOfActivity ==
  ASSUME TypeOK, NEW w \in Workers,
         \/ LoadRelease(w) \/ AcquireLock(w) \/ PrepareArchive(w) \/ InstallOverSSH(w)
         \/ MarkDead(w) \/ MarkOnline(w) \/ MarkDeployed(w) \/ ReleaseLock(w)
  PROVE  /\ \A q \in Releases : release'[q].status = release[q].status \/ q = execution[w].release
         /\ \/ UNCHANGED release
            \/ /\ release'[execution[w].release].status = "dead"
               /\ execution[w].pc = "markDead"
            \/ /\ release'[execution[w].release].status = "deployed"
               /\ release[execution[w].release].status = "wait"
               /\ execution[w].pc = "markDeployed"
<1> DEFINE r == execution[w].release
<1>0. release \in [Releases -> Release]
  BY DEF TypeOK
<1>1. execution[w].pc # "idle" /\ r \in Releases
  BY DEF LoadRelease, AcquireLock, PrepareArchive, InstallOverSSH, MarkDead, MarkOnline,
         MarkDeployed, ReleaseLock, TypeOK, Exists
<1>2. \/ UNCHANGED release
      \/ SetStatus(r, "dead") /\ execution[w].pc = "markDead"
      \/ SetStatus(r, "deployed") /\ release[r].status = "wait" /\ execution[w].pc = "markDeployed"
  BY DEF LoadRelease, AcquireLock, PrepareArchive, InstallOverSSH, MarkDead, MarkOnline,
         MarkDeployed, ReleaseLock
<1> QED BY <1>0, <1>1, <1>2 DEF SetStatus, Release

LEMMA OnePartyFramed ==
  ASSUME NEW r \in Releases, OneParty(r), Starters(r)' = Starters(r),
         workflow'[r].state = workflow[r].state,
         \/ release'[r].status = release[r].status
         \/ release'[r].status \notin {"absent", "unknown"} /\ workflow[r].state # "none"
         \/ release[r].status \in {"absent", "unknown"},
         \A w \in Workers : execution'[w].release # r \/ execution[w].release = r
                                                      \/ workflow[r].state # "none"
  PROVE  OneParty(r)'
BY DEF OneParty

LEMMA LostReplyStep == ASSUME TypeOK, LostReplyInv, [Next]_vars PROVE LostReplyInv'
<1> SUFFICES ASSUME "lostReply" \notin Faults, NEW r \in Releases PROVE OneParty(r)'
  BY DEF LostReplyInv
<1>0. /\ workflow \in [Releases -> Workflow] /\ execution \in [Workers -> Execution]
      /\ release \in [Releases -> Release] /\ starting \in [Callers -> Starting]
      /\ r # Null /\ \A q \in Releases : OneParty(q)
  BY DeployNullAssumption DEF TypeOK, LostReplyInv
<1>1. CASE UNCHANGED <<release, starting, workflow, execution>>
  BY <1>0, <1>1, OnePartyFramed DEF Starters
<1>2. ASSUME NEW q \in Releases, NEW t \in Targets, NEW p \in Payloads, CreateRelease(q, t, p)
      PROVE  OneParty(r)'
  <2>1. release'[r].status = release[r].status \/ release[r].status = "absent"
    BY <1>0, <1>2 DEF CreateRelease
  <2> QED BY <1>0, <1>2, <2>1, OnePartyFramed DEF CreateRelease, Starters
<1>3. ASSUME NEW h \in Callers, NEW q \in Releases, AcceptRelease(h, q) PROVE OneParty(r)'
  <2>1. \A g \in Callers \ {h} : starting'[g] = starting[g]
    BY <1>0, <1>3 DEF AcceptRelease
  <2>2. starting[h].pc = "idle" /\ starting'[h].pc # "idle" /\ starting'[h].release = q
    BY <1>0, <1>3 DEF AcceptRelease
  <2>3. UNCHANGED <<workflow, execution>> /\ release[q].status = "unknown"
    BY <1>3 DEF AcceptRelease
  <2>4. CASE r = q
    <3>1. release'[r].status = "wait"
      BY <1>0, <1>3, <2>4 DEF AcceptRelease, SetStatus, Release
    <3>2. Starters(r) = {} /\ workflow[r].state = "none"
      BY <1>0, <2>3, <2>4 DEF OneParty
    <3>3. Starters(r)' = {h}
      BY <2>1, <2>2, <2>4, <3>2 DEF Starters
    <3> QED BY <1>0, <2>3, <3>1, <3>2, <3>3 DEF OneParty
  <2>5. CASE r # q
    <3>1. release'[r].status = release[r].status
      BY <1>0, <1>3, <2>5 DEF AcceptRelease, SetStatus
    <3>2. Starters(r)' = Starters(r)
      BY <2>1, <2>2, <2>5 DEF Starters
    <3> QED BY <1>0, <2>3, <3>1, <3>2, OnePartyFramed
  <2> QED BY <2>4, <2>5
<1>4. ASSUME NEW h \in Callers,
             StartWorkflow(h) \/ RevertRelease(h) \/ AbandonDeployHandler(h)
      PROVE  OneParty(r)'
  <2> DEFINE q == starting[h].release
  <2>1. /\ q \in Releases /\ starting[h].pc # "idle" /\ h \in Starters(q)
        /\ UNCHANGED execution
    BY <1>4 DEF StartWorkflow, RevertRelease, AbandonDeployHandler, TypeOK, Exists, Starters
  <2>2. /\ Starters(q) = {h} /\ workflow[q].state = "none" /\ release[q].status = "wait"
        /\ \A w \in Workers : execution[w].release # q
    BY <1>0, <2>1 DEF OneParty
  <2>3. /\ \A g \in Callers \ {h} : starting'[g] = starting[g]
        /\ starting'[h].pc = "idle" \/ starting'[h].release = q
    BY <1>0, <1>4 DEF StartWorkflow, RevertRelease, AbandonDeployHandler, NotStarting, Starting
  <2>4. CASE r # q
    <3>1. Starters(r)' = Starters(r)
      BY <2>3, <2>4 DEF Starters
    <3>2. release'[r].status = release[r].status /\ workflow'[r] = workflow[r]
      BY <1>0, <1>4, <2>4 DEF StartWorkflow, RevertRelease, AbandonDeployHandler, SetStatus,
                              NewInstance
    <3> QED BY <1>0, <2>1, <3>1, <3>2, OnePartyFramed
  <2>5. CASE r = q /\ starting'[h].pc # "idle"
    <3>1. UNCHANGED <<release, workflow>>
      BY <1>0, <1>4, <2>5 DEF StartWorkflow, RevertRelease, AbandonDeployHandler, NotStarting,
                              Fail
    <3>2. Starters(r)' = Starters(r)
      BY <2>1, <2>3, <2>5 DEF Starters
    <3> QED BY <1>0, <2>1, <3>1, <3>2, OnePartyFramed
  <2>6. CASE r = q /\ starting'[h].pc = "idle"
    <3>1. Starters(r)' = {}
      BY <2>2, <2>3, <2>6 DEF Starters
    <3>2. \/ UNCHANGED workflow
          \/ workflow'[r].state = "active" /\ UNCHANGED release
      BY <1>0, <1>4, <2>1, <2>6 DEF StartWorkflow, RevertRelease, AbandonDeployHandler,
                                    NewInstance, NoWorkflow
    <3> QED BY <2>1, <2>2, <2>6, <3>1, <3>2 DEF OneParty
  <2> QED BY <2>4, <2>5, <2>6
<1>5. ASSUME NEW w \in Workers, NEW q \in Releases, TakeTask(w, q) PROVE OneParty(r)'
  <2>1. workflow'[r].state = workflow[r].state /\ workflow[q].state = "active"
    BY <1>0, <1>5 DEF TakeTask, Workflow
  <2>2. \A v \in Workers : execution'[v].release = IF v = w THEN q ELSE execution[v].release
    BY <1>0, <1>5 DEF TakeTask, Executing
  <2> QED BY <1>0, <1>5, <2>1, <2>2, OnePartyFramed DEF TakeTask, Starters
<1>6. ASSUME NEW w \in Workers, ReportResult(w) \/ CrashWorker(w) PROVE OneParty(r)'
  <2>1. \/ workflow'[r].state = workflow[r].state
        \/ workflow'[r].state # "none" /\ workflow[r].state # "none"
    <3>1. workflow[r].worker = w => workflow[r].state = "active"
      BY DeployNullAssumption DEF TypeOK
    <3>2. CASE CrashWorker(w)
      BY <1>0, <3>2 DEF CrashWorker, Workflow
    <3>3. CASE ReportResult(w)
      <4>1. \/ workflow'[r] = workflow[r]
            \/ workflow[r].worker = w /\ workflow'[r].state \in {"done", "active", "failed"}
        BY <1>0, <3>3 DEF ReportResult
      <4> QED BY <3>1, <4>1
    <3> QED BY <1>6, <3>2, <3>3
  <2>2. \A v \in Workers : execution'[v].release = r => execution[v].release = r
    BY <1>0, <1>6 DEF ReportResult, CrashWorker, NoExecution, Executing
  <2> QED BY <1>0, <1>6, <2>1, <2>2 DEF ReportResult, CrashWorker, Starters, OneParty
<1>7. ASSUME NEW q \in Releases, RedeliverTask(q) PROVE OneParty(r)'
  <2>1. workflow'[r].state = workflow[r].state
    BY <1>0, <1>7 DEF RedeliverTask, Workflow
  <2> QED BY <1>0, <1>7, <2>1, OnePartyFramed DEF RedeliverTask, Starters
<1>8. ASSUME NEW w \in Workers,
             \/ LoadRelease(w) \/ AcquireLock(w) \/ PrepareArchive(w) \/ InstallOverSSH(w)
             \/ MarkDead(w) \/ MarkOnline(w) \/ MarkDeployed(w) \/ ReleaseLock(w)
      PROVE  OneParty(r)'
  <2>1. PICK step, failed : Moved(w, step, failed) /\ Goes(w, step, failed)
    BY <1>8, ActivityMoves
  <2>2. UNCHANGED <<workflow, starting>>
    BY <1>8, ActivityMoves
  <2>3. \A v \in Workers : execution'[v].release = execution[v].release
    BY <2>1 DEF Moved
  <2>4. CASE release'[r].status = release[r].status
    BY <1>0, <2>2, <2>3, <2>4, OnePartyFramed DEF Starters
  <2>5. CASE release'[r].status # release[r].status
    <3>1. r = execution[w].release /\ release'[r].status \in {"dead", "deployed"}
      BY <1>8, <2>5, StatusOfActivity
    <3>2. workflow[r].state # "none"
      BY <1>0, <3>1 DEF OneParty
    <3> QED BY <1>0, <2>2, <2>3, <3>1, <3>2, OnePartyFramed DEF Starters
  <2> QED BY <2>4, <2>5
<1> QED
  BY <1>1, <1>2, <1>3, <1>4, <1>5, <1>6, <1>7, <1>8
     DEF Next, TargetStep, BesideTheWorkers, PayloadNext, CreatePayload, UpdatePayload,
         DeletePayload, SetPayload, DeployHandlerStep, Tick, ActivityStep, vars, deployVars

LEMMA RedeliveryStep == ASSUME TypeOK, RedeliveryInv, [Next]_vars PROVE RedeliveryInv'
<1> SUFFICES ASSUME "redelivery" \notin Faults, NEW w \in Workers, execution'[w].pc # "idle"
             PROVE  /\ workflow'[execution'[w].release].worker = w
                    /\ execution'[w].pc \in {"lock", "storage", "ssh", "markDead"} =>
                          release'[execution'[w].release].status # "deployed"
  BY DEF RedeliveryInv
<1>0. /\ workflow \in [Releases -> Workflow] /\ execution \in [Workers -> Execution]
      /\ release \in [Releases -> Release]
      /\ \A v \in Workers : v # Null
  BY DeployNullAssumption DEF TypeOK
<1>i. \A v \in Workers : execution[v].pc # "idle" =>
         /\ execution[v].release \in Releases
         /\ release[execution[v].release].status # "absent"
         /\ workflow[execution[v].release].worker = v
         /\ workflow[execution[v].release].state = "active"
         /\ execution[v].pc \in {"lock", "storage", "ssh", "markDead"} =>
               release[execution[v].release].status # "deployed"
  BY <1>0 DEF RedeliveryInv, TypeOK, Exists
<1>1. CASE UNCHANGED <<release, workflow, execution>>
  BY <1>i, <1>1
<1>2. ASSUME NEW q \in Releases, NEW t \in Targets, NEW p \in Payloads, CreateRelease(q, t, p)
      PROVE  RedeliveryInv'
  <2>1. \A v \in Releases : v # q => release'[v].status = release[v].status
    BY <1>0, <1>2 DEF CreateRelease
  <2> QED BY <1>i, <1>2, <2>1 DEF CreateRelease, RedeliveryInv
<1>3. ASSUME NEW q, NEW s \in {"wait", "unknown"}, SetStatus(q, s), UNCHANGED <<workflow, execution>>
      PROVE  RedeliveryInv'
  <2>1. \A v \in Releases : release'[v].status \in {release[v].status, s}
    BY <1>0, <1>3 DEF SetStatus, Release
  <2> QED BY <1>i, <1>3, <2>1 DEF RedeliveryInv
<1>4. ASSUME NEW h \in Callers, StartWorkflow(h) PROVE RedeliveryInv'
  <2> DEFINE q == starting[h].release
  <2>1. UNCHANGED workflow \/ (workflow[q].state # "active" /\ NewInstance(q))
    BY <1>4 DEF StartWorkflow
  <2>2. \A v \in Releases : workflow[v].state = "active" => workflow'[v] = workflow[v]
    BY <1>0, <2>1 DEF NewInstance
  <2> QED BY <1>i, <1>4, <2>2 DEF StartWorkflow, RedeliveryInv
<1>5. ASSUME NEW v \in Workers, NEW q \in Releases, TakeTask(v, q) PROVE RedeliveryInv'
  <2>1. /\ workflow'[q].worker = v /\ workflow[q].worker = Null
        /\ \A u \in Releases : u # q => workflow'[u] = workflow[u]
    BY <1>0, <1>5 DEF TakeTask, Workflow
  <2>2. /\ execution'[v].pc = "load" /\ execution'[v].release = q
        /\ \A u \in Workers \ {v} : execution'[u] = execution[u]
    BY <1>0, <1>5 DEF TakeTask, Executing
  <2> QED BY <1>0, <1>i, <1>5, <2>1, <2>2 DEF TakeTask, RedeliveryInv
<1>6. ASSUME NEW v \in Workers, ReportResult(v) \/ CrashWorker(v) PROVE RedeliveryInv'
  <2>1. execution'[v].pc = "idle" /\ \A u \in Workers \ {v} : execution'[u] = execution[u]
    BY <1>0, <1>6 DEF ReportResult, CrashWorker, NoExecution, Executing
  <2>2. \A u \in Releases : u # execution[v].release => workflow'[u] = workflow[u]
    BY <1>0, <1>6 DEF ReportResult, CrashWorker
  <2>3. UNCHANGED release /\ execution[v].pc # "idle"
    BY <1>6 DEF ReportResult, CrashWorker
  <2> QED BY <1>i, <2>1, <2>2, <2>3 DEF RedeliveryInv
<1>7. ASSUME NEW q \in Releases, RedeliverTask(q) PROVE FALSE
  BY <1>7 DEF RedeliverTask, Fail
<1>8. ASSUME NEW v \in Workers,
             \/ LoadRelease(v) \/ AcquireLock(v) \/ PrepareArchive(v) \/ InstallOverSSH(v)
             \/ MarkDead(v) \/ MarkOnline(v) \/ MarkDeployed(v) \/ ReleaseLock(v)
      PROVE  RedeliveryInv'
  <2>1. PICK step, failed : Moved(v, step, failed) /\ Goes(v, step, failed)
    BY <1>8, ActivityMoves
  <2>2. UNCHANGED workflow /\ execution[v].pc # "idle"
    BY <1>8, <2>1, ActivityMoves DEF Goes
  <2>3. \A u \in Workers \ {v} : execution[u].pc # "idle" => execution[u].release # execution[v].release
    BY <1>i, <2>2
  <2>4. \A q \in Releases : q # execution[v].release => release'[q].status = release[q].status
    BY <1>8, StatusOfActivity
  <2>5. step \in {"lock", "storage", "ssh", "markDead"} => release'[execution[v].release].status # "deployed"
    <3> SUFFICES ASSUME step \in {"lock", "storage", "ssh", "markDead"}
                 PROVE  release'[execution[v].release].status # "deployed"
      OBVIOUS
    <3>1. execution[v].pc \in {"load", "lock", "storage", "ssh"}
      BY <2>1 DEF Goes
    <3>2. UNCHANGED release
      BY <1>8, <3>1, StatusOfActivity
    <3>3. release[execution[v].release].status # "deployed"
      BY <1>i, <2>1, <3>1 DEF Goes
    <3> QED BY <3>2, <3>3
  <2> QED BY <1>i, <2>1, <2>2, <2>3, <2>4, <2>5 DEF Moved, RedeliveryInv
<1>9. ASSUME NEW h \in Callers, RevertRelease(h) PROVE RedeliveryInv'
  BY <1>3, <1>9, <1>i DEF RevertRelease, RedeliveryInv
<1> QED
  BY <1>1, <1>2, <1>3, <1>4, <1>5, <1>6, <1>7, <1>8, <1>9
     DEF Next, TargetStep, BesideTheWorkers, PayloadNext, CreatePayload, UpdatePayload,
         DeletePayload, SetPayload, AcceptRelease, DeployHandlerStep, AbandonDeployHandler,
         Tick, ActivityStep, vars, deployVars, RedeliveryInv

\* What the abstract specification sees of a statement that sets a status.
LEMMA StatusMoves ==
  ASSUME release \in [Releases -> Release], NEW r \in Releases, NEW s, SetStatus(r, s)
  PROVE  [q \in Releases |-> release[q].status]' =
            [[q \in Releases |-> release[q].status] EXCEPT ![r] = s]
<1>1. \A q \in Releases : release'[q].status = IF q = r THEN s ELSE release[q].status
  BY DEF SetStatus, Release
<1> QED BY <1>1

\* Every step of Deploy is a step of the lifecycle, or leaves all statuses alone.
LEMMA LifecycleStep ==
  ASSUME TypeOK, LostReplyInv, RedeliveryInv, [Next]_vars
  PROVE  [Lifecycle!Next]_([r \in Releases |-> release[r].status])
<1> DEFINE status == [r \in Releases |-> release[r].status]
<1>0. release \in [Releases -> Release]
  BY DEF TypeOK
<1>1. CASE UNCHANGED release
  BY <1>1
<1>2. ASSUME NEW r \in Releases, NEW t \in Targets, NEW p \in Payloads, CreateRelease(r, t, p)
      PROVE  Lifecycle!Create(r)
  <2>1. \A q \in Releases : release'[q].status = IF q = r THEN "unknown" ELSE release[q].status
    BY <1>0, <1>2 DEF CreateRelease
  <2>2. status' = [status EXCEPT ![r] = "unknown"]
    BY <2>1
  <2> QED BY <1>2, <2>2 DEF Lifecycle!Create, Lifecycle!Move, CreateRelease
<1>3. ASSUME NEW h \in Callers, NEW r \in Releases, AcceptRelease(h, r) PROVE Lifecycle!Accept(r)
  <2>1. status' = [status EXCEPT ![r] = "wait"]
    BY <1>0, <1>3, StatusMoves DEF AcceptRelease
  <2> QED BY <1>3, <2>1 DEF Lifecycle!Accept, Lifecycle!Move, AcceptRelease
<1>4. ASSUME NEW h \in Callers, RevertRelease(h), release' # release
      PROVE  \E r \in Releases : Lifecycle!Withdraw(r)
  <2> DEFINE r == starting[h].release
  <2>1. r \in Releases /\ release[r].status = "wait" /\ SetStatus(r, "unknown")
    BY <1>4 DEF RevertRelease, TypeOK, Exists
  <2>2. status' = [status EXCEPT ![r] = "unknown"]
    BY <1>0, <2>1, StatusMoves
  <2>3. Lifecycle!Withdraw(r)
    BY <2>1, <2>2 DEF Lifecycle!Withdraw, Lifecycle!Move
  <2> QED BY <2>1, <2>3 DEF Lifecycle!Withdraw, Lifecycle!Move
<1>5. ASSUME NEW w \in Workers, MarkDeployed(w), release' # release
      PROVE  \E r \in Releases : Lifecycle!Confirm(r)
  <2> DEFINE r == execution[w].release
  <2>1. r \in Releases /\ release[r].status = "wait" /\ SetStatus(r, "deployed")
    BY <1>5 DEF MarkDeployed, TypeOK, Exists
  <2>2. status' = [status EXCEPT ![r] = "deployed"]
    BY <1>0, <2>1, StatusMoves
  <2>3. Lifecycle!Confirm(r)
    BY <2>1, <2>2 DEF Lifecycle!Confirm, Lifecycle!Move
  <2> QED BY <2>1, <2>3 DEF Lifecycle!Confirm, Lifecycle!Move
<1>6. ASSUME NEW w \in Workers, MarkDead(w), release' # release
      PROVE  \/ \E r \in Releases : Lifecycle!Condemn(r)
             \/ status' = status
  <2> DEFINE r == execution[w].release
  <2>1. /\ r \in Releases /\ release[r].status # "absent"
        /\ SetStatus(r, "dead") /\ execution[w].pc = "markDead"
    BY <1>6 DEF MarkDead, TypeOK, Exists
  <2>2. status' = [status EXCEPT ![r] = "dead"]
    BY <1>0, <2>1, StatusMoves
  <2>3. release[r].status = "unknown" => "lostReply" \in Faults
    BY <2>1 DEF LostReplyInv, OneParty
  <2>4. release[r].status = "deployed" => "redelivery" \in Faults
    BY <2>1 DEF RedeliveryInv
  <2>5. CASE release[r].status = "dead"
    BY <2>1, <2>2, <2>5
  <2>6. CASE release[r].status # "dead"
    <3>1. release[r].status \in {"wait"} \cup
             {s \in {"unknown", "deployed"} :
                IF s = "unknown" THEN "lostReply" \in Faults ELSE "redelivery" \in Faults}
      BY <1>0, <2>1, <2>3, <2>4, <2>6 DEF Release
    <3>2. Lifecycle!Condemn(r)
      BY <2>1, <2>2, <3>1 DEF Lifecycle!Condemn, Lifecycle!Move
    <3> QED BY <2>1, <3>2 DEF Lifecycle!Condemn, Lifecycle!Move
  <2> QED BY <2>5, <2>6
<1> QED
  BY <1>1, <1>2, <1>3, <1>4, <1>5, <1>6
     DEF Next, TargetStep, BesideTheWorkers, PayloadNext, CreatePayload, UpdatePayload,
         DeletePayload, SetPayload, TakeTask, RedeliverTask, DeployHandlerStep, StartWorkflow,
         AbandonDeployHandler, ActivityStep, CrashWorker, LoadRelease, AcquireLock,
         PrepareArchive, InstallOverSSH, MarkOnline, ReleaseLock, ReportResult, Tick, vars,
         deployVars, Lifecycle!Next

\* Deploy implements ReleaseLifecycle: a release is created unknown, waits once it
\* is accepted and is decided once; dead overwrites unknown only where replies get
\* lost, and deployed only where tasks are handed out twice (jobs/deploy.go:137-139).
THEOREM LifecycleIsFollowed == Spec => FollowsLifecycle
<1>1. Init => Lifecycle!Init
  BY DEF Init, NoRelease, Lifecycle!Init
<1> QED BY <1>1, InitType, TypeStep, LifecycleInit, LostReplyStep, RedeliveryStep, LifecycleStep, PTL
        DEF Spec, FollowsLifecycle, Lifecycle!Spec

-----------------------------------------------------------------------------
(* Repeated installations *)

\* A worker that may still install what it executes, or make the engine hand it
\* out again.
MayInstall(w) ==
    \/ execution[w].pc \in {"load", "lock", "storage", "ssh"}
    \/ execution[w].pc # "idle" /\ execution[w].failed = TRUE

\* Everything that may lead to an installation of release r: that it can be
\* accepted, a handler that accepted it, a queued activity, a worker at work.
Claims(r) ==
    {<<"status", q>> : q \in {q \in {r} : release[q].status \in {"absent", "unknown"}}}
    \cup {<<"caller", h>> : h \in Starters(r)}
    \cup {<<"queue", q>> : q \in {q \in {r} : workflow[q].state = "active" /\ workflow[q].worker = Null}}
    \cup {<<"worker", w>> : w \in {w \in Workers : execution[w].release = r /\ MayInstall(w)}}

\* An installation uses up a claim, and only a failure makes one more.
ClaimInv ==
    \A r \in Releases : /\ IsFiniteSet(Claims(r))
                        /\ installs[r] + Cardinality(Claims(r)) <= 1 + failures

LEMMA SetGrows == ASSUME NEW S, IsFiniteSet(S), NEW T, NEW b, T \subseteq S \cup {b}
                  PROVE  IsFiniteSet(T) /\ Cardinality(T) <= Cardinality(S) + 1
<1>0. Cardinality(S) \in Nat
  BY FS_CardinalityType
<1>1. IsFiniteSet(S \cup {b}) /\ Cardinality(S \cup {b}) <= Cardinality(S) + 1
  BY <1>0, FS_AddElement
<1>2. IsFiniteSet(T) /\ Cardinality(T) <= Cardinality(S \cup {b})
  BY <1>1, FS_Subset
<1> QED BY <1>1, <1>2, FS_CardinalityType

LEMMA SetShrinks == ASSUME NEW S, IsFiniteSet(S), NEW a \in S, NEW T, T \subseteq S \ {a}
                    PROVE  IsFiniteSet(T) /\ Cardinality(T) + 1 <= Cardinality(S)
<1>1. IsFiniteSet(S \ {a}) /\ Cardinality(S \ {a}) = Cardinality(S) - 1
  BY FS_RemoveElement
<1>2. IsFiniteSet(T) /\ Cardinality(T) <= Cardinality(S \ {a})
  BY <1>1, FS_Subset
<1> QED BY <1>1, <1>2, FS_CardinalityType

LEMMA SetSwaps ==
  ASSUME NEW S, IsFiniteSet(S), NEW a \in S, NEW T, NEW b, T \subseteq (S \ {a}) \cup {b}
  PROVE  IsFiniteSet(T) /\ Cardinality(T) <= Cardinality(S)
<1>1. IsFiniteSet(S \ {a}) /\ Cardinality(S \ {a}) + 1 <= Cardinality(S)
  BY SetShrinks
<1>2. IsFiniteSet(T) /\ Cardinality(T) <= Cardinality(S \ {a}) + 1
  BY <1>1, SetGrows
<1> QED BY <1>1, <1>2, FS_CardinalityType

\* How a step may change the claims on r: drop some, exchange one, let a failure
\* add one, or use one up for an installation.
Accounted(r) ==
    \/ installs'[r] = installs[r] /\ Claims(r)' \subseteq Claims(r)
    \/ installs'[r] = installs[r] /\ \E a \in Claims(r) : \E b : Claims(r)' \subseteq (Claims(r) \ {a}) \cup {b}
    \/ installs'[r] = installs[r] /\ failures' = failures + 1 /\ \E b : Claims(r)' \subseteq Claims(r) \cup {b}
    \/ installs'[r] = installs[r] + 1 /\ \E a \in Claims(r) : Claims(r)' \subseteq Claims(r) \ {a}

LEMMA ClaimsAreKept ==
  ASSUME TypeOK, ClaimInv, failures' \in {failures, failures + 1}, \A r \in Releases : Accounted(r)
  PROVE  ClaimInv'
<1> SUFFICES ASSUME NEW r \in Releases
             PROVE  IsFiniteSet(Claims(r)') /\ installs'[r] + Cardinality(Claims(r)') <= 1 + failures'
  BY DEF ClaimInv
<1> PICK S, T : S = Claims(r) /\ T = Claims(r)'
  OBVIOUS
<1>0. /\ failures \in Nat /\ installs[r] \in Nat
      /\ IsFiniteSet(S) /\ installs[r] + Cardinality(S) <= 1 + failures
      /\ Cardinality(S) \in Nat
  BY FS_CardinalityType, MaxFailuresAssumption DEF TypeOK, TargetTypeOK, ClaimInv
<1>1. CASE installs'[r] = installs[r] /\ T \subseteq S
  <2>1. IsFiniteSet(T) /\ Cardinality(T) <= Cardinality(S)
    BY <1>0, <1>1, FS_Subset
  <2> QED BY <1>0, <1>1, <2>1, FS_CardinalityType
<1>2. ASSUME installs'[r] = installs[r], NEW a \in S, NEW b, T \subseteq (S \ {a}) \cup {b}
      PROVE  IsFiniteSet(T) /\ installs'[r] + Cardinality(T) <= 1 + failures'
  <2>1. IsFiniteSet(T) /\ Cardinality(T) <= Cardinality(S)
    BY <1>0, <1>2, SetSwaps
  <2> QED BY <1>0, <1>2, <2>1, FS_CardinalityType
<1>3. ASSUME installs'[r] = installs[r], failures' = failures + 1, NEW b, T \subseteq S \cup {b}
      PROVE  IsFiniteSet(T) /\ installs'[r] + Cardinality(T) <= 1 + failures'
  <2>1. IsFiniteSet(T) /\ Cardinality(T) <= Cardinality(S) + 1
    BY <1>0, <1>3, SetGrows
  <2> QED BY <1>0, <1>3, <2>1, FS_CardinalityType
<1>4. ASSUME installs'[r] = installs[r] + 1, NEW a \in S, T \subseteq S \ {a}
      PROVE  IsFiniteSet(T) /\ installs'[r] + Cardinality(T) <= 1 + failures'
  <2>1. IsFiniteSet(T) /\ Cardinality(T) + 1 <= Cardinality(S)
    BY <1>0, <1>4, SetShrinks
  <2> QED BY <1>0, <1>4, <2>1, FS_CardinalityType
<1> QED BY <1>1, <1>2, <1>3, <1>4 DEF Accounted

\* Who stays out of a step keeps its claims.
LEMMA ClaimsFramed ==
  ASSUME NEW r, release'[r].status \in {"absent", "unknown"} => release[r].status \in {"absent", "unknown"},
         Starters(r)' \subseteq Starters(r),
         workflow'[r].state = "active" /\ workflow'[r].worker = Null =>
            workflow[r].state = "active" /\ workflow[r].worker = Null,
         \A w \in Workers : execution'[w].release = r /\ MayInstall(w)' =>
            execution[w].release = r /\ MayInstall(w)
  PROVE  Claims(r)' \subseteq Claims(r)
BY DEF Claims

LEMMA ClaimStep == ASSUME TypeOK, ExecutionInv, ClaimInv, [Next]_vars PROVE ClaimInv'
<1> SUFFICES ASSUME NEW r \in Releases PROVE Accounted(r)
  BY FailuresCount, ClaimsAreKept
<1>0. /\ workflow \in [Releases -> Workflow] /\ execution \in [Workers -> Execution]
      /\ release \in [Releases -> Release] /\ starting \in [Callers -> Starting]
      /\ installs \in [Releases -> Nat] /\ failures \in Nat
      /\ \A w \in Workers : w # Null
  BY DeployNullAssumption, MaxFailuresAssumption DEF TypeOK, TargetTypeOK
<1>1. CASE UNCHANGED <<release, starting, workflow, execution, installs>>
  BY <1>1, ClaimsFramed DEF Starters, MayInstall, Accounted
<1>2. ASSUME NEW q \in Releases, NEW t \in Targets, NEW p \in Payloads, CreateRelease(q, t, p)
      PROVE  Accounted(r)
  <2>1. release'[r].status = release[r].status \/ release[r].status = "absent"
    BY <1>0, <1>2 DEF CreateRelease
  <2> QED BY <1>2, <2>1, ClaimsFramed DEF CreateRelease, Starters, MayInstall, Accounted
<1>3. ASSUME NEW h \in Callers, NEW q \in Releases, AcceptRelease(h, q) PROVE Accounted(r)
  <2>1. \A g \in Callers \ {h} : starting'[g] = starting[g]
    BY <1>0, <1>3 DEF AcceptRelease
  <2>2. starting[h].pc = "idle" /\ starting'[h].pc # "idle" /\ starting'[h].release = q
    BY <1>0, <1>3 DEF AcceptRelease
  <2>3. UNCHANGED <<workflow, execution, installs>> /\ release[q].status = "unknown"
    BY <1>3 DEF AcceptRelease
  <2>4. CASE r = q
    <3>1. release'[r].status = "wait"
      BY <1>0, <1>3, <2>4 DEF AcceptRelease, SetStatus, Release
    <3>2. Starters(r)' \subseteq Starters(r) \cup {h}
      BY <2>1 DEF Starters
    <3>3. <<"status", r>> \in Claims(r)
      BY <2>3, <2>4 DEF Claims
    <3>4. Claims(r)' \subseteq (Claims(r) \ {<<"status", r>>}) \cup {<<"caller", h>>}
      BY <2>3, <3>1, <3>2 DEF Claims, MayInstall
    <3> QED BY <2>3, <3>3, <3>4 DEF Accounted
  <2>5. CASE r # q
    <3>1. release'[r].status = release[r].status
      BY <1>0, <1>3, <2>5 DEF AcceptRelease, SetStatus
    <3>2. Starters(r)' = Starters(r)
      BY <2>1, <2>2, <2>5 DEF Starters
    <3> QED BY <2>3, <3>1, <3>2, ClaimsFramed DEF Accounted, MayInstall
  <2> QED BY <2>4, <2>5
<1>4. ASSUME NEW h \in Callers,
             StartWorkflow(h) \/ RevertRelease(h) \/ AbandonDeployHandler(h)
      PROVE  Accounted(r)
  <2> DEFINE q == starting[h].release
  <2>1. /\ q \in Releases /\ starting[h].pc # "idle"
        /\ UNCHANGED <<execution, installs>>
    BY <1>4 DEF StartWorkflow, RevertRelease, AbandonDeployHandler, TypeOK, Exists
  <2>2. /\ \A g \in Callers \ {h} : starting'[g] = starting[g]
        /\ starting'[h].pc = "idle" \/ starting'[h].release = q
    BY <1>0, <1>4 DEF StartWorkflow, RevertRelease, AbandonDeployHandler, NotStarting, Starting
  <2>3. Starters(r)' \subseteq Starters(r)
    BY <2>1, <2>2 DEF Starters
  <2>4. CASE (r # q \/ UNCHANGED release) /\ (r # q \/ UNCHANGED workflow)
    <3>1. release'[r].status = release[r].status /\ workflow'[r] = workflow[r]
      BY <1>0, <1>4, <2>4 DEF StartWorkflow, RevertRelease, AbandonDeployHandler, SetStatus,
                              NewInstance
    <3> QED BY <2>1, <2>3, <3>1, ClaimsFramed DEF Accounted, MayInstall
  <2>5. CASE r = q /\ ~UNCHANGED workflow
    <3>1. /\ UNCHANGED release
          /\ starting' = [starting EXCEPT ![h] = NotStarting] \/ failures' = failures + 1
      BY <1>4, <2>5 DEF StartWorkflow, RevertRelease, AbandonDeployHandler, Fail
    <3>2. Claims(r)' \subseteq Claims(r) \cup {<<"queue", r>>}
      BY <2>1, <2>3, <3>1 DEF Claims, MayInstall
    <3>3. CASE starting' = [starting EXCEPT ![h] = NotStarting]
      <4>1. h \in Starters(r) /\ h \notin Starters(r)'
        BY <1>0, <2>1, <2>5, <3>3 DEF Starters, NotStarting
      <4>2. <<"caller", h>> \in Claims(r)
        BY <4>1 DEF Claims
      <4>3. <<"caller", h>> \notin Claims(r)'
        BY <4>1 DEF Claims
      <4>4. Claims(r)' \subseteq (Claims(r) \ {<<"caller", h>>}) \cup {<<"queue", r>>}
        BY <3>2, <4>3
      <4> QED BY <2>1, <4>2, <4>4 DEF Accounted
    <3> QED BY <2>1, <3>1, <3>2, <3>3 DEF Accounted
  <2>6. CASE r = q /\ ~UNCHANGED release
    <3>1. UNCHANGED workflow /\ starting' = [starting EXCEPT ![h] = NotStarting]
      BY <1>4, <2>6 DEF StartWorkflow, RevertRelease, AbandonDeployHandler
    <3>2. Claims(r)' \subseteq Claims(r) \cup {<<"status", r>>}
      BY <2>1, <2>3, <3>1 DEF Claims, MayInstall
    <3>3. h \in Starters(r) /\ h \notin Starters(r)'
      BY <1>0, <2>1, <2>6, <3>1 DEF Starters, NotStarting
    <3>4. <<"caller", h>> \in Claims(r)
      BY <3>3 DEF Claims
    <3>5. <<"caller", h>> \notin Claims(r)'
      BY <3>3 DEF Claims
    <3>6. Claims(r)' \subseteq (Claims(r) \ {<<"caller", h>>}) \cup {<<"status", r>>}
      BY <3>2, <3>5
    <3> QED BY <2>1, <3>4, <3>6 DEF Accounted
  <2> QED BY <2>4, <2>5, <2>6
<1>5. ASSUME NEW w \in Workers, NEW q \in Releases, TakeTask(w, q) PROVE Accounted(r)
  <2>1. /\ workflow[q].state = "active" /\ workflow[q].worker = Null
        /\ workflow'[q].worker = w /\ \A u \in Releases : u # q => workflow'[u] = workflow[u]
    BY <1>0, <1>5 DEF TakeTask, Workflow
  <2>2. /\ execution'[w].release = q
        /\ \A v \in Workers \ {w} : execution'[v] = execution[v]
    BY <1>0, <1>5 DEF TakeTask, Executing
  <2>3. UNCHANGED <<release, starting, installs>>
    BY <1>5 DEF TakeTask
  <2>4. CASE r = q
    <3>1. <<"queue", r>> \in Claims(r)
      BY <2>1, <2>4 DEF Claims
    <3>2. Claims(r)' \subseteq (Claims(r) \ {<<"queue", r>>}) \cup {<<"worker", w>>}
      BY <1>0, <2>1, <2>2, <2>3, <2>4 DEF Claims, MayInstall, Starters
    <3> QED BY <2>3, <3>1, <3>2 DEF Accounted
  <2>5. CASE r # q
    BY <2>1, <2>2, <2>3, <2>5, ClaimsFramed DEF Starters, MayInstall, Accounted
  <2> QED BY <2>4, <2>5
<1>6. ASSUME NEW w \in Workers, ReportResult(w) \/ CrashWorker(w) PROVE Accounted(r)
  <2> DEFINE q == execution[w].release
  <2>1. /\ execution'[w].pc = "idle" /\ \A v \in Workers \ {w} : execution'[v] = execution[v]
        /\ execution[w].pc # "idle"
    BY <1>0, <1>6 DEF ReportResult, CrashWorker, NoExecution, Executing
  <2>2. UNCHANGED <<release, starting, installs>>
    BY <1>6 DEF ReportResult, CrashWorker
  <2>3. CASE workflow'[r] = workflow[r] \/ workflow'[r].state # "active"
    BY <2>1, <2>2, <2>3, ClaimsFramed DEF Starters, MayInstall, Accounted
  <2>4. CASE workflow'[r] # workflow[r] /\ workflow'[r].state = "active"
    <3>1. r = q /\ (failures' = failures + 1 \/ execution[w].failed = TRUE)
      BY <1>0, <1>6, <2>4 DEF ReportResult, CrashWorker, Fail, Execution
    <3>2. Claims(r)' \subseteq (Claims(r) \ {<<"worker", w>>}) \cup {<<"queue", r>>}
      BY <2>1, <2>2 DEF Claims, MayInstall, Starters
    <3>3. execution[w].failed = TRUE => <<"worker", w>> \in Claims(r)
      BY <2>1, <3>1 DEF Claims, MayInstall
    <3> QED BY <2>2, <3>1, <3>2, <3>3 DEF Accounted
  <2> QED BY <2>3, <2>4
<1>7. ASSUME NEW q \in Releases, RedeliverTask(q) PROVE Accounted(r)
  <2>1. UNCHANGED <<release, starting, execution, installs>> /\ failures' = failures + 1
    BY <1>7 DEF RedeliverTask, Fail
  <2>2. Claims(r)' \subseteq Claims(r) \cup {<<"queue", r>>}
    BY <2>1 DEF Claims, MayInstall, Starters
  <2> QED BY <2>1, <2>2 DEF Accounted
<1>8. ASSUME NEW w \in Workers,
             \/ LoadRelease(w) \/ AcquireLock(w) \/ PrepareArchive(w) \/ InstallOverSSH(w)
             \/ MarkDead(w) \/ MarkOnline(w) \/ MarkDeployed(w) \/ ReleaseLock(w)
      PROVE  Accounted(r)
  <2> DEFINE q == execution[w].release
  <2>1. PICK step, failed : Moved(w, step, failed) /\ Goes(w, step, failed)
    BY <1>8, ActivityMoves
  <2>2. UNCHANGED <<workflow, starting>>
    BY <1>8, ActivityMoves
  <2>3. release'[r].status \in {"absent", "unknown"} => release'[r].status = release[r].status
    BY <1>8, StatusOfActivity
  <2>4. CASE UNCHANGED installs /\ (MayInstall(w)' => MayInstall(w))
    BY <2>1, <2>2, <2>3, <2>4, ClaimsFramed DEF Moved, Starters, MayInstall, Accounted
  <2>5. CASE ~UNCHANGED installs
    <3>1. /\ execution[w].pc = "ssh" /\ installs' = [installs EXCEPT ![q] = @ + 1]
          /\ GoTo(w, "markOnline")
      BY <1>8, <2>5 DEF LoadRelease, AcquireLock, PrepareArchive, InstallOverSSH, MarkDead,
                        MarkOnline, MarkDeployed, ReleaseLock
    <3>2. step = "markOnline" /\ failed # TRUE
      BY <2>1, <3>1, GoToMoves DEF Moved, Goes, ExecutionInv
    <3>3. <<"worker", w>> \notin Claims(r)'
      BY <2>1, <3>2 DEF Claims, MayInstall, Moved
    <3>4. Claims(r)' \subseteq Claims(r)
      BY <2>1, <2>2, <2>3, <3>2, ClaimsFramed DEF Moved, Starters, MayInstall
    <3>5. CASE r = q
      <4>1. <<"worker", w>> \in Claims(r)
        BY <3>1, <3>5 DEF Claims, MayInstall
      <4>2. installs'[r] = installs[r] + 1
        BY <1>0, <3>1, <3>5
      <4> QED BY <3>3, <3>4, <4>1, <4>2 DEF Accounted
    <3>6. CASE r # q
      BY <1>0, <3>1, <3>4, <3>6 DEF Accounted
    <3> QED BY <3>5, <3>6
  <2>6. CASE UNCHANGED installs /\ MayInstall(w)' /\ ~MayInstall(w)
    <3>1. execution[w].pc = "markDeployed" /\ failed = TRUE /\ failed # execution[w].failed
      BY <2>1, <2>6 DEF MayInstall, Moved, Goes, ExecutionInv
    <3>2. MarkDeployed(w) /\ ~GoTo(w, "unlock")
      BY <1>8, <2>1, <3>1, GoToMoves
         DEF Moved, LoadRelease, AcquireLock, PrepareArchive, InstallOverSSH, MarkDead,
             MarkOnline, ReleaseLock
    <3>3. failures' = failures + 1
      BY <3>2 DEF MarkDeployed, Fail
    <3>4. Claims(r)' \subseteq Claims(r) \cup {<<"worker", w>>}
      BY <2>1, <2>2, <2>3 DEF Claims, MayInstall, Moved, Starters
    <3> QED BY <2>6, <3>3, <3>4 DEF Accounted
  <2> QED BY <2>4, <2>5, <2>6
<1> QED
  BY <1>1, <1>2, <1>3, <1>4, <1>5, <1>6, <1>7, <1>8
     DEF Next, TargetStep, BesideTheWorkers, PayloadNext, CreatePayload, UpdatePayload,
         DeletePayload, SetPayload, DeployHandlerStep, Tick, ActivityStep, vars, deployVars

LEMMA ClaimInit == Init => ClaimInv
<1> SUFFICES ASSUME Init, NEW r \in Releases
             PROVE  IsFiniteSet(Claims(r)) /\ installs[r] + Cardinality(Claims(r)) <= 1 + failures
  BY DEF ClaimInv
<1>1. /\ \A w \in Workers : ~MayInstall(w)
      /\ Starters(r) = {} /\ workflow[r].state = "none"
  BY DEF Init, NoExecution, Executing, MayInstall, Starters, NotStarting, NoWorkflow
<1>2. Claims(r) \subseteq {<<"status", r>>}
  BY <1>1 DEF Claims
<1>3. IsFiniteSet({<<"status", r>>}) /\ Cardinality({<<"status", r>>}) = 1
  BY FS_Singleton
<1>4. IsFiniteSet(Claims(r)) /\ Cardinality(Claims(r)) <= 1
  BY <1>2, <1>3, FS_Subset
<1>5. installs[r] = 0 /\ failures = 0 /\ Cardinality(Claims(r)) \in Nat
  BY <1>4, FS_CardinalityType DEF Init, TargetInit
<1> QED BY <1>4, <1>5

\* A release is installed once, and once more for every failure at most: retries,
\* redeliveries, lost replies and repeated calls never install it for free.
THEOREM InstallationsAreAccounted == Spec => []RepeatedInstallsArePaidFor
<1>1. ASSUME TypeOK, ClaimInv PROVE RepeatedInstallsArePaidFor
  <2> SUFFICES ASSUME NEW r \in Releases PROVE installs[r] <= 1 + failures
    BY DEF RepeatedInstallsArePaidFor
  <2>1. Cardinality(Claims(r)) \in Nat /\ installs[r] + Cardinality(Claims(r)) <= 1 + failures
    BY <1>1, FS_CardinalityType DEF ClaimInv
  <2>2. installs[r] \in Nat /\ failures \in Nat
    BY <1>1, MaxFailuresAssumption DEF TypeOK, TargetTypeOK
  <2> QED BY <2>1, <2>2
<1> QED BY <1>1, InitType, TypeStep, ExecutionInit, ExecutionStep, ClaimInit, ClaimStep, PTL DEF Spec

=============================================================================
