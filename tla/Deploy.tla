------------------------------- MODULE Deploy -------------------------------
(***************************************************************************)
(* Deployments of one tenant: the release handlers of the API server       *)
(* (internal/service/release.go), the Deploy workflow and its activity     *)
(* (internal/jobs/deploy.go), composed with the target handlers            *)
(* (TargetService) and the rows of the payloads.                           *)
(*                                                                         *)
(* Release.Deploy turns a release from unknown to wait and creates the     *)
(* workflow instance "deploy:<id>".  The workflow executes one activity,   *)
(* which takes the deploy lock of the target, installs the payload over    *)
(* SSH and turns the release to deployed or dead.  The API server and the  *)
(* workers share nothing but the database.                                 *)
(*                                                                         *)
(* The workflow engine (go-workflows) is external.  It runs one active     *)
(* instance per id, repeats an activity that returned an error until it    *)
(* was tried MaxAttempts times, and hands a task out again when the worker *)
(* that had it is gone, or is believed to be gone.                         *)
(***************************************************************************)
EXTENDS TargetService

CONSTANTS
    Releases,     \* ids of releases
    Payloads,     \* ids of payloads
    Callers,      \* goroutines of the API server that handle Release.Deploy
    Workers,      \* goroutines of the workers that execute activities
    MaxAttempts,  \* attempts at an activity before the workflow fails
    StaleAfter,   \* age, in clock ticks, at which a deploy lock may be taken over
    MaxClock      \* bound: last reading of the clock

ASSUME DeployNullAssumption == Null \notin Releases \cup Payloads \cup Workers
ASSUME MaxAttemptsAssumption == MaxAttempts \in Nat \ {0}
ASSUME StaleAfterAssumption == StaleAfter \in Nat
ASSUME MaxClockAssumption == MaxClock \in Nat

VARIABLES
    release,      \* the releases table
    payload,      \* the payloads table: what a row leads to
    starting,     \* what each handler of Release.Deploy is doing
    workflow,     \* the workflow instance "deploy:<id>" of each release
    execution,    \* what each worker is executing
    clock,        \* the clock the workers read
    installs,     \* history: successful installations of each release
    forfeited,    \* history: targets whose lock was taken from a worker that held it
    abandoned     \* history: releases whose Deploy handler stopped half way

deployVars == <<release, payload, starting, workflow, execution, clock,
                installs, forfeited, abandoned>>
vars == <<targetVars, deployVars>>

-----------------------------------------------------------------------------
(* The state *)

Release == [status  : {"absent", "unknown", "wait", "deployed", "dead"},
            target  : Targets \cup {Null},
            payload : Payloads \cup {Null}]

NoRelease == [status |-> "absent", target |-> Null, payload |-> Null]

Exists(r) == r \in Releases /\ release[r].status # "absent"

\* A payload is broken when its path leads to no archive that can be deployed.
PayloadState == {"absent", "usable", "broken", "deleted"}

Starting == [pc : {"idle", "start", "revert"}, release : Releases \cup {Null}]

NotStarting == [pc |-> "idle", release |-> Null]

\* worker is the one the engine gave the pending activity to, Null while the
\* activity is queued.  done and failed are the ways an instance finishes.
Workflow == [state    : {"none", "active", "done", "failed"},
             attempts : 0..MaxAttempts,
             worker   : Workers \cup {Null}]

NoWorkflow == [state |-> "none", attempts |-> 0, worker |-> Null]

\* usable, endpoint and now are the local copies of the activity: the payload
\* and the target as they were loaded, and the time read before the lock.
\* failed says that the activity is going to return an error.
Execution == [pc       : {"idle", "load", "lock", "storage", "ssh", "markDead",
                          "markOnline", "markDeployed", "unlock", "report"},
              release  : Releases \cup {Null},
              usable   : BOOLEAN,
              endpoint : Endpoints \cup {Null},
              now      : Int,
              failed   : BOOLEAN]

Executing(step, r) == [pc |-> step, release |-> r, usable |-> FALSE,
                       endpoint |-> Null, now |-> 0, failed |-> FALSE]

NoExecution == Executing("idle", Null)

TargetOf(w) == release[execution[w].release].target

\* The steps of the activity between the lock and the deferred unlock.
Locked == {"storage", "ssh", "markDead", "markOnline", "markDeployed", "unlock"}

Holders(t) == {w \in Workers : execution[w].pc \in Locked /\ TargetOf(w) = t}

LockOf(t) == <<target[t].deploying, target[t].deployingAt>>

SetStatus(r, s) == release' = [release EXCEPT ![r].status = s]

GoTo(w, step) == execution' = [execution EXCEPT ![w].pc = step]

FailAt(w, step) == execution' = [execution EXCEPT ![w].pc = step, ![w].failed = TRUE]

-----------------------------------------------------------------------------
(* Payloads: Create checks and stores the archive before it inserts the row, *)
(* Update writes whatever path and config it is given, Delete hides the row  *)
(* and leaves the object.                                                    *)

SetPayload(p, s) ==
    /\ payload' = [payload EXCEPT ![p] = s]
    /\ UNCHANGED <<targetVars, release, starting, workflow, execution, clock,
                   installs, forfeited, abandoned>>

CreatePayload(p) == payload[p] = "absent" /\ SetPayload(p, "usable")

UpdatePayload(p) ==
    /\ payload[p] \in {"usable", "broken"}
    /\ \E s \in {"usable", "broken"} : SetPayload(p, s)

DeletePayload(p) == payload[p] \in {"usable", "broken"} /\ SetPayload(p, "deleted")

-----------------------------------------------------------------------------
(* Release.Create *)

CreateRelease(r, t, p) ==
    /\ release[r].status = "absent"
    /\ Live(t)
    /\ payload[p] \in {"usable", "broken"}
    /\ release' = [release EXCEPT ![r] = [status |-> "unknown", target |-> t, payload |-> p]]
    /\ UNCHANGED <<targetVars, payload, starting, workflow, execution, clock,
                   installs, forfeited, abandoned>>

-----------------------------------------------------------------------------
(* Release.Deploy: one conditional UPDATE accepts the release, the instance  *)
(* is created, and if that fails another conditional UPDATE withdraws.       *)

\* Variants: the UPDATE excludes wait instead of asking for unknown; and it
\* creates a row where there is none.
AcceptAgain(h, r) ==
    /\ starting[h].pc = "idle"
    /\ release[r].status \notin {"absent", "wait"}
    /\ SetStatus(r, "wait")
    /\ starting' = [starting EXCEPT ![h] = [pc |-> "start", release |-> r]]
    /\ UNCHANGED <<targetVars, payload, workflow, execution, clock,
                   installs, forfeited, abandoned>>

AcceptAbsent(h, r) ==
    /\ starting[h].pc = "idle"
    /\ release[r].status \in {"absent", "unknown"}
    /\ SetStatus(r, "wait")
    /\ starting' = [starting EXCEPT ![h] = [pc |-> "start", release |-> r]]
    /\ UNCHANGED <<targetVars, payload, workflow, execution, clock,
                   installs, forfeited, abandoned>>

AcceptRelease(h, r) ==
    /\ starting[h].pc = "idle"
    /\ release[r].status = "unknown"
    /\ SetStatus(r, "wait")
    /\ starting' = [starting EXCEPT ![h] = [pc |-> "start", release |-> r]]
    /\ UNCHANGED <<targetVars, payload, workflow, execution, clock,
                   installs, forfeited, abandoned>>

NewInstance(r) ==
    workflow' = [workflow EXCEPT ![r] = [NoWorkflow EXCEPT !.state = "active"]]

\* Variant: an error of the engine is reported, and the release not withdrawn.
StartWithoutRevert(h) ==
    LET r == starting[h].release IN
    /\ starting[h].pc = "start"
    /\ \/ workflow[r].state # "active" /\ NewInstance(r) /\ UNCHANGED failures
       \/ Fail("backend") /\ UNCHANGED workflow
    /\ starting' = [starting EXCEPT ![h] = NotStarting]
    /\ UNCHANGED <<target, probing, handling, release, payload, execution, clock,
                   installs, forfeited, abandoned>>

\* CreateWorkflowInstance "deploy:<id>": the engine refuses an id whose
\* instance is active, and any error leads to the revert.
StartWorkflow(h) ==
    LET r == starting[h].release IN
    /\ starting[h].pc = "start"
    /\ \/ /\ workflow[r].state # "active"
          /\ NewInstance(r)
          /\ \/ starting' = [starting EXCEPT ![h] = NotStarting] /\ UNCHANGED failures
             \/ starting' = [starting EXCEPT ![h].pc = "revert"] /\ Fail("lostReply")
       \/ /\ \/ workflow[r].state = "active" /\ UNCHANGED failures
             \/ Fail("backend")
          /\ starting' = [starting EXCEPT ![h].pc = "revert"]
          /\ UNCHANGED workflow
    /\ UNCHANGED <<target, probing, handling, release, payload, execution, clock,
                   installs, forfeited, abandoned>>

\* Variant: the revert does not ask whether the release still waits.
RevertAlways(h) ==
    /\ starting[h].pc = "revert"
    /\ SetStatus(starting[h].release, "unknown")
    /\ starting' = [starting EXCEPT ![h] = NotStarting]
    /\ UNCHANGED <<targetVars, payload, workflow, execution, clock,
                   installs, forfeited, abandoned>>

RevertRelease(h) ==
    LET r == starting[h].release IN
    /\ starting[h].pc = "revert"
    /\ \/ /\ release[r].status = "wait"
          /\ SetStatus(r, "unknown")
          /\ UNCHANGED <<failures, abandoned>>
       \/ /\ release[r].status # "wait"
          /\ UNCHANGED <<release, failures, abandoned>>
       \/ /\ Fail("db")
          /\ abandoned' = abandoned \cup {r}
          /\ UNCHANGED release
    /\ starting' = [starting EXCEPT ![h] = NotStarting]
    /\ UNCHANGED <<target, probing, handling, payload, workflow, execution, clock,
                   installs, forfeited>>

\* The handler returns because it cannot open the jobs backend, or the API
\* server stops: in both cases the release stays as it is.
AbandonDeployHandler(h) ==
    /\ \/ starting[h].pc = "start" /\ Fail("backend")
       \/ starting[h].pc # "idle" /\ Fail("apiCrash")
    /\ abandoned' = abandoned \cup {starting[h].release}
    /\ starting' = [starting EXCEPT ![h] = NotStarting]
    /\ UNCHANGED <<target, probing, handling, release, payload, workflow, execution,
                   clock, installs, forfeited>>

-----------------------------------------------------------------------------
(* The engine (external) *)

\* A free worker takes the queued activity of the instance of r.
TakeTask(w, r) ==
    /\ execution[w].pc = "idle"
    /\ workflow[r].state = "active"
    /\ workflow[r].worker = Null
    /\ workflow' = [workflow EXCEPT ![r].worker = w]
    /\ execution' = [execution EXCEPT ![w] = Executing("load", r)]
    /\ UNCHANGED <<targetVars, release, payload, starting, clock,
                   installs, forfeited, abandoned>>

\* The result counts only while the task still belongs to the worker.
ReportResult(w) ==
    LET r == execution[w].release
        tries == workflow[r].attempts + 1
    IN
    /\ execution[w].pc = "report"
    /\ workflow' = IF workflow[r].worker # w
                   THEN workflow
                   ELSE [workflow EXCEPT ![r] =
                           [state    |-> IF ~execution[w].failed THEN "done"
                                         ELSE IF tries < MaxAttempts THEN "active" ELSE "failed",
                            attempts |-> tries,
                            worker   |-> Null]]
    /\ execution' = [execution EXCEPT ![w] = NoExecution]
    /\ UNCHANGED <<targetVars, release, payload, starting, clock,
                   installs, forfeited, abandoned>>

\* A worker stops: the deferred unlock does not run, and the task is handed
\* out again without counting as an attempt.
CrashWorker(w) ==
    LET r == execution[w].release IN
    /\ execution[w].pc # "idle"
    /\ Fail("workerCrash")
    /\ execution' = [execution EXCEPT ![w] = NoExecution]
    /\ workflow' = IF workflow[r].worker = w
                   THEN [workflow EXCEPT ![r].worker = Null] ELSE workflow
    /\ UNCHANGED <<target, probing, handling, release, payload, starting, clock,
                   installs, forfeited, abandoned>>

\* The engine takes a slow worker for a dead one, which goes on.
RedeliverTask(r) ==
    /\ workflow[r].worker # Null
    /\ Fail("redelivery")
    /\ workflow' = [workflow EXCEPT ![r].worker = Null]
    /\ UNCHANGED <<target, probing, handling, release, payload, starting, execution,
                   clock, installs, forfeited, abandoned>>

Tick ==
    /\ clock < MaxClock
    /\ clock' = clock + 1
    /\ UNCHANGED <<targetVars, release, payload, starting, workflow, execution,
                   installs, forfeited, abandoned>>

-----------------------------------------------------------------------------
(* DeployActivity *)

\* The rows are loaded.  A release that does not wait needs nothing; a target
\* or a payload that is gone is an error.  The reads are one step: the columns
\* of the release it uses besides the status never change.
LoadRelease(w) ==
    LET r == execution[w].release
        found == Live(release[r].target) /\ payload[release[r].payload] \in {"usable", "broken"}
    IN
    /\ execution[w].pc = "load"
    /\ \/ /\ release[r].status # "wait"
          /\ GoTo(w, "report")
          /\ UNCHANGED failures
       \/ /\ release[r].status = "wait"
          /\ found
          /\ execution' = [execution EXCEPT ![w] =
                [@ EXCEPT !.pc = "lock", !.now = clock,
                          !.endpoint = target[release[r].target].endpoint,
                          !.usable = payload[release[r].payload] = "usable"]]
          /\ UNCHANGED failures
       \/ /\ release[r].status = "wait"
          /\ ~found
          /\ FailAt(w, "report")
          /\ UNCHANGED failures
       \/ Fail("db") /\ FailAt(w, "report")
    /\ UNCHANGED <<target, probing, handling, release, payload, starting, workflow,
                   clock, installs, forfeited, abandoned>>

\* Variant: the age of a lock is compared with now instead of the limit.
MayLockOlder(t, now) ==
    /\ Live(t)
    /\ \/ ~target[t].deploying
       \/ target[t].deployingAt # Null /\ target[t].deployingAt < now

\* The conditional UPDATE that takes the lock of a live target.
MayLock(t, now) ==
    /\ Live(t)
    /\ \/ ~target[t].deploying
       \/ target[t].deployingAt # Null /\ target[t].deployingAt < now - StaleAfter

\* A worker that holds the lock longer than StaleAfter forfeits it.
TakeLock(t, now) ==
    /\ target' = [target EXCEPT ![t].deploying = TRUE, ![t].deployingAt = now]
    /\ forfeited' = IF \E v \in Holders(t) : execution[v].now < now - StaleAfter
                    THEN forfeited \cup {t} ELSE forfeited

\* Variant: the activity waits for the lock.
WaitForLock(w) ==
    /\ execution[w].pc = "lock"
    /\ MayLock(TargetOf(w), execution[w].now)
    /\ TakeLock(TargetOf(w), execution[w].now)
    /\ GoTo(w, "storage")
    /\ UNCHANGED <<probing, handling, failures, release, payload, starting, workflow,
                   clock, installs, abandoned>>

\* When no row is affected the activity fails; when the statement reports an
\* error, whether it took effect or not, the unlock is not deferred yet.
AcquireLock(w) ==
    LET t == TargetOf(w)
        now == execution[w].now
    IN
    /\ execution[w].pc = "lock"
    /\ \/ /\ MayLock(t, now)
          /\ TakeLock(t, now)
          /\ \/ GoTo(w, "storage") /\ UNCHANGED failures
             \/ FailAt(w, "report") /\ Fail("db")
       \/ /\ FailAt(w, "report")
          /\ \/ ~MayLock(t, now) /\ UNCHANGED failures
             \/ Fail("db")
          /\ UNCHANGED <<target, forfeited>>
    /\ UNCHANGED <<probing, handling, release, payload, starting, workflow, clock,
                   installs, abandoned>>

\* Variant: the unlock is deferred after the archive is prepared.
PrepareBeforeDefer(w) ==
    /\ execution[w].pc = "storage"
    /\ IF execution[w].usable THEN GoTo(w, "ssh") ELSE FailAt(w, "report")
    /\ UNCHANGED <<targetVars, release, payload, starting, workflow,
                   clock, installs, forfeited, abandoned>>

\* Download, inject, upload.
PrepareArchive(w) ==
    /\ execution[w].pc = "storage"
    /\ \/ execution[w].usable /\ GoTo(w, "ssh") /\ UNCHANGED failures
       \/ ~execution[w].usable /\ FailAt(w, "unlock") /\ UNCHANGED failures
       \/ FailAt(w, "unlock") /\ Fail("storage")
    /\ UNCHANGED <<target, probing, handling, release, payload, starting, workflow,
                   clock, installs, forfeited, abandoned>>

\* Variant: the error of the installation is dropped.
InstallIgnoringErrors(w) ==
    /\ execution[w].pc = "ssh"
    /\ GoTo(w, "markOnline")
    /\ \/ /\ installs' = [installs EXCEPT ![execution[w].release] = @ + 1]
          /\ UNCHANGED failures
       \/ Fail("ssh") /\ UNCHANGED installs
    /\ UNCHANGED <<target, probing, handling, release, payload, starting, workflow,
                   clock, forfeited, abandoned>>

\* infra.Deploy, on the endpoint that was loaded.  It may also never return: the
\* handshake and the commands of the client are waited for without a limit
\* (infra/ssh.go:42, 114).  The worker then stays at "ssh", and holds the lock
\* until somebody takes it over; nothing makes this step happen (see Fairness).
InstallOverSSH(w) ==
    /\ execution[w].pc = "ssh"
    /\ \/ /\ GoTo(w, "markOnline")
          /\ installs' = [installs EXCEPT ![execution[w].release] = @ + 1]
          /\ UNCHANGED failures
       \/ /\ FailAt(w, "markDead")
          /\ Fail("ssh")
          /\ UNCHANGED installs
    /\ UNCHANGED <<target, probing, handling, release, payload, starting, workflow,
                   clock, forfeited, abandoned>>

\* Variant: = where the condition on the status has <>.
MarkDeadAgain(w) ==
    /\ execution[w].pc = "markDead"
    /\ GoTo(w, "unlock")
    /\ UNCHANGED <<targetVars, release, payload, starting, workflow, clock,
                   installs, forfeited, abandoned>>

\* Whatever the status of the release is by now, it is dead; an error of the
\* statement is only logged.
MarkDead(w) ==
    /\ execution[w].pc = "markDead"
    /\ \/ SetStatus(execution[w].release, "dead") /\ UNCHANGED failures
       \/ Fail("db") /\ UNCHANGED release
    /\ GoTo(w, "unlock")
    /\ UNCHANGED <<target, probing, handling, payload, starting, workflow, clock,
                   installs, forfeited, abandoned>>

MarkOnline(w) ==
    LET t == TargetOf(w) IN
    /\ execution[w].pc = "markOnline"
    /\ \/ Live(t) /\ target' = [target EXCEPT ![t].status = "online"] /\ UNCHANGED failures
       \/ ~Live(t) /\ UNCHANGED <<target, failures>>
       \/ Fail("db") /\ UNCHANGED target
    /\ GoTo(w, "markDeployed")
    /\ UNCHANGED <<probing, handling, release, payload, starting, workflow, clock,
                   installs, forfeited, abandoned>>

\* Only a release that still waits becomes deployed; an error of the statement,
\* whether it took effect or not, is the result of the activity.
MarkDeployed(w) ==
    LET r == execution[w].release IN
    /\ execution[w].pc = "markDeployed"
    /\ \/ /\ release[r].status = "wait"
          /\ SetStatus(r, "deployed")
          /\ \/ GoTo(w, "unlock") /\ UNCHANGED failures
             \/ FailAt(w, "unlock") /\ Fail("db")
       \/ /\ release[r].status # "wait"
          /\ GoTo(w, "unlock")
          /\ UNCHANGED <<release, failures>>
       \/ Fail("db") /\ FailAt(w, "unlock") /\ UNCHANGED release
    /\ UNCHANGED <<target, probing, handling, payload, starting, workflow, clock,
                   installs, forfeited, abandoned>>

\* The deferred unlock does not ask whose lock it clears.
ReleaseLock(w) ==
    LET t == TargetOf(w) IN
    /\ execution[w].pc = "unlock"
    /\ \/ /\ Live(t)
          /\ target' = [target EXCEPT ![t].deploying = FALSE, ![t].deployingAt = Null]
          /\ UNCHANGED failures
       \/ ~Live(t) /\ UNCHANGED <<target, failures>>
       \/ Fail("db") /\ UNCHANGED target
    /\ GoTo(w, "report")
    /\ UNCHANGED <<probing, handling, release, payload, starting, workflow, clock,
                   installs, forfeited, abandoned>>

-----------------------------------------------------------------------------
\* What a step of the target handlers means here: an Update that undoes itself
\* and rewrites the lock of a target takes it from the worker that holds it.
BesideTheWorkers ==
    /\ forfeited' = forfeited \cup
          {t \in Targets : /\ \E h \in Handlers : handling[h].pc = "revert" /\ handling[h].target = t
                           /\ LockOf(t)' # LockOf(t)
                           /\ Holders(t) # {}}
    /\ UNCHANGED <<release, payload, starting, workflow, execution, clock,
                   installs, abandoned>>

TargetStep == TargetNext /\ BesideTheWorkers

Init ==
    /\ TargetInit
    /\ release = [r \in Releases |-> NoRelease]
    /\ payload = [p \in Payloads |-> "absent"]
    /\ starting = [h \in Callers |-> NotStarting]
    /\ workflow = [r \in Releases |-> NoWorkflow]
    /\ execution = [w \in Workers |-> NoExecution]
    /\ clock = 0
    /\ installs = [r \in Releases |-> 0]
    /\ forfeited = {}
    /\ abandoned = {}

PayloadNext ==
    \E p \in Payloads : CreatePayload(p) \/ UpdatePayload(p) \/ DeletePayload(p)

ActivityStep(w) ==
    \/ LoadRelease(w) \/ AcquireLock(w) \/ PrepareArchive(w) \/ InstallOverSSH(w)
    \/ MarkDead(w) \/ MarkOnline(w) \/ MarkDeployed(w) \/ ReleaseLock(w)
    \/ ReportResult(w)

DeployHandlerStep(h) == StartWorkflow(h) \/ RevertRelease(h)

Next ==
    \/ TargetStep
    \/ PayloadNext
    \/ \E r \in Releases :
          \/ \E t \in Targets, p \in Payloads : CreateRelease(r, t, p)
          \/ \E h \in Callers : AcceptRelease(h, r)
          \/ \E w \in Workers : TakeTask(w, r)
          \/ RedeliverTask(r)
    \/ \E h \in Callers : DeployHandlerStep(h) \/ AbandonDeployHandler(h)
    \/ \E w \in Workers : ActivityStep(w) \/ CrashWorker(w)
    \/ Tick

Spec == Init /\ [][Next]_vars

\* A handler and a worker that have begun go on, and the engine polls: a queued
\* activity is taken if again and again a worker is free.  Clients, failures
\* and the clock owe nothing, and neither does an SSH session.
Fairness ==
    /\ \A h \in Handlers : WF_vars(TargetHandlerStep(h) /\ BesideTheWorkers)
    /\ \A h \in Callers : WF_vars(DeployHandlerStep(h))
    /\ \A w \in Workers : WF_vars(ActivityStep(w) /\ execution[w].pc # "ssh")
    /\ \A r \in Releases : SF_vars(\E w \in Workers : TakeTask(w, r))

FairSpec == Spec /\ Fairness

-----------------------------------------------------------------------------
(* Properties *)

\* Every variable keeps its type, and a handler or a worker that is busy is
\* busy with something that exists (models/release.go, models/target.go).
TypeOK ==
    /\ TargetTypeOK
    /\ release \in [Releases -> Release]
    /\ payload \in [Payloads -> PayloadState]
    /\ starting \in [Callers -> Starting]
    /\ workflow \in [Releases -> Workflow]
    /\ execution \in [Workers -> Execution]
    /\ clock \in 0..MaxClock
    /\ installs \in [Releases -> Nat]
    /\ forfeited \subseteq Targets
    /\ abandoned \subseteq Releases
    /\ \A r \in Releases : Exists(r) => release[r].target \in Targets /\ release[r].payload \in Payloads
    /\ \A r \in Releases :
          /\ workflow[r].state # "none" => Exists(r)
          /\ workflow[r].state = "active" => workflow[r].attempts < MaxAttempts
          /\ workflow[r].worker # Null => workflow[r].state = "active"
    /\ \A h \in Callers : starting[h].pc # "idle" => Exists(starting[h].release)
    /\ \A w \in Workers : execution[w].pc # "idle" => Exists(execution[w].release)

\* The deploy lock (jobs/deploy.go:86-101) excludes: two workers are between
\* the lock and the unlock of one target only after a worker held the lock for
\* more than StaleAfter, or after a Target.Update that undid itself rewrote it.
LockExcludes ==
    \A t \in Targets \ forfeited : \A v, w \in Holders(t) : v = w

\* A lock that nobody holds any more delays every deployment of the target by
\* StaleAfter; it is only left behind when something failed.
NoOrphanLock ==
    \A t \in Targets : Live(t) /\ target[t].deploying /\ Holders(t) = {} => failures > 0

\* Only a successful installation makes a release deployed, although the status
\* is written in another step, another attempt and perhaps another worker.
DeployedIsInstalled ==
    \A r \in Releases : release[r].status = "deployed" => installs[r] > 0

\* Every repeated installation of a release is paid for by a failure: retries,
\* redeliveries and new instances install once more only after one.
RepeatedInstallsArePaidFor ==
    \A r \in Releases : installs[r] <= 1 + failures

\* A release that waits is somebody's: of the handler that accepted it, of an
\* active workflow, or of one that ended in an error.  Otherwise its handler
\* stopped half way, which is the only other way to be left waiting.
WaitHasOwner ==
    \A r \in Releases : release[r].status = "wait" =>
       \/ \E h \in Callers : starting[h].pc # "idle" /\ starting[h].release = r
       \/ workflow[r].state \in {"active", "failed"}
       \/ r \in abandoned

\* The statuses follow the lifecycle of ReleaseLifecycle.  A failed installation
\* overwrites unknown only after the reply that created its workflow was lost,
\* and deployed only after its activity was handed out twice
\* (jobs/deploy.go:137-139 excludes no status but dead).
Lifecycle == INSTANCE ReleaseLifecycle WITH
    status <- [r \in Releases |-> release[r].status],
    Overwritable <- {s \in {"unknown", "deployed"} :
                       IF s = "unknown" THEN "lostReply" \in Faults
                                        ELSE "redelivery" \in Faults}

FollowsLifecycle == Lifecycle!Spec

\* Every workflow instance finishes, whatever fails a bounded number of times:
\* an attempt that a crash swallowed is repeated, attempts are bounded.  The one
\* thing that keeps an instance for ever is a session that never returns
\* (infra/ssh.go:42, 114): that of the worker that has it, or one on every worker.
EveryInstanceFinishes ==
    \A r \in Releases : <>[](workflow[r].state = "active") =>
       \/ \E w \in Workers : <>[](workflow[r].worker = w /\ execution[w].pc = "ssh")
       \/ \A w \in Workers : <>[](execution[w].pc = "ssh")

SessionsReturn == \A w \in Workers : []<>(execution[w].pc # "ssh")

\* Where sessions return, a release whose workflow begins is decided, unless a row
\* it needs goes away or its payload is replaced by one that cannot be deployed:
\* the error "target is locked, will retry" (jobs/deploy.go:93) promises as much
\* when another release holds the lock, and the tests wait for it
\* (test/release_test.go:84-95).
StartedDeployIsDecided ==
    SessionsReturn =>
       \A r \in Releases :
          (release[r].status = "wait" /\ workflow[r] = [NoWorkflow EXCEPT !.state = "active"])
          ~> \/ release[r].status # "wait"
             \/ ~Live(release[r].target)
             \/ payload[release[r].payload] # "usable"

=============================================================================
