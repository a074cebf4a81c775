----------------------------- MODULE ProbeProofs -----------------------------
(***************************************************************************)
(* Theorems about Probe, for every set of targets, endpoints and handlers  *)
(* and every bound.                                                        *)
(***************************************************************************)
EXTENDS Probe, TargetProofs, TLAPS

-----------------------------------------------------------------------------
(* Type correctness *)

\* The engine tries an activity again as often as it may.
LEMMA ActivityFailsType ==
  ASSUME TypeOK, NEW t \in Targets, t \in probing, ActivityFails(t)
  PROVE  /\ probe' \in [Targets -> Activity]
         /\ probing' \subseteq probing
         /\ failures' \in 0..MaxFailures
         /\ \A u \in Targets \ probing' : probe'[u] = NoActivity
<1>1. failures' \in 0..MaxFailures
  BY FailureType DEF TypeOK, TargetTypeOK, ActivityFails
<1>2. CASE /\ probe[t].attempts + 1 < MaxAttempts
           /\ probe' = [probe EXCEPT ![t] = [NoActivity EXCEPT !.attempts = probe[t].attempts + 1]]
           /\ UNCHANGED probing
  <2>1. [NoActivity EXCEPT !.attempts = probe[t].attempts + 1] \in Activity
    BY <1>2, MaxAttemptsAssumption DEF TypeOK, Activity, NoActivity
  <2> QED BY <1>1, <1>2, <2>1 DEF TypeOK
<1>3. CASE /\ probe' = [probe EXCEPT ![t] = NoActivity]
           /\ probing' = probing \ {t}
  BY <1>1, <1>3, MaxAttemptsAssumption DEF TypeOK, Activity, NoActivity
<1> QED BY <1>2, <1>3 DEF ActivityFails

LEMMA SleepType ==
  ASSUME TypeOK, NEW t \in Targets, t \in probing, Sleep(t)
  PROVE  /\ probe' \in [Targets -> Activity]
         /\ \A u \in Targets \ probing : probe'[u] = NoActivity
<1>1. [NoActivity EXCEPT !.pc = "sleep"] \in Activity
  BY MaxAttemptsAssumption DEF Activity, NoActivity
<1> QED BY <1>1 DEF TypeOK, Sleep

LEMMA TypeStep == ASSUME TypeOK, [Next]_vars PROVE TypeOK'
<1>0. /\ target \in [Targets -> TargetRow] /\ probe \in [Targets -> Activity]
      /\ probing \subseteq Targets
      /\ \A t \in Targets : probe[t].pc # "load" => t \in probing
  BY DEF TypeOK, TargetTypeOK, NoActivity
<1>1. CASE TargetNext /\ UNCHANGED probeVars
  <2>1. TargetTypeOK'
    BY <1>1, TargetTypeStep DEF TypeOK
  <2>2. probing \subseteq probing'
    BY <1>1 DEF TargetNext, TargetHandlerStep, CreateTarget, LoadPreviousTarget, EnqueueNewTarget,
                UndoCreateTarget, WriteTarget, EnqueueTarget, RevertTarget, DeleteTarget,
                AbandonTargetHandler, EnqueueSucceeds, EnqueueFails
  <2> QED BY <1>1, <2>1, <2>2 DEF TypeOK, probeVars
<1>2. ASSUME NEW t \in Targets, LoadTarget(t) PROVE TypeOK'
  <2>1. CASE Live(t) /\ UNCHANGED <<failures, probing>>
             /\ probe' = [probe EXCEPT ![t].pc = "ping", ![t].endpoint = target[t].endpoint]
    <3>1. probe' = [probe EXCEPT ![t] = [probe[t] EXCEPT !.pc = "ping", !.endpoint = target[t].endpoint]]
      BY <2>1
    <3>2. [probe[t] EXCEPT !.pc = "ping", !.endpoint = target[t].endpoint] \in Activity
      BY <1>0 DEF Activity, TargetRow
    <3> QED BY <1>2, <2>1, <3>1, <3>2 DEF LoadTarget, TypeOK, TargetTypeOK
  <2>2. CASE Sleep(t) /\ UNCHANGED <<failures, probing>>
    BY <1>2, <2>2, SleepType DEF LoadTarget, TypeOK, TargetTypeOK
  <2>3. CASE ActivityFails(t)
    BY <1>2, <2>3, ActivityFailsType DEF LoadTarget, TypeOK, TargetTypeOK
  <2> QED BY <1>2, <2>1, <2>2, <2>3 DEF LoadTarget
<1>3. ASSUME NEW t \in Targets, Ping(t) PROVE TypeOK'
  <2>1. probe' = [probe EXCEPT ![t] = [probe[t] EXCEPT !.pc = "write", !.outcome = StatusOf(probe[t].endpoint)]]
    BY <1>3 DEF Ping
  <2>2. [probe[t] EXCEPT !.pc = "write", !.outcome = StatusOf(probe[t].endpoint)] \in Activity
    BY <1>0 DEF Activity, StatusOf
  <2>3. t \in probing
    BY <1>0, <1>3 DEF Ping
  <2> QED BY <1>0, <1>3, <2>1, <2>2, <2>3 DEF Ping, TypeOK, TargetTypeOK, targetVars
<1>4. ASSUME NEW t \in Targets, WriteStatus(t) PROVE TypeOK'
  <2>0. t \in probing
    BY <1>0, <1>4 DEF WriteStatus
  <2>1. CASE Sleep(t) /\ UNCHANGED <<failures, probing>>
    <3>1. target' \in [Targets -> TargetRow]
      BY <1>0, <1>4, <2>1 DEF WriteStatus, TargetRow, Activity
    <3> QED BY <1>4, <2>0, <2>1, <3>1, SleepType DEF WriteStatus, TypeOK, TargetTypeOK
  <2>2. CASE ActivityFails(t) /\ UNCHANGED target
    BY <1>4, <2>0, <2>2, ActivityFailsType DEF WriteStatus, TypeOK, TargetTypeOK
  <2> QED BY <1>4, <2>1, <2>2 DEF WriteStatus
<1>5. ASSUME NEW t \in Targets, WakeUp(t) PROVE TypeOK'
  BY <1>0, <1>5, MaxAttemptsAssumption
     DEF WakeUp, TypeOK, TargetTypeOK, targetVars, Activity, NoActivity
<1>6. ASSUME NEW t \in Targets, CrashProbe(t) PROVE TypeOK'
  <2>1. [NoActivity EXCEPT !.attempts = probe[t].attempts] \in Activity /\ t \in probing
    BY <1>0, <1>6 DEF CrashProbe, Activity, NoActivity
  <2> QED BY <1>0, <1>6, <2>1, FailureType DEF CrashProbe, TypeOK, TargetTypeOK
<1>7. ASSUME NEW t \in Targets, DeploymentMarksOnline(t) PROVE TypeOK'
  <2>1. target' \in [Targets -> TargetRow]
    BY <1>0, <1>7 DEF DeploymentMarksOnline, TargetRow
  <2> QED BY <1>7, <2>1, MaxEventsAssumption DEF DeploymentMarksOnline, Event, TypeOK, TargetTypeOK
<1>8. ASSUME NEW e \in Endpoints, HostChanges(e) PROVE TypeOK'
  BY <1>8, MaxEventsAssumption DEF HostChanges, Event, TypeOK, TargetTypeOK, targetVars
<1>9. CASE UNCHANGED vars
  BY <1>9 DEF vars, targetVars, probeVars, TypeOK, TargetTypeOK
<1> QED
  BY <1>1, <1>2, <1>3, <1>4, <1>5, <1>6, <1>7, <1>8, <1>9 DEF Next, ProbeStep

LEMMA InitType == Init => TypeOK
BY MaxFailuresAssumption, MaxEventsAssumption, MaxAttemptsAssumption
   DEF Init, TargetInit, TypeOK, TargetTypeOK, TargetRow, NoTarget, Handling, Idle, Activity,
       NoActivity

\* The rows, the local copies of the handlers and the activities of the probes
\* always have their types, and only targets that are probed have an activity.
THEOREM TypeCorrect == Spec => []TypeOK
BY InitType, TypeStep, PTL DEF Spec

-----------------------------------------------------------------------------
(* Every live target is probed *)

\* t is probed, or the handler that creates it goes on.
Probed(t) ==
    \/ t \in probing
    \/ \E h \in Handlers : handling[h].target = t /\ handling[h].pc \in {"enqueueNew", "undoCreate"}

LEMMA ProbedStep ==
  ASSUME TypeOK, LiveTargetIsProbed, [Next]_vars, Faults \cap {"db", "apiCrash"} = {}
  PROVE  LiveTargetIsProbed'
<1> SUFFICES ASSUME NEW t \in Targets, Live(t)' PROVE Probed(t)'
  BY DEF LiveTargetIsProbed, Probed, Live
<1>0. /\ target \in [Targets -> TargetRow] /\ handling \in [Handlers -> Handling]
      /\ Live(t) => Probed(t)
      /\ ~Fail("db") /\ ~Fail("apiCrash")
  BY DEF TypeOK, TargetTypeOK, LiveTargetIsProbed, Probed, Fail
<1>1. CASE UNCHANGED <<handling, probing>> /\ target'[t].row = target[t].row
  BY <1>0, <1>1 DEF Probed, Live
<1>2. ASSUME NEW h \in Handlers, NEW u \in Targets, NEW e \in Endpoints, CreateTarget(h, u, e)
      PROVE  Probed(t)'
  <2>1. handling' = [handling EXCEPT ![h] = [Idle EXCEPT !.pc = "enqueueNew", !.target = u]]
    BY <1>2 DEF CreateTarget
  <2>2. handling'[h].pc = "enqueueNew" /\ handling'[h].target = u
    BY <1>0, <2>1 DEF Idle
  <2>3. \A g \in Handlers \ {h} : handling'[g] = handling[g]
    BY <1>0, <2>1
  <2>4. u # t => target'[t] = target[t] /\ handling[h].pc = "idle" /\ UNCHANGED probing
    BY <1>0, <1>2 DEF CreateTarget
  <2> QED BY <1>0, <2>2, <2>3, <2>4 DEF Probed, Live
<1>3. ASSUME NEW h \in Handlers, NEW u \in Targets, LoadPreviousTarget(h, u) PROVE Probed(t)'
  BY <1>0, <1>3 DEF LoadPreviousTarget, Probed, Live
<1>4. ASSUME NEW h \in Handlers, EnqueueNewTarget(h) PROVE Probed(t)'
  <2>1. Live(t) /\ UNCHANGED target
    BY <1>4 DEF EnqueueNewTarget, Live
  <2>2. \/ handling[h].target \in probing'
        \/ handling' = [handling EXCEPT ![h].pc = "undoCreate"] /\ UNCHANGED probing
    BY <1>4 DEF EnqueueNewTarget, EnqueueSucceeds, EnqueueFails
  <2>3. /\ probing \subseteq probing'
        /\ \A g \in Handlers \ {h} : handling'[g] = handling[g]
    BY <1>0, <1>4 DEF EnqueueNewTarget, EnqueueSucceeds, EnqueueFails
  <2> QED BY <1>0, <2>1, <2>2, <2>3 DEF Probed, Handling
<1>5. ASSUME NEW h \in Handlers, UndoCreateTarget(h) PROVE Probed(t)'
  <2>1. target' = [target EXCEPT ![handling[h].target].row = "deleted"]
    BY <1>0, <1>5 DEF UndoCreateTarget
  <2>2. handling[h].target # t /\ Live(t)
    BY <1>0, <2>1 DEF Live, TargetRow
  <2> QED BY <1>0, <1>5, <2>2 DEF UndoCreateTarget, Probed
<1>6. ASSUME NEW h \in Handlers,
             (\E e \in Endpoints : WriteTarget(h, e)) \/ EnqueueTarget(h) \/ RevertTarget(h)
      PROVE  Probed(t)'
  <2>1. /\ handling[h].pc \in {"write", "enqueue", "revert"}
        /\ \A g \in Handlers \ {h} : handling'[g] = handling[g]
        /\ probing \subseteq probing'
    BY <1>0, <1>6 DEF WriteTarget, EnqueueTarget, RevertTarget, EnqueueSucceeds, EnqueueFails
  <2>2. Live(t)
    BY <1>0, <1>6 DEF WriteTarget, EnqueueTarget, RevertTarget, Live, TargetRow
  <2> QED BY <1>0, <2>1, <2>2 DEF Probed
<1>7. ASSUME NEW u \in Targets, DeleteTarget(u) PROVE Probed(t)'
  <2>1. Live(t)
    BY <1>0, <1>7 DEF DeleteTarget, Live, TargetRow
  <2> QED BY <1>0, <1>7, <2>1 DEF DeleteTarget, Probed
<1>8. ASSUME NEW u \in Targets, ProbeStep(u) \/ CrashProbe(u) \/ DeploymentMarksOnline(u)
      PROVE  Probed(t)'
  <2>1. ~ActivityFails(u)
    BY <1>0 DEF ActivityFails
  <2>2. UNCHANGED <<handling, probing>>
    BY <1>8, <2>1 DEF ProbeStep, LoadTarget, Ping, WriteStatus, WakeUp, CrashProbe,
                      DeploymentMarksOnline, targetVars
  <2>3. target'[t].row = target[t].row
    <3>1. \/ UNCHANGED target
          \/ target' = [target EXCEPT ![u].status = probe[u].outcome]
          \/ target' = [target EXCEPT ![u].status = "online"]
      BY <1>8 DEF ProbeStep, LoadTarget, Ping, WriteStatus, WakeUp, CrashProbe,
                  DeploymentMarksOnline, targetVars
    <3> QED BY <1>0, <3>1 DEF TargetRow
  <2> QED BY <1>1, <2>2, <2>3
<1>9. ASSUME NEW h \in Handlers, AbandonTargetHandler(h) PROVE FALSE
  BY <1>0, <1>9 DEF AbandonTargetHandler
<1> QED
  BY <1>1, <1>2, <1>3, <1>4, <1>5, <1>6, <1>7, <1>8, <1>9
     DEF Next, TargetNext, TargetHandlerStep, HostChanges, vars, targetVars

\* Unless the API server stops half way or the database refuses a statement, a
\* target that clients can see is probed, or its Create has not returned yet: no
\* interleaving of Create, Update and Delete, no refused enqueue and no lost reply
\* leaves one without its probe (service/target.go:27-52, 73-146).
THEOREM LiveTargetsAreProbed ==
  ASSUME Faults \cap {"db", "apiCrash"} = {}
  PROVE  Spec => []LiveTargetIsProbed
<1>1. Init => LiveTargetIsProbed
  BY DEF Init, TargetInit, NoTarget, Live, LiveTargetIsProbed
<1>2. TypeOK /\ LiveTargetIsProbed /\ [Next]_vars => LiveTargetIsProbed'
  BY ProbedStep
<1> QED BY <1>1, <1>2, InitType, TypeStep, PTL DEF Spec

=============================================================================
