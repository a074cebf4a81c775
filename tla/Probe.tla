------------------------------- MODULE Probe -------------------------------
(***************************************************************************)
(* The status of a target: the Probe workflow (internal/jobs/probe.go)     *)
(* composed with the target handlers (TargetService).                      *)
(*                                                                         *)
(* One workflow instance "probe:<id>" per target repeats one activity for  *)
(* ever, with a pause in between: load the row, try to log in to the       *)
(* endpoint that was loaded, write the outcome.  Meanwhile handlers change *)
(* the row, a deployment may mark the target online (jobs/deploy.go:145),  *)
(* and the hosts come and go.                                              *)
(***************************************************************************)
EXTENDS TargetService

CONSTANTS
    MaxAttempts,  \* attempts at an activity before the workflow fails
    MaxEvents     \* bound: events outside the handlers and the probes

ASSUME MaxAttemptsAssumption == MaxAttempts \in Nat \ {0}
ASSUME MaxEventsAssumption == MaxEvents \in Nat

VARIABLES
    probe,        \* the activity of each active instance
    reachable,    \* endpoints that accept the login
    events        \* number of events so far

probeVars == <<probe, reachable, events>>
vars == <<targetVars, probeVars>>

\* endpoint and outcome are the local copies of the activity: where it logs in,
\* and the status it is going to write.
Activity == [pc       : {"load", "ping", "write", "sleep"},
             endpoint : Endpoints \cup {Null},
             outcome  : {"unknown", "online", "offline"},
             attempts : 0..MaxAttempts]

NoActivity == [pc |-> "load", endpoint |-> Null, outcome |-> "unknown", attempts |-> 0]

StatusOf(e) == IF e \in reachable THEN "online" ELSE "offline"

-----------------------------------------------------------------------------
(* The activity and the loop around it *)

\* The activity succeeded, or had nothing to do: the workflow sleeps.
Sleep(t) == probe' = [probe EXCEPT ![t] = [NoActivity EXCEPT !.pc = "sleep"]]

\* The activity returned an error: the engine tries again, and the workflow
\* returns the error, and ends, when it has tried often enough.
ActivityFails(t) ==
    LET tries == probe[t].attempts + 1 IN
    /\ Fail("db")
    /\ \/ /\ tries < MaxAttempts
          /\ probe' = [probe EXCEPT ![t] = [NoActivity EXCEPT !.attempts = tries]]
          /\ UNCHANGED probing
       \/ /\ tries = MaxAttempts
          /\ probe' = [probe EXCEPT ![t] = NoActivity]
          /\ probing' = probing \ {t}

LoadTarget(t) ==
    /\ t \in probing
    /\ probe[t].pc = "load"
    /\ \/ /\ Live(t)
          /\ probe' = [probe EXCEPT ![t].pc = "ping", ![t].endpoint = target[t].endpoint]
          /\ UNCHANGED <<failures, probing>>
       \/ /\ ~Live(t)
          /\ Sleep(t)
          /\ UNCHANGED <<failures, probing>>
       \/ ActivityFails(t)
    /\ UNCHANGED <<target, handling, reachable, events>>

\* infra.Ping.  The handshake has no time limit (infra/ssh.go:95): a login that
\* never returns stays at "ping", and nothing makes this step happen.
Ping(t) ==
    /\ probe[t].pc = "ping"
    /\ probe' = [probe EXCEPT ![t].pc = "write", ![t].outcome = StatusOf(probe[t].endpoint)]
    /\ UNCHANGED <<targetVars, reachable, events>>

\* Variant: the outcome is written to a target that has no status yet.
WriteFirstStatus(t) ==
    /\ probe[t].pc = "write"
    /\ target' = IF Live(t) /\ target[t].status = "unknown"
                 THEN [target EXCEPT ![t].status = probe[t].outcome] ELSE target
    /\ Sleep(t)
    /\ UNCHANGED <<probing, handling, failures, reachable, events>>

WriteStatus(t) ==
    /\ probe[t].pc = "write"
    /\ \/ /\ Live(t)
          /\ target' = [target EXCEPT ![t].status = probe[t].outcome]
          /\ Sleep(t)
          /\ UNCHANGED <<failures, probing>>
       \/ /\ ~Live(t)
          /\ Sleep(t)
          /\ UNCHANGED <<target, failures, probing>>
       \/ ActivityFails(t) /\ UNCHANGED target
    /\ UNCHANGED <<handling, reachable, events>>

WakeUp(t) ==
    /\ probe[t].pc = "sleep"
    /\ probe' = [probe EXCEPT ![t] = NoActivity]
    /\ UNCHANGED <<targetVars, reachable, events>>

\* The worker stops: the engine hands the activity out again.
CrashProbe(t) ==
    /\ probe[t].pc \in {"ping", "write"}
    /\ Fail("workerCrash")
    /\ probe' = [probe EXCEPT ![t] = [NoActivity EXCEPT !.attempts = probe[t].attempts]]
    /\ UNCHANGED <<target, probing, handling, reachable, events>>

-----------------------------------------------------------------------------
(* The surroundings *)

Event == events < MaxEvents /\ events' = events + 1

\* A host comes up, or goes down.
HostChanges(e) ==
    /\ Event
    /\ reachable' = IF e \in reachable THEN reachable \ {e} ELSE reachable \cup {e}
    /\ UNCHANGED <<targetVars, probe>>

\* A deployment that succeeded, on whatever endpoint, marks the target.
DeploymentMarksOnline(t) ==
    /\ Event
    /\ Live(t)
    /\ target' = [target EXCEPT ![t].status = "online"]
    /\ UNCHANGED <<probing, handling, failures, probe, reachable>>

-----------------------------------------------------------------------------
Init ==
    /\ TargetInit
    /\ probe = [t \in Targets |-> NoActivity]
    /\ reachable \in SUBSET Endpoints
    /\ events = 0

ProbeStep(t) == LoadTarget(t) \/ Ping(t) \/ WriteStatus(t) \/ WakeUp(t)

Next ==
    \/ TargetNext /\ UNCHANGED probeVars
    \/ \E t \in Targets : ProbeStep(t) \/ CrashProbe(t) \/ DeploymentMarksOnline(t)
    \/ \E e \in Endpoints : HostChanges(e)

\* Handlers that have begun go on, timers fire and activities are executed; a
\* login owes nothing.
Fairness ==
    /\ \A h \in Handlers : WF_vars(TargetHandlerStep(h) /\ UNCHANGED probeVars)
    /\ \A t \in Targets : WF_vars(ProbeStep(t) /\ probe[t].pc # "ping")

Spec == Init /\ [][Next]_vars /\ Fairness

-----------------------------------------------------------------------------
(* Properties *)

\* Every variable keeps its type, and only active instances are at work
\* (jobs/probe.go:20-27).
TypeOK ==
    /\ TargetTypeOK
    /\ probe \in [Targets -> Activity]
    /\ \A t \in Targets \ probing : probe[t] = NoActivity
    /\ reachable \subseteq Endpoints
    /\ events \in 0..MaxEvents

\* A target that clients can see is probed, or the handler that creates it has
\* not returned yet (service/target.go:43-49): neither a refused enqueue nor a
\* lost reply, of Create or of Update, leaves a target without its probe.
LiveTargetIsProbed ==
    \A t \in Targets : Live(t) =>
       \/ t \in probing
       \/ \E h \in Handlers : handling[h].target = t /\ handling[h].pc \in {"enqueueNew", "undoCreate"}

\* From some point on nobody creates, changes or deletes t and no host changes.
Quiet(t) ==
    <>[][target'[t].endpoint = target[t].endpoint /\ target'[t].row = target[t].row
         /\ reachable' = reachable]_vars

LoginsReturn(t) == []<>(probe[t].pc # "ping")

\* The status of a target that is probed settles on the truth: whatever stale
\* outcome of a login, of a deployment or of an undone update was written to it
\* (jobs/probe.go:59-66, jobs/deploy.go:145, service/target.go:106-114), once
\* the target and the hosts are left alone it is corrected for good, unless a
\* login never returns.
StatusSettles ==
    \A t \in Targets : Quiet(t) /\ LoginsReturn(t) =>
       <>[](Live(t) /\ t \in probing => target[t].status = StatusOf(target[t].endpoint))

=============================================================================
