--------------------------- MODULE TargetService ---------------------------
(***************************************************************************)
(* The target handlers of the API server (internal/service/target.go) over *)
(* the targets table of one tenant (internal/models/target.go).            *)
(*                                                                         *)
(* A handler runs in its own goroutine and issues one SQL statement or one *)
(* call to the jobs backend at a time, so everything that happens between  *)
(* two such calls of one handler is visible to the others: each call that  *)
(* changes state is an action.  The handlers that only read (Get, List)    *)
(* change nothing and are not modelled.                                    *)
(*                                                                         *)
(* The endpoint of a target stands for its address, user and key.  The     *)
(* deploy lock of a target is its columns deploying and deploying_at: no   *)
(* handler takes the lock, but Update writes the two columns back when it  *)
(* has to undo itself.                                                     *)
(***************************************************************************)
EXTENDS Integers

CONSTANTS
    Targets,      \* ids a target row can be given
    Endpoints,    \* values of address, user and key
    Handlers,     \* goroutines of the API server
    Null,         \* NULL, nil and "no row"
    Faults,       \* kinds of failure the environment may cause
    MaxFailures   \* bound: how many failures a behaviour contains

(***************************************************************************)
(*   "backend"     the jobs backend refuses a call, or is not reachable    *)
(*   "lostReply"   it carries the call out and reports an error            *)
(*   "db"          an SQL statement fails                                  *)
(*   "apiCrash"    the API server stops between two statements             *)
(*   "workerCrash" a worker stops while it executes an activity            *)
(*   "redelivery"  the engine hands out again a task that is being executed*)
(*   "storage"     an object cannot be read or written                     *)
(*   "ssh"         a deployment over SSH fails                             *)
(***************************************************************************)
FaultKinds == {"backend", "lostReply", "db", "apiCrash", "workerCrash",
               "redelivery", "storage", "ssh"}

ASSUME NullAssumption == Null \notin Int \cup Targets \cup Endpoints
ASSUME FaultsAssumption == Faults \subseteq FaultKinds
ASSUME MaxFailuresAssumption == MaxFailures \in Nat

VARIABLES
    target,     \* the targets table
    probing,    \* targets with an active workflow instance "probe:<id>"
    handling,   \* what each handler of the target service is doing
    failures    \* number of failures so far

targetVars == <<target, probing, handling, failures>>

-----------------------------------------------------------------------------
(* The state *)

\* A row that was soft deleted, or removed, is invisible to every query of the
\* code (gorm adds deleted_at IS NULL), and an id is never used twice.
TargetRow == [row         : {"absent", "live", "deleted"},
              endpoint    : Endpoints \cup {Null},
              status      : {"unknown", "online", "offline"},
              deploying   : BOOLEAN,
              deployingAt : Int \cup {Null}]

NoTarget == [row |-> "absent", endpoint |-> Null, status |-> "unknown",
             deploying |-> FALSE, deployingAt |-> Null]

\* previous is the row that Update loaded before it wrote.
Handling == [pc       : {"idle", "enqueueNew", "undoCreate", "write", "enqueue", "revert"},
             target   : Targets \cup {Null},
             previous : TargetRow \cup {Null}]

Idle == [pc |-> "idle", target |-> Null, previous |-> Null]

Live(t) == target[t].row = "live"

\* A failure of kind k happens, if the bound allows it.
Fail(k) ==
    /\ k \in Faults
    /\ failures < MaxFailures
    /\ failures' = failures + 1

-----------------------------------------------------------------------------
(* enqueue: CreateWorkflowInstance "probe:<id>".  That the instance exists   *)
(* already is not an error.                                                  *)

EnqueueSucceeds(t) ==
    /\ probing' = probing \cup {t}
    /\ UNCHANGED failures

EnqueueFails(t) ==
    \/ Fail("backend") /\ UNCHANGED probing
    \/ Fail("lostReply") /\ probing' = probing \cup {t}

-----------------------------------------------------------------------------
(* Target.Create: insert the row, enqueue its probe; if that fails, remove   *)
(* the row.                                                                  *)

CreateTarget(h, t, e) ==
    /\ handling[h].pc = "idle"
    /\ target[t].row = "absent"
    /\ target' = [target EXCEPT ![t] = [NoTarget EXCEPT !.row = "live", !.endpoint = e]]
    /\ handling' = [handling EXCEPT ![h] = [Idle EXCEPT !.pc = "enqueueNew", !.target = t]]
    /\ UNCHANGED <<probing, failures>>

\* Variant: the row stays behind when the probe cannot be enqueued.
KeepNewTarget(h) ==
    /\ handling[h].pc = "enqueueNew"
    /\ \/ EnqueueSucceeds(handling[h].target)
       \/ EnqueueFails(handling[h].target)
    /\ handling' = [handling EXCEPT ![h] = Idle]
    /\ UNCHANGED target

EnqueueNewTarget(h) ==
    /\ handling[h].pc = "enqueueNew"
    /\ \/ /\ EnqueueSucceeds(handling[h].target)
          /\ handling' = [handling EXCEPT ![h] = Idle]
       \/ /\ EnqueueFails(handling[h].target)
          /\ handling' = [handling EXCEPT ![h].pc = "undoCreate"]
    /\ UNCHANGED target

UndoCreateTarget(h) ==
    /\ handling[h].pc = "undoCreate"
    /\ \/ /\ target' = [target EXCEPT ![handling[h].target].row = "deleted"]
          /\ UNCHANGED failures
       \/ Fail("db") /\ UNCHANGED target
    /\ handling' = [handling EXCEPT ![h] = Idle]
    /\ UNCHANGED probing

-----------------------------------------------------------------------------
(* Target.Update: load the row, write the new endpoint, enqueue the probe;   *)
(* if that fails, write the columns that were loaded back.                   *)

LoadPreviousTarget(h, t) ==
    /\ handling[h].pc = "idle"
    /\ Live(t)
    /\ handling' = [handling EXCEPT ![h] =
                       [pc |-> "write", target |-> t, previous |-> target[t]]]
    /\ UNCHANGED <<target, probing, failures>>

\* No row is affected when the target was deleted meanwhile: not found.
WriteTarget(h, e) ==
    LET t == handling[h].target IN
    /\ handling[h].pc = "write"
    /\ \/ /\ Live(t)
          /\ target' = [target EXCEPT ![t].endpoint = e]
          /\ handling' = [handling EXCEPT ![h].pc = "enqueue"]
       \/ /\ ~Live(t)
          /\ handling' = [handling EXCEPT ![h] = Idle]
          /\ UNCHANGED target
    /\ UNCHANGED <<probing, failures>>

\* The row is loaded again before the probe is enqueued; when a Delete came
\* first the handler gives up, when it comes after the load it goes on.
EnqueueTarget(h) ==
    LET t == handling[h].target IN
    /\ handling[h].pc = "enqueue"
    /\ \/ /\ EnqueueSucceeds(t)
          /\ handling' = [handling EXCEPT ![h] = Idle]
       \/ /\ EnqueueFails(t)
          /\ handling' = [handling EXCEPT ![h].pc = "revert"]
       \/ /\ ~Live(t)
          /\ handling' = [handling EXCEPT ![h] = Idle]
          /\ UNCHANGED <<probing, failures>>
    /\ UNCHANGED target

\* Everything that was loaded is written back, the deploy lock included.
RevertTarget(h) ==
    LET t == handling[h].target IN
    /\ handling[h].pc = "revert"
    /\ \/ /\ Live(t)
          /\ target' = [target EXCEPT ![t] = handling[h].previous]
          /\ UNCHANGED failures
       \/ /\ ~Live(t)
          /\ UNCHANGED <<target, failures>>
       \/ Fail("db") /\ UNCHANGED target
    /\ handling' = [handling EXCEPT ![h] = Idle]
    /\ UNCHANGED probing

-----------------------------------------------------------------------------
(* Target.Delete: one soft delete.  The probe and the releases of the target *)
(* are left alone.                                                           *)

DeleteTarget(t) ==
    /\ Live(t)
    /\ target' = [target EXCEPT ![t].row = "deleted"]
    /\ UNCHANGED <<probing, handling, failures>>

\* The API server stops, or a statement before the endpoint is enqueued fails:
\* what the handler had still to do is not done.
AbandonTargetHandler(h) ==
    /\ handling[h].pc # "idle"
    /\ \/ Fail("apiCrash")
       \/ handling[h].pc \in {"write", "enqueue"} /\ Fail("db")
    /\ handling' = [handling EXCEPT ![h] = Idle]
    /\ UNCHANGED <<target, probing>>

-----------------------------------------------------------------------------
TargetInit ==
    /\ target = [t \in Targets |-> NoTarget]
    /\ probing = {}
    /\ handling = [h \in Handlers |-> Idle]
    /\ failures = 0

\* A handler that has begun goes on by itself.
TargetHandlerStep(h) ==
    \/ EnqueueNewTarget(h)
    \/ UndoCreateTarget(h)
    \/ \E e \in Endpoints : WriteTarget(h, e)
    \/ EnqueueTarget(h)
    \/ RevertTarget(h)

TargetNext ==
    \/ \E h \in Handlers :
          \/ \E t \in Targets :
                \/ \E e \in Endpoints : CreateTarget(h, t, e)
                \/ LoadPreviousTarget(h, t)
          \/ TargetHandlerStep(h)
          \/ AbandonTargetHandler(h)
    \/ \E t \in Targets : DeleteTarget(t)

TargetTypeOK ==
    /\ target \in [Targets -> TargetRow]
    /\ probing \subseteq Targets
    /\ handling \in [Handlers -> Handling]
    /\ \A h \in Handlers :
          /\ handling[h].pc # "idle" => handling[h].target \in Targets
          /\ handling[h].pc \in {"write", "enqueue", "revert"} =>
                handling[h].previous \in TargetRow /\ handling[h].previous.row = "live"
    /\ failures \in 0..MaxFailures

=============================================================================
