------------------------------ MODULE Payload ------------------------------
(***************************************************************************)
(* The payload service (internal/service/payload.go), the object storage   *)
(* it writes to (internal/infra/storage.go), and the part of DeployActivity*)
(* that turns a payload into the bundle of a release                       *)
(* (internal/jobs/deploy.go).                                              *)
(*                                                                         *)
(* A payload lives in two stores that no transaction joins: its archive is *)
(* an object, its path and the name of its config are columns of a row.    *)
(* The path of payload p is "payloads/<p>/<name>", here p itself; Nowhere  *)
(* stands for any path without an object.  Get and List read only.         *)
(***************************************************************************)
EXTENDS Archive, FiniteSets, Functions

CONSTANTS
    Payloads,     \* ids that Create may draw
    Nowhere,      \* a path under which nothing is stored
    Archives,     \* the uploads of clients
    Handlers,     \* goroutines of the API server
    Builders,     \* activities that deploy a release
    Null,         \* "no row", "no object"
    Faults,       \* kinds of failure the environment may cause
    MaxFailures   \* bound: how many failures a behaviour contains

\* "storage": the object cannot be read or written; "db": a statement fails;
\* "lostReply": a call is carried out and reports an error; "apiCrash": the
\* API server stops between two calls.
FaultKinds == {"storage", "db", "lostReply", "apiCrash"}

\* What the constants are; a module that instantiates this one states it.
Assumptions ==
    /\ KeyName \in Names
    /\ MaxSize \in Nat
    /\ Broken \notin Archive \cup Seq(Entry)
    /\ Faults \subseteq FaultKinds
    /\ MaxFailures \in Nat
    /\ Nowhere \notin Payloads
    /\ Archives \subseteq Archive \cup {Broken}
    /\ Null \notin Payloads \cup {Nowhere} \cup Names \cup Archive \cup {Broken} \cup Seq(Entry)

VARIABLES
    payload,    \* the payloads table
    object,     \* the objects of the payloads
    handling,   \* what each handler is doing
    building,   \* what each deployment is doing
    acked,      \* history: payloads whose Create was answered with success
    edited,     \* history: payloads whose path or config was updated
    failed      \* history: the number of failures of each kind so far

vars == <<payload, object, handling, building, acked, edited, failed>>

-----------------------------------------------------------------------------
(* The state *)

Paths == Payloads \cup {Nowhere}

PayloadRow == [row    : {"absent", "live", "deleted"},
               path   : Paths \cup {Null},
               config : Names \cup {Null}]

NoPayload == [row |-> "absent", path |-> Null, config |-> Null]

Handling == [pc      : {"idle", "upload", "insert", "cleanup", "write", "delete"},
             payload : Payloads \cup {Null},
             archive : Archive \cup {Broken, Null},
             config  : Names \cup {Null}]

Idle == [pc |-> "idle", payload |-> Null, archive |-> Null, config |-> Null]

\* bundle is the object "releases/<release>.zip"; asCreated tells that the row
\* the deployment loaded had never been edited, spoiled that the storage failed.
Building == [pc        : {"idle", "download", "deliver", "delivered", "failed"},
             payload   : Payloads \cup {Null},
             path      : Paths \cup {Null},
             config    : Names \cup {Null},
             bundle    : Seq(Entry) \cup {Null},
             asCreated : BOOLEAN,
             spoiled   : BOOLEAN]

NotBuilding == [pc |-> "idle", payload |-> Null, path |-> Null, config |-> Null,
                bundle |-> Null, asCreated |-> FALSE, spoiled |-> FALSE]

Live(p) == payload[p].row = "live"

Fail(k) ==
    /\ k \in Faults
    /\ SumFunction(failed) < MaxFailures
    /\ failed' = [failed EXCEPT ![k] = @ + 1]

\* No handler has drawn the id p before.
Fresh(p) ==
    /\ payload[p].row = "absent"
    /\ object[p] = Null
    /\ \A h \in Handlers : handling[h].payload # p

-----------------------------------------------------------------------------
(* Payload.Create: validate, upload the object, insert the row; if the row   *)
(* cannot be inserted, delete the object and ignore that this fails.         *)

\* Variant: the archive is stored as it comes.
CreateUnchecked(h, p, a, config) ==
    /\ handling[h].pc = "idle"
    /\ Fresh(p)
    /\ handling' = [handling EXCEPT ![h] = [pc |-> "upload", payload |-> p, archive |-> a, config |-> config]]
    /\ UNCHANGED <<payload, object, building, acked, edited, failed>>

CreatePayload(h, p, a, config) ==
    /\ handling[h].pc = "idle"
    /\ Fresh(p)
    /\ Accepted(a, config)
    /\ handling' = [handling EXCEPT ![h] = [pc |-> "upload", payload |-> p, archive |-> a, config |-> config]]
    /\ UNCHANGED <<payload, object, building, acked, edited, failed>>

\* An upload that reports an error may have stored the object; nobody looks.
UploadPayload(h) ==
    LET p == handling[h].payload IN
    /\ handling[h].pc = "upload"
    /\ \/ /\ object' = [object EXCEPT ![p] = handling[h].archive]
          /\ handling' = [handling EXCEPT ![h].pc = "insert"]
          /\ UNCHANGED failed
       \/ /\ Fail("storage")
          /\ handling' = [handling EXCEPT ![h] = Idle]
          /\ UNCHANGED object
       \/ /\ Fail("lostReply")
          /\ object' = [object EXCEPT ![p] = handling[h].archive]
          /\ handling' = [handling EXCEPT ![h] = Idle]
    /\ UNCHANGED <<payload, building, acked, edited>>

NewRow(h) == [row |-> "live", path |-> handling[h].payload, config |-> handling[h].config]

\* Variant: a row that reports an error is acknowledged all the same.
InsertAnyway(h) ==
    LET p == handling[h].payload IN
    /\ handling[h].pc = "insert"
    /\ payload' = [payload EXCEPT ![p] = NewRow(h)]
    /\ \/ UNCHANGED failed /\ handling' = [handling EXCEPT ![h] = Idle]
       \/ Fail("lostReply") /\ handling' = [handling EXCEPT ![h].pc = "cleanup"]
    /\ acked' = acked \cup {p}
    /\ UNCHANGED <<object, building, edited>>

InsertPayload(h) ==
    LET p == handling[h].payload IN
    /\ handling[h].pc = "insert"
    /\ \/ /\ payload' = [payload EXCEPT ![p] = NewRow(h)]
          /\ acked' = acked \cup {p}
          /\ handling' = [handling EXCEPT ![h] = Idle]
          /\ UNCHANGED failed
       \/ /\ Fail("db")
          /\ handling' = [handling EXCEPT ![h].pc = "cleanup"]
          /\ UNCHANGED <<payload, acked>>
       \/ /\ Fail("lostReply")
          /\ payload' = [payload EXCEPT ![p] = NewRow(h)]
          /\ handling' = [handling EXCEPT ![h].pc = "cleanup"]
          /\ UNCHANGED acked
    /\ UNCHANGED <<object, building, edited>>

\* Variant: the object is left behind.
SkipCleanUp(h) ==
    /\ handling[h].pc = "cleanup"
    /\ handling' = [handling EXCEPT ![h] = Idle]
    /\ \/ UNCHANGED <<failed, object>>
       \/ Fail("storage") /\ UNCHANGED object
    /\ UNCHANGED <<payload, building, acked, edited>>

CleanUp(h) ==
    LET p == handling[h].payload IN
    /\ handling[h].pc = "cleanup"
    /\ \/ object' = [object EXCEPT ![p] = Null] /\ UNCHANGED failed
       \/ Fail("storage") /\ UNCHANGED object
       \/ Fail("lostReply") /\ object' = [object EXCEPT ![p] = Null]
    /\ handling' = [handling EXCEPT ![h] = Idle]
    /\ UNCHANGED <<payload, building, acked, edited>>

-----------------------------------------------------------------------------
(* Payload.Update and Payload.Delete: look the row up, then write it by id.  *)
(* Between the two another handler may have deleted it: the statement then   *)
(* changes no row and the call answers "not found".                          *)

FindPayload(h, p, next) ==
    /\ handling[h].pc = "idle"
    /\ Live(p)
    /\ handling' = [handling EXCEPT ![h] = [Idle EXCEPT !.pc = next, !.payload = p]]
    /\ UNCHANGED <<payload, object, building, acked, edited, failed>>

\* An empty column is left as it is, and nothing checks that an archive with
\* the config exists under the path.
WriteUpdate(h, path, config) ==
    LET p == handling[h].payload IN
    /\ handling[h].pc = "write"
    /\ handling' = [handling EXCEPT ![h] = Idle]
    /\ \/ /\ Live(p)
          /\ payload' = [payload EXCEPT
                ![p].path   = IF path = Null THEN @ ELSE path,
                ![p].config = IF config = Null THEN @ ELSE config]
          /\ edited' = IF path = Null /\ config = Null THEN edited ELSE edited \cup {p}
       \/ ~Live(p) /\ UNCHANGED <<payload, edited>>
    /\ UNCHANGED <<object, building, acked, failed>>

\* The row is soft deleted; its object stays.
WriteDelete(h) ==
    LET p == handling[h].payload IN
    /\ handling[h].pc = "delete"
    /\ handling' = [handling EXCEPT ![h] = Idle]
    /\ payload' = IF Live(p) THEN [payload EXCEPT ![p].row = "deleted"] ELSE payload
    /\ UNCHANGED <<object, building, acked, edited, failed>>

\* A statement of Update or Delete fails: the call answers with the error.
StatementFails(h) ==
    /\ handling[h].pc \in {"write", "delete"}
    /\ Fail("db")
    /\ handling' = [handling EXCEPT ![h] = Idle]
    /\ UNCHANGED <<payload, object, building, acked, edited>>

CrashApi(h) ==
    /\ handling[h].pc # "idle"
    /\ Fail("apiCrash")
    /\ handling' = [handling EXCEPT ![h] = Idle]
    /\ UNCHANGED <<payload, object, building, acked, edited>>

-----------------------------------------------------------------------------
(* The deployment of a release: load the row of the payload, download the    *)
(* object, inject, upload the bundle that is then copied to the target.      *)

LoadPayload(b, p) ==
    /\ building[b].pc = "idle"
    /\ Live(p)
    /\ building' = [building EXCEPT ![b] =
          [NotBuilding EXCEPT !.pc = "download", !.payload = p, !.path = payload[p].path,
                              !.config = payload[p].config, !.asCreated = p \notin edited]]
    /\ UNCHANGED <<payload, object, handling, acked, edited, failed>>

Stored(path) == IF path \in Payloads THEN object[path] ELSE Null

Download(b, keyed) ==
    LET stored == Stored(building[b].path)
        bundle == IF stored = Null THEN Broken ELSE Inject(Limited(stored), building[b].config, keyed)
    IN
    /\ building[b].pc = "download"
    /\ \/ /\ bundle # Broken
          /\ building' = [building EXCEPT ![b].pc = "deliver", ![b].bundle = bundle]
          /\ UNCHANGED failed
       \/ /\ bundle = Broken
          /\ building' = [building EXCEPT ![b].pc = "failed"]
          /\ UNCHANGED failed
       \/ /\ Fail("storage")
          /\ building' = [building EXCEPT ![b].pc = "failed", ![b].spoiled = TRUE]
    /\ UNCHANGED <<payload, object, handling, acked, edited>>

Deliver(b) ==
    /\ building[b].pc = "deliver"
    /\ \/ /\ building' = [building EXCEPT ![b].pc = "delivered"]
          /\ UNCHANGED failed
       \/ /\ Fail("storage")
          /\ building' = [building EXCEPT ![b].pc = "failed", ![b].spoiled = TRUE]
    /\ UNCHANGED <<payload, object, handling, acked, edited>>

-----------------------------------------------------------------------------
Init ==
    /\ payload = [p \in Payloads |-> NoPayload]
    /\ object = [p \in Payloads |-> Null]
    /\ handling = [h \in Handlers |-> Idle]
    /\ building = [b \in Builders |-> NotBuilding]
    /\ acked = {}
    /\ edited = {}
    /\ failed = [k \in FaultKinds |-> 0]

HandlerStep(h) ==
    \/ \E p \in Payloads, a \in Archives, config \in Names : CreatePayload(h, p, a, config)
    \/ UploadPayload(h)
    \/ InsertPayload(h)
    \/ CleanUp(h)
    \/ \E p \in Payloads : FindPayload(h, p, "write") \/ FindPayload(h, p, "delete")
    \/ \E path \in Paths \cup {Null}, config \in Names \cup {Null} : WriteUpdate(h, path, config)
    \/ WriteDelete(h)
    \/ StatementFails(h)
    \/ CrashApi(h)

BuilderStep(b) ==
    \/ \E p \in Payloads : LoadPayload(b, p)
    \/ \E keyed \in BOOLEAN : Download(b, keyed)
    \/ Deliver(b)

Next ==
    \/ \E h \in Handlers : HandlerStep(h)
    \/ \E b \in Builders : BuilderStep(b)

Spec == Init /\ [][Next]_vars

-----------------------------------------------------------------------------
(* Properties *)

\* Every variable keeps its type (models/payload.go:10-21).
TypeOK ==
    /\ payload \in [Payloads -> PayloadRow]
    /\ object \in [Payloads -> Archive \cup {Broken, Null}]
    /\ handling \in [Handlers -> Handling]
    /\ building \in [Builders -> Building]
    /\ acked \subseteq Payloads
    /\ edited \subseteq Payloads
    /\ failed \in [FaultKinds -> 0..MaxFailures]

\* A payload whose upload was acknowledged, and that nobody edited, can be
\* deployed: unless the storage fails just then, the only thing that can still
\* be wrong is an entry other than the config that validate did not open
\* (service/payload.go:38-58 against jobs/deploy.go:180-188).
AcknowledgedPayloadBuilds ==
    \A b \in Builders :
       building[b].pc = "failed" /\ building[b].asCreated /\ building[b].payload \in acked
       => \/ building[b].spoiled
          \/ /\ object[building[b].payload] \in Archive
             /\ ~Readable(object[building[b].payload])

\* Whatever is installed from a payload that was not edited when its row was
\* read leaves a config with the address of the webhook and a token, however the
\* writes of the upload failed; unless a later entry of the same name is
\* extracted over it, and that one has no marker left either
\* (service/payload.go:38-58, jobs/deploy.go:182-211, infra/ssh.go:64).
InstalledIsConfigured ==
    \A b \in Builders :
       building[b].pc = "delivered" /\ building[b].asCreated
       => /\ \/ Configured(building[b].bundle, building[b].config)
             \/ Shadowed(building[b].bundle, building[b].config)
          /\ ~Unfilled(building[b].bundle, building[b].config)

\* Objects nobody can find any more, and rows nobody can deploy.
Orphans ==
    {p \in Payloads : object[p] # Null /\ payload[p].row = "absent"
                      /\ \A h \in Handlers : handling[h].payload # p}
Dangling == {p \in Payloads \ edited : Live(p) /\ object[p] = Null}

\* The two stores agree, but for one payload per failure of the storage, reply
\* that was lost or crash: an insert that the database refuses leaves no object
\* without its row, and concurrent calls no row without its object
\* (service/payload.go:99-115).
LossesArePaidFor ==
    Cardinality(Orphans) + Cardinality(Dangling)
       <= failed["storage"] + failed["lostReply"] + failed["apiCrash"]

=============================================================================
