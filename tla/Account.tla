------------------------------ MODULE Account ------------------------------
(***************************************************************************)
(* How a program that was installed reports in: the webhook                *)
(* (internal/request/handler.go) stores the body of the report as a row of *)
(* requests and starts the workflow "account:<id>", whose activity         *)
(* (internal/jobs/account.go) makes a profile for the node the body names; *)
(* and the account service (internal/service/account.go), which disables   *)
(* profiles.                                                               *)
(*                                                                         *)
(* Reports that the webhook refuses before it stores anything (method,     *)
(* token, tenant, body: handler.go:30-90) change nothing and are left out. *)
(* Account.Get, List and GetTalks read only.  No code deletes a profile,   *)
(* so the unique index on its name makes the name its key.                 *)
(***************************************************************************)
EXTENDS Integers, Sequences, FiniteSets

CONSTANTS
    Requests,     \* ids that rows of requests are given
    Releases,     \* releases that were deployed
    Names,        \* names of nodes, trimmed
    LongNames,    \* those longer than the column: 255 characters
    Blank,        \* a field that is absent, no string, or only spaces
    Bodies,       \* the bodies of reports
    Posts,        \* goroutines of the webhook
    Callers,      \* goroutines of the API server, in Account.Disable
    Workers,      \* goroutines that execute activities
    Null,
    Faults,       \* kinds of failure the environment may cause
    MaxAttempts,  \* executions before the engine gives an activity up
    MaxFailures   \* bound: how many failures a behaviour contains

\* The members of a JSON body extract looks at: nested is the member name of
\* node, which is blank when node is a string.
Body == [node_name : Names \cup {Blank}, nodeName : Names \cup {Blank},
         node : Names \cup {Blank}, nested : Names \cup {Blank}]

FaultKinds == {"db", "backend", "lostReply", "webhookCrash", "workerCrash", "redelivery"}

\* What the constants are; a module that instantiates this one states it.
Assumptions ==
    /\ LongNames \subseteq Names
    /\ Blank \notin Names
    /\ Bodies \subseteq {b \in Body : b.node = Blank \/ b.nested = Blank}
    /\ Null \notin Requests \cup Releases \cup Names \cup Body \cup Workers
    /\ Faults \subseteq FaultKinds
    /\ MaxFailures \in Nat
    /\ MaxAttempts \in Nat \ {0}

ASSUME AccountAssumptions == Assumptions

VARIABLES
    request,     \* the requests table
    withPayload, \* releases whose payload has not been deleted
    profile,     \* the profiles table, by name
    workflow,    \* the engine's instances "account:<id>"
    execution,   \* the activity each worker executes
    posting,     \* what each goroutine of the webhook is doing
    disabling,   \* the profile each caller of Disable has loaded
    answer,      \* history: what the webhook answered to the report; "lost" if
                 \* it refused a report whose insert went through
    failures     \* number of failures so far

vars == <<request, withPayload, profile, workflow, execution, posting, disabling, answer, failures>>

-----------------------------------------------------------------------------
(* The state *)

RequestRow == [row     : {"absent", "live", "removed"},
               release : Releases \cup {Null},
               body    : Body \cup {Null}]

NoRequest == [row |-> "absent", release |-> Null, body |-> Null]

\* system is the system of the payload of that release.
ProfileRow == [row    : {"absent", "live"},
               status : {"unknown", "disabled"},
               system : Releases \cup {Null}]

NoProfile == [row |-> "absent", status |-> "unknown", system |-> Null]

Workflow == [state    : {"none", "active", "done", "failed"},
             attempts : 0..MaxAttempts,
             worker   : Workers \cup {Null}]

NoWorkflow == [state |-> "none", attempts |-> 0, worker |-> Null]

Execution == [pc      : {"idle", "load", "payload", "create", "report"},
              request : Requests \cup {Null},
              name    : Names \cup {Null},
              failed  : BOOLEAN]

NoExecution == [pc |-> "idle", request |-> Null, name |-> Null, failed |-> FALSE]

Posting == [pc : {"idle", "start", "remove"}, request : Requests \cup {Null}]

NotPosting == [pc |-> "idle", request |-> Null]

Fail(k) ==
    /\ k \in Faults
    /\ failures < MaxFailures
    /\ failures' = failures + 1

\* extract: the first of the candidates that is a string with a name in it.
Candidates(b) == <<b.node_name, b.nodeName, b.node, b.nested>>

Extract(b) ==
    IF \A i \in 1..4 : Candidates(b)[i] = Blank
    THEN Null
    ELSE Candidates(b)[CHOOSE i \in 1..4 :
            /\ Candidates(b)[i] # Blank
            /\ \A j \in 1..(i - 1) : Candidates(b)[j] = Blank]

-----------------------------------------------------------------------------
(* The webhook: insert the row; open the backend and start the workflow; if  *)
(* that fails, remove the row.                                               *)

PostReport(h, q, r, b) ==
    /\ posting[h].pc = "idle"
    /\ request[q].row = "absent"
    /\ answer[q] = "none"
    /\ \/ /\ request' = [request EXCEPT ![q] = [row |-> "live", release |-> r, body |-> b]]
          /\ posting' = [posting EXCEPT ![h] = [pc |-> "start", request |-> q]]
          /\ UNCHANGED <<answer, failures>>
       \/ /\ Fail("db")
          /\ answer' = [answer EXCEPT ![q] = "refused"]
          /\ UNCHANGED <<request, posting>>
       \/ /\ Fail("lostReply")
          /\ request' = [request EXCEPT ![q] = [row |-> "live", release |-> r, body |-> b]]
          /\ answer' = [answer EXCEPT ![q] = "lost"]
          /\ UNCHANGED posting
    /\ UNCHANGED <<withPayload, profile, workflow, execution, disabling>>

Started(q) == workflow' = [workflow EXCEPT ![q] = [NoWorkflow EXCEPT !.state = "active"]]

\* Variant: the report is accepted even if its workflow could not be started.
StartAnyway(h) ==
    LET q == posting[h].request IN
    /\ posting[h].pc = "start"
    /\ \/ Started(q) /\ UNCHANGED failures
       \/ Fail("backend") /\ UNCHANGED workflow
    /\ answer' = [answer EXCEPT ![q] = "accepted"]
    /\ posting' = [posting EXCEPT ![h] = NotPosting]
    /\ UNCHANGED <<request, withPayload, profile, execution, disabling>>

StartAccount(h) ==
    LET q == posting[h].request IN
    /\ posting[h].pc = "start"
    /\ \/ /\ Started(q)
          /\ answer' = [answer EXCEPT ![q] = "accepted"]
          /\ posting' = [posting EXCEPT ![h] = NotPosting]
          /\ UNCHANGED failures
       \/ /\ \/ Fail("backend") /\ UNCHANGED workflow
             \/ Fail("lostReply") /\ Started(q)
          /\ posting' = [posting EXCEPT ![h].pc = "remove"]
          /\ UNCHANGED answer
    /\ UNCHANGED <<request, withPayload, profile, execution, disabling>>

\* Variant: the row of a report that was not started stays.
KeepRequest(h) ==
    /\ posting[h].pc = "remove"
    /\ UNCHANGED <<request, failures>>
    /\ answer' = [answer EXCEPT ![posting[h].request] = "refused"]
    /\ posting' = [posting EXCEPT ![h] = NotPosting]
    /\ UNCHANGED <<withPayload, profile, workflow, execution, disabling>>

RemoveRequest(h) ==
    LET q == posting[h].request IN
    /\ posting[h].pc = "remove"
    /\ \/ request' = [request EXCEPT ![q].row = "removed"] /\ UNCHANGED failures
       \/ Fail("db") /\ UNCHANGED request
    /\ answer' = [answer EXCEPT ![q] = "refused"]
    /\ posting' = [posting EXCEPT ![h] = NotPosting]
    /\ UNCHANGED <<withPayload, profile, workflow, execution, disabling>>

\* The webhook stops: the program that reported gets no answer.
CrashWebhook(h) ==
    /\ posting[h].pc # "idle"
    /\ Fail("webhookCrash")
    /\ posting' = [posting EXCEPT ![h] = NotPosting]
    /\ UNCHANGED <<request, withPayload, profile, workflow, execution, disabling, answer>>

\* The payload of a release is deleted (Payload.Delete).
DeletePayload(r) ==
    /\ r \in withPayload
    /\ withPayload' = withPayload \ {r}
    /\ UNCHANGED <<request, profile, workflow, execution, posting, disabling, answer, failures>>

-----------------------------------------------------------------------------
(* The engine, as for the workflow of a release in module Deploy.            *)

TakeTask(w, q) ==
    /\ execution[w].pc = "idle"
    /\ workflow[q].state = "active"
    /\ workflow[q].worker = Null
    /\ workflow' = [workflow EXCEPT ![q].worker = w]
    /\ execution' = [execution EXCEPT ![w] = [NoExecution EXCEPT !.pc = "load", !.request = q]]
    /\ UNCHANGED <<request, withPayload, profile, posting, disabling, answer, failures>>

ReportResult(w) ==
    LET q == execution[w].request
        tries == workflow[q].attempts + 1
    IN
    /\ execution[w].pc = "report"
    /\ workflow' = IF workflow[q].worker # w
                   THEN workflow
                   ELSE [workflow EXCEPT ![q] =
                           [state    |-> IF ~execution[w].failed THEN "done"
                                         ELSE IF tries < MaxAttempts THEN "active" ELSE "failed",
                            attempts |-> tries,
                            worker   |-> Null]]
    /\ execution' = [execution EXCEPT ![w] = NoExecution]
    /\ UNCHANGED <<request, withPayload, profile, posting, disabling, answer, failures>>

CrashWorker(w) ==
    LET q == execution[w].request IN
    /\ execution[w].pc # "idle"
    /\ Fail("workerCrash")
    /\ execution' = [execution EXCEPT ![w] = NoExecution]
    /\ workflow' = IF workflow[q].worker = w
                   THEN [workflow EXCEPT ![q].worker = Null] ELSE workflow
    /\ UNCHANGED <<request, withPayload, profile, posting, disabling, answer>>

RedeliverTask(q) ==
    /\ workflow[q].worker # Null
    /\ Fail("redelivery")
    /\ workflow' = [workflow EXCEPT ![q].worker = Null]
    /\ UNCHANGED <<request, withPayload, profile, execution, posting, disabling, answer>>

-----------------------------------------------------------------------------
(* AccountActivity: load the request, extract the name, load release and     *)
(* payload, insert the profile.                                              *)

Finish(w, failed) ==
    execution' = [execution EXCEPT ![w].pc = "report", ![w].failed = failed]

LoadRequest(w) ==
    LET q == execution[w].request
        named == IF request[q].row = "live" THEN Extract(request[q].body) ELSE Null
    IN
    /\ execution[w].pc = "load"
    /\ \/ /\ named # Null
          /\ execution' = [execution EXCEPT ![w].pc = "payload", ![w].name = named]
          /\ UNCHANGED failures
       \/ /\ named = Null
          /\ Finish(w, FALSE)
          /\ UNCHANGED failures
       \/ Fail("db") /\ Finish(w, TRUE)
    /\ UNCHANGED <<request, withPayload, profile, workflow, posting, disabling, answer>>

\* Variant: that the payload is gone is not an error.
ForgivePayload(w) ==
    LET r == request[execution[w].request].release IN
    /\ execution[w].pc = "payload"
    /\ \/ /\ r \in withPayload
          /\ execution' = [execution EXCEPT ![w].pc = "create"]
       \/ r \notin withPayload /\ Finish(w, FALSE)
    /\ UNCHANGED <<request, withPayload, profile, workflow, posting, disabling, answer, failures>>

LoadPayload(w) ==
    LET r == request[execution[w].request].release IN
    /\ execution[w].pc = "payload"
    /\ \/ /\ r \in withPayload
          /\ execution' = [execution EXCEPT ![w].pc = "create"]
          /\ UNCHANGED failures
       \/ /\ r \notin withPayload
          /\ Finish(w, TRUE)
          /\ UNCHANGED failures
       \/ Fail("db") /\ Finish(w, TRUE)
    /\ UNCHANGED <<request, withPayload, profile, workflow, posting, disabling, answer>>

Made(n, r) == profile' = [profile EXCEPT ![n] = [NoProfile EXCEPT !.row = "live", !.system = r]]

\* Variant: the profile is saved, whether the name exists or not.
SaveProfile(w) ==
    /\ execution[w].pc = "create"
    /\ execution[w].name \notin LongNames
    /\ Made(execution[w].name, request[execution[w].request].release)
    /\ Finish(w, FALSE)
    /\ UNCHANGED <<request, withPayload, workflow, posting, disabling, answer, failures>>

\* A name that exists is not an error, a name that does not fit is one.
CreateProfile(w) ==
    LET n == execution[w].name
        r == request[execution[w].request].release
        new == n \notin LongNames /\ profile[n].row = "absent"
    IN
    /\ execution[w].pc = "create"
    /\ \/ /\ new
          /\ Made(n, r)
          /\ Finish(w, FALSE)
          /\ UNCHANGED failures
       \/ /\ ~new
          /\ Finish(w, n \in LongNames)
          /\ UNCHANGED <<profile, failures>>
       \/ /\ Fail("db")
          /\ Finish(w, TRUE)
          /\ UNCHANGED profile
       \/ /\ Fail("lostReply")
          /\ new
          /\ Made(n, r)
          /\ Finish(w, TRUE)
    /\ UNCHANGED <<request, withPayload, workflow, posting, disabling, answer>>

-----------------------------------------------------------------------------
(* Account.Disable: load the profile, write its status unless it is disabled *)
(* already, and answer with the row that was loaded.                         *)

FindProfile(c, n) ==
    /\ disabling[c] = Null
    /\ profile[n].row = "live"
    /\ disabling' = [disabling EXCEPT ![c] = n]
    /\ UNCHANGED <<request, withPayload, profile, workflow, execution, posting, answer, failures>>

WriteDisabled(c) ==
    /\ disabling[c] # Null
    /\ \/ profile' = [profile EXCEPT ![disabling[c]].status = "disabled"] /\ UNCHANGED failures
       \/ Fail("db") /\ UNCHANGED profile
    /\ disabling' = [disabling EXCEPT ![c] = Null]
    /\ UNCHANGED <<request, withPayload, workflow, execution, posting, answer>>

-----------------------------------------------------------------------------
Init ==
    /\ request = [q \in Requests |-> NoRequest]
    /\ withPayload = Releases
    /\ profile = [n \in Names |-> NoProfile]
    /\ workflow = [q \in Requests |-> NoWorkflow]
    /\ execution = [w \in Workers |-> NoExecution]
    /\ posting = [h \in Posts |-> NotPosting]
    /\ disabling = [c \in Callers |-> Null]
    /\ answer = [q \in Requests |-> "none"]
    /\ failures = 0

PostStep(h) == StartAccount(h) \/ RemoveRequest(h)

ActivityStep(w) == LoadRequest(w) \/ LoadPayload(w) \/ CreateProfile(w) \/ ReportResult(w)

Next ==
    \/ \E h \in Posts :
          \/ \E q \in Requests, r \in Releases, b \in Bodies : PostReport(h, q, r, b)
          \/ PostStep(h)
          \/ CrashWebhook(h)
    \/ \E r \in Releases : DeletePayload(r)
    \/ \E q \in Requests : RedeliverTask(q) \/ \E w \in Workers : TakeTask(w, q)
    \/ \E w \in Workers : ActivityStep(w) \/ CrashWorker(w)
    \/ \E c \in Callers : WriteDisabled(c) \/ \E n \in Names : FindProfile(c, n)

\* Workers go on with what they took, and poll for more.  A worker may be busy
\* with other tasks again and again, so an active one is taken only if it is
\* free again and again.
Fairness ==
    /\ \A w \in Workers : WF_vars(ActivityStep(w))
    /\ \A q \in Requests : SF_vars(\E w \in Workers : TakeTask(w, q))

Spec == Init /\ [][Next]_vars /\ Fairness

-----------------------------------------------------------------------------
(* Properties *)

\* Every variable keeps its type, and a task is held by a worker that executes
\* it (models/request.go:10-17, models/account.go:16-24).
TypeOK ==
    /\ request \in [Requests -> RequestRow]
    /\ withPayload \subseteq Releases
    /\ profile \in [Names -> ProfileRow]
    /\ workflow \in [Requests -> Workflow]
    /\ execution \in [Workers -> Execution]
    /\ posting \in [Posts -> Posting]
    /\ disabling \in [Callers -> Names \cup {Null}]
    /\ answer \in [Requests -> {"none", "accepted", "refused", "lost"}]
    /\ failures \in 0..MaxFailures
    /\ \A q \in Requests : workflow[q].worker # Null => execution[workflow[q].worker].request = q

\* A report that was answered with "created" has its row and its workflow, and
\* the workflow gives up only if the payload was deleted, the name does not fit
\* its column, or every attempt met a failure: a profile that an earlier
\* attempt or another report made is no reason (request/handler.go:97-121,
\* jobs/account.go:78-84).
AcceptedReportIsKept ==
    \A q \in Requests : answer[q] = "accepted" =>
       /\ request[q].row = "live"
       /\ workflow[q].state # "none"
       /\ workflow[q].state = "failed" =>
             \/ request[q].release \notin withPayload
             \/ Extract(request[q].body) \in LongNames
             \/ failures >= MaxAttempts

\* A row whose workflow was never started, and that no goroutine works on.
Stranded ==
    {q \in Requests : /\ request[q].row = "live"
                      /\ workflow[q].state = "none"
                      /\ \A h \in Posts : posting[h].request # q}
Refused == {q \in Requests : answer[q] \in {"refused", "lost"}}

\* A report that is refused leaves no row behind, unless the insert reported an
\* error for it or a second failure met the removal (request/handler.go:97-118).
StrandedRowsArePaidFor ==
    Cardinality(Refused) + Cardinality({q \in Stranded : answer[q] # "lost"}) <= failures

\* A profile that was disabled stays disabled, and no profile changes its
\* system: a report repeated, or executed twice, does not write a profile
\* that exists (jobs/account.go:78-82).
ProfilesAreFinal ==
    [][\A n \in Names : profile[n].row = "live" =>
          /\ profile'[n].system = profile[n].system
          /\ profile[n].status = "disabled" => profile'[n].status = "disabled"]_vars

\* Every accepted report that names a node ends with a profile of that name, or
\* with a workflow that gave up (jobs/account.go:22-87).
AcceptedLeadsToProfile ==
    \A q \in Requests, n \in Names :
       (answer[q] = "accepted" /\ Extract(request[q].body) = n)
          ~> (profile[n].row = "live" \/ workflow[q].state = "failed")

=============================================================================
