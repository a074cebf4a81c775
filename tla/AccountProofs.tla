---------------------------- MODULE AccountProofs ----------------------------
(***************************************************************************)
(* Theorems about Account: its types, what an accepted report has, what    *)
(* the rows of refused reports cost, and that profiles are final.          *)
(***************************************************************************)
EXTENDS Account, FiniteSetTheorems, TLAPS

-----------------------------------------------------------------------------
(* Types *)

\* A row that was inserted keeps its release and its body.
RowInv ==
    \A q \in Requests : request[q].row # "absent" =>
       request[q].release \in Releases /\ request[q].body \in Bodies

\* A report is handled by one goroutine, which has inserted its row, has not
\* started its workflow, if it is going to, and has not answered.
PostingInv ==
    /\ \A h \in Posts :
          /\ posting[h].pc # "idle" =>
                LET q == posting[h].request IN
                /\ q \in Requests /\ request[q].row = "live" /\ answer[q] = "none"
                /\ posting[h].pc = "start" => workflow[q].state = "none"
          /\ posting[h].pc = "idle" => posting[h].request = Null
    /\ \A h, g \in Posts : posting[h].pc # "idle" /\ posting[g].request = posting[h].request => g = h
    /\ \A q \in Requests : request[q].row = "absent" => workflow[q].state = "none"

\* The name a worker has is the one in the body of its request.
ExecutionInv ==
    \A w \in Workers :
       /\ execution[w].pc # "idle" =>
             execution[w].request \in Requests /\ request[execution[w].request].row # "absent"
       /\ execution[w].pc \in {"payload", "create"} =>
             /\ execution[w].name \in Names
             /\ execution[w].name = Extract(request[execution[w].request].body)
       /\ execution[w].failed => execution[w].pc = "report"

\* A task is held by a worker that executes it, of a workflow that is active and
\* has an attempt left.
WorkflowInv ==
    \A q \in Requests :
       /\ workflow[q].worker # Null =>
             /\ workflow[q].state = "active"
             /\ execution[workflow[q].worker].pc # "idle"
             /\ execution[workflow[q].worker].request = q
       /\ workflow[q].state = "active" => workflow[q].attempts < MaxAttempts

TypeInv == TypeOK /\ RowInv /\ PostingInv /\ ExecutionInv /\ WorkflowInv

LEMMA ExtractIsName == ASSUME NEW b \in Bodies PROVE Extract(b) \in Names \cup {Null}
<1>1. b \in Body
  BY AccountAssumptions DEF Assumptions
<1>2. \A i \in 1..4 : Candidates(b)[i] \in Names \cup {Blank}
  BY <1>1 DEF Body, Candidates
<1>3. ASSUME NEW k \in 1..4, Candidates(b)[k] # Blank
      PROVE  \E i \in 1..4 : /\ Candidates(b)[i] # Blank
                             /\ \A j \in 1..(i - 1) : Candidates(b)[j] = Blank
  <2>1. CASE Candidates(b)[1] # Blank
    BY <2>1
  <2>2. CASE Candidates(b)[1] = Blank /\ Candidates(b)[2] # Blank
    BY <2>2
  <2>3. CASE Candidates(b)[1] = Blank /\ Candidates(b)[2] = Blank /\ Candidates(b)[3] # Blank
    BY <2>3
  <2>4. CASE /\ Candidates(b)[1] = Blank /\ Candidates(b)[2] = Blank /\ Candidates(b)[3] = Blank
             /\ Candidates(b)[4] # Blank
    BY <2>4
  <2> QED BY <1>3, <2>1, <2>2, <2>3, <2>4
<1> QED BY <1>2, <1>3 DEF Extract

LEMMA NullIsNone ==
  /\ Null \notin Requests /\ Null \notin Releases /\ Null \notin Names
  /\ Null \notin Body /\ Null \notin Workers
BY AccountAssumptions DEF Assumptions

LEMMA FailCounts ==
  ASSUME TypeOK, NEW k, Fail(k) PROVE failures' \in 0..MaxFailures /\ failures' = failures + 1
BY AccountAssumptions DEF Assumptions, TypeOK, Fail

LEMMA TypeInit == Init => TypeInv
<1> SUFFICES ASSUME Init PROVE TypeInv
  OBVIOUS
<1> USE AccountAssumptions DEF Assumptions
<1>1. /\ NoRequest \in RequestRow /\ NoProfile \in ProfileRow /\ NoWorkflow \in Workflow
      /\ NoExecution \in Execution /\ NotPosting \in Posting
  BY DEF NoRequest, RequestRow, NoProfile, ProfileRow, NoWorkflow, Workflow, NoExecution,
         Execution, NotPosting, Posting
<1>2. TypeOK
  BY <1>1 DEF Init, TypeOK, NoWorkflow
<1> QED
  BY <1>2 DEF Init, TypeInv, RowInv, PostingInv, ExecutionInv, WorkflowInv, NoRequest, NoWorkflow,
              NoExecution, NotPosting

\* Goroutine h of the webhook is done with its report.
Answered(h) == posting' = [posting EXCEPT ![h] = NotPosting]

LEMMA PostReportKeepsTypes ==
  ASSUME TypeInv, NEW h \in Posts, NEW q \in Requests, NEW r \in Releases, NEW b \in Bodies,
         PostReport(h, q, r, b)
  PROVE  TypeInv'
<1> USE DEF TypeInv
<1> DEFINE new == [row |-> "live", release |-> r, body |-> b]
           mine == [pc |-> "start", request |-> q]
<1>1. new \in RequestRow /\ mine \in Posting
  BY AccountAssumptions DEF Assumptions, RequestRow, Posting
<1>2. /\ posting[h].pc = "idle" /\ request[q].row = "absent" /\ answer[q] = "none"
      /\ UNCHANGED <<withPayload, profile, workflow, execution, disabling>>
      /\ workflow[q].state = "none"
      /\ \A g \in Posts : posting[g].request # q
  <2>1. \A g \in Posts : posting[g].request # q
    BY NullIsNone DEF PostReport, PostingInv
  <2> QED BY <2>1 DEF PostReport, PostingInv
<1>3. \/ request' = request /\ posting' = posting
      \/ request' = [request EXCEPT ![q] = new] /\ posting' = posting
      \/ request' = [request EXCEPT ![q] = new] /\ posting' = [posting EXCEPT ![h] = mine] /\ answer' = answer
  BY DEF PostReport
<1>4. answer' = answer \/ answer' = [answer EXCEPT ![q] = "refused"] \/ answer' = [answer EXCEPT ![q] = "lost"]
  BY DEF PostReport
<1>5. failures' \in 0..MaxFailures
  BY FailCounts DEF PostReport, TypeOK
<1>6. TypeOK'
  BY <1>1, <1>2, <1>3, <1>4, <1>5 DEF TypeOK
<1>7. /\ \A p \in Requests \ {q} : request'[p] = request[p] /\ answer'[p] = answer[p]
      /\ request'[q] = request[q] \/ request'[q] = new
      /\ \A g \in Posts \ {h} : posting'[g] = posting[g]
      /\ \/ posting'[h] = posting[h]
         \/ posting'[h] = mine /\ request'[q] = new /\ answer'[q] = answer[q]
  BY <1>3, <1>4 DEF TypeOK
<1>8. RowInv'
  BY <1>7 DEF RowInv
<1>9. PostingInv'
  <2>1. ASSUME NEW g \in Posts, posting'[g].pc # "idle"
        PROVE  /\ posting'[g].request \in Requests
               /\ request'[posting'[g].request].row = "live"
               /\ answer'[posting'[g].request] = "none"
               /\ posting'[g].pc = "start" => workflow'[posting'[g].request].state = "none"
    <3>1. CASE posting'[g] = posting[g]
      BY <1>2, <1>7, <2>1, <3>1 DEF PostingInv
    <3>2. CASE g = h /\ posting'[h] = mine
      BY <1>2, <1>7, <3>2
    <3> QED BY <1>7, <3>1, <3>2
  <2>2. ASSUME NEW g \in Posts, posting'[g].pc = "idle" PROVE posting'[g].request = Null
    BY <1>2, <1>7, <2>2 DEF PostingInv
  <2>3. ASSUME NEW f \in Posts, NEW g \in Posts, posting'[f].pc # "idle", posting'[g].request = posting'[f].request
        PROVE  g = f
    BY <1>2, <1>7, <2>3 DEF PostingInv
  <2>4. ASSUME NEW p \in Requests, request'[p].row = "absent" PROVE workflow'[p].state = "none"
    BY <1>2, <1>7, <2>4 DEF PostingInv
  <2> QED BY <2>1, <2>2, <2>3, <2>4 DEF PostingInv
<1>10. ExecutionInv'
  BY <1>2, <1>7 DEF ExecutionInv
<1>11. WorkflowInv'
  BY <1>2 DEF WorkflowInv
<1> QED BY <1>6, <1>8, <1>9, <1>10, <1>11

\* A goroutine of the webhook that goes on with its report q, or is done with it.
LEMMA PostingKept ==
  ASSUME TypeInv, NEW h \in Posts, NEW q \in Requests, posting[h].pc # "idle", posting[h].request = q,
         posting' \in [Posts -> Posting], \A g \in Posts \ {h} : posting'[g] = posting[g],
         \A p \in Requests \ {q} : /\ request'[p] = request[p] /\ answer'[p] = answer[p]
                                   /\ workflow'[p] = workflow[p],
         request'[q].row # "absent",
         \/ posting'[h] = NotPosting
         \/ /\ posting'[h] = [pc |-> "remove", request |-> q]
            /\ request'[q].row = "live" /\ answer'[q] = "none"
  PROVE  PostingInv'
<1> USE DEF TypeInv
<1>1. \A g \in Posts \ {h} : posting[g].request # q
  BY DEF PostingInv
<1>2. q # Null
  BY NullIsNone
<1>3. ASSUME NEW g \in Posts, posting'[g].pc # "idle"
      PROVE  /\ posting'[g].request \in Requests
             /\ request'[posting'[g].request].row = "live"
             /\ answer'[posting'[g].request] = "none"
             /\ posting'[g].pc = "start" => workflow'[posting'[g].request].state = "none"
  <2>1. CASE g # h
    BY <1>1, <1>3, <2>1 DEF PostingInv
  <2>2. CASE g = h
    BY <1>3, <2>2 DEF NotPosting
  <2> QED BY <2>1, <2>2
<1>4. ASSUME NEW g \in Posts, posting'[g].pc = "idle" PROVE posting'[g].request = Null
  BY <1>4 DEF PostingInv, NotPosting
<1>5. ASSUME NEW f \in Posts, NEW g \in Posts, posting'[f].pc # "idle", posting'[g].request = posting'[f].request
      PROVE  g = f
  <2>1. posting'[f].request # Null
    BY <1>3, <1>5, NullIsNone
  <2> QED BY <1>1, <1>5, <2>1 DEF PostingInv, NotPosting
<1>6. ASSUME NEW p \in Requests, request'[p].row = "absent" PROVE workflow'[p].state = "none"
  BY <1>6 DEF PostingInv
<1> QED BY <1>3, <1>4, <1>5, <1>6 DEF PostingInv

LEMMA PostKeepsTypes ==
  ASSUME TypeInv, NEW h \in Posts, PostStep(h) \/ CrashWebhook(h) PROVE TypeInv'
<1> USE DEF TypeInv
<1>1. /\ posting[h].pc # "idle" /\ posting[h].request \in Requests
      /\ request[posting[h].request].row = "live"
      /\ posting[h].pc = "start" => workflow[posting[h].request].state = "none"
      /\ answer[posting[h].request] = "none"
  BY DEF PostStep, StartAccount, RemoveRequest, CrashWebhook, PostingInv
<1> PICK q \in Requests : q = posting[h].request
  BY <1>1
<1> DEFINE started == [NoWorkflow EXCEPT !.state = "active"]
           removing == [pc |-> "remove", request |-> q]
<1>2. started \in Workflow /\ removing \in Posting /\ NotPosting \in Posting
  BY AccountAssumptions DEF Assumptions, NoWorkflow, Workflow, Posting, NotPosting
<1>3. UNCHANGED <<withPayload, profile, execution, disabling>>
  BY DEF PostStep, StartAccount, RemoveRequest, CrashWebhook
<1>4. failures' \in 0..MaxFailures
  BY FailCounts DEF PostStep, StartAccount, RemoveRequest, CrashWebhook, TypeOK
<1>5. \/ posting' = [posting EXCEPT ![h] = NotPosting]
      \/ posting' = [posting EXCEPT ![h] = removing] /\ request' = request /\ answer' = answer
  <2>1. CASE posting' = [posting EXCEPT ![h].pc = "remove"]
    <3>1. [posting[h] EXCEPT !.pc = "remove"] = removing
      BY DEF TypeOK, Posting
    <3>2. posting' = [posting EXCEPT ![h] = removing]
      BY <2>1, <3>1
    <3>3. removing # NotPosting
      BY DEF NotPosting
    <3>4. posting'[h] = removing
      BY <3>2 DEF TypeOK
    <3>5. request' = request /\ answer' = answer
      <4>1. CASE posting' = [posting EXCEPT ![h] = NotPosting]
        BY <3>3, <3>4, <4>1 DEF TypeOK
      <4> QED BY <4>1 DEF PostStep, StartAccount, RemoveRequest, CrashWebhook
    <3> QED BY <3>2, <3>5
  <2> QED BY <2>1 DEF PostStep, StartAccount, RemoveRequest, CrashWebhook
<1>6. request' = request \/ request' = [request EXCEPT ![q].row = "removed"]
  BY DEF PostStep, StartAccount, RemoveRequest, CrashWebhook
<1>7. \/ workflow' = workflow
      \/ workflow' = [workflow EXCEPT ![q] = started] /\ workflow[q].state = "none"
  BY <1>1 DEF PostStep, StartAccount, RemoveRequest, CrashWebhook, Started
<1>8. answer' = answer \/ \E a \in {"accepted", "refused"} : answer' = [answer EXCEPT ![q] = a]
  BY DEF PostStep, StartAccount, RemoveRequest, CrashWebhook
<1>9. /\ request' \in [Requests -> RequestRow]
      /\ \A p \in Requests : /\ request'[p].body = request[p].body
                             /\ request'[p].release = request[p].release
                             /\ (request'[p].row = "absent") = (request[p].row = "absent")
      /\ \A p \in Requests \ {q} : request'[p] = request[p]
      /\ request'[q].row # "absent"
  <2>1. CASE request' = request
    BY <1>1, <2>1 DEF TypeOK
  <2>2. CASE request' = [request EXCEPT ![q].row = "removed"]
    <3>1. /\ [request[q] EXCEPT !.row = "removed"] \in RequestRow
          /\ [request[q] EXCEPT !.row = "removed"].row = "removed"
          /\ [request[q] EXCEPT !.row = "removed"].body = request[q].body
          /\ [request[q] EXCEPT !.row = "removed"].release = request[q].release
      BY DEF TypeOK, RequestRow
    <3>2. request' = [request EXCEPT ![q] = [request[q] EXCEPT !.row = "removed"]]
      BY <2>2
    <3> QED BY <1>1, <3>1, <3>2 DEF TypeOK
  <2> QED BY <1>6, <2>1, <2>2
<1>10. /\ \A p \in Requests \ {q} : workflow'[p] = workflow[p] /\ answer'[p] = answer[p]
       /\ workflow' \in [Requests -> Workflow]
       /\ \/ workflow'[q] = workflow[q]
          \/ workflow'[q] = started /\ workflow[q].state = "none"
  BY <1>2, <1>7, <1>8 DEF TypeOK
<1>11. \A p \in Requests : workflow'[p].worker # Null => workflow'[p] = workflow[p]
  BY <1>10 DEF NoWorkflow
<1>12. TypeOK'
  BY <1>2, <1>3, <1>4, <1>5, <1>8, <1>9, <1>10, <1>11 DEF TypeOK
<1>13. RowInv'
  BY <1>9 DEF RowInv
<1>14. PostingInv'
  <2>1. posting' \in [Posts -> Posting] /\ \A g \in Posts \ {h} : posting'[g] = posting[g]
    BY <1>2, <1>5 DEF TypeOK
  <2>2. \/ posting'[h] = NotPosting
        \/ posting'[h] = removing /\ request'[q].row = "live" /\ answer'[q] = "none"
    BY <1>1, <1>5 DEF TypeOK
  <2> QED BY <1>1, <1>9, <1>10, <2>1, <2>2, PostingKept
<1>15. ExecutionInv'
  BY <1>3, <1>9 DEF ExecutionInv
<1>16. WorkflowInv'
  <2>1. 0 < MaxAttempts
    BY AccountAssumptions DEF Assumptions
  <2> QED BY <1>3, <1>10, <2>1 DEF WorkflowInv, NoWorkflow
<1> QED BY <1>12, <1>13, <1>14, <1>15, <1>16

\* What an activity does to the execution of its worker: it goes on to execution e.
GoesOn(w, e) == execution' = [execution EXCEPT ![w] = e]

LEMMA FinishGoesOn ==
  ASSUME TypeOK, NEW w \in Workers, NEW failed \in BOOLEAN, Finish(w, failed)
  PROVE  GoesOn(w, [execution[w] EXCEPT !.pc = "report", !.failed = failed])
BY DEF Finish, GoesOn

\* What the steps of the activity before its report have in common.
LEMMA ActivityMoves ==
  ASSUME TypeInv, NEW w \in Workers, LoadRequest(w) \/ LoadPayload(w) \/ CreateProfile(w)
  PROVE  /\ execution[w].pc \in {"load", "payload", "create"}
         /\ \A v \in Workers \ {w} : execution'[v] = execution[v]
         /\ execution' \in [Workers -> Execution]
         /\ execution'[w].request = execution[w].request
         /\ execution'[w].pc \in {"payload", "create", "report"}
         /\ execution'[w].pc \in {"payload", "create"} =>
               /\ execution'[w].name \in Names
               /\ execution'[w].name = Extract(request[execution[w].request].body)
         /\ execution'[w].failed => execution'[w].pc = "report"
         /\ failures' \in 0..MaxFailures
         /\ UNCHANGED <<request, withPayload, workflow, posting, disabling, answer>>
<1> USE DEF TypeInv
<1>0. /\ UNCHANGED <<request, withPayload, workflow, posting, disabling, answer>>
      /\ execution[w].pc \in {"load", "payload", "create"}
  BY DEF LoadRequest, LoadPayload, CreateProfile
<1>1. failures' \in 0..MaxFailures
  BY FailCounts DEF LoadRequest, LoadPayload, CreateProfile, TypeOK
<1>2. execution[w] \in Execution /\ ~execution[w].failed
  BY <1>0 DEF TypeOK, ExecutionInv
<1>3. CASE \E failed \in BOOLEAN : Finish(w, failed)
  <2>1. PICK failed \in BOOLEAN : Finish(w, failed)
    BY <1>3
  <2> DEFINE e == [execution[w] EXCEPT !.pc = "report", !.failed = failed]
  <2>2. GoesOn(w, e)
    BY <2>1, FinishGoesOn
  <2>3. e \in Execution /\ e.pc = "report" /\ e.request = execution[w].request
    BY <1>2 DEF Execution
  <2>4. execution'[w] = e /\ execution' \in [Workers -> Execution]
        /\ \A v \in Workers \ {w} : execution'[v] = execution[v]
    BY <2>2, <2>3 DEF GoesOn, TypeOK
  <2> HIDE DEF e
  <2> QED BY <1>0, <1>1, <2>3, <2>4
<1>4. CASE /\ execution[w].pc = "load" /\ Extract(request[execution[w].request].body) \in Names
           /\ execution' = [execution EXCEPT ![w].pc = "payload",
                                             ![w].name = Extract(request[execution[w].request].body)]
  <2> DEFINE n == Extract(request[execution[w].request].body)
             e == [execution[w] EXCEPT !.pc = "payload", !.name = n]
  <2>1. execution' = [execution EXCEPT ![w] = e]
    BY <1>4
  <2>2. e \in Execution /\ e.pc = "payload" /\ e.request = execution[w].request /\ e.name = n
        /\ e.failed = execution[w].failed
    <3> HIDE DEF n
    <3> QED BY <1>2, <1>4 DEF Execution, n
  <2>4. execution'[w] = e /\ execution' \in [Workers -> Execution]
        /\ \A v \in Workers \ {w} : execution'[v] = execution[v]
    <3> HIDE DEF e
    <3> QED BY <2>1, <2>2 DEF TypeOK
  <2> HIDE DEF e
  <2> QED BY <1>0, <1>1, <1>2, <1>4, <2>2, <2>4
<1>5. CASE execution[w].pc = "payload" /\ execution' = [execution EXCEPT ![w].pc = "create"]
  <2> DEFINE e == [execution[w] EXCEPT !.pc = "create"]
  <2>1. execution' = [execution EXCEPT ![w] = e]
    BY <1>5
  <2>2. e \in Execution /\ e.pc = "create" /\ e.request = execution[w].request
        /\ e.name = execution[w].name /\ e.failed = execution[w].failed
    BY <1>2 DEF Execution
  <2>4. execution'[w] = e /\ execution' \in [Workers -> Execution]
        /\ \A v \in Workers \ {w} : execution'[v] = execution[v]
    <3> HIDE DEF e
    <3> QED BY <2>1, <2>2 DEF TypeOK
  <2>5. execution[w].name \in Names /\ execution[w].name = Extract(request[execution[w].request].body)
    BY <1>5 DEF ExecutionInv
  <2> HIDE DEF e
  <2> QED BY <1>0, <1>1, <1>2, <2>2, <2>4, <2>5
<1>6. CASE LoadRequest(w)
  <2>1. CASE \E failed \in BOOLEAN : Finish(w, failed)
    BY <1>3, <2>1
  <2>2. CASE ~\E failed \in BOOLEAN : Finish(w, failed)
    <3>1. /\ execution[w].pc = "load" /\ request[execution[w].request].row = "live"
          /\ Extract(request[execution[w].request].body) # Null
          /\ execution' = [execution EXCEPT ![w].pc = "payload",
                                            ![w].name = Extract(request[execution[w].request].body)]
      BY <1>6, <2>2 DEF LoadRequest
    <3>2. request[execution[w].request].body \in Bodies
      BY <3>1 DEF ExecutionInv, RowInv
    <3> QED BY <1>4, <3>1, <3>2, ExtractIsName
  <2> QED BY <2>1, <2>2
<1>7. CASE LoadPayload(w)
  <2>1. \/ Finish(w, TRUE)
        \/ execution[w].pc = "payload" /\ execution' = [execution EXCEPT ![w].pc = "create"]
    BY <1>7 DEF LoadPayload
  <2>2. CASE Finish(w, TRUE)
    BY <1>3, <2>2
  <2>3. CASE execution[w].pc = "payload" /\ execution' = [execution EXCEPT ![w].pc = "create"]
    BY <1>5, <2>3
  <2> QED BY <2>1, <2>2, <2>3
<1>8. CASE CreateProfile(w)
  <2>1. Finish(w, TRUE) \/ Finish(w, FALSE)
    <3>1. CASE execution[w].name \in LongNames
      BY <1>8, <3>1 DEF CreateProfile, Finish
    <3>2. CASE execution[w].name \notin LongNames
      BY <1>8, <3>2 DEF CreateProfile, Finish
    <3> QED BY <3>1, <3>2
  <2> QED BY <1>3, <2>1
<1> QED BY <1>6, <1>7, <1>8

\* Profiles change only where the activity makes one or one is disabled.
LEMMA CreationKeepsProfiles ==
  ASSUME TypeInv, NEW w \in Workers, LoadRequest(w) \/ LoadPayload(w) \/ CreateProfile(w)
  PROVE  /\ profile' \in [Names -> ProfileRow]
         /\ \A n \in Names : profile[n].row = "live" => profile'[n] = profile[n]
<1>1. CASE profile' = profile
  BY <1>1 DEF TypeInv, TypeOK
<1>2. CASE profile' # profile
  <2>1. /\ profile[execution[w].name].row = "absent" /\ execution[w].pc = "create"
        /\ Made(execution[w].name, request[execution[w].request].release)
    BY <1>2 DEF LoadRequest, LoadPayload, CreateProfile
  <2>2. /\ execution[w].name \in Names
        /\ request[execution[w].request].release \in Releases
    BY <2>1 DEF TypeInv, ExecutionInv, RowInv
  <2> DEFINE made == [NoProfile EXCEPT !.row = "live", !.system = request[execution[w].request].release]
  <2>3. made \in ProfileRow
    BY <2>2 DEF NoProfile, ProfileRow
  <2>4. profile' = [profile EXCEPT ![execution[w].name] = made]
    BY <2>1 DEF Made
  <2> HIDE DEF made
  <2> QED BY <2>1, <2>2, <2>3, <2>4 DEF TypeInv, TypeOK
<1> QED BY <1>1, <1>2

LEMMA ActivityKeepsTypes ==
  ASSUME TypeInv, NEW w \in Workers, LoadRequest(w) \/ LoadPayload(w) \/ CreateProfile(w)
  PROVE  TypeInv'
<1> USE DEF TypeInv
<1>0. /\ execution[w].pc \in {"load", "payload", "create"}
      /\ \A v \in Workers \ {w} : execution'[v] = execution[v]
      /\ execution' \in [Workers -> Execution]
      /\ execution'[w].request = execution[w].request
      /\ execution'[w].pc \in {"payload", "create", "report"}
      /\ execution'[w].pc \in {"payload", "create"} =>
            /\ execution'[w].name \in Names
            /\ execution'[w].name = Extract(request[execution[w].request].body)
      /\ execution'[w].failed => execution'[w].pc = "report"
      /\ failures' \in 0..MaxFailures
      /\ UNCHANGED <<request, withPayload, workflow, posting, disabling, answer>>
  BY ActivityMoves
<1>1. \A v \in Workers : execution'[v].request = execution[v].request
  BY <1>0
<1>2. TypeOK'
  <2>1. profile' \in [Names -> ProfileRow]
    BY CreationKeepsProfiles
  <2> QED BY <1>0, <1>1, <2>1 DEF TypeOK, Workflow
<1>3. RowInv' /\ PostingInv'
  BY <1>0 DEF RowInv, PostingInv
<1>4. ExecutionInv'
  BY <1>0, <1>1 DEF ExecutionInv
<1>5. WorkflowInv'
  <2>1. \A v \in Workers : execution[v].pc # "idle" => execution'[v].pc # "idle"
    BY <1>0
  <2> QED BY <1>0, <1>1, <2>1 DEF WorkflowInv, TypeOK, Workflow
<1> QED BY <1>2, <1>3, <1>4, <1>5

LEMMA TakeKeepsTypes ==
  ASSUME TypeInv, NEW w \in Workers, NEW q \in Requests, TakeTask(w, q) PROVE TypeInv'
<1> USE DEF TypeInv
<1> DEFINE e == [NoExecution EXCEPT !.pc = "load", !.request = q]
           f == [state |-> workflow[q].state, attempts |-> workflow[q].attempts, worker |-> w]
<1>1. /\ execution[w].pc = "idle" /\ workflow[q].state = "active" /\ workflow[q].worker = Null
      /\ UNCHANGED <<request, withPayload, profile, posting, disabling, answer, failures>>
  BY DEF TakeTask
<1>2. execution' = [execution EXCEPT ![w] = e]
  BY DEF TakeTask
<1>3. workflow' = [workflow EXCEPT ![q] = f]
  <2>1. [workflow[q] EXCEPT !.worker = w] = f
    BY DEF TypeOK, Workflow
  <2> QED BY <2>1 DEF TakeTask
<1>4. /\ e \in Execution /\ f \in Workflow
      /\ e.pc = "load" /\ e.request = q /\ e.failed = FALSE
      /\ f.state = workflow[q].state /\ f.attempts = workflow[q].attempts /\ f.worker = w
  BY DEF NoExecution, Execution, TypeOK, Workflow
<1> HIDE DEF e, f
<1>5. /\ execution'[w] = e /\ workflow'[q] = f
      /\ \A v \in Workers \ {w} : execution'[v] = execution[v]
      /\ \A p \in Requests \ {q} : workflow'[p] = workflow[p] /\ workflow[p].worker # w
      /\ execution' \in [Workers -> Execution] /\ workflow' \in [Requests -> Workflow]
  BY <1>1, <1>2, <1>3, <1>4, NullIsNone DEF TypeOK, WorkflowInv
<1>6. TypeOK'
  BY <1>1, <1>4, <1>5 DEF TypeOK, Workflow
<1>7. request[q].row # "absent"
  BY <1>1 DEF PostingInv
<1>8. RowInv' /\ PostingInv'
  <2>1. RowInv'
    BY <1>1 DEF RowInv
  <2>2. \A p \in Requests : workflow[p].state = workflow'[p].state
    BY <1>4, <1>5
  <2> QED BY <1>1, <2>1, <2>2 DEF PostingInv
<1>9. ExecutionInv'
  BY <1>1, <1>4, <1>5, <1>7 DEF ExecutionInv
<1>10. WorkflowInv'
  BY <1>1, <1>4, <1>5, NullIsNone DEF WorkflowInv, TypeOK, Workflow
<1> QED BY <1>6, <1>8, <1>9, <1>10

\* A worker that stops executing: its task is free again, or it had lost it.
LEMMA StopKeepsTypes ==
  ASSUME TypeInv, NEW w \in Workers, execution[w].pc # "idle",
         UNCHANGED <<request, withPayload, profile, posting, disabling, answer>>,
         failures' \in 0..MaxFailures,
         execution' = [execution EXCEPT ![w] = NoExecution],
         workflow' \in [Requests -> Workflow],
         \A p \in Requests : /\ workflow[p].worker # w => workflow'[p] = workflow[p]
                             /\ workflow[p].worker = w =>
                                   /\ workflow'[p].worker = Null /\ workflow'[p].state # "none"
                                   /\ workflow'[p].state = "active" =>
                                         workflow'[p].attempts < MaxAttempts
  PROVE  TypeInv'
<1> USE DEF TypeInv
<1>1. NoExecution \in Execution
  BY DEF NoExecution, Execution
<1>2. /\ execution'[w] = NoExecution /\ execution' \in [Workers -> Execution]
      /\ \A v \in Workers \ {w} : execution'[v] = execution[v]
  BY <1>1 DEF TypeOK
<1>3. \A p \in Requests : workflow'[p].worker # Null => workflow'[p] = workflow[p] /\ workflow[p].worker # w
  OBVIOUS
<1>4. TypeOK'
  BY <1>2, <1>3 DEF TypeOK, Workflow
<1>5. RowInv'
  BY DEF RowInv
<1>6. PostingInv'
  <2>1. \A p \in Requests : (workflow'[p].state = "none") = (workflow[p].state = "none")
    BY NullIsNone DEF WorkflowInv
  <2> QED BY <2>1 DEF PostingInv
<1>7. ExecutionInv'
  BY <1>2 DEF ExecutionInv, NoExecution
<1>8. WorkflowInv'
  <2> SUFFICES ASSUME NEW p \in Requests
               PROVE  /\ workflow'[p].worker # Null =>
                            /\ workflow'[p].state = "active"
                            /\ execution'[workflow'[p].worker].pc # "idle"
                            /\ execution'[workflow'[p].worker].request = p
                      /\ workflow'[p].state = "active" => workflow'[p].attempts < MaxAttempts
    BY DEF WorkflowInv
  <2>1. CASE workflow[p].worker = w
    BY <2>1
  <2>2. CASE workflow[p].worker # w
    <3>1. workflow'[p] = workflow[p]
      BY <2>2
    <3>2. workflow[p].worker \in Workers \cup {Null}
      BY DEF TypeOK, Workflow
    <3> QED BY <1>2, <2>2, <3>1, <3>2 DEF WorkflowInv
  <2> QED BY <2>1, <2>2
<1> QED BY <1>4, <1>5, <1>6, <1>7, <1>8

LEMMA ReportKeepsTypes ==
  ASSUME TypeInv, NEW w \in Workers, ReportResult(w) PROVE TypeInv'
<1> USE DEF TypeInv
<1>1. execution[w].pc = "report" /\ execution[w].request \in Requests
  BY DEF ReportResult, ExecutionInv
<1> PICK q \in Requests : q = execution[w].request
  BY <1>1
<1>2. failures' \in 0..MaxFailures
  BY DEF ReportResult, TypeOK
<1>3. \A p \in Requests \ {q} : workflow[p].worker # w
  BY NullIsNone DEF WorkflowInv
<1>4. CASE workflow[q].worker # w
  <2>1. workflow' = workflow
    BY <1>4 DEF ReportResult
  <2> QED BY <1>1, <1>2, <1>3, <1>4, <2>1, StopKeepsTypes DEF ReportResult, TypeOK
<1>5. CASE workflow[q].worker = w
  <2> DEFINE tries == workflow[q].attempts + 1
             f == [state |-> IF ~execution[w].failed THEN "done"
                             ELSE IF tries < MaxAttempts THEN "active" ELSE "failed",
                   attempts |-> tries, worker |-> Null]
  <2>1. workflow' = [workflow EXCEPT ![q] = f]
    BY <1>5 DEF ReportResult
  <2>2. /\ f \in Workflow /\ f.state # "none" /\ f.worker = Null
        /\ f.state = "active" => f.attempts < MaxAttempts
    <3>1. workflow[q].attempts \in 0..MaxAttempts /\ workflow[q].attempts < MaxAttempts
      BY <1>5, NullIsNone DEF TypeOK, Workflow, WorkflowInv
    <3> QED BY <3>1, AccountAssumptions DEF Assumptions, Workflow
  <2>3. workflow'[q] = f /\ workflow' \in [Requests -> Workflow]
        /\ \A p \in Requests \ {q} : workflow'[p] = workflow[p]
    <3> HIDE DEF f
    <3> QED BY <2>1, <2>2 DEF TypeOK
  <2> HIDE DEF f
  <2>4. /\ execution' = [execution EXCEPT ![w] = NoExecution]
        /\ UNCHANGED <<request, withPayload, profile, posting, disabling, answer>>
    BY DEF ReportResult
  <2>5. \A p \in Requests : /\ workflow[p].worker # w => workflow'[p] = workflow[p]
                            /\ workflow[p].worker = w =>
                                  /\ workflow'[p].worker = Null /\ workflow'[p].state # "none"
                                  /\ workflow'[p].state = "active" =>
                                        workflow'[p].attempts < MaxAttempts
    BY <1>3, <1>5, <2>2, <2>3
  <2> QED BY <1>1, <1>2, <2>3, <2>4, <2>5, StopKeepsTypes
<1> QED BY <1>4, <1>5

LEMMA CrashKeepsTypes ==
  ASSUME TypeInv, NEW w \in Workers, CrashWorker(w) PROVE TypeInv'
<1> USE DEF TypeInv
<1>1. execution[w].pc # "idle" /\ execution[w].request \in Requests
  BY DEF CrashWorker, ExecutionInv
<1> PICK q \in Requests : q = execution[w].request
  BY <1>1
<1>2. failures' \in 0..MaxFailures
  BY FailCounts DEF CrashWorker
<1>3. \A p \in Requests \ {q} : workflow[p].worker # w
  BY NullIsNone DEF WorkflowInv
<1>4. CASE workflow[q].worker # w
  <2>1. workflow' = workflow
    BY <1>4 DEF CrashWorker
  <2> QED BY <1>1, <1>2, <1>3, <1>4, <2>1, StopKeepsTypes DEF CrashWorker, TypeOK
<1>5. CASE workflow[q].worker = w
  <2> DEFINE f == [workflow[q] EXCEPT !.worker = Null]
  <2>1. workflow' = [workflow EXCEPT ![q] = f]
    BY <1>5 DEF CrashWorker
  <2>2. /\ f \in Workflow /\ f.state = "active" /\ f.worker = Null /\ f.attempts < MaxAttempts
    BY <1>5, NullIsNone DEF TypeOK, Workflow, WorkflowInv
  <2>3. workflow'[q] = f /\ workflow' \in [Requests -> Workflow]
        /\ \A p \in Requests \ {q} : workflow'[p] = workflow[p]
    <3> HIDE DEF f
    <3> QED BY <2>1, <2>2 DEF TypeOK
  <2> HIDE DEF f
  <2>4. /\ execution' = [execution EXCEPT ![w] = NoExecution]
        /\ UNCHANGED <<request, withPayload, profile, posting, disabling, answer>>
    BY DEF CrashWorker
  <2>5. \A p \in Requests : /\ workflow[p].worker # w => workflow'[p] = workflow[p]
                            /\ workflow[p].worker = w =>
                                  /\ workflow'[p].worker = Null /\ workflow'[p].state # "none"
                                  /\ workflow'[p].state = "active" =>
                                        workflow'[p].attempts < MaxAttempts
    BY <1>3, <1>5, <2>2, <2>3
  <2> QED BY <1>1, <1>2, <2>3, <2>4, <2>5, StopKeepsTypes
<1> QED BY <1>4, <1>5

LEMMA RedeliveryKeepsTypes ==
  ASSUME TypeInv, NEW q \in Requests, RedeliverTask(q) PROVE TypeInv'
<1> USE DEF TypeInv
<1> DEFINE f == [workflow[q] EXCEPT !.worker = Null]
<1>1. workflow' = [workflow EXCEPT ![q] = f]
      /\ UNCHANGED <<request, withPayload, profile, execution, posting, disabling, answer>>
  BY DEF RedeliverTask
<1>2. /\ f \in Workflow /\ f.state = workflow[q].state /\ f.worker = Null
      /\ f.attempts = workflow[q].attempts
  BY DEF TypeOK, Workflow
<1>3. workflow'[q] = f /\ workflow' \in [Requests -> Workflow]
      /\ \A p \in Requests \ {q} : workflow'[p] = workflow[p]
  <2> HIDE DEF f
  <2> QED BY <1>1, <1>2 DEF TypeOK
<1> HIDE DEF f
<1>4. failures' \in 0..MaxFailures
  BY FailCounts DEF RedeliverTask
<1>5. \A p \in Requests : /\ workflow'[p].state = workflow[p].state
                          /\ workflow'[p].attempts = workflow[p].attempts
                          /\ workflow'[p].worker # Null => workflow'[p] = workflow[p]
  BY <1>2, <1>3
<1>6. TypeOK'
  BY <1>1, <1>3, <1>4, <1>5 DEF TypeOK, Workflow
<1>7. RowInv' /\ ExecutionInv'
  BY <1>1 DEF RowInv, ExecutionInv
<1>8. PostingInv'
  <2>1. \A h \in Posts : posting[h].pc # "idle" => posting[h].request \in Requests
    BY DEF PostingInv
  <2> QED BY <1>1, <1>5, <2>1 DEF PostingInv
<1>9. WorkflowInv'
  BY <1>1, <1>5 DEF WorkflowInv
<1> QED BY <1>6, <1>7, <1>8, <1>9

\* The calls of Payload.Delete and Account.Disable: what they leave alone, and
\* what they do to profiles.
LEMMA CallKeepsTypes ==
  ASSUME TypeInv,
         \/ \E r \in Releases : DeletePayload(r)
         \/ \E c \in Callers : WriteDisabled(c) \/ \E n \in Names : FindProfile(c, n)
  PROVE  /\ TypeInv'
         /\ UNCHANGED <<request, workflow, execution, posting, answer>>
         /\ failures' \in {failures, failures + 1}
         /\ withPayload' \subseteq withPayload
         /\ \A n \in Names : /\ profile'[n].system = profile[n].system
                             /\ profile[n].status = "disabled" => profile'[n].status = "disabled"
<1> USE DEF TypeInv
<1>1. UNCHANGED <<request, workflow, execution, posting, answer>>
  BY DEF DeletePayload, WriteDisabled, FindProfile
<1>2. RowInv' /\ PostingInv' /\ ExecutionInv' /\ WorkflowInv'
  BY <1>1 DEF RowInv, PostingInv, ExecutionInv, WorkflowInv
<1>3. failures' \in 0..MaxFailures /\ failures' \in {failures, failures + 1}
  BY FailCounts DEF DeletePayload, WriteDisabled, FindProfile, TypeOK
<1>4. CASE UNCHANGED profile /\ withPayload' \subseteq withPayload
           /\ disabling' \in [Callers -> Names \cup {Null}]
  <2>1. TypeOK'
    BY <1>1, <1>3, <1>4 DEF TypeOK
  <2> QED BY <1>1, <1>2, <1>3, <1>4, <2>1
<1>5. ASSUME NEW r \in Releases, DeletePayload(r)
      PROVE  UNCHANGED profile /\ withPayload' \subseteq withPayload
             /\ disabling' \in [Callers -> Names \cup {Null}]
  BY <1>5 DEF DeletePayload, TypeOK
<1>6. ASSUME NEW c \in Callers, NEW n \in Names, FindProfile(c, n)
      PROVE  UNCHANGED profile /\ withPayload' \subseteq withPayload
             /\ disabling' \in [Callers -> Names \cup {Null}]
  BY <1>6 DEF FindProfile, TypeOK
<1>7. ASSUME NEW c \in Callers, WriteDisabled(c)
      PROVE  /\ TypeOK' /\ withPayload' \subseteq withPayload
             /\ \A n \in Names : /\ profile'[n].system = profile[n].system
                                 /\ profile[n].status = "disabled" => profile'[n].status = "disabled"
  <2>1. /\ disabling[c] \in Names /\ withPayload' = withPayload
        /\ disabling' \in [Callers -> Names \cup {Null}]
    BY <1>7 DEF WriteDisabled, TypeOK
  <2>2. CASE UNCHANGED profile
    BY <1>1, <1>3, <2>1, <2>2 DEF TypeOK
  <2>3. CASE profile' = [profile EXCEPT ![disabling[c]].status = "disabled"]
    <3> DEFINE row == [profile[disabling[c]] EXCEPT !.status = "disabled"]
    <3>1. row \in ProfileRow /\ row.system = profile[disabling[c]].system /\ row.status = "disabled"
      BY <2>1 DEF TypeOK, ProfileRow
    <3>2. profile' = [profile EXCEPT ![disabling[c]] = row]
      BY <2>3
    <3> HIDE DEF row
    <3>3. /\ profile' \in [Names -> ProfileRow]
          /\ \A n \in Names : /\ profile'[n].system = profile[n].system
                              /\ profile[n].status = "disabled" => profile'[n].status = "disabled"
      BY <2>1, <3>1, <3>2 DEF TypeOK
    <3> QED BY <1>1, <1>3, <2>1, <3>3 DEF TypeOK
  <2> QED BY <1>7, <2>2, <2>3 DEF WriteDisabled
<1> QED BY <1>1, <1>2, <1>3, <1>4, <1>5, <1>6, <1>7

LEMMA TypeStep == TypeInv /\ [Next]_vars => TypeInv'
<1> SUFFICES ASSUME TypeInv, [Next]_vars PROVE TypeInv'
  OBVIOUS
<1>1. ASSUME NEW h \in Posts, NEW q \in Requests, NEW r \in Releases, NEW b \in Bodies,
             PostReport(h, q, r, b)
      PROVE  TypeInv'
  BY <1>1, PostReportKeepsTypes
<1>2. ASSUME NEW h \in Posts, PostStep(h) \/ CrashWebhook(h) PROVE TypeInv'
  BY <1>2, PostKeepsTypes
<1>3. CASE \/ \E r \in Releases : DeletePayload(r)
           \/ \E c \in Callers : WriteDisabled(c) \/ \E n \in Names : FindProfile(c, n)
  BY <1>3, CallKeepsTypes
<1>4. ASSUME NEW q \in Requests, RedeliverTask(q) PROVE TypeInv'
  BY <1>4, RedeliveryKeepsTypes
<1>5. ASSUME NEW q \in Requests, NEW w \in Workers, TakeTask(w, q) PROVE TypeInv'
  BY <1>5, TakeKeepsTypes
<1>6. ASSUME NEW w \in Workers, LoadRequest(w) \/ LoadPayload(w) \/ CreateProfile(w) PROVE TypeInv'
  BY <1>6, ActivityKeepsTypes
<1>7. ASSUME NEW w \in Workers, ReportResult(w) \/ CrashWorker(w) PROVE TypeInv'
  BY <1>7, ReportKeepsTypes, CrashKeepsTypes
<1>8. CASE UNCHANGED vars
  BY <1>8 DEF vars, TypeInv, TypeOK, RowInv, PostingInv, ExecutionInv, WorkflowInv
<1> QED BY <1>1, <1>2, <1>3, <1>4, <1>5, <1>6, <1>7, <1>8 DEF Next, ActivityStep

LEMMA TypesHold == Spec => []TypeInv
BY TypeInit, TypeStep, PTL DEF Spec

\* In every state the variables have their types, whatever fails: rows, profiles,
\* executions and workflows are those of models/request.go:10-17 and
\* models/account.go:16-24, and a task is held by a worker that executes it
\* (request/handler.go:92-121, jobs/account.go:22-87).
THEOREM TypeCorrect == Spec => []TypeOK
<1>1. TypeInv => TypeOK
  BY DEF TypeInv
<1> QED BY <1>1, TypesHold, PTL

-----------------------------------------------------------------------------
(* Profiles *)

\* A profile never changes its system, and a profile that was disabled stays so,
\* whichever reports arrive, are repeated or executed twice, and whoever disables
\* it meanwhile (jobs/account.go:78-82, service/account.go:54-72).
THEOREM ProfilesStayFinal == Spec => ProfilesAreFinal
<1> DEFINE Kept == \A n \in Names : profile[n].row = "live" =>
                     /\ profile'[n].system = profile[n].system
                     /\ profile[n].status = "disabled" => profile'[n].status = "disabled"
<1>1. TypeInv /\ [Next]_vars => [Kept]_vars
  <2> SUFFICES ASSUME TypeInv, [Next]_vars PROVE Kept
    OBVIOUS
  <2>1. CASE UNCHANGED profile
    BY <2>1
  <2>2. ASSUME NEW w \in Workers, CreateProfile(w) PROVE Kept
    BY <2>2, CreationKeepsProfiles
  <2>3. ASSUME NEW c \in Callers, WriteDisabled(c) PROVE Kept
    <3>1. \E d \in Callers : WriteDisabled(d) \/ \E n \in Names : FindProfile(d, n)
      BY <2>3 DEF WriteDisabled, FindProfile
    <3> QED BY <3>1, CallKeepsTypes
  <2>4. UNCHANGED profile \/ (\E w \in Workers : CreateProfile(w)) \/ \E c \in Callers : WriteDisabled(c)
    BY DEF Next, vars, PostStep, ActivityStep, PostReport, StartAccount, RemoveRequest, CrashWebhook,
           DeletePayload, RedeliverTask, TakeTask, LoadRequest, LoadPayload, ReportResult, CrashWorker,
           FindProfile
  <2> HIDE DEF Kept
  <2> QED BY <2>1, <2>2, <2>3, <2>4
<1> QED BY <1>1, TypesHold, PTL DEF Spec, ProfilesAreFinal

\* What a step of a goroutine of the webhook does to the report it handles: it
\* starts the workflow and accepts the report, turns to the removal of the row,
\* removes it or fails to, or stops.
LEMMA PostMoves ==
  ASSUME TypeInv, NEW h \in Posts, PostStep(h) \/ CrashWebhook(h)
  PROVE  \E q \in Requests :
           /\ posting[h].pc # "idle" /\ posting[h].request = q
           /\ request[q].row = "live" /\ answer[q] = "none"
           /\ UNCHANGED <<withPayload, execution>>
           /\ \A p \in Requests \ {q} : /\ request'[p] = request[p] /\ answer'[p] = answer[p]
                                        /\ workflow'[p] = workflow[p]
           /\ \A g \in Posts \ {h} : posting'[g] = posting[g]
           /\ request'[q].release = request[q].release /\ request'[q].body = request[q].body
           /\ workflow'[q] = workflow[q] \/ workflow'[q] = [NoWorkflow EXCEPT !.state = "active"]
           /\ \/ /\ request'[q].row = "live" /\ answer'[q] = "accepted" /\ failures' = failures
                 /\ workflow'[q] = [NoWorkflow EXCEPT !.state = "active"]
                 /\ posting[h].pc = "start" /\ posting'[h] = NotPosting
              \/ /\ request'[q].row = "live" /\ answer'[q] = "none" /\ failures' = failures + 1
                 /\ posting'[h] = [pc |-> "remove", request |-> q]
              \/ /\ request'[q].row = "removed" /\ answer'[q] = "refused" /\ failures' = failures
                 /\ posting[h].pc = "remove" /\ posting'[h] = NotPosting
              \/ /\ request'[q].row = "live" /\ answer'[q] = "refused" /\ failures' = failures + 1
                 /\ posting[h].pc = "remove" /\ posting'[h] = NotPosting
              \/ /\ request'[q].row = "live" /\ answer'[q] = "none" /\ failures' = failures + 1
                 /\ posting'[h] = NotPosting
<1>1. /\ posting[h].pc # "idle" /\ posting[h].request \in Requests
      /\ request[posting[h].request].row = "live" /\ answer[posting[h].request] = "none"
  BY DEF PostStep, StartAccount, RemoveRequest, CrashWebhook, TypeInv, PostingInv
<1> PICK q \in Requests : q = posting[h].request
  BY <1>1
<1> DEFINE started == [NoWorkflow EXCEPT !.state = "active"]
           removing == [pc |-> "remove", request |-> q]
<1>2. request \in [Requests -> RequestRow] /\ answer \in [Requests -> {"none", "accepted", "refused", "lost"}]
      /\ workflow \in [Requests -> Workflow] /\ posting \in [Posts -> Posting]
  BY DEF TypeInv, TypeOK
<1>3. \A k : Fail(k) => failures' = failures + 1
  BY DEF Fail
<1>4. CASE StartAccount(h)
  <2>0. /\ request' = request /\ UNCHANGED <<withPayload, execution>> /\ posting[h].pc = "start"
    BY <1>4 DEF StartAccount
  <2>1. CASE /\ workflow' = [workflow EXCEPT ![q] = started] /\ failures' = failures
             /\ answer' = [answer EXCEPT ![q] = "accepted"] /\ posting' = [posting EXCEPT ![h] = NotPosting]
    <3>1. /\ workflow'[q] = started /\ answer'[q] = "accepted" /\ posting'[h] = NotPosting
          /\ \A p \in Requests \ {q} : answer'[p] = answer[p] /\ workflow'[p] = workflow[p]
          /\ \A g \in Posts \ {h} : posting'[g] = posting[g]
      BY <1>2, <2>1
    <3> HIDE DEF started
    <3> QED BY <1>1, <2>0, <2>1, <3>1 DEF started
  <2>2. CASE /\ workflow' = workflow \/ workflow' = [workflow EXCEPT ![q] = started]
             /\ failures' = failures + 1
             /\ answer' = answer /\ posting' = [posting EXCEPT ![h].pc = "remove"]
    <3>1. [posting[h] EXCEPT !.pc = "remove"] = removing
      BY <1>2 DEF Posting
    <3>2. posting' = [posting EXCEPT ![h] = removing]
      BY <2>2, <3>1
    <3>3. /\ workflow'[q] = workflow[q] \/ workflow'[q] = started
          /\ posting'[h] = removing
          /\ \A p \in Requests \ {q} : workflow'[p] = workflow[p]
          /\ \A g \in Posts \ {h} : posting'[g] = posting[g]
      BY <1>2, <2>2, <3>2
    <3> HIDE DEF started
    <3> QED BY <1>1, <2>0, <2>2, <3>3 DEF started
  <2> QED BY <1>3, <1>4, <2>1, <2>2 DEF StartAccount, Started
<1>5. CASE RemoveRequest(h)
  <2>0. /\ UNCHANGED <<withPayload, execution, workflow>> /\ posting[h].pc = "remove"
        /\ answer'[q] = "refused" /\ posting'[h] = NotPosting
        /\ \A p \in Requests \ {q} : answer'[p] = answer[p]
        /\ \A g \in Posts \ {h} : posting'[g] = posting[g]
    BY <1>2, <1>5 DEF RemoveRequest
  <2>1. CASE request' = [request EXCEPT ![q].row = "removed"] /\ failures' = failures
    <3>1. /\ [request[q] EXCEPT !.row = "removed"].row = "removed"
          /\ [request[q] EXCEPT !.row = "removed"].body = request[q].body
          /\ [request[q] EXCEPT !.row = "removed"].release = request[q].release
      BY <1>2 DEF RequestRow
    <3>2. request' = [request EXCEPT ![q] = [request[q] EXCEPT !.row = "removed"]]
      BY <2>1
    <3> QED BY <1>1, <1>2, <2>0, <2>1, <3>1, <3>2
  <2>2. CASE request' = request /\ failures' = failures + 1
    BY <1>1, <2>0, <2>2
  <2> QED BY <1>3, <1>5, <2>1, <2>2 DEF RemoveRequest
<1>6. CASE CrashWebhook(h)
  BY <1>1, <1>2, <1>3, <1>6 DEF CrashWebhook
<1> QED BY <1>4, <1>5, <1>6 DEF PostStep

-----------------------------------------------------------------------------
(* Why a workflow gives up *)

\* The reasons that are no failed attempt.
Excused(q) == request[q].release \notin withPayload \/ Extract(request[q].body) \in LongNames

\* The activity of the workflow ended with an error that it has not reported.
Failing(q) == workflow[q].worker # Null /\ execution[workflow[q].worker].failed

\* Without an excuse, every attempt that failed met a failure of its own.
FailsForAReason(q) ==
    /\ workflow[q].state = "failed" => workflow[q].attempts = MaxAttempts
    /\ workflow[q].state \in {"active", "failed"} /\ ~Excused(q) =>
          /\ workflow[q].attempts <= failures
          /\ Failing(q) => workflow[q].attempts < failures

ReasonInv == \A q \in Requests : FailsForAReason(q)

AcceptedInv ==
    \A q \in Requests : answer[q] = "accepted" =>
       request[q].row = "live" /\ workflow[q].state # "none"

KeptInv == ReasonInv /\ AcceptedInv

\* A workflow that a step leaves alone, or whose worker it stops.
LEMMA ReasonStays ==
  ASSUME TypeInv, NEW q \in Requests, FailsForAReason(q),
         workflow'[q].state = workflow[q].state, workflow'[q].attempts = workflow[q].attempts,
         request[q].row # "absent" => /\ request'[q].release = request[q].release
                                      /\ request'[q].body = request[q].body,
         withPayload' \subseteq withPayload,
         failures' \in Nat, failures <= failures',
         Failing(q)' => Failing(q) \/ Excused(q) \/ failures < failures'
  PROVE  FailsForAReason(q)'
<1>1. failures \in Nat /\ workflow[q].attempts \in Nat
  BY AccountAssumptions DEF Assumptions, TypeInv, TypeOK, Workflow
<1>2. workflow[q].state \in {"active", "failed"} => request[q].row # "absent"
  BY DEF TypeInv, PostingInv
<1>3. request[q].row # "absent" /\ Excused(q) => Excused(q)'
  BY DEF Excused
<1> QED BY <1>1, <1>2, <1>3 DEF FailsForAReason

LEMMA FailuresGrow ==
  ASSUME TypeInv, failures' \in {failures, failures + 1}
  PROVE  failures \in Nat /\ failures' \in Nat /\ failures <= failures'
BY AccountAssumptions DEF Assumptions, TypeInv, TypeOK

LEMMA KeptInit == Init => KeptInv
BY DEF Init, KeptInv, ReasonInv, FailsForAReason, AcceptedInv, NoWorkflow

\* The error of an attempt has an excuse or is a failure.
LEMMA ActivityFails ==
  ASSUME TypeInv, NEW w \in Workers, LoadRequest(w) \/ LoadPayload(w) \/ CreateProfile(w)
  PROVE  /\ failures' \in {failures, failures + 1}
         /\ execution'[w].failed => failures' = failures + 1 \/ Excused(execution[w].request)
<1>0. \A k : Fail(k) => failures' = failures + 1
  BY DEF Fail
<1>1. /\ execution[w].pc = "create" => execution[w].name = Extract(request[execution[w].request].body)
      /\ execution[w].pc \in {"load", "payload", "create"} => ~execution[w].failed
      /\ execution[w] \in Execution
  BY DEF TypeInv, TypeOK, ExecutionInv
<1>2. failures' \in {failures, failures + 1}
  BY <1>0 DEF LoadRequest, LoadPayload, CreateProfile
<1>3. ASSUME Finish(w, FALSE) PROVE ~execution'[w].failed
  <2> DEFINE e == [execution[w] EXCEPT !.pc = "report", !.failed = FALSE]
  <2>1. e \in Execution /\ e.failed = FALSE
    BY <1>1 DEF Execution
  <2>2. execution' = [execution EXCEPT ![w] = e]
    BY <1>3 DEF Finish
  <2> HIDE DEF e
  <2> QED BY <2>1, <2>2 DEF TypeInv, TypeOK
<1>4. CASE LoadRequest(w)
  <2>1. CASE Fail("db")
    BY <1>0, <1>2, <2>1
  <2>2. CASE ~Fail("db") /\ Finish(w, FALSE)
    BY <1>2, <1>3, <2>2
  <2>3. CASE /\ execution[w].pc = "load"
             /\ execution' = [execution EXCEPT ![w].pc = "payload",
                                               ![w].name = Extract(request[execution[w].request].body)]
    <3> DEFINE e == [execution[w] EXCEPT !.pc = "payload", !.name = Extract(request[execution[w].request].body)]
    <3>1. e.failed = execution[w].failed
      BY <1>1 DEF Execution
    <3>2. execution' = [execution EXCEPT ![w] = e]
      BY <2>3
    <3> HIDE DEF e
    <3> QED BY <1>1, <1>2, <2>3, <3>1, <3>2 DEF TypeInv, TypeOK
  <2>4. Fail("db") \/ Finish(w, FALSE) \/ (/\ execution[w].pc = "load"
             /\ execution' = [execution EXCEPT ![w].pc = "payload",
                                               ![w].name = Extract(request[execution[w].request].body)])
    BY <1>4 DEF LoadRequest
  <2> QED BY <2>1, <2>2, <2>3, <2>4
<1>5. CASE LoadPayload(w)
  <2>1. CASE Fail("db")
    BY <1>0, <1>2, <2>1
  <2>2. CASE request[execution[w].request].release \notin withPayload
    BY <1>2, <2>2 DEF Excused
  <2>3. CASE execution[w].pc = "payload" /\ execution' = [execution EXCEPT ![w].pc = "create"]
    <3> DEFINE e == [execution[w] EXCEPT !.pc = "create"]
    <3>1. e.failed = execution[w].failed
      BY <1>1 DEF Execution
    <3>2. execution' = [execution EXCEPT ![w] = e]
      BY <2>3
    <3> HIDE DEF e
    <3> QED BY <1>1, <1>2, <2>3, <3>1, <3>2 DEF TypeInv, TypeOK
  <2> QED BY <1>5, <2>1, <2>2, <2>3 DEF LoadPayload
<1>6. CASE CreateProfile(w)
  <2>1. CASE execution[w].name \in LongNames
    BY <1>1, <1>2, <1>6, <2>1 DEF Excused, CreateProfile
  <2>2. CASE execution[w].name \notin LongNames
    <3>1. (execution[w].name \in LongNames) = FALSE
      BY <2>2
    <3>2. \/ Finish(w, FALSE) \/ Fail("db") \/ Fail("lostReply")
          \/ Finish(w, execution[w].name \in LongNames)
      BY <1>6 DEF CreateProfile
    <3>3. Finish(w, FALSE) \/ Fail("db") \/ Fail("lostReply")
      BY <3>1, <3>2
    <3> QED BY <1>0, <1>2, <1>3, <3>3
  <2> QED BY <2>1, <2>2
<1> QED BY <1>4, <1>5, <1>6

LEMMA ActivityKeeps ==
  ASSUME TypeInv, KeptInv, NEW w \in Workers, LoadRequest(w) \/ LoadPayload(w) \/ CreateProfile(w)
  PROVE  KeptInv'
<1>1. /\ \A v \in Workers \ {w} : execution'[v] = execution[v]
      /\ UNCHANGED <<request, withPayload, workflow, posting, disabling, answer>>
  BY ActivityMoves
<1>2. /\ failures \in Nat /\ failures' \in Nat /\ failures <= failures'
      /\ execution'[w].failed => failures < failures' \/ Excused(execution[w].request)
  BY ActivityFails, FailuresGrow
<1>3. ASSUME NEW q \in Requests PROVE FailsForAReason(q)'
  <2>1. Failing(q)' => Failing(q) \/ Excused(q) \/ failures < failures'
    <3>1. workflow[q].worker \in Workers \cup {Null} /\ (workflow[q].worker = w => execution[w].request = q)
      BY NullIsNone DEF TypeInv, TypeOK, Workflow, WorkflowInv
    <3> QED BY <1>1, <1>2, <3>1 DEF Failing
  <2>2. FailsForAReason(q)
    BY DEF KeptInv, ReasonInv
  <2> QED BY <1>1, <1>2, <2>1, <2>2, ReasonStays
<1>4. AcceptedInv'
  BY <1>1 DEF KeptInv, AcceptedInv
<1> QED BY <1>3, <1>4 DEF KeptInv, ReasonInv

LEMMA PostKeeps ==
  ASSUME TypeInv, KeptInv, NEW h \in Posts, PostStep(h) \/ CrashWebhook(h)
  PROVE  KeptInv'
<1> DEFINE started == [NoWorkflow EXCEPT !.state = "active"]
<1>1. PICK q \in Requests :
        /\ posting[h].pc # "idle" /\ posting[h].request = q
        /\ request[q].row = "live" /\ answer[q] = "none"
        /\ UNCHANGED <<withPayload, execution>>
        /\ \A p \in Requests \ {q} : /\ request'[p] = request[p] /\ answer'[p] = answer[p]
                                     /\ workflow'[p] = workflow[p]
        /\ request'[q].release = request[q].release /\ request'[q].body = request[q].body
        /\ workflow'[q] = workflow[q] \/ workflow'[q] = started
        /\ answer'[q] = "accepted" => request'[q].row = "live" /\ workflow'[q] = started
        /\ failures' \in {failures, failures + 1}
  BY PostMoves
<1>2. failures \in Nat /\ failures' \in Nat /\ failures <= failures'
  BY <1>1, FailuresGrow
<1>3. started.state = "active" /\ started.attempts = 0 /\ started.worker = Null
  BY DEF NoWorkflow
<1> HIDE DEF started
<1>4. ASSUME NEW p \in Requests PROVE FailsForAReason(p)'
  <2>1. FailsForAReason(p)
    BY DEF KeptInv, ReasonInv
  <2>2. CASE workflow'[p] = workflow[p]
    <3>1. Failing(p)' => Failing(p)
      BY <1>1, <2>2 DEF Failing
    <3>2. request'[p].release = request[p].release /\ request'[p].body = request[p].body
      BY <1>1
    <3> QED BY <1>1, <1>2, <2>1, <2>2, <3>1, <3>2, ReasonStays
  <2>3. CASE workflow'[p] = started
    BY <1>2, <1>3, <2>3 DEF FailsForAReason, Failing
  <2> QED BY <1>1, <2>2, <2>3
<1>5. AcceptedInv'
  BY <1>1, <1>3 DEF KeptInv, AcceptedInv
<1> QED BY <1>4, <1>5 DEF KeptInv, ReasonInv

LEMMA PostReportKeeps ==
  ASSUME TypeInv, KeptInv, NEW h \in Posts, NEW q \in Requests, NEW r \in Releases, NEW b \in Bodies,
         PostReport(h, q, r, b)
  PROVE  KeptInv'
<1>1. /\ request[q].row = "absent" /\ UNCHANGED <<withPayload, execution, workflow>>
      /\ \A p \in Requests \ {q} : request'[p] = request[p] /\ answer'[p] = answer[p]
      /\ answer'[q] # "accepted"
  BY DEF PostReport, TypeInv, TypeOK
<1>2. failures \in Nat /\ failures' \in Nat /\ failures <= failures'
  <2>1. failures' \in {failures, failures + 1}
    BY DEF PostReport, Fail
  <2> QED BY <2>1, FailuresGrow
<1>3. ASSUME NEW p \in Requests PROVE FailsForAReason(p)'
  <2>1. FailsForAReason(p)
    BY DEF KeptInv, ReasonInv
  <2>2. Failing(p)' => Failing(p)
    BY <1>1 DEF Failing
  <2> QED BY <1>1, <1>2, <2>1, <2>2, ReasonStays
<1>4. AcceptedInv'
  BY <1>1 DEF KeptInv, AcceptedInv
<1> QED BY <1>3, <1>4 DEF KeptInv, ReasonInv

LEMMA TakeKeeps ==
  ASSUME TypeInv, KeptInv, NEW w \in Workers, NEW q \in Requests, TakeTask(w, q) PROVE KeptInv'
<1>1. /\ UNCHANGED <<request, withPayload, answer, failures>>
      /\ workflow' = [workflow EXCEPT ![q].worker = w]
      /\ execution[w].pc = "idle" /\ workflow[q].state = "active" /\ workflow[q].worker = Null
  BY DEF TakeTask
<1> DEFINE f == [workflow[q] EXCEPT !.worker = w]
<1>2. f.state = workflow[q].state /\ f.attempts = workflow[q].attempts /\ f.worker = w
  BY DEF TypeInv, TypeOK, Workflow
<1>3. workflow'[q] = f /\ \A p \in Requests \ {q} : workflow'[p] = workflow[p]
  BY <1>1 DEF TypeInv, TypeOK
<1> HIDE DEF f
<1>4. /\ ~execution'[w].failed
      /\ \A v \in Workers \ {w} : execution'[v] = execution[v]
  BY DEF TakeTask, NoExecution, TypeInv, TypeOK
<1>5. failures \in Nat
  BY <1>1, FailuresGrow
<1>6. ASSUME NEW p \in Requests PROVE FailsForAReason(p)'
  <2>1. FailsForAReason(p)
    BY DEF KeptInv, ReasonInv
  <2>2. Failing(p)' => Failing(p)
    <3>1. workflow[p].worker \in Workers \cup {Null} /\ workflow[p].worker # w
      BY <1>1, NullIsNone DEF TypeInv, TypeOK, Workflow, WorkflowInv
    <3> QED BY <1>2, <1>3, <1>4, <3>1 DEF Failing
  <2>3. workflow'[p].state = workflow[p].state /\ workflow'[p].attempts = workflow[p].attempts
    BY <1>2, <1>3
  <2> QED BY <1>1, <1>5, <2>1, <2>2, <2>3, ReasonStays
<1>7. AcceptedInv'
  BY <1>1, <1>2, <1>3 DEF KeptInv, AcceptedInv
<1> QED BY <1>6, <1>7 DEF KeptInv, ReasonInv

LEMMA ReportKeeps ==
  ASSUME TypeInv, KeptInv, NEW w \in Workers, ReportResult(w) PROVE KeptInv'
<1>1. /\ execution[w].pc = "report" /\ execution[w].request \in Requests
      /\ execution' = [execution EXCEPT ![w] = NoExecution]
      /\ UNCHANGED <<request, withPayload, answer, failures>>
  BY DEF ReportResult, TypeInv, ExecutionInv
<1> PICK q \in Requests : q = execution[w].request
  BY <1>1
<1>2. failures \in Nat
  BY <1>1, FailuresGrow
<1>3. ASSUME NEW p \in Requests, workflow'[p] = workflow[p] PROVE FailsForAReason(p)'
  <2>1. FailsForAReason(p)
    BY DEF KeptInv, ReasonInv
  <2>2. Failing(p)' => Failing(p)
    <3>1. workflow[p].worker \in Workers \cup {Null}
      BY DEF TypeInv, TypeOK, Workflow
    <3> QED BY <1>1, <1>3, <3>1 DEF Failing, NoExecution, TypeInv, TypeOK
  <2> QED BY <1>1, <1>2, <1>3, <2>1, <2>2, ReasonStays
<1>4. CASE workflow[q].worker # w
  <2>1. workflow' = workflow
    BY <1>4 DEF ReportResult
  <2> QED BY <1>1, <1>3, <2>1 DEF KeptInv, ReasonInv, AcceptedInv
<1>5. CASE workflow[q].worker = w
  <2> DEFINE tries == workflow[q].attempts + 1
             f == [state |-> IF ~execution[w].failed THEN "done"
                             ELSE IF tries < MaxAttempts THEN "active" ELSE "failed",
                   attempts |-> tries, worker |-> Null]
  <2>1. workflow' = [workflow EXCEPT ![q] = f]
    BY <1>5 DEF ReportResult
  <2>2. workflow'[q] = f /\ \A p \in Requests \ {q} : workflow'[p] = workflow[p]
    <3> HIDE DEF f
    <3> QED BY <2>1 DEF TypeInv, TypeOK
  <2>3. workflow[q].attempts \in Nat /\ workflow[q].attempts < MaxAttempts /\ workflow[q].state = "active"
    BY <1>5, NullIsNone, AccountAssumptions DEF Assumptions, TypeInv, TypeOK, Workflow, WorkflowInv
  <2>4. /\ f.worker = Null /\ f.attempts = tries /\ f.state # "none"
        /\ f.state \in {"active", "failed"} => execution[w].failed
        /\ f.state = "failed" => tries = MaxAttempts
    BY <2>3, AccountAssumptions DEF Assumptions
  <2> HIDE DEF f
  <2>5. FailsForAReason(q)'
    <3>1. FailsForAReason(q) /\ (Excused(q)' = Excused(q))
      BY <1>1 DEF KeptInv, ReasonInv, Excused
    <3>2. ASSUME f.state \in {"active", "failed"}, ~Excused(q) PROVE tries <= failures
      <4>1. Failing(q)
        BY <1>5, <2>4, <3>2, NullIsNone DEF Failing
      <4> QED BY <1>2, <2>3, <3>1, <3>2, <4>1 DEF FailsForAReason
    <3>3. ~Failing(q)'
      BY <2>2, <2>4 DEF Failing
    <3> HIDE DEF tries
    <3> QED BY <1>1, <2>2, <2>4, <3>1, <3>2, <3>3 DEF FailsForAReason
  <2>6. AcceptedInv'
    BY <1>1, <2>2, <2>4 DEF KeptInv, AcceptedInv
  <2> QED BY <1>3, <2>2, <2>5, <2>6 DEF KeptInv, ReasonInv
<1> QED BY <1>4, <1>5

\* A task that its worker loses, by a crash of the worker or a redelivery.
LEMMA LosingKeeps ==
  ASSUME TypeInv, KeptInv,
         \/ \E w \in Workers : CrashWorker(w)
         \/ \E q \in Requests : RedeliverTask(q)
  PROVE  KeptInv'
<1>1. UNCHANGED <<request, withPayload, answer>> /\ failures' \in {failures, failures + 1}
  BY DEF CrashWorker, RedeliverTask, Fail
<1>2. failures \in Nat /\ failures' \in Nat /\ failures <= failures'
  BY <1>1, FailuresGrow
<1>3. ASSUME NEW q \in Requests, workflow' = [workflow EXCEPT ![q].worker = Null]
      PROVE  \A p \in Requests : /\ workflow'[p].state = workflow[p].state
                                 /\ workflow'[p].attempts = workflow[p].attempts
                                 /\ workflow'[p].worker \in {workflow[p].worker, Null}
  <2> DEFINE f == [workflow[q] EXCEPT !.worker = Null]
  <2>1. f.state = workflow[q].state /\ f.attempts = workflow[q].attempts /\ f.worker = Null
    BY DEF TypeInv, TypeOK, Workflow
  <2>2. workflow' = [workflow EXCEPT ![q] = f]
    BY <1>3
  <2> HIDE DEF f
  <2> QED BY <2>1, <2>2 DEF TypeInv, TypeOK
<1>4. /\ \A p \in Requests : /\ workflow'[p].state = workflow[p].state
                             /\ workflow'[p].attempts = workflow[p].attempts
                             /\ workflow'[p].worker \in {workflow[p].worker, Null}
      /\ \A v \in Workers : execution'[v].failed => execution[v].failed
  <2>1. ASSUME NEW w \in Workers, CrashWorker(w)
        PROVE  /\ \A p \in Requests : /\ workflow'[p].state = workflow[p].state
                                      /\ workflow'[p].attempts = workflow[p].attempts
                                      /\ workflow'[p].worker \in {workflow[p].worker, Null}
               /\ \A v \in Workers : execution'[v].failed => execution[v].failed
    <3>1. execution[w].request \in Requests
      BY <2>1 DEF CrashWorker, TypeInv, ExecutionInv
    <3>2. workflow' = workflow \/ workflow' = [workflow EXCEPT ![execution[w].request].worker = Null]
      BY <2>1 DEF CrashWorker
    <3>3. \A v \in Workers : execution'[v].failed => execution[v].failed
      BY <2>1 DEF CrashWorker, NoExecution, TypeInv, TypeOK
    <3> QED BY <1>3, <3>1, <3>2, <3>3
  <2>2. ASSUME NEW q \in Requests, RedeliverTask(q)
        PROVE  workflow' = [workflow EXCEPT ![q].worker = Null] /\ execution' = execution
    BY <2>2 DEF RedeliverTask
  <2> QED BY <1>3, <2>1, <2>2
<1>5. ASSUME NEW p \in Requests PROVE FailsForAReason(p)'
  <2>1. FailsForAReason(p)
    BY DEF KeptInv, ReasonInv
  <2>2. Failing(p)' => Failing(p)
    <3>1. workflow[p].worker \in Workers \cup {Null}
      BY DEF TypeInv, TypeOK, Workflow
    <3> QED BY <1>4, <3>1 DEF Failing
  <2> QED BY <1>1, <1>2, <1>4, <2>1, <2>2, ReasonStays
<1>6. AcceptedInv'
  BY <1>1, <1>4 DEF KeptInv, AcceptedInv
<1> QED BY <1>5, <1>6 DEF KeptInv, ReasonInv

LEMMA CallKeeps ==
  ASSUME TypeInv, KeptInv,
         UNCHANGED <<request, workflow, execution, answer>>,
         failures' \in {failures, failures + 1},
         withPayload' \subseteq withPayload
  PROVE  KeptInv'
<1>1. failures \in Nat /\ failures' \in Nat /\ failures <= failures'
  BY FailuresGrow
<1>2. ASSUME NEW p \in Requests PROVE FailsForAReason(p)'
  <2>1. FailsForAReason(p)
    BY DEF KeptInv, ReasonInv
  <2>2. Failing(p)' => Failing(p)
    BY DEF Failing
  <2> QED BY <1>1, <2>1, <2>2, ReasonStays
<1>3. AcceptedInv'
  BY DEF KeptInv, AcceptedInv
<1> QED BY <1>2, <1>3 DEF KeptInv, ReasonInv

LEMMA KeptStep == TypeInv /\ KeptInv /\ [Next]_vars => KeptInv'
<1> SUFFICES ASSUME TypeInv, KeptInv, [Next]_vars PROVE KeptInv'
  OBVIOUS
<1>1. ASSUME NEW h \in Posts, NEW q \in Requests, NEW r \in Releases, NEW b \in Bodies,
             PostReport(h, q, r, b)
      PROVE  KeptInv'
  BY <1>1, PostReportKeeps
<1>2. ASSUME NEW h \in Posts, PostStep(h) \/ CrashWebhook(h) PROVE KeptInv'
  BY <1>2, PostKeeps
<1>3. CASE \/ \E r \in Releases : DeletePayload(r)
           \/ \E c \in Callers : WriteDisabled(c) \/ \E n \in Names : FindProfile(c, n)
  <2>1. /\ UNCHANGED <<request, workflow, execution, posting, answer>>
        /\ failures' \in {failures, failures + 1}
        /\ withPayload' \subseteq withPayload
    BY <1>3, CallKeepsTypes
  <2> QED BY <2>1, CallKeeps
<1>4. CASE \/ \E w \in Workers : CrashWorker(w)
           \/ \E q \in Requests : RedeliverTask(q)
  BY <1>4, LosingKeeps
<1>5. ASSUME NEW q \in Requests, NEW w \in Workers, TakeTask(w, q) PROVE KeptInv'
  BY <1>5, TakeKeeps
<1>6. ASSUME NEW w \in Workers, LoadRequest(w) \/ LoadPayload(w) \/ CreateProfile(w) PROVE KeptInv'
  BY <1>6, ActivityKeeps
<1>7. ASSUME NEW w \in Workers, ReportResult(w) PROVE KeptInv'
  BY <1>7, ReportKeeps
<1>8. CASE UNCHANGED vars
  BY <1>8, CallKeeps DEF vars
<1> QED BY <1>1, <1>2, <1>3, <1>4, <1>5, <1>6, <1>7, <1>8 DEF Next, ActivityStep

\* A report that was answered with "created" keeps its row and its workflow,
\* whatever fails and however often its task is delivered; and the workflow gives
\* up only if the payload is gone, the name does not fit, or as many failures as
\* there are attempts were met (request/handler.go:97-121, jobs/account.go:22-87).
THEOREM ReportsAreKept == Spec => []AcceptedReportIsKept
<1>1. TypeInv /\ KeptInv => AcceptedReportIsKept
  <2> SUFFICES ASSUME TypeInv, KeptInv PROVE AcceptedReportIsKept
    OBVIOUS
  <2>1. failures \in Nat
    BY AccountAssumptions DEF Assumptions, TypeInv, TypeOK
  <2> QED BY <2>1, AccountAssumptions DEF Assumptions, KeptInv, ReasonInv, FailsForAReason, AcceptedInv,
                                         AcceptedReportIsKept, Excused
<1>2. Spec => []KeptInv
  BY KeptInit, KeptStep, TypesHold, PTL DEF Spec
<1> QED BY <1>1, <1>2, TypesHold, PTL

-----------------------------------------------------------------------------
(* What the rows of refused reports cost *)

\* Reports that are going to be refused.
Removing == {q \in Requests : \E h \in Posts : posting[h].pc = "remove" /\ posting[h].request = q}

\* Rows left behind that are not those of an insert that reported an error.
Unpaid == {q \in Stranded : answer[q] # "lost"}

\* A report is refused at the expense of the failure that its goroutine met, and
\* its row stays at the expense of another one.
ChargeInv ==
    /\ IsFiniteSet(Refused) /\ IsFiniteSet(Removing) /\ IsFiniteSet(Unpaid)
    /\ Cardinality(Refused) + Cardinality(Removing) + Cardinality(Unpaid) <= failures

LEMMA CountSubset ==
  ASSUME NEW S, IsFiniteSet(S), NEW T, T \subseteq S
  PROVE  /\ IsFiniteSet(T) /\ Cardinality(T) \in Nat /\ Cardinality(S) \in Nat
         /\ Cardinality(T) <= Cardinality(S)
BY FS_Subset, FS_CardinalityType

LEMMA CountAdded ==
  ASSUME NEW S, IsFiniteSet(S), NEW q, NEW T, T \subseteq S \cup {q}
  PROVE  /\ IsFiniteSet(T) /\ Cardinality(T) \in Nat /\ Cardinality(S) \in Nat
         /\ Cardinality(T) <= Cardinality(S) + 1
<1>1. /\ IsFiniteSet(S \cup {q})
      /\ Cardinality(S \cup {q}) = IF q \in S THEN Cardinality(S) ELSE Cardinality(S) + 1
  BY FS_AddElement
<1>2. IsFiniteSet(T) /\ Cardinality(T) <= Cardinality(S \cup {q})
  BY <1>1, CountSubset
<1>3. Cardinality(T) \in Nat /\ Cardinality(S) \in Nat
  BY <1>2, FS_CardinalityType
<1> QED BY <1>1, <1>2, <1>3

LEMMA CountRemoved ==
  ASSUME NEW S, IsFiniteSet(S), NEW q \in S, NEW T, T \subseteq S \ {q}
  PROVE  /\ IsFiniteSet(T) /\ Cardinality(T) \in Nat /\ Cardinality(S) \in Nat
         /\ Cardinality(T) <= Cardinality(S) - 1
<1>1. IsFiniteSet(S \ {q}) /\ Cardinality(S \ {q}) = Cardinality(S) - 1
  BY FS_RemoveElement
<1>2. IsFiniteSet(T) /\ Cardinality(T) <= Cardinality(S \ {q})
  BY <1>1, CountSubset
<1>3. Cardinality(T) \in Nat /\ Cardinality(S) \in Nat
  BY <1>2, FS_CardinalityType
<1> QED BY <1>1, <1>2, <1>3

LEMMA ChargeInit == Init => ChargeInv
<1> SUFFICES ASSUME Init PROVE ChargeInv
  OBVIOUS
<1>1. Refused = {} /\ Removing = {} /\ Unpaid = {}
  BY DEF Init, Refused, Removing, Unpaid, Stranded, NoRequest, NotPosting
<1>2. failures = 0
  BY DEF Init
<1> QED BY <1>1, <1>2, FS_EmptySet DEF ChargeInv

\* A step that refuses, turns to refuse or strands nothing new costs nothing.
LEMMA ChargeKept ==
  ASSUME TypeInv, ChargeInv, failures' \in {failures, failures + 1},
         Refused' \subseteq Refused, Removing' \subseteq Removing, Unpaid' \subseteq Unpaid
  PROVE  ChargeInv'
<1>1. /\ IsFiniteSet(Refused') /\ Cardinality(Refused') <= Cardinality(Refused)
      /\ IsFiniteSet(Removing') /\ Cardinality(Removing') <= Cardinality(Removing)
      /\ IsFiniteSet(Unpaid') /\ Cardinality(Unpaid') <= Cardinality(Unpaid)
      /\ Cardinality(Refused) \in Nat /\ Cardinality(Removing) \in Nat /\ Cardinality(Unpaid) \in Nat
      /\ Cardinality(Refused') \in Nat /\ Cardinality(Removing') \in Nat /\ Cardinality(Unpaid') \in Nat
  BY CountSubset DEF ChargeInv
<1>2. failures \in Nat /\ failures' \in Nat /\ failures <= failures'
  BY FailuresGrow
<1> QED BY <1>1, <1>2 DEF ChargeInv

\* A step that met a failure may refuse, turn to refuse or strand one report.
LEMMA ChargePaid ==
  ASSUME TypeInv, ChargeInv, failures' = failures + 1, NEW q,
         \/ Refused' \subseteq Refused \cup {q} /\ Removing' \subseteq Removing /\ Unpaid' \subseteq Unpaid
         \/ Refused' \subseteq Refused /\ Removing' \subseteq Removing \cup {q} /\ Unpaid' \subseteq Unpaid
         \/ Refused' \subseteq Refused /\ Removing' \subseteq Removing /\ Unpaid' \subseteq Unpaid \cup {q}
  PROVE  ChargeInv'
<1>1. IsFiniteSet(Refused) /\ IsFiniteSet(Removing) /\ IsFiniteSet(Unpaid)
  BY DEF ChargeInv
<1>2. failures \in Nat
  BY FailuresGrow
<1>3. CASE Refused' \subseteq Refused \cup {q} /\ Removing' \subseteq Removing /\ Unpaid' \subseteq Unpaid
  <2>1. /\ IsFiniteSet(Refused') /\ Cardinality(Refused') <= Cardinality(Refused) + 1
        /\ Cardinality(Refused) \in Nat /\ Cardinality(Refused') \in Nat
    BY <1>1, <1>3, CountAdded
  <2>2. /\ IsFiniteSet(Removing') /\ Cardinality(Removing') <= Cardinality(Removing)
        /\ Cardinality(Removing) \in Nat /\ Cardinality(Removing') \in Nat
    BY <1>1, <1>3, CountSubset
  <2>3. /\ IsFiniteSet(Unpaid') /\ Cardinality(Unpaid') <= Cardinality(Unpaid)
        /\ Cardinality(Unpaid) \in Nat /\ Cardinality(Unpaid') \in Nat
    BY <1>1, <1>3, CountSubset
  <2> QED BY <1>2, <2>1, <2>2, <2>3 DEF ChargeInv
<1>4. CASE Refused' \subseteq Refused /\ Removing' \subseteq Removing \cup {q} /\ Unpaid' \subseteq Unpaid
  <2>1. /\ IsFiniteSet(Removing') /\ Cardinality(Removing') <= Cardinality(Removing) + 1
        /\ Cardinality(Removing) \in Nat /\ Cardinality(Removing') \in Nat
    BY <1>1, <1>4, CountAdded
  <2>2. /\ IsFiniteSet(Refused') /\ Cardinality(Refused') <= Cardinality(Refused)
        /\ Cardinality(Refused) \in Nat /\ Cardinality(Refused') \in Nat
    BY <1>1, <1>4, CountSubset
  <2>3. /\ IsFiniteSet(Unpaid') /\ Cardinality(Unpaid') <= Cardinality(Unpaid)
        /\ Cardinality(Unpaid) \in Nat /\ Cardinality(Unpaid') \in Nat
    BY <1>1, <1>4, CountSubset
  <2> QED BY <1>2, <2>1, <2>2, <2>3 DEF ChargeInv
<1>5. CASE Refused' \subseteq Refused /\ Removing' \subseteq Removing /\ Unpaid' \subseteq Unpaid \cup {q}
  <2>1. /\ IsFiniteSet(Unpaid') /\ Cardinality(Unpaid') <= Cardinality(Unpaid) + 1
        /\ Cardinality(Unpaid) \in Nat /\ Cardinality(Unpaid') \in Nat
    BY <1>1, <1>5, CountAdded
  <2>2. /\ IsFiniteSet(Refused') /\ Cardinality(Refused') <= Cardinality(Refused)
        /\ Cardinality(Refused) \in Nat /\ Cardinality(Refused') \in Nat
    BY <1>1, <1>5, CountSubset
  <2>3. /\ IsFiniteSet(Removing') /\ Cardinality(Removing') <= Cardinality(Removing)
        /\ Cardinality(Removing) \in Nat /\ Cardinality(Removing') \in Nat
    BY <1>1, <1>5, CountSubset
  <2> QED BY <1>2, <2>1, <2>2, <2>3 DEF ChargeInv
<1> QED BY <1>3, <1>4, <1>5

\* A report whose removal is over was paid for when it turned to be refused; a
\* removal that failed is paid for by its own failure.
LEMMA ChargeMoved ==
  ASSUME TypeInv, ChargeInv, NEW q \in Removing,
         Refused' \subseteq Refused \cup {q}, Removing' \subseteq Removing \ {q},
         \/ failures' = failures /\ Unpaid' \subseteq Unpaid
         \/ failures' = failures + 1 /\ Unpaid' \subseteq Unpaid \cup {q}
  PROVE  ChargeInv'
<1>1. IsFiniteSet(Refused) /\ IsFiniteSet(Removing) /\ IsFiniteSet(Unpaid)
  BY DEF ChargeInv
<1>2. failures \in Nat
  BY FailuresGrow
<1>3. /\ IsFiniteSet(Refused') /\ Cardinality(Refused') <= Cardinality(Refused) + 1
      /\ Cardinality(Refused) \in Nat /\ Cardinality(Refused') \in Nat
  BY <1>1, CountAdded
<1>4. /\ IsFiniteSet(Removing') /\ Cardinality(Removing') <= Cardinality(Removing) - 1
      /\ Cardinality(Removing) \in Nat /\ Cardinality(Removing') \in Nat
  BY <1>1, CountRemoved
<1>5. CASE failures' = failures /\ Unpaid' \subseteq Unpaid
  <2>1. /\ IsFiniteSet(Unpaid') /\ Cardinality(Unpaid') <= Cardinality(Unpaid)
        /\ Cardinality(Unpaid) \in Nat /\ Cardinality(Unpaid') \in Nat
    BY <1>1, <1>5, CountSubset
  <2> QED BY <1>2, <1>3, <1>4, <1>5, <2>1 DEF ChargeInv
<1>6. CASE failures' = failures + 1 /\ Unpaid' \subseteq Unpaid \cup {q}
  <2>1. /\ IsFiniteSet(Unpaid') /\ Cardinality(Unpaid') <= Cardinality(Unpaid) + 1
        /\ Cardinality(Unpaid) \in Nat /\ Cardinality(Unpaid') \in Nat
    BY <1>1, <1>6, CountAdded
  <2> QED BY <1>2, <1>3, <1>4, <1>6, <2>1 DEF ChargeInv
<1> QED BY <1>5, <1>6

\* The reports but q are refused, removed and stranded as before.
LEMMA OthersAreCharged ==
  ASSUME TypeInv, NEW h \in Posts, NEW q \in Requests,
         \A g \in Posts \ {h} : posting'[g] = posting[g],
         posting[h].request \in {q, Null}, posting'[h].request \in {q, Null},
         \A p \in Requests \ {q} : /\ request'[p] = request[p] /\ answer'[p] = answer[p]
                                   /\ workflow'[p] = workflow[p]
  PROVE  /\ Refused' \subseteq Refused \cup {q} /\ Removing' \subseteq Removing \cup {q}
         /\ Unpaid' \subseteq Unpaid \cup {q}
<1>1. ASSUME NEW p \in Requests \ {q}
      PROVE  \A g \in Posts : (posting'[g].request = p) => posting'[g] = posting[g]
  BY <1>1, NullIsNone
<1>2. ASSUME NEW p \in Requests \ {q}
      PROVE  \A g \in Posts : (posting[g].request = p) => posting'[g] = posting[g]
  BY <1>2, NullIsNone
<1>3. Refused' \subseteq Refused \cup {q}
  BY DEF Refused
<1>4. Removing' \subseteq Removing \cup {q}
  BY <1>1 DEF Removing
<1>5. Unpaid' \subseteq Unpaid \cup {q}
  BY <1>2 DEF Unpaid, Stranded
<1> QED BY <1>3, <1>4, <1>5

LEMMA PostReportIsCharged ==
  ASSUME TypeInv, ChargeInv, NEW h \in Posts, NEW q \in Requests, NEW r \in Releases, NEW b \in Bodies,
         PostReport(h, q, r, b)
  PROVE  ChargeInv'
<1>1. /\ posting[h].pc = "idle" /\ posting[h].request = Null
      /\ request[q].row = "absent" /\ answer[q] = "none" /\ UNCHANGED workflow
      /\ \A p \in Requests \ {q} : request'[p] = request[p] /\ answer'[p] = answer[p]
      /\ \A g \in Posts \ {h} : posting'[g] = posting[g]
      /\ \/ /\ answer'[q] = "none" /\ failures' = failures
            /\ posting'[h] = [pc |-> "start", request |-> q]
         \/ /\ posting'[h] = posting[h] /\ failures' = failures + 1
            /\ answer'[q] = "refused" /\ request'[q].row = "absent"
         \/ /\ posting'[h] = posting[h] /\ failures' = failures + 1 /\ answer'[q] = "lost"
  BY DEF PostReport, Fail, TypeInv, TypeOK, PostingInv
<1>2. /\ Refused' \subseteq Refused \cup {q} /\ Removing' \subseteq Removing \cup {q}
      /\ Unpaid' \subseteq Unpaid \cup {q}
  BY <1>1, OthersAreCharged
<1>3. q \notin Removing' /\ q \notin Unpaid'
  <2>1. \A g \in Posts \ {h} : posting'[g].request # q
    BY <1>1, NullIsNone DEF TypeInv, PostingInv
  <2>2. q \notin Removing'
    BY <1>1, <2>1, NullIsNone DEF Removing
  <2>3. q \notin Unpaid'
    BY <1>1 DEF Unpaid, Stranded
  <2> QED BY <2>2, <2>3
<1>4. CASE answer'[q] = "none" /\ failures' = failures
  <2>1. q \notin Refused'
    BY <1>4 DEF Refused
  <2> QED BY <1>2, <1>3, <1>4, <2>1, ChargeKept
<1>5. CASE failures' = failures + 1
  BY <1>2, <1>3, <1>5, ChargePaid
<1> QED BY <1>1, <1>4, <1>5

LEMMA PostIsCharged ==
  ASSUME TypeInv, ChargeInv, NEW h \in Posts, PostStep(h) \/ CrashWebhook(h)
  PROVE  ChargeInv'
<1>1. PICK q \in Requests :
        /\ posting[h].pc # "idle" /\ posting[h].request = q
        /\ request[q].row = "live" /\ answer[q] = "none"
        /\ \A p \in Requests \ {q} : /\ request'[p] = request[p] /\ answer'[p] = answer[p]
                                     /\ workflow'[p] = workflow[p]
        /\ \A g \in Posts \ {h} : posting'[g] = posting[g]
        /\ \/ /\ answer'[q] = "accepted" /\ failures' = failures
              /\ workflow'[q] = [NoWorkflow EXCEPT !.state = "active"] /\ posting'[h] = NotPosting
           \/ /\ answer'[q] = "none" /\ failures' = failures + 1
              /\ posting'[h] = [pc |-> "remove", request |-> q]
           \/ /\ request'[q].row = "removed" /\ answer'[q] = "refused" /\ failures' = failures
              /\ posting[h].pc = "remove" /\ posting'[h] = NotPosting
           \/ /\ answer'[q] = "refused" /\ failures' = failures + 1
              /\ posting[h].pc = "remove" /\ posting'[h] = NotPosting
           \/ /\ answer'[q] = "none" /\ failures' = failures + 1 /\ posting'[h] = NotPosting
  BY PostMoves
<1>2. /\ Refused' \subseteq Refused \cup {q} /\ Removing' \subseteq Removing \cup {q}
      /\ Unpaid' \subseteq Unpaid \cup {q}
  BY <1>1, OthersAreCharged DEF NotPosting
<1>3. \A g \in Posts \ {h} : posting'[g].request # q
  BY <1>1 DEF TypeInv, PostingInv
<1>4. posting'[h] = NotPosting => q \notin Removing'
  BY <1>3, NullIsNone DEF Removing, NotPosting
<1>5. answer'[q] \notin {"refused", "lost"} => q \notin Refused'
  BY DEF Refused
<1>6. CASE /\ answer'[q] = "accepted" /\ failures' = failures
           /\ workflow'[q] = [NoWorkflow EXCEPT !.state = "active"] /\ posting'[h] = NotPosting
  <2>1. workflow'[q].state # "none"
    BY <1>6 DEF NoWorkflow
  <2>2. q \notin Unpaid'
    BY <2>1 DEF Unpaid, Stranded
  <2> QED BY <1>2, <1>4, <1>5, <1>6, <2>2, ChargeKept
<1>7. CASE /\ answer'[q] = "none" /\ failures' = failures + 1
           /\ posting'[h] = [pc |-> "remove", request |-> q]
  <2>1. q \notin Unpaid'
    BY <1>7 DEF Unpaid, Stranded
  <2> QED BY <1>2, <1>5, <1>7, <2>1, ChargePaid
<1>8. CASE /\ request'[q].row = "removed" /\ answer'[q] = "refused" /\ failures' = failures
           /\ posting[h].pc = "remove" /\ posting'[h] = NotPosting
  <2>1. q \in Removing
    BY <1>1, <1>8 DEF Removing
  <2>2. q \notin Unpaid'
    BY <1>8 DEF Unpaid, Stranded
  <2> QED BY <1>2, <1>4, <1>8, <2>1, <2>2, ChargeMoved
<1>9. CASE /\ answer'[q] = "refused" /\ failures' = failures + 1
           /\ posting[h].pc = "remove" /\ posting'[h] = NotPosting
  <2>1. q \in Removing
    BY <1>1, <1>9 DEF Removing
  <2> QED BY <1>2, <1>4, <1>9, <2>1, ChargeMoved
<1>10. CASE answer'[q] = "none" /\ failures' = failures + 1 /\ posting'[h] = NotPosting
  BY <1>2, <1>4, <1>5, <1>10, ChargePaid
<1> QED BY <1>1, <1>6, <1>7, <1>8, <1>9, <1>10

LEMMA ChargeStep == TypeInv /\ ChargeInv /\ [Next]_vars => ChargeInv'
<1> SUFFICES ASSUME TypeInv, ChargeInv, [Next]_vars PROVE ChargeInv'
  OBVIOUS
<1>1. ASSUME NEW h \in Posts, NEW q \in Requests, NEW r \in Releases, NEW b \in Bodies,
             PostReport(h, q, r, b)
      PROVE  ChargeInv'
  BY <1>1, PostReportIsCharged
<1>2. ASSUME NEW h \in Posts, PostStep(h) \/ CrashWebhook(h) PROVE ChargeInv'
  BY <1>2, PostIsCharged
<1>3. ASSUME UNCHANGED <<request, posting, answer>>, failures' \in {failures, failures + 1},
             \A p \in Requests : workflow'[p].state = "none" => workflow[p].state = "none"
      PROVE  ChargeInv'
  <2>1. Refused' \subseteq Refused /\ Removing' \subseteq Removing
    BY <1>3 DEF Refused, Removing
  <2>2. Unpaid' \subseteq Unpaid
    BY <1>3 DEF Unpaid, Stranded
  <2> QED BY <1>3, <2>1, <2>2, ChargeKept
<1>4. CASE \/ \E r \in Releases : DeletePayload(r)
           \/ \E c \in Callers : WriteDisabled(c) \/ \E n \in Names : FindProfile(c, n)
  <2>1. /\ UNCHANGED <<request, workflow, execution, posting, answer>>
        /\ failures' \in {failures, failures + 1}
    BY <1>4, CallKeepsTypes
  <2> QED BY <1>3, <2>1
<1>5. ASSUME NEW w \in Workers, LoadRequest(w) \/ LoadPayload(w) \/ CreateProfile(w) PROVE ChargeInv'
  <2>1. UNCHANGED <<request, workflow, posting, answer>>
    BY <1>5, ActivityMoves
  <2>2. failures' \in {failures, failures + 1}
    BY <1>5, ActivityFails
  <2> QED BY <1>3, <2>1, <2>2
<1>6. ASSUME NEW q \in Requests, NEW w \in Workers, TakeTask(w, q) PROVE ChargeInv'
  <2>1. /\ UNCHANGED <<request, posting, answer, failures>> /\ workflow[q].state = "active"
        /\ \A p \in Requests \ {q} : workflow'[p] = workflow[p]
    BY <1>6 DEF TakeTask, TypeInv, TypeOK
  <2>2. workflow'[q].state = workflow[q].state
    BY <1>6 DEF TakeTask, TypeInv, TypeOK, Workflow
  <2> QED BY <1>3, <2>1, <2>2
<1>7. ASSUME NEW q \in Requests, RedeliverTask(q) PROVE ChargeInv'
  <2>1. /\ UNCHANGED <<request, posting, answer>> /\ failures' \in {failures, failures + 1}
        /\ \A p \in Requests \ {q} : workflow'[p] = workflow[p]
    BY <1>7 DEF RedeliverTask, Fail, TypeInv, TypeOK
  <2>2. workflow'[q].state = workflow[q].state
    BY <1>7 DEF RedeliverTask, TypeInv, TypeOK, Workflow
  <2> QED BY <1>3, <2>1, <2>2
<1>8. ASSUME NEW w \in Workers, ReportResult(w) \/ CrashWorker(w) PROVE ChargeInv'
  <2>1. /\ UNCHANGED <<request, posting, answer>> /\ failures' \in {failures, failures + 1}
        /\ execution[w].request \in Requests
    BY <1>8 DEF ReportResult, CrashWorker, Fail, TypeInv, ExecutionInv
  <2> PICK q \in Requests : q = execution[w].request
    BY <2>1
  <2>2. CASE workflow[q].worker # w
    <3>1. workflow' = workflow
      BY <1>8, <2>2 DEF ReportResult, CrashWorker
    <3> QED BY <1>3, <2>1, <3>1
  <2>3. CASE workflow[q].worker = w
    <3>1. workflow[q].state = "active"
      BY <2>3, NullIsNone DEF TypeInv, WorkflowInv
    <3>2. \A p \in Requests \ {q} : workflow'[p] = workflow[p]
      BY <1>8 DEF ReportResult, CrashWorker, TypeInv, TypeOK
    <3>3. CASE ReportResult(w)
      <4>1. workflow'[q].state \in {"done", "active", "failed"}
        BY <2>3, <3>3 DEF ReportResult, TypeInv, TypeOK
      <4> QED BY <1>3, <2>1, <3>1, <3>2, <4>1
    <3>4. CASE CrashWorker(w)
      <4>1. workflow'[q].state = workflow[q].state
        BY <2>3, <3>4 DEF CrashWorker, TypeInv, TypeOK, Workflow
      <4> QED BY <1>3, <2>1, <3>1, <3>2, <4>1
    <3> QED BY <1>8, <3>3, <3>4
  <2> QED BY <2>2, <2>3
<1>9. CASE UNCHANGED vars
  BY <1>3, <1>9 DEF vars
<1> QED BY <1>1, <1>2, <1>4, <1>5, <1>6, <1>7, <1>8, <1>9 DEF Next, ActivityStep

\* Every report that was refused met a failure, and every row that a refused or
\* unanswered report leaves behind met another, unless its insert reported an
\* error for a row that it wrote (request/handler.go:97-118).
THEOREM RowsAreAccounted == Spec => []StrandedRowsArePaidFor
<1>1. ChargeInv /\ TypeInv => StrandedRowsArePaidFor
  <2> SUFFICES ASSUME ChargeInv, TypeInv PROVE StrandedRowsArePaidFor
    OBVIOUS
  <2>1. /\ Cardinality(Refused) \in Nat /\ Cardinality(Removing) \in Nat /\ Cardinality(Unpaid) \in Nat
    BY FS_CardinalityType DEF ChargeInv
  <2>2. failures \in Nat
    BY FailuresGrow, AccountAssumptions DEF Assumptions, TypeInv, TypeOK
  <2>3. Cardinality(Refused) + Cardinality(Unpaid) <= failures
    BY <2>1, <2>2 DEF ChargeInv
  <2> QED BY <2>3 DEF StrandedRowsArePaidFor, Unpaid
<1>2. Spec => []ChargeInv
  BY ChargeInit, ChargeStep, TypesHold, PTL DEF Spec
<1> QED BY <1>1, <1>2, TypesHold, PTL

=============================================================================
