----------------------------- MODULE TargetProofs -----------------------------
(***************************************************************************)
(* Lemmas about the steps of the target handlers, for the modules that are *)
(* composed with them: Deploy and Probe.                                   *)
(***************************************************************************)
EXTENDS TargetService, TLAPS

\* A failure is counted within its bound.
LEMMA FailureType == ASSUME NEW k, failures \in 0..MaxFailures, Fail(k)
                     PROVE  failures' \in 0..MaxFailures
BY MaxFailuresAssumption DEF Fail

\* The steps of the target handlers keep the types of TargetService.
LEMMA TargetTypeStep == ASSUME TargetTypeOK, TargetNext PROVE TargetTypeOK'
<1> USE DEF TargetTypeOK
<1>1. ASSUME NEW h \in Handlers, NEW t \in Targets, NEW e \in Endpoints, CreateTarget(h, t, e)
      PROVE  TargetTypeOK'
  BY <1>1 DEF CreateTarget, TargetRow, NoTarget, Handling, Idle
<1>2. ASSUME NEW h \in Handlers, NEW t \in Targets, LoadPreviousTarget(h, t)
      PROVE  TargetTypeOK'
  BY <1>2 DEF LoadPreviousTarget, Live, TargetRow, Handling
<1>3. ASSUME NEW h \in Handlers, EnqueueNewTarget(h) PROVE TargetTypeOK'
  BY <1>3, FailureType DEF EnqueueNewTarget, EnqueueSucceeds, EnqueueFails, Handling, Idle
<1>4. ASSUME NEW h \in Handlers, UndoCreateTarget(h) PROVE TargetTypeOK'
  BY <1>4, FailureType DEF UndoCreateTarget, TargetRow, Handling, Idle
<1>5. ASSUME NEW h \in Handlers, NEW e \in Endpoints, WriteTarget(h, e) PROVE TargetTypeOK'
  <2> DEFINE t == handling[h].target
  <2>1. t \in Targets /\ handling[h] \in Handling
    BY <1>5 DEF WriteTarget
  <2>2. CASE Live(t) /\ target' = [target EXCEPT ![t].endpoint = e]
                    /\ handling' = [handling EXCEPT ![h].pc = "enqueue"]
    <3>1. target' \in [Targets -> TargetRow]
      BY <2>1, <2>2 DEF TargetRow
    <3>2. handling' \in [Handlers -> Handling]
      BY <2>1, <2>2 DEF Handling
    <3>3. \A g \in Handlers : handling'[g] = [handling[g] EXCEPT !.pc = handling'[g].pc]
      BY <2>1, <2>2 DEF Handling
    <3> QED BY <1>5, <2>1, <2>2, <3>1, <3>2, <3>3 DEF WriteTarget, Handling
  <2>3. CASE handling' = [handling EXCEPT ![h] = Idle] /\ UNCHANGED target
    BY <1>5, <2>1, <2>3 DEF WriteTarget, Handling, Idle
  <2> QED BY <1>5, <2>2, <2>3 DEF WriteTarget
<1>6. ASSUME NEW h \in Handlers, EnqueueTarget(h) PROVE TargetTypeOK'
  BY <1>6, FailureType DEF EnqueueTarget, EnqueueSucceeds, EnqueueFails, Handling, Idle
<1>7. ASSUME NEW h \in Handlers, RevertTarget(h) PROVE TargetTypeOK'
  BY <1>7, FailureType DEF RevertTarget, Handling, Idle
<1>8. ASSUME NEW h \in Handlers, AbandonTargetHandler(h) PROVE TargetTypeOK'
  BY <1>8, FailureType DEF AbandonTargetHandler, Handling, Idle
<1>9. ASSUME NEW t \in Targets, DeleteTarget(t) PROVE TargetTypeOK'
  BY <1>9 DEF DeleteTarget, TargetRow
<1> QED
  BY <1>1, <1>2, <1>3, <1>4, <1>5, <1>6, <1>7, <1>8, <1>9 DEF TargetNext, TargetHandlerStep

\* A deleted row stays deleted.
LEMMA DeletedStays == ASSUME TargetTypeOK, TargetNext, NEW t \in Targets, target[t].row = "deleted"
                      PROVE  target'[t].row = "deleted"
<1>0. target \in [Targets -> TargetRow]
  BY DEF TargetTypeOK
<1>1. CASE UNCHANGED target
  BY <1>1
<1>2. ASSUME NEW h \in Handlers, NEW u \in Targets, NEW e \in Endpoints, CreateTarget(h, u, e)
      PROVE  target'[t].row = "deleted"
  BY <1>0, <1>2 DEF CreateTarget
<1>3. ASSUME NEW h \in Handlers, UndoCreateTarget(h) PROVE target'[t].row = "deleted"
  BY <1>0, <1>3 DEF UndoCreateTarget, TargetRow
<1>4. ASSUME NEW h \in Handlers, NEW e \in Endpoints, WriteTarget(h, e)
      PROVE  target'[t].row = "deleted"
  BY <1>0, <1>4 DEF WriteTarget, TargetRow, Live
<1>5. ASSUME NEW h \in Handlers, RevertTarget(h) PROVE target'[t].row = "deleted"
  BY <1>0, <1>5 DEF RevertTarget, Live
<1>6. ASSUME NEW u \in Targets, DeleteTarget(u) PROVE target'[t].row = "deleted"
  BY <1>0, <1>6 DEF DeleteTarget, TargetRow
<1> QED
  BY <1>1, <1>2, <1>3, <1>4, <1>5, <1>6
     DEF TargetNext, TargetHandlerStep, LoadPreviousTarget, EnqueueNewTarget, EnqueueTarget,
         AbandonTargetHandler

\* Only a failure makes an Update undo itself.
LEMMA RevertsAreFailures ==
  ASSUME TargetTypeOK, TargetNext, NEW h \in Handlers, handling'[h].pc = "revert"
  PROVE  handling[h].pc = "revert" \/ failures' = failures + 1
<1>0. handling \in [Handlers -> Handling]
  BY DEF TargetTypeOK
<1>1. ASSUME NEW g \in Handlers, EnqueueTarget(g)
      PROVE  handling[h].pc = "revert" \/ failures' = failures + 1
  <2>1. CASE EnqueueFails(handling[g].target)
    BY <2>1 DEF EnqueueFails, Fail
  <2>2. CASE handling' = [handling EXCEPT ![g] = Idle]
    BY <1>0, <2>2 DEF Idle
  <2> QED BY <1>1, <2>1, <2>2 DEF EnqueueTarget
<1>2. ASSUME NEW g \in Handlers, NEW e \in Endpoints, WriteTarget(g, e)
      PROVE  handling[h].pc = "revert"
  BY <1>0, <1>2 DEF WriteTarget, Handling, Idle
<1>3. ASSUME NEW g \in Handlers,
             EnqueueNewTarget(g) \/ UndoCreateTarget(g) \/ RevertTarget(g) \/ AbandonTargetHandler(g)
      PROVE  handling[h].pc = "revert"
  BY <1>0, <1>3 DEF EnqueueNewTarget, UndoCreateTarget, RevertTarget, AbandonTargetHandler,
                    Handling, Idle
<1>4. ASSUME NEW g \in Handlers, NEW t \in Targets, LoadPreviousTarget(g, t)
      PROVE  handling[h].pc = "revert"
  BY <1>0, <1>4 DEF LoadPreviousTarget
<1>5. ASSUME NEW g \in Handlers, NEW t \in Targets, NEW e \in Endpoints, CreateTarget(g, t, e)
      PROVE  handling[h].pc = "revert"
  <2>1. handling' = [handling EXCEPT ![g] = [Idle EXCEPT !.pc = "enqueueNew", !.target = t]]
    BY <1>5 DEF CreateTarget
  <2>2. [Idle EXCEPT !.pc = "enqueueNew", !.target = t].pc = "enqueueNew"
    BY DEF Idle
  <2> QED BY <1>0, <2>1, <2>2
<1> QED BY <1>1, <1>2, <1>3, <1>4, <1>5 DEF TargetNext, TargetHandlerStep, DeleteTarget

=============================================================================
