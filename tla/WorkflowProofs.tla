--------------------------- MODULE WorkflowProofs ----------------------------
(***************************************************************************)
(* Proofs about Workflow: type correctness, what no step of any call does  *)
(* to an outcome, a verdict or an ended workflow, and the lease: that it   *)
(* is exclusive, and that a running step is held.                          *)
(***************************************************************************)
EXTENDS Workflow, TLAPS

-----------------------------------------------------------------------------
(* Rows and calls: what their fields are, and what a change of one keeps. *)

LEMMA RowFields ==
  ASSUME NEW row \in StepRow
  PROVE  /\ row.step \in Step
         /\ row.executor \in Executor
         /\ row.round \in Nat
         /\ row.status \in StepStatus \cup {"absent"}
         /\ row.holder \in Callers \cup {NoCaller}
         /\ row.review \in ReviewStatus \cup {"none"}
         /\ row.inputs \subseteq Sid
         /\ row.commit \in Commit \cup {NoCommit}
  BY DEF StepRow

LEMMA RowUpdates ==
  ASSUME NEW row \in StepRow
  PROVE  /\ \A x \in Step : [row EXCEPT !.step = x] \in StepRow
         /\ \A x \in Executor : [row EXCEPT !.executor = x] \in StepRow
         /\ \A x \in Nat : [row EXCEPT !.round = x] \in StepRow
         /\ \A x \in StepStatus : [row EXCEPT !.status = x] \in StepRow
         /\ \A x \in Callers \cup {NoCaller} : [row EXCEPT !.holder = x] \in StepRow
         /\ \A x \in BOOLEAN : [row EXCEPT !.expired = x] \in StepRow
         /\ \A x \in ReviewStatus \cup {"none"} : [row EXCEPT !.review = x] \in StepRow
         /\ \A x \in SUBSET Sid : [row EXCEPT !.inputs = x] \in StepRow
         /\ \A x \in {"passed", "failed"} : [row EXCEPT !.report = x] \in StepRow
         /\ \A x \in Commit \cup {NoCommit} : [row EXCEPT !.commit = x] \in StepRow
         /\ \A x \in BOOLEAN : [row EXCEPT !.saved = x] \in StepRow
  BY DEF StepRow

LEMMA CallFields ==
  ASSUME NEW k \in Call
  PROVE  /\ k.sid \in Sid \cup {0}
         /\ k.draft \in StepRow
         /\ k.fix_rounds \in Nat
         /\ k.result_commit \in Commit \cup {NoCommit}
         /\ k.todo \subseteq Sid
         /\ k.target \in WorkflowState
         /\ k.gain \in Commit \cup {NoCommit}
         /\ k.done \in BOOLEAN
  BY DEF Call

LEMMA CallUpdates ==
  ASSUME NEW k \in Call
  PROVE  /\ \A x \in PC : [k EXCEPT !.pc = x] \in Call
         /\ \A x \in Sid : [k EXCEPT !.sid = x] \in Call
         /\ \A x \in StepRow : [k EXCEPT !.draft = x] \in Call
         /\ \A x \in Nat : [k EXCEPT !.fix_rounds = x] \in Call
         /\ \A x \in Commit \cup {NoCommit} : [k EXCEPT !.result_commit = x] \in Call
         /\ \A x \in SUBSET Sid : [k EXCEPT !.todo = x] \in Call
         /\ \A x \in WorkflowState : [k EXCEPT !.target = x] \in Call
         /\ \A x \in Commit \cup {NoCommit} : [k EXCEPT !.gain = x] \in Call
         /\ \A x \in BOOLEAN : [k EXCEPT !.done = x] \in Call
  BY DEF Call

LEMMA BlankType == Blank \in StepRow
  BY DEF Blank, StepRow, Step, Executor, ReviewStatus

LEMMA IdleType == Idle \in Call
  BY BlankType DEF Idle, Call, PC, WorkflowState

LEMMA ClosedType ==
  ASSUME NEW row \in StepRow, NEW status \in StepStatus
  PROVE  Closed(row, status) \in StepRow
  BY RowUpdates DEF Closed

LEMMA ReleasedType ==
  ASSUME steps \in [Sid -> StepRow], NEW c, NEW i \in Sid
  PROVE  Released(c, i) \in StepRow
  BY RowUpdates DEF Released

LEMMA ReapedType ==
  ASSUME steps \in [Sid -> StepRow]
  PROVE  Reaped \in [Sid -> StepRow]
  <1>1. ASSUME NEW i \in Sid
        PROVE  [steps[i] EXCEPT !.status = "abandoned", !.holder = NoCaller,
                                !.expired = FALSE] \in StepRow
    BY RowUpdates DEF StepStatus
  <1> QED BY <1>1 DEF Reaped

LEMMA SetRowType ==
  ASSUME steps \in [Sid -> StepRow], NEW i, NEW row, i \in Sid => row \in StepRow,
         SetRow(i, row)
  PROVE  steps' \in [Sid -> StepRow]
  BY DEF SetRow

LEMMA ReturnType ==
  ASSUME call \in [Callers -> Call], NEW c, Return(c)
  PROVE  call' \in [Callers -> Call]
  BY IdleType DEF Return

LEMMA FailStepType ==
  ASSUME TypeOK, NEW c \in Callers, FailStep(c)
  PROVE  steps' \in [Sid -> StepRow] /\ call' \in [Callers -> Call]
  BY ClosedType, ReturnType DEF TypeOK, FailStep, StepStatus

LEMMA CloseStepType ==
  ASSUME TypeOK, NEW c \in Callers, NEW row, call[c].sid \in Sid => row \in StepRow,
         NEW pc \in PC, NEW target \in WorkflowState, NEW gain \in Commit \cup {NoCommit},
         CloseStep(c, row, pc, target, gain)
  PROVE  steps' \in [Sid -> StepRow] /\ call' \in [Callers -> Call]
  <1>1. CASE steps[call[c].sid].status = "running"
    <2>1. call[c].sid \in Sid => Closed(row, "done") \in StepRow
      BY ClosedType DEF StepStatus
    <2>2. SetRow(call[c].sid, Closed(row, "done"))
      BY <1>1 DEF CloseStep
    <2>3. steps' \in [Sid -> StepRow]
      BY <2>1, <2>2, SetRowType DEF TypeOK
    <2>4. call' \in [Callers -> Call]
      BY <1>1, CallUpdates DEF CloseStep, TypeOK
    <2> QED BY <2>3, <2>4
  <1>2. CASE steps[call[c].sid].status # "running"
    BY <1>2, ReturnType DEF CloseStep, TypeOK
  <1> QED BY <1>1, <1>2
-----------------------------------------------------------------------------
(***************************************************************************)
(* Type correctness.  A call that works on a row works on one that was     *)
(* planned, and the rows above `sequence` were not.                        *)
(***************************************************************************)
Rowless == {"idle", "superseding", "planning", "stopping", "cancelling", "cleaning"}

Placed ==
    /\ \A i \in Sid : i > sequence => steps[i] = Blank
    /\ \A c \in Callers : /\ call[c].pc \notin Rowless => call[c].sid \in 1 .. sequence
                         /\ call[c].todo \subseteq 1 .. sequence

LEMMA TypeInit == Init => TypeOK
  BY BlankType, IdleType, BoundAssumption
  DEF Init, TypeOK, WorkflowState, Sid

LEMMA TypePlan ==
  ASSUME TypeOK, NEW c \in Callers, Plan(c)
  PROVE  TypeOK'
  <1>1. ASSUME NEW s \in Kinds, PlanRead(c, s)  PROVE TypeOK'
    <2>1. PICK e \in Bindings[s] :
            LET agentInputs == IF e = "agent" /\ s # "review" THEN Inputs(s) ELSE {}
            IN  call' = [call EXCEPT ![c] =
                   [Idle EXCEPT !.pc = IF s = "review" THEN "superseding" ELSE "planning",
                                !.draft = [Blank EXCEPT
                                    !.step = s, !.executor = e, !.status = "planned",
                                    !.round = workflow.fix_rounds,
                                    !.review = IF s = "review" THEN "pending" ELSE "none",
                                    !.inputs = agentInputs]]]
      BY <1>1 DEF PlanRead
    <2>2. s \in Step /\ e \in Executor
      BY KindsAssumption, BindingsAssumption
    <2>3. Inputs(s) \subseteq Sid
      <3>1. \A a : Newest(Made(a)) \subseteq Sid
        BY DEF Newest, Made
      <3>2. ReviewOf \subseteq Sid
        BY DEF Newest, ReviewOf
      <3>3. UNION {Newest(Made(a)) : a \in input_artifacts[s]} \subseteq Sid
        BY <3>1
      <3> QED BY <3>2, <3>3 DEF Inputs
    <2>4. \A inputs \in SUBSET Sid, review \in ReviewStatus \cup {"none"} :
             [Blank EXCEPT !.step = s, !.executor = e, !.status = "planned",
                           !.round = workflow.fix_rounds,
                           !.review = review, !.inputs = inputs] \in StepRow
      BY <2>2, BlankType, RowUpdates DEF TypeOK, StepStatus
    <2>5. \A pc \in {"superseding", "planning"}, draft \in StepRow :
             [Idle EXCEPT !.pc = pc, !.draft = draft] \in Call
      BY IdleType, CallUpdates DEF PC
    <2>6. call' \in [Callers -> Call]
      BY <2>1, <2>3, <2>4, <2>5 DEF TypeOK, ReviewStatus
    <2> QED BY <1>1, <2>6, ReapedType DEF PlanRead, TypeOK
  <1>2. ASSUME Supersede(c)  PROVE TypeOK'
    <2>1. \A i \in Sid : [steps[i] EXCEPT !.status = "cancelled", !.review = "none"] \in StepRow
      BY RowUpdates DEF TypeOK, StepStatus
    <2>2. steps' \in [Sid -> StepRow]
      BY <1>2, <2>1 DEF Supersede, TypeOK
    <2> QED BY <1>2, <2>2, CallUpdates DEF Supersede, TypeOK, PC
  <1>3. ASSUME PlanInsert(c)  PROVE TypeOK'
    <2>1. steps' \in [Sid -> StepRow]
      BY <1>3, CallFields, SetRowType DEF PlanInsert, TypeOK
    <2> QED BY <1>3, <2>1, ReturnType, BoundAssumption DEF PlanInsert, TypeOK
  <1> QED BY <1>1, <1>2, <1>3 DEF Plan

LEMMA TypeRun ==
  ASSUME TypeOK, Placed, NEW c \in Callers, Run(c)
  PROVE  TypeOK'
  <1> DEFINE i == call[c].sid
             row == steps[i]
  <1>a. call[c] \in Call /\ (i \in Sid => row \in StepRow)
    BY DEF TypeOK
  <1>1. ASSUME Acquire(c)  PROVE TypeOK'
    <2>1. i \in Sid => [row EXCEPT !.holder = c, !.expired = FALSE] \in StepRow
      BY <1>a, RowUpdates
    <2>2. [call[c] EXCEPT !.pc = "leased"] \in Call
      BY <1>a, CallUpdates DEF PC
    <2> QED BY <1>1, <2>1, <2>2, ReturnType, SetRowType DEF Acquire, TypeOK
  <1>2. ASSUME Consume(c)  PROVE TypeOK'
    <2>1. i \in Sid => [row EXCEPT !.status = "running"] \in StepRow
      BY <1>a, RowUpdates DEF StepStatus
    <2>2. [call[c] EXCEPT !.pc = "consumed"] \in Call
      BY <1>a, CallUpdates DEF PC
    <2>3. CASE Spendable(i)
      BY <1>2, <2>1, <2>2, <2>3, SetRowType DEF Consume, TypeOK
    <2>4. CASE ~Spendable(i)
      BY <1>2, <2>4, ReleasedType, ReturnType, SetRowType DEF Consume, TypeOK
    <2> QED BY <2>3, <2>4
  <1>3. ASSUME StartWork(c)  PROVE TypeOK'
    <2>1. [call[c] EXCEPT !.pc = "working"] \in Call
      BY <1>a, CallUpdates DEF PC
    <2> QED BY <1>3, <2>1, FailStepType DEF StartWork, TypeOK
  <1>4. ASSUME BodyFails(c)  PROVE TypeOK'
    BY <1>4, FailStepType DEF BodyFails, TypeOK
  <1>5. ASSUME FinishPlain(c)  PROVE TypeOK'
    <2>1. on_success[row.step] \in WorkflowState
      BY <1>5 DEF FinishPlain, Is, on_success, WorkflowState
    <2> QED BY <1>5, <1>a, <2>1, CloseStepType DEF FinishPlain, TypeOK, PC
  <1>6. ASSUME FinishHostCode(c)  PROVE TypeOK'
    <2>1. PICK k \in Commit \cup {NoCommit} : CloseStep(c, row, "move", "testing", k)
      BY <1>6 DEF FinishHostCode
    <2>2. "move" \in PC /\ "testing" \in WorkflowState
      BY DEF PC, WorkflowState
    <2> QED BY <1>6, <1>a, <2>1, <2>2, CloseStepType DEF FinishHostCode, TypeOK
  <1>7. ASSUME SavePatch(c)  PROVE TypeOK'
    <2>1. ASSUME NEW saved \in BOOLEAN
          PROVE  [call[c] EXCEPT !.pc = "closing", !.done = saved] \in Call
      BY <1>a, CallUpdates DEF PC
    <2>2. i \in Sid
      BY <1>7, BoundAssumption DEF Placed, Rowless, SavePatch, Is, TypeOK, Sid
    <2> QED BY <1>7, <2>1, <2>2 DEF SavePatch, TypeOK
  <1>8. ASSUME FinishPatch(c)  PROVE TypeOK'
    <2>1. i \in Sid => [row EXCEPT !.saved = call[c].done] \in StepRow
      BY <1>a, CallFields, RowUpdates
    <2> QED BY <1>8, <2>1, CloseStepType DEF FinishPatch, TypeOK, PC, WorkflowState
  <1>9. ASSUME RemovePatches(c)  PROVE TypeOK'
    <2>1. ASSUME NEW k \in Commit
          PROVE  [call[c] EXCEPT !.pc = "closing", !.gain = k] \in Call
      BY <1>a, CallUpdates DEF PC
    <2> QED BY <1>9, <2>1 DEF RemovePatches, TypeOK
  <1>10. ASSUME FinishApply(c)  PROVE TypeOK'
    <2>1. "move" \in PC /\ on_success.apply_patch \in WorkflowState
      BY DEF PC, WorkflowState, on_success
    <2>2. call[c].gain \in Commit \cup {NoCommit}
      BY <1>a, CallFields
    <2> QED BY <1>10, <1>a, <2>1, <2>2, CloseStepType DEF FinishApply, TypeOK
  <1>11. ASSUME FinishTest(c)  PROVE TypeOK'
    <2>1. PICK report \in {"passed", "failed"} :
            CloseStep(c, [row EXCEPT !.report = report,
                                     !.commit = TreeCommit(call[c].result_commit)],
                      IF AfterTest(report, call[c].fix_rounds) = "fixing" THEN "bump" ELSE "move",
                      AfterTest(report, call[c].fix_rounds), NoCommit)
      BY <1>11 DEF FinishTest
    <2>2. TreeCommit(call[c].result_commit) \in Commit \cup {NoCommit}
      BY <1>a, CallFields, CommitAssumption DEF TreeCommit
    <2>3. i \in Sid => [row EXCEPT !.report = report,
                                   !.commit = TreeCommit(call[c].result_commit)] \in StepRow
      BY <1>a, <2>2, RowUpdates
    <2>4. AfterTest(report, call[c].fix_rounds) \in WorkflowState
      BY DEF AfterTest, WorkflowState
    <2> QED BY <1>11, <2>1, <2>3, <2>4, CloseStepType DEF FinishTest, TypeOK, PC
  <1>12. ASSUME StartReview(c)  PROVE TypeOK'
    <2>1. i \in Sid => [row EXCEPT !.review = "running"] \in StepRow
      BY <1>a, RowUpdates DEF ReviewStatus
    <2>2. [call[c] EXCEPT !.pc = "working"] \in Call
      BY <1>a, CallUpdates DEF PC
    <2> QED BY <1>12, <2>1, <2>2, SetRowType, FailStepType DEF StartReview, TypeOK
  <1>13. ASSUME Settle(c)  PROVE TypeOK'
    <2>1. ASSUME NEW r \in {"awaiting_synthesis", "failed"}, i \in Sid
          PROVE  [row EXCEPT !.review = IF @ = "running" THEN r ELSE @] \in StepRow
      BY <1>a, <2>1, RowFields, RowUpdates DEF ReviewStatus
    <2>2. steps' \in [Sid -> StepRow]
      BY <1>13, <2>1, SetRowType DEF Settle, TypeOK
    <2>3. ASSUME NEW pc \in {"closing", "failing"}
          PROVE  [call[c] EXCEPT !.pc = pc] \in Call
      BY <1>a, CallUpdates DEF PC
    <2> QED BY <1>13, <2>2, <2>3 DEF Settle, TypeOK
  <1>14. ASSUME FinishReview(c)  PROVE TypeOK'
    <2>1. "move" \in PC /\ on_success.review \in WorkflowState
      BY DEF PC, WorkflowState, on_success
    <2> QED BY <1>14, <1>a, <2>1, CloseStepType DEF FinishReview, TypeOK
  <1>15. ASSUME Finalize(c)  PROVE TypeOK'
    <2>1. PICK r \in ReviewOf :
            IF steps[r].review = "awaiting_synthesis"
            THEN /\ SetRow(r, [steps[r] EXCEPT !.review = "complete"])
                 /\ \E clear \in BOOLEAN :
                       call' = [call EXCEPT ![c].pc = "finalized", ![c].done = clear]
            ELSE FailStep(c)
      BY <1>15 DEF Finalize
    <2>2. r \in Sid /\ [steps[r] EXCEPT !.review = "complete"] \in StepRow
      BY RowUpdates DEF ReviewOf, Newest, TypeOK, ReviewStatus
    <2>3. ASSUME NEW clear \in BOOLEAN
          PROVE  [call[c] EXCEPT !.pc = "finalized", !.done = clear] \in Call
      BY <1>a, CallUpdates DEF PC
    <2>4. steps' \in [Sid -> StepRow] /\ call' \in [Callers -> Call]
      BY <2>1, <2>2, <2>3, SetRowType, FailStepType DEF TypeOK
    <2> QED BY <1>15, <2>4 DEF Finalize, TypeOK
  <1>16. ASSUME Judge(c)  PROVE TypeOK'
    <2>1. LoopDone(call[c].done) \in BOOLEAN
      BY DEF LoopDone
    <2>2. [call[c] EXCEPT !.pc = "judged", !.done = LoopDone(call[c].done)] \in Call
      BY <1>a, <2>1, CallUpdates DEF PC
    <2> QED BY <1>16, <2>2 DEF Judge, TypeOK
  <1>17. ASSUME FinishSynthesis(c)  PROVE TypeOK'
    <2>1. AfterSynthesis(call[c].done, call[c].fix_rounds) \in WorkflowState
      BY DEF AfterSynthesis, WorkflowState
    <2> QED BY <1>17, <1>a, <2>1, CloseStepType DEF FinishSynthesis, TypeOK, PC
  <1>18. ASSUME Bump(c)  PROVE TypeOK'
    <2>1. [call[c] EXCEPT !.pc = "move"] \in Call
      BY <1>a, CallUpdates DEF PC
    <2> QED BY <1>18, <2>1 DEF Bump, TypeOK
  <1>19. ASSUME Move(c)  PROVE TypeOK'
    BY <1>19, <1>a, CallFields, ReturnType DEF Move, Moved, TypeOK
  <1> QED BY <1>1, <1>2, <1>3, <1>4, <1>5, <1>6, <1>7, <1>8, <1>9, <1>10, <1>11, <1>12,
             <1>13, <1>14, <1>15, <1>16, <1>17, <1>18, <1>19 DEF Run

LEMMA TypeCancel ==
  ASSUME TypeOK, NEW c \in Callers, CancelRead(c) \/ Cancel(c)
  PROVE  TypeOK'
  <1> DEFINE i == call[c].sid
  <1>a. call[c] \in Call /\ (i \in Sid => steps[i] \in StepRow)
    BY DEF TypeOK
  <1>1. ASSUME CancelRead(c)  PROVE TypeOK'
    <2>1. [Idle EXCEPT !.pc = "stopping"] \in Call
      BY IdleType, CallUpdates DEF PC
    <2> QED BY <1>1, <2>1 DEF CancelRead, TypeOK
  <1>2. ASSUME CancelList(c)  PROVE TypeOK'
    <2>1. [call[c] EXCEPT !.pc = "cancelling",
                          !.todo = {j \in Sid : steps[j].status = "running"}] \in Call
      BY <1>a, CallUpdates DEF PC
    <2> QED BY <1>2, <2>1 DEF CancelList, TypeOK
  <1>3. ASSUME CancelReview(c)  PROVE TypeOK'
    <2>1. PICK j \in First(call[c].todo) :
            /\ SetRow(j, [steps[j] EXCEPT !.review =
                            IF @ \in CANCELLABLE THEN "cancelled" ELSE @])
            /\ call' = [call EXCEPT ![c].pc = "marking", ![c].sid = j]
      BY <1>3 DEF CancelReview
    <2>2. j \in Sid /\ steps[j] \in StepRow
      BY <1>a, CallFields DEF First, TypeOK
    <2>3. [steps[j] EXCEPT !.review =
              IF @ \in CANCELLABLE THEN "cancelled" ELSE @] \in StepRow
      BY <2>2, RowFields, RowUpdates DEF ReviewStatus
    <2>4. [call[c] EXCEPT !.pc = "marking", !.sid = j] \in Call
      BY <1>a, <2>2, CallUpdates DEF PC
    <2> QED BY <1>3, <2>1, <2>3, <2>4, SetRowType DEF CancelReview, TypeOK
  <1>4. ASSUME CancelStep(c)  PROVE TypeOK'
    <2>1. i \in Sid => Closed(steps[i], "cancelled") \in StepRow
      BY <1>a, ClosedType DEF StepStatus
    <2>2. [call[c] EXCEPT !.pc = "cancelling", !.todo = @ \ {i}] \in Call
      BY <1>a, CallFields, CallUpdates DEF PC
    <2> QED BY <1>4, <2>1, <2>2, SetRowType, ReturnType DEF CancelStep, TypeOK
  <1>5. ASSUME CancelMove(c)  PROVE TypeOK'
    <2>1. [call[c] EXCEPT !.pc = "cleaning"] \in Call
      BY <1>a, CallUpdates DEF PC
    <2>2. Moved("cancelled", NoCommit) \in
             [status : WorkflowState, fix_rounds : Nat, result_commit : Commit \cup {NoCommit}]
      BY DEF Moved, TypeOK, WorkflowState
    <2> QED BY <1>5, <2>1, <2>2, ReturnType DEF CancelMove, TypeOK
  <1>6. ASSUME CancelClean(c)  PROVE TypeOK'
    BY <1>6, ReturnType DEF CancelClean, TypeOK
  <1> QED BY <1>1, <1>2, <1>3, <1>4, <1>5, <1>6 DEF Cancel

LEMMA TypeDirect ==
  ASSUME TypeOK, NEW c \in Callers, (\E i \in Sid : DirectRead(c, i)) \/ Direct(c)
  PROVE  TypeOK'
  <1> DEFINE i == call[c].sid
  <1>a. call[c] \in Call /\ (i \in Sid => steps[i] \in StepRow)
    BY DEF TypeOK
  <1>1. ASSUME NEW j \in Sid, DirectRead(c, j)  PROVE TypeOK'
    <2>1. [Idle EXCEPT !.pc = "called", !.sid = j] \in Call
      BY IdleType, CallUpdates DEF PC
    <2> QED BY <1>1, <2>1 DEF DirectRead, TypeOK
  <1>2. ASSUME DirectAcquire(c)  PROVE TypeOK'
    <2>1. i \in Sid => [steps[i] EXCEPT !.holder = c, !.expired = FALSE] \in StepRow
      BY <1>a, RowUpdates
    <2>2. [call[c] EXCEPT !.pc = "lent"] \in Call
      BY <1>a, CallUpdates DEF PC
    <2> QED BY <1>2, <2>1, <2>2, ReturnType, SetRowType DEF DirectAcquire, TypeOK
  <1>3. ASSUME DirectStart(c)  PROVE TypeOK'
    <2>1. i \in Sid => [steps[i] EXCEPT !.review = "running"] \in StepRow
      BY <1>a, RowUpdates DEF ReviewStatus
    <2>2. [call[c] EXCEPT !.pc = "asking"] \in Call
      BY <1>a, CallUpdates DEF PC
    <2> QED BY <1>3, <2>1, <2>2, SetRowType DEF DirectStart, TypeOK
  <1>4. ASSUME DirectRefuse(c)  PROVE TypeOK'
    BY <1>4, ReleasedType, ReturnType, SetRowType DEF DirectRefuse, TypeOK
  <1>5. ASSUME DirectRelease(c)  PROVE TypeOK'
    <2>1. i \in Sid => Released(c, i) \in StepRow
      BY ReleasedType DEF TypeOK
    <2>2. CASE SetRow(i, Released(c, i)) /\ call' = [call EXCEPT ![c].pc = "settling"]
      <3>1. [call[c] EXCEPT !.pc = "settling"] \in Call
        BY <1>a, CallUpdates DEF PC
      <3> QED BY <1>5, <2>1, <2>2, <3>1, SetRowType DEF DirectRelease, TypeOK
    <2>3. ASSUME NEW r \in {"running", "failed"}, Return(c),
                 SetRow(i, [Released(c, i) EXCEPT !.review = IF @ = "running" THEN r ELSE @])
          PROVE  TypeOK'
      <3>1. i \in Sid => [Released(c, i) EXCEPT !.review =
                             IF @ = "running" THEN r ELSE @] \in StepRow
        BY <2>1, RowFields, RowUpdates DEF ReviewStatus
      <3> QED BY <1>5, <2>3, <3>1, SetRowType, ReturnType DEF DirectRelease, TypeOK
    <2> QED BY <1>5, <2>2, <2>3 DEF DirectRelease
  <1>6. ASSUME DirectSettle(c)  PROVE TypeOK'
    <2>1. ASSUME NEW r \in {"awaiting_synthesis", "failed"}, i \in Sid
          PROVE  [steps[i] EXCEPT !.review = IF @ = "running" THEN r ELSE @] \in StepRow
      BY <1>a, <2>1, RowFields, RowUpdates DEF ReviewStatus
    <2> QED BY <1>6, <2>1, SetRowType, ReturnType DEF DirectSettle, TypeOK
  <1> QED BY <1>1, <1>2, <1>3, <1>4, <1>5, <1>6 DEF Direct

LEMMA TypeBegin ==
  ASSUME TypeOK, NEW c \in Callers, NEW i \in Sid, Begin(c, i)
  PROVE  TypeOK'
  <1>1. [Idle EXCEPT !.pc = "checked", !.sid = i, !.fix_rounds = workflow.fix_rounds,
                     !.result_commit = workflow.result_commit] \in Call
    BY IdleType, CallUpdates DEF PC, TypeOK
  <1> QED BY <1>1, ReapedType DEF Begin, TypeOK

\* Every step of a call that is not a stage of its work.
LEMMA TypeCall ==
  ASSUME TypeOK, NEW c \in Callers,
         Refuse(c) \/ Renew(c) \/ LoseLease(c) \/ Drop(c) \/ Crash(c)
  PROVE  TypeOK'
  <1>1. ASSUME Refuse(c)  PROVE TypeOK'
    BY <1>1, ReleasedType, ReturnType, SetRowType DEF Refuse, TypeOK
  <1>2. ASSUME Renew(c)  PROVE TypeOK'
    <2>1. call[c].sid \in Sid => [steps[call[c].sid] EXCEPT !.expired = FALSE] \in StepRow
      BY RowUpdates DEF TypeOK
    <2> QED BY <1>2, <2>1, SetRowType DEF Renew, TypeOK
  <1>3. ASSUME LoseLease(c)  PROVE TypeOK'
    BY <1>3, FailStepType, ReturnType DEF LoseLease, TypeOK
  <1>4. ASSUME Drop(c)  PROVE TypeOK'
    BY <1>4, ReturnType DEF Drop, TypeOK
  <1>5. ASSUME Crash(c)  PROVE TypeOK'
    BY <1>5, ReturnType, BoundAssumption DEF Crash, TypeOK
  <1> QED BY <1>1, <1>2, <1>3, <1>4, <1>5

\* What the clock, the host and another reader do to the rows.
LEMMA TypeRows ==
  ASSUME TypeOK,
         Status \/ \E i \in Sid : Expire(i) \/ DirectFinalize(i) \/ DirectCancel(i)
  PROVE  TypeOK'
  <1>1. ASSUME Status  PROVE TypeOK'
    BY <1>1, ReapedType DEF Status, TypeOK
  <1>2. ASSUME NEW i \in Sid, Expire(i)  PROVE TypeOK'
    <2>1. [steps[i] EXCEPT !.expired = TRUE] \in StepRow
      BY RowUpdates DEF TypeOK
    <2> QED BY <1>2, <2>1, SetRowType DEF Expire, TypeOK
  <1>3. ASSUME NEW i \in Sid, DirectFinalize(i)  PROVE TypeOK'
    <2>1. [steps[i] EXCEPT !.review = "complete"] \in StepRow
      BY RowUpdates DEF TypeOK, ReviewStatus
    <2> QED BY <1>3, <2>1, SetRowType DEF DirectFinalize, TypeOK
  <1>4. ASSUME NEW i \in Sid, DirectCancel(i)  PROVE TypeOK'
    <2>1. [steps[i] EXCEPT !.review = "cancelled"] \in StepRow
      BY RowUpdates DEF TypeOK, ReviewStatus
    <2> QED BY <1>4, <2>1, SetRowType DEF DirectCancel, TypeOK
  <1> QED BY <1>1, <1>2, <1>3, <1>4

LEMMA TypeNext ==
  ASSUME TypeOK, Placed, [Next]_vars
  PROVE  TypeOK'
  <1>1. CASE UNCHANGED vars
    BY <1>1 DEF vars, TypeOK
  <1>2. CASE Next
    BY <1>2, TypePlan, TypeBegin, TypeRun, TypeCancel, TypeDirect, TypeCall, TypeRows DEF Next
  <1> QED BY <1>1, <1>2

\* A row that says anything was planned.
LEMMA PlannedRow ==
  ASSUME TypeOK, Placed, NEW i \in Sid,
         \/ steps[i].status # "absent"
         \/ steps[i].review # "none"
         \/ steps[i].holder # NoCaller
  PROVE  i \in 1 .. sequence
  <1>1. ~(i > sequence)
    BY DEF Placed, Blank
  <1> QED BY <1>1, BoundAssumption DEF TypeOK, Sid

LEMMA ReapedRow ==
  ASSUME NEW i \in Sid, ~Reapable(i)
  PROVE  Reaped[i] = steps[i]
  BY DEF Reaped

\* reap_abandoned leaves the rows that were not planned alone.
LEMMA ReapedPlaced ==
  ASSUME TypeOK, Placed, NEW i \in Sid, i > sequence
  PROVE  Reaped[i] = steps[i]
  <1>1. ~Reapable(i)
    BY DEF Placed, Blank, Reapable
  <1> QED BY <1>1, ReapedRow

LEMMA PlacedInit == Init => Placed
  BY DEF Init, Placed, Idle, Rowless

\* Finishing a step, or failing to, disturbs one planned row and one call.
LEMMA PlacedFail ==
  ASSUME TypeOK, Placed, NEW c \in Callers, FailStep(c), UNCHANGED sequence,
         call[c].sid \in 1 .. sequence
  PROVE  Placed'
  BY DEF Placed, Rowless, TypeOK, Call, FailStep, Return, Idle

LEMMA PlacedClose ==
  ASSUME TypeOK, Placed, NEW c \in Callers, NEW row, NEW pc, NEW target, NEW gain,
         CloseStep(c, row, pc, target, gain), UNCHANGED sequence,
         call[c].sid \in 1 .. sequence
  PROVE  Placed'
  BY DEF Placed, Rowless, TypeOK, Call, CloseStep, SetRow, Return, Idle

LEMMA PlacedRun ==
  ASSUME TypeOK, Placed, NEW c \in Callers, Run(c)
  PROVE  Placed'
  <1> DEFINE i == call[c].sid
  <1>a. call[c].pc \notin Rowless
    BY DEF Run, Acquire, Consume, StartWork, BodyFails, FinishPlain, FinishHostCode, SavePatch,
           FinishPatch, RemovePatches, FinishApply, FinishTest, StartReview, Settle, FinishReview,
           Finalize, Judge, FinishSynthesis, Bump, Move, Is, Rowless, Owning
  <1>b. i \in 1 .. sequence
    BY <1>a DEF Placed
  <1>1. ASSUME Acquire(c)  PROVE Placed'
    BY <1>1, <1>b DEF Acquire, Placed, Rowless, TypeOK, Call, SetRow, Return, Idle
  <1>2. ASSUME Consume(c)  PROVE Placed'
    BY <1>2, <1>b DEF Consume, Placed, Rowless, TypeOK, Call, SetRow, Return, Idle
  <1>3. ASSUME StartWork(c)  PROVE Placed'
    BY <1>3, <1>b, PlacedFail DEF StartWork, Placed, Rowless, TypeOK, Call
  <1>4. ASSUME BodyFails(c)  PROVE Placed'
    BY <1>4, <1>b, PlacedFail DEF BodyFails
  <1>5. ASSUME FinishPlain(c) \/ FinishHostCode(c) \/ FinishPatch(c) \/ FinishApply(c)
               \/ FinishTest(c) \/ FinishReview(c) \/ FinishSynthesis(c)
        PROVE  Placed'
    BY <1>5, <1>b, PlacedClose
    DEF FinishPlain, FinishHostCode, FinishPatch, FinishApply, FinishTest, FinishReview,
        FinishSynthesis
  <1>6. ASSUME SavePatch(c) \/ RemovePatches(c) \/ Judge(c) \/ Bump(c)  PROVE Placed'
    BY <1>6, <1>b DEF SavePatch, RemovePatches, Judge, Bump, Placed, Rowless, TypeOK, Call
  <1>7. ASSUME StartReview(c)  PROVE Placed'
    BY <1>7, <1>b, PlacedFail DEF StartReview, Placed, Rowless, TypeOK, Call, SetRow
  <1>8. ASSUME Settle(c)  PROVE Placed'
    BY <1>8, <1>b DEF Settle, Placed, Rowless, TypeOK, Call, SetRow
  <1>9. ASSUME Finalize(c)  PROVE Placed'
    <2>1. PICK r \in ReviewOf :
            IF steps[r].review = "awaiting_synthesis"
            THEN /\ SetRow(r, [steps[r] EXCEPT !.review = "complete"])
                 /\ \E clear \in BOOLEAN :
                       call' = [call EXCEPT ![c].pc = "finalized", ![c].done = clear]
            ELSE FailStep(c)
      BY <1>9 DEF Finalize
    <2>2. r \in Sid /\ ~(r > sequence)
      BY DEF ReviewOf, Newest, Placed, Blank
    <2>3. UNCHANGED sequence
      BY <1>9 DEF Finalize
    <2>4. CASE steps[r].review = "awaiting_synthesis"
      BY <1>b, <2>1, <2>2, <2>3, <2>4 DEF Placed, Rowless, TypeOK, Call, SetRow
    <2>5. CASE steps[r].review # "awaiting_synthesis"
      BY <1>b, <2>1, <2>3, <2>5, PlacedFail
    <2> QED BY <2>4, <2>5
  <1>10. ASSUME Move(c)  PROVE Placed'
    BY <1>10, <1>b DEF Move, Placed, Rowless, TypeOK, Return, Idle
  <1> QED BY <1>1, <1>2, <1>3, <1>4, <1>5, <1>6, <1>7, <1>8, <1>9, <1>10 DEF Run

LEMMA PlacedPlan ==
  ASSUME TypeOK, Placed, NEW c \in Callers, Plan(c)
  PROVE  Placed'
  <1>1. ASSUME NEW s \in Kinds, PlanRead(c, s)  PROVE Placed'
    <2>1. \A j \in Sid : j > sequence => steps'[j] = steps[j]
      BY <1>1, ReapedPlaced DEF PlanRead
    <2>2. call'[c].pc \in Rowless /\ call'[c].todo = {} /\ \A d \in Callers \ {c} : call'[d] = call[d]
      BY <1>1 DEF PlanRead, TypeOK, Rowless, Idle
    <2> QED BY <1>1, <2>1, <2>2 DEF PlanRead, Placed
  <1>2. ASSUME Supersede(c)  PROVE Placed'
    <2>1. ASSUME NEW j \in Sid, j > sequence  PROVE steps'[j] = steps[j]
      <3>1. steps[j].status # "planned"
        BY <2>1 DEF Placed, Blank
      <3> QED BY <1>2, <3>1 DEF Supersede
    <2>2. UNCHANGED sequence /\ call[c].pc \in Rowless
          /\ call' = [call EXCEPT ![c].pc = "planning"]
      BY <1>2 DEF Supersede, Rowless
    <2> QED BY <2>1, <2>2 DEF Placed, Rowless, TypeOK, Call
  <1>3. ASSUME PlanInsert(c)  PROVE Placed'
    <2>1. ASSUME NEW j \in Sid, j > sequence + 1  PROVE steps'[j] = Blank
      BY <1>3, <2>1, BoundAssumption DEF PlanInsert, Placed, TypeOK, SetRow, Sid
    <2>2. 1 .. sequence \subseteq 1 .. sequence + 1
      BY DEF TypeOK
    <2>3. ASSUME NEW d \in Callers
          PROVE  /\ call'[d].pc \notin Rowless => call'[d].sid \in 1 .. sequence + 1
                 /\ call'[d].todo \subseteq 1 .. sequence + 1
      BY <1>3, <2>2 DEF PlanInsert, Placed, Rowless, TypeOK, Return, Idle
    <2> QED BY <1>3, <2>1, <2>3 DEF PlanInsert, Placed
  <1> QED BY <1>1, <1>2, <1>3 DEF Plan

LEMMA PlacedBegin ==
  ASSUME TypeOK, Placed, NEW c \in Callers, NEW i \in Sid, Begin(c, i)
  PROVE  Placed'
  <1>1. \A j \in Sid : j > sequence => steps'[j] = steps[j]
    BY ReapedPlaced DEF Begin
  <1>2. i \in 1 .. sequence
    BY PlannedRow DEF Begin
  <1> QED BY <1>1, <1>2 DEF Begin, Placed, Rowless, TypeOK, Idle

LEMMA PlacedCancel ==
  ASSUME TypeOK, Placed, NEW c \in Callers, CancelRead(c) \/ Cancel(c)
  PROVE  Placed'
  <1>1. ASSUME CancelRead(c) \/ CancelClean(c) \/ CancelMove(c)  PROVE Placed'
    BY <1>1 DEF CancelRead, CancelClean, CancelMove, Placed, Rowless, TypeOK, Call, Return, Idle
  <1>2. ASSUME CancelList(c)  PROVE Placed'
    <2>1. {i \in Sid : steps[i].status = "running"} \subseteq 1 .. sequence
      BY DEF Placed, Blank, Sid, TypeOK
    <2> QED BY <1>2, <2>1 DEF CancelList, Placed, Rowless, TypeOK, Call
  <1>3. ASSUME CancelReview(c)  PROVE Placed'
    BY <1>3 DEF CancelReview, First, Placed, Rowless, TypeOK, Call, SetRow
  <1>4. ASSUME CancelStep(c)  PROVE Placed'
    <2>1. call[c].sid \in 1 .. sequence
      BY <1>4 DEF CancelStep, Placed, Rowless
    <2> QED BY <1>4, <2>1 DEF CancelStep, Placed, Rowless, TypeOK, Call, SetRow, Return, Idle
  <1> QED BY <1>1, <1>2, <1>3, <1>4 DEF Cancel

LEMMA PlacedDirect ==
  ASSUME TypeOK, Placed, NEW c \in Callers, (\E i \in Sid : DirectRead(c, i)) \/ Direct(c)
  PROVE  Placed'
  <1>1. ASSUME NEW i \in Sid, DirectRead(c, i)  PROVE Placed'
    <2>1. i \in 1 .. sequence
      BY <1>1, PlannedRow DEF DirectRead
    <2> QED BY <1>1, <2>1 DEF DirectRead, Placed, Rowless, TypeOK, Idle
  <1>2. ASSUME Direct(c)  PROVE Placed'
    <2>1. call[c].sid \in 1 .. sequence
      BY <1>2 DEF Direct, DirectAcquire, DirectStart, DirectRefuse, DirectRelease, DirectSettle,
                  Placed, Rowless
    <2>2. CASE DirectAcquire(c) \/ DirectStart(c) \/ DirectRefuse(c)
      BY <2>1, <2>2 DEF DirectAcquire, DirectStart, DirectRefuse, Placed, Rowless, TypeOK, Call,
                        SetRow, Return, Idle
    <2>3. CASE DirectRelease(c) \/ DirectSettle(c)
      BY <2>1, <2>3 DEF DirectRelease, DirectSettle, Placed, Rowless, TypeOK, Call,
                        SetRow, Return, Idle
    <2> QED BY <1>2, <2>2, <2>3 DEF Direct
  <1> QED BY <1>1, <1>2

LEMMA PlacedCall ==
  ASSUME TypeOK, Placed, NEW c \in Callers,
         Refuse(c) \/ Renew(c) \/ LoseLease(c) \/ Drop(c) \/ Crash(c)
  PROVE  Placed'
  <1>1. ASSUME Refuse(c) \/ Renew(c)  PROVE Placed'
    <2>1. call[c].sid \in 1 .. sequence
      BY <1>1 DEF Refuse, Renew, Placed, Rowless, Leasing
    <2> QED BY <1>1, <2>1 DEF Refuse, Renew, Placed, Rowless, TypeOK, Call, SetRow, Return, Idle
  <1>2. ASSUME LoseLease(c)  PROVE Placed'
    <2>1. call[c].sid \in 1 .. sequence
      BY <1>2 DEF LoseLease, Placed, Rowless, Leasing
    <2> QED BY <1>2, <2>1, PlacedFail DEF LoseLease, Placed, Rowless, TypeOK, Return, Idle
  <1>3. ASSUME Drop(c) \/ Crash(c)  PROVE Placed'
    BY <1>3 DEF Drop, Crash, Placed, Rowless, TypeOK, Return, Idle
  <1> QED BY <1>1, <1>2, <1>3

LEMMA PlacedRows ==
  ASSUME TypeOK, Placed,
         Status \/ \E i \in Sid : Expire(i) \/ DirectFinalize(i) \/ DirectCancel(i)
  PROVE  Placed'
  <1>1. ASSUME Status  PROVE Placed'
    BY <1>1, ReapedPlaced DEF Status, Placed
  <1>2. ASSUME NEW i \in Sid, Expire(i) \/ DirectFinalize(i) \/ DirectCancel(i)  PROVE Placed'
    <2>1. i \in 1 .. sequence
      BY <1>2, PlannedRow DEF Expire, LiveLease, DirectFinalize, DirectCancel, CANCELLABLE
    <2>2. \A j \in Sid : j > sequence => steps'[j] = steps[j]
      BY <1>2, <2>1 DEF Expire, DirectFinalize, DirectCancel, TypeOK, SetRow
    <2> QED BY <1>2, <2>2 DEF Expire, DirectFinalize, DirectCancel, Placed
  <1> QED BY <1>1, <1>2

LEMMA PlacedNext ==
  ASSUME TypeOK, Placed, [Next]_vars
  PROVE  Placed'
  <1>1. CASE UNCHANGED vars
    BY <1>1 DEF vars, Placed
  <1>2. CASE Next
    BY <1>2, PlacedPlan, PlacedBegin, PlacedRun, PlacedCancel, PlacedDirect, PlacedCall,
       PlacedRows DEF Next
  <1> QED BY <1>1, <1>2

\* The rows and the calls are what the store and the service can hold.
THEOREM TypeCorrect == Spec => []TypeOK
  <1>1. Init => TypeOK /\ Placed
    BY TypeInit, PlacedInit
  <1>2. TypeOK /\ Placed /\ [Next]_vars => (TypeOK /\ Placed)'
    BY TypeNext, PlacedNext
  <1> QED BY <1>1, <1>2, PTL DEF Spec

-----------------------------------------------------------------------------
(***************************************************************************)
(* What a step may never do to a row: an outcome and a verdict stand.      *)
(***************************************************************************)
OutcomeKept ==
    \A i \in Sid : steps[i].status \in Finished =>
        /\ steps'[i].status = steps[i].status
        /\ steps'[i].report = steps[i].report
        /\ steps'[i].commit = steps[i].commit

VerdictKept ==
    \A i \in Sid : steps[i].review \in {"complete", "cancelled"} =>
        steps'[i].review = steps[i].review

\* A planned row stays the step it was planned as.
PlanKept ==
    \A i \in Sid : i <= sequence => /\ steps'[i].step = steps[i].step
                                    /\ steps'[i].executor = steps[i].executor

Kept == OutcomeKept /\ VerdictKept /\ PlanKept

LEMMA KeptSame == UNCHANGED steps => Kept
  BY DEF Kept, OutcomeKept, VerdictKept, PlanKept

\* A change of one row keeps all that stands if it does so on that row.
LEMMA KeptRow ==
  ASSUME TypeOK, NEW j, NEW row, SetRow(j, row),
         j \in Sid => /\ steps[j].status \in Finished =>
                            /\ row.status = steps[j].status
                            /\ row.report = steps[j].report
                            /\ row.commit = steps[j].commit
                      /\ steps[j].review \in {"complete", "cancelled"} =>
                            row.review = steps[j].review
                      /\ j <= sequence =>
                            row.step = steps[j].step /\ row.executor = steps[j].executor
  PROVE  Kept
  BY DEF TypeOK, SetRow, Kept, OutcomeKept, VerdictKept, PlanKept

LEMMA KeptReaped ==
  ASSUME TypeOK, steps' = Reaped
  PROVE  Kept
  <1>1. ASSUME NEW i \in Sid
        PROVE  /\ Reaped[i].review = steps[i].review
               /\ Reaped[i].step = steps[i].step
               /\ Reaped[i].executor = steps[i].executor
               /\ steps[i].status \in Finished => Reaped[i] = steps[i]
    BY DEF Reaped, Reapable, Finished, TypeOK, StepRow
  <1> QED BY <1>1 DEF Kept, OutcomeKept, VerdictKept, PlanKept

LEMMA KeptFail ==
  ASSUME TypeOK, NEW c \in Callers, FailStep(c)
  PROVE  Kept
  BY DEF FailStep, Closed, TypeOK, StepRow, Finished, Kept, OutcomeKept, VerdictKept, PlanKept

LEMMA KeptClose ==
  ASSUME TypeOK, NEW c \in Callers, NEW row, NEW pc, NEW target, NEW gain,
         CloseStep(c, row, pc, target, gain),
         call[c].sid \in Sid => /\ row \in StepRow
                                /\ row.review = steps[call[c].sid].review
                                /\ row.step = steps[call[c].sid].step
                                /\ row.executor = steps[call[c].sid].executor
  PROVE  Kept
  <1> DEFINE i == call[c].sid
  <1>1. CASE steps[i].status = "running"
    <2>1. SetRow(i, Closed(row, "done"))
      BY <1>1 DEF CloseStep
    <2>2. i \in Sid => /\ Closed(row, "done").review = steps[i].review
                       /\ Closed(row, "done").step = steps[i].step
                       /\ Closed(row, "done").executor = steps[i].executor
      BY DEF Closed, StepRow
    <2> QED BY <1>1, <2>1, <2>2, KeptRow DEF Finished
  <1>2. CASE steps[i].status # "running"
    BY <1>2, KeptSame DEF CloseStep
  <1> QED BY <1>1, <1>2

\* The lease columns have no part in what stands.
LEMMA LeaseColumns ==
  ASSUME NEW row \in StepRow, NEW leased, NEW holder, NEW expired,
         leased = [row EXCEPT !.holder = holder, !.expired = expired]
  PROVE  /\ leased.status = row.status
         /\ leased.report = row.report
         /\ leased.commit = row.commit
         /\ leased.review = row.review
         /\ leased.step = row.step
         /\ leased.executor = row.executor
  BY DEF StepRow

LEMMA KeptReleased ==
  ASSUME TypeOK, NEW c, NEW i, SetRow(i, Released(c, i))
  PROVE  Kept
  <1>1. CASE steps[i].holder = c
    <2>1. Released(c, i) = [steps[i] EXCEPT !.holder = NoCaller, !.expired = FALSE]
      BY <1>1 DEF Released
    <2>2. i \in Sid => steps[i] \in StepRow
      BY DEF TypeOK
    <2> QED BY <2>1, <2>2, KeptRow, LeaseColumns
  <1>2. CASE steps[i].holder # c
    BY <1>2, KeptRow DEF Released
  <1> QED BY <1>1, <1>2

LEMMA KeptRun ==
  ASSUME TypeOK, NEW c \in Callers, Run(c)
  PROVE  Kept
  <1> DEFINE i == call[c].sid
             row == steps[i]
  <1>a. i \in Sid => row \in StepRow
    BY DEF TypeOK
  <1>1. ASSUME Acquire(c)  PROVE Kept
    BY <1>1, <1>a, KeptRow, KeptSame DEF Acquire, StepRow
  <1>2. ASSUME Consume(c)  PROVE Kept
    <2>1. CASE Spendable(i)
      BY <1>2, <1>a, <2>1, KeptRow DEF Consume, Spendable, StepRow, Finished
    <2>2. CASE ~Spendable(i)
      BY <1>2, <2>2, KeptReleased DEF Consume
    <2> QED BY <2>1, <2>2
  <1>3. ASSUME StartWork(c) \/ BodyFails(c)  PROVE Kept
    BY <1>3, KeptFail, KeptSame DEF StartWork, BodyFails
  <1>4. ASSUME FinishPlain(c) \/ FinishHostCode(c) \/ FinishApply(c) \/ FinishReview(c)
               \/ FinishSynthesis(c)
        PROVE  Kept
    BY <1>4, <1>a, KeptClose
    DEF FinishPlain, FinishHostCode, FinishApply, FinishReview, FinishSynthesis
  <1>5. ASSUME FinishPatch(c)  PROVE Kept
    <2>1. i \in Sid => [row EXCEPT !.saved = call[c].done] \in StepRow
      BY <1>a, CallFields, RowUpdates DEF TypeOK
    <2>2. i \in Sid => /\ [row EXCEPT !.saved = call[c].done].review = row.review
                       /\ [row EXCEPT !.saved = call[c].done].step = row.step
                       /\ [row EXCEPT !.saved = call[c].done].executor = row.executor
      BY <1>a DEF StepRow
    <2> QED BY <1>5, <2>1, <2>2, KeptClose DEF FinishPatch
  <1>6. ASSUME FinishTest(c)  PROVE Kept
    <2>1. TreeCommit(call[c].result_commit) \in Commit \cup {NoCommit}
      BY CallFields, CommitAssumption DEF TreeCommit, TypeOK
    <2> DEFINE tested(report) == [row EXCEPT !.report = report,
                                             !.commit = TreeCommit(call[c].result_commit)]
    <2>2. ASSUME NEW report \in {"passed", "failed"}, i \in Sid
          PROVE  tested(report) \in StepRow
      BY <1>a, <2>1, <2>2, RowUpdates
    <2>3. ASSUME NEW report, i \in Sid
          PROVE  /\ tested(report).review = row.review
                 /\ tested(report).step = row.step
                 /\ tested(report).executor = row.executor
      BY <1>a, <2>3 DEF StepRow
    <2> QED BY <1>6, <2>2, <2>3, KeptClose DEF FinishTest
  <1>7. ASSUME SavePatch(c) \/ RemovePatches(c) \/ Judge(c) \/ Bump(c) \/ Move(c)  PROVE Kept
    BY <1>7, KeptSame DEF SavePatch, RemovePatches, Judge, Bump, Move
  <1>8. ASSUME StartReview(c)  PROVE Kept
    BY <1>8, <1>a, KeptRow, KeptFail DEF StartReview, StepRow
  <1>9. ASSUME Settle(c)  PROVE Kept
    BY <1>9, <1>a, KeptRow DEF Settle, StepRow
  <1>10. ASSUME Finalize(c)  PROVE Kept
    <2>1. PICK r \in ReviewOf :
            IF steps[r].review = "awaiting_synthesis"
            THEN SetRow(r, [steps[r] EXCEPT !.review = "complete"])
            ELSE FailStep(c)
      BY <1>10 DEF Finalize
    <2> QED BY <2>1, KeptRow, KeptFail DEF TypeOK, StepRow
  <1> QED BY <1>1, <1>2, <1>3, <1>4, <1>5, <1>6, <1>7, <1>8, <1>9, <1>10 DEF Run

\* PlanInsert writes a row that was not there.
LEMMA KeptPlan ==
  ASSUME TypeOK, Placed, NEW c \in Callers, Plan(c)
  PROVE  Kept
  <1>1. ASSUME NEW s \in Kinds, PlanRead(c, s)  PROVE Kept
    BY <1>1, KeptReaped DEF PlanRead
  <1>2. ASSUME Supersede(c)  PROVE Kept
    <2>1. ASSUME NEW i \in Sid
          PROVE  \/ steps'[i] = steps[i]
                 \/ /\ steps[i].status = "planned" /\ steps[i].review = "pending"
                    /\ steps'[i] = [steps[i] EXCEPT !.status = "cancelled", !.review = "none"]
      BY <1>2 DEF Supersede
    <2>2. \A i \in Sid : steps[i] \in StepRow
      BY DEF TypeOK
    <2>3. ASSUME NEW i \in Sid
          PROVE  /\ steps'[i].step = steps[i].step /\ steps'[i].executor = steps[i].executor
                 /\ steps[i].status \in Finished => steps'[i] = steps[i]
                 /\ steps[i].review \in {"complete", "cancelled"} => steps'[i] = steps[i]
      <3>1. CASE steps'[i] = steps[i]
        BY <3>1
      <3>2. CASE steps'[i] # steps[i]
        <4>1. steps[i].status = "planned" /\ steps[i].review = "pending"
          BY <2>1, <3>2
        <4>2. steps'[i] = [steps[i] EXCEPT !.status = "cancelled", !.review = "none"]
          BY <2>1, <3>2
        <4>3. steps[i] \in StepRow
          BY <2>2
        <4>4. steps'[i].step = steps[i].step /\ steps'[i].executor = steps[i].executor
          BY <4>2, <4>3 DEF StepRow
        <4> QED BY <4>1, <4>4 DEF Finished
      <3> QED BY <3>1, <3>2
    <2> QED BY <2>3 DEF Kept, OutcomeKept, VerdictKept, PlanKept
  <1>3. ASSUME PlanInsert(c)  PROVE Kept
    <2>1. sequence + 1 \in Sid => steps[sequence + 1] = Blank
      BY DEF Placed, TypeOK
    <2> QED BY <1>3, <2>1, KeptRow DEF PlanInsert, Blank, Finished, TypeOK
  <1> QED BY <1>1, <1>2, <1>3 DEF Plan

LEMMA KeptCancel ==
  ASSUME TypeOK, NEW c \in Callers, CancelRead(c) \/ Cancel(c)
  PROVE  Kept
  <1>1. ASSUME CancelRead(c) \/ CancelList(c) \/ CancelMove(c) \/ CancelClean(c)  PROVE Kept
    BY <1>1, KeptSame DEF CancelRead, CancelList, CancelMove, CancelClean
  <1>2. ASSUME CancelReview(c)  PROVE Kept
    BY <1>2, KeptRow DEF CancelReview, TypeOK, StepRow, CANCELLABLE
  <1>3. ASSUME CancelStep(c)  PROVE Kept
    <2> DEFINE i == call[c].sid
    <2>1. i \in Sid => /\ Closed(steps[i], "cancelled").review = steps[i].review
                       /\ Closed(steps[i], "cancelled").step = steps[i].step
                       /\ Closed(steps[i], "cancelled").executor = steps[i].executor
      BY DEF Closed, TypeOK, StepRow
    <2> QED BY <1>3, <2>1, KeptRow, KeptSame DEF CancelStep, Finished
  <1> QED BY <1>1, <1>2, <1>3 DEF Cancel

LEMMA KeptDirect ==
  ASSUME TypeOK, NEW c \in Callers, (\E i \in Sid : DirectRead(c, i)) \/ Direct(c)
  PROVE  Kept
  <1> DEFINE i == call[c].sid
  <1>1. ASSUME NEW j \in Sid, DirectRead(c, j)  PROVE Kept
    BY <1>1, KeptSame DEF DirectRead
  <1>2. ASSUME DirectAcquire(c) \/ DirectStart(c)  PROVE Kept
    <2>1. CASE DirectAcquire(c)
      <3>1. i \in Sid => steps[i] \in StepRow
        BY DEF TypeOK
      <3> QED BY <2>1, <3>1, LeaseColumns, KeptRow, KeptSame DEF DirectAcquire
    <2>2. CASE DirectStart(c)
      BY <2>2, KeptRow DEF DirectStart, TypeOK, StepRow
    <2> QED BY <1>2, <2>1, <2>2
  <1>3. ASSUME DirectRefuse(c)  PROVE Kept
    BY <1>3, KeptReleased DEF DirectRefuse
  <1>4. ASSUME DirectRelease(c)  PROVE Kept
    <2>1. CASE SetRow(i, Released(c, i))
      BY <2>1, KeptReleased
    <2>2. ASSUME NEW r \in {"running", "failed"},
                 SetRow(i, [Released(c, i) EXCEPT !.review = IF @ = "running" THEN r ELSE @])
          PROVE  Kept
      <3>1. i \in Sid => /\ Released(c, i) \in StepRow
                         /\ Released(c, i).status = steps[i].status
                         /\ Released(c, i).report = steps[i].report
                         /\ Released(c, i).commit = steps[i].commit
                         /\ Released(c, i).review = steps[i].review
                         /\ Released(c, i).step = steps[i].step
                         /\ Released(c, i).executor = steps[i].executor
        <4>1. i \in Sid => steps[i] \in StepRow
          BY DEF TypeOK
        <4>2. CASE steps[i].holder = c
          BY <4>1, <4>2, ReleasedType, LeaseColumns DEF Released, TypeOK
        <4>3. CASE steps[i].holder # c
          BY <4>1, <4>3 DEF Released
        <4> QED BY <4>2, <4>3
      <3> QED BY <2>2, <3>1, KeptRow DEF StepRow
    <2> QED BY <1>4, <2>1, <2>2 DEF DirectRelease
  <1>5. ASSUME DirectSettle(c)  PROVE Kept
    BY <1>5, KeptRow DEF DirectSettle, TypeOK, StepRow
  <1> QED BY <1>1, <1>2, <1>3, <1>4, <1>5 DEF Direct

LEMMA KeptNext ==
  ASSUME TypeOK, Placed, [Next]_vars
  PROVE  Kept
  <1>1. CASE UNCHANGED vars
    BY <1>1, KeptSame DEF vars
  <1>2. ASSUME NEW c \in Callers, NEW i \in Sid, Begin(c, i)  PROVE Kept
    BY <1>2, KeptReaped DEF Begin
  <1>3. ASSUME NEW c \in Callers, Refuse(c) \/ Renew(c) \/ LoseLease(c) \/ Drop(c) \/ Crash(c)
        PROVE  Kept
    <2>1. CASE Refuse(c)
      BY <2>1, KeptReleased DEF Refuse
    <2>2. CASE Renew(c)
      BY <2>2, KeptRow DEF Renew, TypeOK, StepRow
    <2>3. CASE LoseLease(c)
      BY <2>3, KeptFail, KeptSame DEF LoseLease
    <2>4. CASE Drop(c) \/ Crash(c)
      BY <2>4, KeptSame DEF Drop, Crash
    <2> QED BY <1>3, <2>1, <2>2, <2>3, <2>4
  <1>4. CASE Status
    BY <1>4, KeptReaped DEF Status
  <1>5. ASSUME NEW i \in Sid, Expire(i) \/ DirectFinalize(i) \/ DirectCancel(i)  PROVE Kept
    BY <1>5, KeptRow DEF Expire, DirectFinalize, DirectCancel, CANCELLABLE, TypeOK, StepRow
  <1> QED BY <1>1, <1>2, <1>3, <1>4, <1>5, KeptPlan, KeptRun, KeptCancel, KeptDirect DEF Next

\* A recorded outcome stands, whatever late writer comes back to the row: every write
\* of a status goes through finish_step's `status = 'running'`, consume_step_token's
\* and supersede's `status = 'planned'`, or reap_abandoned's.
THEOREM OutcomesStand == Spec => OutcomeStands
  <1>1. Init => TypeOK /\ Placed
    BY TypeInit, PlacedInit
  <1>2. TypeOK /\ Placed /\ [Next]_vars => (TypeOK /\ Placed)'
    BY TypeNext, PlacedNext
  <1>3. TypeOK /\ Placed /\ [Next]_vars => OutcomeKept
    BY KeptNext DEF Kept
  <1> QED BY <1>1, <1>2, <1>3, PTL DEF Spec, OutcomeStands, OutcomeKept

\* A finalized or cancelled review stays so: every transition of a review names the
\* states it leaves, and neither of these is among them.
THEOREM VerdictsStand == Spec => ReviewVerdictStands
  <1>1. Init => TypeOK /\ Placed
    BY TypeInit, PlacedInit
  <1>2. TypeOK /\ Placed /\ [Next]_vars => (TypeOK /\ Placed)'
    BY TypeNext, PlacedNext
  <1>3. TypeOK /\ Placed /\ [Next]_vars => VerdictKept
    BY KeptNext DEF Kept
  <1> QED BY <1>1, <1>2, <1>3, PTL DEF Spec, ReviewVerdictStands, VerdictKept

-----------------------------------------------------------------------------
(* The workflow's own row. *)

\* No step runs from a state the workflow has ended in.
LEMMA RunsFromLive == \A s \in Step : runs_from[s] \cap TERMINAL_STATES = {}
  BY DEF Step, runs_from, TERMINAL_STATES

EndKept == Ended(workflow) => /\ workflow'.status = workflow.status
                              /\ workflow'.result_commit = workflow.result_commit

LEMMA EndNext ==
  ASSUME TypeOK, Placed, [Next]_vars
  PROVE  EndKept
  <1>1. CASE UNCHANGED workflow
    BY <1>1 DEF EndKept
  <1>2. ASSUME NEW c \in Callers, Bump(c)  PROVE EndKept
    BY <1>2 DEF Bump, EndKept, TypeOK
  <1>3. ASSUME NEW c \in Callers, Move(c)  PROVE EndKept
    <2>1. call[c].sid \in Sid
      BY <1>3, BoundAssumption DEF Move, Placed, Rowless, TypeOK, Sid
    <2>2. steps[call[c].sid].step \in Step
      BY <2>1, RowFields DEF TypeOK
    <2> QED BY <1>3, <2>2, RunsFromLive DEF Move, Movable, Moved, EndKept, Ended
  <1>4. ASSUME NEW c \in Callers, CancelMove(c)  PROVE EndKept
    BY <1>4 DEF CancelMove, Movable, Moved, EndKept, Ended
  <1>5. ASSUME NEW c \in Callers, Plan(c) \/ Direct(c) \/ (\E i \in Sid : DirectRead(c, i))
        PROVE  UNCHANGED workflow
    BY <1>5 DEF Plan, PlanRead, Supersede, PlanInsert, Direct, DirectAcquire, DirectStart,
                DirectRefuse, DirectRelease, DirectSettle, DirectRead
  <1>6. ASSUME NEW c \in Callers, Run(c)  PROVE UNCHANGED workflow \/ Bump(c) \/ Move(c)
    <2>1. ASSUME Acquire(c) \/ Consume(c) \/ StartWork(c) \/ BodyFails(c) \/ StartReview(c)
          PROVE  UNCHANGED workflow
      BY <2>1 DEF Acquire, Consume, StartWork, BodyFails, StartReview
    <2>2. ASSUME \/ FinishPlain(c) \/ FinishHostCode(c) \/ SavePatch(c) \/ FinishPatch(c)
                 \/ RemovePatches(c) \/ FinishApply(c) \/ FinishTest(c)
          PROVE  UNCHANGED workflow
      BY <2>2 DEF FinishPlain, FinishHostCode, SavePatch, FinishPatch, RemovePatches,
                  FinishApply, FinishTest
    <2>3. ASSUME \/ Settle(c) \/ FinishReview(c) \/ Finalize(c) \/ Judge(c)
                 \/ FinishSynthesis(c)
          PROVE  UNCHANGED workflow
      BY <2>3 DEF Settle, FinishReview, Finalize, Judge, FinishSynthesis
    <2> QED BY <1>6, <2>1, <2>2, <2>3 DEF Run
  <1>7. ASSUME NEW c \in Callers, CancelRead(c) \/ Cancel(c)
        PROVE  UNCHANGED workflow \/ CancelMove(c)
    BY <1>7 DEF Cancel, CancelRead, CancelList, CancelReview, CancelStep, CancelClean
  <1>8. ASSUME NEW c \in Callers,
               \/ \E i \in Sid : Begin(c, i)
               \/ Refuse(c) \/ Renew(c) \/ LoseLease(c) \/ Drop(c) \/ Crash(c)
        PROVE  UNCHANGED workflow
    BY <1>8 DEF Begin, Refuse, Renew, LoseLease, Drop, Crash
  <1>9. ASSUME Status \/ \E i \in Sid : Expire(i) \/ DirectFinalize(i) \/ DirectCancel(i)
        PROVE  UNCHANGED workflow
    BY <1>9 DEF Status, Expire, DirectFinalize, DirectCancel
  <1>10. CASE UNCHANGED vars
    BY <1>1, <1>10 DEF vars
  <1> QED BY <1>1, <1>2, <1>3, <1>4, <1>5, <1>6, <1>7, <1>8, <1>9, <1>10 DEF Next

\* An ended workflow stays ended: transition's allowed_from never holds a terminal
\* state, so a step that was in flight at the cancel moves nothing when it succeeds.
THEOREM EndsStand == Spec => EndStands
  <1>1. Init => TypeOK /\ Placed
    BY TypeInit, PlacedInit
  <1>2. TypeOK /\ Placed /\ [Next]_vars => (TypeOK /\ Placed)'
    BY TypeNext, PlacedNext
  <1>3. TypeOK /\ Placed /\ [Next]_vars => EndKept
    BY EndNext
  <1> QED BY <1>1, <1>2, <1>3, PTL DEF Spec, EndStands, EndKept

-----------------------------------------------------------------------------
(***************************************************************************)
(* The lease.  Most steps are calm: a row keeps its lease columns and its  *)
(* status, or is freed as it is finished or planned, and no call gets into *)
(* `lease`, nor to a step of its own, that was not there before.           *)
(***************************************************************************)
Undisturbed(i) ==
    /\ steps'[i].holder = steps[i].holder
    /\ steps'[i].expired = steps[i].expired
    /\ \/ steps'[i].status = steps[i].status
       \/ steps[i].status = "planned" /\ steps'[i].status = "cancelled"

Freed(i) ==
    /\ steps'[i].holder = NoCaller
    /\ \/ steps[i].status = "running" /\ steps'[i].status \in Finished
       \/ steps[i] = Blank /\ steps'[i].status = "planned"

RowsCalm == \A i \in Sid : Undisturbed(i) \/ Freed(i)

CallCalm(c) ==
    /\ call'[c].pc \in Leasing => call[c].pc \in Leasing
    /\ call'[c].pc \in Owning => call[c].pc \in Owning
    /\ call'[c].pc = "leased" => call[c].pc = "leased"
    /\ call'[c].pc = "checked" => call[c].pc = "checked"
    /\ call'[c].pc \in Leasing \cup {"checked"} => call'[c].sid = call[c].sid
    /\ call'[c].pc \in {"superseding", "planning"} =>
          /\ call[c].pc \in {"superseding", "planning"}
          /\ call'[c].draft = call[c].draft
    /\ call'[c].pc \in {"called", "lent", "asking", "settling"} =>
          call[c].pc \in {"called", "lent", "asking", "settling"}

CallsCalm == \A c \in Callers : CallCalm(c)

Calm == RowsCalm /\ CallsCalm

\* A planned row starts with no lease.
Drafted == \A c \in Callers : call[c].pc \in {"superseding", "planning"} =>
              /\ call[c].draft.status = "planned"
              /\ call[c].draft.holder = NoCaller

LEMMA CalmSame ==
  ASSUME UNCHANGED steps
  PROVE  RowsCalm
  BY DEF RowsCalm, Undisturbed

LEMMA CalmReaped ==
  ASSUME TypeOK, steps' = Reaped
  PROVE  RowsCalm
  <1>1. ASSUME NEW i \in Sid  PROVE Undisturbed(i) \/ Freed(i)
    <2>1. CASE Reapable(i)
      <3>1. Reaped[i] = [steps[i] EXCEPT !.status = "abandoned", !.holder = NoCaller,
                                         !.expired = FALSE]
        BY <2>1 DEF Reaped
      <3>2. steps[i] \in StepRow
        BY DEF TypeOK
      <3>3. Reaped[i].status = "abandoned" /\ Reaped[i].holder = NoCaller
        BY <3>1, <3>2 DEF StepRow
      <3> QED BY <2>1, <3>3 DEF Reapable, Freed, Finished
    <2>2. CASE ~Reapable(i)
      BY <2>2, ReapedRow DEF Undisturbed
    <2> QED BY <2>1, <2>2
  <1> QED BY <1>1 DEF RowsCalm

LEMMA CalmRow ==
  ASSUME TypeOK, NEW j, NEW row, SetRow(j, row),
         j \in Sid => \/ /\ row.holder = steps[j].holder
                         /\ row.expired = steps[j].expired
                         /\ row.status = steps[j].status
                      \/ /\ row.holder = NoCaller
                         /\ \/ steps[j].status = "running" /\ row.status \in Finished
                            \/ steps[j] = Blank /\ row.status = "planned"
  PROVE  RowsCalm
  BY DEF TypeOK, SetRow, RowsCalm, Undisturbed, Freed

LEMMA ClosedRow ==
  ASSUME NEW row \in StepRow, NEW status \in Finished
  PROVE  Closed(row, status).status = status /\ Closed(row, status).holder = NoCaller
  BY DEF Closed, StepRow

LEMMA CallsReturn ==
  ASSUME TypeOK, NEW c \in Callers, Return(c)
  PROVE  CallsCalm
  BY DEF TypeOK, Return, Idle, CallsCalm, CallCalm, Leasing, Owning

LEMMA CalmFail ==
  ASSUME TypeOK, NEW c \in Callers, FailStep(c)
  PROVE  Calm
  <1> DEFINE i == call[c].sid
  <1>1. i \in Sid => steps[i] \in StepRow
    BY DEF TypeOK
  <1>2. CASE steps[i].status = "running"
    <2>1. SetRow(i, Closed(steps[i], "failed"))
      BY <1>2 DEF FailStep, SetRow
    <2>2. RowsCalm
      BY <1>1, <1>2, <2>1, ClosedRow, CalmRow DEF Finished
    <2> QED BY <2>2, CallsReturn DEF FailStep, Calm
  <1>3. CASE steps[i].status # "running"
    BY <1>3, CalmSame, CallsReturn DEF FailStep, Calm
  <1> QED BY <1>2, <1>3

LEMMA CalmClose ==
  ASSUME TypeOK, NEW c \in Callers, NEW row, NEW pc \in {"bump", "move"}, NEW target, NEW gain,
         CloseStep(c, row, pc, target, gain), call[c].sid \in Sid => row \in StepRow,
         call[c].pc \in Owning
  PROVE  Calm
  <1> DEFINE i == call[c].sid
  <1>1. CASE steps[i].status = "running"
    <2>1. SetRow(i, Closed(row, "done"))
      BY <1>1 DEF CloseStep
    <2>2. RowsCalm
      BY <1>1, <2>1, ClosedRow, CalmRow DEF Finished
    <2>3. CallsCalm
      BY <1>1 DEF CloseStep, TypeOK, Call, CallsCalm, CallCalm, Leasing, Owning
    <2> QED BY <2>2, <2>3 DEF Calm
  <1>2. CASE steps[i].status # "running"
    BY <1>2, CalmSame, CallsReturn DEF CloseStep, Calm
  <1> QED BY <1>1, <1>2

\* The stages of a call that holds its step.
Work(c) == \/ StartWork(c) \/ BodyFails(c)
           \/ FinishPlain(c) \/ FinishHostCode(c) \/ SavePatch(c) \/ FinishPatch(c)
           \/ RemovePatches(c) \/ FinishApply(c) \/ FinishTest(c)
           \/ StartReview(c) \/ Settle(c) \/ FinishReview(c)
           \/ Finalize(c) \/ Judge(c) \/ FinishSynthesis(c) \/ Bump(c) \/ Move(c)

LEMMA CalmWork ==
  ASSUME TypeOK, NEW c \in Callers, Work(c)
  PROVE  Calm
  <1> DEFINE i == call[c].sid
             row == steps[i]
  <1>a. i \in Sid => row \in StepRow
    BY DEF TypeOK
  <1>1. ASSUME StartWork(c)  PROVE Calm
    <2>1. CASE FailStep(c)
      BY <2>1, CalmFail
    <2>2. CASE ~FailStep(c)
      <3>1. CallsCalm
        BY <1>1, <2>2 DEF StartWork, TypeOK, Call, CallsCalm, CallCalm, Leasing, Owning
      <3> QED BY <1>1, <2>2, <3>1, CalmSame DEF StartWork, Calm
    <2> QED BY <2>1, <2>2
  <1>2. ASSUME BodyFails(c)  PROVE Calm
    BY <1>2, CalmFail DEF BodyFails
  <1>3. ASSUME FinishPlain(c) \/ FinishHostCode(c) \/ FinishApply(c) \/ FinishReview(c)
               \/ FinishSynthesis(c)
        PROVE  Calm
    BY <1>3, <1>a, CalmClose
    DEF FinishPlain, FinishHostCode, FinishApply, FinishReview, FinishSynthesis, Is, Owning
  <1>4. ASSUME FinishPatch(c)  PROVE Calm
    <2>1. i \in Sid => [row EXCEPT !.saved = call[c].done] \in StepRow
      BY <1>a, CallFields, RowUpdates DEF TypeOK
    <2> QED BY <1>4, <2>1, CalmClose DEF FinishPatch, Is, Owning
  <1>5. ASSUME FinishTest(c)  PROVE Calm
    <2>1. TreeCommit(call[c].result_commit) \in Commit \cup {NoCommit}
      BY CallFields, CommitAssumption DEF TreeCommit, TypeOK
    <2>2. ASSUME NEW report \in {"passed", "failed"}, i \in Sid
          PROVE  [row EXCEPT !.report = report,
                             !.commit = TreeCommit(call[c].result_commit)] \in StepRow
      BY <1>a, <2>1, <2>2, RowUpdates
    <2> QED BY <1>5, <2>2, CalmClose DEF FinishTest, Is, Owning
  <1>6. ASSUME SavePatch(c) \/ RemovePatches(c) \/ Judge(c) \/ Bump(c)  PROVE Calm
    <2>1. CallsCalm
      BY <1>6 DEF SavePatch, RemovePatches, Judge, Bump, Is, TypeOK, Call, CallsCalm, CallCalm,
                  Leasing, Owning
    <2> QED BY <1>6, <2>1, CalmSame DEF SavePatch, RemovePatches, Judge, Bump, Calm
  <1>7. ASSUME Move(c)  PROVE Calm
    BY <1>7, CalmSame, CallsReturn DEF Move, Calm
  <1>8. ASSUME StartReview(c)  PROVE Calm
    <2>1. CASE FailStep(c)
      BY <2>1, CalmFail
    <2>2. CASE ~FailStep(c)
      <3>1. CallsCalm
        BY <1>8, <2>2 DEF StartReview, Is, TypeOK, Call, CallsCalm, CallCalm, Leasing, Owning
      <3>2. RowsCalm
        BY <1>8, <1>a, <2>2, CalmRow DEF StartReview, StepRow
      <3> QED BY <3>1, <3>2 DEF Calm
    <2> QED BY <2>1, <2>2
  <1>9. ASSUME Settle(c)  PROVE Calm
    <2>1. CallsCalm
      BY <1>9 DEF Settle, Is, TypeOK, Call, CallsCalm, CallCalm, Leasing, Owning
    <2>2. RowsCalm
      BY <1>9, <1>a, CalmRow DEF Settle, StepRow
    <2> QED BY <2>1, <2>2 DEF Calm
  <1>10. ASSUME Finalize(c)  PROVE Calm
    <2>1. CASE FailStep(c)
      BY <2>1, CalmFail
    <2>2. CASE ~FailStep(c)
      <3>1. CallsCalm
        BY <1>10, <2>2 DEF Finalize, Is, TypeOK, Call, CallsCalm, CallCalm, Leasing, Owning
      <3>2. PICK r \in ReviewOf : SetRow(r, [steps[r] EXCEPT !.review = "complete"])
        BY <1>10, <2>2 DEF Finalize
      <3>3. RowsCalm
        BY <3>2, CalmRow DEF TypeOK, StepRow
      <3> QED BY <3>1, <3>3 DEF Calm
    <2> QED BY <2>1, <2>2
  <1> QED BY <1>1, <1>2, <1>3, <1>4, <1>5, <1>6, <1>7, <1>8, <1>9, <1>10 DEF Work

LEMMA CalmPlan ==
  ASSUME TypeOK, Placed, Drafted, NEW c \in Callers, Supersede(c) \/ PlanInsert(c)
  PROVE  Calm
  <1>1. ASSUME Supersede(c)  PROVE Calm
    <2>1. CallsCalm
      BY <1>1 DEF Supersede, TypeOK, Call, CallsCalm, CallCalm, Leasing, Owning
    <2>2. ASSUME NEW i \in Sid  PROVE Undisturbed(i)
      <3>1. \/ steps'[i] = steps[i]
            \/ /\ steps[i].status = "planned"
               /\ steps'[i] = [steps[i] EXCEPT !.status = "cancelled", !.review = "none"]
        BY <1>1 DEF Supersede
      <3>2. steps[i] \in StepRow
        BY DEF TypeOK
      <3> QED BY <3>1, <3>2 DEF Undisturbed, StepRow
    <2> QED BY <2>1, <2>2 DEF Calm, RowsCalm
  <1>2. ASSUME PlanInsert(c)  PROVE Calm
    <2>1. sequence + 1 \in Sid => steps[sequence + 1] = Blank
      BY DEF Placed, TypeOK
    <2>2. RowsCalm
      BY <1>2, <2>1, CalmRow DEF PlanInsert, Drafted
    <2> QED BY <1>2, <2>2, CallsReturn DEF PlanInsert, Calm
  <1> QED BY <1>1, <1>2

LEMMA CalmCancel ==
  ASSUME TypeOK, NEW c \in Callers, CancelRead(c) \/ Cancel(c)
  PROVE  Calm
  <1>1. ASSUME CancelRead(c) \/ CancelList(c) \/ CancelMove(c) \/ CancelClean(c)  PROVE Calm
    <2>1. CallsCalm
      BY <1>1 DEF CancelRead, CancelList, CancelMove, CancelClean, Return, Idle, TypeOK, Call,
                  CallsCalm, CallCalm, Leasing, Owning
    <2> QED BY <1>1, <2>1, CalmSame DEF CancelRead, CancelList, CancelMove, CancelClean, Calm
  <1>2. ASSUME CancelReview(c)  PROVE Calm
    <2>1. CallsCalm
      BY <1>2 DEF CancelReview, TypeOK, Call, CallsCalm, CallCalm, Leasing, Owning
    <2>2. RowsCalm
      BY <1>2, CalmRow DEF CancelReview, TypeOK, StepRow
    <2> QED BY <2>1, <2>2 DEF Calm
  <1>3. ASSUME CancelStep(c)  PROVE Calm
    <2> DEFINE i == call[c].sid
    <2>1. CASE steps[i].status = "running"
      <3>1. i \in Sid => steps[i] \in StepRow
        BY DEF TypeOK
      <3>2. RowsCalm
        BY <1>3, <2>1, <3>1, ClosedRow, CalmRow DEF CancelStep, Finished
      <3>3. CallsCalm
        BY <1>3, <2>1 DEF CancelStep, TypeOK, Call, CallsCalm, CallCalm, Leasing, Owning
      <3> QED BY <3>2, <3>3 DEF Calm
    <2>2. CASE steps[i].status # "running"
      BY <1>3, <2>2, CalmSame, CallsReturn DEF CancelStep, Calm
    <2> QED BY <2>1, <2>2
  <1> QED BY <1>1, <1>2, <1>3 DEF Cancel

\* PlanRead, Begin, and what happens to a call whatever it is doing.
LEMMA CalmRead ==
  ASSUME TypeOK, NEW c \in Callers, NEW s \in Kinds, PlanRead(c, s)
  PROVE  /\ RowsCalm
         /\ call'[c].pc \in {"superseding", "planning"}
         /\ call'[c].draft.status = "planned"
         /\ call'[c].draft.holder = NoCaller
         /\ \A d \in Callers \ {c} : call'[d] = call[d]
  <1>1. PICK draft :
          /\ draft.status = "planned" /\ draft.holder = NoCaller
          /\ call' = [call EXCEPT ![c] =
                [Idle EXCEPT !.pc = IF s = "review" THEN "superseding" ELSE "planning",
                             !.draft = draft]]
    <2> DEFINE preview(e, inputs) ==
                 [Blank EXCEPT !.step = s, !.executor = e, !.status = "planned",
                               !.round = workflow.fix_rounds,
                               !.review = IF s = "review" THEN "pending" ELSE "none",
                               !.inputs = inputs]
    <2>1. \E e \in Bindings[s] : \E inputs :
            call' = [call EXCEPT ![c] =
               [Idle EXCEPT !.pc = IF s = "review" THEN "superseding" ELSE "planning",
                            !.draft = preview(e, inputs)]]
      BY DEF PlanRead
    <2>2. \A e, inputs : /\ preview(e, inputs).status = "planned"
                         /\ preview(e, inputs).holder = NoCaller
      BY DEF Blank
    <2> QED BY <2>1, <2>2
  <1>2. call'[c].pc \in {"superseding", "planning"} /\ call'[c].draft = draft
    BY <1>1 DEF TypeOK, Idle
  <1> QED BY <1>1, <1>2, CalmReaped DEF PlanRead, TypeOK

LEMMA CalmCall ==
  ASSUME TypeOK, NEW c \in Callers, LoseLease(c) \/ Drop(c) \/ Crash(c)
  PROVE  Calm
  <1>1. ASSUME LoseLease(c)  PROVE Calm
    BY <1>1, CalmFail, CalmSame, CallsReturn DEF LoseLease, Calm
  <1>2. ASSUME Drop(c) \/ Crash(c)  PROVE Calm
    BY <1>2, CalmSame, CallsReturn DEF Drop, Crash, Calm
  <1> QED BY <1>1, <1>2

\* No step gets a call between its preview and its row but the preview itself.
LEMMA DraftedNext ==
  ASSUME TypeOK, Placed, Drafted, [Next]_vars
  PROVE  Drafted'
  <1>1. ASSUME CallsCalm  PROVE Drafted'
    BY <1>1 DEF CallsCalm, CallCalm, Drafted
  <1>2. ASSUME UNCHANGED call  PROVE Drafted'
    BY <1>2 DEF Drafted
  <1>3. ASSUME NEW c \in Callers, NEW s \in Kinds, PlanRead(c, s)  PROVE Drafted'
    BY <1>3, CalmRead DEF Drafted
  <1>4. ASSUME NEW c \in Callers, NEW i \in Sid,
               Begin(c, i) \/ DirectRead(c, i)
        PROVE  Drafted'
    <2>1. call'[c].pc \in {"checked", "called"} /\ \A d \in Callers \ {c} : call'[d] = call[d]
      <3>1. CASE Begin(c, i)
        BY <3>1 DEF Begin, TypeOK, Idle
      <3>2. CASE DirectRead(c, i)
        BY <3>2 DEF DirectRead, TypeOK, Idle
      <3> QED BY <1>4, <3>1, <3>2
    <2> QED BY <2>1 DEF Drafted
  <1>5. ASSUME NEW c \in Callers, Acquire(c) \/ Consume(c) \/ Refuse(c) \/ Direct(c)
        PROVE  Drafted'
    <2>1. CASE Return(c)
      BY <2>1, <1>1, CallsReturn
    <2>2. CASE \E pc \in PC \ {"superseding", "planning"} : call' = [call EXCEPT ![c].pc = pc]
      BY <2>2 DEF Drafted, TypeOK, Call
    <2> QED BY <1>5, <2>1, <2>2
            DEF Acquire, Consume, Refuse, Direct, DirectAcquire, DirectStart, DirectRefuse,
                DirectRelease, DirectSettle, PC
  <1>6. ASSUME NEW c \in Callers,
               \/ Supersede(c) \/ PlanInsert(c) \/ Work(c) \/ CancelRead(c) \/ Cancel(c)
               \/ LoseLease(c) \/ Drop(c) \/ Crash(c)
        PROVE  Drafted'
    BY <1>1, <1>6, CalmPlan, CalmWork, CalmCancel, CalmCall DEF Calm
  <1>7. ASSUME UNCHANGED vars \/ Status \/ (\E c \in Callers : Renew(c))
               \/ \E i \in Sid : Expire(i) \/ DirectFinalize(i) \/ DirectCancel(i)
        PROVE  Drafted'
    BY <1>2, <1>7 DEF vars, Status, Renew, Expire, DirectFinalize, DirectCancel
  <1> QED BY <1>3, <1>4, <1>5, <1>6, <1>7 DEF Next, Plan, Run, Work

LEMMA DraftedInit == Init => Drafted
  BY DEF Init, Drafted, Idle

-----------------------------------------------------------------------------
(***************************************************************************)
(* The lease is exclusive.  The row a call was given stays fresh as long   *)
(* as that call is inside `lease` and nobody else was given the row, so    *)
(* no renewal revives a lease beside another one.                          *)
(***************************************************************************)
Fresh == \A c \in Callers :
            /\ call[c].pc \in Leasing
            /\ steps[call[c].sid].holder = c
            => ~steps[call[c].sid].expired

LeaseInv == LeaseIsExclusive /\ Fresh

\* A step in which rows keep their lease or lose it.
LeaseCalm == \A i \in Sid : \/ /\ steps'[i].holder = steps[i].holder
                                /\ steps'[i].expired = steps[i].expired
                             \/ steps'[i].holder = NoCaller

LeaseCallCalm == \A c \in Callers :
    call'[c].pc \in Leasing => call[c].pc \in Leasing /\ call'[c].sid = call[c].sid

LEMMA LeaseKeeps ==
  ASSUME Placed', LeaseInv, LeaseCalm, LeaseCallCalm, TypeOK'
  PROVE  LeaseInv'
  <1>1. ASSUME NEW i \in Sid, LiveLease(i)'  PROVE LiveLease(i)
    BY <1>1 DEF LeaseCalm, LiveLease
  <1>2. LeaseIsExclusive'
    BY <1>1 DEF LeaseInv, LeaseIsExclusive
  <1>3. ASSUME NEW c \in Callers, call'[c].pc \in Leasing, steps'[call'[c].sid].holder = c
        PROVE  ~steps'[call'[c].sid].expired
    <2>1. call'[c].sid \in Sid
      BY <1>3, BoundAssumption DEF Placed, Rowless, Leasing, TypeOK, Sid
    <2> QED BY <1>3, <2>1, CallersAssumption DEF LeaseCalm, LeaseCallCalm, LeaseInv, Fresh
  <1> QED BY <1>2, <1>3 DEF LeaseInv, Fresh

LEMMA CalmLease ==
  ASSUME Calm
  PROVE  LeaseCalm /\ LeaseCallCalm
  BY DEF Calm, RowsCalm, Undisturbed, Freed, CallsCalm, CallCalm, LeaseCalm, LeaseCallCalm

\* A call is given a row when no row of the workflow has a live lease.
LEMMA LeaseGiven ==
  ASSUME TypeOK, LeaseInv, NEW c \in Callers, NEW pc \in Leasing, ~Busy,
         call[c].sid \in Sid,
         SetRow(call[c].sid, [steps[call[c].sid] EXCEPT !.holder = c, !.expired = FALSE]),
         call' = [call EXCEPT ![c].pc = pc]
  PROVE  LeaseInv'
  <1> DEFINE i == call[c].sid
  <1>1. steps'[i].holder = c /\ ~steps'[i].expired
    BY DEF SetRow, TypeOK, StepRow
  <1>2. \A j \in Sid \ {i} : steps'[j] = steps[j]
    BY DEF SetRow, TypeOK
  <1>3. call'[c].sid = i /\ \A d \in Callers \ {c} : call'[d] = call[d]
    BY DEF TypeOK, Call
  <1>4. \A j \in Sid : LiveLease(j)' => j = i
    BY <1>2 DEF Busy, LiveLease
  <1>5. LeaseIsExclusive'
    BY <1>4 DEF LeaseIsExclusive
  <1>6. ASSUME NEW d \in Callers, call'[d].pc \in Leasing, steps'[call'[d].sid].holder = d
        PROVE  ~steps'[call'[d].sid].expired
    <2>1. CASE d = c
      BY <1>1, <1>3, <2>1
    <2>2. CASE d # c /\ call[d].sid = i
      BY <1>1, <1>3, <1>6, <2>2
    <2>3. CASE d # c /\ call[d].sid # i
      <3>1. steps'[call[d].sid] = steps[call[d].sid]
        BY <2>3 DEF SetRow, TypeOK
      <3> QED BY <1>3, <1>6, <2>3, <3>1 DEF LeaseInv, Fresh
    <2> QED BY <2>1, <2>2, <2>3
  <1> QED BY <1>5, <1>6 DEF LeaseInv, Fresh

LEMMA LeaseReleased ==
  ASSUME TypeOK, NEW c, NEW i, SetRow(i, Released(c, i))
  PROVE  LeaseCalm
  <1>1. CASE steps[i].holder = c
    <2>1. SetRow(i, [steps[i] EXCEPT !.holder = NoCaller, !.expired = FALSE])
      BY <1>1 DEF Released
    <2>2. ASSUME i \in Sid  PROVE steps'[i].holder = NoCaller
      <3>1. steps[i] \in StepRow
        BY <2>2 DEF TypeOK
      <3> QED BY <2>1, <2>2, <3>1 DEF SetRow, TypeOK, StepRow
    <2>3. \A j \in Sid : j # i => steps'[j] = steps[j]
      BY <2>1 DEF SetRow, TypeOK
    <2> QED BY <2>2, <2>3 DEF LeaseCalm
  <1>2. CASE steps[i].holder # c
    <2>1. UNCHANGED steps
      BY <1>2 DEF SetRow, Released, TypeOK
    <2> QED BY <2>1 DEF LeaseCalm
  <1> QED BY <1>1, <1>2

LEMMA LeaseNext ==
  ASSUME ~Stalls, TypeOK, Placed, TypeOK', Placed', Drafted, LeaseInv, [Next]_vars
  PROVE  LeaseInv'
  <1>1. ASSUME Calm  PROVE LeaseInv'
    BY <1>1, CalmLease, LeaseKeeps
  <1>2. ASSUME LeaseCalm, NEW c \in Callers, Return(c)  PROVE LeaseInv'
    <2>1. LeaseCallCalm
      BY <1>2, CallsReturn DEF CallsCalm, CallCalm, LeaseCallCalm
    <2> QED BY <1>2, <2>1, LeaseKeeps
  <1>3. ASSUME LeaseCalm, UNCHANGED call  PROVE LeaseInv'
    BY <1>3, LeaseKeeps DEF LeaseCallCalm
  <1>4. ASSUME UNCHANGED vars  PROVE LeaseInv'
    BY <1>3, <1>4 DEF vars, LeaseCalm
  <1>5. ASSUME NEW c \in Callers, NEW s \in Kinds, PlanRead(c, s)  PROVE LeaseInv'
    <2>1. LeaseCallCalm
      BY <1>5, CalmRead DEF LeaseCallCalm, Leasing
    <2>2. LeaseCalm
      BY <1>5, CalmRead DEF LeaseCalm, RowsCalm, Undisturbed, Freed
    <2> QED BY <2>1, <2>2, LeaseKeeps
  <1>6. ASSUME NEW c \in Callers, NEW i \in Sid, Begin(c, i) \/ DirectRead(c, i)
        PROVE  LeaseInv'
    <2>1. RowsCalm
      BY <1>6, CalmReaped, CalmSame DEF Begin, DirectRead
    <2>2. call'[c].pc \in {"checked", "called"} /\ \A d \in Callers \ {c} : call'[d] = call[d]
      <3>1. CASE Begin(c, i)
        BY <3>1 DEF Begin, TypeOK, Idle
      <3>2. CASE DirectRead(c, i)
        BY <3>2 DEF DirectRead, TypeOK, Idle
      <3> QED BY <1>6, <3>1, <3>2
    <2>3. LeaseCalm
      BY <2>1 DEF LeaseCalm, RowsCalm, Undisturbed, Freed
    <2>4. LeaseCallCalm
      BY <2>2 DEF LeaseCallCalm, Leasing
    <2> QED BY <2>3, <2>4, LeaseKeeps
  <1>7. ASSUME NEW c \in Callers, Acquire(c) \/ DirectAcquire(c)  PROVE LeaseInv'
    <2>1. call[c].sid \in Sid
      BY <1>7, BoundAssumption DEF Acquire, DirectAcquire, Placed, Rowless, TypeOK, Sid
    <2>2. CASE Busy
      BY <1>2, <1>7, <2>2 DEF Acquire, DirectAcquire, LeaseCalm
    <2>3. CASE ~Busy
      BY <1>7, <2>1, <2>3, LeaseGiven DEF Acquire, DirectAcquire, Leasing
    <2> QED BY <2>2, <2>3
  <1>8. ASSUME NEW c \in Callers, Refuse(c) \/ DirectRefuse(c)  PROVE LeaseInv'
    BY <1>2, <1>8, LeaseReleased DEF Refuse, DirectRefuse
  <1>9. ASSUME NEW c \in Callers, Consume(c)  PROVE LeaseInv'
    <2>1. CASE Spendable(call[c].sid)
      <3>1. LeaseCalm
        BY <1>9, <2>1 DEF Consume, SetRow, TypeOK, StepRow, LeaseCalm
      <3>2. LeaseCallCalm
        BY <1>9, <2>1 DEF Consume, TypeOK, Call, LeaseCallCalm, Leasing
      <3> QED BY <3>1, <3>2, LeaseKeeps
    <2>2. CASE ~Spendable(call[c].sid)
      BY <1>2, <1>9, <2>2, LeaseReleased DEF Consume
    <2> QED BY <2>1, <2>2
  <1>10. ASSUME NEW c \in Callers, DirectStart(c) \/ DirectRelease(c) \/ DirectSettle(c)
         PROVE  LeaseInv'
    <2>1. CASE DirectStart(c)
      <3>1. LeaseCalm
        BY <2>1 DEF DirectStart, SetRow, TypeOK, StepRow, LeaseCalm
      <3>2. LeaseCallCalm
        BY <2>1 DEF DirectStart, TypeOK, Call, LeaseCallCalm, Leasing
      <3> QED BY <3>1, <3>2, LeaseKeeps
    <2>2. CASE DirectRelease(c)
      <3>1. LeaseCalm
        <4> DEFINE i == call[c].sid
        <4>1. i \in Sid => Released(c, i) \in StepRow
          BY ReleasedType DEF TypeOK
        <4>2. ASSUME NEW r, SetRow(i, [Released(c, i) EXCEPT !.review = r])
              PROVE  LeaseCalm
          BY <4>1, <4>2 DEF SetRow, Released, TypeOK, StepRow, LeaseCalm
        <4> QED BY <2>2, <4>2, LeaseReleased DEF DirectRelease
      <3>2. LeaseCallCalm
        BY <2>2 DEF DirectRelease, Return, Idle, TypeOK, Call, LeaseCallCalm, Leasing
      <3> QED BY <3>1, <3>2, LeaseKeeps
    <2>3. CASE DirectSettle(c)
      <3>1. LeaseCalm
        BY <2>3 DEF DirectSettle, SetRow, TypeOK, StepRow, LeaseCalm
      <3> QED BY <1>2, <2>3, <3>1 DEF DirectSettle
    <2> QED BY <1>10, <2>1, <2>2, <2>3
  <1>11. ASSUME NEW c \in Callers, Renew(c)  PROVE LeaseInv'
    BY <1>11 DEF Renew, LeaseInv, Fresh
  <1>12. ASSUME NEW c \in Callers, \/ Supersede(c) \/ PlanInsert(c) \/ Work(c)
                                  \/ CancelRead(c) \/ Cancel(c)
                                  \/ LoseLease(c) \/ Drop(c) \/ Crash(c)
         PROVE  LeaseInv'
    BY <1>1, <1>12, CalmPlan, CalmWork, CalmCancel, CalmCall
  <1>13. ASSUME Status  PROVE LeaseInv'
    BY <1>3, <1>13, CalmReaped DEF Status, LeaseCalm, RowsCalm, Undisturbed, Freed
  <1>14. ASSUME NEW i \in Sid, DirectFinalize(i) \/ DirectCancel(i)  PROVE LeaseInv'
    <2>1. LeaseCalm
      BY <1>14 DEF DirectFinalize, DirectCancel, SetRow, TypeOK, StepRow, LeaseCalm
    <2> QED BY <1>3, <1>14, <2>1 DEF DirectFinalize, DirectCancel
  <1>15. ASSUME NEW i \in Sid, Expire(i)  PROVE LeaseInv'
    <2>1. /\ steps'[i].holder = steps[i].holder /\ steps'[i].expired = TRUE
          /\ \A j \in Sid \ {i} : steps'[j] = steps[j]
          /\ UNCHANGED call
      BY <1>15 DEF Expire, SetRow, TypeOK, StepRow
    <2>2. \A j \in Sid : LiveLease(j)' => LiveLease(j)
      BY <2>1 DEF LiveLease
    <2>3. LeaseIsExclusive'
      BY <2>2 DEF LeaseInv, LeaseIsExclusive
    <2>4. ASSUME NEW c \in Callers, call[c].pc \in Leasing, steps'[call[c].sid].holder = c
          PROVE  ~steps'[call[c].sid].expired
      <3>1. call[c].sid \in Sid
        BY <2>4, BoundAssumption DEF Placed, Rowless, Leasing, TypeOK, Sid
      <3>2. call[c].sid # i
        BY <1>15, <2>1, <2>4 DEF Expire, Renewing
      <3> QED BY <2>1, <2>4, <3>1, <3>2 DEF LeaseInv, Fresh
    <2> QED BY <2>1, <2>3, <2>4 DEF LeaseInv, Fresh
  <1> QED BY <1>4, <1>5, <1>6, <1>7, <1>8, <1>9, <1>10, <1>11, <1>12, <1>13, <1>14, <1>15
          DEF Next, Plan, Run, Work, Direct

LEMMA LeaseInit == Init => LeaseInv
  BY DEF Init, LeaseInv, LeaseIsExclusive, Fresh, LiveLease, Blank, Idle, Leasing

\* Two rows of a workflow never carry an unexpired lease at once while heartbeats
\* arrive, for any number of calls, step rows and crashes, through both doors.
THEOREM LeaseExclusive == ~Stalls => (Spec => []LeaseIsExclusive)
  <1> SUFFICES ASSUME ~Stalls  PROVE Spec => []LeaseIsExclusive
    OBVIOUS
  <1> DEFINE Inv == TypeOK /\ Placed /\ Drafted /\ LeaseInv
  <1>1. Init => Inv
    BY TypeInit, PlacedInit, DraftedInit, LeaseInit
  <1>2. Inv /\ [Next]_vars => Inv'
    BY TypeNext, PlacedNext, DraftedNext, LeaseNext
  <1>3. Inv => LeaseIsExclusive
    BY DEF LeaseInv
  <1> QED BY <1>1, <1>2, <1>3, PTL DEF Spec


-----------------------------------------------------------------------------
(***************************************************************************)
(* A running step is held, as long as only the workflow's own tools touch  *)
(* its rows: the call that was given a row's lease finds it not running,   *)
(* spends its token under that lease, and until it has finished the step   *)
(* or its lease has run out nobody is given the row.                       *)
(***************************************************************************)
Taken == \A c \in Callers : call[c].pc = "leased" =>
            /\ steps[call[c].sid].holder = c
            /\ steps[call[c].sid].status # "running"

Owned == \A c \in Callers : call[c].pc \in Owning =>
            steps[call[c].sid].status \notin {"planned", "absent"}

\* A call still on its way to its lease finds a running row's lease alive.
Awaited == \A c \in Callers :
              call[c].pc = "checked" /\ steps[call[c].sid].status = "running" =>
                 ~steps[call[c].sid].expired

Indoors == \A c \in Callers : call[c].pc \notin {"called", "lent", "asking", "settling"}

HeldInv == RunningIsHeld /\ Taken /\ Owned /\ Awaited /\ Indoors

LEMMA HeldInit == Init => HeldInv
  BY DEF Init, HeldInv, RunningIsHeld, Taken, Owned, Awaited, Indoors, Blank, Idle, Owning

\* The rows the calls in `lease`, and those on their way there, work on.
LEMMA WorkedRow ==
  ASSUME TypeOK, Placed, NEW c \in Callers, call[c].pc \in Leasing \cup {"checked"}
  PROVE  call[c].sid \in Sid
  BY BoundAssumption DEF Placed, Rowless, Leasing, TypeOK, Sid

\* A step in which no call is given a row, or starts for one that is running.
HeldCalls == \A c \in Callers :
    /\ call'[c].pc \in Owning => call[c].pc \in Owning /\ call'[c].sid = call[c].sid
    /\ call'[c].pc = "leased" => call[c].pc = "leased" /\ call'[c].sid = call[c].sid
    /\ call'[c].pc = "checked" =>
          \/ call[c].pc = "checked" /\ call'[c].sid = call[c].sid
          \/ steps[call'[c].sid].status # "running"
    /\ call'[c].pc \in {"called", "lent", "asking", "settling"} =>
          call[c].pc \in {"called", "lent", "asking", "settling"}

LEMMA HeldCallsCalm ==
  ASSUME CallsCalm \/ UNCHANGED call
  PROVE  HeldCalls
  BY DEF CallsCalm, CallCalm, HeldCalls, Owning, Leasing

LEMMA HeldCalm ==
  ASSUME TypeOK', Placed', HeldInv, RowsCalm, HeldCalls
  PROVE  HeldInv'
  <1>a. ASSUME NEW c \in Callers, call'[c].pc \in Leasing \cup {"checked"}
        PROVE  call'[c].sid \in Sid
    BY <1>a, BoundAssumption DEF Placed, Rowless, Leasing, TypeOK, Sid
  <1>b. \A i \in Sid : Undisturbed(i) \/ Freed(i)
    BY DEF RowsCalm
  <1>1. ASSUME NEW i \in Sid, steps'[i].status = "running"
        PROVE  Undisturbed(i) /\ steps[i].status = "running"
    BY <1>1, <1>b DEF Undisturbed, Freed, Finished
  <1>2. RunningIsHeld'
    <2>1. ASSUME NEW i \in Sid, steps'[i].status = "running"
          PROVE  steps'[i].holder # NoCaller
      BY <1>1, <2>1 DEF HeldInv, RunningIsHeld, Undisturbed
    <2>2. ASSUME NEW i \in Sid, steps'[i].status = "running", NEW c \in Callers,
                 call'[c].pc \in Owning, call'[c].sid = i
          PROVE  steps'[i].holder = c
      <3>1. call[c].pc \in Owning /\ call[c].sid = i
        BY <1>a, <2>2 DEF HeldCalls, Owning, Leasing
      <3> QED BY <1>1, <2>2, <3>1 DEF HeldInv, RunningIsHeld, Undisturbed
    <2> QED BY <2>1, <2>2 DEF RunningIsHeld
  <1>3. Taken'
    <2>1. ASSUME NEW c \in Callers, call'[c].pc = "leased"
          PROVE  /\ steps'[call'[c].sid].holder = c
                 /\ steps'[call'[c].sid].status # "running"
      <3> DEFINE i == call'[c].sid
      <3>1. i \in Sid /\ call[c].pc = "leased" /\ call[c].sid = i
        BY <1>a, <2>1 DEF HeldCalls, Leasing
      <3>2. steps[i].holder = c /\ steps[i].status # "running"
        BY <3>1 DEF HeldInv, Taken
      <3>3. Undisturbed(i)
        BY <1>b, <3>1, <3>2, CallersAssumption DEF Freed, Blank
      <3> QED BY <3>1, <3>2, <3>3 DEF Undisturbed
    <2> QED BY <2>1 DEF Taken
  <1>4. Owned'
    <2>1. ASSUME NEW c \in Callers, call'[c].pc \in Owning
          PROVE  steps'[call'[c].sid].status \notin {"planned", "absent"}
      <3> DEFINE i == call'[c].sid
      <3>1. i \in Sid /\ call[c].pc \in Owning /\ call[c].sid = i
        BY <1>a, <2>1 DEF HeldCalls, Leasing, Owning
      <3>2. steps[i].status \notin {"planned", "absent"}
        BY <3>1 DEF HeldInv, Owned
      <3> QED BY <1>b, <3>1, <3>2 DEF Undisturbed, Freed, Finished, Blank
    <2> QED BY <2>1 DEF Owned
  <1>5. Awaited'
    <2>1. ASSUME NEW c \in Callers, call'[c].pc = "checked",
                 steps'[call'[c].sid].status = "running"
          PROVE  ~steps'[call'[c].sid].expired
      <3> DEFINE i == call'[c].sid
      <3>1. i \in Sid
        BY <1>a, <2>1
      <3>2. call[c].pc = "checked" /\ call[c].sid = i
        BY <1>1, <2>1, <3>1 DEF HeldCalls
      <3> QED BY <1>1, <2>1, <3>1, <3>2 DEF HeldInv, Awaited, Undisturbed
    <2> QED BY <2>1 DEF Awaited
  <1>6. Indoors'
    BY DEF HeldCalls, HeldInv, Indoors
  <1> QED BY <1>2, <1>3, <1>4, <1>5, <1>6 DEF HeldInv

\* The row a call acquires was not running, and the row it gives back was its own.
LEMMA HeldAcquire ==
  ASSUME TypeOK, Placed, LeaseInv, HeldInv, NEW c \in Callers, Acquire(c), ~Busy
  PROVE  HeldInv'
  <1> DEFINE i == call[c].sid
  <1>1. i \in Sid /\ steps[i] \in StepRow
    BY WorkedRow DEF Acquire, TypeOK
  <1>2. steps[i].status # "running"
    BY <1>1 DEF Acquire, Busy, LiveLease, HeldInv, RunningIsHeld, Awaited
  <1>a. /\ SetRow(i, [steps[i] EXCEPT !.holder = c, !.expired = FALSE])
        /\ call' = [call EXCEPT ![c].pc = "leased"]
    BY DEF Acquire
  <1>3. /\ steps'[i].holder = c /\ ~steps'[i].expired /\ steps'[i].status = steps[i].status
        /\ \A j \in Sid \ {i} : steps'[j] = steps[j]
    BY <1>1, <1>a DEF SetRow, TypeOK, StepRow
  <1>4. /\ call'[c].pc = "leased" /\ call'[c].sid = i
        /\ \A d \in Callers \ {c} : call'[d] = call[d]
    BY <1>a DEF TypeOK, Call
  <1>5. \A d \in Callers : call[d].pc = "leased" => call[d].sid # i
    <2>1. ASSUME NEW d \in Callers, call[d].pc = "leased", call[d].sid = i  PROVE FALSE
      <3>1. steps[i].holder = d
        BY <2>1 DEF HeldInv, Taken
      <3>2. ~steps[i].expired
        BY <2>1, <3>1 DEF LeaseInv, Fresh, Leasing
      <3> QED BY <1>1, <3>1, <3>2, CallersAssumption DEF Busy, LiveLease
    <2> QED BY <2>1
  <1>6. RunningIsHeld'
    BY <1>1, <1>2, <1>3, <1>4 DEF HeldInv, RunningIsHeld, Owning
  <1>7. Taken'
    <2>1. ASSUME NEW d \in Callers, d # c, call[d].pc = "leased"
          PROVE  /\ steps'[call[d].sid].holder = d
                 /\ steps'[call[d].sid].status # "running"
      <3>1. call[d].sid \in Sid \ {i}
        BY <1>5, <2>1, WorkedRow DEF Leasing
      <3> QED BY <1>3, <2>1, <3>1 DEF HeldInv, Taken
    <2> QED BY <1>2, <1>3, <1>4, <2>1 DEF Taken
  <1>8. Owned'
    <2>1. ASSUME NEW d \in Callers, call'[d].pc \in Owning
          PROVE  steps'[call'[d].sid].status \notin {"planned", "absent"}
      <3>1. d # c /\ call[d].pc \in Owning /\ call[d].sid \in Sid /\ call'[d] = call[d]
        BY <1>4, <2>1, WorkedRow DEF Owning, Leasing
      <3> QED BY <1>3, <3>1 DEF HeldInv, Owned
    <2> QED BY <2>1 DEF Owned
  <1>9. Awaited'
    <2>1. ASSUME NEW d \in Callers, call'[d].pc = "checked",
                 steps'[call'[d].sid].status = "running"
          PROVE  ~steps'[call'[d].sid].expired
      <3>1. d # c /\ call[d].pc = "checked" /\ call[d].sid \in Sid /\ call'[d] = call[d]
        BY <1>4, <2>1, WorkedRow
      <3> QED BY <1>3, <2>1, <3>1 DEF HeldInv, Awaited
    <2> QED BY <2>1 DEF Awaited
  <1>10. Indoors'
    BY <1>4 DEF HeldInv, Indoors
  <1> QED BY <1>6, <1>7, <1>8, <1>9, <1>10 DEF HeldInv

LEMMA HeldRelease ==
  ASSUME TypeOK, Placed, HeldInv, NEW c \in Callers, call[c].pc = "leased",
         SetRow(call[c].sid, Released(c, call[c].sid)), Return(c)
  PROVE  HeldInv'
  <1> DEFINE i == call[c].sid
  <1>1. i \in Sid /\ steps[i] \in StepRow
    BY WorkedRow DEF Leasing, TypeOK
  <1>2. steps[i].holder = c /\ steps[i].status # "running"
    BY DEF HeldInv, Taken
  <1>3. /\ steps'[i].status = steps[i].status
        /\ \A j \in Sid \ {i} : steps'[j] = steps[j]
    BY <1>1, <1>2 DEF SetRow, Released, TypeOK, StepRow
  <1>4. /\ call'[c] = Idle
        /\ \A d \in Callers \ {c} : call'[d] = call[d]
    BY DEF Return, TypeOK
  <1>5. Idle.pc = "idle"
    BY DEF Idle
  <1>6. RunningIsHeld'
    BY <1>2, <1>3, <1>4, <1>5 DEF HeldInv, RunningIsHeld, Owning
  <1>7. Taken'
    <2>1. ASSUME NEW d \in Callers, call'[d].pc = "leased"
          PROVE  /\ steps'[call'[d].sid].holder = d
                 /\ steps'[call'[d].sid].status # "running"
      <3>1. d # c /\ call[d].pc = "leased" /\ call[d].sid \in Sid /\ call'[d] = call[d]
        BY <1>4, <1>5, <2>1, WorkedRow DEF Leasing
      <3>2. call[d].sid # i
        BY <1>2, <3>1 DEF HeldInv, Taken
      <3> QED BY <1>3, <3>1, <3>2 DEF HeldInv, Taken
    <2> QED BY <2>1 DEF Taken
  <1>8. Owned'
    <2>1. ASSUME NEW d \in Callers, call'[d].pc \in Owning
          PROVE  steps'[call'[d].sid].status \notin {"planned", "absent"}
      <3>1. d # c /\ call[d].pc \in Owning /\ call[d].sid \in Sid /\ call'[d] = call[d]
        BY <1>4, <1>5, <2>1, WorkedRow DEF Owning, Leasing
      <3> QED BY <1>3, <3>1 DEF HeldInv, Owned
    <2> QED BY <2>1 DEF Owned
  <1>9. Awaited'
    <2>1. ASSUME NEW d \in Callers, call'[d].pc = "checked",
                 steps'[call'[d].sid].status = "running"
          PROVE  ~steps'[call'[d].sid].expired
      <3>1. d # c /\ call[d].pc = "checked" /\ call[d].sid \in Sid /\ call'[d] = call[d]
        BY <1>4, <1>5, <2>1, WorkedRow
      <3> QED BY <1>2, <1>3, <2>1, <3>1 DEF HeldInv, Awaited
    <2> QED BY <2>1 DEF Awaited
  <1>10. Indoors'
    BY <1>4, <1>5 DEF HeldInv, Indoors
  <1> QED BY <1>6, <1>7, <1>8, <1>9, <1>10 DEF HeldInv

LEMMA HeldSpend ==
  ASSUME TypeOK, Placed, LeaseInv, HeldInv, NEW c \in Callers, Consume(c),
         Spendable(call[c].sid)
  PROVE  HeldInv'
  <1> DEFINE i == call[c].sid
  <1>1. i \in Sid /\ steps[i] \in StepRow /\ steps[i].status = "planned"
    BY WorkedRow DEF Consume, Leasing, TypeOK, Spendable
  <1>2. steps[i].holder = c /\ ~steps[i].expired
    BY DEF Consume, HeldInv, Taken, LeaseInv, Fresh, Leasing
  <1>3. /\ steps'[i].holder = c /\ ~steps'[i].expired /\ steps'[i].status = "running"
        /\ \A j \in Sid \ {i} : steps'[j] = steps[j]
    BY <1>1, <1>2 DEF Consume, SetRow, TypeOK, StepRow
  <1>4. /\ call'[c].pc = "consumed" /\ call'[c].sid = i
        /\ \A d \in Callers \ {c} : call'[d] = call[d]
    BY DEF Consume, TypeOK, Call
  <1>5. RunningIsHeld'
    BY <1>1, <1>3, <1>4, CallersAssumption DEF HeldInv, RunningIsHeld, Owned
  <1>6. Taken'
    <2>1. ASSUME NEW d \in Callers, call'[d].pc = "leased"
          PROVE  /\ steps'[call'[d].sid].holder = d
                 /\ steps'[call'[d].sid].status # "running"
      <3>1. d # c /\ call[d].pc = "leased" /\ call[d].sid \in Sid /\ call'[d] = call[d]
        BY <1>4, <2>1, WorkedRow DEF Leasing
      <3>2. call[d].sid # i
        BY <1>2, <3>1 DEF HeldInv, Taken
      <3> QED BY <1>3, <3>1, <3>2 DEF HeldInv, Taken
    <2> QED BY <2>1 DEF Taken
  <1>7. Owned'
    <2>1. ASSUME NEW d \in Callers \ {c}, call[d].pc \in Owning
          PROVE  steps'[call[d].sid].status \notin {"planned", "absent"}
      <3>1. call[d].sid \in Sid
        BY <2>1, WorkedRow DEF Owning, Leasing
      <3> QED BY <1>3, <2>1, <3>1 DEF HeldInv, Owned
    <2> QED BY <1>3, <1>4, <2>1 DEF Owned
  <1>8. Awaited'
    <2>1. ASSUME NEW d \in Callers, call'[d].pc = "checked",
                 steps'[call'[d].sid].status = "running"
          PROVE  ~steps'[call'[d].sid].expired
      <3>1. d # c /\ call[d].pc = "checked" /\ call[d].sid \in Sid /\ call'[d] = call[d]
        BY <1>4, <2>1, WorkedRow
      <3> QED BY <1>3, <2>1, <3>1 DEF HeldInv, Awaited
    <2> QED BY <2>1 DEF Awaited
  <1>9. Indoors'
    BY <1>4 DEF HeldInv, Indoors
  <1> QED BY <1>5, <1>6, <1>7, <1>8, <1>9 DEF HeldInv

LEMMA HeldBegin ==
  ASSUME TypeOK, TypeOK', Placed', HeldInv, NEW c \in Callers, NEW i \in Sid, Begin(c, i)
  PROVE  HeldInv'
  <1>1. /\ call'[c].pc = "checked" /\ call'[c].sid = i
        /\ \A d \in Callers \ {c} : call'[d] = call[d]
    BY DEF Begin, TypeOK, Idle
  <1>2. steps[i].status = "planned"
    BY DEF Begin
  <1>3. HeldCalls
    BY <1>1, <1>2 DEF HeldCalls, Owning
  <1> QED BY <1>3, CalmReaped, HeldCalm DEF Begin

LEMMA HeldExpire ==
  ASSUME TypeOK, Placed, ~Stalls, HeldInv, NEW i \in Sid, Expire(i)
  PROVE  HeldInv'
  <1>1. /\ steps'[i].holder = steps[i].holder /\ steps'[i].status = steps[i].status
        /\ \A j \in Sid \ {i} : steps'[j] = steps[j]
        /\ UNCHANGED call
    BY DEF Expire, SetRow, TypeOK, StepRow
  <1>2. RunningIsHeld' /\ Indoors'
    BY <1>1 DEF HeldInv, RunningIsHeld, Indoors
  <1>3. Taken' /\ Owned'
    BY <1>1, WorkedRow DEF HeldInv, Taken, Owned, Leasing, Owning
  <1>4. Awaited'
    <2>1. \A c \in Callers : call[c].pc = "checked" => call[c].sid \in Sid \ {i}
      BY WorkedRow DEF Expire, Arriving
    <2> QED BY <1>1, <2>1 DEF HeldInv, Awaited
  <1> QED BY <1>2, <1>3, <1>4 DEF HeldInv

LEMMA HeldNext ==
  ASSUME ~Stalls, ~Doors, TypeOK, Placed, Drafted, LeaseInv, HeldInv, TypeOK', Placed',
         [Next]_vars
  PROVE  HeldInv'
  <1>1. ASSUME RowsCalm, CallsCalm \/ UNCHANGED call  PROVE HeldInv'
    BY <1>1, HeldCallsCalm, HeldCalm
  <1>2. ASSUME NEW c \in Callers, \/ Supersede(c) \/ PlanInsert(c) \/ Work(c)
                                  \/ CancelRead(c) \/ Cancel(c)
                                  \/ LoseLease(c) \/ Drop(c) \/ Crash(c)
        PROVE  HeldInv'
    BY <1>1, <1>2, CalmPlan, CalmWork, CalmCancel, CalmCall DEF Calm
  <1>3. ASSUME NEW c \in Callers, NEW s \in Kinds, PlanRead(c, s)  PROVE HeldInv'
    <2>1. HeldCalls
      BY <1>3, CalmRead DEF HeldCalls, Owning
    <2> QED BY <1>3, <2>1, CalmRead, HeldCalm
  <1>4. ASSUME NEW c \in Callers, Acquire(c)  PROVE HeldInv'
    <2>1. CASE Busy
      BY <1>1, <1>4, <2>1, CalmSame, CallsReturn DEF Acquire
    <2>2. CASE ~Busy
      BY <1>4, <2>2, HeldAcquire
    <2> QED BY <2>1, <2>2
  <1>5. ASSUME NEW c \in Callers, Refuse(c)  PROVE HeldInv'
    BY <1>5, HeldRelease DEF Refuse
  <1>6. ASSUME NEW c \in Callers, Consume(c)  PROVE HeldInv'
    <2>1. CASE Spendable(call[c].sid)
      BY <1>6, <2>1, HeldSpend
    <2>2. CASE ~Spendable(call[c].sid)
      BY <1>6, <2>2, HeldRelease DEF Consume
    <2> QED BY <2>1, <2>2
  <1>7. ASSUME Status \/ UNCHANGED vars  PROVE HeldInv'
    BY <1>1, <1>7, CalmReaped, CalmSame DEF Status, vars
  <1>8. ~\E c \in Callers : Renew(c)
    BY DEF Renew, LeaseInv, Fresh
  <1>9. ~\E c \in Callers : Direct(c) \/ \E i \in Sid : DirectRead(c, i)
    BY DEF Direct, DirectRead, DirectAcquire, DirectStart, DirectRefuse, DirectRelease,
           DirectSettle, HeldInv, Indoors
  <1>10. ~\E i \in Sid : DirectFinalize(i) \/ DirectCancel(i)
    BY DEF DirectFinalize, DirectCancel
  <1> QED BY <1>2, <1>3, <1>4, <1>5, <1>6, <1>7, <1>8, <1>9, <1>10, HeldBegin, HeldExpire
          DEF Next, Plan, Run, Work

\* While heartbeats arrive and the host leaves the workflow's reviews to the workflow,
\* a running step is held by the call that runs it or by a lease that will run out.
THEOREM RunningHeld == ~Stalls /\ ~Doors => (Spec => []RunningIsHeld)
  <1> SUFFICES ASSUME ~Stalls, ~Doors  PROVE Spec => []RunningIsHeld
    OBVIOUS
  <1> DEFINE Inv == TypeOK /\ Placed /\ Drafted /\ LeaseInv /\ HeldInv
  <1>1. Init => Inv
    BY TypeInit, PlacedInit, DraftedInit, LeaseInit, HeldInit
  <1>2. Inv /\ [Next]_vars => Inv'
    BY TypeNext, PlacedNext, DraftedNext, LeaseNext, HeldNext
  <1>3. Inv => RunningIsHeld
    BY DEF HeldInv
  <1> QED BY <1>1, <1>2, <1>3, PTL DEF Spec
===========================================================================
