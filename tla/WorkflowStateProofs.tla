----------------------- MODULE WorkflowStateProofs ------------------------
(***************************************************************************)
(* Proofs about the workflow's row: that its state is earned, that its fix *)
(* rounds stay within the cap, and that a completed one ended as its last  *)
(* test of the state it left, where one call is served at a time.          *)
(*                                                                         *)
(* A call on its way to move the workflow has recorded a step that earns   *)
(* the state it will move it to, and what was recorded stays: so the move  *)
(* may come late, after any number of other calls, a reaping or a cancel.  *)
(***************************************************************************)
EXTENDS WorkflowProofs, FiniteSetTheorems

Passed == \E i \in DoneStep({"test"}) : steps[i].report = "passed"
Finalized == \E i \in Sid : steps[i].review = "complete"

\* What a call in each stage knows to be recorded.
Knows(c) ==
    /\ call[c].pc \in {"bump", "move"} => Earned(call[c].target)
    /\ call[c].pc = "closing" /\ steps[call[c].sid].step \in {"implement", "fix"} =>
          steps[call[c].sid].executor = "agent"
    /\ call[c].pc \in {"finalized", "judged"} =>
          /\ steps[call[c].sid].step = "synthesize"
          /\ Finalized
    /\ call[c].pc = "judged" /\ call[c].done => Passed

EarnedInv == Earned(workflow.status) /\ \A c \in Callers : Knows(c)

LEMMA EarnedInit == Init => EarnedInv
  BY DEF Init, EarnedInv, Earned, Knows, Idle

-----------------------------------------------------------------------------
(* What is recorded stays recorded. *)

LEMMA DoneStays ==
  ASSUME TypeOK, Placed, Kept, NEW kinds
  PROVE  /\ DoneStep(kinds) \subseteq DoneStep(kinds)'
         /\ \A i \in DoneStep(kinds) : /\ steps'[i].report = steps[i].report
                                       /\ steps'[i].executor = steps[i].executor
  <1>1. ASSUME NEW i \in Sid, steps[i].status = "done"  PROVE i <= sequence
    BY <1>1 DEF Placed, Blank, TypeOK, Sid
  <1> QED BY <1>1 DEF Kept, OutcomeKept, PlanKept, DoneStep, Finished

LEMMA PassedStays ==
  ASSUME TypeOK, Placed, Kept
  PROVE  (Passed => Passed') /\ (Finalized => Finalized')
  BY DoneStays DEF Passed, Finalized, Kept, VerdictKept

LEMMA EarnedStays ==
  ASSUME TypeOK, Placed, Kept, NEW state, Earned(state)
  PROVE  Earned(state)'
  <1>1. \A kinds : DoneStep(kinds) # {} => DoneStep(kinds)' # {}
    BY DoneStays
  <1>2. (\E i \in DoneStep({"implement", "fix"}) : steps[i].executor = "agent")
        => (\E i \in DoneStep({"implement", "fix"}) : steps[i].executor = "agent")'
    BY DoneStays
  <1> QED BY <1>1, <1>2, PassedStays DEF Earned, Passed, Finalized

\* A call that stays where it is, or goes where it knows nothing, keeps what it knows.
Same(c) == \/ call'[c] = call[c]
           \/ call'[c].pc \notin {"closing", "finalized", "judged", "bump", "move"}

LEMMA KnowsStays ==
  ASSUME TypeOK, Placed, Kept, NEW c \in Callers, Knows(c), Same(c)
  PROVE  Knows(c)'
  <1>1. CASE call'[c].pc \notin {"closing", "finalized", "judged", "bump", "move"}
    BY <1>1 DEF Knows
  <1>2. CASE call'[c] = call[c]
    <2>1. ASSUME NEW state, state = call[c].target, call[c].pc \in {"bump", "move"}
          PROVE  Earned(state)'
      <3>1. Earned(state)
        BY <2>1 DEF Knows, Earned
      <3> QED BY <3>1, EarnedStays
    <2>a. call'[c].pc \in {"bump", "move"} => Earned(call[c].target)'
      BY <1>2, <2>1 DEF Earned
    <2>2. ASSUME call[c].pc \in {"closing", "finalized", "judged"}
          PROVE  /\ steps'[call[c].sid].step = steps[call[c].sid].step
                 /\ steps'[call[c].sid].executor = steps[call[c].sid].executor
      <3>1. call[c].sid \in Sid /\ call[c].sid <= sequence
        BY <2>2, BoundAssumption DEF Placed, Rowless, TypeOK, Sid
      <3> QED BY <3>1 DEF Kept, PlanKept
    <2> QED BY <1>2, <2>a, <2>2, PassedStays DEF Knows
  <1> QED BY <1>1, <1>2 DEF Same

\* A step of call c that leaves the workflow alone.
LEMMA EarnedCall ==
  ASSUME TypeOK, Placed, Kept, EarnedInv, workflow'.status = workflow.status,
         NEW c \in Callers,
         \A d \in Callers \ {c} : call'[d] = call[d],
         Same(c) \/ Knows(c)'
  PROVE  EarnedInv'
  <1>1. ASSUME NEW state, state = workflow.status  PROVE Earned(state)'
    BY <1>1, EarnedStays DEF EarnedInv
  <1>2. \A d \in Callers : Knows(d)'
    BY KnowsStays DEF EarnedInv, Same
  <1> QED BY <1>1, <1>2 DEF EarnedInv, Earned

\* A step that leaves the workflow and the calls alone.
LEMMA EarnedRows ==
  ASSUME TypeOK, Placed, Kept, EarnedInv, UNCHANGED <<workflow, call>>
  PROVE  EarnedInv'
  BY EarnedStays, KnowsStays DEF EarnedInv, Same

LEMMA OneCall ==
  ASSUME TypeOK, NEW c, NEW k, call' = [call EXCEPT ![c] = k]
  PROVE  \A d \in Callers \ {c} : call'[d] = call[d]
  BY DEF TypeOK

LEMMA SameReturn ==
  ASSUME TypeOK, NEW c \in Callers, Return(c)
  PROVE  Same(c) /\ \A d \in Callers \ {c} : call'[d] = call[d]
  BY DEF TypeOK, Return, Idle, Same

-----------------------------------------------------------------------------
(* finish_step "done" earns what the call moves the workflow to. *)

LEMMA EarnedClose ==
  ASSUME TypeOK, Placed, Kept, EarnedInv, UNCHANGED workflow, NEW c \in Callers,
         NEW row, NEW pc \in {"bump", "move"}, NEW target, NEW gain,
         CloseStep(c, row, pc, target, gain),
         row \in StepRow, call[c].sid \in Sid,
         (/\ steps'[call[c].sid].status = "done"
          /\ steps'[call[c].sid].step = row.step
          /\ steps'[call[c].sid].executor = row.executor)
         => Earned(target)'
  PROVE  EarnedInv'
  <1> DEFINE i == call[c].sid
  <1>1. CASE steps[i].status = "running"
    <2>1. SetRow(i, Closed(row, "done"))
          /\ call' = [call EXCEPT ![c].pc = pc, ![c].target = target, ![c].gain = gain]
      BY <1>1 DEF CloseStep
    <2>2. /\ call'[c].pc = pc /\ call'[c].target = target
          /\ \A d \in Callers \ {c} : call'[d] = call[d]
      BY <2>1 DEF TypeOK, Call
    <2>3. /\ steps'[i].status = "done" /\ steps'[i].step = row.step
          /\ steps'[i].executor = row.executor
      BY <2>1 DEF SetRow, Closed, TypeOK, StepRow
    <2>4. Knows(c)'
      BY <2>2, <2>3 DEF Knows
    <2> QED BY <2>2, <2>4, EarnedCall
  <1>2. CASE steps[i].status # "running"
    BY <1>2, SameReturn, EarnedCall DEF CloseStep
  <1> QED BY <1>1, <1>2

LEMMA EarnedFinish ==
  ASSUME TypeOK, Placed, Kept, EarnedInv, NEW c \in Callers,
         \/ FinishPlain(c) \/ FinishHostCode(c) \/ FinishPatch(c) \/ FinishApply(c)
         \/ FinishTest(c) \/ FinishReview(c) \/ FinishSynthesis(c)
  PROVE  EarnedInv'
  <1> DEFINE i == call[c].sid
             row == steps[i]
  <1>1. i \in Sid /\ row \in StepRow
    <2>1. call[c].pc \notin Rowless
      BY DEF FinishPlain, FinishHostCode, FinishPatch, FinishApply, FinishTest, FinishReview,
             FinishSynthesis, Is, Rowless
    <2> QED BY <2>1, BoundAssumption DEF Placed, TypeOK, Sid
  <1>2. \A kinds : steps'[i].status = "done" /\ steps'[i].step \in kinds => DoneStep(kinds)' # {}
    BY <1>1 DEF DoneStep
  <1>3. CASE FinishPlain(c)
    <2>1. PICK target : target = on_success[row.step]
      OBVIOUS
    <2>2. row.step \in {"research", "plan", "author_execution_prompt"}
      BY <1>3 DEF FinishPlain, Is
    <2>3. target = "prompt_ready" => row.step = "plan"
      BY <2>1, <2>2 DEF on_success
    <2>4. target \in {"planning", "prompt_ready", "coding"}
      BY <2>1, <2>2 DEF on_success
    <2>5. steps'[i].status = "done" /\ steps'[i].step = row.step => Earned(target)'
      BY <1>2, <2>3, <2>4 DEF Earned
    <2>6. CloseStep(c, row, "move", target, NoCommit) /\ UNCHANGED workflow
      BY <1>3, <2>1 DEF FinishPlain
    <2> QED BY <1>1, <2>5, <2>6, EarnedClose
  <1>4. CASE FinishHostCode(c)
    <2>1. row.step \in {"implement", "fix"}
      BY <1>4 DEF FinishHostCode, Is
    <2>2. steps'[i].status = "done" /\ steps'[i].step = row.step => Earned("testing")'
      BY <1>2, <2>1 DEF Earned
    <2>3. PICK k : CloseStep(c, row, "move", "testing", k)
      BY <1>4 DEF FinishHostCode
    <2> QED BY <1>1, <1>4, <2>2, <2>3, EarnedClose DEF FinishHostCode
  <1>5. CASE FinishPatch(c)
    <2> DEFINE saved == [row EXCEPT !.saved = call[c].done]
    <2>1. row.step \in {"implement", "fix"} /\ row.executor = "agent"
      BY <1>5 DEF FinishPatch, Is, EarnedInv, Knows
    <2>2. saved \in StepRow
      BY <1>1, CallFields, RowUpdates DEF TypeOK
    <2>3. saved.step = row.step /\ saved.executor = row.executor
      BY <1>1 DEF StepRow
    <2>4. /\ steps'[i].status = "done"
          /\ steps'[i].step = saved.step /\ steps'[i].executor = saved.executor
          => Earned("awaiting_host_apply")'
      BY <1>1, <2>1, <2>3 DEF Earned, DoneStep
    <2> QED BY <1>1, <1>5, <2>2, <2>4, EarnedClose DEF FinishPatch
  <1>6. CASE FinishApply(c)
    <2>1. row.step = "apply_patch"
      BY <1>6 DEF FinishApply, Is
    <2>2. steps'[i].status = "done" /\ steps'[i].step = row.step => Earned("testing")'
      BY <1>2, <2>1 DEF Earned
    <2>3. PICK gain : CloseStep(c, row, "move", "testing", gain)
      BY <1>6 DEF FinishApply, on_success
    <2> QED BY <1>1, <1>6, <2>2, <2>3, EarnedClose DEF FinishApply
  <1>7. CASE FinishTest(c)
    <2>a. PICK report \in {"passed", "failed"} :
            CloseStep(c, [row EXCEPT !.report = report,
                                     !.commit = TreeCommit(call[c].result_commit)],
                      IF AfterTest(report, call[c].fix_rounds) = "fixing" THEN "bump" ELSE "move",
                      AfterTest(report, call[c].fix_rounds), NoCommit)
      BY <1>7 DEF FinishTest
    <2>1. PICK target, tested, pc :
            /\ pc \in {"bump", "move"}
            /\ target = AfterTest(report, call[c].fix_rounds)
            /\ tested = [row EXCEPT !.report = report,
                                    !.commit = TreeCommit(call[c].result_commit)]
            /\ CloseStep(c, tested, pc, target, NoCommit)
      BY <2>a
    <2>2. row.step = "test" /\ target \in {"reviewing", "needs_attention", "fixing"}
      BY <1>7, <2>1 DEF FinishTest, Is, AfterTest
    <2>3. TreeCommit(call[c].result_commit) \in Commit \cup {NoCommit}
      BY CallFields, CommitAssumption DEF TreeCommit, TypeOK
    <2>4. tested \in StepRow
      BY <1>1, <2>1, <2>3, RowUpdates
    <2>5. tested.step = row.step
      BY <1>1, <2>1 DEF StepRow
    <2>6. steps'[i].status = "done" /\ steps'[i].step = tested.step => Earned(target)'
      BY <1>2, <2>2, <2>5 DEF Earned
    <2> QED BY <1>1, <1>7, <2>1, <2>4, <2>6, EarnedClose DEF FinishTest
  <1>8. CASE FinishReview(c)
    <2>1. row.step = "review"
      BY <1>8 DEF FinishReview, Is
    <2>2. steps'[i].status = "done" /\ steps'[i].step = row.step => Earned("synthesizing")'
      BY <1>2, <2>1 DEF Earned
    <2>3. CloseStep(c, row, "move", "synthesizing", NoCommit)
      BY <1>8 DEF FinishReview, on_success
    <2> QED BY <1>1, <1>8, <2>2, <2>3, EarnedClose DEF FinishReview
  <1>9. CASE FinishSynthesis(c)
    <2>1. PICK target, pc :
            /\ pc \in {"bump", "move"}
            /\ target = AfterSynthesis(call[c].done, call[c].fix_rounds)
            /\ CloseStep(c, row, pc, target, NoCommit)
      BY <1>9 DEF FinishSynthesis
    <2>2. row.step = "synthesize" /\ Finalized /\ (call[c].done => Passed)
      BY <1>9 DEF FinishSynthesis, EarnedInv, Knows
    <2>3. /\ target \in {"completed", "needs_attention", "fixing"}
          /\ target = "completed" => call[c].done
      BY <2>1 DEF AfterSynthesis
    <2>4. Finalized' /\ (call[c].done => Passed')
      BY <2>2, PassedStays
    <2>5. steps'[i].status = "done" /\ steps'[i].step = row.step => Earned(target)'
      BY <1>2, <2>2, <2>3, <2>4 DEF Earned, Finalized, Passed
    <2> QED BY <1>1, <1>9, <2>1, <2>5, EarnedClose DEF FinishSynthesis
  <1> QED BY <1>3, <1>4, <1>5, <1>6, <1>7, <1>8, <1>9

-----------------------------------------------------------------------------
(* The stages before it, and the move that comes after. *)

LEMMA EarnedStage ==
  ASSUME TypeOK, Placed, Kept, EarnedInv, NEW c \in Callers,
         \/ SavePatch(c) \/ RemovePatches(c) \/ Settle(c) \/ Finalize(c) \/ Judge(c)
  PROVE  EarnedInv'
  <1> DEFINE i == call[c].sid
  <1>1. i \in Sid /\ i <= sequence
    <2>1. call[c].pc \notin Rowless
      BY DEF SavePatch, RemovePatches, Settle, Finalize, Judge, Is, Rowless
    <2> QED BY <2>1, BoundAssumption DEF Placed, TypeOK, Sid
  <1>2. steps'[i].step = steps[i].step /\ steps'[i].executor = steps[i].executor
    BY <1>1 DEF Kept, PlanKept
  <1>3. CASE SavePatch(c) \/ RemovePatches(c)
    <2>1. /\ call'[c].pc = "closing" /\ call'[c].sid = i
          /\ \A d \in Callers \ {c} : call'[d] = call[d]
      BY <1>3 DEF SavePatch, RemovePatches, Is, TypeOK, Call
    <2>2. steps[i].step \in {"implement", "fix"} => steps[i].executor = "agent"
      BY <1>3 DEF SavePatch, RemovePatches, Is
    <2>3. Knows(c)'
      BY <1>2, <2>1, <2>2 DEF Knows
    <2> QED BY <1>3, <2>1, <2>3, EarnedCall DEF SavePatch, RemovePatches
  <1>4. CASE Settle(c)
    <2>1. /\ call'[c].pc \in {"closing", "failing"} /\ call'[c].sid = i
          /\ \A d \in Callers \ {c} : call'[d] = call[d]
      BY <1>4 DEF Settle, TypeOK, Call
    <2>2. steps[i].step = "review"
      BY <1>4 DEF Settle, Is
    <2>3. Knows(c)'
      BY <1>2, <2>1, <2>2 DEF Knows
    <2> QED BY <1>4, <2>1, <2>3, EarnedCall DEF Settle
  <1>5. CASE Finalize(c)
    <2>1. CASE FailStep(c)
      BY <1>5, <2>1, SameReturn, EarnedCall DEF FailStep, Finalize
    <2>2. CASE ~FailStep(c)
      <3>1. PICK r \in ReviewOf : SetRow(r, [steps[r] EXCEPT !.review = "complete"])
        BY <1>5, <2>2 DEF Finalize
      <3>2. r \in Sid
        BY DEF ReviewOf, Newest
      <3>3. steps'[r].review = "complete"
        BY <3>1, <3>2 DEF SetRow, TypeOK, StepRow
      <3>4. /\ call'[c].pc = "finalized" /\ call'[c].sid = i
            /\ \A d \in Callers \ {c} : call'[d] = call[d]
        BY <1>5, <2>2 DEF Finalize, TypeOK, Call
      <3>5. steps[i].step = "synthesize"
        BY <1>5 DEF Finalize, Is
      <3>6. Knows(c)'
        BY <1>2, <3>2, <3>3, <3>4, <3>5 DEF Knows, Finalized
      <3> QED BY <1>5, <3>4, <3>6, EarnedCall DEF Finalize
    <2> QED BY <2>1, <2>2
  <1>6. CASE Judge(c)
    <2>1. /\ call'[c].pc = "judged" /\ call'[c].sid = i
          /\ call'[c].done = LoopDone(call[c].done)
          /\ \A d \in Callers \ {c} : call'[d] = call[d]
      BY <1>6 DEF Judge, TypeOK, Call
    <2>2. \A s \in Step : output_artifact[s] = "test_report" => s = "test"
      BY DEF Step, output_artifact
    <2>3. \A j \in Made("test_report") : j \in DoneStep({"test"})
      BY <2>2, RowFields DEF Made, DoneStep, TypeOK
    <2>4. LoopDone(call[c].done) => Passed
      BY <2>3 DEF LoopDone, Newest, Passed
    <2>5. steps[i].step = "synthesize" /\ Finalized
      BY <1>6 DEF Judge, EarnedInv, Knows
    <2>6. Finalized' /\ (Passed => Passed')
      BY <2>5, PassedStays
    <2>7. Knows(c)'
      BY <1>2, <2>1, <2>4, <2>5, <2>6 DEF Knows
    <2> QED BY <1>6, <2>1, <2>7, EarnedCall DEF Judge
  <1> QED BY <1>3, <1>4, <1>5, <1>6

LEMMA EarnedMove ==
  ASSUME TypeOK, Placed, Kept, EarnedInv, NEW c \in Callers,
         Bump(c) \/ Move(c) \/ CancelMove(c)
  PROVE  EarnedInv'
  <1>1. CASE Bump(c)
    <2>1. /\ call'[c].pc = "move" /\ call'[c].target = call[c].target
          /\ \A d \in Callers \ {c} : call'[d] = call[d]
          /\ workflow'.status = workflow.status
      BY <1>1 DEF Bump, TypeOK, Call
    <2>2. ASSUME NEW state, state = call[c].target  PROVE Earned(state)'
      BY <1>1, <2>2, EarnedStays DEF Bump, EarnedInv, Knows
    <2>3. Knows(c)'
      BY <2>1, <2>2 DEF Knows, Earned
    <2> QED BY <2>1, <2>3, EarnedCall
  <1>2. CASE Move(c)
    <2>1. ASSUME NEW state, state \in {call[c].target, workflow.status}  PROVE Earned(state)'
      BY <1>2, <2>1, EarnedStays DEF Move, EarnedInv, Knows
    <2>2. workflow'.status \in {call[c].target, workflow.status}
      BY <1>2 DEF Move, Moved, TypeOK
    <2>3. \A d \in Callers : Knows(d)'
      BY <1>2, SameReturn, KnowsStays DEF Move, EarnedInv, Same
    <2> QED BY <2>1, <2>2, <2>3 DEF EarnedInv, Earned
  <1>3. CASE CancelMove(c)
    <2>1. ASSUME NEW state, state \in {"cancelled", workflow.status}  PROVE Earned(state)'
      BY <2>1, EarnedStays DEF EarnedInv, Earned
    <2>2. workflow'.status \in {"cancelled", workflow.status}
      BY <1>3 DEF CancelMove, Moved, TypeOK
    <2>3. Same(c) /\ \A d \in Callers \ {c} : call'[d] = call[d]
      BY <1>3, SameReturn DEF CancelMove, TypeOK, Call, Same
    <2>4. \A d \in Callers : Knows(d)'
      BY <2>3, KnowsStays DEF EarnedInv, Same
    <2> QED BY <2>1, <2>2, <2>4 DEF EarnedInv, Earned
  <1> QED BY <1>1, <1>2, <1>3

\* Every other action takes a call to a stage that knows nothing yet.
LEMMA EarnedOther ==
  ASSUME TypeOK, Placed, Kept, EarnedInv, NEW c \in Callers,
         \/ Plan(c) \/ (\E i \in Sid : Begin(c, i) \/ DirectRead(c, i)) \/ Refuse(c)
         \/ Acquire(c) \/ Consume(c) \/ StartWork(c) \/ BodyFails(c) \/ StartReview(c)
         \/ CancelRead(c) \/ CancelList(c) \/ CancelReview(c) \/ CancelStep(c) \/ CancelClean(c)
         \/ Direct(c) \/ LoseLease(c) \/ Drop(c) \/ Crash(c)
  PROVE  EarnedInv'
  <1>1. ASSUME UNCHANGED workflow, Return(c)  PROVE EarnedInv'
    BY <1>1, SameReturn, EarnedCall
  <1>2. ASSUME UNCHANGED workflow, NEW k,
               k.pc \notin {"closing", "finalized", "judged", "bump", "move"},
               call' = [call EXCEPT ![c] = k]
        PROVE  EarnedInv'
    BY <1>2, EarnedCall, OneCall DEF Same, TypeOK
  <1>3. ASSUME UNCHANGED workflow,
               NEW pc \in PC \ {"closing", "finalized", "judged", "bump", "move"},
               call' = [call EXCEPT ![c].pc = pc]
        PROVE  EarnedInv'
    <2>1. call'[c].pc = pc /\ \A d \in Callers \ {c} : call'[d] = call[d]
      BY <1>3 DEF TypeOK, Call
    <2> QED BY <1>3, <2>1, EarnedCall DEF Same
  <1>4. ASSUME Plan(c)  PROVE EarnedInv'
    <2>1. ASSUME NEW s \in Kinds, PlanRead(c, s)  PROVE EarnedInv'
      <3>1. PICK draft :
              call' = [call EXCEPT ![c] =
                 [Idle EXCEPT !.pc = IF s = "review" THEN "superseding" ELSE "planning",
                              !.draft = draft]]
        BY <2>1 DEF PlanRead
      <3>2. call'[c].pc \in {"superseding", "planning"}
        BY <3>1 DEF TypeOK, Idle
      <3>3. \A d \in Callers \ {c} : call'[d] = call[d]
        BY <3>1, OneCall
      <3> QED BY <2>1, <3>2, <3>3, EarnedCall DEF PlanRead, Same
    <2>2. CASE Supersede(c)
      BY <1>3, <2>2 DEF Supersede, PC
    <2>3. CASE PlanInsert(c)
      BY <1>1, <2>3 DEF PlanInsert
    <2> QED BY <1>4, <2>1, <2>2, <2>3 DEF Plan
  <1>5. ASSUME NEW i \in Sid, Begin(c, i) \/ DirectRead(c, i)  PROVE EarnedInv'
    <2>1. CASE Begin(c, i)
      <3>1. call'[c].pc = "checked" /\ \A d \in Callers \ {c} : call'[d] = call[d]
        BY <2>1 DEF Begin, TypeOK, Idle
      <3> QED BY <2>1, <3>1, EarnedCall DEF Begin, Same
    <2>2. CASE DirectRead(c, i)
      <3>1. call'[c].pc = "called" /\ \A d \in Callers \ {c} : call'[d] = call[d]
        BY <2>2 DEF DirectRead, TypeOK, Idle
      <3> QED BY <2>2, <3>1, EarnedCall DEF DirectRead, Same
    <2> QED BY <1>5, <2>1, <2>2
  <1>6. ASSUME \/ Refuse(c) \/ Acquire(c) \/ Consume(c) \/ BodyFails(c)
               \/ LoseLease(c) \/ Drop(c) \/ Crash(c)
        PROVE  EarnedInv'
    BY <1>1, <1>3, <1>6 DEF Refuse, Acquire, Consume, BodyFails, FailStep, LoseLease, Drop,
                            Crash, PC
  <1>7. ASSUME StartWork(c) \/ StartReview(c)  PROVE EarnedInv'
    BY <1>1, <1>3, <1>7 DEF StartWork, StartReview, FailStep, PC
  <1>8. ASSUME Direct(c)  PROVE EarnedInv'
    BY <1>1, <1>3, <1>8 DEF Direct, DirectAcquire, DirectStart, DirectRefuse, DirectRelease,
                            DirectSettle, PC
  <1>9. ASSUME CancelRead(c) \/ CancelList(c) \/ CancelReview(c) \/ CancelStep(c) \/ CancelClean(c)
        PROVE  EarnedInv'
    <2>1. UNCHANGED workflow
      BY <1>9 DEF CancelRead, CancelList, CancelReview, CancelStep, CancelClean
    <2>2. CASE Return(c)
      BY <1>1, <2>1, <2>2
    <2>3. CASE ~Return(c)
      <3>1. /\ call'[c].pc \in {"stopping", "cancelling", "marking"}
            /\ \A d \in Callers \ {c} : call'[d] = call[d]
        <4>1. CASE CancelRead(c)
          BY <4>1 DEF CancelRead, TypeOK, Idle
        <4>2. CASE CancelList(c)
          BY <4>2 DEF CancelList, TypeOK, Call
        <4>3. CASE CancelReview(c)
          BY <4>3 DEF CancelReview, TypeOK, Call
        <4>4. CASE CancelStep(c)
          BY <2>3, <4>4 DEF CancelStep, TypeOK, Call
        <4>5. CASE CancelClean(c)
          BY <2>3, <4>5 DEF CancelClean
        <4> QED BY <1>9, <4>1, <4>2, <4>3, <4>4, <4>5
      <3> QED BY <2>1, <3>1, EarnedCall DEF Same
    <2> QED BY <2>2, <2>3
  <1> QED BY <1>4, <1>5, <1>6, <1>7, <1>8, <1>9

LEMMA EarnedNext ==
  ASSUME TypeOK, Placed, EarnedInv, [Next]_vars
  PROVE  EarnedInv'
  <1>1. Kept
    BY KeptNext
  <1>2. ASSUME NEW c \in Callers, Run(c)  PROVE EarnedInv'
    BY <1>1, <1>2, EarnedOther, EarnedFinish, EarnedStage, EarnedMove DEF Run
  <1>3. ASSUME NEW c \in Callers, CancelRead(c) \/ Cancel(c)  PROVE EarnedInv'
    BY <1>1, <1>3, EarnedOther, EarnedMove DEF Cancel
  <1>4. ASSUME NEW c \in Callers,
               \/ Plan(c) \/ (\E i \in Sid : Begin(c, i) \/ DirectRead(c, i)) \/ Refuse(c)
               \/ Direct(c) \/ LoseLease(c) \/ Drop(c) \/ Crash(c)
        PROVE  EarnedInv'
    BY <1>1, <1>4, EarnedOther
  <1>5. ASSUME \/ UNCHANGED vars \/ Status \/ (\E c \in Callers : Renew(c))
               \/ \E i \in Sid : Expire(i) \/ DirectFinalize(i) \/ DirectCancel(i)
        PROVE  EarnedInv'
    BY <1>1, <1>5, EarnedRows DEF vars, Status, Renew, Expire, DirectFinalize, DirectCancel
  <1> QED BY <1>2, <1>3, <1>4, <1>5 DEF Next

\* The state of a workflow is earned, with any number of calls, rows and crashes, with
\* stalled heartbeats and the reviews' own tools: the steps that lead to it are recorded
\* as done, and `completed` has its finalized review and its passing test.
THEOREM StateEarned == Spec => []StateIsEarned
  <1> DEFINE Inv == TypeOK /\ Placed /\ EarnedInv
  <1>1. Init => Inv
    BY TypeInit, PlacedInit, EarnedInit
  <1>2. Inv /\ [Next]_vars => Inv'
    BY TypeNext, PlacedNext, EarnedNext
  <1>3. Inv => StateIsEarned
    BY DEF EarnedInv, StateIsEarned
  <1> QED BY <1>1, <1>2, <1>3, PTL DEF Spec
-----------------------------------------------------------------------------
(***************************************************************************)
(* Fix rounds.  A call that read a count below the cap may still add a     *)
(* round of its own, until it has done so or is gone: the rounds counted   *)
(* and the calls that may count one more are below the cap and the number  *)
(* of callers together.                                                    *)
(***************************************************************************)
Counted == {"checked", "leased", "consumed", "working", "closing", "failing",
            "finalized", "judged", "bump"}

Counts(c) == call[c].pc \in Counted /\ call[c].fix_rounds < max_fix_rounds

Counting == {c \in Callers : Counts(c)}

RoundsInv ==
    /\ workflow.fix_rounds + Cardinality(Counting) < max_fix_rounds + Cardinality(Callers)
    /\ \A c \in Callers : call[c].pc = "bump" => Counts(c)

\* A call that gets nowhere it could count from without having read the count there.
Quiet(c) ==
    /\ call'[c].pc \in Counted =>
          call[c].pc \in Counted /\ call'[c].fix_rounds = call[c].fix_rounds
    /\ call'[c].pc = "bump" => call[c].pc = "bump" \/ call[c].fix_rounds < max_fix_rounds

LEMMA FewCallers ==
  ASSUME NEW S \in SUBSET Callers
  PROVE  /\ IsFiniteSet(S) /\ Cardinality(S) \in Nat
         /\ Cardinality(Callers) \in Nat
         /\ Cardinality(S) <= Cardinality(Callers)
  BY CallersAssumption, FS_Subset, FS_CardinalityType

LEMMA RoundsInit == Init => RoundsInv
  <1> SUFFICES ASSUME Init  PROVE RoundsInv
    OBVIOUS
  <1>1. \A c \in Callers : call[c].pc = "idle"
    BY DEF Init, Idle
  <1>2. Counting = {}
    BY <1>1 DEF Counting, Counts, Counted
  <1>3. Cardinality(Counting) = 0
    BY <1>2, FS_EmptySet
  <1>4. workflow.fix_rounds = 0
    BY DEF Init
  <1> QED BY <1>1, <1>3, <1>4, FewCallers, PolicyAssumption DEF RoundsInv

LEMMA RoundsQuiet ==
  ASSUME TypeOK, RoundsInv, workflow'.fix_rounds = workflow.fix_rounds,
         \A c \in Callers : Quiet(c)
  PROVE  RoundsInv'
  <1>1. Counting' \subseteq Counting
    BY DEF Quiet, Counting, Counts
  <1>2. Counting \subseteq Callers /\ Counting' \subseteq Callers
    BY DEF Counting
  <1>3. IsFiniteSet(Counting)
    BY <1>2, FewCallers
  <1>4. Cardinality(Counting') <= Cardinality(Counting)
    BY <1>1, <1>3, FS_Subset
  <1>5. \A c \in Callers : call'[c].pc = "bump" => Counts(c)'
    BY DEF Quiet, RoundsInv, Counts, Counted
  <1> QED BY <1>2, <1>4, <1>5, FewCallers, PolicyAssumption DEF TypeOK, RoundsInv

\* A step of call c that leaves the workflow alone.
LEMMA RoundsCall ==
  ASSUME TypeOK, RoundsInv, UNCHANGED workflow, NEW c \in Callers, Quiet(c),
         \A d \in Callers \ {c} : call'[d] = call[d]
  PROVE  RoundsInv'
  <1>1. \A d \in Callers : Quiet(d)
    BY DEF Quiet
  <1> QED BY <1>1, RoundsQuiet

LEMMA RoundsReturn ==
  ASSUME TypeOK, RoundsInv, UNCHANGED workflow, NEW c \in Callers, Return(c)
  PROVE  RoundsInv'
  <1>1. call'[c].pc = "idle" /\ \A d \in Callers \ {c} : call'[d] = call[d]
    BY DEF TypeOK, Return, Idle
  <1> QED BY <1>1, RoundsCall DEF Quiet, Counted

\* finish_step "done": the call goes on to count a round only below the cap.
LEMMA RoundsClose ==
  ASSUME TypeOK, RoundsInv, UNCHANGED workflow, NEW c \in Callers,
         NEW row, NEW pc \in {"bump", "move"}, NEW target, NEW gain,
         CloseStep(c, row, pc, target, gain),
         call[c].pc \in Counted,
         pc = "bump" => call[c].fix_rounds < max_fix_rounds
  PROVE  RoundsInv'
  <1>1. CASE Return(c)
    BY <1>1, RoundsReturn
  <1>2. CASE call' = [call EXCEPT ![c].pc = pc, ![c].target = target, ![c].gain = gain]
    <2>1. /\ call'[c].pc = pc /\ call'[c].fix_rounds = call[c].fix_rounds
          /\ \A d \in Callers \ {c} : call'[d] = call[d]
      BY <1>2 DEF TypeOK, Call
    <2> QED BY <2>1, RoundsCall DEF Quiet
  <1> QED BY <1>1, <1>2 DEF CloseStep

LEMMA RoundsFinish ==
  ASSUME TypeOK, RoundsInv, NEW c \in Callers,
         \/ FinishPlain(c) \/ FinishHostCode(c) \/ FinishPatch(c) \/ FinishApply(c)
         \/ FinishTest(c) \/ FinishReview(c) \/ FinishSynthesis(c)
  PROVE  RoundsInv'
  <1>1. ASSUME NEW row, NEW target, NEW gain, CloseStep(c, row, "move", target, gain),
               UNCHANGED workflow, call[c].pc \in {"working", "closing"}
        PROVE  RoundsInv'
    BY <1>1, RoundsClose DEF Counted
  <1>2. CASE FinishPlain(c) \/ FinishHostCode(c)
    BY <1>1, <1>2 DEF FinishPlain, FinishHostCode, Is
  <1>3. CASE FinishPatch(c) \/ FinishApply(c) \/ FinishReview(c)
    BY <1>1, <1>3 DEF FinishPatch, FinishApply, FinishReview, Is
  <1>4. call[c].fix_rounds \in Nat /\ max_fix_rounds \in Nat
    BY CallFields, PolicyAssumption DEF TypeOK
  <1>5. CASE FinishTest(c)
    <2>1. PICK report, row, pc :
            /\ pc = IF AfterTest(report, call[c].fix_rounds) = "fixing" THEN "bump" ELSE "move"
            /\ CloseStep(c, row, pc, AfterTest(report, call[c].fix_rounds), NoCommit)
      BY <1>5 DEF FinishTest
    <2>2. pc = "bump" => call[c].fix_rounds < max_fix_rounds
      BY <1>4, <2>1 DEF AfterTest
    <2> QED BY <1>5, <2>1, <2>2, RoundsClose DEF FinishTest, Is, Counted
  <1>6. CASE FinishSynthesis(c)
    <2>1. PICK row, pc :
            /\ pc = IF AfterSynthesis(call[c].done, call[c].fix_rounds) = "fixing"
                    THEN "bump" ELSE "move"
            /\ CloseStep(c, row, pc, AfterSynthesis(call[c].done, call[c].fix_rounds), NoCommit)
      BY <1>6 DEF FinishSynthesis
    <2>2. pc = "bump" => call[c].fix_rounds < max_fix_rounds
      BY <1>4, <2>1 DEF AfterSynthesis
    <2> QED BY <1>6, <2>1, <2>2, RoundsClose DEF FinishSynthesis, Counted
  <1> QED BY <1>2, <1>3, <1>5, <1>6

\* Reading the count: a call that finds it at the cap will add no round.
LEMMA RoundsBegin ==
  ASSUME TypeOK, RoundsInv, NEW c \in Callers, NEW i, Begin(c, i)
  PROVE  RoundsInv'
  <1>1. /\ call'[c].pc = "checked" /\ call'[c].fix_rounds = workflow.fix_rounds
        /\ \A d \in Callers \ {c} : call'[d] = call[d]
    BY DEF Begin, TypeOK, Idle
  <1>2. c \notin Counting
    BY DEF Begin, Counting, Counts, Counted
  <1>3. \A d \in Callers : call'[d].pc = "bump" => Counts(d)'
    BY <1>1 DEF RoundsInv, Counts, Counted
  <1>4. workflow' = workflow /\ workflow.fix_rounds \in Nat
    BY DEF Begin, TypeOK
  <1>5. Counting \subseteq Callers /\ Counting' \subseteq Callers
    BY DEF Counting
  <1>6. CASE workflow.fix_rounds < max_fix_rounds
    BY <1>3, <1>4, <1>5, <1>6, FewCallers, PolicyAssumption DEF RoundsInv
  <1>7. CASE ~(workflow.fix_rounds < max_fix_rounds)
    <2>1. Counting' = Counting
      BY <1>1, <1>2, <1>7 DEF Counting, Counts
    <2> QED BY <1>3, <1>4, <2>1 DEF RoundsInv
  <1> QED BY <1>6, <1>7

\* Counting a round: the call is one fewer that may.
LEMMA RoundsBump ==
  ASSUME TypeOK, RoundsInv, NEW c \in Callers, Bump(c)
  PROVE  RoundsInv'
  <1>1. /\ call'[c].pc = "move"
        /\ \A d \in Callers \ {c} : call'[d] = call[d]
    BY DEF Bump, TypeOK, Call
  <1>2. c \in Counting /\ Counting' = Counting \ {c}
    BY <1>1 DEF Bump, RoundsInv, Counting, Counts, Counted
  <1>3. Counting \subseteq Callers
    BY DEF Counting
  <1>4. Cardinality(Counting') = Cardinality(Counting) - 1
    BY <1>2, <1>3, FewCallers, FS_RemoveElement
  <1>5. workflow'.fix_rounds = workflow.fix_rounds + 1 /\ workflow.fix_rounds \in Nat
    BY DEF Bump, TypeOK
  <1>6. \A d \in Callers : call'[d].pc = "bump" => Counts(d)'
    BY <1>1 DEF RoundsInv, Counts
  <1> QED BY <1>3, <1>4, <1>5, <1>6, FewCallers, PolicyAssumption DEF RoundsInv

\* No other action lets a call count that could not before.
LEMMA RoundsOther ==
  ASSUME TypeOK, RoundsInv, NEW c \in Callers,
         \/ Plan(c) \/ (\E i \in Sid : DirectRead(c, i)) \/ Refuse(c)
         \/ Acquire(c) \/ Consume(c) \/ StartWork(c) \/ BodyFails(c) \/ StartReview(c)
         \/ SavePatch(c) \/ RemovePatches(c) \/ Settle(c) \/ Finalize(c) \/ Judge(c)
         \/ CancelRead(c) \/ CancelList(c) \/ CancelReview(c) \/ CancelStep(c) \/ CancelClean(c)
         \/ Direct(c) \/ LoseLease(c) \/ Drop(c) \/ Crash(c)
  PROVE  RoundsInv'
  <1>1. ASSUME UNCHANGED workflow, NEW k \in Call, call' = [call EXCEPT ![c] = k],
               k.pc \notin Counted
        PROVE  RoundsInv'
    <2>1. call'[c] = k /\ \A d \in Callers \ {c} : call'[d] = call[d]
      BY <1>1 DEF TypeOK
    <2> QED BY <1>1, <2>1, RoundsCall DEF Quiet, Counted
  <1>2. ASSUME UNCHANGED workflow, call[c].pc \in Counted, NEW k,
               call' = [call EXCEPT ![c] = k], k.pc # "bump", k.fix_rounds = call[c].fix_rounds
        PROVE  RoundsInv'
    <2>1. call'[c] = k /\ \A d \in Callers \ {c} : call'[d] = call[d]
      BY <1>2 DEF TypeOK
    <2> QED BY <1>2, <2>1, RoundsCall DEF Quiet
  <1>3. ASSUME UNCHANGED workflow, Return(c)  PROVE RoundsInv'
    BY <1>3, RoundsReturn
  <1>a. call[c] \in Call
    BY DEF TypeOK
  <1>4. ASSUME NEW pc, pc \in PC
        PROVE  /\ [call[c] EXCEPT !.pc = pc] \in Call
               /\ [call[c] EXCEPT !.pc = pc].pc = pc
               /\ [call[c] EXCEPT !.pc = pc].fix_rounds = call[c].fix_rounds
    BY <1>4, <1>a, CallUpdates DEF Call
  <1>5. ASSUME UNCHANGED workflow, NEW pc \in PC, pc \notin Counted,
               call' = [call EXCEPT ![c].pc = pc]
        PROVE  RoundsInv'
    BY <1>1, <1>4, <1>5
  <1>6. ASSUME UNCHANGED workflow, NEW pc \in PC, pc # "bump", call[c].pc \in Counted,
               call' = [call EXCEPT ![c].pc = pc]
        PROVE  RoundsInv'
    BY <1>2, <1>4, <1>6
  <1>7. CASE Plan(c)
    <2>1. ASSUME NEW s \in Kinds, PlanRead(c, s)  PROVE RoundsInv'
      <3>1. PICK draft :
              call' = [call EXCEPT ![c] =
                 [Idle EXCEPT !.pc = IF s = "review" THEN "superseding" ELSE "planning",
                              !.draft = draft]]
        BY <2>1 DEF PlanRead
      <3>2. call'[c].pc \in {"superseding", "planning"}
            /\ \A d \in Callers \ {c} : call'[d] = call[d]
        BY <3>1 DEF TypeOK, Idle
      <3> QED BY <2>1, <3>2, RoundsCall DEF PlanRead, Quiet, Counted
    <2>2. CASE Supersede(c)
      BY <1>5, <2>2 DEF Supersede, PC, Counted
    <2>3. CASE PlanInsert(c)
      BY <1>3, <2>3 DEF PlanInsert
    <2> QED BY <1>7, <2>1, <2>2, <2>3 DEF Plan
  <1>8. CASE (\E i \in Sid : DirectRead(c, i)) \/ CancelRead(c)
    <2>1. call'[c].pc \in {"called", "stopping"} /\ \A d \in Callers \ {c} : call'[d] = call[d]
      BY <1>8 DEF DirectRead, CancelRead, TypeOK, Idle
    <2> QED BY <1>8, <2>1, RoundsCall DEF DirectRead, CancelRead, Quiet, Counted
  <1>9. CASE \/ Refuse(c) \/ Acquire(c) \/ Consume(c) \/ BodyFails(c)
             \/ LoseLease(c) \/ Drop(c) \/ Crash(c)
    BY <1>3, <1>6, <1>9 DEF Refuse, Acquire, Consume, BodyFails, FailStep, LoseLease, Drop,
                            Crash, PC, Counted
  <1>10. CASE StartWork(c) \/ StartReview(c)
    BY <1>3, <1>6, <1>10 DEF StartWork, StartReview, Is, FailStep, PC, Counted
  <1>11. CASE Settle(c)
    BY <1>6, <1>11 DEF Settle, Is, PC, Counted
  <1>12. CASE SavePatch(c) \/ RemovePatches(c) \/ Judge(c)
    <2>1. /\ call'[c].pc \in {"closing", "judged"} /\ call'[c].fix_rounds = call[c].fix_rounds
          /\ \A d \in Callers \ {c} : call'[d] = call[d]
      BY <1>12 DEF SavePatch, RemovePatches, Judge, TypeOK, Call
    <2> QED BY <1>12, <2>1, RoundsCall DEF SavePatch, RemovePatches, Judge, Is, Quiet, Counted
  <1>13. CASE Finalize(c)
    <2>1. CASE FailStep(c)
      BY <1>3, <1>13, <2>1 DEF FailStep, Finalize
    <2>2. CASE ~FailStep(c)
      <3>1. /\ call'[c].pc = "finalized" /\ call'[c].fix_rounds = call[c].fix_rounds
            /\ \A d \in Callers \ {c} : call'[d] = call[d]
        BY <1>13, <2>2 DEF Finalize, TypeOK, Call
      <3> QED BY <1>13, <3>1, RoundsCall DEF Finalize, Is, Quiet, Counted
    <2> QED BY <2>1, <2>2
  <1>14. CASE Direct(c)
    BY <1>3, <1>5, <1>14 DEF Direct, DirectAcquire, DirectStart, DirectRefuse, DirectRelease,
                             DirectSettle, PC, Counted
  <1>15. CASE CancelStep(c) \/ CancelClean(c)
    <2>1. CASE Return(c)
      BY <1>3, <1>15, <2>1 DEF CancelStep, CancelClean
    <2>2. CASE ~Return(c)
      <3>1. /\ call'[c].pc = "cancelling"
            /\ \A d \in Callers \ {c} : call'[d] = call[d]
        BY <1>15, <2>2 DEF CancelStep, CancelClean, TypeOK, Call
      <3> QED BY <1>15, <3>1, RoundsCall DEF CancelStep, CancelClean, Quiet, Counted
    <2> QED BY <2>1, <2>2
  <1>16. CASE CancelList(c) \/ CancelReview(c)
    <2>1. /\ call'[c].pc \in {"cancelling", "marking"}
          /\ \A d \in Callers \ {c} : call'[d] = call[d]
      <3>1. CASE CancelList(c)
        BY <3>1 DEF CancelList, TypeOK, Call
      <3>2. CASE CancelReview(c)
        BY <3>2 DEF CancelReview, TypeOK, Call
      <3> QED BY <1>16, <3>1, <3>2
    <2> QED BY <1>16, <2>1, RoundsCall DEF CancelList, CancelReview, Quiet, Counted
  <1> QED BY <1>7, <1>8, <1>9, <1>10, <1>11, <1>12, <1>13, <1>14, <1>15, <1>16

LEMMA RoundsMove ==
  ASSUME TypeOK, RoundsInv, NEW c \in Callers, Move(c) \/ CancelMove(c)
  PROVE  RoundsInv'
  <1>1. workflow'.fix_rounds = workflow.fix_rounds
    BY DEF Move, CancelMove, Moved, TypeOK
  <1>2. call'[c].pc \in {"idle", "cleaning"} /\ \A d \in Callers \ {c} : call'[d] = call[d]
    BY DEF Move, CancelMove, Return, Idle, TypeOK, Call
  <1>3. \A d \in Callers : Quiet(d)
    BY <1>2 DEF Quiet, Counted
  <1> QED BY <1>1, <1>3, RoundsQuiet

LEMMA RoundsNext ==
  ASSUME TypeOK, RoundsInv, [Next]_vars
  PROVE  RoundsInv'
  <1>1. ASSUME NEW c \in Callers, Run(c)  PROVE RoundsInv'
    BY <1>1, RoundsOther, RoundsFinish, RoundsBump, RoundsMove DEF Run
  <1>2. ASSUME NEW c \in Callers, CancelRead(c) \/ Cancel(c)  PROVE RoundsInv'
    BY <1>2, RoundsOther, RoundsMove DEF Cancel
  <1>3. ASSUME NEW c \in Callers,
               \/ Plan(c) \/ (\E i \in Sid : DirectRead(c, i)) \/ Refuse(c)
               \/ Direct(c) \/ LoseLease(c) \/ Drop(c) \/ Crash(c)
        PROVE  RoundsInv'
    BY <1>3, RoundsOther
  <1>4. ASSUME NEW c \in Callers, NEW i \in Sid, Begin(c, i)  PROVE RoundsInv'
    BY <1>4, RoundsBegin
  <1>5. ASSUME UNCHANGED <<workflow, call>>  PROVE RoundsInv'
    BY <1>5, RoundsQuiet DEF Quiet
  <1>6. ASSUME \/ UNCHANGED vars \/ Status \/ (\E c \in Callers : Renew(c))
               \/ \E i \in Sid : Expire(i) \/ DirectFinalize(i) \/ DirectCancel(i)
        PROVE  RoundsInv'
    BY <1>5, <1>6 DEF vars, Status, Renew, Expire, DirectFinalize, DirectCancel
  <1> QED BY <1>1, <1>2, <1>3, <1>4, <1>6 DEF Next

\* The cap on fix rounds is passed only by calls that read the count together, one
\* round each: never by one call after the other, whatever crashes, stalls or is
\* cancelled between the step, the count and the move.
THEOREM FixRoundsCapped == Spec => []RoundsWithinCap
  <1>1. Init => TypeOK /\ Placed /\ RoundsInv
    BY TypeInit, PlacedInit, RoundsInit
  <1>2. TypeOK /\ Placed /\ RoundsInv /\ [Next]_vars => (TypeOK /\ Placed /\ RoundsInv)'
    BY TypeNext, PlacedNext, RoundsNext
  <1>3. TypeOK /\ RoundsInv => RoundsWithinCap
    <2> SUFFICES ASSUME TypeOK, RoundsInv  PROVE RoundsWithinCap
      OBVIOUS
    <2>1. Counting \subseteq Callers
      BY DEF Counting
    <2> QED BY <2>1, FewCallers, PolicyAssumption DEF TypeOK, RoundsInv, RoundsWithinCap
  <1> QED BY <1>1, <1>2, <1>3, PTL DEF Spec

-----------------------------------------------------------------------------
(***************************************************************************)
(* A workflow completes as tested.  From the moment its last call judged   *)
(* the loop done, the newest test report stays the one it judged by, and   *)
(* the move to `completed` brings no commit of its own.                    *)
(***************************************************************************)
OneAtATime == \A c, d \in Callers : c = d

AsTested ==
    workflow.result_commit # NoCommit =>
        \A i \in Newest(Made("test_report")) :
            /\ steps[i].report = "passed"
            /\ steps[i].commit = workflow.result_commit

Recording == Counted \cup {"move"}

Judges(c) == \/ call[c].pc = "judged" /\ call[c].done
             \/ call[c].pc = "move" /\ call[c].target = "completed"

TestedInv ==
    /\ workflow.status = "completed" => AsTested /\ \A c \in Callers : call[c].pc \notin Recording
    /\ \A c \in Callers :
          /\ Judges(c) => AsTested
          /\ call[c].pc \in {"bump", "move"} /\ call[c].target = "completed" =>
                call[c].pc = "move" /\ call[c].gain = NoCommit

LEMMA TestedInit == Init => TestedInv
  BY DEF Init, Idle, TestedInv, Judges

-----------------------------------------------------------------------------
(* No step but the end of a step's own work makes a row `done`. *)

Finishes(c) == \/ FinishPlain(c) \/ FinishHostCode(c) \/ FinishPatch(c) \/ FinishApply(c)
               \/ FinishTest(c) \/ FinishReview(c) \/ FinishSynthesis(c)

RowsSettled == \A i \in Sid : steps'[i].status = "done" => steps[i].status = "done"

TestsSettled == \A i \in Sid : steps'[i].status = "done" /\ steps'[i].step = "test" =>
                                  steps[i].status = "done"

LEMMA SettledSame == UNCHANGED steps => RowsSettled
  BY DEF RowsSettled

LEMMA SettledRow ==
  ASSUME TypeOK, NEW j, NEW row, SetRow(j, row),
         j \in Sid => (row.status = "done" => steps[j].status = "done")
  PROVE  RowsSettled
  BY DEF TypeOK, SetRow, RowsSettled

LEMMA SettledCalm ==
  ASSUME \A i \in Sid : Undisturbed(i)
  PROVE  RowsSettled
  BY DEF Undisturbed, RowsSettled

LEMMA SettledReaped ==
  ASSUME TypeOK, steps' = Reaped
  PROVE  RowsSettled
  <1>1. ASSUME NEW i \in Sid  PROVE Reaped[i].status = "done" => steps[i].status = "done"
    <2>1. CASE Reapable(i)
      <3>1. Reaped[i] = [steps[i] EXCEPT !.status = "abandoned", !.holder = NoCaller,
                                         !.expired = FALSE]
        BY <2>1 DEF Reaped
      <3> QED BY <3>1 DEF TypeOK, StepRow
    <2>2. CASE ~Reapable(i)
      BY <2>2 DEF Reaped
    <2> QED BY <2>1, <2>2
  <1> QED BY <1>1 DEF RowsSettled

LEMMA SettledFail ==
  ASSUME TypeOK, NEW c \in Callers, FailStep(c)
  PROVE  RowsSettled
  BY DEF FailStep, Closed, TypeOK, StepRow, RowsSettled

LEMMA SettledReleased ==
  ASSUME TypeOK, NEW c, NEW i, SetRow(i, Released(c, i))
  PROVE  RowsSettled
  <1>1. i \in Sid => Released(c, i).status = steps[i].status
    BY LeaseColumns DEF Released, TypeOK
  <1> QED BY <1>1, SettledRow

LEMMA SettledNext ==
  ASSUME TypeOK, Placed, Drafted, [Next]_vars, \A c \in Callers : ~Finishes(c)
  PROVE  RowsSettled
  <1>1. CASE UNCHANGED vars
    BY <1>1, SettledSame DEF vars
  <1>2. ASSUME NEW c \in Callers, Plan(c)  PROVE RowsSettled
    <2>1. ASSUME NEW s \in Kinds, PlanRead(c, s)  PROVE RowsSettled
      BY <2>1, SettledReaped DEF PlanRead
    <2>2. CASE Supersede(c)
      <3>1. ASSUME NEW i \in Sid
            PROVE  \/ steps'[i] = steps[i]
                   \/ steps'[i] = [steps[i] EXCEPT !.status = "cancelled", !.review = "none"]
        BY <2>2 DEF Supersede
      <3>2. ASSUME NEW row \in StepRow
            PROVE  [row EXCEPT !.status = "cancelled", !.review = "none"].status # "done"
        BY DEF StepRow
      <3>3. \A i \in Sid : steps[i] \in StepRow
        BY DEF TypeOK
      <3> QED BY <3>1, <3>2, <3>3 DEF RowsSettled
    <2>3. CASE PlanInsert(c)
      BY <2>3, SettledRow DEF PlanInsert, Drafted
    <2> QED BY <1>2, <2>1, <2>2, <2>3 DEF Plan
  <1>3. ASSUME NEW c \in Callers, NEW i \in Sid, Begin(c, i) \/ DirectRead(c, i)
        PROVE  RowsSettled
    BY <1>3, SettledReaped, SettledSame DEF Begin, DirectRead
  <1>4. ASSUME NEW c \in Callers, Refuse(c) \/ Renew(c) \/ LoseLease(c) \/ Drop(c) \/ Crash(c)
        PROVE  RowsSettled
    <2>1. CASE Refuse(c)
      BY <2>1, SettledReleased DEF Refuse
    <2>2. CASE Renew(c)
      BY <2>2, SettledRow DEF Renew, TypeOK, StepRow
    <2>3. CASE LoseLease(c)
      BY <2>3, SettledFail, SettledSame DEF LoseLease
    <2> QED BY <1>4, <2>1, <2>2, <2>3, SettledSame DEF Drop, Crash
  <1>5. ASSUME NEW c \in Callers, Run(c)  PROVE RowsSettled
    <2>a. call[c].sid \in Sid => steps[call[c].sid] \in StepRow
      BY DEF TypeOK
    <2>1. CASE Acquire(c)
      BY <2>a, <2>1, SettledRow, SettledSame DEF Acquire, StepRow
    <2>2. CASE Consume(c)
      <3>1. CASE Spendable(call[c].sid)
        BY <2>a, <2>2, <3>1, SettledRow DEF Consume, StepRow
      <3> QED BY <2>2, <3>1, SettledReleased DEF Consume
    <2>3. CASE StartWork(c) \/ BodyFails(c)
      BY <2>3, SettledFail, SettledSame DEF StartWork, BodyFails
    <2>4. CASE SavePatch(c) \/ RemovePatches(c) \/ Judge(c) \/ Bump(c) \/ Move(c)
      BY <2>4, SettledSame DEF SavePatch, RemovePatches, Judge, Bump, Move
    <2>5. CASE StartReview(c)
      BY <2>a, <2>5, SettledRow, SettledFail DEF StartReview, StepRow
    <2>6. CASE Settle(c)
      BY <2>a, <2>6, SettledRow DEF Settle, StepRow
    <2>7. CASE Finalize(c)
      <3>1. PICK r \in ReviewOf :
              IF steps[r].review = "awaiting_synthesis"
              THEN SetRow(r, [steps[r] EXCEPT !.review = "complete"])
              ELSE FailStep(c)
        BY <2>7 DEF Finalize
      <3> QED BY <3>1, SettledRow, SettledFail DEF TypeOK, StepRow
    <2>8. ~Finishes(c)
      OBVIOUS
    <2> QED BY <1>5, <2>1, <2>2, <2>3, <2>4, <2>5, <2>6, <2>7, <2>8 DEF Run, Finishes
  <1>6. ASSUME NEW c \in Callers, CancelRead(c) \/ Cancel(c)  PROVE RowsSettled
    <2>1. CASE CancelRead(c) \/ CancelList(c) \/ CancelMove(c) \/ CancelClean(c)
      BY <2>1, SettledSame DEF CancelRead, CancelList, CancelMove, CancelClean
    <2>2. CASE CancelReview(c)
      BY <2>2, SettledRow DEF CancelReview, TypeOK, StepRow
    <2>3. CASE CancelStep(c)
      <3>1. call[c].sid \in Sid => Closed(steps[call[c].sid], "cancelled").status = "cancelled"
        BY DEF Closed, TypeOK, StepRow
      <3> QED BY <2>3, <3>1, SettledRow, SettledSame DEF CancelStep
    <2> QED BY <1>6, <2>1, <2>2, <2>3 DEF Cancel
  <1>7. ASSUME NEW c \in Callers, Direct(c)  PROVE RowsSettled
    <2> DEFINE i == call[c].sid
    <2>a. i \in Sid => steps[i] \in StepRow
      BY DEF TypeOK
    <2>1. CASE DirectAcquire(c) \/ DirectStart(c) \/ DirectSettle(c)
      BY <2>a, <2>1, SettledRow, SettledSame DEF DirectAcquire, DirectStart, DirectSettle, StepRow
    <2>2. CASE DirectRefuse(c)
      BY <2>2, SettledReleased DEF DirectRefuse
    <2>3. CASE DirectRelease(c)
      <3>1. ASSUME NEW r, SetRow(i, [Released(c, i) EXCEPT !.review = r])  PROVE RowsSettled
        <4>1. i \in Sid => [Released(c, i) EXCEPT !.review = r].status = steps[i].status
          BY <2>a DEF Released, StepRow
        <4> QED BY <3>1, <4>1, SettledRow
      <3> QED BY <2>3, <3>1, SettledReleased DEF DirectRelease
    <2> QED BY <1>7, <2>1, <2>2, <2>3 DEF Direct
  <1>8. CASE Status
    BY <1>8, SettledReaped DEF Status
  <1>9. ASSUME NEW i \in Sid, Expire(i) \/ DirectFinalize(i) \/ DirectCancel(i)  PROVE RowsSettled
    BY <1>9, SettledRow DEF Expire, DirectFinalize, DirectCancel, TypeOK, StepRow
  <1> QED BY <1>1, <1>2, <1>3, <1>4, <1>5, <1>6, <1>7, <1>8, <1>9 DEF Next

\* As long as no test is recorded and no commit comes in, what was tested stays so.
LEMMA AsTestedStays ==
  ASSUME TypeOK, TypeOK', Placed, Kept, TestsSettled,
         workflow'.result_commit = workflow.result_commit, AsTested
  PROVE  AsTested'
  <1>1. \A s \in Step : output_artifact[s] = "test_report" <=> s = "test"
    BY DEF Step, output_artifact
  <1>2. Made("test_report") = DoneStep({"test"})
    BY <1>1, RowFields DEF Made, DoneStep, TypeOK
  <1>3. Made("test_report")' = DoneStep({"test"})'
    BY <1>1, RowFields DEF Made, DoneStep, TypeOK
  <1>4. ASSUME NEW i \in Sid, steps[i].status = "done"
        PROVE  /\ steps'[i].status = "done" /\ steps'[i].step = steps[i].step
               /\ steps'[i].report = steps[i].report /\ steps'[i].commit = steps[i].commit
    <2>1. i <= sequence
      BY <1>4 DEF Placed, Blank, TypeOK, Sid
    <2> QED BY <1>4, <2>1 DEF Kept, OutcomeKept, PlanKept, Finished
  <1>5. DoneStep({"test"})' = DoneStep({"test"})
    BY <1>4 DEF TestsSettled, DoneStep
  <1>6. \A i \in Newest(Made("test_report"))' : i \in Newest(Made("test_report")) /\ i \in DoneStep({"test"})
    BY <1>2, <1>3, <1>5 DEF Newest
  <1>7. \A i \in DoneStep({"test"}) :
           steps'[i].report = steps[i].report /\ steps'[i].commit = steps[i].commit
    BY <1>4 DEF DoneStep
  <1> QED BY <1>6, <1>7 DEF AsTested

-----------------------------------------------------------------------------
\* A step of call c that leaves the workflow alone, and takes c neither to a judgment
\* nor to a move it was not on its way to.
LEMMA TestedCall ==
  ASSUME TypeOK, TypeOK', Placed, Kept, RowsSettled, TestedInv, UNCHANGED workflow,
         NEW c \in Callers, \A d \in Callers \ {c} : call'[d] = call[d],
         call'[c].pc \in Recording => call[c].pc \in Recording \/ ~Ended(workflow),
         call'[c].pc \in {"judged", "bump", "move"} => call'[c] = call[c]
  PROVE  TestedInv'
  <1>1. TestsSettled
    BY DEF RowsSettled, TestsSettled
  <1>2. AsTested => AsTested'
    BY <1>1, AsTestedStays
  <1>3. workflow.status = "completed" => \A d \in Callers : call'[d].pc \notin Recording
    BY DEF TestedInv, Ended, TERMINAL_STATES
  <1>4. \A d \in Callers : call'[d].pc \in {"judged", "bump", "move"} => call'[d] = call[d]
    OBVIOUS
  <1> QED BY <1>2, <1>3, <1>4 DEF TestedInv, Judges

LEMMA TestedRows ==
  ASSUME TypeOK, TypeOK', Placed, Kept, RowsSettled, TestedInv, UNCHANGED <<workflow, call>>
  PROVE  TestedInv'
  <1>1. TestsSettled
    BY DEF RowsSettled, TestsSettled
  <1>2. AsTested => AsTested'
    BY <1>1, AsTestedStays
  <1> QED BY <1>2 DEF TestedInv, Judges

LEMMA TestedReturn ==
  ASSUME TypeOK, TypeOK', Placed, Kept, RowsSettled, TestedInv, UNCHANGED workflow,
         NEW c \in Callers, Return(c)
  PROVE  TestedInv'
  <1>1. call'[c].pc = "idle" /\ \A d \in Callers \ {c} : call'[d] = call[d]
    BY DEF TypeOK, Return, Idle
  <1> QED BY <1>1, TestedCall DEF Recording, Counted

\* finish_step "done", by the one call there is.
LEMMA TestedClose ==
  ASSUME TypeOK, TypeOK', Placed, Kept, TestedInv, OneAtATime, UNCHANGED workflow,
         NEW c \in Callers, call[c].pc \in Counted,
         NEW row, NEW pc \in {"bump", "move"}, NEW target, NEW gain,
         CloseStep(c, row, pc, target, gain),
         target = "completed" => pc = "move" /\ gain = NoCommit /\ AsTested'
  PROVE  TestedInv'
  <1>1. CASE steps[call[c].sid].status = "running"
    <2>1. call'[c].pc = pc /\ call'[c].target = target /\ call'[c].gain = gain
      BY <1>1 DEF CloseStep, TypeOK, Call
    <2>2. workflow.status # "completed"
      BY DEF TestedInv, Recording
    <2>3. \A d \in Callers : d = c
      BY DEF OneAtATime
    <2> QED BY <2>1, <2>2, <2>3 DEF TestedInv, Judges
  <1>2. CASE steps[call[c].sid].status # "running"
    BY <1>2, SettledSame, TestedReturn DEF CloseStep
  <1> QED BY <1>1, <1>2

LEMMA TestedFinish ==
  ASSUME TypeOK, TypeOK', Placed, Kept, EarnedInv, TestedInv, OneAtATime,
         NEW c \in Callers, Finishes(c)
  PROVE  TestedInv'
  <1> DEFINE i == call[c].sid
             row == steps[i]
  <1>a. call[c].pc \in Counted /\ UNCHANGED workflow
    BY DEF Finishes, FinishPlain, FinishHostCode, FinishPatch, FinishApply, FinishTest,
           FinishReview, FinishSynthesis, Is, Counted
  <1>b. ASSUME NEW r, NEW target, target # "completed", NEW pc \in {"bump", "move"}, NEW gain,
               CloseStep(c, r, pc, target, gain)
        PROVE  TestedInv'
    BY <1>a, <1>b, TestedClose
  <1>1. CASE FinishPlain(c)
    <2>1. PICK target : target = on_success[row.step]
      OBVIOUS
    <2>2. row.step \in {"research", "plan", "author_execution_prompt"}
      BY <1>1 DEF FinishPlain, Is
    <2>3. target # "completed"
      BY <2>1, <2>2 DEF on_success
    <2>4. CloseStep(c, row, "move", target, NoCommit)
      BY <1>1, <2>1 DEF FinishPlain
    <2> QED BY <1>b, <2>3, <2>4
  <1>2. CASE FinishHostCode(c) \/ FinishPatch(c) \/ FinishApply(c) \/ FinishReview(c)
    BY <1>b, <1>2 DEF FinishHostCode, FinishPatch, FinishApply, FinishReview, on_success
  <1>3. CASE FinishTest(c)
    <2>a. PICK report, tested :
            CloseStep(c, tested,
                      IF AfterTest(report, call[c].fix_rounds) = "fixing" THEN "bump" ELSE "move",
                      AfterTest(report, call[c].fix_rounds), NoCommit)
      BY <1>3 DEF FinishTest
    <2>1. PICK target, pc :
            /\ pc \in {"bump", "move"}
            /\ target = AfterTest(report, call[c].fix_rounds)
            /\ CloseStep(c, tested, pc, target, NoCommit)
      BY <2>a
    <2>2. target # "completed"
      BY <2>1 DEF AfterTest
    <2> QED BY <1>b, <2>1, <2>2
  <1>4. CASE FinishSynthesis(c)
    <2>1. PICK target, pc :
            /\ pc \in {"bump", "move"}
            /\ pc = IF target = "fixing" THEN "bump" ELSE "move"
            /\ target = AfterSynthesis(call[c].done, call[c].fix_rounds)
            /\ CloseStep(c, row, pc, target, NoCommit)
      BY <1>4 DEF FinishSynthesis
    <2>2. call[c].pc = "judged" /\ row.step = "synthesize"
      BY <1>4 DEF FinishSynthesis, EarnedInv, Knows
    <2>3. ASSUME target = "completed"  PROVE pc = "move" /\ AsTested'
      <3>1. call[c].done
        BY <2>1, <2>3 DEF AfterSynthesis
      <3>2. AsTested
        BY <2>2, <3>1 DEF TestedInv, Judges
      <3>3. TestsSettled
        <4>1. CASE row.status = "running"
          <5>1. i \in Sid => Closed(row, "done").step = "synthesize"
            BY <2>2 DEF Closed, TypeOK, StepRow
          <5>2. SetRow(i, Closed(row, "done"))
            BY <2>1, <4>1 DEF CloseStep
          <5> QED BY <5>1, <5>2 DEF SetRow, TypeOK, TestsSettled
        <4>2. CASE row.status # "running"
          BY <2>1, <4>2 DEF CloseStep, TestsSettled
        <4> QED BY <4>1, <4>2
      <3>4. AsTested'
        BY <1>a, <3>2, <3>3, AsTestedStays
      <3> QED BY <2>1, <2>3, <3>4
    <2> QED BY <1>a, <2>1, <2>3, TestedClose
  <1> QED BY <1>1, <1>2, <1>3, <1>4 DEF Finishes

LEMMA TestedJudge ==
  ASSUME TypeOK, TypeOK', Placed, Kept, TestedInv, OneAtATime, NEW c \in Callers, Judge(c)
  PROVE  TestedInv'
  <1>1. /\ call'[c].pc = "judged" /\ call'[c].done = LoopDone(call[c].done)
        /\ UNCHANGED <<workflow, steps>>
    BY DEF Judge, TypeOK, Call
  <1>2. LoopDone(call[c].done) => AsTested
    <2>1. \A i, j \in Newest(Made("test_report")) : i = j
      BY DEF Newest, Made, Sid
    <2> QED BY <2>1 DEF LoopDone, AsTested
  <1>3. AsTested => AsTested'
    BY <1>1 DEF AsTested, Made, Newest
  <1>4. workflow.status # "completed"
    BY DEF Judge, TestedInv, Recording, Counted
  <1>5. \A d \in Callers : d = c
    BY DEF OneAtATime
  <1> QED BY <1>1, <1>2, <1>3, <1>4, <1>5 DEF TestedInv, Judges

LEMMA TestedMove ==
  ASSUME TypeOK, TypeOK', Placed, Kept, TestedInv, OneAtATime,
         NEW c \in Callers, Bump(c) \/ Move(c) \/ CancelMove(c)
  PROVE  TestedInv'
  <1>1. \A d \in Callers : d = c
    BY DEF OneAtATime
  <1>2. CASE Bump(c)
    <2>1. /\ call'[c].pc = "move" /\ call'[c].target = call[c].target
          /\ workflow'.status = workflow.status
      BY <1>2 DEF Bump, TypeOK, Call
    <2>2. call[c].target # "completed" /\ workflow.status # "completed"
      BY <1>2 DEF Bump, TestedInv, Recording, Counted
    <2> QED BY <1>1, <2>1, <2>2 DEF TestedInv, Judges
  <1>3. CASE Move(c)
    <2>1. call'[c].pc = "idle" /\ UNCHANGED steps
      BY <1>3 DEF Move, Return, Idle, TypeOK
    <2>2. workflow.status # "completed"
      BY <1>3 DEF Move, TestedInv, Recording
    <2>3. ASSUME workflow'.status = "completed"  PROVE AsTested'
      <3>1. workflow' = Moved(call[c].target, call[c].gain)
        BY <1>3, <2>2, <2>3 DEF Move
      <3>2. call[c].target = "completed"
        BY <2>3, <3>1 DEF Moved, TypeOK
      <3>3. AsTested /\ call[c].gain = NoCommit
        BY <1>3, <3>2 DEF Move, TestedInv, Judges
      <3>4. workflow'.result_commit = workflow.result_commit
        BY <3>1, <3>3 DEF Moved, TypeOK
      <3> QED BY <2>1, <3>3, <3>4 DEF AsTested, Made, Newest
    <2> QED BY <1>1, <2>1, <2>3 DEF TestedInv, Judges, Recording, Counted
  <1>4. CASE CancelMove(c)
    <2>1. call'[c].pc \in {"idle", "cleaning"} /\ UNCHANGED steps
      BY <1>4 DEF CancelMove, Return, Idle, TypeOK, Call
    <2>2. \/ workflow'.status = "cancelled"
          \/ UNCHANGED workflow
      BY <1>4 DEF CancelMove, Moved, TypeOK
    <2>3. UNCHANGED workflow /\ AsTested => AsTested'
      BY <2>1 DEF AsTested, Made, Newest
    <2> QED BY <1>1, <2>1, <2>2, <2>3 DEF TestedInv, Judges, Recording, Counted
  <1> QED BY <1>2, <1>3, <1>4

LEMMA TestedOther ==
  ASSUME TypeOK, TypeOK', Placed, Kept, RowsSettled, TestedInv, NEW c \in Callers,
         \/ Plan(c) \/ (\E i \in Sid : Begin(c, i) \/ DirectRead(c, i)) \/ Refuse(c)
         \/ Acquire(c) \/ Consume(c) \/ StartWork(c) \/ BodyFails(c) \/ StartReview(c)
         \/ SavePatch(c) \/ RemovePatches(c) \/ Settle(c) \/ Finalize(c)
         \/ CancelRead(c) \/ CancelList(c) \/ CancelReview(c) \/ CancelStep(c) \/ CancelClean(c)
         \/ Direct(c) \/ LoseLease(c) \/ Drop(c) \/ Crash(c)
  PROVE  TestedInv'
  <1>a. call \in [Callers -> Call]
    BY DEF TypeOK
  <1>1. ASSUME UNCHANGED workflow, call'[c].pc \notin Recording,
               \A d \in Callers \ {c} : call'[d] = call[d]
        PROVE  TestedInv'
    BY <1>1, TestedCall DEF Recording, Counted
  <1>2. ASSUME UNCHANGED workflow, call[c].pc \in Recording,
               call'[c].pc \notin {"judged", "bump", "move"},
               \A d \in Callers \ {c} : call'[d] = call[d]
        PROVE  TestedInv'
    BY <1>2, TestedCall
  <1>3. ASSUME UNCHANGED workflow, Return(c)  PROVE TestedInv'
    BY <1>3, TestedReturn
  <1>4. ASSUME NEW pc, call' = [call EXCEPT ![c].pc = pc]
        PROVE  call'[c].pc = pc /\ \A d \in Callers \ {c} : call'[d] = call[d]
    BY <1>4 DEF TypeOK, Call
  <1>5. ASSUME UNCHANGED workflow, NEW pc, pc \notin Recording, call' = [call EXCEPT ![c].pc = pc]
        PROVE  TestedInv'
    BY <1>1, <1>4, <1>5
  <1>6. ASSUME UNCHANGED workflow, NEW pc, pc \notin {"judged", "bump", "move"},
               call[c].pc \in Recording, call' = [call EXCEPT ![c].pc = pc]
        PROVE  TestedInv'
    BY <1>2, <1>4, <1>6
  <1>7. CASE Plan(c)
    <2>1. ASSUME NEW s \in Kinds, PlanRead(c, s)  PROVE TestedInv'
      <3>1. /\ call'[c].pc \in {"superseding", "planning"}
            /\ \A d \in Callers \ {c} : call'[d] = call[d]
        BY <2>1, CalmRead
      <3> QED BY <1>1, <2>1, <3>1 DEF PlanRead, Recording, Counted
    <2>2. CASE Supersede(c)
      BY <1>5, <2>2 DEF Supersede, Recording, Counted
    <2>3. CASE PlanInsert(c)
      BY <1>3, <2>3 DEF PlanInsert
    <2> QED BY <1>7, <2>1, <2>2, <2>3 DEF Plan
  <1>8. ASSUME NEW i \in Sid, Begin(c, i)  PROVE TestedInv'
    <2>1. call'[c].pc = "checked" /\ \A d \in Callers \ {c} : call'[d] = call[d]
      BY <1>8 DEF Begin, TypeOK, Idle
    <2> QED BY <1>8, <2>1, TestedCall DEF Begin
  <1>9. CASE (\E i \in Sid : DirectRead(c, i)) \/ CancelRead(c)
    <2>1. call'[c].pc \in {"called", "stopping"} /\ \A d \in Callers \ {c} : call'[d] = call[d]
      BY <1>a, <1>9 DEF DirectRead, CancelRead, Idle
    <2> QED BY <1>1, <1>9, <2>1 DEF DirectRead, CancelRead, Recording, Counted
  <1>10. CASE \/ Refuse(c) \/ Acquire(c) \/ Consume(c) \/ BodyFails(c)
              \/ LoseLease(c) \/ Drop(c) \/ Crash(c)
    BY <1>3, <1>6, <1>10 DEF Refuse, Acquire, Consume, BodyFails, FailStep, LoseLease, Drop,
                             Crash, Recording, Counted
  <1>11. CASE StartWork(c) \/ StartReview(c) \/ Settle(c)
    BY <1>3, <1>6, <1>11 DEF StartWork, StartReview, Settle, Is, FailStep, Recording, Counted
  <1>12. CASE SavePatch(c) \/ RemovePatches(c)
    <2>1. call'[c].pc = "closing" /\ \A d \in Callers \ {c} : call'[d] = call[d]
      BY <1>12 DEF SavePatch, RemovePatches, TypeOK, Call
    <2> QED BY <1>2, <1>12, <2>1 DEF SavePatch, RemovePatches, Is, Recording, Counted
  <1>13. CASE Finalize(c)
    <2>1. CASE FailStep(c)
      BY <1>3, <1>13, <2>1 DEF FailStep, Finalize
    <2>2. CASE ~FailStep(c)
      <3>1. call'[c].pc = "finalized" /\ \A d \in Callers \ {c} : call'[d] = call[d]
        BY <1>13, <2>2 DEF Finalize, TypeOK, Call
      <3> QED BY <1>2, <1>13, <3>1 DEF Finalize, Is, Recording, Counted
    <2> QED BY <2>1, <2>2
  <1>14. CASE Direct(c)
    BY <1>3, <1>5, <1>14 DEF Direct, DirectAcquire, DirectStart, DirectRefuse, DirectRelease,
                             DirectSettle, Recording, Counted
  <1>15. CASE CancelList(c) \/ CancelReview(c)
    <2>1. call'[c].pc \in {"cancelling", "marking"} /\ \A d \in Callers \ {c} : call'[d] = call[d]
      <3>1. CASE CancelList(c)
        BY <3>1 DEF CancelList, TypeOK, Call
      <3>2. CASE CancelReview(c)
        BY <1>a, <3>2 DEF CancelReview, Call
      <3> QED BY <1>15, <3>1, <3>2
    <2> QED BY <1>1, <1>15, <2>1 DEF CancelList, CancelReview, Recording, Counted
  <1>16. CASE CancelStep(c) \/ CancelClean(c)
    <2>1. CASE Return(c)
      BY <1>3, <1>16, <2>1 DEF CancelStep, CancelClean
    <2>2. CASE ~Return(c)
      <3>1. call'[c].pc = "cancelling" /\ \A d \in Callers \ {c} : call'[d] = call[d]
        BY <1>16, <2>2 DEF CancelStep, CancelClean, TypeOK, Call
      <3> QED BY <1>1, <1>16, <3>1 DEF CancelStep, CancelClean, Recording, Counted
    <2> QED BY <2>1, <2>2
  <1> QED BY <1>7, <1>8, <1>9, <1>10, <1>11, <1>12, <1>13, <1>14, <1>15, <1>16

LEMMA TestedNext ==
  ASSUME OneAtATime, TypeOK, TypeOK', Placed, Drafted, EarnedInv, TestedInv, [Next]_vars
  PROVE  TestedInv'
  <1>1. Kept
    BY KeptNext
  <1>2. ASSUME NEW c \in Callers, Finishes(c)  PROVE TestedInv'
    BY <1>1, <1>2, TestedFinish
  <1>3. CASE \A c \in Callers : ~Finishes(c)
    <2>1. RowsSettled
      BY <1>3, SettledNext
    <2>2. ASSUME NEW c \in Callers, Run(c)  PROVE TestedInv'
      BY <1>1, <1>3, <2>1, <2>2, TestedOther, TestedJudge, TestedMove DEF Run, Finishes
    <2>3. ASSUME NEW c \in Callers, CancelRead(c) \/ Cancel(c)  PROVE TestedInv'
      BY <1>1, <2>1, <2>3, TestedOther, TestedMove DEF Cancel
    <2>4. ASSUME NEW c \in Callers,
                 \/ Plan(c) \/ (\E i \in Sid : Begin(c, i) \/ DirectRead(c, i)) \/ Refuse(c)
                 \/ Direct(c) \/ LoseLease(c) \/ Drop(c) \/ Crash(c)
          PROVE  TestedInv'
      BY <1>1, <2>1, <2>4, TestedOther
    <2>5. ASSUME \/ UNCHANGED vars \/ Status \/ (\E c \in Callers : Renew(c))
                 \/ \E i \in Sid : Expire(i) \/ DirectFinalize(i) \/ DirectCancel(i)
          PROVE  TestedInv'
      BY <1>1, <2>1, <2>5, TestedRows DEF vars, Status, Renew, Expire, DirectFinalize, DirectCancel
    <2> QED BY <2>2, <2>3, <2>4, <2>5 DEF Next
  <1> QED BY <1>2, <1>3

\* One call after the other, a workflow that holds a commit completes only on a passing
\* test of that very commit: through any number of rounds, with tests planned in one
\* round and run in another, steps that die with their process, stalled heartbeats,
\* cancels and the reviews' own tools.
THEOREM TestedAtTheEnd == OneAtATime => (Spec => []CompletedAsTested)
  <1> SUFFICES ASSUME OneAtATime  PROVE Spec => []CompletedAsTested
    OBVIOUS
  <1> DEFINE Inv == TypeOK /\ Placed /\ Drafted /\ EarnedInv /\ TestedInv
  <1>1. Init => Inv
    BY TypeInit, PlacedInit, DraftedInit, EarnedInit, TestedInit
  <1>2. Inv /\ [Next]_vars => Inv'
    BY TypeNext, PlacedNext, DraftedNext, EarnedNext, TestedNext
  <1>3. Inv => CompletedAsTested
    BY DEF TestedInv, AsTested, CompletedAsTested
  <1> QED BY <1>1, <1>2, <1>3, PTL DEF Spec
=============================================================================
