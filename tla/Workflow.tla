------------------------------ MODULE Workflow -------------------------------
(***************************************************************************)
(* One workflow and the calls made on it at the same time.                 *)
(*                                                                         *)
(* The state is the workflow's row in workflow_runs, its rows in           *)
(* workflow_steps, the status of the review each review step owns, the raw *)
(* patch files kept for recovery, and, for every call in flight (in this   *)
(* server process or in another one on the same database), where it is and *)
(* what it read.  Every action is one transaction of the store or one      *)
(* stretch of code between two awaits: what a call read earlier may be     *)
(* stale when it uses it.                                                  *)
(*                                                                         *)
(* A step's one-time token is outstanding exactly while its row is         *)
(* planned, and every caller presents the token it was shown.              *)
(***************************************************************************)
EXTENDS WorkflowContract, Integers, FiniteSets

CONSTANTS
    Callers,        \* calls that can be in flight at once, in any process
    NoCaller,       \* the NULL of lease_holder
    Kinds,          \* the kinds of step the host plans
    Bindings,       \* [Step -> SUBSET Executor], what a binding may say
    Commit,         \* commits of the user's repository
    Baseline,       \* the one the workflow started from
    NoCommit,       \* a NULL or empty commit
    max_fix_rounds, advance_on_failed_test,
    Stalls,         \* whether a live call may miss its heartbeats (suspend)
    Cancels,        \* whether the host ever cancels the workflow
    Doors,          \* whether it uses the review tools on the workflow's reviews
    MaxSteps,       \* bound: step rows planned
    MaxCrashes      \* bound: calls killed with their process

ASSUME CallersAssumption == NoCaller \notin Callers /\ IsFiniteSet(Callers)
ASSUME KindsAssumption == Kinds \subseteq Step
ASSUME BindingsAssumption ==
    /\ Bindings \in [Step -> SUBSET Executor]
    /\ \A s \in Step : Bindings[s] \subseteq executors[s]
ASSUME CommitAssumption == Baseline \in Commit /\ NoCommit \notin Commit
ASSUME PolicyAssumption ==
    /\ max_fix_rounds \in Nat \ {0}
    /\ advance_on_failed_test \in BOOLEAN
ASSUME FaultAssumption == {Stalls, Cancels, Doors} \subseteq BOOLEAN
ASSUME BoundAssumption == MaxSteps \in Nat /\ MaxCrashes \in Nat

VARIABLES
    workflow,   \* the workflow_runs row
    steps,      \* the workflow_steps rows, by sequence
    sequence,   \* the highest sequence given out
    patches,    \* steps whose raw patch has a recovery file
    call,       \* the calls in flight
    crashes     \* how many calls a process death has taken

vars == <<workflow, steps, sequence, patches, call, crashes>>

Sid == 1 .. MaxSteps

(***************************************************************************)
(* Rows.  `holder` and `expired` are the two lease columns, `review` the   *)
(* status of the review row the step owns, `inputs` the rows whose output  *)
(* the prompt hash is computed from, `report` and `commit` the recorded    *)
(* test report, `saved` is recovery_written.                               *)
(***************************************************************************)
StepRow == [step : Step, executor : Executor, round : Nat,
            status : StepStatus \cup {"absent"},
            holder : Callers \cup {NoCaller}, expired : BOOLEAN,
            review : ReviewStatus \cup {"none"}, inputs : SUBSET Sid,
            report : {"none", "passed", "failed"},
            commit : Commit \cup {NoCommit}, saved : BOOLEAN]

Blank == [step |-> "plan", executor |-> "host", round |-> 0, status |-> "absent",
          holder |-> NoCaller, expired |-> FALSE, review |-> "none", inputs |-> {},
          report |-> "none", commit |-> NoCommit, saved |-> FALSE]

PC == {"idle",
       "superseding", "planning",                          \* plan_step
       "checked", "leased", "consumed", "working", "closing", "failing",
       "finalized", "judged", "bump", "move",              \* run_step, record_host_step
       "stopping", "cancelling", "marking", "cleaning",    \* cancel
       "called", "lent", "asking", "settling"}             \* reviews.run, retry

(***************************************************************************)
(* What a call holds in its local variables: the row it works on, the row  *)
(* it is about to insert, the workflow as it read it before taking the     *)
(* lease, the steps it still has to cancel, and where it will move the     *)
(* workflow.                                                               *)
(***************************************************************************)
Call == [pc : PC, sid : Sid \cup {0}, draft : StepRow,
         fix_rounds : Nat, result_commit : Commit \cup {NoCommit},
         todo : SUBSET Sid, target : WorkflowState,
         gain : Commit \cup {NoCommit}, done : BOOLEAN]

Idle == [pc |-> "idle", sid |-> 0, draft |-> Blank, fix_rounds |-> 0,
         result_commit |-> NoCommit, todo |-> {}, target |-> "created",
         gain |-> NoCommit, done |-> FALSE]

\* The calls inside `lease`: a heartbeat renews the row they hold.
Leasing == {"leased", "consumed", "working", "closing", "failing", "finalized",
            "judged", "bump", "move", "lent", "asking"}

\* ... and those whose step is `running` and theirs to finish.
Owning == {"consumed", "working", "closing", "failing", "finalized", "judged"}

-----------------------------------------------------------------------------
(* Reading the rows. *)

Ended(w) == w.status \in TERMINAL_STATES

\* The lease is on the workflow: any row with an unexpired one holds it.
LiveLease(i) == steps[i].holder # NoCaller /\ ~steps[i].expired

Newest(S) == {i \in S : \A j \in S : j <= i}

\* _artifacts: a review step records no output of its own.
Made(a) == {i \in Sid : /\ steps[i].status = "done"
                        /\ steps[i].step # "review"
                        /\ output_artifact[steps[i].step] = a}

\* _review_id, whatever the status of the step that names the review.
ReviewOf == Newest({i \in Sid : steps[i].step = "review" /\ steps[i].review # "none"})

\* _step_inputs
Inputs(s) == (UNION {Newest(Made(a)) : a \in input_artifacts[s]})
             \cup (IF s \in {"fix", "synthesize"} THEN ReviewOf ELSE {})

TreeCommit(commit) == IF commit = NoCommit THEN Baseline ELSE commit

\* (mutant) the commit clause left out
LoopDoneAnyCommit(clear) ==
    clear /\ \E i \in Newest(Made("test_report")) : steps[i].report = "passed"

\* _loop_done over the test report; `clear` is its clause about the review.
LoopDone(clear) ==
    /\ clear
    /\ \E i \in Newest(Made("test_report")) :
          /\ steps[i].report = "passed"
          /\ \/ workflow.result_commit = NoCommit
             \/ steps[i].commit = workflow.result_commit

\* (mutant) the step's name for the state's
AfterTestStepName(report, rounds) ==
    IF report = "passed" \/ advance_on_failed_test THEN "reviewing"
    ELSE IF rounds >= max_fix_rounds THEN "needs_attention" ELSE "fix"

\* Where `_advance` leads after a test report.
AfterTest(report, rounds) ==
    IF report = "passed" \/ advance_on_failed_test THEN "reviewing"
    ELSE IF rounds >= max_fix_rounds THEN "needs_attention"
    ELSE "fixing"

\* (mutant) one round more than the cap
AfterSynthesisOffByOne(done, rounds) ==
    IF done THEN "completed"
    ELSE IF rounds > max_fix_rounds THEN "needs_attention" ELSE "fixing"

\* Where `_synthesize` leads.
AfterSynthesis(done, rounds) ==
    IF done THEN "completed"
    ELSE IF rounds >= max_fix_rounds THEN "needs_attention"
    ELSE "fixing"

-----------------------------------------------------------------------------
(* Store operations, as the rows they leave. *)

\* (mutant) lease_expires_at tested the wrong way round
ReapableUnleased(i) == steps[i].status = "running" /\ steps[i].holder = NoCaller

\* reap_abandoned
Reapable(i) == steps[i].status = "running" /\ steps[i].holder # NoCaller /\ steps[i].expired
Reaped == [i \in Sid |->
             IF Reapable(i)
             THEN [steps[i] EXCEPT !.status = "abandoned", !.holder = NoCaller,
                                   !.expired = FALSE]
             ELSE steps[i]]

\* finish_step, on a row that passed its guard
Closed(row, status) ==
    [row EXCEPT !.status = status, !.holder = NoCaller, !.expired = FALSE]

\* _release: by the holder's own token, so a row taken by another call stays as it is
Released(c, i) == IF steps[i].holder = c
                  THEN [steps[i] EXCEPT !.holder = NoCaller, !.expired = FALSE]
                  ELSE steps[i]

SetRow(i, row) == steps' = [steps EXCEPT ![i] = row]
Return(c) == call' = [call EXCEPT ![c] = Idle]

Init ==
    /\ workflow = [status |-> "created", fix_rounds |-> 0, result_commit |-> NoCommit]
    /\ steps = [i \in Sid |-> Blank]
    /\ sequence = 0
    /\ patches = {}
    /\ call = [c \in Callers |-> Idle]
    /\ crashes = 0

-----------------------------------------------------------------------------
(* plan_step: no lease is taken. *)

Planners == {c \in Callers : call[c].pc \in {"superseding", "planning"}}

PlanRead(c, s) ==
    /\ call[c].pc = "idle"
    /\ sequence + Cardinality(Planners) < MaxSteps
    /\ workflow.status \in runs_from[s]
    /\ \E e \in Bindings[s] :
          LET agentInputs == IF e = "agent" /\ s # "review" THEN Inputs(s) ELSE {}
          IN  call' = [call EXCEPT ![c] =
                 [Idle EXCEPT !.pc = IF s = "review" THEN "superseding" ELSE "planning",
                              !.draft = [Blank EXCEPT
                                  !.step = s, !.executor = e, !.status = "planned",
                                  !.round = workflow.fix_rounds,
                                  !.review = IF s = "review" THEN "pending" ELSE "none",
                                  !.inputs = agentInputs]]]
    /\ steps' = Reaped
    /\ UNCHANGED <<workflow, sequence, patches, crashes>>

\* supersede_planned_review_steps: this round's earlier, still pending previews
Supersede(c) ==
    /\ call[c].pc = "superseding"
    /\ steps' = [i \in Sid |->
          IF /\ steps[i].step = "review"
             /\ steps[i].round = call[c].draft.round
             /\ steps[i].status = "planned"
             /\ steps[i].review = "pending"
          THEN [steps[i] EXCEPT !.status = "cancelled", !.review = "none"]
          ELSE steps[i]]
    /\ call' = [call EXCEPT ![c].pc = "planning"]
    /\ UNCHANGED <<workflow, sequence, patches, crashes>>

PlanInsert(c) ==
    /\ call[c].pc = "planning"
    /\ sequence < MaxSteps
    /\ sequence' = sequence + 1
    /\ SetRow(sequence + 1, call[c].draft)
    /\ Return(c)
    /\ UNCHANGED <<workflow, patches, crashes>>

-----------------------------------------------------------------------------
(* run_step and record_host_step: read, lease, spend the token, work. *)

Begin(c, i) ==
    /\ call[c].pc = "idle"
    /\ ~Ended(workflow)
    /\ steps[i].status = "planned"
    /\ workflow.status \in runs_from[steps[i].step]
    /\ steps' = Reaped
    /\ call' = [call EXCEPT ![c] =
          [Idle EXCEPT !.pc = "checked", !.sid = i,
                       !.fix_rounds = workflow.fix_rounds,
                       !.result_commit = workflow.result_commit]]
    /\ UNCHANGED <<workflow, sequence, patches, crashes>>

\* (mutant) only a running row's lease counts
BusyWhileRunning == \E j \in Sid : LiveLease(j) /\ steps[j].status = "running"

Busy == \E j \in Sid : LiveLease(j)

\* _acquire; no exemption for the row itself
Acquire(c) ==
    /\ call[c].pc = "checked"
    /\ IF Busy
       THEN Return(c) /\ UNCHANGED steps
       ELSE LET i == call[c].sid
            IN  /\ SetRow(i, [steps[i] EXCEPT !.holder = c, !.expired = FALSE])
                /\ call' = [call EXCEPT ![c].pc = "leased"]
    /\ UNCHANGED <<workflow, sequence, patches, crashes>>

\* A spend ceiling refuses (or the call is dropped) before the token is spent.
Refuse(c) ==
    /\ call[c].pc = "leased"
    /\ SetRow(call[c].sid, Released(c, call[c].sid))
    /\ Return(c)
    /\ UNCHANGED <<workflow, sequence, patches, crashes>>

\* consume_step_token
Spendable(i) == steps[i].status = "planned" /\ ~Ended(workflow)
Consume(c) ==
    LET i == call[c].sid
    IN  /\ call[c].pc = "leased"
        /\ IF Spendable(i)
           THEN /\ SetRow(i, [steps[i] EXCEPT !.status = "running"])
                /\ call' = [call EXCEPT ![c].pc = "consumed"]
           ELSE SetRow(i, Released(c, i)) /\ Return(c)
        /\ UNCHANGED <<workflow, sequence, patches, crashes>>

\* finish_step "failed" by the call that owns the step, then out of `_finished`:
\* a step that is no longer running keeps the outcome somebody else gave it.
FailStep(c) ==
    LET i == call[c].sid
    IN  /\ steps' = IF steps[i].status = "running"
                    THEN [steps EXCEPT ![i] = Closed(steps[i], "failed")]
                    ELSE steps
        /\ Return(c)

\* (mutant) finish_step without `status = 'running'`
CloseStepUnguarded(c, row, pc, target, gain) ==
    /\ SetRow(call[c].sid, Closed(row, "done"))
    /\ call' = [call EXCEPT ![c].pc = pc, ![c].target = target, ![c].gain = gain]

\* (mutant) finish_step's refusal ignored
CloseStepHeedless(c, row, pc, target, gain) ==
    /\ steps' = IF steps[call[c].sid].status = "running"
                THEN [steps EXCEPT ![call[c].sid] = Closed(row, "done")] ELSE steps
    /\ call' = [call EXCEPT ![c].pc = pc, ![c].target = target, ![c].gain = gain]

\* finish_step "done" with `row`, then on to `pc`; refused if no longer running
CloseStep(c, row, pc, target, gain) ==
    LET i == call[c].sid
    IN  IF steps[i].status = "running"
        THEN /\ SetRow(i, Closed(row, "done"))
             /\ call' = [call EXCEPT ![c].pc = pc, ![c].target = target, ![c].gain = gain]
        ELSE UNCHANGED steps /\ Return(c)

Is(c, pc, kinds) == call[c].pc = pc /\ steps[call[c].sid].step \in kinds

\* The prompt is rebuilt from the artifacts and must be the one previewed.
StartWork(c) ==
    LET i == call[c].sid
    IN  /\ call[c].pc = "consumed"
        /\ steps[i].step # "review"
        /\ IF steps[i].executor = "agent" /\ Inputs(steps[i].step) # steps[i].inputs
           THEN FailStep(c)
           ELSE call' = [call EXCEPT ![c].pc = "working"] /\ UNCHANGED steps
        /\ UNCHANGED <<workflow, sequence, patches, crashes>>

\* (mutant) `_finished` left out
BodyFailsUnfinished(c) ==
    /\ call[c].pc \in Owning
    /\ SetRow(call[c].sid, Released(c, call[c].sid))
    /\ Return(c)
    /\ UNCHANGED <<workflow, sequence, patches, crashes>>

\* The exception or the refusal that gets out of the body, at any await in it.
BodyFails(c) ==
    /\ call[c].pc \in Owning
    /\ FailStep(c)
    /\ UNCHANGED <<workflow, sequence, patches, crashes>>

-----------------------------------------------------------------------------
(* What the kinds of step do. *)

FinishPlain(c) ==
    LET row == steps[call[c].sid]
    IN  /\ Is(c, "working", {"research", "plan", "author_execution_prompt"})
        /\ CloseStep(c, row, "move", on_success[row.step], NoCommit)
        /\ UNCHANGED <<workflow, sequence, patches, crashes>>

\* The host's own edit lands in the tree; it may name the commit.
FinishHostCode(c) ==
    LET row == steps[call[c].sid]
    IN  /\ Is(c, "working", {"implement", "fix"})
        /\ row.executor = "host"
        /\ \E k \in Commit \cup {NoCommit} : CloseStep(c, row, "move", "testing", k)
        /\ UNCHANGED <<workflow, sequence, patches, crashes>>

\* save_patch: the second copy, whose loss does not fail the step
SavePatch(c) ==
    LET i == call[c].sid
    IN  /\ Is(c, "working", {"implement", "fix"})
        /\ steps[i].executor = "agent"
        /\ \E saved \in BOOLEAN :
              /\ patches' = IF saved THEN patches \cup {i} ELSE patches
              /\ call' = [call EXCEPT ![c].pc = "closing", ![c].done = saved]
        /\ UNCHANGED <<workflow, steps, sequence, crashes>>

FinishPatch(c) ==
    LET row == steps[call[c].sid]
    IN  /\ Is(c, "closing", {"implement", "fix"})
        /\ CloseStep(c, [row EXCEPT !.saved = call[c].done],
                     "move", "awaiting_host_apply", NoCommit)
        /\ UNCHANGED <<workflow, sequence, patches, crashes>>

\* apply_patch is evidence only with a commit that was not there before; the
\* recovery files go before the step is recorded.
RemovePatches(c) ==
    /\ Is(c, "working", {"apply_patch"})
    /\ \E k \in Commit \ {TreeCommit(call[c].result_commit)} :
          call' = [call EXCEPT ![c].pc = "closing", ![c].gain = k]
    /\ patches' = {}
    /\ UNCHANGED <<workflow, steps, sequence, crashes>>

FinishApply(c) ==
    LET row == steps[call[c].sid]
    IN  /\ Is(c, "closing", {"apply_patch"})
        /\ CloseStep(c, row, "move", on_success.apply_patch, call[c].gain)
        /\ UNCHANGED <<workflow, sequence, patches, crashes>>

FinishTest(c) ==
    LET row == steps[call[c].sid]
    IN  /\ Is(c, "working", {"test"})
        /\ \E report \in {"passed", "failed"} :
              LET target == AfterTest(report, call[c].fix_rounds)
                  tested == [row EXCEPT !.report = report,
                                        !.commit = TreeCommit(call[c].result_commit)]
              IN  CloseStep(c, tested, IF target = "fixing" THEN "bump" ELSE "move",
                            target, NoCommit)
        /\ UNCHANGED <<workflow, sequence, patches, crashes>>

\* reviews.run: spends the review's half of the token
StartReview(c) ==
    LET i == call[c].sid
    IN  /\ Is(c, "consumed", {"review"})
        /\ IF steps[i].review = "pending"
           THEN /\ SetRow(i, [steps[i] EXCEPT !.review = "running"])
                /\ call' = [call EXCEPT ![c].pc = "working"]
           ELSE FailStep(c)
        /\ UNCHANGED <<workflow, sequence, patches, crashes>>

\* The batch is in: `_settle` from `running` only, so a cancelled review stays so;
\* `_batch` that raised marks the review failed the same way.
Settle(c) ==
    LET i == call[c].sid
    IN  /\ Is(c, "working", {"review"})
        /\ \E r \in {"awaiting_synthesis", "failed"} :
              SetRow(i, [steps[i] EXCEPT !.review = IF @ = "running" THEN r ELSE @])
        /\ \E pc \in {"closing", "failing"} :
              /\ pc = "failing" => steps'[i].review # "awaiting_synthesis"
              /\ call' = [call EXCEPT ![c].pc = pc]
        /\ UNCHANGED <<workflow, sequence, patches, crashes>>

\* A review that came back without an error envelope is a step done.
FinishReview(c) ==
    LET row == steps[call[c].sid]
    IN  /\ Is(c, "closing", {"review"})
        /\ CloseStep(c, row, "move", on_success.review, NoCommit)
        /\ UNCHANGED <<workflow, sequence, patches, crashes>>

\* reviews.finalize, through complete_review's own guard
Finalize(c) ==
    /\ Is(c, "working", {"synthesize"})
    /\ \E r \in ReviewOf :
          IF steps[r].review = "awaiting_synthesis"
          THEN /\ SetRow(r, [steps[r] EXCEPT !.review = "complete"])
               /\ \E clear \in BOOLEAN :
                     call' = [call EXCEPT ![c].pc = "finalized", ![c].done = clear]
          ELSE FailStep(c)
    /\ UNCHANGED <<workflow, sequence, patches, crashes>>

\* The workflow and the steps are read again, after the review is complete.
Judge(c) ==
    /\ call[c].pc = "finalized"
    /\ call' = [call EXCEPT ![c].pc = "judged", ![c].done = LoopDone(call[c].done)]
    /\ UNCHANGED <<workflow, steps, sequence, patches, crashes>>

FinishSynthesis(c) ==
    LET row    == steps[call[c].sid]
        target == AfterSynthesis(call[c].done, call[c].fix_rounds)
    IN  /\ call[c].pc = "judged"
        /\ CloseStep(c, row, IF target = "fixing" THEN "bump" ELSE "move", target, NoCommit)
        /\ UNCHANGED <<workflow, sequence, patches, crashes>>

-----------------------------------------------------------------------------
(* The move that follows a step's success: the row is closed and its lease    *)
(* cleared, the workflow has not moved yet.                                   *)

Bump(c) ==
    /\ call[c].pc = "bump"
    /\ workflow' = [workflow EXCEPT !.fix_rounds = @ + 1]
    /\ call' = [call EXCEPT ![c].pc = "move"]
    /\ UNCHANGED <<steps, sequence, patches, crashes>>

\* (mutant) transition without `status IN (...)`
MovableFromAnywhere(allowed_from) == TRUE

\* transition
Movable(allowed_from) == workflow.status \in allowed_from
Moved(target, gain) ==
    [workflow EXCEPT !.status = target,
                     !.result_commit = IF gain = NoCommit THEN @ ELSE gain]

Move(c) ==
    /\ call[c].pc = "move"
    /\ workflow' = IF Movable(runs_from[steps[call[c].sid].step])
                   THEN Moved(call[c].target, call[c].gain)
                   ELSE workflow
    /\ Return(c)
    /\ UNCHANGED <<steps, sequence, patches, crashes>>

-----------------------------------------------------------------------------
(* cancel: takes no lease. *)

CancelRead(c) ==
    /\ Cancels
    /\ call[c].pc = "idle"
    /\ ~Ended(workflow)
    /\ call' = [call EXCEPT ![c] = [Idle EXCEPT !.pc = "stopping"]]
    /\ UNCHANGED <<workflow, steps, sequence, patches, crashes>>

CancelList(c) ==
    /\ call[c].pc = "stopping"
    /\ call' = [call EXCEPT ![c].pc = "cancelling",
                            ![c].todo = {i \in Sid : steps[i].status = "running"}]
    /\ UNCHANGED <<workflow, steps, sequence, patches, crashes>>

CANCELLABLE == {"pending", "running", "awaiting_synthesis", "failed"}

First(S) == {i \in S : \A j \in S : i <= j}

\* reviews.cancel, for a step that has a review; its refusal is ignored
CancelReview(c) ==
    /\ call[c].pc = "cancelling"
    /\ \E i \in First(call[c].todo) :
          /\ SetRow(i, [steps[i] EXCEPT !.review =
                          IF @ \in CANCELLABLE THEN "cancelled" ELSE @])
          /\ call' = [call EXCEPT ![c].pc = "marking", ![c].sid = i]
    /\ UNCHANGED <<workflow, sequence, patches, crashes>>

\* finish_step "cancelled"; a step no longer running ends the call with an error
CancelStep(c) ==
    LET i == call[c].sid
    IN  /\ call[c].pc = "marking"
        /\ IF steps[i].status = "running"
           THEN /\ SetRow(i, Closed(steps[i], "cancelled"))
                /\ call' = [call EXCEPT ![c].pc = "cancelling", ![c].todo = @ \ {i}]
           ELSE UNCHANGED steps /\ Return(c)
        /\ UNCHANGED <<workflow, sequence, patches, crashes>>

CancelMove(c) ==
    /\ call[c].pc = "cancelling"
    /\ call[c].todo = {}
    /\ IF Movable(WorkflowState \ TERMINAL_STATES)
       THEN /\ workflow' = Moved("cancelled", NoCommit)
            /\ call' = [call EXCEPT ![c].pc = "cleaning"]
       ELSE UNCHANGED workflow /\ Return(c)
    /\ UNCHANGED <<steps, sequence, patches, crashes>>

CancelClean(c) ==
    /\ call[c].pc = "cleaning"
    /\ patches' = {}
    /\ Return(c)
    /\ UNCHANGED <<workflow, steps, sequence, crashes>>

-----------------------------------------------------------------------------
(* The other door: the review tools, called on a review that a step owns.  A  *)
(* step's token is its review's, and the review carries the step's id.        *)

DirectRead(c, i) ==
    /\ Doors
    /\ call[c].pc = "idle"
    /\ steps[i].review # "none"
    /\ call' = [call EXCEPT ![c] = [Idle EXCEPT !.pc = "called", !.sid = i]]
    /\ UNCHANGED <<workflow, steps, sequence, patches, crashes>>

\* _workflow_serialized: the lease columns of the step's row, whatever its status
DirectAcquire(c) ==
    LET i == call[c].sid
    IN  /\ call[c].pc = "called"
        /\ IF Busy
           THEN Return(c) /\ UNCHANGED steps
           ELSE /\ SetRow(i, [steps[i] EXCEPT !.holder = c, !.expired = FALSE])
                /\ call' = [call EXCEPT ![c].pc = "lent"]
        /\ UNCHANGED <<workflow, sequence, patches, crashes>>

\* run (from pending) or retry (from RETRYABLE)
DirectStart(c) ==
    LET i == call[c].sid
    IN  /\ call[c].pc = "lent"
        /\ steps[i].review \in {"pending", "failed", "awaiting_synthesis"}
        /\ SetRow(i, [steps[i] EXCEPT !.review = "running"])
        /\ call' = [call EXCEPT ![c].pc = "asking"]
        /\ UNCHANGED <<workflow, sequence, patches, crashes>>

\* Refused (a ceiling, a spent token, a review in no such state) or dropped.
DirectRefuse(c) ==
    /\ call[c].pc = "lent"
    /\ SetRow(call[c].sid, Released(c, call[c].sid))
    /\ Return(c)
    /\ UNCHANGED <<workflow, sequence, patches, crashes>>

\* The batch is over and the lease goes, before `_settle`; or it raised, which marks
\* the review failed, or was dropped, which leaves it as it is.
DirectRelease(c) ==
    LET i    == call[c].sid
        freed == Released(c, i)
    IN  /\ call[c].pc = "asking"
        /\ \/ SetRow(i, freed) /\ call' = [call EXCEPT ![c].pc = "settling"]
           \/ /\ \E r \in {"running", "failed"} :
                   SetRow(i, [freed EXCEPT !.review = IF @ = "running" THEN r ELSE @])
              /\ Return(c)
        /\ UNCHANGED <<workflow, sequence, patches, crashes>>

\* (mutant) `_settle` from any state
DirectSettleUnguarded(c) ==
    /\ call[c].pc = "settling"
    /\ \E r \in {"awaiting_synthesis", "failed"} :
          SetRow(call[c].sid, [steps[call[c].sid] EXCEPT !.review = r])
    /\ Return(c)
    /\ UNCHANGED <<workflow, sequence, patches, crashes>>

DirectSettle(c) ==
    LET i == call[c].sid
    IN  /\ call[c].pc = "settling"
        /\ \E r \in {"awaiting_synthesis", "failed"} :
              SetRow(i, [steps[i] EXCEPT !.review = IF @ = "running" THEN r ELSE @])
        /\ Return(c)
        /\ UNCHANGED <<workflow, sequence, patches, crashes>>

\* reviews.finalize and reviews.cancel: one guarded transition each
DirectFinalize(i) ==
    /\ Doors
    /\ steps[i].review = "awaiting_synthesis"
    /\ SetRow(i, [steps[i] EXCEPT !.review = "complete"])
    /\ UNCHANGED <<workflow, sequence, patches, call, crashes>>

DirectCancel(i) ==
    /\ Doors
    /\ steps[i].review \in CANCELLABLE
    /\ SetRow(i, [steps[i] EXCEPT !.review = "cancelled"])
    /\ UNCHANGED <<workflow, sequence, patches, call, crashes>>

-----------------------------------------------------------------------------
(* Time, processes and their failures. *)

\* status (and every call that starts with `_live`) reaps what died.
Status ==
    /\ \E i \in Sid : Reapable(i)
    /\ steps' = Reaped
    /\ UNCHANGED <<workflow, sequence, patches, call, crashes>>

\* The call still renewing the lease on row i, if there is one.
Renewing(i) == \E c \in Callers : /\ steps[i].holder = c
                                  /\ call[c].pc \in Leasing
                                  /\ call[c].sid = i

\* A call that has read row i as planned and is on its way to its lease.
Arriving(i) == \E c \in Callers : call[c].pc = "checked" /\ call[c].sid = i

\* The lease runs out: its call is gone, or missed every heartbeat.  Unless calls
\* stall, none takes as long as a lease to get from its read to `_acquire`.
Expire(i) ==
    /\ LiveLease(i)
    /\ Stalls \/ (~Renewing(i) /\ ~Arriving(i))
    /\ SetRow(i, [steps[i] EXCEPT !.expired = TRUE])
    /\ UNCHANGED <<workflow, sequence, patches, call, crashes>>

\* _renew matches the holder's token even after the lease ran out.
Renew(c) ==
    LET i == call[c].sid
    IN  /\ call[c].pc \in Leasing
        /\ steps[i].holder = c
        /\ steps[i].expired
        /\ SetRow(i, [steps[i] EXCEPT !.expired = FALSE])
        /\ UNCHANGED <<workflow, sequence, patches, call, crashes>>

\* ... and finds its row held by another call, or running and held by nobody: the
\* heartbeat cancels the call that owned it.
LoseLease(c) ==
    LET i == call[c].sid
    IN  /\ call[c].pc \in Leasing
        /\ steps[i].holder # c
        /\ steps[i].status = "running" \/ steps[i].holder # NoCaller
        /\ IF call[c].pc \in Owning THEN FailStep(c) ELSE Return(c) /\ UNCHANGED steps
        /\ UNCHANGED <<workflow, sequence, patches, crashes>>

\* The host drops its request, or the server stops it, between two awaits.
Drop(c) ==
    /\ call[c].pc \in {"superseding", "planning", "checked", "bump", "move",
                       "stopping", "cancelling", "marking", "cleaning",
                       "called", "settling"}
    /\ Return(c)
    /\ UNCHANGED <<workflow, steps, sequence, patches, crashes>>

\* The process dies: nothing is released, nothing is finished.
Crash(c) ==
    /\ call[c].pc # "idle"
    /\ crashes < MaxCrashes
    /\ crashes' = crashes + 1
    /\ Return(c)
    /\ UNCHANGED <<workflow, steps, sequence, patches>>

-----------------------------------------------------------------------------
Plan(c) == (\E s \in Kinds : PlanRead(c, s)) \/ Supersede(c) \/ PlanInsert(c)

Run(c) == \/ Acquire(c) \/ Consume(c) \/ StartWork(c) \/ BodyFails(c)
          \/ FinishPlain(c) \/ FinishHostCode(c) \/ SavePatch(c) \/ FinishPatch(c)
          \/ RemovePatches(c) \/ FinishApply(c) \/ FinishTest(c)
          \/ StartReview(c) \/ Settle(c) \/ FinishReview(c)
          \/ Finalize(c) \/ Judge(c) \/ FinishSynthesis(c) \/ Bump(c) \/ Move(c)

Cancel(c) == \/ CancelList(c) \/ CancelReview(c) \/ CancelStep(c)
             \/ CancelMove(c) \/ CancelClean(c)

Direct(c) == \/ DirectAcquire(c) \/ DirectStart(c) \/ DirectRefuse(c)
             \/ DirectRelease(c) \/ DirectSettle(c)

Next == \/ \E c \in Callers :
              \/ Plan(c) \/ (\E i \in Sid : Begin(c, i)) \/ Refuse(c) \/ Run(c)
              \/ CancelRead(c) \/ Cancel(c)
              \/ (\E i \in Sid : DirectRead(c, i)) \/ Direct(c)
              \/ Renew(c) \/ LoseLease(c) \/ Drop(c) \/ Crash(c)
        \/ \E i \in Sid : Expire(i) \/ DirectFinalize(i) \/ DirectCancel(i)
        \/ Status

Spec == Init /\ [][Next]_vars

(***************************************************************************)
(* A call that has started goes on (a step's body has a timeout), the      *)
(* clock passes the expiry of a lease nobody renews, and the host asks for *)
(* the status of its workflow again and again.                             *)
(***************************************************************************)
Fairness == /\ \A c \in Callers : WF_vars(Supersede(c) \/ PlanInsert(c) \/ Run(c) \/ Cancel(c) \/ Direct(c))
            /\ \A i \in Sid : WF_vars(Expire(i))
            /\ WF_vars(Status)

FairSpec == Spec /\ Fairness

-----------------------------------------------------------------------------
TypeOK ==
    /\ workflow \in [status : WorkflowState, fix_rounds : Nat,
                     result_commit : Commit \cup {NoCommit}]
    /\ steps \in [Sid -> StepRow]
    /\ sequence \in 0 .. MaxSteps
    /\ patches \subseteq Sid
    /\ call \in [Callers -> Call]
    /\ crashes \in 0 .. MaxCrashes

(***************************************************************************)
(* Safety.                                                                 *)
(***************************************************************************)

\* "Hold the right to run one workflow's next step": while heartbeats arrive, two
\* rows of the workflow never carry an unexpired lease at once, whatever calls come
\* together, die holding it, or come back for a row somebody else took.
\* (store.py lease, _acquire, _release)
LeaseIsExclusive ==
    \A i, j \in Sid : LiveLease(i) /\ LiveLease(j) => i = j

\* "Leave no `running` row behind": a running step is held by the call that runs it,
\* or by a lease that will run out, which is all reap_abandoned can match.
\* (service.py _finished, store.py finish_step, reap_abandoned, _release)
RunningIsHeld ==
    \A i \in Sid : steps[i].status = "running" =>
        /\ steps[i].holder # NoCaller
        /\ \A c \in Callers :
              call[c].pc \in Owning /\ call[c].sid = i => steps[i].holder = c

DoneStep(kinds) == {i \in Sid : steps[i].step \in kinds /\ steps[i].status = "done"}

\* The steps that lead to `state` are recorded.
Earned(state) ==
    /\ state = "prompt_ready" => DoneStep({"plan"}) # {}
    /\ state = "awaiting_host_apply" =>
          \E i \in DoneStep({"implement", "fix"}) : steps[i].executor = "agent"
    /\ state = "testing" => DoneStep({"implement", "fix", "apply_patch"}) # {}
    /\ state = "reviewing" => DoneStep({"test"}) # {}
    /\ state = "synthesizing" => DoneStep({"review"}) # {}
    /\ state = "completed" =>
          /\ DoneStep({"synthesize"}) # {}
          /\ \E i \in DoneStep({"test"}) : steps[i].report = "passed"
          /\ \E i \in Sid : steps[i].review = "complete"

\* A workflow's state is earned: it stands where it stands because a step that leads
\* there is recorded as done, and `completed` rests on a finalized review and a
\* passing test report.  A result refused by finish_step moves nothing.
\* (service.py _advance, _synthesize, _loop_done)
StateIsEarned == Earned(workflow.status)

\* "The only thing standing between a non-converging review loop and an unbounded
\* number of paid rounds": a call judges the cap by the count it read before its step
\* and counts after it, so the cap is passed only by calls that read the count
\* together, one round each; by one call after the other it never is, whatever
\* crashes between counting a round and starting it.
\* (service.py _advance, _synthesize; store.py bump_fix_rounds)
RoundsWithinCap == workflow.fix_rounds < max_fix_rounds + Cardinality(Callers)

\* "Stops a stale pass from carrying a later round": once the host names commits, a
\* workflow whose calls come one after the other completes only on a test report of
\* the very commit it holds, even when a test planned in an earlier round is run in a
\* later one, or a step dies and is run again.  (service.py _loop_done)
CompletedAsTested ==
    workflow.status = "completed" /\ workflow.result_commit # NoCommit =>
        \A i \in Newest(Made("test_report")) :
            /\ steps[i].report = "passed"
            /\ steps[i].commit = workflow.result_commit

\* "A step that dies mid-run leaves the workflow where it was and the answer is to
\* plan that step again": a workflow left in `synthesizing` with nothing running has
\* a review that a new synthesis can finalize, or one whose reviewers can be asked
\* again for it.  (store.py, module docstring)
SynthesisCanBeRetried ==
    /\ workflow.status = "synthesizing"
    /\ \A c \in Callers : call[c].pc = "idle"
    /\ \A i \in Sid : steps[i].status # "running"
    => \E r \in ReviewOf : steps[r].review \in {"awaiting_synthesis", "failed"}

(***************************************************************************)
(* What a step may never do.                                               *)
(***************************************************************************)

\* A step's outcome stands: once it is done, failed, abandoned or cancelled, a late
\* writer changes neither that nor what was recorded with it.
\* (store.py finish_step: "the late write would resurrect it as `done`")
OutcomeStands ==
    [][\A i \in Sid : steps[i].status \in Finished =>
          /\ steps'[i].status = steps[i].status
          /\ steps'[i].report = steps[i].report
          /\ steps'[i].commit = steps[i].commit]_vars

\* A workflow that ended stays ended as it did, whichever calls were still in flight.
\* (store.py transition)
EndStands ==
    [][Ended(workflow) => /\ workflow'.status = workflow.status
                          /\ workflow'.result_commit = workflow.result_commit]_vars

\* A review that was finalized or cancelled stays so: no late batch, retry or cancel
\* of another call takes the verdict back.  (review/store.py transition,
\* complete_review; review/service.py _settle, _retry, _cancel)
ReviewVerdictStands ==
    [][\A i \in Sid : steps[i].review \in {"complete", "cancelled"} =>
          steps'[i].review = steps[i].review]_vars

\* A step starts only in a state it runs from: "without this it would run, be paid
\* for, and record an artifact for a state the workflow has left".
\* (service.py _step_of; store.py consume_step_token)
StartsWhereItRuns ==
    [][\A i \in Sid : steps[i].status = "planned" /\ steps'[i].status = "running" =>
          workflow.status \in runs_from[steps[i].step]]_vars

(***************************************************************************)
(* Liveness.                                                               *)
(***************************************************************************)

\* No step is `running` forever: it finishes, is cancelled, or its lease runs out
\* and a status call marks it abandoned.  (store.py reap_abandoned)
RunningResolves ==
    \A i \in Sid : steps[i].status = "running" ~> steps[i].status # "running"
===============================================================================
