# A TLA+ model of orchestrator-mcp

orchestrator-mcp is an MCP server that lets a coding host consult, review with and
delegate to other vendors' agent CLIs, and that drives a change through a *workflow* of
such steps. Its state is one SQLite database that several server processes share; its
work is done by asyncio calls that spawn paid subprocesses. The questions worth a model
are the ones about calls that overlap, die, come back late or are refused half-way.

## 1. Inventory

Paths are under `src/orchestrator_mcp/`.

| component | source | state it keeps | operations | what makes it correct |
|---|---|---|---|---|
| workflow | `workflow/service.py`, `workflow/store.py`, `workflow/contract.py`, `workflow/routing.py` | `workflow_runs` (status, `fix_rounds`, `result_commit`, bindings, a staged replan), `workflow_steps` (status, token hash, lease columns, output) | create, plan_step, run_step, record_host_step, plan_replan/replan, status, cancel, delete | one step at a time; a token starts one step; outcomes stand; the state is earned by recorded steps; rounds are bounded; a dead runner does not wedge it; a routing is adopted as it was approved |
| review | `review/service.py`, `review/store.py`, `review/contract.py` | `reviews` (status, outcome, summary), `review_consultations`, `review_leases`, `fix_rounds_json`; in memory `_tasks`, `_batch_done` | plan, run, retry, finalize, cancel, record fix rounds, delete | a cancel or a synthesis stands against late reviewers; a cancel waits for the reviewers; nothing a reviewer said or cost is lost; an outcome is earned |
| consultation | `consult/service.py`, `consult/store.py` | `consultations` (native session), `consultation_turns`, `consultation_leases`, deletion confirmations | consult, consult_review, consult_step (bind, lease, turn, record), delete, retention sweep | turns are serial and numbered; one native session per consultation; a ceiling is a ceiling; deletes take everything, and nothing in use |
| renewable lease | `consult/store.py` (`_renewing_lease`, `_keep_lease_alive`) | a heartbeat task, three events, the owner's cancellation count | enter, renew, lose, leave | always released; losing it interrupts the body; an outside cancellation is never swallowed |
| contained runs | `code/service.py` | worktrees, recovery patches | run, save_patch, remove, sweep | what an answered run changed is somewhere until it is recorded |
| subprocesses | `consult/adapters/base.py` | a process group, its pipes, a deadline | spawn, read, terminate | no CLI outlives its call |
| vendors' streams | `consult/adapters/*_cli.py`, `code/adapters/*` | none | read a CLI's events as a turn, count its tokens | a cut stream is no answer; an unreadable count is no nought |
| sandbox | `code/sandbox.py`, `code/registry.py` | cached verdicts | confine, probe, decide who may write | a worker writes only behind bounds that were measured |
| agents file | `consult/dashboard.py`, `consult/managed.py`, `consult/config.py` | the managed agents file, next to `config.yaml` | save, delete, choose reviewers | no save undoes another; the server can start on what is written |
| workflow identity, review diff, spend, estimate | `workflow/identity.py`, `review/diff.py`, `spend.py`, `estimate.py` | none | canonical forms, diffs, sums | they compute what their definitions say |
| server, CLI, reports, prompts, helpers | `server.py`, `cli.py`, `commands.py`, `reports.py`, `*/prompts.py`, `files.py`, `log.py`, ... | none of their own | forward, render, format | text |

**How they interact.** The server's tools call the three services. A workflow step calls
`ReviewService.run`/`finalize`, `ConsultService` or `run_contained` inside the workflow's
lease; a context variable (`LEASE_HELD`) tells the callee that the lease is held. A review
owned by a step can also be called directly, through its own tools: then
`_workflow_serialized` takes the *step row's* lease columns. A reviewer's turn is a turn on
a consultation the review owns. Everything else is shared through the database: there is no
lock but SQLite's, so each store method is one transaction and every `await` is a place
where another call or process runs. The dashboard is a process of its own, with a thread per
request.

**What is hard.** Calls that read, wait and then act; a lease that is a timestamp with a
heartbeat; a cancel that takes no lease; four parties that cancel one asyncio task; a process
that dies between two transactions; results that arrive after the row was reaped, cancelled,
deleted or finalized; counters compared in one statement and raised in another.
`PROJECT.json` lists each at its line, under `hazards`.

## 2. Modules

| module | what it is |
|---|---|
| `WorkflowContract` | the constant tables of `workflow/contract.py`: states, steps, `runs_from`, `on_success`, artifacts, executors |
| `Workflow`, `MCWorkflow` | one workflow and the calls in flight on it, with its steps' reviews through both doors |
| `Replan`, `MCReplan` | the routing of a workflow, the handshake that changes it, and the steps planned and run meanwhile |
| `Review` | a review of its own: batches of reviewers in several processes, cancel, synthesis, fix rounds, delete |
| `ReviewFindings`, `MCReview` | what reviewers' answers become: findings, summary, recheck verdicts |
| `ConsultStore` | the tables of consultations, their leases, owners and confirmations, and each store method as an operator |
| `Conversation` | the abstract specification of a consultation: a log of numbered turns, one speaker at a time |
| `Consult`, `MCConsult` | the calls that take a turn, over `ConsultStore`; implements `Conversation` |
| `ContainedRun` | one contained run: lease, heartbeat, process group, worktree and recovery copy, down to asyncio's accounting of cancellations |
| `Sandbox`, `AgentTurn`, `MCContainedRun` | the sandbox verdict a contained run starts behind, and the reading of what its CLI prints |
| `AgentsFile`, `MCAgentsFile` | the dashboard's edits of the managed file, against hand edits and restarts |
| `WorkflowProofs`, `WorkflowStateProofs`, `ReplanProofs`, `ReviewProofs`, `ConsultProofs`, `ConsultTalkProofs`, `ContainedRunProofs`, `AgentsFileProofs` | the theorems |

`Consult` extends `ConsultStore` and instantiates `Conversation`; `MCReview` puts `Review`
beside `ReviewFindings`, `MCContainedRun` puts `ContainedRun` beside `Sandbox` and
`AgentTurn`. Everywhere, one action is one transaction, or one stretch of code between two
awaits that touches the database once; `call[c]` (or `task`, `thread[t]`) is one call of a
tool, whose `pc` says between which two awaits it is and whose other fields are the local
variables it carries across them. Operators marked `(mutant)` stand beside the definition
they would break: they are the plausible bugs the properties are tried against.

### Workflow

`workflow` is the `workflow_runs` row, `steps` the `workflow_steps` rows by sequence (with
the status of the review the step owns in the same record), `sequence` the highest sequence
number, `patches` the recovery files of raw patches.

| code | actions |
|---|---|
| `_plan_step`, `supersede_planned_review_steps`, `store.plan_step` | `PlanRead`, `Supersede`, `PlanInsert` |
| `_live`, `_step_of` | `Begin` (with the reap `_live` does) |
| `store.lease`, `_acquire`, `_within_ceiling`, `consume_step_token` | `Acquire`, `Refuse`, `Consume` |
| `_planned_prompt`, `_run_step`, `_run_contained`, `_run_contained_test`, `_record_host_step` | `StartWork`, `FinishPlain`, `FinishHostCode`, `SavePatch`, `FinishPatch`, `RemovePatches`, `FinishApply`, `FinishTest` |
| `_run_review`, `ReviewService.run`, `_batch`, `_settle` | `StartReview`, `Settle`, `FinishReview` |
| `_synthesize`, `reviews.finalize`, `_loop_done` | `Finalize`, `Judge`, `FinishSynthesis` |
| `_finished`, `finish_step` | `BodyFails` (`FailStep`), `CloseStep` |
| `_advance`, `bump_fix_rounds`, `transition` | `AfterTest`, `AfterSynthesis`, `Bump`, `Move` |
| `cancel` | `CancelRead`, `CancelList`, `CancelReview`, `CancelStep`, `CancelMove`, `CancelClean` |
| `reviews.run`, `retry`, `finalize`, `cancel` on a step's review | `DirectRead` ... `DirectSettle`, `DirectFinalize`, `DirectCancel` |
| `status`, `reap_abandoned` | `Status` |
| the clock, `_keep_lease_alive` | `Expire`, `Renew`, `LoseLease` |
| a dropped request, a dead process | `Drop`, `Crash` |

Where the code reads twice in a row with nothing of its own between, the reads are one
action. A token is outstanding exactly while its row is `planned`; the prompt hash is the
set of rows whose output the prompt is built from; a test report is `passed` or `failed`
(`timeout` and `skipped` are treated by the code like `failed`); a step's binding is a free
choice in `Bindings`; `cancel` waiting for a running batch is the delay between
`CancelReview` and `CancelStep`; an exception or cancellation can leave the body at any await
while the step is running (`BodyFails`).

### Replan

A binding is the set of agents (as execution identities) a step goes to, empty for the host.
`plan_replan` is `PlanReplan` (it reads the workflow) and `StageReplan` (it parks the copy
behind a new token); `replan` is `Replan` (it reads what is staged, to hash it) and
`ConsumeReplan` (it adopts what is staged by then, where the token is the staged one's).
`previews` remembers what each token's preview showed. `PlanStep`, `Supersede` and
`InsertStep` are `_plan_step`, with the exclusion `review_policy` asks for at that moment; `RunStep`,
`HostStep` and `CancelWorkflow` move the workflow as `Workflow` does in detail.

### Review

| code | actions |
|---|---|
| `run`, `retry` up to their lease | `Run`, `Retry`, `Refuse`, `MarkRunning`, `Enter` (the marker), `Acquire`, `RefuseLease` |
| `consume_token`, and the two looks at the status | `Consume`, `FirstLook`, `SecondLook` |
| `_batch`: ceiling, tasks, one reviewer, its end | `Reserve`, `Start`, `Ask`, `Record`, `TaskDies`, `Gathered`, `Fail`, `Leave` |
| `_settle` | `Settle` |
| `cancel` and what it waits for | `Cancel`, `CancelLook`, `CancelJoin` |
| `finalize`, `record_fix_round` | `Finalize`, `Complete`, `Fix`, `AppendFixRound` |
| `delete`, the pruning of old plans | `Delete`, `Forget` |
| a dropped request, a dead process, the clock | `Drop`, `Crash`, `Expire` |

A reviewer's consultation is only whether it was created (`made`) and is linked from its row.
`marker` and `tasks` are the in-memory `_batch_done` and `_tasks`, one per process, because a
cancel sees only those of its own. `ReviewFindings` models `_parse_findings`, the second ask,
`missing_serious`, `_finalize`'s checks and `finding_status` as operators over sets of
answers; a reviewer's answer is a list of blocks, a block a list of severities or broken.

### Consultations

`ConsultStore` has the rows (`consultations` with owner, session, turns, staleness; `leases`;
`owner`, the review or workflow it belongs to; `confirmation`; `sweep`) and one operator per
store method. In `Consult`, a call binds through one of the three doors (`BindNew`,
`BindResume`, `BindOwned` and `CreateOwned`), takes the lease (`Lease`, or `Refused`), looks at the
ceiling (`Admit`), reads the next sequence number (`Number`), probes the agent
(`Preflight`), is answered or not (`Answer`, `AskFails`), binds the native session (`Attach`),
records (`RecordTurn`) and releases (`Release`); it may be cancelled, dropped or die anywhere.
`Deleting` and `Sweeping` are the hand deletes with their confirmation and the retention
sweep, which lists in one transaction and deletes in others. A price is a member of `Prices`,
and zero a price nobody reported.

### Contained runs

The owner is an asyncio task: `cancelling` is `Task.cancelling()`, `pending` a
`CancelledError` that was not delivered yet. The client (`CancelFromOutside`), the run's
deadline and the grace period's (`TimerFires`) and the heartbeat that lost the lease
(`Interrupts`, inside `Renewed` and `RenewFails`) cancel it; `Terminate`, `LeaveBody` and
`Return` take counts back as `asyncio.timeout` and `_renewing_lease` do. The actions follow
`run_contained` (`AddWorktree`, `Capture`, `SavePatch`, `RemoveWorktree`), `communicate` and
`_terminate` (`ChildEnds`, `Interrupted`, `TooMuch`, `GraceEnds`, `GraceExpires`, `GraceCut`,
`KilledEnds`), `_finished` (`RecordStep`, `RecordFails`, `RecordCancelled`) and the shielded
release (`Release`, `CleanupCancelled`, `Return`). A git that refuses is an answer, which `_git`'s
caller turns into a `CodeError` or ignores; a git that does not answer (its 60 s, its output cap,
its start) raises `AdapterError`: `unread` says it did while the changes were captured, `stuck`
while the worktree was removed.

`Sandbox` computes the verdicts as `verify`, `verify_internet` and `verify_loopback` do, from
the reports of probes on a host whose real behaviour is a record the code cannot see.
`AgentTurn` reads what is printed of a script of events (all of it, or what a killed child got to)
as each of the vendors' readers does; opencode's scripts have one step or two. It compares model
names as `_same_model` does (a name is a sequence of tokens: digits, snapshots, variants, words),
and adds counts of tokens with their caveats.

### Agents file

`Submit`, `Read`, `Change` and `Write` are a form's request: checked against what the
dashboard process read at its start (`boot`), then read, changed, checked and replaced under
`_writing`. `EditConfig` and `EditFile` are the operator's editor, under no lock; `Restart` is
a new dashboard. `Boots` is `load_consult_config` with the validators of `ConsultConfig`, as far
as agents, reviewers and bindings go: the merge, `_label_agents`, `_agents_can_execute`,
`check_reviewer`, `check_step_agent`. `bound` is one agent that `workflow.bindings` or a preset
names, with its mode; the rules ask each binding by itself. That the `review` and `workflow` roots
are directories is left to the machine.

Settings are reduced to what those rules tell apart: `"able"` (enabled, and scored for what it
may be named for), `"trusted"` (permitted `isolated_write` too), `"plain"` (disabled or scored
0), `"overreaching"` (a mode its runtime has not), `"invalid"`. A form writes no
`execution_modes` (`_from_form`, `consult/dashboard.py:1995`), so it saves `"able"` or `"plain"`,
also over `"trusted"`.

## 3. Runs

| run | instance | shows |
|---|---|---|
| `workflow_doors` | 2 callers, from `testing` with two rows done, 3 more rows, cancels, stalled heartbeats, the reviews' own tools (860 thousand states) | `TypeOK`, `StateIsEarned`, `OutcomeStands`, `EndStands`, `ReviewVerdictStands` |
| `workflow_rounds` | 1 caller, from the first fix round with a stale test preview, 4 more rows, cap 1, 1 crash, failed tests may advance | `RoundsWithinCap`, `CompletedAsTested` |
| `workflow_live` | 2 callers from `created`, 2 rows, agent or host, cancels, 1 crash, under fairness | `LeaseIsExclusive`, `RunningIsHeld`, `RunningResolves` |
| `workflow_orphan` | 2 callers, 1 crash, the reviews' own tools | a violation of `RunningIsHeld` |
| `workflow_wedge` | 1 caller from `testing` to a failed synthesis | a violation of `SynthesisCanBeRetried` |
| `workflow_late_start` | 2 callers, no faults | a violation of `StartsWhereItRuns` |
| `replan` | 2 callers, one agent or the host for `implement`, 2 previews, 2 rows (800 thousand states) | `AdoptedAsApproved` |
| `review` | 2 calls of one process, 2 reviewers, 1 crash, cap 1, under fairness (290 thousand states) | `NoDangling`, `OutcomeEarned`, `DeleteWaits`, `RoundsWithinCap`, `CancelWaits`, `CancelReturns`; and of `ReviewFindings`, `CompleteCarriesFindings`, `RecheckIsHonest` |
| `consult_turns` | 2 calls, 1 consultation, a review and a workflow, 3 turns over a ceiling of 2, 1 crash, heartbeats arrive (770 thousand states) | `TypeOK`, `CeilingHolds`, `NoOrphans`, `SweepSparesActive`, `IsConversation` |
| `consult_stalls` | 2 calls, 1 consultation, 2 vendor sessions, suspended calls (1.3 million states) | `OneSession`, `TurnsInOrder`, `NothingOutlivesDelete` |
| `contained_run` | one run, 2 cancellations from outside, under fairness (32 thousand states) | `TypeOK`, `CountIsTheClients`, `CancelIsHeard`, `LeaseIsLetGo`, `NoRunawayChild`, `WorkIsKept`, `Returns`; and `ChildIsBounded` of `Sandbox`, `OutcomeIsEarned`, `OutcomeIsAccounted` of `AgentTurn` |
| `agents_file` | 2 threads, 2 agent ids, a step bound or not, 1 hand edit of either file, restarts (4.6 million states) | `OthersAreKept`, `StaysBootable` |

**Bounds.** Two callers are enough for most of these properties: a lease's holder and one
contender, a runner and a canceller, a late writer and whoever overtook it; every check in
the code compares a row with *one* call's token. The run of `Review` has its calls in one
process, where a cancel knows the batch it waits for; that its safety holds whatever the
processes is proved. `MaxSteps`, `MaxRows`, `MaxPreviews`,
`MaxTurns`, `MaxSessions`, `MaxCrashes`, `MaxCancels` and `MaxEdits` bound what would count
for ever: rows, tokens, turns, sessions, deaths, cancellations, hand edits. Each is as large
as the hazard needs and at least one more than the case without it (a second preview behind a
first, a turn over the ceiling, a cancellation during another's clean-up). When they are
used up nothing more can start, so the runs may stop and deadlock is not checked.
`InitTesting` and `InitFixing` (in `MCWorkflow`) are states a sequence of complete calls
reaches; they spare the runs the host's first steps. Symmetry is used in safety runs only.

**Functions of their inputs.** `ReviewFindings`, `Sandbox` and `AgentTurn` have no state of
their own. What they compute is compared with what it is to mean over every answer, host,
stream, model name and count of a small set; the runs ask it in the states that rest on it
(`CompleteCarriesFindings` where a review is complete, `ChildIsBounded` while a child is up,
`OutcomeIsEarned` once a run is answered). `Sandbox`'s host is all that the probes cannot
see, so that a property relates a verdict to the truth and not to itself.

**Hypotheses on the environment.** Under `Doors`, `RunningIsHeld` is false
(`workflow_orphan`), so the passing run that checks it leaves the reviews to the workflow;
under `Stalls`, `LeaseIsExclusive` and `IsConversation` cannot hold, for any lease that is a
timestamp, so they are claimed while heartbeats arrive; so is `CeilingHolds`, which a call
suspended between its look at the ceiling and its turn can pass. `CompletedAsTested` is claimed
of one call at a time: with two, a test begun in a state the workflow has left since is recorded
between the judgment of the last report and the move (the late start of `workflow_late_start`). `Stalls = FALSE` also says that no
call takes as long as a whole lease between reading the workflow and asking for the lease
(`Arriving`). `WorkIsKept` excepts a git that did not answer while it captured (`unread`), and
`CancelIsHeard` one that did not while it removed the worktree (`stuck`); TLC violates each
without its exception. So it does `StaysBootable` without any of its three: the form edits or
deletes an agent that `config.yaml` binds to a step or has review (`NamedInConfig`), the review
it leaves names an agent of `config.yaml` whose entry changed since the dashboard started
(`Outdated`), the agent it deletes is the last (`LastAgent`). These are no hypotheses about the
environment but what the code does, told in section 5; a save whose request was already in when a
hand edited a file is the one thing left to the operator (`touched`).

**Fairness.** `Workflow`: a call that has started goes on, because asyncio runs ready tasks
and a step's body has the timeout of its subprocess; the clock passes the expiry of a lease
nobody renews; the host asks for the status again and again, as nothing else reaps. `Review`:
each call goes on (`Steps(c)`), a reviewer's await ending by its timeout. `ContainedRun`: the
owner, the timers, the heartbeat and the release each go on. No fairness is assumed of
starting a call, of crashes, cancellations, deletes, or the CLI: that it ends is the doing of
the deadline and of SIGKILL.

### What the violations say

* **`workflow_orphan`.** "Leave no `running` row behind" (`workflow/service.py:939`). A
  process dies in a review step; when its lease has run out, the review's own
  `run`/`retry` takes the lease columns of the still `running` row, is refused, and
  releases them to NULL. `reap_abandoned` looks for `lease_expires_at IS NOT NULL`: the
  row stays `running` until the workflow is cancelled.
* **`workflow_wedge`.** "A step that dies mid-run leaves the workflow where it was and the
  answer is to plan that step again" (`workflow/store.py:16`). `_synthesize` finalizes the
  review first; if the call is cancelled or dies before it records the step, each later
  synthesis is refused, because its review is already `complete`.
* **`workflow_late_start`.** "Without this it would run, be paid for, and record an
  artifact for a state the workflow has left" (`workflow/service.py:1358`). The check is
  made before the lease is taken, and the statement that spends the token repeats only
  half of it.

## 4. Proofs

Every invariant and every action property of the passing runs is a theorem here. They hold for
every value of the constants, from the assumptions the modules name: constants are of their
sorts, `NoCaller` is no caller, callers and agents are finitely many, a binding is an executor
the step allows, prices are finitely many.

| theorem | states | argument |
|---|---|---|
| `WorkflowProofs!TypeCorrect` | `Spec => []TypeOK` | inductive with `Placed`: the call that works on a row works on one with a sequence number given out |
| `OutcomesStand`, `VerdictsStand` | `OutcomeStands`, `ReviewVerdictStands` | every action writes a row through a guard on its status; action by action |
| `EndsStand` | `EndStands` | no step runs from a terminal state, and only `Bump`, `Move` and `CancelMove` write the workflow |
| `LeaseExclusive` | `~Stalls => (Spec => []LeaseIsExclusive)` | inductive with `Fresh`: a row still held by a call inside its lease has not run out; no renewal revives one lease beside another |
| `RunningHeld` | `~Stalls /\ ~Doors => (Spec => []RunningIsHeld)` | inductive with `HeldInv`: a call that was given a row holds it (`Taken`), its step is not `planned` again (`Owned`), a running row's lease outlives the calls on their way to it (`Awaited`), nobody comes through the other door (`Indoors`) |
| `WorkflowStateProofs!StateEarned` | `Spec => []StateIsEarned` | inductive with `Knows`: a call on its way to move the workflow has recorded a step that earns the target, and what was recorded stays |
| `FixRoundsCapped` | `Spec => []RoundsWithinCap` | inductive with `RoundsInv`: the rounds counted and the calls that may still count one, having read a count below the cap, stay below the cap and the number of callers |
| `TestedAtTheEnd` | `OneAtATime => (Spec => []CompletedAsTested)` | inductive with `TestedInv`: from the judgment that the loop is done, the newest report stays the one it was judged by, and the move to `completed` brings no commit of its own; only the end of a test makes a report, and no other call is there to end one |
| `ReplanProofs!ApprovedIsAdopted` | `AdoptedAsApproved` | inductive with `Parked` (what is staged is what the preview behind the staged token showed) and `Fits` (a call whose token is still the staged one has read what is staged): a later preview has another token |
| `ReviewProofs!TypeCorrect`, `NoneDangles`, `OutcomesEarned`, `DeletesWait` | `TypeOK`, `NoDangling`, `OutcomeEarned`, `DeleteWaits` | inductive: a call inside the lease holds it (`Held`), one call at a time runs the review and nobody once it waits for its synthesis (`OneRun`), a call at its reviewers found the review not deleted (`CallFits`) |
| `RoundsCapped` | `RoundsWithinCap` | the rounds with the calls about to append one stay below the cap and the number of callers (`Rounds`) |
| `CancelsWait` | `CancelWaits` | inductive with `Cancels`: while a cancel waits, the marker of its process is the batch it waits for, and once it joins, that batch has nobody at work (`Quiet`); a review that is over stays so, so no batch starts anew |
| `RecheckHonest`, `CompleteCarries` | `RecheckIsHonest`, `CompleteCarriesFindings` | of the operators: a finding is resolved only if each whole row says so; each serious finding that was kept has an identity of its own among those the summary carries, a bijection (`CarriedCountsAll`, `SeriousSurvive`) |
| `ConsultProofs!TypeCorrect`, `NumberedInOrder`, `SameSession`, `DeletedIsGone`, `OwnersStay` | `TypeOK`, `TurnsInOrder`, `OneSession`, `NothingOutlivesDelete`, `NoOrphans` | inductive with `CallFits`: what a call remembers of a row still holds when it comes to use it, or the row has gone; and a number it read is not beyond the next one |
| `ConsultTalkProofs!SweepSpares` | `SweepSparesActive` | only a sweep step changes `sweep`, and it asks the age again in the deleting transaction |
| `IsATalk` | `~Stalls => (Spec => IsConversation)` | step simulation: a call in its turn holds an unexpired lease (`Held`), so it is alone, and its number is the next one (`IsNext`); each step is one of `Conversation` or a stutter |
| `CeilingsHold` | `~Stalls => (Spec => []CeilingHolds)` | inductive with `Ceilings`, beside `Held`: whoever was admitted is alone with the consultation, so what was below the ceiling when it looked still is when it records; one turn adds one price (`CostAdds`) |
| `ContainedRunProofs!TypeCorrect`, `CountKept`, `CancelHeard`, `LeaseLetGo`, `NoneRunsAway`, `WorkKept` | `TypeOK`, `CountIsTheClients`, `CancelIsHeard`, `LeaseIsLetGo`, `NoRunawayChild`, `WorkIsKept` | inductive with `Accounted`: the task's count is the client's cancellations, one for a deadline inside its timeout and one for the heartbeat; `Blames` and `Hears` say from whom an undelivered one may be and that a counted one is on its way, or that git raised in its place; `ChildAtWork`, `Keeps` and `Released` place the child, the work and the lease |
| `ChildBounded` | `ChildIsBounded` | of the operators: each clause of a verdict is traced to the probe that measured it (`ProbesMeasure`), and a worker to the verdict it was let start behind |
| `OutcomeEarned`, `OutcomeAccounted` | `OutcomeIsEarned`, `OutcomeIsAccounted` | of the operators: a stream read without an error has its terminal event, or for opencode the end of a whole step, and one session (`AcceptedIsWhole`, `OneSession`), runtime by runtime; a count is kept or noted, field by field |
| `AgentsFileProofs!KeepsOthers`, `SavesBoot` | `OthersAreKept`, `StaysBootable` | inductive with `ThreadFits`: a thread past its read holds the lock, and unless a hand was at the files, what it read is the file as it is and what it will write is that file with its form's change, looked at and not refused, and a form of reviewers has no review in `config.yaml` beside it; an agent that is not the form's is what it was in the two files together (`SameAgent`) |

`~Stalls` and `~Doors` are hypotheses about the environment, not about the program. Most of
the workflow's actions cannot disturb a lease: `Calm` is proved once per action and serves
both lease theorems.

The theorems about `ReviewFindings`, `Sandbox` and `AgentTurn` are about the inputs those modules
name, which are bounded (lists of three findings, two blocks to an answer, three events to a
stream, or two steps of two, two open findings); what they add to the runs is the reason. The properties ask each
function in the states that rest on it, but the lemmas they come from (`SeriousSurvive`,
`RechecksAreHonest`, `WorkersBounded`, `LoopbackMeasured`, `StreamsWhole`, `ModelsDoAgree`,
`PromptsWhole`, `CountsKept`, `DoubtsNoted`) are of the functions alone.

Where a definition folds over data, there is no induction theorem to cite. What is needed of
`KnownCost`, a fold over a set of turns of any size, is proved by the smallest counterexample:
of the sizes at which two orders of adding up disagree there would be a least one (`SumsExist`,
`SumsAdd`, `SumsAnyOrder`, `SumsAgree`, `CostAdds`). The recursive functions on short sequences
are unfolded by a witness that satisfies their equation (`DeliverSteps`, `SumSteps`).

Only model-checked: liveness (`RunningResolves`, `CancelReturns`, `Returns`), under the fairness
above, which is beyond the proof system; and the three runs that expect a violation, which
show what the theorems' hypotheses are for (`~Doors` in `RunningHeld`) or what the code does
not promise itself.

## 5. Not modelled

* Creation of a workflow or plan of a review with an idempotency key, a review of the same
  diff found again; export; listings.
* The recovery sweep (`code/service.py:213`) judges files by their age and owner; the models
  have no clock of that kind. `git` itself: a worktree is there or not.
* Migrations of the store; prompts, styles, reports, pages; building of command lines; status
  probes of adapters; the scoring of agents; the canonical forms behind hashes (a hash is
  what it is of); estimates; the review's and the workflow's spend totals, which are
  refused like a consultation's ceiling.
* The server and the command line: they forward and keep no state.
* The deletion of a workflow beyond its consultations, and `replan` inside `Workflow`: there a
  binding is a free choice, in `Replan` a step is one action.
* Next: an abstract life cycle of a step (`planned` to one outcome) that `Workflow`
  implements; the two models of the workflow composed; the sweep with a logical clock.

### Seen while reading, stated as no property

What the code does and no document of it contradicts plainly, or what the models abstract
from. Each is reachable in a model above or is why an abstraction is where it is.

* `review/service.py:757-767` asks for no suspension point between the last look at the
  status and the reviewers' start, and a progress note is awaited there; a cancel that lands
  in it sends the material. `CancelWaits` claims only that the cancel waits for them.
* "A replan re-decides the steps you name and leaves every other one on the routing the
  workflow already had" (`README.md:838`). `plan_replan` copies the whole snapshot it read
  (`workflow/service.py:1189`); another replan may be confirmed between that read and the
  staging, and the copy, once confirmed, puts its steps back. Reachable in `Replan` with two
  agents and two previews.
* The review policy says who may review "a workflow's own work" (`consult/config.py:273`). The
  exclusion is taken from the bindings of the moment (`workflow/service.py:436`), but a
  planned step keeps the agent of its preview: plan `implement` for one agent, replan it to
  another, run the planned step, and the first may be given the review of its patch.
  Reachable in `Replan` with two agents, one preview and two rows. Without a reroute the rule
  is the guard of `PlanStep` and needs no property.
* A retry makes the review `running` before it has the lease (`review/service.py:648`), reads
  whom to ask before that (609-616), and, refused, leaves it running with no reviewer. A
  dropped request can do the same (776). A batch that found another's marker is not waited for
  by a cancel (725).
* A finalize that read an earlier answer may complete a review retried meanwhile
  (`review/service.py:1120`, 1170).
* Only the agent bound to `implement` is excluded from reviewing (`workflow/service.py:440`): the one
  bound to `fix` may review its fixes.
* A second first turn starts a second vendor session; its answer is refused at `bind`, paid
  and unrecorded (`consult/service.py:334`). A lease may be taken on a consultation that was
  deleted. Retention spares a reviewer's consultation by its review's age, not its own.
* The end of a reaped step's heartbeat is silent (`workflow/store.py:739`), where
  `_renewing_lease` says that losing the lease interrupts its body.
* A body that answers the heartbeat's cancellation with an error of its own leaves
  `cancelling()` one too high (`consult/store.py:1583`): the exception in `CountIsTheClients`.
  A call cancelled while its thread acquires leaves the lease to its expiry.
* A worktree whose `git worktree add` was cut off is outside what removes it; a call
  cancelled while it captures loses the only copy of the work; a save that races the
  workflow's cancel leaves a patch to the sweep (`code/service.py:319`).
* Helpers a CLI leaves in its group are not modelled: when the grace period is cut short the
  group is killed by the leader's end, not each of them awaited.
* "When *capture itself* fails the worktree stays, because at that moment it is the only copy of
  the step's work" (`code/service.py:18-20`). It stays only if the failure is a `CodeError`
  (360-366). `_git` raises `AdapterError` when git outlasts its 60 s, prints past the cap or
  cannot be started: `keep` stays false, and the `finally` removes the only copy. The exception
  `unread` in `WorkIsKept`.
* "Best effort, and quiet about it. This runs in a `finally`, so raising here would replace the
  real reason a step failed with a cleanup error" (`code/service.py:461-464`). Its two `_git`
  calls (468-469) may raise the same `AdapterError`, which then replaces the result, the failure
  or a client's `CancelledError` on its way out: the call goes on to record the step as failed.
  The exception `stuck` in `CancelIsHeard`.
* "A stream cut off mid-answer -- a killed child, a dropped connection, output past the cap --
  returned its partial text as a finished reply" is what the check of `step-finish` is there to
  end (`consult/adapters/opencode_cli.py:665-671`; likewise `code/adapters/opencode_write.py:237`).
  It asks for one `step-finish` in the stream: a child killed in its second step has printed one,
  and its partial text is still a reply. `OutcomeIsEarned` says of opencode only that some step
  was read to its end.
* Sandbox verdicts are cached for the life of the process (`code/sandbox.py:261`, 846, 1028).
* "What is about to be written has to be something the server can boot on"
  (`consult/dashboard.py:1510`). A save asks `_unbootable`, `_unbootable_review` and
  `_duplicate_of_written`, and not what `config.yaml` needs of an agent. Deleting or disabling the
  managed agent that `workflow.bindings`, a preset or `config.yaml`'s own `review:` names writes
  a file that `check_step_agent` (`consult/config.py:570`) or `check_reviewer` refuses at the next
  start; so does saving *any* field of an agent bound to `isolated_write`, as the form drops its
  `execution_modes`; so does deleting the last agent there is. No hand edit is involved.
* The same check judges the reviewers of the managed file by the agents of `config.yaml` as they
  were when the dashboard started (`consult/dashboard.py:1653`). After an agent went from there, a
  form may name it as reviewer; after it moved into the managed file and is the reviewer, it may
  be deleted there. Either writes a file the server does not start on.
* A save replaces a whole entry (`consult/dashboard.py:1914`), where `_score_box` (1964) would not
  have an operator lose what was written by hand "by saving an unrelated field on this form": a
  hand-written `execution_modes` or `timeout_s` goes. Two dashboards share no lock, and a
  hand edit between its read and its write is overwritten.
