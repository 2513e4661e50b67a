----------------------------- MODULE ContainedRun -----------------------------
(***************************************************************************)
(* One contained run of a workflow step: the lease that is renewed while   *)
(* it works (consult/store.py, workflow/store.py), the CLI's process group *)
(* (consult/adapters/base.py), and the worktree and the recovery copy of   *)
(* the patch (code/service.py), from the moment the step is `running` and  *)
(* its lease is asked for until the call returns.                          *)
(*                                                                         *)
(* The owner is an asyncio task.  A cancellation of a task is counted, and *)
(* is delivered where it awaits, in place of whatever the await returned.  *)
(* Four parties cancel it: the client, the deadline of the run, the        *)
(* deadline of the grace period, and the heartbeat that lost the lease.    *)
(* The last three take their count back.                                   *)
(***************************************************************************)
EXTENDS Integers

CONSTANTS MaxCancels   \* bound: cancellations from outside

ASSUME CancelsAssumption == MaxCancels \in Nat

VARIABLES
    task,       \* the owner: where it awaits, and what it carries
    timer,      \* the asyncio.timeout it is inside of
    beat,       \* _keep_lease_alive, and the events it shares with the owner
    row,        \* the workflow_steps row
    child,      \* the CLI, leader of its process group
    tree,       \* the worktree of the step: is it there
    patch,      \* the recovery copy: is it there
    cancels     \* cancellations from outside so far

vars == <<task, timer, beat, row, child, tree, patch, cancels>>

PC == {"acquiring", "adding", "running", "grace", "killed", "capturing", "saving",
       "removing", "recording", "cleaning", "done"}

\* What the body is on its way out with.
Raised == {"nothing", "error", "cancelled"}

Outcome == {"none", "ok", "error", "lost", "cancelled"}

\* `cancelling` is Task.cancelling(); `pending`, a CancelledError not yet delivered;
\* `deferred`, one that came while the lease was being released.  `unread` and `stuck`: git
\* raised (its 60 s, its output or its start) instead of answering, while the changes
\* were captured and while the worktree was removed.
Task == [pc : PC, cancelling : Nat, pending : BOOLEAN, raised : Raised,
         answered : BOOLEAN, unread : BOOLEAN, stuck : BOOLEAN, deferred : BOOLEAN,
         outcome : Outcome]

\* `base` is what cancelling was when the timeout was entered.
Timer == [base : Nat, expired : BOOLEAN]

\* `lost` is failure.done(); `cleanup` the task that releases.
Beat == [state : {"none", "sleeping", "renewing", "ended"}, lost : BOOLEAN,
         ownerCancelled : BOOLEAN, guardedDone : BOOLEAN,
         cleanup : {"none", "waiting", "released", "failed"}]

\* `holder`: nobody, this call, or another call.
Step == [status : {"running", "closed", "cancelled", "abandoned"},
         holder : {"nobody", "owner", "other"}, expired : BOOLEAN]

\* Asked: it was sent SIGTERM, which it may ignore.
Child == {"none", "alive", "asked", "dead"}

Init ==
    /\ task = [pc |-> "acquiring", cancelling |-> 0, pending |-> FALSE, raised |-> "nothing",
               answered |-> FALSE, unread |-> FALSE, stuck |-> FALSE,
               deferred |-> FALSE, outcome |-> "none"]
    /\ timer = [base |-> 0, expired |-> FALSE]
    /\ beat = [state |-> "none", lost |-> FALSE, ownerCancelled |-> FALSE,
               guardedDone |-> FALSE, cleanup |-> "none"]
    /\ row = [status |-> "running", holder |-> "nobody", expired |-> FALSE]
    /\ child = "none"
    /\ tree = FALSE /\ patch = FALSE /\ cancels = 0

\* The owner awaits at pc, and what it awaits is over.
At(pc) == task.pc = pc /\ ~task.pending

\* The owner awaits at pc, and is cancelled.
CancelledAt(pc) == task.pc = pc /\ task.pending

Goto(pc) == task' = [task EXCEPT !.pc = pc]
Raise(pc, what) == task' = [task EXCEPT !.pc = pc, !.pending = FALSE, !.raised = what]

-----------------------------------------------------------------------------
(* The lease is taken. *)

\* _acquire, of a row that nobody holds
Acquire ==
    /\ At("acquiring")
    /\ row' = [row EXCEPT !.holder = "owner"]
    /\ beat' = [beat EXCEPT !.state = "sleeping"]
    /\ Goto("adding")
    /\ UNCHANGED <<timer, child, tree, patch, cancels>>

\* The thread that acquires is not stopped by the cancellation of who awaits it.
AcquireCancelled ==
    /\ CancelledAt("acquiring")
    /\ row' \in {row, [row EXCEPT !.holder = "owner"]}
    /\ task' = [task EXCEPT !.pc = "done", !.pending = FALSE, !.outcome = "cancelled"]
    /\ UNCHANGED <<timer, beat, child, tree, patch, cancels>>

-----------------------------------------------------------------------------
(* The worktree, and the CLI in it. *)

\* _add_worktree, and then the adapter's child is started and its deadline set
AddWorktree ==
    /\ At("adding")
    /\ tree' = TRUE
    /\ child' = "alive"
    /\ timer' = [base |-> task.cancelling, expired |-> FALSE]
    /\ Goto("running")
    /\ UNCHANGED <<beat, row, patch, cancels>>

\* git refuses, or says nothing of its directory: outside of what removes a worktree
AddFails ==
    /\ At("adding")
    /\ tree' \in BOOLEAN
    /\ Raise("recording", "error")
    /\ UNCHANGED <<timer, beat, row, child, patch, cancels>>

AddCancelled ==
    /\ CancelledAt("adding")
    /\ \/ tree' \in BOOLEAN /\ Raise("recording", "cancelled")
       \/ tree' = TRUE /\ Raise("removing", "cancelled")
    /\ UNCHANGED <<timer, beat, row, child, patch, cancels>>

\* The executable is gone, or the sandbox or the agent is not available.
SpawnFails ==
    /\ At("adding")
    /\ tree' = TRUE
    /\ Raise("removing", "error")
    /\ UNCHANGED <<timer, beat, row, child, patch, cancels>>

\* Both pipes reached EOF and the leader exited; the adapter reads an answer in it, or not.
ChildEnds ==
    /\ At("running")
    /\ child' = "dead"
    /\ task' \in {[task EXCEPT !.pc = "capturing", !.answered = TRUE],
                  [task EXCEPT !.pc = "removing", !.raised = "error"]}
    /\ UNCHANGED <<timer, beat, row, tree, patch, cancels>>

\* (mutant) the deadline keeps its count
UncancelNever(n) == n

\* (mutant) the count is taken back twice
UncancelTwice(n) == n - 2

\* Task.uncancel, by whoever asked for the cancellation
Uncancel(n) == n - 1

\* asyncio.timeout: the deadline cancels the task ...
TimerFires ==
    /\ task.pc \in {"running", "grace"}
    /\ ~timer.expired
    /\ timer' = [timer EXCEPT !.expired = TRUE]
    /\ task' = [task EXCEPT !.cancelling = @ + 1, !.pending = TRUE]
    /\ UNCHANGED <<beat, row, child, tree, patch, cancels>>

\* ... and takes its count back.  It was the deadline alone if nothing is left of it.
Remaining == IF timer.expired THEN Uncancel(task.cancelling) ELSE task.cancelling
ByTimer == timer.expired /\ Remaining <= timer.base

\* _terminate: the child's group is sent SIGTERM and has a grace period with a deadline of
\* its own.
Terminate(count, what) ==
    /\ child' = IF child = "alive" THEN "asked" ELSE child
    /\ timer' = [base |-> count, expired |-> FALSE]
    /\ task' = [task EXCEPT !.pc = "grace", !.pending = FALSE, !.cancelling = count,
                            !.raised = what]

\* The deadline, or a cancellation, ends the run ...
Interrupted ==
    /\ CancelledAt("running")
    /\ Terminate(Remaining, IF ByTimer THEN "error" ELSE "cancelled")
    /\ UNCHANGED <<beat, row, tree, patch, cancels>>

\* ... or more output than it may have, or a line longer.
TooMuch ==
    /\ At("running")
    /\ Terminate(task.cancelling, "error")
    /\ UNCHANGED <<beat, row, tree, patch, cancels>>

\* SIGTERM ends who listens to it.
Dies ==
    /\ child = "asked"
    /\ child' = "dead"
    /\ UNCHANGED <<task, timer, beat, row, tree, patch, cancels>>

\* (mutant) the pipes are left to the collector
ReleaseNothing(c) == c

\* _release_pipes: transport.close() kills a child that still runs.
ReleasePipes(c) == "dead"

\* It exited in time.
GraceEnds ==
    /\ At("grace")
    /\ child = "dead"
    /\ child' = ReleasePipes(child)
    /\ Goto("removing")
    /\ UNCHANGED <<timer, beat, row, tree, patch, cancels>>

\* It did not, and the whole group is killed.
GraceExpires ==
    /\ CancelledAt("grace") /\ ByTimer
    /\ child' = "dead"
    /\ task' = [task EXCEPT !.pc = "killed", !.pending = FALSE, !.cancelling = Remaining]
    /\ UNCHANGED <<timer, beat, row, tree, patch, cancels>>

\* A cancellation cuts the grace short: it is raised, and no SIGKILL is sent
\* to the group.
GraceCut ==
    /\ CancelledAt("grace") /\ ~ByTimer
    /\ child' = ReleasePipes(child)
    /\ task' = [task EXCEPT !.pc = "removing", !.pending = FALSE, !.cancelling = Remaining,
                            !.raised = "cancelled"]
    /\ UNCHANGED <<timer, beat, row, tree, patch, cancels>>

KilledEnds ==
    /\ task.pc = "killed"
    /\ child' = ReleasePipes(child)
    /\ Raise("removing", IF task.pending THEN "cancelled" ELSE task.raised)
    /\ UNCHANGED <<timer, beat, row, tree, patch, cancels>>

-----------------------------------------------------------------------------
(* What the run changed is read back. *)

\* (mutant) the worktree goes whatever became of the changes in it
AfterKeepNothing(copied) == "removing"

\* keep: a worktree that holds the only copy stays.
After(copied) == IF copied THEN "removing" ELSE "recording"

\* _capture, of a run that changed something.  A git that refuses is a CodeError and the
\* worktree stays; a git that does not answer is not one, and the worktree goes.
Capture ==
    /\ At("capturing")
    /\ task' \in {[task EXCEPT !.pc = "saving"],
                  [task EXCEPT !.pc = After(FALSE), !.raised = "error"],
                  [task EXCEPT !.pc = "removing", !.raised = "error", !.unread = TRUE]}
    /\ UNCHANGED <<timer, beat, row, child, tree, patch, cancels>>

CaptureCancelled ==
    /\ CancelledAt("capturing")
    /\ Raise("removing", "cancelled")
    /\ UNCHANGED <<timer, beat, row, child, tree, patch, cancels>>

\* save_patch: written whole, or not there and the worktree kept
SavePatch ==
    /\ At("saving")
    /\ patch' \in BOOLEAN
    /\ Goto(After(patch'))
    /\ UNCHANGED <<timer, beat, row, child, tree, cancels>>

\* The thread that writes goes on without its task.
SaveCancelled ==
    /\ CancelledAt("saving")
    /\ patch' \in BOOLEAN
    /\ Raise("removing", "cancelled")
    /\ UNCHANGED <<timer, beat, row, child, tree, cancels>>

\* _remove_worktree, as well as git can.  A git that does not answer raises out of the
\* finally, in place of whatever the body was on its way out with.
RemoveWorktree ==
    /\ At("removing")
    /\ tree' \in BOOLEAN
    /\ task' \in {[task EXCEPT !.pc = "recording"],
                  [task EXCEPT !.pc = "recording", !.raised = "error", !.stuck = TRUE]}
    /\ UNCHANGED <<timer, beat, row, child, patch, cancels>>

RemoveCancelled ==
    /\ CancelledAt("removing")
    /\ tree' \in BOOLEAN
    /\ Raise("recording", "cancelled")
    /\ UNCHANGED <<timer, beat, row, child, patch, cancels>>

-----------------------------------------------------------------------------
(* The step is closed, and the lease is left. *)

\* finish_step: the step ends only while it is running, and lets the lease go
Closed == IF row.status = "running"
          THEN [status |-> "closed", holder |-> "nobody", expired |-> FALSE]
          ELSE row

\* (mutant) the heartbeat's cancellation is taken for the client's
LeavingUncounted(what, t, b) ==
    IF what = "cancelled" THEN "cancelled" ELSE IF b.lost THEN "lost" ELSE
        IF what = "nothing" THEN "ok" ELSE "error"

\* What _renewing_lease lets the body leave with: a cancellation that was the heartbeat's
\* alone becomes the reason the lease was lost.
Leaving(what, t, b) ==
    IF what = "error" \/ ~b.lost
    THEN CASE what = "nothing" -> "ok" [] what = "error" -> "error" [] OTHER -> "cancelled"
    ELSE IF b.ownerCancelled /\ t.cancelling - 1 > 0 THEN "cancelled" ELSE "lost"

\* The heartbeat's cancellation is taken back on the way.
TakesBack(what) == what # "error" /\ beat.lost /\ beat.ownerCancelled

\* The body returns or raises, and the release starts, with no await in between.
LeaveBody(what) ==
    /\ task' = [task EXCEPT !.pc = "cleaning", !.pending = FALSE, !.raised = what,
                            !.outcome = Leaving(what, task, beat),
                            !.cancelling = IF TakesBack(what) THEN Uncancel(@) ELSE @]
    /\ beat' = [beat EXCEPT !.guardedDone = TRUE, !.cleanup = "waiting",
                            !.ownerCancelled = IF TakesBack(what) THEN FALSE ELSE @]

\* What was answered is recorded, unless the step is no longer running; what was raised
\* closes it as failed (_finished).
RecordStep ==
    /\ At("recording")
    /\ row' = Closed
    /\ LeaveBody(IF task.raised = "nothing" /\ row.status # "running" THEN "error"
                                                                      ELSE task.raised)
    /\ UNCHANGED <<timer, child, tree, patch, cancels>>

\* The database fails: the step stays `running`.
RecordFails ==
    /\ At("recording")
    /\ LeaveBody("error")
    /\ UNCHANGED <<timer, row, child, tree, patch, cancels>>

RecordCancelled ==
    /\ CancelledAt("recording")
    /\ row' = Closed
    /\ LeaveBody("cancelled")
    /\ UNCHANGED <<timer, child, tree, patch, cancels>>

\* cleanup(), once the heartbeat has ended: _release of its own holder, or the database fails
Release ==
    /\ beat.cleanup = "waiting" /\ beat.state = "ended"
    /\ \/ /\ beat' = [beat EXCEPT !.cleanup = "released"]
          /\ row' = IF row.holder = "owner"
                    THEN [row EXCEPT !.holder = "nobody", !.expired = FALSE] ELSE row
       \/ beat' = [beat EXCEPT !.cleanup = "failed"] /\ UNCHANGED row
    /\ UNCHANGED <<task, timer, child, tree, patch, cancels>>

\* (mutant) the release is awaited as it is: a cancellation ends the wait for it
ShieldNot ==
    /\ task' = [task EXCEPT !.pc = "done", !.pending = FALSE, !.outcome = "cancelled"]

\* A cancellation that comes now is kept for later.
Shield == task' = [task EXCEPT !.pending = FALSE, !.deferred = TRUE]

CleanupCancelled ==
    /\ CancelledAt("cleaning")
    /\ Shield
    /\ UNCHANGED <<timer, beat, row, child, tree, patch, cancels>>

\* A release that failed is said of a body that succeeded; else a deferred cancellation is
\* raised, but the heartbeat's own.
Return ==
    /\ At("cleaning")
    /\ beat.cleanup \in {"released", "failed"}
    /\ LET failed == task.outcome = "ok" /\ beat.cleanup = "failed"
           internal == task.deferred /\ beat.ownerCancelled /\ ~failed
           count == IF internal THEN Uncancel(task.cancelling) ELSE task.cancelling
           external == task.deferred /\ (~internal \/ count > 0)
       IN  /\ task' = [task EXCEPT !.pc = "done", !.cancelling = count,
                         !.outcome = IF failed THEN "error"
                                     ELSE IF external THEN "cancelled" ELSE @]
           /\ beat' = IF internal THEN [beat EXCEPT !.ownerCancelled = FALSE] ELSE beat
    /\ UNCHANGED <<timer, row, child, tree, patch, cancels>>

-----------------------------------------------------------------------------
(* The heartbeat. *)

\* (mutant) the heartbeat is not told
StopNever == FALSE

\* stop.is_set()
Stop == beat.cleanup # "none"

\* stop is set, or the interval is over.
Wake ==
    /\ beat.state = "sleeping"
    /\ beat' = [beat EXCEPT !.state = IF Stop THEN "ended" ELSE "renewing"]
    /\ UNCHANGED <<task, timer, row, child, tree, patch, cancels>>

\* _renew finds the row its own, expired or not
Renewed ==
    /\ beat.state = "renewing"
    /\ row.holder = "owner"
    /\ row' = [row EXCEPT !.expired = FALSE]
    /\ beat' = [beat EXCEPT !.state = "sleeping"]
    /\ UNCHANGED <<task, timer, child, tree, patch, cancels>>

\* _renew returns False: a step that is over and that nobody holds
RenewsNoMore ==
    /\ beat.state = "renewing"
    /\ row.status # "running" /\ row.holder = "nobody"
    /\ beat' = [beat EXCEPT !.state = "ended"]
    /\ UNCHANGED <<task, timer, row, child, tree, patch, cancels>>

\* guarded_done: nothing is cancelled that has already produced its result
Interrupts == ~beat.guardedDone

\* _renew raises: somebody else has the lease, or the database fails.
RenewFails ==
    /\ beat.state = "renewing"
    /\ beat' = [beat EXCEPT !.state = "ended", !.lost = TRUE, !.ownerCancelled = Interrupts]
    /\ task' = IF Interrupts
               THEN [task EXCEPT !.cancelling = @ + 1, !.pending = TRUE] ELSE task
    /\ UNCHANGED <<timer, row, child, tree, patch, cancels>>

-----------------------------------------------------------------------------
(* What comes from outside. *)

\* The client drops its request, or the server shuts down.
CancelFromOutside ==
    /\ task.pc # "done" /\ cancels < MaxCancels
    /\ cancels' = cancels + 1
    /\ task' = [task EXCEPT !.cancelling = @ + 1, !.pending = TRUE]
    /\ UNCHANGED <<timer, beat, row, child, tree, patch>>

\* The machine slept through its heartbeats.
Expire ==
    /\ row.holder = "owner" /\ ~row.expired
    /\ row' = [row EXCEPT !.expired = TRUE]
    /\ UNCHANGED <<task, timer, beat, child, tree, patch, cancels>>

\* Another call on the same step takes what expired, finds its token spent, and leaves.
Take ==
    /\ row.holder = "owner" /\ row.expired
    /\ row' = [row EXCEPT !.holder = "other", !.expired = FALSE]
    /\ UNCHANGED <<task, timer, beat, child, tree, patch, cancels>>

GiveUp ==
    /\ row.holder = "other"
    /\ row' = [row EXCEPT !.holder = "nobody"]
    /\ UNCHANGED <<task, timer, beat, child, tree, patch, cancels>>

\* reap_abandoned
Reap ==
    /\ row.status = "running" /\ row.expired
    /\ row' = [status |-> "abandoned", holder |-> "nobody", expired |-> FALSE]
    /\ UNCHANGED <<task, timer, beat, child, tree, patch, cancels>>

\* The workflow is cancelled: the step is closed and its recovery copies go.
CancelWorkflow ==
    /\ row.status = "running" /\ task.pc # "acquiring"
    /\ row' = [status |-> "cancelled", holder |-> "nobody", expired |-> FALSE]
    /\ patch' = FALSE
    /\ UNCHANGED <<task, timer, beat, child, tree, cancels>>

-----------------------------------------------------------------------------
Body == \/ Acquire \/ AcquireCancelled \/ AddWorktree \/ AddFails \/ AddCancelled
        \/ SpawnFails \/ ChildEnds \/ Interrupted \/ TooMuch
        \/ GraceEnds \/ GraceExpires \/ GraceCut \/ KilledEnds
        \/ Capture \/ CaptureCancelled \/ SavePatch \/ SaveCancelled
        \/ RemoveWorktree \/ RemoveCancelled \/ RecordStep \/ RecordFails
        \/ RecordCancelled
        \/ CleanupCancelled \/ Return

Heartbeat == Wake \/ Renewed \/ RenewsNoMore \/ RenewFails

Outside == CancelFromOutside \/ Expire \/ Take \/ GiveUp \/ Reap \/ CancelWorkflow \/ Dies

Next == Body \/ TimerFires \/ Heartbeat \/ Release \/ Outside

Spec == Init /\ [][Next]_vars

\* The loop runs its tasks, its timers fire, and its threads come back.
FairSpec == Spec /\ WF_vars(Body) /\ WF_vars(TimerFires) /\ WF_vars(Heartbeat) /\ WF_vars(Release)

-----------------------------------------------------------------------------
(* Properties. *)

TypeOK ==
    /\ task \in Task /\ timer \in Timer /\ beat \in Beat /\ row \in Step /\ child \in Child
    /\ tree \in BOOLEAN /\ patch \in BOOLEAN
    /\ cancels \in 0 .. MaxCancels

\* However deadlines, heartbeat and client cancel together, the task leaves with the client's
\* cancellations counted and no other, so that an outer timeout can tell its own.  (A body
\* that answers a cancellation with an error of its own, the database's or git's, leaves
\* one more.)
CountIsTheClients ==
    task.pc = "done" =>
        \/ task.cancelling = cancels
        \/ task.raised = "error" /\ beat.lost /\ task.cancelling = cancels + 1

\* A client's cancellation is not swallowed, by the conversion of the heartbeat's into
\* session_busy or by the shielded release.  What swallows one is an error raised over it:
\* of a database that fails, at the release or at closing the step, or of a git that does
\* not answer while the worktree is removed (the finally of run_contained).  And none is
\* invented: a lease that was lost reads as such.
CancelIsHeard ==
    task.pc = "done" =>
        /\ task.outcome = "cancelled" => cancels > 0
        /\ cancels > 0 => \/ task.outcome = "cancelled"
                          \/ /\ task.outcome = "error"
                             /\ beat.cleanup = "failed" \/ row.status # "closed" \/ task.stuck

\* The lease is let go whatever the call ends with, when it was its own, but when its release
\* fails or the call is cancelled while it acquires.
LeaseIsLetGo ==
    task.pc = "done" /\ row.holder = "owner" => beat.cleanup \in {"none", "failed"}

\* The CLI does not outlive its call, even one that ignores SIGTERM and whose grace period a
\* second cancellation, of the client or of the heartbeat, cuts short.
NoRunawayChild == task.pc = "done" => child \in {"none", "dead"}

\* What an answered run changed is found in its worktree or in its recovery copy, whether
\* or not it could be recorded, or git refused to read it, unless the call or the workflow was
\* cancelled meanwhile, or the lease was lost.  Not if git did not answer while it was
\* read: then the code removes the only copy.
WorkIsKept ==
    task.pc = "done" /\ task.answered /\ ~task.unread /\ cancels = 0 /\ ~beat.lost =>
        patch \/ tree \/ row.status = "cancelled"

\* The call returns.
Returns == <>(task.pc = "done")
===============================================================================
