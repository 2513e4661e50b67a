-------------------------- MODULE ContainedRunProofs --------------------------
(***************************************************************************)
(* Theorems about one contained run, for any number of cancellations from  *)
(* outside: what the call leaves with, what it leaves behind, and whose    *)
(* the cancellations are that it still counts; and, over the streams,      *)
(* rows, prompts, models and sandboxes of AgentTurn and Sandbox, that an   *)
(* outcome is earned, is accounted, and the child is as bounded as agreed. *)
(*                                                                         *)
(* The inductive invariant says of every place of the owner who may have   *)
(* cancelled it and has not taken that back, and where the changes of an   *)
(* answered run are.                                                       *)
(***************************************************************************)
EXTENDS MCContainedRun, SequenceTheorems, WellFoundedInduction, TLAPS

\* The places of the body; after them the lease is released.
InBody == PC \ {"cleaning", "done"}

\* The places under a deadline.
Timed == {"running", "grace"}

One(b) == IF b THEN 1 ELSE 0

\* Each cancellation that is counted is the client's, the deadline's or the heartbeat's.
Accounted ==
    task.cancelling = cancels + One(timer.expired /\ task.pc \in Timed)
                              + One(beat.ownerCancelled)

\* The heartbeat works between the lease and its release, and cancels only the body.
Beats ==
    /\ beat.state = "none" => task.pc \in {"acquiring", "done"}
    /\ task.pc = "acquiring" => beat.state = "none"
    /\ task.pc = "done" /\ beat.state = "none" => beat.cleanup = "none"
    /\ beat.guardedDone <=> task.pc \in {"cleaning", "done"} /\ beat.state # "none"
    /\ beat.guardedDone <=> beat.cleanup # "none"
    /\ task.pc = "done" => beat.cleanup # "waiting"
    /\ beat.lost => beat.state = "ended"
    /\ beat.ownerCancelled => beat.lost
    /\ beat.lost => beat.ownerCancelled \/ beat.guardedDone
    /\ beat.ownerCancelled /\ beat.guardedDone => task.raised = "error"

\* Whom a cancellation that was not delivered yet, or was, may come from.
Blames ==
    /\ task.pc \in Timed /\ timer.expired => task.pending
    /\ task.pc \in InBody /\ task.pending =>
         cancels > 0 \/ beat.ownerCancelled \/ (task.pc \in Timed /\ timer.expired)
    /\ task.pc \in InBody /\ task.raised = "cancelled" => cancels > 0 \/ beat.ownerCancelled
    /\ task.pc \in InBody => ~task.deferred /\ task.outcome = "none"
    /\ task.pc \notin InBody /\ (task.deferred \/ task.outcome = "cancelled") => cancels > 0
    /\ task.pc = "cleaning" /\ task.pending => cancels > 0

\* And one that was counted is on its way, or was raised.
Hears ==
    /\ task.pc \in {"acquiring", "adding", "running", "capturing", "saving"} =>
         task.raised = "nothing"
    /\ task.pc = "running" \/ (task.pc = "grace" /\ task.raised # "cancelled") =>
         timer.base = 0
    /\ task.pc \in InBody /\ (cancels > 0 \/ beat.ownerCancelled) =>
         task.pending \/ task.raised = "cancelled" \/ (task.stuck /\ task.raised = "error")
    /\ row.status = "closed" => task.pc \notin InBody
    /\ task.pc = "cleaning" /\ cancels > 0 =>
         \/ task.pending \/ task.deferred \/ task.outcome = "cancelled"
         \/ task.outcome = "error" /\ (row.status # "closed" \/ task.stuck)
    /\ task.stuck => task.pc \in {"recording", "cleaning", "done"}

\* The child is up only in the run and in its grace.
ChildAtWork == child \in {"alive", "asked"} => task.pc \in Timed

\* Where the changes of an answered run are, unless something took the call away.
Keeps ==
    /\ task.pc \in {"running", "capturing", "saving"} => tree
    /\ task.answered => task.pc \notin {"acquiring", "adding", "running", "grace", "killed"}
    /\ task.answered /\ ~task.unread /\ cancels = 0 /\ ~beat.lost =>
         \/ task.pc \in {"capturing", "saving"}
         \/ patch \/ row.status = "cancelled"
         \/ tree /\ task.pc # "removing"

\* What was released is not the call's any more.
Released == beat.cleanup = "released" => row.holder # "owner"

\* Where a cancellation came from, where it went, and what is left behind.
Story == Accounted /\ Beats /\ Blames /\ Hears /\ ChildAtWork /\ Keeps /\ Released
           /\ CancelIsHeard

Inv == TypeOK /\ Story

-----------------------------------------------------------------------------
LEMMA Sorts ==
  /\ PC = InBody \cup {"cleaning", "done"}
  /\ {"acquiring", "adding", "running", "grace", "killed", "capturing", "saving", "removing",
      "recording"} \subseteq InBody
  /\ {"nothing", "error", "cancelled"} \subseteq Raised
  /\ {"none", "ok", "error", "lost", "cancelled"} \subseteq Outcome
  /\ {"none", "alive", "asked", "dead"} \subseteq Child
  BY DEF PC, InBody, Raised, Outcome, Child

\* A cancellation to be taken back was counted.
LEMMA Counts ==
  ASSUME Inv
  PROVE  /\ task.cancelling \in Nat /\ task.cancelling + 1 \in Nat /\ cancels \in Nat
         /\ beat.ownerCancelled => task.cancelling - 1 \in Nat
         /\ timer.expired /\ task.pc \in Timed => task.cancelling - 1 \in Nat
  BY CancelsAssumption, SMT DEF Inv, Story, TypeOK, Accounted, One, Task, Timer, Beat

LEMMA StepAcquire ==
  ASSUME Inv, Acquire
  PROVE  Inv'
  <1>0. TypeOK
    BY DEF Inv
  <1>1. TypeOK'
    BY <1>0, Counts, Sorts DEF TypeOK, Acquire, At, Goto, Task, Timed, Beat, Step
  <1>2. Story'
    BY SMTT(40) DEF Inv, Story, TypeOK, Accounted, Beats, Blames, Hears, ChildAtWork,
       Keeps, Released, CancelIsHeard, One, Acquire, At, Goto, InBody, Timed, Task,
       Timer, Beat, Step, Child, Raised, Outcome, PC
  <1> QED BY <1>1, <1>2 DEF Inv

LEMMA StepAcquireCancelled ==
  ASSUME Inv, AcquireCancelled
  PROVE  Inv'
  <1>0. TypeOK
    BY DEF Inv
  <1>1. TypeOK'
    BY <1>0, Counts, Sorts DEF TypeOK, AcquireCancelled, CancelledAt, Task, Timed, Step
  <1>2. Story'
    BY SMTT(40) DEF Inv, Story, TypeOK, Accounted, Beats, Blames, Hears, ChildAtWork,
       Keeps, Released, CancelIsHeard, One, AcquireCancelled, CancelledAt, InBody,
       Timed, Task, Timer, Beat, Step, Child, Raised, Outcome, PC
  <1> QED BY <1>1, <1>2 DEF Inv

LEMMA StepAddWorktree ==
  ASSUME Inv, AddWorktree
  PROVE  Inv'
  <1>0. TypeOK
    BY DEF Inv
  <1>1. TypeOK'
    BY <1>0, Counts, Sorts DEF TypeOK, AddWorktree, At, Goto, Task, Timed, Timer
  <1>2. Story'
    BY SMTT(40) DEF Inv, Story, TypeOK, Accounted, Beats, Blames, Hears, ChildAtWork,
       Keeps, Released, CancelIsHeard, One, AddWorktree, At, Goto, InBody, Timed, Task,
       Timer, Beat, Step, Child, Raised, Outcome, PC
  <1> QED BY <1>1, <1>2 DEF Inv

LEMMA StepAddFails ==
  ASSUME Inv, AddFails
  PROVE  Inv'
  <1>0. TypeOK
    BY DEF Inv
  <1>1. TypeOK'
    BY <1>0, Counts, Sorts DEF TypeOK, AddFails, At, Raise, Task, Timed
  <1>2. Story'
    BY SMTT(40) DEF Inv, Story, TypeOK, Accounted, Beats, Blames, Hears, ChildAtWork,
       Keeps, Released, CancelIsHeard, One, AddFails, At, Raise, InBody, Timed, Task,
       Timer, Beat, Step, Child, Raised, Outcome, PC
  <1> QED BY <1>1, <1>2 DEF Inv

LEMMA StepAddCancelled ==
  ASSUME Inv, AddCancelled
  PROVE  Inv'
  <1>0. TypeOK
    BY DEF Inv
  <1>1. CASE tree' \in BOOLEAN /\ Raise("recording", "cancelled")
    <2>1. TypeOK'
      BY <1>0, Counts, Sorts, <1>1 DEF TypeOK, AddCancelled, CancelledAt, Raise, Task, Timed
    <2>2. Story'
      BY SMTT(40), <1>1 DEF Inv, Story, TypeOK, Accounted, Beats, Blames, Hears,
         ChildAtWork, Keeps, Released, CancelIsHeard, One, AddCancelled, CancelledAt,
         Raise, InBody, Timed, Task, Timer, Beat, Step, Child, Raised, Outcome, PC
    <2> QED BY <2>1, <2>2 DEF Inv
  <1>2. CASE tree' = TRUE /\ Raise("removing", "cancelled")
    <2>1. TypeOK'
      BY <1>0, Counts, Sorts, <1>2 DEF TypeOK, AddCancelled, CancelledAt, Raise, Task, Timed
    <2>2. Story'
      BY SMTT(40), <1>2 DEF Inv, Story, TypeOK, Accounted, Beats, Blames, Hears,
         ChildAtWork, Keeps, Released, CancelIsHeard, One, AddCancelled, CancelledAt,
         Raise, InBody, Timed, Task, Timer, Beat, Step, Child, Raised, Outcome, PC
    <2> QED BY <2>1, <2>2 DEF Inv
  <1> QED BY <1>1, <1>2 DEF AddCancelled

LEMMA StepSpawnFails ==
  ASSUME Inv, SpawnFails
  PROVE  Inv'
  <1>0. TypeOK
    BY DEF Inv
  <1>1. TypeOK'
    BY <1>0, Counts, Sorts DEF TypeOK, SpawnFails, At, Raise, Task, Timed
  <1>2. Story'
    BY SMTT(40) DEF Inv, Story, TypeOK, Accounted, Beats, Blames, Hears, ChildAtWork,
       Keeps, Released, CancelIsHeard, One, SpawnFails, At, Raise, InBody, Timed, Task,
       Timer, Beat, Step, Child, Raised, Outcome, PC
  <1> QED BY <1>1, <1>2 DEF Inv

LEMMA StepChildEnds ==
  ASSUME Inv, ChildEnds
  PROVE  Inv'
  <1>0. TypeOK
    BY DEF Inv
  <1>1. CASE task' = [task EXCEPT !.pc = "capturing", !.answered = TRUE]
    <2>1. TypeOK'
      BY <1>0, Counts, Sorts, <1>1 DEF TypeOK, ChildEnds, At, Task, Timed
    <2>2. Story'
      BY SMTT(40), <1>1 DEF Inv, Story, TypeOK, Accounted, Beats, Blames, Hears,
         ChildAtWork, Keeps, Released, CancelIsHeard, One, ChildEnds, At, InBody,
         Timed, Task, Timer, Beat, Step, Child, Raised, Outcome, PC
    <2> QED BY <2>1, <2>2 DEF Inv
  <1>2. CASE task' = [task EXCEPT !.pc = "removing", !.raised = "error"]
    <2>1. TypeOK'
      BY <1>0, Counts, Sorts, <1>2 DEF TypeOK, ChildEnds, At, Task, Timed
    <2>2. Story'
      BY SMTT(40), <1>2 DEF Inv, Story, TypeOK, Accounted, Beats, Blames, Hears,
         ChildAtWork, Keeps, Released, CancelIsHeard, One, ChildEnds, At, InBody,
         Timed, Task, Timer, Beat, Step, Child, Raised, Outcome, PC
    <2> QED BY <2>1, <2>2 DEF Inv
  <1> QED BY <1>1, <1>2 DEF ChildEnds

LEMMA StepInterrupted ==
  ASSUME Inv, Interrupted
  PROVE  Inv'
  <1>0. TypeOK
    BY DEF Inv
  <1>1. TypeOK'
    BY <1>0, Counts, Sorts DEF TypeOK, Interrupted, CancelledAt, Terminate, Remaining,
       ByTimer, Uncancel, Task, Timed, Timer
  <1>2. Story'
    BY SMTT(40) DEF Inv, Story, TypeOK, Accounted, Beats, Blames, Hears, ChildAtWork,
       Keeps, Released, CancelIsHeard, One, Interrupted, CancelledAt, Terminate,
       Remaining, ByTimer, Uncancel, InBody, Timed, Task, Timer, Beat, Step, Child,
       Raised, Outcome, PC
  <1> QED BY <1>1, <1>2 DEF Inv

LEMMA StepTooMuch ==
  ASSUME Inv, TooMuch
  PROVE  Inv'
  <1>0. TypeOK
    BY DEF Inv
  <1>1. TypeOK'
    BY <1>0, Counts, Sorts DEF TypeOK, TooMuch, At, Terminate, Task, Timed, Timer
  <1>2. Story'
    BY SMTT(40) DEF Inv, Story, TypeOK, Accounted, Beats, Blames, Hears, ChildAtWork,
       Keeps, Released, CancelIsHeard, One, TooMuch, At, Terminate, InBody, Timed, Task,
       Timer, Beat, Step, Child, Raised, Outcome, PC
  <1> QED BY <1>1, <1>2 DEF Inv

LEMMA StepGraceEnds ==
  ASSUME Inv, GraceEnds
  PROVE  Inv'
  <1>0. TypeOK
    BY DEF Inv
  <1>1. TypeOK'
    BY <1>0, Counts, Sorts DEF TypeOK, GraceEnds, At, Goto, ReleasePipes, Task, Timed
  <1>2. Story'
    BY SMTT(40) DEF Inv, Story, TypeOK, Accounted, Beats, Blames, Hears, ChildAtWork,
       Keeps, Released, CancelIsHeard, One, GraceEnds, At, Goto, ReleasePipes, InBody,
       Timed, Task, Timer, Beat, Step, Child, Raised, Outcome, PC
  <1> QED BY <1>1, <1>2 DEF Inv

LEMMA StepGraceExpires ==
  ASSUME Inv, GraceExpires
  PROVE  Inv'
  <1>0. TypeOK
    BY DEF Inv
  <1>1. TypeOK'
    BY <1>0, Counts, Sorts DEF TypeOK, GraceExpires, CancelledAt, Remaining, ByTimer,
       Uncancel, Task, Timed
  <1>2. Story'
    BY SMTT(40) DEF Inv, Story, TypeOK, Accounted, Beats, Blames, Hears, ChildAtWork,
       Keeps, Released, CancelIsHeard, One, GraceExpires, CancelledAt, Remaining,
       ByTimer, Uncancel, InBody, Timed, Task, Timer, Beat, Step, Child, Raised,
       Outcome, PC
  <1> QED BY <1>1, <1>2 DEF Inv

LEMMA StepGraceCut ==
  ASSUME Inv, GraceCut
  PROVE  Inv'
  <1>0. TypeOK
    BY DEF Inv
  <1>1. TypeOK'
    BY <1>0, Counts, Sorts DEF TypeOK, GraceCut, CancelledAt, Remaining, ByTimer,
       Uncancel, ReleasePipes, Task, Timed
  <1>2. Story'
    BY SMTT(40) DEF Inv, Story, TypeOK, Accounted, Beats, Blames, Hears, ChildAtWork,
       Keeps, Released, CancelIsHeard, One, GraceCut, CancelledAt, Remaining, ByTimer,
       Uncancel, ReleasePipes, InBody, Timed, Task, Timer, Beat, Step, Child, Raised,
       Outcome, PC
  <1> QED BY <1>1, <1>2 DEF Inv

LEMMA StepKilledEnds ==
  ASSUME Inv, KilledEnds
  PROVE  Inv'
  <1>0. TypeOK
    BY DEF Inv
  <1>1. TypeOK'
    BY <1>0, Counts, Sorts DEF TypeOK, KilledEnds, Raise, ReleasePipes, Task, Timed
  <1>2. Story'
    BY SMTT(40) DEF Inv, Story, TypeOK, Accounted, Beats, Blames, Hears, ChildAtWork,
       Keeps, Released, CancelIsHeard, One, KilledEnds, Raise, ReleasePipes, InBody,
       Timed, Task, Timer, Beat, Step, Child, Raised, Outcome, PC
  <1> QED BY <1>1, <1>2 DEF Inv

LEMMA StepCapture ==
  ASSUME Inv, Capture
  PROVE  Inv'
  <1>0. TypeOK
    BY DEF Inv
  <1>1. CASE task' = [task EXCEPT !.pc = "saving"]
    <2>1. TypeOK'
      BY <1>0, Counts, Sorts, <1>1 DEF TypeOK, Capture, At, After, Task, Timed
    <2>2. Story'
      BY SMTT(40), <1>1 DEF Inv, Story, TypeOK, Accounted, Beats, Blames, Hears,
         ChildAtWork, Keeps, Released, CancelIsHeard, One, Capture, At, After, InBody,
         Timed, Task, Timer, Beat, Step, Child, Raised, Outcome, PC
    <2> QED BY <2>1, <2>2 DEF Inv
  <1>2. CASE task' = [task EXCEPT !.pc = After(FALSE), !.raised = "error"]
    <2>1. TypeOK'
      BY <1>0, Counts, Sorts, <1>2 DEF TypeOK, Capture, At, After, Task, Timed
    <2>2. Story'
      BY SMTT(40), <1>2 DEF Inv, Story, TypeOK, Accounted, Beats, Blames, Hears,
         ChildAtWork, Keeps, Released, CancelIsHeard, One, Capture, At, After, InBody,
         Timed, Task, Timer, Beat, Step, Child, Raised, Outcome, PC
    <2> QED BY <2>1, <2>2 DEF Inv
  <1>3. CASE task' = [task EXCEPT !.pc = "removing", !.raised = "error", !.unread = TRUE]
    <2>1. TypeOK'
      BY <1>0, Counts, Sorts, <1>3 DEF TypeOK, Capture, At, After, Task, Timed
    <2>2. Story'
      BY SMTT(40), <1>3 DEF Inv, Story, TypeOK, Accounted, Beats, Blames, Hears,
         ChildAtWork, Keeps, Released, CancelIsHeard, One, Capture, At, After, InBody,
         Timed, Task, Timer, Beat, Step, Child, Raised, Outcome, PC
    <2> QED BY <2>1, <2>2 DEF Inv
  <1> QED BY <1>1, <1>2, <1>3 DEF Capture

LEMMA StepCaptureCancelled ==
  ASSUME Inv, CaptureCancelled
  PROVE  Inv'
  <1>0. TypeOK
    BY DEF Inv
  <1>1. TypeOK'
    BY <1>0, Counts, Sorts DEF TypeOK, CaptureCancelled, CancelledAt, Raise, Task, Timed
  <1>2. Story'
    BY SMTT(40) DEF Inv, Story, TypeOK, Accounted, Beats, Blames, Hears, ChildAtWork,
       Keeps, Released, CancelIsHeard, One, CaptureCancelled, CancelledAt, Raise,
       InBody, Timed, Task, Timer, Beat, Step, Child, Raised, Outcome, PC
  <1> QED BY <1>1, <1>2 DEF Inv

LEMMA StepSavePatch ==
  ASSUME Inv, SavePatch
  PROVE  Inv'
  <1>0. TypeOK
    BY DEF Inv
  <1>1. TypeOK'
    BY <1>0, Counts, Sorts DEF TypeOK, SavePatch, At, Goto, After, Task, Timed
  <1>2. Story'
    BY SMTT(40) DEF Inv, Story, TypeOK, Accounted, Beats, Blames, Hears, ChildAtWork,
       Keeps, Released, CancelIsHeard, One, SavePatch, At, Goto, After, InBody, Timed,
       Task, Timer, Beat, Step, Child, Raised, Outcome, PC
  <1> QED BY <1>1, <1>2 DEF Inv

LEMMA StepSaveCancelled ==
  ASSUME Inv, SaveCancelled
  PROVE  Inv'
  <1>0. TypeOK
    BY DEF Inv
  <1>1. TypeOK'
    BY <1>0, Counts, Sorts DEF TypeOK, SaveCancelled, CancelledAt, Raise, Task, Timed
  <1>2. Story'
    BY SMTT(40) DEF Inv, Story, TypeOK, Accounted, Beats, Blames, Hears, ChildAtWork,
       Keeps, Released, CancelIsHeard, One, SaveCancelled, CancelledAt, Raise, InBody,
       Timed, Task, Timer, Beat, Step, Child, Raised, Outcome, PC
  <1> QED BY <1>1, <1>2 DEF Inv

LEMMA StepRemoveWorktree ==
  ASSUME Inv, RemoveWorktree
  PROVE  Inv'
  <1>0. TypeOK
    BY DEF Inv
  <1>1. CASE task' = [task EXCEPT !.pc = "recording"]
    <2>1. TypeOK'
      BY <1>0, Counts, Sorts, <1>1 DEF TypeOK, RemoveWorktree, At, Task, Timed
    <2>2. Story'
      BY SMTT(40), <1>1 DEF Inv, Story, TypeOK, Accounted, Beats, Blames, Hears,
         ChildAtWork, Keeps, Released, CancelIsHeard, One, RemoveWorktree, At, InBody,
         Timed, Task, Timer, Beat, Step, Child, Raised, Outcome, PC
    <2> QED BY <2>1, <2>2 DEF Inv
  <1>2. CASE task' = [task EXCEPT !.pc = "recording", !.raised = "error", !.stuck = TRUE]
    <2>1. TypeOK'
      BY <1>0, Counts, Sorts, <1>2 DEF TypeOK, RemoveWorktree, At, Task, Timed
    <2>2. Story'
      BY SMTT(40), <1>2 DEF Inv, Story, TypeOK, Accounted, Beats, Blames, Hears,
         ChildAtWork, Keeps, Released, CancelIsHeard, One, RemoveWorktree, At, InBody,
         Timed, Task, Timer, Beat, Step, Child, Raised, Outcome, PC
    <2> QED BY <2>1, <2>2 DEF Inv
  <1> QED BY <1>1, <1>2 DEF RemoveWorktree

LEMMA StepRemoveCancelled ==
  ASSUME Inv, RemoveCancelled
  PROVE  Inv'
  <1>0. TypeOK
    BY DEF Inv
  <1>1. TypeOK'
    BY <1>0, Counts, Sorts DEF TypeOK, RemoveCancelled, CancelledAt, Raise, Task, Timed
  <1>2. Story'
    BY SMTT(40) DEF Inv, Story, TypeOK, Accounted, Beats, Blames, Hears, ChildAtWork,
       Keeps, Released, CancelIsHeard, One, RemoveCancelled, CancelledAt, Raise, InBody,
       Timed, Task, Timer, Beat, Step, Child, Raised, Outcome, PC
  <1> QED BY <1>1, <1>2 DEF Inv

LEMMA StepRecordStep ==
  ASSUME Inv, RecordStep
  PROVE  Inv'
  <1>0. TypeOK
    BY DEF Inv
  <1>1. TypeOK'
    BY <1>0, Counts, Sorts DEF TypeOK, RecordStep, At, LeaveBody, Leaving, TakesBack,
       Closed, Uncancel, Task, Timed, Beat, Step
  <1>2. Story'
    BY SMTT(40) DEF Inv, Story, TypeOK, Accounted, Beats, Blames, Hears, ChildAtWork,
       Keeps, Released, CancelIsHeard, One, RecordStep, At, LeaveBody, Leaving,
       TakesBack, Closed, Uncancel, InBody, Timed, Task, Timer, Beat, Step, Child,
       Raised, Outcome, PC
  <1> QED BY <1>1, <1>2 DEF Inv

LEMMA StepRecordFails ==
  ASSUME Inv, RecordFails
  PROVE  Inv'
  <1>0. TypeOK
    BY DEF Inv
  <1>1. TypeOK'
    BY <1>0, Counts, Sorts DEF TypeOK, RecordFails, At, LeaveBody, Leaving, TakesBack,
       Uncancel, Task, Timed, Beat
  <1>2. Story'
    BY SMTT(40) DEF Inv, Story, TypeOK, Accounted, Beats, Blames, Hears, ChildAtWork,
       Keeps, Released, CancelIsHeard, One, RecordFails, At, LeaveBody, Leaving,
       TakesBack, Uncancel, InBody, Timed, Task, Timer, Beat, Step, Child, Raised,
       Outcome, PC
  <1> QED BY <1>1, <1>2 DEF Inv

LEMMA StepRecordCancelled ==
  ASSUME Inv, RecordCancelled
  PROVE  Inv'
  <1>0. TypeOK
    BY DEF Inv
  <1>1. TypeOK'
    BY <1>0, Counts, Sorts DEF TypeOK, RecordCancelled, CancelledAt, LeaveBody, Leaving,
       TakesBack, Closed, Uncancel, Task, Timed, Beat, Step
  <1>2. Story'
    BY SMTT(40) DEF Inv, Story, TypeOK, Accounted, Beats, Blames, Hears, ChildAtWork,
       Keeps, Released, CancelIsHeard, One, RecordCancelled, CancelledAt, LeaveBody,
       Leaving, TakesBack, Closed, Uncancel, InBody, Timed, Task, Timer, Beat, Step,
       Child, Raised, Outcome, PC
  <1> QED BY <1>1, <1>2 DEF Inv

LEMMA StepCleanupCancelled ==
  ASSUME Inv, CleanupCancelled
  PROVE  Inv'
  <1>0. TypeOK
    BY DEF Inv
  <1>1. TypeOK'
    BY <1>0, Counts, Sorts DEF TypeOK, CleanupCancelled, CancelledAt, Shield, Task, Timed
  <1>2. Story'
    BY SMTT(40) DEF Inv, Story, TypeOK, Accounted, Beats, Blames, Hears, ChildAtWork,
       Keeps, Released, CancelIsHeard, One, CleanupCancelled, CancelledAt, Shield,
       InBody, Timed, Task, Timer, Beat, Step, Child, Raised, Outcome, PC
  <1> QED BY <1>1, <1>2 DEF Inv

LEMMA StepReturn ==
  ASSUME Inv, Return
  PROVE  Inv'
  <1>0. TypeOK
    BY DEF Inv
  <1>1. TypeOK'
    BY <1>0, Counts, Sorts DEF TypeOK, Return, At, Uncancel, Task, Timed, Beat
  <1>2. Story'
    BY SMTT(40) DEF Inv, Story, TypeOK, Accounted, Beats, Blames, Hears, ChildAtWork,
       Keeps, Released, CancelIsHeard, One, Return, At, Uncancel, InBody, Timed, Task,
       Timer, Beat, Step, Child, Raised, Outcome, PC
  <1> QED BY <1>1, <1>2 DEF Inv

LEMMA StepTimerFires ==
  ASSUME Inv, TimerFires
  PROVE  Inv'
  <1>0. TypeOK
    BY DEF Inv
  <1>1. TypeOK'
    BY <1>0, Counts, Sorts DEF TypeOK, TimerFires, Task, Timed, Timer
  <1>2. Story'
    BY SMTT(40) DEF Inv, Story, TypeOK, Accounted, Beats, Blames, Hears, ChildAtWork,
       Keeps, Released, CancelIsHeard, One, TimerFires, InBody, Timed, Task, Timer,
       Beat, Step, Child, Raised, Outcome, PC
  <1> QED BY <1>1, <1>2 DEF Inv

LEMMA StepWake ==
  ASSUME Inv, Wake
  PROVE  Inv'
  <1>0. TypeOK
    BY DEF Inv
  <1>1. TypeOK'
    BY <1>0, Counts, Sorts DEF TypeOK, Wake, Stop, Beat
  <1>2. Story'
    BY SMTT(40) DEF Inv, Story, TypeOK, Accounted, Beats, Blames, Hears, ChildAtWork,
       Keeps, Released, CancelIsHeard, One, Wake, Stop, InBody, Timed, Task, Timer,
       Beat, Step, Child, Raised, Outcome, PC
  <1> QED BY <1>1, <1>2 DEF Inv

LEMMA StepRenewed ==
  ASSUME Inv, Renewed
  PROVE  Inv'
  <1>0. TypeOK
    BY DEF Inv
  <1>1. TypeOK'
    BY <1>0, Counts, Sorts DEF TypeOK, Renewed, Beat, Step
  <1>2. Story'
    BY SMTT(40) DEF Inv, Story, TypeOK, Accounted, Beats, Blames, Hears, ChildAtWork,
       Keeps, Released, CancelIsHeard, One, Renewed, InBody, Timed, Task, Timer, Beat,
       Step, Child, Raised, Outcome, PC
  <1> QED BY <1>1, <1>2 DEF Inv

LEMMA StepRenewsNoMore ==
  ASSUME Inv, RenewsNoMore
  PROVE  Inv'
  <1>0. TypeOK
    BY DEF Inv
  <1>1. TypeOK'
    BY <1>0, Counts, Sorts DEF TypeOK, RenewsNoMore, Beat
  <1>2. Story'
    BY SMTT(40) DEF Inv, Story, TypeOK, Accounted, Beats, Blames, Hears, ChildAtWork,
       Keeps, Released, CancelIsHeard, One, RenewsNoMore, InBody, Timed, Task, Timer,
       Beat, Step, Child, Raised, Outcome, PC
  <1> QED BY <1>1, <1>2 DEF Inv

LEMMA StepRenewFails ==
  ASSUME Inv, RenewFails
  PROVE  Inv'
  <1>0. TypeOK
    BY DEF Inv
  <1>1. /\ beat.state = "renewing"
        /\ UNCHANGED <<timer, row, child, tree, patch, cancels>>
    BY DEF RenewFails
  <1>2. CASE ~beat.guardedDone
    <2>1. /\ beat' = [beat EXCEPT !.state = "ended", !.lost = TRUE, !.ownerCancelled = TRUE]
          /\ task' = [task EXCEPT !.cancelling = @ + 1, !.pending = TRUE]
      BY <1>2, Zenon DEF RenewFails, Interrupts
    <2>2. TypeOK'
      BY <1>0, <1>1, <2>1, Counts DEF TypeOK, Task, Beat
    <2>3. Story'
      BY <1>1, <1>2, <2>1, SMTT(40) DEF Inv, TypeOK, Story, Accounted, Beats, Blames,
         Hears, ChildAtWork, Keeps, Released, CancelIsHeard, One, InBody, Timed, Task,
         Timer, Beat, Step, Child, Raised, Outcome, PC
    <2> QED BY <2>2, <2>3 DEF Inv
  <1>3. CASE beat.guardedDone
    <2>1. /\ beat' = [beat EXCEPT !.state = "ended", !.lost = TRUE, !.ownerCancelled =
           FALSE]
          /\ task' = task
      BY <1>3, Zenon DEF RenewFails, Interrupts
    <2>2. TypeOK'
      BY <1>0, <1>1, <2>1, Counts DEF TypeOK, Task, Beat
    <2>3. Story'
      BY <1>1, <1>3, <2>1, SMTT(40) DEF Inv, TypeOK, Story, Accounted, Beats, Blames,
         Hears, ChildAtWork, Keeps, Released, CancelIsHeard, One, InBody, Timed, Task,
         Timer, Beat, Step, Child, Raised, Outcome, PC
    <2> QED BY <2>2, <2>3 DEF Inv
  <1> QED BY <1>0, <1>2, <1>3 DEF TypeOK, Beat

LEMMA StepRelease ==
  ASSUME Inv, Release
  PROVE  Inv'
  <1>0. TypeOK
    BY DEF Inv
  <1>1. CASE /\ beat' = [beat EXCEPT !.cleanup = "released"]
             /\ row' = IF row.holder = "owner"
                       THEN [row EXCEPT !.holder = "nobody", !.expired = FALSE] ELSE row
    <2>1. TypeOK'
      BY <1>0, Counts, Sorts, <1>1 DEF TypeOK, Release, Beat, Step
    <2>2. Story'
      BY SMTT(40), <1>1 DEF Inv, Story, TypeOK, Accounted, Beats, Blames, Hears,
         ChildAtWork, Keeps, Released, CancelIsHeard, One, Release, InBody, Timed,
         Task, Timer, Beat, Step, Child, Raised, Outcome, PC
    <2> QED BY <2>1, <2>2 DEF Inv
  <1>2. CASE beat' = [beat EXCEPT !.cleanup = "failed"] /\ UNCHANGED row
    <2>1. TypeOK'
      BY <1>0, Counts, Sorts, <1>2 DEF TypeOK, Release, Beat, Step
    <2>2. Story'
      BY SMTT(40), <1>2 DEF Inv, Story, TypeOK, Accounted, Beats, Blames, Hears,
         ChildAtWork, Keeps, Released, CancelIsHeard, One, Release, InBody, Timed,
         Task, Timer, Beat, Step, Child, Raised, Outcome, PC
    <2> QED BY <2>1, <2>2 DEF Inv
  <1> QED BY <1>1, <1>2 DEF Release

LEMMA StepCancelFromOutside ==
  ASSUME Inv, CancelFromOutside
  PROVE  Inv'
  <1>0. TypeOK
    BY DEF Inv
  <1>1. task' \in Task
    BY <1>0, Counts DEF TypeOK, CancelFromOutside, Task
  <1>2. cancels' \in 0 .. MaxCancels
    BY <1>0, CancelsAssumption DEF TypeOK, CancelFromOutside
  <1>3. TypeOK'
    BY <1>0, <1>1, <1>2 DEF TypeOK, CancelFromOutside
  <1>4. Story'
    BY SMTT(40) DEF Inv, Story, TypeOK, Accounted, Beats, Blames, Hears, ChildAtWork,
       Keeps, Released, CancelIsHeard, One, CancelFromOutside, InBody, Timed, Task,
       Timer, Beat, Step, Child, Raised, Outcome, PC
  <1> QED BY <1>3, <1>4 DEF Inv

LEMMA StepExpire ==
  ASSUME Inv, Expire
  PROVE  Inv'
  <1>0. TypeOK
    BY DEF Inv
  <1>1. TypeOK'
    BY <1>0, Counts, Sorts DEF TypeOK, Expire, Step
  <1>2. Story'
    BY SMTT(40) DEF Inv, Story, TypeOK, Accounted, Beats, Blames, Hears, ChildAtWork,
       Keeps, Released, CancelIsHeard, One, Expire, InBody, Timed, Task, Timer, Beat,
       Step, Child, Raised, Outcome, PC
  <1> QED BY <1>1, <1>2 DEF Inv

LEMMA StepTake ==
  ASSUME Inv, Take
  PROVE  Inv'
  <1>0. TypeOK
    BY DEF Inv
  <1>1. TypeOK'
    BY <1>0, Counts, Sorts DEF TypeOK, Take, Step
  <1>2. Story'
    BY SMTT(40) DEF Inv, Story, TypeOK, Accounted, Beats, Blames, Hears, ChildAtWork,
       Keeps, Released, CancelIsHeard, One, Take, InBody, Timed, Task, Timer, Beat,
       Step, Child, Raised, Outcome, PC
  <1> QED BY <1>1, <1>2 DEF Inv

LEMMA StepGiveUp ==
  ASSUME Inv, GiveUp
  PROVE  Inv'
  <1>0. TypeOK
    BY DEF Inv
  <1>1. TypeOK'
    BY <1>0, Counts, Sorts DEF TypeOK, GiveUp, Step
  <1>2. Story'
    BY SMTT(40) DEF Inv, Story, TypeOK, Accounted, Beats, Blames, Hears, ChildAtWork,
       Keeps, Released, CancelIsHeard, One, GiveUp, InBody, Timed, Task, Timer, Beat,
       Step, Child, Raised, Outcome, PC
  <1> QED BY <1>1, <1>2 DEF Inv

LEMMA StepReap ==
  ASSUME Inv, Reap
  PROVE  Inv'
  <1>0. TypeOK
    BY DEF Inv
  <1>1. TypeOK'
    BY <1>0, Counts, Sorts DEF TypeOK, Reap, Step
  <1>2. Story'
    BY SMTT(40) DEF Inv, Story, TypeOK, Accounted, Beats, Blames, Hears, ChildAtWork,
       Keeps, Released, CancelIsHeard, One, Reap, InBody, Timed, Task, Timer, Beat,
       Step, Child, Raised, Outcome, PC
  <1> QED BY <1>1, <1>2 DEF Inv

LEMMA StepCancelWorkflow ==
  ASSUME Inv, CancelWorkflow
  PROVE  Inv'
  <1>0. TypeOK
    BY DEF Inv
  <1>1. TypeOK'
    BY <1>0, Counts, Sorts DEF TypeOK, CancelWorkflow, Step
  <1>2. Story'
    BY SMTT(40) DEF Inv, Story, TypeOK, Accounted, Beats, Blames, Hears, ChildAtWork,
       Keeps, Released, CancelIsHeard, One, CancelWorkflow, InBody, Timed, Task, Timer,
       Beat, Step, Child, Raised, Outcome, PC
  <1> QED BY <1>1, <1>2 DEF Inv

LEMMA StepDies ==
  ASSUME Inv, Dies
  PROVE  Inv'
  <1>0. TypeOK
    BY DEF Inv
  <1>1. TypeOK'
    BY <1>0, Counts, Sorts DEF TypeOK, Dies
  <1>2. Story'
    BY SMTT(40) DEF Inv, Story, TypeOK, Accounted, Beats, Blames, Hears, ChildAtWork,
       Keeps, Released, CancelIsHeard, One, Dies, InBody, Timed, Task, Timer, Beat,
       Step, Child, Raised, Outcome, PC
  <1> QED BY <1>1, <1>2 DEF Inv

LEMMA StepStutter ==
  ASSUME Inv, UNCHANGED vars
  PROVE  Inv'
  <1>1. TypeOK'
    BY DEF Inv, TypeOK, vars
  <1>2. Story'
    BY SMTT(40) DEF Inv, Story, Accounted, Beats, Blames, Hears, ChildAtWork, Keeps, Released,
       CancelIsHeard, One, vars
  <1> QED BY <1>1, <1>2 DEF Inv

LEMMA InvInit ==
  ASSUME Init
  PROVE  Inv
  <1>1. TypeOK
    <2>1. task \in Task /\ timer \in Timer
      BY Sorts DEF Init, Task, Timer
    <2>2. beat \in Beat /\ row \in Step
      BY DEF Init, Beat, Step
    <2>3. child \in Child /\ cancels \in 0 .. MaxCancels
      BY CancelsAssumption DEF Init, Child
    <2> QED BY <2>1, <2>2, <2>3 DEF Init, TypeOK
  <1>2. Story
    BY SMTT(40) DEF Init, Story, Accounted, One, Beats, Blames, Hears, ChildAtWork, Keeps,
       Released, CancelIsHeard, InBody, Timed, PC
  <1> QED BY <1>1, <1>2 DEF Inv

LEMMA InvStep ==
  ASSUME Inv, [Next]_vars
  PROVE  Inv'
  <1>1. CASE Body
    BY <1>1, StepAcquire, StepAcquireCancelled, StepAddWorktree, StepAddFails,
       StepAddCancelled, StepSpawnFails, StepChildEnds, StepInterrupted, StepTooMuch,
       StepGraceEnds, StepGraceExpires, StepGraceCut, StepKilledEnds, StepCapture,
       StepCaptureCancelled, StepSavePatch, StepSaveCancelled, StepRemoveWorktree,
       StepRemoveCancelled, StepRecordStep, StepRecordFails, StepRecordCancelled,
       StepCleanupCancelled, StepReturn DEF Body
  <1>2. CASE Heartbeat
    BY <1>2, StepWake, StepRenewed, StepRenewsNoMore, StepRenewFails DEF Heartbeat
  <1>3. CASE Outside
    BY <1>3, StepCancelFromOutside, StepExpire, StepTake, StepGiveUp, StepReap,
       StepCancelWorkflow, StepDies DEF Outside
  <1> QED BY <1>1, <1>2, <1>3, StepTimerFires, StepRelease, StepStutter DEF Next

-----------------------------------------------------------------------------
\* The inductive invariant.
THEOREM InvHolds == Spec => []Inv
  BY InvInit, InvStep, PTL DEF Spec

\* The owner, the heartbeat and the row keep their types; the count of cancellations does
\* not fall below zero, whoever takes one back.
THEOREM TypeCorrect == Spec => []TypeOK
  <1>1. Inv => TypeOK
    BY DEF Inv
  <1> QED BY <1>1, InvHolds, PTL

\* The task leaves with the client's cancellations counted, and the heartbeat's only where
\* the body answered it with an error of its own.
THEOREM CountKept == Spec => []CountIsTheClients
  <1>1. Inv => CountIsTheClients
    BY SMT DEF Inv, Story, TypeOK, Task, Beat, Accounted, One, Timed, Beats, CountIsTheClients
  <1> QED BY <1>1, InvHolds, PTL

\* A client's cancellation is swallowed by a database that fails, or a git that does not
\* answer while the worktree is removed, and nothing else, and none is invented.
THEOREM CancelHeard == Spec => []CancelIsHeard
  <1>1. Inv => CancelIsHeard
    BY DEF Inv, Story
  <1> QED BY <1>1, InvHolds, PTL

\* The lease is let go whatever the call ends with.
THEOREM LeaseLetGo == Spec => []LeaseIsLetGo
  <1>1. Inv => LeaseIsLetGo
    BY SMT DEF Inv, Story, TypeOK, Beats, Beat, Released, LeaseIsLetGo
  <1> QED BY <1>1, InvHolds, PTL

\* The CLI does not outlive its call.
THEOREM NoneRunsAway == Spec => []NoRunawayChild
  <1>1. Inv => NoRunawayChild
    BY DEF Inv, Story, TypeOK, Child, ChildAtWork, Timed, NoRunawayChild
  <1> QED BY <1>1, InvHolds, PTL

\* What an answered run changed is somewhere, whether git refused to read it or not, unless
\* something took the call away or git did not answer.
THEOREM WorkKept == Spec => []WorkIsKept
  <1>1. Inv => WorkIsKept
    BY DEF Inv, Story, Keeps, WorkIsKept
  <1> QED BY <1>1, InvHolds, PTL

-----------------------------------------------------------------------------
(* The sandbox: what the probes can tell of the host they ran on. *)

\* A report that something is refused comes from a probe that ran and was refused.
LEMMA RefusedIsRefused ==
  ASSUME NEW started \in BOOLEAN, NEW let \in BOOLEAN, Report(started, let) = "no"
  PROVE  started /\ ~let
  BY DEF Report

\* The three things a sandbox is believed to keep a worker from, it does.
LEMMA ProbesMeasure ==
  ASSUME NEW h \in Hosts, NEW report \in SignalReports(h), holds(h, report), internet_available(h)
  PROVE  ~h.outside /\ h.signal # "sent" /\ ~h.unix
  <1>1. ~h.outside
    <2>1. Report("outside" \in h.started, h.outside) = "no"
      BY DEF holds, verify, probe_write
    <2> QED BY <2>1 DEF Report
  <1>2. h.signal # "sent"
    BY DEF holds, verify, probe_signal, SignalReports
  <1>3. ~h.unix
    <2>1. Report("unix" \in h.started, h.unix) = "no"
      BY DEF internet_available, verify_internet, probe_connect
    <2> QED BY <2>1 DEF Report
  <1> QED BY <1>1, <1>2, <1>3

LEMMA WorkersBounded == WorkersAreBounded
  <1> SUFFICES ASSUME NEW h \in Hosts, NEW report \in SignalReports(h), NEW r \in SANDBOX_GATED_WRITE,
                      NEW worktree \in Trees, Launched(h, report, r, worktree)
               PROVE  Bounded(h, worktree)
    BY DEF WorkersAreBounded
  <1>1. r = "opencode"
    BY DEF Launched, code_adapter_for, WRITE_ADAPTERS, SANDBOX_GATED_WRITE
  <1>2. execute(h, report, worktree)
    BY <1>1 DEF Launched
  <1>3. worktree \in {"clean", "masked"}
    BY <1>2 DEF execute, wrap, multiply_linked, Trees
  <1> QED BY <1>2, <1>3, ProbesMeasure DEF execute, Bounded

LEMMA LoopbackMeasured == LoopbackIsOnePort
  <1> SUFFICES ASSUME NEW h \in Hosts, NEW n \in Loopbacks, loopback_available(h, n)
               PROVE  n.granted /\ ~n.other /\ (n.address => ~n.elsewhere)
    BY DEF LoopbackIsOnePort
  <1>1. /\ n.started \in BOOLEAN /\ n.granted \in BOOLEAN /\ n.other \in BOOLEAN
        /\ n.address \in BOOLEAN /\ n.binds \in BOOLEAN /\ n.elsewhere \in BOOLEAN
    BY DEF Loopbacks
  <1>2. /\ Report(n.started, n.granted) = "yes" /\ Report(n.started, n.other) = "no"
        /\ n.address => Report(n.started /\ n.binds, n.elsewhere) = "no"
    BY DEF loopback_available, verify_loopback
  <1>3. n.granted
    BY <1>2 DEF Report
  <1>4. ~n.other
    BY <1>1, <1>2, RefusedIsRefused
  <1>5. ASSUME n.address PROVE ~n.elsewhere
    BY <1>2, <1>5 DEF Report
  <1> QED BY <1>3, <1>4, <1>5

\* While a child is up, the sandbox it may have been started under really bounds it, on
\* whatever host.
THEOREM ChildBounded == Spec => []ChildIsBounded
  <1>1. ChildIsBounded
    BY WorkersBounded, LoopbackMeasured DEF ChildIsBounded, BoundsAreMeasured
  <1> QED BY <1>1, PTL

-----------------------------------------------------------------------------
(* The streams: what a reader answers from is the whole of the script, or a whole step. *)

\* A set of numbers has a least one.
LEMMA Least ==
  ASSUME NEW T \in SUBSET Nat, T # {}
  PROVE  \E x \in T : \A y \in T : x <= y
  <1> DEFINE R == {ss \in Nat \X Nat : ss[1] < ss[2]}
  <1>0. OpToRel(<, Nat) = R
    BY Zenon DEF OpToRel
  <1>1. IsWellFoundedOn(R, Nat)
    BY <1>0, NatLessThanWellFounded, Zenon
  <1>2. PICK x \in T : \A y \in T : ~(<<y, x>> \in R)
    <2> HIDE DEF R
    <2> QED BY <1>1, WFMin
  <1>3. ASSUME NEW y \in T PROVE x <= y
    <2>1. x \in Nat /\ y \in Nat
      OBVIOUS
    <2>2. y < x => <<y, x>> \in R
      BY <2>1
    <2>3. ~(y < x)
      BY <1>2, <2>2
    <2> QED BY <2>1, <2>3
  <1> QED BY <1>3

\* A turn, or a step of it, is harmless events and then its end.
LEMMA EndedShape ==
  ASSUME NEW r, NEW length \in Nat, NEW script \in Ended(r, length)
  PROVE  /\ script \in Seq([kind : Kinds \cup TerminalKinds(r), session : Sessions])
         /\ Len(script) \in Nat \ {0}
         /\ script[Len(script)].kind \in TerminalKinds(r)
         /\ \A i \in 1 .. Len(script) - 1 : script[i].kind \in Kinds
  <1>1. PICK body \in SeqOf(StreamEvents, length),
             e \in [kind : TerminalKinds(r), session : {"s"}] : script = Append(body, e)
    BY DEF Ended
  <1> DEFINE E == [kind : Kinds \cup TerminalKinds(r), session : Sessions]
  <1>2. PICK m \in 0 .. length : body \in [1 .. m -> StreamEvents]
    BY <1>1 DEF SeqOf
  <1>3. body \in Seq(StreamEvents)
    BY <1>2
  <1>4. body \in Seq(E) /\ e \in E
    <2>1. StreamEvents \subseteq E
      BY DEF StreamEvents
    <2>2. \A i \in 1 .. Len(body) : body[i] \in E
      BY <1>3, <2>1
    <2>3. body \in Seq(E)
      <3> HIDE DEF E
      <3> QED BY <1>3, <2>2
    <2> QED BY <2>3 DEF Sessions
  <1> HIDE DEF E
  <1>5. /\ script \in Seq(E) /\ Len(script) = Len(body) + 1 /\ script[Len(body) + 1] = e
        /\ \A i \in 1 .. Len(body) : script[i] = body[i]
        /\ Len(body) \in Nat
    BY <1>1, <1>4
  <1>6. \A i \in 1 .. Len(body) : body[i].kind \in Kinds
    <2>1. \A i \in 1 .. Len(body) : body[i] \in StreamEvents
      BY <1>3
    <2> QED BY <2>1 DEF StreamEvents
  <1>7. e.kind \in TerminalKinds(r)
    BY <1>1
  <1> QED BY <1>5, <1>6, <1>7 DEF E

\* A shorter body is among the longer ones.
LEMMA EndedGrows ==
  ASSUME NEW r, NEW step \in Ended(r, 1)
  PROVE  step \in Ended(r, 2)
  <1>1. SeqOf(StreamEvents, 1) \subseteq SeqOf(StreamEvents, 2)
    BY DEF SeqOf
  <1> QED BY <1>1 DEF Ended

\* A script is one of those, or two of them.
LEMMA TwoSteps ==
  ASSUME NEW r, NEW script \in Scripts(r), script \notin Ended(r, 2)
  PROVE  \E first \in Ended(r, 1), second \in Ended(r, 1) : script = first \o second
  BY DEF Scripts

LEMMA ScriptShape ==
  ASSUME NEW r, NEW script \in Scripts(r)
  PROVE  /\ script \in Seq([kind : Kinds \cup TerminalKinds(r), session : Sessions])
         /\ Len(script) \in Nat
  <1>1. CASE script \in Ended(r, 2)
    BY <1>1, EndedShape
  <1>2. CASE script \notin Ended(r, 2)
    <2>1. PICK first \in Ended(r, 1), second \in Ended(r, 1) : script = first \o second
      BY <1>2, TwoSteps
    <2> DEFINE E == [kind : Kinds \cup TerminalKinds(r), session : Sessions]
    <2>2. first \in Seq(E) /\ second \in Seq(E)
      BY EndedShape
    <2> HIDE DEF E
    <2>3. script \in Seq(E)
      BY <2>1, <2>2
    <2> QED BY <2>3 DEF E
  <1> QED BY <1>1, <1>2

\* What is printed is the script as far as it got: all of it, if the child finished.
LEMMA PrintedShape ==
  ASSUME NEW r, NEW script \in Scripts(r), NEW out \in Printed(script)
  PROVE  \E k \in 0 .. Len(script) :
           /\ DOMAIN out.events = 1 .. k
           /\ Len(out.events) = k
           /\ out \in [events : Seq([kind : Kinds \cup TerminalKinds(r), session : Sessions]),
                      rc : {0, 1}]
           /\ \A i \in 1 .. k : out.events[i] = script[i]
           /\ out.rc = 0 => k = Len(script)
           /\ k = Len(script) => out.events = script
  <1> DEFINE E == [kind : Kinds \cup TerminalKinds(r), session : Sessions]
  <1>1. script \in Seq(E) /\ Len(script) \in Nat
    BY ScriptShape
  <1>2. PICK k \in 0 .. Len(script), rc \in {0, 1} :
          out = [events |-> SubSeq(script, 1, k), rc |-> rc]
    BY DEF Printed
  <1>3. out.events = SubSeq(script, 1, k)
    BY <1>2
  <1> HIDE DEF E
  <1>4. /\ DOMAIN out.events = 1 .. k /\ Len(out.events) = k /\ out.events \in Seq(E)
        /\ out \in [events : Seq(E), rc : {0, 1}]
        /\ \A i \in 1 .. k : out.events[i] = script[i]
    BY <1>1, <1>2, <1>3
  <1>5. out.rc = 0 => k = Len(script)
    <2> SUFFICES ASSUME out.rc = 0, k # Len(script) PROVE FALSE
      OBVIOUS
    <2>1. k \in 0 .. Len(script) - 1 /\ rc = 0
      BY <1>1, <1>2
    <2>2. out \notin {[events |-> SubSeq(script, 1, j), rc |-> 0] : j \in 0 .. Len(script) - 1}
      BY DEF Printed
    <2> QED BY <1>2, <2>1, <2>2
  <1>6. k = Len(script) => out.events = script
    BY <1>1, <1>3, SubSeqFull
  <1> QED BY <1>4, <1>5, <1>6 DEF E

\* The end of a turn of one step is seen only with everything before it.
LEMMA EndIsWhole ==
  ASSUME NEW r, NEW script \in Ended(r, 2), NEW out \in Printed(script), NEW kinds,
         kinds \cap Kinds = {}, Has(out, kinds)
  PROVE  out.events = script
  <1>0. script \in Scripts(r)
    BY DEF Scripts
  <1>1. PICK k \in 0 .. Len(script) :
           /\ DOMAIN out.events = 1 .. k
           /\ \A i \in 1 .. k : out.events[i] = script[i]
           /\ k = Len(script) => out.events = script
    BY <1>0, PrintedShape
  <1>2. PICK i \in 1 .. k : script[i].kind \in kinds
    BY <1>1 DEF Has
  <1>3. Len(script) \in Nat \ {0} /\ \A j \in 1 .. Len(script) - 1 : script[j].kind \in Kinds
    BY EndedShape
  <1>4. i \notin 1 .. Len(script) - 1
    BY <1>2, <1>3
  <1>5. k = Len(script)
    BY <1>2, <1>3, <1>4
  <1> QED BY <1>1, <1>5

\* The end of a step is seen only with a whole step before it.
LEMMA StepIsWhole ==
  ASSUME NEW r \in Stepwise, NEW script \in Scripts(r), NEW out \in Printed(script),
         Has(out, {"step_finish"})
  PROVE  \E step \in Ended(r, 2) : IsPrefix(step, out.events)
  <1> DEFINE E == [kind : Kinds \cup TerminalKinds(r), session : Sessions]
  <1>1. CASE script \in Ended(r, 2)
    <2>1. out.events = script
      BY <1>1, EndIsWhole DEF Kinds
    <2>2. IsPrefix(script, script)
      BY DEF IsPrefix
    <2> QED BY <1>1, <2>1, <2>2
  <1>2. CASE script \notin Ended(r, 2)
    <2>1. PICK first \in Ended(r, 1), second \in Ended(r, 1) : script = first \o second
      BY <1>2, TwoSteps
    <2>2. PICK k \in 0 .. Len(script) :
             /\ DOMAIN out.events = 1 .. k /\ Len(out.events) = k
             /\ out.events \in Seq(E)
             /\ \A i \in 1 .. k : out.events[i] = script[i]
      BY PrintedShape
    <2>3. /\ first \in Seq(E) /\ second \in Seq(E)
          /\ Len(first) \in Nat \ {0}
          /\ \A i \in 1 .. Len(first) - 1 : first[i].kind \in Kinds
      BY EndedShape
    <2> HIDE DEF E
    <2>4. /\ Len(script) = Len(first) + Len(second) /\ Len(second) \in Nat
          /\ \A i \in 1 .. Len(first) : script[i] = first[i]
      BY <2>1, <2>3
    <2>5. PICK i \in 1 .. k : script[i].kind = "step_finish"
      BY <2>2 DEF Has
    <2>6. i \notin 1 .. Len(first) - 1
      BY <2>3, <2>4, <2>5 DEF Kinds
    <2>7. Len(first) <= k
      BY <2>3, <2>5, <2>6
    <2>8. \A j \in 1 .. Len(first) : out.events[j] = first[j]
      BY <2>2, <2>3, <2>4, <2>7
    <2>9. IsPrefix(first, out.events)
      <3>1. SubSeq(first, 1, Len(first)) = SubSeq(out.events, 1, Len(first))
        BY <2>2, <2>3, <2>7, <2>8
      <3> QED BY <2>2, <2>7, <3>1 DEF IsPrefix
    <2> QED BY <2>9, EndedGrows
  <1> QED BY <1>1, <1>2

LEMMA ExitIsWhole ==
  ASSUME NEW r, NEW script \in Scripts(r), NEW out \in Printed(script), out.rc = 0
  PROVE  out.events = script
  BY PrintedShape

\* Where there is one, the first of them names the session.
LEMMA FirstIsOne ==
  ASSUME NEW out, NEW n \in Nat, DOMAIN out.events = 1 .. n, NEW kinds, NEW fallback, Has(out, kinds)
  PROVE  \E i \in DOMAIN out.events :
           out.events[i].kind \in kinds /\ FirstSession(out, kinds, fallback) = out.events[i].session
  <1> DEFINE at == {i \in DOMAIN out.events : out.events[i].kind \in kinds}
             first == CHOOSE i \in at : \A j \in at : i <= j
  <1>1. at \in SUBSET Nat /\ at # {}
    BY DEF Has
  <1>2. \E i \in at : \A j \in at : i <= j
    <2> HIDE DEF at
    <2> QED BY <1>1, Least
  <1>3. first \in at
    <2> HIDE DEF at
    <2> QED BY <1>2
  <1>4. FirstSession(out, kinds, fallback) = out.events[first].session
    BY <1>1 DEF FirstSession
  <1> QED BY <1>3, <1>4

\* A turn over the budget is read as far as it got.
LEMMA WithinIsPart ==
  ASSUME NEW S, NEW out \in [events : Seq(S), rc : {0, 1}], NEW limit, NEW kinds,
         Has(WithinTurns(out, limit), kinds)
  PROVE  Has(out, kinds)
  <1> DEFINE turns(k) == Cardinality({i \in 1 .. k : out.events[i].kind \in {"say", "blank"}})
             over == {k \in DOMAIN out.events : turns(k) > limit}
             m == CHOOSE k \in over : \A j \in over : k <= j
             read == WithinTurns(out, limit)
  <1>1. DOMAIN out.events = 1 .. Len(out.events) /\ Len(out.events) \in Nat
    OBVIOUS
  <1>2. read = IF over = {} THEN out ELSE [out EXCEPT !.events = SubSeq(@, 1, m)]
    BY DEF WithinTurns
  <1>3. over \subseteq DOMAIN out.events
    OBVIOUS
  <1> HIDE DEF over, read
  <1>4. CASE over = {}
    BY <1>2, <1>4 DEF read
  <1>5. CASE over # {}
    <2>1. m \in over
      BY <1>1, <1>3, <1>5, Least
    <2>2. m \in 1 .. Len(out.events)
      BY <1>1, <1>3, <2>1
    <2> HIDE DEF m
    <2>3. read = [out EXCEPT !.events = SubSeq(out.events, 1, m)]
      BY <1>2, <1>5
    <2>4. read.events = SubSeq(out.events, 1, m)
      BY <2>3
    <2> QED BY <1>1, <2>2, <2>4 DEF Has, read
  <1> QED BY <1>4, <1>5

\* What the readers of whole turns take for an answer: the whole script.
LEMMA AcceptedIsWhole ==
  ASSUME NEW r \in StreamRuntimes \ Stepwise, NEW script \in Scripts(r), NEW out \in Printed(script),
         NEW web \in BOOLEAN, NEW resume, ReadTurn(r, out, web, resume).ok
  PROVE  out.events = script
  <1> USE DEF Verdict, Answered, Refused
  <1>1. CASE r = "codex"
    <2>1. ReadCodex(out, web, resume).ok
      BY <1>1 DEF ReadTurn
    <2>2. out.rc = 0
      BY <2>1 DEF ReadCodex
    <2> QED BY <2>2, ExitIsWhole
  <1>2. CASE r = "codex_write"
    <2>1. ReadCodexWrite(out).ok
      BY <1>2 DEF ReadTurn
    <2>2. out.rc = 0
      BY <2>1 DEF ReadCodexWrite
    <2> QED BY <2>2, ExitIsWhole
  <1>3. CASE r = "claude"
    <2>1. ReadClaude(out, resume).ok
      BY <1>3 DEF ReadTurn
    <2>2. out.rc = 0
      BY <2>1 DEF ReadClaude
    <2> QED BY <2>2, ExitIsWhole
  <1>4. CASE r = "claude_web"
    <2>1. ReadClaudeWeb(out, resume, 1).ok
      BY <1>4 DEF ReadTurn
    <2>2. Has(WithinTurns(out, 1), {"result"})
      BY <2>1 DEF ReadClaudeWeb
    <2>3. Has(out, {"result"})
      BY <2>2, PrintedShape, WithinIsPart
    <2>4. script \in Ended(r, 2)
      BY <1>4 DEF Scripts, Stepwise
    <2> QED BY <2>3, <2>4, EndIsWhole DEF Kinds
  <1>5. CASE r = "copilot"
    <2>1. ReadCopilot(out, IF resume = NoSession THEN "s" ELSE resume).ok
      BY <1>5 DEF ReadTurn
    <2>2. out.rc = 0
      BY <2>1 DEF ReadCopilot
    <2> QED BY <2>2, ExitIsWhole
  <1> QED BY <1>1, <1>2, <1>3, <1>4, <1>5 DEF StreamRuntimes, Stepwise

\* Where every event has to name the session, the turn's is the one they name.
LEMMA OneSession ==
  ASSUME NEW out, NEW n \in Nat, DOMAIN out.events = 1 .. n, NEW resume,
         Has(out, {"step_finish"}), OneSessionIn(out, resume)
  PROVE  LET session == FirstSession(out, Kinds \cup {"step_finish"}, resume)
         IN  /\ \A i \in DOMAIN out.events : out.events[i].session = session
             /\ resume # NoSession => session = resume
  <1> DEFINE kinds == Kinds \cup {"step_finish"}
             session == FirstSession(out, kinds, resume)
  <1>1. Has(out, kinds)
    BY DEF Has
  <1>2. PICK i \in DOMAIN out.events : session = out.events[i].session
    <2> HIDE DEF kinds
    <2> QED BY <1>1, FirstIsOne
  <1>3. CASE resume = NoSession
    <2>1. \A j \in DOMAIN out.events : out.events[j].session = FirstSession(out, kinds, NoSession)
      BY <1>3 DEF OneSessionIn
    <2> QED BY <1>3, <2>1
  <1>4. CASE resume # NoSession
    <2>1. \A j \in DOMAIN out.events : out.events[j].session = resume
      BY <1>4 DEF OneSessionIn
    <2> QED BY <1>2, <1>4, <2>1
  <1> QED BY <1>3, <1>4

\* What is printed is a sequence, however far it got.
LEMMA PrintedLength ==
  ASSUME NEW r, NEW script \in Scripts(r), NEW out \in Printed(script)
  PROVE  \E n \in Nat : DOMAIN out.events = 1 .. n
  <1>1. PICK k \in 0 .. Len(script) :
           DOMAIN out.events = 1 .. k /\ \A i \in 1 .. k : out.events[i] = script[i]
    BY PrintedShape
  <1>2. Len(script) \in Nat
    BY ScriptShape
  <1> QED BY <1>1, <1>2

LEMMA StreamsWhole == StreamsAreWhole
  <1> SUFFICES ASSUME NEW r \in StreamRuntimes, NEW script \in Scripts(r), NEW out \in Printed(script),
                      NEW web \in BOOLEAN, NEW resume \in {NoSession, "s", "t"},
                      ReadTurn(r, out, web, resume).ok
               PROVE  LET turn == ReadTurn(r, out, web, resume)
                      IN  /\ r \notin Stepwise => out.events = script
                          /\ r \in Stepwise => \E step \in Ended(r, 2) : IsPrefix(step, out.events)
                          /\ r \in {"opencode", "copilot"} /\ resume # NoSession => turn.session = resume
                          /\ r \in Stepwise =>
                               \A i \in DOMAIN out.events : out.events[i].session = turn.session
    BY DEF StreamsAreWhole
  <1> USE DEF Verdict, Answered, Refused
  <1>1. CASE r \notin Stepwise
    <2>1. out.events = script
      BY <1>1, AcceptedIsWhole
    <2>2. CASE r = "copilot"
      <3>1. ReadTurn(r, out, web, resume)
              = ReadCopilot(out, IF resume = NoSession THEN "s" ELSE resume)
        BY <2>2 DEF ReadTurn
      <3>2. resume # NoSession => ReadTurn(r, out, web, resume).session = resume
        BY <3>1 DEF ReadCopilot
      <3> QED BY <1>1, <2>1, <2>2, <3>2
    <2> QED BY <1>1, <2>1, <2>2 DEF Stepwise
  <1>2. CASE r = "opencode"
    <2> DEFINE session == FirstSession(out, Kinds \cup {"step_finish"}, resume)
    <2>1. ReadTurn(r, out, web, resume) = ReadOpencode(out, resume)
      BY <1>2 DEF ReadTurn
    <2>2. /\ OneSessionIn(out, resume) /\ ReadOpencode(out, resume).session = session
          /\ Has(out, {"step_finish"})
      BY <2>1 DEF ReadOpencode, StepFinished
    <2>3. PICK n \in Nat : DOMAIN out.events = 1 .. n
      BY PrintedLength
    <2>4. /\ \A i \in DOMAIN out.events : out.events[i].session = session
          /\ resume # NoSession => session = resume
      BY <2>2, <2>3, OneSession
    <2>5. \E step \in Ended(r, 2) : IsPrefix(step, out.events)
      BY <1>2, <2>2, StepIsWhole DEF Stepwise
    <2> HIDE DEF session
    <2> QED BY <1>2, <2>1, <2>2, <2>4, <2>5 DEF Stepwise
  <1>3. CASE r = "opencode_write"
    <2> DEFINE session == FirstSession(out, Kinds \cup {"step_finish"}, NoSession)
    <2>1. ReadTurn(r, out, web, resume) = ReadOpencodeWrite(out)
      BY <1>3 DEF ReadTurn
    <2>2. /\ OneSessionIn(out, NoSession) /\ ReadOpencodeWrite(out).session = session
          /\ Has(out, {"step_finish"})
      BY <2>1 DEF ReadOpencodeWrite, StepFinished
    <2>3. PICK n \in Nat : DOMAIN out.events = 1 .. n
      BY PrintedLength
    <2>4. \A i \in DOMAIN out.events : out.events[i].session = session
      BY <2>2, <2>3, OneSession
    <2>5. \E step \in Ended(r, 2) : IsPrefix(step, out.events)
      BY <1>3, <2>2, StepIsWhole DEF Stepwise
    <2> HIDE DEF session
    <2> QED BY <1>3, <2>1, <2>2, <2>4, <2>5 DEF Stepwise
  <1> QED BY <1>1, <1>2, <1>3 DEF Stepwise

-----------------------------------------------------------------------------
(* The models: a name is taken for another only of the same version. *)

\* A shorter name in a longer one has the same version, if both have one.
LEMMA VersionsInside ==
  ASSUME NEW longer \in Seq(Tokens), NEW shorter \in Seq(Tokens),
         NEW start \in 0 .. Len(longer) - Len(shorter),
         SubSeq(longer, start + 1, start + Len(shorter)) = shorter,
         AroundMatch(SubSeq(longer, 1, start), shorter,
                     SubSeq(longer, start + Len(shorter) + 1, Len(longer))),
         Versions(shorter) # {}
  PROVE  Versions(longer) = Versions(shorter)
  <1> DEFINE width == Len(shorter)
             n == Len(longer)
             before == SubSeq(longer, 1, start)
             after == SubSeq(longer, start + width + 1, n)
  <1>1. width \in Nat /\ n \in Nat /\ start \in Nat /\ start + width <= n
        /\ DOMAIN longer = 1 .. n /\ DOMAIN shorter = 1 .. width
    OBVIOUS
  <1>2. \A j \in 1 .. width : shorter[j] = longer[start + j]
    <2> DEFINE inside == SubSeq(longer, start + 1, start + width)
    <2>1. \A j \in 1 .. width : inside[j] = longer[start + j]
      BY <1>1
    <2>2. inside = shorter
      OBVIOUS
    <2> HIDE DEF inside
    <2> QED BY <2>1, <2>2
  <1>3. \A i \in 1 .. start : longer[i] \in ToSet(before)
    <2>1. DOMAIN before = 1 .. start /\ \A i \in 1 .. start : before[i] = longer[i]
      BY <1>1
    <2> HIDE DEF before
    <2> QED BY <2>1 DEF ToSet
  <1>4. \A i \in start + width + 1 .. n : longer[i] \in ToSet(after)
    <2>1. /\ DOMAIN after = 1 .. n - (start + width)
          /\ \A k \in 1 .. n - (start + width) : after[k] = longer[start + width + k]
      BY <1>1
    <2> HIDE DEF after
    <2> SUFFICES ASSUME NEW i \in start + width + 1 .. n
                 PROVE  longer[i] \in ToSet(after)
      OBVIOUS
    <2>2. /\ i - (start + width) \in 1 .. n - (start + width)
          /\ i = start + width + (i - (start + width))
      BY <1>1
    <2> HIDE DEF width, n
    <2>3. after[i - (start + width)] = longer[i]
      BY <2>1, <2>2
    <2> QED BY <2>1, <2>2, <2>3 DEF ToSet
  <1>5. \A t \in ToSet(before) : ~IsNumber(t)
    BY DEF AroundMatch
  <1>6. \A t \in ToSet(after) : IsSnapshot(t)
    BY DEF AroundMatch, Versions
  <1> HIDE DEF before, after, width, n
  <1>7. ASSUME NEW t \in Versions(longer)
        PROVE  t \in Versions(shorter)
    <2>1. PICK i \in 1 .. n : t = longer[i]
      BY <1>1 DEF Versions, ToSet
    <2>2. i \notin 1 .. start
      BY <1>3, <1>5, <2>1 DEF Versions
    <2>3. i \notin start + width + 1 .. n
      BY <1>4, <1>6, <2>1 DEF Versions
    <2>4. i - start \in 1 .. width /\ start + (i - start) = i
      BY <1>1, <2>2, <2>3
    <2>5. shorter[i - start] = t
      BY <1>2, <2>1, <2>4
    <2> QED BY <1>1, <2>4, <2>5 DEF Versions, ToSet
  <1>8. ASSUME NEW t \in Versions(shorter)
        PROVE  t \in Versions(longer)
    <2>1. PICK j \in 1 .. width : t = shorter[j]
      BY <1>1 DEF Versions, ToSet
    <2>2. start + j \in 1 .. n /\ longer[start + j] = t
      BY <1>1, <1>2, <2>1
    <2> QED BY <1>1, <2>2 DEF Versions, ToSet
  <1> QED BY <1>7, <1>8

LEMMA NamesAreSequences ==
  ASSUME NEW name \in ModelNames
  PROVE  name \in Seq(Tokens)
  <1>1. PICK m \in 0 .. 3 : name \in [1 .. m -> Tokens]
    BY DEF ModelNames, SeqOf
  <1> QED BY <1>1

LEMMA ModelsDoAgree == ModelsAgree
  <1> SUFFICES ASSUME NEW configured \in ModelNames, NEW actual \in ModelNames,
                      CheckModel(configured, actual)
               PROVE  /\ Variants(configured) = Variants(actual)
                      /\ Versions(configured) # {} /\ Versions(actual) # {} =>
                           Versions(configured) = Versions(actual)
    BY DEF ModelsAgree
  <1>1. Variants(configured) = Variants(actual)
    BY DEF CheckModel, VARIANT_TOKENS, Variants
  <1>2. configured \in Seq(Tokens) /\ actual \in Seq(Tokens)
    BY NamesAreSequences
  <1>3. SameModel(configured, actual)
    BY DEF CheckModel
  <1>4. ASSUME configured # actual, Versions(configured) # {}, Versions(actual) # {}
        PROVE  Versions(configured) = Versions(actual)
    <2>1. CASE Len(actual) >= Len(configured)
      <3>1. PICK start \in 0 .. Len(actual) - Len(configured) :
              /\ SubSeq(actual, start + 1, start + Len(configured)) = configured
              /\ AroundMatch(SubSeq(actual, 1, start), configured,
                             SubSeq(actual, start + Len(configured) + 1, Len(actual)))
        BY <1>3, <1>4, <2>1 DEF SameModel
      <3> QED BY <1>2, <1>4, <3>1, VersionsInside
    <2>2. CASE ~(Len(actual) >= Len(configured))
      <3>1. PICK start \in 0 .. Len(configured) - Len(actual) :
              /\ SubSeq(configured, start + 1, start + Len(actual)) = actual
              /\ AroundMatch(SubSeq(configured, 1, start), actual,
                             SubSeq(configured, start + Len(actual) + 1, Len(configured)))
        BY <1>3, <1>4, <2>2 DEF SameModel
      <3> QED BY <1>2, <1>4, <3>1, VersionsInside
    <2> QED BY <2>1, <2>2
  <1> QED BY <1>1, <1>4

-----------------------------------------------------------------------------
(* A prompt in parts. *)

\* What is delivered, run by run.
LEMMA DeliverSteps ==
  ASSUME NEW runs, Len(runs) \in 1 .. 3, NEW resume
  PROVE  \E state :
           /\ state[0] = [ok |-> TRUE, conversation |-> resume]
           /\ \A i \in 1 .. Len(runs) :
                state[i] = Delivered(state[i - 1], runs[i], i, i = Len(runs))
           /\ Deliver(runs, resume) = state[Len(runs)]
  <1> DEFINE n == Len(runs)
             s0 == [ok |-> TRUE, conversation |-> resume]
             next(s, i) == Delivered(s, runs[i], i, i = n)
             s1 == next(s0, 1)
             s2 == next(s1, 2)
             s3 == next(s2, 3)
             g == [i \in 0 .. n |-> IF i = 0 THEN s0 ELSE IF i = 1 THEN s1
                                    ELSE IF i = 2 THEN s2 ELSE s3]
             state[i \in 0 .. n] == IF i = 0 THEN s0 ELSE next(state[i - 1], i)
  <1>0. n \in 1 .. 3
    OBVIOUS
  <1>1. Deliver(runs, resume) = state[n]
    BY DEF Deliver
  <1> HIDE DEF n, next, s0
  <1>2. /\ g[0] = s0 /\ g[1] = s1
        /\ 2 \in 0 .. n => g[2] = s2
        /\ 3 \in 0 .. n => g[3] = s3
    <2> HIDE DEF s1, s2, s3
    <2> QED BY <1>0
  <1>3. g = [i \in 0 .. n |-> IF i = 0 THEN s0 ELSE next(g[i - 1], i)]
    <2>1. ASSUME NEW i \in 0 .. n
          PROVE  g[i] = IF i = 0 THEN s0 ELSE next(g[i - 1], i)
      <3>1. i \in {0, 1, 2, 3}
        BY <1>0
      <3> HIDE DEF g
      <3> QED BY <1>0, <1>2, <3>1
    <2> QED BY <2>1
  <1> HIDE DEF g, s1, s2, s3
  <1>4. state = [i \in 0 .. n |-> IF i = 0 THEN s0 ELSE next(state[i - 1], i)]
    <2>1. \E f : f = [i \in 0 .. n |-> IF i = 0 THEN s0 ELSE next(f[i - 1], i)]
      BY <1>3
    <2> QED BY <2>1, Zenon
  <1> HIDE DEF state
  <1>5. state[0] = s0 /\ \A i \in 1 .. n : state[i] = next(state[i - 1], i)
    BY <1>0, <1>4
  <1> QED BY <1>1, <1>5 DEF s0, n, next

LEMMA PromptsWhole == PromptsAreWhole
  <1> SUFFICES ASSUME NEW runs \in [1 .. 1 -> Runs] \cup [1 .. 3 -> Runs], NEW resume,
                      Deliver(runs, resume).ok
               PROVE  LET end == Deliver(runs, resume)
                      IN  /\ \A i \in DOMAIN runs :
                               /\ runs[i].conversation \in {NoSession, end.conversation}
                               /\ runs[i].model # "wrong" /\ runs[i].whole
                          /\ Len(runs) > 1 => runs[1].said = "ACK 1" /\ runs[2].said = "ACK 2"
    BY DEF PromptsAreWhole
  <1>1. Len(runs) \in {1, 3} /\ DOMAIN runs = 1 .. Len(runs)
    OBVIOUS
  <1>2. PICK state :
           /\ state[0] = [ok |-> TRUE, conversation |-> resume]
           /\ \A i \in 1 .. Len(runs) :
                state[i] = Delivered(state[i - 1], runs[i], i, i = Len(runs))
           /\ Deliver(runs, resume) = state[Len(runs)]
    <2>1. Len(runs) \in 1 .. 3
      BY <1>1
    <2> QED BY <2>1, DeliverSteps
  \* A run that is taken is whole, by the right model, and of the conversation so far.
  <1> DEFINE Taken(i) ==
               /\ state[i - 1].ok /\ runs[i].whole /\ runs[i].model # "wrong"
               /\ state[i].conversation # NoSession
               /\ state[i - 1].conversation # NoSession =>
                    state[i].conversation = state[i - 1].conversation
               /\ runs[i].conversation \in {NoSession, state[i].conversation}
               /\ i # Len(runs) => runs[i].said = ACK[i]
  <1>3. ASSUME NEW i \in 1 .. Len(runs), state[i].ok
        PROVE  Taken(i)
    <2>1. state[i] = Delivered(state[i - 1], runs[i], i, i = Len(runs))
      BY <1>2
    <2> QED BY <1>3, <2>1 DEF Delivered
  <1> HIDE DEF Taken
  <1>4. CASE Len(runs) = 1
    <2>1. Taken(1)
      BY <1>2, <1>3, <1>4
    <2> QED BY <1>1, <1>2, <1>4, <2>1 DEF Taken
  <1>5. CASE Len(runs) = 3
    <2>1. Taken(3)
      BY <1>2, <1>3, <1>5
    <2>2. Taken(2)
      BY <1>3, <1>5, <2>1 DEF Taken
    <2>3. Taken(1)
      BY <1>3, <1>5, <2>2 DEF Taken
    <2>4. /\ state[1].conversation = state[3].conversation
          /\ state[2].conversation = state[3].conversation
      BY <2>1, <2>2, <2>3 DEF Taken
    <2>5. runs[1].said = "ACK 1" /\ runs[2].said = "ACK 2"
      <3>1. runs[1].said = ACK[1] /\ runs[2].said = ACK[2]
        BY <1>5, <2>2, <2>3 DEF Taken
      <3> QED BY <3>1 DEF ACK
    <2>6. ASSUME NEW i \in DOMAIN runs
          PROVE  /\ runs[i].conversation \in {NoSession, state[3].conversation}
                 /\ runs[i].model # "wrong" /\ runs[i].whole
      <3>1. i = 1 \/ i = 2 \/ i = 3
        BY <1>1, <1>5
      <3> QED BY <2>1, <2>2, <2>3, <2>4, <3>1 DEF Taken
    <2> QED BY <1>2, <1>5, <2>5, <2>6
  <1> QED BY <1>1, <1>4, <1>5

\* A run that was answered took a whole answer, or one of opencode's with a whole step, of
\* the right session and from the configured model.
THEOREM OutcomeEarned == Spec => []OutcomeIsEarned
  <1>1. OutcomeIsEarned
    BY StreamsWhole, ModelsDoAgree, PromptsWhole DEF OutcomeIsEarned, AnswerIsEarned
  <1> QED BY <1>1, PTL

-----------------------------------------------------------------------------
(* The usage: what cannot be read is noted. *)

\* A sum of usages, one by one.
LEMMA TotalSteps ==
  ASSUME NEW usages, Len(usages) \in 1 .. 5
  PROVE  \E sum :
           /\ sum[0] = Quiet(0)
           /\ \A i \in 1 .. Len(usages) : sum[i] = UsageAdd(sum[i - 1], usages[i])
           /\ UsageTotal(usages) = sum[Len(usages)]
  <1> DEFINE n == Len(usages)
             next(s, i) == UsageAdd(s, usages[i])
             s0 == Quiet(0)
             s1 == next(s0, 1)
             s2 == next(s1, 2)
             s3 == next(s2, 3)
             s4 == next(s3, 4)
             s5 == next(s4, 5)
             g == [i \in 0 .. n |-> IF i = 0 THEN s0 ELSE IF i = 1 THEN s1
                                    ELSE IF i = 2 THEN s2 ELSE IF i = 3 THEN s3
                                    ELSE IF i = 4 THEN s4 ELSE s5]
             sum[i \in 0 .. n] == IF i = 0 THEN s0 ELSE next(sum[i - 1], i)
  <1>0. n \in 1 .. 5
    OBVIOUS
  <1>1. UsageTotal(usages) = sum[n]
    BY DEF UsageTotal
  <1> HIDE DEF n, next, s0
  <1>2. /\ g[0] = s0 /\ g[1] = s1
        /\ 2 \in 0 .. n => g[2] = s2
        /\ 3 \in 0 .. n => g[3] = s3
        /\ 4 \in 0 .. n => g[4] = s4
        /\ 5 \in 0 .. n => g[5] = s5
    <2> HIDE DEF s1, s2, s3, s4, s5
    <2> QED BY <1>0
  <1>3. g = [i \in 0 .. n |-> IF i = 0 THEN s0 ELSE next(g[i - 1], i)]
    <2>1. ASSUME NEW i \in 0 .. n
          PROVE  g[i] = IF i = 0 THEN s0 ELSE next(g[i - 1], i)
      <3>1. i \in {0, 1, 2, 3, 4, 5}
        BY <1>0
      <3> HIDE DEF g
      <3> QED BY <1>0, <1>2, <3>1
    <2> QED BY <2>1
  <1> HIDE DEF g, s1, s2, s3, s4, s5
  <1>4. sum = [i \in 0 .. n |-> IF i = 0 THEN s0 ELSE next(sum[i - 1], i)]
    <2>1. \E f : f = [i \in 0 .. n |-> IF i = 0 THEN s0 ELSE next(f[i - 1], i)]
      BY <1>3
    <2> QED BY <2>1, Zenon
  <1> HIDE DEF sum
  <1>5. sum[0] = s0 /\ \A i \in 1 .. n : sum[i] = next(sum[i - 1], i)
    BY <1>0, <1>4
  <1> QED BY <1>1, <1>5 DEF s0, n, next

\* A sum of counts, count by count.
LEMMA SumSteps ==
  ASSUME NEW counts, NEW n \in 1 .. 5, DOMAIN counts = 1 .. n
  PROVE  \E sum :
           /\ sum[0] = Quiet(0)
           /\ \A i \in 1 .. n : sum[i] = UsageAdd(sum[i - 1], UsageCount(counts[i]))
           /\ UsageSum(counts) = sum[n]
  <1> DEFINE usages == [i \in 1 .. n |-> UsageCount(counts[i])]
  <1>1. Len(usages) = n /\ \A i \in 1 .. n : usages[i] = UsageCount(counts[i])
    OBVIOUS
  <1>2. UsageSum(counts) = UsageTotal(usages)
    BY DEF UsageSum
  <1> HIDE DEF usages
  <1>3. PICK sum :
           /\ sum[0] = Quiet(0)
           /\ \A i \in 1 .. Len(usages) : sum[i] = UsageAdd(sum[i - 1], usages[i])
           /\ UsageTotal(usages) = sum[Len(usages)]
    BY <1>1, TotalSteps
  <1> QED BY <1>1, <1>2, <1>3

LEMMA Adds ==
  ASSUME NEW a \in Usage, NEW b \in Usage
  PROVE  /\ UsageAdd(a, b) \in Usage
         /\ UsageAdd(a, b).tokens = a.tokens + b.tokens
         /\ UsageAdd(a, b).caveats = a.caveats + b.caveats
         /\ a.tokens \in Nat /\ b.tokens \in Nat /\ a.caveats \in Nat /\ b.caveats \in Nat
  BY DEF Usage, UsageAdd

LEMMA Quiets ==
  /\ Quiet(0) \in Usage /\ Quiet(0).tokens = 0 /\ Quiet(0).caveats = 0
  /\ Caveat(0) \in Usage /\ Caveat(0).tokens = 0 /\ Caveat(0).caveats = 1
  BY DEF Usage, Quiet, Caveat

\* A count is what is known of it, and one that is not known is noted.
LEMMA CountRead ==
  ASSUME NEW v \in Reported
  PROVE  /\ UsageCount(v) \in Usage
         /\ UsageCount(v).tokens = Known(v)
         /\ Known(v) \in Nat
         /\ Hidden(v) => UsageCount(v).caveats > 0
  <1>1. CASE v = Absent
    BY <1>1 DEF UsageCount, Absent, Known, Hidden, Quiet, Usage, ParseCount
  <1>2. CASE v = Unreadable
    BY <1>2 DEF UsageCount, Absent, Unreadable, Known, Hidden, Caveat, Usage, ParseCount
  <1>3. ASSUME NEW n \in {-1, 0, 2}, v = Counted(n)
        PROVE  /\ UsageCount(v) \in Usage
               /\ UsageCount(v).tokens = Known(v)
               /\ Known(v) \in Nat
               /\ Hidden(v) => UsageCount(v).caveats > 0
    <2>1. v.is = "count" /\ v.n = n /\ v # Absent
      BY <1>3 DEF Counted, Absent
    <2> QED BY <2>1 DEF UsageCount, Known, Hidden, Quiet, Caveat, Usage, ParseCount
  <1> QED BY <1>1, <1>2, <1>3 DEF Reported

\* One more count adds what is known of it.
LEMMA PlusCount ==
  ASSUME NEW s \in Usage, NEW v \in Reported
  PROVE  LET sum == UsageAdd(s, UsageCount(v))
         IN  /\ sum \in Usage
             /\ sum.tokens = s.tokens + Known(v)
             /\ (s.caveats > 0 \/ Hidden(v)) => sum.caveats > 0
  <1>1. /\ UsageCount(v) \in Usage /\ UsageCount(v).tokens = Known(v)
        /\ Hidden(v) => UsageCount(v).caveats > 0
    BY CountRead
  <1> DEFINE u == UsageCount(v)
  <1> HIDE DEF u
  <1>2. /\ UsageAdd(s, u) \in Usage
        /\ UsageAdd(s, u).tokens = s.tokens + u.tokens
        /\ UsageAdd(s, u).caveats = s.caveats + u.caveats
        /\ s.caveats \in Nat /\ u.caveats \in Nat
    BY <1>1, Adds DEF u
  <1> QED BY <1>1, <1>2 DEF u

\* A sum of counts is what is known of each, and says if one is not.
LEMMA FourCounts ==
  ASSUME NEW a \in Reported, NEW b \in Reported, NEW c \in Reported,
         NEW d \in Reported
  PROVE  LET sum == UsageSum(<<a, b, c, d>>)
         IN  /\ sum \in Usage
             /\ sum.tokens = Known(a) + Known(b) + Known(c) + Known(d)
             /\ (\E v \in {a, b, c, d} : Hidden(v)) => sum.caveats > 0
  <1> DEFINE s1 == UsageAdd(Quiet(0), UsageCount(a))
             s2 == UsageAdd(s1, UsageCount(b))
             s3 == UsageAdd(s2, UsageCount(c))
             s4 == UsageAdd(s3, UsageCount(d))
  <1>0. Quiet(0) \in Usage /\ Quiet(0).tokens = 0 /\ Known(a) \in Nat
    BY Quiets, CountRead
  <1>1. s1 \in Usage /\ s1.tokens = Known(a) /\ (Hidden(a) => s1.caveats > 0)
    <2>1. s1 \in Usage /\ s1.tokens = Quiet(0).tokens + Known(a) /\ (Hidden(a) => s1.caveats > 0)
      BY <1>0, PlusCount
    <2> QED BY <1>0, <2>1
  <1> HIDE DEF s1
  <1>2. /\ s2 \in Usage /\ s2.tokens = Known(a) + Known(b)
        /\ (Hidden(a) \/ Hidden(b) => s2.caveats > 0)
    BY <1>1, PlusCount
  <1> HIDE DEF s2
  <1>3. /\ s3 \in Usage /\ s3.tokens = Known(a) + Known(b) + Known(c)
        /\ (Hidden(a) \/ Hidden(b) \/ Hidden(c) => s3.caveats > 0)
    BY <1>2, PlusCount
  <1> HIDE DEF s3
  <1>4. /\ s4 \in Usage /\ s4.tokens = Known(a) + Known(b) + Known(c) + Known(d)
        /\ (Hidden(a) \/ Hidden(b) \/ Hidden(c) \/ Hidden(d) => s4.caveats > 0)
    BY <1>3, PlusCount
  <1>5. UsageSum(<<a, b, c, d>>) = s4
    <2> DEFINE counts == <<a, b, c, d>>
    <2>1. /\ DOMAIN counts = 1 .. 4
          /\ counts[1] = a /\ counts[2] = b /\ counts[3] = c /\ counts[4] = d
      OBVIOUS
    <2> HIDE DEF counts
    <2>2. PICK sum :
             /\ sum[0] = Quiet(0)
             /\ \A i \in 1 .. 4 : sum[i] = UsageAdd(sum[i - 1], UsageCount(counts[i]))
             /\ UsageSum(counts) = sum[4]
      BY <2>1, SumSteps
    <2>3. /\ sum[1] = UsageAdd(sum[0], UsageCount(a))
          /\ sum[2] = UsageAdd(sum[1], UsageCount(b))
          /\ sum[3] = UsageAdd(sum[2], UsageCount(c))
          /\ sum[4] = UsageAdd(sum[3], UsageCount(d))
      BY <2>1, <2>2
    <2> QED BY <2>2, <2>3 DEF s1, s2, s3, s4, counts
  <1> HIDE DEF s4
  <1> QED BY <1>4, <1>5

LEMMA FiveCounts ==
  ASSUME NEW a \in Reported, NEW b \in Reported, NEW c \in Reported,
         NEW d \in Reported, NEW e \in Reported
  PROVE  LET sum == UsageSum(<<a, b, c, d, e>>)
         IN  /\ sum \in Usage
             /\ sum.tokens = Known(a) + Known(b) + Known(c) + Known(d) + Known(e)
             /\ (\E v \in {a, b, c, d, e} : Hidden(v)) => sum.caveats > 0
  <1> DEFINE s1 == UsageAdd(Quiet(0), UsageCount(a))
             s2 == UsageAdd(s1, UsageCount(b))
             s3 == UsageAdd(s2, UsageCount(c))
             s4 == UsageAdd(s3, UsageCount(d))
             s5 == UsageAdd(s4, UsageCount(e))
  <1>0. Quiet(0) \in Usage /\ Quiet(0).tokens = 0 /\ Known(a) \in Nat
    BY Quiets, CountRead
  <1>1. s1 \in Usage /\ s1.tokens = Known(a) /\ (Hidden(a) => s1.caveats > 0)
    <2>1. s1 \in Usage /\ s1.tokens = Quiet(0).tokens + Known(a) /\ (Hidden(a) => s1.caveats > 0)
      BY <1>0, PlusCount
    <2> QED BY <1>0, <2>1
  <1> HIDE DEF s1
  <1>2. /\ s2 \in Usage /\ s2.tokens = Known(a) + Known(b)
        /\ (Hidden(a) \/ Hidden(b) => s2.caveats > 0)
    BY <1>1, PlusCount
  <1> HIDE DEF s2
  <1>3. /\ s3 \in Usage /\ s3.tokens = Known(a) + Known(b) + Known(c)
        /\ (Hidden(a) \/ Hidden(b) \/ Hidden(c) => s3.caveats > 0)
    BY <1>2, PlusCount
  <1> HIDE DEF s3
  <1>4. /\ s4 \in Usage /\ s4.tokens = Known(a) + Known(b) + Known(c) + Known(d)
        /\ (Hidden(a) \/ Hidden(b) \/ Hidden(c) \/ Hidden(d) => s4.caveats > 0)
    BY <1>3, PlusCount
  <1> HIDE DEF s4
  <1>5. /\ s5 \in Usage /\ s5.tokens = Known(a) + Known(b) + Known(c) + Known(d) + Known(e)
        /\ (Hidden(a) \/ Hidden(b) \/ Hidden(c) \/ Hidden(d) \/ Hidden(e) => s5.caveats > 0)
    BY <1>4, PlusCount
  <1>6. UsageSum(<<a, b, c, d, e>>) = s5
    <2> DEFINE counts == <<a, b, c, d, e>>
    <2>1. /\ DOMAIN counts = 1 .. 5
          /\ counts[1] = a /\ counts[2] = b /\ counts[3] = c /\ counts[4] = d /\ counts[5] = e
      OBVIOUS
    <2> HIDE DEF counts
    <2>2. PICK sum :
             /\ sum[0] = Quiet(0)
             /\ \A i \in 1 .. 5 : sum[i] = UsageAdd(sum[i - 1], UsageCount(counts[i]))
             /\ UsageSum(counts) = sum[5]
      BY <2>1, SumSteps
    <2>3. /\ sum[1] = UsageAdd(sum[0], UsageCount(a))
          /\ sum[2] = UsageAdd(sum[1], UsageCount(b))
          /\ sum[3] = UsageAdd(sum[2], UsageCount(c))
          /\ sum[4] = UsageAdd(sum[3], UsageCount(d))
          /\ sum[5] = UsageAdd(sum[4], UsageCount(e))
      BY <2>1, <2>2
    <2> QED BY <2>2, <2>3 DEF s1, s2, s3, s4, s5, counts
  <1> HIDE DEF s5
  <1> QED BY <1>5, <1>6

LEMMA TwoCounts ==
  ASSUME NEW a \in Reported, NEW b \in Reported
  PROVE  LET sum == UsageSum(<<a, b>>)
         IN  /\ sum \in Usage
             /\ sum.tokens = Known(a) + Known(b)
             /\ Hidden(a) \/ Hidden(b) => sum.caveats > 0
  <1> DEFINE s1 == UsageAdd(Quiet(0), UsageCount(a))
             s2 == UsageAdd(s1, UsageCount(b))
  <1>0. Quiet(0) \in Usage /\ Quiet(0).tokens = 0 /\ Known(a) \in Nat
    BY Quiets, CountRead
  <1>1. s1 \in Usage /\ s1.tokens = Known(a) /\ (Hidden(a) => s1.caveats > 0)
    BY <1>0, PlusCount
  <1> HIDE DEF s1
  <1>2. /\ s2 \in Usage /\ s2.tokens = Known(a) + Known(b)
        /\ (Hidden(a) \/ Hidden(b) => s2.caveats > 0)
    BY <1>1, PlusCount
  <1>3. UsageSum(<<a, b>>) = s2
    <2> DEFINE counts == <<a, b>>
    <2>1. DOMAIN counts = 1 .. 2 /\ counts[1] = a /\ counts[2] = b
      OBVIOUS
    <2> HIDE DEF counts
    <2>2. PICK sum :
             /\ sum[0] = Quiet(0)
             /\ \A i \in 1 .. 2 : sum[i] = UsageAdd(sum[i - 1], UsageCount(counts[i]))
             /\ UsageSum(counts) = sum[2]
      BY <2>1, SumSteps
    <2>3. /\ sum[1] = UsageAdd(sum[0], UsageCount(a)) /\ sum[2] = UsageAdd(sum[1], UsageCount(b))
      BY <2>1, <2>2
    <2> QED BY <2>1, <2>2, <2>3 DEF s1, s2, counts
  <1> HIDE DEF s2
  <1> QED BY <1>2, <1>3

\* A check of a total changes no count.
LEMMA TotalChecked ==
  ASSUME NEW total, NEW expected
  PROVE  CheckReportedTotal(total, expected) \in {Quiet(0), Caveat(0)}
  BY DEF CheckReportedTotal

LEMMA NotesOnly ==
  ASSUME NEW u \in Usage, NEW note \in {Quiet(0), Caveat(0)}
  PROVE  /\ UsageAdd(u, note) \in Usage
         /\ UsageAdd(u, note).tokens = u.tokens
         /\ UsageAdd(u, note).caveats >= u.caveats
         /\ note = Caveat(0) => UsageAdd(u, note).caveats > 0
  <1>1. /\ note \in Usage /\ note.tokens = 0 /\ note.caveats \in {0, 1}
        /\ note = Caveat(0) => note.caveats = 1
    BY Quiets
  <1>2. /\ UsageAdd(u, note) \in Usage /\ UsageAdd(u, note).tokens = u.tokens + note.tokens
        /\ UsageAdd(u, note).caveats = u.caveats + note.caveats
        /\ u.tokens \in Nat /\ u.caveats \in Nat
    BY <1>1, Adds
  <1> QED BY <1>1, <1>2

\* A total that is checked leaves the sum of the counts, and its caveats.
LEMMA SumChecked ==
  ASSUME NEW sum \in Usage, NEW total, NEW expected, NEW usage,
         usage = UsageAdd(sum, CheckReportedTotal(total, expected))
  PROVE  /\ usage \in Usage /\ usage.tokens = sum.tokens
         /\ sum.caveats > 0 => usage.caveats > 0
  <1>1. usage \in Usage /\ usage.tokens = sum.tokens /\ usage.caveats >= sum.caveats
    BY TotalChecked, NotesOnly
  <1>2. sum.caveats \in Nat /\ usage.caveats \in Nat
    BY <1>1 DEF Usage
  <1> QED BY <1>1, <1>2

\* A step of opencode is its five counts.
LEMMA StepRead ==
  ASSUME NEW a \in Reported, NEW b \in Reported, NEW c \in Reported, NEW d \in Reported,
         NEW e \in Reported, NEW total
  PROVE  LET step == OpencodeStep(a, b, c, d, e, total)
         IN  /\ step \in Usage
             /\ step.tokens = Known(a) + Known(b) + Known(c) + Known(d) + Known(e)
             /\ (\E v \in {a, b, c, d, e} : Hidden(v)) => step.caveats > 0
  <1> DEFINE sum == UsageSum(<<a, b, c, d, e>>)
             step == OpencodeStep(a, b, c, d, e, total)
  <1>1. /\ sum \in Usage
        /\ sum.tokens = Known(a) + Known(b) + Known(c) + Known(d) + Known(e)
        /\ (\E v \in {a, b, c, d, e} : Hidden(v)) => sum.caveats > 0
    BY FiveCounts
  <1>2. step = UsageAdd(sum, CheckReportedTotal(total, sum.tokens))
    BY DEF OpencodeStep
  <1> HIDE DEF sum, step
  <1>3. /\ step \in Usage /\ step.tokens = sum.tokens
        /\ sum.caveats > 0 => step.caveats > 0
    BY <1>1, <1>2, SumChecked
  <1> QED BY <1>1, <1>3 DEF step

\* A turn of two steps is both.
LEMMA TwoUsages ==
  ASSUME NEW first \in Usage, NEW second \in Usage
  PROVE  LET usage == OpencodeUsage(<<first, second>>)
         IN  /\ usage \in Usage /\ usage.tokens = first.tokens + second.tokens
             /\ first.caveats > 0 \/ second.caveats > 0 => usage.caveats > 0
  <1> DEFINE steps == <<first, second>>
  <1>1. Len(steps) = 2 /\ steps[1] = first /\ steps[2] = second
    OBVIOUS
  <1>2. OpencodeUsage(<<first, second>>) = UsageTotal(steps)
    BY DEF OpencodeUsage
  <1> HIDE DEF steps
  <1>3. PICK sum :
           /\ sum[0] = Quiet(0)
           /\ \A i \in 1 .. Len(steps) : sum[i] = UsageAdd(sum[i - 1], steps[i])
           /\ UsageTotal(steps) = sum[Len(steps)]
    <2>1. Len(steps) \in 1 .. 5
      BY <1>1
    <2> QED BY <2>1, TotalSteps
  <1>4. /\ sum[1] = UsageAdd(Quiet(0), first) /\ sum[2] = UsageAdd(sum[1], second)
        /\ UsageTotal(steps) = sum[2]
    BY <1>1, <1>3
  <1>5. sum[1] \in Usage /\ sum[1].tokens = first.tokens /\ sum[1].caveats = first.caveats
    <2>1. /\ sum[1] \in Usage /\ sum[1].tokens = Quiet(0).tokens + first.tokens
          /\ sum[1].caveats = Quiet(0).caveats + first.caveats
          /\ first.tokens \in Nat /\ first.caveats \in Nat
      BY <1>4, Quiets, Adds
    <2> QED BY <2>1, Quiets
  <1>6. /\ sum[2] \in Usage /\ sum[2].tokens = first.tokens + second.tokens
        /\ sum[2].caveats = first.caveats + second.caveats
        /\ first.caveats \in Nat /\ second.caveats \in Nat
    BY <1>4, <1>5, Adds
  <1> QED BY <1>2, <1>4, <1>6

LEMMA CountsKept == ReadCountsAreKept
  <1> SUFFICES ASSUME NEW a \in Reported, NEW b \in Reported, NEW c \in Reported,
                      NEW d \in Reported, NEW total \in Reported
               PROVE
        /\ \A usage \in {ClaudeUsage(a, b, c, d), AntigravityUsage(a, b, c, d, total)} :
             /\ usage.tokens = Known(a) + Known(b) + Known(c) + Known(d)
             /\ (\E v \in {a, b, c, d} : Hidden(v)) => usage.caveats > 0
        /\ \A e, again \in Reported :
             LET step == OpencodeStep(a, b, c, d, e, total)
                 usage == OpencodeUsage(<<step, OpencodeStep(again, a, b, c, d, total)>>)
             IN /\ usage.tokens = Known(e) + Known(again)
                                    + 2 * (Known(a) + Known(b) + Known(c) + Known(d))
                /\ (\E v \in {a, b, c, d, e, again} : Hidden(v)) => usage.caveats > 0
    BY DEF ReadCountsAreKept
  <1>1. ASSUME NEW usage \in {ClaudeUsage(a, b, c, d), AntigravityUsage(a, b, c, d, total)}
        PROVE  /\ usage.tokens = Known(a) + Known(b) + Known(c) + Known(d)
               /\ (\E v \in {a, b, c, d} : Hidden(v)) => usage.caveats > 0
    <2> DEFINE sum == UsageSum(<<a, b, c, d>>)
    <2>1. /\ sum \in Usage
          /\ sum.tokens = Known(a) + Known(b) + Known(c) + Known(d)
          /\ (\E v \in {a, b, c, d} : Hidden(v)) => sum.caveats > 0
      BY FourCounts
    <2>2. \/ usage = sum
          \/ \E expected : usage = UsageAdd(sum, CheckReportedTotal(total, expected))
      BY DEF ClaudeUsage, AntigravityUsage
    <2> HIDE DEF sum
    <2>3. CASE usage = sum
      BY <2>1, <2>3
    <2>4. ASSUME NEW expected, usage = UsageAdd(sum, CheckReportedTotal(total, expected))
          PROVE  usage.tokens = sum.tokens /\ (sum.caveats > 0 => usage.caveats > 0)
      BY <2>1, <2>4, SumChecked
    <2> QED BY <2>1, <2>2, <2>3, <2>4
  <1>2. ASSUME NEW e \in Reported, NEW again \in Reported
        PROVE  LET step == OpencodeStep(a, b, c, d, e, total)
                   usage == OpencodeUsage(<<step, OpencodeStep(again, a, b, c, d, total)>>)
               IN /\ usage.tokens = Known(e) + Known(again)
                                      + 2 * (Known(a) + Known(b) + Known(c) + Known(d))
                  /\ (\E v \in {a, b, c, d, e, again} : Hidden(v)) => usage.caveats > 0
    <2> DEFINE first == OpencodeStep(a, b, c, d, e, total)
               second == OpencodeStep(again, a, b, c, d, total)
               usage == OpencodeUsage(<<first, second>>)
    <2>1. /\ first \in Usage
          /\ first.tokens = Known(a) + Known(b) + Known(c) + Known(d) + Known(e)
          /\ (\E v \in {a, b, c, d, e} : Hidden(v)) => first.caveats > 0
      BY StepRead
    <2>2. /\ second \in Usage
          /\ second.tokens = Known(again) + Known(a) + Known(b) + Known(c) + Known(d)
          /\ (\E v \in {again, a, b, c, d} : Hidden(v)) => second.caveats > 0
      BY StepRead
    <2> HIDE DEF first, second
    <2>3. /\ usage.tokens = first.tokens + second.tokens
          /\ first.caveats > 0 \/ second.caveats > 0 => usage.caveats > 0
      BY <2>1, <2>2, TwoUsages
    <2> HIDE DEF usage
    <2>4. /\ Known(a) \in Nat /\ Known(b) \in Nat /\ Known(c) \in Nat
          /\ Known(d) \in Nat /\ Known(e) \in Nat /\ Known(again) \in Nat
      BY CountRead
    <2>5. usage.tokens = Known(e) + Known(again)
                           + 2 * (Known(a) + Known(b) + Known(c) + Known(d))
      BY <2>1, <2>2, <2>3, <2>4
    <2>6. (\E v \in {a, b, c, d, e, again} : Hidden(v)) => usage.caveats > 0
      BY <2>1, <2>2, <2>3
    <2> QED BY <2>5, <2>6 DEF usage, first, second
  <1> QED BY <1>1, <1>2

\* The first spelling that can be read, or both.
LEMMA AnyCount ==
  ASSUME NEW first \in Reported, NEW second \in Reported
  PROVE  /\ UsageAny(first, second) \in Usage
         /\ Hidden(first) => UsageAny(first, second).caveats > 0
  <1>1. CASE ParseCount(first) /\ first.n >= 0
    <2>1. ~Hidden(first)
      BY <1>1 DEF Reported, Absent, Unreadable, Counted, ParseCount, Hidden
    <2>2. first.n \in Nat
      BY <1>1 DEF Reported, Absent, Unreadable, Counted, ParseCount
    <2> QED BY <1>1, <2>1, <2>2 DEF UsageAny, Quiet, Usage
  <1>2. CASE ~(ParseCount(first) /\ first.n >= 0)
    <2>1. UsageCount(first) \in Usage /\ (Hidden(first) => UsageCount(first).caveats > 0)
      BY CountRead
    <2>2. UsageAny(first, second) = UsageAdd(UsageCount(first), UsageCount(second))
      BY <1>2 DEF UsageAny
    <2> QED BY <2>1, <2>2, PlusCount
  <1> QED BY <1>1, <1>2

LEMMA CodexNotes ==
  ASSUME NEW a \in Reported, NEW b \in Reported, NEW c \in Reported, NEW cached \in Reported
  PROVE  LET usage == CodexUsage(a, b, c, Absent, cached)
         IN /\ (Hidden(a) \/ Hidden(c)) => usage.caveats > 0
            /\ (~Hidden(a) /\ a # Absent /\ ~Hidden(cached) /\ cached.n > a.n) => usage.caveats > 0
  <1> DEFINE counts == UsageAdd(UsageAny(a, b), UsageAny(c, Absent))
             total == CheckReportedTotal(Absent, counts.tokens)
             cache == CheckCacheIsABreakdown(cached, a, b)
             notes == UsageAdd(total, cache)
  <1>1. /\ counts \in Usage /\ counts.caveats \in Nat
        /\ Hidden(a) \/ Hidden(c) => counts.caveats > 0
    <2>1. Absent \in Reported
      BY DEF Reported
    <2>2. /\ UsageAny(a, b) \in Usage /\ (Hidden(a) => UsageAny(a, b).caveats > 0)
          /\ UsageAny(c, Absent) \in Usage /\ (Hidden(c) => UsageAny(c, Absent).caveats > 0)
      BY <2>1, AnyCount
    <2> QED BY <2>2, Adds DEF Usage
  <1>2. total \in {Quiet(0), Caveat(0)}
    BY TotalChecked
  <1>3. cache \in {Quiet(0), Caveat(0)}
    BY DEF CheckCacheIsABreakdown
  <1>4. (~Hidden(a) /\ a # Absent /\ ~Hidden(cached) /\ cached.n > a.n) => cache = Caveat(0)
    <2> SUFFICES ASSUME ~Hidden(a), a # Absent, ~Hidden(cached), cached.n > a.n
                 PROVE  cache = Caveat(0)
      OBVIOUS
    <2>1. ParseCount(a) /\ a.n \in Nat
      BY DEF Reported, Absent, Unreadable, Counted, ParseCount, Hidden
    <2>2. ParseCount(cached) /\ cached.n \in Nat /\ cached.n > 0
      BY <2>1 DEF Reported, Absent, Unreadable, Counted, ParseCount, Hidden
    <2> DEFINE read == {v \in {a, b} : ParseCount(v) /\ v.n >= 0}
    <2>3. a \in read
      BY <2>1
    <2>4. cache = IF /\ ParseCount(cached) /\ cached.n > 0 /\ read # {}
                     /\ cached.n > (IF a \in read THEN a.n ELSE b.n)
                  THEN Caveat(0) ELSE Quiet(0)
      BY DEF CheckCacheIsABreakdown
    <2> HIDE DEF cache, read
    <2> QED BY <2>2, <2>3, <2>4
  <1>5. CodexUsage(a, b, c, Absent, cached) = UsageAdd(counts, notes)
    BY DEF CodexUsage
  <1> HIDE DEF counts, total, cache
  <1>6. notes \in Usage /\ notes.caveats \in Nat /\ (cache = Caveat(0) => notes.caveats > 0)
    <2>1. total \in Usage
      BY <1>2, Quiets
    <2> QED BY <1>3, <2>1, NotesOnly DEF Usage
  <1> HIDE DEF notes
  <1>7. UsageAdd(counts, notes).caveats = counts.caveats + notes.caveats
    BY <1>1, <1>6, Adds
  <1> QED BY <1>1, <1>4, <1>5, <1>6, <1>7

LEMMA CopilotNotes ==
  ASSUME NEW a \in Reported, NEW b \in Reported, NEW calls
  PROVE  LET usage == CopilotUsage(a, b, calls)
         IN  /\ usage \in Usage /\ usage.tokens = Known(a) + Known(b)
             /\ (Hidden(a) \/ Hidden(b) \/ calls # 1) => usage.caveats > 0
  <1> DEFINE sum == UsageSum(<<a, b>>)
             some == IF calls # 1 THEN Caveat(0) ELSE Quiet(0)
             none == IF a = Absent /\ b = Absent THEN Caveat(0) ELSE Quiet(0)
             notes == UsageAdd(some, none)
  <1>1. /\ sum \in Usage /\ sum.tokens = Known(a) + Known(b)
        /\ Hidden(a) \/ Hidden(b) => sum.caveats > 0
    BY TwoCounts
  <1>2. CopilotUsage(a, b, calls) = UsageAdd(sum, notes)
    BY DEF CopilotUsage
  <1>3. notes \in Usage /\ notes.tokens = 0 /\ (calls # 1 => notes.caveats > 0)
    <2>1. /\ some \in Usage /\ some.tokens = 0 /\ (calls # 1 => some.caveats = 1)
      BY Quiets
    <2>2. none \in Usage /\ none.tokens = 0
      BY Quiets
    <2> HIDE DEF some, none
    <2>3. /\ notes \in Usage /\ notes.tokens = 0 /\ notes.caveats = some.caveats + none.caveats
          /\ none.caveats \in Nat
      BY <2>1, <2>2, Adds
    <2> QED BY <2>1, <2>3
  <1> HIDE DEF sum, notes
  <1>4. /\ UsageAdd(sum, notes) \in Usage /\ UsageAdd(sum, notes).tokens = sum.tokens + notes.tokens
        /\ UsageAdd(sum, notes).caveats = sum.caveats + notes.caveats
        /\ sum.tokens \in Nat /\ sum.caveats \in Nat /\ notes.caveats \in Nat
    BY <1>1, <1>3, Adds
  <1> QED BY <1>1, <1>2, <1>3, <1>4

LEMMA DoubtsNoted == DoubtsAreNoted
  <1>1. ASSUME NEW a \in Reported, NEW b \in Reported, NEW calls \in 0 .. 2, NEW parses \in BOOLEAN
        PROVE  LET first == CopilotUsage(a, b, calls)
                   usage == RepairedUsage(parses, first, CopilotUsage(b, a, 1))
               IN /\ (Hidden(a) \/ Hidden(b) \/ calls > 1) => usage.caveats > 0
                  /\ ~parses => usage.tokens = 2 * (Known(a) + Known(b))
    <2> DEFINE first == CopilotUsage(a, b, calls)
               again == CopilotUsage(b, a, 1)
    <2>1. /\ first \in Usage /\ first.tokens = Known(a) + Known(b)
          /\ (Hidden(a) \/ Hidden(b) \/ calls > 1) => first.caveats > 0
      BY CopilotNotes
    <2>2. again \in Usage /\ again.tokens = Known(b) + Known(a)
      BY CopilotNotes
    <2>3. Known(a) \in Nat /\ Known(b) \in Nat
      BY CountRead
    <2> HIDE DEF first, again
    <2>4. /\ UsageAdd(first, again).tokens = first.tokens + again.tokens
          /\ UsageAdd(first, again).caveats = first.caveats + again.caveats
          /\ first.caveats \in Nat /\ again.caveats \in Nat
      BY <2>1, <2>2, Adds
    <2>5. RepairedUsage(parses, first, again) = IF parses THEN first ELSE UsageAdd(first, again)
      BY DEF RepairedUsage
    <2>6. CASE parses
      BY <2>1, <2>5, <2>6 DEF first, again
    <2>7. CASE ~parses
      <3>1. UsageAdd(first, again).tokens = 2 * (Known(a) + Known(b))
        BY <2>1, <2>2, <2>3, <2>4
      <3>2. (Hidden(a) \/ Hidden(b) \/ calls > 1) => UsageAdd(first, again).caveats > 0
        BY <2>1, <2>4
      <3> QED BY <2>5, <2>7, <3>1, <3>2 DEF first, again
    <2> QED BY <2>6, <2>7
  <1> QED BY <1>1, CodexNotes DEF DoubtsAreNoted

\* The usage recorded with an answer says so when a count could not be read, in whichever of
\* its steps.
THEOREM OutcomeAccounted == Spec => []OutcomeIsAccounted
  <1>1. OutcomeIsAccounted
    BY CountsKept, DoubtsNoted DEF OutcomeIsAccounted, ShortUsageIsFlagged
  <1> QED BY <1>1, PTL
===============================================================================
