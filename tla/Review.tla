------------------------------- MODULE Review --------------------------------
(***************************************************************************)
(* One review of its own (no workflow's), from review/service.py and       *)
(* review/store.py: it is run with its token, retried, cancelled,          *)
(* finalized, given fix rounds and deleted, by calls of several server     *)
(* processes at once.                                                      *)
(*                                                                         *)
(* A batch of reviewers holds the review's lease; a cancel and a delete do *)
(* not take it.  Inside a process a cancel also knows the batch by its     *)
(* marker (_batch_done) and by its tasks (_tasks).  The heartbeats of the  *)
(* lease arrive while the process lives.                                   *)
(***************************************************************************)
EXTENDS Integers, FiniteSets

CONSTANTS
    Callers, NoCaller,
    Process, home,      \* the server process of each call
    Agents,             \* the reviewers that were approved
    MAX_FIX_ROUNDS,
    MaxCrashes          \* bound: processes that die

ASSUME CallersAssumption == IsFiniteSet(Callers) /\ NoCaller \notin Callers
ASSUME HomeAssumption == home \in [Callers -> Process]
ASSUME AgentsAssumption == Agents # {} /\ IsFiniteSet(Agents)
ASSUME CapAssumption == MAX_FIX_ROUNDS \in Nat \ {0} /\ MaxCrashes \in Nat

VARIABLES
    review,    \* the reviews row; `sent`: its token was spent
    rows,      \* review_consultations, one per reviewer
    made,      \* the reviewers a consultation was created for
    lease,     \* review_leases
    marker,    \* _batch_done of each process: the call that set it
    tasks,     \* _tasks of each process: the call whose tasks they are
    call,
    crashes

vars == <<review, rows, made, lease, marker, tasks, call, crashes>>

Status == {"pending", "running", "awaiting_synthesis", "complete", "failed", "cancelled", "gone"}
Outcome == {"null", "none", "some", "all"}

RETRYABLE == {"failed", "awaiting_synthesis"}
CANCELLABLE == {"pending", "running", "awaiting_synthesis", "failed"}
FIXABLE == {"awaiting_synthesis", "complete"}

\* `parsed`: its answer had findings that can be read.
ReviewerRow == [status : {"absent", "failed", "ok"}, linked : BOOLEAN, parsed : BOOLEAN]
NoRow == [status |-> "absent", linked |-> FALSE, parsed |-> FALSE]

PC == {"idle", "ready", "marked", "entered", "leased", "confirmed", "reserving", "reserved",
       "starting", "asking", "failing", "leaving", "settling",
       "cancelling", "waiting", "joining", "finalizing", "fixing"}

\* `wanted`: whom it will ask, `asking`: whom it is asking; `retry`: it is a retry;
\* `answered`: its batch came to its end; `awaits`: the call whose marker it waits for.
Call == [pc : PC, retry : BOOLEAN, wanted : SUBSET Agents, asking : SUBSET Agents,
         answered : BOOLEAN, awaits : Callers \cup {NoCaller}]

Idle == [pc |-> "idle", retry |-> FALSE, wanted |-> {}, asking |-> {},
         answered |-> FALSE, awaits |-> NoCaller]

\* The calls inside the lease.
Batch == {"leased", "confirmed", "reserving", "reserved", "starting", "asking", "failing",
          "leaving"}

Init ==
    /\ review = [status |-> "pending", outcome |-> "null", sent |-> FALSE, rounds |-> 0]
    /\ rows = [a \in Agents |-> NoRow]
    /\ made = {}
    /\ lease = [holder |-> NoCaller, expired |-> FALSE]
    /\ marker = [p \in Process |-> NoCaller]
    /\ tasks = [p \in Process |-> NoCaller]
    /\ call = [c \in Callers |-> Idle]
    /\ crashes = 0

Goto(c, pc) == call' = [call EXCEPT ![c].pc = pc]
Return(c) == call' = [call EXCEPT ![c] = Idle]

\* transition: the status moves only from where it is allowed to.
Transition(to, from) ==
    IF review.status \in from THEN review' = [review EXCEPT !.status = to]
                              ELSE UNCHANGED review

-----------------------------------------------------------------------------
(* A batch of reviewers. *)

\* run: what it was given is in order; whether the token is, the batch finds out.
Run(c) ==
    /\ call[c].pc = "idle"
    /\ review.status # "gone"
    /\ call' = [call EXCEPT ![c] = [Idle EXCEPT !.pc = "ready", !.wanted = Agents]]
    /\ UNCHANGED <<review, rows, made, lease, marker, tasks, crashes>>

\* _retry reads whom to ask again: those that did not answer, or some of them.
Retry(c) ==
    /\ call[c].pc = "idle"
    /\ review.sent /\ review.status # "gone"
    /\ \E A \in (SUBSET {a \in Agents : rows[a].status # "ok"}) \ {{}} :
          call' = [call EXCEPT ![c] = [Idle EXCEPT !.pc = "ready", !.retry = TRUE, !.wanted = A]]
    /\ UNCHANGED <<review, rows, made, lease, marker, tasks, crashes>>

\* within_ceiling refuses, or the retry comes at the wrong moment.
Refuse(c) ==
    /\ call[c].pc = "ready"
    /\ Return(c)
    /\ UNCHANGED <<review, rows, made, lease, marker, tasks, crashes>>

\* _retry makes the review `running`, before it has the lease.
MarkRunning(c) ==
    /\ call[c].pc = "ready" /\ call[c].retry
    /\ review.status \in RETRYABLE
    /\ Transition("running", RETRYABLE)
    /\ Goto(c, "marked")
    /\ UNCHANGED <<rows, made, lease, marker, tasks, crashes>>

\* _batch_done.setdefault: the first batch of a process leaves its marker.
Enter(c) ==
    LET p == home[c]
    IN  /\ call[c].pc = (IF call[c].retry THEN "marked" ELSE "ready")
        /\ marker' = IF marker[p] = NoCaller THEN [marker EXCEPT ![p] = c] ELSE marker
        /\ Goto(c, "entered")
        /\ UNCHANGED <<review, rows, made, lease, tasks, crashes>>

\* (mutant) the marker goes, and nobody hears of it
UnmarkQuietly(c, next) ==
    /\ marker' = [p \in Process |-> IF marker[p] = c THEN NoCaller ELSE marker[p]]
    /\ call' = [call EXCEPT ![c] = next]

\* The end of a batch: its marker, when it left one, goes, and who waits for it goes on.
Unmark(c, next) ==
    /\ marker' = [p \in Process |-> IF marker[p] = c THEN NoCaller ELSE marker[p]]
    /\ call' = [d \in Callers |->
                  IF d = c THEN next
                  ELSE IF call[d].awaits = c
                       THEN [call[d] EXCEPT !.pc = "joining", !.awaits = NoCaller]
                       ELSE call[d]]

LiveLease == lease.holder # NoCaller /\ ~lease.expired

Free == ~LiveLease

Acquire(c) ==
    /\ call[c].pc = "entered"
    /\ Free
    /\ lease' = [holder |-> c, expired |-> FALSE]
    /\ Goto(c, IF call[c].retry THEN "confirmed" ELSE "leased")
    /\ UNCHANGED <<review, rows, made, marker, tasks, crashes>>

\* session_busy.  A retry that is refused leaves the review running.
RefuseLease(c) ==
    /\ call[c].pc = "entered"
    /\ ~Free
    /\ Unmark(c, Idle)
    /\ UNCHANGED <<review, rows, made, lease, tasks, crashes>>

\* consume_confirm_token: once, of a pending review
Consume(c) ==
    /\ call[c].pc = "leased"
    /\ IF review.status = "pending" /\ ~review.sent
       THEN /\ review' = [review EXCEPT !.status = "running", !.sent = TRUE]
            /\ Goto(c, "confirmed")
       ELSE UNCHANGED review /\ Goto(c, "leaving")
    /\ UNCHANGED <<rows, made, lease, marker, tasks, crashes>>

Look(c, from, to) ==
    /\ call[c].pc = from
    /\ Goto(c, IF review.status = "running" THEN to ELSE "failing")
    /\ UNCHANGED <<review, rows, made, lease, marker, tasks, crashes>>

FirstLook(c) == Look(c, "confirmed", "reserving")

\* reserve_reviewers: a row for each that has none
Reserve(c) ==
    /\ call[c].pc = "reserving"
    /\ rows' = [a \in Agents |->
                  IF a \in call[c].wanted /\ rows[a].status = "absent"
                  THEN [NoRow EXCEPT !.status = "failed"] ELSE rows[a]]
    /\ Goto(c, "reserved")
    /\ UNCHANGED <<review, made, lease, marker, tasks, crashes>>

SecondLook(c) == Look(c, "reserved", "starting")

\* The tasks are created, once the client has taken a progress note.
Start(c) ==
    /\ call[c].pc = "starting"
    /\ call' = [call EXCEPT ![c].pc = "asking", ![c].asking = call[c].wanted]
    /\ tasks' = [tasks EXCEPT ![home[c]] = c]
    /\ UNCHANGED <<review, rows, made, lease, marker, crashes>>

-----------------------------------------------------------------------------
(* A reviewer. *)

\* create_consultation, linked to the row in the same transaction
Ask(c, a) ==
    /\ a \in call[c].asking
    /\ rows[a].status # "absent" /\ ~rows[a].linked
    /\ made' = made \cup {a}
    /\ rows' = [rows EXCEPT ![a].linked = TRUE]
    /\ UNCHANGED <<review, lease, marker, tasks, call, crashes>>

\* (mutant) excluded.consultation_id
Relink(was, given) == given

\* COALESCE(review_consultations.consultation_id, excluded.consultation_id)
Link(was, given) == was \/ given

\* record_reviewer_result.  The turn that answered names its consultation; one that failed
\* may not.  `_reask` is part of the asking.
Record(c, a) ==
    /\ a \in call[c].asking
    /\ \E ok, parsed, named \in BOOLEAN :
          /\ ok => rows[a].linked
          /\ parsed => ok
          /\ named => rows[a].linked
          /\ ok => named
          /\ rows' = [rows EXCEPT ![a] = [status |-> IF ok THEN "ok" ELSE "failed",
                                          linked |-> Link(rows[a].linked, named),
                                          parsed |-> parsed]]
    /\ call' = [call EXCEPT ![c].asking = @ \ {a}]
    /\ UNCHANGED <<review, made, lease, marker, tasks, crashes>>

\* The task raises before it records.
TaskDies(c, a) ==
    /\ a \in call[c].asking
    /\ call' = [call EXCEPT ![c].asking = @ \ {a}]
    /\ UNCHANGED <<review, rows, made, lease, marker, tasks, crashes>>

Gathered(c) ==
    /\ call[c].pc = "asking" /\ call[c].asking = {}
    /\ call' = [call EXCEPT ![c].pc = "leaving", ![c].answered = TRUE]
    /\ tasks' = [tasks EXCEPT ![home[c]] = NoCaller]
    /\ UNCHANGED <<review, rows, made, lease, marker, crashes>>

\* What goes wrong inside the lease fails the review, if it is still running.
Fail(c) ==
    /\ call[c].pc = "failing"
    /\ Transition("failed", {"running"})
    /\ Goto(c, "leaving")
    /\ UNCHANGED <<rows, made, lease, marker, tasks, crashes>>

\* The lease is released, then the marker goes.
Leave(c) ==
    /\ call[c].pc = "leaving"
    /\ lease' = IF lease.holder = c THEN [holder |-> NoCaller, expired |-> FALSE] ELSE lease
    /\ Unmark(c, IF call[c].answered THEN [call[c] EXCEPT !.pc = "settling"] ELSE Idle)
    /\ UNCHANGED <<review, rows, made, tasks, crashes>>

OutcomeOf(A) ==
    LET ok == {a \in A : rows[a].status = "ok"}
    IN  IF ok = A THEN "all" ELSE IF ok # {} THEN "some" ELSE "none"

\* (mutant) over the batch that just finished
SettledOver(c) == call[c].wanted

\* Over every reviewer that was approved, whoever was asked this time.
Settled(c) == Agents

\* _settle: every reviewer counts, and a cancel that came first stands.
Settle(c) ==
    LET outcome == OutcomeOf(Settled(c))
    IN  /\ call[c].pc = "settling"
        /\ IF review.status = "running"
           THEN review' = [review EXCEPT
                    !.status = IF outcome = "none" THEN "failed" ELSE "awaiting_synthesis",
                    !.outcome = outcome]
           ELSE UNCHANGED review
        /\ Return(c)
        /\ UNCHANGED <<rows, made, lease, marker, tasks, crashes>>

\* The request is dropped: the reviewers' tasks end with it, nothing is settled, and the
\* review stays as it is.
Drop(c) ==
    /\ call[c].pc \in Batch \ {"leaving"}
    /\ call' = [call EXCEPT ![c].pc = "leaving", ![c].asking = {}]
    /\ tasks' = [p \in Process |-> IF tasks[p] = c THEN NoCaller ELSE tasks[p]]
    /\ UNCHANGED <<review, rows, made, lease, marker, crashes>>

-----------------------------------------------------------------------------
(* The other operations. *)

Cancel(c) ==
    /\ call[c].pc = "idle"
    /\ review.status \in CANCELLABLE
    /\ Transition("cancelled", CANCELLABLE)
    /\ Goto(c, "cancelling")
    /\ UNCHANGED <<rows, made, lease, marker, tasks, crashes>>

\* (mutant) only the tasks are waited for
LookForTasks(c) == call' = [call EXCEPT ![c].pc = "joining"]

\* What this process knows of a batch.
LookForBatch(c) ==
    IF marker[home[c]] # NoCaller
    THEN call' = [call EXCEPT ![c].pc = "waiting", ![c].awaits = marker[home[c]]]
    ELSE call' = [call EXCEPT ![c].pc = "joining"]

CancelLook(c) ==
    /\ call[c].pc = "cancelling"
    /\ LookForBatch(c)
    /\ UNCHANGED <<review, rows, made, lease, marker, tasks, crashes>>

CancelJoin(c) ==
    /\ call[c].pc = "joining"
    /\ tasks[home[c]] = NoCaller
    /\ Return(c)
    /\ UNCHANGED <<review, rows, made, lease, marker, tasks, crashes>>

\* _finalize checks the status and that every finding can be read ...
Finalize(c) ==
    /\ call[c].pc = "idle"
    /\ review.status = "awaiting_synthesis"
    /\ \A a \in Agents : rows[a].status = "ok" => rows[a].parsed
    /\ Goto(c, "finalizing")
    /\ UNCHANGED <<review, rows, made, lease, marker, tasks, crashes>>

\* ... and complete_review checks the status again.
Complete(c) ==
    /\ call[c].pc = "finalizing"
    /\ Transition("complete", {"awaiting_synthesis"})
    /\ Return(c)
    /\ UNCHANGED <<rows, made, lease, marker, tasks, crashes>>

\* (mutant) one more than the cap
RoundAtCap(n) == n <= MAX_FIX_ROUNDS

RoundLeft(n) == n < MAX_FIX_ROUNDS

\* _record_fix_round counts the rounds ...
Fix(c) ==
    /\ call[c].pc = "idle"
    /\ review.status \in FIXABLE /\ RoundLeft(review.rounds)
    /\ Goto(c, "fixing")
    /\ UNCHANGED <<review, rows, made, lease, marker, tasks, crashes>>

\* ... and append_fix_round adds one in a transaction of its own.
AppendFixRound(c) ==
    /\ call[c].pc = "fixing"
    /\ review' = IF review.status = "gone" THEN review ELSE [review EXCEPT !.rounds = @ + 1]
    /\ Return(c)
    /\ UNCHANGED <<rows, made, lease, marker, tasks, crashes>>

\* (mutant) the status alone
DeletableByStatus == review.status # "running"

\* delete_tree: not while it runs, nor while reviewers of a cancelled one are in flight.
\* (refuse_leased, of the reviewers' consultations, only refuses more.)
Deletable == review.status # "running" /\ ~LiveLease

\* What the rows point at goes with them.
Delete ==
    /\ review.status # "gone"
    /\ Deletable
    /\ review' = [review EXCEPT !.status = "gone"]
    /\ rows' = [a \in Agents |-> NoRow]
    /\ made' = {a \in made : ~rows[a].linked}
    /\ lease' = [holder |-> NoCaller, expired |-> FALSE]
    /\ UNCHANGED <<marker, tasks, call, crashes>>

\* create_review drops old plans that were never run.
Forget ==
    /\ review.status = "pending"
    /\ \A a \in Agents : rows[a].status = "absent"
    /\ review' = [review EXCEPT !.status = "gone"]
    /\ UNCHANGED <<rows, made, lease, marker, tasks, call, crashes>>

\* A process dies with its calls, its marker and its tasks.
Crash(p) ==
    /\ crashes < MaxCrashes
    /\ \E c \in Callers : home[c] = p /\ call[c].pc # "idle"
    /\ crashes' = crashes + 1
    /\ call' = [c \in Callers |-> IF home[c] = p THEN Idle ELSE call[c]]
    /\ marker' = [marker EXCEPT ![p] = NoCaller]
    /\ tasks' = [tasks EXCEPT ![p] = NoCaller]
    /\ UNCHANGED <<review, rows, made, lease>>

\* Nobody renews the lease of a batch that died.
Expire ==
    /\ LiveLease
    /\ call[lease.holder].pc \notin Batch
    /\ lease' = [lease EXCEPT !.expired = TRUE]
    /\ UNCHANGED <<review, rows, made, marker, tasks, call, crashes>>

-----------------------------------------------------------------------------
Steps(c) ==
    \/ Refuse(c) \/ MarkRunning(c) \/ Enter(c) \/ Acquire(c) \/ RefuseLease(c) \/ Consume(c)
    \/ FirstLook(c) \/ Reserve(c) \/ SecondLook(c) \/ Start(c) \/ Gathered(c) \/ Fail(c)
    \/ Leave(c) \/ Settle(c) \/ CancelLook(c) \/ CancelJoin(c) \/ Complete(c)
    \/ AppendFixRound(c)
    \/ \E a \in Agents : Ask(c, a) \/ Record(c, a) \/ TaskDies(c, a)

Begin(c) == Run(c) \/ Retry(c) \/ Cancel(c) \/ Finalize(c) \/ Fix(c)

Next == \/ \E c \in Callers : Begin(c) \/ Steps(c) \/ Drop(c)
        \/ Delete \/ Forget \/ (\E p \in Process : Crash(p)) \/ Expire

Spec == Init /\ [][Next]_vars

\* A call goes on: every await of it ends, a reviewer's by its timeout.
FairSpec == Spec /\ \A c \in Callers : WF_vars(Steps(c))

-----------------------------------------------------------------------------
(* Properties. *)

TypeOK ==
    /\ review \in [status : Status, outcome : Outcome, sent : BOOLEAN, rounds : Nat]
    /\ rows \in [Agents -> ReviewerRow]
    /\ made \subseteq Agents
    /\ lease \in [holder : Callers \cup {NoCaller}, expired : BOOLEAN]
    /\ marker \in [Process -> Callers \cup {NoCaller}]
    /\ tasks \in [Process -> Callers \cup {NoCaller}]
    /\ call \in [Callers -> Call]
    /\ crashes \in 0 .. MaxCrashes

\* Every consultation made for a reviewer is found from its row, so that a delete takes it
\* and its cost is counted, whatever failed attempt was recorded after it.
NoDangling == \A a \in made : rows[a].linked

\* A review waits for its synthesis, or has one, only with an answer to make it of; and
\* says `all` only when every approved reviewer answered, however many batches it took.
OutcomeEarned ==
    review.status \in {"awaiting_synthesis", "complete"} =>
        /\ \E a \in Agents : rows[a].status = "ok"
        /\ review.outcome = "all" => \A a \in Agents : rows[a].status = "ok"

\* No reviewer is at work for a review that was deleted, though a cancel frees the status
\* while its reviewers go on, here or in another process.
DeleteWaits == review.status = "gone" => \A c \in Callers : call[c].asking = {}

\* When a cancel returns, no reviewer of its process is at work or about to start, but
\* those of a batch that found another's marker and so has none of its own.
CancelWaits ==
    [][\A c, d \in Callers :
         /\ call[c].pc = "joining" /\ call'[c].pc = "idle" /\ crashes' = crashes
         /\ home[d] = home[c] /\ call[d].pc \in {"starting", "asking"}
         => marker[home[c]] # d]_vars

\* The cap on fix rounds is passed only by calls that counted together.
RoundsWithinCap == review.rounds < MAX_FIX_ROUNDS + Cardinality(Callers)

\* A cancel returns: the batch it waits for ends, and says so.
CancelReturns ==
    \A c \in Callers : call[c].pc \in {"cancelling", "waiting", "joining"} ~> call[c].pc = "idle"
===============================================================================
