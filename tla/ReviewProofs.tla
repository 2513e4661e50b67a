----------------------------- MODULE ReviewProofs -----------------------------
(***************************************************************************)
(* Proofs about Review, for any number of calls, processes and reviewers:  *)
(* every consultation made is found again, an outcome is earned by the     *)
(* rows, a delete leaves no reviewer at work, the cap on fix rounds is     *)
(* passed only by calls that counted together, a cancel waits for the      *)
(* reviewers it asked to stop; and, over the answers of ReviewFindings, a  *)
(* summary loses no serious finding and a recheck calls none resolved that *)
(* a reviewer still sees.                                                  *)
(***************************************************************************)
EXTENDS MCReview, FiniteSetTheorems, TLAPS

-----------------------------------------------------------------------------
(* The inductive invariant. *)

\* Where a call has spent the review's token, or goes on after one that has.
Late == {"marked", "confirmed", "reserving", "reserved", "starting", "asking", "failing"}

\* Where a call has seen the review running, inside the lease.
AtWork == {"reserving", "reserved", "starting", "asking"}

CallFits(k) ==
  /\ k.asking # {} => k.pc = "asking"
  /\ k.answered => k.pc \in {"leaving", "settling"}
  /\ k.pc = "settling" => k.answered
  /\ k.awaits # NoCaller => k.pc = "waiting"
  /\ k.pc \in Late \/ (k.retry /\ k.pc \in {"ready", "entered"}) => review.sent
  /\ review.status = "gone" => k.pc \notin AtWork

\* The call has made the review `running`, or follows who did, until it settles.
Runs(k) ==
  \/ k.pc \in Late
  \/ k.pc = "entered" /\ k.retry
  \/ k.pc \in {"leaving", "settling"} /\ k.answered

\* A call inside the lease holds it.
Held == \A c \in Callers : call[c].pc \in Batch => lease = [holder |-> c, expired |-> FALSE]

\* One call at a time runs the review, and nobody does once it waits for its synthesis.
OneRun ==
  \A c \in Callers : Runs(call[c]) =>
    /\ review.status \in {"running", "cancelled", "gone"}
    /\ \A d \in Callers : Runs(call[d]) => d = c

\* A reviewer without a row has no consultation.
Linked == \A a \in Agents : rows[a].status = "absent" => ~rows[a].linked

Fixing == {c \in Callers : call[c].pc = "fixing"}

\* The rounds that were counted, with those about to be, leave room for the cap.
Rounds == review.rounds + Cardinality(Fixing) < MAX_FIX_ROUNDS + Cardinality(Callers)

Inv ==
  /\ TypeOK
  /\ \A c \in Callers : CallFits(call[c])
  /\ review.sent => review.status # "pending"
  /\ Held /\ OneRun /\ Linked /\ NoDangling /\ OutcomeEarned /\ Rounds

-----------------------------------------------------------------------------
LEMMA FewFixing ==
  ASSUME NEW S \in SUBSET Callers
  PROVE  /\ IsFiniteSet(S) /\ Cardinality(S) \in Nat
         /\ Cardinality(Callers) \in Nat
         /\ Cardinality(S) <= Cardinality(Callers)
  BY CallersAssumption, FS_Subset, FS_CardinalityType

LEMMA IdleFits ==
  /\ Idle \in Call /\ CallFits(Idle) /\ ~Runs(Idle) /\ Idle.pc \notin Batch
  /\ Idle.pc # "fixing"
  BY DEF Idle, Call, PC, CallFits, Runs, Late, AtWork, Batch

LEMMA CallFields ==
  ASSUME NEW k \in Call
  PROVE  /\ k.pc \in PC /\ k.retry \in BOOLEAN /\ k.wanted \in SUBSET Agents
         /\ k.asking \in SUBSET Agents /\ k.answered \in BOOLEAN
         /\ k.awaits \in Callers \cup {NoCaller}
  BY DEF Call

\* What a change of a call's place, and of one more field, leaves of it.
LEMMA ToAnswered ==
  ASSUME NEW k \in Call, NEW pc \in PC
  PROVE  LET r == [k EXCEPT !.pc = pc, !.answered = TRUE]
         IN  /\ r \in Call /\ r.pc = pc /\ r.retry = k.retry /\ r.asking = k.asking
             /\ r.answered /\ r.awaits = k.awaits
  BY DEF Call

LEMMA ToWaiting ==
  ASSUME NEW k \in Call, NEW pc \in PC, NEW d \in Callers \cup {NoCaller}
  PROVE  LET r == [k EXCEPT !.pc = pc, !.awaits = d]
         IN  /\ r \in Call /\ r.pc = pc /\ r.retry = k.retry /\ r.asking = k.asking
             /\ r.answered = k.answered /\ r.awaits = d
  BY DEF Call

\* Other calls: a waiting one is let go on, the rest stand still.
Others(c) ==
  \A d \in Callers \ {c} :
    \/ call'[d] = call[d]
    \/ /\ call[d].pc = "waiting"
       /\ call'[d] = [call[d] EXCEPT !.pc = "joining", !.awaits = NoCaller]

\* A step that changes one call changes one record.
LEMMA OneCall ==
  ASSUME Inv, NEW c \in Callers, NEW k \in Call, call' = [call EXCEPT ![c] = k]
  PROVE  call' \in [Callers -> Call] /\ Others(c) /\ call'[c] = k
  BY DEF Inv, TypeOK, Others

LEMMA InvInit == Init => Inv
  <1> SUFFICES ASSUME Init PROVE Inv
    OBVIOUS
  <1>1. TypeOK
    BY IdleFits, CapAssumption, CallersAssumption
       DEF Init, TypeOK, Status, Outcome, ReviewerRow, NoRow
  <1>2. Rounds
    <2>1. Fixing = {}
      BY IdleFits DEF Init, Fixing
    <2>2. Cardinality(Fixing) = 0
      BY <2>1, FS_EmptySet
    <2> QED BY <2>2, FewFixing, CapAssumption DEF Init, Rounds
  <1> QED BY <1>1, <1>2, IdleFits
          DEF Init, Inv, Held, OneRun, Linked, NoDangling, OutcomeEarned, NoRow

\* What a call that was let go on is to the invariant.
LEMMA OtherCall ==
  ASSUME Inv, NEW c \in Callers, Others(c), NEW d \in Callers \ {c}
  PROVE  /\ call'[d] \in Call
         /\ call'[d].pc \in Batch => call[d].pc \in Batch
         /\ Runs(call'[d]) <=> Runs(call[d])
         /\ call'[d].pc = "fixing" <=> call[d].pc = "fixing"
         /\ \/ call'[d] = call[d]
            \/ /\ call'[d].asking = {} /\ ~call'[d].answered
               /\ call'[d].awaits = NoCaller /\ call'[d].pc = "joining"
  <1>1. call[d] \in Call /\ CallFits(call[d])
    BY DEF Inv, TypeOK
  <1>2. CASE call'[d] = call[d]
    BY <1>1, <1>2
  <1>3. CASE /\ call[d].pc = "waiting"
             /\ call'[d] = [call[d] EXCEPT !.pc = "joining", !.awaits = NoCaller]
    <2>1. /\ call'[d] \in Call /\ call'[d].pc = "joining"
          /\ call'[d].asking = call[d].asking /\ call'[d].answered = call[d].answered
          /\ call'[d].awaits = NoCaller
      BY <1>1, <1>3 DEF Call, PC
    <2> QED BY <1>1, <1>3, <2>1 DEF CallFits, Runs, Late, Batch
  <1> QED BY <1>2, <1>3 DEF Others

LEMMA OthersFit ==
  ASSUME Inv, NEW c \in Callers, Others(c), review.sent => review'.sent,
         review'.status = "gone" /\ review.status # "gone" =>
           \A d \in Callers \ {c} : call[d].pc \notin AtWork
  PROVE  \A d \in Callers \ {c} : CallFits(call[d])'
  BY OtherCall DEF Inv, CallFits, Late, AtWork

LEMMA OthersHeld ==
  ASSUME Inv, NEW c \in Callers, Others(c), UNCHANGED lease,
         call'[c].pc \in Batch => call[c].pc \in Batch
  PROVE  Held'
  BY OtherCall DEF Inv, Held

\* Who ran the review may go on, whatever others make of it.
LEMMA OthersRun ==
  ASSUME Inv, NEW c \in Callers, Others(c), Runs(call'[c]) => Runs(call[c]),
         review'.status \in {review.status, "running", "cancelled", "gone"}
  PROVE  OneRun'
  <1>1. \A d \in Callers : Runs(call'[d]) => Runs(call[d])
    BY OtherCall
  <1> QED BY <1>1 DEF Inv, OneRun, Runs

\* The call c makes the review run ...
LEMMA StartsRun ==
  ASSUME Inv, NEW c \in Callers, Others(c), review'.status = "running",
         review.status \notin {"running", "cancelled", "gone"}
  PROVE  OneRun'
  <1>1. \A d \in Callers \ {c} : ~Runs(call'[d])
    BY OtherCall DEF Inv, OneRun
  <1> QED BY <1>1 DEF OneRun, Runs

\* ... or was the one that ran it.
LEMMA EndsRun ==
  ASSUME Inv, NEW c \in Callers, Others(c), Runs(call[c]), ~Runs(call'[c])
  PROVE  OneRun'
  <1>1. \A d \in Callers \ {c} : ~Runs(call'[d])
    BY OtherCall DEF Inv, OneRun
  <1> QED BY <1>1 DEF OneRun, Runs

LEMMA RoundsKept ==
  ASSUME Inv, review'.rounds = review.rounds, Fixing' \subseteq Fixing
  PROVE  Rounds'
  <1>1. Fixing \in SUBSET Callers /\ Fixing' \in SUBSET Callers
    BY DEF Fixing
  <1>2. Cardinality(Fixing') <= Cardinality(Fixing)
    BY <1>1, FewFixing, FS_Subset
  <1> QED BY <1>1, <1>2, FewFixing, CapAssumption DEF Inv, TypeOK, Rounds

LEMMA OthersRounds ==
  ASSUME Inv, NEW c \in Callers, Others(c), review'.rounds = review.rounds,
         call'[c].pc # "fixing"
  PROVE  Rounds'
  <1>1. Fixing' \subseteq Fixing
    BY OtherCall DEF Fixing
  <1> QED BY <1>1, RoundsKept

\* Rows, review and lease stay, and the call c goes no further into the batch than it was.
Steady(c) ==
  /\ UNCHANGED <<review, rows, made, lease, crashes>>
  /\ marker' \in [Process -> Callers \cup {NoCaller}]
  /\ tasks' \in [Process -> Callers \cup {NoCaller}]
  /\ call' \in [Callers -> Call]
  /\ Others(c)
  /\ CallFits(call'[c])
  /\ call'[c].pc \in Batch => call[c].pc \in Batch
  /\ Runs(call'[c]) => Runs(call[c])
  /\ call'[c].pc # "fixing"

LEMMA SteadyStep ==
  ASSUME Inv, NEW c \in Callers, Steady(c)
  PROVE  Inv'
  <1>1. TypeOK'
    BY DEF Inv, TypeOK, Steady
  <1>2. \A d \in Callers : CallFits(call[d])'
    <2>1. \A d \in Callers \ {c} : CallFits(call[d])'
      BY OthersFit DEF Steady
    <2> QED BY <2>1 DEF Steady, CallFits
  <1>3. Held' /\ OneRun' /\ Rounds'
    BY OthersHeld, OthersRun, OthersRounds DEF Steady
  <1>4. (review.sent => review.status # "pending")' /\ Linked' /\ NoDangling' /\ OutcomeEarned'
    BY DEF Steady, Inv, Linked, NoDangling, OutcomeEarned
  <1> QED BY <1>1, <1>2, <1>3, <1>4 DEF Inv

\* Marks and ends of a batch, as seen from its call.
LEMMA UnmarkOthers ==
  ASSUME Inv, NEW c \in Callers, NEW next \in Call, Unmark(c, next)
  PROVE  /\ marker' \in [Process -> Callers \cup {NoCaller}]
         /\ call' \in [Callers -> Call] /\ Others(c) /\ call'[c] = next
  <1>1. marker' \in [Process -> Callers \cup {NoCaller}]
    BY DEF Unmark, Inv, TypeOK
  <1>2. \A d \in Callers : call[d].awaits = c => call[d].pc = "waiting"
    BY CallersAssumption DEF Inv, CallFits
  <1>3. call' \in [Callers -> Call]
    <2>1. \A d \in Callers : [call[d] EXCEPT !.pc = "joining", !.awaits = NoCaller] \in Call
      <3>1. "joining" \in PC
        BY DEF PC
      <3> QED BY <3>1, ToWaiting DEF Inv, TypeOK
    <2> QED BY <2>1 DEF Unmark, Inv, TypeOK
  <1> QED BY <1>1, <1>2, <1>3 DEF Unmark, Others

LEMMA GotoOthers ==
  ASSUME Inv, NEW c \in Callers, NEW pc \in PC, Goto(c, pc)
  PROVE  /\ call' \in [Callers -> Call] /\ Others(c)
         /\ call'[c] = [call[c] EXCEPT !.pc = pc] /\ call'[c].pc = pc
         /\ call'[c].retry = call[c].retry /\ call'[c].asking = call[c].asking
         /\ call'[c].answered = call[c].answered /\ call'[c].awaits = call[c].awaits
  BY DEF Goto, Others, Inv, TypeOK, Call

LEMMA ReturnOthers ==
  ASSUME Inv, NEW c \in Callers, Return(c)
  PROVE  call' \in [Callers -> Call] /\ Others(c) /\ call'[c] = Idle
  BY IdleFits DEF Return, Others, Inv, TypeOK

\* What the call c carries, by its place.
LEMMA Carries ==
  ASSUME Inv, NEW c \in Callers
  PROVE  /\ call[c] \in Call /\ CallFits(call[c])
         /\ call[c].pc \notin {"asking"} => call[c].asking = {}
         /\ call[c].pc \notin {"leaving", "settling"} => ~call[c].answered
         /\ call[c].pc # "waiting" => call[c].awaits = NoCaller
  BY DEF Inv, TypeOK, CallFits, Call

LEMMA StepBegins ==
  ASSUME Inv, NEW c \in Callers, Run(c) \/ Retry(c) \/ Finalize(c)
  PROVE  Inv'
  <1>1. CASE Run(c)
    <2> DEFINE k == [Idle EXCEPT !.pc = "ready", !.wanted = Agents]
    <2>1. k \in Call /\ CallFits(k) /\ ~Runs(k) /\ k.pc \notin Batch /\ k.pc # "fixing"
      BY DEF Idle, Call, PC, CallFits, Runs, Late, AtWork, Batch
    <2>2. call' = [call EXCEPT ![c] = k] /\ call[c].pc = "idle"
          /\ UNCHANGED <<review, rows, made, lease, marker, tasks, crashes>>
      BY <1>1 DEF Run
    <2> HIDE DEF k
    <2> QED BY <2>1, <2>2, OneCall, SteadyStep DEF Steady, Inv, TypeOK
  <1>2. CASE Retry(c)
    <2>1. PICK A \in SUBSET Agents :
            call' = [call EXCEPT ![c] = [Idle EXCEPT !.pc = "ready", !.retry = TRUE, !.wanted = A]]
      BY <1>2 DEF Retry
    <2> DEFINE k == [Idle EXCEPT !.pc = "ready", !.retry = TRUE, !.wanted = A]
    <2>2. k \in Call /\ CallFits(k) /\ ~Runs(k) /\ k.pc \notin Batch /\ k.pc # "fixing"
      BY <1>2 DEF Retry, Idle, Call, PC, CallFits, Runs, Late, AtWork, Batch
    <2>3. call' = [call EXCEPT ![c] = k]
      BY <2>1
    <2> HIDE DEF k
    <2> QED BY <1>2, <2>2, <2>3, OneCall, SteadyStep DEF Retry, Steady, Inv, TypeOK
  <1>3. CASE Finalize(c)
    <2>1. CallFits(call'[c]) /\ ~Runs(call'[c])
      BY <1>3, Carries, GotoOthers DEF Finalize, PC, CallFits, Runs, Late, AtWork
    <2> QED BY <1>3, <2>1, GotoOthers, SteadyStep
            DEF Finalize, Steady, Batch, PC, Inv, TypeOK
  <1> QED BY <1>1, <1>2, <1>3

LEMMA StepReturns ==
  ASSUME Inv, NEW c \in Callers, Refuse(c) \/ CancelJoin(c) \/ RefuseLease(c)
  PROVE  Inv'
  <1>1. CASE Refuse(c) \/ CancelJoin(c)
    BY <1>1, IdleFits, ReturnOthers, SteadyStep DEF Refuse, CancelJoin, Steady, Inv, TypeOK
  <1>2. CASE RefuseLease(c)
    BY <1>2, IdleFits, UnmarkOthers, SteadyStep DEF RefuseLease, Steady, Inv, TypeOK
  <1> QED BY <1>1, <1>2

LEMMA StepMoves ==
  ASSUME Inv, NEW c \in Callers,
         Enter(c) \/ FirstLook(c) \/ SecondLook(c) \/ CancelLook(c)
  PROVE  Inv'
  <1>0. ASSUME NEW pc \in PC, Goto(c, pc), UNCHANGED <<review, rows, made, lease, tasks, crashes>>,
               marker' \in [Process -> Callers \cup {NoCaller}],
               call[c].pc \notin {"asking", "leaving", "settling", "waiting"},
               pc \notin {"fixing", "settling"}, pc \in Batch => call[c].pc \in Batch,
               pc \in Late => call[c].pc \in Late,
               pc = "ready" => FALSE,
               pc = "entered" /\ call[c].retry => call[c].pc \in Late,
               pc \in AtWork => review.status = "running"
        PROVE  Inv'
    <2>1. CallFits(call'[c])
      BY <1>0, Carries, GotoOthers DEF CallFits
    <2>2. Runs(call'[c]) => Runs(call[c])
      BY <1>0, Carries, GotoOthers DEF Runs
    <2> QED BY <1>0, <2>1, <2>2, GotoOthers, SteadyStep DEF Steady, Inv, TypeOK
  <1>1. CASE Enter(c)
    BY <1>0, <1>1 DEF Enter, PC, Batch, Late, AtWork, Inv, TypeOK
  <1>2. CASE FirstLook(c) \/ SecondLook(c)
    BY <1>0, <1>2 DEF FirstLook, SecondLook, Look, PC, Batch, Late, AtWork, Inv, TypeOK
  <1>3. CASE CancelLook(c)
    <2>1. CASE call' = [call EXCEPT ![c].pc = "joining"]
      BY <1>0, <1>3, <2>1 DEF CancelLook, Goto, PC, Batch, Late, AtWork, Inv, TypeOK
    <2>2. CASE call' = [call EXCEPT ![c].pc = "waiting", ![c].awaits = marker[home[c]]]
      <3>1. marker[home[c]] \in Callers \cup {NoCaller}
        BY HomeAssumption DEF Inv, TypeOK
      <3>2. /\ call' \in [Callers -> Call] /\ Others(c)
            /\ call'[c].pc = "waiting" /\ call'[c].asking = call[c].asking
            /\ call'[c].answered = call[c].answered
        <4> DEFINE k == [call[c] EXCEPT !.pc = "waiting", !.awaits = marker[home[c]]]
        <4>1. k \in Call /\ k.pc = "waiting" /\ k.asking = call[c].asking
              /\ k.answered = call[c].answered
          <5>1. call[c] \in Call /\ "waiting" \in PC
            BY Carries DEF PC
          <5> QED BY <3>1, <5>1 DEF Call
        <4>2. call' = [call EXCEPT ![c] = k]
          BY <2>2
        <4> HIDE DEF k
        <4> QED BY <4>1, <4>2, OneCall
      <3>3. call[c].pc = "cancelling" /\ UNCHANGED <<review, rows, made, lease, marker, tasks, crashes>>
        BY <1>3 DEF CancelLook
      <3> QED BY <3>2, <3>3, Carries, SteadyStep
              DEF Steady, CallFits, Runs, Late, AtWork, Batch, Inv, TypeOK
    <2> QED BY <1>3, <2>1, <2>2 DEF CancelLook, LookForBatch
  <1> QED BY <1>1, <1>2, <1>3

LEMMA StepAsking ==
  ASSUME Inv, NEW c \in Callers,
         \/ Start(c) \/ Gathered(c) \/ Drop(c)
         \/ \E a \in Agents : TaskDies(c, a)
  PROVE  Inv'
  <1>1. CASE Start(c)
    <2>1. /\ call' \in [Callers -> Call] /\ Others(c)
          /\ call'[c].pc = "asking" /\ call[c].pc = "starting"
          /\ call'[c].answered = call[c].answered /\ call'[c].awaits = call[c].awaits
      <3> DEFINE k == [call[c] EXCEPT !.pc = "asking", !.asking = call[c].wanted]
      <3>0. call[c] \in Call /\ "asking" \in PC /\ call[c].wanted \in SUBSET Agents
        BY Carries, CallFields DEF PC
      <3>1. k \in Call /\ k.pc = "asking" /\ k.answered = call[c].answered /\ k.awaits = call[c].awaits
        BY <3>0 DEF Call
      <3>2. call' = [call EXCEPT ![c] = k] /\ call[c].pc = "starting"
        BY <1>1 DEF Start
      <3> HIDE DEF k
      <3> QED BY <3>1, <3>2, Carries, OneCall DEF Batch
    <2>2. tasks' \in [Process -> Callers \cup {NoCaller}]
      BY <1>1 DEF Start, Inv, TypeOK
    <2> QED BY <1>1, <2>1, <2>2, Carries, SteadyStep
            DEF Start, Steady, CallFits, Runs, Late, AtWork, Batch, Inv, TypeOK
  <1>2. CASE Gathered(c)
    <2>1. /\ call' \in [Callers -> Call] /\ Others(c)
          /\ call'[c].pc = "leaving" /\ call[c].pc = "asking" /\ call'[c].asking = {}
          /\ call'[c].awaits = call[c].awaits
      <3> DEFINE k == [call[c] EXCEPT !.pc = "leaving", !.answered = TRUE]
      <3>0. call[c] \in Call /\ "leaving" \in PC
        BY Carries, CallFields DEF PC
      <3>1. k \in Call /\ k.pc = "leaving" /\ k.asking = call[c].asking /\ k.awaits = call[c].awaits
        BY <3>0, ToAnswered
      <3>2. call' = [call EXCEPT ![c] = k] /\ call[c].pc = "asking" /\ call[c].asking = {}
        BY <1>2 DEF Gathered
      <3> HIDE DEF k
      <3> QED BY <3>1, <3>2, Carries, OneCall DEF Batch
    <2>2. tasks' \in [Process -> Callers \cup {NoCaller}]
      BY <1>2 DEF Gathered, Inv, TypeOK
    <2> QED BY <1>2, <2>1, <2>2, Carries, SteadyStep
            DEF Gathered, Steady, CallFits, Runs, Late, AtWork, Batch, Inv, TypeOK
  <1>3. CASE Drop(c)
    <2>1. /\ call' \in [Callers -> Call] /\ Others(c)
          /\ call'[c].pc = "leaving" /\ call[c].pc \in Batch \ {"leaving"}
          /\ call'[c].asking = {} /\ ~call'[c].answered
          /\ call'[c].awaits = call[c].awaits
      <3> DEFINE k == [call[c] EXCEPT !.pc = "leaving", !.asking = {}]
      <3>0. call[c] \in Call /\ "leaving" \in PC /\ {} \in SUBSET Agents
        BY Carries, CallFields DEF PC
      <3>1. k \in Call /\ k.pc = "leaving" /\ k.asking = {} /\ k.answered = call[c].answered /\ k.awaits = call[c].awaits
        BY <3>0 DEF Call
      <3>2. call' = [call EXCEPT ![c] = k] /\ call[c].pc \in Batch \ {"leaving"}
        BY <1>3 DEF Drop
      <3> HIDE DEF k
      <3> QED BY <3>1, <3>2, Carries, OneCall DEF Batch
    <2>2. tasks' \in [Process -> Callers \cup {NoCaller}]
      BY <1>3 DEF Drop, Inv, TypeOK
    <2> QED BY <1>3, <2>1, <2>2, Carries, SteadyStep
            DEF Drop, Steady, CallFits, Runs, Late, AtWork, Batch, Inv, TypeOK
  <1>4. ASSUME NEW a \in Agents, TaskDies(c, a)
        PROVE  Inv'
    <2>1. /\ call' \in [Callers -> Call] /\ Others(c)
          /\ call'[c].pc = call[c].pc /\ call[c].pc = "asking"
          /\ call'[c].answered = call[c].answered /\ call'[c].awaits = call[c].awaits
      BY <1>4, Carries DEF TaskDies, Others, Call, PC, Inv, TypeOK
    <2> QED BY <1>4, <2>1, Carries, SteadyStep
            DEF TaskDies, Steady, CallFits, Runs, Late, AtWork, Batch, Inv, TypeOK
  <1> QED BY <1>1, <1>2, <1>3, <1>4

\* An update of the reviews row.
LEMMA ReviewType ==
  ASSUME Inv
  PROVE  /\ \A x \in Status : [review EXCEPT !.status = x] \in
              [status : Status, outcome : Outcome, sent : BOOLEAN, rounds : Nat]
         /\ \A x \in Status, y \in Outcome : [review EXCEPT !.status = x, !.outcome = y] \in
              [status : Status, outcome : Outcome, sent : BOOLEAN, rounds : Nat]
         /\ review.status \in Status /\ review.rounds \in Nat
  BY DEF Inv, TypeOK

LEMMA StepMarkRunning ==
  ASSUME Inv, NEW c \in Callers, MarkRunning(c)
  PROVE  Inv'
  <1>1. /\ call' \in [Callers -> Call] /\ Others(c) /\ call'[c].pc = "marked"
        /\ call[c].pc = "ready" /\ call[c].retry
        /\ call'[c].asking = {} /\ ~call'[c].answered /\ call'[c].awaits = NoCaller
    BY Carries, GotoOthers DEF MarkRunning, PC
  <1>2. review.status \in RETRYABLE /\ review' = [review EXCEPT !.status = "running"]
    BY DEF MarkRunning, Transition
  <1>3. review'.status = "running" /\ review'.sent = review.sent /\ review'.rounds = review.rounds
    BY <1>2 DEF Inv, TypeOK
  <1>4. TypeOK'
    BY <1>1, <1>2, ReviewType DEF MarkRunning, Inv, TypeOK, Status
  <1>5. \A d \in Callers : CallFits(call[d])'
    <2>1. review.sent
      BY <1>1, Carries DEF CallFits
    <2>2. CallFits(call[c])'
      BY <1>1, <1>3, <2>1 DEF CallFits, Late
    <2> QED BY <1>1, <1>3, <2>2, OthersFit
  <1>6. Held' /\ Rounds'
    BY <1>1, <1>3, OthersHeld, OthersRounds DEF MarkRunning, Batch
  <1>7. OneRun'
    BY <1>1, <1>2, <1>3, StartsRun DEF RETRYABLE
  <1>8. (review.sent => review.status # "pending")' /\ Linked' /\ NoDangling' /\ OutcomeEarned'
    BY <1>3 DEF MarkRunning, Inv, Linked, NoDangling, OutcomeEarned
  <1> QED BY <1>4, <1>5, <1>6, <1>7, <1>8 DEF Inv

LEMMA StepAcquire ==
  ASSUME Inv, NEW c \in Callers, Acquire(c)
  PROVE  Inv'
  <1>1. PICK pc \in {"confirmed", "leased"} :
          Goto(c, pc) /\ (pc = "confirmed" => call[c].retry) /\ call[c].pc = "entered"
    BY DEF Acquire
  <1>2. /\ call' \in [Callers -> Call] /\ Others(c) /\ call'[c].pc = pc
        /\ call'[c].asking = {} /\ ~call'[c].answered /\ call'[c].awaits = NoCaller
        /\ call'[c].retry = call[c].retry
    BY <1>1, Carries, GotoOthers DEF PC
  <1>3. \A d \in Callers : call[d].pc \notin Batch
    BY CallersAssumption DEF Acquire, Free, LiveLease, Inv, Held
  <1>4. TypeOK'
    BY <1>2 DEF Acquire, Inv, TypeOK
  <1>5. \A d \in Callers : CallFits(call[d])'
    <2>1. CallFits(call[c])'
      BY <1>1, <1>2, Carries DEF Acquire, CallFits, Late, AtWork
    <2> QED BY <1>2, <2>1, OthersFit DEF Acquire
  <1>6. Held'
    BY <1>2, <1>3, OtherCall DEF Acquire, Held
  <1>7. OneRun' /\ Rounds'
    BY <1>1, <1>2, OthersRun, OthersRounds DEF Acquire, Runs, Late
  <1>8. (review.sent => review.status # "pending")' /\ Linked' /\ NoDangling' /\ OutcomeEarned'
    BY DEF Acquire, Inv, Linked, NoDangling, OutcomeEarned
  <1> QED BY <1>4, <1>5, <1>6, <1>7, <1>8 DEF Inv

LEMMA StepConsume ==
  ASSUME Inv, NEW c \in Callers, Consume(c)
  PROVE  Inv'
  <1>1. CASE UNCHANGED review /\ Goto(c, "leaving")
    <2>1. /\ call' \in [Callers -> Call] /\ Others(c) /\ call'[c].pc = "leaving"
          /\ call[c].pc = "leased"
          /\ call'[c].asking = {} /\ ~call'[c].answered /\ call'[c].awaits = NoCaller
      BY <1>1, Carries, GotoOthers DEF Consume, PC
    <2> QED BY <1>1, <2>1, SteadyStep
            DEF Consume, Steady, CallFits, Runs, Late, AtWork, Batch, Inv, TypeOK
  <1>2. CASE /\ review.status = "pending" /\ ~review.sent
             /\ review' = [review EXCEPT !.status = "running", !.sent = TRUE]
             /\ Goto(c, "confirmed")
    <2>1. /\ call' \in [Callers -> Call] /\ Others(c) /\ call'[c].pc = "confirmed"
          /\ call[c].pc = "leased"
          /\ call'[c].asking = {} /\ ~call'[c].answered /\ call'[c].awaits = NoCaller
      BY <1>2, Carries, GotoOthers DEF Consume, PC
    <2>2. review'.status = "running" /\ review'.sent /\ review'.rounds = review.rounds
      BY <1>2 DEF Inv, TypeOK
    <2>3. TypeOK'
      BY <1>2, <2>1 DEF Consume, Inv, TypeOK, Status
    <2>4. \A d \in Callers : CallFits(call[d])'
      <3>1. CallFits(call[c])'
        BY <2>1, <2>2 DEF CallFits
      <3> QED BY <2>1, <2>2, <3>1, OthersFit
    <2>5. Held' /\ Rounds' /\ OneRun'
      BY <1>2, <2>1, <2>2, OthersHeld, OthersRounds, StartsRun DEF Consume, Batch
    <2>6. (review.sent => review.status # "pending")' /\ Linked' /\ NoDangling' /\ OutcomeEarned'
      BY <2>2 DEF Consume, Inv, Linked, NoDangling, OutcomeEarned
    <2> QED BY <2>3, <2>4, <2>5, <2>6 DEF Inv
  <1> QED BY <1>1, <1>2 DEF Consume

\* Rows are written only under a call that runs the review, so not while it waits for its
\* synthesis or has one.
LEMMA OutcomeUntouched ==
  ASSUME Inv, NEW c \in Callers, Runs(call[c]), UNCHANGED review
  PROVE  OutcomeEarned'
  BY DEF Inv, OneRun, OutcomeEarned

LEMMA StepReserve ==
  ASSUME Inv, NEW c \in Callers, Reserve(c)
  PROVE  Inv'
  <1>1. /\ call' \in [Callers -> Call] /\ Others(c) /\ call'[c].pc = "reserved"
        /\ call[c].pc = "reserving"
        /\ call'[c].asking = {} /\ ~call'[c].answered /\ call'[c].awaits = NoCaller
    BY Carries, GotoOthers DEF Reserve, PC
  <1>2. \A a \in Agents : /\ rows'[a] \in ReviewerRow
                          /\ \/ rows'[a] = rows[a]
                             \/ /\ rows[a].status = "absent"
                                /\ rows'[a].status = "failed" /\ ~rows'[a].linked
    BY DEF Reserve, NoRow, ReviewerRow, Inv, TypeOK
  <1>3. TypeOK'
    BY <1>1, <1>2 DEF Reserve, Inv, TypeOK
  <1>4. \A d \in Callers : CallFits(call[d])'
    <2>1. CallFits(call[c])'
      BY <1>1, Carries DEF Reserve, CallFits, Late, AtWork
    <2> QED BY <1>1, <2>1, OthersFit DEF Reserve
  <1>5. Held' /\ OneRun' /\ Rounds'
    BY <1>1, OthersHeld, OthersRun, OthersRounds DEF Reserve, Runs, Late, Batch
  <1>6. Linked' /\ NoDangling'
    BY <1>2 DEF Reserve, Inv, TypeOK, Linked, NoDangling
  <1>7. OutcomeEarned'
    BY <1>1, OutcomeUntouched DEF Reserve, Runs, Late
  <1> QED BY <1>3, <1>4, <1>5, <1>6, <1>7 DEF Reserve, Inv

LEMMA StepAsk ==
  ASSUME Inv, NEW c \in Callers, NEW a \in Agents, Ask(c, a)
  PROVE  Inv'
  <1>1. call[c].pc = "asking" /\ Runs(call[c])
    BY DEF Ask, Inv, CallFits, Runs, Late
  <1>2. rows' = [rows EXCEPT ![a] = rows'[a]] /\ rows'[a].linked /\ rows'[a] \in ReviewerRow
        /\ rows'[a].status = rows[a].status
    BY DEF Ask, Inv, TypeOK, ReviewerRow
  <1>3. TypeOK'
    BY <1>2 DEF Ask, Inv, TypeOK
  <1>4. Linked' /\ NoDangling'
    BY <1>2 DEF Ask, Inv, TypeOK, Linked, NoDangling
  <1>5. OutcomeEarned'
    BY <1>1, OutcomeUntouched DEF Ask
  <1>6. (\A d \in Callers : CallFits(call[d])') /\ Held' /\ OneRun' /\ Rounds'
    BY DEF Ask, Inv, CallFits, Held, OneRun, Rounds, Fixing
  <1> QED BY <1>3, <1>4, <1>5, <1>6 DEF Ask, Inv

LEMMA StepRecord ==
  ASSUME Inv, NEW c \in Callers, NEW a \in Agents, Record(c, a)
  PROVE  Inv'
  <1>1. call[c].pc = "asking" /\ Runs(call[c])
    BY DEF Record, Inv, CallFits, Runs, Late
  <1>2. /\ call' \in [Callers -> Call] /\ Others(c) /\ call'[c].pc = "asking"
        /\ call'[c].answered = call[c].answered /\ call'[c].awaits = call[c].awaits
    <2> DEFINE k == [call[c] EXCEPT !.asking = @ \ {a}]
    <2>1. call[c] \in Call
      BY Carries
    <2>2. k \in Call /\ k.pc = call[c].pc /\ k.answered = call[c].answered
          /\ k.awaits = call[c].awaits
      BY <2>1 DEF Call
    <2>3. call' = [call EXCEPT ![c] = k]
      BY DEF Record
    <2> HIDE DEF k
    <2> QED BY <1>1, <2>2, <2>3, OneCall
  <1>3. PICK ok \in BOOLEAN, parsed \in BOOLEAN, named \in BOOLEAN :
          rows' = [rows EXCEPT ![a] = [status |-> IF ok THEN "ok" ELSE "failed",
                                       linked |-> rows[a].linked \/ named,
                                       parsed |-> parsed]]
    BY DEF Record, Link
  <1>4. /\ rows'[a] \in ReviewerRow /\ rows'[a].status # "absent"
        /\ rows[a].linked => rows'[a].linked
        /\ \A b \in Agents \ {a} : rows'[b] = rows[b]
        /\ rows' \in [Agents -> ReviewerRow]
    <2>1. rows[a].linked \in BOOLEAN
      BY DEF Inv, TypeOK, ReviewerRow
    <2>2. (rows[a].linked \/ named) \in BOOLEAN
      OBVIOUS
    <2> QED BY <1>3, <2>1, <2>2 DEF ReviewerRow, Inv, TypeOK
  <1>5. TypeOK'
    BY <1>2, <1>4 DEF Record, Inv, TypeOK
  <1>6. \A d \in Callers : CallFits(call[d])'
    <2>1. CallFits(call[c])'
      BY <1>1, <1>2, Carries DEF Record, CallFits, Late, AtWork
    <2> QED BY <1>2, <2>1, OthersFit DEF Record
  <1>7. Held' /\ OneRun' /\ Rounds'
    BY <1>1, <1>2, OthersHeld, OthersRun, OthersRounds DEF Record, Batch
  <1>8. Linked' /\ NoDangling'
    BY <1>4 DEF Record, Inv, TypeOK, Linked, NoDangling
  <1>9. OutcomeEarned'
    BY <1>1, OutcomeUntouched DEF Record
  <1> QED BY <1>5, <1>6, <1>7, <1>8, <1>9 DEF Record, Inv

LEMMA StepFail ==
  ASSUME Inv, NEW c \in Callers, Fail(c)
  PROVE  Inv'
  <1>1. /\ call' \in [Callers -> Call] /\ Others(c) /\ call'[c].pc = "leaving"
        /\ call[c].pc = "failing"
        /\ call'[c].asking = {} /\ ~call'[c].answered /\ call'[c].awaits = NoCaller
    BY Carries, GotoOthers DEF Fail, PC
  <1>2. Runs(call[c]) /\ ~Runs(call'[c])
    BY <1>1 DEF Runs, Late
  <1>3. /\ review'.sent = review.sent /\ review'.rounds = review.rounds
        /\ review'.outcome = review.outcome
        /\ review'.status = IF review.status = "running" THEN "failed" ELSE review.status
        /\ TypeOK'
    <2>1. review' \in {review, [review EXCEPT !.status = "failed"]} /\ "failed" \in Status
      BY DEF Fail, Transition, Status
    <2>2. TypeOK'
      BY <1>1, <2>1, ReviewType DEF Fail, Inv, TypeOK
    <2> QED BY <2>2 DEF Fail, Transition, Inv, TypeOK
  <1>4. \A d \in Callers : CallFits(call[d])'
    <2>1. CallFits(call[c])'
      BY <1>1 DEF CallFits, Late, AtWork
    <2> QED BY <1>1, <1>3, <2>1, OthersFit
  <1>5. Held' /\ OneRun' /\ Rounds'
    BY <1>1, <1>2, <1>3, OthersHeld, EndsRun, OthersRounds DEF Fail, Batch
  <1>6. (review.sent => review.status # "pending")' /\ Linked' /\ NoDangling' /\ OutcomeEarned'
    BY <1>2, <1>3 DEF Fail, Inv, OneRun, Linked, NoDangling, OutcomeEarned
  <1> QED BY <1>3, <1>4, <1>5, <1>6 DEF Inv

LEMMA StepLeave ==
  ASSUME Inv, NEW c \in Callers, Leave(c)
  PROVE  Inv'
  <1> DEFINE next == IF call[c].answered THEN [call[c] EXCEPT !.pc = "settling"] ELSE Idle
  <1>1. /\ next \in Call /\ CallFits(next) /\ next.pc \in {"settling", "idle"}
        /\ Runs(next) => Runs(call[c])
    <2>1. CASE call[c].answered
      <3>1. call[c] \in Call /\ "settling" \in PC /\ call[c].pc = "leaving"
        BY Carries DEF Leave, PC
      <3>2. /\ next \in Call /\ next.pc = "settling" /\ next.asking = call[c].asking
            /\ next.answered = call[c].answered /\ next.awaits = call[c].awaits
        BY <2>1, <3>1 DEF Call
      <3> HIDE DEF next
      <3> QED BY <2>1, <3>1, <3>2, Carries DEF CallFits, Runs, Late, AtWork
    <2>2. CASE ~call[c].answered
      BY <2>2, IdleFits DEF Idle
    <2> QED BY <2>1, <2>2
  <1>2. Unmark(c, next) /\ call[c].pc = "leaving"
    BY DEF Leave
  <1> HIDE DEF next
  <1>3. /\ marker' \in [Process -> Callers \cup {NoCaller}]
        /\ call' \in [Callers -> Call] /\ Others(c) /\ call'[c] = next
    BY <1>1, <1>2, UnmarkOthers
  <1>4. TypeOK'
    BY <1>3, CallersAssumption DEF Leave, Inv, TypeOK
  <1>5. \A d \in Callers : CallFits(call[d])'
    <2>1. CallFits(call[c])'
      BY <1>1, <1>3 DEF Leave, CallFits
    <2> QED BY <1>3, <2>1, OthersFit DEF Leave
  <1>6. Held'
    <2>1. \A d \in Callers \ {c} : call[d].pc \notin Batch
      BY <1>2 DEF Inv, Held, Batch
    <2>2. call'[c].pc \notin Batch
      BY <1>1, <1>3 DEF Batch
    <2> QED BY <1>3, <2>1, <2>2, OtherCall DEF Held
  <1>7. OneRun' /\ Rounds'
    BY <1>1, <1>3, OthersRun, OthersRounds DEF Leave
  <1>8. (review.sent => review.status # "pending")' /\ Linked' /\ NoDangling' /\ OutcomeEarned'
    BY DEF Leave, Inv, Linked, NoDangling, OutcomeEarned
  <1> QED BY <1>4, <1>5, <1>6, <1>7, <1>8 DEF Inv

LEMMA Outcomes ==
  /\ OutcomeOf(Agents) \in Outcome
  /\ OutcomeOf(Agents) # "none" => \E a \in Agents : rows[a].status = "ok"
  /\ OutcomeOf(Agents) = "all" => \A a \in Agents : rows[a].status = "ok"
  BY AgentsAssumption DEF OutcomeOf, Outcome

LEMMA StepSettle ==
  ASSUME Inv, NEW c \in Callers, Settle(c)
  PROVE  Inv'
  <1>1. /\ call' \in [Callers -> Call] /\ Others(c) /\ call'[c] = Idle
        /\ Runs(call[c])
    BY ReturnOthers, Carries DEF Settle, Runs, Inv, CallFits
  <1>2. CASE review.status = "running"
    <2> DEFINE outcome == OutcomeOf(Agents)
               status == IF outcome = "none" THEN "failed" ELSE "awaiting_synthesis"
    <2>1. review' = [review EXCEPT !.status = status, !.outcome = outcome]
      BY <1>2 DEF Settle, Settled
    <2>2. outcome \in Outcome /\ status \in Status
      BY Outcomes DEF Status
    <2>3. /\ review'.status = status /\ review'.outcome = outcome
          /\ review'.sent = review.sent /\ review'.rounds = review.rounds
      BY <2>1 DEF Inv, TypeOK
    <2>4. TypeOK'
      <3> HIDE DEF outcome, status
      <3> QED BY <1>1, <2>1, <2>2, ReviewType DEF Settle, Inv, TypeOK
    <2>5. \A d \in Callers : CallFits(call[d])'
      <3>1. CallFits(call[c])'
        BY <1>1 DEF CallFits, Idle, Late, AtWork
      <3> QED BY <1>1, <2>3, <3>1, OthersFit
    <2>6. Held' /\ OneRun' /\ Rounds'
      BY <1>1, <2>3, IdleFits, OthersHeld, EndsRun, OthersRounds DEF Settle
    <2>7. OutcomeEarned'
      BY <2>3, Outcomes DEF Settle, OutcomeEarned
    <2>8. (review.sent => review.status # "pending")' /\ Linked' /\ NoDangling'
      BY <2>3 DEF Settle, Inv, Linked, NoDangling
    <2> QED BY <2>4, <2>5, <2>6, <2>7, <2>8 DEF Inv
  <1>3. CASE review.status # "running"
    BY <1>1, <1>3, IdleFits, SteadyStep DEF Settle, Steady, Inv, TypeOK
  <1> QED BY <1>2, <1>3

LEMMA StepCancel ==
  ASSUME Inv, NEW c \in Callers, Cancel(c)
  PROVE  Inv'
  <1>1. /\ call' \in [Callers -> Call] /\ Others(c) /\ call'[c].pc = "cancelling"
        /\ call'[c].asking = {} /\ ~call'[c].answered /\ call'[c].awaits = NoCaller
    BY Carries, GotoOthers DEF Cancel, PC
  <1>2. /\ review' = [review EXCEPT !.status = "cancelled"] /\ "cancelled" \in Status
        /\ review'.status = "cancelled" /\ review'.sent = review.sent
        /\ review'.rounds = review.rounds
    BY DEF Cancel, Transition, Status, Inv, TypeOK
  <1>3. TypeOK'
    BY <1>1, <1>2, ReviewType DEF Cancel, Inv, TypeOK
  <1>4. \A d \in Callers : CallFits(call[d])'
    <2>1. CallFits(call[c])'
      BY <1>1, <1>2 DEF CallFits, Late, AtWork
    <2> QED BY <1>1, <1>2, <2>1, OthersFit
  <1>5. Held' /\ OneRun' /\ Rounds'
    BY <1>1, <1>2, OthersHeld, OthersRun, OthersRounds DEF Cancel, Runs, Late, Batch
  <1>6. (review.sent => review.status # "pending")' /\ Linked' /\ NoDangling' /\ OutcomeEarned'
    BY <1>2 DEF Cancel, Inv, Linked, NoDangling, OutcomeEarned
  <1> QED BY <1>3, <1>4, <1>5, <1>6 DEF Inv

LEMMA StepComplete ==
  ASSUME Inv, NEW c \in Callers, Complete(c)
  PROVE  Inv'
  <1>1. call' \in [Callers -> Call] /\ Others(c) /\ call'[c] = Idle
    BY ReturnOthers DEF Complete
  <1>2. CASE UNCHANGED review
    BY <1>1, <1>2, IdleFits, SteadyStep DEF Complete, Steady, Inv, TypeOK
  <1>3. CASE review.status = "awaiting_synthesis"
             /\ review' = [review EXCEPT !.status = "complete"]
    <2>1. /\ review'.status = "complete" /\ review'.sent = review.sent
          /\ review'.rounds = review.rounds /\ review'.outcome = review.outcome
          /\ "complete" \in Status
      BY <1>3 DEF Inv, TypeOK, Status
    <2>2. TypeOK'
      BY <1>1, <1>3, <2>1, ReviewType DEF Complete, Inv, TypeOK
    <2>3. \A d \in Callers : CallFits(call[d])'
      <3>1. CallFits(call[c])'
        BY <1>1 DEF CallFits, Idle, Late, AtWork
      <3> QED BY <1>1, <2>1, <3>1, OthersFit
    <2>4. Held' /\ Rounds'
      BY <1>1, <2>1, IdleFits, OthersHeld, OthersRounds DEF Complete
    <2>5. OneRun'
      <3>1. \A d \in Callers : ~Runs(call'[d])
        BY <1>1, <1>3, IdleFits, OtherCall DEF Inv, OneRun
      <3> QED BY <3>1 DEF OneRun, Runs
    <2>6. (review.sent => review.status # "pending")' /\ Linked' /\ NoDangling' /\ OutcomeEarned'
      BY <1>3, <2>1 DEF Complete, Inv, Linked, NoDangling, OutcomeEarned
    <2> QED BY <2>2, <2>3, <2>4, <2>5, <2>6 DEF Inv
  <1> QED BY <1>2, <1>3 DEF Complete, Transition

LEMMA StepFix ==
  ASSUME Inv, NEW c \in Callers, Fix(c)
  PROVE  Inv'
  <1>1. /\ call' \in [Callers -> Call] /\ Others(c) /\ call'[c].pc = "fixing"
        /\ call'[c].asking = {} /\ ~call'[c].answered /\ call'[c].awaits = NoCaller
    BY Carries, GotoOthers DEF Fix, PC
  <1>2. TypeOK'
    BY <1>1 DEF Fix, Inv, TypeOK
  <1>3. \A d \in Callers : CallFits(call[d])'
    <2>1. CallFits(call[c])'
      BY <1>1 DEF CallFits, Late, AtWork
    <2> QED BY <1>1, <2>1, OthersFit DEF Fix
  <1>4. Held' /\ OneRun'
    BY <1>1, OthersHeld, OthersRun DEF Fix, Runs, Late, Batch
  <1>5. Rounds'
    <2>1. Fixing' \in SUBSET Callers /\ review.rounds < MAX_FIX_ROUNDS /\ UNCHANGED review
      BY DEF Fix, Fixing, RoundLeft
    <2> QED BY <2>1, FewFixing, CapAssumption DEF Inv, TypeOK, Rounds
  <1>6. (review.sent => review.status # "pending")' /\ Linked' /\ NoDangling' /\ OutcomeEarned'
    BY DEF Fix, Inv, Linked, NoDangling, OutcomeEarned
  <1> QED BY <1>2, <1>3, <1>4, <1>5, <1>6 DEF Inv

LEMMA StepAppendFixRound ==
  ASSUME Inv, NEW c \in Callers, AppendFixRound(c)
  PROVE  Inv'
  <1>1. /\ call' \in [Callers -> Call] /\ Others(c) /\ call'[c] = Idle
        /\ call[c].pc = "fixing"
    BY ReturnOthers DEF AppendFixRound
  <1>2. /\ review'.status = review.status /\ review'.sent = review.sent
        /\ review'.outcome = review.outcome
        /\ review'.rounds \in {review.rounds, review.rounds + 1}
    BY DEF AppendFixRound, Inv, TypeOK
  <1>3. TypeOK'
    BY <1>1 DEF AppendFixRound, Inv, TypeOK
  <1>4. \A d \in Callers : CallFits(call[d])'
    <2>1. CallFits(call[c])'
      BY <1>1 DEF CallFits, Idle, Late, AtWork
    <2> QED BY <1>1, <1>2, <2>1, OthersFit
  <1>5. Held' /\ OneRun'
    BY <1>1, <1>2, IdleFits, OthersHeld, OthersRun DEF AppendFixRound
  <1>6. Rounds'
    <2>1. Fixing \in SUBSET Callers /\ c \in Fixing
      BY <1>1 DEF Fixing
    <2>2. Fixing' = Fixing \ {c}
      BY <1>1, IdleFits, OtherCall DEF Fixing
    <2>3. Cardinality(Fixing') = Cardinality(Fixing) - 1
      BY <2>1, <2>2, FewFixing, FS_RemoveElement
    <2> QED BY <1>2, <2>1, <2>3, FewFixing, CapAssumption DEF Inv, TypeOK, Rounds
  <1>7. (review.sent => review.status # "pending")' /\ Linked' /\ NoDangling' /\ OutcomeEarned'
    BY <1>2 DEF AppendFixRound, Inv, Linked, NoDangling, OutcomeEarned
  <1> QED BY <1>3, <1>4, <1>5, <1>6, <1>7 DEF Inv

\* The review goes while nobody is at work on it.
LEMMA Goes ==
  ASSUME Inv, review' = [review EXCEPT !.status = "gone"], UNCHANGED <<call, marker, tasks, crashes>>,
         \A c \in Callers : call[c].pc \notin AtWork,
         rows' \in [Agents -> ReviewerRow], made' \subseteq made,
         lease' \in [holder : Callers \cup {NoCaller}, expired : BOOLEAN],
         Held', Linked', NoDangling'
  PROVE  Inv'
  <1>1. /\ review'.status = "gone" /\ review'.sent = review.sent
        /\ review'.rounds = review.rounds /\ "gone" \in Status
    BY DEF Inv, TypeOK, Status
  <1>2. TypeOK'
    BY <1>1, ReviewType DEF Inv, TypeOK
  <1>3. \A c \in Callers : CallFits(call[c])'
    BY <1>1 DEF Inv, CallFits
  <1>4. OneRun' /\ Rounds'
    BY <1>1 DEF Inv, OneRun, Rounds, Fixing
  <1> QED BY <1>1, <1>2, <1>3, <1>4 DEF Inv, OutcomeEarned

LEMMA StepGoes ==
  ASSUME Inv, Delete \/ Forget
  PROVE  Inv'
  <1>1. CASE Delete
    <2>1. \A c \in Callers : call[c].pc \notin Batch
      BY <1>1, CallersAssumption DEF Delete, Deletable, LiveLease, Inv, Held
    <2>2. rows' \in [Agents -> ReviewerRow] /\ Linked' /\ made' = {}
      BY <1>1 DEF Delete, NoRow, ReviewerRow, Linked, Inv, TypeOK, NoDangling
    <2>3. Held' /\ \A c \in Callers : call[c].pc \notin AtWork
      BY <1>1, <2>1 DEF Delete, Held, Batch, AtWork
    <2> QED BY <1>1, <2>2, <2>3, Goes DEF Delete, NoDangling
  <1>2. CASE Forget
    <2>1. \A c \in Callers : call[c].pc \notin AtWork
      BY <1>2 DEF Forget, Inv, CallFits, Late, AtWork
    <2>2. Held' /\ Linked' /\ NoDangling'
      BY <1>2 DEF Forget, Inv, Held, Linked, NoDangling
    <2> QED BY <1>2, <2>1, <2>2, Goes DEF Forget, Inv, TypeOK
  <1> QED BY <1>1, <1>2

LEMMA StepCrash ==
  ASSUME Inv, NEW p \in Process, Crash(p)
  PROVE  Inv'
  <1>1. /\ call' \in [Callers -> Call]
        /\ \A c \in Callers : call'[c] = Idle \/ call'[c] = call[c]
    BY IdleFits DEF Crash, Inv, TypeOK
  <1>2. TypeOK'
    BY <1>1, CapAssumption DEF Crash, Inv, TypeOK
  <1>3. \A c \in Callers : CallFits(call[c])'
    BY <1>1, IdleFits DEF Crash, Inv, CallFits
  <1>4. Held' /\ OneRun'
    <2>1. \A c \in Callers : /\ call'[c].pc \in Batch => call[c].pc \in Batch
                             /\ Runs(call'[c]) => Runs(call[c])
      BY <1>1, IdleFits
    <2> QED BY <2>1 DEF Crash, Inv, Held, OneRun, Runs
  <1>5. Rounds'
    <2>1. Fixing' \subseteq Fixing
      BY <1>1, IdleFits DEF Fixing
    <2> QED BY <2>1, RoundsKept DEF Crash
  <1> QED BY <1>2, <1>3, <1>4, <1>5 DEF Crash, Inv, Linked, NoDangling, OutcomeEarned

LEMMA StepExpire ==
  ASSUME Inv, Expire
  PROVE  Inv'
  <1>1. \A c \in Callers : call[c].pc \notin Batch
    BY DEF Expire, LiveLease, Inv, Held
  <1>2. TypeOK' /\ Held'
    BY <1>1 DEF Expire, Held, Inv, TypeOK
  <1>3. \A c \in Callers : CallFits(call[c])'
    BY DEF Expire, Inv, CallFits
  <1> QED BY <1>2, <1>3 DEF Expire, Inv, OneRun, Linked, NoDangling, OutcomeEarned, Rounds, Fixing

LEMMA StepStutter ==
  ASSUME Inv, UNCHANGED vars
  PROVE  Inv'
  <1>1. \A c \in Callers : CallFits(call[c])'
    BY DEF vars, Inv, CallFits
  <1> QED BY <1>1 DEF vars, Inv, TypeOK, Held, OneRun, Linked, NoDangling, OutcomeEarned, Rounds, Fixing

LEMMA InvStep == Inv /\ [Next]_vars => Inv'
  <1>1. ASSUME Inv, NEW c \in Callers, Begin(c)
        PROVE  Inv'
    BY <1>1, StepBegins, StepCancel, StepFix DEF Begin
  <1>2. ASSUME Inv, NEW c \in Callers, Steps(c)
        PROVE  Inv'
    BY <1>2, StepReturns, StepMarkRunning, StepMoves, StepAcquire, StepConsume, StepReserve,
       StepAsking, StepFail, StepLeave, StepSettle, StepComplete, StepAppendFixRound,
       StepAsk, StepRecord DEF Steps
  <1> QED BY <1>1, <1>2, StepAsking, StepGoes, StepCrash, StepExpire, StepStutter DEF Next

-----------------------------------------------------------------------------
\* The inductive invariant.
THEOREM InvHolds == Spec => []Inv
  BY InvInit, InvStep, PTL DEF Spec

\* The rows and the calls keep their types.
THEOREM TypeCorrect == Spec => []TypeOK
  <1>1. Inv => TypeOK
    BY DEF Inv
  <1> QED BY <1>1, InvHolds, PTL

\* Every consultation made for a reviewer is found from its row, whatever failed attempt
\* was recorded after it.
THEOREM NoneDangles == Spec => []NoDangling
  <1>1. Inv => NoDangling
    BY DEF Inv
  <1> QED BY <1>1, InvHolds, PTL

\* A review waits for its synthesis, or has one, only with an answer to make it of, and
\* says `all` only when all answered, however many batches it took.
THEOREM OutcomesEarned == Spec => []OutcomeEarned
  <1>1. Inv => OutcomeEarned
    BY DEF Inv
  <1> QED BY <1>1, InvHolds, PTL

\* No reviewer is at work for a review that was deleted.
THEOREM DeletesWait == Spec => []DeleteWaits
  <1>1. Inv => DeleteWaits
    BY DEF Inv, CallFits, AtWork, DeleteWaits
  <1> QED BY <1>1, InvHolds, PTL

\* The cap on fix rounds is passed only by calls that counted together.
THEOREM RoundsCapped == Spec => []RoundsWithinCap
  <1>1. ASSUME Inv
        PROVE  RoundsWithinCap
    <2>1. Fixing \in SUBSET Callers
      BY DEF Fixing
    <2> QED BY <1>1, <2>1, FewFixing, CapAssumption DEF Inv, TypeOK, Rounds, RoundsWithinCap
  <1> QED BY <1>1, InvHolds, PTL
-----------------------------------------------------------------------------
(***************************************************************************)
(* The cancel.  Once it has changed the status nobody makes the review     *)
(* `running` again, so who is not past the last look at it gets no further;*)
(* and who was past it has a marker, which the cancel waits for, or found  *)
(* another's.                                                              *)
(***************************************************************************)
Over == {"cancelled", "gone"}
Cancelling == {"cancelling", "waiting", "joining"}
Sending == {"starting", "asking"}

\* The batch that left the marker of a process is not at work.
Quiet(p) == \A d \in Callers : marker[p] = d => call[d].pc \notin Sending

CancelFits(c) ==
  /\ call[c].pc \in Cancelling => review.status \in Over
  /\ call[c].pc = "waiting" => call[c].awaits \in Callers /\ marker[home[c]] = call[c].awaits
  /\ call[c].pc = "joining" => Quiet(home[c])

Cancels == \A c \in Callers : CancelFits(c)

\* A review that is over stays so.
LEMMA StaysOver ==
  ASSUME Inv, [Next]_vars, review.status \in Over
  PROVE  review'.status \in Over
  <1> USE DEF Over
  <1>1. review \in [status : Status, outcome : Outcome, sent : BOOLEAN, rounds : Nat]
    BY DEF Inv, TypeOK
  <1>2. ASSUME NEW c \in Callers, Begin(c) \/ Steps(c) \/ Drop(c)
        PROVE  review'.status \in Over
    <2>1. CASE \/ UNCHANGED review
      BY <2>1
    <2>2. CASE \/ MarkRunning(c) \/ Consume(c) \/ Fail(c) \/ Settle(c) \/ Complete(c)
               \/ AppendFixRound(c) \/ Cancel(c)
      BY <1>1, <2>2 DEF MarkRunning, Consume, Fail, Settle, Complete, AppendFixRound, Cancel,
                        Transition, RETRYABLE, CANCELLABLE
    <2>3. CASE Begin(c) /\ ~Cancel(c)
      BY <2>3, <2>1 DEF Begin, Run, Retry, Finalize, Fix
    <2>4. CASE /\ Steps(c)
               /\ ~(MarkRunning(c) \/ Consume(c) \/ Fail(c) \/ Settle(c) \/ Complete(c)
                    \/ AppendFixRound(c))
      BY <2>4, <2>1 DEF Steps, Refuse, Enter, Acquire, RefuseLease, FirstLook, SecondLook, Look,
                        Reserve, Start, Gathered, Leave, CancelLook, CancelJoin, Ask, Record,
                        TaskDies
    <2>5. CASE Drop(c)
      BY <2>5, <2>1 DEF Drop
    <2> QED BY <1>2, <2>2, <2>3, <2>4, <2>5
  <1>3. CASE Delete \/ Forget
    BY <1>1, <1>3 DEF Delete, Forget
  <1>4. CASE (\E p \in Process : Crash(p)) \/ Expire \/ UNCHANGED vars
    BY <1>4 DEF Crash, Expire, vars
  <1> QED BY <1>2, <1>3, <1>4 DEF Next

\* A step of one call that leaves the markers, and is at work only if it was, or as it saw
\* the review running.
LEMMA CalmCall ==
  ASSUME Inv, Cancels, [Next]_vars, NEW c \in Callers, NEW k,
         call' = [call EXCEPT ![c] = k], UNCHANGED marker,
         k.pc \notin Cancelling,
         k.pc \in Sending => call[c].pc \in Sending \/ review.status = "running"
  PROVE  Cancels'
  <1>1. call'[c] = k /\ \A d \in Callers \ {c} : call'[d] = call[d]
    BY DEF Inv, TypeOK
  <1>2. CancelFits(c)'
    BY <1>1 DEF CancelFits, Cancelling
  <1>3. ASSUME NEW d \in Callers \ {c}
        PROVE  CancelFits(d)'
    <2>1. call[d].pc \in Cancelling => review.status \in Over /\ review'.status \in Over
      BY StaysOver DEF Cancels, CancelFits
    <2>2. ASSUME call[d].pc = "joining"
          PROVE  Quiet(home[d])'
      <3>1. Quiet(home[d]) /\ review.status # "running"
        BY <2>1, <2>2 DEF Cancels, CancelFits, Cancelling, Over
      <3> QED BY <1>1, <3>1 DEF Quiet
    <2> QED BY <1>1, <2>1, <2>2 DEF Cancels, CancelFits
  <1> QED BY <1>2, <1>3 DEF Cancels

\* A step of no call.
LEMMA CalmElse ==
  ASSUME Inv, Cancels, [Next]_vars, UNCHANGED <<call, marker>>
  PROVE  Cancels'
  BY StaysOver DEF Cancels, CancelFits, Quiet, Cancelling

\* The end of a batch: who waited for its marker is told, and there is none.
LEMMA CalmUnmark ==
  ASSUME Inv, Cancels, [Next]_vars, NEW c \in Callers, NEW next \in Call, Unmark(c, next),
         next.pc \notin Cancelling \cup Sending
  PROVE  Cancels'
  <1>1. call'[c] = next
    BY UnmarkOthers
  <1>2. \A p \in Process : marker'[p] = IF marker[p] = c THEN NoCaller ELSE marker[p]
    BY DEF Unmark
  <1>3. ASSUME NEW d \in Callers \ {c}
        PROVE  \/ call'[d] = call[d] /\ call[d].awaits # c
               \/ /\ call[d].awaits = c /\ call[d].pc = "waiting" /\ call'[d].pc = "joining"
    <2>1. CASE call[d].awaits # c
      BY <2>1 DEF Unmark
    <2>2. CASE call[d].awaits = c
      <3>1. call[d] \in Call /\ "joining" \in PC /\ call[d].pc = "waiting"
        BY <2>2, CallersAssumption DEF Inv, CallFits, TypeOK, PC
      <3>2. call'[d] = [call[d] EXCEPT !.pc = "joining", !.awaits = NoCaller]
        BY <2>2 DEF Unmark
      <3> QED BY <2>2, <3>1, <3>2 DEF Call
    <2> QED BY <2>1, <2>2
  <1>4. \A p \in Process : (Quiet(p) \/ marker[p] = c) => Quiet(p)'
    BY <1>1, <1>2, <1>3, CallersAssumption DEF Quiet, Sending
  <1>5. ASSUME NEW d \in Callers \ {c}
        PROVE  CancelFits(d)'
    <2>1. home[d] \in Process /\ CancelFits(d)
      BY HomeAssumption DEF Cancels
    <2>2. CASE call'[d] = call[d] /\ call[d].awaits # c
      BY <1>2, <1>4, <2>1, <2>2, StaysOver DEF CancelFits
    <2>3. CASE call[d].awaits = c /\ call[d].pc = "waiting" /\ call'[d].pc = "joining"
      BY <1>4, <2>1, <2>3, StaysOver DEF CancelFits, Cancelling
    <2> QED BY <1>3, <2>2, <2>3
  <1>6. CancelFits(c)'
    BY <1>1 DEF CancelFits, Cancelling
  <1> QED BY <1>5, <1>6 DEF Cancels

LEMMA CalmEnter ==
  ASSUME Inv, Cancels, [Next]_vars, NEW c \in Callers, Enter(c)
  PROVE  Cancels'
  <1>1. call'[c].pc = "entered" /\ \A d \in Callers \ {c} : call'[d] = call[d]
    BY DEF Enter, Goto, Inv, TypeOK, Call
  <1>2. home[c] \in Process /\ marker \in [Process -> Callers \cup {NoCaller}]
    BY HomeAssumption DEF Inv, TypeOK
  <1>3. \A p \in Process : marker'[p] = marker[p] \/ (marker[p] = NoCaller /\ marker'[p] = c)
    BY <1>2 DEF Enter
  <1>4. \A p \in Process : Quiet(p) => Quiet(p)'
    BY <1>1, <1>3 DEF Quiet, Sending
  <1>5. ASSUME NEW d \in Callers \ {c}
        PROVE  CancelFits(d)'
    <2>1. home[d] \in Process /\ CancelFits(d) /\ call'[d] = call[d]
      BY <1>1, HomeAssumption DEF Cancels
    <2> QED BY <1>3, <1>4, <2>1, StaysOver, CallersAssumption DEF CancelFits
  <1>6. CancelFits(c)'
    BY <1>1 DEF CancelFits, Cancelling
  <1> QED BY <1>5, <1>6 DEF Cancels

\* A cancel changes the status ...
LEMMA CalmCancel ==
  ASSUME Inv, Cancels, [Next]_vars, NEW c \in Callers, Cancel(c)
  PROVE  Cancels'
  <1>1. call'[c].pc = "cancelling" /\ \A d \in Callers \ {c} : call'[d] = call[d]
    BY DEF Cancel, Goto, Inv, TypeOK, Call
  <1>2. review'.status \in Over /\ UNCHANGED marker
    BY DEF Cancel, Transition, Over, Inv, TypeOK
  <1>3. \A p \in Process : Quiet(p) => Quiet(p)'
    BY <1>1, <1>2 DEF Quiet, Sending
  <1> QED BY <1>1, <1>2, <1>3, HomeAssumption DEF Cancels, CancelFits

\* ... and then looks for the batch: it waits for one, or there is none.
LEMMA CalmCancelLook ==
  ASSUME Inv, Cancels, [Next]_vars, NEW c \in Callers, CancelLook(c)
  PROVE  Cancels'
  <1>1. home[c] \in Process /\ marker[home[c]] \in Callers \cup {NoCaller} /\ call[c] \in Call
    BY HomeAssumption DEF Inv, TypeOK
  <1>2. /\ call[c].pc = "cancelling" /\ UNCHANGED <<marker, review>>
        /\ \A d \in Callers \ {c} : call'[d] = call[d]
    BY DEF CancelLook, LookForBatch, Inv, TypeOK
  <1>3. review.status \in Over
    BY <1>2 DEF Cancels, CancelFits, Cancelling
  <1>4. \/ /\ marker[home[c]] # NoCaller /\ call'[c].pc = "waiting"
           /\ call'[c].awaits = marker[home[c]]
        \/ marker[home[c]] = NoCaller /\ call'[c].pc = "joining"
    BY <1>1 DEF CancelLook, LookForBatch, Inv, TypeOK, Call
  <1>5. \A p \in Process : Quiet(p) => Quiet(p)'
    BY <1>2, <1>4 DEF Quiet, Sending
  <1>6. CancelFits(c)'
    BY <1>1, <1>2, <1>3, <1>4, CallersAssumption DEF CancelFits, Quiet
  <1>7. ASSUME NEW d \in Callers \ {c}
        PROVE  CancelFits(d)'
    BY <1>2, <1>5, HomeAssumption DEF Cancels, CancelFits
  <1> QED BY <1>6, <1>7 DEF Cancels

LEMMA CalmCrash ==
  ASSUME Inv, Cancels, [Next]_vars, NEW p \in Process, Crash(p)
  PROVE  Cancels'
  <1>1. ASSUME NEW q \in Process
        PROVE  marker'[q] = marker[q] \/ (q = p /\ marker'[q] = NoCaller)
    BY DEF Crash, Inv, TypeOK
  <1>2. ASSUME NEW d \in Callers
        PROVE  call'[d] = Idle \/ (call'[d] = call[d] /\ home[d] # p)
    BY DEF Crash
  <1>3. \A q \in Process : Quiet(q) => Quiet(q)'
    BY <1>1, <1>2, CallersAssumption DEF Quiet, Sending, Idle
  <1>4. ASSUME NEW d \in Callers
        PROVE  CancelFits(d)'
    <2>1. home[d] \in Process /\ CancelFits(d)
      BY HomeAssumption DEF Cancels
    <2> QED BY <1>1, <1>2, <1>3, <2>1, StaysOver DEF CancelFits, Idle, Cancelling
  <1> QED BY <1>4 DEF Cancels

LEMMA CancelsInit == Init => Cancels
  BY DEF Init, Cancels, CancelFits, Cancelling, Idle

LEMMA CancelsStep ==
  ASSUME Inv, Cancels, [Next]_vars
  PROVE  Cancels'
  <1> USE DEF Cancelling, Sending
  <1>1. ASSUME NEW c \in Callers, Run(c) \/ Retry(c)  PROVE Cancels'
    <2>1. CASE Run(c)
      <3> DEFINE k == [Idle EXCEPT !.pc = "ready", !.wanted = Agents]
      <3>1. k.pc = "ready"
        BY DEF Idle
      <3>2. call' = [call EXCEPT ![c] = k] /\ UNCHANGED marker
        BY <2>1 DEF Run
      <3> HIDE DEF k
      <3> QED BY <3>1, <3>2, CalmCall
    <2>2. CASE Retry(c)
      <3>1. PICK A : call' = [call EXCEPT ![c] = [Idle EXCEPT !.pc = "ready", !.retry = TRUE,
                                                             !.wanted = A]]
        BY <2>2 DEF Retry
      <3> DEFINE k == [Idle EXCEPT !.pc = "ready", !.retry = TRUE, !.wanted = A]
      <3>2. k.pc = "ready"
        BY DEF Idle
      <3>3. call' = [call EXCEPT ![c] = k] /\ UNCHANGED marker
        BY <2>2, <3>1 DEF Retry
      <3> HIDE DEF k
      <3> QED BY <3>2, <3>3, CalmCall
    <2> QED BY <1>1, <2>1, <2>2
  <1>2. ASSUME NEW c \in Callers, NEW pc \in PC, Goto(c, pc), UNCHANGED marker,
               pc \notin Cancelling, pc \in Sending => review.status = "running"
        PROVE  Cancels'
    <2> DEFINE k == [call[c] EXCEPT !.pc = pc]
    <2>1. k.pc = pc
      BY DEF Inv, TypeOK, Call
    <2>2. call' = [call EXCEPT ![c] = k]
      BY <1>2 DEF Goto
    <2> HIDE DEF k
    <2> QED BY <1>2, <2>1, <2>2, CalmCall
  <1>3. ASSUME NEW c \in Callers, Return(c), UNCHANGED marker  PROVE Cancels'
    BY <1>3, CalmCall DEF Return, Idle
  <1>4. ASSUME NEW c \in Callers, Finalize(c) \/ Fix(c)  PROVE Cancels'
    BY <1>2, <1>4 DEF Finalize, Fix, PC
  <1>5. ASSUME NEW c \in Callers,
               \/ Refuse(c) \/ Settle(c) \/ CancelJoin(c) \/ Complete(c) \/ AppendFixRound(c)
        PROVE  Cancels'
    BY <1>3, <1>5 DEF Refuse, Settle, CancelJoin, Complete, AppendFixRound
  <1>6. ASSUME NEW c \in Callers, MarkRunning(c) \/ Acquire(c) \/ Consume(c) \/ Reserve(c) \/ Fail(c)
        PROVE  Cancels'
    BY <1>2, <1>6 DEF MarkRunning, Acquire, Consume, Reserve, Fail, PC
  <1>7. ASSUME NEW c \in Callers, FirstLook(c) \/ SecondLook(c)  PROVE Cancels'
    BY <1>2, <1>7 DEF FirstLook, SecondLook, Look, PC
  <1>8. ASSUME NEW c \in Callers, Start(c)  PROVE Cancels'
    <2> DEFINE k == [call[c] EXCEPT !.pc = "asking", !.asking = call[c].wanted]
    <2>1. k.pc = "asking"
      BY DEF Inv, TypeOK, Call
    <2>2. call' = [call EXCEPT ![c] = k] /\ UNCHANGED marker /\ call[c].pc = "starting"
      BY <1>8 DEF Start
    <2> HIDE DEF k
    <2> QED BY <2>1, <2>2, CalmCall
  <1>9. ASSUME NEW c \in Callers, NEW a \in Agents, Record(c, a) \/ TaskDies(c, a)  PROVE Cancels'
    <2> DEFINE k == [call[c] EXCEPT !.asking = @ \ {a}]
    <2>1. k.pc = call[c].pc /\ call[c].pc = "asking"
      BY <1>9 DEF Record, TaskDies, Inv, TypeOK, Call, CallFits
    <2>2. call' = [call EXCEPT ![c] = k] /\ UNCHANGED marker
      BY <1>9 DEF Record, TaskDies
    <2> HIDE DEF k
    <2> QED BY <2>1, <2>2, CalmCall
  <1>10. ASSUME NEW c \in Callers, Gathered(c)  PROVE Cancels'
    <2> DEFINE k == [call[c] EXCEPT !.pc = "leaving", !.answered = TRUE]
    <2>1. k.pc = "leaving"
      BY DEF Inv, TypeOK, Call
    <2>2. call' = [call EXCEPT ![c] = k] /\ UNCHANGED marker
      BY <1>10 DEF Gathered
    <2> HIDE DEF k
    <2> QED BY <2>1, <2>2, CalmCall
  <1>11. ASSUME NEW c \in Callers, Drop(c)  PROVE Cancels'
    <2> DEFINE k == [call[c] EXCEPT !.pc = "leaving", !.asking = {}]
    <2>1. k.pc = "leaving"
      BY DEF Inv, TypeOK, Call
    <2>2. call' = [call EXCEPT ![c] = k] /\ UNCHANGED marker
      BY <1>11 DEF Drop
    <2> HIDE DEF k
    <2> QED BY <2>1, <2>2, CalmCall
  <1>12. ASSUME NEW c \in Callers, RefuseLease(c)  PROVE Cancels'
    <2>1. Idle \in Call /\ Idle.pc = "idle"
      BY IdleFits DEF Idle
    <2> QED BY <1>12, <2>1, CalmUnmark DEF RefuseLease
  <1>13. ASSUME NEW c \in Callers, Leave(c)  PROVE Cancels'
    <2> DEFINE next == IF call[c].answered THEN [call[c] EXCEPT !.pc = "settling"] ELSE Idle
    <2>1. next \in Call /\ next.pc \in {"settling", "idle"}
      <3>1. Idle \in Call /\ Idle.pc = "idle" /\ call[c] \in Call /\ "settling" \in PC
        BY IdleFits DEF Idle, Inv, TypeOK, PC
      <3> QED BY <3>1 DEF Call
    <2>2. Unmark(c, next)
      BY <1>13 DEF Leave
    <2> HIDE DEF next
    <2> QED BY <2>1, <2>2, CalmUnmark
  <1>14. ASSUME NEW c \in Callers, NEW a \in Agents, Ask(c, a)  PROVE Cancels'
    BY <1>14, CalmElse DEF Ask
  <1>15. CASE Delete \/ Forget \/ Expire \/ UNCHANGED vars
    BY <1>15, CalmElse DEF Delete, Forget, Expire, vars
  <1>16. ASSUME NEW c \in Callers, Begin(c)  PROVE Cancels'
    BY <1>1, <1>4, <1>16, CalmCancel DEF Begin
  <1>17. ASSUME NEW c \in Callers, Steps(c)  PROVE Cancels'
    BY <1>5, <1>6, <1>7, <1>8, <1>9, <1>10, <1>12, <1>13, <1>14, <1>17, CalmEnter, CalmCancelLook
       DEF Steps
  <1> QED BY <1>11, <1>15, <1>16, <1>17, CalmCrash DEF Next

\* When a cancel returns, no reviewer of its process is at work or about to start, but
\* those of a batch that found another's marker and so has none of its own.
THEOREM CancelsWait == Spec => CancelWaits
  <1> DEFINE A == \A c, d \in Callers :
                    /\ call[c].pc = "joining" /\ call'[c].pc = "idle" /\ crashes' = crashes
                    /\ home[d] = home[c] /\ call[d].pc \in {"starting", "asking"}
                    => marker[home[c]] # d
  <1>1. Inv /\ Cancels /\ [Next]_vars => Cancels'
    BY CancelsStep
  <1>2. Cancels => A
    BY DEF Cancels, CancelFits, Quiet, Sending
  <1>3. Cancels /\ [Next]_vars => [A]_vars
    BY <1>2
  <1> QED BY <1>1, <1>3, CancelsInit, InvHolds, PTL DEF Spec, CancelWaits

-----------------------------------------------------------------------------
(* What a recheck says of the findings before it. *)

\* However an answer was lost, what is left of it names no finding its reviewer did not see,
\* and one that is whole names all of them.
LEMMA RecheckRow ==
  ASSUME NEW open \in SUBSET Refs, NEW loss \in Losses, NEW row \in RecheckRows(open, loss)
  PROVE  /\ Whole(row) => open \subseteq row.said
         /\ \A ref \in Refs : ref \in row.said => ref \in open
  <1> DEFINE full == [there |-> TRUE, ok |-> TRUE, parsed |-> TRUE, truncated |-> FALSE,
                      answer |-> TRUE, said |-> open]
  <1> USE DEF RecheckRows, Whole, Refs, NEW_FINDING
  <1>1. CASE loss = "none"
    BY <1>1
  <1>2. CASE loss = "failed"
    BY <1>2
  <1>3. CASE loss = "unparsed"
    BY <1>3
  <1>4. CASE loss = "truncated"
    BY <1>4
  <1>5. CASE loss = "mistyped"
    BY <1>5
  <1>6. CASE loss \in {"stripped", "missing"}
    BY <1>6
  <1> QED BY <1>1, <1>2, <1>3, <1>4, <1>5, <1>6 DEF Losses

LEMMA RechecksAreHonest == ResolvedIsEarned
  <1> SUFFICES ASSUME NEW open1 \in SUBSET Refs, NEW open2 \in SUBSET Refs,
                      NEW loss1 \in Losses, NEW loss2 \in Losses,
                      NEW row1 \in RecheckRows(open1, loss1),
                      NEW row2 \in RecheckRows(open2, loss2), NEW ref \in Refs
               PROVE  /\ FindingStatus(ref, <<row1, row2>>) = "resolved" => ref \notin open1 \cup open2
                      /\ FindingStatus(ref, <<row1, row2>>) = "still_open" => ref \in open1 \cup open2
    BY DEF ResolvedIsEarned
  <1> DEFINE stored == <<row1, row2>>
  <1>1. DOMAIN stored = {1, 2} /\ stored[1] = row1 /\ stored[2] = row2
    OBVIOUS
  <1>2. (\E i \in DOMAIN stored : ref \in stored[i].said) <=> ref \in row1.said \cup row2.said
    BY <1>1
  <1>3. (\A i \in DOMAIN stored : Whole(stored[i])) <=> Whole(row1) /\ Whole(row2)
    BY <1>1
  <1>4. FindingStatus(ref, stored) = "still_open" => ref \in row1.said \cup row2.said
    BY <1>2 DEF FindingStatus
  <1>5. FindingStatus(ref, stored) = "resolved" =>
          Whole(row1) /\ Whole(row2) /\ ref \notin row1.said \cup row2.said
    BY <1>2, <1>3 DEF FindingStatus
  <1> QED BY <1>4, <1>5, RecheckRow

\* The answers of a settled recheck never call a finding resolved that one of its reviewers
\* still sees.
THEOREM RecheckHonest == Spec => []RecheckIsHonest
  <1>1. RecheckIsHonest
    BY RechecksAreHonest DEF RecheckIsHonest
  <1> QED BY <1>1, PTL

-----------------------------------------------------------------------------
(* What a summary carries of the reviewers' answers. *)

\* The positions of an answer have a last one.
LEMMA LastOf ==
  ASSUME NEW n \in Nat, NEW T \in SUBSET (1 .. n), T # {}
  PROVE  \E x \in T : \A y \in T : y <= x
  <1> DEFINE R == {ss \in Nat \X Nat : ss[1] < ss[2]}
             D == {n - y : y \in T}
  <1>1. IsWellFoundedOn(R, Nat)
    <2>1. OpToRel(<, Nat) = R
      BY Zenon DEF OpToRel
    <2> QED BY <2>1, NatLessThanWellFounded, Zenon
  <1>2. D \in SUBSET Nat /\ D # {}
    <2>1. \A y \in T : y \in Nat /\ n - y \in Nat
      OBVIOUS
    <2>2. PICK y \in T : TRUE
      OBVIOUS
    <2>3. n - y \in D
      OBVIOUS
    <2> QED BY <2>1, <2>3
  <1>3. PICK d \in D : \A e \in D : ~(<<e, d>> \in R)
    <2> HIDE DEF R, D
    <2> QED BY <1>1, <1>2, WFMin
  <1>4. PICK x \in T : d = n - x
    OBVIOUS
  <1>5. ASSUME NEW y \in T PROVE y <= x
    <2>1. x \in Nat /\ y \in Nat /\ n - x \in Nat /\ n - y \in Nat /\ n - y \in D
      OBVIOUS
    <2>2. n - y < n - x => <<n - y, n - x>> \in R
      BY <2>1
    <2>3. ~(n - y < n - x)
      BY <1>3, <1>4, <2>1, <2>2
    <2> QED BY <2>1, <2>3
  <1> QED BY <1>5

\* Findings that could be read, and were not cut, are those of the block that was meant.
LEMMA ParsedIsMeant ==
  ASSUME NEW answer \in Seq(Blocks), ParseFindings(answer).parsed,
         ParseFindings(answer).truncated = 0
  PROVE  /\ Meant(answer).known
         /\ Meant(answer).list \in Lists
         /\ ParseFindings(answer).list = [i \in DOMAIN Meant(answer).list |->
                                            SeverityRead(Meant(answer).list[i])]
  <1> DEFINE told == {i \in DOMAIN answer : answer[i].kind = "findings"}
             last == CHOOSE i \in told : \A j \in told : j <= i
             read == [i \in DOMAIN answer[last].list |-> SeverityRead(answer[last].list[i])]
             blocks == {i \in DOMAIN answer : answer[i].kind # "passing"}
             final == CHOOSE i \in blocks : \A j \in blocks : j <= i
  <1>1. Len(answer) \in Nat /\ DOMAIN answer = 1 .. Len(answer)
    OBVIOUS
  <1>2. ParseFindings(answer) =
          IF told = {} \/ ~LastUnbroken(answer, last)
          THEN Unparsed
          ELSE [list |-> Kept(read), parsed |-> TRUE,
                truncated |-> IF Len(read) > MAX_FINDINGS_HERE
                              THEN Len(read) - MAX_FINDINGS_HERE ELSE 0]
    BY DEF ParseFindings
  <1>3. Meant(answer) = IF blocks = {} THEN [list |-> << >>, known |-> FALSE]
                        ELSE [list |-> answer[final].list, known |-> answer[final].kind = "findings"]
    BY DEF Meant
  <1> HIDE DEF read
  <1>4. told # {} /\ LastUnbroken(answer, last)
    BY <1>2 DEF Unparsed
  <1>5. last \in told /\ \A j \in told : j <= last
    <2>1. told \in SUBSET (1 .. Len(answer))
      BY <1>1
    <2> HIDE DEF told
    <2> QED BY <1>1, <1>4, <2>1, LastOf
  <1>6. \A i \in DOMAIN answer : answer[i].kind \in {"findings", "broken", "passing"}
    BY DEF Blocks
  <1>7. last \in blocks /\ \A j \in blocks : j <= last
    <2> HIDE DEF last
    <2>1. last \in blocks
      BY <1>5
    <2>2. ASSUME NEW j \in blocks PROVE j <= last
      <3>1. j \in Nat /\ last \in Nat
        BY <1>1, <1>5
      <3>2. CASE j \in told
        BY <1>5, <3>2
      <3>3. CASE answer[j].kind = "broken"
        BY <1>4, <3>1, <3>3 DEF LastUnbroken
      <3> QED BY <1>6, <3>2, <3>3
    <2> QED BY <2>1, <2>2
  <1>8. final = last
    <2>1. final \in blocks /\ \A j \in blocks : j <= final
      <3> HIDE DEF blocks, last
      <3> QED BY <1>7
    <2> HIDE DEF final, last
    <2>2. final \in Nat /\ last \in Nat /\ final <= last /\ last <= final
      BY <1>1, <1>7, <2>1
    <2> QED BY <2>2
  <1> HIDE DEF final, last
  <1>9. Meant(answer).list = answer[last].list /\ Meant(answer).known
    <2> HIDE DEF blocks
    <2>1. blocks # {}
      BY <1>7
    <2>2. Meant(answer) = [list |-> answer[last].list, known |-> answer[last].kind = "findings"]
      BY <1>3, <1>8, <2>1
    <2>3. answer[last].kind = "findings"
      BY <1>5
    <2>4. Meant(answer).known
      <3>1. (answer[last].kind = "findings") = TRUE
        BY <2>3
      <3>2. Meant(answer) = [list |-> answer[last].list, known |-> TRUE]
        BY <2>2, <3>1, Zenon
      <3> QED BY <3>2
    <2>5. Meant(answer).list = answer[last].list
      BY <2>2
    <2> QED BY <2>4, <2>5
  <1>10. answer[last].list \in Lists
    BY <1>5 DEF Blocks
  <1>11. DOMAIN read = DOMAIN answer[last].list /\ Len(read) \in Nat
    <2>1. PICK n \in 0 .. 3 : answer[last].list \in [1 .. n -> {"critical", "odd"}]
      BY <1>10 DEF Lists
    <2> QED BY <2>1 DEF read
  <1>12. ParseFindings(answer).list = read
    <2>1. ParseFindings(answer) = [list |-> Kept(read), parsed |-> TRUE,
                truncated |-> IF Len(read) > MAX_FINDINGS_HERE
                              THEN Len(read) - MAX_FINDINGS_HERE ELSE 0]
      BY <1>2, <1>4
    <2>2. (IF Len(read) > MAX_FINDINGS_HERE THEN Len(read) - MAX_FINDINGS_HERE ELSE 0) = 0
      <3> DEFINE cut == IF Len(read) > MAX_FINDINGS_HERE THEN Len(read) - MAX_FINDINGS_HERE ELSE 0
      <3>1. ParseFindings(answer).truncated = cut
        BY <2>1
      <3> QED BY <3>1
    <2>3. Len(read) <= MAX_FINDINGS_HERE
      <3>1. \A n \in Nat : (IF n > 2 THEN n - 2 ELSE 0) = 0 => n <= 2
        OBVIOUS
      <3> QED BY <1>11, <2>2, <3>1, Zenon DEF MAX_FINDINGS_HERE
    <2> QED BY <2>1, <2>3 DEF Kept
  <1> QED BY <1>9, <1>10, <1>12 DEF read

\* What a finalized summary carries of one reviewer is no less than what that one meant.
LEMMA CarriedCountsAll ==
  ASSUME NEW list \in Lists, NEW summary \in Summaries, NEW findings,
         FindingsOf("a", [list |-> [i \in DOMAIN list |-> SeverityRead(list[i])],
                          parsed |-> TRUE, truncated |-> 0]) \subseteq findings,
         MissingSerious(findings, summary) = {},
         NEW carried,
         carried = {id \in UNION {c.sources : c \in summary} :
                      \E c \in summary : id \in c.sources /\ c.severity \in SERIOUS}
  PROVE  Cardinality({id \in carried : id[1] = "a"}) >= Serious(list)
  <1> DEFINE S == {i \in DOMAIN list : list[i] \in SERIOUS}
             image == {<<"a", i>> : i \in S}
             A == {id \in carried : id[1] = "a"}
             result == [list |-> [i \in DOMAIN list |-> SeverityRead(list[i])],
                        parsed |-> TRUE, truncated |-> 0]
  <1>1. PICK n \in 0 .. 3 : list \in [1 .. n -> {"critical", "odd"}]
    BY DEF Lists
  <1>2. IsFiniteSet(S)
    <2>1. IsFiniteSet(1 .. n)
      BY FS_Interval
    <2>2. S \subseteq 1 .. n
      BY <1>1
    <2> QED BY <2>1, <2>2, FS_Subset
  <1>3. ASSUME NEW i \in S PROVE <<"a", i>> \in A
    <2> DEFINE f == [id |-> <<"a", i>>, severity |-> SeverityRead(list[i])]
    <2>1. SeverityRead(list[i]) = "critical"
      BY DEF SeverityRead, Severities, SERIOUS
    <2>2. f \in findings
      <3>1. f \in FindingsOf("a", result)
        BY DEF FindingsOf
      <3> QED BY <3>1
    <2>3. f.severity \in SERIOUS /\ f.id = <<"a", i>>
      BY <2>1 DEF SERIOUS
    <2>4. PICK c \in summary : f.id \in c.sources /\ AtLeast(c, f.severity)
      <3> HIDE DEF f
      <3> QED BY <2>2, <2>3 DEF MissingSerious
    <2>5. c \in Combined
      BY DEF Summaries
    <2>6. c.severity \in SERIOUS
      BY <2>1, <2>4, <2>5 DEF AtLeast, Combined, Severities, SERIOUS, SEVERITY_ORDER
    <2>7. <<"a", i>> \in carried
      <3> HIDE DEF f
      <3> QED BY <2>3, <2>4, <2>6
    <2> QED BY <2>7
  <1>4. IsFiniteSet(A)
    <2>1. IsFiniteSet(Ids)
      <3>1. Ids = {<<"a", 1>>, <<"a", 2>>} \cup {<<"b", 1>>, <<"b", 9>>}
        BY DEF Ids
      <3>2. \A x, y : IsFiniteSet({x, y})
        <4> TAKE x, y
        <4>1. {x, y} = ({} \cup {x}) \cup {y}
          OBVIOUS
        <4>2. IsFiniteSet({} \cup {x})
          BY FS_EmptySet, FS_AddElement
        <4>3. IsFiniteSet(({} \cup {x}) \cup {y})
          BY <4>2, FS_AddElement
        <4> QED BY <4>1, <4>3
      <3> QED BY <3>1, <3>2, FS_Union
    <2>2. A \subseteq Ids
      BY DEF Summaries, Combined
    <2> QED BY <2>1, <2>2, FS_Subset
  <1>5. Cardinality(image) = Cardinality(S)
    <2> DEFINE g == [i \in S |-> <<"a", i>>]
    <2>1. g \in Bijection(S, image)
      BY DEF Bijection, Injection, Surjection, IsInjective
    <2> HIDE DEF g, image, S
    <2>2. ExistsBijection(S, image)
      BY <2>1 DEF ExistsBijection
    <2> QED BY <1>2, <2>2, FS_Bijection
  <1>6. image \subseteq A
    BY <1>3
  <1>7. Cardinality(image) <= Cardinality(A)
    <2> HIDE DEF image, A
    <2> QED BY <1>4, <1>6, FS_Subset
  <1>8. Cardinality(S) \in Nat /\ Cardinality(A) \in Nat
    <2> HIDE DEF S, A
    <2> QED BY <1>2, <1>4, FS_CardinalityType
  <1>9. Serious(list) = Cardinality(S)
    BY DEF Serious
  <1>10. Cardinality(A) >= Serious(list)
    <2> HIDE DEF S, A, image
    <2> QED BY <1>5, <1>7, <1>8, <1>9
  <1> QED BY <1>10

LEMMA SeriousSurvive == SeriousFindingsSurvive
  <1> SUFFICES ASSUME NEW answer \in Answers, NEW second \in SecondAnswers, NEW other \in OtherAnswers,
                      NEW mine, mine = Reask(ParseFindings(answer), ParseFindings(second)),
                      NEW theirs, theirs = ParseFindings(other),
                      mine.parsed, theirs.parsed, mine.truncated = 0
               PROVE  LET meant == IF ParseFindings(answer).parsed THEN Meant(answer) ELSE Meant(second)
                          findings == FindingsOf("a", mine) \cup FindingsOf("b", theirs)
                      IN /\ meant.known
                         /\ \A summary \in Summaries :
                              Finalizes({mine, theirs}, findings, summary) =>
                                LET carried == {id \in UNION {c.sources : c \in summary} :
                                                  \E c \in summary : id \in c.sources /\ c.severity \in SERIOUS}
                                IN Cardinality({id \in carried : id[1] = "a"}) >= Serious(meant.list)
    BY DEF SeriousFindingsSurvive
  <1> DEFINE which == IF ParseFindings(answer).parsed THEN answer ELSE second
  <1>1. which \in Seq(Blocks)
    <2>1. answer \in Seq(Blocks)
      <3>1. PICK n \in 0 .. 2 : answer \in [1 .. n -> Blocks]
        BY DEF Answers
      <3> QED BY <3>1
    <2>2. second \in Seq(Blocks)
      <3>1. <<"critical">> \in Lists
        <4>1. <<"critical">> \in [1 .. 1 -> {"critical", "odd"}]
          OBVIOUS
        <4> QED BY <4>1 DEF Lists
      <3>2. [kind |-> "findings", list |-> <<"critical">>] \in Blocks
        BY <3>1 DEF Blocks
      <3> DEFINE b == [kind |-> "findings", list |-> <<"critical">>]
      <3>3. << >> \in Seq(Blocks)
        OBVIOUS
      <3>4. <<b>> \in Seq(Blocks)
        <4>1. b \in Blocks
          BY <3>2
        <4> HIDE DEF b
        <4> QED BY <4>1
      <3>5. second = << >> \/ second = <<b>>
        BY DEF SecondAnswers
      <3> QED BY <3>3, <3>4, <3>5
    <2> QED BY <2>1, <2>2
  <1>2. mine = ParseFindings(which)
    BY DEF Reask
  <1>3. /\ Meant(which).known
        /\ Meant(which).list \in Lists
        /\ mine.list = [i \in DOMAIN Meant(which).list |-> SeverityRead(Meant(which).list[i])]
    <2> HIDE DEF which
    <2> QED BY <1>1, <1>2, ParsedIsMeant
  <1>4. Meant(which) = IF ParseFindings(answer).parsed THEN Meant(answer) ELSE Meant(second)
    OBVIOUS
  <1> HIDE DEF which
  <1>5. ASSUME NEW summary \in Summaries,
               NEW findings, findings = FindingsOf("a", mine) \cup FindingsOf("b", theirs),
               Finalizes({mine, theirs}, findings, summary),
               NEW carried,
               carried = {id \in UNION {c.sources : c \in summary} :
                            \E c \in summary : id \in c.sources /\ c.severity \in SERIOUS}
        PROVE  Cardinality({id \in carried : id[1] = "a"}) >= Serious(Meant(which).list)
    <2> DEFINE list == Meant(which).list
               result == [list |-> [i \in DOMAIN list |-> SeverityRead(list[i])],
                          parsed |-> TRUE, truncated |-> 0]
    <2>1. FindingsOf("a", result) \subseteq findings
      <3>1. FindingsOf("a", result) = FindingsOf("a", mine)
        <4>1. result.list = mine.list
          BY <1>3
        <4> HIDE DEF result
        <4> QED BY <4>1 DEF FindingsOf
      <3> QED BY <1>5, <3>1
    <2>2. MissingSerious(findings, summary) = {}
      BY <1>5 DEF Finalizes
    <2>3. list \in Lists
      BY <1>3
    <2> HIDE DEF list
    <2>4. Cardinality({id \in carried : id[1] = "a"}) >= Serious(list)
      BY <1>5, <2>1, <2>2, <2>3, CarriedCountsAll
    <2> QED BY <2>4 DEF list
  <1> QED BY <1>3, <1>4, <1>5, Zenon

\* A review is complete only with a summary that carries every serious finding of its
\* reviewers, at no lesser severity.
THEOREM CompleteCarries == Spec => []CompleteCarriesFindings
  <1>1. CompleteCarriesFindings
    BY SeriousSurvive DEF CompleteCarriesFindings
  <1> QED BY <1>1, PTL
===============================================================================
