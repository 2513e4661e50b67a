------------------------------- MODULE Consult -------------------------------
(***************************************************************************)
(* The calls that take a turn on a consultation, from consult/service.py:  *)
(* orchestrator_consult, new or resumed, and the turns a review's reviewer *)
(* or a workflow's step takes through consult_review and consult_step.     *)
(*                                                                         *)
(* A call binds (finds or creates its consultation and reads the native    *)
(* session to resume), then takes the lease, then looks at the ceiling,    *)
(* reads the next sequence number, probes the agent, asks it, binds the    *)
(* session and records the turn.  Each is one await.                       *)
(***************************************************************************)
EXTENDS ConsultStore

CONSTANTS
    Stalls,      \* whether a live call may miss its heartbeats (suspend)
    Deletes,     \* whether anything is deleted, by hand or by the sweep
    MaxTurns,    \* bound: turns a consultation may have
    MaxCrashes   \* bound: calls killed with their process

ASSUME SwitchAssumption == {Stalls, Deletes} \subseteq BOOLEAN
ASSUME BoundAssumption == MaxTurns \in Nat /\ MaxCrashes \in Nat

VARIABLES
    call,       \* the calls in flight
    sessions,   \* vendor sessions started so far
    crashes     \* how many calls a process death has taken

vars == <<store, call, sessions, crashes>>

PC == {"idle", "binding", "bound", "leased", "admitted", "numbered", "asking",
       "failing", "answered", "attached", "leaving"}

\* What a call carries: who it works for, its consultation, the session it was told to
\* resume, the sequence number it read, and the session and price of the answer.
Call == [pc : PC, for : Owners \cup {Nobody}, cid : Cid \cup {0},
         resuming : Session \cup {NoSession}, sequence : Nat,
         session : Session \cup {NoSession}, cost : Nat]

Idle == [pc |-> "idle", for |-> Nobody, cid |-> 0, resuming |-> NoSession,
         sequence |-> 0, session |-> NoSession, cost |-> 0]

\* The calls inside the lease of their consultation.
Leasing == {"leased", "admitted", "numbered", "asking", "failing", "answered",
            "attached", "leaving"}

InTurn(i) == {c \in Callers : call[c].pc \in Leasing /\ call[c].cid = i}
On(i) == {c \in Callers : call[c].cid = i}

Init ==
    /\ InitStore
    /\ call = [c \in Callers |-> Idle]
    /\ sessions = 0
    /\ crashes = 0

Goto(c, pc) == call' = [call EXCEPT ![c].pc = pc]
Return(c) == call' = [call EXCEPT ![c] = Idle]
Bound(c, i, o, session) ==
    call' = [call EXCEPT ![c] = [Idle EXCEPT !.pc = "bound", !.for = o, !.cid = i,
                                             !.resuming = session]]

-----------------------------------------------------------------------------
(* Binding. *)

Room == \E i \in Cid : ~Open(i) /\ On(i) = {}

\* _bind_public without a consultation_id
BindNew(c) ==
    /\ call[c].pc = "idle"
    /\ \E i \in Cid : /\ ~Open(i) /\ On(i) = {}
                      /\ \A j \in Cid : j < i => Open(j) \/ On(j) # {}
                      /\ Create(i, Nobody)
                      /\ Bound(c, i, Nobody, NoSession)
    /\ UNCHANGED <<leases, owner, confirmation, sweep, sessions, crashes>>

\* _bind_public with one: a reviewer's consultation is taken, a workflow's is not
BindResume(c, i) ==
    /\ call[c].pc = "idle"
    /\ Open(i)
    /\ consultations[i].owner \notin Workflows
    /\ Cardinality(consultations[i].turns) < MaxTurns
    /\ Bound(c, i, Nobody, consultations[i].session)
    /\ UNCHANGED <<store, sessions, crashes>>

\* A review or workflow asks, one call at a time under its own lease: it resumes the
\* consultation it has, or is about to create one.  (_bind_review, _bind_workflow)
BindOwned(c, o) ==
    /\ call[c].pc = "idle"
    /\ owner[o].open /\ owner[o].running
    /\ \A d \in Callers : call[d].for # o
    /\ \/ \E i \in OwnedBy(o) :
             /\ Cardinality(consultations[i].turns) < MaxTurns
             /\ Bound(c, i, o, consultations[i].session)
       \/ /\ OwnedBy(o) = {} /\ Room
          /\ call' = [call EXCEPT ![c] = [Idle EXCEPT !.pc = "binding", !.for = o]]
    /\ UNCHANGED <<store, sessions, crashes>>

\* create_consultation, with the link to the reviewer in the same transaction
CreateOwned(c) ==
    LET o == call[c].for
    IN  /\ call[c].pc = "binding"
        /\ IF o \in Reviews /\ ~(owner[o].open /\ OwnedBy(o) = {})
           THEN Return(c) /\ UNCHANGED consultations
           ELSE \E i \in Cid : /\ ~Open(i) /\ On(i) = {}
                               /\ \A j \in Cid : j < i => Open(j) \/ On(j) # {}
                               /\ Create(i, o)
                               /\ Bound(c, i, o, NoSession)
        /\ UNCHANGED <<leases, owner, confirmation, sweep, sessions, crashes>>

-----------------------------------------------------------------------------
(* The turn. *)

Lease(c) ==
    /\ call[c].pc = "bound"
    /\ TakeLease(c, call[c].cid)
    /\ Goto(c, "leased")
    /\ UNCHANGED <<consultations, owner, confirmation, sweep, sessions, crashes>>

\* session_busy
Refused(c) ==
    /\ call[c].pc = "bound"
    /\ LiveLease(call[c].cid)
    /\ Return(c)
    /\ UNCHANGED <<store, sessions, crashes>>

\* _within_ceiling
Admit(c) ==
    /\ call[c].pc = "leased"
    /\ Goto(c, IF Refusal(consultations[call[c].cid].turns) THEN "leaving" ELSE "admitted")
    /\ UNCHANGED <<store, sessions, crashes>>

Number(c) ==
    /\ call[c].pc = "admitted"
    /\ call' = [call EXCEPT ![c].pc = "numbered", ![c].sequence = NextSequence(call[c].cid)]
    /\ UNCHANGED <<store, sessions, crashes>>

\* _status: the agent is ready, or the turn fails
Preflight(c) ==
    /\ call[c].pc = "numbered"
    /\ \E pc \in {"asking", "failing"} : Goto(c, pc)
    /\ UNCHANGED <<store, sessions, crashes>>

\* An answer comes in the session that was resumed; adapter.start, and a vendor that
\* forks what it resumes, answer in a new one.
Answer(c) ==
    /\ call[c].pc = "asking"
    /\ \E p \in Prices, s \in Session :
          /\ \/ s = call[c].resuming /\ UNCHANGED sessions
             \/ s = sessions + 1 /\ sessions' = s
          /\ call' = [call EXCEPT ![c].pc = "answered", ![c].cost = p, ![c].session = s]
    /\ UNCHANGED <<store, crashes>>

\* AdapterError
AskFails(c) ==
    /\ call[c].pc = "asking"
    /\ Goto(c, "failing")
    /\ UNCHANGED <<store, sessions, crashes>>

Attach(c) ==
    LET i == call[c].cid
    IN  /\ call[c].pc = "answered"
        /\ IF Bindable(i, call[c].session)
           THEN Bind(i, call[c].session) /\ Goto(c, "attached")
           ELSE UNCHANGED consultations /\ Goto(c, "leaving")
        /\ UNCHANGED <<leases, owner, confirmation, sweep, sessions, crashes>>

\* record_turn, of the answer or of the failure
RecordTurn(c) ==
    LET k == call[c]
    IN  /\ k.pc \in {"attached", "failing"}
        /\ IF Recordable(k.cid, k.sequence)
           THEN Record(k.cid, k.sequence, k.session, k.cost)
           ELSE UNCHANGED consultations
        /\ Goto(c, "leaving")
        /\ UNCHANGED <<leases, owner, confirmation, sweep, sessions, crashes>>

Release(c) ==
    /\ call[c].pc = "leaving"
    /\ DropLease(c, call[c].cid)
    /\ Return(c)
    /\ UNCHANGED <<consultations, owner, confirmation, sweep, sessions, crashes>>

\* The call is cancelled: its request was dropped, or its heartbeat lost the lease.
\* What it held is released.
Cancelled(c) ==
    /\ call[c].pc \in Leasing \ {"leaving"}
    /\ Goto(c, "leaving")
    /\ UNCHANGED <<store, sessions, crashes>>

Drop(c) ==
    /\ call[c].pc \in {"binding", "bound"}
    /\ Return(c)
    /\ UNCHANGED <<store, sessions, crashes>>

\* The process dies: nothing is released, nothing is recorded.
Crash(c) ==
    /\ call[c].pc # "idle"
    /\ crashes < MaxCrashes
    /\ crashes' = crashes + 1
    /\ Return(c)
    /\ UNCHANGED <<store, sessions>>

-----------------------------------------------------------------------------
(* Time. *)

Renewing(i) == \E c \in InTurn(i) : leases[i].holder = c

\* Nobody renews the lease, or the call that should misses every heartbeat.
Expire(i) ==
    /\ LiveLease(i)
    /\ Stalls \/ ~Renewing(i)
    /\ leases' = [leases EXCEPT ![i].expired = TRUE]
    /\ UNCHANGED <<consultations, owner, confirmation, sweep, call, sessions, crashes>>

\* _renew matches the holder's row even after it ran out.
Renew(c) ==
    LET i == call[c].cid
    IN  /\ call[c].pc \in Leasing
        /\ leases[i].holder = c
        /\ leases[i].expired
        /\ leases' = [leases EXCEPT ![i].expired = FALSE]
        /\ UNCHANGED <<consultations, owner, confirmation, sweep, call, sessions, crashes>>

\* Days pass without activity.  No turn lasts that long, and no sweep.
Age ==
    /\ Deletes
    /\ sweep.todo = {} /\ sweep.kind = "none"
    /\ \/ \E i \in Cid : /\ Open(i) /\ On(i) = {}
                         /\ consultations' = [consultations EXCEPT ![i].stale = TRUE]
                         /\ UNCHANGED owner
       \/ \E o \in Owners : /\ owner[o].open /\ ~owner[o].running
                            /\ owner' = [owner EXCEPT ![o].stale = TRUE]
                            /\ UNCHANGED consultations
    /\ UNCHANGED <<leases, confirmation, sweep, call, sessions, crashes>>

\* A review or workflow starts, or ends, which touches its row.
Owns(o) ==
    /\ owner[o].open
    /\ \A c \in Callers : call[c].for # o
    /\ owner' = [owner EXCEPT ![o].running = ~@, ![o].stale = FALSE]
    /\ UNCHANGED <<consultations, leases, confirmation, sweep, call, sessions, crashes>>

Deleting ==
    /\ Deletes
    /\ \/ \E i \in Cid : DeleteConsultation(i)
       \/ RequestDeleteAll \/ DeleteAll \/ ExpireConfirmation
       \/ \E o \in Owners : DeleteOwner(o)
    /\ UNCHANGED <<call, sessions, crashes>>

Sweeping ==
    /\ Deletes
    /\ SweepList \/ \E x \in Cid \cup Owners : SweepOne(x)
    /\ UNCHANGED <<call, sessions, crashes>>

-----------------------------------------------------------------------------
Binding(c) == \/ BindNew(c) \/ (\E i \in Cid : BindResume(c, i))
              \/ (\E o \in Owners : BindOwned(c, o))

Going(c) == \/ CreateOwned(c) \/ Lease(c) \/ Refused(c) \/ Admit(c) \/ Number(c)
            \/ Preflight(c) \/ Answer(c) \/ AskFails(c) \/ Attach(c) \/ RecordTurn(c)
            \/ Release(c)

Next == \/ \E c \in Callers : \/ Binding(c) \/ Going(c)
                              \/ Cancelled(c) \/ Drop(c) \/ Crash(c) \/ Renew(c)
        \/ (\E i \in Cid : Expire(i)) \/ Age \/ (\E o \in Owners : Owns(o))
        \/ Deleting \/ Sweeping

Spec == Init /\ [][Next]_vars

-----------------------------------------------------------------------------
(* Properties. *)

\* The rows and the calls have their types.
TypeOK ==
    /\ StoreTypeOK
    /\ call \in [Callers -> Call]
    /\ sessions \in 0 .. MaxSessions
    /\ crashes \in 0 .. MaxCrashes

\* A consultation goes past its ceilings by one turn's price at most, whatever calls race
\* for it: the turns are within max_turns, and the cost was below max_cost when the last
\* turn was admitted (_within_ceiling inside the lease).
CeilingHolds ==
    \A i \in Cid :
        LET turns == consultations[i].turns
        IN  /\ Cardinality(turns) <= max_turns
            /\ KnownCost(turns) < max_cost + Max(Prices \cup {1})

\* Every recorded answer was given in the native session the consultation is bound to,
\* though the session to resume is read before the lease is taken.
OneSession ==
    \A i \in Cid : \A t \in consultations[i].turns :
        t.session \in {NoSession, consultations[i].session}

\* The turns are numbered 1, 2, ..., though the number is read in one transaction and
\* written in another, and a suspended call is overtaken in between.
TurnsInOrder ==
    \A i \in Cid : LET turns == consultations[i].turns
                   IN  {t.sequence : t \in turns} = 1 .. Cardinality(turns)

\* A deleted consultation keeps nothing, even when a suspended call was taking a turn on
\* it and comes back to bind its session and to record.
NothingOutlivesDelete ==
    \A i \in Cid : ~Open(i) => consultations[i] = Absent

\* A consultation does not outlive the review or the workflow it belongs to, though it is
\* created in one transaction and its owner deleted in another.
NoOrphans ==
    \A i \in Cid : consultations[i].owner # Nobody => owner[consultations[i].owner].open

\* What the retention sweep takes was not touched since its cutoff, even when a turn came
\* between the list and the delete.  (Of a reviewer's consultation it asks the review.)
SweepSparesActive ==
    [][\A i \in Cid : sweep' # sweep /\ Ordinary(i) /\ ~Open(i)' => consultations[i].stale]_vars

\* Each consultation is a conversation: its turns are numbered 1, 2, ..., one call at a
\* time takes them, and nothing deletes it under a call that is taking one.
Talk == INSTANCE Conversation WITH
    Talks <- Cid, Speakers <- Callers,
    log <- [i \in Cid |-> {t.sequence : t \in consultations[i].turns}],
    speaking <- [i \in Cid |-> InTurn(i)]

IsConversation == Talk!TalkSpec
===============================================================================
