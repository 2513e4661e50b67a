---------------------------- MODULE ConsultStore -----------------------------
(***************************************************************************)
(* The record of consultations, from consult/store.py, and the deletes     *)
(* that can take a consultation away (consult/store.py, review/store.py,   *)
(* workflow/store.py).  The state is the consultations with their turns    *)
(* and leases, the reviews and workflows that own some of them, the        *)
(* outstanding confirmation of a delete, and the retention sweep at work.  *)
(*                                                                         *)
(* Every operation is one SQLite transaction, so one operator.  What the   *)
(* calls between them do is in Consult.                                    *)
(***************************************************************************)
EXTENDS Integers, FiniteSets, FiniteSetsExt

CONSTANTS
    Callers,            \* calls that can be in flight at once, in any process
    NoCaller,           \* the NULL of a lease's holder
    Cid,                \* consultations
    Reviews, Workflows, \* records that own consultations
    Nobody,             \* the owner of an ordinary consultation
    MaxSessions,        \* bound: vendor sessions started
    Prices,             \* what a turn may cost; 0 also stands for no price
    max_turns,          \* max_turns_per_consultation
    max_cost            \* max_cost_usd_per_consultation

Owners == Reviews \cup Workflows
Session == 1 .. MaxSessions
NoSession == 0

ASSUME CallersAssumption == NoCaller \notin Callers
ASSUME CidAssumption == Cid \subseteq Nat \ {0}
ASSUME OwnersAssumption == Nobody \notin Owners /\ Reviews \cap Workflows = {}
ASSUME CeilingAssumption ==
    /\ Prices \subseteq Nat /\ IsFiniteSet(Prices) /\ Prices # {}
    /\ max_turns \in Nat \ {0} /\ max_cost \in Nat \ {0}
ASSUME SessionsAssumption == MaxSessions \in Nat

VARIABLES
    consultations,  \* the rows, `turns` their consultation_turns
    leases,         \* consultation_leases
    owner,          \* the reviews and workflow_runs rows
    confirmation,   \* consultation_delete_confirmations: one, or none
    sweep           \* the retention sweep

store == <<consultations, leases, owner, confirmation, sweep>>

\* `session` is set for a turn that was answered.
Turn == [sequence : Nat, session : Session \cup {NoSession}, cost : Nat]

\* `stale`: updated_at is older than the sweep's cutoff.
Row == [open : BOOLEAN, session : Session \cup {NoSession},
        owner : Owners \cup {Nobody}, stale : BOOLEAN, turns : SUBSET Turn]

Absent == [open |-> FALSE, session |-> NoSession, owner |-> Nobody,
           stale |-> FALSE, turns |-> {}]

NoLease == [holder |-> NoCaller, expired |-> FALSE]

\* `running` covers a review that is running or leased, and a workflow that has not
\* ended or whose step is leased.
OwnerRow == [open : BOOLEAN, running : BOOLEAN, stale : BOOLEAN]

SweepKind == {"workflows", "reviews", "consultations", "none"}

InitStore ==
    /\ consultations = [i \in Cid |-> Absent]
    /\ leases = [i \in Cid |-> NoLease]
    /\ owner = [o \in Owners |-> [open |-> TRUE, running |-> FALSE, stale |-> FALSE]]
    /\ confirmation = {}
    /\ sweep = [kind |-> "none", todo |-> {}]

-----------------------------------------------------------------------------
(* Reading. *)

Open(i) == consultations[i].open
LiveLease(i) == leases[i].holder # NoCaller /\ ~leases[i].expired
OwnedBy(o) == {i \in Cid : Open(i) /\ consultations[i].owner = o}

\* _ORDINARY_SQL
Ordinary(i) == Open(i) /\ consultations[i].owner = Nobody

\* consultation_spend: what is known to have been spent, and how many turns spent it
KnownCost(turns) == MapThenSumSet(LAMBDA t : t.cost, turns)

\* (mutant) exceeded where the code says reached
RefusalBeyond(turns) == KnownCost(turns) > max_cost \/ Cardinality(turns) > max_turns

\* spend.refusal: reached, not exceeded
Refusal(turns) == KnownCost(turns) >= max_cost \/ Cardinality(turns) >= max_turns

\* next_sequence: COALESCE(MAX(sequence_number), 0) + 1
NextSequence(i) == Max({0} \cup {t.sequence : t \in consultations[i].turns}) + 1

-----------------------------------------------------------------------------
(* Turns. *)

Create(i, o) ==
    consultations' = [consultations EXCEPT ![i] = [Absent EXCEPT !.open = TRUE, !.owner = o]]

\* (mutant) the first to come holds it, the second as well
TakeLeaseHeedless(c, i) == leases' = [leases EXCEPT ![i] = [holder |-> c, expired |-> FALSE]]

\* _acquire: expired rows go, and the row is inserted unless there is one.  Nothing
\* asks whether the consultation is still there.
TakeLease(c, i) ==
    /\ ~LiveLease(i)
    /\ leases' = [j \in Cid |-> IF j = i THEN [holder |-> c, expired |-> FALSE]
                                ELSE IF LiveLease(j) THEN leases[j] ELSE NoLease]

\* _release, by the holder's own token
DropLease(c, i) ==
    leases' = IF leases[i].holder = c THEN [leases EXCEPT ![i] = NoLease] ELSE leases

\* (mutant) the last answer's session is bound
BindAny(i, s) == Open(i)

\* bind_native_session: refused for a row that is gone or bound to another session
Bindable(i, s) == Open(i) /\ consultations[i].session \in {NoSession, s}

Bind(i, s) ==
    consultations' = [consultations EXCEPT ![i].session = s, ![i].stale = FALSE]

\* (mutant) INSERT OR REPLACE
RecordableTwice(i, n) == Open(i)

\* (mutant) the turn is inserted whether or not the consultation is still there
RecordableGone(i, n) == \A t \in consultations[i].turns : t.sequence # n

\* record_turn: refused for a row that is gone, or a sequence number that is taken
Recordable(i, n) == Open(i) /\ \A t \in consultations[i].turns : t.sequence # n

Record(i, n, s, p) ==
    consultations' = [consultations EXCEPT
        ![i].turns = @ \cup {[sequence |-> n, session |-> s, cost |-> p]},
        ![i].stale = FALSE]

-----------------------------------------------------------------------------
(* Deletes. *)

\* refuse_leased
Busy(ids) == \E i \in ids : LiveLease(i)

Erased(ids) == [i \in Cid |-> IF i \in ids THEN Absent ELSE consultations[i]]

\* Every delete clears the expired leases first; what it deletes loses its own.
Swept(ids) == [i \in Cid |-> IF i \in ids \/ ~LiveLease(i) THEN NoLease ELSE leases[i]]

\* _delete_consultations refuses the whole set for one that is owned or in use
Deletable(ids) == ~Busy(ids) /\ \A i \in ids : Open(i) => Ordinary(i)

Delete(ids) ==
    /\ Deletable(ids)
    /\ consultations' = Erased(ids)
    /\ leases' = Swept(ids)

DeleteConsultation(i) ==
    /\ Open(i)
    /\ Delete({i})
    /\ UNCHANGED <<owner, confirmation, sweep>>

RequestDeleteAll ==
    /\ confirmation = {}
    /\ confirmation' = {i \in Cid : Ordinary(i)}
    /\ UNCHANGED <<consultations, leases, owner, sweep>>

\* Refused as a whole, and then the confirmation stays; it may also expire.
DeleteAll ==
    /\ confirmation # {}
    /\ Delete(confirmation)
    /\ confirmation' = {}
    /\ UNCHANGED <<owner, sweep>>

ExpireConfirmation ==
    /\ confirmation # {}
    /\ confirmation' = {}
    /\ UNCHANGED <<consultations, leases, owner, sweep>>

\* (mutant) the record of an owner at work
ErasableAtWork(o) == owner[o].open /\ ~Busy(OwnedBy(o))

\* review/store.py _delete and delete_tree, workflow/store.py _delete and _refuse_live
Erasable(o) == owner[o].open /\ ~owner[o].running /\ ~Busy(OwnedBy(o))

\* With the record go the consultations it owns.
Erase(o) ==
    /\ Erasable(o)
    /\ owner' = [owner EXCEPT ![o] = [open |-> FALSE, running |-> FALSE, stale |-> FALSE]]
    /\ consultations' = Erased(OwnedBy(o))
    /\ leases' = Swept(OwnedBy(o))

DeleteOwner(o) == Erase(o) /\ UNCHANGED <<confirmation, sweep>>

-----------------------------------------------------------------------------
(* The retention sweep: it lists one kind of record, then deletes them one by one,  *)
(* each in a transaction of its own.                                                *)

\* (mutant) the reviews' sweep by another name
AfterMisspelt(kind) == CASE kind = "none" -> "workflows"
                         [] kind = "workflows" -> "review"
                         [] kind = "review" -> "consultations"
                         [] kind = "consultations" -> "none"

After(kind) == CASE kind = "none" -> "workflows"
                 [] kind = "workflows" -> "reviews"
                 [] kind = "reviews" -> "consultations"
                 [] kind = "consultations" -> "none"

Listed(kind) ==
    CASE kind = "workflows" -> {o \in Workflows : owner[o].open /\ ~owner[o].running /\ owner[o].stale}
      [] kind = "reviews" -> {o \in Reviews : owner[o].open /\ ~owner[o].running /\ owner[o].stale}
      [] kind = "consultations" -> {i \in Cid : Ordinary(i) /\ consultations[i].stale}
      [] OTHER -> {}

SweepList ==
    /\ sweep.todo = {}
    /\ sweep' = [kind |-> After(sweep.kind), todo |-> Listed(After(sweep.kind))]
    /\ UNCHANGED <<consultations, leases, owner, confirmation>>

\* (mutant) the age is not looked at again
StillStaleAsListed(stale) == TRUE

\* still_stale: the age check of the list, once more in the delete's transaction
StillStale(stale) == stale

\* A record that was touched, is refused or is gone is left alone.
SweepOne(x) ==
    /\ x \in sweep.todo
    /\ sweep' = [sweep EXCEPT !.todo = @ \ {x}]
    /\ IF x \in Cid
       THEN /\ UNCHANGED owner
            /\ IF Open(x) /\ StillStale(consultations[x].stale) /\ Deletable({x})
               THEN Delete({x})
               ELSE UNCHANGED <<consultations, leases>>
       ELSE IF StillStale(owner[x].stale) /\ Erasable(x)
            THEN Erase(x)
            ELSE UNCHANGED <<consultations, leases, owner>>
    /\ UNCHANGED confirmation

StoreTypeOK ==
    /\ consultations \in [Cid -> Row]
    /\ leases \in [Cid -> [holder : Callers \cup {NoCaller}, expired : BOOLEAN]]
    /\ owner \in [Owners -> OwnerRow]
    /\ confirmation \subseteq Cid
    /\ sweep \in [kind : SweepKind, todo : SUBSET (Cid \cup Owners)]
===============================================================================
