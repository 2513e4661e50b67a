-------------------------- MODULE ConsultTalkProofs --------------------------
(***************************************************************************)
(* Proofs about Consult: what the retention sweep spares, and, while no    *)
(* call is suspended past its lease, that the record of consultations      *)
(* implements Conversation and keeps its ceilings.                         *)
(***************************************************************************)
EXTENDS ConsultProofs

\* The sweep takes an ordinary consultation only if its age is still past the cutoff,
\* although the list it works from was made in another transaction.
THEOREM SweepSpares == Spec => SweepSparesActive
  <1>1. ASSUME Inv, [Next]_vars, NEW i \in Cid, sweep' # sweep, Ordinary(i), ~Open(i)'
        PROVE  consultations[i].stale
    <2>1. Sweeping
      BY <1>1 DEF Next, Binding, Going, BindNew, BindResume, BindOwned, CreateOwned, Lease,
         Refused, Admit, Number, Preflight, Answer, AskFails, Attach, RecordTurn, Release,
         Cancelled, Drop, Crash, Renew, Expire, Age, Owns, Deleting, DeleteConsultation,
         RequestDeleteAll, DeleteAll, ExpireConfirmation, DeleteOwner, vars, store
    <2>2. CASE SweepList
      BY <1>1, <2>2 DEF SweepList, Ordinary, Open
    <2>3. ASSUME NEW x \in Cid \cup Owners, SweepOne(x)
          PROVE  consultations[i].stale
      <3>1. CASE UNCHANGED consultations
        BY <1>1, <3>1 DEF Ordinary, Open
      <3>2. CASE x \in Cid /\ StillStale(consultations[x].stale) /\ Delete({x})
        BY <1>1, <3>2 DEF StillStale, Delete, Erased, Ordinary, Open
      <3>3. CASE x \in Owners /\ Erase(x)
        BY <1>1, <3>3, OwnersAssumption DEF Erase, Erased, OwnedBy, Ordinary, Open
      <3> QED BY <2>3, <3>1, <3>2, <3>3 DEF SweepOne
    <2> QED BY <2>1, <2>2, <2>3 DEF Sweeping
  <1>2. Inv /\ [Next]_vars =>
          [\A i \in Cid : sweep' # sweep /\ Ordinary(i) /\ ~Open(i)' => consultations[i].stale]_vars
    BY <1>1
  <1> QED BY <1>2, InvHolds, PTL DEF Spec, SweepSparesActive

-----------------------------------------------------------------------------
(* While heartbeats arrive, a call in its turn holds the lease, and the number  *)
(* it read is the next one.                                                     *)

Held == \A c \in Callers : call[c].pc \in Leasing =>
          leases[call[c].cid].holder = c /\ ~leases[call[c].cid].expired

IsNext == \A c \in Callers : (call[c].pc \in Counted /\ Open(call[c].cid)) =>
            call[c].sequence = Cardinality(consultations[call[c].cid].turns) + 1

LEMMA OnlyOne ==
  ASSUME Held, NEW c \in Callers, NEW d \in Callers,
         call[c].pc \in Leasing, call[d].pc \in Leasing, call[c].cid = call[d].cid
  PROVE  c = d
  BY DEF Held

LEMMA LeasingLive ==
  ASSUME Inv, Held, NEW c \in Callers, call[c].pc \in Leasing
  PROVE  call[c].cid \in Cid /\ LiveLease(call[c].cid)
  BY CallersAssumption DEF Held, LiveLease, Inv, Fits, CallFits, Leasing

LEMMA BoundPlace ==
  ASSUME Inv, NEW c \in Callers, NEW i, NEW o, NEW s, Bound(c, i, o, s)
  PROVE  call'[c].pc = "bound" /\ call'[c].cid = i /\ \A d \in Callers \ {c} : call'[d] = call[d]
  BY DEF Bound, Idle, Inv, TypeOK

LEMMA ReturnPlace ==
  ASSUME Inv, NEW c \in Callers, Return(c)
  PROVE  call'[c].pc = "idle" /\ \A d \in Callers \ {c} : call'[d] = call[d]
  BY DEF Return, Idle, Inv, TypeOK

\* What a step may do to the call d, for its turn to go on.
Continues(d) ==
  call'[d].pc \in Leasing =>
    /\ call[d].pc \in Leasing /\ call'[d].cid = call[d].cid
    /\ leases'[call[d].cid] = leases[call[d].cid]

LEMMA HeldStep ==
  ASSUME Inv, ~Stalls, Held, [Next]_vars
  PROVE  Held'
  <1>0. \A d \in Callers : Continues(d) => (call'[d].pc \in Leasing =>
          leases'[call'[d].cid].holder = d /\ ~leases'[call'[d].cid].expired)
    BY DEF Held, Continues
  <1>1. ASSUME NEW c \in Callers, Binding(c)
        PROVE  Held'
    <2>1. \A d \in Callers \ {c} : call'[d] = call[d]
      BY <1>1 DEF Binding, BindNew, BindResume, BindOwned, Bound, Inv, TypeOK
    <2>2. call'[c].pc \in {"bound", "binding"} /\ UNCHANGED leases
      <3>1. CASE BindNew(c)
        BY <3>1, BoundPlace DEF BindNew
      <3>2. CASE \E i \in Cid : BindResume(c, i)
        BY <3>2, BoundPlace DEF BindResume, store
      <3>3. ASSUME NEW o \in Owners, BindOwned(c, o)
            PROVE  call'[c].pc \in {"bound", "binding"} /\ UNCHANGED leases
        <4>1. CASE \E i \in OwnedBy(o) : Bound(c, i, o, consultations[i].session)
          BY <3>3, <4>1, BoundPlace DEF BindOwned, store
        <4>2. CASE call' = [call EXCEPT ![c] = [Idle EXCEPT !.pc = "binding", !.for = o]]
          BY <3>3, <4>2 DEF BindOwned, store, Idle, Inv, TypeOK
        <4> QED BY <3>3, <4>1, <4>2 DEF BindOwned
      <3> QED BY <1>1, <3>1, <3>2, <3>3 DEF Binding
    <2> QED BY <2>1, <2>2 DEF Held, Leasing
  <1>2. ASSUME NEW c \in Callers, Lease(c)
        PROVE  Held'
    <2>1. /\ call[c].pc = "bound" /\ ~LiveLease(call[c].cid) /\ call[c].cid \in Cid
          /\ call'[c].pc = "leased" /\ call'[c].cid = call[c].cid
      BY <1>2 DEF Lease, Goto, TakeLease, Inv, TypeOK, Call, Fits, CallFits
    <2>2. leases'[call[c].cid] = [holder |-> c, expired |-> FALSE]
      BY <1>2, <2>1 DEF Lease, TakeLease
    <2>5. leases'[call[c].cid].holder = c /\ ~leases'[call[c].cid].expired
      BY <2>2
    <2>3. ASSUME NEW d \in Callers \ {c}, call[d].pc \in Leasing
          PROVE  leases'[call[d].cid] = leases[call[d].cid]
      BY <1>2, <2>1, <2>3, LeasingLive DEF Lease, TakeLease
    <2>4. \A d \in Callers \ {c} : call'[d] = call[d]
      BY <1>2 DEF Lease, Goto, Inv, TypeOK
    <2> QED BY <2>1, <2>3, <2>4, <2>5 DEF Held
  <1>3. ASSUME NEW c \in Callers, Release(c)
        PROVE  Held'
    <2>1. \A d \in Callers \ {c} : call'[d] = call[d]
      BY <1>3 DEF Release, Return, Inv, TypeOK
    <2>2. call'[c].pc = "idle" /\ call[c].pc \in Leasing
      BY <1>3 DEF Release, Return, Idle, Leasing, Inv, TypeOK
    <2>3. \A d \in Callers \ {c} : call[d].pc \in Leasing => call[d].cid # call[c].cid
      BY <2>2, OnlyOne
    <2>4. \A d \in Callers \ {c} : call[d].pc \in Leasing =>
            leases'[call[d].cid] = leases[call[d].cid]
      BY <1>3, <2>3, LeasingLive DEF Release, DropLease, Inv, TypeOK, StoreTypeOK
    <2> QED BY <2>1, <2>2, <2>4 DEF Held, Leasing
  <1>4. ASSUME NEW c \in Callers,
               \/ CreateOwned(c) \/ Refused(c) \/ Admit(c) \/ Number(c) \/ Preflight(c)
               \/ Answer(c) \/ AskFails(c) \/ Attach(c) \/ RecordTurn(c)
               \/ Cancelled(c) \/ Drop(c) \/ Crash(c)
        PROVE  Held'
    <2>1. UNCHANGED leases
      BY <1>4 DEF CreateOwned, Refused, Admit, Number, Preflight, Answer, AskFails, Attach,
         RecordTurn, Cancelled, Drop, Crash, store
    <2>2. \A d \in Callers \ {c} : call'[d] = call[d]
      BY <1>4 DEF CreateOwned, Bound, Return, Goto, Refused, Admit, Number, Preflight, Answer,
         AskFails, Attach, RecordTurn, Cancelled, Drop, Crash, Inv, TypeOK
    <2>3. CASE call'[c].pc \notin Leasing
      BY <2>1, <2>2, <2>3 DEF Held
    <2>4. CASE /\ call[c].pc \in Leasing /\ call'[c].cid = call[c].cid
      BY <2>1, <2>2, <2>4 DEF Held
    <2>5. call'[c].pc \notin Leasing \/ (call[c].pc \in Leasing /\ call'[c].cid = call[c].cid)
      <3>1. CASE CreateOwned(c) \/ Refused(c) \/ Drop(c) \/ Crash(c)
        <4>1. call'[c].pc \in {"bound", "idle"}
          BY <3>1, BoundPlace, ReturnPlace DEF CreateOwned, Refused, Drop, Crash
        <4> QED BY <4>1 DEF Leasing
      <3>2. CASE \E pc \in PC : Goto(c, pc) /\ call[c].pc \in Leasing
        BY <3>2 DEF Goto, Inv, TypeOK, Call
      <3>3. CASE Number(c) \/ Answer(c)
        <4>1. call[c].pc \in Leasing /\ call[c] \in Call
          BY <3>3 DEF Number, Answer, Leasing, Inv, TypeOK
        <4>2. CASE Number(c)
          BY <4>1, <4>2 DEF Number, Inv, TypeOK, Call
        <4>3. CASE Answer(c)
          BY <4>1, <4>3 DEF Answer, Inv, TypeOK, Call
        <4> QED BY <3>3, <4>2, <4>3
      <3>4. CASE \/ Admit(c) \/ Preflight(c) \/ AskFails(c) \/ Attach(c) \/ RecordTurn(c)
                 \/ Cancelled(c)
        BY <3>2, <3>4 DEF Admit, Preflight, AskFails, Attach, RecordTurn, Cancelled, Leasing, PC
      <3> QED BY <1>4, <3>1, <3>3, <3>4
    <2> QED BY <2>3, <2>4, <2>5
  <1>5. ASSUME NEW c \in Callers, Renew(c)
        PROVE  Held'
    <2>1. \A d \in Callers : call[d].pc \in Leasing => call[d].cid # call[c].cid
      BY <1>5 DEF Renew, Held
    <2> QED BY <1>5, <2>1 DEF Renew, Held, Inv, TypeOK, StoreTypeOK
  <1>6. ASSUME NEW i \in Cid, Expire(i)
        PROVE  Held'
    <2>1. \A d \in Callers : call[d].pc \in Leasing => call[d].cid # i
      BY <1>6 DEF Expire, Renewing, InTurn, Held
    <2> QED BY <1>6, <2>1 DEF Expire, Held, Inv, TypeOK, StoreTypeOK
  <1>7. ASSUME NEW ids, ~Busy(ids), leases' = Swept(ids), UNCHANGED call
        PROVE  Held'
    <2>1. \A d \in Callers : call[d].pc \in Leasing =>
            call[d].cid \notin ids /\ leases'[call[d].cid] = leases[call[d].cid]
      BY <1>7, LeasingLive DEF Busy, Swept
    <2> QED BY <1>7, <2>1 DEF Held
  <1>8. CASE UNCHANGED <<leases, call>>
    BY <1>8 DEF Held
  <1>9. CASE Deleting
    BY <1>7, <1>8, <1>9 DEF Deleting, DeleteConsultation, RequestDeleteAll, DeleteAll,
       ExpireConfirmation, DeleteOwner, Delete, Deletable, Erase, Erasable
  <1>10. CASE Sweeping
    <2>1. UNCHANGED call
      BY <1>10 DEF Sweeping
    <2>2. CASE SweepList
      BY <2>1, <2>2, <1>8 DEF SweepList
    <2>3. ASSUME NEW x \in Cid \cup Owners, SweepOne(x)
          PROVE  Held'
      <3>1. CASE UNCHANGED leases
        BY <2>1, <3>1, <1>8
      <3>2. CASE Delete({x})
        BY <2>1, <3>2, <1>7 DEF Delete, Deletable
      <3>3. CASE Erase(x)
        BY <2>1, <3>3, <1>7 DEF Erase, Erasable
      <3> QED BY <2>3, <3>1, <3>2, <3>3 DEF SweepOne
    <2> QED BY <1>10, <2>2, <2>3 DEF Sweeping
  <1>11. CASE Age \/ (\E o \in Owners : Owns(o)) \/ UNCHANGED vars
    BY <1>8, <1>11 DEF Age, Owns, vars, store
  <1> QED BY <1>1, <1>2, <1>3, <1>4, <1>5, <1>6, <1>9, <1>10, <1>11 DEF Next, Going

-----------------------------------------------------------------------------
(* What the steps do to the turns, and to the places of the calls. *)

\* The turns of the rows that calls are on stay, or the row goes.
TurnsStay == \A i \in Cid : On(i) # {} /\ consultations'[i].open =>
               consultations[i].open /\ consultations'[i].turns = consultations[i].turns

\* A call that moves under the number it read.
KeepsNumber(c) ==
  call'[c].pc \in Counted =>
    call[c].pc \in Counted /\ call'[c].cid = call[c].cid /\ call'[c].sequence = call[c].sequence

LEMMA NextKept ==
  ASSUME Inv, IsNext, TurnsStay, NEW c \in Callers, KeepsNumber(c)
  PROVE  (call'[c].pc \in Counted /\ consultations'[call'[c].cid].open) =>
           call'[c].sequence = Cardinality(consultations'[call'[c].cid].turns) + 1
  <1> SUFFICES ASSUME call'[c].pc \in Counted, consultations'[call'[c].cid].open
               PROVE  call'[c].sequence = Cardinality(consultations'[call'[c].cid].turns) + 1
    OBVIOUS
  <1>1. /\ call[c].pc \in Counted /\ call'[c].cid = call[c].cid
        /\ call'[c].sequence = call[c].sequence
    BY DEF KeepsNumber
  <1>2. call[c].cid \in Cid /\ On(call[c].cid) # {}
    BY <1>1 DEF Inv, Fits, CallFits, Counted, On
  <1>3. /\ consultations[call[c].cid].open
        /\ consultations'[call[c].cid].turns = consultations[call[c].cid].turns
    BY <1>1, <1>2 DEF TurnsStay
  <1> QED BY <1>1, <1>3 DEF IsNext, Open

LEMMA IsNextStep ==
  ASSUME Inv, Held, IsNext, [Next]_vars
  PROVE  IsNext'
  <1>0. ASSUME TurnsStay, \A c \in Callers : KeepsNumber(c)
        PROVE  IsNext'
    BY <1>0, NextKept DEF IsNext, Open
  <1>1. ASSUME NEW c \in Callers, NEW i \in Cid, NEW o, NEW s,
               On(i) = {}, Create(i, o), Bound(c, i, o, s)
        PROVE  IsNext'
    <2>1. TurnsStay
      BY <1>1 DEF TurnsStay, Create, Inv, TypeOK, StoreTypeOK
    <2>2. \A d \in Callers : KeepsNumber(d)
      BY <1>1, BoundPlace DEF KeepsNumber, Counted
    <2> QED BY <2>1, <2>2, <1>0
  <1>2. ASSUME NEW c \in Callers, UNCHANGED consultations, KeepsNumber(c),
               \A d \in Callers \ {c} : call'[d] = call[d]
        PROVE  IsNext'
    <2>1. TurnsStay
      BY <1>2 DEF TurnsStay, Inv, Fits, RowFits, Absent
    <2> QED BY <1>2, <2>1, <1>0 DEF KeepsNumber
  <1>3. ASSUME NEW c \in Callers, Binding(c)
        PROVE  IsNext'
    <2>1. CASE BindNew(c)
      BY <1>1, <2>1 DEF BindNew
    <2>2. CASE \E i \in Cid : BindResume(c, i)
      BY <1>2, <2>2, BoundPlace DEF BindResume, store, KeepsNumber, Counted
    <2>3. ASSUME NEW o \in Owners, BindOwned(c, o)
          PROVE  IsNext'
      <3>1. CASE \E i \in OwnedBy(o) : Bound(c, i, o, consultations[i].session)
        BY <1>2, <2>3, <3>1, BoundPlace DEF BindOwned, store, KeepsNumber, Counted
      <3>2. CASE call' = [call EXCEPT ![c] = [Idle EXCEPT !.pc = "binding", !.for = o]]
        <4>1. call'[c].pc = "binding" /\ \A d \in Callers \ {c} : call'[d] = call[d]
          BY <3>2 DEF Idle, Inv, TypeOK
        <4> QED BY <1>2, <2>3, <4>1 DEF BindOwned, store, KeepsNumber, Counted
      <3> QED BY <2>3, <3>1, <3>2 DEF BindOwned
    <2> QED BY <1>3, <2>1, <2>2, <2>3 DEF Binding
  <1>4. ASSUME NEW c \in Callers, CreateOwned(c)
        PROVE  IsNext'
    <2>1. CASE Return(c) /\ UNCHANGED consultations
      BY <1>2, <2>1, ReturnPlace DEF KeepsNumber, Counted
    <2>2. CASE \E i \in Cid : On(i) = {} /\ Create(i, call[c].for)
                              /\ Bound(c, i, call[c].for, NoSession)
      BY <1>1, <2>2
    <2> QED BY <1>4, <2>1, <2>2 DEF CreateOwned
  <1>5. ASSUME NEW c \in Callers,
               \/ Lease(c) \/ Refused(c) \/ Admit(c) \/ Preflight(c) \/ AskFails(c)
               \/ Release(c) \/ Cancelled(c) \/ Drop(c) \/ Crash(c)
        PROVE  IsNext'
    <2>1. UNCHANGED consultations
      BY <1>5 DEF Lease, Refused, Admit, Preflight, AskFails, Release, Cancelled, Drop,
         Crash, store
    <2>2. \A d \in Callers \ {c} : call'[d] = call[d]
      BY <1>5 DEF Lease, Refused, Admit, Preflight, AskFails, Release, Cancelled, Drop,
         Crash, Goto, Return, Inv, TypeOK
    <2>3. KeepsNumber(c)
      <3>1. CASE Refused(c) \/ Release(c) \/ Drop(c) \/ Crash(c)
        BY <3>1, ReturnPlace DEF Refused, Release, Drop, Crash, KeepsNumber, Counted
      <3>2. ASSUME NEW pc \in PC, Goto(c, pc), pc \in Counted => call[c].pc \in Counted
            PROVE  KeepsNumber(c)
        BY <3>2 DEF Goto, KeepsNumber, Inv, TypeOK, Call
      <3>3. CASE Lease(c) \/ Admit(c) \/ Preflight(c) \/ AskFails(c) \/ Cancelled(c)
        BY <3>2, <3>3 DEF Lease, Admit, Preflight, AskFails, Cancelled, Counted, PC
      <3> QED BY <1>5, <3>1, <3>3
    <2> QED BY <1>2, <2>1, <2>2, <2>3
  <1>6. ASSUME NEW c \in Callers, Number(c)
        PROVE  IsNext'
    <2> DEFINE i == call[c].cid
    <2>1. i \in Cid /\ call[c] \in Call /\ UNCHANGED consultations
      BY <1>6 DEF Number, store, Inv, TypeOK, Fits, CallFits
    <2>2. /\ call'[c].cid = i /\ call'[c].sequence = NextSequence(i)
          /\ \A d \in Callers \ {c} : call'[d] = call[d]
      BY <1>6, <2>1 DEF Number, Inv, TypeOK, Call
    <2>3. NextSequence(i) = Cardinality(consultations[i].turns) + 1
      BY <2>1, NextIsCount DEF Inv, Fits, RowFits
    <2> HIDE DEF i
    <2>4. ASSUME NEW d \in Callers, call'[d].pc \in Counted,
                 consultations'[call'[d].cid].open
          PROVE  call'[d].sequence = Cardinality(consultations'[call'[d].cid].turns) + 1
      <3>1. CASE d = c
        BY <2>1, <2>2, <2>3, <3>1
      <3>2. CASE d # c
        BY <2>1, <2>2, <2>4, <3>2 DEF IsNext, Open
      <3> QED BY <3>1, <3>2
    <2> QED BY <2>4 DEF IsNext, Open
  <1>7. ASSUME NEW c \in Callers, Answer(c)
        PROVE  IsNext'
    <2>1. KeepsNumber(c) /\ \A d \in Callers \ {c} : call'[d] = call[d]
      BY <1>7 DEF Answer, KeepsNumber, Counted, Inv, TypeOK, Call
    <2> QED BY <1>2, <1>7, <2>1 DEF Answer, store
  <1>8. ASSUME NEW c \in Callers, Attach(c)
        PROVE  IsNext'
    <2>1. KeepsNumber(c) /\ \A d \in Callers \ {c} : call'[d] = call[d]
      BY <1>8 DEF Attach, Goto, KeepsNumber, Counted, Inv, TypeOK, Call
    <2>2. TurnsStay
      <3>1. CASE UNCHANGED consultations
        BY <3>1 DEF TurnsStay, Inv, Fits, RowFits, Absent
      <3>2. CASE Bind(call[c].cid, call[c].session)
        BY <3>2 DEF Bind, TurnsStay, Inv, TypeOK, StoreTypeOK, Row
      <3> QED BY <1>8, <3>1, <3>2 DEF Attach
    <2> QED BY <1>0, <2>1, <2>2 DEF KeepsNumber
  <1>9. ASSUME NEW c \in Callers, RecordTurn(c)
        PROVE  IsNext'
    <2> DEFINE i == call[c].cid
    <2>1. /\ call'[c].pc = "leaving" /\ call[c].pc \in Leasing
          /\ \A d \in Callers \ {c} : call'[d] = call[d]
      BY <1>9 DEF RecordTurn, Goto, Leasing, Inv, TypeOK, Call
    <2>2. \A j \in Cid \ {i} : consultations'[j] = consultations[j]
      BY <1>9 DEF RecordTurn, Record, Inv, TypeOK, StoreTypeOK
    <2>3. ASSUME NEW d \in Callers, call'[d].pc \in Counted,
                 consultations'[call'[d].cid].open
          PROVE  call'[d].sequence = Cardinality(consultations'[call'[d].cid].turns) + 1
      <3>1. d # c /\ call'[d] = call[d] /\ call[d].pc \in Leasing
        BY <2>1, <2>3 DEF Counted, Leasing
      <3>2. call[d].cid # i
        BY <2>1, <3>1, OnlyOne
      <3>3. call[d].cid \in Cid
        BY <3>1, LeasingLive
      <3> QED BY <2>2, <2>3, <3>1, <3>2, <3>3 DEF IsNext, Open
    <2> QED BY <2>3 DEF IsNext, Open
  <1>10. ASSUME NEW ids, consultations' = Erased(ids), UNCHANGED call
         PROVE  IsNext'
    <2>1. TurnsStay
      BY <1>10 DEF TurnsStay, Erased, Absent
    <2> QED BY <1>0, <1>10, <2>1 DEF KeepsNumber
  <1>11. CASE UNCHANGED <<consultations, call>>
    BY <1>11 DEF IsNext, Open
  <1>12. CASE Deleting
    BY <1>10, <1>11, <1>12 DEF Deleting, DeleteConsultation, RequestDeleteAll, DeleteAll,
       ExpireConfirmation, DeleteOwner, Delete, Erase
  <1>13. CASE Sweeping
    <2>1. CASE SweepList
      BY <2>1, <1>11, <1>13 DEF Sweeping, SweepList
    <2>2. CASE \E x \in Cid \cup Owners : SweepOne(x)
      BY <2>2, <1>10, <1>11, <1>13 DEF Sweeping, SweepOne, Delete, Erase
    <2> QED BY <1>13, <2>1, <2>2 DEF Sweeping
  <1>14. CASE Age
    <2>1. TurnsStay
      BY <1>14 DEF Age, TurnsStay, Inv, TypeOK, StoreTypeOK, Row
    <2> QED BY <1>0, <1>14, <2>1 DEF Age, KeepsNumber
  <1>15. CASE \/ \E c \in Callers : Renew(c)
              \/ \E i \in Cid : Expire(i)
              \/ \E o \in Owners : Owns(o)
              \/ UNCHANGED vars
    BY <1>11, <1>15 DEF Renew, Expire, Owns, vars, store
  <1> QED BY <1>3, <1>4, <1>5, <1>6, <1>7, <1>8, <1>9, <1>12, <1>13, <1>14, <1>15
          DEF Next, Going

-----------------------------------------------------------------------------
(* Each step is a step of Conversation, or stutters. *)

\* What Conversation sees of the rows and of the calls.
LogOf == [i \in Cid |-> {t.sequence : t \in consultations[i].turns}]
SpeakingOf == [i \in Cid |-> InTurn(i)]

TalkStepped == [Talk!TalkNext]_(Talk!talk)

TurnsSame == \A i \in Cid : consultations'[i].turns = consultations[i].turns

\* The call c keeps its place as to who is in a turn on what; all others keep theirs.
KeepsPlace(c) ==
  /\ \A d \in Callers \ {c} : call'[d] = call[d]
  /\ call'[c].pc \in Leasing <=> call[c].pc \in Leasing
  /\ call[c].pc \in Leasing => call'[c].cid = call[c].cid

LEMMA Quiet ==
  ASSUME TurnsSame, \A i \in Cid : InTurn(i)' = InTurn(i)
  PROVE  TalkStepped
  <1>1. LogOf' = LogOf
    BY DEF TurnsSame, LogOf
  <1>2. SpeakingOf' = SpeakingOf
    BY DEF SpeakingOf
  <1>3. UNCHANGED Talk!talk
    BY <1>1, <1>2 DEF LogOf, SpeakingOf, Talk!talk
  <1> QED BY <1>3 DEF TalkStepped

LEMMA KeepsPlaces ==
  ASSUME NEW c \in Callers, KeepsPlace(c), NEW i \in Cid
  PROVE  InTurn(i)' = InTurn(i)
  BY DEF KeepsPlace, InTurn

\* A call that moves within its turn, or outside of one.
LEMMA Moves ==
  ASSUME TurnsSame, NEW c \in Callers, KeepsPlace(c)
  PROVE  TalkStepped
  BY KeepsPlaces, Quiet

LEMMA UnchangedTurns ==
  ASSUME UNCHANGED consultations
  PROVE  TurnsSame
  BY DEF TurnsSame

LEMMA LeaseTakes ==
  ASSUME Inv, Held, NEW c \in Callers, Lease(c)
  PROVE  TalkStepped
  <1>0. PICK k \in Cid : k = call[c].cid
    BY DEF Lease, Inv, Fits, CallFits
  <1>1. /\ call[c].pc = "bound" /\ ~LiveLease(k)
        /\ call'[c].pc = "leased" /\ call'[c].cid = k
        /\ \A d \in Callers \ {c} : call'[d] = call[d]
    BY <1>0 DEF Lease, Goto, TakeLease, Inv, TypeOK, Call
  <1>2. InTurn(k) = {}
    BY <1>1, LeasingLive DEF InTurn
  <1>3. InTurn(k)' = {c}
    BY <1>1, <1>2 DEF InTurn, Leasing
  <1>4. \A j \in Cid \ {k} : InTurn(j)' = InTurn(j)
    BY <1>1 DEF InTurn, Leasing
  <1>5. LogOf' = LogOf
    BY DEF Lease, LogOf
  <1>6. SpeakingOf' = [SpeakingOf EXCEPT ![k] = {c}]
    BY <1>3, <1>4 DEF SpeakingOf
  <1>7. SpeakingOf[k] = {}
    BY <1>2 DEF SpeakingOf
  <1>8. Talk!Take(k, c)
    BY <1>5, <1>6, <1>7 DEF LogOf, SpeakingOf, Talk!Take
  <1> QED BY <1>8 DEF TalkStepped, Talk!TalkNext

\* The call c gives up its turn.
LEMMA EndLeaves ==
  ASSUME Inv, Held, TurnsSame, NEW c \in Callers, call[c].pc \in Leasing,
         call'[c].pc = "idle", \A d \in Callers \ {c} : call'[d] = call[d]
  PROVE  TalkStepped
  <1>1. PICK k \in Cid : k = call[c].cid
    BY LeasingLive
  <1>2. InTurn(k) = {c} /\ InTurn(k)' = {}
    <2>1. \A d \in Callers : call[d].pc \in Leasing /\ call[d].cid = k => d = c
      BY <1>1, OnlyOne
    <2>2. call'[c].pc \notin Leasing
      BY DEF Leasing
    <2>3. InTurn(k) = {c}
      BY <1>1, <2>1 DEF InTurn
    <2>4. \A d \in Callers : ~(call'[d].pc \in Leasing /\ call'[d].cid = k)
      BY <2>1, <2>2
    <2> QED BY <2>3, <2>4 DEF InTurn
  <1>3. \A j \in Cid \ {k} : InTurn(j)' = InTurn(j)
    BY <1>1 DEF InTurn, Leasing
  <1>4. LogOf' = LogOf
    BY DEF TurnsSame, LogOf
  <1>5. SpeakingOf' = [SpeakingOf EXCEPT ![k] = {}] /\ SpeakingOf[k] # {}
    BY <1>2, <1>3 DEF SpeakingOf
  <1>6. Talk!Leave(k)
    BY <1>4, <1>5 DEF LogOf, SpeakingOf, Talk!Leave
  <1> QED BY <1>6 DEF TalkStepped, Talk!TalkNext

LEMMA RecordSays ==
  ASSUME Inv, Held, IsNext, NEW c \in Callers, RecordTurn(c)
  PROVE  TalkStepped
  <1>1. /\ call[c].pc \in Counted /\ call[c].pc \in Leasing /\ call[c].cid \in Cid
        /\ KeepsPlace(c)
    BY DEF RecordTurn, Goto, KeepsPlace, Counted, Leasing, Inv, TypeOK, Call, Fits, CallFits
  <1>2. CASE UNCHANGED consultations
    BY <1>1, <1>2, UnchangedTurns, Moves
  <1>3. CASE /\ Recordable(call[c].cid, call[c].sequence)
             /\ Record(call[c].cid, call[c].sequence, call[c].session, call[c].cost)
    <2>0. PICK k \in Cid : k = call[c].cid
      BY <1>1
    <2>1. PICK n \in Nat : n = Cardinality(consultations[k].turns)
      BY DEF Inv, Fits, RowFits, Numbered
    <2>2. call[c].sequence = n + 1
      BY <1>1, <1>3, <2>0, <2>1 DEF Recordable, IsNext
    <2>3. LogOf[k] = 1 .. n /\ Cardinality(LogOf[k]) = n
      <3>1. LogOf[k] = 1 .. n
        BY <2>1 DEF LogOf, Inv, Fits, RowFits, Numbered
      <3>2. Cardinality(1 .. n) = n
        BY FS_Interval
      <3> QED BY <3>1, <3>2
    <2>4. PICK t : /\ t.sequence = n + 1
                   /\ consultations'[k].turns = consultations[k].turns \cup {t}
                   /\ \A j \in Cid \ {k} : consultations'[j] = consultations[j]
      <3> DEFINE u == [sequence |-> call[c].sequence, session |-> call[c].session,
                       cost |-> call[c].cost]
      <3>1. /\ consultations'[k].turns = consultations[k].turns \cup {u}
            /\ \A j \in Cid \ {k} : consultations'[j] = consultations[j]
        BY <1>3, <2>0 DEF Record, Inv, TypeOK, StoreTypeOK, Row
      <3>2. u.sequence = n + 1
        BY <2>2
      <3> HIDE DEF u
      <3> QED BY <3>1, <3>2
    <2>5. LogOf'[k] = LogOf[k] \cup {n + 1}
      <3>1. {u.sequence : u \in consultations[k].turns \cup {t}} =
              {u.sequence : u \in consultations[k].turns} \cup {t.sequence}
        OBVIOUS
      <3> QED BY <2>4, <3>1 DEF LogOf
    <2>6. \A j \in Cid \ {k} : LogOf'[j] = LogOf[j]
      BY <2>4 DEF LogOf
    <2>7. LogOf' = [LogOf EXCEPT ![k] = @ \cup {Cardinality(@) + 1}]
      <3>1. LogOf = [i \in Cid |-> LogOf[i]] /\ LogOf' = [i \in Cid |-> LogOf'[i]]
        BY DEF LogOf
      <3> QED BY <2>3, <2>5, <2>6, <3>1
    <2>8. SpeakingOf' = SpeakingOf /\ SpeakingOf[k] # {}
      BY <1>1, <2>0, KeepsPlaces DEF SpeakingOf, InTurn
    <2>9. Talk!Say(k)
      <3>1. [i \in Cid |-> InTurn(i)][k] # {}
        BY <2>8 DEF SpeakingOf
      <3>2. [i \in Cid |-> InTurn(i)]' = [i \in Cid |-> InTurn(i)]
        BY <2>8 DEF SpeakingOf
      <3>3. [i \in Cid |-> {u.sequence : u \in consultations[i].turns}]' =
              [[i \in Cid |-> {u.sequence : u \in consultations[i].turns}]
                 EXCEPT ![k] = @ \cup {Cardinality(@) + 1}]
        BY <2>7 DEF LogOf
      <3> QED BY <3>1, <3>2, <3>3 DEF Talk!Say, Talk!Cardinality, Cardinality
    <2> QED BY <2>9 DEF TalkStepped, Talk!TalkNext
  <1> QED BY <1>2, <1>3 DEF RecordTurn

LEMMA DeleteErases ==
  ASSUME Inv, Held, NEW ids, ~Busy(ids), consultations' = Erased(ids), UNCHANGED call
  PROVE  TalkStepped
  <1> DEFINE T == ids \cap Cid
  <1>1. \A i \in T : SpeakingOf[i] = {}
    BY LeasingLive DEF Busy, SpeakingOf, InTurn
  <1>2. SpeakingOf' = SpeakingOf
    BY DEF SpeakingOf, InTurn
  <1>3. LogOf' = [i \in Cid |-> IF i \in T THEN {} ELSE LogOf[i]]
    <2>1. \A i \in Cid : {t.sequence : t \in consultations'[i].turns} =
                         IF i \in T THEN {} ELSE LogOf[i]
      BY DEF Erased, Absent, LogOf
    <2> QED BY <2>1 DEF LogOf
  <1>4. Talk!EraseTalks(T)
    <2> HIDE DEF T
    <2> QED BY <1>1, <1>2, <1>3 DEF LogOf, SpeakingOf, Talk!EraseTalks
  <1> QED BY <1>4 DEF TalkStepped, Talk!TalkNext

LEMMA TalkStep ==
  ASSUME Inv, Held, IsNext, [Next]_vars
  PROVE  TalkStepped
  <1>1. ASSUME NEW c \in Callers, call[c].pc \notin Leasing, call'[c].pc \notin Leasing,
               TurnsSame, \A d \in Callers \ {c} : call'[d] = call[d]
        PROVE  TalkStepped
    BY <1>1, Moves DEF KeepsPlace
  <1>2. ASSUME NEW c \in Callers, NEW i \in Cid, NEW o, NEW s, call[c].pc \notin Leasing,
               On(i) = {}, ~Open(i), Create(i, o), Bound(c, i, o, s)
        PROVE  TalkStepped
    <2>1. consultations[i].turns = {}
      BY <1>2 DEF Inv, Fits, RowFits, Absent, Open
    <2>2. TurnsSame
      BY <1>2, <2>1 DEF TurnsSame, Create, Absent, Inv, TypeOK, StoreTypeOK
    <2>3. call'[c].pc \notin Leasing /\ \A d \in Callers \ {c} : call'[d] = call[d]
      BY <1>2, BoundPlace DEF Leasing
    <2> QED BY <1>1, <1>2, <2>2, <2>3
  <1>3. ASSUME NEW c \in Callers, Binding(c)
        PROVE  TalkStepped
    <2>1. call[c].pc \notin Leasing
      BY <1>3 DEF Binding, BindNew, BindResume, BindOwned, Leasing
    <2>2. CASE BindNew(c)
      BY <1>2, <2>1, <2>2 DEF BindNew
    <2>3. CASE \E i \in Cid : BindResume(c, i)
      <3>1. call'[c].pc \notin Leasing /\ \A d \in Callers \ {c} : call'[d] = call[d]
        BY <2>3, BoundPlace DEF BindResume, Leasing
      <3> QED BY <1>1, <2>1, <2>3, <3>1, UnchangedTurns DEF BindResume, store
    <2>4. ASSUME NEW o \in Owners, BindOwned(c, o)
          PROVE  TalkStepped
      <3>1. CASE \E i \in OwnedBy(o) : Bound(c, i, o, consultations[i].session)
        BY <3>1, BoundPlace, <1>1, <2>1, <2>4, UnchangedTurns DEF BindOwned, store, Leasing
      <3>2. CASE call' = [call EXCEPT ![c] = [Idle EXCEPT !.pc = "binding", !.for = o]]
        <4>1. call'[c].pc = "binding" /\ \A d \in Callers \ {c} : call'[d] = call[d]
          BY <3>2 DEF Idle, Inv, TypeOK
        <4> QED BY <1>1, <2>1, <2>4, <4>1, UnchangedTurns DEF BindOwned, store, Leasing
      <3> QED BY <2>4, <3>1, <3>2 DEF BindOwned
    <2> QED BY <1>3, <2>2, <2>3, <2>4 DEF Binding
  <1>4. ASSUME NEW c \in Callers, CreateOwned(c)
        PROVE  TalkStepped
    <2>1. call[c].pc \notin Leasing
      BY <1>4 DEF CreateOwned, Leasing
    <2>2. CASE Return(c) /\ UNCHANGED consultations
      BY <1>1, <2>1, <2>2, ReturnPlace, UnchangedTurns DEF Leasing
    <2>3. CASE \E i \in Cid : /\ On(i) = {} /\ ~Open(i)
                              /\ Create(i, call[c].for)
                              /\ Bound(c, i, call[c].for, NoSession)
      BY <1>2, <2>1, <2>3
    <2> QED BY <1>4, <2>2, <2>3 DEF CreateOwned
  <1>5. ASSUME NEW c \in Callers, Lease(c)
        PROVE  TalkStepped
    BY <1>5, LeaseTakes
  <1>6. ASSUME NEW c \in Callers, Refused(c) \/ Drop(c)
        PROVE  TalkStepped
    <2>1. call'[c].pc \notin Leasing /\ call[c].pc \notin Leasing
          /\ \A d \in Callers \ {c} : call'[d] = call[d]
      BY <1>6, ReturnPlace DEF Refused, Drop, Leasing
    <2> QED BY <1>1, <1>6, <2>1, UnchangedTurns DEF Refused, Drop, store
  <1>7. ASSUME NEW c \in Callers, NEW pc \in Leasing, call[c].pc \in Leasing,
               Goto(c, pc), TurnsSame
        PROVE  TalkStepped
    <2>1. KeepsPlace(c)
      BY <1>7 DEF Goto, KeepsPlace, Inv, TypeOK, Call
    <2> QED BY <1>7, <2>1, Moves
  <1>8. ASSUME NEW c \in Callers,
               Admit(c) \/ Preflight(c) \/ AskFails(c) \/ Cancelled(c)
        PROVE  TalkStepped
    BY <1>7, <1>8, UnchangedTurns DEF Admit, Preflight, AskFails, Cancelled, Leasing, store
  <1>9. ASSUME NEW c \in Callers, Number(c)
        PROVE  TalkStepped
    <2>1. KeepsPlace(c)
      BY <1>9 DEF Number, KeepsPlace, Leasing, Inv, TypeOK, Call
    <2> QED BY <1>9, <2>1, Moves, UnchangedTurns DEF Number, store
  <1>10. ASSUME NEW c \in Callers, Answer(c)
         PROVE  TalkStepped
    <2>1. KeepsPlace(c)
      BY <1>10 DEF Answer, KeepsPlace, Leasing, Inv, TypeOK, Call
    <2> QED BY <1>10, <2>1, Moves, UnchangedTurns DEF Answer, store
  <1>11. ASSUME NEW c \in Callers, Attach(c)
         PROVE  TalkStepped
    <2>1. TurnsSame
      <3>1. CASE Bind(call[c].cid, call[c].session)
        BY <3>1 DEF Bind, TurnsSame, Inv, TypeOK, StoreTypeOK, Row
      <3> QED BY <1>11, <3>1, UnchangedTurns DEF Attach
    <2>2. call[c].pc \in Leasing /\ \E pc \in Leasing : Goto(c, pc)
      BY <1>11 DEF Attach, Leasing
    <2> QED BY <1>7, <2>1, <2>2
  <1>12. ASSUME NEW c \in Callers, RecordTurn(c)
         PROVE  TalkStepped
    BY <1>12, RecordSays
  <1>13. ASSUME NEW c \in Callers, Release(c) \/ Crash(c)
         PROVE  TalkStepped
    <2>1. TurnsSame
      BY <1>13, UnchangedTurns DEF Release, Crash, store
    <2>2. call'[c].pc = "idle" /\ \A d \in Callers \ {c} : call'[d] = call[d]
      BY <1>13, ReturnPlace DEF Release, Crash
    <2>3. CASE call[c].pc \in Leasing
      BY <2>1, <2>2, <2>3, EndLeaves
    <2>4. CASE call[c].pc \notin Leasing
      BY <1>1, <2>1, <2>2, <2>4 DEF Leasing
    <2> QED BY <2>3, <2>4
  <1>14. CASE TurnsSame /\ UNCHANGED call
    BY <1>14, Quiet DEF InTurn
  <1>15. CASE Deleting
    BY <1>14, <1>15, DeleteErases, UnchangedTurns DEF Deleting, DeleteConsultation,
       RequestDeleteAll, DeleteAll, ExpireConfirmation, DeleteOwner, Delete, Deletable,
       Erase, Erasable
  <1>16. CASE Sweeping
    <2>1. CASE SweepList
      BY <1>14, <1>16, <2>1, UnchangedTurns DEF Sweeping, SweepList
    <2>2. CASE \E x \in Cid \cup Owners : SweepOne(x)
      BY <1>14, <1>16, <2>2, DeleteErases, UnchangedTurns DEF Sweeping, SweepOne, Delete,
         Deletable, Erase, Erasable
    <2> QED BY <1>16, <2>1, <2>2 DEF Sweeping
  <1>17. CASE Age
    <2>1. TurnsSame
      <3>1. ASSUME NEW i \in Cid, consultations' = [consultations EXCEPT ![i].stale = TRUE]
            PROVE  TurnsSame
        BY <3>1 DEF TurnsSame, Inv, TypeOK, StoreTypeOK, Row
      <3> QED BY <1>17, <3>1, UnchangedTurns DEF Age
    <2> QED BY <1>14, <1>17, <2>1 DEF Age
  <1>18. CASE \/ \E c \in Callers : Renew(c)
              \/ \E i \in Cid : Expire(i)
              \/ \E o \in Owners : Owns(o)
              \/ UNCHANGED vars
    BY <1>14, <1>18, UnchangedTurns DEF Renew, Expire, Owns, vars, store
  <1> QED BY <1>3, <1>4, <1>5, <1>6, <1>8, <1>9, <1>10, <1>11, <1>12, <1>13, <1>15,
             <1>16, <1>17, <1>18 DEF Next, Going

-----------------------------------------------------------------------------
\* While no call misses its heartbeats, each consultation is a conversation: turns
\* numbered 1, 2, ..., taken by one call at a time, and deleted under none.
THEOREM IsATalk ==
  ASSUME ~Stalls
  PROVE  Spec => IsConversation
  <1>1. Init => Held /\ IsNext /\ Talk!TalkInit
    <2>1. ASSUME Init
          PROVE  Held /\ IsNext
      BY <2>1 DEF Init, Idle, Held, IsNext, Leasing, Counted
    <2>2. ASSUME Init
          PROVE  Talk!TalkInit
      <3>1. \A i \in Cid : InTurn(i) = {} /\ {t.sequence : t \in consultations[i].turns} = {}
        BY <2>2 DEF Init, InitStore, Absent, InTurn, Idle, Leasing
      <3> QED BY <3>1 DEF Talk!TalkInit
    <2> QED BY <2>1, <2>2
  <1>2. Inv /\ Held /\ IsNext /\ [Next]_vars => Held' /\ IsNext'
    BY HeldStep, IsNextStep
  <1>3. Inv /\ Held /\ IsNext /\ [Next]_vars => [Talk!TalkNext]_(Talk!talk)
    BY TalkStep DEF TalkStepped
  <1> QED BY <1>1, <1>2, <1>3, InvHolds, PTL DEF Spec, IsConversation, Talk!TalkSpec

-----------------------------------------------------------------------------
(* What a set of turns has cost, in whatever order it is added up. *)

\* Numbers have a least one.
LEMMA LeastOf ==
  ASSUME NEW T \in SUBSET Nat, T # {}
  PROVE  \E x \in T : \A y \in T : x <= y
  <1> DEFINE R == {ss \in Nat \X Nat : ss[1] < ss[2]}
  <1>0. OpToRel(<, Nat) = R
    BY Zenon DEF OpToRel
  <1>1. IsWellFoundedOn(R, Nat)
    BY <1>0, NatLessThanWellFounded, Zenon
  <1>2. PICK x \in T : \A y \in T : ~(<<y, x>> \in R)
    <2> HIDE DEF R
    <2> QED BY <1>1, WFMin
  <1>3. ASSUME NEW y \in T PROVE x <= y
    <2>1. x \in Nat /\ y \in Nat
      OBVIOUS
    <2>2. y < x => <<y, x>> \in R
      BY <2>1
    <2>3. ~(y < x)
      BY <1>2, <2>2
    <2> QED BY <2>1, <2>3
  <1> QED BY <1>3

\* A set of finite sets that is not empty has a smallest one.
LEMMA Smallest ==
  ASSUME NEW F, F # {}, \A s \in F : IsFiniteSet(s)
  PROVE  \E s \in F : \A u \in F : Cardinality(s) <= Cardinality(u)
  <1> DEFINE T == {Cardinality(s) : s \in F}
  <1>1. T \in SUBSET Nat /\ T # {}
    BY FS_CardinalityType
  <1>2. PICK n \in T : \A m \in T : n <= m
    <2> HIDE DEF T
    <2> QED BY <1>1, LeastOf
  <1> QED BY <1>2

Costed(S) == IsFiniteSet(S) /\ \A t \in S : t.cost \in Nat

OneOf(s) == CHOOSE x \in s : TRUE

\* The partial sums by which the costs of S are added up.
Sums(S) == CHOOSE f : f = [s \in SUBSET S |-> IF s = {} THEN 0 ELSE OneOf(s).cost + f[s \ {OneOf(s)}]]

Adds(f, S) ==
  /\ f \in [SUBSET S -> Nat]
  /\ f[{}] = 0
  /\ \A s \in SUBSET S : s # {} => f[s] = OneOf(s).cost + f[s \ {OneOf(s)}]

LEMMA KnownIsSum ==
  ASSUME NEW S
  PROVE  KnownCost(S) = Sums(S)[S]
  BY Zenon DEF KnownCost, MapThenSumSet, MapThenFoldSet, Sums, OneOf

LEMMA Shrinks ==
  ASSUME NEW s, IsFiniteSet(s), NEW x \in s
  PROVE  /\ IsFiniteSet(s \ {x})
         /\ Cardinality(s) \in Nat /\ Cardinality(s \ {x}) \in Nat
         /\ Cardinality(s \ {x}) = Cardinality(s) - 1
  BY FS_RemoveElement, FS_CardinalityType

LEMMA SumsExist ==
  ASSUME NEW S, Costed(S)
  PROVE  \E f : Adds(f, S)
  <1> DEFINE Small(n) == {s \in SUBSET S : Cardinality(s) <= n}
             Partial(f, n) ==
               /\ f \in [Small(n) -> Nat]
               /\ f[{}] = 0
               /\ \A s \in Small(n) : s # {} => f[s] = OneOf(s).cost + f[s \ {OneOf(s)}]
             Bad == {n \in Nat : ~\E f : Partial(f, n)}
  <1>1. \A s \in SUBSET S : IsFiniteSet(s) /\ Cardinality(s) \in Nat
    BY FS_Subset, FS_CardinalityType DEF Costed
  <1>2. Cardinality({}) = 0 /\ \A s \in SUBSET S : Cardinality(s) = 0 <=> s = {}
    BY <1>1, FS_EmptySet
  <1>3. \A s \in SUBSET S : s # {} =>
          /\ OneOf(s) \in s /\ OneOf(s).cost \in Nat
          /\ Cardinality(s \ {OneOf(s)}) = Cardinality(s) - 1
    <2> SUFFICES ASSUME NEW s \in SUBSET S, s # {}
                 PROVE  /\ OneOf(s) \in s /\ OneOf(s).cost \in Nat
                        /\ Cardinality(s \ {OneOf(s)}) = Cardinality(s) - 1
      OBVIOUS
    <2>1. OneOf(s) \in s
      BY DEF OneOf
    <2> QED BY <1>1, <2>1, Shrinks DEF Costed
  <1>4. 0 \notin Bad
    <2> DEFINE f == [s \in Small(0) |-> 0]
    <2>1. \A s \in Small(0) : s = {}
      BY <1>1, <1>2
    <2>2. {} \in Small(0)
      BY <1>2
    <2>3. Partial(f, 0)
      <3> HIDE DEF Small
      <3> QED BY <2>1, <2>2
    <2> QED BY <2>3
  <1>5. ASSUME NEW n \in Nat, n # 0, n - 1 \notin Bad
        PROVE  n \notin Bad
    <2>1. n - 1 \in Nat
      BY <1>5
    <2>2. PICK f : Partial(f, n - 1)
      BY <1>5, <2>1
    <2> DEFINE g == [s \in Small(n) |->
                       IF s = {} THEN 0 ELSE OneOf(s).cost + f[s \ {OneOf(s)}]]
    <2>3. {} \in Small(n) /\ {} \in Small(n - 1)
      BY <1>2, <2>1
    <2>4. ASSUME NEW s \in Small(n), s # {}
          PROVE  OneOf(s).cost \in Nat /\ s \ {OneOf(s)} \in Small(n - 1)
                 /\ s \ {OneOf(s)} \in Small(n)
      <3>1. s \in SUBSET S /\ Cardinality(s) \in Nat /\ Cardinality(s) <= n
        BY <1>1
      <3>2. Cardinality(s \ {OneOf(s)}) = Cardinality(s) - 1 /\ s \ {OneOf(s)} \in SUBSET S
        BY <1>3, <2>4, <3>1
      <3> QED BY <1>3, <2>4, <3>1, <3>2
    <2>5. \A s \in Small(n - 1) : s \in Small(n)
      <3>1. \A s \in SUBSET S : Cardinality(s) \in Nat
        BY <1>1
      <3> QED BY <3>1
    <2> HIDE DEF Small
    <2>6. g \in [Small(n) -> Nat] /\ g[{}] = 0
      BY <2>2, <2>3, <2>4
    <2>7. \A s \in Small(n - 1) : g[s] = f[s]
      BY <2>2, <2>5
    <2>8. ASSUME NEW s \in Small(n), s # {}
          PROVE  g[s] = OneOf(s).cost + g[s \ {OneOf(s)}]
      BY <2>4, <2>7, <2>8
    <2>9. Partial(g, n)
      BY <2>6, <2>8
    <2> QED BY <2>9
  <1>6. Bad = {}
    <2> SUFFICES ASSUME Bad # {} PROVE FALSE
      OBVIOUS
    <2>1. Bad \in SUBSET Nat
      OBVIOUS
    <2> HIDE DEF Bad
    <2>2. PICK n \in Bad : \A m \in Bad : n <= m
      BY <2>1, LeastOf
    <2>3. n \in Nat /\ n # 0
      BY <1>4, <2>1, <2>2
    <2>4. n - 1 \notin Bad
      BY <2>1, <2>2, <2>3
    <2> QED BY <1>5, <2>2, <2>3, <2>4
  <1>7. Cardinality(S) \in Nat
    BY <1>1
  <1>8. Small(Cardinality(S)) = SUBSET S
    <2>1. \A s \in SUBSET S : Cardinality(s) <= Cardinality(S)
      BY FS_Subset DEF Costed
    <2> QED BY <2>1
  <1>9. \E f : Partial(f, Cardinality(S))
    BY <1>6, <1>7
  <1> HIDE DEF Small
  <1> QED BY <1>8, <1>9 DEF Adds

LEMMA SumsAdd ==
  ASSUME NEW S, Costed(S)
  PROVE  Adds(Sums(S), S)
  <1>1. PICK f : Adds(f, S)
    BY SumsExist
  <1> DEFINE Eq(h) == h = [s \in SUBSET S |-> IF s = {} THEN 0 ELSE OneOf(s).cost + h[s \ {OneOf(s)}]]
  <1>2. Eq(f)
    <2>1. \A s \in SUBSET S : f[s] = IF s = {} THEN 0 ELSE OneOf(s).cost + f[s \ {OneOf(s)}]
      BY <1>1 DEF Adds
    <2>2. f \in [SUBSET S -> Nat]
      BY <1>1 DEF Adds
    <2> QED BY <2>1, <2>2
  <1>3. Eq(Sums(S))
    <2>1. \E h : Eq(h)
      BY <1>2
    <2> QED BY <2>1, Zenon DEF Sums
  <1> HIDE DEF Eq
  <1>4. \A h : Eq(h) => /\ DOMAIN h = SUBSET S
                        /\ h = [s \in SUBSET S |-> h[s]]
                        /\ \A s \in SUBSET S : h[s] = IF s = {} THEN 0 ELSE OneOf(s).cost + h[s \ {OneOf(s)}]
    BY DEF Eq
  <1> DEFINE h == Sums(S)
             F == {s \in SUBSET S : h[s] # f[s]}
  <1>5. F = {}
    <2> SUFFICES ASSUME F # {} PROVE FALSE
      OBVIOUS
    <2>1. \A s \in F : s \in SUBSET S /\ IsFiniteSet(s)
      BY FS_Subset DEF Costed
    <2>2. PICK s \in F : \A u \in F : Cardinality(s) <= Cardinality(u)
      <3> HIDE DEF F
      <3> QED BY <2>1, Smallest
    <2>3. s # {}
      BY <1>3, <1>4, <1>1 DEF Adds
    <2>4. OneOf(s) \in s
      BY <2>3 DEF OneOf
    <2>5. Cardinality(s \ {OneOf(s)}) < Cardinality(s)
      BY <2>1, <2>4, Shrinks
    <2>6. s \ {OneOf(s)} \notin F
      <3> HIDE DEF F
      <3>1. Cardinality(s) \in Nat /\ Cardinality(s \ {OneOf(s)}) \in Nat
        BY <2>1, <2>4, Shrinks
      <3> QED BY <2>2, <2>5, <3>1
    <2>7. h[s \ {OneOf(s)}] = f[s \ {OneOf(s)}]
      BY <2>6
    <2>8. h[s] = OneOf(s).cost + h[s \ {OneOf(s)}] /\ f[s] = OneOf(s).cost + f[s \ {OneOf(s)}]
      BY <1>1, <1>3, <1>4, <2>3 DEF Adds
    <2> QED BY <2>7, <2>8
  <1>6. h = f
    <2>1. f = [s \in SUBSET S |-> f[s]]
      BY <1>1 DEF Adds
    <2>2. h = [s \in SUBSET S |-> h[s]]
      BY <1>3, <1>4
    <2>3. \A s \in SUBSET S : h[s] = f[s]
      BY <1>5
    <2> HIDE DEF h
    <2> QED BY <2>1, <2>2, <2>3
  <1> QED BY <1>1, <1>6

\* The sum is the same in whatever order it is taken.
LEMMA SumsAnyOrder ==
  ASSUME NEW S, Costed(S), NEW f, Adds(f, S), NEW s \in SUBSET S, NEW x \in s
  PROVE  f[s] = x.cost + f[s \ {x}]
  <1> DEFINE F == {u \in SUBSET S : \E y \in u : f[u] # y.cost + f[u \ {y}]}
  <1>1. F = {}
    <2> SUFFICES ASSUME F # {} PROVE FALSE
      OBVIOUS
    <2>1. \A u \in F : u \in SUBSET S /\ IsFiniteSet(u)
      BY FS_Subset DEF Costed
    <2>2. PICK u \in F : \A v \in F : Cardinality(u) <= Cardinality(v)
      <3> HIDE DEF F
      <3> QED BY <2>1, Smallest
    <2>3. PICK y \in u : f[u] # y.cost + f[u \ {y}]
      OBVIOUS
    <2> DEFINE z == OneOf(u)
    <2>4. z \in u
      BY DEF OneOf
    <2> HIDE DEF z
    <2>5. f[u] = z.cost + f[u \ {z}]
      BY DEF Adds, z
    <2>6. z # y
      BY <2>3, <2>5
    <2>7. u \ {z} \notin F /\ u \ {y} \notin F
      <3> HIDE DEF F
      <3>1. \A w \in u : Cardinality(u) \in Nat /\ Cardinality(u \ {w}) \in Nat /\ Cardinality(u \ {w}) < Cardinality(u)
        <4> SUFFICES ASSUME NEW w \in u
                     PROVE  /\ Cardinality(u) \in Nat /\ Cardinality(u \ {w}) \in Nat
                            /\ Cardinality(u \ {w}) < Cardinality(u)
          OBVIOUS
        <4>1. IsFiniteSet(u)
          BY <2>1
        <4>2. Cardinality(u) \in Nat /\ Cardinality(u \ {w}) = Cardinality(u) - 1
              /\ Cardinality(u \ {w}) \in Nat
          BY <4>1, Shrinks
        <4> QED BY <4>2
      <3> QED BY <2>2, <2>4, <3>1
    <2>8. f[u \ {z}] = y.cost + f[(u \ {z}) \ {y}]
      BY <2>6, <2>7
    <2>9. f[u \ {y}] = z.cost + f[(u \ {y}) \ {z}]
      BY <2>4, <2>6, <2>7
    <2>10. (u \ {z}) \ {y} = (u \ {y}) \ {z}
      OBVIOUS
    <2>11. /\ y.cost \in Nat /\ z.cost \in Nat
           /\ f[(u \ {z}) \ {y}] \in Nat
      BY <2>4 DEF Costed, Adds
    <2>12. \A a, b, r \in Nat : a + (b + r) = b + (a + r)
      OBVIOUS
    <2>13. z.cost + (y.cost + f[(u \ {z}) \ {y}]) = y.cost + (z.cost + f[(u \ {z}) \ {y}])
      BY <2>11, <2>12, Zenon
    <2>14. f[u] = y.cost + f[u \ {y}]
      BY <2>5, <2>8, <2>9, <2>10, <2>13, Zenon
    <2> QED BY <2>3, <2>14
  <1> QED BY <1>1

LEMMA SumsAgree ==
  ASSUME NEW S, Costed(S), NEW f, Adds(f, S), NEW T \in SUBSET S, NEW g, Adds(g, T)
  PROVE  g[T] = f[T]
  <1> DEFINE F == {u \in SUBSET T : g[u] # f[u]}
  <1>1. F = {}
    <2> SUFFICES ASSUME F # {} PROVE FALSE
      OBVIOUS
    <2>1. \A u \in F : u \in SUBSET T /\ u \in SUBSET S /\ IsFiniteSet(u)
      BY FS_Subset DEF Costed
    <2>2. PICK u \in F : \A v \in F : Cardinality(u) <= Cardinality(v)
      <3> HIDE DEF F
      <3> QED BY <2>1, Smallest
    <2>3. u # {}
      BY DEF Adds
    <2> DEFINE z == OneOf(u)
    <2>4. z \in u
      BY <2>3 DEF OneOf
    <2> HIDE DEF z
    <2>5. f[u] = z.cost + f[u \ {z}] /\ g[u] = z.cost + g[u \ {z}]
      BY <2>1, <2>3 DEF Adds, z
    <2>7. u \ {z} \notin F
      <3> HIDE DEF F
      <3>1. Cardinality(u) \in Nat /\ Cardinality(u \ {z}) \in Nat /\ Cardinality(u \ {z}) < Cardinality(u)
        <4>1. Cardinality(u) \in Nat /\ Cardinality(u \ {z}) = Cardinality(u) - 1
              /\ Cardinality(u \ {z}) \in Nat
          <5>1. IsFiniteSet(u)
            BY <2>1
          <5> QED BY <2>4, <5>1, Shrinks
        <4> QED BY <4>1
      <3> QED BY <2>2, <3>1
    <2> QED BY <2>5, <2>7
  <1> QED BY <1>1

\* What is known to have been spent grows by what the turn cost (consultation_spend).
LEMMA CostAdds ==
  ASSUME NEW S, Costed(S), NEW t, t \notin S, t.cost \in Nat
  PROVE  KnownCost(S) \in Nat /\ KnownCost(S \cup {t}) = KnownCost(S) + t.cost
  <1> DEFINE T == S \cup {t}
  <1>1. Costed(T)
    BY FS_AddElement DEF Costed
  <1>2. Adds(Sums(T), T) /\ Adds(Sums(S), S)
    BY <1>1, SumsAdd
  <1>3. Sums(T)[T] = t.cost + Sums(T)[T \ {t}]
    BY <1>1, <1>2, SumsAnyOrder
  <1>4. T \ {t} = S
    OBVIOUS
  <1>5. Sums(S)[S] = Sums(T)[S]
    BY <1>1, <1>2, SumsAgree
  <1>6. Sums(S)[S] \in Nat
    BY <1>2 DEF Adds
  <1>7. KnownCost(T) = Sums(T)[T] /\ KnownCost(S) = Sums(S)[S]
    BY KnownIsSum
  <1>8. \A a, b \in Nat : a + b = b + a
    OBVIOUS
  <1>9. KnownCost(T) = t.cost + KnownCost(S)
    BY <1>3, <1>4, <1>5, <1>7, Zenon
  <1>10. KnownCost(S) \in Nat
    BY <1>6, <1>7
  <1> QED BY <1>8, <1>9, <1>10

LEMMA NoCost == KnownCost({}) = 0
  <1>1. Costed({})
    BY FS_EmptySet DEF Costed
  <1> QED BY <1>1, SumsAdd, KnownIsSum DEF Adds

-----------------------------------------------------------------------------
(* The ceilings. *)

\* The places between the look at the ceilings and recording the turn.
Admitted == Counted \cup {"admitted"}

\* No call was admitted past a ceiling, though the turn is recorded much later.
Ceilings ==
  /\ \A c \in Callers : (call[c].pc \in Admitted /\ Open(call[c].cid)) =>
       ~Refusal(consultations[call[c].cid].turns)
  /\ \A c \in Callers : call[c].cost \in Prices \cup {0}
  /\ CeilingHolds

\* No turn is taken.
NoneTaken == \A i \in Cid : consultations'[i].turns \in {consultations[i].turns, {}}

KeepsAdmission(c) ==
  call'[c].pc \in Admitted => call[c].pc \in Admitted /\ call'[c].cid = call[c].cid

LEMMA TurnsCosted ==
  ASSUME Inv, NEW i \in Cid
  PROVE  /\ Costed(consultations[i].turns)
         /\ KnownCost(consultations[i].turns) \in Nat
         /\ Cardinality(consultations[i].turns) \in Nat
  <1>1. consultations[i].turns \subseteq Turn /\ IsFiniteSet(consultations[i].turns)
        /\ Cardinality(consultations[i].turns) \in Nat
    BY DEF Inv, TypeOK, StoreTypeOK, Row, Fits, RowFits, Numbered
  <1>2. Costed(consultations[i].turns)
    BY <1>1 DEF Costed, Turn
  <1>3. KnownCost(consultations[i].turns) \in Nat
    BY <1>2, SumsAdd, KnownIsSum DEF Adds
  <1> QED BY <1>1, <1>2, <1>3

\* The dearest price there is.
LEMMA Dearest ==
  /\ Max(Prices \cup {1}) \in Nat \ {0}
  /\ \A p \in Prices \cup {0} : p <= Max(Prices \cup {1})
  <1> DEFINE P == Prices \cup {1}
             F == {{q \in P : q > p} : p \in P}
  <1>1. P \subseteq Nat /\ P # {} /\ IsFiniteSet(P)
    BY CeilingAssumption, FS_AddElement
  <1> HIDE DEF P
  <1>2. \A s \in F : IsFiniteSet(s)
    BY <1>1, FS_Subset
  <1>3. PICK s \in F : \A u \in F : Cardinality(s) <= Cardinality(u)
    <2>1. F # {}
      BY <1>1
    <2> HIDE DEF F
    <2> QED BY <1>2, <2>1, Smallest
  <1>4. PICK m \in P : s = {q \in P : q > m}
    OBVIOUS
  <1>5. s = {}
    <2> SUFFICES ASSUME NEW q \in s PROVE FALSE
      OBVIOUS
    <2> DEFINE u == {r \in P : r > q}
    <2>1. q \in P /\ q > m
      BY <1>4
    <2>2. u \subseteq s \ {q}
      BY <1>1, <1>4, <2>1
    <2>3. IsFiniteSet(s) /\ IsFiniteSet(s \ {q}) /\ Cardinality(s) \in Nat
          /\ Cardinality(s \ {q}) = Cardinality(s) - 1
      BY <1>2, Shrinks
    <2>4. u \in F
      BY <2>1
    <2>5. Cardinality(s) <= Cardinality(u)
      <3> HIDE DEF F, u
      <3> QED BY <1>3, <2>4
    <2>6. Cardinality(u) <= Cardinality(s \ {q}) /\ Cardinality(u) \in Nat
      <3> HIDE DEF u
      <3> QED BY <2>2, <2>3, FS_Subset, FS_CardinalityType
    <2> QED BY <2>3, <2>5, <2>6
  <1>6. m \in P /\ \A y \in P : m >= y
    BY <1>1, <1>4, <1>5
  <1>7. Max(P) \in P /\ \A y \in P : Max(P) >= y
    BY <1>6 DEF Max
  <1> QED BY <1>1, <1>7 DEF P

\* Only RecordTurn adds a turn, and it adds one.
LEMMA WhoTakes ==
  ASSUME Inv, [Next]_vars, \A c \in Callers : ~RecordTurn(c)
  PROVE  NoneTaken /\ TurnsStay
  <1>0. ASSUME UNCHANGED consultations PROVE NoneTaken /\ TurnsStay
    BY <1>0 DEF NoneTaken, TurnsStay, Inv, Fits, RowFits, Absent
  <1>1. ASSUME NEW i \in Cid, NEW o, On(i) = {}, Create(i, o) PROVE NoneTaken /\ TurnsStay
    BY <1>1 DEF NoneTaken, TurnsStay, Create, Absent, Inv, TypeOK, StoreTypeOK
  <1>2. ASSUME NEW ids, consultations' = Erased(ids) PROVE NoneTaken /\ TurnsStay
    BY <1>2 DEF NoneTaken, TurnsStay, Erased, Absent
  <1>3. ASSUME NEW i \in Cid, NEW row \in Row, consultations' = [consultations EXCEPT ![i] = row],
               row.turns = consultations[i].turns, row.open = consultations[i].open
        PROVE NoneTaken /\ TurnsStay
    BY <1>3 DEF NoneTaken, TurnsStay, Inv, TypeOK, StoreTypeOK
  <1>4. ASSUME NEW c \in Callers, Binding(c) \/ CreateOwned(c) PROVE NoneTaken /\ TurnsStay
    BY <1>0, <1>1, <1>4 DEF Binding, BindNew, BindResume, BindOwned, CreateOwned, store
  <1>5. ASSUME NEW c \in Callers, Attach(c) PROVE NoneTaken /\ TurnsStay
    <2>1. CASE Bind(call[c].cid, call[c].session)
      <3>1. call[c].cid \in Cid
        BY <1>5 DEF Attach, Inv, Fits, CallFits
      <3>2. consultations[call[c].cid] \in Row
        BY <3>1 DEF Inv, TypeOK, StoreTypeOK
      <3>3. NoneTaken
        BY <2>1, <3>1, <3>2 DEF Bind, NoneTaken, Inv, TypeOK, StoreTypeOK, Row
      <3>4. TurnsStay
        BY <2>1, <3>1, <3>2 DEF Bind, TurnsStay, Inv, TypeOK, StoreTypeOK, Row
      <3> QED BY <3>3, <3>4
    <2> QED BY <1>0, <1>5, <2>1 DEF Attach
  <1>6. CASE Deleting
    BY <1>0, <1>2, <1>6 DEF Deleting, DeleteConsultation, RequestDeleteAll, DeleteAll,
       ExpireConfirmation, DeleteOwner, Delete, Erase
  <1>7. CASE Sweeping
    BY <1>0, <1>2, <1>7 DEF Sweeping, SweepList, SweepOne, Delete, Erase
  <1>8. CASE Age
    <2>1. ASSUME NEW i \in Cid, consultations' = [consultations EXCEPT ![i].stale = TRUE]
          PROVE  NoneTaken /\ TurnsStay
      BY <2>1 DEF NoneTaken, TurnsStay, Inv, TypeOK, StoreTypeOK, Row
    <2> QED BY <1>0, <1>8, <2>1 DEF Age
  <1>9. ASSUME NEW c \in Callers,
               \/ Lease(c) \/ Refused(c) \/ Admit(c) \/ Number(c) \/ Preflight(c) \/ Answer(c)
               \/ AskFails(c) \/ Release(c) \/ Cancelled(c) \/ Drop(c) \/ Crash(c) \/ Renew(c)
        PROVE  UNCHANGED consultations
    BY <1>9 DEF Lease, Refused, Admit, Number, Preflight, Answer, AskFails, Release, Cancelled,
       Drop, Crash, Renew, store
  <1>10. CASE (\E i \in Cid : Expire(i)) \/ (\E o \in Owners : Owns(o)) \/ UNCHANGED vars
    BY <1>0, <1>10 DEF Expire, Owns, vars, store
  <1> QED BY <1>0, <1>4, <1>5, <1>6, <1>7, <1>8, <1>9, <1>10 DEF Next, Going

LEMMA BoundCost ==
  ASSUME Inv, NEW c \in Callers
  PROVE  /\ \A i, o, s : Bound(c, i, o, s) => call'[c].pc = "bound" /\ call'[c].cost = 0
         /\ Return(c) => call'[c].pc = "idle" /\ call'[c].cost = 0
         /\ \A o : call' = [call EXCEPT ![c] = [Idle EXCEPT !.pc = "binding", !.for = o]] =>
              call'[c].pc = "binding" /\ call'[c].cost = 0
  <1>1. \A k : call' = [call EXCEPT ![c] = k] => call'[c] = k
    BY DEF Inv, TypeOK
  <1>2. Idle.pc = "idle" /\ Idle.cost = 0
    BY DEF Idle
  <1>3. \A i, o, s : Bound(c, i, o, s) => call'[c].pc = "bound" /\ call'[c].cost = 0
    <2> TAKE i, o, s
    <2> DEFINE k == [Idle EXCEPT !.pc = "bound", !.for = o, !.cid = i, !.resuming = s]
    <2>1. Bound(c, i, o, s) => call' = [call EXCEPT ![c] = k]
      BY DEF Bound
    <2>2. k.pc = "bound" /\ k.cost = 0
      BY DEF Idle
    <2> HIDE DEF k
    <2> QED BY <1>1, <2>1, <2>2
  <1>4. Return(c) => call'[c].pc = "idle" /\ call'[c].cost = 0
    BY <1>1, <1>2 DEF Return
  <1>5. \A o : call' = [call EXCEPT ![c] = [Idle EXCEPT !.pc = "binding", !.for = o]] =>
              call'[c].pc = "binding" /\ call'[c].cost = 0
    <2> TAKE o
    <2> DEFINE k == [Idle EXCEPT !.pc = "binding", !.for = o]
    <2>1. k.pc = "binding" /\ k.cost = 0
      BY DEF Idle
    <2>2. call' = [call EXCEPT ![c] = k] => call'[c].pc = "binding" /\ call'[c].cost = 0
      <3> HIDE DEF k
      <3> QED BY <1>1, <2>1
    <2> QED BY <2>2
  <1> QED BY <1>3, <1>4, <1>5

\* Only Admit lets a call past the ceilings, and only an answer has a price.
LEMMA WhoAdmits ==
  ASSUME Inv, [Next]_vars, NEW d \in Callers
  PROVE  /\ KeepsAdmission(d) \/ Admit(d)
         /\ call'[d].cost \in Prices \cup {0, call[d].cost}
  <1> DEFINE Fine == (KeepsAdmission(d) \/ Admit(d)) /\ call'[d].cost \in Prices \cup {0, call[d].cost}
  <1>0. call[d] \in Call
    BY DEF Inv, TypeOK
  <1>1. CASE call'[d] = call[d]
    BY <1>1 DEF KeepsAdmission
  <1>2. ASSUME NEW c \in Callers, Binding(c) PROVE Fine
    <2>1. c # d => call'[d] = call[d]
      BY <1>2 DEF Binding, BindNew, BindResume, BindOwned, Bound, Inv, TypeOK
    <2>2. c = d => call'[d].pc \in {"bound", "binding"} /\ call'[d].cost = 0
      BY <1>2, BoundCost DEF Binding, BindNew, BindResume, BindOwned
    <2> QED BY <1>1, <2>1, <2>2 DEF KeepsAdmission, Admitted, Counted
  <1>3. ASSUME NEW c \in Callers, CreateOwned(c) PROVE Fine
    <2>1. c # d => call'[d] = call[d]
      BY <1>3 DEF CreateOwned, Bound, Return, Inv, TypeOK
    <2>2. c = d => call'[d].pc \in {"bound", "idle"} /\ call'[d].cost = 0
      BY <1>3, BoundCost DEF CreateOwned
    <2> QED BY <1>1, <2>1, <2>2 DEF KeepsAdmission, Admitted, Counted
  <1>4. ASSUME NEW c \in Callers, Return(c) PROVE Fine
    <2>1. c # d => call'[d] = call[d]
      BY <1>4 DEF Return, Inv, TypeOK
    <2>2. c = d => call'[d].pc = "idle" /\ call'[d].cost = 0
      BY <1>4 DEF Return, Idle, Inv, TypeOK
    <2> QED BY <1>1, <2>1, <2>2 DEF KeepsAdmission, Admitted, Counted
  <1>5. ASSUME NEW c \in Callers, NEW pc \in PC, Goto(c, pc),
               pc \in Admitted => call[c].pc \in Admitted \/ Admit(c)
        PROVE  Fine
    <2>1. c # d => call'[d] = call[d]
      BY <1>5 DEF Goto, Inv, TypeOK
    <2>2. c = d => call'[d].pc = pc /\ call'[d].cost = call[d].cost /\ call'[d].cid = call[d].cid
      BY <1>0, <1>5 DEF Goto, Call, Inv, TypeOK
    <2> QED BY <1>1, <1>5, <2>1, <2>2 DEF KeepsAdmission
  <1>6. ASSUME NEW c \in Callers, Lease(c) \/ Admit(c) \/ Preflight(c) \/ AskFails(c) \/ Attach(c)
                                   \/ RecordTurn(c) \/ Cancelled(c)
        PROVE  Fine
    <2>1. \E pc \in PC : Goto(c, pc) /\ (pc \in Admitted => call[c].pc \in Admitted \/ Admit(c))
      BY <1>6 DEF Lease, Admit, Preflight, AskFails, Attach, RecordTurn, Cancelled, PC, Admitted,
         Counted
    <2> QED BY <1>5, <2>1
  <1>7. ASSUME NEW c \in Callers, Number(c) PROVE Fine
    <2>1. c # d => call'[d] = call[d]
      BY <1>7 DEF Number, Inv, TypeOK
    <2>2. c = d => call[d].pc \in Admitted /\ call'[d].cost = call[d].cost /\ call'[d].cid = call[d].cid
      BY <1>0, <1>7 DEF Number, Call, Admitted, Inv, TypeOK
    <2> QED BY <1>1, <2>1, <2>2 DEF KeepsAdmission
  <1>8. ASSUME NEW c \in Callers, Answer(c) PROVE Fine
    <2>1. c # d => call'[d] = call[d]
      BY <1>8 DEF Answer, Inv, TypeOK
    <2>2. c = d => call[d].pc \in Admitted /\ call'[d].cost \in Prices /\ call'[d].cid = call[d].cid
      BY <1>0, <1>8 DEF Answer, Call, Admitted, Counted, Inv, TypeOK
    <2> QED BY <1>1, <2>1, <2>2 DEF KeepsAdmission
  <1>9. ASSUME NEW c \in Callers, Refused(c) \/ Release(c) \/ Drop(c) \/ Crash(c) PROVE Fine
    BY <1>4, <1>9 DEF Refused, Release, Drop, Crash
  <1>10. CASE \/ \E c \in Callers : Renew(c)
              \/ \E i \in Cid : Expire(i)
              \/ \E o \in Owners : Owns(o)
              \/ Age \/ Deleting \/ Sweeping \/ UNCHANGED vars
    <2>1. UNCHANGED call
      BY <1>10 DEF Renew, Expire, Owns, Age, Deleting, Sweeping, vars
    <2> QED BY <1>1, <2>1
  <1> QED BY <1>2, <1>3, <1>6, <1>7, <1>8, <1>9, <1>10 DEF Next, Going

LEMMA CeilingsStep ==
  ASSUME Inv, Held, Ceilings, [Next]_vars
  PROVE  Ceilings'
  <1>1. \A c \in Callers : call'[c].cost \in Prices \cup {0}
    BY WhoAdmits DEF Ceilings
  <1>2. CASE \A c \in Callers : ~RecordTurn(c)
    <2>1. NoneTaken /\ TurnsStay
      BY <1>2, WhoTakes
    <2>2. CeilingHolds'
      <3> SUFFICES ASSUME NEW i \in Cid
                   PROVE  /\ Cardinality(consultations'[i].turns) <= max_turns
                          /\ KnownCost(consultations'[i].turns) < max_cost + Max(Prices \cup {1})
        BY DEF CeilingHolds
      <3>1. CASE consultations'[i].turns = consultations[i].turns
        BY <3>1 DEF Ceilings, CeilingHolds
      <3>2. CASE consultations'[i].turns = {}
        <4>1. Cardinality({}) = 0
          BY FS_EmptySet
        <4> QED BY <3>2, <4>1, NoCost, Dearest, CeilingAssumption
      <3> QED BY <2>1, <3>1, <3>2 DEF NoneTaken
    <2>3. ASSUME NEW c \in Callers, call'[c].pc \in Admitted, consultations'[call'[c].cid].open
          PROVE  ~Refusal(consultations'[call'[c].cid].turns)
      <3>1. CASE KeepsAdmission(c)
        <4>1. call[c].pc \in Admitted /\ call'[c].cid = call[c].cid
          BY <2>3, <3>1 DEF KeepsAdmission
        <4>2. call[c].cid \in Cid /\ On(call[c].cid) # {}
          BY <4>1 DEF Inv, Fits, CallFits, Admitted, Counted, On
        <4>3. /\ consultations[call[c].cid].open
              /\ consultations'[call[c].cid].turns = consultations[call[c].cid].turns
          BY <2>1, <2>3, <4>1, <4>2 DEF TurnsStay
        <4> QED BY <4>1, <4>3 DEF Ceilings, Open
      <3>2. CASE Admit(c)
        <4>1. call[c] \in Call /\ UNCHANGED consultations
          BY <3>2 DEF Admit, store, Inv, TypeOK
        <4>2. CASE Refusal(consultations[call[c].cid].turns)
          BY <2>3, <3>2, <4>2 DEF Admit, Goto, Admitted, Counted, Inv, TypeOK
        <4>3. CASE ~Refusal(consultations[call[c].cid].turns)
          <5>1. call'[c].cid = call[c].cid
            BY <3>2, <4>1 DEF Admit, Goto, Call, Inv, TypeOK
          <5> QED BY <4>1, <4>3, <5>1
        <4> QED BY <4>2, <4>3
      <3> QED BY <3>1, <3>2, WhoAdmits
    <2>4. \A c \in Callers : (call'[c].pc \in Admitted /\ Open(call[c].cid)') =>
            ~Refusal(consultations'[call'[c].cid].turns)
      BY <2>3 DEF Open
    <2> QED BY <1>1, <2>2, <2>4 DEF Ceilings, Refusal
  <1>3. ASSUME NEW c \in Callers, RecordTurn(c)
        PROVE  Ceilings'
    <2> DEFINE i == call[c].cid
               t == [sequence |-> call[c].sequence, session |-> call[c].session, cost |-> call[c].cost]
    <2>1. /\ call'[c].pc = "leaving" /\ call[c].pc \in Leasing /\ call[c].pc \in Admitted
          /\ \A d \in Callers \ {c} : call'[d] = call[d]
      BY <1>3 DEF RecordTurn, Goto, Leasing, Admitted, Counted, Inv, TypeOK, Call
    <2>2. \A j \in Cid \ {i} : consultations'[j] = consultations[j]
      BY <1>3 DEF RecordTurn, Record, Inv, TypeOK, StoreTypeOK
    <2>3. ASSUME NEW d \in Callers, call'[d].pc \in Admitted, consultations'[call'[d].cid].open
          PROVE  ~Refusal(consultations'[call'[d].cid].turns)
      <3>1. d # c /\ call'[d] = call[d] /\ call[d].pc \in Leasing
        BY <2>1, <2>3 DEF Admitted, Counted, Leasing
      <3>2. call[d].cid # i
        BY <2>1, <3>1, OnlyOne
      <3>3. call[d].cid \in Cid
        BY <3>1, LeasingLive
      <3> QED BY <2>2, <2>3, <3>1, <3>2, <3>3 DEF Ceilings, Open
    <2>4. CASE UNCHANGED consultations
      <3>1. CeilingHolds'
        BY <2>4 DEF Ceilings, CeilingHolds
      <3> QED BY <1>1, <2>3, <3>1 DEF Ceilings, Open, Refusal
    <2>5. CASE Recordable(i, call[c].sequence) /\ Record(i, call[c].sequence, call[c].session, call[c].cost)
      <3>1. i \in Cid /\ consultations[i] \in Row
        BY <2>1, LeasingLive DEF Inv, TypeOK, StoreTypeOK
      <3>2. consultations'[i].turns = consultations[i].turns \cup {t}
        BY <2>5, <3>1 DEF Record, Inv, TypeOK, StoreTypeOK, Row
      <3>3. t \notin consultations[i].turns
        BY <2>5 DEF Recordable
      <3>4. ~Refusal(consultations[i].turns)
        BY <2>1, <2>5 DEF Ceilings, Recordable
      <3>5. t.cost \in Prices \cup {0} /\ t.cost \in Nat
        <4>1. t.cost = call[c].cost
          OBVIOUS
        <4>2. call[c].cost \in Prices \cup {0}
          BY DEF Ceilings
        <4>3. \A p \in Prices \cup {0} : p \in Nat
          BY CeilingAssumption
        <4> HIDE DEF t
        <4> QED BY <4>1, <4>2, <4>3
      <3>6. /\ Costed(consultations[i].turns)
            /\ KnownCost(consultations[i].turns) \in Nat
            /\ Cardinality(consultations[i].turns) \in Nat
        BY <3>1, TurnsCosted
      <3> DEFINE S == consultations[i].turns
      <3> HIDE DEF t
      <3>7. KnownCost(S \cup {t}) = KnownCost(S) + t.cost
        BY <3>3, <3>5, <3>6, CostAdds
      <3>8. Cardinality(S \cup {t}) = Cardinality(S) + 1
        BY <3>3, <3>6, FS_AddElement DEF Costed
      <3>9. /\ Cardinality(S \cup {t}) <= max_turns
            /\ KnownCost(S \cup {t}) < max_cost + Max(Prices \cup {1})
        <4>1. KnownCost(S) < max_cost /\ Cardinality(S) < max_turns
          BY <3>4, <3>6, CeilingAssumption DEF Refusal
        <4>2. t.cost <= Max(Prices \cup {1}) /\ Max(Prices \cup {1}) \in Nat
          BY <3>5, Dearest
        <4> HIDE DEF S
        <4>3. \A a, b, x, y \in Nat : a < b /\ x <= y => a + x < b + y
          OBVIOUS
        <4>4. KnownCost(S) \in Nat /\ Cardinality(S) \in Nat
          BY <3>6 DEF S
        <4>5. KnownCost(S) + t.cost < max_cost + Max(Prices \cup {1})
          BY <3>5, <4>1, <4>2, <4>3, <4>4, CeilingAssumption, Zenon
        <4>6. Cardinality(S) + 1 <= max_turns
          BY <4>1, <4>4, CeilingAssumption
        <4> QED BY <3>7, <3>8, <4>5, <4>6, Zenon
      <3>10. CeilingHolds'
        <4> SUFFICES ASSUME NEW j \in Cid
                     PROVE  /\ Cardinality(consultations'[j].turns) <= max_turns
                            /\ KnownCost(consultations'[j].turns) < max_cost + Max(Prices \cup {1})
          BY DEF CeilingHolds
        <4>1. CASE j = i
          BY <3>2, <3>9, <4>1
        <4>2. CASE j # i
          BY <2>2, <4>2 DEF Ceilings, CeilingHolds
        <4> QED BY <4>1, <4>2
      <3> QED BY <1>1, <2>3, <3>10 DEF Ceilings, Open, Refusal
    <2> QED BY <1>3, <2>4, <2>5 DEF RecordTurn
  <1> QED BY <1>2, <1>3

\* While no call misses its heartbeats, a consultation passes its ceilings by the price of
\* one turn at most.
THEOREM CeilingsHold ==
  ASSUME ~Stalls
  PROVE  Spec => []CeilingHolds
  <1>1. Init => Held /\ Ceilings
    <2> SUFFICES ASSUME Init PROVE Held /\ Ceilings
      OBVIOUS
    <2>1. Held /\ \A c \in Callers : call[c].pc \notin Admitted /\ call[c].cost = 0
      BY DEF Init, Idle, Held, Leasing, Admitted, Counted
    <2>2. \A i \in Cid : consultations[i].turns = {}
      BY DEF Init, InitStore, Absent
    <2>3. Cardinality({}) = 0
      BY FS_EmptySet
    <2>4. CeilingHolds
      <3> SUFFICES ASSUME NEW i \in Cid
                   PROVE  /\ Cardinality(consultations[i].turns) <= max_turns
                          /\ KnownCost(consultations[i].turns) < max_cost + Max(Prices \cup {1})
        BY DEF CeilingHolds
      <3>1. \A a \in Nat \ {0}, b \in Nat \ {0} : 0 < a + b
        OBVIOUS
      <3>2. 0 < max_cost + Max(Prices \cup {1}) /\ 0 <= max_turns
        BY <3>1, Dearest, CeilingAssumption
      <3> QED BY <2>2, <2>3, <3>2, NoCost
    <2> QED BY <2>1, <2>4 DEF Ceilings
  <1>2. Inv /\ Held /\ Ceilings /\ [Next]_vars => Held' /\ Ceilings'
    BY HeldStep, CeilingsStep
  <1>3. Ceilings => CeilingHolds
    BY DEF Ceilings
  <1> QED BY <1>1, <1>2, <1>3, InvHolds, PTL DEF Spec
===============================================================================
