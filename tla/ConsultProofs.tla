---------------------------- MODULE ConsultProofs ----------------------------
(***************************************************************************)
(* Proofs about Consult: the record of consultations keeps its promises    *)
(* whichever calls, deletes and sweeps race for it, with calls suspended   *)
(* past their leases or not; and while no call is suspended, every         *)
(* consultation is a Conversation.                                         *)
(***************************************************************************)
EXTENDS Consult, FiniteSetTheorems, TLAPS

-----------------------------------------------------------------------------
(* The inductive invariant. *)

\* The turns of a row are numbered as TurnsInOrder says, and there are finitely many.
Numbered(turns) ==
  /\ IsFiniteSet(turns)
  /\ Cardinality(turns) \in Nat
  /\ {t.sequence : t \in turns} = 1 .. Cardinality(turns)

RowFits(row) ==
  /\ Numbered(row.turns)
  /\ \A t \in row.turns : t.session \in {NoSession, row.session}
  /\ ~row.open => row = Absent
  /\ row.owner # Nobody => owner[row.owner].open

\* The places between reading the sequence number and recording under it.
Counted == {"numbered", "asking", "failing", "answered", "attached"}

\* What a call remembers of the rows, and of the record it works for, still holds when
\* it comes to use it, or the row has gone.
CallFits(k) ==
  /\ k.pc \in {"idle", "binding"} => k.cid = 0
  /\ k.pc \notin {"idle", "binding"} => k.cid \in Cid
  /\ k.pc = "binding" => k.for \in Owners
  /\ k.for # Nobody => owner[k.for].open /\ owner[k.for].running
  /\ k.pc \in {"answered", "attached"} => k.session \in Session
  /\ k.pc \notin {"answered", "attached", "leaving"} => k.session = NoSession
  /\ (k.pc \in Counted /\ Open(k.cid)) =>
       k.sequence \in 1 .. Cardinality(consultations[k.cid].turns) + 1
  /\ (k.pc = "attached" /\ Open(k.cid)) => consultations[k.cid].session = k.session

Fits ==
  /\ \A i \in Cid : RowFits(consultations[i])
  /\ \A c \in Callers : CallFits(call[c])

Inv == TypeOK /\ Fits

-----------------------------------------------------------------------------
(* Numbers. *)

LEMMA NoTurns == Numbered({})
  <1>1. IsFiniteSet({}) /\ Cardinality({}) = 0
    BY FS_EmptySet
  <1> QED BY <1>1 DEF Numbered

\* The number read is one more than the number of turns (next_sequence).
LEMMA NextIsCount ==
  ASSUME NEW i \in Cid, Numbered(consultations[i].turns)
  PROVE  NextSequence(i) = Cardinality(consultations[i].turns) + 1
  <1> DEFINE n == Cardinality(consultations[i].turns)
             S == {0} \cup {t.sequence : t \in consultations[i].turns}
  <1>1. n \in Nat /\ S = 0 .. n
    BY DEF Numbered
  <1>2. n \in S /\ \A x \in S : n >= x
    BY <1>1
  <1>3. \A x \in S : (\A y \in S : x >= y) => x = n
    BY <1>1
  <1>4. Max(S) = n
    <2> HIDE DEF n, S
    <2> QED BY <1>2, <1>3 DEF Max
  <1> QED BY <1>4 DEF NextSequence

\* A turn recorded under a number that is free, and was next when it was read, is next.
LEMMA RecordNumbers ==
  ASSUME NEW turns, NEW t, Numbered(turns),
         t.sequence \in 1 .. Cardinality(turns) + 1,
         \A u \in turns : u.sequence # t.sequence
  PROVE  /\ Numbered(turns \cup {t})
         /\ Cardinality(turns \cup {t}) = Cardinality(turns) + 1
         /\ t.sequence = Cardinality(turns) + 1
  <1> DEFINE n == Cardinality(turns)
  <1>1. n \in Nat /\ {u.sequence : u \in turns} = 1 .. n
    BY DEF Numbered
  <1>2. t.sequence \notin 1 .. n
    BY <1>1
  <1>3. t.sequence = n + 1
    BY <1>1, <1>2
  <1>4. t \notin turns
    OBVIOUS
  <1>5. IsFiniteSet(turns \cup {t}) /\ Cardinality(turns \cup {t}) = n + 1
    BY <1>4, FS_AddElement DEF Numbered
  <1>6. {u.sequence : u \in turns \cup {t}} = 1 .. (n + 1)
    <2>1. {u.sequence : u \in turns \cup {t}} = {u.sequence : u \in turns} \cup {t.sequence}
      OBVIOUS
    <2> QED BY <2>1, <1>1, <1>3
  <1>7. Cardinality(turns \cup {t}) \in Nat
    BY <1>1, <1>5
  <1>8. {u.sequence : u \in turns \cup {t}} = 1 .. Cardinality(turns \cup {t})
    BY <1>5, <1>6
  <1>9. Numbered(turns \cup {t})
    BY <1>5, <1>7, <1>8 DEF Numbered
  <1> QED BY <1>3, <1>5, <1>9

-----------------------------------------------------------------------------
(* Rows and calls: what their fields are, and what a change of one keeps. *)

LEMMA RowFields ==
  ASSUME NEW row \in Row
  PROVE  /\ row.open \in BOOLEAN
         /\ row.session \in Session \cup {NoSession}
         /\ row.owner \in Owners \cup {Nobody}
         /\ row.turns \subseteq Turn
  BY DEF Row

LEMMA RowUpdates ==
  ASSUME NEW row \in Row
  PROVE  /\ \A x \in BOOLEAN : [row EXCEPT !.stale = x] \in Row
         /\ \A x \in Session \cup {NoSession} :
              [row EXCEPT !.session = x, !.stale = FALSE] \in Row
         /\ \A x \in SUBSET Turn : [row EXCEPT !.turns = x, !.stale = FALSE] \in Row
  BY DEF Row

LEMMA AbsentType ==
  /\ Absent \in Row
  /\ \A o \in Owners \cup {Nobody} : [Absent EXCEPT !.open = TRUE, !.owner = o] \in Row
  BY DEF Absent, Row

LEMMA CallFields ==
  ASSUME NEW k \in Call
  PROVE  /\ k.pc \in PC
         /\ k.for \in Owners \cup {Nobody}
         /\ k.cid \in Cid \cup {0}
         /\ k.resuming \in Session \cup {NoSession}
         /\ k.sequence \in Nat
         /\ k.session \in Session \cup {NoSession}
         /\ k.cost \in Nat
  BY DEF Call

LEMMA CallUpdates ==
  ASSUME NEW k \in Call
  PROVE  /\ \A x \in PC : [k EXCEPT !.pc = x] \in Call
         /\ \A x \in PC, n \in Nat : [k EXCEPT !.pc = x, !.sequence = n] \in Call
         /\ \A x \in PC, p \in Nat, s \in Session :
              [k EXCEPT !.pc = x, !.cost = p, !.session = s] \in Call
  BY DEF Call

LEMMA IdleType ==
  /\ Idle \in Call
  /\ \A x \in PC, o \in Owners \cup {Nobody}, i \in Cid, s \in Session \cup {NoSession} :
       [Idle EXCEPT !.pc = x, !.for = o, !.cid = i, !.resuming = s] \in Call
  /\ \A x \in PC, o \in Owners \cup {Nobody} : [Idle EXCEPT !.pc = x, !.for = o] \in Call
  BY DEF Idle, Call, PC

LEMMA IdleFits == CallFits(Idle)
  BY DEF CallFits, Idle, NoSession, Counted

LEMMA AbsentFits == RowFits(Absent)
  BY NoTurns DEF RowFits, Absent

-----------------------------------------------------------------------------
(* What the steps have in common: a call moves, a row changes, rows go. *)

\* Only the call c moves.
LEMMA CallStep ==
  ASSUME Inv, NEW c \in Callers, NEW k \in Call, CallFits(k),
         call' = [call EXCEPT ![c] = k], UNCHANGED <<consultations, owner>>
  PROVE  call' \in [Callers -> Call] /\ Fits'
  <1>1. call' \in [Callers -> Call]
    BY DEF Inv, TypeOK
  <1>2. \A i \in Cid : RowFits(consultations[i])'
    BY DEF Inv, Fits, RowFits, Numbered
  <1>3. ASSUME NEW d \in Callers
        PROVE  CallFits(call[d])'
    <2>1. CallFits(call'[d])
      BY DEF Inv, TypeOK, Fits
    <2> QED BY <2>1 DEF CallFits, Open
  <1> QED BY <1>1, <1>2, <1>3 DEF Fits

\* A row that changes keeps what the calls on it remember.
Follows(row, old) ==
  /\ row.open = old.open
  /\ Cardinality(row.turns) >= Cardinality(old.turns)
  /\ old.session # NoSession => row.session = old.session

LEMMA RowStep ==
  ASSUME Inv, NEW c \in Callers, NEW k \in Call, call' = [call EXCEPT ![c] = k],
         CallFits(call[c])',
         NEW i \in Cid, NEW row \in Row, RowFits(row),
         Follows(row, consultations[i]) \/ On(i) = {},
         consultations' = [consultations EXCEPT ![i] = row], UNCHANGED owner
  PROVE  consultations' \in [Cid -> Row] /\ call' \in [Callers -> Call] /\ Fits'
  <1>1. consultations' \in [Cid -> Row] /\ call' \in [Callers -> Call]
    BY DEF Inv, TypeOK, StoreTypeOK
  <1>2. ASSUME NEW j \in Cid
        PROVE  RowFits(consultations[j])'
    <2>1. RowFits(consultations'[j])
      BY DEF Inv, Fits, TypeOK, StoreTypeOK
    <2> QED BY <2>1 DEF RowFits, Numbered
  <1>3. ASSUME NEW d \in Callers \ {c}
        PROVE  CallFits(call[d])'
    <2>1. call'[d] = call[d] /\ CallFits(call[d]) /\ call[d] \in Call
      BY DEF Inv, TypeOK, Fits
    <2>2. CASE call[d].cid # i
      <3>1. call[d].cid \in Cid => consultations'[call[d].cid] = consultations[call[d].cid]
        BY <2>1, <2>2, CallFields DEF Inv, TypeOK, StoreTypeOK
      <3> QED BY <2>1, <3>1, CallFields DEF CallFits, Open, Counted
    <2>3. CASE call[d].cid = i
      <3>1. Follows(row, consultations[i]) /\ consultations'[i] = row
        BY <2>3 DEF On, Inv, TypeOK, StoreTypeOK
      <3>2. /\ Cardinality(consultations[i].turns) \in Nat
            /\ Cardinality(row.turns) \in Nat
        BY DEF Inv, Fits, RowFits, Numbered
      <3> QED BY <2>1, <2>3, <3>1, <3>2, CallFields
              DEF CallFits, Open, Follows, Counted, Session, NoSession
    <2> QED BY <2>2, <2>3
  <1>4. \A d \in Callers : CallFits(call[d])'
    BY <1>3
  <1> QED BY <1>1, <1>2, <1>4 DEF Fits

\* The rows of `ids` go, with the records that own them; no call works for one.
LEMMA EraseStep ==
  ASSUME Inv, NEW ids, consultations' = Erased(ids), UNCHANGED call,
         \A o \in Owners : (owner[o].open /\ owner[o].running) => owner'[o] = owner[o],
         \A i \in Cid \ ids : consultations[i].owner # Nobody =>
           (owner[consultations[i].owner].open => owner'[consultations[i].owner].open)
  PROVE  consultations' \in [Cid -> Row] /\ Fits'
  <1>1. consultations' \in [Cid -> Row]
    BY AbsentType DEF Erased, Inv, TypeOK, StoreTypeOK
  <1>2. ASSUME NEW j \in Cid
        PROVE  RowFits(consultations[j])'
    <2>1. CASE j \in ids
      <3>1. consultations'[j] = Absent
        BY <2>1 DEF Erased
      <3> QED BY <3>1, NoTurns DEF RowFits, Numbered, Absent
    <2>2. CASE j \notin ids
      <3>1. consultations'[j] = consultations[j] /\ RowFits(consultations[j])
        BY <2>2 DEF Erased, Inv, Fits
      <3> QED BY <2>2, <3>1 DEF RowFits, Numbered
    <2> QED BY <2>1, <2>2
  <1>3. ASSUME NEW d \in Callers
        PROVE  CallFits(call[d])'
    <2>1. call'[d] = call[d] /\ CallFits(call[d]) /\ call[d] \in Call
      BY DEF Inv, TypeOK, Fits
    <2>2. call[d].for # Nobody => owner'[call[d].for] = owner[call[d].for]
      BY <2>1, CallFields DEF CallFits
    <2>3. call[d].cid \in Cid => \/ ~consultations'[call[d].cid].open
                                 \/ consultations'[call[d].cid] = consultations[call[d].cid]
      BY DEF Erased, Absent
    <2> QED BY <2>1, <2>2, <2>3, CallFields DEF CallFits, Open, Counted
  <1> QED BY <1>1, <1>2, <1>3 DEF Fits

-----------------------------------------------------------------------------
(* The steps of a call that leave the rows as they are. *)

LEMMA InvInit == Init => Inv
  <1> SUFFICES ASSUME Init PROVE Inv
    OBVIOUS
  <1>1. StoreTypeOK
    BY AbsentType DEF Init, InitStore, StoreTypeOK, NoLease, OwnerRow, SweepKind
  <1>2. TypeOK
    <2>1. Idle \in Call
      BY IdleType
    <2> QED BY <1>1, <2>1, BoundAssumption, SessionsAssumption DEF Init, TypeOK
  <1>3. \A i \in Cid : RowFits(consultations[i])
    BY AbsentFits DEF Init, InitStore
  <1>4. \A c \in Callers : CallFits(call[c])
    BY IdleFits DEF Init
  <1> QED BY <1>2, <1>3, <1>4 DEF Inv, Fits

LEMMA Returning ==
  ASSUME Inv, NEW c \in Callers, Return(c), UNCHANGED <<consultations, owner>>
  PROVE  call' \in [Callers -> Call] /\ Fits'
  BY CallStep, IdleType, IdleFits DEF Return

\* A call goes on to a place where it need not remember more.
LEMMA Going1 ==
  ASSUME Inv, NEW c \in Callers, NEW pc \in PC, Goto(c, pc),
         call[c].pc \notin {"idle", "binding"}, pc \notin {"idle", "binding"},
         \/ pc = "leaving"
         \/ /\ pc \notin Counted \/ call[c].pc \in Counted
            /\ pc \notin {"answered", "attached"}
            /\ call[c].pc \notin {"answered", "attached", "leaving"},
         UNCHANGED <<consultations, owner>>
  PROVE  call' \in [Callers -> Call] /\ Fits'
  <1> DEFINE k == [call[c] EXCEPT !.pc = pc]
  <1>1. call[c] \in Call /\ CallFits(call[c])
    BY DEF Inv, TypeOK, Fits
  <1>2. k \in Call /\ call' = [call EXCEPT ![c] = k]
    BY <1>1, CallUpdates DEF Goto
  <1>3. /\ k.pc = pc /\ k.cid = call[c].cid /\ k.for = call[c].for
        /\ k.session = call[c].session /\ k.sequence = call[c].sequence
    BY <1>1 DEF Call
  <1>4. CallFits(k)
    <2> HIDE DEF k
    <2> QED BY <1>1, <1>3 DEF CallFits, Counted
  <1> QED
    <2> HIDE DEF k
    <2> QED BY <1>2, <1>4, CallStep

LEMMA StepBindResume ==
  ASSUME Inv, NEW c \in Callers, NEW i \in Cid, BindResume(c, i)
  PROVE  Inv'
  <1> DEFINE k == [Idle EXCEPT !.pc = "bound", !.for = Nobody, !.cid = i,
                               !.resuming = consultations[i].session]
  <1>1. k \in Call
    BY IdleType, RowFields DEF Inv, TypeOK, StoreTypeOK, PC
  <1>2. CallFits(k)
    BY DEF CallFits, Idle, Counted
  <1>3. call' = [call EXCEPT ![c] = k] /\ UNCHANGED <<store, sessions, crashes>>
    BY DEF BindResume, Bound
  <1>4. call' \in [Callers -> Call] /\ Fits'
    <2> HIDE DEF k
    <2> QED BY <1>1, <1>2, <1>3, CallStep DEF store
  <1> QED BY <1>3, <1>4 DEF Inv, TypeOK, StoreTypeOK, store

LEMMA StepBindOwned ==
  ASSUME Inv, NEW c \in Callers, NEW o \in Owners, BindOwned(c, o)
  PROVE  Inv'
  <1>1. UNCHANGED <<store, sessions, crashes>> /\ owner[o].open /\ owner[o].running
    BY DEF BindOwned
  <1>2. call' \in [Callers -> Call] /\ Fits'
    <2>1. ASSUME NEW i \in OwnedBy(o), Bound(c, i, o, consultations[i].session)
          PROVE  call' \in [Callers -> Call] /\ Fits'
      <3> DEFINE k == [Idle EXCEPT !.pc = "bound", !.for = o, !.cid = i,
                                   !.resuming = consultations[i].session]
      <3>1. i \in Cid
        BY DEF OwnedBy
      <3>2. k \in Call
        BY <3>1, IdleType, RowFields DEF Inv, TypeOK, StoreTypeOK, PC
      <3>3. CallFits(k)
        BY <1>1, <3>1 DEF CallFits, Idle, Counted
      <3>4. call' = [call EXCEPT ![c] = k]
        BY <2>1 DEF Bound
      <3> HIDE DEF k
      <3> QED BY <1>1, <3>2, <3>3, <3>4, CallStep DEF store
    <2>2. ASSUME call' = [call EXCEPT ![c] = [Idle EXCEPT !.pc = "binding", !.for = o]]
          PROVE  call' \in [Callers -> Call] /\ Fits'
      <3> DEFINE k == [Idle EXCEPT !.pc = "binding", !.for = o]
      <3>1. k \in Call
        BY IdleType DEF PC
      <3>2. CallFits(k)
        BY <1>1 DEF CallFits, Idle, Counted
      <3> HIDE DEF k
      <3> QED BY <1>1, <2>2, <3>1, <3>2, CallStep DEF store, k
    <2> QED BY <2>1, <2>2 DEF BindOwned
  <1> QED BY <1>1, <1>2 DEF Inv, TypeOK, StoreTypeOK, store

LEMMA StepMoves ==
  ASSUME Inv, NEW c \in Callers,
         \/ Refused(c) \/ Admit(c) \/ Preflight(c) \/ AskFails(c)
         \/ Cancelled(c) \/ Drop(c)
  PROVE  Inv'
  <1>1. UNCHANGED <<store, sessions, crashes>>
    BY DEF Refused, Admit, Preflight, AskFails, Cancelled, Drop
  <1>2. UNCHANGED <<consultations, owner>>
    BY <1>1 DEF store
  <1>3. call' \in [Callers -> Call] /\ Fits'
    <2>1. CASE Refused(c) \/ Drop(c)
      BY <2>1, <1>2, Returning DEF Refused, Drop
    <2>2. CASE Admit(c)
      <3>1. PICK pc \in {"leaving", "admitted"} : Goto(c, pc)
        BY <2>2 DEF Admit
      <3> QED BY <2>2, <3>1, <1>2, Going1 DEF Admit, PC, Counted
    <2>3. CASE Preflight(c)
      <3>1. PICK pc \in {"asking", "failing"} : Goto(c, pc)
        BY <2>3 DEF Preflight
      <3> QED BY <2>3, <3>1, <1>2, Going1 DEF Preflight, PC, Counted
    <2>4. CASE AskFails(c)
      BY <2>4, <1>2, Going1 DEF AskFails, PC, Counted
    <2>5. CASE Cancelled(c)
      BY <2>5, <1>2, Going1 DEF Cancelled, PC, Leasing
    <2> QED BY <2>1, <2>2, <2>3, <2>4, <2>5
  <1> QED BY <1>1, <1>3 DEF Inv, TypeOK, StoreTypeOK, store

LEMMA StepCrash ==
  ASSUME Inv, NEW c \in Callers, Crash(c)
  PROVE  Inv'
  <1>1. call' \in [Callers -> Call] /\ Fits'
    BY Returning DEF Crash, store
  <1>2. crashes' \in 0 .. MaxCrashes
    BY BoundAssumption DEF Crash, Inv, TypeOK
  <1> QED BY <1>1, <1>2 DEF Crash, Inv, TypeOK, StoreTypeOK, store

LEMMA StepNumber ==
  ASSUME Inv, NEW c \in Callers, Number(c)
  PROVE  Inv'
  <1> DEFINE i == call[c].cid
             n == NextSequence(i)
             k == [call[c] EXCEPT !.pc = "numbered", !.sequence = n]
  <1>1. call[c] \in Call /\ CallFits(call[c]) /\ call[c].pc = "admitted"
    BY DEF Inv, TypeOK, Fits, Number
  <1>2. i \in Cid /\ Numbered(consultations[i].turns)
    BY <1>1 DEF CallFits, Inv, Fits, RowFits
  <1>3. n = Cardinality(consultations[i].turns) + 1
    BY <1>2, NextIsCount
  <1>4. n \in Nat /\ n \in 1 .. Cardinality(consultations[i].turns) + 1
    <2> HIDE DEF n, i
    <2> QED BY <1>2, <1>3 DEF Numbered
  <1>5. k \in Call
    <2> HIDE DEF n
    <2> QED BY <1>1, <1>4, CallUpdates DEF PC
  <1>6. /\ k.pc = "numbered" /\ k.cid = i /\ k.for = call[c].for
        /\ k.session = call[c].session /\ k.sequence = n
    BY <1>1 DEF Call
  <1>7. CallFits(k)
    <2> HIDE DEF k, n
    <2> QED BY <1>1, <1>4, <1>6 DEF CallFits
  <1>8. call' \in [Callers -> Call] /\ Fits'
    <2>1. call' = [call EXCEPT ![c] = k] /\ UNCHANGED <<consultations, owner>>
      BY DEF Number, store
    <2> HIDE DEF k
    <2> QED BY <1>5, <1>7, <2>1, CallStep
  <1> QED BY <1>8 DEF Number, Inv, TypeOK, StoreTypeOK, store

LEMMA StepAnswer ==
  ASSUME Inv, NEW c \in Callers, Answer(c)
  PROVE  Inv'
  <1>1. call[c] \in Call /\ CallFits(call[c]) /\ call[c].pc = "asking"
    BY DEF Inv, TypeOK, Fits, Answer
  <1>2. PICK p \in Prices, s \in Session :
          /\ \/ s = call[c].resuming /\ UNCHANGED sessions
             \/ s = sessions + 1 /\ sessions' = s
          /\ call' = [call EXCEPT ![c].pc = "answered", ![c].cost = p, ![c].session = s]
    BY DEF Answer
  <1> DEFINE k == [call[c] EXCEPT !.pc = "answered", !.cost = p, !.session = s]
  <1>3. k \in Call
    BY <1>1, CallUpdates, CeilingAssumption DEF PC
  <1>4. /\ k.pc = "answered" /\ k.cid = call[c].cid /\ k.for = call[c].for
        /\ k.session = s /\ k.sequence = call[c].sequence
    BY <1>1 DEF Call
  <1>5. CallFits(k)
    <2> HIDE DEF k
    <2> QED BY <1>1, <1>4 DEF CallFits, Counted
  <1>6. call' \in [Callers -> Call] /\ Fits'
    <2>1. call' = [call EXCEPT ![c] = k] /\ UNCHANGED <<consultations, owner>>
      BY <1>2 DEF Answer, store
    <2> HIDE DEF k
    <2> QED BY <1>3, <1>5, <2>1, CallStep
  <1>7. sessions' \in 0 .. MaxSessions
    BY <1>2, SessionsAssumption DEF Inv, TypeOK, Session
  <1> QED BY <1>6, <1>7 DEF Answer, Inv, TypeOK, StoreTypeOK, store

-----------------------------------------------------------------------------
(* The steps that change a row. *)

\* What the two creations of a row have in common.
LEMMA Creating ==
  ASSUME Inv, NEW c \in Callers, NEW i \in Cid, NEW o \in Owners \cup {Nobody},
         On(i) = {}, Create(i, o), Bound(c, i, o, NoSession), UNCHANGED owner,
         o # Nobody => owner[o].open /\ owner[o].running
  PROVE  consultations' \in [Cid -> Row] /\ call' \in [Callers -> Call] /\ Fits'
  <1> DEFINE row == [Absent EXCEPT !.open = TRUE, !.owner = o]
             k == [Idle EXCEPT !.pc = "bound", !.for = o, !.cid = i, !.resuming = NoSession]
  <1>1. row \in Row
    BY AbsentType
  <1>2. RowFits(row)
    BY NoTurns DEF RowFits, Absent
  <1>3. k \in Call
    <2>1. "bound" \in PC /\ NoSession \in Session \cup {NoSession}
      BY DEF PC
    <2> QED BY <2>1, IdleType
  <1>4. call' = [call EXCEPT ![c] = k] /\ consultations' = [consultations EXCEPT ![i] = row]
    BY DEF Create, Bound
  <1>5. CallFits(k)
    BY DEF CallFits, Idle, Counted
  <1>6. CallFits(call[c])'
    <2>1. call'[c] = k /\ k.pc = "bound" /\ k.for = o /\ k.cid = i /\ k.session = NoSession
      BY <1>4 DEF Inv, TypeOK, Idle
    <2> HIDE DEF k
    <2> QED BY <2>1 DEF CallFits, Counted
  <1> HIDE DEF row, k
  <1> QED BY <1>1, <1>2, <1>3, <1>4, <1>6, RowStep

LEMMA StepCreates ==
  ASSUME Inv, NEW c \in Callers, BindNew(c) \/ CreateOwned(c)
  PROVE  Inv'
  <1>1. UNCHANGED <<leases, owner, confirmation, sweep, sessions, crashes>>
    BY DEF BindNew, CreateOwned
  <1>2. consultations' \in [Cid -> Row] /\ call' \in [Callers -> Call] /\ Fits'
    <2>1. CASE BindNew(c)
      <3>1. PICK i \in Cid : On(i) = {} /\ Create(i, Nobody) /\ Bound(c, i, Nobody, NoSession)
        BY <2>1 DEF BindNew
      <3> QED BY <3>1, <1>1, Creating
    <2>2. CASE CreateOwned(c)
      <3> DEFINE o == call[c].for
      <3>1. o \in Owners /\ owner[o].open /\ owner[o].running
        BY <2>2, OwnersAssumption DEF CreateOwned, Inv, Fits, CallFits
      <3>2. CASE Return(c) /\ UNCHANGED consultations
        BY <1>1, <3>2, Returning DEF Inv, TypeOK, StoreTypeOK
      <3>3. CASE \E i \in Cid : On(i) = {} /\ Create(i, o) /\ Bound(c, i, o, NoSession)
        <4>1. PICK i \in Cid : On(i) = {} /\ Create(i, o) /\ Bound(c, i, o, NoSession)
          BY <3>3
        <4> HIDE DEF o
        <4> QED BY <4>1, <3>1, <1>1, Creating
      <3> QED BY <2>2, <3>2, <3>3 DEF CreateOwned
    <2> QED BY <2>1, <2>2
  <1> QED BY <1>1, <1>2 DEF Inv, TypeOK, StoreTypeOK

LEMMA StepAttach ==
  ASSUME Inv, NEW c \in Callers, Attach(c)
  PROVE  Inv'
  <1> DEFINE i == call[c].cid
  <1>1. UNCHANGED <<leases, owner, confirmation, sweep, sessions, crashes>>
    BY DEF Attach
  <1>2. call[c] \in Call /\ CallFits(call[c]) /\ call[c].pc = "answered"
    BY DEF Inv, TypeOK, Fits, Attach
  <1>3. i \in Cid /\ consultations[i] \in Row /\ RowFits(consultations[i])
    BY <1>2 DEF CallFits, Inv, Fits, TypeOK, StoreTypeOK
  <1>4. consultations' \in [Cid -> Row] /\ call' \in [Callers -> Call] /\ Fits'
    <2>1. CASE UNCHANGED consultations /\ Goto(c, "leaving")
      BY <1>1, <1>2, <2>1, Going1 DEF PC, Inv, TypeOK, StoreTypeOK
    <2>2. CASE /\ Bindable(i, call[c].session)
               /\ Bind(i, call[c].session) /\ Goto(c, "attached")
      <3> DEFINE row == [consultations[i] EXCEPT !.session = call[c].session, !.stale = FALSE]
                 k == [call[c] EXCEPT !.pc = "attached"]
      <3>1. consultations' = [consultations EXCEPT ![i] = row] /\ call' = [call EXCEPT ![c] = k]
        BY <2>2 DEF Bind, Goto
      <3>2. row \in Row /\ k \in Call
        BY <1>2, <1>3, RowUpdates, CallUpdates, CallFields DEF PC
      <3>3. /\ row.open = consultations[i].open /\ row.turns = consultations[i].turns
            /\ row.owner = consultations[i].owner /\ row.session = call[c].session
            /\ k.pc = "attached" /\ k.cid = i /\ k.for = call[c].for
            /\ k.session = call[c].session /\ k.sequence = call[c].sequence
        BY <1>2, <1>3 DEF Row, Call
      <3>4. /\ consultations[i].open /\ call[c].session \in Session
            /\ consultations[i].session \in {NoSession, call[c].session}
        BY <2>2, <1>2 DEF Bindable, Open, CallFits
      <3> HIDE DEF row, k, i
      <3>5. RowFits(row)
        BY <1>3, <3>3, <3>4 DEF RowFits
      <3>6. Follows(row, consultations[i])
        BY <1>3, <3>3, <3>4 DEF RowFits, Numbered, Follows
      <3>7. CallFits(call[c])'
        <4>1. call'[c] = k /\ consultations'[i] = row
          BY <3>1, <1>3 DEF Inv, TypeOK, StoreTypeOK
        <4>2. i = call[c].cid
          BY DEF i
        <4> QED BY <1>1, <1>2, <1>3, <3>3, <3>4, <4>1, <4>2 DEF CallFits, Open, Counted
      <3> QED BY <1>1, <1>3, <3>1, <3>2, <3>5, <3>6, <3>7, RowStep
    <2> QED BY <2>1, <2>2 DEF Attach
  <1> QED BY <1>1, <1>4 DEF Inv, TypeOK, StoreTypeOK

LEMMA StepRecordTurn ==
  ASSUME Inv, NEW c \in Callers, RecordTurn(c)
  PROVE  Inv'
  <1> DEFINE i == call[c].cid
             t == [sequence |-> call[c].sequence, session |-> call[c].session,
                   cost |-> call[c].cost]
  <1>1. UNCHANGED <<leases, owner, confirmation, sweep, sessions, crashes>>
    BY DEF RecordTurn
  <1>2. call[c] \in Call /\ CallFits(call[c]) /\ call[c].pc \in {"attached", "failing"}
    BY DEF Inv, TypeOK, Fits, RecordTurn
  <1>3. i \in Cid /\ consultations[i] \in Row /\ RowFits(consultations[i])
    BY <1>2 DEF CallFits, Inv, Fits, TypeOK, StoreTypeOK
  <1>4. consultations' \in [Cid -> Row] /\ call' \in [Callers -> Call] /\ Fits'
    <2>1. CASE UNCHANGED consultations
      BY <1>1, <1>2, <2>1, Going1 DEF RecordTurn, PC, Inv, TypeOK, StoreTypeOK
    <2>2. CASE Recordable(i, call[c].sequence)
      <3> DEFINE row == [consultations[i] EXCEPT !.turns = @ \cup {t}, !.stale = FALSE]
                 k == [call[c] EXCEPT !.pc = "leaving"]
      <3>1. consultations' = [consultations EXCEPT ![i] = row] /\ call' = [call EXCEPT ![c] = k]
        BY <2>2 DEF RecordTurn, Record, Goto
      <3>2. t \in Turn
        BY <1>2, CallFields DEF Turn
      <3>3. row \in Row /\ k \in Call
        <4>1. consultations[i].turns \cup {t} \in SUBSET Turn
          BY <1>3, <3>2, RowFields
        <4> HIDE DEF t
        <4> QED BY <4>1, <1>2, <1>3, RowUpdates, CallUpdates DEF PC
      <3>4. /\ row.open = consultations[i].open /\ row.turns = consultations[i].turns \cup {t}
            /\ row.owner = consultations[i].owner /\ row.session = consultations[i].session
            /\ k.pc = "leaving" /\ k.cid = i /\ k.for = call[c].for
        BY <1>2, <1>3 DEF Row, Call
      <3>5. /\ consultations[i].open
            /\ \A u \in consultations[i].turns : u.sequence # t.sequence
            /\ t.sequence \in 1 .. Cardinality(consultations[i].turns) + 1
            /\ t.session \in {NoSession, consultations[i].session}
        <4>1. \/ call[c].session = NoSession
              \/ consultations[i].open => call[c].session = consultations[i].session
          BY <1>2 DEF CallFits, Open
        <4>2. consultations[i].open /\ Open(i)
          BY <2>2 DEF Recordable, Open
        <4>3. \A u \in consultations[i].turns : u.sequence # call[c].sequence
          BY <2>2 DEF Recordable
        <4>4. call[c].sequence \in 1 .. Cardinality(consultations[i].turns) + 1
          BY <1>2, <4>2 DEF CallFits, Counted
        <4>5. t.sequence = call[c].sequence /\ t.session = call[c].session
          OBVIOUS
        <4> HIDE DEF t, i
        <4> QED BY <4>1, <4>2, <4>3, <4>4, <4>5
      <3> HIDE DEF row, k, i, t
      <3>6. /\ Numbered(row.turns)
            /\ Cardinality(row.turns) = Cardinality(consultations[i].turns) + 1
            /\ Cardinality(consultations[i].turns) \in Nat
        <4>1. Numbered(consultations[i].turns)
          BY <1>3 DEF RowFits
        <4>2. Cardinality(consultations[i].turns) \in Nat
          BY <4>1 DEF Numbered
        <4>3. /\ Numbered(consultations[i].turns \cup {t})
              /\ Cardinality(consultations[i].turns \cup {t})
                   = Cardinality(consultations[i].turns) + 1
          BY <3>5, <4>1, RecordNumbers
        <4> QED BY <3>4, <4>2, <4>3
      <3>7. RowFits(row)
        BY <1>3, <3>4, <3>5, <3>6 DEF RowFits
      <3>8. Follows(row, consultations[i])
        BY <3>4, <3>6 DEF Follows
      <3>9. CallFits(call[c])'
        <4>1. call'[c] = k
          BY <3>1 DEF Inv, TypeOK
        <4>2. i = call[c].cid
          BY DEF i
        <4> QED BY <1>1, <1>2, <1>3, <3>4, <4>1, <4>2 DEF CallFits, Counted
      <3> QED BY <1>1, <1>3, <3>1, <3>3, <3>7, <3>8, <3>9, RowStep
    <2>3. Recordable(i, call[c].sequence) \/ UNCHANGED consultations
      BY DEF RecordTurn
    <2> QED BY <2>1, <2>2, <2>3
  <1> QED BY <1>1, <1>4 DEF Inv, TypeOK, StoreTypeOK

-----------------------------------------------------------------------------
(* The steps of leases and of time, of owners and of deletes. *)

LEMMA TakeLeaseType ==
  ASSUME Inv, NEW c \in Callers, NEW i, TakeLease(c, i) \/ DropLease(c, i)
  PROVE  leases' \in [Cid -> [holder : Callers \cup {NoCaller}, expired : BOOLEAN]]
  <1> DEFINE L == [holder : Callers \cup {NoCaller}, expired : BOOLEAN]
  <1>1. NoLease \in L /\ [holder |-> c, expired |-> FALSE] \in L
    BY DEF NoLease
  <1>2. leases \in [Cid -> L]
    BY DEF Inv, TypeOK, StoreTypeOK
  <1> HIDE DEF L
  <1>3. CASE TakeLease(c, i)
    <2>1. \A j \in Cid : (IF j = i THEN [holder |-> c, expired |-> FALSE]
                         ELSE IF LiveLease(j) THEN leases[j] ELSE NoLease) \in L
      BY <1>1, <1>2
    <2> QED BY <1>3, <2>1 DEF TakeLease, L
  <1>4. CASE DropLease(c, i)
    <2>1. [leases EXCEPT ![i] = NoLease] \in [Cid -> L]
      BY <1>1, <1>2
    <2> QED BY <1>2, <1>4, <2>1 DEF DropLease, L
  <1> QED BY <1>3, <1>4 DEF L

LEMMA StepLeases ==
  ASSUME Inv, NEW c \in Callers,
         Lease(c) \/ Release(c) \/ Renew(c) \/ (\E i \in Cid : Expire(i))
  PROVE  Inv'
  <1>1. UNCHANGED <<consultations, owner, confirmation, sweep, sessions, crashes>>
    BY DEF Lease, Release, Renew, Expire
  <1>2. leases' \in [Cid -> [holder : Callers \cup {NoCaller}, expired : BOOLEAN]]
    <2>1. CASE Lease(c) \/ Release(c)
      BY <2>1, TakeLeaseType DEF Lease, Release
    <2>2. ASSUME NEW i, NEW x \in BOOLEAN, leases' = [leases EXCEPT ![i].expired = x]
          PROVE  leases' \in [Cid -> [holder : Callers \cup {NoCaller}, expired : BOOLEAN]]
      BY <2>2 DEF Inv, TypeOK, StoreTypeOK
    <2>3. CASE Renew(c)
      BY <2>2, <2>3 DEF Renew
    <2>4. CASE \E i \in Cid : Expire(i)
      BY <2>2, <2>4 DEF Expire
    <2> QED BY <2>1, <2>3, <2>4
  <1>3. call' \in [Callers -> Call] /\ Fits'
    <2>1. CASE Lease(c)
      BY <2>1, <1>1, Going1 DEF Lease, PC, Counted
    <2>2. CASE Release(c)
      BY <2>2, <1>1, Returning DEF Release
    <2>3. CASE Renew(c) \/ (\E i \in Cid : Expire(i))
      <3>1. UNCHANGED <<call, consultations, owner>>
        BY <2>3, <1>1 DEF Renew, Expire
      <3> QED BY <3>1 DEF Inv, TypeOK, Fits, RowFits, Numbered, CallFits, Open
    <2> QED BY <2>1, <2>2, <2>3
  <1> QED BY <1>1, <1>2, <1>3 DEF Inv, TypeOK, StoreTypeOK

\* Only what no row and no call depends on changes about the owners.
LEMMA OwnerStep ==
  ASSUME Inv, UNCHANGED <<consultations, call>>,
         \A o \in Owners : owner'[o].open = owner[o].open,
         \A c \in Callers : call[c].for # Nobody =>
           owner'[call[c].for].running = owner[call[c].for].running
  PROVE  Fits'
  <1>1. ASSUME NEW i \in Cid
        PROVE  RowFits(consultations[i])'
    BY RowFields DEF Inv, TypeOK, StoreTypeOK, Fits, RowFits, Numbered
  <1>2. ASSUME NEW c \in Callers
        PROVE  CallFits(call[c])'
    <2>1. call[c] \in Call /\ CallFits(call[c]) /\ call'[c] = call[c]
      BY DEF Inv, TypeOK, Fits
    <2> QED BY <2>1, CallFields DEF CallFits, Open, Counted
  <1> QED BY <1>1, <1>2 DEF Fits

LEMMA StepAge ==
  ASSUME Inv, Age
  PROVE  Inv'
  <1>1. UNCHANGED <<leases, confirmation, sweep, call, sessions, crashes>>
    BY DEF Age
  <1>2. CASE \E i \in Cid : /\ Open(i) /\ On(i) = {}
                            /\ consultations' = [consultations EXCEPT ![i].stale = TRUE]
                            /\ UNCHANGED owner
    <2>1. PICK i \in Cid : /\ consultations' = [consultations EXCEPT ![i].stale = TRUE]
                           /\ consultations[i].open /\ UNCHANGED owner
      BY <1>2 DEF Open
    <2> DEFINE row == [consultations[i] EXCEPT !.stale = TRUE]
    <2>2. consultations[i] \in Row /\ RowFits(consultations[i])
      BY DEF Inv, Fits, TypeOK, StoreTypeOK
    <2>3. row \in Row /\ consultations' = [consultations EXCEPT ![i] = row]
      BY <2>1, <2>2, RowUpdates
    <2>4. /\ row.open = consultations[i].open /\ row.turns = consultations[i].turns
          /\ row.owner = consultations[i].owner /\ row.session = consultations[i].session
      BY <2>2 DEF Row
    <2> HIDE DEF row
    <2>5. consultations' \in [Cid -> Row]
      BY <2>3 DEF Inv, TypeOK, StoreTypeOK
    <2>6. ASSUME NEW j \in Cid
          PROVE  RowFits(consultations[j])'
      <3>1. RowFits(consultations'[j])
        BY <2>1, <2>2, <2>3, <2>4 DEF Inv, Fits, TypeOK, StoreTypeOK, RowFits
      <3> QED BY <2>1, <3>1 DEF RowFits, Numbered
    <2>7. ASSUME NEW d \in Callers
          PROVE  CallFits(call[d])'
      <3>1. call[d] \in Call /\ CallFits(call[d]) /\ call'[d] = call[d]
        BY <1>1 DEF Inv, TypeOK, Fits
      <3>2. \A j \in Cid : /\ consultations'[j].open = consultations[j].open
                           /\ consultations'[j].turns = consultations[j].turns
                           /\ consultations'[j].session = consultations[j].session
        BY <2>3, <2>4 DEF Inv, TypeOK, StoreTypeOK
      <3> QED BY <2>1, <3>1, <3>2, CallFields DEF CallFits, Open, Counted
    <2>8. Fits'
      BY <2>6, <2>7 DEF Fits
    <2> QED BY <1>1, <2>1, <2>5, <2>8 DEF Inv, TypeOK, StoreTypeOK
  <1>3. CASE \E o \in Owners : /\ owner' = [owner EXCEPT ![o].stale = TRUE]
                               /\ UNCHANGED consultations
    <2>1. owner' \in [Owners -> OwnerRow]
      <3>1. \A p \in Owners : [owner[p] EXCEPT !.stale = TRUE] \in OwnerRow
        BY DEF Inv, TypeOK, StoreTypeOK, OwnerRow
      <3> QED BY <1>3, <3>1 DEF Inv, TypeOK, StoreTypeOK
    <2>2. \A p \in Owners : owner'[p].open = owner[p].open /\ owner'[p].running = owner[p].running
      BY <1>3 DEF Inv, TypeOK, StoreTypeOK, OwnerRow
    <2>3. \A c \in Callers : call[c].for # Nobody =>
            owner'[call[c].for].running = owner[call[c].for].running
      BY <2>2, CallFields DEF Inv, TypeOK
    <2>4. Fits'
      BY <1>1, <1>3, <2>2, <2>3, OwnerStep
    <2> QED BY <1>1, <1>3, <2>1, <2>4 DEF Inv, TypeOK, StoreTypeOK
  <1> QED BY <1>2, <1>3 DEF Age

LEMMA StepOwns ==
  ASSUME Inv, NEW o \in Owners, Owns(o)
  PROVE  Inv'
  <1>1. owner' \in [Owners -> OwnerRow]
    BY DEF Owns, Inv, TypeOK, StoreTypeOK, OwnerRow
  <1>2. \A p \in Owners : owner'[p].open = owner[p].open
    BY DEF Owns, Inv, TypeOK, StoreTypeOK, OwnerRow
  <1>3. \A c \in Callers : call[c].for # Nobody => call[c].for \in Owners \ {o}
    BY CallFields DEF Owns, Inv, TypeOK
  <1>4. \A c \in Callers : call[c].for # Nobody =>
          owner'[call[c].for].running = owner[call[c].for].running
    BY <1>3 DEF Owns, Inv, TypeOK, StoreTypeOK
  <1>5. Fits'
    BY <1>2, <1>4, OwnerStep DEF Owns
  <1> QED BY <1>1, <1>5 DEF Owns, Inv, TypeOK, StoreTypeOK

LEMMA Deleted ==
  ASSUME Inv, NEW ids, Delete(ids), UNCHANGED <<owner, call>>
  PROVE  /\ consultations' \in [Cid -> Row] /\ Fits'
         /\ leases' \in [Cid -> [holder : Callers \cup {NoCaller}, expired : BOOLEAN]]
  <1>1. consultations' \in [Cid -> Row] /\ Fits'
    BY EraseStep DEF Delete
  <1>2. leases' \in [Cid -> [holder : Callers \cup {NoCaller}, expired : BOOLEAN]]
    BY DEF Delete, Swept, NoLease, Inv, TypeOK, StoreTypeOK
  <1> QED BY <1>1, <1>2

LEMMA OwnerErased ==
  ASSUME Inv, NEW o \in Owners, Erase(o), UNCHANGED call
  PROVE  /\ consultations' \in [Cid -> Row] /\ Fits'
         /\ leases' \in [Cid -> [holder : Callers \cup {NoCaller}, expired : BOOLEAN]]
         /\ owner' \in [Owners -> OwnerRow]
  <1>1. \A p \in Owners : (owner[p].open /\ owner[p].running) => owner'[p] = owner[p]
    BY DEF Erase, Erasable, Inv, TypeOK, StoreTypeOK
  <1>2. ASSUME NEW i \in Cid \ OwnedBy(o), consultations[i].owner # Nobody,
               owner[consultations[i].owner].open
        PROVE  owner'[consultations[i].owner].open
    <2>1. Open(i)
      BY <1>2 DEF Inv, Fits, RowFits, Absent, Open
    <2>2. consultations[i].owner \in Owners \ {o}
      BY <1>2, <2>1, RowFields DEF OwnedBy, Inv, TypeOK, StoreTypeOK
    <2> QED BY <1>2, <2>2 DEF Erase, Inv, TypeOK, StoreTypeOK
  <1>3. consultations' \in [Cid -> Row] /\ Fits'
    BY <1>1, <1>2, EraseStep DEF Erase
  <1>4. leases' \in [Cid -> [holder : Callers \cup {NoCaller}, expired : BOOLEAN]]
    BY DEF Erase, Swept, NoLease, Inv, TypeOK, StoreTypeOK
  <1>5. owner' \in [Owners -> OwnerRow]
    BY DEF Erase, OwnerRow, Inv, TypeOK, StoreTypeOK
  <1> QED BY <1>3, <1>4, <1>5

\* Nothing but the confirmation and the sweep changes.
LEMMA Untouched ==
  ASSUME Inv, UNCHANGED <<consultations, owner, call>>
  PROVE  Fits'
  BY DEF Inv, Fits, RowFits, Numbered, CallFits, Open

LEMMA StepDeletes ==
  ASSUME Inv, Deleting
  PROVE  Inv'
  <1>1. UNCHANGED <<call, sessions, crashes>>
    BY DEF Deleting
  <1>2. CASE \E i \in Cid : DeleteConsultation(i)
    BY <1>1, <1>2, Deleted DEF DeleteConsultation, Inv, TypeOK, StoreTypeOK
  <1>3. CASE DeleteAll
    <2>1. confirmation' \subseteq Cid
      BY <1>3 DEF DeleteAll
    <2> QED BY <1>1, <1>3, <2>1, Deleted DEF DeleteAll, Inv, TypeOK, StoreTypeOK
  <1>4. CASE RequestDeleteAll \/ ExpireConfirmation
    <2>1. confirmation' \subseteq Cid
      BY <1>4 DEF RequestDeleteAll, ExpireConfirmation
    <2> QED BY <1>1, <1>4, <2>1, Untouched
            DEF RequestDeleteAll, ExpireConfirmation, Inv, TypeOK, StoreTypeOK
  <1>5. CASE \E o \in Owners : DeleteOwner(o)
    BY <1>1, <1>5, OwnerErased DEF DeleteOwner, Inv, TypeOK, StoreTypeOK
  <1> QED BY <1>2, <1>3, <1>4, <1>5 DEF Deleting

LEMMA ListedType ==
  ASSUME Inv
  PROVE  [kind |-> After(sweep.kind), todo |-> Listed(After(sweep.kind))]
           \in [kind : SweepKind, todo : SUBSET (Cid \cup Owners)]
  <1>1. sweep.kind \in SweepKind
    BY DEF Inv, TypeOK, StoreTypeOK
  <1>2. After(sweep.kind) \in SweepKind
    BY <1>1 DEF After, SweepKind
  <1>3. \A kind \in SweepKind : Listed(kind) \subseteq Cid \cup Owners
    BY DEF Listed, SweepKind, Owners
  <1> QED BY <1>2, <1>3

LEMMA StepSweeping ==
  ASSUME Inv, Sweeping
  PROVE  Inv'
  <1>1. UNCHANGED <<call, sessions, crashes>>
    BY DEF Sweeping
  <1>2. CASE SweepList
    <2>1. sweep' \in [kind : SweepKind, todo : SUBSET (Cid \cup Owners)]
      BY <1>2, ListedType DEF SweepList
    <2> QED BY <1>1, <1>2, <2>1, Untouched DEF SweepList, Inv, TypeOK, StoreTypeOK
  <1>3. ASSUME NEW x \in Cid \cup Owners, SweepOne(x)
        PROVE  Inv'
    <2>1. sweep' \in [kind : SweepKind, todo : SUBSET (Cid \cup Owners)]
          /\ UNCHANGED confirmation
      BY <1>3 DEF SweepOne, Inv, TypeOK, StoreTypeOK
    <2>2. CASE UNCHANGED <<consultations, leases, owner>>
      BY <1>1, <2>1, <2>2, Untouched DEF Inv, TypeOK, StoreTypeOK
    <2>3. CASE Delete({x}) /\ UNCHANGED owner
      BY <1>1, <2>1, <2>3, Deleted DEF Inv, TypeOK, StoreTypeOK
    <2>4. CASE x \in Owners /\ Erase(x)
      BY <1>1, <2>1, <2>4, OwnerErased DEF Inv, TypeOK, StoreTypeOK
    <2> QED BY <1>3, <2>2, <2>3, <2>4 DEF SweepOne
  <1> QED BY <1>2, <1>3 DEF Sweeping

-----------------------------------------------------------------------------
(* The invariant, and the properties it holds. *)

LEMMA InvStep == Inv /\ [Next]_vars => Inv'
  <1> SUFFICES ASSUME Inv, [Next]_vars PROVE Inv'
    OBVIOUS
  <1>1. ASSUME NEW c \in Callers, Binding(c)
        PROVE  Inv'
    BY <1>1, StepCreates, StepBindResume, StepBindOwned DEF Binding
  <1>2. ASSUME NEW c \in Callers, Going(c)
        PROVE  Inv'
    BY <1>2, StepCreates, StepLeases, StepMoves, StepNumber, StepAnswer, StepAttach,
       StepRecordTurn DEF Going
  <1>3. ASSUME NEW c \in Callers, Cancelled(c) \/ Drop(c) \/ Crash(c) \/ Renew(c)
        PROVE  Inv'
    BY <1>3, StepMoves, StepCrash, StepLeases
  <1>4. ASSUME NEW i \in Cid, Expire(i)
        PROVE  Inv'
    <2>1. CASE Callers = {}
      <3>1. UNCHANGED <<consultations, owner, confirmation, sweep, call, sessions, crashes>>
        BY <1>4 DEF Expire
      <3>2. leases' \in [Cid -> [holder : Callers \cup {NoCaller}, expired : BOOLEAN]]
        BY <1>4 DEF Expire, Inv, TypeOK, StoreTypeOK
      <3> QED BY <3>1, <3>2, Untouched DEF Inv, TypeOK, StoreTypeOK
    <2>2. CASE Callers # {}
      BY <1>4, <2>2, StepLeases
    <2> QED BY <2>1, <2>2
  <1>5. CASE UNCHANGED vars
    BY <1>5, Untouched DEF vars, store, Inv, TypeOK, StoreTypeOK
  <1> QED BY <1>1, <1>2, <1>3, <1>4, <1>5, StepAge, StepOwns, StepDeletes, StepSweeping
          DEF Next

\* The invariant holds of every behaviour, with any number of calls, suspended or not.
THEOREM InvHolds == Spec => []Inv
  BY InvInit, InvStep, PTL DEF Spec

\* The rows and the calls keep their types.
THEOREM TypeCorrect == Spec => []TypeOK
  <1>1. Inv => TypeOK
    BY DEF Inv
  <1> QED BY <1>1, InvHolds, PTL

\* The turns of a consultation are numbered 1, 2, ..., although record_turn writes a
\* number that next_sequence read in another transaction.
THEOREM NumberedInOrder == Spec => []TurnsInOrder
  <1>1. Inv => TurnsInOrder
    BY DEF Inv, Fits, RowFits, Numbered, TurnsInOrder
  <1> QED BY <1>1, InvHolds, PTL

\* Every recorded answer is of the session its consultation is bound to, although the
\* session to resume is read before the lease is taken.
THEOREM SameSession == Spec => []OneSession
  <1>1. Inv => OneSession
    BY DEF Inv, Fits, RowFits, OneSession
  <1> QED BY <1>1, InvHolds, PTL

\* A deleted consultation keeps nothing, whoever was taking a turn on it.
THEOREM DeletedIsGone == Spec => []NothingOutlivesDelete
  <1>1. Inv => NothingOutlivesDelete
    BY DEF Inv, Fits, RowFits, NothingOutlivesDelete, Open
  <1> QED BY <1>1, InvHolds, PTL

\* No consultation outlives the review or the workflow it belongs to.
THEOREM OwnersStay == Spec => []NoOrphans
  <1>1. Inv => NoOrphans
    BY DEF Inv, Fits, RowFits, NoOrphans
  <1> QED BY <1>1, InvHolds, PTL
===============================================================================
