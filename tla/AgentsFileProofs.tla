-------------------------- MODULE AgentsFileProofs ---------------------------
(***************************************************************************)
(* Proofs about AgentsFile, for any threads, ids and hand edits: a save    *)
(* keeps what it was not asked to change, and leaves the server able to    *)
(* start.                                                                  *)
(*                                                                         *)
(* Both rest on one invariant: a thread past the read holds the lock, and  *)
(* unless a hand has edited a file since its request came in, what it read *)
(* is the file as it is, what it is about to write is that file with its   *)
(* form's change made and looked at, and a form of reviewers still has     *)
(* config.yaml without a review block of its own.                          *)
(***************************************************************************)
EXTENDS AgentsFile, TLAPS

Holding == {"read", "changed"}
Busy == {"reading"} \cup Holding

Typed ==
  /\ config \in Document(Settings) /\ file \in Document(Settings)
  /\ thread \in [Threads -> Thread]

\* The document of the thread t is of the file as it is.
ThreadFits(t) ==
  LET k == thread[t]
  IN  /\ k.pc # "idle" => k.form \in Form
      /\ k.pc \in Busy /\ ~k.touched /\ k.form.kind = "reviewers" => ~ReviewInConfig
      /\ k.pc \in Holding => writing = t /\ k.doc \in Document(Settings)
      /\ k.pc = "read" /\ ~k.touched => k.doc = file
      /\ k.pc = "changed" /\ ~k.touched =>
           /\ ~Refused(k.form, file)
           /\ k.doc = Changed(k.form, file)
           /\ ~Refusing(k.doc)

Inv == Typed /\ \A t \in Threads : ThreadFits(t)

-----------------------------------------------------------------------------
(* What the changes of a document are, and that they are documents. *)

LEMMA DocumentFields ==
  ASSUME NEW doc \in Document(Settings)
  PROVE  /\ doc.ok \in BOOLEAN
         /\ doc.agents \in Agents(Settings)
         /\ doc.review \in Ids \cup {None}
         /\ doc = [ok |-> doc.ok, agents |-> doc.agents, review |-> doc.review]
  BY DEF Document

LEMMA AgentsAre ==
  ASSUME NEW agents
  PROVE  agents \in Agents(Settings) <=>
           /\ agents = [i \in DOMAIN agents |-> agents[i]]
           /\ DOMAIN agents \subseteq Ids
           /\ \A i \in DOMAIN agents : agents[i] \in Settings
  BY DEF Agents

LEMMA WithIs ==
  ASSUME NEW agents \in Agents(Settings), NEW id \in Ids, NEW s \in Settings
  PROVE  /\ With(agents, id, s) \in Agents(Settings)
         /\ DOMAIN With(agents, id, s) = DOMAIN agents \cup {id}
         /\ \A i \in DOMAIN agents : i # id => With(agents, id, s)[i] = agents[i]
         /\ With(agents, id, s)[id] = s
  BY AgentsAre DEF With

LEMMA WithoutIs ==
  ASSUME NEW agents \in Agents(Settings), NEW id \in Ids
  PROVE  /\ Without(agents, id) \in Agents(Settings)
         /\ DOMAIN Without(agents, id) = DOMAIN agents \ {id}
         /\ \A i \in DOMAIN agents : i # id => Without(agents, id)[i] = agents[i]
  BY AgentsAre DEF Without, Restrict

LEMMA ChangedIs ==
  ASSUME NEW form \in Form, NEW doc \in Document(Settings)
  PROVE  /\ Changed(form, doc) \in Document(Settings)
         /\ Changed(form, doc).ok = doc.ok
         /\ form.kind = "delete" =>
              /\ Changed(form, doc).agents = Without(doc.agents, form.id)
              /\ Changed(form, doc).review = doc.review
         /\ form.kind = "reviewers" => Changed(form, doc).agents = doc.agents
         /\ form.kind \in {"new", "edit"} =>
              /\ Changed(form, doc).agents = With(doc.agents, form.id, form.settings)
              /\ Changed(form, doc).review = doc.review
  <1>1. form.kind \in Kinds /\ form.id \in Ids /\ form.settings \in Settings
    BY DEF Form, Settings
  <1>2. /\ Without(doc.agents, form.id) \in Agents(Settings)
        /\ With(doc.agents, form.id, form.settings) \in Agents(Settings)
    BY <1>1, DocumentFields, WithIs, WithoutIs
  <1>3. CASE form.kind = "delete"
    <2>1. Changed(form, doc) = [doc EXCEPT !.agents = Without(doc.agents, form.id)]
      BY <1>3 DEF Changed
    <2> QED BY <1>2, <1>3, <2>1 DEF Document
  <1>4. CASE form.kind = "reviewers"
    <2>1. Changed(form, doc) = [doc EXCEPT !.review = form.id]
      BY <1>4 DEF Changed
    <2> QED BY <1>1, <1>4, <2>1 DEF Document
  <1>5. CASE form.kind \in {"new", "edit"}
    <2>1. Changed(form, doc) = [doc EXCEPT !.agents = With(doc.agents, form.id, form.settings)]
      BY <1>5 DEF Changed
    <2> QED BY <1>2, <1>5, <2>1 DEF Document
  <1> QED BY <1>1, <1>3, <1>4, <1>5 DEF Kinds

LEMMA EditedIs ==
  ASSUME NEW doc \in Document(Settings), NEW settings \in SUBSET Settings,
         NEW new \in Edited(doc, settings)
  PROVE  new \in Document(Settings)
  <1> DEFINE agents == EditedAgents(doc.agents, settings)
  <1>1. \A a \in agents : a \in Agents(Settings)
    <2>1. doc.agents \in Agents(Settings)
      BY DocumentFields
    <2>2. ASSUME NEW id \in Ids, NEW s \in settings PROVE With(doc.agents, id, s) \in Agents(Settings)
      <3>1. s \in Settings
        OBVIOUS
      <3> QED BY <2>1, <3>1, WithIs
    <2>3. \A id \in Ids : Without(doc.agents, id) \in Agents(Settings)
      BY <2>1, WithoutIs
    <2> QED BY <2>2, <2>3 DEF EditedAgents
  <1>2. \/ new = [doc EXCEPT !.ok = ~@]
        \/ \E a \in agents : new = [doc EXCEPT !.ok = TRUE, !.agents = a]
        \/ \E r \in Ids \cup {None} : new = [doc EXCEPT !.ok = TRUE, !.review = r]
    BY DEF Edited
  <1> HIDE DEF agents
  <1>3. CASE new = [doc EXCEPT !.ok = ~@]
    BY <1>3 DEF Document
  <1>4. ASSUME NEW a \in agents, new = [doc EXCEPT !.ok = TRUE, !.agents = a]
        PROVE  new \in Document(Settings)
    BY <1>1, <1>4 DEF Document
  <1>5. ASSUME NEW r \in Ids \cup {None}, new = [doc EXCEPT !.ok = TRUE, !.review = r]
        PROVE  new \in Document(Settings)
    BY <1>5 DEF Document
  <1> QED BY <1>2, <1>3, <1>4, <1>5

-----------------------------------------------------------------------------
(* The invariant. *)

\* A thread that the step leaves as it is, with the files and what was read of them.
LEMMA Still ==
  ASSUME NEW t \in Threads, ThreadFits(t), thread'[t] = thread[t],
         thread[t].pc \in Busy => UNCHANGED <<config, boot>>,
         thread[t].pc \in Holding => writing' = writing /\ UNCHANGED file
  PROVE  ThreadFits(t)'
  <1>1. CASE thread[t].pc \in Holding
    BY <1>1 DEF ThreadFits, Busy, Holding, Refused, Changed, Refusing, Unbootable, UnbootableReview,
       NotReviewable, DuplicateOfWritten, WrittenIds, ReviewInConfig
  <1>2. CASE thread[t].pc = "reading"
    BY <1>2 DEF ThreadFits, Busy, Holding, ReviewInConfig
  <1>3. CASE thread[t].pc \notin Busy
    BY <1>3 DEF ThreadFits, Busy, Holding
  <1> QED BY <1>1, <1>2, <1>3 DEF Busy

\* What was not refused is not, while config.yaml and the dashboard's memory of it stay.
LEMMA StaysUnrefused ==
  ASSUME NEW t \in Threads, NEW doc, thread'[t].doc = doc, ~Refusing(doc),
         UNCHANGED <<config, bound, boot>>
  PROVE  ~Refusing(thread[t].doc)'
  BY DEF Refusing, Unbootable, UnbootableReview, NotReviewable, DuplicateOfWritten, WrittenIds

LEMMA ReviewStays ==
  ASSUME UNCHANGED <<config, boot>>
  PROVE  ReviewInConfig' = ReviewInConfig
  BY DEF ReviewInConfig

\* Only the holder of the lock is past the read.
LEMMA OneHolds ==
  ASSUME Inv, NEW t \in Threads, NEW u \in Threads, t # u, thread[t].pc \in Holding
  PROVE  thread[u].pc \notin Holding
  BY DEF Inv, ThreadFits

LEMMA IdleFits ==
  ASSUME NEW t \in Threads, thread'[t] = Idle
  PROVE  ThreadFits(t)' /\ Idle \in Thread
  BY DEF ThreadFits, Idle, Thread, Busy, Holding

LEMMA InvInit == Init => Inv
  <1> SUFFICES ASSUME Init PROVE Inv
    OBVIOUS
  <1>1. Idle \in Thread /\ Idle.pc = "idle"
    BY DEF Idle, Thread
  <1>3. PICK i \in Ids, j \in Ids :
          /\ config = [ok |-> TRUE, agents |-> [id \in {i} |-> "able"], review |-> None]
          /\ file = [ok |-> TRUE, agents |-> [id \in {j} \ {i} |-> "trusted"], review |-> None]
    BY DEF Init
  <1>4. config \in Document(Settings) /\ file \in Document(Settings)
    <2>1. /\ [id \in {i} |-> "able"] \in Agents(Settings)
          /\ [id \in {j} \ {i} |-> "trusted"] \in Agents(Settings)
      BY AgentsAre DEF Settings
    <2> QED BY <1>3, <2>1 DEF Document
  <1>5. \A t \in Threads : ThreadFits(t)
    BY <1>1 DEF Init, ThreadFits, Busy, Holding
  <1> QED BY <1>1, <1>4, <1>5 DEF Inv, Typed, Init

\* One thread moves, and the files stay.
LEMMA OneMoves ==
  ASSUME Inv, NEW t \in Threads, NEW k \in Thread,
         thread' = [thread EXCEPT ![t] = k], ThreadFits(t)',
         UNCHANGED <<config, bound, file, boot>>,
         writing' = writing \/ writing \in {t, NoThread}
  PROVE  Inv'
  <1>1. Typed'
    BY DEF Inv, Typed
  <1>2. ASSUME NEW u \in Threads \ {t}
        PROVE  ThreadFits(u)'
    <2>1. thread'[u] = thread[u]
      BY DEF Inv, Typed
    <2>2. thread[u].pc \in Holding => writing = u
      BY DEF Inv, ThreadFits
    <2> QED BY <2>1, <2>2, Still, ConstantsAssumption DEF Inv
  <1> QED BY <1>1, <1>2 DEF Inv

LEMMA InvStep == Inv /\ [Next]_vars => Inv'
  <1> SUFFICES ASSUME Inv, [Next]_vars PROVE Inv'
    OBVIOUS
  <1>1. ASSUME NEW t \in Threads, NEW form \in Form, Open(t, form)
        PROVE  Inv'
    <2> DEFINE k == [Idle EXCEPT !.pc = "open", !.form = form]
    <2>1. k \in Thread /\ k.pc = "open" /\ k.form = form
      BY DEF Idle, Thread
    <2>2. thread'[t] = k /\ thread' = [thread EXCEPT ![t] = k]
      BY <1>1 DEF Open, Inv, Typed
    <2> HIDE DEF k
    <2>3. ThreadFits(t)'
      BY <2>1, <2>2 DEF ThreadFits, Busy, Holding
    <2> QED BY <1>1, <2>1, <2>2, <2>3, OneMoves DEF Open
  <1>2. ASSUME NEW t \in Threads, thread' = [thread EXCEPT ![t] = Idle],
               UNCHANGED <<config, bound, file, boot>>, writing' = writing \/ writing \in {t, NoThread}
        PROVE  Inv'
    <2>1. thread'[t] = Idle
      BY <1>2 DEF Inv, Typed
    <2> QED BY <1>2, <2>1, IdleFits, OneMoves
  <1>3. ASSUME NEW t \in Threads, Submit(t)
        PROVE  Inv'
    <2>1. CASE ~Accepted(t)
      BY <1>2, <1>3, <2>1 DEF Submit
    <2>2. CASE Accepted(t)
      <3> DEFINE k == [thread[t] EXCEPT !.pc = "reading"]
      <3>1. thread[t] \in Thread /\ thread[t].form \in Form
        BY <1>3 DEF Submit, Inv, Typed, ThreadFits
      <3>2. k \in Thread /\ k.pc = "reading" /\ k.form = thread[t].form
        BY <3>1 DEF Thread
      <3>3. thread'[t] = k /\ thread' = [thread EXCEPT ![t] = k]
        BY <1>3, <2>2 DEF Submit, Inv, Typed
      <3> HIDE DEF k
      <3>4. ThreadFits(t)'
        <4>1. thread[t].form.kind = "reviewers" => ~ReviewInConfig
          BY <2>2 DEF Accepted
        <4>2. ReviewInConfig' = ReviewInConfig
          BY <1>3, ReviewStays DEF Submit
        <4> QED BY <3>1, <3>2, <3>3, <4>1, <4>2 DEF ThreadFits, Busy, Holding
      <3> QED BY <1>3, <3>2, <3>3, <3>4, OneMoves DEF Submit
    <2> QED BY <2>1, <2>2
  <1>4. ASSUME NEW t \in Threads, Read(t)
        PROVE  Inv'
    <2>1. CASE ~file.ok
      BY <1>2, <1>4, <2>1 DEF Read
    <2>2. CASE file.ok
      <3> DEFINE k == [thread[t] EXCEPT !.pc = "read", !.doc = file]
      <3>1. /\ thread[t] \in Thread /\ thread[t].form \in Form /\ file \in Document(Settings)
            /\ ~thread[t].touched /\ thread[t].form.kind = "reviewers" => ~ReviewInConfig
        BY <1>4 DEF Read, Inv, Typed, ThreadFits, Busy
      <3>2. /\ k \in Thread /\ k.pc = "read" /\ k.form = thread[t].form /\ k.doc = file
            /\ k.touched = thread[t].touched
        BY <3>1 DEF Thread
      <3>3. thread'[t] = k /\ thread' = [thread EXCEPT ![t] = k]
        BY <1>4, <2>2 DEF Read, Inv, Typed
      <3>4. writing' = t /\ writing = NoThread /\ UNCHANGED <<config, bound, file, boot>>
        BY <1>4, <2>2 DEF Read, Free
      <3> HIDE DEF k
      <3>5. ThreadFits(t)'
        <4>1. ReviewInConfig' = ReviewInConfig
          BY <3>4, ReviewStays
        <4> QED BY <3>1, <3>2, <3>3, <3>4, <4>1 DEF ThreadFits, Busy, Holding
      <3> QED BY <3>2, <3>3, <3>4, <3>5, OneMoves
    <2> QED BY <2>1, <2>2
  <1>5. ASSUME NEW t \in Threads, Change(t)
        PROVE  Inv'
    <2> DEFINE form == thread[t].form
               doc == Changed(form, thread[t].doc)
               k == [thread[t] EXCEPT !.pc = "changed", !.doc = doc]
    <2>1. /\ thread[t] \in Thread /\ thread[t].pc = "read" /\ form \in Form
          /\ thread[t].doc \in Document(Settings)
          /\ writing = t /\ UNCHANGED <<config, bound, file, boot>>
          /\ ~thread[t].touched => thread[t].doc = file
          /\ ~thread[t].touched /\ form.kind = "reviewers" => ~ReviewInConfig
      BY <1>5 DEF Change, Inv, Typed, ThreadFits, Busy, Holding
    <2>2. CASE Refused(form, thread[t].doc) \/ Refusing(doc)
      BY <1>2, <1>5, <2>1, <2>2 DEF Change
    <2>3. CASE ~(Refused(form, thread[t].doc) \/ Refusing(doc))
      <3>1. doc \in Document(Settings)
        BY <2>1, ChangedIs
      <3>2. thread' = [thread EXCEPT ![t] = k] /\ writing' = writing
        BY <1>5, <2>1, <2>3 DEF Change, Inv, Typed
      <3>3. k \in Thread /\ k.pc = "changed" /\ k.form = form /\ k.doc = doc
            /\ k.touched = thread[t].touched
        BY <2>1, <3>1 DEF Thread
      <3>4. thread'[t] = k
        BY <3>2 DEF Inv, Typed
      <3>5. ~thread[t].touched => ~Refused(form, file) /\ doc = Changed(form, file)
        BY <2>1, <2>3
      <3> HIDE DEF k, doc, form
      <3>6. ~Refusing(doc)
        BY <2>3
      <3>7. ThreadFits(t)'
        <4>1. ~Refusing(thread[t].doc)'
          BY <2>1, <3>3, <3>4, <3>6, StaysUnrefused
        <4>2. ReviewInConfig' = ReviewInConfig
          BY <2>1, ReviewStays
        <4> QED BY <2>1, <3>1, <3>2, <3>3, <3>4, <3>5, <4>1, <4>2 DEF ThreadFits, Busy, Holding
      <3> QED BY <2>1, <3>2, <3>3, <3>7, OneMoves
    <2> QED BY <2>2, <2>3
  <1>6. ASSUME NEW t \in Threads, Write(t)
        PROVE  Inv'
    <2>1. /\ thread[t].pc = "changed" /\ writing = t /\ thread[t].doc \in Document(Settings)
      BY <1>6 DEF Write, Inv, ThreadFits, Holding
    <2>2. thread'[t] = Idle /\ \A u \in Threads \ {t} : thread'[u] = thread[u]
      BY <1>6 DEF Write, Inv, Typed
    <2>3. \A u \in Threads \ {t} : thread[u].pc \notin Holding
      BY <2>1, OneHolds DEF Holding
    <2>4. \A u \in Threads : ThreadFits(u)'
      <3>1. UNCHANGED <<config, boot>>
        BY <1>6 DEF Write
      <3> QED BY <2>2, <2>3, <3>1, IdleFits, Still DEF Inv
    <2>5. Typed'
      BY <1>6, <2>1, IdleFits, <2>2 DEF Write, Inv, Typed
    <2> QED BY <2>4, <2>5 DEF Inv
  <1>7. ASSUME NEW t \in Threads, ThreadFits(t), thread[t] \in Thread, thread'[t] = Touched[t], writing' = writing
        PROVE  ThreadFits(t)' /\ thread'[t] \in Thread
    <2>1. CASE thread[t].pc \in {"idle", "open"}
      BY <1>7, <2>1 DEF Touched, ThreadFits, Busy, Holding
    <2>2. CASE thread[t].pc \notin {"idle", "open"}
      <3> DEFINE k == [thread[t] EXCEPT !.touched = TRUE]
      <3>1. k \in Thread /\ k.pc = thread[t].pc /\ k.form = thread[t].form
            /\ k.doc = thread[t].doc /\ k.touched = TRUE
        BY <1>7 DEF Thread
      <3>2. thread'[t] = k
        BY <1>7, <2>2 DEF Touched
      <3> HIDE DEF k
      <3> QED BY <1>7, <3>1, <3>2 DEF ThreadFits, Busy, Holding
    <2> QED BY <2>1, <2>2
  <1>8. ASSUME EditConfig \/ EditFile
        PROVE  Inv'
    <2>1. thread' = Touched /\ writing' = writing
      BY <1>8 DEF EditConfig, EditFile
    <2>2. \A t \in Threads : ThreadFits(t)' /\ thread'[t] \in Thread
      BY <1>7, <2>1 DEF Inv, Typed
    <2>3. config' \in Document(Settings) /\ file' \in Document(Settings)
      <3>1. CASE EditConfig
        <4>1. /\ config' \in Edited(config, Writable) \/ config' = config
              /\ Writable \in SUBSET Settings /\ file' = file
          BY <3>1 DEF EditConfig, Settings, Writable
        <4> QED BY <4>1, EditedIs DEF Inv, Typed
      <3>2. CASE EditFile
        <4>1. file' \in Edited(file, Settings) /\ Settings \in SUBSET Settings /\ config' = config
          BY <3>2 DEF EditFile
        <4> QED BY <4>1, EditedIs DEF Inv, Typed
      <3> QED BY <1>8, <3>1, <3>2
    <2>4. thread' \in [Threads -> Thread]
      BY <2>1, <2>2 DEF Touched
    <2> QED BY <2>2, <2>3, <2>4 DEF Inv, Typed
  <1>9. ASSUME Restart
        PROVE  Inv'
    <2>1. ASSUME NEW t \in Threads
          PROVE  ThreadFits(t)' /\ thread'[t] \in Thread
      <3>1. CASE thread[t].pc = "open"
        <4> DEFINE k == [thread[t] EXCEPT !.stale = TRUE]
        <4>1. thread[t] \in Thread /\ thread[t].form \in Form
          BY <3>1 DEF Inv, Typed, ThreadFits
        <4>2. k \in Thread /\ k.pc = "open" /\ k.form = thread[t].form
          BY <3>1, <4>1 DEF Thread
        <4>3. thread'[t] = k
          BY <1>9, <3>1 DEF Restart
        <4> HIDE DEF k
        <4> QED BY <4>1, <4>2, <4>3 DEF ThreadFits, Busy, Holding
      <3>2. CASE thread[t].pc # "open"
        <4>1. thread'[t] = Idle
          BY <1>9, <3>2 DEF Restart
        <4> QED BY <4>1, IdleFits
      <3> QED BY <3>1, <3>2
    <2>2. thread' \in [Threads -> Thread]
      BY <1>9, <2>1 DEF Restart
    <2> QED BY <1>9, <2>1, <2>2 DEF Inv, Typed, Restart
  <1>10. CASE UNCHANGED vars
    BY <1>10, Still DEF vars, Inv, Typed
  <1> QED BY <1>1, <1>3, <1>4, <1>5, <1>6, <1>8, <1>9, <1>10 DEF Next

LEMMA InvHolds == Spec => []Inv
  BY InvInit, InvStep, PTL DEF Spec

-----------------------------------------------------------------------------
(* The properties. *)

\* Unless a hand was at the files, what a thread writes is the file with its form's change,
\* and nothing else of it.
THEOREM KeepsOthers == Spec => OthersAreKept
  <1> DEFINE Kept == \A t \in Threads :
               LET form == thread[t].form
               IN (Write(t) /\ file' # file /\ ~thread[t].touched) =>
                    /\ \A id \in Ids : (id # form.id \/ form.kind = "reviewers") =>
                         /\ id \in DOMAIN file.agents <=> id \in DOMAIN file'.agents
                         /\ id \in DOMAIN file.agents => file'.agents[id] = file.agents[id]
                    /\ form.kind # "reviewers" => file'.review = file.review
                    /\ form.kind = "new" <=> form.id \notin DOMAIN file.agents
                                               /\ form.kind # "reviewers"
  <1>1. ASSUME Inv PROVE Kept
    <2> SUFFICES ASSUME NEW t \in Threads, Write(t), file' # file, ~thread[t].touched,
                        NEW form, form = thread[t].form
                 PROVE  /\ \A id \in Ids : (id # form.id \/ form.kind = "reviewers") =>
                             /\ id \in DOMAIN file.agents <=> id \in DOMAIN file'.agents
                             /\ id \in DOMAIN file.agents => file'.agents[id] = file.agents[id]
                        /\ form.kind # "reviewers" => file'.review = file.review
                        /\ form.kind = "new" <=> form.id \notin DOMAIN file.agents
                                                   /\ form.kind # "reviewers"
      OBVIOUS
    <2>1. /\ form \in Form /\ file \in Document(Settings)
          /\ file' = Changed(form, file) /\ ~Refused(form, file)
      BY <1>1 DEF Write, Inv, Typed, ThreadFits
    <2>2. form.kind \in Kinds /\ form.id \in Ids /\ form.settings \in Settings
      BY <2>1 DEF Form, Settings
    <2>3. file.agents \in Agents(Settings) /\ DOMAIN file.agents \subseteq Ids
      BY <2>1, DocumentFields, AgentsAre
    <2>4. form.kind = "new" <=> form.id \notin DOMAIN file.agents /\ form.kind # "reviewers"
      BY <2>1, <2>2 DEF Refused, Kinds
    <2>5. CASE form.kind = "delete"
      <3>1. file'.agents = Without(file.agents, form.id) /\ file'.review = file.review
        BY <2>1, <2>5, ChangedIs
      <3>2. /\ DOMAIN file'.agents = DOMAIN file.agents \ {form.id}
            /\ \A i \in DOMAIN file.agents : i # form.id => file'.agents[i] = file.agents[i]
        <4>1. /\ DOMAIN Without(file.agents, form.id) = DOMAIN file.agents \ {form.id}
              /\ \A i \in DOMAIN file.agents :
                   i # form.id => Without(file.agents, form.id)[i] = file.agents[i]
          BY <2>2, <2>3, WithoutIs
        <4> QED BY <3>1, <4>1
      <3> QED BY <2>4, <2>5, <3>1, <3>2
    <2>6. CASE form.kind = "reviewers"
      BY <2>1, <2>2, <2>3, <2>4, <2>6, ChangedIs
    <2>7. CASE form.kind \in {"new", "edit"}
      <3>1. /\ file'.agents = With(file.agents, form.id, form.settings)
            /\ file'.review = file.review
        BY <2>1, <2>7, ChangedIs
      <3>2. /\ DOMAIN file'.agents = DOMAIN file.agents \cup {form.id}
            /\ \A i \in DOMAIN file.agents : i # form.id => file'.agents[i] = file.agents[i]
        <4>1. /\ DOMAIN With(file.agents, form.id, form.settings) = DOMAIN file.agents \cup {form.id}
              /\ \A i \in DOMAIN file.agents :
                   i # form.id => With(file.agents, form.id, form.settings)[i] = file.agents[i]
          BY <2>2, <2>3 DEF With
        <4> QED BY <3>1, <4>1
      <3> QED BY <2>4, <2>7, <3>1, <3>2
    <2> QED BY <2>2, <2>5, <2>6, <2>7 DEF Kinds
  <1>2. Inv /\ [Next]_vars => [Kept]_vars
    BY <1>1
  <1> QED BY <1>2, InvHolds, PTL DEF Spec, OthersAreKept

\* An agent that the form is not about is what it was, in the two files together.
LEMMA SameAgent ==
  ASSUME NEW form \in Form, file \in Document(Settings), config \in Document(Settings),
         NEW doc, doc = Changed(form, file), ~Refused(form, file),
         DOMAIN doc.agents \cap DOMAIN config.agents = {},
         DOMAIN file.agents \cap DOMAIN config.agents = {},
         NEW id \in DOMAIN Merged(config, file),
         form.kind \in {"edit", "delete"} => id # form.id
  PROVE  /\ id \in DOMAIN Merged(config, doc)
         /\ Merged(config, doc)[id] = Merged(config, file)[id]
  <1>1. form.kind \in Kinds /\ form.id \in Ids /\ form.settings \in Settings
    BY DEF Form, Settings
  <1>2. file.agents \in Agents(Settings)
    BY DocumentFields
  <1>3. id \in DOMAIN config.agents \cup DOMAIN file.agents
    BY DEF Merged
  <1>4. id \in DOMAIN file.agents => id \in DOMAIN doc.agents /\ doc.agents[id] = file.agents[id]
    <2> SUFFICES ASSUME id \in DOMAIN file.agents
                 PROVE  id \in DOMAIN doc.agents /\ doc.agents[id] = file.agents[id]
      OBVIOUS
    <2>1. CASE form.kind = "reviewers"
      BY <2>1, ChangedIs
    <2>2. CASE form.kind = "delete"
      <3>1. doc.agents = Without(file.agents, form.id) /\ id # form.id
        BY <2>2, ChangedIs
      <3>2. /\ DOMAIN Without(file.agents, form.id) = DOMAIN file.agents \ {form.id}
            /\ \A i \in DOMAIN file.agents : i # form.id => Without(file.agents, form.id)[i] = file.agents[i]
        BY <1>1, <1>2, WithoutIs
      <3> QED BY <3>1, <3>2
    <2>3. CASE form.kind \in {"new", "edit"}
      <3>1. doc.agents = With(file.agents, form.id, form.settings)
        BY <2>3, ChangedIs
      <3>2. id # form.id
        BY <2>3 DEF Refused
      <3>3. /\ DOMAIN With(file.agents, form.id, form.settings) = DOMAIN file.agents \cup {form.id}
            /\ \A i \in DOMAIN file.agents :
                 i # form.id => With(file.agents, form.id, form.settings)[i] = file.agents[i]
        BY <1>1, <1>2 DEF With
      <3> QED BY <3>1, <3>2, <3>3
    <2> QED BY <1>1, <2>1, <2>2, <2>3 DEF Kinds
  <1>5. CASE id \in DOMAIN config.agents
    BY <1>5 DEF Merged
  <1>6. CASE id \in DOMAIN file.agents
    BY <1>3, <1>4, <1>6 DEF Merged
  <1> QED BY <1>3, <1>5, <1>6

\* If the server could start before a save, it can after it, but for the three ways in which
\* the dashboard does not ask what a start asks.
THEOREM SavesBoot == Spec => StaysBootable
  <1> DEFINE Stays == \A t \in Threads :
               LET form == thread[t].form
               IN (/\ Write(t) /\ ~thread[t].touched /\ Boots(config, bound, file)
                   /\ ~NamedInConfig(form) /\ ~Outdated(file') /\ ~LastAgent(form)) =>
                     Boots(config, bound, file')
  <1>1. ASSUME Inv PROVE Stays
    <2> SUFFICES ASSUME NEW t \in Threads, NEW form, form = thread[t].form,
                        Write(t), ~thread[t].touched, Boots(config, bound, file),
                        ~NamedInConfig(form), ~Outdated(file'), ~LastAgent(form), file' # file
                 PROVE  Boots(config, bound, file')
      OBVIOUS
    <2> DEFINE doc == thread[t].doc
    <2>1. /\ form \in Form /\ file \in Document(Settings) /\ config \in Document(Settings)
          /\ file' = doc /\ doc = Changed(form, file) /\ ~Refused(form, file) /\ ~Refusing(doc)
          /\ form.kind = "reviewers" => ~ReviewInConfig
      BY <1>1 DEF Write, Inv, Typed, ThreadFits, Busy, Holding
    <2>2. /\ config.ok /\ file.ok /\ DOMAIN config.agents \cap DOMAIN file.agents = {}
          /\ DOMAIN Merged(config, file) # {}
          /\ LabelAgents(Merged(config, file)) /\ AgentsCanExecute(Merged(config, file))
          /\ ~(config.review # None /\ file.review # None)
          /\ MergedReview(config, file) # None =>
               CheckReviewer(Merged(config, file), MergedReview(config, file))
          /\ bound # None => CheckStepAgent(Merged(config, file), bound)
      BY DEF Boots
    <2>3. form.kind \in Kinds /\ form.id \in Ids /\ form.settings \in {"able", "plain"}
      BY <2>1 DEF Form
    <2>4. /\ doc \in Document(Settings) /\ doc.ok
          /\ form.kind # "reviewers" => doc.review = file.review
      BY <2>1, <2>2, <2>3, ChangedIs DEF Kinds
    <2>5. /\ ~Unbootable(doc.agents) /\ ~UnbootableReview(doc.review, doc.agents)
          /\ DOMAIN doc.agents \cap DOMAIN config.agents = {}
      BY <2>1, <2>2 DEF Refusing, DuplicateOfWritten, WrittenIds
    <2>6. form.kind = "reviewers" => config.review = None
      BY <2>1, <2>2 DEF ReviewInConfig
    <2> HIDE DEF doc
    <2>7. \A id \in DOMAIN Merged(config, file) :
            (form.kind \in {"edit", "delete"} => id # form.id) =>
              /\ id \in DOMAIN Merged(config, doc)
              /\ Merged(config, doc)[id] = Merged(config, file)[id]
      BY <2>1, <2>2, <2>5, SameAgent
    <2> DEFINE merged == Merged(config, doc)
    <2>8. /\ DOMAIN merged = DOMAIN config.agents \cup DOMAIN doc.agents
          /\ \A id \in DOMAIN config.agents : merged[id] = config.agents[id]
          /\ \A id \in DOMAIN doc.agents : merged[id] = doc.agents[id]
      BY <2>5 DEF Merged
    <2>9. DOMAIN merged # {}
      <3>1. PICK id \in DOMAIN Merged(config, file) : form.kind = "delete" => id # form.id
        <4>1. form.kind = "delete" => DOMAIN Merged(config, file) # {form.id}
          BY DEF LastAgent
        <4> QED BY <2>2, <4>1
      <3>2. CASE form.kind = "edit" /\ id = form.id
        <4>1. doc.agents = With(file.agents, form.id, form.settings)
          BY <2>1, <3>2, ChangedIs
        <4>2. form.id \in DOMAIN doc.agents
          BY <4>1 DEF With
        <4> QED BY <2>8, <4>2
      <3>3. CASE ~(form.kind = "edit" /\ id = form.id)
        BY <2>7, <3>1, <3>3
      <3> QED BY <3>2, <3>3
    <2>10. LabelAgents(merged)
      <3>1. \A id \in DOMAIN config.agents : config.agents[id] # "invalid"
        BY <2>2 DEF LabelAgents, Merged
      <3> HIDE DEF merged
      <3> QED BY <2>5, <2>8, <3>1 DEF LabelAgents, Unbootable
    <2>11. AgentsCanExecute(merged)
      <3> SUFFICES ASSUME NEW id \in DOMAIN merged PROVE merged[id] # "overreaching"
        BY DEF AgentsCanExecute
      <3>1. file.agents \in Agents(Settings) /\ form.settings \in Settings
        BY <2>1, <2>3, DocumentFields DEF Settings
      <3>2. /\ \A i \in DOMAIN config.agents : config.agents[i] # "overreaching"
            /\ \A i \in DOMAIN file.agents : file.agents[i] # "overreaching"
        BY <2>2 DEF AgentsCanExecute, Merged
      <3>3. \A i \in DOMAIN doc.agents : doc.agents[i] # "overreaching"
        <4>1. CASE form.kind = "reviewers"
          BY <2>1, <3>2, <4>1, ChangedIs
        <4>2. CASE form.kind = "delete"
          <5>1. doc.agents = Without(file.agents, form.id)
            BY <2>1, <4>2, ChangedIs
          <5>2. /\ DOMAIN Without(file.agents, form.id) = DOMAIN file.agents \ {form.id}
                /\ \A i \in DOMAIN file.agents :
                     i # form.id => Without(file.agents, form.id)[i] = file.agents[i]
            BY <2>3, <3>1, WithoutIs
          <5> QED BY <3>2, <5>1, <5>2
        <4>3. CASE form.kind \in {"new", "edit"}
          <5>1. doc.agents = With(file.agents, form.id, form.settings)
            BY <2>1, <4>3, ChangedIs
          <5>2. /\ DOMAIN With(file.agents, form.id, form.settings) = DOMAIN file.agents \cup {form.id}
                /\ With(file.agents, form.id, form.settings)[form.id] = form.settings
                /\ \A i \in DOMAIN file.agents :
                     i # form.id => With(file.agents, form.id, form.settings)[i] = file.agents[i]
            BY <2>3, <3>1 DEF With
          <5> QED BY <2>3, <3>2, <5>1, <5>2
        <4> QED BY <2>3, <4>1, <4>2, <4>3 DEF Kinds
      <3> HIDE DEF merged
      <3> QED BY <2>8, <3>2, <3>3
    <2>12. ~(config.review # None /\ doc.review # None)
      BY <2>2, <2>4, <2>6
    <2>13. MergedReview(config, doc) # None => CheckReviewer(merged, MergedReview(config, doc))
      <3>1. CASE config.review # None
        <4>1. /\ form.kind # "reviewers" /\ MergedReview(config, doc) = config.review
              /\ MergedReview(config, file) = config.review
          BY <2>6, <3>1 DEF MergedReview
        <4>2. config.review \in DOMAIN Merged(config, file)
              /\ Merged(config, file)[config.review] \in Scored
          BY <2>2, <3>1, <4>1 DEF CheckReviewer, NotReviewable
        <4>3. form.kind \in {"edit", "delete"} => config.review # form.id
          BY DEF NamedInConfig
        <4>4. config.review \in DOMAIN merged /\ merged[config.review] \in Scored
          BY <2>7, <4>2, <4>3
        <4> HIDE DEF merged
        <4> QED BY <4>1, <4>4 DEF CheckReviewer, NotReviewable
      <3>2. CASE config.review = None /\ doc.review # None
        <4> DEFINE r == doc.review
                   available == [id \in DOMAIN boot.agents \cup DOMAIN doc.agents |->
                      IF id \in DOMAIN doc.agents THEN doc.agents[id] ELSE boot.agents[id]]
        <4>1. MergedReview(config, doc) = r
          BY <3>2 DEF MergedReview
        <4>2. ~NotReviewable(available, r)
          BY <2>5, <3>2 DEF UnbootableReview
        <4>3. r \in DOMAIN boot.agents \cup DOMAIN doc.agents /\ available[r] \in Scored
          BY <4>2 DEF NotReviewable
        <4>4. CASE r \in DOMAIN doc.agents
          <5>1. r \in DOMAIN merged /\ merged[r] \in Scored
            BY <2>8, <4>3, <4>4
          <5> HIDE DEF merged
          <5> QED BY <4>1, <5>1 DEF CheckReviewer, NotReviewable
        <4>5. CASE r \notin DOMAIN doc.agents
          <5>1. r \in DOMAIN config.agents /\ config.agents[r] = boot.agents[r]
            BY <2>1, <4>3, <4>5 DEF Outdated
          <5>2. boot.agents[r] \in Scored
            BY <4>3, <4>5
          <5>3. r \in DOMAIN merged /\ merged[r] \in Scored
            BY <2>8, <5>1, <5>2
          <5> HIDE DEF merged
          <5> QED BY <4>1, <5>3 DEF CheckReviewer, NotReviewable
        <4> QED BY <4>4, <4>5
      <3>3. CASE config.review = None /\ doc.review = None
        BY <3>3 DEF MergedReview
      <3> QED BY <3>1, <3>2, <3>3
    <2>14. bound # None => CheckStepAgent(merged, bound)
      <3> SUFFICES ASSUME bound # None PROVE CheckStepAgent(merged, bound)
        OBVIOUS
      <3>1. form.kind \in {"edit", "delete"} => bound.agent # form.id
        BY DEF NamedInConfig
      <3>2. bound.agent \in DOMAIN merged /\ merged[bound.agent] = Merged(config, file)[bound.agent]
        BY <2>2, <2>7, <3>1 DEF CheckStepAgent
      <3> HIDE DEF merged
      <3> QED BY <2>2, <3>2 DEF CheckStepAgent
    <2> HIDE DEF merged
    <2>15. Boots(config, bound, doc)
      BY <2>2, <2>4, <2>5, <2>9, <2>10, <2>11, <2>12, <2>13, <2>14 DEF Boots, merged
    <2> QED BY <2>1, <2>15 DEF doc
  <1>2. Inv /\ [Next]_vars => [Stays]_vars
    BY <1>1
  <1> QED BY <1>2, InvHolds, PTL DEF Spec, StaysBootable
===============================================================================
