----------------------------- MODULE AgentsFile ------------------------------
(***************************************************************************)
(* The dashboard's edits of the managed file (consult/dashboard.py and     *)
(* managed.py).  Each request runs in a thread of its own, checks the form *)
(* against what it can see, and then reads, changes, checks and replaces   *)
(* the file under one lock.  The operator edits both files by hand, with   *)
(* no lock at all, and config.yaml is the operator's alone; the server     *)
(* starts on the two together (config.py, load_consult_config), or not.    *)
(*                                                                         *)
(* An agent's settings are abstracted to what a start asks of them: "able" *)
(* is enabled and scored for what it may be named for, "trusted" is also   *)
(* permitted the modes past consultation, "plain" is disabled or scored 0, *)
(* "overreaching" declares a mode its runtime has not, and "invalid" is    *)
(* none AgentConfig accepts.  No form writes `execution_modes`, so what a  *)
(* form saves is "able" or "plain".                                        *)
(***************************************************************************)
EXTENDS Integers, FiniteSets, Functions

CONSTANTS
  Threads,      \* the request threads of the dashboard
  NoThread,
  Ids,          \* agent ids
  None,         \* no review block, no agent
  MaxEdits      \* bound: how often the operator edits a file by hand

ASSUME ConstantsAssumption ==
  /\ NoThread \notin Threads /\ None \notin Ids
  /\ MaxEdits \in Nat

VARIABLES
  config,       \* config.yaml: is it readable, its agents, its reviewer
  bound,        \* what config.yaml's `workflow:` binds a step to, or a preset
  file,         \* the managed file: readable, its agents, its reviewer
  boot,         \* what the dashboard process read when it started
  writing,      \* the thread that holds `_writing`
  thread,       \* what each thread is doing, with its form and its document
  edits

vars == <<config, bound, file, boot, writing, thread, edits>>

Settings == {"able", "trusted", "plain", "overreaching", "invalid"}
Writable == Settings \ {"invalid"}     \* in config.yaml
Scored == {"able", "trusted", "overreaching"}
Agents(settings) == UNION {[ids -> settings] : ids \in SUBSET Ids}
Document(settings) == [ok : BOOLEAN, agents : Agents(settings), review : Ids \cup {None}]
Empty == [id \in {} |-> "plain"]

Binding == [agent : Ids, execution : {"consultation", "isolated_write"}]
Bindings == Binding \cup {None}

Kinds == {"new", "edit", "delete", "reviewers"}
Form == [kind : Kinds, id : Ids, settings : {"able", "plain"}]

(* pc: the form is open in a browser, the document was read under the lock, or
   it is changed and about to be written.  `stale`: the form's token is of a
   dashboard that has restarted since.  `touched`: a file was edited by hand
   since the request came in. *)
Thread ==
  [pc : {"idle", "open", "reading", "read", "changed"}, form : Form \cup {None},
   stale : BOOLEAN, doc : Document(Settings) \cup {None}, touched : BOOLEAN]

Idle == [pc |-> "idle", form |-> None, stale |-> FALSE, doc |-> None, touched |-> FALSE]

With(agents, id, settings) == [i \in DOMAIN agents \cup {id} |->
                                 IF i = id THEN settings ELSE agents[i]]
Without(agents, id) == Restrict(agents, DOMAIN agents \ {id})

-----------------------------------------------------------------------------
(* May the server start on the two files as they are? *)
Merged(c, f) == [id \in DOMAIN c.agents \cup DOMAIN f.agents |->
                   IF id \in DOMAIN c.agents THEN c.agents[id] ELSE f.agents[id]]

(* A block in both files is an error; an absent one defers to the other. *)
MergedReview(c, f) == IF c.review # None THEN c.review ELSE f.review

NotReviewable(agents, id) == id \notin DOMAIN agents \/ agents[id] \notin Scored

(* The same three rules, asked of the agents a start has read. *)
CheckReviewer(agents, id) == ~NotReviewable(agents, id)

LabelAgents(agents) == \A id \in DOMAIN agents : agents[id] # "invalid"

AgentsCanExecute(agents) == \A id \in DOMAIN agents : agents[id] # "overreaching"

(* A binding's agent is configured, enabled, scored for the step, and permitted
   its mode of execution. *)
CheckStepAgent(agents, binding) ==
  /\ binding.agent \in DOMAIN agents
  /\ agents[binding.agent] \in Scored
  /\ binding.execution = "isolated_write" => agents[binding.agent] = "trusted"

Boots(c, b, f) ==
  /\ c.ok /\ f.ok
  /\ DOMAIN c.agents \cap DOMAIN f.agents = {}
  /\ DOMAIN Merged(c, f) # {}
  /\ LabelAgents(Merged(c, f)) /\ AgentsCanExecute(Merged(c, f))
  /\ ~(c.review # None /\ f.review # None)
  /\ MergedReview(c, f) # None => CheckReviewer(Merged(c, f), MergedReview(c, f))
  /\ b # None => CheckStepAgent(Merged(c, f), b)

Snapshot(c, f) == [agents |-> c.agents, managed |-> f.agents,
                   review |-> c.review # None \/ f.review # None]

Init ==
  /\ \E i, j \in Ids :
       /\ config = [ok |-> TRUE, agents |-> [id \in {i} |-> "able"], review |-> None]
       /\ file = [ok |-> TRUE, agents |-> [id \in {j} \ {i} |-> "trusted"], review |-> None]
  /\ bound \in Bindings /\ Boots(config, bound, file)
  /\ boot = Snapshot(config, file)
  /\ writing = NoThread
  /\ thread = [t \in Threads |-> Idle]
  /\ edits = 0

-----------------------------------------------------------------------------
(* What a thread sees of config.yaml: the file as it is, or as it was. *)
WrittenIds == IF config.ok THEN DOMAIN config.agents ELSE DOMAIN boot.agents

ReviewInConfig == IF config.ok THEN config.review # None ELSE boot.review

(* No entry of the file is one the server refuses to start on. *)
Unbootable(agents) == \E id \in DOMAIN agents : agents[id] = "invalid"

Managed == IF file.ok /\ ~Unbootable(file.agents) THEN file.agents ELSE boot.managed

Written == Restrict(boot.agents, DOMAIN boot.agents \cap WrittenIds)

(* `written | managed`: the managed entry of an id that is in both wins. *)
Reviewable == [id \in DOMAIN Written \cup DOMAIN Managed |->
                 IF id \in DOMAIN Managed THEN Managed[id] ELSE Written[id]]

UnbootableReviewUnseen(review, agents) == FALSE (* (mutant) *)

UnbootableReview(review, agents) ==
  LET available == [id \in DOMAIN boot.agents \cup DOMAIN agents |->
                      IF id \in DOMAIN agents THEN agents[id] ELSE boot.agents[id]]
  IN review # None /\ NotReviewable(available, review)

DuplicateOfWritten(agents) == DOMAIN agents \cap WrittenIds # {}

-----------------------------------------------------------------------------
(* A page with a form; one for editing or deleting shows an agent of the file. *)
Open(t, form) ==
  /\ thread[t].pc = "idle"
  /\ form.kind = "edit" => form.id \in DOMAIN Managed \ DOMAIN Written
  /\ form.kind = "delete" => form.id \in DOMAIN Managed
  /\ form.kind = "delete" => form.settings = "plain"    \* it has no settings
  /\ form.kind = "reviewers" => ~ReviewInConfig /\ form.settings = "plain"
  /\ thread' = [thread EXCEPT ![t] = [Idle EXCEPT !.pc = "open", !.form = form]]
  /\ UNCHANGED <<config, bound, file, boot, writing, edits>>

(* What a request is refused for before it looks at the file. *)
Accepted(t) ==
  LET form == thread[t].form
  IN /\ ~thread[t].stale
     /\ form.kind \in {"new", "edit"} => form.id \notin WrittenIds
     /\ form.kind = "reviewers" => ~ReviewInConfig /\ ~NotReviewable(Reviewable, form.id)

Submit(t) ==
  /\ thread[t].pc = "open"
  /\ thread' = [thread EXCEPT ![t] = IF Accepted(t) THEN [@ EXCEPT !.pc = "reading"] ELSE Idle]
  /\ UNCHANGED <<config, bound, file, boot, writing, edits>>

FreeOrNot == TRUE (* (mutant) *)

Free == writing = NoThread

(* `with self._writing`: the file is read once its lock is held. *)
Read(t) ==
  /\ thread[t].pc = "reading" /\ Free
  /\ IF file.ok
     THEN /\ thread' = [thread EXCEPT ![t].pc = "read", ![t].doc = file]
          /\ writing' = t
     ELSE thread' = [thread EXCEPT ![t] = Idle] /\ UNCHANGED writing
  /\ UNCHANGED <<config, bound, file, boot, edits>>

(* What the form asks for, against the document as it was read. *)
Refused(form, doc) ==
  \/ form.kind \in {"edit", "delete"} /\ form.id \notin DOMAIN doc.agents
  \/ form.kind = "new" /\ form.id \in DOMAIN doc.agents

Changed(form, doc) ==
  CASE form.kind = "delete" -> [doc EXCEPT !.agents = Without(@, form.id)]
    [] form.kind = "reviewers" -> [doc EXCEPT !.review = form.id]
    [] OTHER -> [doc EXCEPT !.agents = With(@, form.id, form.settings)]

Refusing(doc) ==
  \/ Unbootable(doc.agents)
  \/ UnbootableReview(doc.review, doc.agents)
  \/ DuplicateOfWritten(doc.agents)

Change(t) ==
  LET form == thread[t].form
      doc == Changed(form, thread[t].doc)
  IN /\ thread[t].pc = "read"
     /\ IF Refused(form, thread[t].doc) \/ Refusing(doc)
        THEN thread' = [thread EXCEPT ![t] = Idle] /\ writing' = NoThread
        ELSE /\ thread' = [thread EXCEPT ![t].pc = "changed", ![t].doc = doc]
             /\ UNCHANGED writing
     /\ UNCHANGED <<config, bound, file, boot, edits>>

(* A new file in place of the old one, both blocks at once; or it cannot be
   written, and the old one stays. *)
Write(t) ==
  /\ thread[t].pc = "changed"
  /\ file' \in {thread[t].doc, file}
  /\ thread' = [thread EXCEPT ![t] = Idle]
  /\ writing' = NoThread
  /\ UNCHANGED <<config, bound, boot, edits>>

-----------------------------------------------------------------------------
Touched == [t \in Threads |-> IF thread[t].pc \in {"idle", "open"} THEN thread[t]
                              ELSE [thread[t] EXCEPT !.touched = TRUE]]

(* The ways a hand edits a file: an agent goes in or out or changes, the review
   block likewise, or the file is left unreadable for a while. *)
EditedAgents(agents, settings) ==
  {With(agents, id, s) : id \in Ids, s \in settings} \cup {Without(agents, id) : id \in Ids}

Edited(doc, settings) ==
  {[doc EXCEPT !.ok = ~@]}
    \cup {[doc EXCEPT !.ok = TRUE, !.agents = a] : a \in EditedAgents(doc.agents, settings)}
    \cup {[doc EXCEPT !.ok = TRUE, !.review = r] : r \in Ids \cup {None}}

EditConfig ==
  /\ edits < MaxEdits
  /\ \/ config' \in Edited(config, Writable) \ {config} /\ UNCHANGED bound
     \/ bound' \in Bindings \ {bound} /\ UNCHANGED config
  /\ edits' = edits + 1 /\ thread' = Touched
  /\ UNCHANGED <<file, boot, writing>>

EditFile ==
  /\ edits < MaxEdits
  /\ file' \in Edited(file, Settings) \ {file}
  /\ edits' = edits + 1 /\ thread' = Touched
  /\ UNCHANGED <<config, bound, boot, writing>>

(* The dashboard stops, wherever its threads are, and starts again on the files
   as they are; a form of the last one has a token it no longer takes. *)
Restart ==
  /\ Boots(config, bound, file)
  /\ boot' = Snapshot(config, file)
  /\ writing' = NoThread
  /\ thread' = [t \in Threads |-> IF thread[t].pc = "open" THEN [thread[t] EXCEPT !.stale = TRUE]
                                  ELSE Idle]
  /\ UNCHANGED <<config, bound, file, edits>>

Next ==
  \/ \E t \in Threads :
       (\E form \in Form : Open(t, form)) \/ Submit(t) \/ Read(t) \/ Change(t) \/ Write(t)
  \/ EditConfig \/ EditFile \/ Restart

Spec == Init /\ [][Next]_vars

-----------------------------------------------------------------------------
(* The file as the forms of two threads see it: everything but what the thread
   was asked to change is as another thread last left it, an agent that was
   deleted while its form was open is not brought back, and one that is there is
   not replaced by a form that meant to add it (consult/dashboard.py, _rewrite:
   "a save that succeeded, said so, and lost").  Hand edits are under no lock. *)
OthersAreKept ==
  [][\A t \in Threads :
       LET form == thread[t].form
       IN (Write(t) /\ file' # file /\ ~thread[t].touched) =>
            /\ \A id \in Ids : (id # form.id \/ form.kind = "reviewers") =>
                 /\ id \in DOMAIN file.agents <=> id \in DOMAIN file'.agents
                 /\ id \in DOMAIN file.agents => file'.agents[id] = file.agents[id]
            /\ form.kind # "reviewers" => file'.review = file.review
            /\ form.kind = "new" <=> form.id \notin DOMAIN file.agents
                                       /\ form.kind # "reviewers"]_vars

(* The form is of an agent that config.yaml names: to take a step, or to review.
   A save of it asks neither question. *)
NamedInConfig(form) ==
  /\ form.kind \in {"edit", "delete"}
  /\ form.id = config.review \/ (bound # None /\ bound.agent = form.id)

(* The reviewer of this document is an agent of the config.yaml the dashboard
   started on, and that file has changed or dropped its entry since. *)
Outdated(doc) ==
  /\ doc.review \in DOMAIN boot.agents \ DOMAIN doc.agents
  /\ doc.review \in DOMAIN config.agents => config.agents[doc.review] # boot.agents[doc.review]

LastAgent(form) == form.kind = "delete" /\ DOMAIN Merged(config, file) = {form.id}

(* The server can start after a save if it could before, whoever saved what in
   between the checks of the form and the write, and however config.yaml was
   edited before the request came in (consult/dashboard.py, _rewrite_document:
   "What is about to be written has to be something the server can boot on").
   The code breaks that promise in the three ways defined above, and no other. *)
StaysBootable ==
  [][\A t \in Threads :
       LET form == thread[t].form
       IN (/\ Write(t) /\ ~thread[t].touched /\ Boots(config, bound, file)
           /\ ~NamedInConfig(form) /\ ~Outdated(file') /\ ~LastAgent(form)) =>
             Boots(config, bound, file')]_vars
===============================================================================
