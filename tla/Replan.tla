------------------------------- MODULE Replan --------------------------------
(***************************************************************************)
(* Who takes the steps of a workflow: its routing, the two calls that      *)
(* change it (workflow/service.py, plan_replan and replan), and the steps  *)
(* that are planned and run meanwhile by the routing they read.            *)
(*                                                                         *)
(* A step's binding is the agents it goes to, the host when there are      *)
(* none.  Of the steps, those are kept that the review policy is about;    *)
(* what a step does, and how its row is leased and closed, is in Workflow. *)
(***************************************************************************)
EXTENDS WorkflowContract, Integers, FiniteSets, Sequences

CONSTANTS
    Callers,
    Routed,         \* the steps that may be rerouted; the host takes the others
    Agents,         \* execution identities: two ids of one model are one
    Different,      \* review_policy: the steps whose agent may not review
    MaxPreviews,    \* bound: replans planned
    MaxRows         \* bound: steps planned

ASSUME RoutedAssumption == "review" \in Routed /\ Routed \subseteq {"plan", "implement", "review"}
ASSUME AgentsAssumption == Agents # {} /\ IsFiniteSet(Agents)
ASSUME DifferentAssumption == Different \subseteq Routed \ {"review"}
ASSUME BoundsAssumption == MaxPreviews \in Nat /\ MaxRows \in Nat

VARIABLES
    workflow,    \* the workflow_runs row, as far as its routing goes
    previews,    \* what the preview behind each replan token showed, oldest first
    rows,        \* the workflow_steps rows
    call

vars == <<workflow, previews, rows, call>>

\* What the router resolves: one agent or the host, and for a review agents only.
Routing == {r \in [Routed -> SUBSET Agents] :
              /\ r["review"] # {}
              /\ \A s \in Routed \ {"review"} : Cardinality(r[s]) <= 1}

Unstaged == <<>>
NoToken == 0

Workflow == [status : WorkflowState, bindings : Routing, workflow_hash : Routing,
             replan_bindings : Routing \cup {Unstaged}, replan_token : Nat]

Preview == [asked : SUBSET Routed, bindings : Routing]
Row == [step : Routed, agents : SUBSET Agents, status : {"planned", "done", "cancelled"}]

(* What a call carries from one await to the next: the snapshot it made, the
   staged bindings and the token, the step it plans and its agents. *)
Call == [pc : {"idle", "staging", "adopting", "superseding", "inserting"},
         asked : SUBSET Routed, bindings : Routing \cup {Unstaged}, token : Nat,
         step : Routed, agents : SUBSET Agents]

Idle == [pc |-> "idle", asked |-> {}, bindings |-> Unstaged, token |-> NoToken,
         step |-> "review", agents |-> {}]

Init ==
    /\ \E r \in Routing :
         workflow = [status |-> "created", bindings |-> r, workflow_hash |-> r,
                     replan_bindings |-> Unstaged, replan_token |-> NoToken]
    /\ previews = <<>> /\ rows = <<>>
    /\ call = [c \in Callers |-> Idle]

\* _live
Live == workflow.status \notin TERMINAL_STATES

Starts(c) == call[c].pc = "idle" /\ Live
Returns(c) == call' = [call EXCEPT ![c] = Idle]

-----------------------------------------------------------------------------
(* The replan handshake. *)

\* Only the steps that are named go through the router again.
Rerouted(named, resolved) ==
    [s \in Routed |-> IF s \in named THEN resolved[s] ELSE workflow.bindings[s]]

\* plan_replan reads the workflow ...
PlanReplan(c) ==
    /\ Starts(c) /\ Len(previews) < MaxPreviews
    /\ \E named \in (SUBSET Routed) \ {{}}, resolved \in Routing :
         call' = [call EXCEPT ![c] = [Idle EXCEPT !.pc = "staging", !.asked = named,
                                                  !.bindings = Rerouted(named, resolved)]]
    /\ UNCHANGED <<workflow, previews, rows>>

\* (mutant) a replan keeps the token that is out
TokenKept == IF workflow.replan_token # NoToken THEN workflow.replan_token ELSE Len(previews) + 1

\* The token of a preview is its own.
Token == Len(previews) + 1

\* ... and stage_replan parks the bindings behind a new token, over what was parked.
StageReplan(c) ==
    /\ call[c].pc = "staging"
    /\ workflow' = [workflow EXCEPT !.replan_bindings = call[c].bindings, !.replan_token = Token]
    /\ previews' = Append(previews, [asked |-> call[c].asked, bindings |-> call[c].bindings])
    /\ Returns(c)
    /\ UNCHANGED rows

\* replan reads what is staged, to hash it ...
Replan(c) ==
    /\ Starts(c)
    /\ \E t \in 1 .. Len(previews) :
         call' = [call EXCEPT ![c] = [Idle EXCEPT !.pc = "adopting", !.token = t,
                                                  !.bindings = workflow.replan_bindings]]
    /\ UNCHANGED <<workflow, previews, rows>>

\* The WHERE of the update: the token is the staged one's, and it was not spent.
Confirmed(t) == workflow.replan_token = t /\ workflow.replan_bindings # Unstaged

\* ... and consume_replan adopts what is staged by then, with the hash of what was read.
ConsumeReplan(c) ==
    /\ call[c].pc = "adopting"
    /\ IF Confirmed(call[c].token)
       THEN workflow' = [workflow EXCEPT !.bindings = workflow.replan_bindings,
                                         !.workflow_hash = call[c].bindings,
                                         !.replan_bindings = Unstaged, !.replan_token = NoToken]
       ELSE UNCHANGED workflow
    /\ Returns(c)
    /\ UNCHANGED <<previews, rows>>

-----------------------------------------------------------------------------
(* The steps. *)

\* The identities a review has to differ from: those its workflow binds now, whoever took
\* the steps it is about.
Excluded == UNION {workflow.bindings[s] : s \in Different}

\* _plan_step, by the binding of the workflow it read; _refuse_excluded
PlanStep(c) ==
    /\ Starts(c) /\ Len(rows) < MaxRows
    /\ \E s \in Routed :
         /\ workflow.status \in runs_from[s]
         /\ s = "review" => workflow.bindings[s] \cap Excluded = {}
         /\ call' = [call EXCEPT ![c] =
                       [Idle EXCEPT !.pc = IF s = "review" THEN "superseding" ELSE "inserting",
                                    !.step = s, !.agents = workflow.bindings[s]]]
    /\ UNCHANGED <<workflow, previews, rows>>

\* supersede_planned_review_steps
Supersede(c) ==
    /\ call[c].pc = "superseding"
    /\ rows' = [i \in 1 .. Len(rows) |->
                  IF rows[i].step = "review" /\ rows[i].status = "planned"
                  THEN [rows[i] EXCEPT !.status = "cancelled"] ELSE rows[i]]
    /\ call' = [call EXCEPT ![c].pc = "inserting"]
    /\ UNCHANGED <<workflow, previews>>

\* The row is written with the agents of the preview, whatever the routing is by now.
InsertStep(c) ==
    /\ call[c].pc = "inserting" /\ Len(rows) < MaxRows
    /\ rows' = Append(rows, [step |-> call[c].step, agents |-> call[c].agents,
                             status |-> "planned"])
    /\ Returns(c)
    /\ UNCHANGED <<workflow, previews>>

\* run_step or record_host_step of a planned row, by its agents, and the move that follows
RunStep(i) ==
    /\ Live /\ rows[i].status = "planned" /\ workflow.status \in runs_from[rows[i].step]
    /\ rows' = [rows EXCEPT ![i].status = "done"]
    /\ workflow' = [workflow EXCEPT !.status = on_success[rows[i].step]]
    /\ UNCHANGED <<previews, call>>

\* The host takes a step that is none of these: its test passes.
HostStep ==
    /\ Live
    /\ \E s \in {"plan", "implement", "test"} \ Routed :
         /\ workflow.status \in runs_from[s]
         /\ workflow' = [workflow EXCEPT !.status = on_success[s]]
    /\ UNCHANGED <<previews, rows, call>>

CancelWorkflow ==
    /\ Live
    /\ workflow' = [workflow EXCEPT !.status = "cancelled"]
    /\ UNCHANGED <<previews, rows, call>>

Next ==
    \/ \E c \in Callers : \/ PlanReplan(c) \/ StageReplan(c) \/ Replan(c) \/ ConsumeReplan(c)
                          \/ PlanStep(c) \/ Supersede(c) \/ InsertStep(c)
    \/ \E i \in 1 .. Len(rows) : RunStep(i)
    \/ HostStep \/ CancelWorkflow

Spec == Init /\ [][Next]_vars

-----------------------------------------------------------------------------
(* Properties. *)

TypeOK ==
    /\ workflow \in Workflow
    /\ previews \in Seq(Preview) /\ rows \in Seq(Row)
    /\ call \in [Callers -> Call]

\* The routing changes only to what the preview behind the presented token showed, and the
\* workflow's hash is the new routing's, though what is staged is read in one transaction
\* and adopted in another.
AdoptedAsApproved ==
    [][workflow'.bindings # workflow.bindings \/ workflow'.workflow_hash # workflow.workflow_hash
         => \E c \in Callers :
              /\ call[c].pc = "adopting"
              /\ workflow'.bindings = previews[call[c].token].bindings
              /\ workflow'.workflow_hash = workflow'.bindings]_vars
===============================================================================
