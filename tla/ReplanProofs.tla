---------------------------- MODULE ReplanProofs -----------------------------
(***************************************************************************)
(* What is adopted is what was approved, for any number of calls, previews *)
(* and steps.  A token is issued with its preview and with what is staged; *)
(* so a call that finds its token still staged has read, before, the very  *)
(* bindings that are adopted: a later preview would have another token.    *)
(***************************************************************************)
EXTENDS Replan, TLAPS

\* What is staged is what the preview behind the staged token showed.
Parked ==
    workflow.replan_bindings # Unstaged =>
        /\ workflow.replan_token \in 1 .. Len(previews)
        /\ previews[workflow.replan_token].bindings = workflow.replan_bindings

\* A call that adopts holds a token that was issued; if that is the staged one's, it read
\* what is staged.
Fits(k) ==
    /\ k.pc = "staging" => k.bindings \in Routing
    /\ k.pc = "adopting" =>
         /\ k.token \in 1 .. Len(previews)
         /\ Confirmed(k.token) => k.bindings = workflow.replan_bindings

Inv == TypeOK /\ Parked /\ \A c \in Callers : Fits(call[c])

LEMMA IdleIsCall == Idle \in Call /\ (Routed # {} => Fits(Idle))
  BY RoutedAssumption DEF Idle, Call, Fits, NoToken

LEMMA Fields ==
  ASSUME Inv
  PROVE  /\ workflow.status \in WorkflowState /\ workflow.bindings \in Routing
         /\ workflow.workflow_hash \in Routing /\ workflow.replan_token \in Nat
         /\ workflow.replan_bindings \in Routing \cup {Unstaged}
         /\ \A c \in Callers : call[c] \in Call
  BY DEF Inv, TypeOK, Workflow

\* A step of one call that leaves the record of the routing alone.
LEMMA CallStep ==
  ASSUME Inv, NEW c \in Callers, NEW k \in Call, Fits(k),
         call' = [call EXCEPT ![c] = k], UNCHANGED <<workflow, previews>>
  PROVE  /\ call' \in [Callers -> Call] /\ workflow' \in Workflow
         /\ previews' \in Seq(Preview) /\ Parked'
         /\ \A d \in Callers : Fits(call[d])'
  <1>1. call' \in [Callers -> Call] /\ workflow' \in Workflow /\ previews' \in Seq(Preview)
    BY DEF Inv, TypeOK
  <1>2. Parked'
    BY DEF Inv, Parked
  <1>3. ASSUME NEW d \in Callers PROVE Fits(call[d])'
    <2>1. Fits(call'[d])
      BY DEF Inv, TypeOK
    <2> QED BY <2>1 DEF Fits, Confirmed
  <1> QED BY <1>1, <1>2, <1>3

\* The workflow with another routing.
LEMMA AdoptedFields ==
  ASSUME NEW w \in Workflow, NEW b \in Routing, NEW h \in Routing
  PROVE  /\ [w EXCEPT !.bindings = b, !.workflow_hash = h, !.replan_bindings = Unstaged,
                      !.replan_token = NoToken] \in Workflow
         /\ [w EXCEPT !.bindings = b, !.workflow_hash = h, !.replan_bindings = Unstaged,
                      !.replan_token = NoToken].replan_bindings = Unstaged
  BY DEF Workflow, NoToken

LEMMA ReroutedIsRouting ==
  ASSUME Inv, NEW named \in SUBSET Routed, NEW resolved \in Routing, named # {}
  PROVE  Rerouted(named, resolved) \in [Routed -> SUBSET Agents]
  BY Fields DEF Rerouted, Routing

LEMMA StepPlanReplan ==
  ASSUME Inv, NEW c \in Callers, PlanReplan(c)
  PROVE  Inv'
  <1>1. PICK named \in (SUBSET Routed) \ {{}}, resolved \in Routing :
          call' = [call EXCEPT ![c] = [Idle EXCEPT !.pc = "staging", !.asked = named,
                                                   !.bindings = Rerouted(named, resolved)]]
    BY DEF PlanReplan
  <1>2. Rerouted(named, resolved) \in Routing
    <2>1. workflow.bindings \in Routing
      BY Fields
    <2>2. Rerouted(named, resolved)["review"] # {}
      BY <2>1, RoutedAssumption DEF Rerouted, Routing
    <2>3. \A s \in Routed \ {"review"} : Cardinality(Rerouted(named, resolved)[s]) <= 1
      BY <2>1 DEF Rerouted, Routing
    <2> QED BY <2>2, <2>3, ReroutedIsRouting DEF Routing
  <1> DEFINE k == [Idle EXCEPT !.pc = "staging", !.asked = named,
                               !.bindings = Rerouted(named, resolved)]
  <1>3. k \in Call /\ Fits(k)
    BY <1>2, RoutedAssumption DEF Idle, Call, Fits, NoToken
  <1> QED BY <1>1, <1>3, CallStep DEF Inv, TypeOK, PlanReplan

LEMMA StepStageReplan ==
  ASSUME Inv, NEW c \in Callers, StageReplan(c)
  PROVE  Inv'
  <1> DEFINE r == call[c].bindings
             n == Len(previews)
             p == [asked |-> call[c].asked, bindings |-> r]
  <1>1. r \in Routing /\ p \in Preview /\ n \in Nat /\ previews \in Seq(Preview)
    BY DEF Inv, Fits, StageReplan, TypeOK, Call, Preview
  <1>2. /\ previews' = Append(previews, p) /\ previews' \in Seq(Preview) /\ Len(previews') = n + 1
        /\ previews'[n + 1] = p /\ \A i \in 1 .. n : previews'[i] = previews[i]
    BY <1>1 DEF StageReplan
  <1>3. /\ workflow' \in Workflow /\ workflow'.replan_bindings = r
        /\ workflow'.replan_token = n + 1
    <2>1. workflow' = [workflow EXCEPT !.replan_bindings = r, !.replan_token = n + 1]
      BY DEF StageReplan, Token
    <2>2. workflow \in Workflow /\ n + 1 \in Nat /\ r \in Routing \cup {Unstaged}
      BY <1>1 DEF Inv, TypeOK
    <2> HIDE DEF n, r
    <2>3. workflow'.replan_bindings = r /\ workflow'.replan_token = n + 1
      BY <2>1, <2>2 DEF Workflow
    <2>4. workflow' \in Workflow
      BY <2>1, <2>2 DEF Workflow
    <2> QED BY <2>3, <2>4
  <1>4. Parked'
    BY <1>1, <1>2, <1>3 DEF Parked
  <1>5. call' = [call EXCEPT ![c] = Idle] /\ call' \in [Callers -> Call]
    BY IdleIsCall DEF StageReplan, Returns, Inv, TypeOK
  <1>6. ASSUME NEW d \in Callers PROVE Fits(call[d])'
    <2>1. CASE d = c
      BY <2>1, <1>5 DEF Inv, TypeOK, Fits, Idle
    <2>2. CASE d # c
      <3>1. call'[d] = call[d] /\ Fits(call[d])
        BY <2>2, <1>5 DEF Inv, TypeOK
      <3>2. call[d].pc = "adopting" => call[d].token # n + 1 /\ call[d].token \in 1 .. n + 1
        BY <3>1, <1>1 DEF Fits
      <3> QED BY <3>1, <3>2, <1>2, <1>3 DEF Fits, Confirmed
    <2> QED BY <2>1, <2>2
  <1> QED BY <1>2, <1>3, <1>4, <1>5, <1>6 DEF Inv, TypeOK, StageReplan

LEMMA StepReplan ==
  ASSUME Inv, NEW c \in Callers, Replan(c)
  PROVE  Inv'
  <1>1. PICK t \in 1 .. Len(previews) :
          call' = [call EXCEPT ![c] = [Idle EXCEPT !.pc = "adopting", !.token = t,
                                                   !.bindings = workflow.replan_bindings]]
    BY DEF Replan
  <1> DEFINE k == [Idle EXCEPT !.pc = "adopting", !.token = t,
                               !.bindings = workflow.replan_bindings]
  <1>2. Len(previews) \in Nat /\ workflow.replan_bindings \in Routing \cup {Unstaged}
    BY Fields DEF Inv, TypeOK
  <1>3. /\ k.pc = "adopting" /\ k.token = t /\ k.bindings = workflow.replan_bindings
        /\ t \in Nat
    BY <1>2 DEF Idle
  <1>5. k \in Call
    BY <1>2, <1>3, RoutedAssumption DEF Idle, Call, NoToken
  <1>4. Fits(k)
    BY <1>3 DEF Fits
  <1> QED BY <1>1, <1>4, <1>5, CallStep DEF Inv, TypeOK, Replan

LEMMA StepConsumeReplan ==
  ASSUME Inv, NEW c \in Callers, ConsumeReplan(c)
  PROVE  Inv'
  <1>1. call' = [call EXCEPT ![c] = Idle] /\ call' \in [Callers -> Call]
    BY IdleIsCall DEF ConsumeReplan, Returns, Inv, TypeOK
  <1>2. CASE Confirmed(call[c].token)
    <2>1. /\ workflow.replan_bindings \in Routing
          /\ call[c].bindings = workflow.replan_bindings
      BY <1>2, Fields DEF Inv, Fits, ConsumeReplan, Confirmed
    <2>2. workflow' \in Workflow /\ workflow'.replan_bindings = Unstaged
      <3>1. workflow' = [workflow EXCEPT !.bindings = workflow.replan_bindings,
                                         !.workflow_hash = call[c].bindings,
                                         !.replan_bindings = Unstaged, !.replan_token = NoToken]
        BY <1>2 DEF ConsumeReplan
      <3>2. /\ workflow \in Workflow /\ NoToken \in Nat /\ Unstaged \in Routing \cup {Unstaged}
            /\ call[c].bindings \in Routing
        BY <2>1 DEF Inv, TypeOK, NoToken
      <3> QED BY <3>1, <3>2, <2>1, AdoptedFields
    <2>3. \A d \in Callers : Fits(call[d])'
      BY <1>1, <2>2 DEF Inv, TypeOK, Fits, Confirmed, Idle, ConsumeReplan
    <2> QED BY <1>1, <2>2, <2>3 DEF Inv, TypeOK, Parked, ConsumeReplan
  <1>3. CASE ~Confirmed(call[c].token)
    BY <1>3, IdleIsCall, RoutedAssumption, CallStep
       DEF ConsumeReplan, Returns, Inv, TypeOK
  <1> QED BY <1>2, <1>3

LEMMA StepPlanStep ==
  ASSUME Inv, NEW c \in Callers, PlanStep(c)
  PROVE  Inv'
  <1>1. PICK s \in Routed :
          call' = [call EXCEPT ![c] =
                     [Idle EXCEPT !.pc = IF s = "review" THEN "superseding" ELSE "inserting",
                                  !.step = s, !.agents = workflow.bindings[s]]]
    BY DEF PlanStep
  <1> DEFINE k == [Idle EXCEPT !.pc = IF s = "review" THEN "superseding" ELSE "inserting",
                               !.step = s, !.agents = workflow.bindings[s]]
  <1>2. workflow.bindings[s] \in SUBSET Agents
    BY Fields DEF Routing
  <1>3. k \in Call /\ Fits(k)
    BY <1>2, RoutedAssumption DEF Idle, Call, Fits, NoToken
  <1> QED BY <1>1, <1>3, CallStep DEF Inv, TypeOK, PlanStep

LEMMA StepSupersede ==
  ASSUME Inv, NEW c \in Callers, Supersede(c)
  PROVE  Inv'
  <1> DEFINE k == [call[c] EXCEPT !.pc = "inserting"]
  <1>1. k \in Call /\ Fits(k)
    BY Fields DEF Call, Fits
  <1>2. call' = [call EXCEPT ![c] = k]
    BY DEF Supersede
  <1>3. rows' \in Seq(Row)
    <2>1. rows \in Seq(Row) /\ Len(rows) \in Nat
      BY DEF Inv, TypeOK
    <2>2. \A i \in 1 .. Len(rows) : rows[i] \in Row
      BY <2>1
    <2>3. \A i \in 1 .. Len(rows) : [rows[i] EXCEPT !.status = "cancelled"] \in Row
      BY <2>2 DEF Row
    <2>4. rows' \in [1 .. Len(rows) -> Row]
      BY <2>2, <2>3, Zenon DEF Supersede
    <2> QED BY <2>1, <2>4
  <1> QED BY <1>1, <1>2, <1>3, CallStep DEF Inv, TypeOK, Supersede

LEMMA StepInsertStep ==
  ASSUME Inv, NEW c \in Callers, InsertStep(c)
  PROVE  Inv'
  <1>1. rows' \in Seq(Row)
    <2>1. [step |-> call[c].step, agents |-> call[c].agents, status |-> "planned"] \in Row
      BY Fields DEF Call, Row
    <2> QED BY <2>1 DEF Inv, TypeOK, InsertStep
  <1> QED BY <1>1, IdleIsCall, RoutedAssumption, CallStep DEF Inv, TypeOK, InsertStep, Returns

\* A step that moves the workflow leaves its routing.
LEMMA Moves ==
  ASSUME Inv, NEW s \in WorkflowState, workflow' = [workflow EXCEPT !.status = s],
         UNCHANGED <<previews, call>>, rows' \in Seq(Row)
  PROVE  Inv'
  <1>1. /\ workflow' \in Workflow /\ workflow'.replan_bindings = workflow.replan_bindings
        /\ workflow'.replan_token = workflow.replan_token
    BY DEF Inv, TypeOK, Workflow
  <1> QED BY <1>1 DEF Inv, TypeOK, Parked, Fits, Confirmed

LEMMA Successes == \A s \in Step : on_success[s] \in WorkflowState
  BY DEF Step, on_success, WorkflowState

LEMMA StepRunStep ==
  ASSUME Inv, NEW i \in 1 .. Len(rows), RunStep(i)
  PROVE  Inv'
  <1>1. rows \in Seq(Row) /\ rows[i] \in Row
    BY DEF Inv, TypeOK
  <1>4. rows[i].step \in Step
    BY <1>1, RoutedAssumption DEF Row, Step
  <1>2. [rows[i] EXCEPT !.status = "done"] \in Row
    BY <1>1 DEF Row
  <1>3. rows' \in Seq(Row)
    BY <1>1, <1>2 DEF RunStep
  <1> QED BY <1>1, <1>3, <1>4, Moves, Successes DEF RunStep

LEMMA InvInit ==
  ASSUME Init
  PROVE  Inv
  <1>1. workflow \in Workflow /\ workflow.replan_bindings = Unstaged
    BY DEF Init, Workflow, WorkflowState, NoToken
  <1>2. call \in [Callers -> Call] /\ \A c \in Callers : Fits(call[c])
    BY IdleIsCall, RoutedAssumption DEF Init
  <1> QED BY <1>1, <1>2 DEF Init, Inv, TypeOK, Parked

LEMMA InvStep ==
  ASSUME Inv, [Next]_vars
  PROVE  Inv'
  <1>1. CASE HostStep
    BY <1>1, Moves, Successes DEF HostStep, Step, Inv, TypeOK
  <1>2. CASE CancelWorkflow
    BY <1>2, Moves DEF CancelWorkflow, WorkflowState, Inv, TypeOK
  <1>3. CASE UNCHANGED vars
    BY <1>3 DEF vars, Inv, TypeOK, Parked, Fits, Confirmed
  <1> QED BY <1>1, <1>2, <1>3, StepPlanReplan, StepStageReplan, StepReplan, StepConsumeReplan,
             StepPlanStep, StepSupersede, StepInsertStep, StepRunStep DEF Next

\* The inductive invariant.
THEOREM InvHolds == Spec => []Inv
  BY InvInit, InvStep, PTL DEF Spec

\* No replan is adopted that differs from what its preview showed, and the workflow's hash
\* is that of the routing it has, whatever was staged between its reads and its writes.
THEOREM ApprovedIsAdopted == Spec => AdoptedAsApproved
  <1> DEFINE A == workflow'.bindings # workflow.bindings
                    \/ workflow'.workflow_hash # workflow.workflow_hash
                  => \E c \in Callers :
                       /\ call[c].pc = "adopting"
                       /\ workflow'.bindings = previews[call[c].token].bindings
                       /\ workflow'.workflow_hash = workflow'.bindings
  <1>1. ASSUME Inv, [Next]_vars PROVE A
    <2>1. ASSUME NEW c \in Callers, ConsumeReplan(c) PROVE A
      <3>1. CASE Confirmed(call[c].token)
        <4>0. /\ workflow \in Workflow
              /\ workflow' = [workflow EXCEPT !.bindings = workflow.replan_bindings,
                                              !.workflow_hash = call[c].bindings,
                                              !.replan_bindings = Unstaged,
                                              !.replan_token = NoToken]
          BY <1>1, <2>1, <3>1 DEF ConsumeReplan, Inv, TypeOK
        <4>1. workflow'.bindings = workflow.replan_bindings
          BY <4>0 DEF Workflow
        <4>2. workflow'.workflow_hash = call[c].bindings
          BY <4>0 DEF Workflow
        <4>3. /\ call[c].pc = "adopting" /\ call[c].bindings = workflow.replan_bindings
              /\ previews[call[c].token].bindings = workflow.replan_bindings
          BY <1>1, <2>1, <3>1 DEF ConsumeReplan, Inv, Fits, Parked, Confirmed
        <4> QED BY <4>1, <4>2, <4>3
      <3>2. CASE ~Confirmed(call[c].token)
        BY <2>1, <3>2 DEF ConsumeReplan
      <3> QED BY <3>1, <3>2
    <2>2. ASSUME NEW c \in Callers, StageReplan(c) PROVE A
      BY <1>1, <2>2 DEF StageReplan, Inv, TypeOK, Workflow
    <2>3. ASSUME NEW c \in Callers,
                 PlanReplan(c) \/ Replan(c) \/ PlanStep(c) \/ Supersede(c) \/ InsertStep(c)
          PROVE  A
      BY <2>3 DEF PlanReplan, Replan, PlanStep, Supersede, InsertStep
    <2>4. ASSUME NEW i \in 1 .. Len(rows), RunStep(i) PROVE A
      BY <1>1, <2>4 DEF RunStep, Inv, TypeOK, Workflow
    <2>5. CASE HostStep
      BY <1>1, <2>5 DEF HostStep, Inv, TypeOK, Workflow
    <2>6. CASE CancelWorkflow
      BY <1>1, <2>6 DEF CancelWorkflow, Inv, TypeOK, Workflow
    <2>7. CASE UNCHANGED vars
      BY <2>7 DEF vars
    <2> QED BY <1>1, <2>1, <2>2, <2>3, <2>4, <2>5, <2>6, <2>7 DEF Next
  <1>2. Inv /\ [Next]_vars => [A]_vars
    BY <1>1
  <1> QED BY <1>2, InvHolds, PTL DEF Spec, AdoptedAsApproved
===============================================================================
