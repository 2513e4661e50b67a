----------------------------- MODULE MCWorkflow -----------------------------
(***************************************************************************)
(* Small instances of Workflow for TLC.                                    *)
(***************************************************************************)
EXTENDS Workflow, TLC, Sequences

CONSTANTS c1, c2, baseline, k1

TwoCallers == {c1, c2}
OneCaller == {c1}
Symmetry == Permutations(TwoCallers)
TwoCommits == {baseline, k1}

\* Every step the host's but the review, which is never the host's.
HostBindings == [s \in Step |-> IF s = "review" THEN {"agent"} ELSE {"host"}]
\* Every step an agent's that can be.
AgentBindings == [s \in Step |-> IF s = "apply_patch" THEN {"host"} ELSE {"agent"}]
EitherBindings == executors
\* The fix rounds an agent's, and the patches the host's to apply.
FixBindings == [s \in Step |-> IF s \in {"review", "fix"} THEN {"agent"} ELSE {"host"}]

LoopKinds == {"apply_patch", "test", "review", "synthesize", "fix"}
ShortKinds == {"plan", "implement", "apply_patch", "test", "review", "synthesize"}

(***************************************************************************)
(* A workflow whose first steps are behind it: planned and implemented by  *)
(* the host, one step after the other, with nothing in flight.  The rows   *)
(* of those steps count towards MaxSteps.                                  *)
(***************************************************************************)
DoneRow(kind) == [Blank EXCEPT !.step = kind, !.status = "done"]

StartAt(status, rounds, rows) ==
    /\ workflow = [status |-> status, fix_rounds |-> rounds, result_commit |-> NoCommit]
    /\ steps = [i \in Sid |-> IF i \in DOMAIN rows THEN rows[i] ELSE Blank]
    /\ sequence = Len(rows)
    /\ patches = {}
    /\ call = [c \in Callers |-> Idle]
    /\ crashes = 0

InitTesting == StartAt("testing", 0, <<DoneRow("plan"), DoneRow("implement")>>)
TestingSpec == InitTesting /\ [][Next]_vars

(***************************************************************************)
(* ... or one in its first fix round: two tests were planned, the second   *)
(* of them was run, its review was finalized with a serious finding open.  *)
(***************************************************************************)
InitFixing ==
    StartAt("fixing", 1,
            <<DoneRow("plan"), DoneRow("implement"),
              [DoneRow("test") EXCEPT !.status = "planned"],
              [DoneRow("test") EXCEPT !.report = "passed", !.commit = Baseline],
              [DoneRow("review") EXCEPT !.executor = "agent", !.review = "complete"],
              DoneRow("synthesize")>>)
FixingSpec == InitFixing /\ [][Next]_vars
=============================================================================
