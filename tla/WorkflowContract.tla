--------------------------- MODULE WorkflowContract ---------------------------
(***************************************************************************)
(* The vocabulary of a workflow, from workflow/contract.py: the states a   *)
(* workflow can be in, the kinds of step, what each kind reads and writes, *)
(* which states it runs from and where its success leads.                  *)
(***************************************************************************)

WorkflowState == {"created", "planning", "prompt_ready", "coding",
                  "awaiting_host_apply", "testing", "reviewing", "synthesizing",
                  "fixing", "completed", "needs_attention", "failed", "cancelled"}

TERMINAL_STATES == {"completed", "needs_attention", "failed", "cancelled"}

Step == {"research", "plan", "author_execution_prompt", "implement",
         "apply_patch", "test", "review", "synthesize", "fix"}

Executor == {"host", "agent"}

StepStatus == {"planned", "running", "done", "failed", "abandoned", "cancelled"}

\* A step that has its outcome: nothing changes its row any more.
Finished == {"done", "failed", "abandoned", "cancelled"}

ReviewStatus == {"pending", "running", "awaiting_synthesis", "complete",
                 "failed", "cancelled"}

Artifact == {"research_brief", "implementation_plan", "execution_brief",
             "code_change", "test_report", "review_outcome", "synthesis"}

(***************************************************************************)
(* The table STEPS, one function per field.                                *)
(***************************************************************************)
runs_from == [research                |-> {"created"},
              plan                    |-> {"created", "planning"},
              author_execution_prompt |-> {"prompt_ready"},
              implement               |-> {"prompt_ready", "coding"},
              apply_patch             |-> {"awaiting_host_apply"},
              test                    |-> {"testing"},
              review                  |-> {"reviewing"},
              synthesize              |-> {"synthesizing"},
              fix                     |-> {"fixing"}]

on_success == [research                |-> "planning",
               plan                    |-> "prompt_ready",
               author_execution_prompt |-> "coding",
               implement               |-> "testing",
               apply_patch             |-> "testing",
               test                    |-> "reviewing",
               review                  |-> "synthesizing",
               synthesize              |-> "completed",
               fix                     |-> "testing"]

input_artifacts == [research                |-> {},
                    plan                    |-> {"research_brief"},
                    author_execution_prompt |-> {"implementation_plan"},
                    implement               |-> {"implementation_plan", "execution_brief"},
                    apply_patch             |-> {"code_change"},
                    test                    |-> {"code_change"},
                    review                  |-> {"code_change", "test_report"},
                    synthesize              |-> {"review_outcome"},
                    fix                     |-> {"implementation_plan", "test_report"}]

output_artifact == [research                |-> "research_brief",
                    plan                    |-> "implementation_plan",
                    author_execution_prompt |-> "execution_brief",
                    implement               |-> "code_change",
                    apply_patch             |-> "code_change",
                    test                    |-> "test_report",
                    review                  |-> "review_outcome",
                    synthesize              |-> "synthesis",
                    fix                     |-> "code_change"]

\* What `resolve` lets a binding be: only the host applies a patch, and a review
\* is never the host's (routing.py, HOST_REVIEW_REFUSAL).
executors == [s \in Step |-> CASE s = "apply_patch" -> {"host"}
                               [] s = "review"      -> {"agent"}
                               [] OTHER             -> Executor]
===============================================================================
