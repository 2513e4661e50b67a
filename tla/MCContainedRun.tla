---------------------------- MODULE MCContainedRun ----------------------------
(***************************************************************************)
(* ContainedRun for TLC, with the two things a contained run takes from    *)
(* elsewhere: the sandbox its child is started under, and the reading of   *)
(* what the child printed.  Both are functions of their inputs; they are   *)
(* checked over all of them where the run comes to rest on them.           *)
(***************************************************************************)
EXTENDS ContainedRun, Sandbox, AgentTurn

(* While a child is up, it is one the sandbox really bounds, on whatever host
   let it be started (code/sandbox.py, verify; code/registry.py). *)
ChildIsBounded == child \in {"alive", "asked"} => BoundsAreMeasured

(* A run that was answered took a whole answer of the right session, from the
   configured model (consult/adapters/*.py). *)
OutcomeIsEarned == task.answered => AnswerIsEarned

(* The usage recorded with an answer says so when a count could not be read
   (consult/adapters/base.py, accounted). *)
OutcomeIsAccounted == task.answered => ShortUsageIsFlagged
===============================================================================
