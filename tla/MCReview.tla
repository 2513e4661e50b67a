------------------------------ MODULE MCReview -------------------------------
(***************************************************************************)
(* Review for TLC: the calls are of one server process.  What is read out  *)
(* of the reviewers' answers is a function of them, and is checked over    *)
(* all of them where the review comes to rest on it.                       *)
(***************************************************************************)
EXTENDS Review, ReviewFindings

CONSTANT p1

OneProcess == [c \in Callers |-> p1]

(* A review is complete only with a summary that carries every serious finding
   of its reviewers (review/service.py, _finalize; contract.py, missing_serious). *)
CompleteCarriesFindings == review.status = "complete" => SeriousFindingsSurvive

(* The answers of a settled recheck never call a finding resolved that one of its
   reviewers still sees (review/contract.py, finding_status). *)
RecheckIsHonest == review.status \in {"awaiting_synthesis", "complete"} => ResolvedIsEarned
===============================================================================
