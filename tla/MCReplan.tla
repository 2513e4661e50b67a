------------------------------- MODULE MCReplan -------------------------------
(* Replan for TLC: the calls are interchangeable, and so are the agents. *)
EXTENDS Replan, TLC

Symmetry == Permutations(Callers) \cup Permutations(Agents)
===============================================================================
