---------------------------- MODULE MCAgentsFile -----------------------------
(***************************************************************************)
(* AgentsFile for TLC: threads are interchangeable, and so are agent ids.  *)
(***************************************************************************)
EXTENDS AgentsFile, TLC

Symmetry == Permutations(Threads) \cup Permutations(Ids)
===============================================================================
