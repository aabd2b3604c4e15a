---------------------------- MODULE MCScheduler ----------------------------
(* Instances of WakeScheduler for TLC: the sets are given in the .cfg, the  *)
(* symmetry of agents and job names is declared here (safety runs only).    *)
EXTENDS WakeScheduler, TLC

Symmetry == Permutations(Agents) \cup Permutations(JobIds)

=============================================================================
