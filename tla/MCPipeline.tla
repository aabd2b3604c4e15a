---------------------------- MODULE MCPipeline ----------------------------
(* Instances of WakePipeline for TLC. *)
EXTENDS WakePipeline, TLC

Symmetry == Permutations(Agents) \cup Permutations(Ids) \cup Permutations(Streams)

=============================================================================
