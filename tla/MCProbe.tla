------------------------------ MODULE MCProbe ------------------------------
(* Two probe runs, which may overlap, of one agent; one delivery of another *)
(* route; a daemon that boots twice, is stopped or killed in between, and   *)
(* may fail to write the file.                                              *)
EXTENDS ProbeCycle, TLC

\* The runs are interchangeable.
Symmetry == Permutations(Probes)

=============================================================================
