----------------------------- MODULE MCBreaker -----------------------------
(* Instances of WakeRateBreaker for TLC. *)
EXTENDS WakeRateBreaker, TLC

Symmetry == Permutations(Agents)

=============================================================================
