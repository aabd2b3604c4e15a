------------------------------ MODULE MCGithub ------------------------------
(* Instances of GithubRoute for TLC. *)
EXTENDS GithubRoute

CONSTANTS i1, i2, p1, p2

\* The first pull request names i1, the second nothing.
MCNamed == [p \in Pulls |-> IF p = p1 THEN {i1} ELSE {}]

\* Two issues that push each other out of a ledger of one; and two handoffs with two of
\* the captain's pull requests.
MCSetups ==
  {[here |-> {i1}, pulls |-> {}, senders |-> {"trusted"}, capacity |-> 1],
   [here |-> {i1, i2}, pulls |-> {p1, p2}, senders |-> {"captain"}, capacity |-> 2]}

=============================================================================
