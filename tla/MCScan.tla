------------------------------- MODULE MCScan -------------------------------
(* Instances of DependencyScan for TLC: two problems, and a record that links them when
   osv-scanner prints it. *)
EXTENDS DependencyScan

MCGroups == {[ids |-> {1}, names |-> {1}], [ids |-> {2}, names |-> {2}],
             [ids |-> {2}, names |-> {1, 2}]}
MCEvidence == {{}, {"low", "high"}}

=============================================================================
