------------------------------ MODULE MCAuthLimit ------------------------------
(* AuthLimit on small instances: model values for the names, small policies. *)
EXTENDS AuthLimit, TLC

Symmetry == Permutations(Handlers) \cup Permutations(Peers)
================================================================================
