-------------------------- MODULE MCConfigFreshness --------------------------
(* ConfigFreshness on small instances: where the processes run. *)
EXTENDS ConfigFreshness, TLC

\* A server and a command on one device.
Shared == [s \in Procs |-> 1]

Symmetry == Permutations(Procs)
================================================================================
