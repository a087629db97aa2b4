------------------------------- MODULE MCDavTree -------------------------------
(* DavTree on small instances: a tree with one file, or one in each directory. *)
EXTENDS DavTree

MCInitialTrees == {<<"d", "x">> :> 1, (<<"d", "x">> :> 1) @@ (<<"e", "x">> :> 2)}
Symmetry == Permutations(Clients)
================================================================================
