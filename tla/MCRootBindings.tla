--------------------------- MODULE MCRootBindings ---------------------------
(* Small instances of RootBindings. *)
EXTENDS RootBindings, TLC

Symmetry == Permutations(Projects)
=============================================================================
