------------------------------ MODULE MCCatalog ------------------------------
(* Small instances of Catalog. *)
EXTENDS Catalog

\* Plan 1 installs, the others upgrade.
MCSpecs ==
    [p \in Plans |-> [op |-> IF p = 1 THEN "install" ELSE "upgrade", range |-> Versions]]

\* Version 2 asks for a capability that version 1 did not.
MCCaps == [v \in Versions |-> IF v = 1 THEN {} ELSE {"t"}]

=============================================================================
