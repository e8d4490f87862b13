------------------------------ MODULE MCConsent ------------------------------
(* Small instances of Consent: two hires of different names, and a retirement. *)
EXTENDS Consent, TLC

CONSTANTS c, d, h, i, t, x, y, v, w

MCTools == [r \in Requests |-> IF r = t THEN "retire" ELSE "hire"]
MCArgs == [r \in Requests |-> CASE r = h -> {x} [] r = i -> {y} [] OTHER -> {x, y}]
AllFaults == Faults

\* A hire is exchanged together with its name.
Hires == {[a \in {h, i, x, y} |-> CASE a = h -> i [] a = i -> h [] a = x -> y [] OTHER -> x]}
Symmetry == Permutations(Calls) \cup Permutations(Workspaces) \cup Hires

=============================================================================
