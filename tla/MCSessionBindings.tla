------------------------- MODULE MCSessionBindings -------------------------
(***************************************************************************)
(* Instances of SessionBindings.  The requests reach a re-key, a change of *)
(* host, another agent on the same reference, and a runner's session under *)
(* two references.                                                         *)
(***************************************************************************)
EXTENDS SessionBindings, TLC

Req(g, kind, ref, h, s, r, net) ==
    [agent |-> g, key |-> <<kind, ref>>, harness |-> h, session |-> s,
     runner |-> r, net |-> net]

MCRequests ==
    { Req("g1", "oc1", "x", "h1", "s", "r", "yes"),
      Req("g1", "oc1", "y", "h1", "s", None, "no"),
      Req("g1", "oc2", "x", "h2", "s", "r", None),
      Req("g1", "oc2", "x", "h2", "t", None, None),
      Req("g2", "oc1", "x", "h1", "s", None, None) }

Symmetry == Permutations(Machines)

=============================================================================
