----------------------------- MODULE MCAgentMove -----------------------------
(* Fault mixes for checking AgentMove. *)
EXTENDS AgentMove

AllFaults == Faults
OnlyLost == {"lost"}

=============================================================================
