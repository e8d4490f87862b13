---------------------------- MODULE MoveDecision ----------------------------
(***************************************************************************)
(* What moving an agent promises, for any protocol that moves it: the move *)
(* is decided once, the agent runs at home until it is paused, it runs     *)
(* away only after a decision to move and only while home is paused, and   *)
(* home gives its copy up only when the agent runs away.                   *)
(***************************************************************************)
VARIABLES
    decision,  \* "open", then "commit" or "abort" for ever
    home,      \* the agent on the source machine: running, paused or gone
    away       \* the agent on the receiving machine: absent or running

vars == <<decision, home, away>>

Init == decision = "open" /\ home = "running" /\ away = "absent"

\* The agent stops writing at home.
Pause == /\ decision # "commit" /\ home = "running"
         /\ home' = "paused"
         /\ UNCHANGED <<decision, away>>

\* The one decision; only a paused agent may be moved.
Decide == /\ decision = "open"
          /\ decision' \in {"abort"} \cup (IF home = "paused" THEN {"commit"} ELSE {})
          /\ UNCHANGED <<home, away>>

\* An aborted move lets the agent run at home again.
Resume == /\ decision = "abort" /\ home = "paused"
          /\ home' = "running"
          /\ UNCHANGED <<decision, away>>

\* A committed move starts the agent away.
Start == /\ decision = "commit" /\ home = "paused" /\ away = "absent"
         /\ away' = "running"
         /\ UNCHANGED <<decision, home>>

\* Home lets go of its copy.
Leave == /\ away = "running" /\ home = "paused"
         /\ home' = "gone"
         /\ UNCHANGED <<decision, away>>

Next == Pause \/ Decide \/ Resume \/ Start \/ Leave

Spec == Init /\ [][Next]_vars

=============================================================================
