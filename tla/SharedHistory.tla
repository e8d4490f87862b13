---------------------------- MODULE SharedHistory ----------------------------
(***************************************************************************)
(* What the shared identity log promises to its clients: one history of    *)
(* writes and snapshots that only grows, of which every machine has seen a *)
(* prefix, and an answer to each write that the history never contradicts. *)
(***************************************************************************)
EXTENDS Naturals, Sequences

CONSTANTS Machines, Requests, Snapshot

VARIABLES
    history,   \* the accepted writes and snapshot parts
    told,      \* what the client of each write knows
    view       \* how much of the history each machine has applied

Init ==
    /\ \A i \in 1..Len(history) : history[i] = Snapshot
    /\ told = [r \in Requests |-> "open"]
    /\ \A m \in Machines : view[m] \in 0..Len(history)

Accepted(r) == \E i \in 1..Len(history) : history[i] = r

\* A write is accepted once, and never after it was closed: answered without an
\* entry (refused, served from the cache, or made in the local store only).
Accept ==
    /\ Len(history') = Len(history) + 1
    /\ SubSeq(history', 1, Len(history)) = history
    /\ LET r == history'[Len(history) + 1] IN
       \/ r = Snapshot
       \/ r \in Requests /\ ~Accepted(r) /\ told[r] # "closed"
    /\ UNCHANGED <<told, view>>

\* The answers that r may get now: success only when some machine has applied the
\* write, closed only when it was not accepted, and no answer at any time.
MayTell(r, result) ==
    \/ result = told[r]
    \/ /\ told[r] = "open"
       /\ \/ result = "ok" /\ \E m \in Machines : \E i \in 1..view'[m] : history[i] = r
          \/ result = "closed" /\ ~Accepted(r)
          \/ result = "unknown"

\* A machine applies more of the history, or starts over with none of it.
Moves(m) == view'[m] \in {0} \cup view[m]..Len(history)

Tell ==
    /\ \A r \in Requests : MayTell(r, told'[r])
    /\ \A m \in Machines : Moves(m)
    /\ UNCHANGED history

Next == Accept \/ Tell

Spec == Init /\ [][Next]_<<history, told, view>>

=============================================================================
