------------------------- MODULE MCAgentMoveLiveness -------------------------
(* AgentMove with the faults its drivers go on after, and with a history       *)
(* variable: has the source process restarted?                                 *)
EXTENDS AgentMove

VARIABLE restarted

RecoverableFaults == {"lost", "crash", "refused", "busy", "operator"}

HistoryInit == Init /\ restarted = FALSE
HistoryNext == Next /\ restarted' = (restarted \/ SourceCrash)
HistorySpec == HistoryInit /\ [][HistoryNext]_<<vars, restarted>> /\ Fairness

\* While the source has not restarted, a source that finished aborting is thawed
\* for good: the client reconciles an unanswered prepare before the abort
\* (ParticipantClient, settle_pending of move_source.rs).
ThawedUnlessRestarted == ~restarted => AbortedSourceIsThawed

=============================================================================
