--------------------------- MODULE MCLivenessFeed ---------------------------
(* Small instances of LivenessFeed. *)
EXTENDS LivenessFeed

CONSTANTS r1, r2, a, b

FeedFaults == {"lost", "twice", "route", "host", "module"}
UpkeepFaults == {"lost", "route", "host", "module", "stamp"}
FeedSymmetry == Permutations(Routes) \cup Permutations(Modules)

=============================================================================
