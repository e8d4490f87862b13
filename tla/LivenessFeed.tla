---------------------------- MODULE LivenessFeed ----------------------------
(***************************************************************************)
(* The session liveness feed: a session host numbers its reports and sends *)
(* them to the module, which keeps a mirror of the host's sessions in      *)
(* memory, answers from it, and queues an end stamp for every session that *)
(* was reported gone.  Reports may be lost, delayed, repeated or overtaken;*)
(* the host may lose its route, or be replaced by another process that     *)
(* counts from one again; the module may restart with an empty mirror.     *)
(*                                                                         *)
(* A report is admitted against the principal of its route, and applied to *)
(* the mirror in a later step: the handler holds no lock in between, and   *)
(* on_bind and on_route_gone run on other threads, so that the route of a  *)
(* batch may close, or be bound anew, between the two.  End stamps are     *)
(* written by a background task, one transaction at a time.                *)
(***************************************************************************)
EXTENDS Naturals, FiniteSets, SequencesExt

CONSTANTS
    Keys,            \* session keys, in the order of the mirror's gone set
    Routes,
    Modules,         \* modules that provide agent-host/v1, one at a time
    GoneCap,         \* GONE_SESSIONS_CAP (4096 in the code)
    PendingCap,      \* PENDING_CAP (8192 in the code)
    MaxChanges,      \* bound on state changes of host sessions
    MaxRuns,         \* bound on registrations
    Faults,          \* the kinds of fault a run allows, a subset of AllFaults
    MaxFaults,       \* bound on faults
    MaxFlight        \* bound on batches under way

\* "lost": a report or its reply is lost; "twice": a report is delivered
\* again; "route": a route closes; "host": the host process is replaced;
\* "module": the module restarts; "stamp": a stamp transaction fails.
AllFaults == {"lost", "twice", "route", "host", "module", "stamp"}

None == "none"

ASSUME ConstantsAssumption ==
    /\ Keys \subseteq Nat
    /\ None \notin Routes \cup Modules
    /\ GoneCap \in Nat /\ PendingCap \in Nat /\ MaxChanges \in Nat
    /\ MaxRuns \in Nat /\ MaxFaults \in Nat /\ MaxFlight \in Nat
    /\ Faults \subseteq AllFaults

VARIABLES
    host,      \* the host process that runs now
    shown,     \* what each host process had reported after each batch it sent
    flight,    \* batches sent, not yet received
    admitted,  \* batches past admission, not yet applied
    orphaned,  \* of these, the batches whose route closed or was bound anew
    bound,     \* the principal the daemon stamped on each route
    mirror,    \* LivenessState
    source,    \* the host process whose batch the mirror took last
    late,      \* whether the mirror's sender, and the content it was built on,
               \* came with an orphaned batch
    upkeep,    \* the end-stamp queue, its wake permit, and the writer's job
    binding,   \* per session key: how often it was registered, whether it
               \* ended, and the registration whose end was stamped
    changes,
    faults

vars == <<host, shown, flight, admitted, orphaned, bound, mirror, source, late,
          upkeep, binding, changes, faults>>
hostVars == <<host, shown, changes>>
wire == <<flight, admitted, orphaned, bound>>
mirrorVars == <<mirror, source, late>>
stamps == <<upkeep, binding>>

NoSender == [route |-> None, module |-> None]
Absent == [k \in Keys |-> "absent"]

\* A session's state as the feed carries it.  "open" stands for `active` and
\* `idle`, "odd" for `lapsed` and every state this build does not know.
Tracked == {"open", "odd"}
Lives == DOMAIN shown

EmptyMirror == [seq |-> 0, stale |-> TRUE, sender |-> NoSender,
                sessions |-> Absent, gone |-> {}]
OnTime == [sender |-> FALSE, content |-> FALSE]
IdleUpkeep == [queue |-> <<>>, wake |-> FALSE, job |-> <<>>]

Fault(kind) ==
    /\ kind \in Faults
    /\ faults < MaxFaults
    /\ faults' = faults + 1

-----------------------------------------------------------------------------
(* The host.  A batch carries the sender's route and principal, its number, *)
(* and the states it reports.                                              *)

Batch(snapshot, entries) ==
    [route |-> host.route, module |-> host.module, life |-> host.life,
     seq |-> host.seq + 1, snapshot |-> snapshot, entries |-> entries]

\* The host numbers what it reports; without a route the report is lost.
Report(snapshot, state, entries) ==
    /\ Cardinality(flight \cup admitted) < MaxFlight
    /\ flight' = IF host.route = None THEN flight
                 ELSE flight \cup {Batch(snapshot, entries)}
    /\ shown' = [shown EXCEPT ![host.life] = Append(@, state)]
    /\ host' = [host EXCEPT !.live = state, !.seq = @ + 1,
                            !.wants = @ /\ ~snapshot]

\* A session of the host changes, and the host pushes the change.
Change(k, s) ==
    /\ changes < MaxChanges
    /\ host.live[k] # s
    /\ s = "gone" => host.live[k] \in Tracked
    /\ Report(FALSE, [host.live EXCEPT ![k] = s], [x \in {k} |-> s])
    /\ changes' = changes + 1
    /\ UNCHANGED <<admitted, orphaned, bound, mirrorVars, stamps, faults>>

\* A host that reconnected, or was asked, sends everything it tracks.
Snapshot ==
    /\ host.route # None
    /\ host.wants
    /\ LET now == {k \in Keys : host.live[k] \in Tracked}
       IN Report(TRUE, [k \in Keys |-> IF k \in now THEN host.live[k]
                                       ELSE "absent"],
                 [k \in now |-> host.live[k]])
    /\ UNCHANGED <<admitted, orphaned, bound, mirrorVars, stamps, changes, faults>>

\* The batches of a route, which what happens to the route does not take out of
\* their handlers.
OnRoute(r) == {b \in admitted : b.route = r}

\* Faulty: a rebound route leaves the mirror alone.
BindKeepsMirror(r) == mirror

\* on_bind: the route had another principal, which was the last sender.
OnBind(r) ==
    [mirror EXCEPT !.stale = @ \/ (bound[r] # None /\ mirror.sender.route = r)]

\* The daemon closes a provider's routes before the next one can bind.
Connect(r) ==
    /\ host.route = None
    /\ bound[r] # host.module
    /\ \A q \in Routes \ {r} : bound[q] = None
    /\ host' = [host EXCEPT !.route = r, !.wants = TRUE]
    /\ bound' = [bound EXCEPT ![r] = host.module]
    /\ mirror' = OnBind(r)
    /\ flight' = {b \in flight : b.route # r}
    /\ orphaned' = orphaned \cup OnRoute(r)
    /\ UNCHANGED <<shown, admitted, source, late, stamps, changes, faults>>

\* A new process knows no session yet; it may be another module.
Replace(m) ==
    /\ Fault("host")
    /\ host' = [module |-> m, life |-> host.life + 1, route |-> None,
                seq |-> 0, live |-> Absent, wants |-> FALSE]
    /\ shown' = Append(shown, <<>>)
    /\ UNCHANGED <<wire, mirrorVars, stamps, changes>>

Lose(b) ==
    /\ Fault("lost")
    /\ flight' = flight \ {b}
    \* The host's call failed: it sends a lost snapshot again.
    /\ host' = [host EXCEPT !.wants = @ \/ (b.snapshot /\ b.life = host.life)]
    /\ UNCHANGED <<shown, admitted, orphaned, bound, mirrorVars, stamps, changes>>

-----------------------------------------------------------------------------
(* Routes.                                                                 *)

\* on_route_gone: the route was the last sender's.
OnRouteGone(r) == [mirror EXCEPT !.stale = @ \/ mirror.sender.route = r]

\* The daemon reports a closed route.
RouteGone(r) ==
    /\ bound[r] # None
    /\ IF host.route = r THEN Fault("route") ELSE UNCHANGED faults
    /\ bound' = [bound EXCEPT ![r] = None]
    /\ mirror' = OnRouteGone(r)
    /\ host' = [host EXCEPT !.route = IF @ = r THEN None ELSE @]
    /\ flight' = {b \in flight : b.route # r}
    /\ orphaned' = orphaned \cup OnRoute(r)
    /\ UNCHANGED <<shown, admitted, source, late, stamps, changes>>

-----------------------------------------------------------------------------
(* The feed's handler.                                                     *)

\* The caller must be the host's provider: the route's principal, which a
\* closed or rebound route no longer has, must match it.
Admit(b) ==
    /\ flight' = flight \ {b}
    /\ admitted' = IF bound[b.route] = b.module
                   THEN admitted \cup {b} ELSE admitted
    /\ UNCHANGED <<hostVars, orphaned, bound, mirrorVars, stamps, faults>>

Deliver(b) ==
    \/ Admit(b)
    \/ /\ Fault("twice")
       /\ bound[b.route] = b.module
       /\ admitted' = admitted \cup {b}
       /\ UNCHANGED <<hostVars, flight, orphaned, bound, mirrorVars, stamps>>

SenderChanged(b) ==
    mirror.sender # NoSender /\ mirror.sender.module # b.module

Older(b) == ~b.snapshot /\ mirror.seq # 0 /\ b.seq <= mirror.seq

\* Faulty: a missed number goes unnoticed.
NoGapCheck(b) == FALSE

SkipsAhead(b) == ~b.snapshot /\ mirror.seq # 0 /\ b.seq > mirror.seq + 1

Gone(b) == {k \in DOMAIN b.entries : b.entries[k] = "gone"}

\* The gone set is a BTreeSet: what it forgets is its least key.
Remember(gone, k) ==
    LET all == gone \cup {k}
    IN IF Cardinality(all) > GoneCap THEN all \ {Min(all)} ELSE all

\* The mirror after the batch's entries were taken into m.
Take(m, b) ==
    [m EXCEPT
       !.sessions = [k \in Keys |->
                       IF k \notin DOMAIN b.entries THEN @[k]
                       ELSE IF k \in Gone(b) THEN "absent" ELSE b.entries[k]],
       !.gone = FoldSet(LAMBDA k, g : Remember(g, k),
                        @ \ (DOMAIN b.entries \ Gone(b)), Gone(b))]

Rebased(b) ==
    [mirror EXCEPT !.sessions = Absent, !.gone = {}, !.stale = FALSE,
                   !.seq = b.seq]

Followed(b) ==
    [mirror EXCEPT !.stale = @ \/ SenderChanged(b) \/ SkipsAhead(b),
                   !.seq = b.seq]

Ingested(b) ==
    IF Older(b) THEN [mirror EXCEPT !.stale = TRUE]
    ELSE Take(IF b.snapshot THEN Rebased(b) ELSE Followed(b), b)

\* A stamp names the session, and the registration it was reported for.
Stamp(k) == [key |-> k, run |-> binding[k].runs]

\* As many of the stamps as the queue has room for.
Fitting(ended) ==
    LET room == PendingCap - Len(upkeep.queue)
    IN SubSeq(ended, 1, IF Len(ended) < room THEN Len(ended) ELSE room)

\* Faulty: only an idle writer is woken.
PushWakesIdle(ended) ==
    upkeep' = IF ended = <<>> THEN upkeep
              ELSE [upkeep EXCEPT !.queue = @ \o Fitting(ended),
                                  !.wake = @ \/ upkeep.job = <<>>]

\* SessionUpkeep::push, after the mirror's lock was released.  What finds no
\* room is dropped; the wake is kept as a permit while the writer is busy.
Push(ended) ==
    upkeep' = IF ended = <<>> THEN upkeep
              ELSE [upkeep EXCEPT !.queue = @ \o Fitting(ended), !.wake = TRUE]

\* The reply asks for a snapshot as long as the mirror is stale.
Answered(b, heard) ==
    host' = [host EXCEPT !.wants = @ \/ (/\ heard
                                         /\ b.life = host.life
                                         /\ mirror'.stale)]

\* The sender is the batch's in any case; the content is late from an orphaned
\* batch on until a snapshot that is not one replaces it.
LateAfter(b) ==
    [sender |-> b \in orphaned,
     content |-> IF Older(b) THEN late.content
                 ELSE b \in orphaned \/ (late.content /\ ~b.snapshot)]

\* An orphaned batch is applied like any other, but its reply has no way back.
Apply(b) ==
    /\ b \in admitted
    /\ admitted' = admitted \ {b} /\ orphaned' = orphaned \ {b}
    /\ late' = LateAfter(b)
    /\ mirror' = [Ingested(b) EXCEPT
                    !.sender = [route |-> b.route, module |-> b.module]]
    /\ source' = IF Older(b) THEN source ELSE b.life
    /\ Push(IF Older(b) THEN <<>> ELSE SetToSeq({Stamp(k) : k \in Gone(b)}))
    /\ \/ Answered(b, b \notin orphaned) /\ UNCHANGED faults
       \/ Answered(b, FALSE) /\ Fault("lost")
    /\ UNCHANGED <<shown, flight, bound, binding, changes>>

-----------------------------------------------------------------------------
(* Bindings and their upkeep.                                              *)

\* A stamp of the session waits in the queue, or in the writer's transaction.
StampWaits(k) ==
    \/ \E i \in DOMAIN upkeep.queue : upkeep.queue[i].key = k
    \/ \E i \in DOMAIN upkeep.job : upkeep.job[i].key = k

\* Faulty: the end stays.
RegisterKeepsEnd(k) ==
    /\ binding[k].runs < MaxRuns
    /\ binding' = [binding EXCEPT ![k].runs = @ + 1, ![k].crossed = StampWaits(k)]
    /\ UNCHANGED <<hostVars, wire, mirrorVars, upkeep, faults>>
\* A registration that is not refused: the session is live, so it clears the
\* end.  `crossed` remembers that a stamp waited meanwhile.
Register(k) ==
    /\ binding[k].runs < MaxRuns
    /\ binding' = [binding EXCEPT ![k].runs = @ + 1, ![k].ended = FALSE,
                                  ![k].crossed = StampWaits(k)]
    /\ UNCHANGED <<hostVars, wire, mirrorVars, upkeep, faults>>

\* write_stamps: take everything queued so far, for one transaction.
TakeStamps ==
    /\ upkeep.wake /\ upkeep.job = <<>>
    /\ upkeep' = [queue |-> <<>>, wake |-> FALSE, job |-> upkeep.queue]
    /\ UNCHANGED <<hostVars, wire, mirrorVars, binding, faults>>

\* stamp_gone_sessions: only an open binding is stamped, by the first stamp.
Stamped(k) ==
    LET due == {i \in DOMAIN upkeep.job : upkeep.job[i].key = k}
    IN IF due = {} \/ binding[k].runs = 0 \/ binding[k].ended
       THEN binding[k]
       ELSE [binding[k] EXCEPT !.ended = TRUE, !.endOf = upkeep.job[Min(due)].run]

WriteStamps ==
    /\ upkeep.job # <<>>
    /\ \/ binding' = [k \in Keys |-> Stamped(k)] /\ UNCHANGED faults
       \/ Fault("stamp") /\ UNCHANGED binding
    /\ upkeep' = [upkeep EXCEPT !.job = <<>>]
    /\ UNCHANGED <<hostVars, wire, mirrorVars>>

\* The module restarts: the mirror, the queue and the routes are gone.
Restart ==
    /\ Fault("module")
    /\ mirror' = EmptyMirror /\ upkeep' = IdleUpkeep
    /\ source' = 0
    /\ flight' = {} /\ admitted' = {} /\ orphaned' = {}
    /\ late' = OnTime
    /\ bound' = [r \in Routes |-> None]
    /\ host' = [host EXCEPT !.route = None]
    /\ UNCHANGED <<shown, binding, changes>>

-----------------------------------------------------------------------------
Init ==
    /\ \E m \in Modules :
         host = [module |-> m, life |-> 1, route |-> None, seq |-> 0,
                 live |-> Absent, wants |-> FALSE]
    /\ shown = << <<>> >>
    /\ flight = {} /\ admitted = {} /\ orphaned = {}
    /\ bound = [r \in Routes |-> None]
    /\ mirror = EmptyMirror /\ source = 0 /\ late = OnTime
    /\ upkeep = IdleUpkeep
    /\ binding = [k \in Keys |-> [runs |-> 0, ended |-> FALSE, endOf |-> 0,
                               crossed |-> FALSE]]
    /\ changes = 0 /\ faults = 0

Next ==
    \/ \E k \in Keys, s \in Tracked \cup {"gone"} : Change(k, s)
    \/ Snapshot
    \/ \E r \in Routes : Connect(r) \/ RouteGone(r)
    \/ \E m \in Modules : Replace(m)
    \/ \E b \in flight : Lose(b) \/ Deliver(b)
    \/ \E b \in admitted : Apply(b)
    \/ \E k \in Keys : Register(k)
    \/ TakeStamps
    \/ WriteStamps
    \/ Restart

Spec == Init /\ [][Next]_vars

\* The host answers a request for a snapshot and reconnects, the transport
\* delivers what it does not lose, and tokio runs the tasks that are ready.
Fairness ==
    /\ WF_vars(Snapshot)
    /\ \A r \in Routes : WF_vars(Connect(r)) /\ WF_vars(host.route # r /\ RouteGone(r))
    /\ WF_vars(\E b \in flight : Admit(b))
    /\ WF_vars(\E b \in admitted : Apply(b))
    /\ WF_vars(TakeStamps)
    /\ WF_vars(WriteStamps)

FairSpec == Spec /\ Fairness

-----------------------------------------------------------------------------
(* What the feed promises.                                                 *)

\* agent.session_liveness, for a bound session.
Answer(k) ==
    IF mirror.stale THEN "unknown"
    ELSE IF mirror.sessions[k] = "open" THEN "active"
    ELSE IF mirror.sessions[k] = "odd" THEN "unknown"
    ELSE IF k \in mirror.gone THEN "gone" ELSE "unknown"

TypeOK ==
    /\ host.module \in Modules /\ host.route \in Routes \cup {None}
    /\ host.life = Len(shown) /\ host.seq = Len(shown[host.life])
    /\ mirror.sessions \in [Keys -> Tracked \cup {"absent"}]
    /\ mirror.gone \subseteq Keys /\ Cardinality(mirror.gone) <= GoneCap
    /\ Len(upkeep.queue) <= PendingCap
    /\ bound \in [Routes -> Modules \cup {None}]
    /\ orphaned \subseteq admitted

\* What the host process had reported with the batch the mirror took last.
Reported(k) == shown[source][mirror.seq][k]

\* An answer `active` or `gone` is what the host reported with the batch that
\* the mirror took last, and every session reported open is answered
\* `active`, whatever was lost, repeated or overtaken: a mirror that missed
\* something is stale and vouches for nothing.  The exception is content built on
\* a batch whose route was gone when it was applied (main.rs session_liveness),
\* up to the next snapshot.
AnswersMatchReports ==
    ~mirror.stale /\ ~late.content =>
      \A k \in Keys : /\ Answer(k) = "active" <=> Reported(k) = "open"
                      /\ Answer(k) = "gone" => Reported(k) = "gone"

\* The contract's rule: the mirror is stale once the route of its last sender has
\* closed or was bound again to another module.
ClosedRouteIsStale ==
    mirror.sender # NoSender /\ bound[mirror.sender.route] # mirror.sender.module
      => mirror.stale

\* The mirror keeps that rule except for a sender whose route was gone already when
\* its batch was applied (main.rs session_liveness).
LostHostIsStale == late.sender \/ ClosedRouteIsStale

\* Only a session that the host reported gone is ever marked ended: not one
\* that lapsed, nor one that a snapshot left out.
EndsOnlyWhenReported ==
    \A k \in Keys : binding[k].ended =>
      \E l \in Lives : \E i \in DOMAIN shown[l] : shown[l][i][k] = "gone"

\* A registration clears the end an earlier run of the session left behind, and
\* no later write brings it back: a binding that is marked ended was reported
\* gone since it was last registered.  The exception is a stamp that waited when
\* the session was registered (session_lifecycle.rs stamp_gone_sessions).
EndIsOfThisRun ==
    \A k \in Keys :
        binding[k].ended => binding[k].endOf = binding[k].runs \/ binding[k].crossed

\* A host that was asked for a snapshot gets the mirror rebased.
AskedHostRebases == host.wants ~> ~mirror.stale

\* Every queued stamp is taken by the writer: a push while the writer is busy
\* leaves it a wake permit.
StampsAreTaken == upkeep.queue # <<>> ~> upkeep.queue = <<>>

\* Nothing the feed owes is put off for good: an asked host's snapshot, and the
\* queued stamps (main.rs answers, session_upkeep.rs).
UpkeepEnds == AskedHostRebases /\ StampsAreTaken

\* The upkeep of ends: the queue keeps its cap, and a binding is marked ended only
\* for a session that was reported gone, in the run it was reported for unless a
\* stamp waited while the session was registered again.
UpkeepOK == TypeOK /\ EndsOnlyWhenReported /\ EndIsOfThisRun

=============================================================================
