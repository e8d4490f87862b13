-------------------------- MODULE SessionBindings --------------------------
(***************************************************************************)
(* The session bindings of several machines: which host session runs which *)
(* agent, under which reference.  Each machine keeps its own table         *)
(* (session_binding, with the network history of each binding), written by *)
(* registrations, ends, network changes and pruning, one fenced            *)
(* transaction each.  A move of an agent freezes its table on the source,  *)
(* carries a copy of the rows, and installs them on the receiver in the    *)
(* transaction that activates the move.                                    *)
(*                                                                         *)
(* Moves are taken from AgentMove at the grain the bindings see: the steps *)
(* that open, close or read the fence.  The shared record settles abort    *)
(* against the claim, so each is one step here; the row of the source and  *)
(* the released record are written together.                               *)
(*                                                                         *)
(* A registration answers its caller at a deadline while its transaction   *)
(* may still run: a request here commits at any time, told or not.         *)
(***************************************************************************)
EXTENDS Naturals, FiniteSets, SequencesExt

CONSTANTS
    Machines,
    Agents,
    Movers,         \* the agents this instance moves
    Requests,       \* registrations: [agent, key, harness, session, runner, net]
    Runners,
    Times,          \* values of the wall clock, which may step back
    HistoryCap,     \* NETWORK_HISTORY_MAX (1024 in the code)
    PruneBatch,     \* PRUNE_BATCH
    MoveCap,        \* open moves a machine takes (4 in the code)
    MaxWrites,      \* bound on local writes
    MaxMoves,       \* bound on moves
    MaxReads        \* bound on refreshes of a claim cache

None == "none"

Keys == {q.key : q \in Requests}            \* <<ref_kind, ref>>
Harnesses == {q.harness : q \in Requests}
Sessions == {q.session : q \in Requests}
Nets == {q.net : q \in Requests} \ {None}

ASSUME ConstantsAssumption ==
    /\ Movers \subseteq Agents
    /\ Times \subseteq Nat /\ 0 \notin Times
    /\ HistoryCap \in Nat /\ PruneBatch \in Nat \ {0} /\ MoveCap \in Nat
    /\ MaxWrites \in Nat /\ MaxMoves \in Nat /\ MaxReads \in Nat
    /\ None \notin Machines \cup Runners \cup Harnesses \cup Sessions
    /\ \A q \in Requests : /\ q.agent \in Agents
                           /\ q.runner \in Runners \cup {None}

VARIABLES
    rows,      \* session_binding of each machine: reference -> row
    history,   \* session_network of each machine: reference -> entries
    claim,     \* the claim record of each agent in the shared log
    cache,     \* claim_cache of each machine
    reads,     \* claim reads answered, not yet applied to the cache
    checks,    \* admissions past their reads, before their transaction
    move,      \* the latest move of each agent, as its two sides saw it
    misled,    \* caches that took an absence read before the claim was taken
    data,      \* the machines that hold each agent's data of a reference
    writes, moves, refreshes

tables == <<rows, history>>
claims == <<claim, cache, reads, misled>>
vars == <<rows, history, claim, cache, reads, misled, checks, move, data,
          writes, moves, refreshes>>

-----------------------------------------------------------------------------
(* Rows.  A row without a host session is a placeholder a move left.       *)

Bound(m) == DOMAIN rows[m]

BySession(m, h, s) ==
    {k \in Bound(m) : rows[m][k].harness = h /\ rows[m][k].session = s}

\* runner_session_owner
ByRunner(m, r, s) ==
    {k \in Bound(m) : r # None /\ rows[m][k].runner = r /\ rows[m][k].session = s}

Row(g, h, s, r, ended, held) ==
    [agent |-> g, harness |-> h, session |-> s, runner |-> r,
     ended |-> ended, held |-> held]

Entries(m, k) == IF k \in DOMAIN history[m] THEN history[m][k] ELSE <<>>

Without(f, S) == [k \in DOMAIN f \ S |-> f[k]]

\* Entries of a table that has none are no rows of session_network.
WithEntries(f, k, es) ==
    IF es = <<>> THEN Without(f, {k})
    ELSE [x \in DOMAIN f \cup {k} |-> IF x = k THEN es ELSE f[x]]

-----------------------------------------------------------------------------
(* Network history.                                                        *)

Current(es) == IF es = <<>> THEN None ELSE Last(es).net

\* plan_network: the value is current already, or there is room for it.
NetworkFits(es, net) == net = None \/ Current(es) = net \/ Len(es) < HistoryCap

\* apply_network_plan: an entry is always later than the one before it.
WithNetwork(es, net, now) ==
    IF net = None \/ Current(es) = net THEN es
    ELSE Append(es, [net |-> net,
                     since |-> IF es = <<>> \/ now > Last(es).since
                               THEN now ELSE Last(es).since + 1])

-----------------------------------------------------------------------------
(* Claims.  A cached claim of version 0 is unclaimed; Unread is no row.    *)

Unread == [holder |-> None, version |-> 0, stale |-> TRUE, bad |-> FALSE,
           known |-> FALSE]

Unclaimed(stale, bad) ==
    [holder |-> None, version |-> 0, stale |-> stale, bad |-> bad,
     known |-> TRUE]

Claimed(c) ==
    [holder |-> c.holder, version |-> c.version, stale |-> FALSE,
     bad |-> FALSE, known |-> TRUE]

\* What a read of a claim record shows.
Observe(c) == IF c.version = 0 THEN [kind |-> "absent"]
              ELSE [kind |-> "present", claim |-> c]

\* Faulty: an answer older than the cached claim replaces it.
DecideAnyVersion(old, o) ==
    IF o.kind = "present" THEN Claimed(o.claim)
    ELSE IF o.kind = "absent" THEN Unclaimed(FALSE, FALSE)
    ELSE old

\* claim_cache::decide
Decide(old, o) ==
    CASE o.kind = "integrity" ->
            IF old.known THEN [old EXCEPT !.bad = TRUE] ELSE Unclaimed(TRUE, TRUE)
      [] o.kind = "unavailable" ->
            IF old.known THEN [old EXCEPT !.stale = TRUE] ELSE old
      [] o.kind = "present" ->
            IF old.known /\ o.claim.version < old.version
            THEN [old EXCEPT !.stale = TRUE]
            ELSE Claimed(o.claim)
      [] o.kind = "absent" -> Unclaimed(FALSE, FALSE)
      [] o.kind = "absent_stale" ->
            IF old.known /\ old.version >= 1 THEN [old EXCEPT !.stale = TRUE]
            ELSE Unclaimed(TRUE, old.bad)

\* check_registration_claim
ClaimAllows(m, g) ==
    LET c == cache[m][g]
    IN  c.known => ~c.bad /\ (c.version = 0 \/ c.holder = m)

-----------------------------------------------------------------------------
(* The fence of a move.                                                    *)

SourceOpen(m, g) ==
    move[g].src = m /\ move[g].s \notin {"released", "aborted"}

ReceiverOpen(m, g) ==
    move[g].dst = m /\ move[g].r \notin {"waiting", "done", "aborted"}

OpenMove(m, g) == SourceOpen(m, g) \/ ReceiverOpen(m, g)

ReceiverBlocks(m, g) ==
    move[g].dst = m /\ move[g].r \in {"picked_up", "claimed", "activating"}

\* check_moving_registration
Fenced(m, q) ==
    \/ SourceOpen(m, q.agent)
    \/ ReceiverBlocks(m, q.agent)
    \/ \E g \in Movers \ {q.agent} : ReceiverBlocks(m, g) /\ q.key \in move[g].plan

-----------------------------------------------------------------------------
(* Registration.                                                           *)

Remote(m, q) ==
    \E k \in Bound(m) :
        /\ rows[m][k].held # None
        /\ k = q.key \/ k \in BySession(m, q.harness, q.session)

\* A binding of the same agent under another reference of the same kind.
RekeyFrom(m, q) == BySession(m, q.harness, q.session) \ {q.key}

\* A session that keeps its runner and id under a new host kind.
HostChangeFrom(m, q) ==
    IF BySession(m, q.harness, q.session) = {} /\ q.key \notin Bound(m)
    THEN {k \in ByRunner(m, q.runner, q.session) :
             rows[m][k].agent = q.agent /\ k[1] # q.key[1]}
    ELSE {}

\* The binding a registration takes over, or its own reference.
Previous(m, q) ==
    LET from == HostChangeFrom(m, q) \cup RekeyFrom(m, q)
    IN  IF from = {} THEN q.key ELSE CHOOSE k \in from : TRUE

RunnerLeft(m, q) ==
    LET p == Previous(m, q)
    IN  IF q.runner # None THEN q.runner
        ELSE IF p \in Bound(m) THEN rows[m][p].runner ELSE None

\* Faulty: a runner's session may be bound twice.
KeysFreeAnyRunner(m, q) ==
    /\ q.key \in Bound(m) => rows[m][q.key].agent = q.agent
    /\ \A k \in BySession(m, q.harness, q.session) :
          rows[m][k].agent = q.agent /\ k[1] = q.key[1]
    /\ RekeyFrom(m, q) # {} => q.key \notin Bound(m)
    /\ \A k \in HostChangeFrom(m, q) : rows[m][k].held = None

\* The refusals of register_session_in that read the bindings, in its order.
KeysFree(m, q) ==
    /\ q.key \in Bound(m) => rows[m][q.key].agent = q.agent
    /\ \A k \in BySession(m, q.harness, q.session) :
          rows[m][k].agent = q.agent /\ k[1] = q.key[1]
    /\ RekeyFrom(m, q) # {} => q.key \notin Bound(m)
    /\ \A k \in HostChangeFrom(m, q) : rows[m][k].held = None
    /\ ByRunner(m, RunnerLeft(m, q), q.session) \subseteq {Previous(m, q)}

\* Faulty: the history of the binding it takes over goes with its old key.
HistoryDropped(m, q, now) ==
    LET p == Previous(m, q)
    IN  WithEntries(Without(history[m], {p}), q.key,
                    WithNetwork(IF p = q.key THEN Entries(m, p) ELSE <<>>,
                                q.net, now))

\* The keys of the binding it takes over change in both tables.
HistoryAfter(m, q, now) ==
    LET p == Previous(m, q)
    IN  WithEntries(Without(history[m], {p}), q.key,
                    WithNetwork(Entries(m, p), q.net, now))

RegisterSession(m, q, now) ==
    LET p == Previous(m, q)
    IN  /\ writes < MaxWrites
        /\ ~Remote(m, q)
        /\ ~Fenced(m, q)
        /\ ClaimAllows(m, q.agent)
        /\ KeysFree(m, q)
        /\ NetworkFits(Entries(m, p), q.net)
        /\ rows' = [rows EXCEPT ![m] =
                [k \in (Bound(m) \ {p}) \cup {q.key} |->
                    IF k = q.key
                    THEN Row(q.agent, q.harness, q.session, RunnerLeft(m, q),
                             0, None)
                    ELSE rows[m][k]]]
        /\ history' = [history EXCEPT ![m] = HistoryAfter(m, q, now)]
        /\ data' = [data EXCEPT ![q.agent] =
                [k \in Keys |-> IF k = q.key THEN @[k] \cup {m}
                                ELSE IF k = p THEN @[k] \ {m} ELSE @[k]]]
        /\ writes' = writes + 1
        /\ UNCHANGED <<claims, checks, move, moves, refreshes>>

-----------------------------------------------------------------------------
(* Ends, network changes and pruning.                                      *)

\* The runner an end leaves on a row that has none, unless another row has it.
EndRunner(m, k, runner) ==
    IF rows[m][k].runner # None THEN rows[m][k].runner
    ELSE IF ByRunner(m, runner, rows[m][k].session) # {} THEN None
    ELSE runner

\* end_session: an unknown session, another runner's and one that ended
\* already write nothing.
EndSession(m, k, runner, now) ==
    /\ writes < MaxWrites
    /\ rows[m][k].session # None
    /\ rows[m][k].ended = 0
    /\ runner = None \/ rows[m][k].runner \in {None, runner}
    /\ rows' = [rows EXCEPT ![m][k].ended = now,
                            ![m][k].runner = EndRunner(m, k, runner)]
    /\ writes' = writes + 1
    /\ UNCHANGED <<history, claims, checks, move, data, moves, refreshes>>

\* stamp_gone_sessions, for one session of a batch.
StampGone(m, k, runner, now) ==
    /\ writes < MaxWrites
    /\ rows[m][k].session # None
    /\ rows[m][k].ended = 0
    /\ runner = None \/ rows[m][k].runner \in {None, runner}
    /\ rows' = [rows EXCEPT ![m][k].ended = now]
    /\ writes' = writes + 1
    /\ UNCHANGED <<history, claims, checks, move, data, moves, refreshes>>

SetSessionNetwork(m, k, net, now) ==
    /\ writes < MaxWrites
    /\ rows[m][k].session # None
    /\ Current(Entries(m, k)) # net
    /\ NetworkFits(Entries(m, k), net)
    /\ history' = [history EXCEPT ![m] =
            WithEntries(@, k, WithNetwork(Entries(m, k), net, now))]
    /\ writes' = writes + 1
    /\ UNCHANGED <<rows, claims, checks, move, data, moves, refreshes>>

Prunable(m, cutoff) ==
    {k \in Bound(m) : /\ rows[m][k].ended # 0 /\ rows[m][k].ended < cutoff
                      /\ ~OpenMove(m, rows[m][k].agent)}

\* prune_ended_sessions: one batch; its history goes with a binding.
PruneEnded(m, cutoff, K) ==
    /\ writes < MaxWrites
    /\ K # {}
    /\ K \subseteq Prunable(m, cutoff)
    /\ \/ Cardinality(K) = PruneBatch
       \/ Cardinality(K) < PruneBatch /\ K = Prunable(m, cutoff)
    /\ rows' = [rows EXCEPT ![m] = Without(@, K)]
    /\ history' = [history EXCEPT ![m] = Without(@, K)]
    /\ writes' = writes + 1
    /\ UNCHANGED <<claims, checks, move, data, moves, refreshes>>

-----------------------------------------------------------------------------
(* The claim refresh: a read of the shared record, and later a transaction *)
(* that applies it.                                                        *)

ReadClaim(m, g, o) ==
    /\ refreshes < MaxReads
    /\ reads' = reads \cup {<<m, g, o>>}
    /\ refreshes' = refreshes + 1
    /\ UNCHANGED <<tables, claim, cache, misled, checks, move, data, writes,
                   moves>>

ApplyClaimRead(m, g, o) ==
    /\ <<m, g, o>> \in reads
    /\ reads' = reads \ {<<m, g, o>>}
    /\ cache' = [cache EXCEPT ![m][g] = Decide(@, o)]
    /\ misled' = IF o.kind = "absent" /\ claim[g].version > 0
                 THEN misled \cup {<<m, g>>} ELSE misled
    /\ UNCHANGED <<tables, claim, checks, move, data, writes, moves, refreshes>>

-----------------------------------------------------------------------------
(* Moves.                                                                  *)

NoMove == [src |-> None, dst |-> None, plan |-> {}, ver |-> 0, carried |-> <<>>,
           s |-> "released", r |-> "done"]

\* bound_refs
BoundRefs(m, g) == {k \in Bound(m) : rows[m][k].agent = g /\ rows[m][k].ended = 0}

\* move_claim: the cache was refreshed, agrees with the record, and names this
\* machine or nobody.
MoveClaim(m, g) ==
    LET c == cache[m][g]
    IN  /\ c.known /\ ~c.bad /\ ~c.stale
        /\ c.version = 0 \/ c.holder = m
        /\ c.version = claim[g].version /\ c.holder = claim[g].holder

\* move_open_check
SlotFree(m, g) ==
    /\ ~OpenMove(m, g)
    /\ Cardinality({x \in Agents : OpenMove(m, x)}) < MoveCap

\* admit_move reads the references and the version of the claim, then awaits the
\* participants and the operator, and inserts the row in a transaction of its own.
CheckMove(m, g) ==
    /\ moves < MaxMoves
    /\ checks[m][g] = {}
    /\ MoveClaim(m, g)
    /\ SlotFree(m, g)
    /\ checks' = [checks EXCEPT ![m][g] =
            {[refs |-> BoundRefs(m, g), ver |-> claim[g].version]}]
    /\ UNCHANGED <<tables, claims, move, data, writes, moves, refreshes>>

\* Faulty: the references read before the awaits are taken as they are.
SlotStillFree(m, g) == SlotFree(m, g)

\* What the transaction checks again: the references and the slot.
StillAdmissible(m, g) ==
    /\ \A check \in checks[m][g] : check.refs = BoundRefs(m, g)
    /\ SlotFree(m, g)

\* A participant is busy or unavailable, or the operator declines.
RefuseMove(m, g) ==
    /\ checks[m][g] # {}
    /\ checks' = [checks EXCEPT ![m][g] = {}]
    /\ UNCHANGED <<tables, claims, move, data, writes, moves, refreshes>>

\* No machine has an open move of this agent: moves of one agent follow one
\* another here.  The peer refuses a second one, and so does the source.
AdmitMove(m, g, to) ==
    /\ StillAdmissible(m, g)
    /\ to # m /\ \A x \in Machines : ~OpenMove(x, g)
    /\ moves < MaxMoves
    /\ \E check \in checks[m][g] :
          move' = [move EXCEPT ![g] =
            [src |-> m, dst |-> to, plan |-> check.refs, ver |-> check.ver,
             carried |-> <<>>, s |-> "preparing", r |-> "waiting"]]
    /\ checks' = [checks EXCEPT ![m][g] = {}]
    /\ moves' = moves + 1
    /\ UNCHANGED <<tables, claims, data, writes, refreshes>>

OfAgent(m, g) == {k \in Bound(m) : rows[m][k].agent = g}

\* The check export_session_bindings makes in its snapshot.
Exportable(m, g) ==
    /\ move[g].plan \subseteq OfAgent(m, g)
    /\ BoundRefs(m, g) \subseteq move[g].plan

\* A finished binding that stays behind names the machine that has its data.
CarriedHolder(m, g, k) ==
    IF k \in move[g].plan \/ rows[m][k].held # None THEN rows[m][k].held ELSE m

\* prepare: the stream is written once per cut.
Export(g) ==
    LET m == move[g].src
    IN  /\ move[g].s = "preparing"
        /\ Exportable(m, g)
        /\ move' = [move EXCEPT
                ![g].s = "published",
                ![g].carried = [k \in OfAgent(m, g) |->
                    [row |-> [rows[m][k] EXCEPT !.held = CarriedHolder(m, g, k)],
                     entries |-> Entries(m, k)]]]
        /\ UNCHANGED <<tables, claims, checks, data, writes, moves, refreshes>>

\* The source gives up before the receiver took the claim, and thaws.
AbortMove(g) ==
    /\ move[g].s \in {"preparing", "published"}
    /\ move[g].r \in {"waiting", "picked_up"}
    /\ move' = [move EXCEPT ![g].s = "aborted",
                            ![g].r = IF @ = "waiting" THEN "aborted" ELSE @]
    /\ cache' = [cache EXCEPT ![move[g].src][g] = Decide(@, Observe(claim[g]))]
    /\ UNCHANGED <<tables, claim, reads, misled, checks, data, writes, moves,
                   refreshes>>

\* The receiver undoes the move: it returns a claim it took, publishes the
\* abort, and caches the claim as it is then.
ReceiverAborts(g) ==
    LET back == IF move[g].r = "claimed"
                THEN [holder |-> move[g].src, version |-> claim[g].version + 1]
                ELSE claim[g]
    IN  /\ move[g].r \in {"picked_up", "claimed"}
        /\ claim' = [claim EXCEPT ![g] = back]
        /\ cache' = [cache EXCEPT ![move[g].dst][g] = Decide(@, Observe(back))]
        /\ move' = [move EXCEPT ![g].r = "aborted"]
        /\ UNCHANGED <<tables, reads, misled, checks, data, writes, moves, refreshes>>

\* The source reads the receiver's abort, and that the claim is its own or
\* nobody's, before it thaws.
ThawAborted(g) ==
    /\ move[g].s = "published" /\ move[g].r = "aborted"
    /\ claim[g].holder \in {None, move[g].src}
    /\ cache' = [cache EXCEPT ![move[g].src][g] = Decide(@, Observe(claim[g]))]
    /\ move' = [move EXCEPT ![g].s = "aborted"]
    /\ UNCHANGED <<tables, claim, reads, misled, checks, data, writes, moves,
                   refreshes>>

\* local_writers: no planned reference is bound to another agent here.
RefsOwned(m, g) ==
    \A k \in move[g].plan : k \in Bound(m) => rows[m][k].agent = g

PickUp(g) ==
    /\ move[g].s = "published" /\ move[g].r = "waiting"
    /\ move' = [move EXCEPT ![g].r = "picked_up"]
    /\ UNCHANGED <<tables, claims, checks, data, writes, moves, refreshes>>

\* take_claim: the claim is still as it was when the move was admitted.
TakeClaim(g) ==
    LET m == move[g].dst
    IN  /\ move[g].s = "published" /\ move[g].r = "picked_up"
        /\ RefsOwned(m, g)
        /\ claim[g].version = move[g].ver
        /\ claim' = [claim EXCEPT ![g] = [holder |-> m, version |-> @.version + 1]]
        /\ move' = [move EXCEPT ![g].r = "claimed"]
        /\ UNCHANGED <<tables, cache, reads, misled, checks, data, writes, moves,
                       refreshes>>

\* apply_claim, before the participants activate.
BeginActivating(g) ==
    /\ move[g].r = "claimed"
    /\ RefsOwned(move[g].dst, g)
    /\ cache' = [cache EXCEPT ![move[g].dst][g] = Decide(@, Observe(claim[g]))]
    /\ move' = [move EXCEPT ![g].r = "activating"]
    /\ UNCHANGED <<tables, claim, reads, misled, checks, data, writes, moves,
                   refreshes>>

-----------------------------------------------------------------------------
(* install_moved_bindings.  Rows carried from one machine never collide    *)
(* with each other, so the order they are installed in does not matter.    *)

Collides(m, row) ==
    \/ row.session # None /\ BySession(m, row.harness, row.session) # {}
    \/ row.session # None /\ ByRunner(m, row.runner, row.session) # {}

\* The references that get a row: those of the plan, and finished metadata
\* that no local binding stands in the way of.
Installed(m, g) ==
    LET c == move[g].carried
    IN  {k \in move[g].plan \cup
               {x \in DOMAIN c : c[x].row.held # None /\ ~Collides(m, c[x].row)} :
            k \notin Bound(m)}

Placeholder(g) == Row(g, None, None, None, 0, None)

InstalledRow(m, g, k) ==
    LET c == move[g].carried
    IN  IF k \notin DOMAIN c \/ Collides(m, c[k].row) THEN Placeholder(g)
        ELSE [c[k].row EXCEPT !.held = IF @ = m THEN None ELSE @]

ActivateCarrying(g) ==
    LET m == move[g].dst
        c == move[g].carried
        K == Installed(m, g)
    IN  /\ move[g].r = "activating"
        /\ RefsOwned(m, g)
        /\ rows' = [rows EXCEPT ![m] =
                [k \in Bound(m) \cup K |-> IF k \in K THEN InstalledRow(m, g, k)
                                           ELSE rows[m][k]]]
        /\ history' = [history EXCEPT ![m] =
                [k \in DOMAIN @ \cup {x \in K \cap DOMAIN c : c[x].entries # <<>>} |->
                    IF k \in K THEN c[k].entries ELSE @[k]]]
        /\ data' = [data EXCEPT ![g] =
                [k \in Keys |-> IF k \in move[g].plan
                                THEN (@[k] \ {move[g].src}) \cup {m} ELSE @[k]]]
        /\ move' = [move EXCEPT ![g].r = "activated"]
        /\ UNCHANGED <<claims, checks, writes, moves, refreshes>>

\* The source learns of the activation, caches the claim, and releases.
ReleaseMove(g) ==
    /\ move[g].s = "published" /\ move[g].r = "activated"
    /\ cache' = [cache EXCEPT ![move[g].src][g] = Decide(@, Observe(claim[g]))]
    /\ move' = [move EXCEPT ![g].s = "released"]
    /\ UNCHANGED <<tables, claim, reads, misled, checks, data, writes, moves,
                   refreshes>>

FinishMove(g) ==
    /\ move[g].s = "released" /\ move[g].r = "activated"
    /\ move' = [move EXCEPT ![g].r = "done"]
    /\ UNCHANGED <<tables, claims, checks, data, writes, moves, refreshes>>

-----------------------------------------------------------------------------
Init ==
    /\ rows = [m \in Machines |-> <<>>]
    /\ history = [m \in Machines |-> <<>>]
    /\ claim = [g \in Agents |-> [holder |-> None, version |-> 0]]
    /\ cache = [m \in Machines |-> [g \in Agents |-> Unread]]
    /\ reads = {} /\ misled = {}
    /\ checks = [m \in Machines |-> [g \in Agents |-> {}]]
    /\ move = [g \in Agents |-> NoMove]
    /\ data = [g \in Agents |-> [k \in Keys |-> {}]]
    /\ writes = 0 /\ moves = 0 /\ refreshes = 0

Observations(g) ==
    {Observe(claim[g])} \cup
    {[kind |-> o] : o \in {"unavailable", "integrity", "absent_stale"}}

LocalStep(m) ==
    \/ \E q \in Requests, now \in Times : RegisterSession(m, q, now)
    \/ \E k \in Bound(m), r \in Runners \cup {None}, now \in Times :
          EndSession(m, k, r, now) \/ StampGone(m, k, r, now)
    \/ \E k \in Bound(m), net \in Nets, now \in Times :
          SetSessionNetwork(m, k, net, now)
    \/ \E cutoff \in Times : \E K \in SUBSET Prunable(m, cutoff) :
          PruneEnded(m, cutoff, K)

MoveStep(g) ==
    \/ Export(g) \/ AbortMove(g) \/ ReceiverAborts(g)
    \/ ThawAborted(g) \/ PickUp(g)
    \/ TakeClaim(g) \/ BeginActivating(g) \/ ActivateCarrying(g)
    \/ ReleaseMove(g) \/ FinishMove(g)

Next ==
    \/ \E m \in Machines : LocalStep(m)
    \/ \E m \in Machines, g \in Movers : \E o \in Observations(g) :
          ReadClaim(m, g, o)
    \/ \E x \in reads : ApplyClaimRead(x[1], x[2], x[3])
    \/ \E m \in Machines, g \in Movers : CheckMove(m, g) \/ RefuseMove(m, g)
    \/ \E m, to \in Machines, g \in Movers : AdmitMove(m, g, to)
    \/ \E g \in Movers : MoveStep(g)

Spec == Init /\ [][Next]_vars

-----------------------------------------------------------------------------
(* Reads.                                                                  *)

\* session_residence
Residence(m, r, s) ==
    LET K == ByRunner(m, r, s)
    IN  IF K = {} THEN "not_registered"
        ELSE LET row == rows[m][CHOOSE k \in K : TRUE]
                 c == cache[m][row.agent]
             IN  CASE row.held # None -> "elsewhere"
                   [] row.held = None /\ OpenMove(m, row.agent) -> "moving"
                   [] OTHER ->
                        IF ~c.known \/ c.stale \/ c.bad THEN "unknown"
                        ELSE IF c.version = 0 THEN "unclaimed"
                        ELSE IF c.holder = m THEN "here" ELSE "elsewhere"

-----------------------------------------------------------------------------
(* Properties.                                                             *)

TypeOK ==
    /\ \A m \in Machines :
          /\ Bound(m) \subseteq Keys
          /\ DOMAIN history[m] \subseteq Keys
          /\ \A k \in Bound(m) :
                /\ rows[m][k].agent \in Agents
                /\ rows[m][k].ended \in Times \cup {0}
                /\ rows[m][k].held \in Machines \cup {None}
                /\ rows[m][k].runner \in Runners \cup {None}
          /\ \A k \in DOMAIN history[m] :
                \A i \in DOMAIN history[m][k] : history[m][k][i].since \in Nat
    /\ \A g \in Agents : /\ move[g].plan \subseteq Keys
                         /\ claim[g].holder \in Machines \cup {None}
    /\ writes \in 0..MaxWrites /\ moves \in 0..MaxMoves

\* No registration, re-key, host change, end or activation gives one host
\* session, or one runner's session, to two bindings of a machine: the two
\* unique indexes are never what refuses a write.
SessionsBoundOnce ==
    \A m \in Machines : \A k, l \in Bound(m) :
        /\ k # l
        /\ rows[m][k].session # None
        /\ rows[m][k].session = rows[m][l].session
        => /\ rows[m][k].harness # rows[m][l].harness
           /\ rows[m][k].runner = None \/ rows[m][k].runner # rows[m][l].runner

\* Every network history belongs to a binding, stays within its cap, and
\* rises strictly in time whatever the clock did, on the machine that wrote
\* it and on those it was carried to.
HistoriesReadable ==
    \A m \in Machines : \A k \in DOMAIN history[m] :
        LET es == history[m][k]
        IN  /\ k \in Bound(m)
            /\ Len(es) <= HistoryCap
            /\ \A i \in 1 .. Len(es) - 1 : es[i].since < es[i + 1].since

\* A host session that is bound before and after a step keeps its recorded
\* network history: a re-key and a host change take it along.
HistoryFollowsSession ==
    [][\A m \in Machines : \A k \in DOMAIN rows[m], l \in DOMAIN rows'[m] :
          /\ rows[m][k].session # None
          /\ rows'[m][l].session = rows[m][k].session
          /\ \/ rows'[m][l].harness = rows[m][k].harness
             \/ /\ rows[m][k].runner # None
                /\ rows'[m][l].runner = rows[m][k].runner
          => LET old == IF k \in DOMAIN history[m] THEN history[m][k] ELSE <<>>
                 new == IF l \in DOMAIN history'[m] THEN history'[m][l] ELSE <<>>
             IN  IsPrefix(old, new)]_vars

\* From the admission of a move until its stream is written, the bindings of
\* its agent stay those that were checked: a registration that commits late,
\* an end, a prune or another admission never makes the export refuse.
AdmittedMoveExports ==
    \A g \in Agents : move[g].s = "preparing" => Exportable(move[g].src, g)

\* Once activation began, no registration, re-key or host change of another
\* agent takes a reference the move brings, and the transaction that records the
\* activation finds it free.  The exception is another move that brings the same
\* reference from a third machine: nothing compares the plans of two moves.
PlannedRefsKept ==
    \A g \in Agents :
        /\ move[g].r = "activating" /\ move'[g].r = "activating"
        /\ RefsOwned(move[g].dst, g)
        => \/ \A k \in move[g].plan \cap DOMAIN rows'[move[g].dst] :
                rows'[move[g].dst][k].agent = g
           \/ \E h \in Movers :
                /\ move[h].r = "activating" /\ move'[h].r = "activated"
                /\ move[h].dst = move[g].dst /\ move[h].src # move[g].src

\* A binding whose data another machine holds is never opened here: it stays
\* ended and keeps its holder until it is pruned.
HeldStaysClosed ==
    \A m \in Machines : \A k \in DOMAIN rows[m], l \in DOMAIN rows'[m] :
          /\ rows[m][k].held # None
          /\ \/ l = k
             \/ /\ rows[m][k].session # None
                /\ rows'[m][l].harness = rows[m][k].harness
                /\ rows'[m][l].session = rows[m][k].session
          => rows'[m][l] = rows[m][k]

\* A machine that gave an agent away, or has seen it claimed, opens no session of
\* it while another holds it: neither an answer read before the move and applied
\* after it, nor a failed or stale read, lifts the fence.  The exception is an
\* absence read before the first claim and applied after the move: decide takes a
\* fresh absence for the newest.
FormerHolderFenced ==
    \A m \in Machines, g \in Agents :
          /\ claim[g].holder \notin {None, m}
          /\ m = move[g].src \/ cache[m][g].version > 0
          /\ \E k \in DOMAIN rows'[m] :
                /\ rows'[m][k].agent = g /\ rows'[m][k].ended = 0
                /\ k \in DOMAIN rows[m] => rows[m][k].ended # 0
          => <<m, g>> \in misled

\* No step, of whichever machine, opens a session where its agent or its data no
\* longer is, or takes a reference from under an activation.
FencesHold == [][HeldStaysClosed /\ FormerHolderFenced /\ PlannedRefsKept]_vars

\* What the holder answers about a session after the first move of its agent: a
\* binding left unmarked has its data here, and one marked as held elsewhere names
\* a machine that has the data, unless that machine was misled about the claim.  A
\* second move back keeps the rows it finds, marked or not (session_carry.rs
\* install_moved_bindings).
FirstMoveMarksHolders ==
    \A m \in Machines, g \in Movers :
        moves <= 1 /\ claim[g].holder = m /\ ~OpenMove(m, g)
        => \A k \in OfAgent(m, g) :
              LET held == rows[m][k].held
              IN  IF held = None THEN m \in data[g][k]
                  ELSE held # m /\ (held \in data[g][k] \/ <<held, g>> \in misled)

\* The tables of every machine keep their shape, their unique keys and readable
\* histories under any sequence of writes and moves.
BindingsOK == TypeOK /\ SessionsBoundOnce /\ HistoriesReadable

\* A move that was admitted carries the agent's bindings to the end: they can be
\* exported, and they arrive with the machine that holds their data.
MovesCarryBindings == AdmittedMoveExports /\ FirstMoveMarksHolders

=============================================================================
