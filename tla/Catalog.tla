------------------------------- MODULE Catalog -------------------------------
(***************************************************************************)
(* Packages on one machine.  A registry serves, for one scope holding one   *)
(* package, a log of signed status records (a record's position in the log  *)
(* stands for its feed_seq, its sequence and its changed_at, which grow     *)
(* together), and the machine keeps what it could authenticate: the chain   *)
(* of the registry's keys, the status held for each version, the cursor of  *)
(* the feed and the bytes published.  The hourly poll and the preparation   *)
(* of an install talk to the registry between the transactions of the       *)
(* store; an install the user or a publisher grant authorizes moves the     *)
(* agent's pin and makes a generation, which the core module activates.     *)
(*                                                                          *)
(* catalog_trust.rs, catalog_poll.rs, catalog_agent.rs, catalog_grants.rs,  *)
(* catalog_seed.rs and catalog_ops.rs of entorhinal-module, with the        *)
(* catalog*.rs of entorhinal-core and status.rs and statements.rs of        *)
(* entorhinal-catalog.  The registry, the user, the consumers and core are  *)
(* external.                                                                *)
(***************************************************************************)
EXTENDS Integers, Sequences, FiniteSets, SequencesExt, FiniteSetsExt

CONSTANTS
    Versions,      \* the versions of the package, 1..N
    Plans,         \* the install requests, each with its plan id
    SpecOf,        \* plan -> [op, range]: "install" or "upgrade", a set of versions
    CapsOf,        \* version -> the capability tokens its manifest requires
    Scripted,      \* the versions whose manifest declares scripts
    States,        \* the states the registry may give a published version
    FaultKinds,    \* "call", "lag", "history", "consumer", "restart"
    MaxEvents,     \* bound on what happens to the machine: status records and keys of the
                   \* registry, acts of operators and of other machines, and faults
    None

ASSUME CatalogAssumption ==
    /\ IsFiniteSet(Versions) /\ Versions # {} /\ Versions = 1..Cardinality(Versions)
    /\ \A p \in Plans : SpecOf[p].op \in {"install", "upgrade"} /\ SpecOf[p].range \subseteq Versions
    /\ Scripted \subseteq Versions
    /\ States \subseteq {"available", "withdrawn", "revoked", "spared", "tombstoned"}
    /\ MaxEvents \in Nat
    /\ 0 \notin Plans

\* None is no position, version, status row or registry.
ASSUME CatalogNone ==
    /\ None \notin Nat
    /\ None \notin [pos : Nat, epoch : Nat]
    /\ None \notin [incarnation : Nat, chain : Seq([key : Nat, from : Nat])]

VARIABLES
    log, keys,                                     \* the registry's
    firstParty,                                    \* the scope is @cortexkit
    registry, status, cursor,                      \* the trust tables
    live, pins, plan, consent, generations,        \* the agent and its installs
    grant, prompt,                                 \* the publisher grant, the operator's prompt
    job, authorized,                               \* work in flight, lost by a restart
    events

server == <<log, keys, firstParty>>
trust == <<registry, status, cursor>>
agent == <<live, pins, plan, consent, generations>>
flight == <<job, authorized>>
vars == <<server, trust, agent, grant, prompt, flight, events>>

Poll == 0
Jobs == {Poll} \union Plans
N == Cardinality(Versions)

(***************************************************************************)
(* Status records.  "revoked" carries a compromise_from at or before the    *)
(* publication of the version, "spared" one after it.                       *)
(***************************************************************************)
Blocking == {"tombstoned", "revoked"}

\* State::permits
Permits(old, new) ==
    CASE old \in {"available", "withdrawn"} -> TRUE
      [] old \in {"revoked", "spared"} -> new \in {"revoked", "spared", "tombstoned"}
      [] old = "tombstoned" -> new = "tombstoned"

\* the latest record of v among the first n of the log (select_feed); 0: none
Latest(v, n) == Max({0} \union {p \in 1..n : log[p].version = v})

\* status_snapshot, the sequence held for v
Sequence(v) == IF status[v] = None THEN 0 ELSE status[v].pos

HeldState(table, v) == log[table[v].pos].state
BlockedIn(table, v) == table[v] # None /\ HeldState(table, v) \in Blocking

(***************************************************************************)
(* Keys.  The chain is the sequence of the keys the machine trusts, each    *)
(* with the position its authority starts at; a key pinned by the operator  *)
(* when the registry was added has none (0).                                *)
(***************************************************************************)
Epochs(chain, key) == {i \in DOMAIN chain : chain[i].key = key}

\* HeldStatus::restore with restore: a stored row still authenticates
Restores(chain, row) ==
    \/ row.epoch = 0                                \* the starter bundle's own proof
    \/ /\ row.epoch \in Epochs(chain, log[row.pos].key)
       /\ chain[row.epoch].from <= row.pos

\* Faulty: sequences are not compared.
AnySequence(row, p) == FALSE

\* compare: a record below the held sequence
Lower(row, p) == p < row.pos

\* the key's authority covers position p
ValidAt(chain, e, p) ==
    /\ chain[e].from <= p
    /\ \A i \in e + 1..Len(chain) : chain[i].from # 0 => p < chain[i].from

\* compare: record p, signed with the key of epoch e, against the held row
Compare(row, e, p) ==
    IF row = None THEN "applied"
    ELSE IF Lower(row, p) THEN "feed_rollback"
    ELSE IF p = row.pos THEN IF row.epoch = 0 THEN "applied" ELSE "duplicate"
    ELSE IF e < row.epoch THEN "feed_rollback"
    ELSE IF ~Permits(log[row.pos].state, log[p].state) THEN "status_terminal"
    ELSE "applied"

\* accept, with apply_status: what becomes of record p for a held row
Verdict(chain, row, p) ==
    LET e == Min(Epochs(chain, log[p].key)) IN
    IF Epochs(chain, log[p].key) = {} THEN "key_unknown"
    ELSE IF ~ValidAt(chain, e, p) THEN "key_not_valid"
    ELSE Compare(row, e, p)

Taken == {"applied", "duplicate"}

AcceptedRow(chain, row, p) ==
    IF Verdict(chain, row, p) = "duplicate" THEN row
    ELSE [pos |-> p, epoch |-> Min(Epochs(chain, log[p].key))]

\* apply_registry_key: link i laid on what came before it, unless it is held or refused
LayLink(before, i, held) ==
    LET c == before.chain IN
    IF before.refused \/ Epochs(c, i) # {} \/ \E a \in held : i < a
    THEN before
    ELSE IF Len(c) > 0 /\ keys[i].signedBy = Last(c).key
    THEN [chain |-> Append(c, [key |-> i, from |-> keys[i].from]), refused |-> FALSE]
    ELSE [chain |-> c, refused |-> TRUE]

\* refresh_registry_keys: the served links 1..k laid on the chain, up to the first refused
ApplyLinks(chain, k) ==
    LET held == {i \in 1..k : Epochs(chain, i) # {}}
        link[i \in 0..k] ==
            IF i = 0 THEN [chain |-> chain, refused |-> FALSE]
            ELSE LayLink(link[i - 1], i, held)
    IN  link[k]

\* identity: the registry the job opened is the one still configured
SameRegistry(expected) ==
    /\ registry # None
    /\ registry.incarnation = expected.incarnation
    /\ IsPrefix(expected.chain, registry.chain)

(***************************************************************************)
(* Writing status rows degrades, in the same transaction, the running       *)
(* generations they block (write_statuses, apply_status_effects).           *)
(***************************************************************************)
\* Faulty: the generations are left alone.
EffectsLeftOut(table) == generations

StatusEffects(table) ==
    [g \in DOMAIN generations |->
        IF generations[g].state \in {"active", "degraded"} /\ BlockedIn(table, generations[g].closure)
        THEN [generations[g] EXCEPT !.state = "degraded"]
        ELSE generations[g]]

WriteStatuses(table) ==
    /\ status' = table
    /\ generations' = StatusEffects(table)

(***************************************************************************)
(* Jobs.  A job holds what it read before its last await.                   *)
(***************************************************************************)
Idle == [pc |-> "idle", expected |-> None, reply |-> 0, after |-> 0, full |-> FALSE,
         version |-> 0, record |-> 0, refreshed |-> FALSE, verified |-> {}, pick |-> 0, pins |-> None]

\* a call to the registry or to a consumer that fails
Event == events < MaxEvents /\ events' = events + 1
Fault(kind) == kind \in FaultKinds /\ Event

\* the end of a poll, or of a preparation whose plan takes state s
EndJob(j) == job' = [job EXCEPT ![j] = Idle]
FailPlan(j) ==
    plan' = IF j = Poll THEN plan ELSE [plan EXCEPT ![j].state = "failed"]

Go(j, pc) == job' = [job EXCEPT ![j].pc = pc]

\* catalog_prepare leaves a version out and goes to the next, or to the resolver
NextVersion(j, good) ==
    LET v == job[j].version IN
    job' = [job EXCEPT ![j] =
        [@ EXCEPT !.pc = IF v = N THEN "resolve" ELSE "fetch",
                  !.version = IF v = N THEN 0 ELSE v + 1,
                  !.reply = 0, !.record = 0, !.refreshed = FALSE,
                  !.verified = IF good THEN job[j].verified \union {v} ELSE job[j].verified]]

\* CatalogTrust::for_scope and the request for the registry's keys
Opened(j, agentPins) ==
    [Idle EXCEPT !.pc = "keys", !.expected = registry, !.reply = Len(keys), !.pins = agentPins]

\* Worker::pass: the scopes of pinned packages are polled
StartPoll ==
    /\ job[Poll].pc = "idle"
    /\ pins # None
    /\ registry # None
    /\ job' = [job EXCEPT ![Poll] = Opened(Poll, None)]
    /\ UNCHANGED <<server, trust, agent, grant, prompt, authorized, events>>

\* catalog_prepare, the tool call: the plan is made once, and its worker started
\* whenever it is pending and not running
Prepare(p) ==
    /\ job[p].pc = "idle"
    /\ \/ plan[p].state = "absent" /\ live /\ Event
       \/ plan[p].state = "pending" /\ UNCHANGED events
    /\ LET row == IF plan[p].state = "absent"
                  THEN [state |-> "pending", base |-> pins, closure |-> 0, snapshot |-> 0]
                  ELSE plan[p]
       IN  IF registry = None
           THEN plan' = [plan EXCEPT ![p] = [row EXCEPT !.state = "failed"]] /\ UNCHANGED job
           ELSE plan' = [plan EXCEPT ![p] = row] /\ job' = [job EXCEPT ![p] = Opened(p, pins)]
    /\ UNCHANGED <<server, trust, live, pins, consent, generations, grant, prompt, authorized>>

\* refresh_registry_keys: the accepted prefix of the links is stored whatever comes after
\* it; a feed is read, and a status tried again, only when no link was refused
ApplyKeys(j) ==
    /\ job[j].pc \in {"keys", "refresh"}
    /\ LET same == SameRegistry(job[j].expected)
           links == ApplyLinks(registry.chain, job[j].reply)
           next == [registry EXCEPT !.chain = links.chain]
       IN  /\ registry' = IF same THEN next ELSE registry
           /\ IF same /\ ~links.refused
              THEN /\ job' = [job EXCEPT ![j] =
                        [@ EXCEPT !.expected = next, !.reply = 0,
                                  !.pc = IF job[j].pc = "keys" THEN "cursor" ELSE "accept"]]
                   /\ UNCHANGED plan
              ELSE IF job[j].pc = "refresh"
              THEN NextVersion(j, FALSE) /\ UNCHANGED plan
              ELSE EndJob(j) /\ FailPlan(j)
    /\ UNCHANGED <<server, status, cursor, live, pins, consent, generations, grant, prompt, authorized, events>>

\* apply_scope_feed reads the cursor and asks for what came after it; the registry serves
\* the whole feed when it cannot go back to the cursor.  A lagging copy of the registry
\* answers with an older head n.
FetchFeed(j) ==
    /\ job[j].pc \in {"cursor", "refetch"}
    /\ \E n \in 0..Len(log), old \in BOOLEAN :
        /\ \/ n = Len(log) /\ ~old /\ UNCHANGED events
           \/ n < Len(log) /\ ~old /\ Fault("lag")
           \/ n = Len(log) /\ old /\ cursor # None /\ Fault("history")
        /\ LET full == job[j].pc = "refetch" \/ cursor = None \/ n < cursor \/ old
           IN  job' = [job EXCEPT ![j] =
                   [@ EXCEPT !.pc = "feed", !.reply = n, !.full = full,
                             !.after = IF full THEN 0 ELSE cursor]]
    /\ UNCHANGED <<server, trust, agent, grant, prompt, authorized>>

\* Faulty: the cursor moves with any reply.
CursorFollowsReply(served, good, n) == n

\* the cursor moves only when every record of the reply was taken
NextCursor(served, good, n) == IF good = served THEN n ELSE cursor

\* the transaction of apply_scope_feed, with apply_feed: every record is judged on its own
\* and the good ones are kept, and a reply that goes back falls over to the whole feed once
ApplyFeed(j) ==
    /\ job[j].pc = "feed"
    /\ LET c == registry.chain
           n == job[j].reply
           usable == SameRegistry(job[j].expected)
                     /\ \A v \in Versions : status[v] # None => Restores(c, status[v])
           behind == cursor # None /\ n < cursor
           served == {v \in Versions : Latest(v, n) > job[j].after}
           verdict == [v \in served |-> Verdict(c, status[v], Latest(v, n))]
           good == {v \in served : verdict[v] \in Taken}
           back == behind \/ \E v \in served : verdict[v] = "feed_rollback"
       IN  /\ IF usable /\ ~behind
              THEN /\ WriteStatuses([v \in Versions |->
                          IF v \in good THEN AcceptedRow(c, status[v], Latest(v, n)) ELSE status[v]])
                   /\ cursor' = NextCursor(served, good, n)
              ELSE UNCHANGED <<status, generations, cursor>>
           /\ IF usable /\ back /\ ~job[j].full
              THEN Go(j, "refetch") /\ UNCHANGED plan
              ELSE IF usable /\ ~behind /\ good = served /\ j # Poll
              THEN /\ job' = [job EXCEPT ![j] = [@ EXCEPT !.pc = "pins", !.reply = 0, !.after = 0,
                                                          !.full = FALSE]]
                   /\ UNCHANGED plan
              ELSE /\ EndJob(j)
                   /\ IF j = Poll THEN UNCHANGED plan ELSE FailPlan(j)
    /\ UNCHANGED <<server, registry, live, pins, consent, grant, prompt, authorized, events>>

(***************************************************************************)
(* Preparing a plan.                                                        *)
(***************************************************************************)
\* catalog_blocked_pin: nothing is prepared on top of a blocked pin
CheckPins(j) ==
    /\ job[j].pc = "pins"
    /\ IF job[j].pins # None /\ BlockedIn(status, job[j].pins)
       THEN EndJob(j) /\ FailPlan(j)
       ELSE job' = [job EXCEPT ![j] = [@ EXCEPT !.pc = "fetch", !.version = 1]] /\ UNCHANGED plan
    /\ UNCHANGED <<server, trust, live, pins, consent, generations, grant, prompt, authorized, events>>

\* verify_version: the served record and status of the version
FetchVersion(j) ==
    /\ job[j].pc = "fetch"
    /\ job' = [job EXCEPT ![j] = [@ EXCEPT !.pc = "accept", !.record = Latest(job[j].version, Len(log))]]
    /\ UNCHANGED <<server, trust, agent, grant, prompt, authorized, events>>

Acceptance(j) ==
    LET row == status[job[j].version] IN
    IF ~SameRegistry(job[j].expected) THEN "registry_changed"
    ELSE IF row # None /\ ~Restores(registry.chain, row) THEN "status_invalid"
    ELSE Verdict(registry.chain, row, job[j].record)

\* the first transaction of verify_version; an unknown key is looked up once
AcceptVersion(j) ==
    /\ job[j].pc = "accept"
    /\ LET v == job[j].version
           result == Acceptance(j)
           table == [status EXCEPT ![v] = AcceptedRow(registry.chain, @, job[j].record)]
       IN  IF result = "key_unknown" /\ ~job[j].refreshed
           THEN /\ job' = [job EXCEPT ![j] =
                     [@ EXCEPT !.pc = "refresh", !.refreshed = TRUE, !.reply = Len(keys)]]
                /\ UNCHANGED <<status, generations>>
           ELSE IF result \in Taken
           THEN /\ WriteStatuses(table)
                /\ IF BlockedIn(table, v) THEN NextVersion(j, FALSE) ELSE Go(j, "publish")
           ELSE NextVersion(j, FALSE) /\ UNCHANGED <<status, generations>>
    /\ UNCHANGED <<server, registry, cursor, live, pins, plan, consent, grant, prompt, authorized, events>>

\* the second transaction, after the downloads: a status that moved on since the first
\* keeps the bytes out
PublishVersion(j) ==
    /\ job[j].pc = "publish"
    /\ NextVersion(j, Acceptance(j) \in Taken)
    /\ UNCHANGED <<server, registry, status, cursor, agent, grant, prompt, authorized, events>>

\* catalog_resolve, with the held statuses of one read; the pick is the highest eligible
Resolve(j) ==
    /\ job[j].pc = "resolve"
    /\ LET eligible == {v \in job[j].verified \intersect SpecOf[j].range :
                            status[v] # None /\ HeldState(status, v) \in {"available", "spared"}}
           refused == \/ ~live
                      \/ pins # None /\ (BlockedIn(status, pins) \/ pins \notin job[j].verified)
                      \/ pins = None /\ SpecOf[j].op = "upgrade"
                      \/ eligible = {}
       IN  IF refused
           THEN EndJob(j) /\ FailPlan(j)
           ELSE job' = [job EXCEPT ![j] = [Idle EXCEPT !.pc = "check", !.pick = Max(eligible)]]
                /\ UNCHANGED plan
    /\ UNCHANGED <<server, trust, live, pins, consent, generations, grant, prompt, authorized, events>>

\* the consumers checked the closure: catalog_save_prepared and catalog_plan_ready
FinishPlan(j) ==
    /\ job[j].pc = "check"
    /\ plan' = [plan EXCEPT ![j] =
           IF live /\ pins = @.base
           THEN [@ EXCEPT !.state = "ready", !.closure = job[j].pick, !.snapshot = Sequence(job[j].pick)]
           ELSE [@ EXCEPT !.state = "failed"]]
    /\ EndJob(j)
    /\ UNCHANGED <<server, trust, live, pins, consent, generations, grant, prompt, authorized, events>>

\* a failed call leaves out the version it was about, and ends the job anywhere else
CallFails(j) ==
    /\ \/ job[j].pc \in {"keys", "refresh", "feed", "accept", "publish", "check"}
       \/ job[j].pc = "fetch" /\ job[j].version = 1
    /\ Fault(IF job[j].pc = "check" THEN "consumer" ELSE "call")
    /\ IF job[j].pc \in {"refresh", "accept", "publish"}
       THEN NextVersion(j, FALSE) /\ UNCHANGED plan
       ELSE EndJob(j) /\ FailPlan(j)
    /\ UNCHANGED <<server, trust, live, pins, consent, generations, grant, prompt, authorized>>

(***************************************************************************)
(* Installing a plan.                                                       *)
(***************************************************************************)
\* authorization_operation
Operation(p) ==
    IF SpecOf[p].op = "install" /\ pins \in {None, plan[p].closure} THEN "install" ELSE "upgrade"

\* coverage: only installs are ever granted
Covered(p) ==
    /\ plan[p].closure \notin Scripted
    /\ \/ firstParty
       \/ /\ grant.live
          /\ Operation(p) = "install"
          /\ CapsOf[plan[p].closure] \subseteq grant.ceiling

\* Faulty: a ready plan of a live agent is installable.
ReadyIsEnough(p) == plan[p].state = "ready" /\ live

\* installable
Installable(p) ==
    /\ plan[p].state = "ready"
    /\ live
    /\ pins = plan[p].base
    /\ Sequence(plan[p].closure) = plan[p].snapshot

\* what an install acts on: the pin it replaces, the version it puts there and the status
\* record held of that version (the card names the plan, the pin and the version; the status
\* is not on it)
Standing(p) == [pin |-> pins, closure |-> plan[p].closure, sequence |-> Sequence(plan[p].closure)]

Consent(p, state) == consent' = [consent EXCEPT ![p].state = state]

\* the first catalog_install call of a plan: covered by grants, or a card is opened
StartInstall(p) ==
    /\ consent[p].state = "none"
    /\ ~authorized[p]
    /\ Installable(p)
    /\ consent' = [consent EXCEPT ![p] =
           [state |-> IF Covered(p) THEN "none" ELSE "awaiting", stood |-> Standing(p)]]
    /\ authorized' = [authorized EXCEPT ![p] = Covered(p)]
    /\ UNCHANGED <<server, trust, live, pins, plan, generations, grant, prompt, job, events>>

\* the user's answer, one of the choices the card offers
Answer(p) ==
    /\ consent[p].state = "awaiting"
    /\ \E choice \in {"once", "always", "deny"} :
        /\ choice = "always" => ~firstParty /\ consent[p].stood.pin \in {None, consent[p].stood.closure}
                                /\ SpecOf[p].op = "install"
        /\ Consent(p, choice)
    /\ UNCHANGED <<server, trust, live, pins, plan, generations, grant, prompt, flight, events>>

\* put_grant: a refresh adds to the ceiling and undoes a revocation
PutGrant(ceiling) == grant' = [live |-> TRUE, ceiling |-> grant.ceiling \union ceiling]

\* JournalWriter::catalog_install: pins, generation, grant and receipt commit together
CommitInstall(p) ==
    /\ pins' = plan[p].closure
    /\ generations' = Append(generations, [plan |-> p, closure |-> plan[p].closure, state |-> "approved"])
    /\ IF consent[p].state = "always" THEN PutGrant(CapsOf[plan[p].closure]) ELSE UNCHANGED grant
    /\ Consent(p, "done")

\* refuse_write: the refusal is the request's final outcome
RefuseInstall(p) ==
    /\ Consent(p, "refused")
    /\ UNCHANGED <<pins, generations, grant>>

\* the call goes on with the answer, or a retry finds the plan stale under an open card
FinishCard(p) ==
    /\ consent[p].state \in {"awaiting", "once", "always", "deny"}
    /\ ~(consent[p].state = "awaiting" /\ Installable(p))
    /\ IF Installable(p) /\ consent[p].state # "deny" THEN CommitInstall(p) ELSE RefuseInstall(p)
    /\ UNCHANGED <<server, trust, live, plan, prompt, flight, events>>

\* the call the grants covered reaches the writer, where coverage is looked at again
FinishGranted(p) ==
    /\ authorized[p]
    /\ authorized' = [authorized EXCEPT ![p] = FALSE]
    /\ IF Installable(p) /\ Covered(p) THEN CommitInstall(p) ELSE RefuseInstall(p)
    /\ UNCHANGED <<server, trust, live, plan, prompt, job, events>>

\* prefetch_catalog, in the install call or a replay of it; a failed prefetch changes no state
Prefetch(g) ==
    /\ generations[g].state = "approved"
    /\ live
    /\ generations' = [generations EXCEPT ![g].state = "ready"]
    /\ UNCHANGED <<server, trust, live, pins, plan, consent, grant, prompt, flight, events>>

\* catalog.ack_activation by core, of a generation it was shown ready
Activate(g) ==
    /\ generations[g].state = "ready"
    /\ live
    /\ ~BlockedIn(status, generations[g].closure)
    /\ generations' = [i \in DOMAIN generations |->
           IF i = g THEN [generations[i] EXCEPT !.state = "active"]
           ELSE IF generations[i].state \in {"active", "degraded"}
           THEN [generations[i] EXCEPT !.state = "superseded"]
           ELSE generations[i]]
    /\ UNCHANGED <<server, trust, live, pins, plan, consent, grant, prompt, flight, events>>

(***************************************************************************)
(* The operator, the other machines and the registry itself.                *)
(***************************************************************************)
\* catalog_registry_add, with the key the registry signs with now
AddRegistry ==
    /\ Event
    /\ registry = None
    /\ registry' = [incarnation |-> events', chain |-> <<[key |-> Len(keys), from |-> 0]>>]
    /\ UNCHANGED <<server, status, cursor, agent, grant, prompt, flight>>

\* catalog_registry_repin: the operator pins the new key, valid since the registry began to
\* use it or, left to the machine's clock, from now on
RepinRegistry ==
    /\ Event
    /\ registry # None
    /\ Epochs(registry.chain, Len(keys)) = {}
    /\ \E at \in {keys[Len(keys)].from, Len(log) + 1} :
        registry' = [registry EXCEPT !.chain = Append(@, [key |-> Len(keys), from |-> at])]
    /\ UNCHANGED <<server, status, cursor, agent, grant, prompt, flight>>

\* Faulty: a registry is always removable.
AlwaysRemovable == TRUE

\* no status of this registry is held
Removable == \A v \in Versions : status[v] # None => status[v].epoch = 0

\* catalog_registry_remove
RemoveRegistry ==
    /\ Event
    /\ registry # None
    /\ Removable
    /\ registry' = None
    /\ cursor' = None
    /\ UNCHANGED <<server, status, agent, grant, prompt, flight>>

\* seed_statuses: a starter bundle made when the log was n long gives the versions without
\* a status one, and its bytes
Seed ==
    /\ Event
    /\ firstParty
    /\ \A v \in Versions : status[v] # None /\ status[v].epoch # 0 =>
            registry # None /\ Restores(registry.chain, status[v])
    /\ \E n \in N..Len(log) :
        /\ WriteStatuses([v \in Versions |->
               IF status[v] = None THEN [pos |-> Latest(v, n), epoch |-> 0] ELSE status[v]])
    /\ UNCHANGED <<server, registry, cursor, live, pins, plan, consent, grant, prompt, flight>>

\* catalog.publisher_trust: the operator is shown the capabilities of the pinned versions
AskTrust ==
    /\ Event
    /\ prompt = None /\ live /\ pins # None /\ ~firstParty
    /\ prompt' = pins
    /\ UNCHANGED <<server, trust, agent, grant, flight>>

\* and the confirmed grant is written if the pins are still those; otherwise, or when the
\* operator declines or the prompt expires, it is refused
ConfirmTrust ==
    /\ prompt # None
    /\ prompt' = None
    /\ \/ pins = prompt /\ live /\ PutGrant(CapsOf[prompt])
       \/ UNCHANGED grant
    /\ UNCHANGED <<server, trust, agent, flight, events>>

RevokeGrant ==
    /\ Event
    /\ grant.live /\ live
    /\ grant' = [grant EXCEPT !.live = FALSE]
    /\ UNCHANGED <<server, trust, agent, prompt, flight>>

\* replay_pin: another machine installed a version for the agent
ReplayPin ==
    /\ Event
    /\ live
    /\ \E v \in Versions : v # pins /\ pins' = v
    /\ UNCHANGED <<server, trust, live, plan, consent, generations, grant, prompt, flight>>

\* the agent is retired
Retire ==
    /\ Event
    /\ live
    /\ live' = FALSE
    /\ UNCHANGED <<server, trust, pins, plan, consent, generations, grant, prompt, flight>>

\* a new status record of the registry
WriteStatus ==
    /\ Event
    /\ \E v \in Versions, s \in States :
        /\ s # log[Latest(v, Len(log))].state
        /\ Permits(log[Latest(v, Len(log))].state, s)
        /\ log' = Append(log, [version |-> v, state |-> s, key |-> Len(keys)])
    /\ UNCHANGED <<keys, firstParty, trust, agent, grant, prompt, flight>>

\* a new key of the registry, signed by the one before it or not
Rekey ==
    /\ Event
    /\ \E by \in {Len(keys), 0} : keys' = Append(keys, [from |-> Len(log) + 1, signedBy |-> by])
    /\ UNCHANGED <<log, firstParty, trust, agent, grant, prompt, flight>>

\* the module restarts: jobs and calls in flight are gone, the store stays
Restart ==
    /\ Fault("restart")
    /\ job' = [j \in Jobs |-> Idle]
    /\ authorized' = [p \in Plans |-> FALSE]
    /\ prompt' = None
    /\ UNCHANGED <<server, trust, agent, grant>>

-----------------------------------------------------------------------------
\* a machine without packages, its registry added or not
Fresh ==
    /\ firstParty \in BOOLEAN
    /\ registry \in {None, [incarnation |-> 0, chain |-> <<[key |-> 1, from |-> 0]>>]}
    /\ status = [v \in Versions |-> None]
    /\ cursor = None
    /\ pins = None
    /\ generations = <<>>

\* a machine whose agent runs version 1 of a third party's package, its feed read to the end
Running ==
    /\ firstParty = FALSE
    /\ registry = [incarnation |-> 0, chain |-> <<[key |-> 1, from |-> 0]>>]
    /\ status = [v \in Versions |-> [pos |-> v, epoch |-> 1]]
    /\ cursor = N
    /\ pins = 1
    /\ generations = <<[plan |-> 0, closure |-> 1, state |-> "active"]>>

Init ==
    /\ log = [v \in 1..N |-> [version |-> v, state |-> "available", key |-> 1]]
    /\ keys = <<[from |-> 0, signedBy |-> 0]>>
    /\ Fresh \/ Running
    /\ live = TRUE
    /\ plan = [p \in Plans |-> [state |-> "absent", base |-> None, closure |-> 0, snapshot |-> 0]]
    /\ consent = [p \in Plans |-> [state |-> "none", stood |-> None]]
    /\ grant = [live |-> FALSE, ceiling |-> {}]
    /\ prompt = None
    /\ job = [j \in Jobs |-> Idle]
    /\ authorized = [p \in Plans |-> FALSE]
    /\ events = 0

\* the steps the poll takes by itself
PollStep == StartPoll \/ ApplyKeys(Poll) \/ FetchFeed(Poll) \/ ApplyFeed(Poll)

Next ==
    \/ StartPoll
    \/ \E j \in Jobs : ApplyKeys(j) \/ FetchFeed(j) \/ ApplyFeed(j) \/ CallFails(j)
    \/ \E p \in Plans :
        \/ Prepare(p) \/ CheckPins(p) \/ FetchVersion(p) \/ AcceptVersion(p) \/ PublishVersion(p)
        \/ Resolve(p) \/ FinishPlan(p)
        \/ StartInstall(p) \/ Answer(p) \/ FinishCard(p) \/ FinishGranted(p)
    \/ \E g \in DOMAIN generations : Prefetch(g) \/ Activate(g)
    \/ AddRegistry \/ RepinRegistry \/ RemoveRegistry \/ Seed
    \/ AskTrust \/ ConfirmTrust \/ RevokeGrant \/ ReplayPin \/ Retire
    \/ WriteStatus \/ Rekey \/ Restart

Spec == Init /\ [][Next]_vars

FairSpec == Spec /\ WF_vars(PollStep)

-----------------------------------------------------------------------------
(***************************************************************************)
(* Properties.                                                              *)
(***************************************************************************)
\* What the machine holds is whole whatever the order of polls, preparations, seeds,
\* re-keyings and operator acts: every status row still authenticates under the chain of
\* keys it was accepted with, and no record at or below the cursor of the feed is missing,
\* since nothing asks for it again (apply_scope_feed, catalog_registry_remove).
HoldsCoverFeed ==
    /\ \A v \in Versions : status[v] # None /\ status[v].epoch # 0 =>
           registry # None /\ Restores(registry.chain, status[v])
    /\ cursor # None => \A v \in Versions :
           Latest(v, cursor) > 0 => status[v] # None /\ status[v].pos >= Latest(v, cursor)

\* A held status never goes back nor away: not by a registry copy that lags, a reply that
\* was overtaken, or a starter bundle older than the feed; and a version that was revoked
\* is never merely available again (apply_status, seed_statuses).
StatusOnlyAdvances ==
    [][\A v \in Versions : status[v] # None =>
           /\ status'[v] # None
           /\ status'[v].pos >= status[v].pos
           /\ HeldState(status, v) = "revoked" =>
                  log'[status'[v].pos].state \in {"revoked", "spared", "tombstoned"}
           /\ status'[v].epoch = 0 => status[v].epoch = 0]_vars

\* One generation of the agent runs at a time, and none is active on a version whose held
\* status blocks it, whichever of the acknowledgement, the poll and a preparation comes
\* first (catalog_generation_step, apply_status_effects).
RunningIsUsable ==
    /\ \A g, h \in DOMAIN generations :
           {generations[g].state, generations[h].state} \subseteq {"active", "degraded"} => g = h
    /\ \A g \in DOMAIN generations :
           generations[g].state = "active" => ~BlockedIn(status, generations[g].closure)

\* A plan is installed once, and only while nothing has changed since it was ready and its
\* install was asked for: at the commit the pin it replaces and the status record held of
\* the version are still the same, however long the card was open and whatever another
\* install, another machine or the registry did since; and without a card the publisher's
\* grant of that moment covers it (catalog_install).
InstallsUnchanged ==
    [][\A p \in Plans :
           /\ consent[p].state = "done" => consent'[p] = consent[p]
           /\ consent[p].state # "done" /\ consent'[p].state = "done" =>
                  /\ consent[p].stood = Standing(p)
                  /\ consent[p].state \in {"once", "always"} \/ Covered(p)]_vars

\* the served links continue the chain, and every current record verifies under it
Refreshable ==
    registry # None /\
    LET links == ApplyLinks(registry.chain, Len(keys)) IN
    /\ ~links.refused
    /\ \A v \in Versions : Verdict(links.chain, None, Latest(v, Len(log))) = "applied"

RevokedRuns ==
    \E g \in DOMAIN generations :
        /\ generations[g].state = "active"
        /\ log[Latest(generations[g].closure, Len(log))].state \in Blocking

\* A version the registry revoked does not keep running: a poll brings the revocation and
\* degrades the generation, unless the registry's documents do not verify (Worker::pass).
RevocationArrives == RevokedRuns ~> (~RevokedRuns \/ ~Refreshable)
==============================================================================
