# A TLA+ verification project for entorhinal

entorhinal is the identity module of a fleet of machines: it keeps projects,
agents, sessions and the catalog in one SQLite store per machine, shares part of
that store through an append-only *identity log*, and *moves* an agent, with all
the data other modules hold for it, from one machine to another. This directory
holds TLA+ modules translated from the Rust source, TLC runs over small
instances of them, and TLAPS proofs.

Paths below are relative to `src/crates/`; `core/` is
`entorhinal-core/src/`, `module/` is `entorhinal-module/src/`, `catalog/` is
`entorhinal-catalog/src/`.

## 1. Inventory

| Part | State | Operations | Hard part |
|---|---|---|---|
| Agent move, source (`module/move_source.rs`, row in `core/move_store.rs`) | one row per cut: step, pending call, abort request, seal flags, pinned claim version; a driver task's memory | admit, freeze/export each participant, seal the session cut, publish the move record, append to the receiver's inbox, hand off, release, abort cleanup | restarts between a save and a call, unanswered calls, the receiver acting at the same time |
| Agent move, receiver (`module/move_receiver.rs`) | one row per cut: step, touched participants, claim attempt, landed version | pick up from the inbox, import, stage, take the claim, cross the boundary, activate, install, finish or take over; return the claim and discard on abort | the boundary: before it everything is undone, after it nothing is |
| Shared records (`core/move_record.rs`, `module/record_client.rs`) | versioned records `move:<cut>`, `claim:<agent>`, `inbox:<machine>` | read, compare-and-swap | a reply can be lost; the write may land later or twice |
| Participants and the session door (`module/participant_client.rs`, `module/door_client.rs`) | external; frozen, exported, staged, active data; the sealed cut | prepare, export, release, import, activate, abort; seal, status, abort, release | calls that take effect after the caller gave up |
| Move admission and owners (`module/move_admission.rs`, `module/move_driver.rs`, `module/cut_release.rs`) | admission slots, registration fence, driver tasks | admit, refuse, restart owners | one driver per cut, no session registered on a frozen agent |
| Identity log: shared write (`module/shared_write.rs`, `core/pending.rs`) | writer lock, request-key cache, pending entries, applied position, seen head | one shared write: catch up, append at the expected head, commit or roll back, retry on contention | the SQLite transaction stays open while the log is asked; request dropped, process killed, reply lost |
| Identity log: catch-up (`module/catch_up.rs`, `core/remote_apply.rs`) | applied position, stall state, buffered snapshot parts | read pages in order, apply, skip own entries, apply snapshots | own entries whose local commit was lost; incomplete snapshots |
| Identity log: enable, join (`module/enable.rs`, `core/enable_state.rs`) | disabled, enabling, joining, enabled; saved snapshot parts | enable, resume, abandon, finish, join, supersede | two machines enable at once; a restart between parts |
| Liveness feed (`module/main.rs`, `module/sessions.rs`, `module/session_upkeep.rs`) | the mirror of the host's sessions, its stale latch and last sender; the queue of end stamps | take a snapshot or a delta, route bound or closed, answer, stamp | lost, repeated and overtaken reports; a replaced host; a stamp racing a registration |
| Session bindings (`module/sessions.rs`, `core/lib.rs`, `core/session_*.rs`) | registered sessions, network history, residence, carried sessions | register, re-key, end, prune, carry | a deadline that expires while the registration still runs; a move that opens beside it |
| Consent and grants (`module/consent.rs`, `module/tool_writes.rs`, `core/agent/consent.rs`) | requests with their saved plans, grants, the feed's cursor | plan, ask, poll, save, settle, write, revoke | an answer that arrives after its plan became stale; SQL that outlives its call |
| Claims and roles (`module/claims.rs`, `core/claim_cache.rs`, `module/roles.rs`, `core/role_cache.rs`) | cached records with versions | refresh, take, release, assign | a refresh overwriting a newer local fact |
| Project registry and agent store (`core/mutations.rs`, `core/ownership.rs`, `core/agent/*`) | the journal and the tables projected from it | register, roots, merge, seed, place, create, rename, import, rebuild | long sequences of operations; replay must agree with the live write |
| Root bindings (`core/binding.rs`) | bindings of roots to checkouts, approvals, retired epochs, containers | bind, approve, rebind, retire, attach, status | checkouts replaced under a request; an approval that outlives what was approved |
| Watches (`module/watches.rs`, `core/where_notify.rs`) | subscriptions | watch, notify after commit | a notification missed or repeated around a registration |
| Catalog (`catalog/*`, `module/catalog_*.rs`, `core/catalog*.rs`) | registries with their key chains, held statuses, the feed's cursor, pins, plans, generations, publisher grants | poll, prepare, install, activate, seed, trust, re-pin, remove | lagging and overtaken replies, a partial feed, plans that age under a card, revocation racing activation |
| Reads, tools, permissions, profile, memory, CLI, routing | none of their own, or one row each | request and reply | none that a model reaches |

Interactions. The two move drivers never talk to each other: they meet in the
shared records, and each one alone talks to its own participants; only the
source talks to the door that seals sessions. A move's claim record is the one
`claims.rs` caches. The identity log is an external, totally ordered log with
compare-and-append; each machine has one writer lock in front of it, shared by
requests, the 30 s background catch-up, and enable. The session host reports to
the feed over a route that the daemon binds and closes; feed, registration and
the stamp writer meet in the `session_binding` table. Moves and sessions meet
there too: an open move fences registrations, and its last step installs the
bindings it carried. Every write of registry, agents and consent is one shared
write: it goes through the writer lock and, when the log is on, through an
append. Consent asks the user through another module, Cingulate, which shows
cards and keeps a feed of answers. The catalog polls package registries; its
installs are consented writes, and core runs the generations they make.

## 2. Modules

| Module | What it is |
|---|---|
| `AgentMove` | one move of one agent: both drivers, their rows, the shared records, door and participants; its properties and inductive invariant |
| `MoveDecision` | what a move promises: one irrevocable decision, and where the agent may run before and after it |
| `MCAgentMove`, `MCAgentMoveLiveness` | fault mixes for TLC; the second also remembers whether the source restarted |
| `IdentityLog` | the shared log: several machines with shared writes, catch-up, enable, join and supersede; its properties |
| `SharedHistory` | what the log promises its clients: one growing history that no answer contradicts |
| `MCIdentityLog` | keys, fault mixes and symmetries for TLC |
| `LivenessFeed` | the session host's reports, the mirror kept of them, and the end stamps that follow; its properties |
| `MCLivenessFeed` | fault mixes and symmetry for TLC |
| `SessionBindings` | the bindings of several machines, their claims and caches, and moves as the bindings see them; its properties |
| `MCSessionBindings` | registrations and symmetry for TLC |
| `Registry` | projects, roots, workspaces, agents and names of one machine, live and replayed; its properties |
| `MCRegistry` | paths, requests and symmetries for TLC |
| `RootBindings` | bindings, approvals, containers and executions of one machine; its properties |
| `MCRootBindings` | symmetry for TLC |
| `Consent` | tool writes with the user's consent; its properties |
| `MCConsent` | requests, arguments and symmetry for TLC |
| `Catalog` | the packages of one machine, from the registry's feed to the running generation; its properties |
| `MCCatalog` | plans and capabilities for TLC |
| `AgentMoveProofs` | TLAPS: `AgentMove` is well typed; the boundary invariant and two action properties; the agent lives once, and `AgentMove` implements `MoveDecision`; the claim follows the data, and an abort leaves nothing |
| `IdentityLogProofs` | TLAPS: all safety of the shared log, and that it implements `SharedHistory` |
| `RootBindingsProofs` | TLAPS: approvals and ended bindings |
| `CatalogProofs` | TLAPS: held statuses, running generations and installs |
| `RegistryProofs` | TLAPS: replay, references, names on their placements, prompts and ids |
| `LivenessFeedProofs` | TLAPS: what the mirror answers, when it is stale, and which bindings end |
| `SessionBindingsProofs` | TLAPS: unique keys, carried bindings, histories and fences |
| `ConsentProofs` | TLAPS: one card and one write per request, writes and grants as answered, final outcomes |

### AgentMove

*State.* `rec`, `claim`, `inbox` are the three shared records (value and
version); `recq`, `claimq`, `inboxq` hold writes that were sent and never
answered, which may still arrive. `door`/`doorLate`, `sdata`/`slate` and
`rdata`/`rlate` are the door and the participants on either side, each with its
late calls. `src` and `rcv` are the durable rows (the `agent_moves` columns and
the JSON progress the drivers save in it); `sdrv` and `rdrv` are what a driver
task only remembers: the place reached in the pass (`pc`), the reading of the
record the pass acts on (`obs`, `ver`), the participants done in the present
loop, and the participant client's unresolved cuts. A restart resets the memory
and nothing else.

*Actions.* `SourceTick`/`ReceiverTick` are the start of a driver pass: read the
record once, update the row from what was seen, choose where to go. After that
each action is one outgoing call with the saves before and after it, in the
order the code makes them; every call has an "unanswered" outcome in which the
pass ends, the saved row names the call, and the call may take effect later.
Calls to participants run in plan order. The rest are the operator's abort and
retry, restarts, retried and final refusals, the door's own progress, a rival
machine claiming an unclaimed agent, and late deliveries.

*Abstractions.* Payloads, digests, plans and reasons are left out; an import
refused for its digest is the fault kind `digest`. Time is left out: a retry delay or a ten-minute
take-over wait is "at any later time". A write that
was sent twice without an answer is settled by a fresh reading, as `cas_settled`
does: it landed, or it moved, and then it may still be in flight
(`ClaimJudgedMoved`; for the move record that outcome only ends the pass). A receiver
whose take was settled as moved has `takeFailed` in its row; `GivenUp` names the
state and section 5, observation 16, says what follows. A pickup that ignores a
record (wrong author, unknown version) is no step. The seal refusal is fixed
for a behaviour, because the door answers a repeated request alike. Faults are
counted and bounded by `MaxFaults`; `FaultKinds` says which kinds may happen.

Definitions commented "Faulty" are not part of the specification: each is a
plausible error in the code, and the run named for it in `PROJECT.json` must
fail when it takes the place of the correct definition.

### MoveDecision

Three variables: the decision (`open`, `commit`, `abort`), the agent at
home (`running`, `paused`, `gone`) and the agent away (`absent`, `running`). The
agent may start away only after the decision to move, may resume at home only
when the move is not decided for the other machine, and leaves home for good
only after it runs away. `AgentMove!ImplementsDecision` maps the record and the rows to the
decision and the participants' data to the two places.

### IdentityLog

*State.* `log` is engram's log and `flight` the appends that nobody waits for
any more; they may arrive at any time, or never. `store[m]` is the durable part
of a machine: the columns of `identity_log_state`, the `pending_entry` rows, the
request keys and entry ids the journal has for writes committed here, the saved
snapshot plan, and the shared tables, represented by the changes that made them,
in order (`content`). `task[m]` is the holder of the writer lock (a write, the
read back after a first write, the background tick, an operator's enable) and
the place it has reached; the stall state is kept with it because it is only
memory. `answer[r]` and `host[r]` follow each client's write.

*Actions.* One call to the log, or one SQLite transaction, with the memory
updates that go with it. `Arrive` to `LockExpires` are the way to the lock;
`ReadPage`, `ApplyEntry` and `EndPage` are `Worker::run`, shared by all
holders; `BeginAttempt` to `Commit` are an attempt and its settlement;
`EnableHead` to `FinishEnable` are an enable. A client may go away at any place
(`Drop`), a process may restart (`Crash`), and a machine may start over with an
empty store (`StartOver`), which is what superseding exists for.

*Abstractions.* What a change does to the tables is its request key, so two
stores agree exactly when the same changes made them in the same order. A
snapshot carries the saved content and has `Parts` parts, all of one size. The
checks on the content of an entry (agent histories, member names, foreign keys,
import preconditions) are left out: a refused operation is `NothingToShare`.
The log is honest: positions have no gaps and the head never goes back, so the
branches for a dishonest one are left out, but a read that cannot be verified is
a fault, and stalls the machine. The reads with which a supersede is checked are
part of the step they belong to. Time is left out: a deadline is a fault that
may happen wherever the code waits.

### SharedHistory

A history of writes and snapshot parts that only grows, the prefix of it that
each machine has applied (`view`, back to nothing when a machine starts over),
and what the client of each write knows: `ok` only for a write some machine has
applied, `closed` only for one that is not in the history and never will be,
`unknown` at any time. `IdentityLog!ImplementsHistory` maps the log and the
answers to it.

### LivenessFeed

*State.* `host` is the host process that runs now: its module, its route, the
number of its last batch, its sessions, and whether it owes a snapshot. `flight`
holds batches under way, `admitted` those past admission, `bound` the principal
of each route (`route_admissions`). `mirror` is `LivenessState`, with number 0
for `last_seq: None`. `upkeep` is the stamp queue, the `Notify` permit and the
writer's transaction, `binding` what registrations and stamps do to a session's
row. Ghosts: `shown` (what each process had reported after each batch), `source`
(the process the mirror took its last batch from), `newest`, `late` (whether the
sender, and what the mirror is built on, came with an orphaned batch), and the
registration a stamp was reported for.

*Actions.* `Change`, `Snapshot`, `Connect`, `Replace` and `Lose` are the host,
the daemon and the transport, which are outside this repository: the host
numbers its batches from one, pushes every change, and sends a snapshot when it
connects, when a reply asks for one, and again when that call failed. The daemon
closes the routes of a provider before another one gets a route, or binds the
same route to another module. `Deliver`, `Apply`, `RouteGone`, `Register`,
`TakeStamps`, `WriteStamps` and `Restart` are this program. A batch is admitted
in one step and applied in another: the handler has no await in between, and no
lock either, so `on_bind` and `on_route_gone` may run there on another thread:
a batch whose route they change is `orphaned` and applied all the same. A snapshot is
taken whatever its number, so one that was overtaken puts an older state back;
the answers still match that report, and the next delta leaves a gap.

*Left out.* The queries that resolve the host capability and their cache on each
route (a refused batch is a lost one); the runner name that narrows a stamp; a
store of another machine, which takes no stamps; activity times and causes;
every refusal of a registration (`SessionBindings` has them).

### SessionBindings

*State.* Per machine: `rows` is `session_binding` by reference, `history` the
`session_network` entries of each, `cache` the `claim_cache`. Shared: `claim`,
the claim record of an agent. `reads` are claim reads that were answered and not
applied yet, `checks` admissions between their reads and their transaction,
`move` the latest move of an agent as its two rows show it. Ghosts: `data`
(which machines hold a session's data), `misled` (a cache that took "no claim"
from a read older than the first claim).

*Actions.* `RegisterSession` is `register_session_in` with all its refusals, its
re-keying and change of host; `EndSession`, `StampGone`, `SetSessionNetwork` and
`PruneEnded` are the other writers, `ReadClaim`/`ApplyClaimRead` a refresh of the
cache, `CheckMove`/`RefuseMove`/`AdmitMove` an admission, and `Export` to
`FinishMove` the steps of a move that open, close or read the fence. A registration
commits whether or not its caller was already told that the deadline expired.
`TakeClaim` takes the claim at the version the admission read (`take_claim`).

*Left out.* The steps of a move that no binding sees (they are `AgentMove`'s). Moves
of one agent follow one another: `AdmitMove` waits until no machine has one open,
where in the code a new holder may move the agent on while the old source still
releases. Also left out are
the time of a registration, transcripts, and the resolution of a route's providers.

### Registry

*State.* `db` is the live tables: projects, roots, derived parents, aliases,
workspaces, placements, agents and name claims. `copy` is what replaying the
journal yields: instead of the journal the model applies the replay of each row
to `copy` when the row is written, so `ReplayReproduces` compares the two halves
of the code after any sequence of writes. `prompt` is a placement whose operator
is being asked, with the text he sees (`summary`: which project moves where, the
first `SummaryNames` names, and how many there are) and what it stands for
(`stands`, a ghost); `carried` is what the last write moved.

*Actions.* One per mutation. A placement (`register`, `assign`, `upgrade`,
`seed`) is `PlacementWrite`, or, for a direct caller, `PrecheckPlacement` and
later `CommitDirect` or `RefuseDirect` on whatever the tables then hold.
`Rebuild` puts the replayed tables in place of the live ones.

*Left out.* Request keys (in `IdentityLog`), root keys and `attach_root`, which
need the log; bindings (in `RootBindings`); domains, tags, labels, avatars,
supervisors, GitHub names, workspace names, timestamps.

### RootBindings

*State.* `disk` is the token each checkout has, or that it cannot be read;
`owner`, `bound`, `retired`, `approved` and `attached` are the tables. `op` is
the request that holds the writer lock and what it has left to do. Ghosts:
`grant` (what the operator last approved at a root and has not withdrawn, there or
for the project), `passed` (epochs that a withdrawal for the project passed over)
and `exec` (an execution admitted under a binding).

*Actions.* Requests never interleave with each other, because a writing request
has the module's writer lock from start to end; `ChangeDisk` and `Crash` may come
between any two of their steps. `BindRead` and `BindCommit` are the two halves of
`bind_root`; a project approval is one `ApproveNext` per root.

*Left out.* Which paths may be roots (in `Registry`), git directories and
worktree paths, which are a token here, and stores without root records.

### Consent

*State.* `rows` are the `consent_request`s with their plans, `grant` the standing
grant for hires, `cursor` the feed position of each epoch; `world` is the part of
the registry a hire or a retirement depends on. `calls` are running tool calls;
`late` SQL jobs that outlive their call; `flight` appends without an answer;
`cards`, `feed`, `acked` and `mail` are Cingulate. `done` records the writes
applied for each request.

*Actions.* One SQL transaction or one call to Cingulate, with the code up to the
next await: `Start` plans, `Lease` to `Ask` make the row and the card, `Poll`,
`Page`, `Save` and `Ack` take answers from the feed, `Settle`, `WriteStep` and
`Refuse` end the request. A call may be abandoned anywhere (its SQL job still
lands), the module may restart, and others move the project, dismiss agents,
lower the cap or revoke the grant.

*Left out.* The tools that create workspaces, register projects and create heads
take the same path under grants of their own; malformed
records; audit rows. The digest of the arguments is the name they carry. The
24-hour retention of answers is `Day`, the 11 minutes after which a row without a
known card is given up are `Age`. By then the call that made the row is over
(`CallOver`), but a card it opened late may be pending for another minute.

### Catalog

*State.* `log` and `keys` are the registry's: the status records it wrote, in
the order of its feed, and its keys. `registry`, `status` and `cursor` are the
trust tables: the configured registry with the chain of keys the machine
trusts, the record held for each version with the key that signed it, and the
position the feed was read to. `pins`, `plan`, `consent`, `generations` and
`grant` are the installs of one agent. `job` is what the poll and each running
preparation remember between their transactions, `authorized` the installs that
grants covered and that have not reached the writer, `prompt` the operator's.
The position of a record in the log stands for its sequence, its time and its
feed position, which grow together.

*Actions.* One transaction or one call to the registry: `ApplyKeys`, `FetchFeed`
and `ApplyFeed` are `refresh_registry_keys` and `apply_scope_feed`, shared by the
poll and the preparations; `CheckPins` to `FinishPlan` are `prepare`;
`StartInstall` to `FinishGranted` are `catalog_install`, where the card may stay
open for any time; `Prefetch` and `Activate` end the way of a generation. The
operator adds, re-pins and removes the registry, seeds a starter bundle, trusts
a publisher; the agent may be retired or get another pin from elsewhere.

*Left out.* One scope with one registry (none by default), one package without
dependencies, of kind skill; blobs and the downloads that fill them; archive
bindings, which no honest registry changes; replies "not modified", which are
empty feeds; the capabilities of the machine; replays of a finished install.

## 3. Runs

| Run | Instance | What it shows |
|---|---|---|
| `safety` | 2 participants, all 9 fault kinds, 3 faults; about 810 000 states | the safety properties below, the inductive invariant, and that the drivers implement `MoveDecision` |
| `liveness` | 1 participant, 2 faults from which the drivers recover by themselves | every admitted move ends alike on both machines, a requested abort ends, the inbox forgets an ended cut; a source that finished aborting without a restart stays thawed |
| `log_writes` | 2 sharing machines, 3 writes of which 2 have one key, 1 retry, 2 faults (lost append, timeout, cancelled client, restart); about 980 000 states | replicas agree, nothing pending is forgotten, no key is shared twice behind the client's back, the answers fit the history |
| `log_enable` | 2 disabled machines, 3 enables, 2-part snapshots, 1 write, 2 faults (lost append, restart, unverifiable read, lost store) | the log stays readable for everyone and replicas agree, whoever enables, supersedes or joins |
| `log_liveness` | 2 disabled machines, 2 enables, 2-part snapshots, 1 write, 2 faults that leave the stores alone | a queued write ends, every enable ends, every sharing machine catches up |
| `feed_answers` | 2 sessions, 2 modules on 2 routes, 2 changes, 2 faults (lost, repeated, closed route, replaced host, restart); about 3 900 000 states | the mirror answers only what was reported, and is stale when its host is gone, but for a report whose route closed inside its handler |
| `feed_upkeep` | 1 session registered up to twice, 4 changes, 2 modules on 1 route, a queue of 1, 1 fault (lost, closed route, replaced host, restart, failed transaction) | the queue keeps its cap, only a reported end is stamped, on the run it was reported for unless a registration came between, an asked host gets the mirror rebased, every queued stamp is taken |
| `sessions` | 2 machines, 2 agents, 5 registrations, 3 local writes, 1 move, 2 claim reads, 2 clock values; about 890 000 states | the unique keys are never violated, histories follow sessions and stay readable, an admitted move exports what it planned and marks what it leaves behind, fences hold |
| `registry` | 3 paths, 2 chosen ids, 2 workspaces, 2 agents, 2 names, prompts with room for 1 name, any 4 writes; about 280 000 states | replay yields the live tables, nothing dangles, names follow placements, a confirmed placement moves what its prompt showed or counted, ids survive merges |
| `bindings` | 2 roots, 2 projects, 1 container, 2 tokens, 3 epochs, 2 changes of the disk, crashes; about 2 700 000 states | an approval is the operator's, but where a withdrawal for the project passed over the root; ended bindings stay ended and executions learn of it |
| `consent` | 2 calls, 2 hires and 1 retirement, 3 requests, faults and changes together; about 890 000 states | one card per request, the write its card showed, no acknowledged answer lost, write and outcome are one, with the exceptions of observations 10 and 11 |
| `catalog` | 2 versions, 1 install and 1 upgrade, withdrawals and revocations, 3 events (a status record, a new key, an operator's act, an install elsewhere, a first request, a failed or lagging call, a restart); about 370 000 states | held statuses are whole and only advance, nothing runs that is held as revoked, nothing is installed once it changed since it was ready, a revocation reaches what runs |

Most properties of the runs are conjunctions of named parts, given in
parentheses; each module's `TypeOK` is one of the parts. Four
more configurations reproduce divergences of section 5: each checks one property,
what a document or a comment of the repository says, and TLC refutes it with a short
trace. In the runs the property beside it names the exception.

| Configuration | Refutes | Said by |
|---|---|---|
| `MCAgentMove_stranded.cfg` | `ClaimNeverStranded`: observation 16 | `docs/agent-move-contract.md:170-172`, `:289-290` |
| `MCLivenessFeed_closed.cfg` | `ClosedRouteIsStale`: observation 6 | `docs/session-liveness-contract.md:95-98` |
| `MCRootBindings_withdrawn.cfg` | `WithdrawnForEveryRoot`: observation 9 | `core/binding.rs:1709`, `module/main.rs:2700` |
| `MCRegistry_more.cfg` | `ConfirmationCoversCarry`: observation 17 | `core/agent/carry.rs:336-338`, `docs/module-surface.md:48-49` |


`safety`: `TypeOK`; `LivesOnce` (`NeverBothLive`: the agent's data is never live on
both machines, `ReleaseAfterActivation`: the source drops its data only when every
receiver participant is active); `ClaimFollowsMove` (`ClaimFollowsData`,
`ClaimMovesOnce`: a lost reply never makes the claim move twice; `ClaimNeverStranded`
is the part of it that holds only without `GivenUp`);
`AbortLeavesNothing` (`AbortedReceiverIsClean`, `AbortedCutIsClosed`: no sealed cut
is left at the door); `BoundaryInv`; `RecordFollowsContract`; `BoundaryIsFinal`;
`ImplementsDecision`. `liveness`: `MovesAndAbortsEnd` (`MoveEnds`,
`ReceiverAbortEnds`, `InboxDrains`) and `ThawedUnlessRestarted`
(`AbortedSourceIsThawed` while the source has not restarted).

*Bounds.* Two participants are the least for which one is done and another is
not, and the drivers only distinguish the present participant, earlier ones and
later ones. Three faults allow a lost call, a restart and an operator's abort in
one behaviour, the shortest mix with which the divergences of section 5 appear;
versions and epochs need no bound, because each write moves the record along a
finite path. The proofs have neither bound.

In the log runs two machines are the least with contention; one retry is the
least with which an attempt is repeated and the retries are used up; two parts
are the least that can be interrupted; pages of two entries make catch-up go
on over several pages. Two faults allow the combinations the code is written for: a
lost append followed by a timeout, a cancelled client or a restart.

The log runs: `ReplicasAgree` (a store that applied a prefix of
the log holds what that prefix stands for: the last complete snapshot and every
later change), `StoresOK` (`TypeOK`, `PendingKnown`: an own entry that may still land, or
did without being applied, has its pending row), `OncePerKey`, `EnablesMeetSafely` (`ReplicasAgree`, `LogReadable`: no
catch-up stalls on an entry, no snapshot is cut in two), `ImplementsHistory`,
`WritesAndEnablesEnd` (`RequestsEnd`, `EnableEnds`, `CatchesUp`).

In the feed runs two sessions are the least with which a lost report hides one
and the next tells of the other; two changes make a session come and go, or make
a gap; two faults allow a lost report and a replaced host in one behaviour. Two
batches under way overtake each other. `feed_upkeep` needs four changes, with
which a session ends twice, fills the queue, and ends while the writer is busy;
it has one batch under way.

In `sessions` the five requests are the least that re-key a binding, change its
host kind, contend for a reference with another agent and for a runner's session
with another reference; three writes let two of them meet a third row; two
reads let one be applied after a move that it preceded. Histories hold two
entries, so the cap is met. In `registry` four writes are a project, a second
one, an agent or a placement, and the merge, removal or rename that disturbs
them; the paths have one nested and one separate root, two of them clones of one
repository. A prompt with room for one name of two is the least that counts one as "and
1 more". In `bindings` three epochs are a binding, the one that ends it, and a
third that could revive the first; two changes put one checkout in another's
place and back. In `consent` three events are one request with two faults or two
requests with one: requests, faults and changes by others share one bound.
In `catalog` three events are a request with two changes under it, or a revocation
with a lagging or failed reply and one more; it starts fresh or with a running
version, so that no event is spent on getting there.

The feed runs: `AnswersMatchReports` (a mirror that is not stale
answers what the host had reported with the batch it took last, unless it is built on a
late batch), `LostHostIsStale` (`ClosedRouteIsStale`, but for a late sender), `UpkeepOK` (`TypeOK` with the queue's cap; `EndsOnlyWhenReported`: not a
lapsed session, nor one a snapshot left out; `EndIsOfThisRun`: the end of an
earlier run is not taken for the end of the present one, unless its stamp still
waited when the session was registered again, observation 3), `UpkeepEnds`
(`AskedHostRebases`, `StampsAreTaken`).

`sessions`: `BindingsOK` (`TypeOK`; `SessionsBoundOnce`; `HistoriesReadable`: times rise
even when the clock steps back), `MovesCarryBindings` (`AdmittedMoveExports`: what was
bound when a move was admitted can be exported; `FirstMoveMarksHolders`: at the holder a
session whose data stayed behind says where it is, and any other has its data),
`HistoryFollowsSession`, `FencesHold` (`HeldStaysClosed`: a session held on another
machine is not opened here; `FormerHolderFenced`: a machine that gave an agent away, or
saw it claimed, opens no session of it, unless its cache was misled; `PlannedRefsKept`:
nobody takes a reference that an activation will bind, but another move that activates
first, observation 15).

`registry`: `TablesOK` (`TypeOK`, `ReferencesLive`; `BoundStayPresent`: a live agent's
project and workspace exist), `ReplayReproduces`, `NamesFollowPlacement`
(`MembersMatchPlacement`, `ClaimsOnPlacement`, `IdentitiesUnique`), `CarriesOnlyShown`
(a confirmed placement moves only claims of the projects and into the workspaces its
prompt showed, no more than it announced, and only listed names unless it counted some
as "and N more"), `IdsStayResolved`. `ConfirmationCoversCarry`, of `MCRegistry_more.cfg`, demands
that only those are moved that the prompt stood for.

`bindings`: `ApprovalIsGranted` (`WithdrawnForEveryRoot`, but for roots passed over),
`WorktreeNeedsCurrent` (with the same exception), `EndedStaysEnded` (`TypeOK`,
`RetiredEpochsEnd`, `EndedIsTold`).

`consent`: `OncePerRequest` (`TypeOK`, `OneCard`, `CommitOnce`), `ActsOnAnswers`
(`AppliedAsShown`, `GrantsFromAlways`, `AckedIsSaved`), `OutcomesFinal`.

`catalog`: `HoldsCoverFeed` (every held status still authenticates, and nothing at
or below the cursor is missing), `StatusOnlyAdvances`, `RunningIsUsable` (one
generation runs, and none is active on a version whose held status blocks it),
`InstallsUnchanged` (at the commit the pin and the held status are what they were when
the plan was ready and its install was asked for; the card itself shows no status),
`RevocationArrives`.

*Deadlock* is not checked for the feed, sessions, registry and catalog, whose changes are
counted, for a move, which ends, nor where all machines may stay disabled and
every write was answered. `log_writes`, `bindings` and `consent` check it: a tick,
a request or a retry is always possible.

*Fairness* (liveness runs). Weak fairness of each driver, of the inbox poll and
of the door: `move_driver.rs` runs a pass after a bounded delay for as long as
the row is not terminal, the inbox is polled every 30 s, and the door publishes
a sealed cut or reports that it failed. Nothing is assumed about late messages,
operators or restarts; faults are finite because they are counted. In the log
runs: weak fairness of the lock holder's steps and of the 30 s tick, and strong
fairness of a write that queues for the lock, because the lock is a tokio mutex,
which serves its waiters in order. Nothing is assumed of appends nobody waits
for. In `feed_upkeep`: weak fairness of the host (it reconnects and answers a
request), of the delivery of what is not lost, of the handler and of the stamp
writer, which are tasks the runtime polls when they are ready. In `catalog`: weak
fairness of the poll's steps, which `Worker::run` repeats every hour, also after a
failure; nothing is assumed of preparations, users and operators.

## 4. Proofs

Every theorem holds for every value of the constants. Each rests on an inductive
invariant that was first checked with TLC on the bounds of section 3, then proved
with one lemma per action.

### The agent move (`AgentMoveProofs`)

Four invariants; each is inductive given the ones before it.

* `TypeCorrect`: `Spec => []TypeOK`.
* `BoundaryInvariant`: `Spec => []BoundaryInv`. `RecordFollowsContract` and
  `BoundaryIsFinal` are not inductive: a write in flight, or the reading a pass
  acts on, may be older than the record. `BoundaryInv` says what such a write
  may be (if it could still land it names a legal transition; an abort from the
  receiver needs its row's abort request, one from the source only expects
  version 1), that each state of the record belongs to one version (an abort to
  2, 3 or 4), that a reading is of this or an earlier version, and which place
  in a pass fits which row. `RecordContract` and `BoundaryFinal` follow in one step.
* `LifeInvariant`: `Spec => []LifeInv`. That the source is frozen when the receiver
  activates cannot be seen from the two sets of data: they are on two machines.
  What connects them is the cut. `LifeInv` says that the receiver acts only on a
  cut that is or was listed (`ListedInv`), that a cut is listed only once its record
  exists and everything was exported, that before the receiver has a row nothing it
  could have written exists (`UnlistedInv`), and that once everything was exported
  source data is writable only in a move that is doomed: its record says aborted,
  or it was never listed and the source is giving up (`LiveInv`). `AgentLivesOnce`
  (`Spec => []LivesOnce`) follows.
* `MoveIsDecidedOnce`: `Spec => ImplementsDecision`, the refinement of
  `MoveDecision`. Under the invariant the mapped decision is the receiver's boundary
  against the doomed move (`Mapped`); no step both touches data and decides
  (`SourceDecidesApart`, `ReceiverDecidesApart`), so each maps to one abstract
  action or to a stutter (`AbstractStep`).
* `AbortInvariant`: `Spec => []AbortInv`. `ClaimWithData`
  (`Spec => []ClaimFollowsMove`) and `NothingLeft` (`Spec => []AbortLeavesNothing`)
  follow. What makes them inductive: a take in flight expects the version admission
  pinned and a return the version that take produced, so neither can land twice
  (`ClaimWriteInv`); data is staged, or may yet be, only where the row had saved the
  call (`CleanInv`); and the receiver starts to undo its data only when the claim is
  not its own and can no longer become it, or when it settled its take as moved
  (`TakeOver`, `UndoInv`), which is what reading the claim
  again before the undo (`ReceiverUndoCheck`) is for. Only the second case lets the claim
  come back, and data never. `DoorInv` is the same for the door: a seal
  it may know of was saved first.

### The identity log (`IdentityLogProofs`)

`StoresHold`, `ReplicasHold`, `KeysSharedOnce`, `EnablesStaySafe` and
`HistoryImplemented` state every safety property of the log, each from both initial
states: nobody shares yet (`Spec`), and everyone does (`SharingSpec`). All rest on one
inductive invariant, `IInv`, whose parts are said of the *values* of the variables
(`Good(l, f, st, tk, an, ho, en)`), because an action often does several things - a task
ends, its row goes and its client is told - and each of them keeps it by a lemma of its
own (`LandKeeps`, `LocalKeeps`, `EndKeeps`, `ForgetKeeps`, ...). Why each part is there:

* `LogOK`: every entry may stand where it stands (`Follows`): a change only after a
  complete snapshot, a part only after the parts before it, and a superseding snapshot
  only over entries of its own author. An unanswered append obeys the same rule
  for the position it expects (`FlightOK`), so it may land late and nothing breaks;
  this is what the expected head is for.
* `EntriesOnce`, `KeysOnce`: what is in the log *and what may still land at its head*
  has each write once. An older attempt of the lock holder cannot land any more, since
  the log has moved past the head it expects (`RowOK`, `SentOK`).
* `StoreOK`: the applied position is not inside a snapshot, and the content is the image
  of the log there. `Image` is a recursive function; the proof needs only that its
  steps are unique (`StepsAgree`, by a least counterexample) and that appending to the
  log changes none of them (`ImageGrows`).
* `ReadOK`, `SendOK`: everything between the applied position and the reader is one
  unfinished snapshot; the entry a commit is about to apply is the holder's own, at the
  next position; the parts an enable has confirmed are those of its plan.
* `SavedOK`, `PlansUsed`, `NumbersDiffer`: plan numbers are never used twice, so a part
  in the log with the number of a saved plan is that plan's. With `LogOK` this gives that
  no snapshot is cut in two (`NextIsPart`) and no catch-up stalls (`NextApplies`).
* `PendingOK`, `ServesOK`, `RequestOK`: an own entry that may be in the log without being
  applied has a pending row; a request whose entry is there, or may get there, is either
  still served, or done and its key known, or its client was told `unknown`, went away
  or was cut off.

For the refinement a step is `Quiet` (the log stays; machines move on or start over;
an open write may be answered, with `ok` only if a machine has applied it) or `Grows`
(one more entry, nothing else that shows). `QuietTells` and `GrowsAccepts` map the two
to the actions of `SharedHistory`: that a `closed` write has no entry, and that a new
entry is of a write that had none, come from `RequestOK` and `EntriesOnce` of the state
after the step.

### Approvals and bindings (`RootBindingsProofs`)

`EndedForGood`, `ApprovalGranted` and `WorktreeCurrent` state the three properties of
the run. The properties speak of answers, the invariant `BindingInv` of tables:
epochs are `1..n`, live or retired and none twice, also between the transactions of
one request; a binding is of the project that owns its root; an approved epoch is
one the operator granted for that root, project and checkout, or one that a
withdrawal for the project passed over; a container or an
execution whose epoch is live is in that binding's project. The epoch is what makes
`EndedStaysEnded` hold: without "none twice" a retired one could come back.

### The catalog (`CatalogProofs`)

`HoldsWhole`, `RunsUsable`, `StatusAdvances` and `NothingChanged`. A job acts on what it
read before its last await, so `CatalogInv` says what of it is still good (`JobFit`):
the position it asked the feed after is covered by the statuses held, and the record
it was served is in the log, whatever other jobs did meanwhile. The chain of keys
is only extended, so a status that authenticates under it still does later.
`ApplyLinks` runs a recursive function over the links of a reply; the proof needs only
that every step of it extends the chain, by a least counterexample among the
positions.

### The registry (`RegistryProofs`)

`ReplayIsExact`, `TablesHold`, `NamesFollow`, `ShownIsCarried` and `IdsResolve` state
all five properties of the run. `RegistryInv` is said of the value of the tables, since
a write may work on the result of another one (a moved root is removed, then
registered): `Placements` for projects and workspaces, `Identified` for agents, and
`copy = db`. Two facts are not among the properties: a live head or hiree always has a
live project, also before the correction of an import has run, and the agents table is
empty before the cutover.

The argument goes by operators, not by requests. Each of the four placement writes only
adds rows (`Grows`) and hands over the agents that the new placements put elsewhere
(`Carries`); from these two alone, `CarriedTables` shows that what is carried ends on
its placement without taking a name twice, and that replaying the after-images gives the
same tables. Replay of a registration infers the id again and takes its steps in another
order (`RegisterReplays`); the other rows replay with the code of the write. An agent's
write keeps the invariant when its row `Fits` the tables. For the prompt, what a write
moves are claims of the agents it carries (`MovedAreCarried`), and a summary with as many
names as it counts names each of them, because names stand at different places
(`SummaryShows`); equal summaries therefore announce, and without "and N more" list, what
is moved.

### The liveness feed (`LivenessFeedProofs`)

`UpkeepHolds`: `Spec => []UpkeepOK`. `FeedInv` says what a batch
under way is worth (`Carries`): its entries are what its host had with that number,
a snapshot carries all of it, and a push the one session that differs from the batch
before. Reports are never taken back (`ShownKept`), so a batch stays true however late
it arrives. `UpkeepInv` then says that a stamp in the queue or in the writer's
transaction is for a session reported gone, in the run the binding has or one that a
registration crossed; that is what the two claims about ended bindings leave out.

`LostHost`: `Spec => []LostHostIsStale`, and `AnswersMatch`: `Spec =>
[]AnswersMatchReports`. `RouteInv` adds that an admitted batch is from the principal its
route still has, unless it is orphaned: applied, it becomes the last sender, late in that
case (observation 6 of section 5). `AnswerInv` is what makes sequence numbers
mean anything when every host process counts from one: all batches under way that are
not orphaned are of one process, the one the mirror follows and the one with the route
(`OneLife`), as long as nothing late is in the mirror (`Vouches`); a snapshot that is not
late ends that. It holds because a provider can connect only when no other has a route:
then only orphans are under way and, by `LostHostIsStale`, the mirror is stale
(`ConnectAnswers`). A push
that leaves the mirror fresh is thus the next batch of what it has (`ApplyFollows`).

### Session bindings (`SessionBindingsProofs`)

`Bindings`, `MovesCarry`, `HistoryFollows` and `Fences` state all four properties of the
run, for every number of machines, agents, registrations and moves. They rest on `IInv`,
in four groups that most lemmas treat one by one (`TablesOK`, `ClaimsOK`, `MovesKept`,
`FirstMove`):

* Tables. The two unique keys are not kept by a write's own checks alone: an activation
  installs what another machine's tables held when they were exported. `StreamsOK`
  therefore says of a stream under way what the properties say of tables, and
  `HeldEnded` that a binding held elsewhere is finished, so that a row which collides
  with what it meets can go in as a placeholder or stay out.
* Claims. `VersionsOK`: an admission's reading of the claim, while the claim still has
  that version, names its machine or nobody; with the version that `take_claim` compares,
  a claim is taken from the source or from nobody. `CachesOK`: a cached or late reading is
  the current claim or an older one, and once an agent is away a reading that would name
  the former holder is older than what that machine has cached, so `decide` turns it down.
  `Phases` says which steps of source and receiver meet.
* Moves. `PublishedKept`: until the source is released its table has every binding of
  the plan and of the stream, since the open move fences registrations of the agent and
  pruning leaves an agent with an open move alone.
* First move. `UnmarkedHere`, `MarkedThere` and `StreamMarks` follow a mark from the
  export to the row installed from it; they hold while at most one move was admitted.

`HistoryFollowsSession` and `FencesHold` are proved step by step under `IInv`: one lemma
for each way a row gets another key or host, one for each writer.

The attempt to prove these changed the module. The model let a move that was
checked before the claim changed take the claim all the same, because `TakeClaim` did not
compare the version; the code does. An earlier `FirstMoveMarksHolders` also demanded that
a marked binding has no data on its own machine. Five writes refute that: a session is
registered on one machine, ends and is pruned there, runs on the other, ends and is
carried back, and the row it comes with names the other machine although old data is
here as well. `FormerHolderFenced` now says which machines can know that
they are fenced. And three machines refute that a reference the receiver has checked is
free when the activation commits (observation 15): the property that two machines
satisfied is now `PlannedRefsKept`, with that exception.

### Consent (`ConsentProofs`)

`AsksAndAppliesOnce`, `WritesWhatWasAnswered` and `FinalOutcomes` state all three
properties of the run, for every number of calls, requests, pages and faults. They rest on
`IInv` (`Inductive`). `Good` is said of the values of the variables, since one
transaction often changes a row and lets its call go on, and each of the two keeps it by
a lemma of its own (`RowsGood`, `CallGood`, `EndGood`, `LateGood`, `ShownGood`, ...).

* `CardsOnce`, `AsksOnce`: for each request there is a card, or one may still arrive from
  a reply nobody waited for, or the call that made the row has not asked yet, or the row
  may still be deleted because its card was refused: one of the four, and never twice. The
  lease alone does not give this, because jobs and letters outlive it; what does is that
  only the call that inserted the row asks (`OnRoute`), that a row is deleted only
  where no card can come of it, and that every card and every letter has its row (`Made`).
* `SavedPlan`: a call that found a row when it started goes on with the plan of the card.
  One that found none may not, if another call's row came in between: that is the
  exception of `AppliedAsShown`.
* `RowsFit`, `JobOK`: the card a row or a call knows is the request's, and a saved answer
  is that card's. An `always` grant therefore comes from such an answer, also in the
  excepted case: `GrantsFromAlways` has no exception.
* `AnswersSaved`, `CaptureOK`: up to the cursor every answer is in the row that waits for
  it, and a capture starts at or before the cursor, so saving a page that another call
  has passed loses nothing. `SaveRowsGo` shows this of a whole page: the first answer
  that a row takes is the one it keeps.
* `OutcomesFit`, `WritesFit`: `applied` is the outcome of one write.

`FinalOutcomes` needs that a row is deleted only while it has no answer, which again is
`AsksOnce`.

### Assumptions

Only the named assumptions on constants, which TLC evaluates in every run: at least one participant and fault kinds from the list
(`AgentMove`), requests that have a key, at least one snapshot part, markers that are no
machine or request (`ConstantsAssumption` of `IdentityLog`), no route or module named `none` (`LivenessFeed`), roots that are
numbered and markers that are no token, epoch or grant (`RootBindingConstants`,
`RootBindingMarkers`), finitely many agents, requests that name known paths,
workspaces and explicit ids, and a `None` that is no id or claim (`RegistryConstants`,
`RegistryRequests`, `RegistryNone`), registrations of known agents and runners, clock
values above 0 and a `None` that is no machine, runner, host or session
(`ConstantsAssumption` of `SessionBindings`), versions numbered from 1, plans that name versions and are not
0, and a `None` that is no record (`CatalogAssumption`, `CatalogNone`), requests with a
tool and known arguments, pages of at least one answer, and a `None` that is no request,
name or workspace (`ConsentAssumption`).

### Only model-checked

`ThawedUnlessRestarted`, which is about memory that only `MCAgentMoveLiveness` keeps.
Every liveness property stays with TLC: `ENABLED` and fairness are out of the prover's
reach.

## 5. Where code and documents disagree

The runs check what holds of the code; `tlc -config MCAgentMove_stranded.cfg
MCAgentMove`, and the three other configurations listed in section 3, refute what
the documents say of observations 6, 9, 16 and 17. Where an observation
below would refute a property, the property names the exception (1, 3, 6, 7, 9, 10, 11,
15, 16, 17) or the run leaves the case out (2: a fault kind; 14: a second registry).
Observations 4, 5, 8, 12 and 13 contradict no property: the properties say less there
than the documents do. 1 to 3 can be reproduced as described.

1. A prepare that was never answered, then a restart, then an abort:
   `freeze_export` (`module/move_source.rs:611`) does not settle the call the row
   still names, the client's memory of it is gone, and the abort finishes while
   the prepare can still arrive and freeze the agent
   (`docs/agent-move-contract.md:166`, `:235`). `AbortedSourceIsThawed` fails
   in `liveness` without the condition that `ThawedUnlessRestarted` adds.
2. When the refusal of a bad import is lost, the receiver's `settle_pending`
   (`module/move_receiver.rs:1110`) resends it on each pass, is refused each time
   and returns before it clears the call, in cleanup as well: the abort that
   `docs/agent-move-contract.md:179` promises never ends. `ReceiverAbortEnds`
   fails in `liveness` when `digest` is among its fault kinds.
3. `core/lib.rs:1351`: a registration clears the end time an earlier run left
   behind. The end of the earlier run may still be queued; the writer's UPDATE
   (`core/session_lifecycle.rs:210`) does not compare it with the time of
   registration and ends the new run. `EndIsOfThisRun` fails without its
   exception `crossed`.
4. The pending row of a write whose append never reached the log stays until some
   machine writes again (`core/pending.rs:168`), while `docs/sharing.md:98-100`
   says that the next catch-up settles it.
5. At its cap the set of gone sessions forgets the least key (`pop_first` on a
   `BTreeSet`), while `docs/session-liveness-contract.md:101-103` says the oldest;
   an answer turns from `gone` into `unknown`.
6. A route that closes between the admission of a batch and the mirror's lock
   becomes the last sender after it is gone (`module/main.rs:1890`), and its snapshot
   leaves the mirror fresh, against `docs/session-liveness-contract.md:95-98`:
   `MCLivenessFeed_closed.cfg`. `LostHostIsStale` and `AnswersMatchReports` leave out
   what such a batch brought (`late`), the one until the next batch, the other until the
   next snapshot on an open route.
7. An agent moves away with a live session, the session ends there, and the agent
   moves back: `install_moved_bindings` (`core/session_carry.rs:297`) keeps the
   first machine's own row, unmarked, although the data stayed behind
   (`docs/agent-move-contract.md:546`). `FirstMoveMarksHolders` is therefore about
   the first move of a binding; `MaxMoves = 2` shows the rest.
8. `core/binding.rs:1165` has "Roots never nest"; registration, upgrade and seeds do
   not check it. `plan_carry` (`core/agent/carry.rs`) says names stay reserved
   where they were released; `check_name` (`core/agent/claims.rs:62`) ignores
   released claims.
9. Withdrawing a project's approval passes over the roots whose checkout cannot
   be identified (`core/binding.rs:1745`; the doc at `:1709` says every root): the
   approval counts again once the checkout can be read (`MCRootBindings_withdrawn.cfg`).
   `ApprovalIsGranted` and `WorktreeNeedsCurrent` leave out these epochs (`passed`). A
   project approval that fails half way leaves its earlier roots approved. A replaced root is refused
   `root_not_bound`. A container stays attached to a retired epoch and cannot be
   attached anew (`container_foreign`).
10. `docs/consent-contract.md` section 6: "The write, its audit row, any new grant
   and the request's terminal outcome commit together." When the append of a
   consented write has no definite outcome (`core/mutations.rs:477`) the local
   transaction rolls back and catch-up applies the shared part alone; the retry
   meets its own name and is recorded as refused. `CommitOnce` leaves this out.
11. Consent, smaller: the row is loaded before the lease
   (`module/tool_writes.rs:225`, `:248`), so a call may go on with a plan of its
   own (the exception in `AppliedAsShown`); an older
   "always" revives a grant that was revoked since; a late deletion can make a
   retry end with `consent_lost`; a request whose answer was not saved within 24
   hours may stay pending (`module/consent.rs:472`).
12. A status that arrives between `catalog_resolve` and `catalog_plan_ready` is in
    the plan's snapshot, so `installable` (`core/catalog_agent.rs:919`) finds
    nothing changed and the install of a version held as revoked commits; only its
    activation is refused. The card names the plan, the base pins and what was
    prepared (`module/catalog_agent.rs:520`), not the status, so the approver is not told.
    `~BlockedIn(status, plan[p].closure)` at the commit fails in `catalog`;
    `InstallsUnchanged` says only that nothing changed since the plan was ready.
13. `catalog.ack_activation` looks at the generation's own state only
    (`core/catalog_agent.rs:882`): the late acknowledgement of an older ready
    generation supersedes the newer active one, while the read beside it, like
    `docs/catalog.md:560`, lists only newer ones as ready.
14. `catalog_feed_seq` and `catalog_feed_etag` (`core/catalog_trust.rs:114`, `:124`)
    look the cursor up by scope, the transaction by scope and registry: a scope
    that gets a registry of its own is first asked with the old one's cursor
    (read from the code; the model has one registry).
15. Nothing compares the plans of two incoming moves. Moves of two agents from two
    machines may plan the same reference: both pass `local_writers`
    (`module/move_receiver.rs:991`), each fence keeps registrations out
    (`core/move_store.rs:1096`) but not the other move, and the activation that commits
    second is refused `ref_bound_elsewhere` (`core/move_store.rs:826`) past the boundary,
    where the move can no longer be undone. It takes three machines, so `sessions` does
    not meet it; with three, `PlannedRefsKept` fails without its exception.
16. `cas_settled` (`module/record_client.rs:318`) answers "moved" when neither send of a
    write was answered and a fresh reading does not show it, although it may still land.
    `take_claim` (`module/move_receiver.rs:1484`) aborts the move on that answer, cleanup
    (`:1622`) accepts it again, reads that the claim is not its own, and finishes. The take
    may land afterwards: the source has thawed, and the claim is the receiver's for good,
    against `docs/agent-move-contract.md:170-172` and `:289-290` (`MCAgentMove_stranded.cfg`).
    `ClaimFollowsMove`, `AbortLeavesNothing` and `MoveEnds` leave that out (`GivenUp`); data
    is never staged or live in that case, and `ClaimFollowsData` and `ClaimMovesOnce` have
    no exception. A pass of cleanup that is repeated, as after an inbox removal nobody
    answered, sends the take again; if it lands then, that pass also returns it.
17. A prompt that has no room for every name ends with "and N more"
    (`core/agent/carry.rs:301`), and the confirmation is compared with that text (`:386`).
    Agents that are only counted may be renamed or exchanged for others before the write,
    against `core/agent/carry.rs:336-338` ("the confirmation must cover exactly what is
    carried") and `docs/module-surface.md:48-49` ("naming the exact change"):
    `MCRegistry_more.cfg`. `CarriesOnlyShown` says what remains.

## 6. Plan

Done: the agent move, its abstract decision and all its safety properties proved; the
identity log with shared writes, catch-up and enable, its safety and the refinement of its
abstract history proved; the liveness feed, root bindings, the registry with agents and
replay, the catalog, session bindings with claims and the fence of moves, and consent,
model-checked and their safety proved. Next, in this order:

1. Watches and the notifications after a commit; driver ownership and cut release
   of moves; the cached resolution of a route's providers.
2. The catalog's resolver over several packages against a reference definition;
   several scopes and registries; the catalog data of a move.

## 7. Not modelled

Wire and byte formats (canonical JSON, archives, bundles, claim codec), SQL schema
migrations, the command line, routing and rendering: no state of their own. User profile, memory and store origin are one SQLite row each
with request and reply. The role cache has no versions that could race.

Of the Rust lines well over half are tests, beside the code and in modules that
only a test build has (`module/served_vectors.rs`, `two_machine_acceptance.rs`,
`cut_barrier_rehearsal.rs`, the `fake_*.rs`). The fakes were read as evidence of
what the program expects of the modules around it; none of it is modelled.
