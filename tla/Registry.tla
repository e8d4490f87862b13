------------------------------ MODULE Registry ------------------------------
(***************************************************************************)
(* The project registry of one machine while the shared identity log is    *)
(* off: projects, roots, derived parents, aliases, workspaces, placements, *)
(* agents and their name claims, all written by mutations.rs, binding.rs,  *)
(* ownership.rs and agent/ through one journalled transaction.             *)
(*                                                                         *)
(* The tables are a projection of the journal: `rebuild` deletes them and  *)
(* replays every row.  `db` is the live tables; `copy` is what a replay of *)
(* the rows appended so far yields.  The journal itself is not kept: each  *)
(* write applies the replay of its own rows to `copy`, in their order.     *)
(*                                                                         *)
(* A placement write of a `direct` caller runs in two steps.  The precheck *)
(* runs the write on a throwaway copy and tells the operator which names   *)
(* it would carry (`prompt`); the write runs later, on whatever the tables *)
(* then hold.                                                              *)
(*                                                                         *)
(* Left out: request keys (IdentityLog), root keys and attach_root, which  *)
(* need the log, bindings and approvals (RootBindings), project domains,   *)
(* workspace names, timestamps, tags, labels, avatars, supervisors.        *)
(***************************************************************************)
EXTENDS Naturals, FiniteSets

CONSTANTS
    Paths,        \* canonical directories a request may name
    Prefix,       \* set of <<p, q>> with p = q or p a parent directory of q
    Repo,         \* [Paths -> repository of the `origin` remote, or None]
    Names,        \* project names
    Explicit,     \* project ids a caller may choose
    Workspaces,
    Identities,   \* identities a seed import may name
    Agents,       \* agent ids, naturals, in id order
    AgentNames,
    None,
    SummaryNames, \* how many names fit a prompt (OPERATOR_SUMMARY_LIMIT)
    MaxRows,      \* bound on the writes of a behaviour
    Requests,     \* the placement requests callers may send
    Prompted      \* the placement requests a direct caller may send

ASSUME RegistryConstants ==
    /\ Prefix \subseteq Paths \X Paths
    /\ Agents \subseteq Nat /\ IsFiniteSet(Agents)
    /\ SummaryNames \in Nat /\ MaxRows \in Nat
    /\ Prompted \subseteq Requests

\* Requests name canonical directories, workspaces, and ids a caller may choose.
ASSUME RegistryRequests ==
    \A r \in Requests :
        \/ /\ r.op = "register"
           /\ r.project \in Explicit \cup {None} /\ r.name \in Names
           /\ r.roots \cup r.parents \subseteq Paths /\ r.ws \in Workspaces \cup {None}
        \/ r.op = "assign" /\ r.ws \in Workspaces
        \/ /\ r.op = "upgrade"
           /\ r.project \in Explicit \cup {None} /\ r.name \in Names
           /\ r.roots \subseteq Paths /\ r.ws \in Workspaces \cup {None}
        \/ /\ r.op = "seed"
           /\ {x.root : x \in r.pairs} \subseteq Paths /\ r.workspaces \subseteq Workspaces

\* None is no project id and no claim.
ASSUME RegistryNone ==
    /\ None \notin {"explicit"} \X Explicit
    /\ None \notin {"seed"} \X Identities
    /\ None \notin {"register1", "upgrade1"} \X Names \X SUBSET Paths
    /\ None \notin [ns : Workspaces \cup {"global"}, name : AgentNames]

VARIABLES
    db,        \* the tables
    copy,      \* the tables a replay of the journal yields
    cutover,   \* the journal holds the agent.cutover marker
    astray,    \* agents whose imported claim no correction has moved yet
    prompt,    \* the direct placement write that waits for the operator
    carried,   \* claims the last write moved, and the prompt it ran under
    rows       \* number of writes

vars == <<db, copy, cutover, astray, prompt, carried, rows>>

-----------------------------------------------------------------------------
(* Tables are functions on the keys of their rows. *)

\* INSERT ... ON CONFLICT DO UPDATE
Put(f, k, v) == [x \in DOMAIN f \cup {k} |-> IF x = k THEN v ELSE f[x]]

\* INSERT OR IGNORE of one value under every key of S
AddNew(f, S, v) ==
    [x \in DOMAIN f \cup S |-> IF x \in DOMAIN f THEN f[x] ELSE v]

\* DELETE ... WHERE key IN S
Drop(f, S) == [x \in DOMAIN f \ S |-> f[x]]

\* UPDATE ... SET value = w WHERE value = v
Redirect(f, v, w) == [x \in DOMAIN f |-> IF f[x] = v THEN w ELSE f[x]]

RowsOf(f, v) == {x \in DOMAIN f : f[x] = v}

Empty == [x \in {} |-> None]

Chosen(x) == <<"explicit", x>>
Implicit(p) == <<"implicit", p>>
mint(domain, name, roots) == <<domain, name, roots>>
seed_id(identity) == <<"seed", identity>>

EmptyTables ==
    [project |-> Empty, root |-> Empty, parent |-> Empty, alias |-> Empty,
     disowned |-> {}, workspace |-> {}, wsroot |-> Empty, place |-> Empty,
     member |-> {}, agent |-> Empty, claim |-> Empty]

Live(d, id) == id \in DOMAIN d.project

-----------------------------------------------------------------------------
(* Agents: identity rows and name claims. *)

LiveAgents(d) == {g \in DOMAIN d.agent : d.agent[g].status = "live"}

\* Heads and hirees belong to a project; their workspace is its placement.
Staff(d) == {g \in LiveAgents(d) : d.agent[g].role \in {"head", "hiree"}}

ProjectUnbound(d, id) == \A g \in LiveAgents(d) : d.agent[g].project # id

WorkspaceUnbound(d, w) ==
    \A g \in LiveAgents(d) :
        /\ ~(d.agent[g].role = "workspace_head" /\ d.agent[g].ws = w)
        /\ ~(/\ d.agent[g].project \in DOMAIN d.place
             /\ d.place[d.agent[g].project] = w)

\* Some active claim other than g's holds the name in the namespace.
NameTaken(d, ns, name, g) ==
    \E h \in DOMAIN d.claim : h # g /\ d.claim[h] = [ns |-> ns, name |-> name]

\* Faulty: only the head of a project is carried.
PlanCarryHead(d, id, w) ==
    LET moved == {g \in Staff(d) :
                    /\ d.agent[g].project = id /\ d.agent[g].role = "head"
                    /\ d.claim[g].ns # w \/ d.agent[g].ws # None}
    IN  [g \in moved |-> w]

\* What placing a project in w does: the agents whose claim or stored
\* workspace changes, with the target of each.
plan_carry(d, id, w) ==
    LET moved == {g \in Staff(d) :
                    /\ d.agent[g].project = id
                    /\ d.claim[g].ns # w \/ d.agent[g].ws # None}
    IN  [g \in moved |-> w]

\* Every moving name must be free in its target, also within the batch.
check_names(d, moves) ==
    \A g \in DOMAIN moves :
        moves[g] # d.claim[g].ns =>
            /\ ~NameTaken(d, moves[g], d.claim[g].name, g)
            /\ \A h \in DOMAIN moves \ {g} :
                 moves[h] = moves[g] => d.claim[h].name # d.claim[g].name

\* Project ids are strings, which have an order; any will do.
ProjectOrder(S) ==
    CHOOSE f \in [S -> 1..Cardinality(S)] : \A x, y \in S : f[x] = f[y] => x = y

\* The moved agents that are listed before g: a clause per project, in project id
\* order, and the agents of a project in agent id order.
ListedBefore(d, moves, g) ==
    LET of(h)  == d.agent[h].project
        order == ProjectOrder({of(h) : h \in DOMAIN moves})
    IN  {h \in DOMAIN moves : \/ order[of(h)] < order[of(g)]
                              \/ of(h) = of(g) /\ h < g}

\* The prompt: which project moves where, the first names, each in its place, and
\* the number of agents, of which those not named are `and N more`.  Only names are
\* left out to fit (ids too long even so refuse, operator_summary_too_long).
carry_summary(d, moves) ==
    LET place(g) == Cardinality(ListedBefore(d, moves, g))
    IN  [where |-> {<<d.agent[g].project, moves[g]>> : g \in DOMAIN moves},
         names |-> {<<place(g), d.agent[g].project, d.agent[g].name>> :
                      g \in {h \in DOMAIN moves : place(h) < SummaryNames}},
         total |-> Cardinality(DOMAIN moves)]

\* What a prompt stands for: names, of a project, into a workspace.
Carriage(d, moves) == {<<d.agent[g].project, moves[g], d.agent[g].name>> : g \in DOMAIN moves}

\* One agent.set_namespace row per moved agent, an after-image; replay writes
\* the same image (apply_moves live, replay_agent_entry on replay).
apply_moves(d, moves) ==
    [d EXCEPT
        !.agent = [g \in DOMAIN @ |->
                     IF g \in DOMAIN moves THEN [@[g] EXCEPT !.ws = None]
                     ELSE @[g]],
        !.claim = [g \in DOMAIN @ |->
                     IF g \in DOMAIN moves THEN [@[g] EXCEPT !.ns = moves[g]]
                     ELSE @[g]]]

replay_moves(c, images) ==
    [c EXCEPT
        !.agent = [g \in DOMAIN @ \cup DOMAIN images.agent |->
                     IF g \in DOMAIN images.agent THEN images.agent[g]
                     ELSE @[g]],
        !.claim = [g \in DOMAIN @ \cup DOMAIN images.claim |->
                     IF g \in DOMAIN images.claim THEN images.claim[g]
                     ELSE @[g]]]

\* The after-images of the agents in S.
Images(d, S) ==
    [agent |-> [g \in S |-> d.agent[g]],
     claim |-> [g \in S \cap DOMAIN d.claim |-> d.claim[g]]]

-----------------------------------------------------------------------------
(* Roots: which project owns a directory. *)

Under(parent, p) == <<parent, p>> \in Prefix

Overlap(p, q) == Under(p, q) \/ Under(q, p)

\* The repository a root claims: its origin, unless an override disowns it.
Owned(d, p) == IF p \in d.disowned THEN None ELSE Repo[p]

\* Another project already owns the repository, through one of its roots.
repository_owner(d, id, repo) ==
    /\ repo # None
    /\ \E q \in DOMAIN d.root : d.root[q] # id /\ Owned(d, q) = repo

nested_root(d, p) == \E q \in DOMAIN d.root \ {p} : Overlap(p, q)

check_root_location(d, p) ==
    ~nested_root(d, p) /\ ~\E q \in DOMAIN d.parent : Overlap(p, q)

apply_add_root(d, id, p) ==
    [d EXCEPT !.root = Put(@, p, id), !.alias = AddNew(@, {Implicit(p)}, id)]

\* The override row goes with its root (ON DELETE CASCADE).
apply_remove_root(d, id, p) ==
    [d EXCEPT
        !.root = Drop(@, {p}),
        !.disowned = @ \ {p},
        !.alias = Drop(@, RowsOf(@, id) \cap {Implicit(p)})]

-----------------------------------------------------------------------------
(* Placement writes.  For each: the id it writes, its own refusals,        *)
(* whether it changes anything, what it carries, its effect, its replay.   *)

\* The project row, renamed when it exists.
Named(d, id, name) ==
    [d EXCEPT !.project = Put(@, id,
        [name |-> name, seed |-> IF Live(d, id) THEN @[id].seed ELSE None])]

\* INSERT OR IGNORE of the placement and of the local member row, which is
\* unique for a project.
Placed(d, id, w) ==
    IF w = None THEN d
    ELSE [d EXCEPT !.workspace = @ \cup {w},
                   !.place = AddNew(@, {id}, w),
                   !.member = IF \E m \in @ : m[2] = id THEN @
                              ELSE @ \cup {<<w, id>>}]

AddRoots(d, id, roots) ==
    [d EXCEPT !.root = AddNew(@, roots, id),
              !.alias = AddNew(@, {Implicit(p) : p \in roots}, id)]

Owners(d, r) ==
    {d.root[p] : p \in r.roots \cap DOMAIN d.root}
        \cup {d.parent[p] : p \in r.parents \cap DOMAIN d.parent}

RegisterId(d, r) ==
    IF r.project # None THEN Chosen(r.project)
    ELSE IF Owners(d, r) # {} THEN CHOOSE o \in Owners(d, r) : TRUE
    ELSE mint("register1", r.name, r.roots)

RegisterAllowed(d, r) ==
    LET id == RegisterId(d, r) IN
    /\ r.project = None => Cardinality(Owners(d, r)) <= 1
    /\ r.project # None => (Live(d, id) \/ id \notin DOMAIN d.alias)
    /\ \A p \in r.roots :
         /\ p \in DOMAIN d.root => d.root[p] = id
         /\ p \in DOMAIN d.parent => d.parent[p] = id
         /\ ~repository_owner(d, id, Owned(d, p))
    /\ \A q \in r.parents, p \in DOMAIN d.root :
         d.root[p] # id => ~Under(q, p)
    /\ \A p \in r.roots, q \in DOMAIN d.parent :
         d.parent[q] # id => ~Under(q, p)
    /\ (r.ws # None /\ id \in DOMAIN d.place) => d.place[id] = r.ws

\* Something the request names is not recorded yet.
RegisterChanged(d, r) ==
    LET id == RegisterId(d, r) IN
    ~(/\ Live(d, id)
      /\ d.project[id].name = r.name
      /\ r.roots \subseteq DOMAIN d.root
      /\ r.parents \subseteq DOMAIN d.parent
      /\ r.ws # None => id \in DOMAIN d.place
      /\ {Implicit(p) : p \in r.roots} \subseteq DOMAIN d.alias)

ApplyRegister(d, r) ==
    LET id == RegisterId(d, r)
        e  == AddRoots(Named(d, id, r.name), id, r.roots)
    IN  Placed([e EXCEPT !.parent = AddNew(@, r.parents, id)], id, r.ws)

\* The row holds the request, not the id, which replay infers again from what
\* it has replayed so far.
ReplayRegister(c, r) ==
    LET id == RegisterId(c, r)
        e  == Placed(Named(c, id, r.name), id, r.ws)
    IN  [AddRoots(e, id, r.roots) EXCEPT !.parent = AddNew(@, r.parents, id)]

\* A project that is already placed keeps its workspace.
CarryIfUnplaced(d, id, w) ==
    IF w # None /\ id \notin DOMAIN d.place THEN plan_carry(d, id, w)
    ELSE Empty

AssignAllowed(d, r) == Live(d, r.project)

AssignChanged(d, r) ==
    r.project \in DOMAIN d.place => d.place[r.project] # r.ws

\* The former member row is removed: a project has one.
ApplyAssign(d, r) ==
    [d EXCEPT !.workspace = @ \cup {r.ws},
              !.member = {m \in @ : m[2] # r.project
                                      \/ r.project \notin DOMAIN d.place
                                      \/ m[1] # d.place[r.project]}
                            \cup {<<r.ws, r.project>>},
              !.place = Put(@, r.project, r.ws)]

\* Faulty: replay inserts the placement where the write replaced it.
ReplayFirstAssign(c, r) ==
    [ApplyAssign(c, r) EXCEPT !.place = AddNew(c.place, {r.project}, r.ws)]

ReplayAssign(c, r) == ApplyAssign(c, r)

UpgradeId(r) ==
    IF r.project # None THEN Chosen(r.project)
    ELSE mint("upgrade1", r.name, r.roots)

UpgradeAllowed(d, r) ==
    r.implicit \in DOMAIN d.alias => d.alias[r.implicit] = UpgradeId(r)

UpgradeChanged(d, r) ==
    ~(/\ Live(d, UpgradeId(r))
      /\ d.project[UpgradeId(r)].name = r.name
      /\ r.roots \subseteq DOMAIN d.root
      /\ r.implicit \in DOMAIN d.alias)

\* A root another project owns stays with it.
ApplyUpgrade(d, r) ==
    LET id == UpgradeId(r)
        e  == AddRoots(Named(d, id, r.name), id, r.roots)
    IN  Placed([e EXCEPT !.alias = Put(@, r.implicit, id)], id, r.ws)

ReplayUpgrade(c, r) == ApplyUpgrade(c, r)

\* The identity a root was observed under: a git identity wins over a
\* directory one, and a root seen under two is left out.
SeedIdentities(r, p) ==
    LET seen == {x \in r.pairs : x.root = p}
        git  == \E x \in seen : x.class = "git"
    IN  {x.identity : x \in {y \in seen : git => y.class # "dir"}}

SeedGroup(r, i) ==
    {p \in {x.root : x \in r.pairs} : SeedIdentities(r, p) = {i}}

\* Identities whose project is theirs to join or free to create.
SeedTargets(d, r) ==
    {i \in Identities :
        /\ SeedGroup(r, i) # {}
        /\ IF Live(d, seed_id(i)) THEN d.project[seed_id(i)].seed = i
           ELSE seed_id(i) \notin DOMAIN d.alias}

Available(d, r, i) == SeedGroup(r, i) \ DOMAIN d.root

\* The targets the import writes: new projects, and known ones that gain a root.
SeedWritten(d, r) ==
    {i \in SeedTargets(d, r) :
        Available(d, r, i) # {} \/ ~Live(d, seed_id(i))}

\* Where the export places the identity; several claims place it nowhere.
SeedPlace(r, i) ==
    LET ws == {m[2] : m \in {x \in r.members : x[1] = i}}
    IN  IF Cardinality(ws) = 1 THEN CHOOSE w \in ws : TRUE ELSE None

\* A placement in a workspace that does not exist breaks a foreign key.
SeedAllowed(d, r) ==
    \A i \in SeedWritten(d, r) :
        SeedPlace(r, i) \in d.workspace \cup r.workspaces \cup {None}

SeedChanged(d, r) ==
    \/ ~(r.workspaces \subseteq d.workspace)
    \/ SeedWritten(d, r) # {}

SeedCarry(d, r) ==
    LET new == {i \in SeedWritten(d, r) : SeedPlace(r, i) # None
                                            /\ seed_id(i) \notin DOMAIN d.place}
        moved == UNION {DOMAIN plan_carry(d, seed_id(i), SeedPlace(r, i)) :
                          i \in new}
    IN  [g \in moved |->
            SeedPlace(r, CHOOSE i \in new : seed_id(i) = d.agent[g].project)]

\* The roots of different identities are disjoint, so the order in which the
\* import takes the identities does not matter.
ApplySeed(d, r) ==
    LET W  == SeedWritten(d, r)
        at == [q \in UNION {Available(d, r, i) : i \in W} |->
                 seed_id(CHOOSE i \in W : q \in Available(d, r, i))]
        P  == {i \in W : SeedPlace(r, i) # None}
    IN  [d EXCEPT
            !.workspace = @ \cup r.workspaces,
            !.project = [x \in DOMAIN @ \cup {seed_id(i) : i \in W} |->
                           IF x \in DOMAIN @ THEN @[x]
                           ELSE [name |-> "seeded", seed |-> x[2]]],
            !.root = [q \in DOMAIN @ \cup DOMAIN at |->
                        IF q \in DOMAIN @ THEN @[q] ELSE at[q]],
            !.alias = [x \in DOMAIN @ \cup {Implicit(q) : q \in DOMAIN at} |->
                         IF x \in DOMAIN @ THEN @[x] ELSE at[x[2]]],
            !.place = [x \in DOMAIN @ \cup {seed_id(i) : i \in P} |->
                         IF x \in DOMAIN @ THEN @[x] ELSE SeedPlace(r, x[2])],
            !.member = @ \cup {<<SeedPlace(r, i), seed_id(i)>> :
                         i \in {j \in P : \A m \in @ : m[2] # seed_id(j)}}]

\* Replay decides again, against what it has replayed so far.
ReplaySeed(c, r) == ApplySeed(c, r)

-----------------------------------------------------------------------------
(* The shared shape of the four placement writes. *)

Allowed(d, r) ==
    CASE r.op = "register" -> RegisterAllowed(d, r)
      [] r.op = "assign"   -> AssignAllowed(d, r)
      [] r.op = "upgrade"  -> UpgradeAllowed(d, r)
      [] r.op = "seed"     -> SeedAllowed(d, r)

Changed(d, r) ==
    CASE r.op = "register" -> RegisterChanged(d, r)
      [] r.op = "assign"   -> AssignChanged(d, r)
      [] r.op = "upgrade"  -> UpgradeChanged(d, r)
      [] r.op = "seed"     -> SeedChanged(d, r)

Carry(d, r) ==
    CASE r.op = "register" -> CarryIfUnplaced(d, RegisterId(d, r), r.ws)
      [] r.op = "assign"   -> plan_carry(d, r.project, r.ws)
      [] r.op = "upgrade"  -> CarryIfUnplaced(d, UpgradeId(r), r.ws)
      [] r.op = "seed"     -> SeedCarry(d, r)

Apply(d, r) ==
    CASE r.op = "register" -> ApplyRegister(d, r)
      [] r.op = "assign"   -> ApplyAssign(d, r)
      [] r.op = "upgrade"  -> ApplyUpgrade(d, r)
      [] r.op = "seed"     -> ApplySeed(d, r)

Replay(c, r) ==
    CASE r.op = "register" -> ReplayRegister(c, r)
      [] r.op = "assign"   -> ReplayAssign(c, r)
      [] r.op = "upgrade"  -> ReplayUpgrade(c, r)
      [] r.op = "seed"     -> ReplaySeed(c, r)

\* A write that carries nothing passes; a carry needs the cutover and its names.
admit_carry(d, moves) ==
    moves = Empty \/ (cutover /\ check_names(d, moves))

\* The write is not refused and would append a row.
Admitted(d, r) ==
    Allowed(d, r) /\ Changed(d, r) /\ admit_carry(d, Carry(d, r))

NotCarrying == [moved |-> {}, prompt |-> None]

\* The name claims that a write moved.
MovedClaims(d, after) ==
    {<<d.agent[g].project, after.claim[g].ns, d.agent[g].name>> :
        g \in {h \in LiveAgents(d) : h \in DOMAIN d.claim
                                        /\ d.claim[h] # after.claim[h]}}

\* The op's row, then one agent.set_namespace row per carried agent.
Commit(r, confirmed) ==
    LET moves == Carry(db, r)
        after == apply_moves(Apply(db, r), moves)
    IN  /\ rows < MaxRows
        /\ Admitted(db, r)
        /\ db' = after
        /\ copy' = replay_moves(Replay(copy, r), Images(after, DOMAIN moves))
        /\ carried' = [moved |-> MovedClaims(db, after), prompt |-> confirmed]
        /\ rows' = rows + 1
        /\ UNCHANGED <<cutover, astray>>

\* A write prefrontal-core relays: no confirmation is required.
PlacementWrite(r) == Commit(r, None) /\ UNCHANGED prompt

\* precheck_placement: the whole write on a throwaway copy; a refusal or a
\* write that changes nothing raises no prompt.
PrecheckPlacement(r) ==
    /\ prompt = None
    /\ Allowed(db, r)
    /\ Changed(db, r) => admit_carry(db, Carry(db, r))
    /\ LET moves == IF Changed(db, r) THEN Carry(db, r) ELSE Empty
       IN  prompt' = [req |-> r, summary |-> carry_summary(db, moves),
                      stands |-> Carriage(db, moves)]
    /\ UNCHANGED <<db, copy, cutover, astray, carried, rows>>

\* Faulty: what the operator saw is not compared again.
ConfirmedOnce(r) == TRUE

\* The confirmed write: under the writer lock the summary is built again, and it
\* must be the one the operator saw.
Confirmed(r) ==
    Carry(db, r) = Empty \/ carry_summary(db, Carry(db, r)) = prompt.summary

CommitDirect ==
    /\ prompt # None
    /\ Confirmed(prompt.req)
    /\ Commit(prompt.req, prompt)
    /\ prompt' = None

\* The write is refused, changes nothing, or the operator declines.
RefuseDirect ==
    /\ prompt # None
    /\ prompt' = None
    /\ UNCHANGED <<db, copy, cutover, astray, carried, rows>>

-----------------------------------------------------------------------------
(* The other project and root writes. *)

\* A write whose row replay applies as `played`.
Write(written, played) ==
    /\ rows < MaxRows
    /\ db' = written
    /\ copy' = played
    /\ rows' = rows + 1
    /\ carried' = NotCarrying
    /\ UNCHANGED <<cutover, astray, prompt>>

AddWorkspace(d, w) == [d EXCEPT !.workspace = @ \cup {w}]

CreateWorkspace(w) ==
    /\ w \notin db.workspace
    /\ Write(AddWorkspace(db, w), AddWorkspace(copy, w))

set_workspace_root_projection(d, w, p) == [d EXCEPT !.wsroot = Put(@, w, p)]

SetWorkspaceRoot(w, p) ==
    /\ w \in db.workspace
    /\ (IF w \in DOMAIN db.wsroot THEN db.wsroot[w] ELSE None) # p
    /\ Write(set_workspace_root_projection(db, w, p),
             set_workspace_root_projection(copy, w, p))

\* The workspace's root goes with it (ON DELETE CASCADE).
RemovedWorkspace(d, w) ==
    [d EXCEPT !.place = Drop(@, RowsOf(@, w)),
              !.member = {m \in @ : m[1] # w},
              !.wsroot = Drop(@, {w}),
              !.workspace = @ \ {w}]

ReplayRemoveWorkspace(c, w) == RemovedWorkspace(c, w)

RemoveWorkspace(w) ==
    /\ w \in db.workspace
    /\ WorkspaceUnbound(db, w)
    /\ Write(RemovedWorkspace(db, w), ReplayRemoveWorkspace(copy, w))

\* Faulty: the merged id itself gets no alias.
MergedWithoutAlias(d, id, s) ==
    [d EXCEPT !.root = Redirect(@, id, s),
              !.parent = Redirect(@, id, s),
              !.alias = Redirect(@, id, s)]

\* Roots, parents and aliases go to the successor, and the id becomes an alias.
MergedProject(d, id, s) ==
    [d EXCEPT !.root = Redirect(@, id, s),
              !.parent = Redirect(@, id, s),
              !.alias = Put(Redirect(@, id, s), id, s)]

\* Faulty: the derived parents of the project stay.
ErasedRootsOnly(d, id) ==
    [d EXCEPT !.root = Drop(@, RowsOf(@, id)),
              !.disowned = @ \ RowsOf(d.root, id),
              !.alias = Drop(@, RowsOf(@, id) \cup {id})]

ErasedProject(d, id) ==
    [d EXCEPT !.root = Drop(@, RowsOf(@, id)),
              !.disowned = @ \ RowsOf(d.root, id),
              !.parent = Drop(@, RowsOf(@, id)),
              !.alias = Drop(@, RowsOf(@, id) \cup {id})]

RemovedProject(d, id, s) ==
    [(IF s = None THEN ErasedProject(d, id) ELSE MergedProject(d, id, s))
        EXCEPT !.place = Drop(@, {id}),
               !.member = {m \in @ : m[2] # id},
               !.project = Drop(@, {id})]

ReplayRemoveProject(c, id, s) == RemovedProject(c, id, s)

\* Refusing a bound project keeps live agents on a project that exists.
RemoveProject(id, s) ==
    /\ Live(db, id)
    /\ s # None => (s # id /\ Live(db, s))
    /\ ProjectUnbound(db, id)
    /\ Write(RemovedProject(db, id, s), ReplayRemoveProject(copy, id, s))

AddRoot(id, p) ==
    /\ Live(db, id)
    /\ p \notin DOMAIN db.root
    /\ check_root_location(db, p)
    /\ ~repository_owner(db, id, Owned(db, p))
    /\ Write(apply_add_root(db, id, p), apply_add_root(copy, id, p))

\* While the log is off a project keeps its last root.
RemoveRoot(p) ==
    /\ p \in DOMAIN db.root
    /\ Cardinality(RowsOf(db.root, db.root[p])) > 1
    /\ Write(apply_remove_root(db, db.root[p], p),
             apply_remove_root(copy, db.root[p], p))

\* remove_root and register in one transaction; register's own checks run on
\* the tables the removal left.
MoveRootToNewProject(p, name) ==
    LET from == db.root[p]
        id   == mint("register1", name, {p})
        r    == [op |-> "register", project |-> None, name |-> name,
                 roots |-> {p}, parents |-> {}, ws |-> None]
    IN  /\ p \in DOMAIN db.root
        /\ Cardinality(RowsOf(db.root, from)) > 1
        /\ ~Live(db, id) /\ id \notin DOMAIN db.alias
        /\ RegisterAllowed(apply_remove_root(db, from, p), r)
        /\ Write(ApplyRegister(apply_remove_root(db, from, p), r),
                 ReplayRegister(apply_remove_root(copy, from, p), r))

apply_owned_remotes(d, p, owned) ==
    [d EXCEPT !.disowned = IF owned THEN @ \ {p} ELSE @ \cup {p}]

SetOwnedRemotes(p, owned) ==
    /\ p \in DOMAIN db.root
    /\ owned => ~repository_owner(db, db.root[p], Repo[p])
    /\ owned = (p \in db.disowned)
    /\ Write(apply_owned_remotes(db, p, owned),
             apply_owned_remotes(copy, p, owned))

\* rebuild: the tables become what the journal replays to.
Rebuild == db' = copy /\ UNCHANGED <<copy, cutover, astray, prompt, carried, rows>>
-----------------------------------------------------------------------------
(* Agent writes.  Each journals the after-image of the agent and its claims. *)

\* The agent's row and active claim; no claim for an agent that is gone.
WithAgent(d, g, row, claim) ==
    [d EXCEPT !.agent = Put(@, g, row),
              !.claim = IF claim = None THEN Drop(@, {g}) ELSE Put(@, g, claim)]

replay_agent_entry(c, g, row, claim) == WithAgent(c, g, row, claim)

WriteAgent(g, row, claim) ==
    /\ cutover
    /\ Write(WithAgent(db, g, row, claim),
             replay_agent_entry(copy, g, row, claim))

\* A live project, or the live target of its single alias hop.
ResolveProject(d, id) ==
    IF Live(d, id) THEN id
    ELSE IF id \in DOMAIN d.alias /\ Live(d, d.alias[id]) THEN d.alias[id]
    ELSE None

Row(role, project, ws, name) ==
    [role |-> role, project |-> project, ws |-> ws, name |-> name,
     status |-> "live"]

CreateStaff(g, role, ref, name) ==
    LET id == ResolveProject(db, ref)
        ns == db.place[id]
    IN  /\ g \notin DOMAIN db.agent
        /\ id # None
        /\ id \in DOMAIN db.place
        /\ ~NameTaken(db, ns, name, g)
        /\ role = "head" => \A h \in LiveAgents(db) :
                              ~(db.agent[h].role = "head"
                                  /\ db.agent[h].project = id)
        /\ WriteAgent(g, Row(role, id, None, name), [ns |-> ns, name |-> name])

CreateWorkspaceHead(g, w, name) ==
    /\ g \notin DOMAIN db.agent
    /\ w \in db.workspace
    /\ ~NameTaken(db, w, name, g)
    /\ WriteAgent(g, Row("workspace_head", None, w, name),
                  [ns |-> w, name |-> name])

CreateAssistant(g, name) ==
    /\ g \notin DOMAIN db.agent
    /\ ~NameTaken(db, "global", name, g)
    /\ WriteAgent(g, Row("assistant", None, None, name),
                  [ns |-> "global", name |-> name])

\* A rename keeps the namespace of the active claim.
Rename(g, name) ==
    /\ g \in LiveAgents(db)
    /\ g \in Staff(db) => db.agent[g].project \in DOMAIN db.place
    /\ ~NameTaken(db, db.claim[g].ns, name, g)
    /\ WriteAgent(g, [db.agent[g] EXCEPT !.name = name],
                  [db.claim[g] EXCEPT !.name = name])

\* Disposing and merging release the claim.
Dispose(g) ==
    /\ g \in LiveAgents(db)
    /\ WriteAgent(g, [db.agent[g] EXCEPT !.status = "retired"], None)

Merge(g, into) ==
    /\ g \in LiveAgents(db)
    /\ into \in LiveAgents(db) \ {g}
    /\ WriteAgent(g, [db.agent[g] EXCEPT !.status = "merged"], None)

\* A source row: its claim may sit in any namespace, and a head's or hiree's
\* row may store a workspace.
Imported(g, row, ns) ==
    /\ row.project # None => Live(db, row.project)
    /\ row.role = "workspace_head" => row.ws \in db.workspace

\* agent.import: rows and claims as the source held them, then the marker.
Import(g, row, ns) ==
    /\ ~cutover
    /\ rows < MaxRows
    /\ Imported(g, row, ns)
    /\ db' = WithAgent(db, g, row, [ns |-> ns, name |-> row.name])
    /\ copy' = replay_agent_entry(copy, g, row, [ns |-> ns, name |-> row.name])
    /\ cutover' = TRUE
    /\ astray' = {g}
    /\ rows' = rows + 1
    /\ carried' = NotCarrying
    /\ UNCHANGED prompt

\* An empty source: the marker alone.
ImportNothing ==
    /\ ~cutover
    /\ cutover' = TRUE
    /\ UNCHANGED <<db, copy, astray, prompt, carried, rows>>

\* The correction's plan: every head and hiree that stores a workspace, and
\* every live one whose claim is off its project's placement.
plan_repair(d) ==
    LET off(g)  == /\ d.agent[g].project \in DOMAIN d.place
                   /\ d.claim[g].ns # d.place[d.agent[g].project]
        moved   == {g \in Staff(d) : d.agent[g].ws # None \/ off(g)}
    IN  [g \in moved |-> d.place[d.agent[g].project]]

\* Rows of agents that are gone lose a stored workspace too.
ClearGone(d) ==
    [d EXCEPT !.agent = [g \in DOMAIN @ |->
        IF @[g].status # "live" /\ @[g].role \in {"head", "hiree"}
        THEN [@[g] EXCEPT !.ws = None] ELSE @[g]]]

\* Refused as a whole while some live head or hiree has no placement.
RepairAgentWorkspaces ==
    LET moves == plan_repair(db)
        after == ClearGone(apply_moves(db, moves))
        wrote == {g \in DOMAIN db.agent : after.agent[g] # db.agent[g]
                                            \/ g \in DOMAIN moves}
    IN  /\ cutover
        /\ \A g \in Staff(db) : db.agent[g].project \in DOMAIN db.place
        /\ check_names(db, moves)
        /\ wrote # {}
        /\ rows < MaxRows
        /\ db' = after
        /\ copy' = replay_moves(copy, Images(after, wrote))
        /\ astray' = {}
        /\ rows' = rows + 1
        /\ carried' = NotCarrying
        /\ UNCHANGED <<cutover, prompt>>

-----------------------------------------------------------------------------
Init ==
    /\ db = EmptyTables
    /\ copy = EmptyTables
    /\ cutover = FALSE
    /\ astray = {}
    /\ prompt = None
    /\ carried = NotCarrying
    /\ rows = 0

\* The ids a caller can name: live projects and aliases.
Known == DOMAIN db.project \cup DOMAIN db.alias

ProjectNext ==
    \/ \E r \in Requests : PlacementWrite(r)
    \/ \E r \in Prompted : PrecheckPlacement(r)
    \/ CommitDirect
    \/ RefuseDirect
    \/ \E w \in Workspaces : CreateWorkspace(w)
    \/ \E w \in Workspaces, p \in Paths \cup {None} : SetWorkspaceRoot(w, p)
    \/ \E w \in Workspaces : RemoveWorkspace(w)
    \/ \E id \in DOMAIN db.project, s \in DOMAIN db.project \cup {None} :
          RemoveProject(id, s)
    \/ Rebuild

RootNext ==
    \/ \E id \in DOMAIN db.project, p \in Paths : AddRoot(id, p)
    \/ \E p \in Paths : RemoveRoot(p)
    \/ \E p \in Paths, name \in Names : MoveRootToNewProject(p, name)
    \/ \E p \in Paths, owned \in BOOLEAN : SetOwnedRemotes(p, owned)

AgentNext ==
    \/ \E g \in Agents, role \in {"head", "hiree"}, ref \in Known,
          name \in AgentNames : CreateStaff(g, role, ref, name)
    \/ \E g \in Agents, w \in Workspaces, name \in AgentNames :
          CreateWorkspaceHead(g, w, name)
    \/ \E g \in Agents, name \in AgentNames : CreateAssistant(g, name)
    \/ \E g \in Agents, name \in AgentNames : Rename(g, name)
    \/ \E g \in Agents : Dispose(g)
    \/ \E g, into \in Agents : Merge(g, into)
    \/ \E g \in Agents, name \in AgentNames, id \in DOMAIN db.project,
          ws \in Workspaces \cup {None}, ns \in Workspaces :
            Import(g, Row("head", id, ws, name), ns)
    \/ ImportNothing
    \/ RepairAgentWorkspaces

Next == ProjectNext \/ RootNext \/ AgentNext

Spec == Init /\ [][Next]_vars
-----------------------------------------------------------------------------
(* Properties *)

\* The tables' shapes: rows are keyed by what the schema keys them by.
TypeOK ==
    /\ \A d \in {db, copy} :
         /\ DOMAIN d.root \cup DOMAIN d.parent \cup d.disowned \subseteq Paths
         /\ d.workspace \cup DOMAIN d.wsroot \subseteq Workspaces
         /\ DOMAIN d.claim \subseteq DOMAIN d.agent
         /\ DOMAIN d.agent \cup astray \subseteq Agents
    /\ cutover \in BOOLEAN
    /\ rows \in 0..MaxRows

\* Rebuilding the tables from the journal yields the live tables (`rebuild`
\* and the replay half of `verify`, mutations.rs): no rename, placement,
\* carry, merge or removal is reverted by a later replay of its row.
ReplayReproduces == copy = db

\* No row outlives the project or workspace it names: roots, parents, aliases
\* and placements refer to live projects, overrides to registered roots,
\* placements and workspace roots to existing workspaces.
ReferencesLive ==
    /\ \A f \in {db.root, db.parent, db.alias} :
         \A x \in DOMAIN f : Live(db, f[x])
    /\ \A id \in DOMAIN db.place : Live(db, id) /\ db.place[id] \in db.workspace
    /\ DOMAIN db.wsroot \subseteq db.workspace
    /\ db.disowned \subseteq DOMAIN db.root

\* The member list of a workspace is the list of the projects placed in it:
\* the mismatch `verify` reports (mutations.rs verify).
MembersMatchPlacement ==
    db.member = {<<db.place[id], id>> : id \in DOMAIN db.place}

\* A live head or hiree holds its name in the workspace its project is placed
\* in, through every placement, move, removal and rename: `verify` reports
\* agent_claim_off_placement and agent_workspace_stored otherwise.  Rows
\* imported off placement are excused until the correction has run.
ClaimsOnPlacement ==
    \A g \in Staff(db) \ astray :
        /\ db.agent[g].ws = None
        /\ db.agent[g].project \in DOMAIN db.place
        /\ db.claim[g].ns = db.place[db.agent[g].project]

\* The unique indexes uq_active_claim and uq_live_head, which no write may
\* reach with a duplicate: live names are unique in their namespace, every
\* live agent holds its own name, and a project has one live head.
IdentitiesUnique ==
    /\ DOMAIN db.claim = LiveAgents(db)
    /\ \A g, h \in LiveAgents(db) : g # h =>
         /\ db.claim[g] # db.claim[h]
         /\ ~(/\ db.agent[g].role = "head" /\ db.agent[h].role = "head"
              /\ db.agent[g].project = db.agent[h].project)
    /\ \A g \in LiveAgents(db) : db.claim[g].name = db.agent[g].name

\* A live agent's project and a live workspace head's workspace stay present
\* (agent/mod.rs: "A live agent's project must stay present").
BoundStayPresent ==
    \A g \in LiveAgents(db) :
        /\ db.agent[g].project # None => Live(db, db.agent[g].project)
        /\ db.agent[g].role = "workspace_head" => db.agent[g].ws \in db.workspace

\* A confirmed placement write moves only claims of the projects, and into the
\* workspaces, that the operator was shown, no more of them than announced, and only
\* names that were listed unless some were counted as `and N more`, whatever happened
\* to the tables between the precheck and the write (carry.rs carry_summary).
CarriesOnlyShown ==
    carried.prompt # None /\ carried.moved # {} =>
      LET shown == carried.prompt.summary
      IN  /\ \A m \in carried.moved : <<m[1], m[2]>> \in shown.where
          /\ Cardinality(carried.moved) <= shown.total
          /\ Cardinality(shown.names) = shown.total =>
               \A m \in carried.moved : \E s \in shown.names : s[2] = m[1] /\ s[3] = m[3]

\* What admit_carry says of itself: the confirmation covers exactly what is carried,
\* which is no claim but those that the prompt stood for.
ConfirmationCoversCarry ==
    carried.prompt # None => carried.moved \subseteq carried.prompt.stands

Resolvable(d) == {id \in DOMAIN d.project \cup DOMAIN d.alias :
                    ResolveProject(d, id) # None}

\* An id that resolves to a project keeps resolving, however projects are
\* merged, roots moved and tables rebuilt: it is lost only when the project it
\* stands for is removed with no successor or, for the implicit id of a root,
\* when that root is removed.
IdsStayResolved ==
    [][\A id \in Resolvable(db) \ Resolvable(db') :
         \/ RemoveProject(ResolveProject(db, id), None)
         \/ \E p \in Paths : id = Implicit(p) /\ RemoveRoot(p)]_vars

\* The tables keep their shape and refer to nothing that is gone.
TablesOK == TypeOK /\ ReferencesLive /\ BoundStayPresent

\* Names follow placements: members, claims and the unique indexes agree with
\* where the projects are placed, after any sequence of writes.
NamesFollowPlacement ==
    MembersMatchPlacement /\ ClaimsOnPlacement /\ IdentitiesUnique

=============================================================================
