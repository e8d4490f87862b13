--------------------------- MODULE RegistryProofs ---------------------------
(***************************************************************************)
(* The registry's tables after any sequence of writes, for every set of    *)
(* paths, names, agents and requests and any number of writes: references, *)
(* members, names and replay.                                              *)
(***************************************************************************)
EXTENDS Registry, FiniteSetTheorems, TLAPS

Fields == {"project", "root", "parent", "alias", "disowned", "workspace", "wsroot",
           "place", "member", "agent", "claim"}
RowFields == {"role", "project", "ws", "name", "status"}
Claims == [ns : Workspaces \cup {"global"}, name : AgentNames]

\* The ids a project can have.
Ids == ({"explicit"} \X Explicit) \cup ({"seed"} \X Identities)
         \cup ({"register1", "upgrade1"} \X Names \X SUBSET Paths)

(***************************************************************************)
(* The parts of the invariant are said of the value of the tables: some    *)
(* writes work on the result of another one.                               *)
(***************************************************************************)
Tables(d) == d = [x \in Fields |-> d[x]]

Keys(d) ==
    /\ DOMAIN d.project \subseteq Ids
    /\ DOMAIN d.root \cup DOMAIN d.parent \cup d.disowned \subseteq Paths
    /\ d.workspace \cup DOMAIN d.wsroot \subseteq Workspaces

Refs(d) ==
    /\ \A x \in DOMAIN d.root : Live(d, d.root[x])
    /\ \A x \in DOMAIN d.parent : Live(d, d.parent[x])
    /\ \A x \in DOMAIN d.alias : Live(d, d.alias[x])
    /\ \A id \in DOMAIN d.place : Live(d, id) /\ d.place[id] \in d.workspace
    /\ DOMAIN d.wsroot \subseteq d.workspace
    /\ d.disowned \subseteq DOMAIN d.root

Members(d) ==
    \A m : m \in d.member <=> \E id \in DOMAIN d.place : m = <<d.place[id], id>>

\* The tables of projects and workspaces.
Placements(d) == Tables(d) /\ Keys(d) /\ Refs(d) /\ Members(d)

Rows(d) ==
    /\ DOMAIN d.agent \subseteq Agents
    /\ \A g \in DOMAIN d.agent : DOMAIN d.agent[g] = RowFields
    /\ DOMAIN d.claim = LiveAgents(d)
    /\ \A g \in DOMAIN d.claim : d.claim[g] \in Claims /\ d.claim[g].name = d.agent[g].name

Unique(d) ==
    \A g, h \in LiveAgents(d) : g # h =>
        /\ d.claim[g] # d.claim[h]
        /\ ~(/\ d.agent[g].role = "head" /\ d.agent[h].role = "head"
             /\ d.agent[g].project = d.agent[h].project)

\* A head or hiree always has a project, also before the correction has run.
Bound(d) ==
    /\ \A g \in LiveAgents(d) :
         /\ d.agent[g].project # None => Live(d, d.agent[g].project)
         /\ d.agent[g].role = "workspace_head" => d.agent[g].ws \in d.workspace
    /\ \A g \in Staff(d) : Live(d, d.agent[g].project)

OnPlacement(d, excused) ==
    \A g \in Staff(d) \ excused :
        /\ d.agent[g].ws = None
        /\ d.agent[g].project \in DOMAIN d.place
        /\ d.claim[g].ns = d.place[d.agent[g].project]

\* The tables of agents.
Identified(d, excused) == Rows(d) /\ Unique(d) /\ Bound(d) /\ OnPlacement(d, excused)

MemoryInv ==
    /\ astray \subseteq Agents
    /\ cutover \in BOOLEAN
    /\ rows \in 0..MaxRows
    /\ ~cutover => DOMAIN db.agent = {}
    /\ prompt # None => prompt.req \in Requests

RegistryInv == Placements(db) /\ Identified(db, astray) /\ MemoryInv /\ copy = db

-----------------------------------------------------------------------------
(* What the writes of projects do to each table. *)

\* No project id is None.
LEMMA IdsAreIds == None \notin Ids
<1>1. None \notin {"explicit"} \X Explicit
  BY RegistryNone
<1>2. None \notin {"seed"} \X Identities
  BY RegistryNone
<1>3. None \notin {"register1", "upgrade1"} \X Names \X SUBSET Paths
  BY RegistryNone
<1> QED  BY <1>1, <1>2, <1>3 DEF Ids

\* Tables with the same rows are the same.
LEMMA SameTables ==
    ASSUME NEW d, Tables(d), NEW e, Tables(e),
           d.project = e.project, d.root = e.root, d.parent = e.parent, d.alias = e.alias,
           d.disowned = e.disowned, d.workspace = e.workspace, d.wsroot = e.wsroot,
           d.place = e.place, d.member = e.member, d.agent = e.agent, d.claim = e.claim
    PROVE  d = e
<1>1. \A x \in Fields : d[x] = e[x]
  BY DEF Fields
<1>2. [x \in Fields |-> d[x]] = [x \in Fields |-> e[x]]
  BY <1>1
<1> QED  BY <1>2 DEF Tables

\* The implicit ids of some roots.
Implied(roots) == {Implicit(p) : p \in roots}

\* Naming a project changes its row only.
LEMMA NamedTables ==
    ASSUME NEW d, Tables(d), NEW id, NEW name
    PROVE  LET e == Named(d, id, name) IN
           /\ Tables(e)
           /\ DOMAIN e.project = DOMAIN d.project \cup {id}
           /\ e.root = d.root /\ e.parent = d.parent /\ e.alias = d.alias
           /\ e.disowned = d.disowned /\ e.workspace = d.workspace /\ e.wsroot = d.wsroot
           /\ e.place = d.place /\ e.member = d.member /\ e.agent = d.agent
           /\ e.claim = d.claim
  BY DEF Tables, Fields, Named, Put

\* Adding roots changes the roots and their implicit ids.
LEMMA AddRootsTables ==
    ASSUME NEW d, Tables(d), NEW id, NEW roots
    PROVE  LET e == AddRoots(d, id, roots) IN
           /\ Tables(e)
           /\ e.root = AddNew(d.root, roots, id)
           /\ e.alias = AddNew(d.alias, Implied(roots), id)
           /\ e.project = d.project /\ e.parent = d.parent
           /\ e.disowned = d.disowned /\ e.workspace = d.workspace /\ e.wsroot = d.wsroot
           /\ e.place = d.place /\ e.member = d.member /\ e.agent = d.agent
           /\ e.claim = d.claim
  BY DEF Tables, Fields, AddRoots, Implied

\* The member rows after a placement.
MemberAfter(rows0, id, w) ==
    IF \E m \in rows0 : m[2] = id THEN rows0 ELSE rows0 \cup {<<w, id>>}

\* Placing a project changes the workspaces, placements and members.
LEMMA PlacedTables ==
    ASSUME NEW d, Tables(d), NEW id, NEW w
    PROVE  LET e == Placed(d, id, w) IN
           /\ Tables(e)
           /\ e.project = d.project /\ e.root = d.root /\ e.parent = d.parent
           /\ e.alias = d.alias /\ e.disowned = d.disowned /\ e.wsroot = d.wsroot
           /\ e.agent = d.agent /\ e.claim = d.claim
           /\ w = None => e = d
           /\ w # None =>
                /\ e.workspace = d.workspace \cup {w}
                /\ e.place = AddNew(d.place, {id}, w)
                /\ e.member = MemberAfter(d.member, id, w)
<1>1. CASE w = None
  BY <1>1 DEF Placed
<1>2. CASE w # None
  BY <1>2 DEF Tables, Fields, Placed, MemberAfter
<1> QED  BY <1>1, <1>2

\* Placing keeps the placements and members together.
LEMMA PlacedPlacements ==
    ASSUME NEW d, Placements(d), NEW id, Live(d, id), NEW w, w \in Workspaces \cup {None}
    PROVE  /\ Placements(Placed(d, id, w))
           /\ DOMAIN d.place \subseteq DOMAIN Placed(d, id, w).place
           /\ \A x \in DOMAIN d.place : Placed(d, id, w).place[x] = d.place[x]
           /\ w # None => id \in DOMAIN Placed(d, id, w).place
           /\ w # None /\ id \notin DOMAIN d.place => Placed(d, id, w).place[id] = w
           /\ d.workspace \subseteq Placed(d, id, w).workspace
<1> DEFINE e == Placed(d, id, w)
<1>0. Tables(d) /\ Keys(d) /\ Refs(d) /\ Members(d)
  BY DEF Placements
<1>1. /\ Tables(e)
      /\ e.project = d.project /\ e.root = d.root /\ e.parent = d.parent
      /\ e.alias = d.alias /\ e.disowned = d.disowned /\ e.wsroot = d.wsroot
      /\ e.agent = d.agent /\ e.claim = d.claim
      /\ w = None => e = d
      /\ w # None =>
           /\ e.workspace = d.workspace \cup {w}
           /\ e.place = AddNew(d.place, {id}, w)
           /\ e.member = MemberAfter(d.member, id, w)
  BY <1>0, PlacedTables
<1> HIDE DEF e
<1>2. CASE w = None
  BY <1>0, <1>1, <1>2 DEF e, Placements
<1>3. CASE w # None
  <2>1. /\ DOMAIN e.place = DOMAIN d.place \cup {id}
        /\ \A x \in DOMAIN d.place : e.place[x] = d.place[x]
        /\ id \notin DOMAIN d.place => e.place[id] = w
    BY <1>1, <1>3 DEF AddNew
  <2>2. Keys(e)
    BY <1>0, <1>1, <1>3 DEF Keys
  <2>3. Refs(e)
    BY <1>0, <1>1, <1>3, <2>1 DEF Refs, Live
  <2>4. (\E m \in d.member : m[2] = id) <=> id \in DOMAIN d.place
    <3>1. ASSUME NEW m \in d.member, m[2] = id PROVE id \in DOMAIN d.place
      BY <1>0, <3>1 DEF Members
    <3>2. ASSUME id \in DOMAIN d.place PROVE \E m \in d.member : m[2] = id
      <4>1. <<d.place[id], id>> \in d.member
        BY <1>0, <3>2 DEF Members
      <4> QED  BY <4>1
    <3> QED  BY <3>1, <3>2
  <2>5. Members(e)
    <3> SUFFICES ASSUME NEW m
                 PROVE  m \in e.member <=> \E x \in DOMAIN e.place : m = <<e.place[x], x>>
      BY DEF Members
    <3>1. CASE id \in DOMAIN d.place
      <4>1. e.member = d.member
        BY <1>1, <1>3, <2>4, <3>1 DEF MemberAfter
      <4>2. DOMAIN e.place = DOMAIN d.place
        BY <2>1, <3>1
      <4> QED  BY <1>0, <2>1, <4>1, <4>2 DEF Members
    <3>2. CASE id \notin DOMAIN d.place
      <4>1. e.member = d.member \cup {<<w, id>>}
        BY <1>1, <1>3, <2>4, <3>2 DEF MemberAfter
      <4> QED  BY <1>0, <2>1, <3>2, <4>1 DEF Members
    <3> QED  BY <3>1, <3>2
  <2> QED  BY <1>1, <1>3, <2>1, <2>2, <2>3, <2>5 DEF e, Placements
<1> QED  BY <1>2, <1>3

\* Adding roots, parents and the ids that stand for them.
LEMMA GrownPlacements ==
    ASSUME NEW d, Placements(d), NEW e, Tables(e), NEW id \in Ids,
           NEW roots, roots \subseteq Paths, NEW parents, parents \subseteq Paths, NEW extra,
           DOMAIN e.project = DOMAIN d.project \cup {id},
           e.root = AddNew(d.root, roots, id),
           e.parent = AddNew(d.parent, parents, id),
           e.alias = AddNew(d.alias, extra, id),
           e.disowned = d.disowned, e.workspace = d.workspace, e.wsroot = d.wsroot,
           e.place = d.place, e.member = d.member
    PROVE  Placements(e)
<1>1. Keys(e)
  BY DEF Keys, Placements, AddNew
<1>2. Refs(e)
  <2>1. \A x \in DOMAIN e.root : Live(e, e.root[x])
    BY DEF Refs, Placements, AddNew, Live
  <2>2. \A x \in DOMAIN e.parent : Live(e, e.parent[x])
    BY DEF Refs, Placements, AddNew, Live
  <2>3. \A x \in DOMAIN e.alias : Live(e, e.alias[x])
    BY DEF Refs, Placements, AddNew, Live
  <2>4. \A x \in DOMAIN e.place : Live(e, x) /\ e.place[x] \in e.workspace
    BY DEF Refs, Placements, Live
  <2>5. DOMAIN e.wsroot \subseteq e.workspace /\ e.disowned \subseteq DOMAIN e.root
    BY DEF Refs, Placements, AddNew
  <2> QED  BY <2>1, <2>2, <2>3, <2>4, <2>5 DEF Refs
<1>3. Members(e)
  BY DEF Members, Placements
<1> QED  BY <1>1, <1>2, <1>3 DEF Placements

-----------------------------------------------------------------------------
(* The four placement writes. *)

\* The write adds to what is known and touches no agent.
Grows(d, e) ==
    /\ Placements(e)
    /\ e.agent = d.agent /\ e.claim = d.claim
    /\ DOMAIN d.project \subseteq DOMAIN e.project
    /\ DOMAIN d.alias \subseteq DOMAIN e.alias
    /\ d.workspace \subseteq e.workspace
    /\ DOMAIN d.place \subseteq DOMAIN e.place

\* The agents to move are those that the new placements put elsewhere.
Carries(d, e, moves) ==
    /\ DOMAIN moves \subseteq Staff(d)
    /\ \A g \in DOMAIN moves :
         /\ d.agent[g].project \in DOMAIN e.place
         /\ moves[g] = e.place[d.agent[g].project]
    /\ \A g \in Staff(d) \ DOMAIN moves : d.agent[g].project \in DOMAIN d.place =>
         \/ e.place[d.agent[g].project] = d.place[d.agent[g].project]
         \/ /\ d.claim[g].ns = e.place[d.agent[g].project]
            /\ d.agent[g].ws = None

\* The agents of the project that are not yet where it goes are moved there.
LEMMA PlanCarry ==
    ASSUME NEW d, NEW id, NEW w
    PROVE  LET moves == plan_carry(d, id, w) IN
           /\ DOMAIN moves \subseteq Staff(d)
           /\ \A g \in DOMAIN moves : d.agent[g].project = id /\ moves[g] = w
           /\ \A g \in Staff(d) \ DOMAIN moves :
                d.agent[g].project = id => d.claim[g].ns = w /\ d.agent[g].ws = None
  BY DEF plan_carry

\* A placement that is not replaced carries what it should.
LEMMA CarryUnplaced ==
    ASSUME NEW d, NEW e, NEW id, NEW w,
           \A x \in DOMAIN d.place : e.place[x] = d.place[x],
           w # None => id \in DOMAIN e.place,
           w # None /\ id \notin DOMAIN d.place => e.place[id] = w
    PROVE  Carries(d, e, CarryIfUnplaced(d, id, w))
<1>1. CASE w # None /\ id \notin DOMAIN d.place
  <2> DEFINE moves == plan_carry(d, id, w)
  <2>1. /\ DOMAIN moves \subseteq Staff(d)
        /\ \A g \in DOMAIN moves : d.agent[g].project = id /\ moves[g] = w
    BY PlanCarry
  <2> HIDE DEF moves
  <2>2. Carries(d, e, moves)
    BY <1>1, <2>1 DEF Carries
  <2> QED  BY <1>1, <2>2 DEF CarryIfUnplaced, moves
<1>2. CASE ~(w # None /\ id \notin DOMAIN d.place)
  <2>1. CarryIfUnplaced(d, id, w) = Empty /\ DOMAIN Empty = {}
    BY <1>2 DEF CarryIfUnplaced, Empty
  <2> QED  BY <2>1 DEF Carries
<1> QED  BY <1>1, <1>2

IsRegister(r) ==
    /\ r.project \in Explicit \cup {None} /\ r.name \in Names
    /\ r.roots \cup r.parents \subseteq Paths /\ r.ws \in Workspaces \cup {None}

\* The id a registration writes is a project id.
LEMMA RegisterIdIsId ==
    ASSUME NEW d, Placements(d), NEW r, IsRegister(r)
    PROVE  RegisterId(d, r) \in Ids
<1>1. CASE r.project # None
  BY <1>1 DEF RegisterId, IsRegister, Chosen, Ids
<1>2. CASE r.project = None /\ Owners(d, r) # {}
  <2>1. PICK o \in Owners(d, r) : RegisterId(d, r) = o
    BY <1>2 DEF RegisterId
  <2>2. o \in DOMAIN d.project
    BY DEF Owners, Placements, Refs, Live
  <2> QED  BY <2>1, <2>2 DEF Placements, Keys
<1>3. CASE r.project = None /\ Owners(d, r) = {}
  <2>1. RegisterId(d, r) = <<"register1", r.name, r.roots>>
    BY <1>3 DEF RegisterId, mint
  <2>2. r.name \in Names /\ r.roots \in SUBSET Paths
    BY DEF IsRegister
  <2> QED  BY <2>1, <2>2 DEF Ids
<1> QED  BY <1>1, <1>2, <1>3

\* Derived parents are recorded when nobody has them.
WithParents(d, id, parents) == [d EXCEPT !.parent = AddNew(@, parents, id)]

\* What a registration writes before it places the project.
LEMMA RegisterTables ==
    ASSUME NEW d, Tables(d), NEW id, NEW name, NEW roots, NEW parents, NEW b,
           b = WithParents(AddRoots(Named(d, id, name), id, roots), id, parents)
    PROVE  /\ Tables(b)
           /\ DOMAIN b.project = DOMAIN d.project \cup {id}
           /\ b.root = AddNew(d.root, roots, id)
           /\ b.parent = AddNew(d.parent, parents, id)
           /\ b.alias = AddNew(d.alias, Implied(roots), id)
           /\ b.disowned = d.disowned /\ b.workspace = d.workspace /\ b.wsroot = d.wsroot
           /\ b.place = d.place /\ b.member = d.member /\ b.agent = d.agent
           /\ b.claim = d.claim
<1> DEFINE n == Named(d, id, name)
           a == AddRoots(n, id, roots)
<1>0. /\ Tables(n)
      /\ DOMAIN n.project = DOMAIN d.project \cup {id}
      /\ n.root = d.root /\ n.parent = d.parent /\ n.alias = d.alias
      /\ n.disowned = d.disowned /\ n.workspace = d.workspace /\ n.wsroot = d.wsroot
      /\ n.place = d.place /\ n.member = d.member /\ n.agent = d.agent
      /\ n.claim = d.claim
  BY NamedTables
<1> HIDE DEF n
<1>1. /\ Tables(a)
      /\ DOMAIN a.project = DOMAIN d.project \cup {id}
      /\ a.root = AddNew(d.root, roots, id)
      /\ a.parent = d.parent
      /\ a.alias = AddNew(d.alias, Implied(roots), id)
      /\ a.disowned = d.disowned /\ a.workspace = d.workspace /\ a.wsroot = d.wsroot
      /\ a.place = d.place /\ a.member = d.member /\ a.agent = d.agent
      /\ a.claim = d.claim
  BY <1>0, AddRootsTables
<1>2. b = WithParents(a, id, parents)
  BY DEF a, n
<1> HIDE DEF a
<1>3. Tables(b)
  BY <1>1, <1>2 DEF Tables, Fields, WithParents
<1>4. /\ b.project = a.project /\ b.root = a.root /\ b.alias = a.alias
      /\ b.parent = AddNew(a.parent, parents, id)
      /\ b.disowned = a.disowned /\ b.workspace = a.workspace /\ b.wsroot = a.wsroot
      /\ b.place = a.place /\ b.member = a.member /\ b.agent = a.agent
      /\ b.claim = a.claim
  BY <1>1, <1>2 DEF Tables, Fields, WithParents
<1> QED  BY <1>1, <1>3, <1>4

\* The effect of a registration, for the id it was given.
Registered(d, id, name, roots, parents, w) ==
    Placed(WithParents(AddRoots(Named(d, id, name), id, roots), id, parents), id, w)

\* A registration adds to the tables and carries what it places.
LEMMA RegisteredGrows ==
    ASSUME NEW d, Placements(d), NEW id \in Ids, NEW name, NEW roots, roots \subseteq Paths,
           NEW parents, parents \subseteq Paths, NEW w, w \in Workspaces \cup {None}
    PROVE  /\ Grows(d, Registered(d, id, name, roots, parents, w))
           /\ Implied(roots) \subseteq DOMAIN Registered(d, id, name, roots, parents, w).alias
           /\ Carries(d, Registered(d, id, name, roots, parents, w), CarryIfUnplaced(d, id, w))
<1> DEFINE b  == WithParents(AddRoots(Named(d, id, name), id, roots), id, parents)
           e  == Placed(b, id, w)
<1>1. Registered(d, id, name, roots, parents, w) = e
  BY DEF Registered
<1>2. Tables(d)
  BY DEF Placements
<1>3. b = WithParents(AddRoots(Named(d, id, name), id, roots), id, parents)
  OBVIOUS
<1> HIDE DEF b
<1>4. /\ Tables(b)
      /\ DOMAIN b.project = DOMAIN d.project \cup {id}
      /\ b.root = AddNew(d.root, roots, id)
      /\ b.parent = AddNew(d.parent, parents, id)
      /\ b.alias = AddNew(d.alias, Implied(roots), id)
      /\ b.disowned = d.disowned /\ b.workspace = d.workspace /\ b.wsroot = d.wsroot
      /\ b.place = d.place /\ b.member = d.member /\ b.agent = d.agent
      /\ b.claim = d.claim
  BY <1>2, <1>3, RegisterTables
<1>5. Placements(b)
  BY <1>4, GrownPlacements
<1>6. Live(b, id)
  BY <1>4 DEF Live
<1>7. /\ Placements(e)
      /\ DOMAIN b.place \subseteq DOMAIN e.place
      /\ \A x \in DOMAIN b.place : e.place[x] = b.place[x]
      /\ w # None => id \in DOMAIN e.place
      /\ w # None /\ id \notin DOMAIN b.place => e.place[id] = w
      /\ b.workspace \subseteq e.workspace
  BY <1>5, <1>6, PlacedPlacements
<1>8. /\ e.project = b.project /\ e.alias = b.alias
      /\ e.agent = b.agent /\ e.claim = b.claim
  BY <1>4 DEF Tables, Fields, Placed
<1> HIDE DEF e
<1>9. DOMAIN e.alias = DOMAIN d.alias \cup Implied(roots)
  BY <1>4, <1>8 DEF AddNew
<1>10. Grows(d, e)
  BY <1>4, <1>7, <1>8, <1>9 DEF Grows
<1>11. Carries(d, e, CarryIfUnplaced(d, id, w))
  BY <1>4, <1>7, CarryUnplaced
<1> QED  BY <1>1, <1>9, <1>10, <1>11

\* The same, for the id the registration infers.
LEMMA RegisterGrows ==
    ASSUME NEW d, Placements(d), NEW r, IsRegister(r)
    PROVE  /\ Grows(d, ApplyRegister(d, r))
           /\ Implied(r.roots) \subseteq DOMAIN ApplyRegister(d, r).alias
           /\ Carries(d, ApplyRegister(d, r), CarryIfUnplaced(d, RegisterId(d, r), r.ws))
<1>1. RegisterId(d, r) \in Ids
  BY RegisterIdIsId
<1>2. r.roots \subseteq Paths /\ r.parents \subseteq Paths /\ r.ws \in Workspaces \cup {None}
  BY DEF IsRegister
<1>3. ApplyRegister(d, r)
        = Registered(d, RegisterId(d, r), r.name, r.roots, r.parents, r.ws)
  BY DEF ApplyRegister, Registered, WithParents
<1> QED  BY <1>1, <1>2, <1>3, RegisteredGrows

\* The order of placing and of adding roots does not matter.
LEMMA RegisteredReplays ==
    ASSUME NEW d, Tables(d), NEW id, NEW name, NEW roots, NEW parents, NEW w
    PROVE  WithParents(AddRoots(Placed(Named(d, id, name), id, w), id, roots), id, parents)
             = Registered(d, id, name, roots, parents, w)
<1> DEFINE n  == Named(d, id, name)
           b  == WithParents(AddRoots(n, id, roots), id, parents)
           e  == Placed(b, id, w)
           f  == Placed(n, id, w)
           h  == WithParents(AddRoots(f, id, roots), id, parents)
<1>1. SUFFICES h = e
  BY DEF Registered
<1>2. Tables(n)
  BY NamedTables
<1> HIDE DEF n
<1>3. CASE w = None
  BY <1>3 DEF Placed
<1>4. CASE w # None
  <2>1. /\ Tables(b)
        /\ b.project = n.project
        /\ b.root = AddNew(n.root, roots, id)
        /\ b.parent = AddNew(n.parent, parents, id)
        /\ b.alias = AddNew(n.alias, Implied(roots), id)
        /\ b.disowned = n.disowned /\ b.workspace = n.workspace /\ b.wsroot = n.wsroot
        /\ b.place = n.place /\ b.member = n.member /\ b.agent = n.agent
        /\ b.claim = n.claim
    BY <1>2 DEF Tables, Fields, AddRoots, Implied, WithParents
  <2> HIDE DEF b
  <2>2. /\ Tables(e)
        /\ e.project = b.project /\ e.root = b.root /\ e.parent = b.parent
        /\ e.alias = b.alias /\ e.disowned = b.disowned /\ e.wsroot = b.wsroot
        /\ e.agent = b.agent /\ e.claim = b.claim
        /\ w = None => e = b
        /\ w # None =>
             /\ e.workspace = b.workspace \cup {w}
             /\ e.place = AddNew(b.place, {id}, w)
             /\ e.member = MemberAfter(b.member, id, w)
    BY <2>1, PlacedTables
  <2> HIDE DEF e
  <2>3. /\ Tables(f)
        /\ f.project = n.project /\ f.root = n.root /\ f.parent = n.parent
        /\ f.alias = n.alias /\ f.disowned = n.disowned /\ f.wsroot = n.wsroot
        /\ f.agent = n.agent /\ f.claim = n.claim
        /\ w = None => f = n
        /\ w # None =>
             /\ f.workspace = n.workspace \cup {w}
             /\ f.place = AddNew(n.place, {id}, w)
             /\ f.member = MemberAfter(n.member, id, w)
    BY <1>2, <1>4 DEF Tables, Fields, Placed, MemberAfter
  <2> HIDE DEF f
  <2>4. /\ Tables(h)
        /\ h.project = f.project
        /\ h.root = AddNew(f.root, roots, id)
        /\ h.parent = AddNew(f.parent, parents, id)
        /\ h.alias = AddNew(f.alias, Implied(roots), id)
        /\ h.disowned = f.disowned /\ h.workspace = f.workspace /\ h.wsroot = f.wsroot
        /\ h.place = f.place /\ h.member = f.member /\ h.agent = f.agent
        /\ h.claim = f.claim
    BY <2>3 DEF Tables, Fields, AddRoots, Implied, WithParents
  <2> HIDE DEF h
  <2>5. /\ h.project = e.project /\ h.root = e.root /\ h.parent = e.parent
        /\ h.alias = e.alias /\ h.disowned = e.disowned /\ h.wsroot = e.wsroot
        /\ h.agent = e.agent /\ h.claim = e.claim
    BY <2>1, <2>2, <2>3, <2>4
  <2>6. /\ h.workspace = e.workspace /\ h.place = e.place /\ h.member = e.member
    BY <1>4, <2>1, <2>2, <2>3, <2>4
  <2> QED  BY <2>2, <2>4, <2>5, <2>6, SameTables
<1> QED  BY <1>3, <1>4

\* Replay of a registration takes its steps in another order.
LEMMA RegisterReplays ==
    ASSUME NEW d, Tables(d), NEW r
    PROVE  ReplayRegister(d, r) = ApplyRegister(d, r)
<1>1. ApplyRegister(d, r)
        = Registered(d, RegisterId(d, r), r.name, r.roots, r.parents, r.ws)
  BY DEF ApplyRegister, Registered, WithParents
<1>2. ReplayRegister(d, r)
        = WithParents(AddRoots(Placed(Named(d, RegisterId(d, r), r.name),
                                      RegisterId(d, r), r.ws),
                               RegisterId(d, r), r.roots),
                      RegisterId(d, r), r.parents)
  BY DEF ReplayRegister, WithParents
<1> QED  BY <1>1, <1>2, RegisteredReplays

IsUpgrade(r) ==
    /\ r.project \in Explicit \cup {None} /\ r.name \in Names
    /\ r.roots \subseteq Paths /\ r.ws \in Workspaces \cup {None}

\* An upgrade of an implicit project adds to the tables and carries what it places.
LEMMA UpgradeGrows ==
    ASSUME NEW d, Placements(d), NEW r, IsUpgrade(r)
    PROVE  LET e == ApplyUpgrade(d, r) IN
           /\ Grows(d, e)
           /\ Carries(d, e, CarryIfUnplaced(d, UpgradeId(r), r.ws))
<1> DEFINE id == UpgradeId(r)
           n  == Named(d, id, r.name)
           a  == AddRoots(n, id, r.roots)
           b  == [a EXCEPT !.alias = Put(@, r.implicit, id)]
           e  == Placed(b, id, r.ws)
<1>1. ApplyUpgrade(d, r) = e
  BY DEF ApplyUpgrade
<1>2. id \in Ids
  <2>1. r.name \in Names /\ r.roots \in SUBSET Paths
    BY DEF IsUpgrade
  <2> QED  BY <2>1 DEF IsUpgrade, UpgradeId, Chosen, mint, Ids
<1>3. Tables(d)
  BY DEF Placements
<1>4. r.roots \subseteq Paths /\ r.ws \in Workspaces \cup {None}
  BY DEF IsUpgrade
<1> HIDE DEF id
<1>a. /\ Tables(n)
      /\ DOMAIN n.project = DOMAIN d.project \cup {id}
      /\ n.root = d.root /\ n.parent = d.parent /\ n.alias = d.alias
      /\ n.disowned = d.disowned /\ n.workspace = d.workspace /\ n.wsroot = d.wsroot
      /\ n.place = d.place /\ n.member = d.member /\ n.agent = d.agent
      /\ n.claim = d.claim
  BY <1>3, NamedTables
<1> HIDE DEF n
<1>5. /\ Tables(a)
      /\ DOMAIN a.project = DOMAIN d.project \cup {id}
      /\ a.root = AddNew(d.root, r.roots, id)
      /\ a.parent = d.parent
      /\ a.alias = AddNew(d.alias, Implied(r.roots), id)
      /\ a.disowned = d.disowned /\ a.workspace = d.workspace /\ a.wsroot = d.wsroot
      /\ a.place = d.place /\ a.member = d.member /\ a.agent = d.agent
      /\ a.claim = d.claim
  BY <1>a, AddRootsTables
<1> HIDE DEF a
<1>6. /\ Tables(b)
      /\ b.project = a.project /\ b.root = a.root /\ b.parent = a.parent
      /\ b.alias = Put(a.alias, r.implicit, id)
      /\ b.disowned = a.disowned /\ b.workspace = a.workspace /\ b.wsroot = a.wsroot
      /\ b.place = a.place /\ b.member = a.member /\ b.agent = a.agent
      /\ b.claim = a.claim
  <2>1. Tables(b)
    BY <1>5 DEF Tables, Fields
  <2> QED  BY <1>5, <2>1 DEF Tables, Fields
<1> HIDE DEF b
<1>7. Placements(b)
  <2>0. Keys(d) /\ Refs(d) /\ Members(d)
    BY DEF Placements
  <2>1. Keys(b)
    BY <1>2, <1>4, <1>5, <1>6, <2>0 DEF Keys, AddNew
  <2>2. /\ \A x \in DOMAIN b.root : Live(b, b.root[x])
        /\ b.disowned \subseteq DOMAIN b.root
    BY <1>5, <1>6, <2>0 DEF Refs, AddNew, Live
  <2>3. \A x \in DOMAIN b.alias : Live(b, b.alias[x])
    BY <1>5, <1>6, <2>0 DEF Refs, AddNew, Put, Live
  <2>4. /\ \A x \in DOMAIN b.parent : Live(b, b.parent[x])
        /\ \A x \in DOMAIN b.place : Live(b, x) /\ b.place[x] \in b.workspace
        /\ DOMAIN b.wsroot \subseteq b.workspace
    BY <1>5, <1>6, <2>0 DEF Refs, Live
  <2>5. Members(b)
    BY <1>5, <1>6, <2>0 DEF Members
  <2> QED  BY <1>6, <2>1, <2>2, <2>3, <2>4, <2>5 DEF Placements, Refs
<1>8. Live(b, id)
  BY <1>5, <1>6 DEF Live
<1>9. /\ Placements(e)
      /\ DOMAIN b.place \subseteq DOMAIN e.place
      /\ \A x \in DOMAIN b.place : e.place[x] = b.place[x]
      /\ r.ws # None => id \in DOMAIN e.place
      /\ r.ws # None /\ id \notin DOMAIN b.place => e.place[id] = r.ws
      /\ b.workspace \subseteq e.workspace
  BY <1>4, <1>7, <1>8, PlacedPlacements
<1>10. /\ e.project = b.project /\ e.alias = b.alias
       /\ e.agent = b.agent /\ e.claim = b.claim
  BY <1>6 DEF Tables, Fields, Placed
<1> HIDE DEF e
<1>11. DOMAIN d.alias \subseteq DOMAIN e.alias
  BY <1>5, <1>6, <1>10 DEF AddNew, Put
<1>12. Grows(d, e)
  BY <1>5, <1>6, <1>9, <1>10, <1>11 DEF Grows
<1>13. Carries(d, e, CarryIfUnplaced(d, id, r.ws))
  BY <1>5, <1>6, <1>9, CarryUnplaced
<1> QED  BY <1>1, <1>12, <1>13 DEF id

\* An assignment replaces the placement and its member row together.
LEMMA AssignGrows ==
    ASSUME NEW d, Placements(d), NEW r, r.ws \in Workspaces, AssignAllowed(d, r)
    PROVE  LET e == ApplyAssign(d, r) IN
           /\ Grows(d, e)
           /\ Carries(d, e, plan_carry(d, r.project, r.ws))
<1> DEFINE e == ApplyAssign(d, r)
           moves == plan_carry(d, r.project, r.ws)
<1>0. Tables(d) /\ Keys(d) /\ Refs(d) /\ Members(d) /\ Live(d, r.project)
  BY DEF Placements, AssignAllowed
<1>1. /\ Tables(e)
      /\ e.project = d.project /\ e.root = d.root /\ e.parent = d.parent
      /\ e.alias = d.alias /\ e.disowned = d.disowned /\ e.wsroot = d.wsroot
      /\ e.agent = d.agent /\ e.claim = d.claim
      /\ e.workspace = d.workspace \cup {r.ws}
      /\ e.place = Put(d.place, r.project, r.ws)
      /\ e.member = {m \in d.member : m[2] # r.project
                                        \/ r.project \notin DOMAIN d.place
                                        \/ m[1] # d.place[r.project]}
                      \cup {<<r.ws, r.project>>}
  <2>1. Tables(e)
    BY <1>0 DEF Tables, Fields, ApplyAssign
  <2> QED  BY <1>0, <2>1 DEF Tables, Fields, ApplyAssign
<1>2. /\ DOMAIN moves \subseteq Staff(d)
      /\ \A g \in DOMAIN moves : d.agent[g].project = r.project /\ moves[g] = r.ws
      /\ \A g \in Staff(d) \ DOMAIN moves :
           d.agent[g].project = r.project => d.claim[g].ns = r.ws /\ d.agent[g].ws = None
  BY PlanCarry
<1> HIDE DEF e, moves
<1>3. /\ DOMAIN e.place = DOMAIN d.place \cup {r.project}
      /\ e.place[r.project] = r.ws
      /\ \A x \in DOMAIN d.place : x # r.project => e.place[x] = d.place[x]
  BY <1>1 DEF Put
<1>4. Keys(e)
  BY <1>0, <1>1 DEF Keys
<1>5. Refs(e)
  BY <1>0, <1>1, <1>3 DEF Refs, Live
<1>6. Members(e)
  <2> SUFFICES ASSUME NEW m
               PROVE  m \in e.member <=> \E x \in DOMAIN e.place : m = <<e.place[x], x>>
    BY DEF Members
  <2>1. CASE m \in d.member
    <3>1. PICK x \in DOMAIN d.place : m = <<d.place[x], x>>
      BY <1>0, <2>1 DEF Members
    <3>2. m[1] = d.place[x] /\ m[2] = x
      BY <3>1
    <3>3. CASE x = r.project
      BY <1>1, <1>3, <2>1, <3>1, <3>2, <3>3
    <3>4. CASE x # r.project
      BY <1>1, <1>3, <2>1, <3>1, <3>2, <3>4
    <3> QED  BY <3>3, <3>4
  <2>2. CASE m \notin d.member
    <3>1. \A x \in DOMAIN d.place : m # <<d.place[x], x>>
      BY <1>0, <2>2 DEF Members
    <3>2. m \in e.member <=> m = <<r.ws, r.project>>
      BY <1>1, <2>2
    <3>3. (\E x \in DOMAIN e.place : m = <<e.place[x], x>>) <=> m = <<r.ws, r.project>>
      BY <1>3, <3>1
    <3> QED  BY <3>2, <3>3
  <2> QED  BY <2>1, <2>2
<1>7. Grows(d, e)
  BY <1>1, <1>3, <1>4, <1>5, <1>6 DEF Grows, Placements
<1>8. Carries(d, e, moves)
  BY <1>2, <1>3 DEF Carries
<1> QED  BY <1>7, <1>8 DEF e, moves

IsSeed(r) == {x.root : x \in r.pairs} \subseteq Paths /\ r.workspaces \subseteq Workspaces

\* The id of a seeded project determines its identity.
LEMMA SeedIds ==
    /\ \A i : seed_id(i)[2] = i
    /\ \A i, j : seed_id(i) = seed_id(j) => i = j
    /\ \A i \in Identities : seed_id(i) \in Ids
<1>1. \A i : seed_id(i) = <<"seed", i>> /\ <<"seed", i>>[2] = i
  BY DEF seed_id
<1>2. \A i \in Identities : <<"seed", i>> \in {"seed"} \X Identities
  OBVIOUS
<1> QED  BY <1>1, <1>2 DEF Ids

\* A member row the import adds, for a project that has none.
SeedMember(d, r, m) ==
    \E i \in SeedWritten(d, r) :
        /\ SeedPlace(r, i) # None
        /\ \A k \in d.member : k[2] # seed_id(i)
        /\ m = <<SeedPlace(r, i), seed_id(i)>>

\* What a seed import adds.
SeedAdds(d, r, e) ==
    /\ Tables(e)
    /\ e.parent = d.parent /\ e.disowned = d.disowned /\ e.wsroot = d.wsroot
    /\ e.agent = d.agent /\ e.claim = d.claim
    /\ e.workspace = d.workspace \cup r.workspaces
    /\ \A x : x \in DOMAIN e.project <=>
                x \in DOMAIN d.project \/ \E i \in SeedWritten(d, r) : x = seed_id(i)
    /\ \A q : q \in DOMAIN e.root <=>
                q \in DOMAIN d.root \/ \E i \in SeedWritten(d, r) : q \in Available(d, r, i)
    /\ \A q \in DOMAIN e.root :
         \/ q \in DOMAIN d.root /\ e.root[q] = d.root[q]
         \/ \E i \in SeedWritten(d, r) : e.root[q] = seed_id(i)
    /\ DOMAIN d.alias \subseteq DOMAIN e.alias
    /\ \A x \in DOMAIN e.alias :
         \/ x \in DOMAIN d.alias /\ e.alias[x] = d.alias[x]
         \/ \E i \in SeedWritten(d, r) : e.alias[x] = seed_id(i)
    /\ \A x : x \in DOMAIN e.place <=>
         \/ x \in DOMAIN d.place
         \/ \E i \in SeedWritten(d, r) : SeedPlace(r, i) # None /\ x = seed_id(i)
    /\ \A x \in DOMAIN d.place : e.place[x] = d.place[x]
    /\ \A i \in SeedWritten(d, r) :
         SeedPlace(r, i) # None /\ seed_id(i) \notin DOMAIN d.place =>
           e.place[seed_id(i)] = SeedPlace(r, i)
    /\ \A m : m \in e.member <=> m \in d.member \/ SeedMember(d, r, m)

\* A seed import adds these rows.
LEMMA SeedTables ==
    ASSUME NEW d, Tables(d), NEW r
    PROVE  SeedAdds(d, r, ApplySeed(d, r))
<1> DEFINE W  == SeedWritten(d, r)
           at == [q \in UNION {Available(d, r, i) : i \in W} |->
                    seed_id(CHOOSE i \in W : q \in Available(d, r, i))]
           P  == {i \in W : SeedPlace(r, i) # None}
           pr == [x \in DOMAIN d.project \cup {seed_id(i) : i \in W} |->
                    IF x \in DOMAIN d.project THEN d.project[x]
                    ELSE [name |-> "seeded", seed |-> x[2]]]
           rt == [q \in DOMAIN d.root \cup DOMAIN at |->
                    IF q \in DOMAIN d.root THEN d.root[q] ELSE at[q]]
           al == [x \in DOMAIN d.alias \cup {Implicit(q) : q \in DOMAIN at} |->
                    IF x \in DOMAIN d.alias THEN d.alias[x] ELSE at[x[2]]]
           pl == [x \in DOMAIN d.place \cup {seed_id(i) : i \in P} |->
                    IF x \in DOMAIN d.place THEN d.place[x] ELSE SeedPlace(r, x[2])]
           mb == d.member \cup {<<SeedPlace(r, i), seed_id(i)>> :
                    i \in {j \in P : \A m \in d.member : m[2] # seed_id(j)}}
           e  == [d EXCEPT !.workspace = d.workspace \cup r.workspaces,
                           !.project = pr, !.root = rt, !.alias = al, !.place = pl,
                           !.member = mb]
<1>1. ApplySeed(d, r) = e
  BY DEF ApplySeed
<1>2. \A q : q \in DOMAIN at <=> \E i \in W : q \in Available(d, r, i)
  OBVIOUS
<1>3. \A q \in DOMAIN at : \E i \in W : at[q] = seed_id(i)
  <2> SUFFICES ASSUME NEW q \in DOMAIN at PROVE \E i \in W : at[q] = seed_id(i)
    OBVIOUS
  <2>1. \E i \in W : q \in Available(d, r, i)
    BY <1>2
  <2>2. (CHOOSE i \in W : q \in Available(d, r, i)) \in W
    BY <2>1
  <2>3. at[q] = seed_id(CHOOSE i \in W : q \in Available(d, r, i))
    OBVIOUS
  <2> QED  BY <2>2, <2>3
<1> HIDE DEF at
<1>4. \A x : x \in DOMAIN pr <=> x \in DOMAIN d.project \/ \E i \in W : x = seed_id(i)
  OBVIOUS
<1>5. /\ \A q : q \in DOMAIN rt <=> q \in DOMAIN d.root \/ q \in DOMAIN at
      /\ \A q \in DOMAIN rt : rt[q] = IF q \in DOMAIN d.root THEN d.root[q] ELSE at[q]
  OBVIOUS
<1>6. /\ \A x \in DOMAIN d.alias : x \in DOMAIN al /\ al[x] = d.alias[x]
      /\ \A x \in DOMAIN al : x \in DOMAIN d.alias \/ \E i \in W : al[x] = seed_id(i)
  <2>1. /\ \A x \in DOMAIN d.alias : x \in DOMAIN al /\ al[x] = d.alias[x]
        /\ \A x \in DOMAIN al : x \in DOMAIN d.alias \/ \E q \in DOMAIN at : x = Implicit(q)
        /\ \A x \in DOMAIN al : x \notin DOMAIN d.alias => al[x] = at[x[2]]
    OBVIOUS
  <2>2. \A q : Implicit(q)[2] = q
    BY DEF Implicit
  <2> HIDE DEF al
  <2> QED  BY <1>3, <2>1, <2>2
<1>7. /\ \A x : x \in DOMAIN pl <=>
           x \in DOMAIN d.place \/ \E i \in W : SeedPlace(r, i) # None /\ x = seed_id(i)
      /\ \A x \in DOMAIN d.place : pl[x] = d.place[x]
      /\ \A i \in W : SeedPlace(r, i) # None /\ seed_id(i) \notin DOMAIN d.place =>
           pl[seed_id(i)] = SeedPlace(r, i)
  <2>1. /\ \A x : x \in DOMAIN pl <=>
             x \in DOMAIN d.place \/ \E i \in W : SeedPlace(r, i) # None /\ x = seed_id(i)
        /\ \A x \in DOMAIN d.place : pl[x] = d.place[x]
    OBVIOUS
  <2>2. \A x \in DOMAIN pl : x \notin DOMAIN d.place => pl[x] = SeedPlace(r, x[2])
    OBVIOUS
  <2> HIDE DEF pl
  <2> QED  BY <2>1, <2>2, SeedIds
<1>8. \A m : m \in mb <=> m \in d.member \/ SeedMember(d, r, m)
  BY DEF SeedMember
<1> HIDE DEF pr, rt, al, pl, mb
<1>9. Tables(e)
  BY DEF Tables, Fields
<1>10. /\ e.parent = d.parent /\ e.disowned = d.disowned /\ e.wsroot = d.wsroot
       /\ e.agent = d.agent /\ e.claim = d.claim
       /\ e.workspace = d.workspace \cup r.workspaces
       /\ e.project = pr /\ e.root = rt /\ e.alias = al /\ e.place = pl /\ e.member = mb
  BY DEF Tables, Fields
<1> HIDE DEF e
<1>11. /\ \A q : q \in DOMAIN e.root <=>
            q \in DOMAIN d.root \/ \E i \in W : q \in Available(d, r, i)
       /\ \A q \in DOMAIN e.root :
            \/ q \in DOMAIN d.root /\ e.root[q] = d.root[q]
            \/ \E i \in W : e.root[q] = seed_id(i)
  BY <1>2, <1>3, <1>5, <1>10
<1>12. /\ DOMAIN d.alias \subseteq DOMAIN e.alias
       /\ \A x \in DOMAIN e.alias :
            \/ x \in DOMAIN d.alias /\ e.alias[x] = d.alias[x]
            \/ \E i \in W : e.alias[x] = seed_id(i)
  BY <1>6, <1>10
<1> HIDE DEF W
<1>13. \A x : x \in DOMAIN e.project <=> x \in DOMAIN d.project \/ \E i \in W : x = seed_id(i)
  BY <1>4, <1>10
<1>14. /\ \A x : x \in DOMAIN e.place <=>
            x \in DOMAIN d.place \/ \E i \in W : SeedPlace(r, i) # None /\ x = seed_id(i)
       /\ \A x \in DOMAIN d.place : e.place[x] = d.place[x]
       /\ \A i \in W : SeedPlace(r, i) # None /\ seed_id(i) \notin DOMAIN d.place =>
            e.place[seed_id(i)] = SeedPlace(r, i)
  BY <1>7, <1>10
<1>15. \A m : m \in e.member <=> m \in d.member \/ SeedMember(d, r, m)
  BY <1>8, <1>10
<1>16. SeedAdds(d, r, e)
  BY <1>9, <1>10, <1>11, <1>12, <1>13, <1>14, <1>15 DEF W, SeedAdds
<1> QED  BY <1>1, <1>16

\* A seed import keeps the tables together and carries what it places.
LEMMA SeedGrows ==
    ASSUME NEW d, Placements(d), NEW r, IsSeed(r), SeedAllowed(d, r)
    PROVE  /\ Grows(d, ApplySeed(d, r))
           /\ Carries(d, ApplySeed(d, r), SeedCarry(d, r))
<1> DEFINE e == ApplySeed(d, r)
           W == SeedWritten(d, r)
<1>0. Tables(d) /\ Keys(d) /\ Refs(d) /\ Members(d)
  BY DEF Placements
<1>1. SeedAdds(d, r, e)
  BY <1>0, SeedTables
<1>2. W \subseteq Identities
  BY DEF SeedWritten, SeedTargets
<1>3. \A i \in W : SeedPlace(r, i) \in d.workspace \cup r.workspaces \cup {None}
  BY DEF SeedAllowed
<1>4. \A i \in W : Available(d, r, i) \subseteq Paths
  BY DEF Available, SeedGroup, IsSeed
<1> HIDE DEF e, W
<1>5. \A i \in W : Live(e, seed_id(i))
  BY <1>1 DEF SeedAdds, Live, W
<1>6. Keys(e)
  <2>1. DOMAIN e.project \subseteq Ids
    BY <1>0, <1>1, <1>2, SeedIds DEF SeedAdds, Keys, W
  <2>2. DOMAIN e.root \cup DOMAIN e.parent \cup e.disowned \subseteq Paths
    BY <1>0, <1>1, <1>4 DEF SeedAdds, Keys, W
  <2>3. e.workspace \cup DOMAIN e.wsroot \subseteq Workspaces
    BY <1>0, <1>1 DEF SeedAdds, Keys, IsSeed
  <2> QED  BY <2>1, <2>2, <2>3 DEF Keys
<1>7. Refs(e)
  <2>1. \A x : Live(d, x) => Live(e, x)
    BY <1>1 DEF SeedAdds, Live
  <2>2. \A x \in DOMAIN e.root : Live(e, e.root[x])
    BY <1>0, <1>1, <1>5, <2>1 DEF SeedAdds, Refs, W
  <2>3. \A x \in DOMAIN e.parent : Live(e, e.parent[x])
    BY <1>0, <1>1, <2>1 DEF SeedAdds, Refs
  <2>4. \A x \in DOMAIN e.alias : Live(e, e.alias[x])
    BY <1>0, <1>1, <1>5, <2>1 DEF SeedAdds, Refs, W
  <2>5. \A x \in DOMAIN e.place : Live(e, x) /\ e.place[x] \in e.workspace
    <3> SUFFICES ASSUME NEW x \in DOMAIN e.place
                 PROVE  Live(e, x) /\ e.place[x] \in e.workspace
      OBVIOUS
    <3>1. CASE x \in DOMAIN d.place
      BY <1>0, <1>1, <2>1, <3>1 DEF SeedAdds, Refs
    <3>2. CASE x \notin DOMAIN d.place
      <4>1. PICK i \in W : SeedPlace(r, i) # None /\ x = seed_id(i)
        BY <1>1, <3>2 DEF SeedAdds, W
      <4>2. e.place[x] = SeedPlace(r, i) /\ e.workspace = d.workspace \cup r.workspaces
        BY <1>1, <3>2, <4>1 DEF SeedAdds, W
      <4> QED  BY <1>3, <1>5, <4>1, <4>2
    <3> QED  BY <3>1, <3>2
  <2>6. DOMAIN e.wsroot \subseteq e.workspace /\ e.disowned \subseteq DOMAIN e.root
    BY <1>0, <1>1 DEF SeedAdds, Refs
  <2> QED  BY <2>2, <2>3, <2>4, <2>5, <2>6 DEF Refs
<1>8. Members(e)
  <2>1. \A x : (\E k \in d.member : k[2] = x) <=> x \in DOMAIN d.place
    <3> SUFFICES ASSUME NEW x
                 PROVE  (\E k \in d.member : k[2] = x) <=> x \in DOMAIN d.place
      OBVIOUS
    <3>1. ASSUME NEW k \in d.member, k[2] = x PROVE x \in DOMAIN d.place
      BY <1>0, <3>1 DEF Members
    <3>2. ASSUME x \in DOMAIN d.place PROVE \E k \in d.member : k[2] = x
      <4>1. <<d.place[x], x>> \in d.member
        BY <1>0, <3>2 DEF Members
      <4> QED  BY <4>1
    <3> QED  BY <3>1, <3>2
  <2> SUFFICES ASSUME NEW m
               PROVE  m \in e.member <=> \E x \in DOMAIN e.place : m = <<e.place[x], x>>
    BY DEF Members
  <2>2. ASSUME m \in d.member PROVE \E x \in DOMAIN e.place : m = <<e.place[x], x>>
    <3>1. PICK x \in DOMAIN d.place : m = <<d.place[x], x>>
      BY <1>0, <2>2 DEF Members
    <3>2. x \in DOMAIN e.place /\ e.place[x] = d.place[x]
      BY <1>1 DEF SeedAdds
    <3> QED  BY <3>1, <3>2
  <2>3. ASSUME NEW i \in W, SeedPlace(r, i) # None, m = <<SeedPlace(r, i), seed_id(i)>>,
               \A k \in d.member : k[2] # seed_id(i)
        PROVE  \E x \in DOMAIN e.place : m = <<e.place[x], x>>
    <3>1. seed_id(i) \notin DOMAIN d.place
      BY <2>1, <2>3
    <3>2. seed_id(i) \in DOMAIN e.place /\ e.place[seed_id(i)] = SeedPlace(r, i)
      BY <1>1, <2>3, <3>1 DEF SeedAdds, W
    <3> QED  BY <2>3, <3>2
  <2>4. ASSUME NEW x \in DOMAIN e.place, m = <<e.place[x], x>> PROVE m \in e.member
    <3>1. CASE x \in DOMAIN d.place
      <4>1. e.place[x] = d.place[x]
        BY <1>1, <3>1 DEF SeedAdds
      <4>2. m \in d.member
        BY <1>0, <2>4, <3>1, <4>1 DEF Members
      <4> QED  BY <1>1, <4>2 DEF SeedAdds
    <3>2. CASE x \notin DOMAIN d.place
      <4>1. PICK i \in W : SeedPlace(r, i) # None /\ x = seed_id(i)
        BY <1>1, <3>2 DEF SeedAdds, W
      <4>2. e.place[x] = SeedPlace(r, i)
        BY <1>1, <3>2, <4>1 DEF SeedAdds, W
      <4>3. \A k \in d.member : k[2] # seed_id(i)
        BY <2>1, <3>2, <4>1
      <4> QED  BY <1>1, <2>4, <4>1, <4>2, <4>3 DEF SeedAdds, SeedMember, W
    <3> QED  BY <3>1, <3>2
  <2>5. SeedMember(d, r, m) => \E x \in DOMAIN e.place : m = <<e.place[x], x>>
    <3> SUFFICES ASSUME SeedMember(d, r, m)
                 PROVE  \E x \in DOMAIN e.place : m = <<e.place[x], x>>
      OBVIOUS
    <3>1. PICK i \in W : /\ SeedPlace(r, i) # None
                         /\ \A k \in d.member : k[2] # seed_id(i)
                         /\ m = <<SeedPlace(r, i), seed_id(i)>>
      BY DEF SeedMember, W
    <3> QED  BY <2>3, <3>1
  <2>6. (\E x \in DOMAIN e.place : m = <<e.place[x], x>>) => m \in e.member
    BY <2>4
  <2> QED  BY <1>1, <2>2, <2>5, <2>6 DEF SeedAdds
<1>9. Grows(d, e)
  <2>1. Placements(e)
    BY <1>1, <1>6, <1>7, <1>8 DEF SeedAdds, Placements
  <2> QED  BY <1>1, <2>1 DEF SeedAdds, Grows
<1>10. Carries(d, e, SeedCarry(d, r))
  <2> DEFINE new == {i \in W : SeedPlace(r, i) # None /\ seed_id(i) \notin DOMAIN d.place}
             S(i) == DOMAIN plan_carry(d, seed_id(i), SeedPlace(r, i))
             moves == SeedCarry(d, r)
  <2>1. /\ \A g : g \in DOMAIN moves <=> \E i \in new : g \in S(i)
        /\ \A g \in DOMAIN moves :
             moves[g] = SeedPlace(r, CHOOSE i \in new : seed_id(i) = d.agent[g].project)
    BY DEF SeedCarry, W
  <2>2. \A i \in new : /\ S(i) \subseteq Staff(d)
                        /\ \A g \in S(i) : d.agent[g].project = seed_id(i)
    BY PlanCarry
  <2>3. \A i \in new : /\ seed_id(i) \in DOMAIN e.place
                        /\ e.place[seed_id(i)] = SeedPlace(r, i)
    BY <1>1 DEF SeedAdds, W
  <2> HIDE DEF S, moves, new
  <2>4. ASSUME NEW g \in DOMAIN moves
        PROVE  /\ g \in Staff(d)
               /\ d.agent[g].project \in DOMAIN e.place
               /\ moves[g] = e.place[d.agent[g].project]
    <3>1. PICK i \in new : g \in S(i)
      BY <2>1
    <3>2. g \in Staff(d) /\ d.agent[g].project = seed_id(i)
      BY <2>2, <3>1
    <3>3. (CHOOSE j \in new : seed_id(j) = d.agent[g].project) = i
      BY <3>2, SeedIds
    <3> QED  BY <2>1, <2>3, <3>2, <3>3
  <2>5. \A x \in DOMAIN d.place : e.place[x] = d.place[x]
    BY <1>1 DEF SeedAdds
  <2> QED  BY <2>4, <2>5 DEF Carries, moves
<1> QED  BY <1>9, <1>10 DEF e

-----------------------------------------------------------------------------
(* What is carried with a placement. *)

\* The tables of projects and workspaces agree.
SamePlacements(d, a) ==
    /\ a.project = d.project /\ a.root = d.root /\ a.parent = d.parent
    /\ a.alias = d.alias /\ a.disowned = d.disowned /\ a.workspace = d.workspace
    /\ a.wsroot = d.wsroot /\ a.place = d.place /\ a.member = d.member

\* f is a function on S.
Keyed(f, S) == f = [g \in S |-> f[g]]

\* The rows and claims of d, changed at most for the agents in S.
Touches(d, a, S) ==
    /\ Keyed(a.agent, DOMAIN d.agent) /\ Keyed(a.claim, DOMAIN d.claim)
    /\ \A g \in DOMAIN d.agent \ S : a.agent[g] = d.agent[g]
    /\ \A g \in DOMAIN d.claim \ S : a.claim[g] = d.claim[g]

\* Replaying the after-images of the agents that changed yields what was written.
LEMMA ImagesReplay ==
    ASSUME NEW d, Tables(d), NEW a, Tables(a), NEW S, S \subseteq DOMAIN d.agent,
           SamePlacements(d, a), Touches(d, a, S)
    PROVE  replay_moves(d, Images(a, S)) = a
<1> DEFINE I == Images(a, S)
           c == replay_moves(d, I)
           ag == [g \in DOMAIN d.agent \cup DOMAIN I.agent |->
                    IF g \in DOMAIN I.agent THEN I.agent[g] ELSE d.agent[g]]
           cl == [g \in DOMAIN d.claim \cup DOMAIN I.claim |->
                    IF g \in DOMAIN I.claim THEN I.claim[g] ELSE d.claim[g]]
<1>0. /\ a.agent = [g \in DOMAIN d.agent |-> a.agent[g]]
      /\ a.claim = [g \in DOMAIN d.claim |-> a.claim[g]]
      /\ \A g \in DOMAIN d.agent \ S : a.agent[g] = d.agent[g]
      /\ \A g \in DOMAIN d.claim \ S : a.claim[g] = d.claim[g]
  BY DEF Touches, Keyed
<1>1. /\ DOMAIN I.agent = S /\ \A g \in S : I.agent[g] = a.agent[g]
      /\ DOMAIN I.claim = S \cap DOMAIN a.claim
      /\ \A g \in S \cap DOMAIN a.claim : I.claim[g] = a.claim[g]
  BY DEF Images
<1> HIDE DEF I
<1>2. DOMAIN a.agent = DOMAIN d.agent /\ DOMAIN a.claim = DOMAIN d.claim
  BY <1>0
<1>3. ag = [g \in DOMAIN d.agent |-> a.agent[g]]
  BY <1>0, <1>1
<1>4. cl = [g \in DOMAIN d.claim |-> a.claim[g]]
  BY <1>0, <1>1, <1>2
<1>5. c = [d EXCEPT !.agent = ag, !.claim = cl]
  BY DEF replay_moves
<1> HIDE DEF ag, cl, c
<1>6. Tables(c) /\ c.agent = a.agent /\ c.claim = a.claim
  BY <1>0, <1>3, <1>4, <1>5 DEF Tables, Fields
<1>7. SamePlacements(d, c)
  BY <1>5 DEF Tables, Fields, SamePlacements
<1>8. c = a
  BY <1>6, <1>7, SameTables DEF SamePlacements
<1> QED  BY <1>8 DEF c, I

\* An agent's row and claim after a move.
MovedRow(moves, g, row) == IF g \in DOMAIN moves THEN [row EXCEPT !.ws = None] ELSE row

MovedClaim(moves, g, claim) ==
    IF g \in DOMAIN moves THEN [claim EXCEPT !.ns = moves[g]] ELSE claim

MovedTables(d, a, moves) ==
    /\ Tables(a) /\ SamePlacements(d, a)
    /\ Keyed(a.agent, DOMAIN d.agent) /\ Keyed(a.claim, DOMAIN d.claim)
    /\ \A g \in DOMAIN d.agent : a.agent[g] = MovedRow(moves, g, d.agent[g])
    /\ \A g \in DOMAIN d.claim : a.claim[g] = MovedClaim(moves, g, d.claim[g])

\* A move writes these rows.
LEMMA MovesTables ==
    ASSUME NEW d, Tables(d), NEW moves
    PROVE  MovedTables(d, apply_moves(d, moves), moves)
<1> DEFINE a == apply_moves(d, moves)
           ag == [g \in DOMAIN d.agent |-> MovedRow(moves, g, d.agent[g])]
           cl == [g \in DOMAIN d.claim |-> MovedClaim(moves, g, d.claim[g])]
<1>1. a = [d EXCEPT !.agent = ag, !.claim = cl]
  BY DEF apply_moves, MovedRow, MovedClaim
<1>2. /\ ag = [g \in DOMAIN d.agent |-> ag[g]]
      /\ cl = [g \in DOMAIN d.claim |-> cl[g]]
      /\ \A g \in DOMAIN d.agent : ag[g] = MovedRow(moves, g, d.agent[g])
      /\ \A g \in DOMAIN d.claim : cl[g] = MovedClaim(moves, g, d.claim[g])
  OBVIOUS
<1> HIDE DEF ag, cl, a
<1>3. Tables(a)
  BY <1>1 DEF Tables, Fields
<1>4. SamePlacements(d, a) /\ a.agent = ag /\ a.claim = cl
  BY <1>1 DEF Tables, Fields, SamePlacements
<1> QED  BY <1>2, <1>3, <1>4 DEF a, MovedTables, Keyed

\* Only the agents to move are touched.
LEMMA MovesTouch ==
    ASSUME NEW d, NEW a, NEW moves, MovedTables(d, a, moves)
    PROVE  Touches(d, a, DOMAIN moves)
  BY DEF MovedTables, Touches, MovedRow, MovedClaim

\* The rows of agents after a move.
Moved(d, a, moves) ==
    /\ DOMAIN a.agent = DOMAIN d.agent
    /\ \A g \in DOMAIN d.agent :
         /\ DOMAIN a.agent[g] = RowFields
         /\ a.agent[g].role = d.agent[g].role /\ a.agent[g].project = d.agent[g].project
         /\ a.agent[g].name = d.agent[g].name /\ a.agent[g].status = d.agent[g].status
         /\ a.agent[g].ws = IF g \in DOMAIN moves THEN None ELSE d.agent[g].ws
    /\ DOMAIN a.claim = DOMAIN d.claim
    /\ \A g \in DOMAIN d.claim :
         /\ a.claim[g] \in Claims /\ a.claim[g].name = d.claim[g].name
         /\ a.claim[g].ns = IF g \in DOMAIN moves THEN moves[g] ELSE d.claim[g].ns
    /\ LiveAgents(a) = LiveAgents(d) /\ Staff(a) = Staff(d)

\* The rows of agents after a move, when their claims are well formed.
LEMMA MovesMove ==
    ASSUME NEW d, Rows(d), NEW e, e.agent = d.agent, e.claim = d.claim, NEW moves,
           \A g \in DOMAIN moves : moves[g] \in Workspaces, NEW a, MovedTables(e, a, moves)
    PROVE  Moved(d, a, moves)
<1>1. /\ Keyed(a.agent, DOMAIN d.agent) /\ Keyed(a.claim, DOMAIN d.claim)
      /\ \A g \in DOMAIN d.agent : a.agent[g] = MovedRow(moves, g, d.agent[g])
      /\ \A g \in DOMAIN d.claim : a.claim[g] = MovedClaim(moves, g, d.claim[g])
  BY DEF MovedTables
<1>2. DOMAIN a.agent = DOMAIN d.agent /\ DOMAIN a.claim = DOMAIN d.claim
  BY <1>1 DEF Keyed
<1>3. \A g \in DOMAIN d.agent :
        /\ DOMAIN a.agent[g] = RowFields
        /\ a.agent[g].role = d.agent[g].role /\ a.agent[g].project = d.agent[g].project
        /\ a.agent[g].name = d.agent[g].name /\ a.agent[g].status = d.agent[g].status
        /\ a.agent[g].ws = IF g \in DOMAIN moves THEN None ELSE d.agent[g].ws
  <2> SUFFICES ASSUME NEW g \in DOMAIN d.agent
               PROVE  /\ DOMAIN a.agent[g] = RowFields
                      /\ a.agent[g].role = d.agent[g].role
                      /\ a.agent[g].project = d.agent[g].project
                      /\ a.agent[g].name = d.agent[g].name
                      /\ a.agent[g].status = d.agent[g].status
                      /\ a.agent[g].ws = IF g \in DOMAIN moves THEN None ELSE d.agent[g].ws
    OBVIOUS
  <2>1. DOMAIN d.agent[g] = RowFields
    BY DEF Rows
  <2>2. a.agent[g] = IF g \in DOMAIN moves THEN [d.agent[g] EXCEPT !.ws = None]
                     ELSE d.agent[g]
    BY <1>1 DEF MovedRow
  <2> QED  BY <2>1, <2>2 DEF RowFields
<1>4. \A g \in DOMAIN d.claim :
        /\ a.claim[g] \in Claims /\ a.claim[g].name = d.claim[g].name
        /\ a.claim[g].ns = IF g \in DOMAIN moves THEN moves[g] ELSE d.claim[g].ns
  <2> SUFFICES ASSUME NEW g \in DOMAIN d.claim
               PROVE  /\ a.claim[g] \in Claims /\ a.claim[g].name = d.claim[g].name
                      /\ a.claim[g].ns = IF g \in DOMAIN moves THEN moves[g]
                                         ELSE d.claim[g].ns
    OBVIOUS
  <2>1. d.claim[g] \in Claims
    BY DEF Rows
  <2>2. a.claim[g] = IF g \in DOMAIN moves THEN [d.claim[g] EXCEPT !.ns = moves[g]]
                     ELSE d.claim[g]
    BY <1>1 DEF MovedClaim
  <2> QED  BY <2>1, <2>2 DEF Claims
<1>5. LiveAgents(a) = LiveAgents(d) /\ Staff(a) = Staff(d)
  <2>1. LiveAgents(a) = LiveAgents(d)
    BY <1>2, <1>3 DEF LiveAgents
  <2>2. LiveAgents(d) \subseteq DOMAIN d.agent
    BY DEF LiveAgents
  <2> QED  BY <1>3, <2>1, <2>2 DEF Staff
<1> QED  BY <1>2, <1>3, <1>4, <1>5 DEF Moved

\* No name is taken twice by a move that check_names admits.
LEMMA MovedUnique ==
    ASSUME NEW d, Rows(d), Unique(d), NEW a, NEW moves, Moved(d, a, moves),
           DOMAIN moves \subseteq LiveAgents(d), moves = Empty \/ check_names(d, moves)
    PROVE  Rows(a) /\ Unique(a)
<1>0. DOMAIN d.claim = LiveAgents(d) /\ LiveAgents(d) \subseteq DOMAIN d.agent
  BY DEF Rows, LiveAgents
<1>1. Rows(a)
  BY <1>0 DEF Rows, Moved
<1>2. ASSUME NEW g \in LiveAgents(d), NEW h \in LiveAgents(d), g # h,
             a.claim[g].ns = a.claim[h].ns, a.claim[g].name = a.claim[h].name,
             g \in DOMAIN moves, moves[g] # d.claim[g].ns
      PROVE  FALSE
  <2>0. DOMAIN Empty = {}
    BY DEF Empty
  <2>1. /\ ~NameTaken(d, moves[g], d.claim[g].name, g)
        /\ h \in DOMAIN moves /\ moves[h] = moves[g] => d.claim[h].name # d.claim[g].name
    BY <1>2, <2>0 DEF check_names
  <2>2. /\ d.claim[g] \in Claims /\ d.claim[h] \in Claims
        /\ a.claim[g].ns = moves[g] /\ a.claim[g].name = d.claim[g].name
        /\ a.claim[h].name = d.claim[h].name
        /\ a.claim[h].ns = IF h \in DOMAIN moves THEN moves[h] ELSE d.claim[h].ns
    BY <1>0, <1>2 DEF Rows, Moved
  <2>3. CASE h \in DOMAIN moves
    BY <1>2, <2>1, <2>2, <2>3
  <2>4. CASE h \notin DOMAIN moves
    <3>1. d.claim[h].ns = moves[g] /\ d.claim[h].name = d.claim[g].name
      BY <1>2, <2>2, <2>4
    <3>2. d.claim[h] = [ns |-> moves[g], name |-> d.claim[g].name]
      BY <2>2, <3>1 DEF Claims
    <3> QED  BY <1>0, <1>2, <2>1, <3>2 DEF NameTaken
  <2> QED  BY <2>3, <2>4
<1>3. ASSUME NEW g \in LiveAgents(d), NEW h \in LiveAgents(d), g # h
      PROVE  a.claim[g] # a.claim[h]
  <2> SUFFICES ASSUME a.claim[g] = a.claim[h] PROVE FALSE
    OBVIOUS
  <2>1. a.claim[g].ns = a.claim[h].ns /\ a.claim[g].name = a.claim[h].name
    OBVIOUS
  <2>2. ~(g \in DOMAIN moves /\ moves[g] # d.claim[g].ns)
    BY <1>2, <1>3, <2>1
  <2>3. ~(h \in DOMAIN moves /\ moves[h] # d.claim[h].ns)
    BY <1>2, <1>3, <2>1
  <2>4. d.claim[g].ns = d.claim[h].ns /\ d.claim[g].name = d.claim[h].name
    BY <1>0, <2>1, <2>2, <2>3 DEF Moved
  <2>5. d.claim[g] = d.claim[h]
    BY <1>0, <2>4 DEF Rows, Claims
  <2> QED  BY <1>3, <2>5 DEF Unique
<1>4. ASSUME NEW g \in LiveAgents(d), NEW h \in LiveAgents(d), g # h
      PROVE  ~(/\ a.agent[g].role = "head" /\ a.agent[h].role = "head"
               /\ a.agent[g].project = a.agent[h].project)
  BY <1>0, <1>4 DEF Unique, Moved
<1>5. LiveAgents(a) = LiveAgents(d)
  BY DEF Moved
<1> QED  BY <1>1, <1>3, <1>4, <1>5 DEF Unique

\* The write and what it carries keep every agent on its placement, and replay of
\* the after-images yields the same tables.
LEMMA CarriedTables ==
    ASSUME NEW d, NEW A, Placements(d), Identified(d, A), NEW e, Grows(d, e),
           NEW moves, Carries(d, e, moves), moves = Empty \/ check_names(d, moves)
    PROVE  LET a == apply_moves(e, moves) IN
           /\ Placements(a) /\ Identified(a, A)
           /\ a.project = e.project /\ a.alias = e.alias
           /\ Moved(d, a, moves)
           /\ replay_moves(e, Images(a, DOMAIN moves)) = a
<1> DEFINE a == apply_moves(e, moves)
<1>0. /\ Placements(e) /\ Tables(e) /\ Keys(e) /\ Refs(e) /\ Members(e)
      /\ e.agent = d.agent /\ e.claim = d.claim
      /\ Rows(d) /\ Unique(d) /\ Bound(d) /\ OnPlacement(d, A)
  BY DEF Grows, Placements, Identified
<1>1. Staff(d) \subseteq LiveAgents(d) /\ LiveAgents(d) \subseteq DOMAIN d.agent
  BY DEF Staff, LiveAgents
<1>2. \A g \in DOMAIN moves : moves[g] \in Workspaces
  BY <1>0 DEF Carries, Refs, Keys
<1>3. MovedTables(e, a, moves)
  BY <1>0, MovesTables
<1> HIDE DEF a
<1>4. Moved(d, a, moves)
  BY <1>0, <1>2, <1>3, MovesMove
<1>a. Tables(a) /\ SamePlacements(e, a)
  BY <1>3 DEF MovedTables
<1>5. DOMAIN moves \subseteq LiveAgents(d) /\ DOMAIN moves \subseteq DOMAIN e.agent
  BY <1>0, <1>1 DEF Carries
<1>6. Placements(a)
  BY <1>0, <1>a DEF SamePlacements, Placements, Keys, Refs, Live, Members
<1>7. Rows(a) /\ Unique(a)
  BY <1>0, <1>4, <1>5, MovedUnique
<1>8. Bound(a)
  <2>1. DOMAIN d.project \subseteq DOMAIN a.project /\ d.workspace \subseteq a.workspace
    BY <1>a DEF SamePlacements, Grows
  <2>2. \A g \in LiveAgents(d) : g \in DOMAIN d.agent /\ (g \in DOMAIN moves => g \in Staff(d))
    BY <1>1 DEF Carries
  <2>3. \A g \in Staff(d) : d.agent[g].role \in {"head", "hiree"}
    BY DEF Staff
  <2> QED  BY <1>0, <1>1, <1>4, <2>1, <2>2, <2>3 DEF Bound, Moved, Live
<1>9. OnPlacement(a, A)
  <2> SUFFICES ASSUME NEW g \in Staff(a) \ A
               PROVE  /\ a.agent[g].ws = None
                      /\ a.agent[g].project \in DOMAIN a.place
                      /\ a.claim[g].ns = a.place[a.agent[g].project]
    BY DEF OnPlacement
  <2>1. g \in Staff(d) \ A /\ g \in DOMAIN d.agent /\ g \in DOMAIN d.claim
    BY <1>0, <1>1, <1>4 DEF Moved, Rows
  <2>2. /\ d.agent[g].ws = None /\ d.agent[g].project \in DOMAIN d.place
        /\ d.claim[g].ns = d.place[d.agent[g].project]
        /\ a.agent[g].project = d.agent[g].project
    BY <1>0, <1>4, <2>1 DEF OnPlacement, Moved
  <2>3. CASE g \in DOMAIN moves
    <3>1. /\ d.agent[g].project \in DOMAIN e.place
          /\ moves[g] = e.place[d.agent[g].project]
      BY <2>3 DEF Carries
    <3>2. a.agent[g].ws = None /\ a.claim[g].ns = moves[g]
      BY <1>4, <2>1, <2>3 DEF Moved
    <3> QED  BY <1>a, <2>2, <3>1, <3>2 DEF SamePlacements
  <2>4. CASE g \notin DOMAIN moves
    <3>1. a.claim[g].ns = d.claim[g].ns /\ a.agent[g].ws = None
      BY <1>4, <2>1, <2>2, <2>4 DEF Moved
    <3>2. d.agent[g].project \in DOMAIN a.place
      BY <1>a, <2>2 DEF SamePlacements, Grows
    <3>3. d.claim[g].ns = a.place[d.agent[g].project]
      BY <1>a, <2>1, <2>2, <2>4 DEF SamePlacements, Carries
    <3> QED  BY <2>2, <3>1, <3>2, <3>3
  <2> QED  BY <2>3, <2>4
<1>10. replay_moves(e, Images(a, DOMAIN moves)) = a
  <2>1. Touches(e, a, DOMAIN moves)
    BY <1>3, MovesTouch
  <2> QED  BY <1>0, <1>a, <1>5, <2>1, ImagesReplay
<1>11. Identified(a, A)
  BY <1>7, <1>8, <1>9 DEF Identified
<1> QED  BY <1>4, <1>a, <1>6, <1>10, <1>11 DEF a, SamePlacements

-----------------------------------------------------------------------------
(* One placement write, whichever it is. *)

\* The fields of each kind of request.
LEMMA RequestShapes ==
    ASSUME NEW r \in Requests
    PROVE  \/ r.op = "register" /\ IsRegister(r)
           \/ r.op = "assign" /\ r.ws \in Workspaces
           \/ r.op = "upgrade" /\ IsUpgrade(r)
           \/ r.op = "seed" /\ IsSeed(r)
  BY RegistryRequests DEF IsRegister, IsUpgrade, IsSeed

\* Each placement write grows the tables, carries what it should and replays.
LEMMA PlacementGrows ==
    ASSUME NEW d, Placements(d), NEW r \in Requests, Allowed(d, r)
    PROVE  /\ Grows(d, Apply(d, r))
           /\ Carries(d, Apply(d, r), Carry(d, r))
           /\ Replay(d, r) = Apply(d, r)
<1>0. Tables(d)
  BY DEF Placements
<1>1. CASE r.op = "register" /\ IsRegister(r)
  <2>1. /\ Apply(d, r) = ApplyRegister(d, r) /\ Replay(d, r) = ReplayRegister(d, r)
        /\ Carry(d, r) = CarryIfUnplaced(d, RegisterId(d, r), r.ws)
    BY <1>1 DEF Apply, Replay, Carry
  <2> QED  BY <1>0, <1>1, <2>1, RegisterGrows, RegisterReplays
<1>2. CASE r.op = "assign" /\ r.ws \in Workspaces
  <2>1. /\ Apply(d, r) = ApplyAssign(d, r) /\ Replay(d, r) = ReplayAssign(d, r)
        /\ Carry(d, r) = plan_carry(d, r.project, r.ws)
        /\ AssignAllowed(d, r)
    BY <1>2 DEF Apply, Replay, Carry, Allowed
  <2> QED  BY <1>2, <2>1, AssignGrows DEF ReplayAssign
<1>3. CASE r.op = "upgrade" /\ IsUpgrade(r)
  <2>1. /\ Apply(d, r) = ApplyUpgrade(d, r) /\ Replay(d, r) = ReplayUpgrade(d, r)
        /\ Carry(d, r) = CarryIfUnplaced(d, UpgradeId(r), r.ws)
    BY <1>3 DEF Apply, Replay, Carry
  <2> QED  BY <1>3, <2>1, UpgradeGrows DEF ReplayUpgrade
<1>4. CASE r.op = "seed" /\ IsSeed(r)
  <2>1. /\ Apply(d, r) = ApplySeed(d, r) /\ Replay(d, r) = ReplaySeed(d, r)
        /\ Carry(d, r) = SeedCarry(d, r)
        /\ SeedAllowed(d, r)
    BY <1>4 DEF Apply, Replay, Carry, Allowed
  <2> QED  BY <1>4, <2>1, SeedGrows DEF ReplaySeed
<1> QED  BY <1>1, <1>2, <1>3, <1>4, RequestShapes

\* The ids that lead to a project.
Reachable(d) == DOMAIN d.project \cup DOMAIN d.alias

\* The placement write and what it carries.
LEMMA CommitKeeps ==
    ASSUME RegistryInv, NEW r \in Requests, NEW confirmed, Commit(r, confirmed)
    PROVE  /\ Placements(db)' /\ Identified(db, astray)' /\ copy' = db'
           /\ Reachable(db) \subseteq Reachable(db')
           /\ Moved(db, db', Carry(db, r))
           /\ DOMAIN Carry(db, r) \subseteq LiveAgents(db)
           /\ DOMAIN db.agent = {} => DOMAIN db'.agent = {}
<1> DEFINE e == Apply(db, r)
           moves == Carry(db, r)
           a == apply_moves(e, moves)
<1>1. /\ Placements(db) /\ Identified(db, astray) /\ copy = db
      /\ Allowed(db, r) /\ (moves = Empty \/ check_names(db, moves))
      /\ db' = a /\ copy' = replay_moves(Replay(copy, r), Images(a, DOMAIN moves))
      /\ astray' = astray
  BY DEF RegistryInv, Commit, Admitted, admit_carry
<1>2. Grows(db, e) /\ Carries(db, e, moves) /\ Replay(db, r) = e
  BY <1>1, PlacementGrows
<1> HIDE DEF e, moves
<1>3. /\ Placements(a) /\ Identified(a, astray)
      /\ a.project = e.project /\ a.alias = e.alias
      /\ Moved(db, a, moves)
      /\ replay_moves(e, Images(a, DOMAIN moves)) = a
  BY <1>1, <1>2, CarriedTables
<1> HIDE DEF a
<1>4. copy' = db'
  BY <1>1, <1>2, <1>3
<1>5. Placements(db') /\ Identified(db', astray')
  BY <1>1, <1>3
<1>6. Reachable(db) \subseteq Reachable(db')
  BY <1>1, <1>2, <1>3 DEF Grows, Reachable
<1>7. Moved(db, db', moves) /\ DOMAIN moves \subseteq LiveAgents(db)
  BY <1>1, <1>2, <1>3 DEF Carries, Staff
<1>8. DOMAIN db'.agent = DOMAIN db.agent
  BY <1>7 DEF Moved
<1> QED  BY <1>4, <1>5, <1>6, <1>7, <1>8 DEF moves
-----------------------------------------------------------------------------
(* The writes of workspaces, projects and roots. *)

\* Agents that are not written keep what is said of them, as long as the projects and
\* workspaces of the live ones stay where they are.
LEMMA SameAgents ==
    ASSUME NEW d, NEW e, NEW A, Identified(d, A), e.agent = d.agent, e.claim = d.claim,
           \A g \in LiveAgents(d) : Live(d, d.agent[g].project) => Live(e, d.agent[g].project),
           \A g \in LiveAgents(d) :
               d.agent[g].role = "workspace_head" /\ d.agent[g].ws \in d.workspace
                 => d.agent[g].ws \in e.workspace,
           \A g \in LiveAgents(d) : d.agent[g].project \in DOMAIN d.place =>
               /\ d.agent[g].project \in DOMAIN e.place
               /\ e.place[d.agent[g].project] = d.place[d.agent[g].project]
    PROVE  Identified(e, A)
<1>1. LiveAgents(e) = LiveAgents(d)
  BY DEF LiveAgents
<1>2. Staff(e) = Staff(d) /\ Staff(d) \subseteq LiveAgents(d)
  BY <1>1 DEF Staff
<1>3. Rows(e)
  BY <1>1 DEF Rows, Identified
<1>4. Unique(e)
  BY <1>1 DEF Unique, Identified
<1>5. Bound(e)
  BY <1>1, <1>2 DEF Bound, Identified
<1>6. OnPlacement(e, A)
  BY <1>2 DEF OnPlacement, Identified
<1> QED  BY <1>3, <1>4, <1>5, <1>6 DEF Identified

\* The simple case: no project, workspace or placement is lost.
LEMMA SameAgentsGrown ==
    ASSUME NEW d, NEW e, NEW A, Identified(d, A), e.agent = d.agent, e.claim = d.claim,
           DOMAIN d.project \subseteq DOMAIN e.project, d.workspace \subseteq e.workspace,
           e.place = d.place
    PROVE  Identified(e, A)
  BY SameAgents DEF Live

\* Creating a workspace.
LEMMA WorkspaceAdded ==
    ASSUME NEW d, NEW A, Placements(d), Identified(d, A), NEW w \in Workspaces
    PROVE  /\ Placements(AddWorkspace(d, w)) /\ Identified(AddWorkspace(d, w), A)
           /\ Reachable(AddWorkspace(d, w)) = Reachable(d)
           /\ AddWorkspace(d, w).agent = d.agent
<1> DEFINE e == AddWorkspace(d, w)
<1>0. Tables(d) /\ Keys(d) /\ Refs(d) /\ Members(d)
  BY DEF Placements
<1>1. /\ Tables(e)
      /\ e.project = d.project /\ e.root = d.root /\ e.parent = d.parent
      /\ e.alias = d.alias /\ e.disowned = d.disowned /\ e.wsroot = d.wsroot
      /\ e.workspace = d.workspace \cup {w}
      /\ e.place = d.place /\ e.member = d.member
      /\ e.agent = d.agent /\ e.claim = d.claim
  BY <1>0 DEF Tables, Fields, AddWorkspace
<1> HIDE DEF e
<1>2. Placements(e)
  BY <1>0, <1>1 DEF Placements, Keys, Refs, Members, Live
<1>3. Identified(e, A)
  BY <1>1, SameAgentsGrown
<1> QED  BY <1>1, <1>2, <1>3 DEF e, Reachable

\* Giving a workspace its root.
LEMMA WorkspaceRootSet ==
    ASSUME NEW d, NEW A, Placements(d), Identified(d, A), NEW w \in d.workspace, NEW p
    PROVE  /\ Placements(set_workspace_root_projection(d, w, p))
           /\ Identified(set_workspace_root_projection(d, w, p), A)
           /\ Reachable(set_workspace_root_projection(d, w, p)) = Reachable(d)
           /\ set_workspace_root_projection(d, w, p).agent = d.agent
<1> DEFINE e == set_workspace_root_projection(d, w, p)
<1>0. Tables(d) /\ Keys(d) /\ Refs(d) /\ Members(d)
  BY DEF Placements
<1>1. /\ Tables(e)
      /\ e.project = d.project /\ e.root = d.root /\ e.parent = d.parent
      /\ e.alias = d.alias /\ e.disowned = d.disowned
      /\ e.wsroot = Put(d.wsroot, w, p)
      /\ e.workspace = d.workspace /\ e.place = d.place /\ e.member = d.member
      /\ e.agent = d.agent /\ e.claim = d.claim
  <2>1. Tables(e)
    BY <1>0 DEF Tables, Fields, set_workspace_root_projection
  <2> QED  BY <1>0, <2>1 DEF Tables, Fields, set_workspace_root_projection
<1> HIDE DEF e
<1>2. DOMAIN e.wsroot = DOMAIN d.wsroot \cup {w}
  BY <1>1 DEF Put
<1>3. Placements(e)
  BY <1>0, <1>1, <1>2 DEF Placements, Keys, Refs, Members, Live
<1>4. Identified(e, A)
  BY <1>1, SameAgentsGrown
<1> QED  BY <1>1, <1>3, <1>4 DEF e, Reachable

\* Removing a workspace that holds no live agent.
LEMMA WorkspaceRemoved ==
    ASSUME NEW d, NEW A, Placements(d), Identified(d, A), NEW w, WorkspaceUnbound(d, w)
    PROVE  /\ Placements(RemovedWorkspace(d, w)) /\ Identified(RemovedWorkspace(d, w), A)
           /\ Reachable(RemovedWorkspace(d, w)) = Reachable(d)
           /\ RemovedWorkspace(d, w).agent = d.agent
<1> DEFINE e == RemovedWorkspace(d, w)
<1>0. Tables(d) /\ Keys(d) /\ Refs(d) /\ Members(d)
  BY DEF Placements
<1>1. /\ Tables(e)
      /\ e.project = d.project /\ e.root = d.root /\ e.parent = d.parent
      /\ e.alias = d.alias /\ e.disowned = d.disowned
      /\ e.wsroot = Drop(d.wsroot, {w})
      /\ e.workspace = d.workspace \ {w}
      /\ e.place = Drop(d.place, RowsOf(d.place, w))
      /\ e.member = {m \in d.member : m[1] # w}
      /\ e.agent = d.agent /\ e.claim = d.claim
  <2>1. Tables(e)
    BY <1>0 DEF Tables, Fields, RemovedWorkspace
  <2> QED  BY <1>0, <2>1 DEF Tables, Fields, RemovedWorkspace
<1> HIDE DEF e
<1>2. /\ DOMAIN e.wsroot = DOMAIN d.wsroot \ {w}
      /\ \A x : x \in DOMAIN e.place <=> x \in DOMAIN d.place /\ d.place[x] # w
      /\ \A x \in DOMAIN e.place : e.place[x] = d.place[x]
  BY <1>1 DEF Drop, RowsOf
<1>3. Keys(e) /\ Refs(e)
  BY <1>0, <1>1, <1>2 DEF Keys, Refs, Live
<1>4. Members(e)
  <2> SUFFICES ASSUME NEW m
               PROVE  m \in e.member <=> \E x \in DOMAIN e.place : m = <<e.place[x], x>>
    BY DEF Members
  <2>1. ASSUME m \in e.member PROVE \E x \in DOMAIN e.place : m = <<e.place[x], x>>
    <3>1. m \in d.member /\ m[1] # w
      BY <1>1, <2>1
    <3>2. PICK x \in DOMAIN d.place : m = <<d.place[x], x>>
      BY <1>0, <3>1 DEF Members
    <3> QED  BY <1>2, <3>1, <3>2
  <2>2. ASSUME NEW x \in DOMAIN e.place, m = <<e.place[x], x>> PROVE m \in e.member
    <3>1. x \in DOMAIN d.place /\ d.place[x] # w /\ m = <<d.place[x], x>>
      BY <1>2, <2>2
    <3> QED  BY <1>0, <1>1, <3>1 DEF Members
  <2> QED  BY <2>1, <2>2
<1>5. Identified(e, A)
  <2>1. \A g \in LiveAgents(d) :
          /\ ~(d.agent[g].role = "workspace_head" /\ d.agent[g].ws = w)
          /\ ~(d.agent[g].project \in DOMAIN d.place /\ d.place[d.agent[g].project] = w)
    BY DEF WorkspaceUnbound
  <2> QED  BY <1>1, <1>2, <2>1, SameAgents DEF Live
<1> QED  BY <1>1, <1>3, <1>4, <1>5 DEF e, Reachable, Placements


\* The rows of a project that has a successor go to it.
LEMMA ProjectMerged ==
    ASSUME NEW d, NEW id, Placements(d), Live(d, id), NEW s, s # id, Live(d, s)
    PROVE  /\ Tables(MergedProject(d, id, s))
           /\ DOMAIN MergedProject(d, id, s).root = DOMAIN d.root
           /\ \A x \in DOMAIN d.root : MergedProject(d, id, s).root[x]
                = IF d.root[x] = id THEN s ELSE d.root[x]
           /\ DOMAIN MergedProject(d, id, s).parent = DOMAIN d.parent
           /\ \A x \in DOMAIN d.parent : MergedProject(d, id, s).parent[x]
                = IF d.parent[x] = id THEN s ELSE d.parent[x]
           /\ DOMAIN MergedProject(d, id, s).alias = DOMAIN d.alias \cup {id}
           /\ \A x \in DOMAIN MergedProject(d, id, s).alias :
                \/ MergedProject(d, id, s).alias[x] = s
                \/ /\ x \in DOMAIN d.alias /\ d.alias[x] # id
                   /\ MergedProject(d, id, s).alias[x] = d.alias[x]
           /\ MergedProject(d, id, s).disowned = d.disowned
<1> DEFINE e == MergedProject(d, id, s)
           rt == Redirect(d.root, id, s)
           pt == Redirect(d.parent, id, s)
           al == Put(Redirect(d.alias, id, s), id, s)
<1>1. e = [d EXCEPT !.root = rt, !.parent = pt, !.alias = al]
  BY DEF MergedProject
<1>2. /\ DOMAIN rt = DOMAIN d.root
      /\ \A x \in DOMAIN d.root : rt[x] = IF d.root[x] = id THEN s ELSE d.root[x]
      /\ DOMAIN pt = DOMAIN d.parent
      /\ \A x \in DOMAIN d.parent : pt[x] = IF d.parent[x] = id THEN s ELSE d.parent[x]
  BY DEF Redirect
<1>3. /\ DOMAIN al = DOMAIN d.alias \cup {id}
      /\ \A x \in DOMAIN al :
           \/ al[x] = s
           \/ x \in DOMAIN d.alias /\ d.alias[x] # id /\ al[x] = d.alias[x]
  BY DEF Redirect, Put
<1> HIDE DEF rt, pt, al, e
<1>4. Tables(d)
  BY DEF Placements
<1>5. Tables(e)
  BY <1>1, <1>4 DEF Tables, Fields
<1>6. e.root = rt /\ e.parent = pt /\ e.alias = al /\ e.disowned = d.disowned
  BY <1>1, <1>4 DEF Tables, Fields
<1> QED  BY <1>2, <1>3, <1>5, <1>6 DEF e

\* What removing a project does to the rows that refer to it.
Unrefers(d, f, id, s) ==
    /\ \A x \in DOMAIN f.root :
         \/ f.root[x] = s /\ s # None
         \/ d.root[x] # id /\ f.root[x] = d.root[x]
    /\ DOMAIN f.root \subseteq DOMAIN d.root
    /\ \A x \in DOMAIN f.parent :
         \/ f.parent[x] = s /\ s # None
         \/ d.parent[x] # id /\ f.parent[x] = d.parent[x]
    /\ DOMAIN f.parent \subseteq DOMAIN d.parent
    /\ \A x \in DOMAIN f.alias :
         \/ f.alias[x] = s /\ s # None
         \/ x \in DOMAIN d.alias /\ d.alias[x] # id /\ f.alias[x] = d.alias[x]
    /\ \A x \in DOMAIN d.alias : x \in DOMAIN f.alias \/ (s = None /\ d.alias[x] = id) \/ x = id
    /\ s # None => DOMAIN f.alias = DOMAIN d.alias \cup {id}
    /\ f.disowned \subseteq DOMAIN f.root

\* The rows of a project without a successor go.
LEMMA ProjectErased ==
    ASSUME NEW d, NEW id, Placements(d), Live(d, id)
    PROVE  Tables(ErasedProject(d, id)) /\ Unrefers(d, ErasedProject(d, id), id, None)
<1> DEFINE e == ErasedProject(d, id)
           rt == Drop(d.root, RowsOf(d.root, id))
           pt == Drop(d.parent, RowsOf(d.parent, id))
           al == Drop(d.alias, RowsOf(d.alias, id) \cup {id})
           dn == d.disowned \ RowsOf(d.root, id)
<1>1. e = [d EXCEPT !.root = rt, !.disowned = dn, !.parent = pt, !.alias = al]
  BY DEF ErasedProject
<1>2. /\ \A x : x \in DOMAIN rt <=> x \in DOMAIN d.root /\ d.root[x] # id
      /\ \A x \in DOMAIN rt : rt[x] = d.root[x]
      /\ \A x : x \in DOMAIN pt <=> x \in DOMAIN d.parent /\ d.parent[x] # id
      /\ \A x \in DOMAIN pt : pt[x] = d.parent[x]
      /\ \A x : x \in DOMAIN al <=> x \in DOMAIN d.alias /\ d.alias[x] # id /\ x # id
      /\ \A x \in DOMAIN al : al[x] = d.alias[x]
  BY DEF Drop, RowsOf
<1>3. dn \subseteq DOMAIN rt
  BY DEF Drop, Placements, Refs
<1> HIDE DEF rt, pt, al, dn, e
<1>4. Tables(d)
  BY DEF Placements
<1>5. Tables(e)
  BY <1>1, <1>4 DEF Tables, Fields
<1>6. e.root = rt /\ e.parent = pt /\ e.alias = al /\ e.disowned = dn
  BY <1>1, <1>4 DEF Tables, Fields
<1>7. Unrefers(d, e, id, None)
  BY <1>2, <1>3, <1>6 DEF Unrefers
<1> QED  BY <1>5, <1>7 DEF e

\* Either way no row refers to the project any more.
LEMMA ProjectUnreferred ==
    ASSUME NEW d, NEW id, Placements(d), Live(d, id),
           NEW s, s # None => s # id /\ Live(d, s)
    PROVE  LET f == IF s = None THEN ErasedProject(d, id) ELSE MergedProject(d, id, s) IN
           /\ Tables(f) /\ Unrefers(d, f, id, s)
           /\ f.project = d.project /\ f.workspace = d.workspace /\ f.wsroot = d.wsroot
           /\ f.place = d.place /\ f.member = d.member
           /\ f.agent = d.agent /\ f.claim = d.claim
<1>0. Tables(d)
  BY DEF Placements
<1>1. CASE s = None
  <2> DEFINE f == ErasedProject(d, id)
  <2>1. Tables(f) /\ Unrefers(d, f, id, s)
    BY <1>1, ProjectErased
  <2>2. /\ f.project = d.project /\ f.workspace = d.workspace /\ f.wsroot = d.wsroot
        /\ f.place = d.place /\ f.member = d.member
        /\ f.agent = d.agent /\ f.claim = d.claim
    BY <1>0 DEF ErasedProject, Tables, Fields
  <2> QED  BY <1>1, <2>1, <2>2
<1>2. CASE s # None
  <2> DEFINE f == MergedProject(d, id, s)
  <2>0. s # id /\ Live(d, s)
    BY <1>2
  <2>1. /\ Tables(f)
        /\ DOMAIN f.root = DOMAIN d.root
        /\ \A x \in DOMAIN d.root : f.root[x] = IF d.root[x] = id THEN s ELSE d.root[x]
        /\ DOMAIN f.parent = DOMAIN d.parent
        /\ \A x \in DOMAIN d.parent : f.parent[x] = IF d.parent[x] = id THEN s ELSE d.parent[x]
        /\ DOMAIN f.alias = DOMAIN d.alias \cup {id}
        /\ \A x \in DOMAIN f.alias :
             \/ f.alias[x] = s
             \/ x \in DOMAIN d.alias /\ d.alias[x] # id /\ f.alias[x] = d.alias[x]
        /\ f.disowned = d.disowned
    BY <2>0, ProjectMerged
  <2>2. /\ f.project = d.project /\ f.workspace = d.workspace /\ f.wsroot = d.wsroot
        /\ f.place = d.place /\ f.member = d.member
        /\ f.agent = d.agent /\ f.claim = d.claim
    BY <1>0 DEF MergedProject, Tables, Fields
  <2> HIDE DEF f
  <2>3. d.disowned \subseteq DOMAIN d.root
    BY DEF Placements, Refs
  <2>4. Unrefers(d, f, id, s)
    BY <1>2, <2>0, <2>1, <2>3 DEF Unrefers
  <2> QED  BY <1>2, <2>1, <2>2, <2>4 DEF f
<1> QED  BY <1>1, <1>2

\* Removing a project to which no live agent is bound.
LEMMA ProjectRemoved ==
    ASSUME NEW d, NEW A, NEW id, Placements(d), Identified(d, A), Live(d, id),
           ProjectUnbound(d, id), NEW s, s # None => s # id /\ Live(d, s)
    PROVE  LET e == RemovedProject(d, id, s) IN
           /\ Placements(e) /\ Identified(e, A)
           /\ DOMAIN e.project = DOMAIN d.project \ {id}
           /\ \A x \in DOMAIN d.alias : x \in DOMAIN e.alias \/ (s = None /\ d.alias[x] = id)
                                          \/ x = id
           /\ s # None => Reachable(d) \subseteq Reachable(e)
           /\ e.agent = d.agent
<1> DEFINE f == IF s = None THEN ErasedProject(d, id) ELSE MergedProject(d, id, s)
           e == RemovedProject(d, id, s)
<1>0. Tables(d) /\ Keys(d) /\ Refs(d) /\ Members(d)
  BY DEF Placements
<1>1. /\ Tables(f) /\ Unrefers(d, f, id, s)
      /\ f.project = d.project /\ f.workspace = d.workspace /\ f.wsroot = d.wsroot
      /\ f.place = d.place /\ f.member = d.member
      /\ f.agent = d.agent /\ f.claim = d.claim
  BY ProjectUnreferred
<1>2. e = [f EXCEPT !.place = Drop(@, {id}), !.member = {m \in @ : m[2] # id},
                    !.project = Drop(@, {id})]
  BY DEF RemovedProject
<1> HIDE DEF e, f
<1>3. Tables(e)
  BY <1>1, <1>2 DEF Tables, Fields
<1>4. /\ e.root = f.root /\ e.parent = f.parent /\ e.alias = f.alias
      /\ e.disowned = f.disowned /\ e.workspace = d.workspace /\ e.wsroot = d.wsroot
      /\ e.agent = d.agent /\ e.claim = d.claim
      /\ e.place = Drop(d.place, {id}) /\ e.project = Drop(d.project, {id})
      /\ e.member = {m \in d.member : m[2] # id}
  BY <1>1, <1>2 DEF Tables, Fields
<1>5. /\ DOMAIN e.project = DOMAIN d.project \ {id}
      /\ DOMAIN e.place = DOMAIN d.place \ {id}
      /\ \A x \in DOMAIN e.place : e.place[x] = d.place[x]
  BY <1>4 DEF Drop
<1>6. Keys(e)
  BY <1>0, <1>1, <1>4, <1>5 DEF Keys, Unrefers
<1>7. Refs(e)
  <2>1. id \in DOMAIN d.project /\ (s # None => s # id /\ s \in DOMAIN d.project)
    BY DEF Live
  <2>3. /\ \A x \in DOMAIN d.root : d.root[x] \in DOMAIN d.project
        /\ \A x \in DOMAIN d.parent : d.parent[x] \in DOMAIN d.project
        /\ \A x \in DOMAIN d.alias : d.alias[x] \in DOMAIN d.project
    BY <1>0 DEF Refs, Live
  <2>4. \A x \in DOMAIN e.root : Live(e, e.root[x])
    BY <1>1, <1>4, <1>5, <2>1, <2>3 DEF Unrefers, Live
  <2>5. \A x \in DOMAIN e.parent : Live(e, e.parent[x])
    BY <1>1, <1>4, <1>5, <2>1, <2>3 DEF Unrefers, Live
  <2>6. \A x \in DOMAIN e.alias : Live(e, e.alias[x])
    BY <1>1, <1>4, <1>5, <2>1, <2>3 DEF Unrefers, Live
  <2>7. \A x \in DOMAIN e.place : Live(e, x) /\ e.place[x] \in e.workspace
    BY <1>0, <1>4, <1>5 DEF Refs, Live
  <2>8. DOMAIN e.wsroot \subseteq e.workspace /\ e.disowned \subseteq DOMAIN e.root
    BY <1>0, <1>1, <1>4 DEF Refs, Unrefers
  <2> QED  BY <2>4, <2>5, <2>6, <2>7, <2>8 DEF Refs
<1>8. Members(e)
  <2> SUFFICES ASSUME NEW m
               PROVE  m \in e.member <=> \E x \in DOMAIN e.place : m = <<e.place[x], x>>
    BY DEF Members
  <2>1. ASSUME m \in e.member PROVE \E x \in DOMAIN e.place : m = <<e.place[x], x>>
    <3>1. m \in d.member /\ m[2] # id
      BY <1>4, <2>1
    <3>2. PICK x \in DOMAIN d.place : m = <<d.place[x], x>>
      BY <1>0, <3>1 DEF Members
    <3> QED  BY <1>5, <3>1, <3>2
  <2>2. ASSUME NEW x \in DOMAIN e.place, m = <<e.place[x], x>> PROVE m \in e.member
    <3>1. x \in DOMAIN d.place /\ x # id /\ m = <<d.place[x], x>>
      BY <1>5, <2>2
    <3> QED  BY <1>0, <1>4, <3>1 DEF Members
  <2> QED  BY <2>1, <2>2
<1>9. Identified(e, A)
  <2>1. \A g \in LiveAgents(d) : d.agent[g].project # id
    BY DEF ProjectUnbound
  <2> QED  BY <1>4, <1>5, <2>1, SameAgents DEF Live
<1>10. Placements(e)
  BY <1>3, <1>6, <1>7, <1>8 DEF Placements
<1>11. /\ \A x \in DOMAIN d.alias : x \in DOMAIN e.alias \/ (s = None /\ d.alias[x] = id)
                                      \/ x = id
       /\ s # None => Reachable(d) \subseteq Reachable(e)
  BY <1>1, <1>4, <1>5 DEF Unrefers, Reachable
<1> QED  BY <1>4, <1>5, <1>9, <1>10, <1>11 DEF e

\* Adding a root to a project.
LEMMA RootAdded ==
    ASSUME NEW d, NEW A, NEW id, Placements(d), Identified(d, A), Live(d, id), NEW p \in Paths
    PROVE  /\ Placements(apply_add_root(d, id, p)) /\ Identified(apply_add_root(d, id, p), A)
           /\ Reachable(d) \subseteq Reachable(apply_add_root(d, id, p))
           /\ apply_add_root(d, id, p).agent = d.agent
<1> DEFINE e == apply_add_root(d, id, p)
<1>0. Tables(d) /\ Keys(d) /\ Refs(d) /\ Members(d)
  BY DEF Placements
<1>1. /\ Tables(e)
      /\ e.project = d.project /\ e.parent = d.parent
      /\ e.root = Put(d.root, p, id) /\ e.alias = AddNew(d.alias, {Implicit(p)}, id)
      /\ e.disowned = d.disowned /\ e.workspace = d.workspace /\ e.wsroot = d.wsroot
      /\ e.place = d.place /\ e.member = d.member
      /\ e.agent = d.agent /\ e.claim = d.claim
  <2>1. Tables(e)
    BY <1>0 DEF Tables, Fields, apply_add_root
  <2> QED  BY <1>0, <2>1 DEF Tables, Fields, apply_add_root
<1> HIDE DEF e
<1>2. /\ DOMAIN e.root = DOMAIN d.root \cup {p}
      /\ \A x \in DOMAIN e.root : e.root[x] = id \/ (x \in DOMAIN d.root /\ e.root[x] = d.root[x])
      /\ DOMAIN d.alias \subseteq DOMAIN e.alias
      /\ \A x \in DOMAIN e.alias :
           e.alias[x] = id \/ (x \in DOMAIN d.alias /\ e.alias[x] = d.alias[x])
  BY <1>1 DEF Put, AddNew
<1>3. Keys(e)
  BY <1>0, <1>1, <1>2 DEF Keys
<1>4. Refs(e)
  BY <1>0, <1>1, <1>2 DEF Refs, Live
<1>5. Members(e)
  BY <1>0, <1>1 DEF Members
<1>6. Identified(e, A)
  BY <1>1, SameAgentsGrown
<1> QED  BY <1>1, <1>2, <1>3, <1>4, <1>5, <1>6 DEF e, Reachable, Placements

\* The implicit id of a root goes with the root.
LEMMA RootRemoved ==
    ASSUME NEW d, NEW A, NEW id, Placements(d), Identified(d, A), NEW p
    PROVE  /\ Placements(apply_remove_root(d, id, p)) /\ Identified(apply_remove_root(d, id, p), A)
           /\ apply_remove_root(d, id, p).project = d.project
           /\ \A x \in DOMAIN d.alias : x \in DOMAIN apply_remove_root(d, id, p).alias
                                          \/ x = Implicit(p)
           /\ apply_remove_root(d, id, p).agent = d.agent
<1> DEFINE e == apply_remove_root(d, id, p)
<1>0. Tables(d) /\ Keys(d) /\ Refs(d) /\ Members(d)
  BY DEF Placements
<1>1. /\ Tables(e)
      /\ e.project = d.project /\ e.parent = d.parent
      /\ e.root = Drop(d.root, {p}) /\ e.disowned = d.disowned \ {p}
      /\ e.alias = Drop(d.alias, RowsOf(d.alias, id) \cap {Implicit(p)})
      /\ e.workspace = d.workspace /\ e.wsroot = d.wsroot
      /\ e.place = d.place /\ e.member = d.member
      /\ e.agent = d.agent /\ e.claim = d.claim
  <2>1. Tables(e)
    BY <1>0 DEF Tables, Fields, apply_remove_root
  <2> QED  BY <1>0, <2>1 DEF Tables, Fields, apply_remove_root
<1> HIDE DEF e
<1>2. /\ DOMAIN e.root = DOMAIN d.root \ {p}
      /\ \A x \in DOMAIN e.root : e.root[x] = d.root[x]
      /\ DOMAIN e.alias \subseteq DOMAIN d.alias
      /\ \A x \in DOMAIN e.alias : e.alias[x] = d.alias[x]
      /\ \A x \in DOMAIN d.alias : x \in DOMAIN e.alias \/ x = Implicit(p)
  BY <1>1 DEF Drop
<1>3. Keys(e)
  BY <1>0, <1>1, <1>2 DEF Keys
<1>4. Refs(e)
  BY <1>0, <1>1, <1>2 DEF Refs, Live
<1>5. Members(e)
  BY <1>0, <1>1 DEF Members
<1>6. Identified(e, A)
  BY <1>1, SameAgentsGrown
<1> QED  BY <1>1, <1>2, <1>3, <1>4, <1>5, <1>6 DEF e, Placements

\* Overriding the ownership of a root's remote.
LEMMA RemoteOverridden ==
    ASSUME NEW d, NEW A, Placements(d), Identified(d, A), NEW p \in DOMAIN d.root, NEW owned
    PROVE  /\ Placements(apply_owned_remotes(d, p, owned))
           /\ Identified(apply_owned_remotes(d, p, owned), A)
           /\ Reachable(apply_owned_remotes(d, p, owned)) = Reachable(d)
           /\ apply_owned_remotes(d, p, owned).agent = d.agent
<1> DEFINE e == apply_owned_remotes(d, p, owned)
           dn == IF owned THEN d.disowned \ {p} ELSE d.disowned \cup {p}
<1>0. Tables(d) /\ Keys(d) /\ Refs(d) /\ Members(d)
  BY DEF Placements
<1>1. e = [d EXCEPT !.disowned = dn]
  BY DEF apply_owned_remotes
<1>2. dn \subseteq d.disowned \cup {p}
  OBVIOUS
<1> HIDE DEF e, dn
<1>3. /\ Tables(e)
      /\ e.project = d.project /\ e.root = d.root /\ e.parent = d.parent
      /\ e.alias = d.alias /\ e.disowned = dn
      /\ e.workspace = d.workspace /\ e.wsroot = d.wsroot
      /\ e.place = d.place /\ e.member = d.member
      /\ e.agent = d.agent /\ e.claim = d.claim
  <2>1. Tables(e)
    BY <1>0, <1>1 DEF Tables, Fields
  <2> QED  BY <1>0, <1>1, <2>1 DEF Tables, Fields
<1>4. Keys(e) /\ Refs(e) /\ Members(e)
  BY <1>0, <1>2, <1>3 DEF Keys, Refs, Members, Live
<1>5. Identified(e, A)
  BY <1>3, SameAgentsGrown
<1> QED  BY <1>3, <1>4, <1>5 DEF e, Reachable, Placements

\* A root leaves its project and comes back under a new one, in one transaction.
LEMMA RootMoved ==
    ASSUME NEW d, NEW A, NEW id, Placements(d), Identified(d, A), NEW p \in Paths,
           NEW name \in Names, NEW r, IsRegister(r), r.roots = {p}, r.ws = None,
           NEW e, e = ApplyRegister(apply_remove_root(d, id, p), r)
    PROVE  /\ Placements(e) /\ Identified(e, A)
           /\ ReplayRegister(apply_remove_root(d, id, p), r) = e
           /\ Reachable(d) \subseteq Reachable(e)
           /\ e.agent = d.agent
<1> DEFINE c == apply_remove_root(d, id, p)
           i == RegisterId(c, r)
<1>1. /\ Placements(c) /\ Identified(c, A) /\ c.project = d.project
      /\ \A x \in DOMAIN d.alias : x \in DOMAIN c.alias \/ x = Implicit(p)
      /\ c.agent = d.agent
  BY RootRemoved
<1>2. e = ApplyRegister(c, r)
  OBVIOUS
<1> HIDE DEF c
<1>3. /\ Grows(c, e) /\ Implied(r.roots) \subseteq DOMAIN e.alias
  BY <1>1, <1>2, RegisterGrows
<1>4. ReplayRegister(c, r) = e
  BY <1>1, <1>2, RegisterReplays DEF Placements
<1>5. Implicit(p) \in DOMAIN e.alias
  BY <1>3 DEF Implied
<1>6. e.place = c.place
  <2>0. Tables(c)
    BY <1>1 DEF Placements
  <2>1. e = Registered(c, i, r.name, r.roots, r.parents, None)
    BY <1>2 DEF ApplyRegister, Registered, WithParents
  <2> DEFINE b == WithParents(AddRoots(Named(c, i, r.name), i, r.roots), i, r.parents)
  <2>2. e = b
    BY <2>1 DEF Registered, Placed
  <2>3. b = WithParents(AddRoots(Named(c, i, r.name), i, r.roots), i, r.parents)
    OBVIOUS
  <2> HIDE DEF b, i
  <2>4. b.place = c.place
    BY <2>0, <2>3, RegisterTables
  <2> QED  BY <2>2, <2>4
<1>7. Identified(e, A)
  BY <1>1, <1>3, <1>6, SameAgentsGrown DEF Grows
<1>8. Reachable(d) \subseteq Reachable(e)
  BY <1>1, <1>3, <1>5 DEF Reachable, Grows
<1> QED  BY <1>1, <1>3, <1>4, <1>7, <1>8 DEF c, Grows
-----------------------------------------------------------------------------
(* The writes of agents. *)

\* g's row and claim are replaced, and nothing else.
AgentTables(d, e, g, row, claim) ==
    /\ Tables(e) /\ SamePlacements(d, e)
    /\ DOMAIN e.agent = DOMAIN d.agent \cup {g}
    /\ e.agent[g] = row
    /\ \A h \in DOMAIN d.agent : h # g => e.agent[h] = d.agent[h]
    /\ claim = None => DOMAIN e.claim = DOMAIN d.claim \ {g}
    /\ claim # None => DOMAIN e.claim = DOMAIN d.claim \cup {g} /\ e.claim[g] = claim
    /\ \A h \in DOMAIN d.claim : h # g => e.claim[h] = d.claim[h]

\* Writing an agent replaces its row and claim.
LEMMA AgentWritten ==
    ASSUME NEW d, Tables(d), NEW g, NEW row, NEW claim
    PROVE  AgentTables(d, WithAgent(d, g, row, claim), g, row, claim)
<1> DEFINE e  == WithAgent(d, g, row, claim)
           ag == Put(d.agent, g, row)
           cl == IF claim = None THEN Drop(d.claim, {g}) ELSE Put(d.claim, g, claim)
<1>1. e = [d EXCEPT !.agent = ag, !.claim = cl]
  BY DEF WithAgent
<1>2. /\ DOMAIN ag = DOMAIN d.agent \cup {g} /\ ag[g] = row
      /\ \A h \in DOMAIN d.agent : h # g => ag[h] = d.agent[h]
  BY DEF Put
<1>3. /\ claim = None => DOMAIN cl = DOMAIN d.claim \ {g}
      /\ claim # None => DOMAIN cl = DOMAIN d.claim \cup {g} /\ cl[g] = claim
      /\ \A h \in DOMAIN d.claim : h # g => cl[h] = d.claim[h]
  BY DEF Put, Drop
<1> HIDE DEF e, ag, cl
<1>4. Tables(e)
  BY <1>1 DEF Tables, Fields
<1>5. SamePlacements(d, e) /\ e.agent = ag /\ e.claim = cl
  BY <1>1 DEF Tables, Fields, SamePlacements
<1> QED  BY <1>2, <1>3, <1>4, <1>5 DEF e, AgentTables

\* Writes of agents leave projects and workspaces alone.
LEMMA AgentPlacements ==
    ASSUME NEW d, Placements(d), NEW e, Tables(e), SamePlacements(d, e)
    PROVE  Placements(e) /\ Reachable(e) = Reachable(d)
  BY DEF Placements, SamePlacements, Keys, Refs, Members, Live, Reachable

\* What a live row and its claim must be.
Fits(d, A, g, row, claim) ==
    /\ DOMAIN row = RowFields /\ row.status = "live"
    /\ claim \in Claims /\ claim.name = row.name
    /\ ~NameTaken(d, claim.ns, claim.name, g)
    /\ row.role = "head" => \A h \in LiveAgents(d) \ {g} :
                              ~(d.agent[h].role = "head" /\ d.agent[h].project = row.project)
    /\ row.project # None => Live(d, row.project)
    /\ row.role = "workspace_head" => row.ws \in d.workspace
    /\ row.role \in {"head", "hiree"} => Live(d, row.project)
    /\ row.role \in {"head", "hiree"} /\ g \notin A =>
         /\ row.ws = None /\ row.project \in DOMAIN d.place
         /\ claim.ns = d.place[row.project]

\* No claim is None.
LEMMA NoClaimIsNone == None \notin Claims
  BY RegistryNone DEF Claims

\* A live agent that fits may be written.
LEMMA AgentHolds ==
    ASSUME NEW d, NEW A, Placements(d), Identified(d, A), NEW g \in Agents, NEW row, NEW claim,
           Fits(d, A, g, row, claim), NEW e, AgentTables(d, e, g, row, claim)
    PROVE  Identified(e, A)
<1>0. Rows(d) /\ Unique(d) /\ Bound(d) /\ OnPlacement(d, A)
  BY DEF Identified
<1>1. claim # None /\ claim \in Claims
  BY NoClaimIsNone DEF Fits
<1>2. /\ DOMAIN e.agent = DOMAIN d.agent \cup {g} /\ e.agent[g] = row
      /\ \A h \in DOMAIN d.agent : h # g => e.agent[h] = d.agent[h]
      /\ DOMAIN e.claim = DOMAIN d.claim \cup {g} /\ e.claim[g] = claim
      /\ \A h \in DOMAIN d.claim : h # g => e.claim[h] = d.claim[h]
      /\ SamePlacements(d, e)
  BY <1>1 DEF AgentTables
<1>3. /\ DOMAIN d.claim = LiveAgents(d) /\ LiveAgents(d) \subseteq DOMAIN d.agent
      /\ Staff(d) \subseteq LiveAgents(d)
  BY <1>0 DEF Rows, LiveAgents, Staff
<1>4. LiveAgents(e) = LiveAgents(d) \cup {g}
  BY <1>2 DEF LiveAgents, Fits
<1>5. \A h \in Staff(e) : h = g \/ h \in Staff(d)
  BY <1>2, <1>3, <1>4 DEF Staff
<1>6. Rows(e)
  <2>1. DOMAIN e.agent \subseteq Agents /\ DOMAIN e.claim = LiveAgents(e)
    BY <1>0, <1>2, <1>3, <1>4 DEF Rows
  <2>2. \A h \in DOMAIN e.agent : DOMAIN e.agent[h] = RowFields
    BY <1>0, <1>2 DEF Rows, Fits
  <2>3. \A h \in DOMAIN e.claim : e.claim[h] \in Claims /\ e.claim[h].name = e.agent[h].name
    BY <1>0, <1>1, <1>2, <1>3 DEF Rows, Fits
  <2> QED  BY <2>1, <2>2, <2>3 DEF Rows
<1>7. ASSUME NEW h \in LiveAgents(d), h # g
      PROVE  /\ e.claim[h] # e.claim[g]
             /\ ~(/\ e.agent[h].role = "head" /\ e.agent[g].role = "head"
                  /\ e.agent[h].project = e.agent[g].project)
  <2>1. claim = [ns |-> claim.ns, name |-> claim.name]
    BY <1>1 DEF Claims
  <2>2. d.claim[h] # claim
    BY <1>3, <1>7, <2>1 DEF NameTaken, Fits
  <2>3. ~(/\ d.agent[h].role = "head" /\ row.role = "head"
          /\ d.agent[h].project = row.project)
    BY <1>7 DEF Fits
  <2> QED  BY <1>2, <1>3, <1>7, <2>2, <2>3
<1>8. ASSUME NEW h \in LiveAgents(d), NEW k \in LiveAgents(d), h # k, h # g, k # g
      PROVE  /\ e.claim[h] # e.claim[k]
             /\ ~(/\ e.agent[h].role = "head" /\ e.agent[k].role = "head"
                  /\ e.agent[h].project = e.agent[k].project)
  BY <1>0, <1>2, <1>3, <1>8 DEF Unique
<1>9. Unique(e)
  BY <1>4, <1>7, <1>8 DEF Unique
<1>10. Bound(e)
  <2>1. /\ row.project # None => Live(e, row.project)
        /\ row.role = "workspace_head" => row.ws \in e.workspace
        /\ row.role \in {"head", "hiree"} => Live(e, row.project)
    BY <1>2 DEF Fits, SamePlacements, Live
  <2>2. \A h \in LiveAgents(d) :
          /\ d.agent[h].project # None => Live(e, d.agent[h].project)
          /\ d.agent[h].role = "workspace_head" => d.agent[h].ws \in e.workspace
    BY <1>0, <1>2 DEF Bound, SamePlacements, Live
  <2>3. \A h \in Staff(d) : Live(e, d.agent[h].project)
    BY <1>0, <1>2 DEF Bound, SamePlacements, Live
  <2>4. g \in Staff(e) => row.role \in {"head", "hiree"}
    BY <1>2 DEF Staff
  <2> QED  BY <1>2, <1>3, <1>4, <1>5, <2>1, <2>2, <2>3, <2>4 DEF Bound
<1>11. OnPlacement(e, A)
  <2> SUFFICES ASSUME NEW h \in Staff(e) \ A
               PROVE  /\ e.agent[h].ws = None
                      /\ e.agent[h].project \in DOMAIN e.place
                      /\ e.claim[h].ns = e.place[e.agent[h].project]
    BY DEF OnPlacement
  <2>1. CASE h = g
    <3>1. row.role \in {"head", "hiree"}
      BY <1>2, <2>1 DEF Staff
    <3> QED  BY <1>2, <2>1, <3>1 DEF Fits, SamePlacements
  <2>2. CASE h # g
    <3>1. h \in Staff(d) \ A
      BY <1>5, <2>2
    <3> QED  BY <1>0, <1>2, <1>3, <2>2, <3>1 DEF OnPlacement, SamePlacements
  <2> QED  BY <2>1, <2>2
<1> QED  BY <1>6, <1>9, <1>10, <1>11 DEF Identified

\* An agent that is gone releases its name.
LEMMA AgentReleases ==
    ASSUME NEW d, NEW A, Placements(d), Identified(d, A), NEW g \in Agents, NEW row,
           DOMAIN row = RowFields, row.status # "live",
           NEW e, AgentTables(d, e, g, row, None)
    PROVE  Identified(e, A)
<1>0. Rows(d) /\ Unique(d) /\ Bound(d) /\ OnPlacement(d, A)
  BY DEF Identified
<1>2. /\ DOMAIN e.agent = DOMAIN d.agent \cup {g} /\ e.agent[g] = row
      /\ \A h \in DOMAIN d.agent : h # g => e.agent[h] = d.agent[h]
      /\ DOMAIN e.claim = DOMAIN d.claim \ {g}
      /\ \A h \in DOMAIN d.claim : h # g => e.claim[h] = d.claim[h]
      /\ SamePlacements(d, e)
  BY DEF AgentTables
<1>3. /\ DOMAIN d.claim = LiveAgents(d) /\ LiveAgents(d) \subseteq DOMAIN d.agent
      /\ Staff(d) \subseteq LiveAgents(d)
  BY <1>0 DEF Rows, LiveAgents, Staff
<1>4. LiveAgents(e) = LiveAgents(d) \ {g}
  BY <1>2 DEF LiveAgents
<1>5. Staff(e) \subseteq Staff(d) \ {g}
  BY <1>2, <1>3, <1>4 DEF Staff
<1>6. Rows(e)
  <2>1. DOMAIN e.agent \subseteq Agents /\ DOMAIN e.claim = LiveAgents(e)
    BY <1>0, <1>2, <1>3, <1>4 DEF Rows
  <2>2. \A h \in DOMAIN e.agent : DOMAIN e.agent[h] = RowFields
    BY <1>0, <1>2 DEF Rows
  <2>3. \A h \in DOMAIN e.claim : e.claim[h] \in Claims /\ e.claim[h].name = e.agent[h].name
    BY <1>0, <1>2, <1>3 DEF Rows
  <2> QED  BY <2>1, <2>2, <2>3 DEF Rows
<1>7. Unique(e)
  BY <1>0, <1>2, <1>3, <1>4 DEF Unique
<1>8. Bound(e)
  <2>1. \A h \in LiveAgents(d) :
          /\ d.agent[h].project # None => Live(e, d.agent[h].project)
          /\ d.agent[h].role = "workspace_head" => d.agent[h].ws \in e.workspace
    BY <1>0, <1>2 DEF Bound, SamePlacements, Live
  <2>2. \A h \in Staff(d) : Live(e, d.agent[h].project)
    BY <1>0, <1>2 DEF Bound, SamePlacements, Live
  <2> QED  BY <1>2, <1>3, <1>4, <1>5, <2>1, <2>2 DEF Bound
<1>9. OnPlacement(e, A)
  BY <1>0, <1>2, <1>3, <1>5 DEF OnPlacement, SamePlacements
<1> QED  BY <1>6, <1>7, <1>8, <1>9 DEF Identified
-----------------------------------------------------------------------------
(* The correction of imported rows. *)

\* The correction moves every live head or hiree that is not on its placement.
LEMMA PlanRepair ==
    ASSUME NEW d, NEW moves, moves = plan_repair(d),
           \A g \in Staff(d) : d.agent[g].project \in DOMAIN d.place
    PROVE  /\ DOMAIN moves \subseteq Staff(d)
           /\ \A g \in DOMAIN moves : moves[g] = d.place[d.agent[g].project]
           /\ \A g \in Staff(d) \ DOMAIN moves :
                d.agent[g].ws = None /\ d.claim[g].ns = d.place[d.agent[g].project]
<1>1. /\ \A g : g \in DOMAIN moves <=>
           /\ g \in Staff(d)
           /\ \/ d.agent[g].ws # None
              \/ /\ d.agent[g].project \in DOMAIN d.place
                 /\ d.claim[g].ns # d.place[d.agent[g].project]
      /\ \A g \in DOMAIN moves : moves[g] = d.place[d.agent[g].project]
  BY DEF plan_repair
<1> QED  BY <1>1

ClearedRow(row) ==
    IF row.status # "live" /\ row.role \in {"head", "hiree"} THEN [row EXCEPT !.ws = None]
    ELSE row

Cleared(d, e) ==
    /\ Tables(e) /\ SamePlacements(d, e) /\ e.claim = d.claim
    /\ Keyed(e.agent, DOMAIN d.agent)
    /\ \A g \in DOMAIN d.agent : e.agent[g] = ClearedRow(d.agent[g])

\* Clearing the rows of agents that are gone.
LEMMA GoneCleared ==
    ASSUME NEW d, Tables(d)
    PROVE  Cleared(d, ClearGone(d))
<1> DEFINE e  == ClearGone(d)
           ag == [g \in DOMAIN d.agent |-> ClearedRow(d.agent[g])]
<1>1. e = [d EXCEPT !.agent = ag]
  BY DEF ClearGone, ClearedRow
<1>2. /\ ag = [g \in DOMAIN d.agent |-> ag[g]]
      /\ \A g \in DOMAIN d.agent : ag[g] = ClearedRow(d.agent[g])
  OBVIOUS
<1> HIDE DEF ag, e
<1>3. Tables(e)
  BY <1>1 DEF Tables, Fields
<1>4. SamePlacements(d, e) /\ e.agent = ag /\ e.claim = d.claim
  BY <1>1 DEF Tables, Fields, SamePlacements
<1> QED  BY <1>2, <1>3, <1>4 DEF e, Cleared, Keyed

\* A live row is not cleared.
LEMMA LiveKept ==
    ASSUME NEW d, Rows(d), NEW e, Cleared(d, e)
    PROVE  /\ DOMAIN e.agent = DOMAIN d.agent
           /\ \A g \in DOMAIN d.agent : DOMAIN e.agent[g] = RowFields
           /\ LiveAgents(e) = LiveAgents(d) /\ Staff(e) = Staff(d)
           /\ \A g \in LiveAgents(d) : e.agent[g] = d.agent[g]
<1>1. DOMAIN e.agent = DOMAIN d.agent
  BY DEF Cleared, Keyed
<1>2. ASSUME NEW g \in DOMAIN d.agent
      PROVE  /\ DOMAIN e.agent[g] = RowFields
             /\ e.agent[g].status = d.agent[g].status
             /\ d.agent[g].status = "live" => e.agent[g] = d.agent[g]
  <2>1. DOMAIN d.agent[g] = RowFields /\ e.agent[g] = ClearedRow(d.agent[g])
    BY DEF Rows, Cleared
  <2> QED  BY <2>1 DEF ClearedRow, RowFields
<1>3. LiveAgents(e) = LiveAgents(d)
  BY <1>1, <1>2 DEF LiveAgents
<1>4. \A g \in LiveAgents(d) : e.agent[g] = d.agent[g]
  BY <1>2 DEF LiveAgents
<1> QED  BY <1>1, <1>2, <1>3, <1>4 DEF Staff

\* The correction, as a whole: nothing is off its placement, and it replays.
LEMMA Repaired ==
    ASSUME NEW d, NEW A, Placements(d), Identified(d, A),
           \A g \in Staff(d) : d.agent[g].project \in DOMAIN d.place,
           NEW moves, moves = plan_repair(d), check_names(d, moves),
           NEW f, f = ClearGone(apply_moves(d, moves)),
           NEW S, S = {g \in DOMAIN d.agent : f.agent[g] # d.agent[g] \/ g \in DOMAIN moves}
    PROVE  /\ Placements(f) /\ Identified(f, {})
           /\ Reachable(f) = Reachable(d) /\ DOMAIN f.agent = DOMAIN d.agent
           /\ replay_moves(d, Images(f, S)) = f
<1> DEFINE e == apply_moves(d, moves)
<1>0. /\ Rows(d) /\ Unique(d) /\ Bound(d)
      /\ Tables(d) /\ Keys(d) /\ Refs(d)
  BY DEF Identified, Placements
<1>1. /\ DOMAIN moves \subseteq Staff(d)
      /\ \A g \in DOMAIN moves : moves[g] = d.place[d.agent[g].project]
      /\ \A g \in Staff(d) \ DOMAIN moves :
           d.agent[g].ws = None /\ d.claim[g].ns = d.place[d.agent[g].project]
  BY PlanRepair
<1>2. \A g \in DOMAIN moves : moves[g] \in Workspaces
  BY <1>0, <1>1 DEF Refs, Keys
<1>3. Staff(d) \subseteq LiveAgents(d) /\ LiveAgents(d) \subseteq DOMAIN d.agent
  BY DEF Staff, LiveAgents
<1>4. MovedTables(d, e, moves)
  BY <1>0, MovesTables
<1>5. f = ClearGone(e)
  OBVIOUS
<1> HIDE DEF e
<1>6. Moved(d, e, moves)
  BY <1>0, <1>2, <1>4, MovesMove
<1>7. Rows(e) /\ Unique(e)
  BY <1>0, <1>1, <1>3, <1>6, MovedUnique
<1>8. Tables(e) /\ SamePlacements(d, e)
  BY <1>4 DEF MovedTables
<1>9. Cleared(e, f)
  BY <1>5, <1>8, GoneCleared
<1>10. /\ DOMAIN f.agent = DOMAIN e.agent
       /\ \A g \in DOMAIN e.agent : DOMAIN f.agent[g] = RowFields
       /\ LiveAgents(f) = LiveAgents(e) /\ Staff(f) = Staff(e)
       /\ \A g \in LiveAgents(e) : f.agent[g] = e.agent[g]
  BY <1>7, <1>9, LiveKept
<1>11. Tables(f) /\ SamePlacements(d, f) /\ f.claim = e.claim
  BY <1>8, <1>9 DEF Cleared, SamePlacements
<1>12. Placements(f) /\ Reachable(f) = Reachable(d)
  BY <1>11, AgentPlacements
<1>13. /\ LiveAgents(e) = LiveAgents(d) /\ Staff(e) = Staff(d)
       /\ DOMAIN e.agent = DOMAIN d.agent
       /\ \A g \in LiveAgents(d) :
            /\ f.agent[g].role = d.agent[g].role /\ f.agent[g].project = d.agent[g].project
            /\ f.agent[g].name = d.agent[g].name
            /\ f.agent[g].ws = IF g \in DOMAIN moves THEN None ELSE d.agent[g].ws
            /\ f.claim[g].ns = IF g \in DOMAIN moves THEN moves[g] ELSE d.claim[g].ns
  BY <1>0, <1>3, <1>6, <1>10, <1>11 DEF Moved, Rows
<1>14. Rows(f)
  <2>1. DOMAIN f.agent \subseteq Agents /\ DOMAIN f.claim = LiveAgents(f)
    BY <1>7, <1>10, <1>11 DEF Rows
  <2>2. \A g \in DOMAIN f.claim : f.claim[g] \in Claims /\ f.claim[g].name = f.agent[g].name
    BY <1>7, <1>10, <1>11 DEF Rows
  <2> QED  BY <1>10, <2>1, <2>2 DEF Rows
<1>15. Unique(f)
  BY <1>7, <1>10, <1>11 DEF Unique
<1>16. Bound(f)
  <2>1. \A g \in LiveAgents(d) : g \in DOMAIN moves => d.agent[g].role \in {"head", "hiree"}
    BY <1>1 DEF Staff
  <2> QED  BY <1>0, <1>3, <1>10, <1>11, <1>13, <2>1 DEF Bound, SamePlacements, Live
<1>17. OnPlacement(f, {})
  <2> SUFFICES ASSUME NEW g \in Staff(f)
               PROVE  /\ f.agent[g].ws = None
                      /\ f.agent[g].project \in DOMAIN f.place
                      /\ f.claim[g].ns = f.place[f.agent[g].project]
    BY DEF OnPlacement
  <2>1. g \in Staff(d) /\ g \in LiveAgents(d) /\ f.place = d.place
    BY <1>3, <1>10, <1>11, <1>13 DEF SamePlacements
  <2> QED  BY <1>1, <1>13, <2>1
<1>18. Touches(d, f, S)
  <2>1. Touches(d, e, DOMAIN moves)
    BY <1>4, MovesTouch
  <2>2. Keyed(f.claim, DOMAIN d.claim)
    BY <1>11, <2>1 DEF Touches
  <2>3. Keyed(f.agent, DOMAIN d.agent)
    BY <1>9, <1>13 DEF Cleared
  <2>4. \A g \in DOMAIN d.agent \ S : f.agent[g] = d.agent[g]
    OBVIOUS
  <2>5. DOMAIN moves \subseteq S
    BY <1>1, <1>3
  <2>6. \A g \in DOMAIN d.claim \ S : f.claim[g] = d.claim[g]
    BY <1>11, <2>1, <2>5 DEF Touches
  <2> QED  BY <2>2, <2>3, <2>4, <2>6 DEF Touches
<1>19. replay_moves(d, Images(f, S)) = f
  BY <1>0, <1>11, <1>18, ImagesReplay
<1> QED  BY <1>10, <1>12, <1>13, <1>14, <1>15, <1>16, <1>17, <1>19 DEF Identified
-----------------------------------------------------------------------------
(* The steps. *)

\* What every plain write does beside the tables.
Journalled == rows < MaxRows /\ rows' = rows + 1 /\ copy' = db'
                /\ UNCHANGED <<cutover, astray, prompt>>

\* A plain write keeps the invariant when its tables do.
LEMMA JournalledKeeps ==
    ASSUME RegistryInv, Journalled, Placements(db'), Identified(db', astray),
           db'.agent = db.agent \/ cutover
    PROVE  RegistryInv'
<1>1. Placements(db)' /\ Identified(db, astray)'
  BY DEF Journalled
<1>2. MemoryInv'
  BY RegistryConstants DEF RegistryInv, MemoryInv, Journalled
<1> QED  BY <1>1, <1>2 DEF RegistryInv, Journalled

\* CreateWorkspace keeps the invariant and every id.
LEMMA CreateWorkspaceKeeps ==
    ASSUME RegistryInv, NEW w \in Workspaces, CreateWorkspace(w)
    PROVE  RegistryInv' /\ Reachable(db) \subseteq Reachable(db')
<1>1. Journalled /\ db' = AddWorkspace(db, w)
  BY DEF CreateWorkspace, Write, Journalled, RegistryInv
<1>2. /\ Placements(db') /\ Identified(db', astray)
      /\ Reachable(db') = Reachable(db) /\ db'.agent = db.agent
  BY <1>1, WorkspaceAdded DEF RegistryInv
<1> QED  BY <1>1, <1>2, JournalledKeeps

\* SetWorkspaceRoot keeps the invariant and every id.
LEMMA SetWorkspaceRootKeeps ==
    ASSUME RegistryInv, NEW w, NEW p, SetWorkspaceRoot(w, p)
    PROVE  RegistryInv' /\ Reachable(db) \subseteq Reachable(db')
<1>1. Journalled /\ db' = set_workspace_root_projection(db, w, p) /\ w \in db.workspace
  BY DEF SetWorkspaceRoot, Write, Journalled, RegistryInv
<1>2. /\ Placements(db') /\ Identified(db', astray)
      /\ Reachable(db') = Reachable(db) /\ db'.agent = db.agent
  BY <1>1, WorkspaceRootSet DEF RegistryInv
<1> QED  BY <1>1, <1>2, JournalledKeeps

\* RemoveWorkspace keeps the invariant and every id.
LEMMA RemoveWorkspaceKeeps ==
    ASSUME RegistryInv, NEW w, RemoveWorkspace(w)
    PROVE  RegistryInv' /\ Reachable(db) \subseteq Reachable(db')
<1>1. Journalled /\ db' = RemovedWorkspace(db, w) /\ WorkspaceUnbound(db, w)
  BY DEF RemoveWorkspace, ReplayRemoveWorkspace, Write, Journalled, RegistryInv
<1>2. /\ Placements(db') /\ Identified(db', astray)
      /\ Reachable(db') = Reachable(db) /\ db'.agent = db.agent
  BY <1>1, WorkspaceRemoved DEF RegistryInv
<1> QED  BY <1>1, <1>2, JournalledKeeps

\* Without a successor the ids of the project are lost, and no others.
LEMMA RemoveProjectKeeps ==
    ASSUME RegistryInv, NEW id, NEW s, RemoveProject(id, s)
    PROVE  /\ RegistryInv'
           /\ \A x \in Reachable(db) \ Reachable(db') :
                s = None /\ (x = id \/ (~Live(db, x) /\ x \in DOMAIN db.alias /\ db.alias[x] = id))
<1>1. /\ Journalled /\ db' = RemovedProject(db, id, s)
      /\ Live(db, id) /\ ProjectUnbound(db, id)
      /\ s # None => s # id /\ Live(db, s)
  BY DEF RemoveProject, ReplayRemoveProject, Write, Journalled, RegistryInv
<1>2. /\ Placements(db') /\ Identified(db', astray)
      /\ DOMAIN db'.project = DOMAIN db.project \ {id}
      /\ \A x \in DOMAIN db.alias : x \in DOMAIN db'.alias \/ (s = None /\ db.alias[x] = id)
                                      \/ x = id
      /\ s # None => Reachable(db) \subseteq Reachable(db')
      /\ db'.agent = db.agent
  BY <1>1, ProjectRemoved DEF RegistryInv
<1>3. RegistryInv'
  BY <1>1, <1>2, JournalledKeeps
<1> QED  BY <1>2, <1>3 DEF Reachable, Live

\* AddRoot keeps the invariant and every id.
LEMMA AddRootKeeps ==
    ASSUME RegistryInv, NEW id, NEW p \in Paths, AddRoot(id, p)
    PROVE  RegistryInv' /\ Reachable(db) \subseteq Reachable(db')
<1>1. Journalled /\ db' = apply_add_root(db, id, p) /\ Live(db, id)
  BY DEF AddRoot, Write, Journalled, RegistryInv
<1>2. /\ Placements(db') /\ Identified(db', astray)
      /\ Reachable(db) \subseteq Reachable(db') /\ db'.agent = db.agent
  BY <1>1, RootAdded DEF RegistryInv
<1> QED  BY <1>1, <1>2, JournalledKeeps

\* RemoveRoot loses at most the implicit id of the root.
LEMMA RemoveRootKeeps ==
    ASSUME RegistryInv, NEW p, RemoveRoot(p)
    PROVE  RegistryInv' /\ Reachable(db) \subseteq Reachable(db') \cup {Implicit(p)}
<1>1. Journalled /\ db' = apply_remove_root(db, db.root[p], p)
  BY DEF RemoveRoot, Write, Journalled, RegistryInv
<1>2. /\ Placements(db') /\ Identified(db', astray)
      /\ db'.project = db.project /\ db'.agent = db.agent
      /\ \A x \in DOMAIN db.alias : x \in DOMAIN db'.alias \/ x = Implicit(p)
  BY <1>1, RootRemoved DEF RegistryInv
<1> QED  BY <1>1, <1>2, JournalledKeeps DEF Reachable

\* MoveRootToNewProject gives the implicit id to the new project.
LEMMA MoveRootKeeps ==
    ASSUME RegistryInv, NEW p \in Paths, NEW name \in Names, MoveRootToNewProject(p, name)
    PROVE  RegistryInv' /\ Reachable(db) \subseteq Reachable(db')
<1> DEFINE r == [op |-> "register", project |-> None, name |-> name,
                 roots |-> {p}, parents |-> {}, ws |-> None]
           c == apply_remove_root(db, db.root[p], p)
           e == ApplyRegister(c, r)
<1>1. IsRegister(r) /\ r.roots = {p} /\ r.ws = None
  BY DEF IsRegister
<1>2. Placements(db) /\ Identified(db, astray) /\ copy = db
  BY DEF RegistryInv
<1>3. Write(e, ReplayRegister(c, r))
  BY <1>2 DEF MoveRootToNewProject
<1> HIDE DEF r
<1>4. /\ Placements(e) /\ Identified(e, astray)
      /\ ReplayRegister(c, r) = e
      /\ Reachable(db) \subseteq Reachable(e)
      /\ e.agent = db.agent
  BY <1>1, <1>2, RootMoved
<1> HIDE DEF e, c
<1>5. Journalled /\ db' = e
  BY <1>3, <1>4 DEF Write, Journalled
<1> QED  BY <1>4, <1>5, JournalledKeeps

\* SetOwnedRemotes keeps the invariant and every id.
LEMMA SetOwnedRemotesKeeps ==
    ASSUME RegistryInv, NEW p, NEW owned, SetOwnedRemotes(p, owned)
    PROVE  RegistryInv' /\ Reachable(db) \subseteq Reachable(db')
<1>1. Journalled /\ db' = apply_owned_remotes(db, p, owned) /\ p \in DOMAIN db.root
  BY DEF SetOwnedRemotes, Write, Journalled, RegistryInv
<1>2. /\ Placements(db') /\ Identified(db', astray)
      /\ Reachable(db') = Reachable(db) /\ db'.agent = db.agent
  BY <1>1, RemoteOverridden DEF RegistryInv
<1> QED  BY <1>1, <1>2, JournalledKeeps

\* The placement write, relayed or direct.
LEMMA CommitSteps ==
    ASSUME RegistryInv, NEW r \in Requests, NEW confirmed, Commit(r, confirmed),
           prompt' = prompt \/ prompt' = None
    PROVE  RegistryInv' /\ Reachable(db) \subseteq Reachable(db')
<1>1. /\ Placements(db)' /\ Identified(db, astray)' /\ copy' = db'
      /\ Reachable(db) \subseteq Reachable(db')
      /\ DOMAIN db.agent = {} => DOMAIN db'.agent = {}
  BY CommitKeeps
<1>2. rows < MaxRows /\ rows' = rows + 1 /\ cutover' = cutover /\ astray' = astray
  BY DEF Commit
<1>3. MemoryInv'
  <2>1. /\ astray' \subseteq Agents /\ cutover' \in BOOLEAN
        /\ ~cutover' => DOMAIN db'.agent = {}
    BY <1>1, <1>2 DEF RegistryInv, MemoryInv
  <2>2. rows' \in 0..MaxRows
    BY <1>2, RegistryConstants DEF RegistryInv, MemoryInv
  <2>3. prompt' # None => prompt'.req \in Requests
    BY DEF RegistryInv, MemoryInv
  <2> QED  BY <2>1, <2>2, <2>3 DEF MemoryInv
<1> QED  BY <1>1, <1>3 DEF RegistryInv

\* A live agent's row is written.
LEMMA HoldKeeps ==
    ASSUME RegistryInv, NEW g \in Agents, NEW row, NEW claim,
           Fits(db, astray, g, row, claim), WriteAgent(g, row, claim)
    PROVE  RegistryInv' /\ Reachable(db) \subseteq Reachable(db')
<1>1. Journalled /\ db' = WithAgent(db, g, row, claim) /\ cutover
  BY DEF WriteAgent, replay_agent_entry, Write, Journalled, RegistryInv
<1>2. AgentTables(db, db', g, row, claim)
  BY <1>1, AgentWritten DEF RegistryInv, Placements
<1>3. Placements(db') /\ Reachable(db') = Reachable(db)
  BY <1>2, AgentPlacements DEF RegistryInv, AgentTables
<1>4. Identified(db', astray)
  BY <1>2, AgentHolds DEF RegistryInv
<1> QED  BY <1>1, <1>3, <1>4, JournalledKeeps

\* A row of an agent that is gone is written.
LEMMA ReleaseKeeps ==
    ASSUME RegistryInv, NEW g \in Agents, NEW row, DOMAIN row = RowFields, row.status # "live",
           WriteAgent(g, row, None)
    PROVE  RegistryInv' /\ Reachable(db) \subseteq Reachable(db')
<1>1. Journalled /\ db' = WithAgent(db, g, row, None) /\ cutover
  BY DEF WriteAgent, replay_agent_entry, Write, Journalled, RegistryInv
<1>2. AgentTables(db, db', g, row, None)
  BY <1>1, AgentWritten DEF RegistryInv, Placements
<1>3. Placements(db') /\ Reachable(db') = Reachable(db)
  BY <1>2, AgentPlacements DEF RegistryInv, AgentTables
<1>4. Identified(db', astray)
  BY <1>2, AgentReleases DEF RegistryInv
<1> QED  BY <1>1, <1>3, <1>4, JournalledKeeps

\* An id resolves when it is a project or an alias, and to a live project.
LEMMA Resolves ==
    ASSUME NEW d, Placements(d), NEW id
    PROVE  /\ ResolveProject(d, id) # None => Live(d, ResolveProject(d, id))
           /\ ResolveProject(d, id) # None <=> id \in Reachable(d)
<1>1. None \notin DOMAIN d.project
  BY IdsAreIds DEF Placements, Keys
<1>2. \A x \in DOMAIN d.alias : d.alias[x] \in DOMAIN d.project
  BY DEF Placements, Refs, Live
<1> QED  BY <1>1, <1>2 DEF ResolveProject, Live, Reachable

\* A new head or hiree gets its name where its project is placed.
LEMMA CreateStaffKeeps ==
    ASSUME RegistryInv, NEW g \in Agents, NEW role \in {"head", "hiree"}, NEW ref,
           NEW name \in AgentNames, CreateStaff(g, role, ref, name)
    PROVE  RegistryInv' /\ Reachable(db) \subseteq Reachable(db')
<1> DEFINE id    == ResolveProject(db, ref)
           ns    == db.place[id]
           row   == Row(role, id, None, name)
           claim == [ns |-> ns, name |-> name]
<1>1. /\ id # None /\ id \in DOMAIN db.place /\ ~NameTaken(db, ns, name, g)
      /\ role = "head" => \A h \in LiveAgents(db) :
                            ~(db.agent[h].role = "head" /\ db.agent[h].project = id)
      /\ WriteAgent(g, row, claim)
  BY DEF CreateStaff
<1>2. Live(db, id) /\ ns \in Workspaces
  BY <1>1 DEF RegistryInv, Placements, Refs, Keys
<1> HIDE DEF id, ns
<1>3. Fits(db, astray, g, row, claim)
  <2>1. /\ DOMAIN row = RowFields /\ row.status = "live" /\ row.role = role
        /\ row.project = id /\ row.ws = None /\ row.name = name
    BY DEF Row, RowFields
  <2>2. claim \in Claims /\ claim.ns = ns /\ claim.name = name
    BY <1>2 DEF Claims
  <2> HIDE DEF row, claim
  <2> QED  BY <1>1, <1>2, <2>1, <2>2 DEF Fits, ns
<1> HIDE DEF row, claim
<1> QED  BY <1>1, <1>3, HoldKeeps

\* A new workspace head gets its name in its workspace.
LEMMA CreateWorkspaceHeadKeeps ==
    ASSUME RegistryInv, NEW g \in Agents, NEW w \in Workspaces, NEW name \in AgentNames,
           CreateWorkspaceHead(g, w, name)
    PROVE  RegistryInv' /\ Reachable(db) \subseteq Reachable(db')
<1> DEFINE row   == Row("workspace_head", None, w, name)
           claim == [ns |-> w, name |-> name]
<1>1. w \in db.workspace /\ ~NameTaken(db, w, name, g) /\ WriteAgent(g, row, claim)
  BY DEF CreateWorkspaceHead
<1>2. Fits(db, astray, g, row, claim)
  <2>1. /\ DOMAIN row = RowFields /\ row.status = "live" /\ row.role = "workspace_head"
        /\ row.project = None /\ row.ws = w /\ row.name = name
    BY DEF Row, RowFields
  <2>2. claim \in Claims /\ claim.ns = w /\ claim.name = name
    BY DEF Claims
  <2> HIDE DEF row, claim
  <2> QED  BY <1>1, <2>1, <2>2 DEF Fits
<1> HIDE DEF row, claim
<1> QED  BY <1>1, <1>2, HoldKeeps

\* A new assistant gets a global name.
LEMMA CreateAssistantKeeps ==
    ASSUME RegistryInv, NEW g \in Agents, NEW name \in AgentNames, CreateAssistant(g, name)
    PROVE  RegistryInv' /\ Reachable(db) \subseteq Reachable(db')
<1> DEFINE row   == Row("assistant", None, None, name)
           claim == [ns |-> "global", name |-> name]
<1>1. ~NameTaken(db, "global", name, g) /\ WriteAgent(g, row, claim)
  BY DEF CreateAssistant
<1>2. Fits(db, astray, g, row, claim)
  <2>1. /\ DOMAIN row = RowFields /\ row.status = "live" /\ row.role = "assistant"
        /\ row.project = None /\ row.name = name
    BY DEF Row, RowFields
  <2>2. claim \in Claims /\ claim.ns = "global" /\ claim.name = name
    BY DEF Claims
  <2> HIDE DEF row, claim
  <2> QED  BY <1>1, <2>1, <2>2 DEF Fits
<1> HIDE DEF row, claim
<1> QED  BY <1>1, <1>2, HoldKeeps

\* A renamed agent keeps its namespace.
LEMMA RenameKeeps ==
    ASSUME RegistryInv, NEW g \in Agents, NEW name \in AgentNames, Rename(g, name)
    PROVE  RegistryInv' /\ Reachable(db) \subseteq Reachable(db')
<1> DEFINE old   == db.agent[g]
           row   == [old EXCEPT !.name = name]
           claim == [db.claim[g] EXCEPT !.name = name]
<1>0. /\ Rows(db) /\ Unique(db) /\ Bound(db) /\ OnPlacement(db, astray)
  BY DEF RegistryInv, Identified
<1>1. /\ g \in LiveAgents(db) /\ ~NameTaken(db, db.claim[g].ns, name, g)
      /\ WriteAgent(g, row, claim)
  BY DEF Rename
<1>2. /\ g \in DOMAIN db.agent /\ g \in DOMAIN db.claim
      /\ DOMAIN old = RowFields /\ old.status = "live" /\ db.claim[g] \in Claims
  BY <1>0, <1>1 DEF Rows, LiveAgents
<1>3. Fits(db, astray, g, row, claim)
  <2>1. /\ DOMAIN row = RowFields /\ row.status = "live" /\ row.role = old.role
        /\ row.project = old.project /\ row.ws = old.ws /\ row.name = name
    BY <1>2 DEF RowFields
  <2>2. claim \in Claims /\ claim.ns = db.claim[g].ns /\ claim.name = name
    BY <1>2 DEF Claims
  <2>3. old.role = "head" => \A h \in LiveAgents(db) \ {g} :
          ~(db.agent[h].role = "head" /\ db.agent[h].project = old.project)
    BY <1>0, <1>1 DEF Unique
  <2>4. /\ old.project # None => Live(db, old.project)
        /\ old.role = "workspace_head" => old.ws \in db.workspace
    BY <1>0, <1>1 DEF Bound
  <2>5. old.role \in {"head", "hiree"} =>
          /\ Live(db, old.project)
          /\ g \notin astray => /\ old.ws = None /\ old.project \in DOMAIN db.place
                                /\ db.claim[g].ns = db.place[old.project]
    BY <1>0, <1>1 DEF Bound, OnPlacement, Staff
  <2> HIDE DEF row, claim, old
  <2> QED  BY <1>1, <2>1, <2>2, <2>3, <2>4, <2>5 DEF Fits
<1> HIDE DEF row, claim, old
<1> QED  BY <1>1, <1>3, HoldKeeps

\* Disposing an agent releases its name.
LEMMA DisposeKeeps ==
    ASSUME RegistryInv, NEW g \in Agents, Dispose(g)
    PROVE  RegistryInv' /\ Reachable(db) \subseteq Reachable(db')
<1> DEFINE row == [db.agent[g] EXCEPT !.status = "retired"]
<1>1. g \in LiveAgents(db) /\ WriteAgent(g, row, None)
  BY DEF Dispose
<1>2. DOMAIN row = RowFields /\ row.status # "live"
  <2>1. DOMAIN db.agent[g] = RowFields
    BY <1>1 DEF RegistryInv, Identified, Rows, LiveAgents
  <2> QED  BY <2>1 DEF RowFields
<1> HIDE DEF row
<1> QED  BY <1>1, <1>2, ReleaseKeeps

\* Merging an agent releases its name.
LEMMA MergeKeeps ==
    ASSUME RegistryInv, NEW g \in Agents, NEW into, Merge(g, into)
    PROVE  RegistryInv' /\ Reachable(db) \subseteq Reachable(db')
<1> DEFINE row == [db.agent[g] EXCEPT !.status = "merged"]
<1>1. g \in LiveAgents(db) /\ WriteAgent(g, row, None)
  BY DEF Merge
<1>2. DOMAIN row = RowFields /\ row.status # "live"
  <2>1. DOMAIN db.agent[g] = RowFields
    BY <1>1 DEF RegistryInv, Identified, Rows, LiveAgents
  <2> QED  BY <2>1 DEF RowFields
<1> HIDE DEF row
<1> QED  BY <1>1, <1>2, ReleaseKeeps

\* The import meets tables without agents; its agent is excused.
LEMMA ImportKeeps ==
    ASSUME RegistryInv, NEW g \in Agents, NEW name \in AgentNames,
           NEW id \in DOMAIN db.project, NEW ws, NEW ns \in Workspaces,
           Import(g, Row("head", id, ws, name), ns)
    PROVE  RegistryInv' /\ Reachable(db) \subseteq Reachable(db')
<1> DEFINE row   == Row("head", id, ws, name)
           claim == [ns |-> ns, name |-> name]
<1>0. /\ Placements(db) /\ Identified(db, astray) /\ copy = db /\ DOMAIN db.agent = {}
  BY DEF RegistryInv, MemoryInv, Import
<1>1. /\ DOMAIN row = RowFields /\ row.status = "live" /\ row.role = "head"
      /\ row.project = id /\ row.name = name
  BY DEF Row, RowFields
<1>2. claim \in Claims /\ claim.ns = ns /\ claim.name = name
  BY DEF Claims
<1>3. /\ db' = WithAgent(db, g, row, claim) /\ copy' = db'
      /\ cutover' = TRUE /\ astray' = {g} /\ rows < MaxRows /\ rows' = rows + 1
      /\ prompt' = prompt
  BY <1>0, <1>1 DEF Import, replay_agent_entry
<1> HIDE DEF row, claim
<1>4. LiveAgents(db) = {} /\ Staff(db) = {} /\ DOMAIN db.claim = {}
  BY <1>0 DEF LiveAgents, Staff, Identified, Rows
<1>5. Identified(db, {g})
  BY <1>0, <1>4 DEF Identified, OnPlacement
<1>6. Fits(db, {g}, g, row, claim)
  BY <1>1, <1>2, <1>4 DEF Fits, NameTaken, Live
<1>7. AgentTables(db, db', g, row, claim)
  BY <1>0, <1>3, AgentWritten DEF Placements
<1>8. Identified(db', {g})
  BY <1>0, <1>5, <1>6, <1>7, AgentHolds
<1>9. Placements(db') /\ Reachable(db') = Reachable(db)
  BY <1>0, <1>7, AgentPlacements DEF AgentTables
<1>10. MemoryInv'
  BY <1>3, RegistryConstants DEF RegistryInv, MemoryInv
<1>11. Placements(db)' /\ Identified(db, astray)'
  BY <1>3, <1>8, <1>9
<1> QED  BY <1>3, <1>9, <1>10, <1>11 DEF RegistryInv

\* The correction puts every live head and hiree on its placement.
LEMMA RepairKeeps ==
    ASSUME RegistryInv, RepairAgentWorkspaces
    PROVE  RegistryInv' /\ Reachable(db) \subseteq Reachable(db')
<1> DEFINE moves == plan_repair(db)
           f == ClearGone(apply_moves(db, moves))
           S == {g \in DOMAIN db.agent : f.agent[g] # db.agent[g] \/ g \in DOMAIN moves}
<1>1. /\ Placements(db) /\ Identified(db, astray) /\ copy = db
      /\ \A g \in Staff(db) : db.agent[g].project \in DOMAIN db.place
      /\ check_names(db, moves)
      /\ rows < MaxRows /\ rows' = rows + 1 /\ cutover /\ cutover' = cutover
      /\ prompt' = prompt /\ astray' = {}
      /\ db' = f /\ copy' = replay_moves(copy, Images(f, S))
  BY DEF RegistryInv, RepairAgentWorkspaces
<1>2. moves = plan_repair(db) /\ f = ClearGone(apply_moves(db, moves))
      /\ S = {g \in DOMAIN db.agent : f.agent[g] # db.agent[g] \/ g \in DOMAIN moves}
  OBVIOUS
<1> HIDE DEF moves, f, S
<1>3. /\ Placements(f) /\ Identified(f, {})
      /\ Reachable(f) = Reachable(db) /\ replay_moves(db, Images(f, S)) = f
  BY <1>1, <1>2, Repaired
<1>4. Placements(db)' /\ Identified(db, astray)' /\ copy' = db'
  BY <1>1, <1>3
<1>5. MemoryInv'
  BY <1>1, RegistryConstants DEF RegistryInv, MemoryInv
<1> QED  BY <1>1, <1>3, <1>4, <1>5 DEF RegistryInv

\* An empty import sets the marker only.
LEMMA ImportNothingKeeps ==
    ASSUME RegistryInv, ImportNothing
    PROVE  RegistryInv' /\ db' = db
<1>1. db' = db /\ copy' = copy /\ astray' = astray
  BY DEF ImportNothing
<1>2. MemoryInv'
  BY DEF RegistryInv, MemoryInv, ImportNothing
<1> QED  BY <1>1, <1>2 DEF RegistryInv

\* Raising and dropping a prompt writes nothing.
LEMMA PromptKeeps ==
    ASSUME RegistryInv, (\E r \in Prompted : PrecheckPlacement(r)) \/ RefuseDirect
    PROVE  RegistryInv' /\ db' = db /\ carried' = carried
<1>1. /\ db' = db /\ copy' = copy /\ astray' = astray /\ carried' = carried
      /\ cutover' = cutover /\ rows' = rows
  BY DEF PrecheckPlacement, RefuseDirect
<1>2. prompt' # None => prompt'.req \in Requests
  BY RegistryConstants DEF PrecheckPlacement, RefuseDirect
<1>3. MemoryInv'
  BY <1>1, <1>2 DEF RegistryInv, MemoryInv
<1> QED  BY <1>1, <1>3 DEF RegistryInv

\* A rebuild changes nothing.
LEMMA RebuildKeeps ==
    ASSUME RegistryInv, Rebuild
    PROVE  RegistryInv' /\ db' = db
<1>1. db' = db /\ copy' = copy /\ astray' = astray
  BY DEF Rebuild, RegistryInv
<1>2. MemoryInv'
  BY <1>1 DEF RegistryInv, MemoryInv, Rebuild
<1> QED  BY <1>1, <1>2 DEF RegistryInv

\* The empty tables.
LEMMA RegistryInit ==
    ASSUME Init
    PROVE  RegistryInv
<1>1. DOMAIN Empty = {}
  BY DEF Empty
<1>2. /\ db.project = Empty /\ db.root = Empty /\ db.parent = Empty /\ db.alias = Empty
      /\ db.disowned = {} /\ db.workspace = {} /\ db.wsroot = Empty /\ db.place = Empty
      /\ db.member = {} /\ db.agent = Empty /\ db.claim = Empty
  BY DEF Init, EmptyTables
<1>3. Tables(db)
  BY DEF Init, EmptyTables, Tables, Fields
<1>4. Keys(db) /\ Refs(db) /\ Members(db)
  BY <1>1, <1>2 DEF Keys, Refs, Members
<1>5. LiveAgents(db) = {} /\ Staff(db) = {}
  BY <1>1, <1>2 DEF LiveAgents, Staff
<1>6. Identified(db, astray)
  BY <1>1, <1>2, <1>5 DEF Identified, Rows, Unique, Bound, OnPlacement
<1>7. MemoryInv
  <2>1. rows \in 0..MaxRows
    BY RegistryConstants DEF Init
  <2>2. astray \subseteq Agents /\ cutover \in BOOLEAN /\ prompt = None
    BY DEF Init
  <2>3. DOMAIN db.agent = {}
    BY <1>1, <1>2
  <2> QED  BY <2>1, <2>2, <2>3 DEF MemoryInv
<1> QED  BY <1>3, <1>4, <1>6, <1>7 DEF RegistryInv, Placements, Init

\* The ids that a step loses are those of a project that it removes with no successor,
\* or the one of a root that it removes.
LostIds ==
    \A id \in Reachable(db) \ Reachable(db') :
        \/ RemoveProject(ResolveProject(db, id), None)
        \/ \E p \in Paths : id = Implicit(p) /\ RemoveRoot(p)

\* Every step on projects and workspaces keeps the invariant and the ids.
LEMMA ProjectStep ==
    ASSUME RegistryInv, ProjectNext
    PROVE  RegistryInv' /\ LostIds
<1>1. CASE \E r \in Requests : PlacementWrite(r)
  BY <1>1, CommitSteps DEF PlacementWrite, LostIds
<1>2. CASE (\E r \in Prompted : PrecheckPlacement(r)) \/ RefuseDirect
  BY <1>2, PromptKeeps DEF LostIds
<1>3. CASE CommitDirect
  <2>1. prompt.req \in Requests /\ Commit(prompt.req, prompt) /\ prompt' = None
    BY <1>3 DEF CommitDirect, RegistryInv, MemoryInv
  <2> QED  BY <2>1, CommitSteps DEF LostIds
<1>4. CASE \E w \in Workspaces : CreateWorkspace(w)
  BY <1>4, CreateWorkspaceKeeps DEF LostIds
<1>5. CASE \E w \in Workspaces, p \in Paths \cup {None} : SetWorkspaceRoot(w, p)
  BY <1>5, SetWorkspaceRootKeeps DEF LostIds
<1>6. CASE \E w \in Workspaces : RemoveWorkspace(w)
  BY <1>6, RemoveWorkspaceKeeps DEF LostIds
<1>7. CASE \E id \in DOMAIN db.project, s \in DOMAIN db.project \cup {None} :
             RemoveProject(id, s)
  <2>1. PICK id \in DOMAIN db.project, s \in DOMAIN db.project \cup {None} :
               RemoveProject(id, s)
    BY <1>7
  <2>2. /\ RegistryInv'
        /\ \A x \in Reachable(db) \ Reachable(db') :
             s = None /\ (x = id \/ (~Live(db, x) /\ x \in DOMAIN db.alias /\ db.alias[x] = id))
    BY <2>1, RemoveProjectKeeps
  <2>3. ASSUME NEW x \in Reachable(db) \ Reachable(db')
        PROVE  RemoveProject(ResolveProject(db, x), None)
    <3>1. s = None /\ (x = id \/ (~Live(db, x) /\ x \in DOMAIN db.alias /\ db.alias[x] = id))
      BY <2>2
    <3>2. ResolveProject(db, x) = id
      BY <3>1 DEF ResolveProject, Live
    <3> QED  BY <2>1, <3>1, <3>2
  <2> QED  BY <2>2, <2>3 DEF LostIds
<1>8. CASE Rebuild
  BY <1>8, RebuildKeeps DEF LostIds
<1> QED  BY <1>1, <1>2, <1>3, <1>4, <1>5, <1>6, <1>7, <1>8 DEF ProjectNext

\* Every step on roots keeps the invariant and the ids.
LEMMA RootStep ==
    ASSUME RegistryInv, RootNext
    PROVE  RegistryInv' /\ LostIds
<1>1. CASE \E id \in DOMAIN db.project, p \in Paths : AddRoot(id, p)
  BY <1>1, AddRootKeeps DEF LostIds
<1>2. CASE \E p \in Paths : RemoveRoot(p)
  BY <1>2, RemoveRootKeeps DEF LostIds
<1>3. CASE \E p \in Paths, name \in Names : MoveRootToNewProject(p, name)
  BY <1>3, MoveRootKeeps DEF LostIds
<1>4. CASE \E p \in Paths, owned \in BOOLEAN : SetOwnedRemotes(p, owned)
  BY <1>4, SetOwnedRemotesKeeps DEF LostIds
<1> QED  BY <1>1, <1>2, <1>3, <1>4 DEF RootNext

\* Every step on agents keeps the invariant and every id.
LEMMA AgentStep ==
    ASSUME RegistryInv, AgentNext
    PROVE  RegistryInv' /\ Reachable(db) \subseteq Reachable(db')
<1>1. CASE \E g \in Agents, role \in {"head", "hiree"}, ref \in Known, name \in AgentNames :
             CreateStaff(g, role, ref, name)
  BY <1>1, CreateStaffKeeps
<1>2. CASE \E g \in Agents, w \in Workspaces, name \in AgentNames :
             CreateWorkspaceHead(g, w, name)
  BY <1>2, CreateWorkspaceHeadKeeps
<1>3. CASE \E g \in Agents, name \in AgentNames : CreateAssistant(g, name)
  BY <1>3, CreateAssistantKeeps
<1>4. CASE \E g \in Agents, name \in AgentNames : Rename(g, name)
  BY <1>4, RenameKeeps
<1>5. CASE \E g \in Agents : Dispose(g)
  BY <1>5, DisposeKeeps
<1>6. CASE \E g, into \in Agents : Merge(g, into)
  BY <1>6, MergeKeeps
<1>7. CASE \E g \in Agents, name \in AgentNames, id \in DOMAIN db.project,
             ws \in Workspaces \cup {None}, ns \in Workspaces :
               Import(g, Row("head", id, ws, name), ns)
  BY <1>7, ImportKeeps
<1>8. CASE ImportNothing
  BY <1>8, ImportNothingKeeps
<1>9. CASE RepairAgentWorkspaces
  BY <1>9, RepairKeeps
<1> QED  BY <1>1, <1>2, <1>3, <1>4, <1>5, <1>6, <1>7, <1>8, <1>9 DEF AgentNext

\* Every step keeps the invariant, and loses no id it may not lose.
LEMMA RegistryStep ==
    ASSUME RegistryInv, [Next]_vars
    PROVE  RegistryInv' /\ LostIds
<1>1. CASE ProjectNext
  BY <1>1, ProjectStep
<1>2. CASE RootNext
  BY <1>2, RootStep
<1>3. CASE AgentNext
  BY <1>3, AgentStep DEF LostIds
<1>4. CASE UNCHANGED vars
  <2>1. db' = db /\ copy' = copy /\ astray' = astray /\ MemoryInv'
    BY <1>4 DEF vars, RegistryInv, MemoryInv
  <2> QED  BY <2>1 DEF RegistryInv, LostIds
<1> QED  BY <1>1, <1>2, <1>3, <1>4 DEF Next
-----------------------------------------------------------------------------
(* What the operator is shown. *)

\* An image of a finite set is no larger than it.
LEMMA ImageIsNoLarger ==
    ASSUME NEW S, IsFiniteSet(S), NEW f, DOMAIN f = S, f = [x \in S |-> f[x]]
    PROVE  /\ IsFiniteSet({f[x] : x \in S})
           /\ Cardinality({f[x] : x \in S}) <= Cardinality(S)
<1> DEFINE T == {f[x] : x \in S}
<1>1. \A x \in S : f[x] \in T
  OBVIOUS
<1>2. \A t \in T : \E x \in S : f[x] = t
  OBVIOUS
<1> HIDE DEF T
<1>3. f \in Surjection(S, T)
  BY <1>1, <1>2 DEF Surjection
<1>4. IsFiniteSet(T) /\ Cardinality(T) <= Cardinality(S)
  BY <1>3, FS_Surjection
<1> QED  BY <1>4 DEF T

\* A summary that names as many agents as it counts names each agent that is to move.
LEMMA SummaryShows ==
    ASSUME NEW d, NEW moves, IsFiniteSet(DOMAIN moves), NEW g \in DOMAIN moves,
           Cardinality(carry_summary(d, moves).names) = carry_summary(d, moves).total
    PROVE  \E s \in carry_summary(d, moves).names :
             s[2] = d.agent[g].project /\ s[3] = d.agent[g].name
<1> DEFINE M == DOMAIN moves
           place(h) == Cardinality(ListedBefore(d, moves, h))
           L == {h \in M : place(h) < SummaryNames}
           f == [h \in L |-> <<place(h), d.agent[h].project, d.agent[h].name>>]
           shown == carry_summary(d, moves).names
<1>1. /\ shown = {<<place(h), d.agent[h].project, d.agent[h].name>> : h \in L}
      /\ carry_summary(d, moves).total = Cardinality(M)
  BY DEF carry_summary
<1>2. shown = {f[h] : h \in L}
  BY <1>1
<1>3. L \subseteq M
  OBVIOUS
<1>4. f[g] = <<place(g), d.agent[g].project, d.agent[g].name>> \/ g \notin L
  OBVIOUS
<1>5. DOMAIN f = L /\ f = [h \in L |-> f[h]]
  OBVIOUS
<1> HIDE DEF place, L, f, shown
<1>6. /\ IsFiniteSet(L) /\ Cardinality(L) <= Cardinality(M)
      /\ Cardinality(M) = Cardinality(L) => M = L
  BY <1>3, FS_Subset
<1>7. IsFiniteSet(shown) /\ Cardinality(shown) <= Cardinality(L)
  BY <1>2, <1>5, <1>6, ImageIsNoLarger
<1>8. /\ Cardinality(shown) \in Nat /\ Cardinality(L) \in Nat /\ Cardinality(M) \in Nat
      /\ Cardinality(shown) = Cardinality(M)
  BY <1>1, <1>6, <1>7, FS_CardinalityType DEF shown
<1>9. g \in L
  BY <1>6, <1>7, <1>8
<1>10. f[g] \in shown /\ f[g][2] = d.agent[g].project /\ f[g][3] = d.agent[g].name
  BY <1>2, <1>4, <1>9
<1> QED  BY <1>10 DEF shown

\* The claims that a write moves are those of the agents it carries.
LEMMA MovedAreCarried ==
    ASSUME RegistryInv, NEW moves, Moved(db, db', moves)
    PROVE  \A c \in MovedClaims(db, db') : \E g \in DOMAIN moves :
             /\ c = <<db.agent[g].project, moves[g], db.agent[g].name>>
             /\ g \in LiveAgents(db)
<1>1. /\ LiveAgents(db) \subseteq DOMAIN db.agent /\ DOMAIN db.claim = LiveAgents(db)
      /\ \A g \in DOMAIN db.claim : db.claim[g] \in Claims
  BY DEF RegistryInv, Identified, Rows, LiveAgents
<1> SUFFICES ASSUME NEW c \in MovedClaims(db, db')
             PROVE  \E g \in DOMAIN moves :
                      /\ c = <<db.agent[g].project, moves[g], db.agent[g].name>>
                      /\ g \in LiveAgents(db)
  OBVIOUS
<1>2. PICK g \in LiveAgents(db) :
        /\ c = <<db.agent[g].project, db'.claim[g].ns, db.agent[g].name>>
        /\ db.claim[g] # db'.claim[g]
  BY DEF MovedClaims
<1>3. g \in DOMAIN moves
  <2> SUFFICES ASSUME g \notin DOMAIN moves PROVE db'.claim[g] = db.claim[g]
    BY <1>2
  <2>1. /\ db.claim[g] \in Claims /\ db'.claim[g] \in Claims
        /\ db'.claim[g].name = db.claim[g].name /\ db'.claim[g].ns = db.claim[g].ns
    BY <1>1 DEF Moved
  <2> QED  BY <2>1 DEF Claims
<1>4. db'.claim[g].ns = moves[g]
  BY <1>1, <1>3 DEF Moved
<1> QED  BY <1>2, <1>3, <1>4

\* A confirmed write moves only what was shown or counted.
LEMMA CommitShows ==
    ASSUME RegistryInv, CommitDirect
    PROVE  CarriesOnlyShown'
<1> DEFINE r == prompt.req
           moves == Carry(db, r)
           s == carry_summary(db, moves)
<1>1. /\ r \in Requests /\ Commit(r, prompt)
      /\ moves = Empty \/ s = prompt.summary
  BY DEF CommitDirect, Confirmed, RegistryInv, MemoryInv
<1>2. Moved(db, db', moves) /\ DOMAIN moves \subseteq LiveAgents(db)
  BY <1>1, CommitKeeps
<1>3. LiveAgents(db) \subseteq DOMAIN db.agent /\ DOMAIN db.agent \subseteq Agents
  BY DEF RegistryInv, Identified, Rows, LiveAgents
<1>4. IsFiniteSet(DOMAIN moves)
  BY <1>2, <1>3, RegistryConstants, FS_Subset
<1>5. carried'.prompt = prompt /\ carried'.moved = MovedClaims(db, db')
  BY <1>1 DEF Commit
<1> HIDE DEF moves, r
<1>6. \A c \in carried'.moved : \E g \in DOMAIN moves :
        /\ c = <<db.agent[g].project, moves[g], db.agent[g].name>>
        /\ g \in LiveAgents(db)
  BY <1>2, <1>5, MovedAreCarried
<1> SUFFICES ASSUME carried'.moved # {}
             PROVE  /\ \A m \in carried'.moved : <<m[1], m[2]>> \in prompt.summary.where
                    /\ Cardinality(carried'.moved) <= prompt.summary.total
                    /\ Cardinality(prompt.summary.names) = prompt.summary.total =>
                         \A m \in carried'.moved :
                           \E x \in prompt.summary.names : x[2] = m[1] /\ x[3] = m[3]
  BY <1>5 DEF CarriesOnlyShown
<1>7. s = prompt.summary
  <2>1. DOMAIN moves # {}
    BY <1>6
  <2>2. DOMAIN Empty = {}
    BY DEF Empty
  <2> QED  BY <1>1, <2>1, <2>2
<1>8. /\ s.where = {<<db.agent[g].project, moves[g]>> : g \in DOMAIN moves}
      /\ s.total = Cardinality(DOMAIN moves)
  BY DEF carry_summary
<1>9. ASSUME NEW m \in carried'.moved PROVE <<m[1], m[2]>> \in s.where
  BY <1>6, <1>8
<1>10. Cardinality(carried'.moved) <= s.total
  <2> DEFINE f == [g \in DOMAIN moves |->
                     <<db.agent[g].project, moves[g], db.agent[g].name>>]
             T == {f[g] : g \in DOMAIN moves}
  <2>1. carried'.moved \subseteq T
    BY <1>6
  <2>2. DOMAIN f = DOMAIN moves /\ f = [g \in DOMAIN moves |-> f[g]]
    OBVIOUS
  <2> HIDE DEF f
  <2>3. IsFiniteSet(T) /\ Cardinality(T) <= Cardinality(DOMAIN moves)
    BY <1>4, <2>2, ImageIsNoLarger
  <2> HIDE DEF T
  <2>4. IsFiniteSet(carried'.moved) /\ Cardinality(carried'.moved) <= Cardinality(T)
    BY <2>1, <2>3, FS_Subset
  <2>5. /\ Cardinality(carried'.moved) \in Nat /\ Cardinality(T) \in Nat
        /\ Cardinality(DOMAIN moves) \in Nat
    BY <1>4, <2>3, <2>4, FS_CardinalityType
  <2> QED  BY <1>8, <2>3, <2>4, <2>5
<1>11. ASSUME Cardinality(s.names) = s.total, NEW m \in carried'.moved
       PROVE  \E x \in s.names : x[2] = m[1] /\ x[3] = m[3]
  <2>1. PICK g \in DOMAIN moves : m = <<db.agent[g].project, moves[g], db.agent[g].name>>
    BY <1>6
  <2>2. \E x \in s.names : x[2] = db.agent[g].project /\ x[3] = db.agent[g].name
    BY <1>4, <1>11, SummaryShows
  <2> HIDE DEF s
  <2> QED  BY <2>1, <2>2
<1> HIDE DEF s
<1> QED  BY <1>7, <1>9, <1>10, <1>11

\* Only a confirmed write is held to what was shown.
LEMMA ShownStep ==
    ASSUME RegistryInv, CarriesOnlyShown, [Next]_vars
    PROVE  CarriesOnlyShown'
<1>1. CASE CommitDirect
  BY <1>1, CommitShows
<1>2. CASE carried'.prompt = None
  BY <1>2 DEF CarriesOnlyShown
<1>3. CASE carried' = carried
  BY <1>3 DEF CarriesOnlyShown
<1>4. NotCarrying.prompt = None
  BY DEF NotCarrying
<1>5. ASSUME ProjectNext PROVE CommitDirect \/ carried'.prompt = None \/ carried' = carried
  <2>1. ASSUME NEW r \in Requests, PlacementWrite(r) PROVE carried'.prompt = None
    BY <2>1 DEF PlacementWrite, Commit
  <2>2. ASSUME NEW r \in Prompted, PrecheckPlacement(r) PROVE carried' = carried
    BY <2>2 DEF PrecheckPlacement
  <2>3. ASSUME NEW w \in Workspaces,
               CreateWorkspace(w) \/ RemoveWorkspace(w)
                 \/ \E p \in Paths \cup {None} : SetWorkspaceRoot(w, p)
        PROVE  carried' = NotCarrying
    BY <2>3 DEF CreateWorkspace, RemoveWorkspace, SetWorkspaceRoot, Write
  <2>4. ASSUME NEW id, NEW x, RemoveProject(id, x) PROVE carried' = NotCarrying
    BY <2>4 DEF RemoveProject, Write
  <2>5. ASSUME RefuseDirect \/ Rebuild PROVE carried' = carried
    BY <2>5 DEF RefuseDirect, Rebuild
  <2> QED  BY <1>4, <1>5, <2>1, <2>2, <2>3, <2>4, <2>5 DEF ProjectNext
<1>6. ASSUME RootNext PROVE carried' = NotCarrying
  BY <1>6 DEF RootNext, AddRoot, RemoveRoot, MoveRootToNewProject, SetOwnedRemotes, Write
<1>7. ASSUME AgentNext PROVE carried' = NotCarrying \/ carried' = carried
  <2>1. ASSUME NEW g, NEW row, NEW claim, WriteAgent(g, row, claim) PROVE carried' = NotCarrying
    BY <2>1 DEF WriteAgent, Write
  <2>2. ASSUME NEW g, NEW row, NEW ns, Import(g, row, ns) PROVE carried' = NotCarrying
    BY <2>2 DEF Import
  <2>3. ASSUME ImportNothing PROVE carried' = carried
    BY <2>3 DEF ImportNothing
  <2>4. ASSUME RepairAgentWorkspaces PROVE carried' = NotCarrying
    BY <2>4 DEF RepairAgentWorkspaces
  <2> QED  BY <1>7, <2>1, <2>2, <2>3, <2>4
             DEF AgentNext, CreateStaff, CreateWorkspaceHead, CreateAssistant, Rename, Dispose,
                 Merge
<1>8. CASE UNCHANGED vars
  BY <1>3, <1>8 DEF vars
<1> QED  BY <1>1, <1>2, <1>3, <1>4, <1>5, <1>6, <1>7, <1>8 DEF Next
-----------------------------------------------------------------------------
(* The theorems. *)

\* The inductive invariant holds of every reachable state.
THEOREM RegistryInvariant == Spec => []RegistryInv
<1>1. Init => RegistryInv
  BY RegistryInit
<1>2. RegistryInv /\ [Next]_vars => RegistryInv'
  BY RegistryStep
<1> QED  BY <1>1, <1>2, PTL DEF Spec

\* Replaying the journal yields the live tables after any sequence of writes, however
\* they interleave with prechecks and rebuilds: `rebuild` reverts nothing.
THEOREM ReplayIsExact == Spec => []ReplayReproduces
<1>1. RegistryInv => ReplayReproduces
  BY DEF RegistryInv, ReplayReproduces
<1> QED  BY <1>1, RegistryInvariant, PTL

\* No write leaves a row that refers to a project, root or workspace that is gone, nor a
\* live agent without its project or workspace.
THEOREM TablesHold == Spec => []TablesOK
<1>1. RegistryInv => TablesOK
  <2> SUFFICES ASSUME RegistryInv PROVE TablesOK
    OBVIOUS
  <2>0. /\ Keys(db) /\ Refs(db) /\ Rows(db) /\ Bound(db) /\ MemoryInv /\ copy = db
    BY DEF RegistryInv, Placements, Identified
  <2>1. DOMAIN db.claim \subseteq DOMAIN db.agent
    BY <2>0 DEF Rows, LiveAgents
  <2>2. TypeOK
    BY <2>0, <2>1 DEF TypeOK, Keys, Rows, MemoryInv
  <2>3. ReferencesLive
    BY <2>0 DEF ReferencesLive, Refs
  <2>4. BoundStayPresent
    BY <2>0 DEF BoundStayPresent, Bound
  <2> QED  BY <2>2, <2>3, <2>4 DEF TablesOK
<1> QED  BY <1>1, RegistryInvariant, PTL

\* Members, claims and the unique indexes follow the placements through every carry,
\* import, correction, merge and removal: what `verify` reports never occurs.
THEOREM NamesFollow == Spec => []NamesFollowPlacement
<1>1. RegistryInv => NamesFollowPlacement
  <2> SUFFICES ASSUME RegistryInv PROVE NamesFollowPlacement
    OBVIOUS
  <2>0. Members(db) /\ Rows(db) /\ Unique(db) /\ OnPlacement(db, astray)
    BY DEF RegistryInv, Placements, Identified
  <2>1. MembersMatchPlacement
    <3>1. \A m : m \in db.member <=> m \in {<<db.place[id], id>> : id \in DOMAIN db.place}
      BY <2>0 DEF Members
    <3> QED  BY <3>1 DEF MembersMatchPlacement
  <2>2. ClaimsOnPlacement
    BY <2>0 DEF ClaimsOnPlacement, OnPlacement
  <2>3. IdentitiesUnique
    BY <2>0 DEF IdentitiesUnique, Rows, Unique
  <2> QED  BY <2>1, <2>2, <2>3 DEF NamesFollowPlacement
<1> QED  BY <1>1, RegistryInvariant, PTL

\* A confirmed placement write moves claims of the projects and into the workspaces that
\* the operator was shown, no more of them than announced, and only listed names unless
\* some were counted as `and N more`, whatever was written between the precheck and the
\* write (carry.rs carry_summary).
THEOREM ShownIsCarried == Spec => []CarriesOnlyShown
<1>1. Init => CarriesOnlyShown
  BY DEF Init, CarriesOnlyShown, NotCarrying
<1>2. RegistryInv /\ CarriesOnlyShown /\ [Next]_vars => CarriesOnlyShown'
  BY ShownStep
<1> QED  BY <1>1, <1>2, RegistryInvariant, PTL DEF Spec

\* An id that resolves keeps resolving, through merges, moves of roots and rebuilds, until
\* its project is removed with no successor or the root it stands for is removed.
THEOREM IdsResolve == Spec => IdsStayResolved
<1>1. RegistryInv => Resolvable(db) = Reachable(db)
  <2> SUFFICES ASSUME RegistryInv PROVE Resolvable(db) = Reachable(db)
    OBVIOUS
  <2>1. Placements(db)
    BY DEF RegistryInv
  <2>2. \A x : ResolveProject(db, x) # None <=> x \in Reachable(db)
    BY <2>1, Resolves
  <2> QED  BY <2>2 DEF Resolvable, Reachable
<1>2. (Resolvable(db) = Reachable(db))' <=> Resolvable(db') = Reachable(db')
  OBVIOUS
<1>3. RegistryInv /\ [Next]_vars => LostIds
  BY RegistryStep
<1>4. RegistryInv /\ RegistryInv' /\ [Next]_vars =>
        [\A id \in Resolvable(db) \ Resolvable(db') :
           \/ RemoveProject(ResolveProject(db, id), None)
           \/ \E p \in Paths : id = Implicit(p) /\ RemoveRoot(p)]_vars
  <2>1. RegistryInv' => Resolvable(db') = Reachable(db')
    BY <1>1, <1>2, PTL
  <2> QED  BY <1>1, <1>3, <2>1 DEF LostIds
<1> QED  BY <1>4, RegistryInvariant, PTL DEF Spec, IdsStayResolved
=============================================================================
