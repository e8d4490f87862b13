---------------------------- MODULE MCRegistry ----------------------------
(***************************************************************************)
(* Small instances of Registry.  `a` holds `ab`; `c` is apart and a clone  *)
(* of the repository of `a`.                                               *)
(***************************************************************************)
EXTENDS Registry, TLC

CONSTANTS n, m, p1, p2, v, w, x, y, t   \* model values

MCPaths == {"a", "ab", "c"}
MCPrefix == {<<p, p>> : p \in MCPaths} \cup {<<"a", "ab">>}
MCRepo == [p \in MCPaths |-> IF p = "ab" THEN None ELSE "acme"]

Register(project, name, roots, parents, ws) ==
    [op |-> "register", project |-> project, name |-> name, roots |-> roots,
     parents |-> parents, ws |-> ws]

Assign(project, ws) == [op |-> "assign", project |-> project, ws |-> ws]

Upgrade(p, project, name, roots, ws) ==
    [op |-> "upgrade", implicit |-> Implicit(p), project |-> project,
     name |-> name, roots |-> roots, ws |-> ws]

Seed(pairs, ws, members) ==
    [op |-> "seed", pairs |-> pairs, workspaces |-> ws, members |-> members]

Pair(root, identity, class) ==
    [root |-> root, identity |-> identity, class |-> class]

\* Requests about roots: registrations, an upgrade, seeds.
RootRequests ==
    {Register(z, k, roots, {}, None) : z \in Explicit \cup {None}, k \in Names,
        roots \in {{}, {"a"}, {"ab"}, {"c"}}}
    \cup {Register(None, k, {"c"}, {"a"}, None) : k \in Names}
    \cup {Upgrade("a", z, k, {"a"}, None) : z \in Explicit \cup {None}, k \in Names}
    \cup {Seed({Pair("a", "i", "git"), Pair("a", "j", "dir"),
                Pair("c", "j", "dir")}, {}, {})}

\* Requests about workspaces, for projects without roots.
PlaceRequests ==
    {Register(z, k, {}, {}, u) : z \in Explicit, k \in Names, u \in Workspaces \cup {None}}
    \cup {Assign(Chosen(z), u) : z \in Explicit, u \in Workspaces}
    \cup {Upgrade("c", z, k, {}, u) : z \in Explicit, k \in Names, u \in Workspaces}
    \cup {Assign(seed_id("i"), u) : u \in Workspaces}
    \cup {Seed({Pair("ab", "i", "git")}, {u}, {<<"i", u>>}) : u \in Workspaces}

MCRequests == RootRequests \cup PlaceRequests

DirectRequests == {Assign(Chosen(z), u) : z \in Explicit, u \in Workspaces}

\* One project without a workspace, moved into one under a prompt.
CarryPrompted == {Assign(Chosen(z), w) : z \in Explicit}

CarryRequests ==
    {Register(z, k, {}, {}, v) : z \in Explicit, k \in Names} \cup CarryPrompted

\* Project ids have an order only among the projects of one prompt, and DirectRequests
\* prompts for one project at a time: here they are interchangeable.
Symmetry == UNION {Permutations(S) : S \in {Names, Explicit, Workspaces, AgentNames}}

NameSymmetry == Permutations(AgentNames)
=============================================================================
