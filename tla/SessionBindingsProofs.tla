------------------------ MODULE SessionBindingsProofs ------------------------
(***************************************************************************)
(* Proofs about SessionBindings, for every number of machines, agents,     *)
(* registrations and moves: the tables keep their unique keys and readable *)
(* histories, an admitted move can be exported, the first move of an agent *)
(* leaves every binding with the machine that has its data, histories      *)
(* follow their sessions, and the fences of moves and claims hold.         *)
(***************************************************************************)
EXTENDS SessionBindings, SequenceTheorems, TLAPS

(***************************************************************************)
(* The inductive invariant.                                                *)
(***************************************************************************)
RowSet == [agent : Agents, harness : Harnesses \cup {None},
           session : Sessions \cup {None}, runner : Runners \cup {None},
           ended : Times \cup {0}, held : Machines \cup {None}]
EntrySeqs == Seq([net : Nets, since : Nat])
CarriedSet == [row : RowSet, entries : EntrySeqs]
Tables == UNION {[D -> RowSet] : D \in SUBSET Keys}
Histories == UNION {[D -> EntrySeqs] : D \in SUBSET Keys}
Streams == UNION {[D -> CarriedSet] : D \in SUBSET Keys}
ClaimSet == [holder : Machines \cup {None}, version : Nat]
CacheSet == [holder : Machines \cup {None}, version : Nat, stale : BOOLEAN,
             bad : BOOLEAN, known : BOOLEAN]
ObsSet == [kind : {"absent", "unavailable", "integrity", "absent_stale"}]
              \cup [kind : {"present"}, claim : ClaimSet]
CheckSet == [refs : SUBSET Keys, ver : Nat]
MoveSet == [src : Machines \cup {None}, dst : Machines \cup {None}, plan : SUBSET Keys,
            ver : Nat, carried : Streams,
            s : {"preparing", "published", "released", "aborted"},
            r : {"waiting", "picked_up", "claimed", "activating", "activated", "done",
                 "aborted"}]

\* The tables have their shape.
TablesType == rows \in [Machines -> Tables] /\ history \in [Machines -> Histories]
ClaimsType ==
    /\ claim \in [Agents -> ClaimSet]
    /\ cache \in [Machines -> [Agents -> CacheSet]]
    /\ reads \subseteq Machines \X Agents \X ObsSet
MovesType ==
    /\ checks \in [Machines -> [Agents -> SUBSET CheckSet]]
    /\ move \in [Agents -> MoveSet]
    /\ data \in [Agents -> [Keys -> SUBSET Machines]]
    /\ writes \in 0..MaxWrites /\ moves \in 0..MaxMoves
    /\ \A m \in Machines, g \in Agents : \A c, d \in checks[m][g] : c = d

\* A history within its cap that rises in time.
Readable(es) ==
    Len(es) <= HistoryCap /\ \A i \in 1 .. Len(es) - 1 : es[i].since < es[i + 1].since

\* A binding marked as held elsewhere is finished.
HeldEnded ==
    \A m \in Machines : \A k \in Bound(m) : rows[m][k].held # None => rows[m][k].ended # 0

\* No two rows share a host session or a runner's session.
Apart(x, y) ==
    x.session # None /\ x.session = y.session =>
        x.harness # y.harness /\ (x.runner = None \/ x.runner # y.runner)

\* What the stream of a move carries keeps what the source's tables had.
StreamOK(g) ==
    LET c == move[g].carried IN
    /\ \A k \in DOMAIN c :
          /\ c[k].row.agent = g
          /\ Readable(c[k].entries)
          /\ c[k].row.held # None => c[k].row.ended # 0
    /\ \A k, l \in DOMAIN c : k # l => Apart(c[k].row, c[l].row)
StreamsOK == \A g \in Agents : StreamOK(g)

\* The steps of the two sides fit together, and with the claim.
PhaseOK(g) ==
    LET v == move[g] IN
    \/ /\ v.src = None /\ v.dst = None /\ v.s = "released" /\ v.r = "done"
       /\ v.plan = {} /\ DOMAIN v.carried = {}
    \/ /\ g \in Movers /\ v.src \in Machines /\ v.dst \in Machines /\ v.src # v.dst
       /\ v.s = "preparing" => v.r = "waiting"
       /\ v.s = "published" => v.r \in {"waiting", "picked_up", "claimed", "activating",
                                        "activated", "aborted"}
       /\ v.s = "aborted" => v.r \in {"picked_up", "aborted"}
       /\ v.s = "released" => v.r \in {"activated", "done"}
       /\ v.r \in {"claimed", "activating"} => claim[g].holder = v.dst
       /\ v.r \in {"activated", "done"} => claim[g].holder = v.dst
Phases == \A g \in Agents : PhaseOK(g)

\* A claim is taken at the version that was checked, from the source or nobody.
VersionsOK ==
    /\ \A g \in Agents : claim[g].version = 0 <=> claim[g].holder = None
    /\ \A m \in Machines, g \in Agents : \A c \in checks[m][g] :
          /\ c.ver <= claim[g].version
          /\ c.ver = claim[g].version => claim[g].holder \in {None, m}
    /\ \A g \in Agents :
          move[g].r \in {"waiting", "picked_up"} =>
              /\ move[g].ver <= claim[g].version
              /\ move[g].ver = claim[g].version => claim[g].holder \in {None, move[g].src}

\* A cached claim, and one that was read, is the current one or an older one.
NotAhead(c, g) ==
    /\ c.version <= claim[g].version
    /\ c.version = claim[g].version => c.holder = claim[g].holder
Away(m, g) ==
    claim[g].holder \notin {None, m} /\ ~SourceOpen(m, g) /\ <<m, g>> \notin misled
CachesOK ==
    /\ \A m \in Machines, g \in Agents :
          LET c == cache[m][g] IN
          /\ c.version > 0 => c.known /\ NotAhead(c, g)
          /\ Away(m, g) /\ c.version > 0 => c.holder # m
          /\ Away(m, g) /\ move[g].src = m => c.version > 0
    /\ \A x \in reads :
          x[3].kind = "present" =>
              /\ x[3].claim.version > 0 /\ NotAhead(x[3].claim, x[2])
              /\ Away(x[1], x[2]) /\ x[3].claim.holder = x[1] =>
                     x[3].claim.version < cache[x[1]][x[2]].version

\* Until the source is released, the agent's bindings there are those of the stream.
PublishedKept ==
    \A g \in Agents : move[g].s = "published" =>
        move[g].plan \cup DOMAIN move[g].carried \subseteq OfAgent(move[g].src, g)

\* The first move.
Moved(g) == move[g].r \in {"activated", "done"}
NoMoveBefore ==
    /\ moves = 0 => \A g \in Agents : move[g].src = None
    /\ \A g \in Agents : moves <= 1 /\ move[g].src = None => claim[g].version = 0
    /\ \A g, h \in Agents :
          moves <= 1 /\ move[g].src # None /\ move[h].src # None => g = h
UnmarkedHere ==
    moves <= 1 =>
        \A m \in Machines : \A k \in Bound(m) :
            LET g == rows[m][k].agent IN
            rows[m][k].held = None => m \in data[g][k] \/ (m = move[g].src /\ Moved(g))
MarkedThere ==
    moves <= 1 =>
        \A m \in Machines : \A k \in Bound(m) :
            LET g == rows[m][k].agent
                held == rows[m][k].held
            IN  held # None => /\ m = move[g].dst /\ Moved(g) /\ held = move[g].src
                               /\ held \in data[g][k] \/ <<held, g>> \in misled
StreamMarks ==
    moves <= 1 =>
        \A g \in Agents : ~Moved(g) /\ move[g].s = "published" =>
            LET c == move[g].carried IN
            \A k \in DOMAIN c :
                IF k \in move[g].plan THEN c[k].row.held = None
                ELSE c[k].row.held = move[g].src /\ move[g].src \in data[g][k]

IInv ==
    /\ TablesType /\ ClaimsType /\ MovesType
    /\ SessionsBoundOnce /\ HistoriesReadable /\ HeldEnded /\ StreamsOK
    /\ Phases /\ VersionsOK /\ CachesOK
    /\ AdmittedMoveExports /\ PublishedKept
    /\ NoMoveBefore /\ UnmarkedHere /\ MarkedThere /\ StreamMarks

-----------------------------------------------------------------------------
(* Tables, histories and streams.                                          *)

\* What a member of each kind of table is.
LEMMA TableIs ==
    ASSUME NEW t \in Tables
    PROVE  /\ DOMAIN t \subseteq Keys
           /\ \A k \in DOMAIN t : t[k] \in RowSet
  BY DEF Tables

LEMMA HistoryIs ==
    ASSUME NEW h \in Histories
    PROVE  /\ DOMAIN h \subseteq Keys
           /\ \A k \in DOMAIN h : h[k] \in EntrySeqs
  BY DEF Histories

LEMMA StreamIs ==
    ASSUME NEW c \in Streams
    PROVE  /\ DOMAIN c \subseteq Keys
           /\ \A k \in DOMAIN c : c[k].row \in RowSet /\ c[k].entries \in EntrySeqs
  BY DEF Streams, CarriedSet

LEMMA NewTable ==
    ASSUME NEW D \in SUBSET Keys, NEW t \in [D -> RowSet]
    PROVE  t \in Tables
  BY DEF Tables

LEMMA NewHistory ==
    ASSUME NEW D \in SUBSET Keys, NEW h \in [D -> EntrySeqs]
    PROVE  h \in Histories
  BY DEF Histories

LEMMA NewStream ==
    ASSUME NEW D \in SUBSET Keys, NEW c \in [D -> CarriedSet]
    PROVE  c \in Streams
  BY DEF Streams

LEMMA EmptyTables ==
    /\ DOMAIN <<>> = {}
    /\ <<>> \in Tables /\ <<>> \in Histories /\ <<>> \in Streams
  <1>1. PICK e \in Seq(Keys) : e = <<>>  BY EmptySeq
  <1>2. e \in [{} -> RowSet] /\ e \in [{} -> EntrySeqs] /\ e \in [{} -> CarriedSet]
        /\ DOMAIN e = {}
    BY <1>1
  <1>3. {} \in SUBSET Keys  OBVIOUS
  <1>4. e \in Tables  BY <1>2, <1>3, NewTable
  <1>5. e \in Histories  BY <1>2, <1>3, NewHistory
  <1>6. e \in Streams  BY <1>2, <1>3, NewStream
  <1>. QED  BY <1>1, <1>2, <1>4, <1>5, <1>6

\* The bindings of a machine in a state of the invariant.
LEMMA BoundRow ==
    ASSUME TablesType, NEW m \in Machines, NEW k \in Bound(m)
    PROVE  k \in Keys /\ rows[m][k] \in RowSet
  <1>1. rows[m] \in Tables  BY DEF TablesType
  <1>. QED  BY <1>1, TableIs DEF Bound

LEMMA EntriesIs ==
    ASSUME TablesType, HistoriesReadable, NEW m \in Machines, NEW k
    PROVE  Entries(m, k) \in EntrySeqs /\ Readable(Entries(m, k))
  <1>1. history[m] \in Histories  BY DEF TablesType
  <1>2. CASE k \in DOMAIN history[m]
    <2>1. Entries(m, k) = history[m][k]  BY <1>2 DEF Entries
    <2>2. history[m][k] \in EntrySeqs  BY <1>1, <1>2, HistoryIs
    <2>3. Readable(history[m][k])  BY <1>2 DEF HistoriesReadable, Readable
    <2>. QED  BY <2>1, <2>2, <2>3
  <1>3. CASE k \notin DOMAIN history[m]
    <2>1. Entries(m, k) = <<>>  BY <1>3 DEF Entries
    <2>2. PICK e \in EntrySeqs : e = <<>>  BY EmptySeq DEF EntrySeqs
    <2>3. Len(e) = 0  BY <2>2 DEF EntrySeqs
    <2>4. Readable(e)  BY <2>2, <2>3, ConstantsAssumption DEF Readable
    <2>. QED  BY <2>1, <2>2, <2>4
  <1>. QED  BY <1>2, <1>3

\* A history with its entries for one reference set.
LEMMA WithEntriesIs ==
    ASSUME NEW h \in Histories, NEW k \in Keys, NEW es \in EntrySeqs
    PROVE  /\ WithEntries(h, k, es) \in Histories
           /\ \A x \in DOMAIN WithEntries(h, k, es) :
                 \/ x = k /\ WithEntries(h, k, es)[x] = es
                 \/ x # k /\ x \in DOMAIN h /\ WithEntries(h, k, es)[x] = h[x]
           /\ \A x \in DOMAIN h : x # k => x \in DOMAIN WithEntries(h, k, es)
           /\ es # <<>> => k \in DOMAIN WithEntries(h, k, es)
  <1>1. CASE es = <<>>
    <2> DEFINE new == [x \in DOMAIN h \ {k} |-> h[x]]
    <2>1. WithEntries(h, k, es) = new  BY <1>1 DEF WithEntries, Without
    <2>2. DOMAIN h \ {k} \in SUBSET Keys /\ new \in [DOMAIN h \ {k} -> EntrySeqs]
      BY HistoryIs
    <2>3. new \in Histories  BY <2>2, NewHistory
    <2>4. \A x \in DOMAIN new : x # k /\ x \in DOMAIN h /\ new[x] = h[x]  OBVIOUS
    <2>5. \A x \in DOMAIN h : x # k => x \in DOMAIN new  OBVIOUS
    <2> HIDE DEF new
    <2>. QED  BY <1>1, <2>1, <2>3, <2>4, <2>5
  <1>2. CASE es # <<>>
    <2> DEFINE new == [x \in DOMAIN h \cup {k} |-> IF x = k THEN es ELSE h[x]]
    <2>1. WithEntries(h, k, es) = new  BY <1>2 DEF WithEntries
    <2>2. DOMAIN h \cup {k} \in SUBSET Keys /\ new \in [DOMAIN h \cup {k} -> EntrySeqs]
      BY HistoryIs
    <2>3. new \in Histories  BY <2>2, NewHistory
    <2>4. \A x \in DOMAIN new :
             \/ x = k /\ new[x] = es
             \/ x # k /\ x \in DOMAIN h /\ new[x] = h[x]
      OBVIOUS
    <2>5. k \in DOMAIN new /\ \A x \in DOMAIN h : x \in DOMAIN new  OBVIOUS
    <2> HIDE DEF new
    <2>. QED  BY <2>1, <2>3, <2>4, <2>5
  <1>. QED  BY <1>1, <1>2

\* A history without some references.
LEMMA WithoutIs ==
    ASSUME NEW h \in Histories, NEW S
    PROVE  /\ Without(h, S) \in Histories
           /\ DOMAIN Without(h, S) = DOMAIN h \ S
           /\ \A x \in DOMAIN h \ S : Without(h, S)[x] = h[x]
  <1> DEFINE new == [x \in DOMAIN h \ S |-> h[x]]
  <1>1. DOMAIN h \ S \in SUBSET Keys /\ new \in [DOMAIN h \ S -> EntrySeqs]
    BY HistoryIs
  <1>2. new \in Histories  BY <1>1, NewHistory
  <1>. QED  BY <1>2 DEF Without

\* A network change keeps the entries there are, the cap and the order, whatever
\* the clock shows.
LEMMA WithNetworkIs ==
    ASSUME NEW es \in EntrySeqs, Readable(es), NEW net \in Nets \cup {None},
           NEW now \in Times, NetworkFits(es, net)
    PROVE  /\ WithNetwork(es, net, now) \in EntrySeqs
           /\ Readable(WithNetwork(es, net, now))
           /\ IsPrefix(es, WithNetwork(es, net, now))
  <1>0. now \in Nat /\ HistoryCap \in Nat  BY ConstantsAssumption
  <1>1. CASE net = None \/ Current(es) = net
    <2>1. WithNetwork(es, net, now) = es  BY <1>1 DEF WithNetwork
    <2>2. IsPrefix(es, es)  BY DEF IsPrefix, EntrySeqs
    <2>. QED  BY <2>1, <2>2
  <1>2. CASE ~(net = None \/ Current(es) = net)
    <2> DEFINE since == IF es = <<>> \/ now > Last(es).since THEN now ELSE Last(es).since + 1
               e == [net |-> net, since |-> since]
               new == Append(es, e)
    <2>1. WithNetwork(es, net, now) = new  BY <1>2 DEF WithNetwork
    <2>2. Len(es) < HistoryCap  BY <1>2 DEF NetworkFits
    <2>3. net \in Nets  BY <1>2
    <2>4. es # <<>> => /\ Len(es) \in 1..Len(es) /\ Last(es) = es[Len(es)]
                       /\ es[Len(es)].since \in Nat
      <3>1. es # <<>> => Len(es) # 0  BY EmptySeq DEF EntrySeqs
      <3>2. Len(es) \in Nat /\ \A i \in 1..Len(es) : es[i] \in [net : Nets, since : Nat]
        BY LenProperties, ElementOfSeq DEF EntrySeqs
      <3>3. es # <<>> => Len(es) \in 1..Len(es)  BY <3>1, <3>2
      <3>. QED  BY <3>2, <3>3 DEF Last
    <2>5. since \in Nat /\ (es # <<>> => since > es[Len(es)].since)
      BY <1>0, <2>4
    <2> HIDE DEF since
    <2>6. e \in [net : Nets, since : Nat]  BY <2>3, <2>5
    <2>7. new \in EntrySeqs /\ Len(new) = Len(es) + 1 /\ Len(es) \in Nat
          /\ new[Len(es) + 1] = e /\ \A i \in 1..Len(es) : new[i] = es[i]
      BY <2>6 DEF EntrySeqs
    <2>8. \A i \in 1 .. Len(new) - 1 : new[i].since < new[i + 1].since
      <3> SUFFICES ASSUME NEW i \in 1 .. Len(new) - 1
                   PROVE  new[i].since < new[i + 1].since
        OBVIOUS
      <3>1. i \in 1..Len(es)  BY <2>7
      <3>2. CASE i = Len(es)
        <4>1. es # <<>>  BY <3>1 DEF EntrySeqs
        <4>2. e.since > es[i].since /\ e.since \in Nat /\ es[i].since \in Nat
          BY <2>4, <2>5, <3>2, <4>1
        <4>. QED  BY <2>7, <3>1, <3>2, <4>2
      <3>3. CASE i # Len(es)
        <4>1. i \in 1 .. Len(es) - 1 /\ i + 1 \in 1..Len(es)  BY <2>7, <3>1, <3>3
        <4>. QED  BY <2>7, <3>1, <4>1 DEF Readable
      <3>. QED  BY <3>2, <3>3
    <2>9. Readable(new)  BY <1>0, <2>2, <2>7, <2>8 DEF Readable
    <2>10. IsPrefix(es, new)
      <3>1. SubSeq(es, 1, Len(es)) = SubSeq(new, 1, Len(es))
        BY <2>7 DEF EntrySeqs
      <3>. QED  BY <2>7, <3>1 DEF IsPrefix
    <2> HIDE DEF new
    <2>. QED  BY <2>1, <2>7, <2>9, <2>10
  <1>. QED  BY <1>1, <1>2

-----------------------------------------------------------------------------
(* Registrations.                                                          *)

LEMMA RequestIs ==
    ASSUME NEW q \in Requests
    PROVE  /\ q.key \in Keys /\ q.agent \in Agents
           /\ q.harness \in Harnesses /\ q.harness # None
           /\ q.session \in Sessions /\ q.session # None
           /\ q.runner \in Runners \cup {None} /\ q.net \in Nets \cup {None}
  BY ConstantsAssumption DEF Keys, Harnesses, Sessions, Nets

\* What a registration that is not refused knows of the binding it takes over and
\* of the others: no other binding has its host session or its runner's session.
TakesOver(m, q) ==
    /\ Previous(m, q) \in Keys /\ RunnerLeft(m, q) \in Runners \cup {None}
    /\ Previous(m, q) \in Bound(m) =>
          rows[m][Previous(m, q)].agent = q.agent /\ rows[m][Previous(m, q)].held = None
    /\ q.key \in Bound(m) => rows[m][q.key].agent = q.agent /\ rows[m][q.key].held = None
    /\ Previous(m, q) # q.key => Previous(m, q) \in Bound(m) /\ q.key \notin Bound(m)
    /\ \A k \in Bound(m) :
          /\ rows[m][k].session = q.session
          /\ \/ rows[m][k].harness = q.harness
             \/ RunnerLeft(m, q) # None /\ rows[m][k].runner = RunnerLeft(m, q)
          => k = Previous(m, q)
    /\ \A k \in Bound(m) :
          rows[m][k].held # None =>
              rows[m][k].session # q.session \/ rows[m][k].harness # q.harness

LEMMA RegistrationTakesOver ==
    ASSUME TablesType, SessionsBoundOnce, NEW m \in Machines, NEW q \in Requests,
           ~Remote(m, q), KeysFree(m, q)
    PROVE  TakesOver(m, q)
  <1> DEFINE p == Previous(m, q)
             rl == RunnerLeft(m, q)
             from == HostChangeFrom(m, q) \cup RekeyFrom(m, q)
  <1>1. (p = q.key /\ from = {}) \/ p \in from
    <2>1. CASE from = {}  BY <2>1 DEF Previous
    <2>2. CASE from # {}
      <3>1. p = CHOOSE k \in from : TRUE  BY <2>2 DEF Previous
      <3>. QED  BY <2>2, <3>1
    <2>. QED  BY <2>1, <2>2
  <1>2. from \subseteq Bound(m)
    BY DEF HostChangeFrom, RekeyFrom, BySession, ByRunner
  <1>3. q.key \in Keys /\ q.session # None  BY RequestIs
  <1>4. p \in Keys  BY <1>1, <1>2, <1>3, BoundRow
  <1>5. rl \in Runners \cup {None}
    <2>1. CASE q.runner # None  BY <2>1, RequestIs DEF RunnerLeft
    <2>2. CASE q.runner = None /\ p \in Bound(m)
      <3>1. rl = rows[m][p].runner  BY <2>2 DEF RunnerLeft
      <3>2. rows[m][p] \in RowSet  BY <2>2, BoundRow
      <3>. QED  BY <3>1, <3>2 DEF RowSet
    <2>3. CASE q.runner = None /\ p \notin Bound(m)  BY <2>3 DEF RunnerLeft
    <2>. QED  BY <2>1, <2>2, <2>3
  <1>6. \A k \in Bound(m) :
           rows[m][k].held # None => k # q.key /\ k \notin BySession(m, q.harness, q.session)
    BY DEF Remote
  <1>7. q.key \in Bound(m) => rows[m][q.key].agent = q.agent /\ rows[m][q.key].held = None
    BY <1>6 DEF KeysFree
  <1>8. p \in Bound(m) => rows[m][p].agent = q.agent /\ rows[m][p].held = None
    <2>1. CASE p = q.key  BY <2>1, <1>7
    <2>2. CASE p \in RekeyFrom(m, q)
      BY <2>2, <1>6 DEF KeysFree, RekeyFrom
    <2>3. CASE p \in HostChangeFrom(m, q)
      <3>1. rows[m][p].held = None  BY <2>3 DEF KeysFree
      <3>2. rows[m][p].agent = q.agent  BY <2>3 DEF HostChangeFrom
      <3>. QED  BY <3>1, <3>2
    <2>. QED  BY <1>1, <2>1, <2>2, <2>3
  <1>9. p # q.key => p \in Bound(m) /\ q.key \notin Bound(m)
    <2>1. CASE p \in RekeyFrom(m, q)  BY <2>1, <1>2 DEF KeysFree
    <2>2. CASE p \in HostChangeFrom(m, q)  BY <2>2, <1>2 DEF HostChangeFrom
    <2>. QED  BY <1>1, <2>1, <2>2
  <1>10. ASSUME NEW k \in BySession(m, q.harness, q.session)
         PROVE  k = p
    <2>1. k \in Bound(m) /\ rows[m][k].harness = q.harness /\ rows[m][k].session = q.session
      BY DEF BySession
    <2>2. \A l \in BySession(m, q.harness, q.session) : l = k
      BY <2>1, <1>3 DEF BySession, SessionsBoundOnce
    <2>3. HostChangeFrom(m, q) = {}  BY <1>10 DEF HostChangeFrom
    <2>4. CASE k = q.key
      <3>1. RekeyFrom(m, q) = {}  BY <2>2, <2>4 DEF RekeyFrom
      <3>. QED  BY <1>1, <2>3, <2>4, <3>1
    <2>5. CASE k # q.key
      <3>1. k \in RekeyFrom(m, q)  BY <2>5 DEF RekeyFrom
      <3>2. p \in RekeyFrom(m, q)  BY <1>1, <2>3, <3>1
      <3>. QED  BY <2>2, <3>2 DEF RekeyFrom
    <2>. QED  BY <2>4, <2>5
  <1>11. \A k \in ByRunner(m, rl, q.session) : k = p  BY DEF KeysFree
  <1>12. ASSUME NEW k \in Bound(m), rows[m][k].session = q.session,
                \/ rows[m][k].harness = q.harness
                \/ rl # None /\ rows[m][k].runner = rl
         PROVE  k = p
    <2>1. CASE rows[m][k].harness = q.harness
      <3>1. k \in BySession(m, q.harness, q.session)  BY <1>12, <2>1 DEF BySession
      <3>. QED  BY <3>1, <1>10
    <2>2. CASE rl # None /\ rows[m][k].runner = rl
      <3>1. k \in ByRunner(m, rl, q.session)  BY <1>12, <2>2 DEF ByRunner
      <3>. QED  BY <3>1, <1>11
    <2>. QED  BY <1>12, <2>1, <2>2
  <1>13. ASSUME NEW k \in Bound(m), rows[m][k].held # None
         PROVE  rows[m][k].session # q.session \/ rows[m][k].harness # q.harness
    BY <1>6, <1>13 DEF BySession
  <1> HIDE DEF p, rl
  <1>. QED
    BY <1>4, <1>5, <1>7, <1>8, <1>9, <1>12, <1>13 DEF TakesOver, p, rl

\* The two tables after a registration.
Registered(m, q, now) ==
    /\ rows' = [rows EXCEPT ![m] = rows'[m]] /\ history' = [history EXCEPT ![m] = history'[m]]
    /\ DOMAIN rows'[m] = (Bound(m) \ {Previous(m, q)}) \cup {q.key}
    /\ rows'[m][q.key] = Row(q.agent, q.harness, q.session, RunnerLeft(m, q), 0, None)
    /\ \A k \in Bound(m) : k # Previous(m, q) /\ k # q.key => rows'[m][k] = rows[m][k]
    /\ rows'[m] \in Tables
    /\ history'[m] = HistoryAfter(m, q, now)

LEMMA RegistrationWrites ==
    ASSUME TablesType, NEW m \in Machines, NEW q \in Requests, NEW now \in Times,
           TakesOver(m, q), RegisterSession(m, q, now)
    PROVE  Registered(m, q, now)
  <1> DEFINE p == Previous(m, q)
             D == (Bound(m) \ {p}) \cup {q.key}
             new == [k \in D |->
                       IF k = q.key
                       THEN Row(q.agent, q.harness, q.session, RunnerLeft(m, q), 0, None)
                       ELSE rows[m][k]]
  <1>1. rows' = [rows EXCEPT ![m] = new]
        /\ history' = [history EXCEPT ![m] = HistoryAfter(m, q, now)]
    BY DEF RegisterSession
  <1>2. Row(q.agent, q.harness, q.session, RunnerLeft(m, q), 0, None) \in RowSet
    BY RequestIs DEF Row, RowSet, TakesOver
  <1>3. D \in SUBSET Keys /\ \A k \in Bound(m) : rows[m][k] \in RowSet
    BY BoundRow, RequestIs
  <1>4. new \in [D -> RowSet]  BY <1>2, <1>3
  <1>5. new \in Tables  BY <1>3, <1>4, NewTable
  <1>6. DOMAIN rows = Machines /\ DOMAIN history = Machines  BY DEF TablesType
  <1>7. rows'[m] = new /\ history'[m] = HistoryAfter(m, q, now)  BY <1>1, <1>6
  <1>8. DOMAIN new = D /\ new[q.key] = Row(q.agent, q.harness, q.session, RunnerLeft(m, q), 0, None)
        /\ \A k \in Bound(m) : k # p /\ k # q.key => new[k] = rows[m][k]
    OBVIOUS
  <1> HIDE DEF new
  <1>9. rows' = [rows EXCEPT ![m] = rows'[m]] /\ history' = [history EXCEPT ![m] = history'[m]]
    BY <1>1, <1>7
  <1>. QED  BY <1>5, <1>7, <1>8, <1>9 DEF Registered

\* The history of the binding that a registration takes over goes to its new key,
\* with the network change, and every other history stays.
LEMMA RegisteredHistory ==
    ASSUME TablesType, HistoriesReadable, NEW m \in Machines, NEW q \in Requests,
           NEW now \in Times, TakesOver(m, q), RegisterSession(m, q, now)
    PROVE  LET p == Previous(m, q)
               es == WithNetwork(Entries(m, p), q.net, now)
           IN  /\ history'[m] \in Histories
               /\ es \in EntrySeqs /\ Readable(es) /\ IsPrefix(Entries(m, p), es)
               /\ \A x \in DOMAIN history'[m] :
                     \/ x = q.key /\ history'[m][x] = es
                     \/ x # q.key /\ x # p /\ x \in DOMAIN history[m]
                           /\ history'[m][x] = history[m][x]
               /\ \A x \in DOMAIN history[m] :
                     x # q.key /\ x # p => x \in DOMAIN history'[m]
               /\ es # <<>> => q.key \in DOMAIN history'[m]
  <1> DEFINE p == Previous(m, q)
             es == WithNetwork(Entries(m, p), q.net, now)
             h == Without(history[m], {p})
  <1>1. Entries(m, p) \in EntrySeqs /\ Readable(Entries(m, p))  BY EntriesIs
  <1>2. NetworkFits(Entries(m, p), q.net)  BY DEF RegisterSession
  <1>3. q.net \in Nets \cup {None} /\ q.key \in Keys  BY RequestIs
  <1>4. es \in EntrySeqs /\ Readable(es) /\ IsPrefix(Entries(m, p), es)
    BY <1>1, <1>2, <1>3, WithNetworkIs
  <1>5. history[m] \in Histories  BY DEF TablesType
  <1>6. h \in Histories /\ DOMAIN h = DOMAIN history[m] \ {p}
        /\ \A x \in DOMAIN history[m] \ {p} : h[x] = history[m][x]
    BY <1>5, WithoutIs
  <1>7. history'[m] = WithEntries(h, q.key, es)
    <2>1. DOMAIN history = Machines  BY DEF TablesType
    <2>2. history' = [history EXCEPT ![m] = HistoryAfter(m, q, now)]  BY DEF RegisterSession
    <2>3. history'[m] = HistoryAfter(m, q, now)  BY <2>1, <2>2
    <2>. QED  BY <2>3 DEF HistoryAfter
  <1> HIDE DEF h, es
  <1>8. /\ WithEntries(h, q.key, es) \in Histories
        /\ \A x \in DOMAIN WithEntries(h, q.key, es) :
              \/ x = q.key /\ WithEntries(h, q.key, es)[x] = es
              \/ x # q.key /\ x \in DOMAIN h /\ WithEntries(h, q.key, es)[x] = h[x]
        /\ \A x \in DOMAIN h : x # q.key => x \in DOMAIN WithEntries(h, q.key, es)
        /\ es # <<>> => q.key \in DOMAIN WithEntries(h, q.key, es)
    BY <1>3, <1>4, <1>6, WithEntriesIs
  <1>9. \A x \in DOMAIN history'[m] :
           \/ x = q.key /\ history'[m][x] = es
           \/ x # q.key /\ x # p /\ x \in DOMAIN history[m] /\ history'[m][x] = history[m][x]
    BY <1>6, <1>7, <1>8
  <1>10. \A x \in DOMAIN history[m] : x # q.key /\ x # p => x \in DOMAIN history'[m]
    BY <1>6, <1>7, <1>8
  <1>. QED  BY <1>4, <1>7, <1>8, <1>9, <1>10 DEF es

\* The part of the invariant that is about the two tables.
TablesOK == TablesType /\ SessionsBoundOnce /\ HistoriesReadable /\ HeldEnded

\* A step at one machine keeps it, if it does on that machine.
OneTableOK(t, h) ==
    /\ t \in Tables /\ h \in Histories
    /\ \A k, l \in DOMAIN t : k # l => Apart(t[k], t[l])
    /\ \A k \in DOMAIN h : k \in DOMAIN t /\ Readable(h[k])
    /\ \A k \in DOMAIN t : t[k].held # None => t[k].ended # 0

LEMMA TablesOKIs ==
    ASSUME DOMAIN rows = Machines, DOMAIN history = Machines,
           rows = [m \in Machines |-> rows[m]], history = [m \in Machines |-> history[m]]
    PROVE  TablesOK <=> \A m \in Machines : OneTableOK(rows[m], history[m])
  <1>1. ASSUME TablesOK, NEW m \in Machines  PROVE OneTableOK(rows[m], history[m])
    <2>1. rows[m] \in Tables /\ history[m] \in Histories  BY <1>1 DEF TablesOK, TablesType
    <2>2. \A k, l \in DOMAIN rows[m] : k # l => Apart(rows[m][k], rows[m][l])
      BY <1>1 DEF TablesOK, SessionsBoundOnce, Apart, Bound
    <2>3. \A k \in DOMAIN history[m] : k \in DOMAIN rows[m] /\ Readable(history[m][k])
      BY <1>1 DEF TablesOK, HistoriesReadable, Readable, Bound
    <2>4. \A k \in DOMAIN rows[m] : rows[m][k].held # None => rows[m][k].ended # 0
      BY <1>1 DEF TablesOK, HeldEnded, Bound
    <2>. QED  BY <2>1, <2>2, <2>3, <2>4 DEF OneTableOK
  <1>2. ASSUME \A m \in Machines : OneTableOK(rows[m], history[m])  PROVE TablesOK
    <2>1. TablesType  BY <1>2 DEF OneTableOK, TablesType
    <2>2. SessionsBoundOnce  BY <1>2 DEF OneTableOK, SessionsBoundOnce, Apart, Bound
    <2>3. HistoriesReadable  BY <1>2 DEF OneTableOK, HistoriesReadable, Readable, Bound
    <2>4. HeldEnded  BY <1>2 DEF OneTableOK, HeldEnded, Bound
    <2>. QED  BY <2>1, <2>2, <2>3, <2>4 DEF TablesOK
  <1>. QED  BY <1>1, <1>2

LEMMA TablesOKAt ==
    ASSUME TablesOK, NEW m \in Machines
    PROVE  OneTableOK(rows[m], history[m])
  <1>1. /\ DOMAIN rows = Machines /\ DOMAIN history = Machines
        /\ rows = [x \in Machines |-> rows[x]] /\ history = [x \in Machines |-> history[x]]
    BY DEF TablesOK, TablesType
  <1>. QED  BY <1>1, TablesOKIs

LEMMA OneTableStep ==
    ASSUME TablesOK, NEW m \in Machines,
           rows' = [rows EXCEPT ![m] = rows'[m]], history' = [history EXCEPT ![m] = history'[m]],
           OneTableOK(rows'[m], history'[m])
    PROVE  TablesOK'
  <1>1. /\ rows \in [Machines -> Tables] /\ history \in [Machines -> Histories]
    BY DEF TablesOK, TablesType
  <1>2. \A x \in Machines : OneTableOK(rows[x], history[x])  BY TablesOKAt
  <1>3. \A x \in Machines \ {m} : rows'[x] = rows[x] /\ history'[x] = history[x]  BY <1>1
  <1>4. \A x \in Machines : OneTableOK(rows'[x], history'[x])  BY <1>2, <1>3
  <1>5. TablesType'
    <2>1. \A x \in Machines : rows'[x] \in Tables /\ history'[x] \in Histories
      BY <1>4 DEF OneTableOK
    <2>2. rows' = [x \in Machines |-> rows'[x]] /\ history' = [x \in Machines |-> history'[x]]
      BY <1>1
    <2>. QED  BY <2>1, <2>2 DEF TablesType
  <1>6. SessionsBoundOnce'  BY <1>4 DEF OneTableOK, SessionsBoundOnce, Apart, Bound
  <1>7. HistoriesReadable'  BY <1>4 DEF OneTableOK, HistoriesReadable, Readable, Bound
  <1>8. HeldEnded'  BY <1>4 DEF OneTableOK, HeldEnded, Bound
  <1>. QED  BY <1>5, <1>6, <1>7, <1>8 DEF TablesOK

\* A registration keeps the tables: the two unique keys, and the histories.
LEMMA RegisterTables ==
    ASSUME TablesOK, NEW m \in Machines, NEW q \in Requests, NEW now \in Times,
           RegisterSession(m, q, now)
    PROVE  TablesOK' /\ TakesOver(m, q) /\ Registered(m, q, now)
  <1> DEFINE p == Previous(m, q)
             t == rows[m]
             u == rows'[m]
  <1>1. TablesType /\ SessionsBoundOnce /\ HistoriesReadable  BY DEF TablesOK
  <1>2. TakesOver(m, q)
    BY <1>1, RegistrationTakesOver DEF RegisterSession
  <1>3. Registered(m, q, now)  BY <1>1, <1>2, RegistrationWrites
  <1>4. OneTableOK(t, history[m])  BY TablesOKAt
  <1>5. DOMAIN u = (DOMAIN t \ {p}) \cup {q.key}
        /\ u[q.key] = Row(q.agent, q.harness, q.session, RunnerLeft(m, q), 0, None)
        /\ (\A k \in DOMAIN t : k # p /\ k # q.key => u[k] = t[k])
        /\ u \in Tables
    BY <1>3 DEF Registered, Bound
  <1>6. \A k \in DOMAIN t :
          t[k].session = q.session /\ (t[k].harness = q.harness \/
              (RunnerLeft(m, q) # None /\ t[k].runner = RunnerLeft(m, q))) => k = p
    BY <1>2 DEF TakesOver, Bound
  <1>7. ASSUME NEW k \in DOMAIN u, NEW l \in DOMAIN u, k # l
        PROVE  Apart(u[k], u[l])
    <2>1. CASE k # q.key /\ l # q.key
      BY <1>4, <1>5, <1>7, <2>1 DEF OneTableOK
    <2>2. CASE k = q.key
      <3>1. l \in DOMAIN t /\ l # p /\ u[l] = t[l]  BY <1>5, <1>7, <2>2
      <3>. QED  BY <1>5, <1>6, <2>2, <3>1 DEF Apart, Row
    <2>3. CASE l = q.key
      <3>1. k \in DOMAIN t /\ k # p /\ u[k] = t[k]  BY <1>5, <1>7, <2>3
      <3>. QED  BY <1>5, <1>6, <2>3, <3>1 DEF Apart, Row
    <2>. QED  BY <2>1, <2>2, <2>3
  <1>8. ASSUME NEW k \in DOMAIN u, u[k].held # None
        PROVE  u[k].ended # 0
    <2>1. k # q.key  BY <1>5, <1>8 DEF Row
    <2>. QED  BY <1>4, <1>5, <1>8, <2>1 DEF OneTableOK
  <1>9. /\ history'[m] \in Histories
        /\ \A k \in DOMAIN history'[m] : k \in DOMAIN u /\ Readable(history'[m][k])
    <2> DEFINE es == WithNetwork(Entries(m, p), q.net, now)
    <2>1. /\ history'[m] \in Histories /\ Readable(es)
          /\ \A x \in DOMAIN history'[m] :
                \/ x = q.key /\ history'[m][x] = es
                \/ x # q.key /\ x # p /\ x \in DOMAIN history[m]
                      /\ history'[m][x] = history[m][x]
      BY <1>1, <1>2, RegisteredHistory
    <2> HIDE DEF es
    <2>2. \A x \in DOMAIN history[m] : x \in DOMAIN t /\ Readable(history[m][x])
      BY <1>4 DEF OneTableOK
    <2>. QED  BY <1>5, <2>1, <2>2
  <1>10. OneTableOK(u, history'[m])
    BY <1>5, <1>7, <1>8, <1>9 DEF OneTableOK
  <1>11. TablesOK'
    BY <1>3, <1>10, OneTableStep DEF Registered
  <1>. QED  BY <1>2, <1>3, <1>11

-----------------------------------------------------------------------------
(* Ends, network changes and pruning.                                      *)

\* What an end does to the rows: the binding of k gets its end, and perhaps a
\* runner that no other binding of this session has.
Ended(m, k, now, runner) ==
    /\ k \in Bound(m) /\ rows[m][k].ended = 0 /\ runner \in Runners \cup {None}
    /\ \/ runner = rows[m][k].runner
       \/ rows[m][k].runner = None /\ ByRunner(m, runner, rows[m][k].session) = {}
    /\ rows' = [rows EXCEPT ![m] = rows'[m]] /\ history' = history
    /\ DOMAIN rows'[m] = Bound(m) /\ rows'[m] = [rows[m] EXCEPT ![k] = rows'[m][k]]
    /\ rows'[m][k] = [rows[m][k] EXCEPT !.ended = now, !.runner = runner]
    /\ \A l \in Bound(m) : l # k => rows'[m][l] = rows[m][l]

LEMMA EndSessionEnds ==
    ASSUME TablesType, NEW m \in Machines, NEW k \in Bound(m), NEW r \in Runners \cup {None},
           NEW now \in Times, EndSession(m, k, r, now)
    PROVE  Ended(m, k, now, EndRunner(m, k, r))
  <1> DEFINE runner == EndRunner(m, k, r)
  <1>1. rows[m][k] \in RowSet  BY BoundRow
  <1>2. runner \in Runners \cup {None}
    BY <1>1 DEF EndRunner, RowSet
  <1>3. \/ runner = rows[m][k].runner
        \/ rows[m][k].runner = None /\ ByRunner(m, runner, rows[m][k].session) = {}
    <2>1. ByRunner(m, None, rows[m][k].session) = {}  BY DEF ByRunner
    <2>. QED  BY <2>1 DEF EndRunner
  <1>4. DOMAIN rows = Machines  BY DEF TablesType
  <1>5. rows[m] \in Tables  BY DEF TablesType
  <1>6. rows' = [rows EXCEPT ![m][k].ended = now, ![m][k].runner = runner]
        /\ rows[m][k].ended = 0 /\ history' = history
    BY DEF EndSession
  <1> HIDE DEF runner
  <1>7. rows' = [rows EXCEPT ![m] =
            [rows[m] EXCEPT ![k] = [rows[m][k] EXCEPT !.ended = now, !.runner = runner]]]
    BY <1>4, <1>6 DEF Bound
  <1>8. rows'[m] = [rows[m] EXCEPT ![k] = [rows[m][k] EXCEPT !.ended = now, !.runner = runner]]
    BY <1>4, <1>7
  <1>9. rows' = [rows EXCEPT ![m] = rows'[m]]  BY <1>7, <1>8
  <1>10. DOMAIN rows'[m] = Bound(m) /\ rows'[m] = [rows[m] EXCEPT ![k] = rows'[m][k]]
         /\ rows'[m][k] = [rows[m][k] EXCEPT !.ended = now, !.runner = runner]
         /\ \A l \in Bound(m) : l # k => rows'[m][l] = rows[m][l]
    BY <1>8 DEF Bound
  <1>. QED  BY <1>2, <1>3, <1>6, <1>9, <1>10 DEF Ended, runner

LEMMA StampGoneEnds ==
    ASSUME TablesType, NEW m \in Machines, NEW k \in Bound(m), NEW r \in Runners \cup {None},
           NEW now \in Times, StampGone(m, k, r, now)
    PROVE  Ended(m, k, now, rows[m][k].runner)
  <1>1. rows[m][k] \in RowSet  BY BoundRow
  <1>2. rows[m][k].runner \in Runners \cup {None}  BY <1>1 DEF RowSet
  <1>4. DOMAIN rows = Machines  BY DEF TablesType
  <1>6. rows' = [rows EXCEPT ![m][k].ended = now] /\ rows[m][k].ended = 0 /\ history' = history
    BY DEF StampGone
  <1>7. rows' = [rows EXCEPT ![m] = [rows[m] EXCEPT ![k] = [rows[m][k] EXCEPT !.ended = now]]]
    BY <1>4, <1>6 DEF Bound
  <1>8. rows'[m] = [rows[m] EXCEPT ![k] = [rows[m][k] EXCEPT !.ended = now]]  BY <1>4, <1>7
  <1>9. rows' = [rows EXCEPT ![m] = rows'[m]]  BY <1>7, <1>8
  <1>10. DOMAIN rows'[m] = Bound(m) /\ rows'[m] = [rows[m] EXCEPT ![k] = rows'[m][k]]
         /\ rows'[m][k] = [rows[m][k] EXCEPT !.ended = now]
         /\ \A l \in Bound(m) : l # k => rows'[m][l] = rows[m][l]
    BY <1>8 DEF Bound
  <1>11. [rows[m][k] EXCEPT !.ended = now]
           = [rows[m][k] EXCEPT !.ended = now, !.runner = rows[m][k].runner]
    BY <1>1 DEF RowSet
  <1>. QED  BY <1>2, <1>6, <1>9, <1>10, <1>11 DEF Ended

LEMMA EndedTables ==
    ASSUME TablesOK, NEW m \in Machines, NEW k, NEW now \in Times, NEW runner,
           Ended(m, k, now, runner)
    PROVE  TablesOK'
  <1> DEFINE t == rows[m]
             u == rows'[m]
  <1>1. OneTableOK(t, history[m])  BY TablesOKAt
  <1>2. /\ k \in DOMAIN t /\ t[k].ended = 0 /\ runner \in Runners \cup {None}
        /\ DOMAIN u = DOMAIN t /\ u[k] = [t[k] EXCEPT !.ended = now, !.runner = runner]
        /\ \A l \in DOMAIN t : l # k => u[l] = t[l]
        /\ rows' = [rows EXCEPT ![m] = u] /\ history' = history
        /\ u = [t EXCEPT ![k] = u[k]]
    BY DEF Ended, Bound
  <1>3. now \in Nat /\ now # 0  BY ConstantsAssumption
  <1>4. t \in Tables  BY <1>1 DEF OneTableOK
  <1>5. DOMAIN t \in SUBSET Keys /\ \A l \in DOMAIN t : t[l] \in RowSet  BY <1>4, TableIs
  <1>6. u[k] \in RowSet /\ u[k].ended = now /\ u[k].runner = runner
        /\ u[k].session = t[k].session /\ u[k].harness = t[k].harness
    BY <1>2, <1>5 DEF RowSet
  <1>7. u \in Tables
    <2>1. PICK D \in SUBSET Keys : t \in [D -> RowSet]  BY <1>4 DEF Tables
    <2>2. u \in [D -> RowSet]  BY <1>2, <1>6, <2>1
    <2>. QED  BY <2>1, <2>2, NewTable
  <1>8. ASSUME NEW x \in DOMAIN t, x # k
        PROVE  Apart(u[k], u[x]) /\ Apart(u[x], u[k])
    <2>1. Apart(t[k], t[x]) /\ Apart(t[x], t[k]) /\ u[x] = t[x]
      BY <1>1, <1>2, <1>8 DEF OneTableOK
    <2>2. CASE runner = t[k].runner  BY <1>6, <2>1, <2>2 DEF Apart
    <2>3. CASE runner # t[k].runner
      <3>1. ByRunner(m, runner, t[k].session) = {}  BY <2>3 DEF Ended
      <3>2. runner = None \/ t[x].runner # runner \/ t[x].session # t[k].session
        BY <1>8, <3>1 DEF ByRunner, Bound
      <3>. QED  BY <1>6, <2>1, <3>2 DEF Apart
    <2>. QED  BY <2>2, <2>3
  <1>9. ASSUME NEW x \in DOMAIN u, NEW y \in DOMAIN u, x # y
        PROVE  Apart(u[x], u[y])
    <2>1. CASE x # k /\ y # k  BY <1>1, <1>2, <1>9, <2>1 DEF OneTableOK
    <2>2. CASE x = k \/ y = k  BY <1>2, <1>8, <1>9, <2>2
    <2>. QED  BY <2>1, <2>2
  <1>10. ASSUME NEW x \in DOMAIN u, u[x].held # None
         PROVE  u[x].ended # 0
    <2>1. CASE x = k  BY <1>3, <1>6, <2>1
    <2>2. CASE x # k  BY <1>1, <1>2, <1>10, <2>2 DEF OneTableOK
    <2>. QED  BY <2>1, <2>2
  <1>11. OneTableOK(u, history'[m])
    BY <1>1, <1>2, <1>7, <1>9, <1>10 DEF OneTableOK
  <1>12. history' = [history EXCEPT ![m] = history'[m]]
    BY <1>2 DEF TablesOK, TablesType
  <1>. QED  BY <1>2, <1>11, <1>12, OneTableStep

\* A network change adds to one history.
LEMMA SetNetworkTables ==
    ASSUME TablesOK, NEW m \in Machines, NEW k \in Bound(m), NEW net \in Nets,
           NEW now \in Times, SetSessionNetwork(m, k, net, now)
    PROVE  /\ TablesOK' /\ rows' = rows
           /\ history' = [history EXCEPT ![m] = history'[m]]
           /\ \A x \in DOMAIN history'[m] :
                 \/ x = k
                 \/ x # k /\ x \in DOMAIN history[m] /\ history'[m][x] = history[m][x]
           /\ \A x \in DOMAIN history[m] : x # k =>
                 x \in DOMAIN history'[m] /\ history'[m][x] = history[m][x]
           /\ k \in DOMAIN history'[m] => IsPrefix(Entries(m, k), history'[m][k])
           /\ Entries(m, k) # <<>> => k \in DOMAIN history'[m]
  <1> DEFINE es == WithNetwork(Entries(m, k), net, now)
             h == history[m]
  <1>1. TablesType /\ HistoriesReadable  BY DEF TablesOK
  <1>2. Entries(m, k) \in EntrySeqs /\ Readable(Entries(m, k))  BY <1>1, EntriesIs
  <1>3. NetworkFits(Entries(m, k), net) /\ rows' = rows
        /\ history' = [history EXCEPT ![m] = WithEntries(history[m], k, es)]
    BY DEF SetSessionNetwork
  <1>4. es \in EntrySeqs /\ Readable(es) /\ IsPrefix(Entries(m, k), es)
    BY <1>2, <1>3, WithNetworkIs
  <1>5. h \in Histories /\ k \in Keys  BY <1>1, BoundRow DEF TablesType
  <1>6. history'[m] = WithEntries(h, k, es)  BY <1>1, <1>3 DEF TablesType
  <1>7. history' = [history EXCEPT ![m] = history'[m]]  BY <1>3, <1>6
  <1> HIDE DEF es
  <1>8. /\ WithEntries(h, k, es) \in Histories
        /\ \A x \in DOMAIN WithEntries(h, k, es) :
              \/ x = k /\ WithEntries(h, k, es)[x] = es
              \/ x # k /\ x \in DOMAIN h /\ WithEntries(h, k, es)[x] = h[x]
        /\ \A x \in DOMAIN h : x # k => x \in DOMAIN WithEntries(h, k, es)
        /\ es # <<>> => k \in DOMAIN WithEntries(h, k, es)
    BY <1>4, <1>5, WithEntriesIs
  <1>9. OneTableOK(rows[m], history[m])  BY TablesOKAt
  <1>10. \A x \in DOMAIN history'[m] : x \in DOMAIN rows[m] /\ Readable(history'[m][x])
    BY <1>4, <1>6, <1>8, <1>9 DEF OneTableOK, Bound
  <1>11. OneTableOK(rows'[m], history'[m])
    BY <1>3, <1>6, <1>8, <1>9, <1>10 DEF OneTableOK
  <1>12. rows' = [rows EXCEPT ![m] = rows'[m]]  BY <1>1, <1>3 DEF TablesType
  <1>13. TablesOK'  BY <1>7, <1>11, <1>12, OneTableStep
  <1>14. Entries(m, k) # <<>> => es # <<>>
    <2>1. Len(Entries(m, k)) <= Len(es)  BY <1>4 DEF IsPrefix
    <2>2. Entries(m, k) # <<>> => Len(Entries(m, k)) \in Nat \ {0}
      BY <1>2, EmptySeq DEF EntrySeqs
    <2>. QED  BY <2>1, <2>2, EmptySeq
  <1>. QED  BY <1>3, <1>4, <1>6, <1>7, <1>8, <1>13, <1>14

\* Pruning deletes finished bindings with their histories.
LEMMA PruneTables ==
    ASSUME TablesOK, NEW m \in Machines, NEW cutoff \in Times, NEW K \in SUBSET Prunable(m, cutoff),
           PruneEnded(m, cutoff, K)
    PROVE  /\ TablesOK'
           /\ rows' = [rows EXCEPT ![m] = rows'[m]] /\ history' = [history EXCEPT ![m] = history'[m]]
           /\ DOMAIN rows'[m] = Bound(m) \ K
           /\ \A k \in Bound(m) \ K : rows'[m][k] = rows[m][k]
           /\ DOMAIN history'[m] = DOMAIN history[m] \ K
           /\ \A k \in DOMAIN history[m] \ K : history'[m][k] = history[m][k]
  <1> DEFINE t == rows[m]
             u == [k \in DOMAIN t \ K |-> t[k]]
  <1>1. TablesType  BY DEF TablesOK
  <1>2. rows' = [rows EXCEPT ![m] = u] /\ history' = [history EXCEPT ![m] = Without(history[m], K)]
    BY DEF PruneEnded, Without
  <1>3. rows'[m] = u /\ history'[m] = Without(history[m], K)  BY <1>1, <1>2 DEF TablesType
  <1>4. OneTableOK(t, history[m])  BY TablesOKAt
  <1>5. t \in Tables /\ history[m] \in Histories  BY <1>4 DEF OneTableOK
  <1>6. DOMAIN t \ K \in SUBSET Keys /\ u \in [DOMAIN t \ K -> RowSet]  BY <1>5, TableIs
  <1>7. u \in Tables  BY <1>6, NewTable
  <1>8. /\ history'[m] \in Histories
        /\ DOMAIN history'[m] = DOMAIN history[m] \ K
        /\ \A x \in DOMAIN history[m] \ K : history'[m][x] = history[m][x]
    <2> DEFINE h == history[m]
    <2>1. h \in Histories  BY <1>5
    <2> HIDE DEF h
    <2>2. /\ Without(h, K) \in Histories
          /\ DOMAIN Without(h, K) = DOMAIN h \ K
          /\ \A x \in DOMAIN h \ K : Without(h, K)[x] = h[x]
      BY <2>1, WithoutIs
    <2>. QED  BY <1>3, <2>2 DEF h
  <1>9. DOMAIN u = DOMAIN t \ K /\ \A k \in DOMAIN t \ K : u[k] = t[k]  OBVIOUS
  <1> HIDE DEF u
  <1>10. OneTableOK(u, history'[m])
    BY <1>4, <1>7, <1>8, <1>9 DEF OneTableOK
  <1>11. rows' = [rows EXCEPT ![m] = rows'[m]] /\ history' = [history EXCEPT ![m] = history'[m]]
    BY <1>2, <1>3
  <1>12. TablesOK'  BY <1>3, <1>10, <1>11, OneTableStep
  <1>. QED  BY <1>3, <1>8, <1>9, <1>11, <1>12 DEF Bound

-----------------------------------------------------------------------------
(* The bindings that an activation installs.                               *)

\* A carried row that is installed keeps its session, and a placeholder has none.
LEMMA InstalledRowIs ==
    ASSUME TablesType, MovesType, StreamsOK, NEW g \in Agents, NEW m \in Machines,
           NEW k \in Installed(m, g)
    PROVE  /\ k \in Keys \ Bound(m)
           /\ InstalledRow(m, g, k) \in RowSet /\ InstalledRow(m, g, k).agent = g
           /\ \/ InstalledRow(m, g, k).session = None /\ InstalledRow(m, g, k).held = None
                    /\ k \in move[g].plan
              \/ /\ k \in DOMAIN move[g].carried /\ ~Collides(m, move[g].carried[k].row)
                 /\ InstalledRow(m, g, k).session = move[g].carried[k].row.session
                 /\ InstalledRow(m, g, k).harness = move[g].carried[k].row.harness
                 /\ InstalledRow(m, g, k).runner = move[g].carried[k].row.runner
                 /\ InstalledRow(m, g, k).ended = move[g].carried[k].row.ended
                 /\ \/ InstalledRow(m, g, k).held = move[g].carried[k].row.held
                    \/ InstalledRow(m, g, k).held = None /\ move[g].carried[k].row.held = m
                 /\ k \in move[g].plan \/ move[g].carried[k].row.held # None
           /\ InstalledRow(m, g, k).held # None => InstalledRow(m, g, k).ended # 0
  <1> DEFINE c == move[g].carried
  <1>1. move[g] \in MoveSet  BY DEF MovesType
  <1>2. move[g].carried \in Streams /\ move[g].plan \subseteq Keys  BY <1>1 DEF MoveSet
  <1>3. DOMAIN c \subseteq Keys /\ \A x \in DOMAIN c : c[x].row \in RowSet
    BY <1>2, StreamIs
  <1>4. \A x \in DOMAIN c : c[x].row.agent = g /\ (c[x].row.held # None => c[x].row.ended # 0)
    BY DEF StreamsOK, StreamOK
  <1>5. k \notin Bound(m)
        /\ (k \in move[g].plan
              \/ (k \in DOMAIN c /\ c[k].row.held # None /\ ~Collides(m, c[k].row)))
    BY DEF Installed
  <1>6. k \in Keys \ Bound(m)  BY <1>2, <1>3, <1>5
  <1>7. CASE k \notin DOMAIN c \/ Collides(m, c[k].row)
    <2>1. InstalledRow(m, g, k) = Placeholder(g)  BY <1>7 DEF InstalledRow
    <2>2. Placeholder(g) = [agent |-> g, harness |-> None, session |-> None, runner |-> None,
                            ended |-> 0, held |-> None]
      BY DEF Placeholder, Row
    <2>3. Placeholder(g) \in RowSet  BY <2>2 DEF RowSet
    <2>4. k \in move[g].plan  BY <1>5, <1>7
    <2>. QED  BY <1>6, <2>1, <2>2, <2>3, <2>4
  <1>8. CASE k \in DOMAIN c /\ ~Collides(m, c[k].row)
    <2> DEFINE row == c[k].row
               new == [row EXCEPT !.held = IF row.held = m THEN None ELSE row.held]
    <2>1. InstalledRow(m, g, k) = new  BY <1>8 DEF InstalledRow
    <2>2. row \in RowSet /\ row.agent = g /\ (row.held # None => row.ended # 0)
      BY <1>3, <1>4, <1>8
    <2>3. new \in RowSet  BY <2>2 DEF RowSet
    <2>4. new.agent = g /\ new.session = row.session /\ new.harness = row.harness
          /\ new.runner = row.runner /\ new.ended = row.ended
          /\ (new.held = row.held \/ (new.held = None /\ row.held = m))
      BY <2>2 DEF RowSet
    <2> HIDE DEF new
    <2>5. new.held # None => new.ended # 0  BY <2>2, <2>4
    <2>6. k \in move[g].plan \/ row.held # None  BY <1>5
    <2>. QED  BY <1>6, <1>8, <2>1, <2>3, <2>4, <2>5, <2>6
  <1>. QED  BY <1>7, <1>8

\* What an activation does to the tables of the receiver.
Installs(m, g) ==
    /\ rows' = [rows EXCEPT ![m] = rows'[m]] /\ history' = [history EXCEPT ![m] = history'[m]]
    /\ DOMAIN rows'[m] = Bound(m) \cup Installed(m, g)
    /\ \A k \in Bound(m) : rows'[m][k] = rows[m][k]
    /\ \A k \in Installed(m, g) : rows'[m][k] = InstalledRow(m, g, k)
    /\ \A k \in DOMAIN history[m] : k \in DOMAIN history'[m] /\ history'[m][k] = history[m][k]
    /\ \A k \in Bound(m) \cap DOMAIN history'[m] : k \in DOMAIN history[m]

LEMMA ActivationInstalls ==
    ASSUME TablesOK, MovesType, StreamsOK, NEW g \in Agents, NEW m \in Machines,
           m = move[g].dst, ActivateCarrying(g)
    PROVE  TablesOK' /\ Installs(m, g)
  <1> DEFINE c == move[g].carried
             K == Installed(m, g)
             t == rows[m]
             u == [k \in Bound(m) \cup K |-> IF k \in K THEN InstalledRow(m, g, k) ELSE t[k]]
             h == history[m]
             H == DOMAIN h \cup {x \in K \cap DOMAIN c : c[x].entries # <<>>}
             v == [k \in H |-> IF k \in K THEN c[k].entries ELSE h[k]]
  <1>1. TablesType  BY DEF TablesOK
  <1>2. rows' = [rows EXCEPT ![m] = u] /\ history' = [history EXCEPT ![m] = v]
    BY <1>1 DEF ActivateCarrying, TablesType
  <1>3. rows'[m] = u /\ history'[m] = v  BY <1>1, <1>2 DEF TablesType
  <1>4. OneTableOK(t, h)  BY TablesOKAt
  <1>5. \A k \in K : k \in Keys \ Bound(m) /\ InstalledRow(m, g, k) \in RowSet
    BY <1>1, InstalledRowIs
  <1>6. \A k \in Bound(m) : k \in Keys /\ t[k] \in RowSet  BY <1>1, BoundRow
  <1>7. Bound(m) \cup K \in SUBSET Keys /\ u \in [Bound(m) \cup K -> RowSet]
    BY <1>5, <1>6
  <1>8. u \in Tables  BY <1>7, NewTable
  <1>9. (\A k \in Bound(m) : u[k] = t[k]) /\ (\A k \in K : u[k] = InstalledRow(m, g, k))
        /\ DOMAIN u = Bound(m) \cup K
    BY <1>5
  <1>10. DOMAIN h \subseteq Bound(m) /\ DOMAIN h \cap K = {}
    BY <1>4, <1>5 DEF OneTableOK, Bound
  <1>11. move[g] \in MoveSet /\ c \in Streams  BY DEF MovesType, MoveSet
  <1>12. DOMAIN c \subseteq Keys /\ \A k \in DOMAIN c : c[k].entries \in EntrySeqs
                                       /\ Readable(c[k].entries)
    BY <1>11, StreamIs DEF StreamsOK, StreamOK
  <1>13. h \in Histories /\ \A k \in DOMAIN h : h[k] \in EntrySeqs /\ Readable(h[k])
    BY <1>4, HistoryIs DEF OneTableOK
  <1>14. H \in SUBSET Keys /\ v \in [H -> EntrySeqs]
    BY <1>10, <1>12, <1>13, HistoryIs
  <1>15. v \in Histories  BY <1>14, NewHistory
  <1>16. /\ \A k \in DOMAIN h : k \in DOMAIN v /\ v[k] = h[k]
         /\ \A k \in Bound(m) \cap DOMAIN v : k \in DOMAIN h
    BY <1>5, <1>10
  <1>17. \A k \in DOMAIN v : k \in DOMAIN u /\ Readable(v[k])
    <2> SUFFICES ASSUME NEW k \in H  PROVE k \in DOMAIN u /\ Readable(v[k])
      OBVIOUS
    <2>1. CASE k \in K  BY <1>9, <1>10, <1>12, <2>1
    <2>2. CASE k \notin K  BY <1>9, <1>10, <1>13, <2>2
    <2>. QED  BY <2>1, <2>2
  <1> HIDE DEF u, v, H
  <1>18. ASSUME NEW k \in K, NEW x \in Bound(m)
         PROVE  Apart(u[k], u[x]) /\ Apart(u[x], u[k])
    <2> DEFINE row == c[k].row
    <2>1. CASE u[k].session = None  BY <2>1 DEF Apart
    <2>2. CASE u[k].session # None
      <3>1. /\ ~Collides(m, row) /\ u[k].session = row.session
            /\ u[k].harness = row.harness /\ u[k].runner = row.runner
        BY <1>1, <1>9, <2>2, InstalledRowIs
      <3>2. x \notin BySession(m, row.harness, row.session)
            /\ x \notin ByRunner(m, row.runner, row.session)
        BY <2>2, <3>1 DEF Collides
      <3>. QED  BY <1>9, <3>1, <3>2 DEF Apart, BySession, ByRunner
    <2>. QED  BY <2>1, <2>2
  <1>19. ASSUME NEW k \in K, NEW l \in K, k # l
         PROVE  Apart(u[k], u[l])
    <2>1. CASE u[k].session = None \/ u[l].session = None  BY <2>1 DEF Apart
    <2>2. CASE u[k].session # None /\ u[l].session # None
      <3>1. /\ k \in DOMAIN c /\ u[k].session = c[k].row.session
            /\ u[k].harness = c[k].row.harness /\ u[k].runner = c[k].row.runner
        BY <1>1, <1>9, <2>2, InstalledRowIs
      <3>2. /\ l \in DOMAIN c /\ u[l].session = c[l].row.session
            /\ u[l].harness = c[l].row.harness /\ u[l].runner = c[l].row.runner
        BY <1>1, <1>9, <2>2, InstalledRowIs
      <3>3. Apart(c[k].row, c[l].row)  BY <1>19, <3>1, <3>2 DEF StreamsOK, StreamOK
      <3>. QED  BY <3>1, <3>2, <3>3 DEF Apart
    <2>. QED  BY <2>1, <2>2
  <1>20. \A k, l \in DOMAIN u : k # l => Apart(u[k], u[l])
    <2> SUFFICES ASSUME NEW k \in DOMAIN u, NEW l \in DOMAIN u, k # l
                 PROVE  Apart(u[k], u[l])
      OBVIOUS
    <2>1. CASE k \in Bound(m) /\ l \in Bound(m)
      BY <1>4, <1>9, <2>1 DEF OneTableOK, Bound
    <2>2. CASE k \in K /\ l \in K  BY <1>19, <2>2
    <2>3. CASE (k \in K /\ l \in Bound(m)) \/ (k \in Bound(m) /\ l \in K)
      BY <1>18, <2>3
    <2>. QED  BY <1>9, <2>1, <2>2, <2>3
  <1>21. \A k \in DOMAIN u : u[k].held # None => u[k].ended # 0
    <2> SUFFICES ASSUME NEW k \in DOMAIN u, u[k].held # None  PROVE u[k].ended # 0
      OBVIOUS
    <2>1. CASE k \in Bound(m)  BY <1>4, <1>9, <2>1 DEF OneTableOK, Bound
    <2>2. CASE k \in K  BY <1>1, <1>9, <2>2, InstalledRowIs
    <2>. QED  BY <1>9, <2>1, <2>2
  <1>22. OneTableOK(u, v)  BY <1>8, <1>15, <1>17, <1>20, <1>21 DEF OneTableOK
  <1>23. rows' = [rows EXCEPT ![m] = rows'[m]] /\ history' = [history EXCEPT ![m] = history'[m]]
    BY <1>2, <1>3
  <1>24. TablesOK'  BY <1>3, <1>22, <1>23, OneTableStep
  <1>. QED  BY <1>3, <1>9, <1>16, <1>23, <1>24 DEF Installs

-----------------------------------------------------------------------------
(* Claims and the steps of moves.                                          *)

\* The part of the invariant that is about claims, checks and moves.
ClaimsOK ==
    /\ ClaimsType /\ MovesType /\ StreamsOK
    /\ Phases /\ VersionsOK /\ CachesOK

CacheOK(m, g) ==
    /\ cache[m][g].version > 0 => cache[m][g].known /\ NotAhead(cache[m][g], g)
    /\ Away(m, g) /\ cache[m][g].version > 0 => cache[m][g].holder # m
    /\ Away(m, g) /\ move[g].src = m => cache[m][g].version > 0

ReadOK(m, g, o) ==
    o.kind = "present" =>
        /\ o.claim.version > 0 /\ NotAhead(o.claim, g)
        /\ Away(m, g) /\ o.claim.holder = m => o.claim.version < cache[m][g].version

\* Every read in flight is a triple.
LEMMA ReadIs ==
    ASSUME ClaimsType, NEW x \in reads
    PROVE  /\ x[1] \in Machines /\ x[2] \in Agents /\ x[3] \in ObsSet
           /\ x = <<x[1], x[2], x[3]>>
  BY DEF ClaimsType

LEMMA CachesOKIs ==
    CachesOK <=> /\ \A m \in Machines, g \in Agents : CacheOK(m, g)
                 /\ \A x \in reads : ReadOK(x[1], x[2], x[3])
  BY DEF CachesOK, CacheOK, ReadOK

\* What decide makes of an observation.
LEMMA DecideIs ==
    ASSUME NEW old \in CacheSet, NEW o \in ObsSet, old.version > 0 => old.known
    PROVE  /\ Decide(old, o) \in CacheSet
           /\ Decide(old, o).version > 0 => Decide(old, o).known
           /\ \/ o.kind = "absent" /\ Decide(old, o).version = 0
              \/ /\ o.kind # "absent" /\ Decide(old, o).version = old.version
                 /\ old.version > 0 => Decide(old, o).holder = old.holder
                 /\ o.kind = "present" => o.claim.version < old.version
              \/ /\ o.kind = "present" /\ o.claim.version >= old.version
                 /\ Decide(old, o).version = o.claim.version
                 /\ Decide(old, o).holder = o.claim.holder /\ Decide(old, o).known
  <1> DEFINE new == Decide(old, o)
  <1>0. old.version \in Nat /\ (o.kind = "present" => o.claim \in ClaimSet)
    BY DEF CacheSet, ObsSet
  <1>a. \A st, bd \in BOOLEAN :
           /\ Unclaimed(st, bd) \in CacheSet /\ Unclaimed(st, bd).version = 0
    BY DEF Unclaimed, CacheSet
  <1>1. CASE o.kind = "integrity"
    <2>1. CASE old.known
      <3>1. new = [old EXCEPT !.bad = TRUE]  BY <1>1, <2>1 DEF Decide
      <3>. QED  BY <1>1, <2>1, <3>1 DEF CacheSet
    <2>2. CASE ~old.known
      <3>1. new = Unclaimed(TRUE, TRUE)  BY <1>1, <2>2 DEF Decide
      <3>2. old.version = 0  BY <1>0, <2>2
      <3>3. new \in CacheSet /\ new.version = 0  BY <1>a, <3>1
      <3> HIDE DEF new
      <3>4. o.kind # "absent" /\ o.kind # "present"  BY <1>1
      <3>5. ~(new.version > 0) /\ ~(old.version > 0)  BY <3>2, <3>3
      <3>. QED  BY <3>2, <3>3, <3>4, <3>5 DEF new
    <2>. QED  BY <2>1, <2>2
  <1>2. CASE o.kind = "unavailable"
    <2>1. CASE old.known
      <3>1. new = [old EXCEPT !.stale = TRUE]  BY <1>2, <2>1 DEF Decide
      <3>. QED  BY <1>2, <2>1, <3>1 DEF CacheSet
    <2>2. CASE ~old.known
      <3>1. new = old  BY <1>2, <2>2 DEF Decide
      <3>. QED  BY <1>2, <3>1
    <2>. QED  BY <2>1, <2>2
  <1>3. CASE o.kind = "present"
    <2>1. CASE old.known /\ o.claim.version < old.version
      <3>1. new = [old EXCEPT !.stale = TRUE]  BY <1>3, <2>1 DEF Decide
      <3>. QED  BY <1>3, <2>1, <3>1 DEF CacheSet
    <2>2. CASE ~(old.known /\ o.claim.version < old.version)
      <3>1. new = Claimed(o.claim)  BY <1>3, <2>2 DEF Decide
      <3>2. new \in CacheSet /\ new.version = o.claim.version /\ new.holder = o.claim.holder
            /\ new.known
        BY <1>0, <1>3, <3>1 DEF Claimed, CacheSet, ClaimSet
      <3>3. o.claim.version >= old.version
        BY <1>0, <1>3, <2>2 DEF ClaimSet
      <3>. QED  BY <1>3, <3>2, <3>3
    <2>. QED  BY <2>1, <2>2
  <1>4. CASE o.kind = "absent"
    <2>1. new = Unclaimed(FALSE, FALSE)  BY <1>4 DEF Decide
    <2>2. new \in CacheSet /\ new.version = 0  BY <1>a, <2>1
    <2> HIDE DEF new
    <2>3. ~(new.version > 0)  BY <2>2
    <2>. QED  BY <1>4, <2>2, <2>3 DEF new
  <1>5. CASE o.kind = "absent_stale"
    <2>1. CASE old.known /\ old.version >= 1
      <3>1. new = [old EXCEPT !.stale = TRUE]  BY <1>5, <2>1 DEF Decide
      <3>. QED  BY <1>5, <2>1, <3>1 DEF CacheSet
    <2>2. CASE ~(old.known /\ old.version >= 1)
      <3>1. new = Unclaimed(TRUE, old.bad)  BY <1>5, <2>2 DEF Decide
      <3>2. old.bad \in BOOLEAN  BY DEF CacheSet
      <3>3. old.version = 0  BY <1>0, <2>2
      <3>4. new \in CacheSet /\ new.version = 0  BY <1>a, <3>1, <3>2
      <3> HIDE DEF new
      <3>5. o.kind # "absent" /\ o.kind # "present"  BY <1>5
      <3>6. ~(new.version > 0) /\ ~(old.version > 0)  BY <3>3, <3>4
      <3>. QED  BY <3>3, <3>4, <3>5, <3>6 DEF new
    <2>. QED  BY <2>1, <2>2
  <1>6. o.kind \in {"absent", "unavailable", "integrity", "absent_stale", "present"}
    BY DEF ObsSet
  <1>. QED  BY <1>1, <1>2, <1>3, <1>4, <1>5, <1>6

LEMMA ObserveIs ==
    ASSUME NEW c \in ClaimSet
    PROVE  /\ Observe(c) \in ObsSet
           /\ c.version = 0 => Observe(c).kind = "absent"
           /\ c.version # 0 => Observe(c).kind = "present" /\ Observe(c).claim = c
  BY DEF Observe, ObsSet

\* A machine that caches the claim as it is now knows whom it names.
LEMMA RefreshedOK ==
    ASSUME ClaimsType, CachesOK, NEW m \in Machines, NEW g \in Agents,
           claim'[g] \in ClaimSet, claim'[g].version = 0 <=> claim'[g].holder = None,
           claim[g].version <= claim'[g].version,
           claim[g].version = claim'[g].version => claim'[g] = claim[g],
           cache'[m][g] = Decide(cache[m][g], Observe(claim'[g])), reads' = reads
    PROVE  /\ cache'[m][g] \in CacheSet /\ CacheOK(m, g)'
           /\ \A o : <<m, g, o>> \in reads => ReadOK(m, g, o)'
  <1> DEFINE old == cache[m][g]
             new == cache'[m][g]
             c == claim'[g]
  <1>1. old \in CacheSet /\ claim[g] \in ClaimSet  BY DEF ClaimsType
  <1>2. old.version \in Nat /\ claim[g].version \in Nat /\ c.version \in Nat
    BY <1>1 DEF CacheSet, ClaimSet
  <1>3. CacheOK(m, g)  BY CachesOKIs
  <1>4. (old.version > 0 => old.known) /\ old.version <= claim[g].version
    BY <1>2, <1>3 DEF CacheOK, NotAhead
  <1>5. Observe(c) \in ObsSet
        /\ (c.version = 0 => Observe(c).kind = "absent")
        /\ (c.version # 0 => Observe(c).kind = "present" /\ Observe(c).claim = c)
    BY ObserveIs
  <1>6. /\ new \in CacheSet /\ (new.version > 0 => new.known)
        /\ \/ c.version = 0 /\ new.version = 0
           \/ c.version # 0 /\ new.version = c.version /\ new.holder = c.holder
    <2>1. /\ Decide(old, Observe(c)) \in CacheSet
          /\ Decide(old, Observe(c)).version > 0 => Decide(old, Observe(c)).known
          /\ \/ Observe(c).kind = "absent" /\ Decide(old, Observe(c)).version = 0
             \/ /\ Observe(c).kind # "absent" /\ Decide(old, Observe(c)).version = old.version
                /\ old.version > 0 => Decide(old, Observe(c)).holder = old.holder
                /\ Observe(c).kind = "present" => Observe(c).claim.version < old.version
             \/ /\ Observe(c).kind = "present" /\ Observe(c).claim.version >= old.version
                /\ Decide(old, Observe(c)).version = Observe(c).claim.version
                /\ Decide(old, Observe(c)).holder = Observe(c).claim.holder
                /\ Decide(old, Observe(c)).known
      BY <1>1, <1>4, <1>5, DecideIs
    <2>2. new = Decide(old, Observe(c))  OBVIOUS
    <2>. QED  BY <1>2, <1>4, <1>5, <2>1, <2>2
  <1>7. Away(m, g)' => c.version # 0 /\ c.holder # m
    BY DEF Away
  <1>8. CacheOK(m, g)'
    BY <1>2, <1>6, <1>7 DEF CacheOK, NotAhead
  <1>9. ASSUME NEW o, <<m, g, o>> \in reads
        PROVE  ReadOK(m, g, o)'
    <2>1. ReadOK(m, g, o)
      <3>1. \A x \in reads : ReadOK(x[1], x[2], x[3])  BY CachesOKIs
      <3>2. ReadOK(<<m, g, o>>[1], <<m, g, o>>[2], <<m, g, o>>[3])  BY <1>9, <3>1
      <3>. QED  BY <3>2
    <2>2. o \in ObsSet  BY <1>9 DEF ClaimsType
    <2>3. o.kind = "present" => o.claim \in ClaimSet  BY <2>2 DEF ObsSet
    <2>4. o.kind = "present" => o.claim.version > 0 /\ NotAhead(o.claim, g)
                                  /\ o.claim.version \in Nat
      BY <2>1, <2>3 DEF ReadOK, ClaimSet
    <2>5. o.kind = "present" => NotAhead(o.claim, g)'
      BY <1>2, <2>4 DEF NotAhead
    <2>6. o.kind = "present" /\ Away(m, g)' /\ o.claim.holder = m => o.claim.version < new.version
      BY <1>2, <1>6, <1>7, <2>4, <2>5 DEF NotAhead
    <2>. QED  BY <2>4, <2>5, <2>6 DEF ReadOK
  <1>. QED  BY <1>6, <1>8, <1>9

\* A step of the move of agent g leaves its sides at steps a and b.
MoveStepped(g, a, b) ==
    /\ move' \in [Agents -> MoveSet]
    /\ \A h \in Agents \ {g} : move'[h] = move[h]
    /\ move'[g].src = move[g].src /\ move'[g].dst = move[g].dst
    /\ move'[g].plan = move[g].plan /\ move'[g].ver = move[g].ver
    /\ move'[g].carried = move[g].carried
    /\ move'[g].s = a /\ move'[g].r = b

LEMMA BothStepped ==
    ASSUME MovesType, NEW g \in Agents,
           NEW a \in {"preparing", "published", "released", "aborted"},
           NEW b \in {"waiting", "picked_up", "claimed", "activating", "activated", "done",
                      "aborted"},
           move' = [move EXCEPT ![g].s = a, ![g].r = b]
    PROVE  MoveStepped(g, a, b)
  <1>1. move \in [Agents -> MoveSet]  BY DEF MovesType
  <1>2. move' = [move EXCEPT ![g] = [move[g] EXCEPT !.s = a, !.r = b]]  BY <1>1
  <1>3. move[g] \in MoveSet  BY <1>1
  <1> DEFINE v == [move[g] EXCEPT !.s = a, !.r = b]
  <1>4. /\ v \in MoveSet /\ v.src = move[g].src /\ v.dst = move[g].dst
        /\ v.plan = move[g].plan /\ v.ver = move[g].ver /\ v.carried = move[g].carried
        /\ v.s = a /\ v.r = b
    BY <1>3 DEF MoveSet
  <1> HIDE DEF v
  <1>5. move' = [move EXCEPT ![g] = v]  BY <1>2 DEF v
  <1>6. move'[g] = v /\ (\A h \in Agents \ {g} : move'[h] = move[h])
        /\ move' \in [Agents -> MoveSet]
    BY <1>1, <1>4, <1>5
  <1>. QED  BY <1>4, <1>6 DEF MoveStepped

LEMMA SourceStepped ==
    ASSUME MovesType, NEW g \in Agents,
           NEW a \in {"preparing", "published", "released", "aborted"},
           move' = [move EXCEPT ![g].s = a]
    PROVE  MoveStepped(g, a, move[g].r)
  <1>1. move \in [Agents -> MoveSet]  BY DEF MovesType
  <1>2. move' = [move EXCEPT ![g] = [move[g] EXCEPT !.s = a]]  BY <1>1
  <1>3. move[g] \in MoveSet  BY <1>1
  <1> DEFINE v == [move[g] EXCEPT !.s = a]
  <1>4. /\ v \in MoveSet /\ v.src = move[g].src /\ v.dst = move[g].dst
        /\ v.plan = move[g].plan /\ v.ver = move[g].ver /\ v.carried = move[g].carried
        /\ v.s = a /\ v.r = move[g].r
    BY <1>3 DEF MoveSet
  <1> HIDE DEF v
  <1>5. move' = [move EXCEPT ![g] = v]  BY <1>2 DEF v
  <1>6. move'[g] = v /\ (\A h \in Agents \ {g} : move'[h] = move[h])
        /\ move' \in [Agents -> MoveSet]
    BY <1>1, <1>4, <1>5
  <1>. QED  BY <1>4, <1>6 DEF MoveStepped

LEMMA ReceiverStepped ==
    ASSUME MovesType, NEW g \in Agents,
           NEW b \in {"waiting", "picked_up", "claimed", "activating", "activated", "done",
                      "aborted"},
           move' = [move EXCEPT ![g].r = b]
    PROVE  MoveStepped(g, move[g].s, b)
  <1>1. move \in [Agents -> MoveSet]  BY DEF MovesType
  <1>2. move' = [move EXCEPT ![g] = [move[g] EXCEPT !.r = b]]  BY <1>1
  <1>3. move[g] \in MoveSet  BY <1>1
  <1> DEFINE v == [move[g] EXCEPT !.r = b]
  <1>4. /\ v \in MoveSet /\ v.src = move[g].src /\ v.dst = move[g].dst
        /\ v.plan = move[g].plan /\ v.ver = move[g].ver /\ v.carried = move[g].carried
        /\ v.s = move[g].s /\ v.r = b
    BY <1>3 DEF MoveSet
  <1> HIDE DEF v
  <1>5. move' = [move EXCEPT ![g] = v]  BY <1>2 DEF v
  <1>6. move'[g] = v /\ (\A h \in Agents \ {g} : move'[h] = move[h])
        /\ move' \in [Agents -> MoveSet]
    BY <1>1, <1>4, <1>5
  <1>. QED  BY <1>4, <1>6 DEF MoveStepped

LEMMA SteppedMoves ==
    ASSUME MovesType, StreamsOK, NEW g \in Agents, NEW a, NEW b, MoveStepped(g, a, b),
           checks' = checks, writes' = writes, moves' = moves,
           data' \in [Agents -> [Keys -> SUBSET Machines]]
    PROVE  MovesType' /\ StreamsOK'
  <1>1. MovesType'  BY DEF MovesType, MoveStepped
  <1>2. \A h \in Agents : move'[h].carried = move[h].carried  BY DEF MoveStepped
  <1>3. \A h \in Agents : StreamOK(h)'
    BY <1>2 DEF StreamsOK, StreamOK
  <1>4. StreamsOK'  BY <1>3 DEF StreamsOK
  <1>. QED  BY <1>1, <1>4

\* What a step does to the claim of its agent: nothing, or a new version.
ClaimStepped(g) ==
    /\ claim' \in [Agents -> ClaimSet]
    /\ \A h \in Agents \ {g} : claim'[h] = claim[h]
    /\ \/ claim'[g] = claim[g]
       \/ claim'[g].version = claim[g].version + 1 /\ claim'[g].holder \in Machines

\* The machines of R cache the claim as it is after the step.
CacheStepped(g, R) ==
    /\ cache' = [x \in Machines |-> [h \in Agents |-> cache'[x][h]]]
    /\ \A x \in Machines, h \in Agents :
          IF h = g /\ x \in R THEN cache'[x][h] = Decide(cache[x][h], Observe(claim'[h]))
          ELSE cache'[x][h] = cache[x][h]
    /\ reads' = reads /\ misled' = misled

LEMMA SameClaim ==
    ASSUME ClaimsType, NEW g \in Agents, claim' = claim
    PROVE  ClaimStepped(g)
  BY DEF ClaimsType, ClaimStepped

LEMMA SameCache ==
    ASSUME ClaimsType, NEW g \in Agents, cache' = cache, reads' = reads, misled' = misled
    PROVE  CacheStepped(g, {})
  BY DEF ClaimsType, CacheStepped

LEMMA NewCache ==
    ASSUME ClaimsType, NEW g \in Agents, NEW m \in Machines,
           cache' = [cache EXCEPT ![m][g] = Decide(cache[m][g], Observe(claim'[g]))],
           reads' = reads, misled' = misled
    PROVE  CacheStepped(g, {m})
  <1>1. cache \in [Machines -> [Agents -> CacheSet]]  BY DEF ClaimsType
  <1> DEFINE d == Decide(cache[m][g], Observe(claim'[g]))
  <1>2. cache' = [cache EXCEPT ![m] = [cache[m] EXCEPT ![g] = d]]  BY <1>1
  <1> HIDE DEF d
  <1>3. \A x \in Machines, h \in Agents :
           IF h = g /\ x \in {m} THEN cache'[x][h] = d ELSE cache'[x][h] = cache[x][h]
    BY <1>1, <1>2
  <1>4. cache' = [x \in Machines |-> [h \in Agents |-> cache'[x][h]]]
    <2>1. \A x \in Machines : cache'[x] = [h \in Agents |-> cache'[x][h]]
      BY <1>1, <1>2
    <2>2. cache' = [x \in Machines |-> cache'[x]]  BY <1>1, <1>2
    <2>. QED  BY <2>1, <2>2
  <1>. QED  BY <1>3, <1>4 DEF CacheStepped, d

\* The claim of a move's agent that changes is the one its versions speak of.
LEMMA VersionsStep ==
    ASSUME ClaimsType, MovesType, VersionsOK, NEW g \in Agents, NEW a, NEW b,
           MoveStepped(g, a, b), ClaimStepped(g), checks' = checks,
           b \in {"waiting", "picked_up"} => move[g].r \in {"waiting", "picked_up"}
    PROVE  VersionsOK'
  <1>1. \A h \in Agents : claim[h] \in ClaimSet /\ claim[h].version \in Nat
    BY DEF ClaimsType, ClaimSet
  <1>2. \A h \in Agents : claim'[h].version = 0 <=> claim'[h].holder = None
    BY <1>1, ConstantsAssumption DEF VersionsOK, ClaimStepped
  <1>3. ASSUME NEW m \in Machines, NEW h \in Agents, NEW c \in checks'[m][h]
        PROVE  /\ c.ver <= claim'[h].version
               /\ c.ver = claim'[h].version => claim'[h].holder \in {None, m}
    <2>1. c \in checks[m][h]  OBVIOUS
    <2>2. c \in CheckSet  BY <2>1 DEF MovesType
    <2>3. c.ver \in Nat  BY <2>2 DEF CheckSet
    <2>4. /\ c.ver <= claim[h].version
          /\ c.ver = claim[h].version => claim[h].holder \in {None, m}
      BY <2>1 DEF VersionsOK
    <2>5. claim'[h] = claim[h] \/ claim'[h].version = claim[h].version + 1
      BY DEF ClaimStepped
    <2>. QED  BY <1>1, <2>3, <2>4, <2>5
  <1>4. ASSUME NEW h \in Agents, move'[h].r \in {"waiting", "picked_up"}
        PROVE  /\ move'[h].ver <= claim'[h].version
               /\ move'[h].ver = claim'[h].version => claim'[h].holder \in {None, move'[h].src}
    <2>1. move'[h].ver = move[h].ver /\ move'[h].src = move[h].src
          /\ move[h].r \in {"waiting", "picked_up"}
      BY <1>4 DEF MoveStepped
    <2>2. move[h] \in MoveSet /\ move[h].ver \in Nat  BY DEF MovesType, MoveSet
    <2>3. /\ move[h].ver <= claim[h].version
          /\ move[h].ver = claim[h].version => claim[h].holder \in {None, move[h].src}
      BY <2>1 DEF VersionsOK
    <2>5. claim'[h] = claim[h] \/ claim'[h].version = claim[h].version + 1
      BY DEF ClaimStepped
    <2>. QED  BY <1>1, <2>1, <2>2, <2>3, <2>5
  <1>. QED  BY <1>2, <1>3, <1>4 DEF VersionsOK

\* No machine comes to be away from an agent without caching the claim.
LEMMA CachesStep ==
    ASSUME ClaimsType, MovesType, VersionsOK, VersionsOK', CachesOK, NEW g \in Agents,
           \A h \in Agents \ {g} : move'[h] = move[h], move'[g].src = move[g].src,
           ClaimStepped(g), NEW R \in SUBSET Machines, CacheStepped(g, R),
           \A x \in Machines \ R :
              Away(x, g)' => Away(x, g) \/ (claim[g].version = 0 /\ move[g].src # x)
    PROVE  ClaimsType' /\ CachesOK'
  <1>1. \A h \in Agents : claim[h] \in ClaimSet /\ claim[h].version \in Nat
                          /\ claim'[h] \in ClaimSet /\ claim'[h].version \in Nat
    BY DEF ClaimsType, ClaimSet, ClaimStepped
  <1>2. /\ claim[g].version <= claim'[g].version
        /\ claim[g].version = claim'[g].version => claim'[g] = claim[g]
    BY <1>1 DEF ClaimStepped
  <1>3. claim'[g].version = 0 <=> claim'[g].holder = None  BY DEF VersionsOK
  <1>4. reads' = reads /\ misled' = misled  BY DEF CacheStepped
  <1>5. ASSUME NEW x \in R
        PROVE  /\ cache'[x][g] \in CacheSet /\ CacheOK(x, g)'
               /\ \A o : <<x, g, o>> \in reads => ReadOK(x, g, o)'
    <2>1. cache'[x][g] = Decide(cache[x][g], Observe(claim'[g]))  BY DEF CacheStepped
    <2>2. x \in Machines /\ claim'[g] \in ClaimSet  BY <1>1
    <2>. QED  BY <1>2, <1>3, <1>4, <2>1, <2>2, RefreshedOK
  <1>6. ASSUME NEW x \in Machines, NEW h \in Agents, ~(h = g /\ x \in R)
        PROVE  /\ cache'[x][h] \in CacheSet /\ CacheOK(x, h)'
               /\ \A o : <<x, h, o>> \in reads => ReadOK(x, h, o)'
    <2>1. cache'[x][h] = cache[x][h] /\ cache[x][h] \in CacheSet
      BY <1>6 DEF CacheStepped, ClaimsType
    <2>2. PICK e \in CacheSet : e = cache[x][h]  BY <2>1
    <2>3. e.version \in Nat /\ cache'[x][h] = e  BY <2>1, <2>2 DEF CacheSet
    <2>4. CacheOK(x, h)  BY CachesOKIs
    <2>5. /\ claim[h].version <= claim'[h].version
          /\ claim[h].version = claim'[h].version => claim'[h].holder = claim[h].holder
          /\ claim[h].version \in Nat /\ claim'[h].version \in Nat
      BY <1>1, <1>2 DEF ClaimStepped
    <2>6. Away(x, h)' => Away(x, h) \/ (claim[h].version = 0 /\ move[h].src # x)
      <3>1. CASE h = g  BY <1>6, <3>1
      <3>2. CASE h # g
        <4>1. claim'[h] = claim[h] /\ move'[h] = move[h]  BY <3>2 DEF ClaimStepped
        <4>. QED  BY <1>4, <4>1 DEF Away, SourceOpen
      <3>. QED  BY <3>1, <3>2
    <2>7. move'[h].src = move[h].src  OBVIOUS
    <2>8. /\ e.version > 0 => e.known /\ e.version <= claim[h].version
                                 /\ (e.version = claim[h].version => e.holder = claim[h].holder)
          /\ Away(x, h) /\ e.version > 0 => e.holder # x
          /\ Away(x, h) /\ move[h].src = x => e.version > 0
      BY <2>2, <2>4 DEF CacheOK, NotAhead
    <2>9. CacheOK(x, h)'
      <3>1. e.version > 0 =>
              /\ e.known /\ e.version <= claim'[h].version
              /\ e.version = claim'[h].version => e.holder = claim'[h].holder
        BY <2>3, <2>5, <2>8
      <3>2. claim[h].version = 0 => ~(e.version > 0)  BY <2>3, <2>8
      <3>3. Away(x, h)' /\ e.version > 0 => e.holder # x  BY <2>6, <2>8, <3>2
      <3>4. Away(x, h)' /\ move'[h].src = x => e.version > 0  BY <2>6, <2>7, <2>8
      <3>. QED  BY <2>3, <3>1, <3>3, <3>4 DEF CacheOK, NotAhead
    <2>10. ASSUME NEW o, <<x, h, o>> \in reads
           PROVE  ReadOK(x, h, o)'
      <3>1. ReadOK(x, h, o)
        <4>1. \A y \in reads : ReadOK(y[1], y[2], y[3])  BY CachesOKIs
        <4>2. ReadOK(<<x, h, o>>[1], <<x, h, o>>[2], <<x, h, o>>[3])  BY <2>10, <4>1
        <4>. QED  BY <4>2
      <3>2. o \in ObsSet  BY <2>10 DEF ClaimsType
      <3>3. o.kind = "present" =>
              /\ o.claim.version \in Nat /\ o.claim.version > 0
              /\ o.claim.version <= claim[h].version
              /\ o.claim.version = claim[h].version => o.claim.holder = claim[h].holder
        BY <3>1, <3>2 DEF ReadOK, ObsSet, ClaimSet, NotAhead
      <3>4. o.kind = "present" =>
              /\ o.claim.version <= claim'[h].version
              /\ o.claim.version = claim'[h].version => o.claim.holder = claim'[h].holder
        BY <2>5, <3>3
      <3>5. claim[h].version = 0 => o.kind # "present"  BY <3>3
      <3>6. o.kind = "present" /\ Away(x, h)' /\ o.claim.holder = x => o.claim.version < e.version
        BY <2>2, <2>6, <3>1, <3>5 DEF ReadOK
      <3>. QED  BY <2>3, <3>3, <3>4, <3>6 DEF ReadOK, NotAhead
    <2>. QED  BY <2>1, <2>9, <2>10
  <1>7. \A x \in Machines, h \in Agents :
           /\ cache'[x][h] \in CacheSet /\ CacheOK(x, h)'
           /\ \A o : <<x, h, o>> \in reads => ReadOK(x, h, o)'
    BY <1>5, <1>6
  <1>8. ClaimsType'
    <2>1. cache' \in [Machines -> [Agents -> CacheSet]]  BY <1>7 DEF CacheStepped
    <2>. QED  BY <1>4, <2>1 DEF ClaimsType, ClaimStepped
  <1>9. \A x \in reads' : ReadOK(x[1], x[2], x[3])'
    <2> SUFFICES ASSUME NEW x \in reads  PROVE ReadOK(x[1], x[2], x[3])'
      BY <1>4
    <2>1. x[1] \in Machines /\ x[2] \in Agents /\ <<x[1], x[2], x[3]>> \in reads  BY ReadIs
    <2>. QED  BY <1>7, <2>1
  <1>10. CachesOK'
    BY <1>7, <1>9 DEF CachesOK, CacheOK, ReadOK
  <1>. QED  BY <1>8, <1>10

-----------------------------------------------------------------------------
(* Claims, checks and moves at every step.                                 *)

LEMMA MoverIs == Movers \subseteq Agents
  BY ConstantsAssumption

LEMMA LocalClaims ==
    ASSUME ClaimsOK, claim' = claim, cache' = cache, reads' = reads, misled' = misled,
           checks' = checks, move' = move, moves' = moves,
           data' \in [Agents -> [Keys -> SUBSET Machines]], writes' \in 0..MaxWrites
    PROVE  ClaimsOK'
  <1>1. ClaimsType'  BY DEF ClaimsOK, ClaimsType
  <1>2. MovesType'  BY DEF ClaimsOK, MovesType
  <1>3. StreamsOK'  BY DEF ClaimsOK, StreamsOK, StreamOK
  <1>4. Phases'  BY DEF ClaimsOK, Phases, PhaseOK
  <1>5. VersionsOK'  BY DEF ClaimsOK, VersionsOK
  <1>6. CachesOK'  BY DEF ClaimsOK, CachesOK, NotAhead, Away, SourceOpen
  <1>. QED  BY <1>1, <1>2, <1>3, <1>4, <1>5, <1>6 DEF ClaimsOK

\* The caches when neither the claims nor the caches change.
LEMMA CachesKept ==
    ASSUME CachesOK, claim' = claim, cache' = cache, reads' = reads,
           \A x \in Machines, h \in Agents :
              /\ Away(x, h)' => Away(x, h)
              /\ Away(x, h)' /\ move'[h].src = x => move[h].src = x,
           ClaimsType
    PROVE  CachesOK'
  <1>1. ASSUME NEW x \in Machines, NEW h \in Agents  PROVE CacheOK(x, h)'
    <2>1. CacheOK(x, h)  BY CachesOKIs
    <2>. QED  BY <2>1 DEF CacheOK, NotAhead
  <1>2. ASSUME NEW x \in reads  PROVE ReadOK(x[1], x[2], x[3])'
    <2>1. ReadOK(x[1], x[2], x[3])  BY CachesOKIs
    <2>2. x[1] \in Machines /\ x[2] \in Agents  BY ReadIs
    <2>. QED  BY <2>1, <2>2 DEF ReadOK, NotAhead
  <1>. QED  BY <1>1, <1>2 DEF CachesOK, CacheOK, ReadOK

\* A read that is answered shows the claim as it is.
LEMMA ReadClaimClaims ==
    ASSUME ClaimsOK, NEW m \in Machines, NEW g \in Agents, NEW o \in Observations(g),
           ReadClaim(m, g, o)
    PROVE  ClaimsOK'
  <1>1. claim[g] \in ClaimSet  BY DEF ClaimsOK, ClaimsType
  <1>2. /\ Observe(claim[g]) \in ObsSet
        /\ claim[g].version = 0 => Observe(claim[g]).kind = "absent"
        /\ claim[g].version # 0 => Observe(claim[g]).kind = "present"
                                     /\ Observe(claim[g]).claim = claim[g]
    BY <1>1, ObserveIs
  <1>3. o \in ObsSet /\ (o.kind = "present" => o = Observe(claim[g]))
    BY <1>2 DEF Observations, ObsSet
  <1>4. /\ claim' = claim /\ cache' = cache /\ misled' = misled /\ checks' = checks
        /\ move' = move /\ data' = data /\ writes' = writes /\ moves' = moves
        /\ reads' = reads \cup {<<m, g, o>>}
    BY DEF ReadClaim
  <1>5. ClaimsType'  BY <1>3, <1>4 DEF ClaimsOK, ClaimsType
  <1>6. MovesType' /\ StreamsOK' /\ Phases' /\ VersionsOK'
    BY <1>4 DEF ClaimsOK, MovesType, StreamsOK, StreamOK, Phases, PhaseOK, VersionsOK
  <1>7. \A x \in Machines, h \in Agents : CacheOK(x, h)'
    BY <1>4, CachesOKIs DEF ClaimsOK, CacheOK, NotAhead, Away, SourceOpen
  <1>8. ASSUME NEW x \in reads  PROVE ReadOK(x[1], x[2], x[3])'
    <2>1. ReadOK(x[1], x[2], x[3])  BY CachesOKIs DEF ClaimsOK
    <2>. QED  BY <1>4, <2>1 DEF ReadOK, NotAhead, Away, SourceOpen
  <1>9. ReadOK(m, g, o)'
    <2>1. o.kind = "present" => o.claim = claim[g] /\ claim[g].version > 0
      BY <1>1, <1>2, <1>3 DEF ClaimSet
    <2>2. claim[g].version <= claim[g].version  BY <1>1 DEF ClaimSet
    <2>. QED  BY <1>4, <2>1, <2>2 DEF ReadOK, NotAhead, Away
  <1>10. \A x \in reads' : ReadOK(x[1], x[2], x[3])'
    <2> SUFFICES ASSUME NEW x \in reads \cup {<<m, g, o>>}  PROVE ReadOK(x[1], x[2], x[3])'
      BY <1>4
    <2>1. CASE x \in reads  BY <1>8, <2>1
    <2>2. CASE x = <<m, g, o>>
      <3>1. x[1] = m /\ x[2] = g /\ x[3] = o  BY <2>2
      <3>. QED  BY <1>9, <3>1
    <2>. QED  BY <2>1, <2>2
  <1>11. CachesOK'  BY <1>7, <1>10 DEF CachesOK, CacheOK, ReadOK
  <1>. QED  BY <1>5, <1>6, <1>11 DEF ClaimsOK

\* An answer that is applied late replaces no newer claim, except an absence.
LEMMA ApplyReadClaims ==
    ASSUME ClaimsOK, NEW x \in reads, ApplyClaimRead(x[1], x[2], x[3])
    PROVE  ClaimsOK'
  <1> DEFINE old == cache[x[1]][x[2]]
  <1>1. PICK m \in Machines, g \in Agents, o \in ObsSet :
           x = <<m, g, o>> /\ m = x[1] /\ g = x[2] /\ o = x[3]
    BY ReadIs DEF ClaimsOK
  <1>2. PICK d : d = Decide(old, o)  OBVIOUS
  <1>3. /\ claim' = claim /\ checks' = checks /\ move' = move /\ data' = data
        /\ writes' = writes /\ moves' = moves /\ reads' = reads \ {<<m, g, o>>}
        /\ misled' = IF o.kind = "absent" /\ claim[g].version > 0
                     THEN misled \cup {<<m, g>>} ELSE misled
    BY <1>1 DEF ApplyClaimRead
  <1>4. cache \in [Machines -> [Agents -> CacheSet]]  BY DEF ClaimsOK, ClaimsType
  <1>5. cache' = [cache EXCEPT ![m] = [cache[m] EXCEPT ![g] = d]]
    BY <1>1, <1>2, <1>4 DEF ApplyClaimRead
  <1>6. PICK e \in CacheSet : e = cache[m][g] /\ e = old  BY <1>1, <1>4
  <1>7. e.version \in Nat  BY <1>6 DEF CacheSet
  <1>8. CacheOK(m, g)  BY CachesOKIs DEF ClaimsOK
  <1>9. /\ e.version > 0 => e.known /\ e.version <= claim[g].version
                               /\ (e.version = claim[g].version => e.holder = claim[g].holder)
        /\ Away(m, g) /\ e.version > 0 => e.holder # m
        /\ Away(m, g) /\ move[g].src = m => e.version > 0
    BY <1>6, <1>8 DEF CacheOK, NotAhead
  <1>10. /\ d \in CacheSet /\ (d.version > 0 => d.known)
         /\ \/ o.kind = "absent" /\ d.version = 0
            \/ /\ o.kind # "absent" /\ d.version = e.version
               /\ e.version > 0 => d.holder = e.holder
               /\ o.kind = "present" => o.claim.version < e.version
            \/ /\ o.kind = "present" /\ o.claim.version >= e.version
               /\ d.version = o.claim.version /\ d.holder = o.claim.holder /\ d.known
    <2>1. e.version > 0 => e.known  BY <1>9
    <2>2. /\ Decide(e, o) \in CacheSet
          /\ Decide(e, o).version > 0 => Decide(e, o).known
          /\ \/ o.kind = "absent" /\ Decide(e, o).version = 0
             \/ /\ o.kind # "absent" /\ Decide(e, o).version = e.version
                /\ e.version > 0 => Decide(e, o).holder = e.holder
                /\ o.kind = "present" => o.claim.version < e.version
             \/ /\ o.kind = "present" /\ o.claim.version >= e.version
                /\ Decide(e, o).version = o.claim.version
                /\ Decide(e, o).holder = o.claim.holder /\ Decide(e, o).known
      BY <2>1, DecideIs
    <2>. QED  BY <1>2, <1>6, <2>2
  <1>11. claim[g] \in ClaimSet /\ claim[g].version \in Nat
         /\ (claim[g].version = 0 <=> claim[g].holder = None)
    BY DEF ClaimsOK, ClaimsType, ClaimSet, VersionsOK
  <1>12. ReadOK(m, g, o)  BY <1>1, CachesOKIs DEF ClaimsOK
  <1>13. o.kind = "present" =>
           /\ o.claim.version \in Nat /\ o.claim.version > 0
           /\ o.claim.version <= claim[g].version
           /\ o.claim.version = claim[g].version => o.claim.holder = claim[g].holder
           /\ Away(m, g) /\ o.claim.holder = m => o.claim.version < e.version
    BY <1>6, <1>12 DEF ReadOK, NotAhead, ObsSet, ClaimSet
  <1>14. \A y \in Machines, h \in Agents :
            /\ Away(y, h)' => Away(y, h)
            /\ Away(y, h)' /\ y = m /\ h = g => o.kind # "absent"
    BY <1>3, <1>11 DEF Away, SourceOpen
  <1>15. cache'[m][g] = d /\ (\A y \in Machines, h \in Agents :
            y # m \/ h # g => cache'[y][h] = cache[y][h])
         /\ cache' \in [Machines -> [Agents -> CacheSet]]
    BY <1>4, <1>5, <1>10
  <1>16. d.version \in Nat  BY <1>10 DEF CacheSet
  <1>17. ASSUME NEW y \in Machines, NEW h \in Agents  PROVE CacheOK(y, h)'
    <2>1. CASE y = m /\ h = g
      <3>1. d.version > 0 => d.known /\ d.version <= claim[g].version
               /\ (d.version = claim[g].version => d.holder = claim[g].holder)
        BY <1>7, <1>9, <1>10, <1>13
      <3>2. Away(m, g)' => Away(m, g) /\ o.kind # "absent"  BY <1>14
      <3>3. Away(m, g)' /\ d.version > 0 => d.holder # m
        BY <1>7, <1>9, <1>10, <1>13, <3>2
      <3>4. Away(m, g)' /\ move[g].src = m => d.version > 0
        BY <1>9, <1>10, <1>13, <3>2
      <3>. QED  BY <1>3, <1>15, <2>1, <3>1, <3>3, <3>4 DEF CacheOK, NotAhead
    <2>2. CASE ~(y = m /\ h = g)
      <3>1. CacheOK(y, h)  BY CachesOKIs DEF ClaimsOK
      <3>2. cache'[y][h] = cache[y][h]  BY <1>15, <2>2
      <3>. QED  BY <1>3, <1>14, <3>1, <3>2 DEF CacheOK, NotAhead
    <2>. QED  BY <2>1, <2>2
  <1>18. ASSUME NEW z \in reads'  PROVE ReadOK(z[1], z[2], z[3])'
    <2>1. z \in reads  BY <1>3
    <2>2. PICK y \in Machines, h \in Agents, p \in ObsSet :
             z = <<y, h, p>> /\ y = z[1] /\ h = z[2] /\ p = z[3]
      BY <2>1, ReadIs DEF ClaimsOK
    <2>3. ReadOK(y, h, p)  BY <2>1, <2>2, CachesOKIs DEF ClaimsOK
    <2>4. CASE y = m /\ h = g
      <3>1. p.kind = "present" /\ Away(m, g)' /\ p.claim.holder = m => p.claim.version < d.version
        <4>1. p.kind = "present" => p.claim.version \in Nat  BY <2>2 DEF ObsSet, ClaimSet
        <4>2. p.kind = "present" /\ Away(m, g) /\ p.claim.holder = m => p.claim.version < e.version
          BY <1>6, <2>3, <2>4 DEF ReadOK
        <4>3. Away(m, g)' => Away(m, g) /\ o.kind # "absent"  BY <1>14
        <4>. QED  BY <1>7, <1>10, <1>13, <1>16, <4>1, <4>2, <4>3
      <3>2. p.kind = "present" => p.claim.version > 0 /\ NotAhead(p.claim, g)
        BY <2>3, <2>4 DEF ReadOK
      <3>. QED  BY <1>3, <1>15, <2>2, <2>4, <3>1, <3>2 DEF ReadOK, NotAhead
    <2>5. CASE ~(y = m /\ h = g)
      <3>1. cache'[y][h] = cache[y][h]  BY <1>15, <2>5
      <3>. QED  BY <1>3, <1>14, <2>2, <2>3, <3>1 DEF ReadOK, NotAhead
    <2>. QED  BY <2>4, <2>5
  <1>19. CachesOK'  BY <1>17, <1>18 DEF CachesOK, CacheOK, ReadOK
  <1>20. ClaimsType'  BY <1>3, <1>15 DEF ClaimsOK, ClaimsType
  <1>21. MovesType' /\ StreamsOK' /\ Phases' /\ VersionsOK'
    BY <1>3 DEF ClaimsOK, MovesType, StreamsOK, StreamOK, Phases, PhaseOK, VersionsOK
  <1>. QED  BY <1>19, <1>20, <1>21 DEF ClaimsOK

\* The references and the version of the claim are read with the claim in hand.
LEMMA CheckMoveClaims ==
    ASSUME TablesType, ClaimsOK, NEW m \in Machines, NEW g \in Agents, CheckMove(m, g)
    PROVE  ClaimsOK'
  <1>1. /\ claim' = claim /\ cache' = cache /\ reads' = reads /\ misled' = misled
        /\ move' = move /\ data' = data /\ writes' = writes /\ moves' = moves
        /\ checks' = [checks EXCEPT ![m][g] =
                         {[refs |-> BoundRefs(m, g), ver |-> claim[g].version]}]
    BY DEF CheckMove, claims
  <1> DEFINE c == [refs |-> BoundRefs(m, g), ver |-> claim[g].version]
  <1>2. checks \in [Machines -> [Agents -> SUBSET CheckSet]]  BY DEF ClaimsOK, MovesType
  <1>3. claim[g] \in ClaimSet /\ claim[g].version \in Nat
        /\ (claim[g].version = 0 <=> claim[g].holder = None)
    BY DEF ClaimsOK, ClaimsType, ClaimSet, VersionsOK
  <1>4. BoundRefs(m, g) \subseteq Keys  BY BoundRow DEF BoundRefs
  <1>5. c \in CheckSet /\ c.ver = claim[g].version  BY <1>3, <1>4 DEF CheckSet
  <1>6. claim[g].holder \in {None, m}  BY <1>3 DEF CheckMove, MoveClaim
  <1> HIDE DEF c
  <1>7. checks' = [checks EXCEPT ![m] = [checks[m] EXCEPT ![g] = {c}]]
    BY <1>1, <1>2 DEF c
  <1>8. /\ checks' \in [Machines -> [Agents -> SUBSET CheckSet]]
        /\ checks'[m][g] = {c}
        /\ \A x \in Machines, h \in Agents : x # m \/ h # g => checks'[x][h] = checks[x][h]
    BY <1>2, <1>5, <1>7
  <1>9. MovesType'
    <2>1. \A x \in Machines, h \in Agents : \A d, e \in checks'[x][h] : d = e
      BY <1>8 DEF ClaimsOK, MovesType
    <2>. QED  BY <1>1, <1>8, <2>1 DEF ClaimsOK, MovesType
  <1>10. VersionsOK'
    <2>1. ASSUME NEW x \in Machines, NEW h \in Agents, NEW d \in checks'[x][h]
          PROVE  /\ d.ver <= claim[h].version
                 /\ d.ver = claim[h].version => claim[h].holder \in {None, x}
      <3>1. CASE x = m /\ h = g  BY <1>3, <1>5, <1>6, <1>8, <3>1
      <3>2. CASE x # m \/ h # g  BY <1>8, <3>2 DEF ClaimsOK, VersionsOK
      <3>. QED  BY <3>1, <3>2
    <2>. QED  BY <1>1, <2>1 DEF ClaimsOK, VersionsOK
  <1>11. ClaimsType' /\ StreamsOK' /\ Phases'
    BY <1>1 DEF ClaimsOK, ClaimsType, StreamsOK, StreamOK, Phases, PhaseOK
  <1>12. CachesOK'
    BY <1>1 DEF ClaimsOK, CachesOK, NotAhead, Away, SourceOpen
  <1>. QED  BY <1>9, <1>10, <1>11, <1>12 DEF ClaimsOK

\* The checks of a machine and an agent that are dropped.
LEMMA ChecksDropped ==
    ASSUME MovesType, NEW m \in Machines, NEW g \in Agents,
           checks' = [checks EXCEPT ![m][g] = {}]
    PROVE  /\ checks' \in [Machines -> [Agents -> SUBSET CheckSet]]
           /\ \A x \in Machines, h \in Agents : checks'[x][h] \subseteq checks[x][h]
           /\ \A x \in Machines, h \in Agents : \A c, d \in checks'[x][h] : c = d
  <1>1. checks \in [Machines -> [Agents -> SUBSET CheckSet]]  BY DEF MovesType
  <1>2. checks' = [checks EXCEPT ![m] = [checks[m] EXCEPT ![g] = {}]]  BY <1>1
  <1>3. \A x \in Machines, h \in Agents : checks'[x][h] \subseteq checks[x][h]
    BY <1>1, <1>2
  <1>4. checks' \in [Machines -> [Agents -> SUBSET CheckSet]]  BY <1>1, <1>2
  <1>. QED  BY <1>3, <1>4 DEF MovesType

LEMMA RefuseMoveClaims ==
    ASSUME ClaimsOK, NEW m \in Machines, NEW g \in Agents, RefuseMove(m, g)
    PROVE  ClaimsOK'
  <1>1. /\ claim' = claim /\ cache' = cache /\ reads' = reads /\ misled' = misled
        /\ move' = move /\ data' = data /\ writes' = writes /\ moves' = moves
        /\ checks' = [checks EXCEPT ![m][g] = {}]
    BY DEF RefuseMove, claims
  <1>2. /\ checks' \in [Machines -> [Agents -> SUBSET CheckSet]]
        /\ \A x \in Machines, h \in Agents : checks'[x][h] \subseteq checks[x][h]
        /\ \A x \in Machines, h \in Agents : \A c, d \in checks'[x][h] : c = d
    BY <1>1, ChecksDropped DEF ClaimsOK
  <1>3. MovesType'  BY <1>1, <1>2 DEF ClaimsOK, MovesType
  <1>4. VersionsOK'  BY <1>1, <1>2 DEF ClaimsOK, VersionsOK
  <1>5. ClaimsType' /\ StreamsOK' /\ Phases'
    BY <1>1 DEF ClaimsOK, ClaimsType, StreamsOK, StreamOK, Phases, PhaseOK
  <1>6. CachesOK'
    BY <1>1 DEF ClaimsOK, CachesOK, NotAhead, Away, SourceOpen
  <1>. QED  BY <1>3, <1>4, <1>5, <1>6 DEF ClaimsOK

\* The move that an admission opens.
Admitted(m, g, to, v) ==
    /\ move' = [move EXCEPT ![g] = v]
    /\ v \in MoveSet /\ v.src = m /\ v.dst = to /\ v.s = "preparing" /\ v.r = "waiting"
    /\ v.plan = BoundRefs(m, g) /\ DOMAIN v.carried = {}
    /\ v.ver <= claim[g].version
    /\ v.ver = claim[g].version => claim[g].holder \in {None, m}

LEMMA AdmissionOpens ==
    ASSUME ClaimsOK, NEW m \in Machines, NEW g \in Agents, NEW to \in Machines,
           AdmitMove(m, g, to)
    PROVE  \E v \in MoveSet : Admitted(m, g, to, v)
  <1>1. PICK c \in checks[m][g] :
           move' = [move EXCEPT ![g] =
              [src |-> m, dst |-> to, plan |-> c.refs, ver |-> c.ver,
               carried |-> <<>>, s |-> "preparing", r |-> "waiting"]]
    BY DEF AdmitMove
  <1>2. c \in CheckSet  BY DEF ClaimsOK, MovesType
  <1>3. c.refs = BoundRefs(m, g)  BY DEF AdmitMove, StillAdmissible
  <1> DEFINE v == [src |-> m, dst |-> to, plan |-> c.refs, ver |-> c.ver,
                   carried |-> <<>>, s |-> "preparing", r |-> "waiting"]
  <1>4. PICK e \in Streams : e = <<>> /\ DOMAIN e = {}  BY EmptyTables
  <1>5. v = [src |-> m, dst |-> to, plan |-> c.refs, ver |-> c.ver,
             carried |-> e, s |-> "preparing", r |-> "waiting"]
    BY <1>4
  <1>6. /\ v \in MoveSet /\ v.src = m /\ v.dst = to /\ v.s = "preparing" /\ v.r = "waiting"
        /\ v.plan = c.refs /\ DOMAIN v.carried = {} /\ v.ver = c.ver
    BY <1>2, <1>4, <1>5 DEF MoveSet, CheckSet
  <1> HIDE DEF v
  <1>7. /\ c.ver <= claim[g].version
        /\ c.ver = claim[g].version => claim[g].holder \in {None, m}
    BY DEF ClaimsOK, VersionsOK
  <1>8. move' = [move EXCEPT ![g] = v]  BY <1>1 DEF v
  <1>. QED  BY <1>3, <1>6, <1>7, <1>8 DEF Admitted

LEMMA AdmitMoveClaims ==
    ASSUME ClaimsOK, NEW m \in Machines, NEW g \in Movers, NEW to \in Machines,
           AdmitMove(m, g, to)
    PROVE  ClaimsOK'
  <1>0. g \in Agents  BY MoverIs
  <1>1. PICK v \in MoveSet : Admitted(m, g, to, v)  BY <1>0, AdmissionOpens
  <1>2. /\ claim' = claim /\ cache' = cache /\ reads' = reads /\ misled' = misled
        /\ data' = data /\ writes' = writes /\ moves' = moves + 1 /\ moves < MaxMoves
        /\ checks' = [checks EXCEPT ![m][g] = {}]
        /\ to # m /\ \A x \in Machines : ~OpenMove(x, g)
    BY DEF AdmitMove, claims
  <1>3. /\ checks' \in [Machines -> [Agents -> SUBSET CheckSet]]
        /\ \A x \in Machines, h \in Agents : checks'[x][h] \subseteq checks[x][h]
        /\ \A x \in Machines, h \in Agents : \A c, d \in checks'[x][h] : c = d
    BY <1>0, <1>2, ChecksDropped DEF ClaimsOK
  <1>4. move \in [Agents -> MoveSet]  BY DEF ClaimsOK, MovesType
  <1>5. /\ move'[g] = v /\ move' \in [Agents -> MoveSet]
        /\ \A h \in Agents \ {g} : move'[h] = move[h]
    BY <1>0, <1>1, <1>4 DEF Admitted
  <1>6. MovesType'
    <2>1. moves' \in 0..MaxMoves  BY <1>2, ConstantsAssumption DEF ClaimsOK, MovesType
    <2>. QED  BY <1>2, <1>3, <1>5, <2>1 DEF ClaimsOK, MovesType
  <1>7. VersionsOK'
    <2>1. \A x \in Machines, h \in Agents : \A c \in checks'[x][h] :
             /\ c.ver <= claim'[h].version
             /\ c.ver = claim'[h].version => claim'[h].holder \in {None, x}
      BY <1>2, <1>3 DEF ClaimsOK, VersionsOK
    <2>2. ASSUME NEW h \in Agents, move'[h].r \in {"waiting", "picked_up"}
          PROVE  /\ move'[h].ver <= claim'[h].version
                 /\ move'[h].ver = claim'[h].version => claim'[h].holder \in {None, move'[h].src}
      <3>1. CASE h = g  BY <1>1, <1>2, <1>5, <3>1 DEF Admitted
      <3>2. CASE h # g  BY <1>2, <1>5, <2>2, <3>2 DEF ClaimsOK, VersionsOK
      <3>. QED  BY <3>1, <3>2
    <2>. QED  BY <1>2, <2>1, <2>2 DEF ClaimsOK, VersionsOK
  <1>8. StreamsOK'
    <2>1. StreamOK(g)'  BY <1>1, <1>5 DEF Admitted, StreamOK
    <2>2. \A h \in Agents \ {g} : StreamOK(h)'  BY <1>5 DEF ClaimsOK, StreamsOK, StreamOK
    <2>. QED  BY <2>1, <2>2 DEF StreamsOK
  <1>9. Phases'
    <2>1. PhaseOK(g)'
      BY <1>1, <1>2, <1>5 DEF Admitted, PhaseOK
    <2>2. \A h \in Agents \ {g} : PhaseOK(h)'
      BY <1>2, <1>5 DEF ClaimsOK, Phases, PhaseOK
    <2>. QED  BY <2>1, <2>2 DEF Phases
  <1>10. CachesOK'
    <2>1. ASSUME NEW x \in Machines, NEW h \in Agents
          PROVE  /\ Away(x, h)' => Away(x, h)
                 /\ Away(x, h)' /\ move'[h].src = x => move[h].src = x
      <3>1. CASE h = g
        <4>1. ~OpenMove(x, g)  BY <1>2
        <4>2. ~SourceOpen(x, g)  BY <4>1 DEF OpenMove
        <4>3. Away(m, g)' => FALSE  BY <1>1, <1>5 DEF Away, SourceOpen, Admitted
        <4>4. move'[g].src = m  BY <1>1, <1>5 DEF Admitted
        <4>. QED  BY <1>2, <3>1, <4>2, <4>3, <4>4 DEF Away
      <3>2. CASE h # g  BY <1>2, <1>5, <3>2 DEF Away, SourceOpen
      <3>. QED  BY <3>1, <3>2
    <2>. QED  BY <1>2, <2>1, CachesKept DEF ClaimsOK
  <1>11. ClaimsType'  BY <1>2 DEF ClaimsOK, ClaimsType
  <1>. QED  BY <1>6, <1>7, <1>8, <1>9, <1>10, <1>11 DEF ClaimsOK

\* The stream that an export writes.
Exported(g, v) ==
    LET m == move[g].src IN
    /\ move' = [move EXCEPT ![g] = v]
    /\ v \in MoveSet /\ v.src = m /\ v.dst = move[g].dst /\ v.plan = move[g].plan
    /\ v.ver = move[g].ver /\ v.s = "published" /\ v.r = move[g].r
    /\ DOMAIN v.carried = OfAgent(m, g)
    /\ \A k \in OfAgent(m, g) :
          /\ v.carried[k].row = [rows[m][k] EXCEPT !.held = CarriedHolder(m, g, k)]
          /\ v.carried[k].entries = Entries(m, k)

LEMMA ExportWrites ==
    ASSUME TablesOK, ClaimsOK, NEW g \in Agents, Export(g), move[g].src \in Machines
    PROVE  \E v \in MoveSet : Exported(g, v)
  <1> DEFINE m == move[g].src
             c == [k \in OfAgent(m, g) |->
                     [row |-> [rows[m][k] EXCEPT !.held = CarriedHolder(m, g, k)],
                      entries |-> Entries(m, k)]]
             v == [move[g] EXCEPT !.s = "published", !.carried = c]
  <1>1. move \in [Agents -> MoveSet]  BY DEF ClaimsOK, MovesType
  <1>2. move' = [move EXCEPT ![g].s = "published", ![g].carried = c]  BY DEF Export
  <1>3. TablesType /\ HistoriesReadable  BY DEF TablesOK
  <1>4. OfAgent(m, g) \in SUBSET Keys  BY <1>3, BoundRow DEF OfAgent
  <1>5. ASSUME NEW k \in OfAgent(m, g)
        PROVE  [row |-> [rows[m][k] EXCEPT !.held = CarriedHolder(m, g, k)],
                entries |-> Entries(m, k)] \in CarriedSet
    <2>1. k \in Bound(m) /\ rows[m][k] \in RowSet  BY <1>3, BoundRow DEF OfAgent
    <2>2. CarriedHolder(m, g, k) \in Machines \cup {None}
      BY <2>1 DEF CarriedHolder, RowSet
    <2>3. Entries(m, k) \in EntrySeqs  BY <1>3, EntriesIs
    <2>4. [rows[m][k] EXCEPT !.held = CarriedHolder(m, g, k)] \in RowSet
      BY <2>1, <2>2 DEF RowSet
    <2>. QED  BY <2>3, <2>4 DEF CarriedSet
  <1>6. c \in [OfAgent(m, g) -> CarriedSet]  BY <1>5
  <1>7. c \in Streams  BY <1>4, <1>6, NewStream
  <1>8. DOMAIN c = OfAgent(m, g)
        /\ \A k \in OfAgent(m, g) :
              /\ c[k].row = [rows[m][k] EXCEPT !.held = CarriedHolder(m, g, k)]
              /\ c[k].entries = Entries(m, k)
    OBVIOUS
  <1> HIDE DEF c
  <1>9. move[g] \in MoveSet  BY <1>1
  <1>10. /\ v \in MoveSet /\ v.src = m /\ v.dst = move[g].dst /\ v.plan = move[g].plan
         /\ v.ver = move[g].ver /\ v.s = "published" /\ v.r = move[g].r /\ v.carried = c
    BY <1>7, <1>9 DEF MoveSet
  <1>11. move' = [move EXCEPT ![g] = v]  BY <1>1, <1>2
  <1> HIDE DEF v
  <1>. QED  BY <1>8, <1>10, <1>11 DEF Exported

LEMMA ExportClaims ==
    ASSUME TablesOK, ClaimsOK, NEW g \in Agents, Export(g)
    PROVE  ClaimsOK'
  <1>1. PhaseOK(g)  BY DEF ClaimsOK, Phases
  <1>2. move[g].s = "preparing" /\ Exportable(move[g].src, g)  BY DEF Export
  <1>3. g \in Movers /\ move[g].src \in Machines /\ move[g].dst \in Machines
        /\ move[g].src # move[g].dst /\ move[g].r = "waiting"
    BY <1>1, <1>2 DEF PhaseOK
  <1> DEFINE m == move[g].src
  <1>4. PICK v \in MoveSet : Exported(g, v)  BY <1>3, ExportWrites
  <1>5. /\ claim' = claim /\ cache' = cache /\ reads' = reads /\ misled' = misled
        /\ data' = data /\ writes' = writes /\ moves' = moves /\ checks' = checks
    BY DEF Export, claims
  <1>6. move \in [Agents -> MoveSet]  BY DEF ClaimsOK, MovesType
  <1>7. /\ move'[g] = v /\ move' \in [Agents -> MoveSet]
        /\ \A h \in Agents \ {g} : move'[h] = move[h]
    BY <1>4, <1>6 DEF Exported
  <1>8. ClaimsType' /\ MovesType'  BY <1>5, <1>7 DEF ClaimsOK, ClaimsType, MovesType
  <1>9. /\ v.src = m /\ v.dst = move[g].dst /\ v.s = "published" /\ v.r = "waiting"
        /\ v.ver = move[g].ver
    BY <1>3, <1>4 DEF Exported
  <1>10. VersionsOK'
    <2>1. ASSUME NEW h \in Agents, move'[h].r \in {"waiting", "picked_up"}
          PROVE  /\ move'[h].ver <= claim'[h].version
                 /\ move'[h].ver = claim'[h].version => claim'[h].holder \in {None, move'[h].src}
      <3>1. move'[h].ver = move[h].ver /\ move'[h].src = move[h].src /\ move'[h].r = move[h].r
        BY <1>3, <1>7, <1>9
      <3>. QED  BY <1>5, <2>1, <3>1 DEF ClaimsOK, VersionsOK
    <2>. QED  BY <1>5, <2>1 DEF ClaimsOK, VersionsOK
  <1>11. Phases'
    <2>1. PhaseOK(g)'  BY <1>3, <1>7, <1>9 DEF PhaseOK
    <2>2. \A h \in Agents \ {g} : PhaseOK(h)'
      BY <1>5, <1>7 DEF ClaimsOK, Phases, PhaseOK
    <2>. QED  BY <2>1, <2>2 DEF Phases
  <1>12. CachesOK'
    <2>1. ASSUME NEW x \in Machines, NEW h \in Agents
          PROVE  /\ Away(x, h)' => Away(x, h)
                 /\ Away(x, h)' /\ move'[h].src = x => move[h].src = x
      <3>1. CASE h = g  BY <1>2, <1>3, <1>5, <1>7, <1>9, <3>1 DEF Away, SourceOpen
      <3>2. CASE h # g  BY <1>5, <1>7, <3>2 DEF Away, SourceOpen
      <3>. QED  BY <3>1, <3>2
    <2>. QED  BY <1>5, <2>1, CachesKept DEF ClaimsOK
  <1>13. StreamsOK'
    <2> DEFINE c == v.carried
    <2>1. /\ DOMAIN c = OfAgent(m, g)
          /\ \A k \in OfAgent(m, g) :
                /\ c[k].row = [rows[m][k] EXCEPT !.held = CarriedHolder(m, g, k)]
                /\ c[k].entries = Entries(m, k)
      BY <1>4 DEF Exported
    <2>2. TablesType /\ HistoriesReadable /\ HeldEnded /\ SessionsBoundOnce  BY DEF TablesOK
    <2>3. ASSUME NEW k \in OfAgent(m, g)
          PROVE  /\ k \in Bound(m) /\ c[k].row.agent = g
                 /\ c[k].row.session = rows[m][k].session
                 /\ c[k].row.harness = rows[m][k].harness
                 /\ c[k].row.runner = rows[m][k].runner
                 /\ c[k].row.held # None => c[k].row.ended # 0
                 /\ Readable(c[k].entries)
      <3>1. k \in Bound(m) /\ rows[m][k] \in RowSet /\ rows[m][k].agent = g
        BY <1>3, <2>2, BoundRow DEF OfAgent
      <3>2. c[k].row = [rows[m][k] EXCEPT !.held = CarriedHolder(m, g, k)]  BY <2>1
      <3>3. /\ c[k].row.agent = g /\ c[k].row.session = rows[m][k].session
            /\ c[k].row.harness = rows[m][k].harness /\ c[k].row.runner = rows[m][k].runner
            /\ c[k].row.held = CarriedHolder(m, g, k) /\ c[k].row.ended = rows[m][k].ended
        BY <3>1, <3>2 DEF RowSet
      <3>4. CarriedHolder(m, g, k) # None => rows[m][k].ended # 0
        <4>1. CASE rows[m][k].held # None  BY <1>3, <2>2, <3>1, <4>1 DEF HeldEnded
        <4>2. CASE rows[m][k].held = None /\ k \notin move[g].plan
          BY <1>2, <3>1, <4>2 DEF Exportable, BoundRefs
        <4>3. CASE rows[m][k].held = None /\ k \in move[g].plan
          BY <4>3 DEF CarriedHolder
        <4>. QED  BY <4>1, <4>2, <4>3
      <3>5. Readable(Entries(m, k))  BY <1>3, <2>2, EntriesIs
      <3>. QED  BY <2>1, <3>1, <3>3, <3>4, <3>5
    <2>4. \A k, l \in OfAgent(m, g) : k # l => Apart(c[k].row, c[l].row)
      <3> SUFFICES ASSUME NEW k \in OfAgent(m, g), NEW l \in OfAgent(m, g), k # l
                   PROVE  Apart(c[k].row, c[l].row)
        OBVIOUS
      <3>1. Apart(rows[m][k], rows[m][l])
        BY <1>3, <2>2, <2>3 DEF SessionsBoundOnce, Apart
      <3>. QED  BY <2>3, <3>1 DEF Apart
    <2>5. StreamOK(g)'
      <3>1. move'[g].carried = c  BY <1>7
      <3> HIDE DEF c
      <3>. QED  BY <2>1, <2>3, <2>4, <3>1 DEF StreamOK
    <2>6. \A h \in Agents \ {g} : StreamOK(h)'  BY <1>7 DEF ClaimsOK, StreamsOK, StreamOK
    <2>. QED  BY <2>5, <2>6 DEF StreamsOK
  <1>. QED  BY <1>8, <1>10, <1>11, <1>12, <1>13 DEF ClaimsOK

\* A step of one move, with the claim and the caches it writes.
LEMMA SteppedClaims ==
    ASSUME ClaimsOK, NEW g \in Agents, NEW a, NEW b, MoveStepped(g, a, b), ClaimStepped(g),
           NEW R \in SUBSET Machines, CacheStepped(g, R),
           checks' = checks, writes' = writes, moves' = moves,
           data' \in [Agents -> [Keys -> SUBSET Machines]],
           b \in {"waiting", "picked_up"} => move[g].r \in {"waiting", "picked_up"},
           PhaseOK(g)',
           \A x \in Machines \ R :
              Away(x, g)' => Away(x, g) \/ (claim[g].version = 0 /\ move[g].src # x)
    PROVE  ClaimsOK'
  <1>1. ClaimsType /\ MovesType /\ StreamsOK /\ Phases /\ VersionsOK /\ CachesOK
    BY DEF ClaimsOK
  <1>2. MovesType' /\ StreamsOK'  BY <1>1, SteppedMoves
  <1>3. VersionsOK'  BY <1>1, VersionsStep
  <1>4. (\A h \in Agents \ {g} : move'[h] = move[h]) /\ move'[g].src = move[g].src
    BY DEF MoveStepped
  <1>5. ClaimsType' /\ CachesOK'  BY <1>1, <1>3, <1>4, CachesStep
  <1>6. Phases'
    <2>1. \A h \in Agents \ {g} : PhaseOK(h)'
      BY <1>1, <1>4 DEF Phases, PhaseOK, ClaimStepped
    <2>. QED  BY <2>1 DEF Phases
  <1>. QED  BY <1>2, <1>3, <1>5, <1>6 DEF ClaimsOK

\* The two sides of a move that has been admitted.
LEMMA MoveIs ==
    ASSUME ClaimsOK, NEW g \in Agents,
           move[g].s # "released" \/ move[g].r # "done"
    PROVE  /\ g \in Movers /\ move[g].src \in Machines /\ move[g].dst \in Machines
           /\ move[g].src # move[g].dst /\ move[g].src # None /\ move[g].dst # None
           /\ move[g] \in MoveSet /\ move[g].plan \subseteq Keys /\ move[g].carried \in Streams
  <1>1. PhaseOK(g) /\ move[g] \in MoveSet  BY DEF ClaimsOK, Phases, MovesType
  <1>. QED  BY <1>1, ConstantsAssumption DEF PhaseOK, MoveSet

LEMMA SameData ==
    ASSUME MovesType, data' = data
    PROVE  data' \in [Agents -> [Keys -> SUBSET Machines]]
  BY DEF MovesType

LEMMA AbortMoveClaims ==
    ASSUME ClaimsOK, NEW g \in Agents, AbortMove(g)
    PROVE  ClaimsOK'
  <1>1. /\ move[g].s \in {"preparing", "published"} /\ move[g].r \in {"waiting", "picked_up"}
        /\ move' = [move EXCEPT ![g].s = "aborted",
                                ![g].r = IF move[g].r = "waiting" THEN "aborted" ELSE move[g].r]
        /\ claim' = claim /\ reads' = reads /\ misled' = misled /\ checks' = checks
        /\ data' = data /\ writes' = writes /\ moves' = moves
    BY DEF AbortMove
  <1> DEFINE b == IF move[g].r = "waiting" THEN "aborted" ELSE move[g].r
             m == move[g].src
  <1>2. m \in Machines /\ m # move[g].dst /\ g \in Movers /\ move[g].dst \in Machines
    BY <1>1, MoveIs
  <1>3. b \in {"aborted", "picked_up"}
        /\ (b \in {"waiting", "picked_up"} => move[g].r \in {"waiting", "picked_up"})
    BY <1>1
  <1>4. cache' = [cache EXCEPT ![m][g] = Decide(cache[m][g], Observe(claim'[g]))]
    BY <1>1, <1>2 DEF AbortMove, ClaimsOK, ClaimsType
  <1>5. ClaimsType /\ MovesType  BY DEF ClaimsOK
  <1>6. CacheStepped(g, {m})  BY <1>1, <1>2, <1>4, <1>5, NewCache
  <1> HIDE DEF b
  <1>7. MoveStepped(g, "aborted", b)
    <2>1. move' = [move EXCEPT ![g].s = "aborted", ![g].r = b]  BY <1>1 DEF b
    <2>. QED  BY <1>3, <1>5, <2>1, BothStepped
  <1>8. ClaimStepped(g)  BY <1>1, <1>5, SameClaim
  <1>9. PhaseOK(g)'
    BY <1>2, <1>3, <1>7 DEF PhaseOK, MoveStepped
  <1>10. \A x \in Machines \ {m} : Away(x, g)' => Away(x, g)
    BY <1>1, <1>7 DEF Away, SourceOpen, MoveStepped
  <1>11. data' \in [Agents -> [Keys -> SUBSET Machines]]  BY <1>1, <1>5, SameData
  <1>. QED  BY <1>1, <1>2, <1>3, <1>6, <1>7, <1>8, <1>9, <1>10, <1>11, SteppedClaims

LEMMA ReceiverAbortsClaims ==
    ASSUME ClaimsOK, NEW g \in Agents, ReceiverAborts(g)
    PROVE  ClaimsOK'
  <1> DEFINE back == IF move[g].r = "claimed"
                     THEN [holder |-> move[g].src, version |-> claim[g].version + 1]
                     ELSE claim[g]
             m == move[g].dst
  <1>1. /\ move[g].r \in {"picked_up", "claimed"}
        /\ claim' = [claim EXCEPT ![g] = back]
        /\ move' = [move EXCEPT ![g].r = "aborted"]
        /\ reads' = reads /\ misled' = misled /\ checks' = checks
        /\ data' = data /\ writes' = writes /\ moves' = moves
    BY DEF ReceiverAborts
  <1>2. m \in Machines /\ m # move[g].src /\ g \in Movers /\ move[g].src \in Machines
        /\ m # None /\ move[g].src # None /\ move[g] \in MoveSet
    BY <1>1, MoveIs
  <1>3. ClaimsType /\ MovesType /\ PhaseOK(g)  BY DEF ClaimsOK, Phases
  <1>4. claim \in [Agents -> ClaimSet]  BY <1>3 DEF ClaimsType
  <1>5. claim'[g] = back /\ (\A h \in Agents \ {g} : claim'[h] = claim[h])  BY <1>1, <1>4
  <1>6. cache' = [cache EXCEPT ![m][g] = Decide(cache[m][g], Observe(claim'[g]))]
    BY <1>2, <1>3, <1>5 DEF ReceiverAborts, ClaimsType
  <1>7. CacheStepped(g, {m})  BY <1>1, <1>2, <1>3, <1>6, NewCache
  <1>8. MoveStepped(g, move[g].s, "aborted")  BY <1>1, <1>3, ReceiverStepped
  <1>9. back \in ClaimSet /\ (move[g].r = "claimed" =>
            back.version = claim[g].version + 1 /\ back.holder = move[g].src)
        /\ (move[g].r # "claimed" => back = claim[g])
    BY <1>2, <1>4 DEF ClaimSet
  <1> HIDE DEF back
  <1>10. ClaimStepped(g)
    <2>1. claim' \in [Agents -> ClaimSet]  BY <1>1, <1>4, <1>9
    <2>. QED  BY <1>2, <1>5, <1>9, <2>1 DEF ClaimStepped
  <1>11. move[g].s # "preparing" /\ move[g].s \in {"published", "aborted"}
    BY <1>1, <1>2, <1>3 DEF PhaseOK, MoveSet
  <1>12. PhaseOK(g)'
    BY <1>2, <1>8, <1>11 DEF PhaseOK, MoveStepped
  <1>13. \A x \in Machines \ {m} : Away(x, g)' => Away(x, g)
    <2> SUFFICES ASSUME NEW x \in Machines, x # m, Away(x, g)'  PROVE Away(x, g)
      OBVIOUS
    <2>1. claim'[g].holder \notin {None, x} /\ ~SourceOpen(x, g) /\ <<x, g>> \notin misled
      BY <1>1, <1>8 DEF Away, SourceOpen, MoveStepped
    <2>2. claim[g].holder \notin {None, x}
      <3>1. CASE move[g].r = "claimed"
        <4>1. claim[g].holder = m  BY <1>2, <1>3, <3>1 DEF PhaseOK
        <4>. QED  BY <1>2, <4>1
      <3>2. CASE move[g].r # "claimed"  BY <1>5, <1>9, <2>1, <3>2
      <3>. QED  BY <3>1, <3>2
    <2>. QED  BY <2>1, <2>2 DEF Away
  <1>14. data' \in [Agents -> [Keys -> SUBSET Machines]]  BY <1>1, <1>3, SameData
  <1>. QED  BY <1>1, <1>2, <1>7, <1>8, <1>10, <1>12, <1>13, <1>14, SteppedClaims

LEMMA ThawAbortedClaims ==
    ASSUME ClaimsOK, NEW g \in Agents, ThawAborted(g)
    PROVE  ClaimsOK'
  <1>1. /\ move[g].s = "published" /\ move[g].r = "aborted"
        /\ move' = [move EXCEPT ![g].s = "aborted"]
        /\ claim' = claim /\ reads' = reads /\ misled' = misled /\ checks' = checks
        /\ data' = data /\ writes' = writes /\ moves' = moves
    BY DEF ThawAborted
  <1> DEFINE m == move[g].src
  <1>2. m \in Machines /\ m # move[g].dst /\ g \in Movers /\ move[g].dst \in Machines
    BY <1>1, MoveIs
  <1>3. ClaimsType /\ MovesType  BY DEF ClaimsOK
  <1>4. cache' = [cache EXCEPT ![m][g] = Decide(cache[m][g], Observe(claim'[g]))]
    BY <1>1, <1>2, <1>3 DEF ThawAborted, ClaimsType
  <1>5. CacheStepped(g, {m})  BY <1>1, <1>2, <1>3, <1>4, NewCache
  <1>6. MoveStepped(g, "aborted", move[g].r)  BY <1>1, <1>3, SourceStepped
  <1>7. ClaimStepped(g)  BY <1>1, <1>3, SameClaim
  <1>8. PhaseOK(g)'  BY <1>1, <1>2, <1>6 DEF PhaseOK, MoveStepped
  <1>9. \A x \in Machines \ {m} : Away(x, g)' => Away(x, g)
    BY <1>1, <1>6 DEF Away, SourceOpen, MoveStepped
  <1>10. data' \in [Agents -> [Keys -> SUBSET Machines]]  BY <1>1, <1>3, SameData
  <1>. QED  BY <1>1, <1>2, <1>5, <1>6, <1>7, <1>8, <1>9, <1>10, SteppedClaims

LEMMA PickUpClaims ==
    ASSUME ClaimsOK, NEW g \in Agents, PickUp(g)
    PROVE  ClaimsOK'
  <1>1. /\ move[g].s = "published" /\ move[g].r = "waiting"
        /\ move' = [move EXCEPT ![g].r = "picked_up"]
        /\ claim' = claim /\ cache' = cache /\ reads' = reads /\ misled' = misled
        /\ checks' = checks /\ data' = data /\ writes' = writes /\ moves' = moves
    BY DEF PickUp, claims
  <1>2. g \in Movers /\ move[g].src \in Machines /\ move[g].dst \in Machines
        /\ move[g].src # move[g].dst
    BY <1>1, MoveIs
  <1>3. ClaimsType /\ MovesType  BY DEF ClaimsOK
  <1>5. CacheStepped(g, {})  BY <1>1, <1>3, SameCache
  <1>6. MoveStepped(g, move[g].s, "picked_up")  BY <1>1, <1>3, ReceiverStepped
  <1>7. ClaimStepped(g)  BY <1>1, <1>3, SameClaim
  <1>8. PhaseOK(g)'  BY <1>1, <1>2, <1>6 DEF PhaseOK, MoveStepped
  <1>9. \A x \in Machines : Away(x, g)' => Away(x, g)
    BY <1>1, <1>6 DEF Away, SourceOpen, MoveStepped
  <1>10. data' \in [Agents -> [Keys -> SUBSET Machines]]  BY <1>1, <1>3, SameData
  <1>. QED  BY <1>1, <1>5, <1>6, <1>7, <1>8, <1>9, <1>10, SteppedClaims

\* Whom the claim is taken from is the source, or nobody.
LEMMA TakeClaimClaims ==
    ASSUME ClaimsOK, NEW g \in Agents, TakeClaim(g)
    PROVE  ClaimsOK'
  <1> DEFINE m == move[g].dst
             c == [holder |-> m, version |-> claim[g].version + 1]
  <1>1. /\ move[g].s = "published" /\ move[g].r = "picked_up"
        /\ claim[g].version = move[g].ver
        /\ move' = [move EXCEPT ![g].r = "claimed"]
        /\ claim' = [claim EXCEPT ![g] = c]
        /\ cache' = cache /\ reads' = reads /\ misled' = misled
        /\ checks' = checks /\ data' = data /\ writes' = writes /\ moves' = moves
    BY DEF TakeClaim
  <1>2. g \in Movers /\ move[g].src \in Machines /\ m \in Machines
        /\ move[g].src # m /\ m # None
    BY <1>1, MoveIs
  <1>3. ClaimsType /\ MovesType /\ VersionsOK  BY DEF ClaimsOK
  <1>4. claim \in [Agents -> ClaimSet] /\ claim[g].version \in Nat
    BY <1>3 DEF ClaimsType, ClaimSet
  <1>5. c \in ClaimSet  BY <1>2, <1>4 DEF ClaimSet
  <1>6. claim'[g] = c /\ (\A h \in Agents \ {g} : claim'[h] = claim[h])
        /\ claim' \in [Agents -> ClaimSet]
    BY <1>1, <1>4, <1>5
  <1>7. ClaimStepped(g)  BY <1>2, <1>6 DEF ClaimStepped
  <1>8. CacheStepped(g, {})  BY <1>1, <1>3, SameCache
  <1>9. MoveStepped(g, move[g].s, "claimed")  BY <1>1, <1>3, ReceiverStepped
  <1>10. PhaseOK(g)'
    <2>1. claim'[g].holder = m  BY <1>6
    <2> HIDE DEF c
    <2>. QED  BY <1>1, <1>2, <1>9, <2>1 DEF PhaseOK, MoveStepped
  <1>11. \A x \in Machines : Away(x, g)' =>
            Away(x, g) \/ (claim[g].version = 0 /\ move[g].src # x)
    <2> SUFFICES ASSUME NEW x \in Machines, Away(x, g)'
                 PROVE  Away(x, g) \/ (claim[g].version = 0 /\ move[g].src # x)
      OBVIOUS
    <2>1. ~SourceOpen(x, g) /\ <<x, g>> \notin misled
      BY <1>1, <1>9 DEF Away, SourceOpen, MoveStepped
    <2>2. move[g].src # x  BY <1>1, <2>1 DEF SourceOpen
    <2>3. claim[g].holder \in {None, move[g].src}  BY <1>1, <1>3 DEF VersionsOK
    <2>4. claim[g].version = 0 <=> claim[g].holder = None  BY <1>3 DEF VersionsOK
    <2>. QED  BY <2>1, <2>2, <2>3, <2>4 DEF Away
  <1>12. data' \in [Agents -> [Keys -> SUBSET Machines]]  BY <1>1, <1>3, SameData
  <1>. QED  BY <1>1, <1>7, <1>8, <1>9, <1>10, <1>11, <1>12, SteppedClaims

LEMMA BeginActivatingClaims ==
    ASSUME ClaimsOK, NEW g \in Agents, BeginActivating(g)
    PROVE  ClaimsOK'
  <1>1. /\ move[g].r = "claimed"
        /\ move' = [move EXCEPT ![g].r = "activating"]
        /\ claim' = claim /\ reads' = reads /\ misled' = misled /\ checks' = checks
        /\ data' = data /\ writes' = writes /\ moves' = moves
    BY DEF BeginActivating
  <1> DEFINE m == move[g].dst
  <1>2. m \in Machines /\ m # move[g].src /\ g \in Movers /\ move[g].src \in Machines
        /\ m # None /\ move[g] \in MoveSet
    BY <1>1, MoveIs
  <1>3. ClaimsType /\ MovesType /\ PhaseOK(g)  BY DEF ClaimsOK, Phases
  <1>4. cache' = [cache EXCEPT ![m][g] = Decide(cache[m][g], Observe(claim'[g]))]
    BY <1>1, <1>2, <1>3 DEF BeginActivating, ClaimsType
  <1>5. CacheStepped(g, {m})  BY <1>1, <1>2, <1>3, <1>4, NewCache
  <1>6. MoveStepped(g, move[g].s, "activating")  BY <1>1, <1>3, ReceiverStepped
  <1>7. ClaimStepped(g)  BY <1>1, <1>3, SameClaim
  <1>8. move[g].s = "published" /\ claim[g].holder = m
    BY <1>1, <1>2, <1>3 DEF PhaseOK, MoveSet
  <1>9. PhaseOK(g)'  BY <1>1, <1>2, <1>6, <1>8 DEF PhaseOK, MoveStepped
  <1>10. \A x \in Machines \ {m} : Away(x, g)' => Away(x, g)
    BY <1>1, <1>6 DEF Away, SourceOpen, MoveStepped
  <1>11. data' \in [Agents -> [Keys -> SUBSET Machines]]  BY <1>1, <1>3, SameData
  <1>. QED  BY <1>1, <1>2, <1>5, <1>6, <1>7, <1>9, <1>10, <1>11, SteppedClaims

LEMMA ActivateClaims ==
    ASSUME ClaimsOK, NEW g \in Agents, ActivateCarrying(g)
    PROVE  ClaimsOK'
  <1> DEFINE m == move[g].dst
  <1>1. /\ move[g].r = "activating"
        /\ move' = [move EXCEPT ![g].r = "activated"]
        /\ data' = [data EXCEPT ![g] =
              [k \in Keys |-> IF k \in move[g].plan
                              THEN (data[g][k] \ {move[g].src}) \cup {m} ELSE data[g][k]]]
        /\ claim' = claim /\ cache' = cache /\ reads' = reads /\ misled' = misled
        /\ checks' = checks /\ writes' = writes /\ moves' = moves
    BY DEF ActivateCarrying, claims, ClaimsOK, MovesType
  <1>2. m \in Machines /\ m # move[g].src /\ g \in Movers /\ move[g].src \in Machines
        /\ m # None /\ move[g] \in MoveSet
    BY <1>1, MoveIs
  <1>3. ClaimsType /\ MovesType /\ PhaseOK(g)  BY DEF ClaimsOK, Phases
  <1>4. CacheStepped(g, {})  BY <1>1, <1>3, SameCache
  <1>5. MoveStepped(g, move[g].s, "activated")  BY <1>1, <1>3, ReceiverStepped
  <1>6. ClaimStepped(g)  BY <1>1, <1>3, SameClaim
  <1>7. move[g].s = "published" /\ claim[g].holder = m
    BY <1>1, <1>2, <1>3 DEF PhaseOK, MoveSet
  <1>8. PhaseOK(g)'  BY <1>1, <1>2, <1>5, <1>7 DEF PhaseOK, MoveStepped
  <1>9. \A x \in Machines : Away(x, g)' => Away(x, g)
    BY <1>1, <1>5 DEF Away, SourceOpen, MoveStepped
  <1>10. data' \in [Agents -> [Keys -> SUBSET Machines]]
    <2>1. data \in [Agents -> [Keys -> SUBSET Machines]]  BY <1>3 DEF MovesType
    <2>2. [k \in Keys |-> IF k \in move[g].plan
                          THEN (data[g][k] \ {move[g].src}) \cup {m} ELSE data[g][k]]
            \in [Keys -> SUBSET Machines]
      BY <1>2, <2>1
    <2>. QED  BY <1>1, <2>1, <2>2
  <1>. QED  BY <1>1, <1>4, <1>5, <1>6, <1>8, <1>9, <1>10, SteppedClaims

LEMMA ReleaseMoveClaims ==
    ASSUME ClaimsOK, NEW g \in Agents, ReleaseMove(g)
    PROVE  ClaimsOK'
  <1>1. /\ move[g].s = "published" /\ move[g].r = "activated"
        /\ move' = [move EXCEPT ![g].s = "released"]
        /\ claim' = claim /\ reads' = reads /\ misled' = misled /\ checks' = checks
        /\ data' = data /\ writes' = writes /\ moves' = moves
    BY DEF ReleaseMove
  <1> DEFINE m == move[g].src
  <1>2. m \in Machines /\ m # move[g].dst /\ g \in Movers /\ move[g].dst \in Machines
        /\ move[g].dst # None
    BY <1>1, MoveIs
  <1>3. ClaimsType /\ MovesType /\ PhaseOK(g)  BY DEF ClaimsOK, Phases
  <1>4. cache' = [cache EXCEPT ![m][g] = Decide(cache[m][g], Observe(claim'[g]))]
    BY <1>1, <1>2, <1>3 DEF ReleaseMove, ClaimsType
  <1>5. CacheStepped(g, {m})  BY <1>1, <1>2, <1>3, <1>4, NewCache
  <1>6. MoveStepped(g, "released", move[g].r)  BY <1>1, <1>3, SourceStepped
  <1>7. ClaimStepped(g)  BY <1>1, <1>3, SameClaim
  <1>8. claim[g].holder = move[g].dst  BY <1>1, <1>2, <1>3 DEF PhaseOK
  <1>9. PhaseOK(g)'  BY <1>1, <1>2, <1>6, <1>8 DEF PhaseOK, MoveStepped
  <1>10. \A x \in Machines \ {m} : Away(x, g)' => Away(x, g)
    BY <1>1, <1>6 DEF Away, SourceOpen, MoveStepped
  <1>11. data' \in [Agents -> [Keys -> SUBSET Machines]]  BY <1>1, <1>3, SameData
  <1>. QED  BY <1>1, <1>2, <1>5, <1>6, <1>7, <1>9, <1>10, <1>11, SteppedClaims

LEMMA FinishMoveClaims ==
    ASSUME ClaimsOK, NEW g \in Agents, FinishMove(g)
    PROVE  ClaimsOK'
  <1>1. /\ move[g].s = "released" /\ move[g].r = "activated"
        /\ move' = [move EXCEPT ![g].r = "done"]
        /\ claim' = claim /\ cache' = cache /\ reads' = reads /\ misled' = misled
        /\ checks' = checks /\ data' = data /\ writes' = writes /\ moves' = moves
    BY DEF FinishMove, claims
  <1>2. g \in Movers /\ move[g].src \in Machines /\ move[g].dst \in Machines
        /\ move[g].src # move[g].dst
    BY <1>1, MoveIs
  <1>3. ClaimsType /\ MovesType /\ PhaseOK(g)  BY DEF ClaimsOK, Phases
  <1>4. claim[g].holder = move[g].dst  BY <1>1, <1>2, <1>3, ConstantsAssumption DEF PhaseOK
  <1>5. CacheStepped(g, {})  BY <1>1, <1>3, SameCache
  <1>6. MoveStepped(g, move[g].s, "done")  BY <1>1, <1>3, ReceiverStepped
  <1>7. ClaimStepped(g)  BY <1>1, <1>3, SameClaim
  <1>8. PhaseOK(g)'  BY <1>1, <1>2, <1>4, <1>6 DEF PhaseOK, MoveStepped
  <1>9. \A x \in Machines : Away(x, g)' => Away(x, g)
    BY <1>1, <1>6 DEF Away, SourceOpen, MoveStepped
  <1>10. data' \in [Agents -> [Keys -> SUBSET Machines]]  BY <1>1, <1>3, SameData
  <1>. QED  BY <1>1, <1>5, <1>6, <1>7, <1>8, <1>9, <1>10, SteppedClaims

-----------------------------------------------------------------------------
(* The bindings of a move on its source.                                   *)

MovesKept == AdmittedMoveExports /\ PublishedKept

\* No binding of an open move's agent goes, and none of one that is preparing is
\* opened.
KeepsBindings ==
    \A x \in Machines, h \in Agents : move[h].src = x =>
        /\ move[h].s \in {"preparing", "published"} => OfAgent(x, h) \subseteq OfAgent(x, h)'
        /\ move[h].s = "preparing" => BoundRefs(x, h)' \subseteq BoundRefs(x, h)

\* What the two properties read of a move.
SameMoves ==
    \A h \in Agents : move'[h].s \in {"preparing", "published"} =>
        /\ move'[h].s = move[h].s /\ move'[h].src = move[h].src
        /\ move'[h].plan = move[h].plan /\ move'[h].carried = move[h].carried

LEMMA MovesKeptStep ==
    ASSUME MovesKept, ClaimsOK, KeepsBindings, SameMoves
    PROVE  MovesKept'
  <1>1. ASSUME NEW h \in Agents, move'[h].s = "preparing"
        PROVE  Exportable(move[h].src, h)'
    <2>1. move[h].s = "preparing" /\ move'[h].src = move[h].src /\ move'[h].plan = move[h].plan
      BY <1>1 DEF SameMoves
    <2>2. move[h].src \in Machines  BY <2>1, MoveIs
    <2>3. PICK x \in Machines : x = move[h].src  BY <2>2
    <2>4. move[h].plan \subseteq OfAgent(x, h) /\ BoundRefs(x, h) \subseteq move[h].plan
      BY <2>1, <2>3 DEF MovesKept, AdmittedMoveExports, Exportable
    <2>5. OfAgent(x, h) \subseteq OfAgent(x, h)' /\ BoundRefs(x, h)' \subseteq BoundRefs(x, h)
      BY <2>1, <2>3 DEF KeepsBindings
    <2>6. move'[h].plan \subseteq OfAgent(x, h)' /\ BoundRefs(x, h)' \subseteq move'[h].plan
      BY <2>1, <2>4, <2>5
    <2>7. move'[h].src = x  BY <2>1, <2>3
    <2>. QED  BY <2>6, <2>7 DEF Exportable
  <1>2. ASSUME NEW h \in Agents, move'[h].s = "published"
        PROVE  move'[h].plan \cup DOMAIN move'[h].carried \subseteq OfAgent(move[h].src, h)'
    <2>1. move[h].s = "published" /\ move'[h].src = move[h].src /\ move'[h].plan = move[h].plan
          /\ move'[h].carried = move[h].carried
      BY <1>2 DEF SameMoves
    <2>2. move[h].src \in Machines  BY <2>1, MoveIs
    <2>3. PICK x \in Machines : x = move[h].src  BY <2>2
    <2>4. move[h].plan \cup DOMAIN move[h].carried \subseteq OfAgent(x, h)
      BY <2>1, <2>3 DEF MovesKept, PublishedKept
    <2>5. OfAgent(x, h) \subseteq OfAgent(x, h)'  BY <2>1, <2>3 DEF KeepsBindings
    <2>6. move'[h].plan \cup DOMAIN move'[h].carried \subseteq OfAgent(x, h)'
      BY <2>1, <2>4, <2>5
    <2>7. move'[h].src = x  BY <2>1, <2>3
    <2>. QED  BY <2>6, <2>7
  <1>. QED  BY <1>1, <1>2 DEF MovesKept, AdmittedMoveExports, PublishedKept

\* The tables do not change.
LEMMA SameRowsKeep ==
    ASSUME rows' = rows
    PROVE  KeepsBindings
  BY DEF KeepsBindings, OfAgent, BoundRefs, Bound

\* A registration of a frozen agent is refused, and of another one touches no
\* binding of it.
LEMMA RegisterKeeps ==
    ASSUME TablesOK, MovesKept, ClaimsOK, NEW m \in Machines, NEW q \in Requests,
           NEW now \in Times, RegisterSession(m, q, now)
    PROVE  MovesKept'
  <1>1. TakesOver(m, q) /\ Registered(m, q, now)  BY RegisterTables
  <1>2. ~Fenced(m, q) /\ move' = move  BY DEF RegisterSession
  <1>3. rows \in [Machines -> Tables]  BY DEF TablesOK, TablesType
  <1>4. \A x \in Machines \ {m} : rows'[x] = rows[x]  BY <1>1, <1>3 DEF Registered
  <1> DEFINE p == Previous(m, q)
  <1>5. /\ DOMAIN rows'[m] = (Bound(m) \ {p}) \cup {q.key}
        /\ rows'[m][q.key].agent = q.agent
        /\ \A k \in Bound(m) : k # p /\ k # q.key => rows'[m][k] = rows[m][k]
        /\ p \in Bound(m) => rows[m][p].agent = q.agent
        /\ q.key \in Bound(m) => rows[m][q.key].agent = q.agent
    BY <1>1 DEF Registered, TakesOver, Row
  <1>6. ASSUME NEW h \in Agents, h # q.agent
        PROVE  OfAgent(m, h)' = OfAgent(m, h) /\ BoundRefs(m, h)' = BoundRefs(m, h)
    <2> HIDE DEF p
    <2>1. OfAgent(m, h)' = {k \in DOMAIN rows'[m] : rows'[m][k].agent = h}
          /\ BoundRefs(m, h)' = {k \in DOMAIN rows'[m] :
                                    rows'[m][k].agent = h /\ rows'[m][k].ended = 0}
      BY DEF OfAgent, BoundRefs, Bound
    <2>2. \A k \in DOMAIN rows'[m] : rows'[m][k].agent = h =>
             k \in Bound(m) /\ rows'[m][k] = rows[m][k]
      BY <1>5, <1>6
    <2>3. \A k \in Bound(m) : rows[m][k].agent = h =>
             k \in DOMAIN rows'[m] /\ rows'[m][k] = rows[m][k]
      BY <1>5, <1>6
    <2>. QED  BY <2>1, <2>2, <2>3 DEF OfAgent, BoundRefs
  <1>7. KeepsBindings
    <2> SUFFICES ASSUME NEW x \in Machines, NEW h \in Agents, move[h].src = x,
                        move[h].s \in {"preparing", "published"}
                 PROVE  OfAgent(x, h) \subseteq OfAgent(x, h)'
                        /\ BoundRefs(x, h)' \subseteq BoundRefs(x, h)
      BY DEF KeepsBindings
    <2>1. CASE x = m
      <3>1. SourceOpen(m, h)  BY <2>1 DEF SourceOpen
      <3>2. h # q.agent  BY <1>2, <3>1 DEF Fenced
      <3>. QED  BY <1>6, <2>1, <3>2
    <2>2. CASE x # m  BY <1>4, <2>2 DEF OfAgent, BoundRefs, Bound
    <2>. QED  BY <2>1, <2>2
  <1>8. SameMoves  BY <1>2 DEF SameMoves
  <1>. QED  BY <1>7, <1>8, MovesKeptStep

LEMMA EndedKeeps ==
    ASSUME TablesOK, MovesKept, ClaimsOK, NEW m \in Machines, NEW k, NEW now \in Times, NEW runner,
           Ended(m, k, now, runner), move' = move
    PROVE  MovesKept'
  <1>1. rows \in [Machines -> Tables]  BY DEF TablesOK, TablesType
  <1>2. \A x \in Machines \ {m} : rows'[x] = rows[x]  BY <1>1 DEF Ended
  <1>3. k \in Bound(m) /\ rows[m][k] \in RowSet  BY BoundRow DEF TablesOK, Ended
  <1>4. rows'[m][k].agent = rows[m][k].agent /\ rows'[m][k].ended = now
    BY <1>3 DEF Ended, RowSet
  <1>5. now # 0  BY ConstantsAssumption
  <1>6. DOMAIN rows'[m] = Bound(m) /\ \A l \in Bound(m) : l # k => rows'[m][l] = rows[m][l]
    BY DEF Ended
  <1>7. KeepsBindings
    <2> SUFFICES ASSUME NEW x \in Machines, NEW h \in Agents
                 PROVE  OfAgent(x, h) \subseteq OfAgent(x, h)'
                        /\ BoundRefs(x, h)' \subseteq BoundRefs(x, h)
      BY DEF KeepsBindings
    <2>1. CASE x = m  BY <1>3, <1>4, <1>5, <1>6, <2>1 DEF OfAgent, BoundRefs, Bound
    <2>2. CASE x # m  BY <1>2, <2>2 DEF OfAgent, BoundRefs, Bound
    <2>. QED  BY <2>1, <2>2
  <1>8. SameMoves  BY DEF SameMoves
  <1>. QED  BY <1>7, <1>8, MovesKeptStep

LEMMA PruneKeeps ==
    ASSUME TablesOK, MovesKept, ClaimsOK, NEW m \in Machines, NEW cutoff \in Times,
           NEW K \in SUBSET Prunable(m, cutoff), PruneEnded(m, cutoff, K)
    PROVE  MovesKept'
  <1>1. /\ rows' = [rows EXCEPT ![m] = rows'[m]]
        /\ DOMAIN rows'[m] = Bound(m) \ K
        /\ \A k \in Bound(m) \ K : rows'[m][k] = rows[m][k]
    BY PruneTables
  <1>2. rows \in [Machines -> Tables]  BY DEF TablesOK, TablesType
  <1>3. \A x \in Machines \ {m} : rows'[x] = rows[x]  BY <1>1, <1>2
  <1>4. \A k \in K : ~OpenMove(m, rows[m][k].agent)  BY DEF Prunable
  <1>5. KeepsBindings
    <2> SUFFICES ASSUME NEW x \in Machines, NEW h \in Agents, move[h].src = x,
                        move[h].s \in {"preparing", "published"}
                 PROVE  OfAgent(x, h) \subseteq OfAgent(x, h)'
                        /\ BoundRefs(x, h)' \subseteq BoundRefs(x, h)
      BY DEF KeepsBindings
    <2>1. CASE x = m
      <3>1. OpenMove(m, h)  BY <2>1 DEF OpenMove, SourceOpen
      <3>2. \A k \in OfAgent(m, h) : k \notin K  BY <1>4, <3>1 DEF OfAgent
      <3>. QED  BY <1>1, <2>1, <3>2 DEF OfAgent, BoundRefs, Bound
    <2>2. CASE x # m  BY <1>3, <2>2 DEF OfAgent, BoundRefs, Bound
    <2>. QED  BY <2>1, <2>2
  <1>6. move' = move  BY DEF PruneEnded
  <1>7. SameMoves  BY <1>6 DEF SameMoves
  <1>. QED  BY <1>5, <1>7, MovesKeptStep

\* An activation adds bindings of its own agent, whose source has published.
LEMMA ActivateKeeps ==
    ASSUME TablesOK, MovesKept, ClaimsOK, NEW g \in Agents, ActivateCarrying(g)
    PROVE  MovesKept'
  <1>1. move[g].r = "activating" /\ move' = [move EXCEPT ![g].r = "activated"]
    BY DEF ActivateCarrying
  <1>a. move[g].dst \in Machines /\ move[g] \in MoveSet /\ move[g].src # None  BY <1>1, MoveIs
  <1>2. PICK m \in Machines : m = move[g].dst  BY <1>a
  <1>3. MovesType /\ StreamsOK /\ PhaseOK(g)  BY DEF ClaimsOK, Phases
  <1>4. move[g].s # "preparing"  BY <1>1, <1>a, <1>3 DEF PhaseOK
  <1>5. Installs(m, g)  BY <1>2, <1>3, ActivationInstalls
  <1>6. rows \in [Machines -> Tables] /\ TablesType  BY DEF TablesOK, TablesType
  <1>7. \A x \in Machines \ {m} : rows'[x] = rows[x]  BY <1>5, <1>6 DEF Installs
  <1>8. /\ DOMAIN rows'[m] = Bound(m) \cup Installed(m, g)
        /\ \A k \in Bound(m) : rows'[m][k] = rows[m][k]
        /\ \A k \in Installed(m, g) : rows'[m][k].agent = g
    BY <1>2, <1>3, <1>5, <1>6, InstalledRowIs DEF Installs
  <1>9. KeepsBindings
    <2> SUFFICES ASSUME NEW x \in Machines, NEW h \in Agents, move[h].src = x
                 PROVE  /\ OfAgent(x, h) \subseteq OfAgent(x, h)'
                        /\ move[h].s = "preparing" => BoundRefs(x, h)' \subseteq BoundRefs(x, h)
      BY DEF KeepsBindings
    <2>1. CASE x = m
      <3>1. OfAgent(m, h) \subseteq OfAgent(m, h)'  BY <1>8 DEF OfAgent, Bound
      <3>2. h # g => BoundRefs(m, h)' \subseteq BoundRefs(m, h)  BY <1>8 DEF BoundRefs, Bound
      <3>. QED  BY <1>4, <2>1, <3>1, <3>2
    <2>2. CASE x # m  BY <1>7, <2>2 DEF OfAgent, BoundRefs, Bound
    <2>. QED  BY <2>1, <2>2
  <1>10. MoveStepped(g, move[g].s, "activated")  BY <1>1, <1>3, ReceiverStepped
  <1>11. SameMoves  BY <1>10 DEF SameMoves, MoveStepped
  <1>. QED  BY <1>9, <1>11, MovesKeptStep

\* An export puts every binding of the agent into the stream.
LEMMA ExportKeeps ==
    ASSUME TablesOK, MovesKept, ClaimsOK, NEW g \in Agents, Export(g)
    PROVE  MovesKept'
  <1>1. move[g].s = "preparing" /\ Exportable(move[g].src, g) /\ rows' = rows
    BY DEF Export, tables
  <1>2. move[g].src \in Machines  BY <1>1, MoveIs
  <1>3. PICK x \in Machines : x = move[g].src  BY <1>2
  <1>4. PICK v \in MoveSet : Exported(g, v)  BY <1>2, ExportWrites
  <1>5. move \in [Agents -> MoveSet]  BY DEF ClaimsOK, MovesType
  <1>6. move'[g] = v /\ (\A h \in Agents \ {g} : move'[h] = move[h])
    BY <1>4, <1>5 DEF Exported
  <1>7. v.s = "published" /\ v.src = x /\ v.plan = move[g].plan
        /\ DOMAIN v.carried = OfAgent(x, g)
    BY <1>3, <1>4 DEF Exported
  <1>8. \A h \in Agents : OfAgent(x, h)' = OfAgent(x, h)  BY <1>1 DEF OfAgent, Bound
  <1>9. ASSUME NEW h \in Agents, move'[h].s = "preparing"
        PROVE  Exportable(move[h].src, h)'
    <2>1. h # g /\ move'[h] = move[h]  BY <1>6, <1>7, <1>9
    <2>2. Exportable(move[h].src, h)  BY <1>9, <2>1 DEF MovesKept, AdmittedMoveExports
    <2>. QED  BY <1>1, <2>1, <2>2 DEF Exportable, OfAgent, BoundRefs, Bound
  <1>10. ASSUME NEW h \in Agents, move'[h].s = "published"
         PROVE  move'[h].plan \cup DOMAIN move'[h].carried \subseteq OfAgent(move[h].src, h)'
    <2>1. CASE h = g
      <3>1. move[g].plan \subseteq OfAgent(x, g)  BY <1>1, <1>3 DEF Exportable
      <3>2. move'[g].src = x /\ move'[g].plan = move[g].plan
            /\ DOMAIN move'[g].carried = OfAgent(x, g)
        BY <1>6, <1>7
      <3>3. OfAgent(x, g)' = OfAgent(x, g)  BY <1>8
      <3>4. move'[g].plan \cup DOMAIN move'[g].carried \subseteq OfAgent(x, g)'
        BY <3>1, <3>2, <3>3
      <3>. QED  BY <2>1, <3>2, <3>4
    <2>2. CASE h # g
      <3>1. move'[h] = move[h]  BY <1>6, <2>2
      <3>2. move[h].plan \cup DOMAIN move[h].carried \subseteq OfAgent(move[h].src, h)
        BY <1>10, <3>1 DEF MovesKept, PublishedKept
      <3>. QED  BY <1>1, <3>1, <3>2 DEF OfAgent, Bound
    <2>. QED  BY <2>1, <2>2
  <1>. QED  BY <1>9, <1>10 DEF MovesKept, AdmittedMoveExports, PublishedKept

\* An admission takes the references that are bound as it opens the move.
LEMMA AdmitKeeps ==
    ASSUME TablesOK, MovesKept, ClaimsOK, NEW m \in Machines, NEW g \in Agents,
           NEW to \in Machines, AdmitMove(m, g, to)
    PROVE  MovesKept'
  <1>1. PICK v \in MoveSet : Admitted(m, g, to, v)  BY AdmissionOpens
  <1>2. move \in [Agents -> MoveSet]  BY DEF ClaimsOK, MovesType
  <1>3. move'[g] = v /\ (\A h \in Agents \ {g} : move'[h] = move[h]) /\ rows' = rows
    BY <1>1, <1>2 DEF Admitted, AdmitMove, tables
  <1>4. v.s = "preparing" /\ v.src = m /\ v.plan = BoundRefs(m, g)  BY <1>1 DEF Admitted
  <1>5. ASSUME NEW h \in Agents, move'[h].s = "preparing"
        PROVE  Exportable(move[h].src, h)'
    <2>1. CASE h = g
      <3>1. move'[g].src = m /\ move'[g].plan = BoundRefs(m, g)  BY <1>3, <1>4
      <3>2. BoundRefs(m, g)' = BoundRefs(m, g) /\ BoundRefs(m, g)' \subseteq OfAgent(m, g)'
        BY <1>3 DEF BoundRefs, OfAgent, Bound
      <3>3. move'[g].plan \subseteq OfAgent(m, g)' /\ BoundRefs(m, g)' \subseteq move'[g].plan
        BY <3>1, <3>2
      <3>. QED  BY <2>1, <3>1, <3>3 DEF Exportable
    <2>2. CASE h # g
      <3>1. move'[h] = move[h]  BY <1>3, <2>2
      <3>2. Exportable(move[h].src, h)  BY <1>5, <3>1 DEF MovesKept, AdmittedMoveExports
      <3>. QED  BY <1>3, <3>1, <3>2 DEF Exportable, OfAgent, BoundRefs, Bound
    <2>. QED  BY <2>1, <2>2
  <1>6. ASSUME NEW h \in Agents, move'[h].s = "published"
        PROVE  move'[h].plan \cup DOMAIN move'[h].carried \subseteq OfAgent(move[h].src, h)'
    <2>1. h # g /\ move'[h] = move[h]  BY <1>3, <1>4, <1>6
    <2>2. move[h].plan \cup DOMAIN move[h].carried \subseteq OfAgent(move[h].src, h)
      BY <1>6, <2>1 DEF MovesKept, PublishedKept
    <2>. QED  BY <1>3, <2>1, <2>2 DEF OfAgent, Bound
  <1>. QED  BY <1>5, <1>6 DEF MovesKept, AdmittedMoveExports, PublishedKept

-----------------------------------------------------------------------------
(* The first move, and who holds the data of a binding.                    *)

FirstMove == NoMoveBefore /\ UnmarkedHere /\ MarkedThere /\ StreamMarks

\* An unmarked binding has its data here, a marked one where it says.
MarkOK(x, k, g, held) ==
    /\ held = None => x \in data[g][k] \/ (x = move[g].src /\ Moved(g))
    /\ held # None => /\ x = move[g].dst /\ Moved(g) /\ held = move[g].src
                      /\ held \in data[g][k] \/ <<held, g>> \in misled

LEMMA MarksAre ==
    UnmarkedHere /\ MarkedThere
      <=> (moves <= 1 => \A x \in Machines : \A k \in Bound(x) :
                            MarkOK(x, k, rows[x][k].agent, rows[x][k].held))
  BY DEF UnmarkedHere, MarkedThere, MarkOK

\* The moves that no machine can tell apart after the step: the first move is as
\* far, and its stream the same.
FirstMoveSame ==
    /\ moves' = moves /\ misled \subseteq misled'
    /\ \A h \in Agents :
          /\ move'[h].src = move[h].src /\ move'[h].dst = move[h].dst
          /\ move'[h].plan = move[h].plan /\ move'[h].carried = move[h].carried
          /\ Moved(h)' <=> Moved(h)
          /\ move'[h].s = "published" => move[h].s = "published"
          /\ claim'[h].version = claim[h].version \/ move[h].src # None

LEMMA NoMoveSame ==
    ASSUME NoMoveBefore, FirstMoveSame
    PROVE  NoMoveBefore'
  BY DEF NoMoveBefore, FirstMoveSame

\* Every binding after the step was there before, or is what the step says.
LEMMA MarksStep ==
    ASSUME FirstMove, FirstMoveSame, TablesType, ClaimsOK,
           \A h \in Agents : \A k \in Keys : data'[h][k] = data[h][k],
           \A x \in Machines : \A k \in DOMAIN rows'[x] :
              /\ k \in Bound(x) /\ rows'[x][k].agent = rows[x][k].agent
              /\ rows'[x][k].held = rows[x][k].held
    PROVE  FirstMove'
  <1>1. NoMoveBefore'  BY NoMoveSame DEF FirstMove
  <1>2. ASSUME moves' <= 1, NEW x \in Machines, NEW k \in DOMAIN rows'[x]
        PROVE  MarkOK(x, k, rows[x][k].agent, rows[x][k].held)'
    <2>1. k \in Bound(x) /\ rows'[x][k].agent = rows[x][k].agent
          /\ rows'[x][k].held = rows[x][k].held
      OBVIOUS
    <2>2. PICK g, held : g = rows[x][k].agent /\ held = rows[x][k].held  OBVIOUS
    <2>3. g \in Agents /\ k \in Keys  BY <2>1, <2>2, BoundRow DEF RowSet
    <2>4. MarkOK(x, k, g, held)
      BY <1>2, <2>1, <2>2, MarksAre DEF FirstMove, FirstMoveSame
    <2>5. MarkOK(x, k, g, held)'
      BY <2>3, <2>4 DEF MarkOK, FirstMoveSame
    <2>6. rows'[x][k].agent = g /\ rows'[x][k].held = held  BY <2>1, <2>2
    <2>. QED  BY <2>5, <2>6
  <1>3. UnmarkedHere' /\ MarkedThere'  BY <1>2 DEF UnmarkedHere, MarkedThere, MarkOK, Bound
  <1>4. StreamMarks'
    <2> SUFFICES ASSUME moves' <= 1, NEW g \in Agents, ~Moved(g)', move'[g].s = "published",
                        NEW k \in DOMAIN move'[g].carried
                 PROVE  IF k \in move'[g].plan THEN move'[g].carried[k].row.held = None
                        ELSE move'[g].carried[k].row.held = move'[g].src
                             /\ move'[g].src \in data'[g][k]
      BY DEF StreamMarks
    <2>1. moves <= 1 /\ ~Moved(g) /\ move[g].s = "published" /\ move'[g].src = move[g].src
          /\ move'[g].plan = move[g].plan /\ move'[g].carried = move[g].carried
      BY DEF FirstMoveSame
    <2>2. move[g].carried \in Streams  BY DEF ClaimsOK, MovesType, MoveSet
    <2>3. k \in Keys /\ k \in DOMAIN move[g].carried  BY <2>1, <2>2, StreamIs
    <2>4. IF k \in move[g].plan THEN move[g].carried[k].row.held = None
          ELSE move[g].carried[k].row.held = move[g].src /\ move[g].src \in data[g][k]
      BY <2>1, <2>3 DEF FirstMove, StreamMarks
    <2>. QED  BY <2>1, <2>3, <2>4
  <1>. QED  BY <1>1, <1>3, <1>4 DEF FirstMove

\* A registration at the former holder is refused, unless it was misled: the
\* data that a marked binding names stay where they are.
LEMMA RegisterMarks ==
    ASSUME FirstMove, TablesOK, ClaimsOK, NEW m \in Machines, NEW q \in Requests,
           NEW now \in Times, RegisterSession(m, q, now)
    PROVE  FirstMove'
  <1>1. TakesOver(m, q) /\ Registered(m, q, now)  BY RegisterTables
  <1>2. PICK p \in Keys : p = Previous(m, q)  BY <1>1 DEF TakesOver
  <1>3. PICK a \in Agents : a = q.agent  BY RequestIs
  <1>4. /\ claim' = claim /\ misled' = misled /\ move' = move /\ moves' = moves
        /\ ~Fenced(m, q) /\ ClaimAllows(m, a)
    BY <1>3 DEF RegisterSession, claims
  <1>5. rows \in [Machines -> Tables]  BY DEF TablesOK, TablesType
  <1>6. \A x \in Machines \ {m} : rows'[x] = rows[x]  BY <1>1, <1>5 DEF Registered
  <1>7. /\ DOMAIN rows'[m] = (Bound(m) \ {p}) \cup {q.key}
        /\ rows'[m][q.key].agent = a /\ rows'[m][q.key].held = None
        /\ \A k \in Bound(m) : k # p /\ k # q.key => rows'[m][k] = rows[m][k]
    BY <1>1, <1>2, <1>3 DEF Registered, Row
  <1>8. q.key \in Keys  BY RequestIs
  <1>9. /\ \A h \in Agents \ {a} : data'[h] = data[h]
        /\ \A k \in Keys : data'[a][k] = IF k = q.key THEN data[a][k] \cup {m}
                                         ELSE IF k = p THEN data[a][k] \ {m} ELSE data[a][k]
        /\ data' \in [Agents -> [Keys -> SUBSET Machines]]
    <2>1. data \in [Agents -> [Keys -> SUBSET Machines]]  BY DEF ClaimsOK, MovesType
    <2>2. data' = [data EXCEPT ![a] =
              [k \in Keys |-> IF k = q.key THEN data[a][k] \cup {m}
                              ELSE IF k = p THEN data[a][k] \ {m} ELSE data[a][k]]]
      BY <1>2, <1>3, <2>1 DEF RegisterSession
    <2>3. [k \in Keys |-> IF k = q.key THEN data[a][k] \cup {m}
                          ELSE IF k = p THEN data[a][k] \ {m} ELSE data[a][k]]
            \in [Keys -> SUBSET Machines]
      BY <2>1
    <2>. QED  BY <2>1, <2>2, <2>3
  <1>10. FirstMoveSame  BY <1>4 DEF FirstMoveSame, Moved
  <1>11. NoMoveBefore'  BY <1>10, NoMoveSame DEF FirstMove
  <1>12. move[a].src = m => ~SourceOpen(m, a)  BY <1>3, <1>4 DEF Fenced
  <1>13. move[a].src = m /\ Moved(a) => <<m, a>> \in misled
    <2> SUFFICES ASSUME move[a].src = m, Moved(a), <<m, a>> \notin misled
                 PROVE  FALSE
      OBVIOUS
    <2>1. PhaseOK(a) /\ claim[a] \in ClaimSet /\ cache[m][a] \in CacheSet /\ CacheOK(m, a)
      BY CachesOKIs DEF ClaimsOK, Phases, ClaimsType
    <2>2. claim[a].holder = move[a].dst /\ move[a].dst # m /\ move[a].dst # None
      BY <2>1, ConstantsAssumption DEF PhaseOK, Moved
    <2>3. Away(m, a)  BY <1>12, <2>2 DEF Away
    <2>4. cache[m][a].version > 0 /\ cache[m][a].known /\ cache[m][a].holder # m
      BY <2>1, <2>3 DEF CacheOK
    <2>5. cache[m][a].version = 0 \/ cache[m][a].holder = m
      BY <1>4, <2>4 DEF ClaimAllows
    <2>. QED  BY <2>4, <2>5
  <1>14. ASSUME moves' <= 1, NEW x \in Machines, NEW k \in DOMAIN rows'[x]
         PROVE  MarkOK(x, k, rows[x][k].agent, rows[x][k].held)'
    <2>1. CASE x = m /\ k = q.key
      <3>1. m \in data'[a][k]  BY <1>8, <1>9, <2>1
      <3>. QED  BY <1>7, <2>1, <3>1 DEF MarkOK
    <2>2. CASE ~(x = m /\ k = q.key)
      <3>1. k \in Bound(x) /\ rows'[x][k] = rows[x][k] /\ (x = m => k # p)
        BY <1>6, <1>7, <2>2 DEF Bound
      <3>2. PICK g \in Agents, held \in Machines \cup {None} :
               g = rows[x][k].agent /\ held = rows[x][k].held
        BY <3>1, BoundRow DEF RowSet, TablesOK
      <3>3. k \in Keys  BY <3>1, BoundRow DEF TablesOK
      <3>4. MarkOK(x, k, g, held)
        BY <1>4, <1>14, <3>1, <3>2, MarksAre DEF FirstMove
      <3>5. \A y \in data[g][k] : y \in data'[g][k] \/ (y = m /\ g = a /\ k = p)
        BY <1>9, <3>3
      <3>6. held = None => x \in data'[g][k] \/ (x = move[g].src /\ Moved(g))
        BY <3>1, <3>4, <3>5 DEF MarkOK
      <3>7. held # None => /\ x = move[g].dst /\ Moved(g) /\ held = move[g].src
                           /\ held \in data'[g][k] \/ <<held, g>> \in misled
        BY <1>13, <3>4, <3>5 DEF MarkOK
      <3>8. MarkOK(x, k, g, held)'  BY <1>4, <3>6, <3>7 DEF MarkOK, Moved
      <3>9. rows'[x][k].agent = g /\ rows'[x][k].held = held  BY <3>1, <3>2
      <3>. QED  BY <3>8, <3>9
    <2>. QED  BY <2>1, <2>2
  <1>15. UnmarkedHere' /\ MarkedThere'
    BY <1>14 DEF UnmarkedHere, MarkedThere, MarkOK, Bound
  <1>16. StreamMarks'
    <2> SUFFICES ASSUME moves <= 1, NEW g \in Agents, ~Moved(g), move[g].s = "published",
                        NEW k \in DOMAIN move[g].carried
                 PROVE  IF k \in move[g].plan THEN move[g].carried[k].row.held = None
                        ELSE move[g].carried[k].row.held = move[g].src
                             /\ move[g].src \in data'[g][k]
      BY <1>4 DEF StreamMarks, Moved
    <2>1. IF k \in move[g].plan THEN move[g].carried[k].row.held = None
          ELSE move[g].carried[k].row.held = move[g].src /\ move[g].src \in data[g][k]
      BY DEF FirstMove, StreamMarks
    <2>2. move[g].carried \in Streams  BY DEF ClaimsOK, MovesType, MoveSet
    <2>3. k \in Keys  BY <2>2, StreamIs
    <2>4. \A y \in data[g][k] : y \in data'[g][k] \/ (y = m /\ g = a)
      BY <1>9, <2>3
    <2>5. g = a => move[g].src # m  BY <1>12 DEF SourceOpen
    <2>. QED  BY <2>1, <2>4, <2>5
  <1>. QED  BY <1>11, <1>15, <1>16 DEF FirstMove

\* An activation moves the data of the plan, and marks what it leaves behind.
LEMMA ActivateMarks ==
    ASSUME FirstMove, TablesOK, ClaimsOK, NEW g \in Agents, ActivateCarrying(g)
    PROVE  FirstMove'
  <1>1. move[g].r = "activating" /\ move' = [move EXCEPT ![g].r = "activated"]
        /\ claim' = claim /\ misled' = misled /\ moves' = moves
    BY DEF ActivateCarrying, claims
  <1>2. /\ move[g].dst \in Machines /\ move[g].src \in Machines /\ move[g] \in MoveSet
        /\ move[g].src # None /\ move[g].src # move[g].dst
    BY <1>1, MoveIs
  <1>3. PICK m \in Machines, s \in Machines : m = move[g].dst /\ s = move[g].src  BY <1>2
  <1>4. MovesType /\ StreamsOK /\ PhaseOK(g) /\ TablesType  BY DEF ClaimsOK, Phases, TablesOK
  <1>5. move[g].s = "published"  BY <1>1, <1>2, <1>4 DEF PhaseOK, MoveSet
  <1>6. Installs(m, g)  BY <1>3, <1>4, ActivationInstalls
  <1>7. \A x \in Machines \ {m} : rows'[x] = rows[x]
    BY <1>4, <1>6 DEF Installs, TablesType
  <1>8. /\ DOMAIN rows'[m] = Bound(m) \cup Installed(m, g)
        /\ \A k \in Bound(m) : rows'[m][k] = rows[m][k]
        /\ \A k \in Installed(m, g) : rows'[m][k] = InstalledRow(m, g, k)
    BY <1>6 DEF Installs
  <1>9. MoveStepped(g, move[g].s, "activated")  BY <1>1, <1>4, ReceiverStepped
  <1>10. PICK plan \in SUBSET Keys : plan = move[g].plan  BY <1>2 DEF MoveSet
  <1>11. /\ \A h \in Agents \ {g} : data'[h] = data[h]
         /\ \A k \in Keys : data'[g][k] = IF k \in plan THEN (data[g][k] \ {s}) \cup {m}
                                          ELSE data[g][k]
    <2>1. data \in [Agents -> [Keys -> SUBSET Machines]]  BY <1>4 DEF MovesType
    <2>2. data' = [data EXCEPT ![g] =
              [k \in Keys |-> IF k \in plan THEN (data[g][k] \ {s}) \cup {m} ELSE data[g][k]]]
      BY <1>3, <1>10, <2>1 DEF ActivateCarrying
    <2>. QED  BY <2>1, <2>2
  <1>12. ~Moved(g) /\ Moved(g)' /\ (\A h \in Agents \ {g} : Moved(h)' <=> Moved(h))
         /\ \A h \in Agents : /\ move'[h].src = move[h].src /\ move'[h].dst = move[h].dst
                              /\ move'[h].plan = move[h].plan
                              /\ move'[h].carried = move[h].carried /\ move'[h].s = move[h].s
    BY <1>1, <1>9 DEF Moved, MoveStepped
  <1>13. NoMoveBefore'  BY <1>1, <1>12 DEF FirstMove, NoMoveBefore
  <1>14. ASSUME moves' <= 1, NEW x \in Machines, NEW k \in DOMAIN rows'[x]
         PROVE  MarkOK(x, k, rows[x][k].agent, rows[x][k].held)'
    <2>1. CASE k \in Bound(x)
      <3>1. rows'[x][k] = rows[x][k]  BY <1>7, <1>8, <2>1
      <3>2. PICK h \in Agents, held \in Machines \cup {None} :
               h = rows[x][k].agent /\ held = rows[x][k].held
        BY <1>4, <2>1, BoundRow DEF RowSet
      <3>3. k \in Keys  BY <1>4, <2>1, BoundRow
      <3>4. MarkOK(x, k, h, held)
        BY <1>1, <1>14, <2>1, <3>2, MarksAre DEF FirstMove
      <3>5. MarkOK(x, k, h, held)'
        <4>1. CASE h = g
          <5>1. held = None /\ x \in data[g][k]  BY <1>12, <3>4, <4>1 DEF MarkOK
          <5>2. x \in data'[g][k] \/ x = s  BY <1>11, <3>3, <5>1
          <5>. QED  BY <1>3, <1>12, <4>1, <5>1, <5>2 DEF MarkOK
        <4>2. CASE h # g
          <5>1. data'[h] = data[h] /\ (Moved(h)' <=> Moved(h))  BY <1>11, <1>12, <4>2
          <5>2. move'[h].src = move[h].src /\ move'[h].dst = move[h].dst  BY <1>12
          <5>. QED  BY <1>1, <3>4, <5>1, <5>2 DEF MarkOK
        <4>. QED  BY <4>1, <4>2
      <3>6. rows'[x][k].agent = h /\ rows'[x][k].held = held  BY <3>1, <3>2
      <3>. QED  BY <3>5, <3>6
    <2>2. CASE k \notin Bound(x)
      <3>1. x = m /\ k \in Installed(m, g)  BY <1>7, <1>8, <2>2 DEF Bound
      <3>2. PICK row \in RowSet : row = InstalledRow(m, g, k)
        BY <1>4, <3>1, InstalledRowIs
      <3>3. rows'[x][k] = row  BY <1>8, <3>1, <3>2
      <3>4. /\ k \in Keys /\ row.agent = g
            /\ \/ row.held = None /\ k \in plan
               \/ /\ k \in DOMAIN move[g].carried
                  /\ \/ row.held = move[g].carried[k].row.held
                     \/ row.held = None /\ move[g].carried[k].row.held = m
        BY <1>4, <1>10, <3>1, <3>2, InstalledRowIs
      <3>5. k \in DOMAIN move[g].carried =>
              IF k \in plan THEN move[g].carried[k].row.held = None
              ELSE move[g].carried[k].row.held = s /\ s \in data[g][k]
        BY <1>1, <1>3, <1>5, <1>10, <1>12, <1>14 DEF FirstMove, StreamMarks
      <3>6. s # None /\ m # None /\ s # m  BY <1>2, <1>3, ConstantsAssumption
      <3>7. \/ row.held = None /\ k \in plan
            \/ row.held = s /\ s \in data[g][k] /\ k \notin plan
        BY <3>4, <3>5, <3>6
      <3>8. row.held = None => m \in data'[g][k]  BY <1>11, <3>4, <3>6, <3>7
      <3>9. row.held # None => row.held = s /\ s \in data'[g][k]  BY <1>11, <3>4, <3>7
      <3>10. MarkOK(x, k, g, row.held)'
        BY <1>3, <1>12, <3>1, <3>8, <3>9 DEF MarkOK
      <3>. QED  BY <3>3, <3>4, <3>10
    <2>. QED  BY <2>1, <2>2
  <1>15. UnmarkedHere' /\ MarkedThere'
    BY <1>14 DEF UnmarkedHere, MarkedThere, MarkOK, Bound
  <1>16. StreamMarks'
    <2> SUFFICES ASSUME moves <= 1, NEW h \in Agents, ~Moved(h)', move'[h].s = "published",
                        NEW k \in DOMAIN move'[h].carried
                 PROVE  IF k \in move'[h].plan THEN move'[h].carried[k].row.held = None
                        ELSE move'[h].carried[k].row.held = move'[h].src
                             /\ move'[h].src \in data'[h][k]
      BY <1>1 DEF StreamMarks
    <2>1. h # g /\ ~Moved(h) /\ data'[h] = data[h]  BY <1>11, <1>12
    <2>2. IF k \in move[h].plan THEN move[h].carried[k].row.held = None
          ELSE move[h].carried[k].row.held = move[h].src /\ move[h].src \in data[h][k]
      BY <1>12, <2>1 DEF FirstMove, StreamMarks
    <2>. QED  BY <1>12, <2>1, <2>2
  <1>. QED  BY <1>13, <1>15, <1>16 DEF FirstMove

\* An export marks the finished bindings that stay, whose data are at the source.
LEMMA ExportMarks ==
    ASSUME FirstMove, TablesOK, ClaimsOK, NEW g \in Agents, Export(g)
    PROVE  FirstMove'
  <1>1. move[g].s = "preparing" /\ rows' = rows /\ data' = data /\ claim' = claim
        /\ misled' = misled /\ moves' = moves
    BY DEF Export, tables, claims
  <1>2. /\ move[g].src \in Machines /\ move[g].dst # move[g].src /\ PhaseOK(g)
        /\ move[g].src # None
    BY <1>1, MoveIs DEF ClaimsOK, Phases
  <1>3. PICK s \in Machines : s = move[g].src  BY <1>2
  <1>4. PICK v \in MoveSet : Exported(g, v)  BY <1>2, ExportWrites
  <1>5. move \in [Agents -> MoveSet] /\ TablesType  BY DEF ClaimsOK, MovesType, TablesOK
  <1>6. move'[g] = v /\ (\A h \in Agents \ {g} : move'[h] = move[h])
    BY <1>4, <1>5 DEF Exported
  <1>7. /\ v.src = s /\ v.dst = move[g].dst /\ v.plan = move[g].plan /\ v.r = move[g].r
        /\ DOMAIN v.carried = OfAgent(s, g)
        /\ \A k \in OfAgent(s, g) :
              v.carried[k].row = [rows[s][k] EXCEPT !.held = CarriedHolder(s, g, k)]
    BY <1>3, <1>4 DEF Exported
  <1>8. \A h \in Agents : /\ move'[h].src = move[h].src /\ move'[h].dst = move[h].dst
                          /\ Moved(h)' <=> Moved(h)
    BY <1>3, <1>6, <1>7 DEF Moved
  <1>9. NoMoveBefore'  BY <1>1, <1>8 DEF FirstMove, NoMoveBefore
  <1>10. UnmarkedHere' /\ MarkedThere'
    <2>1. \A x \in Machines : \A k \in Bound(x) : rows[x][k].agent \in Agents
      BY <1>5, BoundRow DEF RowSet
    <2>. QED
      BY <1>1, <1>8, <2>1 DEF FirstMove, UnmarkedHere, MarkedThere, Bound
  <1>11. ~Moved(g)  BY <1>1, <1>2 DEF PhaseOK, Moved
  <1>12. StreamMarks'
    <2> SUFFICES ASSUME moves <= 1, NEW h \in Agents, ~Moved(h)', move'[h].s = "published",
                        NEW k \in DOMAIN move'[h].carried
                 PROVE  IF k \in move'[h].plan THEN move'[h].carried[k].row.held = None
                        ELSE move'[h].carried[k].row.held = move'[h].src
                             /\ move'[h].src \in data[h][k]
      BY <1>1 DEF StreamMarks
    <2>1. CASE h = g
      <3>1. k \in Bound(s) /\ rows[s][k].agent = g /\ rows[s][k] \in RowSet
        BY <1>5, <1>6, <1>7, <2>1, BoundRow DEF OfAgent
      <3>2. v.carried[k].row.held = CarriedHolder(s, g, k)
        <4>1. k \in OfAgent(s, g)  BY <3>1 DEF OfAgent
        <4>2. v.carried[k].row = [rows[s][k] EXCEPT !.held = CarriedHolder(s, g, k)]
          BY <1>7, <4>1
        <4>3. PICK e \in RowSet : e = rows[s][k]  BY <3>1
        <4>4. v.carried[k].row = [e EXCEPT !.held = CarriedHolder(s, g, k)]  BY <4>2, <4>3
        <4>. QED  BY <4>4 DEF RowSet
      <3>3. MarkOK(s, k, g, rows[s][k].held)  BY <3>1, MarksAre DEF FirstMove
      <3>4. rows[s][k].held = None /\ s \in data[g][k]
        BY <1>11, <3>3 DEF MarkOK
      <3>5. IF k \in move[g].plan THEN v.carried[k].row.held = None
            ELSE v.carried[k].row.held = s
        BY <3>2, <3>4 DEF CarriedHolder
      <3>. QED  BY <1>6, <1>7, <2>1, <3>4, <3>5
    <2>2. CASE h # g
      <3>1. move'[h] = move[h] /\ ~Moved(h)  BY <1>6, <1>8, <2>2
      <3>. QED  BY <3>1 DEF FirstMove, StreamMarks
    <2>. QED  BY <2>1, <2>2
  <1>. QED  BY <1>9, <1>10, <1>12 DEF FirstMove

\* Before the first admission no binding is marked.
LEMMA AdmitMarks ==
    ASSUME FirstMove, TablesOK, ClaimsOK, NEW m \in Machines, NEW g \in Agents,
           NEW to \in Machines, AdmitMove(m, g, to)
    PROVE  FirstMove'
  <1>1. PICK v \in MoveSet : Admitted(m, g, to, v)  BY AdmissionOpens
  <1>2. move \in [Agents -> MoveSet] /\ moves \in Nat
    BY ConstantsAssumption DEF ClaimsOK, MovesType
  <1>3. /\ move'[g] = v /\ (\A h \in Agents \ {g} : move'[h] = move[h])
        /\ rows' = rows /\ data' = data /\ claim' = claim /\ misled' = misled
        /\ moves' = moves + 1
    BY <1>1, <1>2 DEF Admitted, AdmitMove, tables, claims
  <1>4. v.s = "preparing" /\ v.src = m /\ v.r = "waiting"  BY <1>1 DEF Admitted
  <1>5. moves' <= 1 => moves = 0  BY <1>2, <1>3
  <1>6. moves' # 0  BY <1>2, <1>3
  <1>7. moves' <= 1 => \A h \in Agents :
           /\ move[h].src = None /\ move[h].s = "released" /\ move[h].dst = None
           /\ claim[h].version = 0
    <2> SUFFICES ASSUME moves = 0, NEW h \in Agents
                 PROVE  /\ move[h].src = None /\ move[h].s = "released" /\ move[h].dst = None
                        /\ claim[h].version = 0
      BY <1>5
    <2>1. move[h].src = None /\ claim[h].version = 0  BY DEF FirstMove, NoMoveBefore
    <2>2. PhaseOK(h)  BY DEF ClaimsOK, Phases
    <2>. QED  BY <2>1, <2>2, ConstantsAssumption DEF PhaseOK
  <1>8. m # None  BY ConstantsAssumption
  <1>9. NoMoveBefore'
    BY <1>3, <1>4, <1>6, <1>7, <1>8 DEF NoMoveBefore
  <1>10. UnmarkedHere' /\ MarkedThere'
    <2>1. ASSUME moves' <= 1, NEW x \in Machines, NEW k \in Bound(x)
          PROVE  rows[x][k].held = None /\ x \in data[rows[x][k].agent][k]
      <3>1. rows[x][k].agent \in Agents  BY BoundRow DEF RowSet, TablesOK
      <3>2. MarkOK(x, k, rows[x][k].agent, rows[x][k].held)
        BY <1>5, <2>1, MarksAre DEF FirstMove
      <3>3. x # None  BY ConstantsAssumption
      <3>. QED  BY <1>7, <2>1, <3>1, <3>2, <3>3 DEF MarkOK
    <2>. QED  BY <1>3, <2>1 DEF UnmarkedHere, MarkedThere, Bound
  <1>11. StreamMarks'
    <2>1. ASSUME moves' <= 1, NEW h \in Agents  PROVE move'[h].s # "published"
      <3>1. CASE h = g  BY <1>3, <1>4, <3>1
      <3>2. CASE h # g  BY <1>3, <1>7, <2>1, <3>2
      <3>. QED  BY <3>1, <3>2
    <2>. QED  BY <2>1 DEF StreamMarks
  <1>. QED  BY <1>9, <1>10, <1>11 DEF FirstMove

-----------------------------------------------------------------------------
(* The inductive invariant.                                                *)

LEMMA IInvIs == IInv <=> TablesOK /\ ClaimsOK /\ MovesKept /\ FirstMove
  BY DEF IInv, TablesOK, ClaimsOK, MovesKept, FirstMove

LEMMA InitIInv ==
    ASSUME Init
    PROVE  IInv
  <1>1. PICK e \in Tables : e = <<>> /\ DOMAIN e = {}  BY EmptyTables
  <1>2. PICK f \in Histories : f = <<>> /\ DOMAIN f = {}  BY EmptyTables
  <1>3. PICK c \in Streams : c = <<>> /\ DOMAIN c = {}  BY EmptyTables
  <1>4. rows = [m \in Machines |-> e] /\ history = [m \in Machines |-> f]
    BY <1>1, <1>2 DEF Init
  <1>5. /\ claim = [g \in Agents |-> [holder |-> None, version |-> 0]]
        /\ cache = [m \in Machines |-> [g \in Agents |-> Unread]]
        /\ reads = {} /\ misled = {} /\ writes = 0 /\ moves = 0
        /\ checks = [m \in Machines |-> [g \in Agents |-> {}]]
        /\ data = [g \in Agents |-> [k \in Keys |-> {}]]
    BY DEF Init
  <1>6. \A g \in Agents :
           move[g] = [src |-> None, dst |-> None, plan |-> {}, ver |-> 0, carried |-> c,
                      s |-> "released", r |-> "done"]
    BY <1>3 DEF Init, NoMove
  <1>7. \A m \in Machines : DOMAIN rows[m] = {} /\ DOMAIN history[m] = {}
    BY <1>1, <1>2, <1>4
  <1>8. TablesOK
    BY <1>1, <1>2, <1>4, <1>7
    DEF TablesOK, TablesType, SessionsBoundOnce, HistoriesReadable, HeldEnded, Bound
  <1>9. \A g \in Agents : /\ move[g] \in MoveSet /\ move[g].src = None /\ move[g].dst = None
                          /\ move[g].s = "released" /\ move[g].r = "done"
                          /\ move[g].plan = {} /\ DOMAIN move[g].carried = {}
    BY <1>3, <1>6 DEF MoveSet
  <1>10. ClaimsOK
    <2>1. ClaimsType
      <3>1. Unread \in CacheSet  BY DEF Unread, CacheSet
      <3>. QED  BY <1>5, <3>1 DEF ClaimsType, ClaimSet
    <2>2. MovesType
      <3>1. move \in [Agents -> MoveSet]  BY <1>9 DEF Init
      <3>2. data \in [Agents -> [Keys -> SUBSET Machines]]  BY <1>5
      <3>3. checks \in [Machines -> [Agents -> SUBSET CheckSet]]
            /\ \A m \in Machines, g \in Agents : \A d, b \in checks[m][g] : d = b
        BY <1>5
      <3>4. writes \in 0..MaxWrites /\ moves \in 0..MaxMoves
        BY <1>5, ConstantsAssumption
      <3>. QED  BY <3>1, <3>2, <3>3, <3>4 DEF MovesType
    <2>3. StreamsOK  BY <1>9 DEF StreamsOK, StreamOK
    <2>4. Phases  BY <1>9 DEF Phases, PhaseOK
    <2>5. VersionsOK  BY <1>5, <1>9 DEF VersionsOK
    <2>6. CachesOK
      <3>1. \A m \in Machines, g \in Agents : cache[m][g].version = 0  BY <1>5 DEF Unread
      <3>2. \A m \in Machines, g \in Agents : ~Away(m, g)  BY <1>5 DEF Away
      <3>3. \A m \in Machines, g \in Agents : ~(cache[m][g].version > 0)  BY <3>1
      <3>. QED  BY <1>5, <3>2, <3>3 DEF CachesOK
    <2>. QED  BY <2>1, <2>2, <2>3, <2>4, <2>5, <2>6 DEF ClaimsOK
  <1>11. MovesKept  BY <1>9 DEF MovesKept, AdmittedMoveExports, PublishedKept
  <1>12. FirstMove
    <2>1. NoMoveBefore  BY <1>5, <1>9 DEF NoMoveBefore
    <2>2. UnmarkedHere /\ MarkedThere  BY <1>7 DEF UnmarkedHere, MarkedThere, Bound
    <2>3. StreamMarks  BY <1>9 DEF StreamMarks
    <2>. QED  BY <2>1, <2>2, <2>3 DEF FirstMove
  <1>. QED  BY <1>8, <1>10, <1>11, <1>12, IInvIs

LEMMA SameTables ==
    ASSUME TablesOK, rows' = rows, history' = history
    PROVE  TablesOK'
  <1>1. \A m : Bound(m)' = Bound(m)  BY DEF Bound
  <1>2. TablesType'  BY DEF TablesOK, TablesType
  <1>3. SessionsBoundOnce'  BY <1>1 DEF TablesOK, SessionsBoundOnce
  <1>4. HistoriesReadable'  BY <1>1 DEF TablesOK, HistoriesReadable
  <1>5. HeldEnded'  BY <1>1 DEF TablesOK, HeldEnded
  <1>. QED  BY <1>2, <1>3, <1>4, <1>5 DEF TablesOK

LEMMA LocalSame ==
    ASSUME claim' = claim, misled' = misled, move' = move, moves' = moves
    PROVE  FirstMoveSame
  BY DEF FirstMoveSame, Moved

LEMMA WritesOn ==
    ASSUME MovesType, writes < MaxWrites, writes' = writes + 1
    PROVE  writes' \in 0..MaxWrites
  BY ConstantsAssumption DEF MovesType

LEMMA RegisterIInv ==
    ASSUME IInv, NEW m \in Machines, NEW q \in Requests, NEW now \in Times,
           RegisterSession(m, q, now)
    PROVE  IInv'
  <1>1. TablesOK /\ ClaimsOK /\ MovesKept /\ FirstMove /\ MovesType
    BY IInvIs DEF ClaimsOK
  <1>2. TablesOK'  BY <1>1, RegisterTables
  <1>3. data' \in [Agents -> [Keys -> SUBSET Machines]]
    <2>1. data \in [Agents -> [Keys -> SUBSET Machines]]  BY <1>1 DEF MovesType
    <2>2. PICK p : p = Previous(m, q)  OBVIOUS
    <2>3. data' = [data EXCEPT ![q.agent] =
              [k \in Keys |-> IF k = q.key THEN data[q.agent][k] \cup {m}
                              ELSE IF k = p THEN data[q.agent][k] \ {m} ELSE data[q.agent][k]]]
      BY <2>1, <2>2, RequestIs DEF RegisterSession
    <2>4. [k \in Keys |-> IF k = q.key THEN data[q.agent][k] \cup {m}
                          ELSE IF k = p THEN data[q.agent][k] \ {m} ELSE data[q.agent][k]]
            \in [Keys -> SUBSET Machines]
      BY <2>1, RequestIs
    <2>. QED  BY <2>1, <2>3, <2>4
  <1>4. writes' \in 0..MaxWrites  BY <1>1, WritesOn DEF RegisterSession
  <1>5. ClaimsOK'
    BY <1>1, <1>3, <1>4, LocalClaims DEF RegisterSession, claims
  <1>6. MovesKept'  BY <1>1, RegisterKeeps
  <1>7. FirstMove'  BY <1>1, RegisterMarks
  <1>. QED  BY <1>2, <1>5, <1>6, <1>7, IInvIs DEF IInv, TablesOK, ClaimsOK, MovesKept, FirstMove

LEMMA EndedIInv ==
    ASSUME IInv, NEW m \in Machines, NEW k, NEW now \in Times, NEW runner,
           Ended(m, k, now, runner), UNCHANGED <<claims, checks, move, data, moves>>,
           writes < MaxWrites, writes' = writes + 1
    PROVE  IInv'
  <1>1. TablesOK /\ ClaimsOK /\ MovesKept /\ FirstMove /\ MovesType
    BY IInvIs DEF ClaimsOK
  <1>2. TablesOK'  BY <1>1, EndedTables
  <1>3. claim' = claim /\ cache' = cache /\ reads' = reads /\ misled' = misled
    BY DEF claims
  <1>4. writes' \in 0..MaxWrites  BY <1>1, WritesOn
  <1>5. ClaimsOK'  BY <1>1, <1>3, <1>4, SameData, LocalClaims
  <1>6. MovesKept'  BY <1>1, EndedKeeps
  <1>7. TablesType  BY <1>1 DEF TablesOK
  <1>8. ASSUME NEW x \in Machines, NEW l \in DOMAIN rows'[x]
        PROVE  /\ l \in Bound(x) /\ rows'[x][l].agent = rows[x][l].agent
               /\ rows'[x][l].held = rows[x][l].held
    <2>1. CASE x # m
      <3>1. rows'[x] = rows[x]  BY <1>7, <2>1 DEF Ended, TablesType
      <3>. QED  BY <3>1 DEF Bound
    <2>2. CASE x = m /\ l # k  BY <2>2 DEF Ended
    <2>3. CASE x = m /\ l = k
      <3>1. rows[m][k] \in RowSet  BY <1>7, BoundRow DEF Ended
      <3>. QED  BY <2>3, <3>1 DEF Ended, RowSet
    <2>. QED  BY <2>1, <2>2, <2>3
  <1>9. FirstMove'
    <2>1. FirstMoveSame  BY <1>3, LocalSame
    <2>. QED  BY <1>1, <1>7, <1>8, <2>1, MarksStep
  <1>. QED  BY <1>2, <1>5, <1>6, <1>9, IInvIs DEF IInv, TablesOK, ClaimsOK, MovesKept, FirstMove

LEMMA SetNetworkIInv ==
    ASSUME IInv, NEW m \in Machines, NEW k \in Bound(m), NEW net \in Nets,
           NEW now \in Times, SetSessionNetwork(m, k, net, now)
    PROVE  IInv'
  <1>1. TablesOK /\ ClaimsOK /\ MovesKept /\ FirstMove /\ MovesType /\ TablesType
    BY IInvIs DEF ClaimsOK, TablesOK
  <1>2. TablesOK' /\ rows' = rows  BY <1>1, SetNetworkTables
  <1>3. /\ claim' = claim /\ cache' = cache /\ reads' = reads /\ misled' = misled
        /\ checks' = checks /\ move' = move /\ moves' = moves /\ data' = data
    BY DEF SetSessionNetwork, claims
  <1>4. writes' \in 0..MaxWrites  BY <1>1, WritesOn DEF SetSessionNetwork
  <1>5. ClaimsOK'  BY <1>1, <1>3, <1>4, SameData, LocalClaims
  <1>6. MovesKept'
    <2>1. SameMoves  BY <1>3 DEF SameMoves
    <2>. QED  BY <1>1, <1>2, <2>1, SameRowsKeep, MovesKeptStep
  <1>7. FirstMove'
    <2>1. FirstMoveSame  BY <1>3, LocalSame
    <2>2. \A x \in Machines : \A l \in DOMAIN rows'[x] :
             /\ l \in Bound(x) /\ rows'[x][l].agent = rows[x][l].agent
             /\ rows'[x][l].held = rows[x][l].held
      BY <1>2 DEF Bound
    <2>. QED  BY <1>1, <1>3, <2>1, <2>2, MarksStep
  <1>. QED  BY <1>2, <1>5, <1>6, <1>7, IInvIs DEF IInv, TablesOK, ClaimsOK, MovesKept, FirstMove

LEMMA PruneIInv ==
    ASSUME IInv, NEW m \in Machines, NEW cutoff \in Times,
           NEW K \in SUBSET Prunable(m, cutoff), PruneEnded(m, cutoff, K)
    PROVE  IInv'
  <1>1. TablesOK /\ ClaimsOK /\ MovesKept /\ FirstMove /\ MovesType /\ TablesType
    BY IInvIs DEF ClaimsOK, TablesOK
  <1>2. /\ TablesOK' /\ rows' = [rows EXCEPT ![m] = rows'[m]]
        /\ DOMAIN rows'[m] = Bound(m) \ K
        /\ \A k \in Bound(m) \ K : rows'[m][k] = rows[m][k]
    BY <1>1, PruneTables
  <1>3. /\ claim' = claim /\ cache' = cache /\ reads' = reads /\ misled' = misled
        /\ checks' = checks /\ move' = move /\ moves' = moves /\ data' = data
    BY DEF PruneEnded, claims
  <1>4. writes' \in 0..MaxWrites  BY <1>1, WritesOn DEF PruneEnded
  <1>5. ClaimsOK'  BY <1>1, <1>3, <1>4, SameData, LocalClaims
  <1>6. MovesKept'  BY <1>1, PruneKeeps
  <1>7. FirstMove'
    <2>1. FirstMoveSame  BY <1>3, LocalSame
    <2>2. \A x \in Machines \ {m} : rows'[x] = rows[x]  BY <1>1, <1>2 DEF TablesType
    <2>3. \A x \in Machines : \A l \in DOMAIN rows'[x] :
             /\ l \in Bound(x) /\ rows'[x][l].agent = rows[x][l].agent
             /\ rows'[x][l].held = rows[x][l].held
      BY <1>2, <2>2 DEF Bound
    <2>. QED  BY <1>1, <1>3, <2>1, <2>3, MarksStep
  <1>. QED  BY <1>2, <1>5, <1>6, <1>7, IInvIs DEF IInv, TablesOK, ClaimsOK, MovesKept, FirstMove

\* A step that leaves the tables, the data and the moves.
LEMMA ClaimStepIInv ==
    ASSUME IInv, ClaimsOK', rows' = rows, history' = history, data' = data, move' = move,
           moves' = moves, claim' = claim, misled \subseteq misled'
    PROVE  IInv'
  <1>1. TablesOK /\ ClaimsOK /\ MovesKept /\ FirstMove /\ TablesType
    BY IInvIs DEF TablesOK
  <1>2. TablesOK'  BY <1>1, SameTables
  <1>3. SameMoves /\ KeepsBindings  BY SameRowsKeep DEF SameMoves
  <1>4. MovesKept'  BY <1>1, <1>3, MovesKeptStep
  <1>5. FirstMoveSame  BY DEF FirstMoveSame, Moved
  <1>6. FirstMove'  BY <1>1, <1>5, MarksStep DEF Bound
  <1>. QED  BY <1>2, <1>4, <1>6, IInvIs DEF IInv, TablesOK, ClaimsOK, MovesKept, FirstMove

\* A step of a move that leaves the tables and the data.
LEMMA MoveStepIInv ==
    ASSUME IInv, NEW g \in Agents, NEW a, NEW b, MoveStepped(g, a, b), ClaimsOK',
           a \in {"preparing", "published"} => a = move[g].s,
           b \in {"activated", "done"} <=> move[g].r \in {"activated", "done"},
           move[g].src # None, \A h \in Agents \ {g} : claim'[h] = claim[h],
           rows' = rows, history' = history, data' = data, moves' = moves, misled' = misled
    PROVE  IInv'
  <1>1. TablesOK /\ ClaimsOK /\ MovesKept /\ FirstMove /\ TablesType
    BY IInvIs DEF TablesOK
  <1>2. TablesOK'  BY <1>1, SameTables
  <1>3. SameMoves /\ KeepsBindings  BY SameRowsKeep DEF SameMoves, MoveStepped
  <1>4. MovesKept'  BY <1>1, <1>3, MovesKeptStep
  <1>5. FirstMoveSame
    <2>1. \A h \in Agents : Moved(h)' <=> Moved(h)  BY DEF Moved, MoveStepped
    <2>2. \A h \in Agents : claim'[h].version = claim[h].version \/ move[h].src # None
      OBVIOUS
    <2>3. \A h \in Agents :
             /\ move'[h].src = move[h].src /\ move'[h].dst = move[h].dst
             /\ move'[h].plan = move[h].plan /\ move'[h].carried = move[h].carried
             /\ move'[h].s = "published" => move[h].s = "published"
      BY DEF MoveStepped
    <2>. QED  BY <2>1, <2>2, <2>3 DEF FirstMoveSame
  <1>6. FirstMove'  BY <1>1, <1>5, MarksStep DEF Bound
  <1>. QED  BY <1>2, <1>4, <1>6, IInvIs DEF IInv, TablesOK, ClaimsOK, MovesKept, FirstMove

LEMMA AdmitIInv ==
    ASSUME IInv, NEW m \in Machines, NEW g \in Movers, NEW to \in Machines, AdmitMove(m, g, to)
    PROVE  IInv'
  <1>1. TablesOK /\ ClaimsOK /\ MovesKept /\ FirstMove /\ g \in Agents
    BY IInvIs, MoverIs
  <1>2. rows' = rows /\ history' = history  BY DEF AdmitMove, tables
  <1>3. TablesOK'  BY <1>1, <1>2, SameTables
  <1>4. ClaimsOK'  BY <1>1, AdmitMoveClaims
  <1>5. MovesKept'  BY <1>1, AdmitKeeps
  <1>6. FirstMove'  BY <1>1, AdmitMarks
  <1>. QED  BY <1>3, <1>4, <1>5, <1>6 DEF IInv, TablesOK, ClaimsOK, MovesKept, FirstMove

LEMMA ExportIInv ==
    ASSUME IInv, NEW g \in Agents, Export(g)
    PROVE  IInv'
  <1>1. TablesOK /\ ClaimsOK /\ MovesKept /\ FirstMove  BY IInvIs
  <1>2. rows' = rows /\ history' = history  BY DEF Export, tables
  <1>3. TablesOK'  BY <1>1, <1>2, SameTables
  <1>4. ClaimsOK'  BY <1>1, ExportClaims
  <1>5. MovesKept'  BY <1>1, ExportKeeps
  <1>6. FirstMove'  BY <1>1, ExportMarks
  <1>. QED  BY <1>3, <1>4, <1>5, <1>6 DEF IInv, TablesOK, ClaimsOK, MovesKept, FirstMove

LEMMA ActivateIInv ==
    ASSUME IInv, NEW g \in Agents, ActivateCarrying(g)
    PROVE  IInv' /\ Installs(move[g].dst, g)
  <1>1. TablesOK /\ ClaimsOK /\ MovesKept /\ FirstMove  BY IInvIs
  <1>2. MovesType /\ StreamsOK /\ move[g].r = "activating"  BY <1>1 DEF ClaimsOK, ActivateCarrying
  <1>3. move[g].dst \in Machines  BY <1>1, <1>2, MoveIs
  <1>4. TablesOK' /\ Installs(move[g].dst, g)  BY <1>1, <1>2, <1>3, ActivationInstalls
  <1>5. ClaimsOK'  BY <1>1, ActivateClaims
  <1>6. MovesKept'  BY <1>1, ActivateKeeps
  <1>7. FirstMove'  BY <1>1, ActivateMarks
  <1>. QED  BY <1>4, <1>5, <1>6, <1>7 DEF IInv, TablesOK, ClaimsOK, MovesKept, FirstMove

\* The steps of a move that touch neither the tables nor the data.
LEMMA AdvanceIInv ==
    ASSUME IInv, NEW g \in Agents,
           \/ AbortMove(g) \/ ReceiverAborts(g) \/ ThawAborted(g) \/ PickUp(g) \/ TakeClaim(g)
           \/ BeginActivating(g) \/ ReleaseMove(g) \/ FinishMove(g)
    PROVE  IInv' /\ rows' = rows /\ history' = history
  <1>1. ClaimsOK /\ MovesType /\ claim \in [Agents -> ClaimSet]
    BY IInvIs DEF ClaimsOK, ClaimsType
  <1>2. CASE AbortMove(g)
    <2> DEFINE b == IF move[g].r = "waiting" THEN "aborted" ELSE move[g].r
    <2>1. /\ move[g].r \in {"waiting", "picked_up"}
          /\ move' = [move EXCEPT ![g].s = "aborted", ![g].r = b]
          /\ claim' = claim /\ misled' = misled /\ rows' = rows /\ history' = history
          /\ data' = data /\ moves' = moves
      BY <1>2 DEF AbortMove, tables
    <2>2. b \in {"aborted", "picked_up"}  BY <2>1
    <2> HIDE DEF b
    <2>3. MoveStepped(g, "aborted", b)  BY <1>1, <2>1, <2>2, BothStepped
    <2>4. ClaimsOK' /\ move[g].src # None  BY <1>1, <1>2, <2>1, AbortMoveClaims, MoveIs
    <2>5. b \in {"activated", "done"} <=> move[g].r \in {"activated", "done"}
      BY <2>1, <2>2
    <2>. QED  BY <2>1, <2>3, <2>4, <2>5, MoveStepIInv
  <1>3. CASE ReceiverAborts(g)
    <2>1. /\ move[g].r \in {"picked_up", "claimed"}
          /\ move' = [move EXCEPT ![g].r = "aborted"]
          /\ misled' = misled /\ rows' = rows /\ history' = history
          /\ data' = data /\ moves' = moves
      BY <1>3 DEF ReceiverAborts, tables
    <2>2. MoveStepped(g, move[g].s, "aborted")  BY <1>1, <2>1, ReceiverStepped
    <2>3. ClaimsOK' /\ move[g].src # None  BY <1>1, <1>3, <2>1, ReceiverAbortsClaims, MoveIs
    <2>4. \A h \in Agents \ {g} : claim'[h] = claim[h]  BY <1>1, <1>3 DEF ReceiverAborts
    <2>. QED  BY <2>1, <2>2, <2>3, <2>4, MoveStepIInv
  <1>4. CASE ThawAborted(g)
    <2>1. /\ move[g].r = "aborted" /\ move' = [move EXCEPT ![g].s = "aborted"]
          /\ claim' = claim /\ misled' = misled /\ rows' = rows /\ history' = history
          /\ data' = data /\ moves' = moves
      BY <1>4 DEF ThawAborted, tables
    <2>2. MoveStepped(g, "aborted", move[g].r)  BY <1>1, <2>1, SourceStepped
    <2>3. ClaimsOK' /\ move[g].src # None  BY <1>1, <1>4, <2>1, ThawAbortedClaims, MoveIs
    <2>. QED  BY <2>1, <2>2, <2>3, MoveStepIInv
  <1>5. CASE PickUp(g)
    <2>1. /\ move[g].r = "waiting" /\ move' = [move EXCEPT ![g].r = "picked_up"]
          /\ claim' = claim /\ misled' = misled /\ rows' = rows /\ history' = history
          /\ data' = data /\ moves' = moves
      BY <1>5 DEF PickUp, tables, claims
    <2>2. MoveStepped(g, move[g].s, "picked_up")  BY <1>1, <2>1, ReceiverStepped
    <2>3. ClaimsOK' /\ move[g].src # None  BY <1>1, <1>5, <2>1, PickUpClaims, MoveIs
    <2>. QED  BY <2>1, <2>2, <2>3, MoveStepIInv
  <1>6. CASE TakeClaim(g)
    <2>1. /\ move[g].r = "picked_up" /\ move' = [move EXCEPT ![g].r = "claimed"]
          /\ misled' = misled /\ rows' = rows /\ history' = history
          /\ data' = data /\ moves' = moves
      BY <1>6 DEF TakeClaim, tables
    <2>2. MoveStepped(g, move[g].s, "claimed")  BY <1>1, <2>1, ReceiverStepped
    <2>3. ClaimsOK' /\ move[g].src # None  BY <1>1, <1>6, <2>1, TakeClaimClaims, MoveIs
    <2>4. \A h \in Agents \ {g} : claim'[h] = claim[h]  BY <1>1, <1>6 DEF TakeClaim
    <2>. QED  BY <2>1, <2>2, <2>3, <2>4, MoveStepIInv
  <1>7. CASE BeginActivating(g)
    <2>1. /\ move[g].r = "claimed" /\ move' = [move EXCEPT ![g].r = "activating"]
          /\ claim' = claim /\ misled' = misled /\ rows' = rows /\ history' = history
          /\ data' = data /\ moves' = moves
      BY <1>7 DEF BeginActivating, tables
    <2>2. MoveStepped(g, move[g].s, "activating")  BY <1>1, <2>1, ReceiverStepped
    <2>3. ClaimsOK' /\ move[g].src # None  BY <1>1, <1>7, <2>1, BeginActivatingClaims, MoveIs
    <2>. QED  BY <2>1, <2>2, <2>3, MoveStepIInv
  <1>8. CASE ReleaseMove(g)
    <2>1. /\ move[g].r = "activated" /\ move' = [move EXCEPT ![g].s = "released"]
          /\ claim' = claim /\ misled' = misled /\ rows' = rows /\ history' = history
          /\ data' = data /\ moves' = moves
      BY <1>8 DEF ReleaseMove, tables
    <2>2. MoveStepped(g, "released", move[g].r)  BY <1>1, <2>1, SourceStepped
    <2>3. ClaimsOK' /\ move[g].src # None  BY <1>1, <1>8, <2>1, ReleaseMoveClaims, MoveIs
    <2>. QED  BY <2>1, <2>2, <2>3, MoveStepIInv
  <1>9. CASE FinishMove(g)
    <2>1. /\ move[g].r = "activated" /\ move' = [move EXCEPT ![g].r = "done"]
          /\ claim' = claim /\ misled' = misled /\ rows' = rows /\ history' = history
          /\ data' = data /\ moves' = moves
      BY <1>9 DEF FinishMove, tables, claims
    <2>2. MoveStepped(g, move[g].s, "done")  BY <1>1, <2>1, ReceiverStepped
    <2>3. ClaimsOK' /\ move[g].src # None  BY <1>1, <1>9, <2>1, FinishMoveClaims, MoveIs
    <2>. QED  BY <2>1, <2>2, <2>3, MoveStepIInv
  <1>. QED  BY <1>2, <1>3, <1>4, <1>5, <1>6, <1>7, <1>8, <1>9

\* The reads of claims and the checks of admissions.
LEMMA ReadStepIInv ==
    ASSUME IInv,
           \/ \E m \in Machines, g \in Movers : \E o \in Observations(g) : ReadClaim(m, g, o)
           \/ \E x \in reads : ApplyClaimRead(x[1], x[2], x[3])
           \/ \E m \in Machines, g \in Movers : CheckMove(m, g) \/ RefuseMove(m, g)
    PROVE  IInv' /\ rows' = rows /\ history' = history
  <1>1. ClaimsOK /\ TablesType  BY IInvIs DEF TablesOK
  <1>2. CASE \E m \in Machines, g \in Movers : \E o \in Observations(g) : ReadClaim(m, g, o)
    <2>1. PICK m \in Machines, g \in Movers : \E o \in Observations(g) : ReadClaim(m, g, o)
      BY <1>2
    <2>2. PICK o \in Observations(g) : ReadClaim(m, g, o)  BY <2>1
    <2>3. ClaimsOK'  BY <1>1, <2>2, MoverIs, ReadClaimClaims
    <2>. QED  BY <2>2, <2>3, ClaimStepIInv DEF ReadClaim, tables
  <1>3. CASE \E x \in reads : ApplyClaimRead(x[1], x[2], x[3])
    <2>1. PICK x \in reads : ApplyClaimRead(x[1], x[2], x[3])  BY <1>3
    <2>2. ClaimsOK'  BY <1>1, <2>1, ApplyReadClaims
    <2>3. misled \subseteq misled'  BY <2>1 DEF ApplyClaimRead
    <2>. QED  BY <2>1, <2>2, <2>3, ClaimStepIInv DEF ApplyClaimRead, tables
  <1>4. CASE \E m \in Machines, g \in Movers : CheckMove(m, g) \/ RefuseMove(m, g)
    <2>1. PICK m \in Machines, g \in Movers : CheckMove(m, g) \/ RefuseMove(m, g)  BY <1>4
    <2>2. ClaimsOK'  BY <1>1, <2>1, MoverIs, CheckMoveClaims, RefuseMoveClaims
    <2>. QED
      BY <2>1, <2>2, ClaimStepIInv DEF CheckMove, RefuseMove, tables, claims
  <1>. QED  BY <1>2, <1>3, <1>4

\* Every step keeps the invariant, and is one of five on the tables or none.
Writes ==
    \/ \E m \in Machines, q \in Requests, now \in Times : RegisterSession(m, q, now)
    \/ \E m \in Machines, now \in Times : \E k, runner : Ended(m, k, now, runner)
    \/ \E m \in Machines, net \in Nets, now \in Times :
          \E k \in Bound(m) : SetSessionNetwork(m, k, net, now)
    \/ \E m \in Machines, cutoff \in Times :
          \E K \in SUBSET Prunable(m, cutoff) : PruneEnded(m, cutoff, K)
    \/ \E g \in Movers : ActivateCarrying(g)

LEMMA LocalStepIInv ==
    ASSUME IInv, NEW m \in Machines, LocalStep(m)
    PROVE  IInv' /\ Writes
  <1>1. CASE \E q \in Requests, now \in Times : RegisterSession(m, q, now)
    BY <1>1, RegisterIInv DEF Writes
  <1>2. CASE \E k \in Bound(m), r \in Runners \cup {None}, now \in Times :
                EndSession(m, k, r, now) \/ StampGone(m, k, r, now)
    <2>1. PICK k \in Bound(m), r \in Runners \cup {None}, now \in Times :
             EndSession(m, k, r, now) \/ StampGone(m, k, r, now)
      BY <1>2
    <2>2. TablesType  BY DEF IInv
    <2>3. \E runner : Ended(m, k, now, runner)
      BY <2>1, <2>2, EndSessionEnds, StampGoneEnds
    <2>4. PICK runner : Ended(m, k, now, runner)  BY <2>3
    <2>5. UNCHANGED <<claims, checks, move, data, moves>> /\ writes < MaxWrites
          /\ writes' = writes + 1
      BY <2>1 DEF EndSession, StampGone
    <2>6. IInv'  BY <2>4, <2>5, EndedIInv
    <2>. QED  BY <2>4, <2>6 DEF Writes
  <1>3. CASE \E k \in Bound(m), net \in Nets, now \in Times : SetSessionNetwork(m, k, net, now)
    BY <1>3, SetNetworkIInv DEF Writes
  <1>4. CASE \E cutoff \in Times : \E K \in SUBSET Prunable(m, cutoff) : PruneEnded(m, cutoff, K)
    BY <1>4, PruneIInv DEF Writes
  <1>. QED  BY <1>1, <1>2, <1>3, <1>4 DEF LocalStep

LEMMA NextIInv ==
    ASSUME IInv, Next
    PROVE  IInv' /\ (Writes \/ (rows' = rows /\ history' = history))
  <1>1. CASE \E m \in Machines : LocalStep(m)  BY <1>1, LocalStepIInv
  <1>2. CASE \/ \E m \in Machines, g \in Movers : \E o \in Observations(g) : ReadClaim(m, g, o)
             \/ \E x \in reads : ApplyClaimRead(x[1], x[2], x[3])
             \/ \E m \in Machines, g \in Movers : CheckMove(m, g) \/ RefuseMove(m, g)
    BY <1>2, ReadStepIInv
  <1>3. CASE \E m, to \in Machines, g \in Movers : AdmitMove(m, g, to)
    <2>1. PICK m \in Machines, to \in Machines, g \in Movers : AdmitMove(m, g, to)  BY <1>3
    <2>2. IInv'  BY <2>1, AdmitIInv
    <2>. QED  BY <2>1, <2>2 DEF AdmitMove, tables
  <1>4. CASE \E g \in Movers : MoveStep(g)
    <2>1. PICK g \in Movers : MoveStep(g)  BY <1>4
    <2>2. g \in Agents  BY MoverIs
    <2>3. CASE Export(g)  BY <2>2, <2>3, ExportIInv DEF Export, tables
    <2>4. CASE ActivateCarrying(g)  BY <2>2, <2>4, ActivateIInv DEF Writes
    <2>5. CASE \/ AbortMove(g) \/ ReceiverAborts(g) \/ ThawAborted(g) \/ PickUp(g)
               \/ TakeClaim(g) \/ BeginActivating(g) \/ ReleaseMove(g) \/ FinishMove(g)
      BY <2>2, <2>5, AdvanceIInv
    <2>. QED  BY <2>1, <2>3, <2>4, <2>5 DEF MoveStep
  <1>. QED  BY <1>1, <1>2, <1>3, <1>4 DEF Next

LEMMA StutterIInv ==
    ASSUME IInv, UNCHANGED vars
    PROVE  IInv'
  <1>1. /\ claim' = claim /\ cache' = cache /\ reads' = reads /\ misled' = misled
        /\ checks' = checks /\ move' = move /\ moves' = moves /\ data' = data
        /\ writes' = writes /\ rows' = rows /\ history' = history
    BY DEF vars
  <1>2. ClaimsOK /\ MovesType  BY IInvIs DEF ClaimsOK
  <1>3. ClaimsOK'
    <2>1. writes' \in 0..MaxWrites  BY <1>1, <1>2 DEF MovesType
    <2>. QED  BY <1>1, <1>2, <2>1, SameData, LocalClaims
  <1>. QED  BY <1>1, <1>3, ClaimStepIInv

LEMMA Invariance == Spec => []IInv
  <1>1. Init => IInv  BY InitIInv
  <1>2. IInv /\ [Next]_vars => IInv'  BY NextIInv, StutterIInv
  <1>. QED  BY <1>1, <1>2, PTL DEF Spec

-----------------------------------------------------------------------------
(* Theorems.                                                               *)

\* The tables of every machine keep their shape, their two unique keys and
\* histories that rise in time within their cap, under any sequence of
\* registrations, ends, network changes, prunes and activations.
THEOREM Bindings == Spec => []BindingsOK
  <1>1. IInv => TypeOK
    <2> SUFFICES ASSUME IInv  PROVE TypeOK
      OBVIOUS
    <2>1. TablesType /\ ClaimsType /\ MovesType  BY DEF IInv
    <2>2. ASSUME NEW m \in Machines
          PROVE  /\ Bound(m) \subseteq Keys
                 /\ DOMAIN history[m] \subseteq Keys
                 /\ \A k \in Bound(m) :
                       /\ rows[m][k].agent \in Agents
                       /\ rows[m][k].ended \in Times \cup {0}
                       /\ rows[m][k].held \in Machines \cup {None}
                       /\ rows[m][k].runner \in Runners \cup {None}
                 /\ \A k \in DOMAIN history[m] :
                       \A i \in DOMAIN history[m][k] : history[m][k][i].since \in Nat
      <3>1. history[m] \in Histories  BY <2>1 DEF TablesType
      <3>2. \A k \in Bound(m) : k \in Keys /\ rows[m][k] \in RowSet  BY <2>1, BoundRow
      <3>3. DOMAIN history[m] \subseteq Keys /\ \A k \in DOMAIN history[m] : history[m][k] \in EntrySeqs
        BY <3>1, HistoryIs
      <3>4. \A k \in DOMAIN history[m] :
               \A i \in DOMAIN history[m][k] : history[m][k][i].since \in Nat
        <4> SUFFICES ASSUME NEW k \in DOMAIN history[m], NEW i \in DOMAIN history[m][k]
                     PROVE  history[m][k][i].since \in Nat
          OBVIOUS
        <4>1. PICK es \in EntrySeqs : es = history[m][k]  BY <3>3
        <4>2. DOMAIN es = 1..Len(es) /\ \A j \in 1..Len(es) : es[j] \in [net : Nets, since : Nat]
          BY LenProperties, ElementOfSeq DEF EntrySeqs
        <4>. QED  BY <4>1, <4>2
      <3>. QED  BY <3>2, <3>3, <3>4 DEF RowSet
    <2>3. \A g \in Agents : move[g].plan \subseteq Keys /\ claim[g].holder \in Machines \cup {None}
      BY <2>1 DEF MovesType, MoveSet, ClaimsType, ClaimSet
    <2>. QED  BY <2>1, <2>2, <2>3 DEF TypeOK, MovesType
  <1>2. IInv => BindingsOK  BY <1>1 DEF IInv, BindingsOK
  <1>. QED  BY <1>2, Invariance, PTL

\* An admitted move can be exported whatever its machine wrote meanwhile, and
\* after the first move of an agent each binding of it at its holder is unmarked
\* where its data are and marked where they are elsewhere.
THEOREM MovesCarry == Spec => []MovesCarryBindings
  <1>1. IInv => FirstMoveMarksHolders
    <2> SUFFICES ASSUME IInv, NEW m \in Machines, NEW g \in Movers, moves <= 1,
                        claim[g].holder = m, NEW k \in OfAgent(m, g)
                 PROVE  IF rows[m][k].held = None THEN m \in data[g][k]
                        ELSE /\ rows[m][k].held # m
                             /\ \/ rows[m][k].held \in data[g][k]
                                \/ <<rows[m][k].held, g>> \in misled
      BY DEF FirstMoveMarksHolders
    <2>1. ClaimsOK /\ FirstMove /\ g \in Agents  BY IInvIs, MoverIs
    <2>2. k \in Bound(m) /\ rows[m][k].agent = g  BY DEF OfAgent
    <2>3. MarkOK(m, k, g, rows[m][k].held)  BY <2>1, <2>2, MarksAre DEF FirstMove
    <2>4. m # None  BY ConstantsAssumption
    <2>5. PhaseOK(g)  BY <2>1 DEF ClaimsOK, Phases
    <2>6. Moved(g) /\ (m = move[g].src \/ m = move[g].dst) =>
             move[g].src # move[g].dst /\ claim[g].holder = move[g].dst
      BY <2>4, <2>5 DEF PhaseOK, Moved
    <2>. QED  BY <2>3, <2>6 DEF MarkOK
  <1>2. IInv => AdmittedMoveExports  BY DEF IInv
  <1>3. IInv => MovesCarryBindings  BY <1>1, <1>2 DEF MovesCarryBindings
  <1>. QED  BY <1>3, Invariance, PTL

\* Two bindings of a machine with the same host session, or the same runner's
\* session, are one.
LEMMA SameBinding ==
    ASSUME IInv, NEW m \in Machines, NEW k \in Bound(m), NEW l \in Bound(m),
           rows[m][k].session # None, rows[m][l].session = rows[m][k].session,
           \/ rows[m][l].harness = rows[m][k].harness
           \/ rows[m][k].runner # None /\ rows[m][l].runner = rows[m][k].runner
    PROVE  k = l
  BY DEF IInv, SessionsBoundOnce

\* The bindings k and l are of one host session, before and after a step.
SameSession(m, k, l) ==
    /\ rows[m][k].session # None
    /\ rows'[m][l].session = rows[m][k].session
    /\ \/ rows'[m][l].harness = rows[m][k].harness
       \/ rows[m][k].runner # None /\ rows'[m][l].runner = rows[m][k].runner

LEMMA SameRowSession ==
    ASSUME IInv, NEW m \in Machines, NEW k \in Bound(m), NEW l \in Bound(m),
           rows'[m][l] = rows[m][l], SameSession(m, k, l)
    PROVE  k = l
  BY SameBinding DEF SameSession

LEMMA EntriesKept ==
    ASSUME IInv, NEW m \in Machines, NEW k, history'[m] = history[m]
    PROVE  IsPrefix(Entries(m, k), Entries(m, k)')
  <1>1. PICK es \in EntrySeqs : es = Entries(m, k)  BY EntriesIs DEF IInv
  <1>2. Entries(m, k)' = es  BY <1>1 DEF Entries
  <1>3. IsPrefix(es, es)  BY DEF IsPrefix, EntrySeqs
  <1>. QED  BY <1>1, <1>2, <1>3

LEMMA SameMachine ==
    ASSUME IInv, NEW m \in Machines, rows'[m] = rows[m], history'[m] = history[m],
           NEW k \in Bound(m), NEW l \in DOMAIN rows'[m], SameSession(m, k, l)
    PROVE  IsPrefix(Entries(m, k), Entries(m, l)')
  <1>1. l \in Bound(m) /\ rows'[m][l] = rows[m][l]  BY DEF Bound
  <1>2. k = l  BY <1>1, SameRowSession
  <1>. QED  BY <1>2, EntriesKept

\* A step on the tables of one machine.
LEMMA OtherMachines ==
    ASSUME IInv, NEW x \in Machines,
           rows' = [rows EXCEPT ![x] = rows'[x]],
           history' = history \/ history' = [history EXCEPT ![x] = history'[x]],
           NEW m \in Machines, m # x
    PROVE  rows'[m] = rows[m] /\ history'[m] = history[m]
  BY DEF IInv, TablesType

LEMMA RegisterHistory ==
    ASSUME IInv, NEW m \in Machines, NEW q \in Requests, NEW now \in Times,
           RegisterSession(m, q, now),
           NEW k \in Bound(m), NEW l \in DOMAIN rows'[m], SameSession(m, k, l)
    PROVE  IsPrefix(Entries(m, k), Entries(m, l)')
  <1>1. TablesOK  BY IInvIs
  <1>2. TablesType /\ HistoriesReadable  BY <1>1 DEF TablesOK
  <1>3. TakesOver(m, q) /\ Registered(m, q, now)  BY <1>1, RegisterTables
  <1>4. PICK p : p = Previous(m, q)  OBVIOUS
  <1>5. PICK es : es = WithNetwork(Entries(m, p), q.net, now)  OBVIOUS
  <1>6. /\ es \in EntrySeqs /\ IsPrefix(Entries(m, p), es)
        /\ \A x \in DOMAIN history'[m] :
              \/ x = q.key /\ history'[m][x] = es
              \/ x # q.key /\ x # p /\ x \in DOMAIN history[m]
                    /\ history'[m][x] = history[m][x]
        /\ \A x \in DOMAIN history[m] : x # q.key /\ x # p => x \in DOMAIN history'[m]
        /\ es # <<>> => q.key \in DOMAIN history'[m]
    BY <1>2, <1>3, <1>4, <1>5, RegisteredHistory
  <1>7. /\ DOMAIN rows'[m] = (Bound(m) \ {p}) \cup {q.key}
        /\ rows'[m][q.key] = Row(q.agent, q.harness, q.session, RunnerLeft(m, q), 0, None)
        /\ \A x \in Bound(m) : x # p /\ x # q.key => rows'[m][x] = rows[m][x]
    BY <1>3, <1>4 DEF Registered
  <1>8. CASE l = q.key
    <2>1. /\ rows[m][k].session = q.session
          /\ \/ rows[m][k].harness = q.harness
             \/ RunnerLeft(m, q) # None /\ rows[m][k].runner = RunnerLeft(m, q)
      BY <1>7, <1>8 DEF SameSession, Row
    <2>2. k = p  BY <1>3, <1>4, <2>1 DEF TakesOver
    <2>3. Entries(m, l)' = es  BY <1>6, <1>8 DEF Entries
    <2>. QED  BY <1>6, <2>2, <2>3
  <1>9. CASE l # q.key
    <2>1. l \in Bound(m) /\ l # p /\ rows'[m][l] = rows[m][l]  BY <1>7, <1>9
    <2>2. k = l  BY <2>1, SameRowSession
    <2>3. Entries(m, l)' = Entries(m, l)  BY <1>6, <1>9, <2>1 DEF Entries
    <2>4. PICK e \in EntrySeqs : e = Entries(m, l)  BY <1>2, EntriesIs
    <2>5. IsPrefix(e, e)  BY DEF IsPrefix, EntrySeqs
    <2>. QED  BY <2>2, <2>3, <2>4, <2>5
  <1>. QED  BY <1>8, <1>9

LEMMA EndedHistory ==
    ASSUME IInv, NEW m \in Machines, NEW x, NEW now \in Times, NEW runner,
           Ended(m, x, now, runner),
           NEW k \in Bound(m), NEW l \in DOMAIN rows'[m], SameSession(m, k, l)
    PROVE  k = l /\ IsPrefix(Entries(m, k), Entries(m, l)')
  <1>1. /\ l \in Bound(m) /\ (l # x => rows'[m][l] = rows[m][l])
        /\ history' = history /\ x \in Bound(m)
    BY DEF Ended
  <1>2. CASE l # x  BY <1>1, <1>2, SameRowSession, EntriesKept
  <1>3. CASE l = x
    <2>1. rows[m][x] \in RowSet  BY <1>1, BoundRow DEF IInv
    <2>2. /\ rows'[m][x].session = rows[m][x].session /\ rows'[m][x].runner = runner
          /\ rows'[m][x].harness = rows[m][x].harness
      BY <2>1 DEF Ended, RowSet
    <2>3. CASE runner = rows[m][x].runner \/ rows[m][k].harness = rows[m][x].harness
      <3>1. k = x  BY <1>1, <1>3, <2>2, <2>3, SameBinding DEF SameSession
      <3>. QED  BY <1>1, <1>3, <3>1, EntriesKept
    <2>4. CASE ~(runner = rows[m][x].runner \/ rows[m][k].harness = rows[m][x].harness)
      <3>1. ByRunner(m, runner, rows[m][x].session) = {}  BY <2>4 DEF Ended
      <3>2. rows[m][k].runner # None /\ runner = rows[m][k].runner
            /\ rows[m][x].session = rows[m][k].session
        BY <1>3, <2>2, <2>4 DEF SameSession
      <3>3. k \in ByRunner(m, runner, rows[m][x].session)  BY <3>2 DEF ByRunner
      <3>. QED  BY <3>1, <3>3
    <2>. QED  BY <2>3, <2>4
  <1>. QED  BY <1>2, <1>3

LEMMA SetNetworkHistory ==
    ASSUME IInv, NEW m \in Machines, NEW x \in Bound(m), NEW net \in Nets, NEW now \in Times,
           SetSessionNetwork(m, x, net, now),
           NEW k \in Bound(m), NEW l \in DOMAIN rows'[m], SameSession(m, k, l)
    PROVE  IsPrefix(Entries(m, k), Entries(m, l)')
  <1>1. TablesOK /\ TablesType /\ HistoriesReadable  BY IInvIs DEF TablesOK
  <1>2. /\ TablesOK' /\ rows' = rows
        /\ \A y \in DOMAIN history'[m] :
              \/ y = x
              \/ y # x /\ y \in DOMAIN history[m] /\ history'[m][y] = history[m][y]
        /\ \A y \in DOMAIN history[m] : y # x =>
              y \in DOMAIN history'[m] /\ history'[m][y] = history[m][y]
        /\ x \in DOMAIN history'[m] => IsPrefix(Entries(m, x), history'[m][x])
        /\ Entries(m, x) # <<>> => x \in DOMAIN history'[m]
    BY <1>1, SetNetworkTables
  <1>3. l \in Bound(m) /\ rows'[m][l] = rows[m][l]  BY <1>2 DEF Bound
  <1>4. k = l  BY <1>3, SameRowSession
  <1>5. PICK e \in EntrySeqs : e = Entries(m, l)  BY <1>1, EntriesIs
  <1>6. IsPrefix(e, e)  BY DEF IsPrefix, EntrySeqs
  <1>7. CASE l # x
    <2>1. Entries(m, l)' = Entries(m, l)  BY <1>2, <1>7 DEF Entries
    <2>. QED  BY <1>4, <1>5, <1>6, <2>1
  <1>8. CASE l = x /\ x \in DOMAIN history'[m]
    <2>1. Entries(m, x)' = history'[m][x]  BY <1>8 DEF Entries
    <2>. QED  BY <1>2, <1>4, <1>8, <2>1
  <1>9. CASE l = x /\ x \notin DOMAIN history'[m]
    <2>1. Entries(m, x)' = <<>> /\ Entries(m, x) = <<>>  BY <1>2, <1>9 DEF Entries
    <2>. QED  BY <1>4, <1>5, <1>6, <1>9, <2>1
  <1>. QED  BY <1>7, <1>8, <1>9

LEMMA PruneHistory ==
    ASSUME IInv, NEW m \in Machines, NEW cutoff \in Times,
           NEW K \in SUBSET Prunable(m, cutoff), PruneEnded(m, cutoff, K),
           NEW k \in Bound(m), NEW l \in DOMAIN rows'[m], SameSession(m, k, l)
    PROVE  IsPrefix(Entries(m, k), Entries(m, l)')
  <1>1. TablesOK /\ TablesType /\ HistoriesReadable  BY IInvIs DEF TablesOK
  <1>2. /\ DOMAIN rows'[m] = Bound(m) \ K
        /\ \A y \in Bound(m) \ K : rows'[m][y] = rows[m][y]
        /\ DOMAIN history'[m] = DOMAIN history[m] \ K
        /\ \A y \in DOMAIN history[m] \ K : history'[m][y] = history[m][y]
    BY <1>1, PruneTables
  <1>3. l \in Bound(m) /\ l \notin K /\ rows'[m][l] = rows[m][l]  BY <1>2
  <1>4. k = l  BY <1>3, SameRowSession
  <1>5. PICK e \in EntrySeqs : e = Entries(m, l)  BY <1>1, EntriesIs
  <1>6. IsPrefix(e, e)  BY DEF IsPrefix, EntrySeqs
  <1>7. Entries(m, l)' = Entries(m, l)  BY <1>2, <1>3 DEF Entries
  <1>. QED  BY <1>4, <1>5, <1>6, <1>7

\* A session that an activation installs is bound nowhere else there.
LEMMA InstalledSession ==
    ASSUME IInv, NEW g \in Agents, NEW m \in Machines, NEW k \in Bound(m),
           NEW l \in Installed(m, g), rows'[m][l] = InstalledRow(m, g, l), SameSession(m, k, l)
    PROVE  FALSE
  <1>1. TablesType /\ MovesType /\ StreamsOK  BY DEF IInv
  <1>2. PICK row : row = InstalledRow(m, g, l)  OBVIOUS
  <1>3. PICK c : c = move[g].carried[l].row  OBVIOUS
  <1>4. \/ row.session = None
        \/ /\ ~Collides(m, c) /\ row.session = c.session
           /\ row.harness = c.harness /\ row.runner = c.runner
    BY <1>1, <1>2, <1>3, InstalledRowIs
  <1>5. /\ row.session = rows[m][k].session /\ rows[m][k].session # None
        /\ \/ row.harness = rows[m][k].harness
           \/ rows[m][k].runner # None /\ row.runner = rows[m][k].runner
    BY <1>2 DEF SameSession
  <1>6. k \notin BySession(m, c.harness, c.session) /\ k \notin ByRunner(m, c.runner, c.session)
    BY <1>4, <1>5 DEF Collides
  <1>. QED  BY <1>4, <1>5, <1>6 DEF BySession, ByRunner

LEMMA ActivateHistory ==
    ASSUME IInv, NEW g \in Agents, NEW m \in Machines, Installs(m, g),
           NEW k \in Bound(m), NEW l \in DOMAIN rows'[m], SameSession(m, k, l)
    PROVE  IsPrefix(Entries(m, k), Entries(m, l)')
  <1>1. /\ DOMAIN rows'[m] = Bound(m) \cup Installed(m, g)
        /\ \A x \in Bound(m) : rows'[m][x] = rows[m][x]
        /\ \A x \in Installed(m, g) : rows'[m][x] = InstalledRow(m, g, x)
        /\ \A x \in DOMAIN history[m] : x \in DOMAIN history'[m] /\ history'[m][x] = history[m][x]
        /\ \A x \in Bound(m) \cap DOMAIN history'[m] : x \in DOMAIN history[m]
    BY DEF Installs
  <1>2. l \notin Installed(m, g)  BY <1>1, InstalledSession
  <1>3. l \in Bound(m) /\ rows'[m][l] = rows[m][l]  BY <1>1, <1>2
  <1>4. k = l  BY <1>3, SameRowSession
  <1>5. PICK e \in EntrySeqs : e = Entries(m, l)  BY EntriesIs DEF IInv
  <1>6. IsPrefix(e, e)  BY DEF IsPrefix, EntrySeqs
  <1>7. Entries(m, l)' = Entries(m, l)  BY <1>1, <1>3 DEF Entries
  <1>. QED  BY <1>4, <1>5, <1>6, <1>7

\* A host session that stays bound keeps its network history, under a registration
\* that re-keys it or changes its host, an end, a prune and an activation.
THEOREM HistoryFollows == Spec => HistoryFollowsSession
  <1> DEFINE Follows ==
        \A m \in Machines : \A k \in DOMAIN rows[m], l \in DOMAIN rows'[m] :
           SameSession(m, k, l) => IsPrefix(Entries(m, k), Entries(m, l)')
  <1>1. ASSUME IInv, Next  PROVE Follows
    <2> SUFFICES ASSUME NEW m \in Machines, NEW k \in Bound(m), NEW l \in DOMAIN rows'[m],
                        SameSession(m, k, l)
                 PROVE  IsPrefix(Entries(m, k), Entries(m, l)')
      BY DEF Bound
    <2>1. TablesOK  BY <1>1, IInvIs
    <2>2. Writes \/ (rows' = rows /\ history' = history)  BY <1>1, NextIInv
    <2>3. CASE rows' = rows /\ history' = history  BY <1>1, <2>3, SameMachine
    <2>4. CASE \E x \in Machines, q \in Requests, now \in Times : RegisterSession(x, q, now)
      <3>1. PICK x \in Machines, q \in Requests, now \in Times : RegisterSession(x, q, now)
        BY <2>4
      <3>2. CASE x = m  BY <1>1, <3>1, <3>2, RegisterHistory
      <3>3. CASE x # m
        <4>1. Registered(x, q, now)  BY <2>1, <3>1, RegisterTables
        <4>2. rows'[m] = rows[m] /\ history'[m] = history[m]
          BY <1>1, <3>3, <4>1, OtherMachines DEF Registered
        <4>. QED  BY <1>1, <4>2, SameMachine
      <3>. QED  BY <3>2, <3>3
    <2>5. CASE \E x \in Machines, now \in Times : \E y, runner : Ended(x, y, now, runner)
      <3>1. PICK x \in Machines, now \in Times : \E y, runner : Ended(x, y, now, runner)
        BY <2>5
      <3>2. PICK y, runner : Ended(x, y, now, runner)  BY <3>1
      <3>3. CASE x = m  BY <1>1, <3>2, <3>3, EndedHistory
      <3>4. CASE x # m
        <4>1. rows'[m] = rows[m] /\ history'[m] = history[m]
          BY <1>1, <3>2, <3>4, OtherMachines DEF Ended
        <4>. QED  BY <1>1, <4>1, SameMachine
      <3>. QED  BY <3>3, <3>4
    <2>6. CASE \E x \in Machines, net \in Nets, now \in Times :
                  \E y \in Bound(x) : SetSessionNetwork(x, y, net, now)
      <3>0. PICK x \in Machines, net \in Nets, now \in Times :
               \E y \in Bound(x) : SetSessionNetwork(x, y, net, now)
        BY <2>6
      <3>1. PICK y \in Bound(x) : SetSessionNetwork(x, y, net, now)  BY <3>0
      <3>2. CASE x = m  BY <1>1, <3>1, <3>2, SetNetworkHistory
      <3>3. CASE x # m
        <4>1. rows' = rows /\ history' = [history EXCEPT ![x] = history'[x]]
          BY <2>1, <3>1, SetNetworkTables
        <4>2. rows'[m] = rows[m] /\ history'[m] = history[m]
          BY <2>1, <3>3, <4>1 DEF TablesOK, TablesType
        <4>. QED  BY <1>1, <4>2, SameMachine
      <3>. QED  BY <3>2, <3>3
    <2>7. CASE \E x \in Machines, cutoff \in Times :
                  \E K \in SUBSET Prunable(x, cutoff) : PruneEnded(x, cutoff, K)
      <3>0. PICK x \in Machines, cutoff \in Times :
               \E K \in SUBSET Prunable(x, cutoff) : PruneEnded(x, cutoff, K)
        BY <2>7
      <3>1. PICK K \in SUBSET Prunable(x, cutoff) : PruneEnded(x, cutoff, K)  BY <3>0
      <3>2. CASE x = m  BY <1>1, <3>1, <3>2, PruneHistory
      <3>3. CASE x # m
        <4>1. rows' = [rows EXCEPT ![x] = rows'[x]] /\ history' = [history EXCEPT ![x] = history'[x]]
          BY <2>1, <3>1, PruneTables
        <4>2. rows'[m] = rows[m] /\ history'[m] = history[m]
          BY <1>1, <3>3, <4>1, OtherMachines
        <4>. QED  BY <1>1, <4>2, SameMachine
      <3>. QED  BY <3>2, <3>3
    <2>8. CASE \E g \in Movers : ActivateCarrying(g)
      <3>1. PICK g \in Movers : ActivateCarrying(g)  BY <2>8
      <3>2. g \in Agents /\ ClaimsOK  BY <1>1, MoverIs, IInvIs
      <3>3. move[g].dst \in Machines  BY <3>1, <3>2, MoveIs DEF ActivateCarrying
      <3>4. PICK x \in Machines : x = move[g].dst  BY <3>3
      <3>5. Installs(x, g)  BY <1>1, <3>1, <3>2, <3>4, ActivateIInv
      <3>6. CASE x = m  BY <1>1, <3>2, <3>5, <3>6, ActivateHistory
      <3>7. CASE x # m
        <4>1. rows'[m] = rows[m] /\ history'[m] = history[m]
          BY <1>1, <3>5, <3>7, OtherMachines DEF Installs
        <4>. QED  BY <1>1, <4>1, SameMachine
      <3>. QED  BY <3>6, <3>7
    <2>. QED  BY <2>2, <2>3, <2>4, <2>5, <2>6, <2>7, <2>8 DEF Writes
  <1>2. IInv /\ [Next]_vars =>
          [\A m \in Machines : \A k \in DOMAIN rows[m], l \in DOMAIN rows'[m] :
              /\ rows[m][k].session # None
              /\ rows'[m][l].session = rows[m][k].session
              /\ \/ rows'[m][l].harness = rows[m][k].harness
                 \/ /\ rows[m][k].runner # None
                    /\ rows'[m][l].runner = rows[m][k].runner
              => LET old == IF k \in DOMAIN history[m] THEN history[m][k] ELSE <<>>
                     new == IF l \in DOMAIN history'[m] THEN history'[m][l] ELSE <<>>
                 IN  IsPrefix(old, new)]_vars
    <2> SUFFICES ASSUME IInv, Next
                 PROVE  \A m \in Machines : \A k \in DOMAIN rows[m], l \in DOMAIN rows'[m] :
                           /\ rows[m][k].session # None
                           /\ rows'[m][l].session = rows[m][k].session
                           /\ \/ rows'[m][l].harness = rows[m][k].harness
                              \/ /\ rows[m][k].runner # None
                                 /\ rows'[m][l].runner = rows[m][k].runner
                           => LET old == IF k \in DOMAIN history[m] THEN history[m][k] ELSE <<>>
                                  new == IF l \in DOMAIN history'[m] THEN history'[m][l] ELSE <<>>
                              IN  IsPrefix(old, new)
      OBVIOUS
    <2>1. Follows  BY <1>1
    <2>. QED  BY <2>1 DEF SameSession, Entries
  <1>. QED  BY <1>2, Invariance, PTL DEF Spec, HistoryFollowsSession

-----------------------------------------------------------------------------
(* The fences.                                                             *)

\* The binding k of a machine, held elsewhere, is not opened as l.
KeptClosed(m, k, l) ==
    /\ rows[m][k].held # None
    /\ \/ l = k
       \/ /\ rows[m][k].session # None
          /\ rows'[m][l].harness = rows[m][k].harness
          /\ rows'[m][l].session = rows[m][k].session
    => rows'[m][l] = rows[m][k]

LEMMA ClosedSame ==
    ASSUME IInv, NEW m \in Machines, NEW k \in Bound(m), NEW l \in Bound(m),
           rows'[m][l] = rows[m][l]
    PROVE  KeptClosed(m, k, l)
  <1> SUFFICES ASSUME l # k, rows[m][k].session # None,
                      rows'[m][l].harness = rows[m][k].harness,
                      rows'[m][l].session = rows[m][k].session
               PROVE  FALSE
    BY DEF KeptClosed
  <1>. QED  BY SameBinding

LEMMA HeldIsClosed ==
    ASSUME IInv, Next
    PROVE  HeldStaysClosed
  <1> SUFFICES ASSUME NEW m \in Machines, NEW k \in Bound(m), NEW l \in DOMAIN rows'[m]
               PROVE  KeptClosed(m, k, l)
    BY DEF HeldStaysClosed, KeptClosed, Bound
  <1>1. TablesOK  BY IInvIs
  <1>2. Writes \/ (rows' = rows /\ history' = history)  BY NextIInv
  <1>3. CASE rows'[m] = rows[m]  BY <1>3, ClosedSame DEF Bound
  <1>4. CASE \E x \in Machines, q \in Requests, now \in Times : RegisterSession(x, q, now)
    <2>1. PICK x \in Machines, q \in Requests, now \in Times : RegisterSession(x, q, now)
      BY <1>4
    <2>2. TakesOver(x, q) /\ Registered(x, q, now)  BY <1>1, <2>1, RegisterTables
    <2>3. CASE x # m
      <3>1. rows'[m] = rows[m]  BY <2>2, <2>3, OtherMachines DEF Registered
      <3>. QED  BY <1>3, <3>1
    <2>4. CASE x = m
      <3>1. PICK p : p = Previous(m, q)  OBVIOUS
      <3>2. /\ DOMAIN rows'[m] = (Bound(m) \ {p}) \cup {q.key}
            /\ rows'[m][q.key] = Row(q.agent, q.harness, q.session, RunnerLeft(m, q), 0, None)
            /\ \A y \in Bound(m) : y # p /\ y # q.key => rows'[m][y] = rows[m][y]
        BY <2>2, <2>4, <3>1 DEF Registered
      <3>3. /\ q.key \in Bound(m) => rows[m][q.key].held = None
            /\ \A y \in Bound(m) : rows[m][y].held # None =>
                  rows[m][y].session # q.session \/ rows[m][y].harness # q.harness
        BY <2>2, <2>4 DEF TakesOver
      <3>4. CASE l # q.key
        <4>1. l \in Bound(m) /\ rows'[m][l] = rows[m][l]  BY <3>2, <3>4
        <4>. QED  BY <4>1, ClosedSame
      <3>5. CASE l = q.key
        <4>1. rows'[m][l].session = q.session /\ rows'[m][l].harness = q.harness
          BY <3>2, <3>5 DEF Row
        <4>. QED  BY <3>3, <3>5, <4>1 DEF KeptClosed
      <3>. QED  BY <3>4, <3>5
    <2>. QED  BY <2>3, <2>4
  <1>5. CASE \E x \in Machines, now \in Times : \E y, runner : Ended(x, y, now, runner)
    <2>1. PICK x \in Machines, now \in Times : \E y, runner : Ended(x, y, now, runner)
      BY <1>5
    <2>2. PICK y, runner : Ended(x, y, now, runner)  BY <2>1
    <2>3. CASE x # m
      <3>1. rows'[m] = rows[m]  BY <2>2, <2>3, OtherMachines DEF Ended
      <3>. QED  BY <1>3, <3>1
    <2>4. CASE x = m
      <3>1. /\ l \in Bound(m) /\ (l # y => rows'[m][l] = rows[m][l])
            /\ y \in Bound(m) /\ rows[m][y].ended = 0
        BY <2>2, <2>4 DEF Ended
      <3>2. CASE l # y  BY <3>1, <3>2, ClosedSame
      <3>3. CASE l = y
        <4>1. rows[m][y].held = None  BY <3>1 DEF IInv, HeldEnded
        <4>2. SUFFICES ASSUME rows[m][k].held # None, rows[m][k].session # None,
                              rows'[m][l].harness = rows[m][k].harness,
                              rows'[m][l].session = rows[m][k].session
                       PROVE  FALSE
          BY <3>3, <4>1 DEF KeptClosed
        <4>3. SameSession(m, k, l)  BY <4>2 DEF SameSession
        <4>4. k = l  BY <2>2, <2>4, <4>3, EndedHistory
        <4>. QED  BY <3>3, <4>1, <4>2, <4>4
      <3>. QED  BY <3>2, <3>3
    <2>. QED  BY <2>3, <2>4
  <1>6. CASE \E x \in Machines, net \in Nets, now \in Times :
                \E y \in Bound(x) : SetSessionNetwork(x, y, net, now)
    BY <1>3, <1>6 DEF SetSessionNetwork
  <1>7. CASE \E x \in Machines, cutoff \in Times :
                \E K \in SUBSET Prunable(x, cutoff) : PruneEnded(x, cutoff, K)
    <2>0. PICK x \in Machines, cutoff \in Times :
             \E K \in SUBSET Prunable(x, cutoff) : PruneEnded(x, cutoff, K)
      BY <1>7
    <2>1. PICK K \in SUBSET Prunable(x, cutoff) : PruneEnded(x, cutoff, K)  BY <2>0
    <2>2. /\ rows' = [rows EXCEPT ![x] = rows'[x]] /\ history' = [history EXCEPT ![x] = history'[x]]
          /\ DOMAIN rows'[x] = Bound(x) \ K
          /\ \A y \in Bound(x) \ K : rows'[x][y] = rows[x][y]
      BY <1>1, <2>1, PruneTables
    <2>3. CASE x # m
      <3>1. rows'[m] = rows[m]  BY <2>2, <2>3, OtherMachines
      <3>. QED  BY <1>3, <3>1
    <2>4. CASE x = m  BY <2>2, <2>4, ClosedSame
    <2>. QED  BY <2>3, <2>4
  <1>8. CASE \E g \in Movers : ActivateCarrying(g)
    <2>1. PICK g \in Movers : ActivateCarrying(g)  BY <1>8
    <2>2. g \in Agents /\ ClaimsOK  BY MoverIs, IInvIs
    <2>3. move[g].dst \in Machines  BY <2>1, <2>2, MoveIs DEF ActivateCarrying
    <2>4. PICK x \in Machines : x = move[g].dst  BY <2>3
    <2>5. Installs(x, g)  BY <2>1, <2>2, <2>4, ActivateIInv
    <2>6. CASE x # m
      <3>1. rows'[m] = rows[m]  BY <2>5, <2>6, OtherMachines DEF Installs
      <3>. QED  BY <1>3, <3>1
    <2>7. CASE x = m
      <3>1. CASE l \in Bound(m)  BY <2>5, <2>7, <3>1, ClosedSame DEF Installs
      <3>2. CASE l \notin Bound(m)
        <4>1. l \in Installed(m, g) /\ rows'[m][l] = InstalledRow(m, g, l)
          BY <2>5, <2>7, <3>2 DEF Installs
        <4>2. SUFFICES ASSUME rows[m][k].session # None,
                              rows'[m][l].harness = rows[m][k].harness,
                              rows'[m][l].session = rows[m][k].session
                       PROVE  FALSE
          BY <3>2 DEF KeptClosed
        <4>3. SameSession(m, k, l)  BY <4>2 DEF SameSession
        <4>. QED  BY <2>2, <4>1, <4>3, InstalledSession
      <3>. QED  BY <3>1, <3>2
    <2>. QED  BY <2>6, <2>7
  <1>. QED  BY <1>2, <1>3, <1>4, <1>5, <1>6, <1>7, <1>8 DEF Writes

\* A machine that knows of a claim that is elsewhere registers nothing, unless it
\* was misled.
LEMMA RegistersAtHome ==
    ASSUME IInv, NEW m \in Machines, NEW q \in Requests, NEW now \in Times,
           RegisterSession(m, q, now), claim[q.agent].holder \notin {None, m},
           m = move[q.agent].src \/ cache[m][q.agent].version > 0
    PROVE  <<m, q.agent>> \in misled
  <1> SUFFICES ASSUME <<m, q.agent>> \notin misled  PROVE FALSE
    OBVIOUS
  <1>1. PICK g \in Agents : g = q.agent  BY RequestIs
  <1>2. ~Fenced(m, q) /\ ClaimAllows(m, g)  BY <1>1 DEF RegisterSession
  <1>3. ~SourceOpen(m, g)  BY <1>1, <1>2 DEF Fenced
  <1>4. Away(m, g)  BY <1>1, <1>3 DEF Away
  <1>5. ClaimsOK  BY IInvIs
  <1>6. CacheOK(m, g) /\ cache[m][g] \in CacheSet
    BY <1>5, CachesOKIs DEF ClaimsOK, ClaimsType
  <1>7. cache[m][g].version > 0 /\ cache[m][g].known /\ cache[m][g].holder # m
    BY <1>1, <1>4, <1>6 DEF CacheOK
  <1>8. cache[m][g].version # 0  BY <1>6, <1>7 DEF CacheSet
  <1>. QED  BY <1>2, <1>7, <1>8 DEF ClaimAllows

LEMMA FormerHolderIsFenced ==
    ASSUME IInv, Next
    PROVE  FormerHolderFenced
  <1> SUFFICES ASSUME NEW m \in Machines, NEW g \in Agents,
                      claim[g].holder \notin {None, m},
                      m = move[g].src \/ cache[m][g].version > 0,
                      NEW k \in DOMAIN rows'[m],
                      rows'[m][k].agent = g, rows'[m][k].ended = 0,
                      k \in DOMAIN rows[m] => rows[m][k].ended # 0
               PROVE  <<m, g>> \in misled
    BY DEF FormerHolderFenced
  <1>1. TablesOK  BY IInvIs
  <1>2. Writes \/ (rows' = rows /\ history' = history)  BY NextIInv
  <1>3. CASE k \in DOMAIN rows[m] /\ rows'[m][k] = rows[m][k]  BY <1>3
  <1>4. CASE rows'[m] = rows[m]  BY <1>3, <1>4
  <1>5. CASE \E x \in Machines, q \in Requests, now \in Times : RegisterSession(x, q, now)
    <2>1. PICK x \in Machines, q \in Requests, now \in Times : RegisterSession(x, q, now)
      BY <1>5
    <2>2. TakesOver(x, q) /\ Registered(x, q, now)  BY <1>1, <2>1, RegisterTables
    <2>3. CASE x # m
      <3>1. rows'[m] = rows[m]  BY <2>2, <2>3, OtherMachines DEF Registered
      <3>. QED  BY <1>4, <3>1
    <2>4. CASE x = m /\ k # q.key
      <3>1. k \in DOMAIN rows[m] /\ rows'[m][k] = rows[m][k]
        BY <2>2, <2>4 DEF Registered, Bound
      <3>. QED  BY <1>3, <3>1
    <2>5. CASE x = m /\ k = q.key
      <3>1. g = q.agent  BY <2>2, <2>5 DEF Registered, Row
      <3>. QED  BY <2>1, <2>5, <3>1, RegistersAtHome
    <2>. QED  BY <2>3, <2>4, <2>5
  <1>6. CASE \E x \in Machines, now \in Times : \E y, runner : Ended(x, y, now, runner)
    <2>1. PICK x \in Machines, now \in Times : \E y, runner : Ended(x, y, now, runner)
      BY <1>6
    <2>2. PICK y, runner : Ended(x, y, now, runner)  BY <2>1
    <2>3. CASE x # m
      <3>1. rows'[m] = rows[m]  BY <2>2, <2>3, OtherMachines DEF Ended
      <3>. QED  BY <1>4, <3>1
    <2>4. CASE x = m
      <3>1. /\ k \in Bound(m) /\ (k # y => rows'[m][k] = rows[m][k])
            /\ y \in Bound(m) /\ rows[m][y].ended = 0
        BY <2>2, <2>4 DEF Ended
      <3>. QED  BY <1>3, <3>1 DEF Bound
    <2>. QED  BY <2>3, <2>4
  <1>7. CASE \E x \in Machines, net \in Nets, now \in Times :
                \E y \in Bound(x) : SetSessionNetwork(x, y, net, now)
    BY <1>4, <1>7 DEF SetSessionNetwork
  <1>8. CASE \E x \in Machines, cutoff \in Times :
                \E K \in SUBSET Prunable(x, cutoff) : PruneEnded(x, cutoff, K)
    <2>0. PICK x \in Machines, cutoff \in Times :
             \E K \in SUBSET Prunable(x, cutoff) : PruneEnded(x, cutoff, K)
      BY <1>8
    <2>1. PICK K \in SUBSET Prunable(x, cutoff) : PruneEnded(x, cutoff, K)  BY <2>0
    <2>2. /\ rows' = [rows EXCEPT ![x] = rows'[x]] /\ history' = [history EXCEPT ![x] = history'[x]]
          /\ DOMAIN rows'[x] = Bound(x) \ K
          /\ \A y \in Bound(x) \ K : rows'[x][y] = rows[x][y]
      BY <1>1, <2>1, PruneTables
    <2>3. CASE x # m
      <3>1. rows'[m] = rows[m]  BY <2>2, <2>3, OtherMachines
      <3>. QED  BY <1>4, <3>1
    <2>4. CASE x = m  BY <1>3, <2>2, <2>4 DEF Bound
    <2>. QED  BY <2>3, <2>4
  <1>9. CASE \E h \in Movers : ActivateCarrying(h)
    <2>1. PICK h \in Movers : ActivateCarrying(h)  BY <1>9
    <2>2. h \in Agents /\ ClaimsOK /\ move[h].r = "activating"
      BY <2>1, MoverIs, IInvIs DEF ActivateCarrying
    <2>3. move[h].dst \in Machines /\ PhaseOK(h) /\ move[h].src # None
      BY <2>2, MoveIs DEF ClaimsOK, Phases
    <2>4. PICK x \in Machines : x = move[h].dst  BY <2>3
    <2>5. Installs(x, h)  BY <2>1, <2>2, <2>4, ActivateIInv
    <2>6. CASE x # m
      <3>1. rows'[m] = rows[m]  BY <2>5, <2>6, OtherMachines DEF Installs
      <3>. QED  BY <1>4, <3>1
    <2>7. CASE x = m
      <3>1. claim[h].holder = m  BY <2>2, <2>3, <2>4, <2>7 DEF PhaseOK
      <3>2. CASE k \in Bound(m)  BY <1>3, <2>5, <2>7, <3>2 DEF Installs, Bound
      <3>3. CASE k \notin Bound(m)
        <4>1. k \in Installed(m, h) /\ rows'[m][k] = InstalledRow(m, h, k)
          BY <2>5, <2>7, <3>3 DEF Installs
        <4>2. TablesType /\ MovesType /\ StreamsOK  BY DEF IInv
        <4>3. InstalledRow(m, h, k).agent = h  BY <2>2, <4>1, <4>2, InstalledRowIs
        <4>. QED  BY <3>1, <4>1, <4>3
      <3>. QED  BY <3>2, <3>3
    <2>. QED  BY <2>6, <2>7
  <1>. QED  BY <1>2, <1>4, <1>5, <1>6, <1>7, <1>8, <1>9 DEF Writes

\* Moves from one machine bring different references: each is bound to one agent
\* there until the source is released.
LEMMA PlansApart ==
    ASSUME IInv, NEW g \in Agents, NEW h \in Agents, g # h,
           move[g].r = "activating", move[h].r = "activating", move[g].src = move[h].src,
           NEW m \in Machines, NEW k \in move[g].plan
    PROVE  k \notin Installed(m, h)
  <1>1. ClaimsOK /\ MovesKept  BY IInvIs
  <1>2. move[g].src # None /\ move[h].src # None /\ move[g] \in MoveSet /\ move[h] \in MoveSet
    BY <1>1, MoveIs
  <1>3. PhaseOK(g) /\ PhaseOK(h)  BY <1>1 DEF ClaimsOK, Phases
  <1>4. move[g].s = "published" /\ move[h].s = "published"
    BY <1>2, <1>3 DEF PhaseOK, MoveSet
  <1>5. PICK s : s = move[g].src /\ s = move[h].src  OBVIOUS
  <1>6. move[g].plan \subseteq OfAgent(s, g)
        /\ move[h].plan \cup DOMAIN move[h].carried \subseteq OfAgent(s, h)
    BY <1>1, <1>4, <1>5 DEF MovesKept, PublishedKept
  <1>7. Installed(m, h) \subseteq move[h].plan \cup DOMAIN move[h].carried  BY DEF Installed
  <1>. QED  BY <1>6, <1>7 DEF OfAgent

LEMMA PlannedRefsAreKept ==
    ASSUME IInv, Next
    PROVE  PlannedRefsKept
  <1> SUFFICES ASSUME NEW g \in Agents,
                      move[g].r = "activating", move'[g].r = "activating",
                      RefsOwned(move[g].dst, g)
               PROVE  \/ \A k \in move[g].plan \cap DOMAIN rows'[move[g].dst] :
                            rows'[move[g].dst][k].agent = g
                      \/ \E h \in Movers :
                            /\ move[h].r = "activating" /\ move'[h].r = "activated"
                            /\ move[h].dst = move[g].dst /\ move[h].src # move[g].src
    BY DEF PlannedRefsKept
  <1>1. TablesOK /\ ClaimsOK /\ TablesType  BY IInvIs DEF TablesOK
  <1>2. move[g].dst \in Machines /\ g \in Movers  BY <1>1, MoveIs
  <1>3. PICK m \in Machines : m = move[g].dst  BY <1>2
  <1>4. \A k \in move[g].plan : k \in Bound(m) => rows[m][k].agent = g
    BY <1>3 DEF RefsOwned
  <1> DEFINE Kept == \A k \in move[g].plan \cap DOMAIN rows'[m] : rows'[m][k].agent = g
  <1>5. SUFFICES Kept \/ \E h \in Movers :
                            /\ move[h].r = "activating" /\ move'[h].r = "activated"
                            /\ move[h].dst = m /\ move[h].src # move[g].src
    BY <1>3
  <1>6. Writes \/ (rows' = rows /\ history' = history)  BY NextIInv
  <1>7. CASE rows'[m] = rows[m]  BY <1>4, <1>7 DEF Bound
  <1>8. CASE \E x \in Machines, q \in Requests, now \in Times : RegisterSession(x, q, now)
    <2>1. PICK x \in Machines, q \in Requests, now \in Times : RegisterSession(x, q, now)
      BY <1>8
    <2>2. TakesOver(x, q) /\ Registered(x, q, now)  BY <1>1, <2>1, RegisterTables
    <2>3. CASE x # m
      <3>1. rows'[m] = rows[m]  BY <2>2, <2>3, OtherMachines DEF Registered
      <3>. QED  BY <1>7, <3>1
    <2>4. CASE x = m
      <3>1. ~Fenced(m, q)  BY <2>1, <2>4 DEF RegisterSession
      <3>2. ReceiverBlocks(m, g)  BY <1>3 DEF ReceiverBlocks
      <3>3. q.agent # g  BY <3>1, <3>2 DEF Fenced
      <3>4. q.key \notin move[g].plan  BY <1>2, <3>1, <3>2, <3>3 DEF Fenced
      <3>5. \A k \in DOMAIN rows'[m] : k # q.key => k \in Bound(m) /\ rows'[m][k] = rows[m][k]
        BY <2>2, <2>4 DEF Registered
      <3>. QED  BY <1>4, <3>4, <3>5
    <2>. QED  BY <2>3, <2>4
  <1>9. CASE \E x \in Machines, now \in Times : \E y, runner : Ended(x, y, now, runner)
    <2>1. PICK x \in Machines, now \in Times : \E y, runner : Ended(x, y, now, runner)
      BY <1>9
    <2>2. PICK y, runner : Ended(x, y, now, runner)  BY <2>1
    <2>3. CASE x # m
      <3>1. rows'[m] = rows[m]  BY <2>2, <2>3, OtherMachines DEF Ended
      <3>. QED  BY <1>7, <3>1
    <2>4. CASE x = m
      <3>1. y \in Bound(m) /\ rows[m][y] \in RowSet
        BY <1>1, <2>2, <2>4, BoundRow DEF Ended
      <3>2. rows'[m][y].agent = rows[m][y].agent  BY <2>2, <2>4, <3>1 DEF Ended, RowSet
      <3>3. \A k \in DOMAIN rows'[m] : k \in Bound(m) /\ rows'[m][k].agent = rows[m][k].agent
        BY <2>2, <2>4, <3>2 DEF Ended
      <3>. QED  BY <1>4, <3>3
    <2>. QED  BY <2>3, <2>4
  <1>10. CASE \E x \in Machines, net \in Nets, now \in Times :
                 \E y \in Bound(x) : SetSessionNetwork(x, y, net, now)
    BY <1>7, <1>10 DEF SetSessionNetwork
  <1>11. CASE \E x \in Machines, cutoff \in Times :
                 \E K \in SUBSET Prunable(x, cutoff) : PruneEnded(x, cutoff, K)
    <2>0. PICK x \in Machines, cutoff \in Times :
             \E K \in SUBSET Prunable(x, cutoff) : PruneEnded(x, cutoff, K)
      BY <1>11
    <2>1. PICK K \in SUBSET Prunable(x, cutoff) : PruneEnded(x, cutoff, K)  BY <2>0
    <2>2. /\ rows' = [rows EXCEPT ![x] = rows'[x]] /\ history' = [history EXCEPT ![x] = history'[x]]
          /\ DOMAIN rows'[x] = Bound(x) \ K
          /\ \A y \in Bound(x) \ K : rows'[x][y] = rows[x][y]
      BY <1>1, <2>1, PruneTables
    <2>3. CASE x # m
      <3>1. rows'[m] = rows[m]  BY <2>2, <2>3, OtherMachines
      <3>. QED  BY <1>7, <3>1
    <2>4. CASE x = m  BY <1>4, <2>2, <2>4
    <2>. QED  BY <2>3, <2>4
  <1>12. CASE \E h \in Movers : ActivateCarrying(h)
    <2>1. PICK h \in Movers : ActivateCarrying(h)  BY <1>12
    <2>2. h \in Agents /\ move[h].r = "activating" /\ move' = [move EXCEPT ![h].r = "activated"]
      BY <2>1, MoverIs DEF ActivateCarrying
    <2>3. move[h].dst \in Machines /\ MovesType /\ StreamsOK
      BY <1>1, <2>2, MoveIs DEF ClaimsOK
    <2>4. move'[h].r = "activated"
      <3>1. MoveStepped(h, move[h].s, "activated")  BY <2>2, <2>3, ReceiverStepped
      <3>. QED  BY <3>1 DEF MoveStepped
    <2>5. h # g  BY <2>4
    <2>6. PICK x \in Machines : x = move[h].dst  BY <2>3
    <2>7. Installs(x, h)  BY <2>1, <2>2, <2>6, ActivateIInv
    <2>8. CASE x # m
      <3>1. rows'[m] = rows[m]  BY <2>7, <2>8, OtherMachines DEF Installs
      <3>. QED  BY <1>7, <3>1
    <2>9. CASE x = m /\ move[h].src # move[g].src  BY <2>2, <2>4, <2>6, <2>9
    <2>10. CASE x = m /\ move[h].src = move[g].src
      <3>1. \A k \in move[g].plan : k \notin Installed(m, h)
        BY <2>2, <2>5, <2>10, PlansApart
      <3>2. /\ DOMAIN rows'[m] = Bound(m) \cup Installed(m, h)
            /\ \A k \in Bound(m) : rows'[m][k] = rows[m][k]
        BY <2>7, <2>10 DEF Installs
      <3>. QED  BY <1>4, <3>1, <3>2
    <2>. QED  BY <2>8, <2>9, <2>10
  <1>. QED  BY <1>6, <1>7, <1>8, <1>9, <1>10, <1>11, <1>12 DEF Writes

\* No step opens a binding that is held elsewhere, or a session at a machine that
\* gave its agent away and was not misled, or takes a reference from under an
\* activation that another source's does not bring.
THEOREM Fences == Spec => FencesHold
  <1>1. IInv /\ [Next]_vars => [HeldStaysClosed /\ FormerHolderFenced /\ PlannedRefsKept]_vars
    BY HeldIsClosed, FormerHolderIsFenced, PlannedRefsAreKept
  <1>. QED  BY <1>1, Invariance, PTL DEF Spec, FencesHold

=============================================================================
