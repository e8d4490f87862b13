---------------------------- MODULE CatalogProofs ----------------------------
(***************************************************************************)
(* Held statuses, running generations and installs of Catalog, for every   *)
(* set of versions and of plans and every bound.                           *)
(***************************************************************************)
EXTENDS Catalog, FiniteSetTheorems, SequenceTheorems, WellFoundedInduction, TLAPS

StatusStates == {"available", "withdrawn", "revoked", "spared", "tombstoned"}
LogRow == [version : Versions, state : StatusStates, key : Nat]
KeyRow == [from : Nat, signedBy : Nat]
ChainRow == [key : Nat, from : Nat]
RegistryRow == [incarnation : Nat, chain : Seq(ChainRow)]
StatusRow == [pos : Nat, epoch : Nat]
PlanRow == [state : {"absent", "pending", "failed", "ready"},
            base : {None} \union Versions, closure : Nat, snapshot : Nat]
GenerationRow ==
    [plan : Plans \union {0}, closure : Versions,
     state : {"approved", "ready", "active", "degraded", "superseded"}]
PCs == {"idle", "keys", "refresh", "cursor", "refetch", "feed", "pins", "fetch",
        "accept", "publish", "resolve", "check"}
JobRow == [pc : PCs, expected : {None} \union RegistryRow, reply : Nat, after : Nat,
           full : BOOLEAN, version : Nat, record : Nat, refreshed : BOOLEAN,
           verified : SUBSET Nat, pick : Nat, pins : {None} \union Versions]

\* The registry's log starts with one record of each version.
ServerInv ==
    /\ log \in Seq(LogRow)
    /\ N <= Len(log)
    /\ \A v \in Versions : log[v].version = v
    /\ keys \in Seq(KeyRow)
    /\ 1 <= Len(keys)
    /\ events \in Nat

(***************************************************************************)
(* What is said of the trust tables, the jobs and the generations is said   *)
(* of their values, so that it can be carried from one log, table or chain  *)
(* to a later one.                                                          *)
(***************************************************************************)
LatestIn(l, v, n) == Max({0} \union {p \in 1..n : l[p].version = v})

\* No record at or below position n is missing.
Covers(l, st, n) ==
    \A v \in Versions :
        LatestIn(l, v, n) > 0 => st[v] # None /\ st[v].pos >= LatestIn(l, v, n)

RestoresIn(l, chain, row) ==
    \/ row.epoch = 0
    \/ /\ row.epoch \in 1..Len(chain)
       /\ chain[row.epoch].key = l[row.pos].key
       /\ chain[row.epoch].from <= row.pos

Table(l, st) ==
    /\ st \in [Versions -> {None} \union StatusRow]
    /\ \A v \in Versions : st[v] # None => st[v].pos \in 1..Len(l)

Restored(l, reg, st) ==
    \A v \in Versions : st[v] # None /\ st[v].epoch # 0 =>
        reg # None /\ RestoresIn(l, reg.chain, st[v])

CursorFit(l, st, cur) ==
    /\ cur \in {None} \union 0..Len(l)
    /\ cur # None => Covers(l, st, cur)

TrustInv ==
    /\ registry \in {None} \union RegistryRow
    /\ Table(log, status)
    /\ Restored(log, registry, status)
    /\ CursorFit(log, status, cursor)

\* What a job read before its last await is still good: the position it asked the
\* feed after is covered, and the record it was served is in the log.
JobFit(r, l, nkeys, st) ==
    /\ r \in JobRow
    /\ r.after <= Len(l) /\ Covers(l, st, r.after)
    /\ r.pc = "feed" => r.reply <= Len(l)
    /\ r.pc \in {"keys", "refresh"} => r.reply <= nkeys
    /\ r.pc \in {"fetch", "accept", "refresh", "publish"} => r.version \in Versions
    /\ r.pc \in {"accept", "refresh", "publish"} => r.record \in 1..Len(l)
    /\ r.pc = "check" => r.pick \in Versions

JobInv ==
    /\ job \in [Jobs -> JobRow]
    /\ \A j \in Jobs : JobFit(job[j], log, Len(keys), status)

\* A plan is prepared only while it is pending.
PlanInv ==
    /\ pins \in {None} \union Versions
    /\ plan \in [Plans -> PlanRow]
    /\ \A p \in Plans : plan[p].state = "ready" => plan[p].closure \in Versions
    /\ \A p \in Plans : job[p].pc # "idle" => plan[p].state = "pending"

\* An install under way, by a card or under a grant, is of a ready plan, and what stood
\* when it was asked for is what the plan was made ready against.
Underway(p) ==
    authorized[p] \/ consent[p].state \in {"awaiting", "once", "always", "deny"}

ConsentInv ==
    /\ consent \in [Plans -> [state : {"none", "awaiting", "once", "always", "deny",
                                       "done", "refused"},
                              stood : {None} \union
                                [pin : {None} \union Versions, closure : Nat, sequence : Nat]]]
    /\ authorized \in [Plans -> BOOLEAN]
    /\ \A p \in Plans : authorized[p] => consent[p].state = "none"
    /\ \A p \in Plans : Underway(p) =>
         /\ plan[p].state = "ready"
         /\ consent[p].stood = [pin |-> plan[p].base, closure |-> plan[p].closure,
                                sequence |-> plan[p].snapshot]

BlockedAt(l, st, v) == st[v] # None /\ l[st[v].pos].state \in Blocking

Alive == {"active", "degraded"}

GenerationsFit(l, st, gens) ==
    /\ gens \in Seq(GenerationRow)
    /\ \A g, h \in 1..Len(gens) : gens[g].state \in Alive /\ gens[h].state \in Alive => g = h
    /\ \A g \in 1..Len(gens) : gens[g].state = "active" => ~BlockedAt(l, st, gens[g].closure)

GenerationInv == GenerationsFit(log, status, generations)

HoldInv == ServerInv /\ TrustInv /\ JobInv
InstallInv == PlanInv /\ ConsentInv
CatalogInv == HoldInv /\ InstallInv /\ GenerationInv

-----------------------------------------------------------------------------
(* Extrema, the latest record, and the chain of keys. *)

LEMMA VersionsAre == N \in Nat /\ 1 <= N /\ Versions = 1..N
<1>1. N \in Nat /\ Versions = 1..N
  BY CatalogAssumption, FS_CardinalityType DEF N
<1>2. QED
  BY <1>1, CatalogAssumption

\* A set of naturals that is not empty has a least element.
LEMMA MinInSet ==
    ASSUME NEW S, S \subseteq Nat, S # {}
    PROVE  Min(S) \in S /\ \A y \in S : Min(S) =< y
<1> DEFINE lt == {p \in Nat \X Nat : p[1] < p[2]}
<1>1. IsWellFoundedOn(lt, Nat)
  BY NatLessThanWellFounded DEF OpToRel
<1>2. PICK x \in S : \A y \in S : ~ (<<y, x>> \in lt)
  <2> HIDE DEF lt
  <2> QED BY <1>1, WFMin
<1>3. ASSUME NEW y \in S PROVE x =< y
  <2>1. <<y, x>> \in Nat \X Nat /\ ~ (y < x)
    BY <1>2
  <2>2. QED
    BY <2>1
<1>4. QED
  BY <1>3 DEF Min

\* A bounded one has a greatest.
LEMMA MaxInSet ==
    ASSUME NEW n \in Nat, NEW S, S \subseteq 0..n, S # {}
    PROVE  Max(S) \in S /\ \A y \in S : Max(S) >= y
<1> DEFINE D == {n - x : x \in S}
<1>1. D \subseteq Nat /\ D # {}
  OBVIOUS
<1>2. Min(D) \in D /\ \A y \in D : Min(D) =< y
  <2> HIDE DEF D
  <2> QED BY <1>1, MinInSet
<1>3. PICK x \in S : Min(D) = n - x
  BY <1>2
<1>4. ASSUME NEW y \in S PROVE x >= y
  <2>1. n - y \in D
    OBVIOUS
  <2>2. n - x =< n - y
    BY <1>2, <1>3, <2>1
  <2>3. QED
    BY <2>2
<1>5. QED
  BY <1>4 DEF Max

LEMMA LatestIs ==
    ASSUME NEW l, NEW v, NEW n \in Nat
    PROVE  /\ LatestIn(l, v, n) \in 0..n
           /\ LatestIn(l, v, n) # 0 => l[LatestIn(l, v, n)].version = v
           /\ \A p \in 1..n : l[p].version = v => p <= LatestIn(l, v, n)
<1> DEFINE S == {0} \union {p \in 1..n : l[p].version = v}
<1>1. S \subseteq 0..n /\ S # {}
  OBVIOUS
<1>2. Max(S) \in S /\ \A y \in S : Max(S) >= y
  <2> HIDE DEF S
  <2> QED BY <1>1, MaxInSet
<1>3. LatestIn(l, v, n) = Max(S)
  BY DEF LatestIn
<1>4. QED
  BY <1>2, <1>3

LEMMA LatestIsIn == \A v, n : Latest(v, n) = LatestIn(log, v, n)
  BY DEF Latest, LatestIn

\* The log only grows.
Grows(l, m) ==
    /\ l \in Seq(LogRow) /\ m \in Seq(LogRow)
    /\ Len(l) <= Len(m)
    /\ \A i \in 1..Len(l) : m[i] = l[i]

LEMMA LatestKept ==
    ASSUME NEW l, NEW m, Grows(l, m), NEW v, NEW n \in 0..Len(l)
    PROVE  LatestIn(m, v, n) = LatestIn(l, v, n)
<1>1. {p \in 1..n : m[p].version = v} = {p \in 1..n : l[p].version = v}
  BY DEF Grows
<1>2. QED
  BY <1>1 DEF LatestIn

\* A served version has a record.
LEMMA LatestServed ==
    ASSUME ServerInv, NEW v \in Versions, NEW n \in N..Len(log)
    PROVE  LatestIn(log, v, n) \in 1..n
<1>1. v \in 1..n /\ n \in Nat
  BY VersionsAre DEF ServerInv
<1>2. QED
  BY <1>1, LatestIs DEF ServerInv

\* A chain of keys is only added to.
Extends(c, d) ==
    /\ d \in Seq(ChainRow)
    /\ Len(c) <= Len(d)
    /\ \A i \in 1..Len(c) : d[i] = c[i]

LEMMA LayLinkExtends ==
    ASSUME ServerInv, NEW c \in Seq(ChainRow), NEW before, NEW held,
           NEW i \in 1..Len(keys), Extends(c, before.chain)
    PROVE  Extends(c, LayLink(before, i, held).chain)
<1> DEFINE d == before.chain
           row == [key |-> i, from |-> keys[i].from]
<1>1. keys[i] \in KeyRow /\ row \in ChainRow
  <2>1. keys[i] \in KeyRow
    BY DEF ServerInv
  <2>2. i \in Nat /\ keys[i].from \in Nat
    BY <2>1 DEF KeyRow, ServerInv
  <2>3. QED
    BY <2>1, <2>2 DEF ChainRow
<1>2. Extends(c, Append(d, row))
  <2>1. d \in Seq(ChainRow) /\ row \in ChainRow /\ Len(c) \in Nat
    BY <1>1 DEF Extends
  <2> HIDE DEF row
  <2>2. /\ Append(d, row) \in Seq(ChainRow)
        /\ Len(Append(d, row)) = Len(d) + 1
        /\ \A x \in 1..Len(d) : Append(d, row)[x] = d[x]
    BY <2>1
  <2>3. QED
    BY <2>1, <2>2 DEF Extends
<1>3. LayLink(before, i, held).chain \in {d, Append(d, row)}
  BY DEF LayLink
<1>4. QED
  BY <1>2, <1>3

\* refresh_registry_keys only adds to the chain.  The recursion has a solution, and
\* what holds of every link follows by the least link of which it would not hold.
LEMMA LinksExtend ==
    ASSUME ServerInv, NEW c \in Seq(ChainRow), NEW k \in 0..Len(keys)
    PROVE  Extends(c, ApplyLinks(c, k).chain)
<1> DEFINE held == {i \in 1..k : Epochs(c, i) # {}}
           first == [chain |-> c, refused |-> FALSE]
           Lay(b, i) == LayLink(b, i, held)
           Laid(f, n) == [i \in 0..n |-> IF i = 0 THEN first ELSE Lay(f[i - 1], i)]
           link == CHOOSE f : f = Laid(f, k)
<1>1. k \in Nat
  BY DEF ServerInv
<1>2. ApplyLinks(c, k) = link[k]
  BY DEF ApplyLinks
<1> HIDE DEF Lay, first
<1>3. \E f : f = Laid(f, k)
  <2> DEFINE bad == {n \in 0..k : ~ \E f : f = Laid(f, n)}
  <2>1. SUFFICES ASSUME bad # {} PROVE FALSE
    BY <1>1
  <2>2. PICK m \in bad : \A y \in bad : m <= y
    <3> HIDE DEF bad
    <3>1. bad \subseteq Nat
      BY <1>1 DEF bad
    <3>2. QED
      BY <2>1, <3>1, MinInSet
  <2>3. m # 0
    <3> DEFINE g == [i \in 0..0 |-> first]
    <3>1. g = Laid(g, 0)
      OBVIOUS
    <3>2. QED
      BY <3>1
  <2>4. m - 1 \in 0..k /\ m - 1 \notin bad /\ m \in Nat
    <3>1. m \in 0..k
      BY <2>2
    <3>2. m \in Nat /\ m - 1 \in 0..k /\ ~(m <= m - 1)
      BY <1>1, <2>3, <3>1
    <3>3. QED
      <4> HIDE DEF bad
      <4> QED BY <2>2, <3>2
  <2>5. PICK g : g = Laid(g, m - 1)
    BY <2>4
  <2> DEFINE h == [i \in 0..m |-> IF i = m THEN Lay(g[m - 1], m) ELSE g[i]]
  <2>6. ASSUME NEW i \in 0..m PROVE h[i] = Laid(h, m)[i]
    <3>1. CASE i = 0
      BY <2>3, <2>4, <2>5, <3>1
    <3>2. CASE i # 0 /\ i = m
      BY <2>4, <3>2
    <3>3. CASE i # 0 /\ i # m
      <4>1. i - 1 \in 0..m - 1 /\ i \in 0..m - 1 /\ i - 1 # m
        BY <2>4, <3>3
      <4>2. g[i] = Lay(g[i - 1], i)
        BY <2>5, <3>3, <4>1
      <4>3. h[i] = g[i] /\ h[i - 1] = g[i - 1]
        BY <2>4, <3>3, <4>1
      <4>4. QED
        BY <3>3, <4>2, <4>3
    <3>4. QED
      BY <3>1, <3>2, <3>3
  <2>7. h = Laid(h, m)
    BY <2>6
  <2>8. QED
    BY <2>7, <2>2
<1>4. link = Laid(link, k)
  BY <1>3
<1> HIDE DEF link
<1>5. \A i \in 0..k : Extends(c, link[i].chain)
  <2> DEFINE bad == {i \in 0..k : ~ Extends(c, link[i].chain)}
  <2>1. SUFFICES ASSUME bad # {} PROVE FALSE
    OBVIOUS
  <2>2. PICK m \in bad : \A y \in bad : m <= y
    <3> HIDE DEF bad
    <3>1. bad \subseteq Nat
      BY <1>1 DEF bad
    <3>2. QED
      BY <2>1, <3>1, MinInSet
  <2>3. link[0] = first /\ Extends(c, first.chain)
    BY <1>1, <1>4 DEF first, Extends
  <2>4. m # 0
    BY <2>2, <2>3
  <2>5. m - 1 \in 0..k /\ m - 1 \notin bad /\ m \in 1..Len(keys) /\ m \in 0..k
    BY <1>1, <2>2, <2>4 DEF ServerInv
  <2>6. Extends(c, link[m - 1].chain)
    BY <2>5
  <2>7. link[m] = Lay(link[m - 1], m)
    BY <1>4, <2>4, <2>5
  <2>8. Extends(c, link[m].chain)
    BY <2>5, <2>6, <2>7, LayLinkExtends DEF Lay
  <2>9. QED
    BY <2>2, <2>8
<1>6. QED
  BY <1>1, <1>2, <1>5

-----------------------------------------------------------------------------
(* Tables that advance. *)

\* The body of StatusOnlyAdvances.
Advances(l, m, st, tt) ==
    \A v \in Versions : st[v] # None =>
        /\ tt[v] # None
        /\ tt[v].pos >= st[v].pos
        /\ l[st[v].pos].state = "revoked" =>
             m[tt[v].pos].state \in {"revoked", "spared", "tombstoned"}
        /\ tt[v].epoch = 0 => st[v].epoch = 0

LEMMA CoversKept ==
    ASSUME NEW l, NEW m, NEW st, NEW tt, Grows(l, m), Table(l, st), Table(m, tt),
           Advances(l, m, st, tt), NEW n \in 0..Len(l), Covers(l, st, n)
    PROVE  Covers(m, tt, n)
<1>1. SUFFICES ASSUME NEW v \in Versions, LatestIn(m, v, n) > 0
               PROVE  tt[v] # None /\ tt[v].pos >= LatestIn(m, v, n)
  BY DEF Covers
<1>2. LatestIn(m, v, n) = LatestIn(l, v, n)
  BY LatestKept
<1>3. st[v] # None /\ st[v].pos >= LatestIn(l, v, n)
  BY <1>1, <1>2 DEF Covers
<1>4. tt[v] # None /\ tt[v].pos >= st[v].pos
  BY <1>3 DEF Advances
<1>5. st[v].pos \in Nat /\ tt[v].pos \in Nat
  BY <1>3, <1>4 DEF Table, Grows
<1>6. LatestIn(l, v, n) \in Nat
  BY LatestIs DEF Grows
<1>7. QED
  BY <1>2, <1>3, <1>4, <1>5, <1>6

LEMMA JobKept ==
    ASSUME NEW l, NEW m, NEW st, NEW tt, Grows(l, m), Table(l, st), Table(m, tt),
           Advances(l, m, st, tt), NEW n \in Nat, NEW k \in Nat, n <= k,
           NEW r, JobFit(r, l, n, st)
    PROVE  JobFit(r, m, k, tt)
<1>1. r.after \in 0..Len(l) /\ r.reply \in Nat /\ r \in JobRow
  BY DEF JobFit, JobRow, Grows
<1>2. Covers(m, tt, r.after)
  BY <1>1, CoversKept DEF JobFit
<1>3. Len(l) \in Nat /\ Len(m) \in Nat /\ Len(l) <= Len(m)
  BY DEF Grows
<1>4. QED
  BY <1>1, <1>2, <1>3 DEF JobFit

\* A log that grew, with the same table.
LEMMA GrownTrust ==
    ASSUME NEW l, NEW m, Grows(l, m), NEW st, Table(l, st)
    PROVE  /\ Table(m, st)
           /\ Advances(l, m, st, st)
           /\ \A reg : Restored(l, reg, st) => Restored(m, reg, st)
           /\ \A cur : CursorFit(l, st, cur) => CursorFit(m, st, cur)
           /\ \A gens : GenerationsFit(l, st, gens) => GenerationsFit(m, st, gens)
<1>1. \A v \in Versions : st[v] # None => st[v].pos \in 1..Len(l) /\ st[v].pos \in 1..Len(m)
                                          /\ m[st[v].pos] = l[st[v].pos]
  BY DEF Table, Grows
<1>2. Table(m, st)
  BY <1>1 DEF Table
<1>3. Advances(l, m, st, st)
  BY <1>1 DEF Advances
<1>4. ASSUME NEW reg, Restored(l, reg, st) PROVE Restored(m, reg, st)
  BY <1>1, <1>4 DEF Restored, RestoresIn
<1>5. ASSUME NEW cur, CursorFit(l, st, cur) PROVE CursorFit(m, st, cur)
  <2>1. CASE cur = None
    BY <2>1 DEF CursorFit
  <2>2. CASE cur # None
    <3>1. cur \in 0..Len(l) /\ Covers(l, st, cur)
      BY <1>5, <2>2 DEF CursorFit
    <3>2. Covers(m, st, cur)
      BY <1>2, <1>3, <3>1, CoversKept
    <3>3. QED
      BY <3>1, <3>2 DEF CursorFit, Grows
  <2>3. QED
    BY <2>1, <2>2
<1>6. ASSUME NEW gens, GenerationsFit(l, st, gens) PROVE GenerationsFit(m, st, gens)
  <2>1. ASSUME NEW g \in 1..Len(gens), gens[g].state = "active"
        PROVE  ~BlockedAt(m, st, gens[g].closure)
    <3>1. gens[g] \in GenerationRow /\ ~BlockedAt(l, st, gens[g].closure)
      BY <1>6, <2>1 DEF GenerationsFit
    <3>2. gens[g].closure \in Versions
      BY <3>1 DEF GenerationRow
    <3>3. QED
      BY <1>1, <3>1, <3>2 DEF BlockedAt
  <2>2. QED
    BY <1>6, <2>1 DEF GenerationsFit
<1>7. QED
  BY <1>2, <1>3, <1>4, <1>5, <1>6

\* A record that is taken is at least as new as the row it replaces, and its key is
\* in the chain.
LEMMA TakenAdvances ==
    ASSUME ServerInv, NEW chain \in Seq(ChainRow), NEW row \in {None} \union StatusRow,
           row # None => row.pos \in 1..Len(log) /\ RestoresIn(log, chain, row),
           NEW p \in 1..Len(log), Verdict(chain, row, p) \in Taken,
           NEW r, r = AcceptedRow(chain, row, p)
    PROVE  /\ r \in StatusRow /\ r # None
           /\ r.pos = p /\ r.epoch # 0
           /\ RestoresIn(log, chain, r)
           /\ row # None =>
                /\ p >= row.pos
                /\ log[row.pos].state = "revoked" =>
                     log[p].state \in {"revoked", "spared", "tombstoned"}
<1> DEFINE key == log[p].key
           e == Min(Epochs(chain, key))
<1>1. Epochs(chain, key) # {} /\ ValidAt(chain, e, p) /\ Compare(row, e, p) \in Taken
  BY DEF Verdict, Taken
<1>2. Epochs(chain, key) \subseteq Nat
  BY DEF Epochs
<1>3. e \in Epochs(chain, key)
  BY <1>1, <1>2, MinInSet
<1>4. /\ e \in 1..Len(chain) /\ e # 0 /\ e \in Nat
      /\ chain[e].key = key
      /\ chain[e].from <= p
      /\ p \in Nat
  BY <1>1, <1>3 DEF Epochs, ValidAt, ServerInv
<1>5. Verdict(chain, row, p) = Compare(row, e, p)
  BY <1>1 DEF Verdict
<1> HIDE DEF e, key
<1>6. row # None =>
        /\ p >= row.pos
        /\ log[row.pos].state = "revoked" =>
             log[p].state \in {"revoked", "spared", "tombstoned"}
  <2>1. SUFFICES ASSUME row # None
                 PROVE  /\ p >= row.pos
                        /\ log[row.pos].state = "revoked" =>
                             log[p].state \in {"revoked", "spared", "tombstoned"}
    OBVIOUS
  <2>2. ~Lower(row, p) /\ (p = row.pos \/ Permits(log[row.pos].state, log[p].state))
    BY <1>1, <2>1 DEF Compare, Taken
  <2>3. row.pos \in Nat /\ p \in Nat
    BY <2>1 DEF ServerInv
  <2>4. p >= row.pos
    BY <2>2, <2>3 DEF Lower
  <2>5. ASSUME log[row.pos].state = "revoked"
        PROVE  log[p].state \in {"revoked", "spared", "tombstoned"}
    <3>1. CASE p = row.pos
      BY <2>5, <3>1
    <3>2. CASE Permits("revoked", log[p].state)
      BY <3>2 DEF Permits
    <3>3. QED
      BY <2>2, <2>5, <3>1, <3>2
  <2>6. QED
    BY <2>4, <2>5
<1>7. CASE Compare(row, e, p) = "duplicate"
  <2>1. row # None /\ p = row.pos /\ row.epoch # 0
    BY <1>7 DEF Compare
  <2>2. r = row
    BY <1>5, <1>7 DEF AcceptedRow
  <2>3. QED
    BY <1>6, <2>1, <2>2
<1>8. CASE Compare(row, e, p) # "duplicate"
  <2>1. r = [pos |-> p, epoch |-> e]
    BY <1>5, <1>8 DEF AcceptedRow, e, key
  <2>2. r \in StatusRow /\ r.pos = p /\ r.epoch = e
    BY <1>4, <2>1 DEF StatusRow
  <2>3. r # None
    BY <2>2, CatalogNone DEF StatusRow
  <2>4. RestoresIn(log, chain, r)
    BY <1>4, <2>2 DEF RestoresIn, key
  <2>5. QED
    BY <1>4, <1>6, <2>2, <2>3, <2>4
<1>9. QED
  BY <1>7, <1>8

\* A table whose rows were kept or taken from the log.
LEMMA TakenTable ==
    ASSUME ServerInv, TrustInv, registry # None, NEW table,
           table = [v \in Versions |-> table[v]],
           \A v \in Versions :
             \/ table[v] = status[v]
             \/ \E p \in 1..Len(log) :
                  /\ Verdict(registry.chain, status[v], p) \in Taken
                  /\ table[v] = AcceptedRow(registry.chain, status[v], p)
    PROVE  /\ Table(log, table)
           /\ Restored(log, registry, table)
           /\ Advances(log, log, status, table)
<1>1. registry.chain \in Seq(ChainRow)
  BY DEF TrustInv, RegistryRow
<1>2. ASSUME NEW v \in Versions
      PROVE  /\ table[v] \in {None} \union StatusRow
             /\ table[v] # None => table[v].pos \in 1..Len(log)
             /\ table[v] # None /\ table[v].epoch # 0 => RestoresIn(log, registry.chain, table[v])
             /\ status[v] # None =>
                  /\ table[v] # None
                  /\ table[v].pos >= status[v].pos
                  /\ log[status[v].pos].state = "revoked" =>
                       log[table[v].pos].state \in {"revoked", "spared", "tombstoned"}
                  /\ table[v].epoch = 0 => status[v].epoch = 0
  <2>1. /\ status[v] \in {None} \union StatusRow
        /\ status[v] # None => status[v].pos \in 1..Len(log)
                               /\ RestoresIn(log, registry.chain, status[v])
    BY DEF TrustInv, Table, Restored, RestoresIn
  <2>2. CASE table[v] = status[v]
    BY <2>1, <2>2 DEF ServerInv
  <2>3. CASE \E p \in 1..Len(log) :
               /\ Verdict(registry.chain, status[v], p) \in Taken
               /\ table[v] = AcceptedRow(registry.chain, status[v], p)
    <3>1. PICK p \in 1..Len(log) :
            /\ Verdict(registry.chain, status[v], p) \in Taken
            /\ table[v] = AcceptedRow(registry.chain, status[v], p)
      BY <2>3
    <3>2. /\ table[v] \in StatusRow /\ table[v] # None
          /\ table[v].pos = p /\ table[v].epoch # 0
          /\ RestoresIn(log, registry.chain, table[v])
          /\ status[v] # None =>
               /\ p >= status[v].pos
               /\ log[status[v].pos].state = "revoked" =>
                    log[p].state \in {"revoked", "spared", "tombstoned"}
      <4> DEFINE chain == registry.chain
                 row == status[v]
                 new == table[v]
      <4>1. /\ chain \in Seq(ChainRow) /\ row \in {None} \union StatusRow
            /\ row # None => row.pos \in 1..Len(log) /\ RestoresIn(log, chain, row)
            /\ Verdict(chain, row, p) \in Taken /\ new = AcceptedRow(chain, row, p)
        BY <1>1, <2>1, <3>1
      <4> HIDE DEF chain, row, new
      <4>2. /\ new \in StatusRow /\ new # None
            /\ new.pos = p /\ new.epoch # 0
            /\ RestoresIn(log, chain, new)
            /\ row # None =>
                 /\ p >= row.pos
                 /\ log[row.pos].state = "revoked" =>
                      log[p].state \in {"revoked", "spared", "tombstoned"}
        BY <4>1, TakenAdvances
      <4>3. QED
        BY <4>2 DEF chain, row, new
    <3>3. QED
      BY <3>2
  <2>4. QED
    BY <2>2, <2>3
<1>3. Table(log, table)
  BY <1>2 DEF Table
<1>4. Restored(log, registry, table)
  BY <1>2 DEF Restored
<1>5. Advances(log, log, status, table)
  BY <1>2 DEF Advances
<1>6. QED
  BY <1>3, <1>4, <1>5

LEMMA SeqOfFcn ==
    ASSUME NEW S, NEW n \in Nat, NEW f \in [1..n -> S]
    PROVE  f \in Seq(S) /\ Len(f) = n
<1>1. f \in Seq(S)
  BY SeqDef
<1>2. Len(f) \in Nat /\ DOMAIN f = 1..Len(f) /\ DOMAIN f = 1..n
  BY <1>1, LenProperties
<1>3. QED
  BY <1>1, <1>2

\* apply_status_effects: what a new table blocks no longer runs.
LEMMA EffectsFit ==
    ASSUME GenerationInv, NEW table
    PROVE  GenerationsFit(log, table, StatusEffects(table))
<1> DEFINE after == StatusEffects(table)
           n == Len(generations)
<1>1. generations \in Seq(GenerationRow) /\ n \in Nat /\ DOMAIN generations = 1..n
  BY DEF GenerationInv, GenerationsFit
<1>2. ASSUME NEW g \in 1..n
      PROVE  /\ generations[g] \in GenerationRow
             /\ after[g] \in GenerationRow
             /\ after[g].closure = generations[g].closure
             /\ after[g].state \in Alive <=> generations[g].state \in Alive
             /\ after[g].state = "active" => ~BlockedAt(log, table, after[g].closure)
  <2>1. generations[g] \in GenerationRow
    BY <1>1
  <2>2. after[g] = IF /\ generations[g].state \in Alive
                      /\ BlockedAt(log, table, generations[g].closure)
                   THEN [generations[g] EXCEPT !.state = "degraded"] ELSE generations[g]
    BY <1>1 DEF StatusEffects, Alive, BlockedIn, BlockedAt, HeldState
  <2>3. QED
    BY <2>1, <2>2 DEF GenerationRow, Alive
<1>3. after \in [1..n -> GenerationRow]
  BY <1>1, <1>2 DEF StatusEffects
<1>4. after \in Seq(GenerationRow) /\ Len(after) = n
  <2> HIDE DEF after, n
  <2> QED BY <1>1, <1>3, SeqOfFcn
<1>5. \A g, h \in 1..n : after[g].state \in Alive /\ after[h].state \in Alive => g = h
  BY <1>2 DEF GenerationInv, GenerationsFit
<1>6. QED
  BY <1>2, <1>4, <1>5 DEF GenerationsFit

-----------------------------------------------------------------------------
(* Jobs. *)

LEMMA CoversNothing == \A l, st : Covers(l, st, 0)
  BY LatestIs DEF Covers

LEMMA IdleFits ==
    ASSUME ServerInv, NEW st
    PROVE  Idle \in JobRow /\ JobFit(Idle, log, Len(keys), st)
<1>1. Idle \in JobRow
  BY DEF Idle, JobRow, PCs
<1>2. QED
  BY <1>1, CoversNothing DEF Idle, JobFit, ServerInv

\* A job moves on while the log stays and the table advances.
LEMMA JobStep ==
    ASSUME ServerInv, JobInv, UNCHANGED <<log, keys>>,
           Table(log, status), Table(log, status'), Advances(log, log, status, status'),
           NEW j \in Jobs, NEW r, job' = [job EXCEPT ![j] = r],
           JobFit(r, log, Len(keys), status)
    PROVE  JobInv'
<1>1. Grows(log, log) /\ Len(keys) \in Nat
  BY DEF Grows, ServerInv
<1>2. \A x \in Jobs : JobFit(job'[x], log, Len(keys), status)
  BY DEF JobInv
<1>3. \A x \in Jobs : JobFit(job'[x], log, Len(keys), status')
  BY <1>1, <1>2, JobKept
<1>4. job' \in [Jobs -> JobRow]
  BY DEF JobInv, JobFit
<1>5. QED
  BY <1>3, <1>4 DEF JobInv

\* The job of a plan goes on, or is over.
LEMMA JobGoesOn ==
    ASSUME InstallInv, job \in [Jobs -> JobRow], NEW j \in Jobs, NEW r,
           job' = [job EXCEPT ![j] = r], job[j].pc # "idle" \/ r.pc = "idle",
           UNCHANGED <<pins, plan, consent, authorized>>
    PROVE  InstallInv'
<1>1. ASSUME NEW p \in Plans, job'[p].pc # "idle" PROVE plan[p].state = "pending"
  <2>1. p \in Jobs
    BY DEF Jobs
  <2>2. job[p].pc # "idle"
    BY <1>1, <2>1
  <2>3. QED
    BY <2>2 DEF InstallInv, PlanInv
<1>2. PlanInv'
  BY <1>1 DEF InstallInv, PlanInv
<1>3. ConsentInv'
  BY DEF InstallInv, ConsentInv, Underway
<1>4. QED
  BY <1>2, <1>3 DEF InstallInv

LEMMA JobEnds ==
    ASSUME InstallInv, job \in [Jobs -> JobRow], NEW j \in Jobs, job[j].pc # "idle",
           EndJob(j), FailPlan(j), UNCHANGED <<pins, consent, authorized>>
    PROVE  InstallInv'
<1>1. CASE j = Poll
  <2>1. job' = [job EXCEPT ![j] = Idle] /\ plan' = plan /\ Idle.pc = "idle"
    BY <1>1 DEF EndJob, FailPlan, Idle
  <2>2. QED
    BY <2>1, JobGoesOn
<1>2. CASE j # Poll
  <2>1. j \in Plans /\ plan' = [plan EXCEPT ![j].state = "failed"]
    BY <1>2 DEF FailPlan, Jobs
  <2>2. plan[j].state = "pending" /\ plan[j] \in PlanRow
    BY <2>1 DEF InstallInv, PlanInv
  <2>3. /\ plan' \in [Plans -> PlanRow]
        /\ plan'[j].state = "failed"
        /\ \A p \in Plans \ {j} : plan'[p] = plan[p]
    BY <2>1, <2>2 DEF InstallInv, PlanInv, PlanRow
  <2>4. job'[j].pc = "idle" /\ \A p \in Plans \ {j} : job'[p] = job[p]
    BY DEF EndJob, Idle, Jobs
  <2>5. PlanInv'
    BY <2>1, <2>3, <2>4 DEF InstallInv, PlanInv
  <2>6. ~Underway(j)
    BY <2>1, <2>2 DEF InstallInv, ConsentInv
  <2>7. ConsentInv'
    BY <2>3, <2>6 DEF InstallInv, ConsentInv, Underway
  <2>8. QED
    BY <2>5, <2>7 DEF InstallInv
<1>3. QED
  BY <1>1, <1>2

\* A step that touches neither the server nor the trust tables.
TrustSame == UNCHANGED <<log, keys, firstParty, registry, status, cursor>> /\ events' \in Nat

LEMMA SameAdvances ==
    ASSUME ServerInv, TrustInv
    PROVE  Grows(log, log) /\ Advances(log, log, status, status)
<1>1. Grows(log, log)
  BY DEF Grows, ServerInv
<1>2. QED
  BY <1>1, GrownTrust DEF TrustInv

LEMMA HoldSame ==
    ASSUME HoldInv, TrustSame, NEW j \in Jobs, NEW r, job' = [job EXCEPT ![j] = r],
           JobFit(r, log, Len(keys), status)
    PROVE  HoldInv'
<1>1. JobInv'
  BY SameAdvances, JobStep DEF HoldInv, TrustSame, TrustInv
<1>2. QED
  BY <1>1 DEF HoldInv, TrustSame, ServerInv, TrustInv

LEMMA HoldIdle ==
    ASSUME HoldInv, TrustSame, job' = job
    PROVE  HoldInv'
  BY DEF HoldInv, TrustSame, ServerInv, TrustInv, JobInv

LEMMA GenerationSame ==
    ASSUME GenerationInv, UNCHANGED <<log, status, generations>>
    PROVE  GenerationInv'
  BY DEF GenerationInv

\* A job that ends, and one whose plan fails with it.
LEMMA EndSafe ==
    ASSUME CatalogInv, TrustSame, NEW j \in Jobs, job[j].pc # "idle", EndJob(j), FailPlan(j),
           UNCHANGED <<pins, consent, authorized, generations>>
    PROVE  CatalogInv'
<1>1. JobFit(Idle, log, Len(keys), status)
  BY IdleFits DEF CatalogInv, HoldInv
<1>2. HoldInv'
  BY <1>1, HoldSame DEF CatalogInv, EndJob
<1>3. InstallInv'
  BY JobEnds DEF CatalogInv, HoldInv, JobInv
<1>4. QED
  BY <1>2, <1>3, GenerationSame DEF CatalogInv, TrustSame

LEMMA GoSafe ==
    ASSUME CatalogInv, TrustSame, NEW j \in Jobs, NEW r, job' = [job EXCEPT ![j] = r],
           JobFit(r, log, Len(keys), status),
           job[j].pc # "idle",
           UNCHANGED <<pins, plan, consent, authorized, generations>>
    PROVE  CatalogInv'
<1>1. HoldInv'
  BY HoldSame DEF CatalogInv
<1>2. InstallInv'
  BY JobGoesOn DEF CatalogInv, HoldInv, JobInv
<1>3. QED
  BY <1>1, <1>2, GenerationSame DEF CatalogInv, TrustSame

\* A job leaves a version and takes the next.
NextRow(r, good) ==
    [r EXCEPT !.pc = IF r.version = N THEN "resolve" ELSE "fetch",
              !.version = IF r.version = N THEN 0 ELSE r.version + 1,
              !.reply = 0, !.record = 0, !.refreshed = FALSE,
              !.verified = IF good THEN r.verified \union {r.version} ELSE r.verified]

LEMMA NextRowFits ==
    ASSUME NEW l, NEW k, NEW st, NEW r, JobFit(r, l, k, st), r.version \in Versions,
           NEW good \in BOOLEAN
    PROVE  JobFit(NextRow(r, good), l, k, st)
<1> DEFINE q == NextRow(r, good)
<1>1. r \in JobRow /\ r.version \in 1..N /\ N \in Nat
  BY VersionsAre DEF JobFit
<1>2. /\ q.pc \in {"resolve", "fetch"} /\ q.after = r.after
      /\ q.pc = "fetch" => q.version = r.version + 1 /\ r.version # N
  BY <1>1 DEF NextRow, JobRow
<1>3. q \in JobRow
  <2>1. r.verified \union {r.version} \in SUBSET Nat
    BY <1>1 DEF JobRow
  <2> DEFINE pc1 == IF r.version = N THEN "resolve" ELSE "fetch"
             version1 == IF r.version = N THEN 0 ELSE r.version + 1
             verified1 == IF good THEN r.verified \union {r.version} ELSE r.verified
  <2>2. pc1 \in PCs /\ version1 \in Nat /\ verified1 \in SUBSET Nat
    BY <1>1, <2>1 DEF PCs, JobRow
  <2>3. q = [r EXCEPT !.pc = pc1, !.version = version1, !.reply = 0, !.record = 0,
                      !.refreshed = FALSE, !.verified = verified1]
    BY DEF NextRow
  <2> HIDE DEF pc1, version1, verified1, q
  <2>4. QED
    BY <1>1, <2>2, <2>3 DEF JobRow
<1>4. q.pc = "fetch" => q.version \in Versions
  BY <1>1, <1>2, VersionsAre
<1> HIDE DEF q
<1>5. JobFit(q, l, k, st)
  BY <1>2, <1>3, <1>4 DEF JobFit
<1>6. QED
  BY <1>5 DEF q

LEMMA NextVersionIs ==
    ASSUME NEW j \in Jobs, job \in [Jobs -> JobRow], NEW good, NextVersion(j, good)
    PROVE  job' = [job EXCEPT ![j] = NextRow(job[j], good)]
  BY DEF NextVersion, NextRow

\* The version of a preparation is left out, or kept, and the next is taken.
LEMMA NextVersionSafe ==
    ASSUME CatalogInv, TrustSame, NEW j \in Jobs, NEW good \in BOOLEAN, NextVersion(j, good),
           job[j].pc \in {"refresh", "accept", "publish"},
           UNCHANGED <<pins, plan, consent, authorized, generations>>
    PROVE  CatalogInv'
<1>1. JobFit(job[j], log, Len(keys), status) /\ job \in [Jobs -> JobRow]
  BY DEF CatalogInv, HoldInv, JobInv
<1>2. job[j].version \in Versions
  BY <1>1 DEF JobFit
<1>3. JobFit(NextRow(job[j], good), log, Len(keys), status)
  BY <1>1, <1>2, NextRowFits
<1>4. QED
  BY <1>1, <1>3, NextVersionIs, GoSafe

-----------------------------------------------------------------------------
(* The steps of a poll and of a preparation. *)

\* A job that starts knows the registry as it is.
LEMMA OpenedFits ==
    ASSUME ServerInv, TrustInv, NEW j, NEW agentPins \in {None} \union Versions
    PROVE  /\ JobFit(Opened(j, agentPins), log, Len(keys), status)
           /\ Opened(j, agentPins).pc = "keys"
<1> DEFINE r == Opened(j, agentPins)
<1>1. Idle \in JobRow
  BY IdleFits
<1>2. r \in JobRow /\ r.pc = "keys" /\ r.after = 0 /\ r.reply = Len(keys)
  <2>1. registry \in {None} \union RegistryRow /\ Len(keys) \in Nat /\ "keys" \in PCs
    BY DEF ServerInv, TrustInv, PCs
  <2>2. r = [Idle EXCEPT !.pc = "keys", !.expected = registry, !.reply = Len(keys),
                         !.pins = agentPins]
    BY DEF Opened
  <2>3. r \in JobRow
    BY <1>1, <2>1, <2>2 DEF JobRow
  <2>4. QED
    BY <2>2, <2>3 DEF Idle
<1> HIDE DEF r
<1>3. JobFit(r, log, Len(keys), status)
  BY <1>2, CoversNothing DEF JobFit, ServerInv
<1>4. QED
  BY <1>2, <1>3 DEF r

LEMMA StartPollSafe == CatalogInv /\ StartPoll => CatalogInv'
<1> SUFFICES ASSUME CatalogInv, StartPoll PROVE CatalogInv'
  OBVIOUS
<1> DEFINE r == Opened(Poll, None)
<1>1. job' = [job EXCEPT ![Poll] = r] /\ Poll \in Jobs
  BY DEF StartPoll, Jobs
<1>2. TrustSame
  BY DEF StartPoll, TrustSame, server, trust, CatalogInv, HoldInv, ServerInv
<1>3. JobFit(r, log, Len(keys), status)
  BY OpenedFits DEF CatalogInv, HoldInv
<1> HIDE DEF r
<1>4. HoldInv'
  BY <1>1, <1>2, <1>3, HoldSame DEF CatalogInv
<1>5. InstallInv'
  <2>1. UNCHANGED <<pins, plan, consent, authorized>>
    BY DEF StartPoll, agent
  <2>2. \A p \in Plans : job'[p] = job[p]
    BY <1>1, CatalogAssumption DEF Poll, CatalogInv, HoldInv, JobInv, Jobs
  <2>3. QED
    BY <2>1, <2>2 DEF CatalogInv, InstallInv, PlanInv, ConsentInv, Underway
<1>6. QED
  BY <1>2, <1>4, <1>5, GenerationSame DEF CatalogInv, TrustSame, StartPoll, agent

LEMMA PrepareSafe ==
    ASSUME CatalogInv, NEW p \in Plans, Prepare(p)
    PROVE  CatalogInv'
<1> DEFINE row == IF plan[p].state = "absent"
                  THEN [state |-> "pending", base |-> pins, closure |-> 0, snapshot |-> 0]
                  ELSE plan[p]
           r == Opened(p, pins)
<1>1. /\ p \in Jobs /\ p # Poll
      /\ job[p].pc = "idle"
      /\ plan[p].state \in {"absent", "pending"}
      /\ UNCHANGED <<log, keys, firstParty, registry, status, cursor, pins, consent,
                     generations, authorized>>
  BY CatalogAssumption DEF Prepare, Jobs, Poll, server, trust
<1>2. TrustSame
  BY <1>1 DEF Prepare, Event, TrustSame, CatalogInv, HoldInv, ServerInv
<1>3. row \in PlanRow /\ row.state = "pending"
  BY <1>1 DEF PlanRow, CatalogInv, InstallInv, PlanInv
<1>4. ~Underway(p)
  BY <1>1 DEF CatalogInv, InstallInv, ConsentInv
<1>5. /\ plan \in [Plans -> PlanRow] /\ job \in [Jobs -> JobRow]
      /\ JobFit(job[p], log, Len(keys), status)
  BY <1>1 DEF CatalogInv, InstallInv, PlanInv, HoldInv, JobInv
<1>6. PICK q :
        /\ job' = [job EXCEPT ![p] = q] /\ JobFit(q, log, Len(keys), status)
        /\ \/ plan' = [plan EXCEPT ![p] = [row EXCEPT !.state = "failed"]] /\ q.pc = "idle"
           \/ plan' = [plan EXCEPT ![p] = row]
  <2>1. CASE registry = None
    <3>1. plan' = [plan EXCEPT ![p] = [row EXCEPT !.state = "failed"]] /\ job' = job
      BY <2>1 DEF Prepare
    <3>2. job = [job EXCEPT ![p] = job[p]]
      BY <1>1, <1>5
    <3>3. QED
      BY <1>1, <1>5, <3>1, <3>2
  <2>2. CASE registry # None
    <3>1. plan' = [plan EXCEPT ![p] = row] /\ job' = [job EXCEPT ![p] = r]
      BY <2>2 DEF Prepare
    <3>2. JobFit(r, log, Len(keys), status)
      BY OpenedFits DEF CatalogInv, HoldInv, InstallInv, PlanInv
    <3> HIDE DEF r
    <3>3. QED
      BY <3>1, <3>2
  <2>3. QED
    BY <2>1, <2>2
<1> HIDE DEF row
<1>7. HoldInv'
  BY <1>1, <1>2, <1>6, HoldSame DEF CatalogInv
<1>8. /\ plan' \in [Plans -> PlanRow]
      /\ \A x \in Plans \ {p} : plan'[x] = plan[x] /\ job'[x] = job[x]
      /\ plan'[p].state # "ready"
      /\ job'[p].pc # "idle" => plan'[p].state = "pending"
  <2>1. [row EXCEPT !.state = "failed"] \in PlanRow
    BY <1>3 DEF PlanRow
  <2>2. plan'[p] \in PlanRow /\ plan'[p].state \in {"failed", "pending"}
        /\ (job'[p].pc # "idle" => plan'[p].state = "pending")
    BY <1>1, <1>3, <1>5, <1>6, <2>1 DEF PlanRow
  <2>3. \A x \in Plans \ {p} : plan'[x] = plan[x] /\ job'[x] = job[x]
    BY <1>5, <1>6 DEF Jobs
  <2>4. plan' \in [Plans -> PlanRow]
    BY <1>3, <1>5, <1>6, <2>1
  <2>5. QED
    BY <2>2, <2>3, <2>4
<1>9. PlanInv'
  BY <1>1, <1>8 DEF CatalogInv, InstallInv, PlanInv
<1>10. ConsentInv'
  BY <1>1, <1>4, <1>8 DEF CatalogInv, InstallInv, ConsentInv, Underway
<1>11. QED
  BY <1>1, <1>7, <1>9, <1>10, GenerationSame DEF CatalogInv, InstallInv

\* A registry whose chain grows still restores what it restored.
LEMMA ChainGrown ==
    ASSUME NEW l, NEW st, NEW old \in RegistryRow, NEW new \in RegistryRow,
           Extends(old.chain, new.chain), Restored(l, old, st)
    PROVE  Restored(l, new, st)
<1>1. new # None /\ Len(old.chain) \in Nat /\ Len(new.chain) \in Nat
  BY CatalogNone DEF RegistryRow, ChainRow
<1>2. SUFFICES ASSUME NEW v \in Versions, st[v] # None, st[v].epoch # 0
               PROVE  RestoresIn(l, new.chain, st[v])
  BY <1>1 DEF Restored
<1>3. RestoresIn(l, old.chain, st[v])
  BY <1>2 DEF Restored
<1>4. QED
  BY <1>1, <1>2, <1>3 DEF RestoresIn, Extends

\* The registry changed, and nothing else but a job.
LEMMA RegistryStep ==
    ASSUME HoldInv, UNCHANGED <<log, keys, status>>, events' \in Nat,
           registry' \in {None} \union RegistryRow, Restored(log, registry', status),
           cursor' \in {cursor, None},
           NEW j \in Jobs, NEW r, job' = [job EXCEPT ![j] = r],
           JobFit(r, log, Len(keys), status)
    PROVE  HoldInv'
<1>1. ServerInv'
  BY DEF HoldInv, ServerInv
<1>2. TrustInv'
  BY DEF HoldInv, TrustInv, CursorFit
<1>3. JobInv'
  BY SameAdvances, JobStep DEF HoldInv, TrustInv
<1>4. QED
  BY <1>1, <1>2, <1>3 DEF HoldInv

LEMMA ApplyKeysSafe ==
    ASSUME CatalogInv, NEW j \in Jobs, ApplyKeys(j)
    PROVE  CatalogInv'
<1> DEFINE same == SameRegistry(job[j].expected)
           links == ApplyLinks(registry.chain, job[j].reply)
           next == [registry EXCEPT !.chain = links.chain]
<1>1. /\ job[j].pc \in {"keys", "refresh"}
      /\ registry' = IF same THEN next ELSE registry
      /\ UNCHANGED <<log, keys, firstParty, status, cursor, pins, consent, generations,
                     authorized, events>>
  BY DEF ApplyKeys, server
<1>2. /\ job \in [Jobs -> JobRow] /\ JobFit(job[j], log, Len(keys), status)
      /\ job[j] \in JobRow
  BY DEF CatalogInv, HoldInv, JobInv
<1>3. events' \in Nat /\ ServerInv /\ TrustInv
  BY <1>1 DEF CatalogInv, HoldInv, ServerInv
<1>4. same => /\ registry \in RegistryRow /\ next \in RegistryRow
              /\ Restored(log, next, status)
  <2>1. SUFFICES ASSUME same PROVE /\ registry \in RegistryRow /\ next \in RegistryRow
                                   /\ Restored(log, next, status)
    OBVIOUS
  <2>2. registry \in RegistryRow
    BY <1>3, <2>1 DEF TrustInv, SameRegistry
  <2>3. registry.chain \in Seq(ChainRow) /\ job[j].reply \in 0..Len(keys)
    BY <1>1, <1>2, <2>2 DEF RegistryRow, JobFit, JobRow
  <2>4. Extends(registry.chain, links.chain)
    BY <1>3, <2>3, LinksExtend
  <2> HIDE DEF links
  <2>5. next \in RegistryRow /\ next.chain = links.chain
    BY <2>2, <2>4 DEF RegistryRow, Extends
  <2>6. Extends(registry.chain, next.chain)
    BY <2>4, <2>5
  <2> HIDE DEF next
  <2>7. Restored(log, next, status)
    BY <1>3, <2>2, <2>5, <2>6, ChainGrown DEF TrustInv
  <2>8. QED
    BY <2>2, <2>5, <2>7
<1>5. registry' \in {None} \union RegistryRow /\ Restored(log, registry', status)
  BY <1>1, <1>3, <1>4 DEF TrustInv
<1>6. ASSUME NEW r, job' = [job EXCEPT ![j] = r], JobFit(r, log, Len(keys), status), plan' = plan
      PROVE  CatalogInv'
  <2>1. HoldInv'
    BY <1>1, <1>3, <1>5, <1>6, RegistryStep DEF CatalogInv
  <2>2. job[j].pc # "idle"
    BY <1>1
  <2>3. InstallInv'
    BY <1>1, <1>2, <1>6, <2>2, JobGoesOn DEF CatalogInv
  <2>4. QED
    BY <1>1, <2>1, <2>3, GenerationSame DEF CatalogInv
<1>7. CASE same /\ ~links.refused
  <2> DEFINE r == [job[j] EXCEPT !.expected = next, !.reply = 0,
                     !.pc = IF job[j].pc = "keys" THEN "cursor" ELSE "accept"]
  <2>1. job' = [job EXCEPT ![j] = r] /\ plan' = plan
    BY <1>7 DEF ApplyKeys
  <2>2. r \in JobRow
    <3> HIDE DEF next
    <3>1. (IF job[j].pc = "keys" THEN "cursor" ELSE "accept") \in PCs
      BY DEF PCs
    <3>2. QED
      BY <1>2, <1>4, <1>7, <3>1 DEF JobRow
  <2>3. /\ r.pc \in {"cursor", "accept"} /\ (r.pc = "accept" => job[j].pc = "refresh")
        /\ r.after = job[j].after /\ r.version = job[j].version /\ r.record = job[j].record
    BY <1>1, <1>2 DEF JobRow
  <2> HIDE DEF r
  <2>4. JobFit(r, log, Len(keys), status)
    BY <1>2, <2>2, <2>3 DEF JobFit
  <2>5. QED
    BY <1>6, <2>1, <2>4
<1>8. CASE ~(same /\ ~links.refused) /\ job[j].pc = "refresh"
  <2>1. NextVersion(j, FALSE) /\ plan' = plan
    BY <1>8 DEF ApplyKeys
  <2>2. JobFit(NextRow(job[j], FALSE), log, Len(keys), status)
    BY <1>2, <1>8, NextRowFits DEF JobFit
  <2>3. QED
    BY <1>2, <1>6, <2>1, <2>2, NextVersionIs
<1>9. CASE ~(same /\ ~links.refused) /\ job[j].pc # "refresh"
  <2>1. EndJob(j) /\ FailPlan(j)
    BY <1>9 DEF ApplyKeys
  <2>2. job' = [job EXCEPT ![j] = Idle] /\ JobFit(Idle, log, Len(keys), status)
    BY <1>3, <2>1, IdleFits DEF EndJob
  <2>3. HoldInv'
    BY <1>1, <1>3, <1>5, <2>2, RegistryStep DEF CatalogInv
  <2>4. job[j].pc # "idle"
    BY <1>1
  <2>5. InstallInv'
    BY <1>1, <1>2, <2>1, <2>4, JobEnds DEF CatalogInv
  <2>6. QED
    BY <1>1, <2>3, <2>5, GenerationSame DEF CatalogInv
<1>10. QED
  BY <1>7, <1>8, <1>9

LEMMA FetchFeedSafe ==
    ASSUME CatalogInv, NEW j \in Jobs, FetchFeed(j)
    PROVE  CatalogInv'
<1>1. PICK n \in 0..Len(log), old \in BOOLEAN :
        LET full == job[j].pc = "refetch" \/ cursor = None \/ n < cursor \/ old
        IN  job' = [job EXCEPT ![j] =
               [@ EXCEPT !.pc = "feed", !.reply = n, !.full = full,
                         !.after = IF full THEN 0 ELSE cursor]]
  BY DEF FetchFeed
<1> DEFINE full == job[j].pc = "refetch" \/ cursor = None \/ n < cursor \/ old
           after == IF full THEN 0 ELSE cursor
           r == [job[j] EXCEPT !.pc = "feed", !.reply = n, !.full = full, !.after = after]
<1>2. job' = [job EXCEPT ![j] = r]
  BY <1>1
<1>3. /\ job \in [Jobs -> JobRow] /\ job[j] \in JobRow /\ ServerInv /\ TrustInv
  BY DEF CatalogInv, HoldInv, JobInv
<1>4. after \in 0..Len(log) /\ Covers(log, status, after) /\ full \in BOOLEAN
  BY <1>3, CoversNothing DEF TrustInv, CursorFit, ServerInv
<1>5. n \in Nat /\ n <= Len(log) /\ after \in Nat /\ "feed" \in PCs
  BY <1>3, <1>4 DEF ServerInv, PCs
<1> HIDE DEF after, full
<1>6. r \in JobRow /\ r.pc = "feed" /\ r.reply = n /\ r.after = after
  BY <1>3, <1>4, <1>5 DEF JobRow
<1> HIDE DEF r
<1>7. JobFit(r, log, Len(keys), status)
  BY <1>4, <1>5, <1>6 DEF JobFit, ServerInv
<1>8. TrustSame
  BY <1>3 DEF FetchFeed, Fault, Event, TrustSame, server, trust, ServerInv
<1>9. job[j].pc # "idle" /\ UNCHANGED <<pins, plan, consent, authorized, generations>>
  BY DEF FetchFeed, agent
<1>10. QED
  BY <1>2, <1>7, <1>8, <1>9, GoSafe

\* write_statuses: a table that advances, with its effects on the generations.
LEMMA StatusStep ==
    ASSUME HoldInv, GenerationInv, NEW table, Table(log, table),
           Restored(log, registry, table), Advances(log, log, status, table),
           WriteStatuses(table), UNCHANGED <<log, keys, registry>>, events' \in Nat,
           CursorFit(log, table, cursor'),
           NEW j \in Jobs, NEW r, job' = [job EXCEPT ![j] = r],
           JobFit(r, log, Len(keys), status)
    PROVE  HoldInv' /\ GenerationInv'
<1>1. status' = table /\ generations' = StatusEffects(table)
  BY DEF WriteStatuses
<1>2. ServerInv'
  BY DEF HoldInv, ServerInv
<1>3. TrustInv'
  BY <1>1 DEF HoldInv, TrustInv
<1>4. JobInv'
  BY <1>1, JobStep DEF HoldInv, TrustInv
<1>5. GenerationInv'
  BY <1>1, EffectsFit DEF GenerationInv
<1>6. QED
  BY <1>2, <1>3, <1>4, <1>5 DEF HoldInv

\* The cursor may follow a reply of which every record was taken: what the reply left
\* out was covered when the job asked.
LEMMA FeedCovered ==
    ASSUME ServerInv, TrustInv, NEW n \in 0..Len(log), NEW after \in 0..Len(log),
           Covers(log, status, after), NEW table, Table(log, table),
           \A v \in Versions :
             IF LatestIn(log, v, n) > after
             THEN table[v] # None /\ table[v].pos = LatestIn(log, v, n)
             ELSE table[v] = status[v]
    PROVE  Covers(log, table, n)
<1>1. SUFFICES ASSUME NEW v \in Versions, LatestIn(log, v, n) > 0
               PROVE  table[v] # None /\ table[v].pos >= LatestIn(log, v, n)
  BY DEF Covers
<1> DEFINE p == LatestIn(log, v, n)
           q == LatestIn(log, v, after)
<1>2. n \in Nat /\ after \in Nat
  BY DEF ServerInv
<1>3. p \in 1..n /\ log[p].version = v
  BY <1>1, <1>2, LatestIs
<1>4. q \in 0..after /\ \A x \in 1..after : log[x].version = v => x <= q
  BY <1>2, LatestIs
<1>5. CASE p > after
  BY <1>2, <1>3, <1>5
<1>6. CASE ~(p > after)
  <2>1. p \in 1..after
    BY <1>2, <1>3, <1>6
  <2>2. p <= q
    BY <1>3, <1>4, <2>1
  <2>3. q > 0
    BY <1>2, <1>4, <2>1, <2>2
  <2>4. status[v] # None /\ status[v].pos >= q
    BY <2>3 DEF Covers
  <2>5. table[v] = status[v]
    BY <1>6
  <2>6. status[v].pos \in Nat
    BY <2>4 DEF TrustInv, Table, ServerInv
  <2>7. QED
    BY <1>2, <1>3, <1>4, <2>2, <2>4, <2>5, <2>6
<1>7. QED
  BY <1>5, <1>6

LEMMA ApplyFeedSafe ==
    ASSUME CatalogInv, NEW j \in Jobs, ApplyFeed(j)
    PROVE  CatalogInv' /\ Advances(log, log', status, status')
<1> DEFINE c == registry.chain
           n == job[j].reply
           usable == SameRegistry(job[j].expected)
                     /\ \A v \in Versions : status[v] # None => Restores(c, status[v])
           behind == cursor # None /\ n < cursor
           served == {v \in Versions : Latest(v, n) > job[j].after}
           verdict == [v \in served |-> Verdict(c, status[v], Latest(v, n))]
           good == {v \in served : verdict[v] \in Taken}
           back == behind \/ \E v \in served : verdict[v] = "feed_rollback"
           table == [v \in Versions |->
                       IF v \in good THEN AcceptedRow(c, status[v], Latest(v, n)) ELSE status[v]]
           pinsRow == [job[j] EXCEPT !.pc = "pins", !.reply = 0, !.after = 0, !.full = FALSE]
           backRow == [job[j] EXCEPT !.pc = "refetch"]
<1>1. /\ job[j].pc = "feed"
      /\ UNCHANGED <<log, keys, firstParty, registry, pins, consent, authorized, events>>
  BY DEF ApplyFeed, server
<1>2. /\ usable /\ ~behind => WriteStatuses(table) /\ cursor' = NextCursor(served, good, n)
      /\ ~(usable /\ ~behind) => UNCHANGED <<status, generations, cursor>>
  BY DEF ApplyFeed
<1>3. \/ job' = [job EXCEPT ![j] = backRow] /\ plan' = plan
      \/ job' = [job EXCEPT ![j] = pinsRow] /\ plan' = plan
      \/ EndJob(j) /\ FailPlan(j)
  <2>1. CASE usable /\ back /\ ~job[j].full
    BY <2>1 DEF ApplyFeed, Go
  <2>2. CASE ~(usable /\ back /\ ~job[j].full) /\ usable /\ ~behind /\ good = served /\ j # Poll
    BY <2>2 DEF ApplyFeed
  <2>3. CASE /\ ~(usable /\ back /\ ~job[j].full)
             /\ ~(usable /\ ~behind /\ good = served /\ j # Poll)
    BY <2>3 DEF ApplyFeed, FailPlan
  <2>4. QED
    BY <2>1, <2>2, <2>3
<1>4. /\ job \in [Jobs -> JobRow] /\ job[j] \in JobRow
      /\ JobFit(job[j], log, Len(keys), status)
      /\ ServerInv /\ TrustInv /\ HoldInv /\ GenerationInv /\ InstallInv
      /\ events' \in Nat
  BY <1>1 DEF CatalogInv, HoldInv, JobInv, ServerInv
<1>5. /\ n \in 0..Len(log) /\ job[j].after \in 0..Len(log)
      /\ Covers(log, status, job[j].after) /\ n \in Nat
  BY <1>1, <1>4 DEF JobFit, JobRow, ServerInv
<1>6. PICK r : job' = [job EXCEPT ![j] = r] /\ JobFit(r, log, Len(keys), status)
  <2>1. CASE job' = [job EXCEPT ![j] = backRow]
    <3>1. backRow \in JobRow /\ backRow.pc = "refetch" /\ backRow.after = job[j].after
      BY <1>4 DEF JobRow, PCs
    <3> HIDE DEF backRow
    <3>2. JobFit(backRow, log, Len(keys), status)
      BY <1>4, <3>1 DEF JobFit
    <3>3. QED
      BY <2>1, <3>2
  <2>2. CASE job' = [job EXCEPT ![j] = pinsRow]
    <3>1. pinsRow \in JobRow /\ pinsRow.pc = "pins" /\ pinsRow.after = 0
      BY <1>4 DEF JobRow, PCs
    <3> HIDE DEF pinsRow
    <3>2. JobFit(pinsRow, log, Len(keys), status)
      BY <1>4, <3>1, CoversNothing DEF JobFit, ServerInv
    <3>3. QED
      BY <2>2, <3>2
  <2>3. CASE EndJob(j)
    BY <1>4, <2>3, IdleFits DEF EndJob
  <2>4. QED
    BY <1>3, <2>1, <2>2, <2>3
<1>7. InstallInv'
  <2>1. CASE plan' = plan
    <3>1. job[j].pc # "idle"
      BY <1>1
    <3>2. QED
      BY <1>1, <1>4, <1>6, <2>1, <3>1, JobGoesOn
  <2>2. CASE EndJob(j) /\ FailPlan(j)
    <3>1. job[j].pc # "idle"
      BY <1>1
    <3>2. QED
      BY <1>1, <1>4, <2>2, <3>1, JobEnds
  <2>3. QED
    BY <1>3, <2>1, <2>2
<1>8. CASE ~(usable /\ ~behind)
  <2>1. UNCHANGED <<status, generations, cursor>>
    BY <1>2, <1>8
  <2>2. TrustSame
    BY <1>1, <1>4, <2>1 DEF TrustSame
  <2>3. HoldInv'
    BY <1>4, <1>6, <2>2, HoldSame
  <2>4. GenerationInv'
    BY <1>1, <1>4, <2>1, GenerationSame
  <2>5. Advances(log, log', status, status')
    BY <1>1, <1>4, <2>1, SameAdvances
  <2>6. QED
    BY <1>7, <2>3, <2>4, <2>5 DEF CatalogInv
<1>9. CASE usable /\ ~behind
  <2>1. WriteStatuses(table) /\ cursor' = NextCursor(served, good, n) /\ status' = table
    BY <1>2, <1>9 DEF WriteStatuses
  <2>2. registry # None
    BY <1>9 DEF SameRegistry
  <2>3. ASSUME NEW v \in good
        PROVE  /\ Latest(v, n) \in 1..Len(log)
               /\ Verdict(c, status[v], Latest(v, n)) \in Taken
               /\ table[v] = AcceptedRow(c, status[v], Latest(v, n))
    <3>1. v \in Versions /\ Latest(v, n) > job[j].after /\ verdict[v] \in Taken
      OBVIOUS
    <3>2. Latest(v, n) \in 0..n
      BY <1>5, LatestIs, LatestIsIn
    <3>3. QED
      BY <1>4, <1>5, <3>1, <3>2 DEF ServerInv
  <2>4. \A v \in Versions : v \notin good => table[v] = status[v]
    OBVIOUS
  <2>5. table = [v \in Versions |-> table[v]] /\ good \subseteq Versions
    OBVIOUS
  <2>6. /\ Table(log, table) /\ Restored(log, registry, table)
        /\ Advances(log, log, status, table)
    <3> HIDE DEF table, good, served, verdict
    <3> QED BY <1>4, <2>2, <2>3, <2>4, <2>5, TakenTable
  <2>7. ASSUME NEW v \in good PROVE table[v] # None /\ table[v].pos = Latest(v, n)
    <3> DEFINE row == status[v]
               p == Latest(v, n)
               new == table[v]
    <3>1. v \in Versions /\ c \in Seq(ChainRow)
      BY <1>4, <2>2, <2>5 DEF TrustInv, RegistryRow
    <3>2. /\ row \in {None} \union StatusRow
          /\ row # None => row.pos \in 1..Len(log) /\ RestoresIn(log, c, row)
      BY <1>4, <3>1 DEF TrustInv, Table, Restored, RestoresIn
    <3>3. p \in 1..Len(log) /\ Verdict(c, row, p) \in Taken /\ new = AcceptedRow(c, row, p)
      BY <2>3
    <3> HIDE DEF row, p, new, c, table, good
    <3>4. new # None /\ new.pos = p
      BY <1>4, <3>1, <3>2, <3>3, TakenAdvances
    <3>5. QED
      BY <3>4 DEF new, p
  <2>8. CursorFit(log, table, cursor')
    <3>1. CASE good = served
      <4>1. cursor' = n
        BY <2>1, <3>1 DEF NextCursor
      <4>2. ASSUME NEW v \in Versions
            PROVE  IF LatestIn(log, v, n) > job[j].after
                   THEN table[v] # None /\ table[v].pos = LatestIn(log, v, n)
                   ELSE table[v] = status[v]
        <5>1. v \in served <=> LatestIn(log, v, n) > job[j].after
          BY LatestIsIn
        <5>2. Latest(v, n) = LatestIn(log, v, n)
          BY LatestIsIn
        <5> HIDE DEF table, served, good
        <5>3. QED
          BY <2>4, <2>7, <3>1, <5>1, <5>2
      <4> HIDE DEF table
      <4>3. Covers(log, table, n)
        BY <1>4, <1>5, <2>6, <4>2, FeedCovered
      <4>4. QED
        BY <1>5, <4>1, <4>3 DEF CursorFit
    <3>2. CASE good # served
      <4>1. cursor' = cursor
        BY <2>1, <3>2 DEF NextCursor
      <4> HIDE DEF table
      <4>2. cursor # None => Covers(log, table, cursor)
        <5>1. SUFFICES ASSUME cursor # None PROVE Covers(log, table, cursor)
          OBVIOUS
        <5>2. cursor \in 0..Len(log) /\ Covers(log, status, cursor)
          BY <1>4, <5>1 DEF TrustInv, CursorFit
        <5>3. QED
          BY <1>4, <2>6, <5>2, SameAdvances, CoversKept DEF TrustInv
      <4>3. QED
        BY <1>4, <4>1, <4>2 DEF TrustInv, CursorFit
    <3>3. QED
      BY <3>1, <3>2
  <2> HIDE DEF table
  <2>9. HoldInv' /\ GenerationInv'
    BY <1>1, <1>4, <1>6, <2>1, <2>6, <2>8, StatusStep
  <2>10. QED
    BY <1>1, <1>7, <2>1, <2>6, <2>9 DEF CatalogInv
<1>10. QED
  BY <1>8, <1>9

LEMMA CheckPinsSafe ==
    ASSUME CatalogInv, NEW j \in Plans, CheckPins(j)
    PROVE  CatalogInv'
<1>1. /\ j \in Jobs /\ job[j].pc # "idle"
      /\ UNCHANGED <<pins, consent, authorized, generations>>
  BY DEF CheckPins, Jobs
<1>2. TrustSame
  BY DEF CheckPins, TrustSame, server, trust, CatalogInv, HoldInv, ServerInv
<1>3. CASE EndJob(j) /\ FailPlan(j)
  BY <1>1, <1>2, <1>3, EndSafe
<1>4. CASE ~(EndJob(j) /\ FailPlan(j))
  <2> DEFINE r == [job[j] EXCEPT !.pc = "fetch", !.version = 1]
  <2>1. job' = [job EXCEPT ![j] = r] /\ plan' = plan
    BY <1>4 DEF CheckPins
  <2>2. job[j] \in JobRow /\ JobFit(job[j], log, Len(keys), status)
    BY <1>1 DEF CatalogInv, HoldInv, JobInv
  <2>3. r \in JobRow /\ r.pc = "fetch" /\ r.version = 1 /\ r.after = job[j].after
    BY <2>2 DEF JobRow, PCs
  <2>4. 1 \in Versions
    BY VersionsAre
  <2> HIDE DEF r
  <2>5. JobFit(r, log, Len(keys), status)
    BY <2>2, <2>3, <2>4 DEF JobFit
  <2>6. QED
    BY <1>1, <1>2, <2>1, <2>5, GoSafe
<1>5. QED
  BY <1>3, <1>4

\* The record served for a version is in the log.
LEMMA FetchVersionSafe ==
    ASSUME CatalogInv, NEW j \in Plans, FetchVersion(j)
    PROVE  CatalogInv'
<1> DEFINE record == Latest(job[j].version, Len(log))
           r == [job[j] EXCEPT !.pc = "accept", !.record = record]
<1>1. /\ j \in Jobs /\ job[j].pc = "fetch"
      /\ job' = [job EXCEPT ![j] = r]
      /\ UNCHANGED <<pins, plan, consent, authorized, generations>>
  BY DEF FetchVersion, Jobs, agent
<1>2. TrustSame
  BY DEF FetchVersion, TrustSame, server, trust, CatalogInv, HoldInv, ServerInv
<1>3. job[j] \in JobRow /\ JobFit(job[j], log, Len(keys), status) /\ ServerInv
  BY <1>1 DEF CatalogInv, HoldInv, JobInv
<1>4. job[j].version \in Versions /\ Len(log) \in N..Len(log)
  BY <1>1, <1>3, VersionsAre DEF JobFit, ServerInv
<1>5. record \in 1..Len(log) /\ record \in Nat
  BY <1>3, <1>4, LatestServed, LatestIsIn DEF ServerInv
<1> HIDE DEF record
<1>6. /\ r \in JobRow /\ r.pc = "accept" /\ r.record = record
      /\ r.version = job[j].version /\ r.after = job[j].after
  BY <1>3, <1>5 DEF JobRow, PCs
<1> HIDE DEF r
<1>7. JobFit(r, log, Len(keys), status)
  BY <1>3, <1>4, <1>5, <1>6 DEF JobFit
<1>8. job[j].pc # "idle"
  BY <1>1
<1>9. QED
  BY <1>1, <1>2, <1>7, <1>8, GoSafe

LEMMA AcceptVersionSafe ==
    ASSUME CatalogInv, NEW j \in Plans, AcceptVersion(j)
    PROVE  CatalogInv' /\ Advances(log, log', status, status')
<1> DEFINE v == job[j].version
           record == job[j].record
           result == Acceptance(j)
           table == [status EXCEPT ![v] = AcceptedRow(registry.chain, @, record)]
<1>1. /\ j \in Jobs /\ job[j].pc = "accept"
      /\ UNCHANGED <<log, keys, firstParty, registry, cursor, pins, plan, consent, authorized,
                     events>>
  BY DEF AcceptVersion, Jobs, server
<1>2. /\ job \in [Jobs -> JobRow] /\ job[j] \in JobRow
      /\ JobFit(job[j], log, Len(keys), status)
      /\ ServerInv /\ TrustInv /\ HoldInv /\ GenerationInv /\ InstallInv
      /\ events' \in Nat /\ job[j].pc # "idle"
  BY <1>1 DEF CatalogInv, HoldInv, JobInv, ServerInv
<1>3. v \in Versions /\ record \in 1..Len(log)
  BY <1>1, <1>2 DEF JobFit
<1>4. JobFit(NextRow(job[j], FALSE), log, Len(keys), status)
  BY <1>2, <1>3, NextRowFits
<1>5. CASE status' = status /\ generations' = generations
  <2>1. TrustSame
    BY <1>1, <1>2, <1>5 DEF TrustSame
  <2>2. PICK r : job' = [job EXCEPT ![j] = r] /\ JobFit(r, log, Len(keys), status)
    <3> DEFINE again == [job[j] EXCEPT !.pc = "refresh", !.refreshed = TRUE, !.reply = Len(keys)]
               there == [job[j] EXCEPT !.pc = "publish"]
    <3>1. again \in JobRow /\ there \in JobRow
      <4>1. Len(keys) \in Nat /\ {"refresh", "publish"} \subseteq PCs
        BY <1>2 DEF PCs, ServerInv
      <4>2. again \in JobRow
        BY <1>2, <4>1 DEF JobRow
      <4>3. there \in JobRow
        BY <1>2, <4>1 DEF JobRow
      <4>4. QED
        BY <4>2, <4>3
    <3>2. /\ again.pc = "refresh" /\ again.reply = Len(keys) /\ there.pc = "publish"
          /\ again.after = job[j].after /\ there.after = job[j].after
          /\ again.version = v /\ there.version = v
          /\ again.record = record /\ there.record = record
      BY <1>2 DEF JobRow
    <3>3. \/ job' = [job EXCEPT ![j] = again]
          \/ job' = [job EXCEPT ![j] = there]
          \/ NextVersion(j, FALSE)
      BY DEF AcceptVersion, Go
    <3> HIDE DEF again, there
    <3>4. JobFit(again, log, Len(keys), status) /\ JobFit(there, log, Len(keys), status)
      BY <1>2, <1>3, <3>1, <3>2 DEF JobFit, ServerInv
    <3>5. QED
      BY <1>1, <1>2, <1>4, <3>3, <3>4, NextVersionIs
  <2>3. CatalogInv'
    BY <1>1, <1>2, <1>5, <2>1, <2>2, GoSafe
  <2>4. QED
    BY <1>1, <1>2, <1>5, <2>3, SameAdvances
<1>6. CASE ~(status' = status /\ generations' = generations)
  <2>1. /\ result \in Taken /\ WriteStatuses(table)
        /\ NextVersion(j, FALSE) \/ Go(j, "publish")
    BY <1>6 DEF AcceptVersion
  <2>2. /\ registry # None
        /\ Verdict(registry.chain, status[v], record) \in Taken
    BY <2>1 DEF Acceptance, Taken, SameRegistry
  <2>3. /\ table = [x \in Versions |-> table[x]]
        /\ table[v] = AcceptedRow(registry.chain, status[v], record)
        /\ \A x \in Versions \ {v} : table[x] = status[x]
    BY <1>2, <1>3 DEF TrustInv, Table
  <2> HIDE DEF table
  <2>4. /\ Table(log, table) /\ Restored(log, registry, table)
        /\ Advances(log, log, status, table)
    BY <1>2, <1>3, <2>2, <2>3, TakenTable
  <2>5. CursorFit(log, table, cursor')
    <3>1. CASE cursor = None
      BY <1>1, <1>2, <3>1 DEF TrustInv, CursorFit
    <3>2. CASE cursor # None
      <4>1. cursor \in 0..Len(log) /\ Covers(log, status, cursor)
        BY <1>2, <3>2 DEF TrustInv, CursorFit
      <4>2. Covers(log, table, cursor)
        BY <1>2, <2>4, <4>1, SameAdvances, CoversKept DEF TrustInv
      <4>3. QED
        BY <1>1, <4>1, <4>2 DEF CursorFit
    <3>3. QED
      BY <3>1, <3>2
  <2>6. PICK r : job' = [job EXCEPT ![j] = r] /\ JobFit(r, log, Len(keys), status)
    <3> DEFINE there == [job[j] EXCEPT !.pc = "publish"]
    <3>1. /\ there \in JobRow /\ there.pc = "publish" /\ there.after = job[j].after
          /\ there.version = v /\ there.record = record
      BY <1>2 DEF JobRow, PCs
    <3>2. job' = [job EXCEPT ![j] = there] \/ NextVersion(j, FALSE)
      BY <2>1 DEF Go
    <3> HIDE DEF there
    <3>3. JobFit(there, log, Len(keys), status)
      BY <1>2, <1>3, <3>1 DEF JobFit
    <3>4. QED
      BY <1>1, <1>2, <1>4, <3>2, <3>3, NextVersionIs
  <2>7. HoldInv' /\ GenerationInv'
    BY <1>1, <1>2, <2>1, <2>4, <2>5, <2>6, StatusStep
  <2>8. InstallInv'
    BY <1>1, <1>2, <2>6, JobGoesOn
  <2>9. QED
    BY <1>1, <2>1, <2>4, <2>7, <2>8 DEF CatalogInv, WriteStatuses
<1>7. QED
  BY <1>5, <1>6

LEMMA PublishVersionSafe ==
    ASSUME CatalogInv, NEW j \in Plans, PublishVersion(j)
    PROVE  CatalogInv'
<1> DEFINE good == Acceptance(j) \in Taken
<1>1. /\ j \in Jobs /\ job[j].pc \in {"refresh", "accept", "publish"}
      /\ NextVersion(j, good) /\ good \in BOOLEAN
      /\ UNCHANGED <<pins, plan, consent, authorized, generations>>
  BY DEF PublishVersion, Jobs, agent
<1>2. TrustSame
  BY DEF PublishVersion, TrustSame, server, CatalogInv, HoldInv, ServerInv
<1> HIDE DEF good
<1>3. QED
  BY <1>1, <1>2, NextVersionSafe

\* The version picked is one of the range of the plan.
LEMMA ResolveSafe ==
    ASSUME CatalogInv, NEW j \in Plans, Resolve(j)
    PROVE  CatalogInv'
<1> DEFINE eligible == {v \in job[j].verified \intersect SpecOf[j].range :
                          status[v] # None /\ HeldState(status, v) \in {"available", "spared"}}
           r == [Idle EXCEPT !.pc = "check", !.pick = Max(eligible)]
<1>1. /\ j \in Jobs /\ job[j].pc # "idle"
      /\ UNCHANGED <<pins, consent, authorized, generations>>
      /\ \/ EndJob(j) /\ FailPlan(j)
         \/ eligible # {} /\ job' = [job EXCEPT ![j] = r] /\ plan' = plan
  BY DEF Resolve, Jobs
<1>2. TrustSame
  BY DEF Resolve, TrustSame, server, trust, CatalogInv, HoldInv, ServerInv
<1>3. CASE EndJob(j) /\ FailPlan(j)
  BY <1>1, <1>2, <1>3, EndSafe
<1>4. CASE eligible # {} /\ job' = [job EXCEPT ![j] = r] /\ plan' = plan
  <2>1. eligible \subseteq Versions
    BY CatalogAssumption
  <2>2. eligible \subseteq 0..N
    BY <2>1, VersionsAre
  <2> DEFINE pick == Max(eligible)
  <2>3. pick \in eligible
    <3> HIDE DEF eligible
    <3> QED BY <1>4, <2>2, MaxInSet, VersionsAre
  <2>4. pick \in Versions /\ pick \in Nat
    BY <2>1, <2>3, VersionsAre
  <2>5. r = [Idle EXCEPT !.pc = "check", !.pick = pick]
    OBVIOUS
  <2> HIDE DEF pick, r, eligible
  <2>6. ServerInv
    BY DEF CatalogInv, HoldInv
  <2>7. r \in JobRow /\ r.pc = "check" /\ r.pick = pick /\ r.after = 0
    <3>1. Idle \in JobRow
      BY <2>6, IdleFits
    <3>2. r \in JobRow
      BY <2>4, <2>5, <3>1 DEF JobRow, PCs
    <3>3. QED
      BY <2>5, <3>2 DEF Idle
  <2>8. JobFit(r, log, Len(keys), status)
    BY <2>4, <2>6, <2>7, CoversNothing DEF JobFit, ServerInv
  <2>9. QED
    BY <1>1, <1>2, <1>4, <2>8, GoSafe
<1>5. QED
  BY <1>1, <1>3, <1>4

LEMMA SequenceIs ==
    ASSUME TrustInv, ServerInv, NEW v \in Versions
    PROVE  Sequence(v) \in Nat
  BY DEF TrustInv, ServerInv, Table, Sequence

LEMMA FinishPlanSafe ==
    ASSUME CatalogInv, NEW j \in Plans, FinishPlan(j)
    PROVE  CatalogInv'
<1> DEFINE pick == job[j].pick
           ready == [plan[j] EXCEPT !.state = "ready", !.closure = pick,
                                    !.snapshot = Sequence(pick)]
           failed == [plan[j] EXCEPT !.state = "failed"]
<1>1. /\ j \in Jobs /\ job[j].pc = "check" /\ EndJob(j)
      /\ plan' = [plan EXCEPT ![j] = IF live /\ pins = plan[j].base THEN ready ELSE failed]
      /\ UNCHANGED <<pins, consent, authorized, generations>>
  BY DEF FinishPlan, Jobs
<1>2. TrustSame
  BY DEF FinishPlan, TrustSame, server, trust, CatalogInv, HoldInv, ServerInv
<1>3. /\ job \in [Jobs -> JobRow] /\ JobFit(job[j], log, Len(keys), status)
      /\ ServerInv /\ TrustInv /\ plan \in [Plans -> PlanRow] /\ plan[j] \in PlanRow
      /\ plan[j].state = "pending"
  BY <1>1 DEF CatalogInv, HoldInv, JobInv, InstallInv, PlanInv
<1>4. pick \in Versions /\ pick \in Nat
  BY <1>1, <1>3, VersionsAre DEF JobFit
<1>5. Sequence(pick) \in Nat
  BY <1>3, <1>4, SequenceIs
<1>6. /\ ready \in PlanRow /\ ready.closure = pick
      /\ failed \in PlanRow /\ failed.state = "failed"
  <2> HIDE DEF pick
  <2> QED BY <1>3, <1>4, <1>5 DEF PlanRow
<1>7. HoldInv'
  <2>1. JobFit(Idle, log, Len(keys), status)
    BY <1>3, IdleFits
  <2>2. QED
    BY <1>1, <1>2, <2>1, HoldSame DEF CatalogInv, EndJob
<1>8. plan' = [plan EXCEPT ![j] = plan'[j]] /\ plan'[j] \in {ready, failed}
  BY <1>1, <1>3
<1> HIDE DEF ready, failed, pick
<1>9. /\ plan' \in [Plans -> PlanRow]
      /\ plan'[j].state = "ready" => plan'[j].closure \in Versions
      /\ \A p \in Plans \ {j} : plan'[p] = plan[p]
  BY <1>3, <1>4, <1>6, <1>8
<1>10. job'[j].pc = "idle" /\ \A p \in Plans \ {j} : job'[p] = job[p]
  BY <1>1, <1>3 DEF EndJob, Idle, Jobs
<1>11. PlanInv'
  BY <1>1, <1>9, <1>10 DEF CatalogInv, InstallInv, PlanInv
<1>12. ~Underway(j)
  BY <1>3 DEF CatalogInv, InstallInv, ConsentInv
<1>13. ConsentInv'
  BY <1>1, <1>9, <1>12 DEF CatalogInv, InstallInv, ConsentInv, Underway
<1>14. QED
  BY <1>1, <1>2, <1>7, <1>11, <1>13, GenerationSame DEF CatalogInv, InstallInv, TrustSame

LEMMA CallFailsSafe ==
    ASSUME CatalogInv, NEW j \in Jobs, CallFails(j)
    PROVE  CatalogInv'
<1>1. job[j].pc # "idle" /\ UNCHANGED <<pins, consent, authorized, generations>>
  BY DEF CallFails
<1>2. TrustSame
  BY DEF CallFails, Fault, Event, TrustSame, server, trust, CatalogInv, HoldInv, ServerInv
<1>3. CASE job[j].pc \in {"refresh", "accept", "publish"}
  <2>1. NextVersion(j, FALSE) /\ plan' = plan
    BY <1>3 DEF CallFails
  <2>2. QED
    BY <1>1, <1>2, <1>3, <2>1, NextVersionSafe
<1>4. CASE job[j].pc \notin {"refresh", "accept", "publish"}
  <2>1. EndJob(j) /\ FailPlan(j)
    BY <1>4 DEF CallFails
  <2>2. QED
    BY <1>1, <1>2, <2>1, EndSafe
<1>5. QED
  BY <1>3, <1>4

-----------------------------------------------------------------------------
(* Installs. *)

\* The trust tables and the jobs stay, and the generations.
LEMMA InstallStep ==
    ASSUME CatalogInv, TrustSame, job' = job, InstallInv', GenerationInv'
    PROVE  CatalogInv'
  BY HoldIdle DEF CatalogInv

\* The consent of plan p alone changes.
LEMMA ConsentStep ==
    ASSUME CatalogInv, TrustSame, UNCHANGED <<job, plan, generations>>,
           pins' = pins, NEW p \in Plans,
           consent' = [consent EXCEPT ![p] = consent'[p]],
           authorized' = [authorized EXCEPT ![p] = authorized'[p]],
           authorized'[p] \in BOOLEAN,
           consent'[p] \in [state : {"none", "awaiting", "once", "always", "deny",
                                     "done", "refused"},
                            stood : {None} \union
                              [pin : {None} \union Versions, closure : Nat, sequence : Nat]],
           authorized'[p] => consent'[p].state = "none",
           Underway(p)' => /\ plan[p].state = "ready"
                           /\ consent'[p].stood = [pin |-> plan[p].base,
                                                   closure |-> plan[p].closure,
                                                   sequence |-> plan[p].snapshot]
    PROVE  CatalogInv'
<1>1. PlanInv'
  BY DEF CatalogInv, InstallInv, PlanInv
<1>2. /\ consent' \in [Plans -> [state : {"none", "awaiting", "once", "always", "deny",
                                          "done", "refused"},
                                 stood : {None} \union
                                   [pin : {None} \union Versions, closure : Nat, sequence : Nat]]]
      /\ authorized' \in [Plans -> BOOLEAN]
      /\ \A q \in Plans \ {p} : consent'[q] = consent[q] /\ authorized'[q] = authorized[q]
  BY DEF CatalogInv, InstallInv, ConsentInv
<1>3. ConsentInv'
  BY <1>2 DEF CatalogInv, InstallInv, ConsentInv, Underway
<1>4. GenerationInv'
  BY GenerationSame DEF CatalogInv, TrustSame
<1>5. QED
  BY <1>1, <1>3, <1>4, InstallStep DEF InstallInv

\* What stands of an installable plan is what it was made ready against.
LEMMA InstallableStands ==
    ASSUME CatalogInv, NEW p \in Plans, Installable(p)
    PROVE  /\ Standing(p) = [pin |-> plan[p].base, closure |-> plan[p].closure,
                             sequence |-> plan[p].snapshot]
           /\ Standing(p) \in [pin : {None} \union Versions, closure : Nat, sequence : Nat]
           /\ plan[p].state = "ready" /\ plan[p].closure \in Versions
<1>1. Standing(p) = [pin |-> plan[p].base, closure |-> plan[p].closure,
                     sequence |-> plan[p].snapshot]
  BY DEF Installable, Standing
<1>2. plan[p] \in PlanRow
  BY DEF CatalogInv, InstallInv, PlanInv
<1>3. QED
  BY <1>1, <1>2 DEF CatalogInv, InstallInv, PlanInv, PlanRow, Installable

LEMMA StartInstallSafe ==
    ASSUME CatalogInv, NEW p \in Plans, StartInstall(p)
    PROVE  CatalogInv'
<1>1. /\ Installable(p)
      /\ UNCHANGED <<log, keys, firstParty, registry, status, cursor, pins, plan, generations,
                     job, events>>
  BY DEF StartInstall, server, trust
<1>2. TrustSame
  BY <1>1 DEF TrustSame, CatalogInv, HoldInv, ServerInv
<1>3. /\ consent \in [Plans -> [state : {"none", "awaiting", "once", "always", "deny",
                                         "done", "refused"},
                                stood : {None} \union
                                  [pin : {None} \union Versions, closure : Nat, sequence : Nat]]]
      /\ authorized \in [Plans -> BOOLEAN]
  BY DEF CatalogInv, InstallInv, ConsentInv
<1> DEFINE stood == Standing(p)
           covered == Covered(p)
           row == [state |-> IF covered THEN "none" ELSE "awaiting", stood |-> stood]
<1>4. consent' = [consent EXCEPT ![p] = row] /\ authorized' = [authorized EXCEPT ![p] = covered]
  BY DEF StartInstall
<1>5. covered \in BOOLEAN
  BY DEF Covered
<1>6. /\ stood = [pin |-> plan[p].base, closure |-> plan[p].closure,
                  sequence |-> plan[p].snapshot]
      /\ stood \in [pin : {None} \union Versions, closure : Nat, sequence : Nat]
      /\ plan[p].state = "ready"
  BY <1>1, InstallableStands
<1> HIDE DEF stood, covered
<1>7. /\ row \in [state : {"none", "awaiting", "once", "always", "deny", "done", "refused"},
                  stood : {None} \union
                    [pin : {None} \union Versions, closure : Nat, sequence : Nat]]
      /\ row.stood = stood /\ (covered => row.state = "none")
  BY <1>5, <1>6
<1> HIDE DEF row
<1>8. consent'[p] = row /\ authorized'[p] = covered
  BY <1>3, <1>4
<1>9. QED
  BY <1>1, <1>2, <1>4, <1>5, <1>6, <1>7, <1>8, ConsentStep

LEMMA AnswerSafe ==
    ASSUME CatalogInv, NEW p \in Plans, Answer(p)
    PROVE  CatalogInv'
<1>1. /\ consent[p].state = "awaiting"
      /\ UNCHANGED <<log, keys, firstParty, registry, status, cursor, pins, plan, generations,
                     job, authorized, events>>
  BY DEF Answer, server, trust, flight
<1>2. TrustSame
  BY <1>1 DEF TrustSame, CatalogInv, HoldInv, ServerInv
<1>3. /\ consent \in [Plans -> [state : {"none", "awaiting", "once", "always", "deny",
                                         "done", "refused"},
                                stood : {None} \union
                                  [pin : {None} \union Versions, closure : Nat, sequence : Nat]]]
      /\ authorized \in [Plans -> BOOLEAN]
      /\ Underway(p) /\ plan[p].state = "ready" /\ ~authorized[p]
      /\ consent[p].stood = [pin |-> plan[p].base, closure |-> plan[p].closure,
                             sequence |-> plan[p].snapshot]
  BY <1>1 DEF CatalogInv, InstallInv, ConsentInv, Underway
<1>4. PICK choice \in {"once", "always", "deny"} :
        consent' = [consent EXCEPT ![p].state = choice]
  BY DEF Answer, Consent
<1> DEFINE row == [consent[p] EXCEPT !.state = choice]
<1>5. consent' = [consent EXCEPT ![p] = row] /\ consent'[p] = row
  BY <1>3, <1>4
<1>6. /\ row \in [state : {"none", "awaiting", "once", "always", "deny", "done", "refused"},
                  stood : {None} \union
                    [pin : {None} \union Versions, closure : Nat, sequence : Nat]]
      /\ row.stood = consent[p].stood
  <2>1. consent[p] \in [state : {"none", "awaiting", "once", "always", "deny", "done", "refused"},
                        stood : {None} \union
                          [pin : {None} \union Versions, closure : Nat, sequence : Nat]]
    BY <1>3
  <2>2. QED
    BY <2>1
<1> HIDE DEF row
<1>7. authorized' = [authorized EXCEPT ![p] = authorized'[p]] /\ ~authorized'[p]
      /\ authorized'[p] \in BOOLEAN
  BY <1>1, <1>3
<1>8. QED
  BY <1>1, <1>2, <1>3, <1>5, <1>6, <1>7, ConsentStep

\* An install is refused: the request is over, and nothing else changed.
LEMMA RefuseSafe ==
    ASSUME CatalogInv, NEW p \in Plans, RefuseInstall(p), TrustSame, UNCHANGED <<job, plan>>,
           authorized' = [authorized EXCEPT ![p] = FALSE]
    PROVE  CatalogInv'
<1>1. /\ consent \in [Plans -> [state : {"none", "awaiting", "once", "always", "deny",
                                         "done", "refused"},
                                stood : {None} \union
                                  [pin : {None} \union Versions, closure : Nat, sequence : Nat]]]
      /\ authorized \in [Plans -> BOOLEAN]
  BY DEF CatalogInv, InstallInv, ConsentInv
<1> DEFINE row == [consent[p] EXCEPT !.state = "refused"]
<1>2. /\ consent' = [consent EXCEPT ![p] = row] /\ consent'[p] = row
      /\ UNCHANGED <<pins, generations>>
  BY <1>1 DEF RefuseInstall, Consent
<1>3. /\ row \in [state : {"none", "awaiting", "once", "always", "deny", "done", "refused"},
                  stood : {None} \union
                    [pin : {None} \union Versions, closure : Nat, sequence : Nat]]
      /\ row.state = "refused"
  <2>1. consent[p] \in [state : {"none", "awaiting", "once", "always", "deny", "done", "refused"},
                        stood : {None} \union
                          [pin : {None} \union Versions, closure : Nat, sequence : Nat]]
    BY <1>1
  <2>2. QED
    BY <2>1
<1> HIDE DEF row
<1>4. authorized'[p] = FALSE
  BY <1>1
<1>5. ~Underway(p)'
  BY <1>2, <1>3, <1>4 DEF Underway
<1>6. QED
  BY <1>2, <1>3, <1>4, <1>5, ConsentStep

\* An install commits: the pin moves and a generation is made, which does not run yet.
LEMMA CommitSafe ==
    ASSUME CatalogInv, NEW p \in Plans, CommitInstall(p), Installable(p), TrustSame,
           UNCHANGED <<job, plan>>, authorized' = [authorized EXCEPT ![p] = FALSE]
    PROVE  CatalogInv'
<1> DEFINE made == [plan |-> p, closure |-> plan[p].closure, state |-> "approved"]
           row == [consent[p] EXCEPT !.state = "done"]
           rows == [state : {"none", "awaiting", "once", "always", "deny", "done", "refused"},
                    stood : {None} \union
                      [pin : {None} \union Versions, closure : Nat, sequence : Nat]]
<1>1. plan[p].closure \in Versions
  BY InstallableStands
<1>2. consent \in [Plans -> rows] /\ authorized \in [Plans -> BOOLEAN]
  BY DEF CatalogInv, InstallInv, ConsentInv
<1>3. /\ pins' = plan[p].closure /\ generations' = Append(generations, made)
      /\ consent' = [consent EXCEPT ![p] = row]
  BY <1>2 DEF CommitInstall, Consent
<1>4. row \in rows /\ row.state = "done"
  <2>1. consent[p] \in rows
    BY <1>2
  <2>2. QED
    BY <2>1
<1>5. made \in GenerationRow /\ made.state = "approved"
  BY <1>1 DEF GenerationRow
<1> HIDE DEF made, row, rows
<1>6. PlanInv'
  BY <1>1, <1>3 DEF CatalogInv, InstallInv, PlanInv
<1>7. /\ consent' \in [Plans -> rows] /\ consent'[p].state = "done"
      /\ authorized' \in [Plans -> BOOLEAN] /\ ~authorized'[p]
      /\ \A q \in Plans \ {p} : consent'[q] = consent[q] /\ authorized'[q] = authorized[q]
  BY <1>2, <1>3, <1>4
<1>8. ConsentInv'
  BY <1>7 DEF CatalogInv, InstallInv, ConsentInv, Underway, rows
<1>9. GenerationInv'
  <2> DEFINE old == generations
             new == Append(generations, made)
  <2>1. GenerationsFit(log, status, old) /\ old \in Seq(GenerationRow)
    BY DEF CatalogInv, GenerationInv, GenerationsFit
  <2>2. /\ new \in Seq(GenerationRow) /\ Len(new) = Len(old) + 1 /\ Len(old) \in Nat
        /\ new[Len(old) + 1] = made
        /\ \A g \in 1..Len(old) : new[g] = old[g]
    BY <1>5, <2>1
  <2>3. \A g \in 1..Len(new) : new[g].state \in Alive => g \in 1..Len(old) /\ new[g] = old[g]
    BY <1>5, <2>2 DEF Alive
  <2> HIDE DEF new
  <2>4. GenerationsFit(log, status, new)
    BY <2>1, <2>2, <2>3 DEF GenerationsFit, Alive
  <2>5. QED
    BY <1>3, <2>4 DEF GenerationInv, TrustSame, new
<1>10. QED
  BY <1>6, <1>8, <1>9, InstallStep DEF InstallInv

\* The body of InstallsUnchanged.
UnchangedStep ==
    \A p \in Plans :
        /\ consent[p].state = "done" => consent'[p] = consent[p]
        /\ consent[p].state # "done" /\ consent'[p].state = "done" =>
               /\ consent[p].stood = Standing(p)
               /\ consent[p].state \in {"once", "always"} \/ Covered(p)

LEMMA ConsentKept == consent' = consent => UnchangedStep
  BY DEF UnchangedStep

\* A consent that is not done takes another state.
LEMMA ConsentMoves ==
    ASSUME CatalogInv, NEW p \in Plans, consent' = [consent EXCEPT ![p] = consent'[p]],
           consent[p].state # "done",
           consent'[p].state = "done" =>
             /\ consent[p].stood = Standing(p)
             /\ consent[p].state \in {"once", "always"} \/ Covered(p)
    PROVE  UnchangedStep
<1>1. \A q \in Plans \ {p} : consent'[q] = consent[q]
  BY DEF CatalogInv, InstallInv, ConsentInv
<1>2. QED
  BY <1>1 DEF UnchangedStep

LEMMA UnderwayStands ==
    ASSUME CatalogInv, NEW p \in Plans, Underway(p), Installable(p)
    PROVE  consent[p].stood = Standing(p)
  BY InstallableStands DEF CatalogInv, InstallInv, ConsentInv

LEMMA ConsentIs ==
    ASSUME CatalogInv, NEW p \in Plans, NEW state, Consent(p, state)
    PROVE  consent' = [consent EXCEPT ![p] = consent'[p]] /\ consent'[p].state = state
<1>1. consent \in [Plans -> [state : {"none", "awaiting", "once", "always", "deny",
                                      "done", "refused"},
                             stood : {None} \union
                               [pin : {None} \union Versions, closure : Nat, sequence : Nat]]]
  BY DEF CatalogInv, InstallInv, ConsentInv
<1>2. consent[p] \in [state : {"none", "awaiting", "once", "always", "deny", "done", "refused"},
                      stood : {None} \union
                        [pin : {None} \union Versions, closure : Nat, sequence : Nat]]
  BY <1>1
<1>3. QED
  BY <1>1, <1>2 DEF Consent

LEMMA StartInstallUnchanged ==
    ASSUME CatalogInv, NEW p \in Plans, StartInstall(p)
    PROVE  UnchangedStep
<1> DEFINE row == [state |-> IF Covered(p) THEN "none" ELSE "awaiting", stood |-> Standing(p)]
<1>1. consent' = [consent EXCEPT ![p] = row] /\ consent[p].state # "done"
  BY DEF StartInstall
<1>2. row.state # "done"
  OBVIOUS
<1> HIDE DEF row
<1>3. consent'[p] = row
  BY <1>1 DEF CatalogInv, InstallInv, ConsentInv
<1>4. QED
  BY <1>1, <1>2, <1>3, ConsentMoves

LEMMA AnswerUnchanged ==
    ASSUME CatalogInv, NEW p \in Plans, Answer(p)
    PROVE  UnchangedStep
<1>1. PICK choice \in {"once", "always", "deny"} : Consent(p, choice)
  BY DEF Answer
<1>2. consent[p].state # "done"
  BY DEF Answer
<1>3. consent' = [consent EXCEPT ![p] = consent'[p]] /\ consent'[p].state # "done"
  BY <1>1, ConsentIs
<1>4. QED
  BY <1>2, <1>3, ConsentMoves

LEMMA FinishCardSafe ==
    ASSUME CatalogInv, NEW p \in Plans, FinishCard(p)
    PROVE  CatalogInv' /\ UnchangedStep
<1>1. /\ consent[p].state \in {"awaiting", "once", "always", "deny"}
      /\ ~(consent[p].state = "awaiting" /\ Installable(p))
      /\ UNCHANGED <<log, keys, firstParty, registry, status, cursor, plan, job, authorized, events>>
  BY DEF FinishCard, server, trust, flight
<1>2. TrustSame
  BY <1>1 DEF TrustSame, CatalogInv, HoldInv, ServerInv
<1>3. authorized \in [Plans -> BOOLEAN] /\ ~authorized[p]
  BY <1>1 DEF CatalogInv, InstallInv, ConsentInv
<1>4. authorized' = [authorized EXCEPT ![p] = FALSE]
  <2>1. authorized[p] = FALSE
    BY <1>3
  <2>2. QED
    BY <1>1, <1>3, <2>1
<1>5. CASE Installable(p) /\ consent[p].state # "deny"
  <2>1. CommitInstall(p)
    BY <1>5 DEF FinishCard
  <2>2. consent[p].state \in {"once", "always"}
    BY <1>1, <1>5
  <2>3. consent[p].stood = Standing(p)
    BY <1>1, <1>5, UnderwayStands DEF Underway
  <2>4. CatalogInv'
    BY <1>1, <1>2, <1>4, <1>5, <2>1, CommitSafe
  <2>5. consent' = [consent EXCEPT ![p] = consent'[p]]
    BY <2>1, ConsentIs DEF CommitInstall
  <2>6. QED
    BY <1>1, <2>2, <2>3, <2>4, <2>5, ConsentMoves
<1>6. CASE ~(Installable(p) /\ consent[p].state # "deny")
  <2>1. RefuseInstall(p)
    BY <1>6 DEF FinishCard
  <2>2. CatalogInv'
    BY <1>1, <1>2, <1>4, <2>1, RefuseSafe
  <2>3. consent' = [consent EXCEPT ![p] = consent'[p]] /\ consent'[p].state = "refused"
    BY <2>1, ConsentIs DEF RefuseInstall
  <2>4. QED
    BY <1>1, <2>2, <2>3, ConsentMoves
<1>7. QED
  BY <1>5, <1>6

LEMMA FinishGrantedSafe ==
    ASSUME CatalogInv, NEW p \in Plans, FinishGranted(p)
    PROVE  CatalogInv' /\ UnchangedStep
<1>1. /\ authorized[p] /\ authorized' = [authorized EXCEPT ![p] = FALSE]
      /\ UNCHANGED <<log, keys, firstParty, registry, status, cursor, plan, job, events>>
  BY DEF FinishGranted, server, trust
<1>2. TrustSame
  BY <1>1 DEF TrustSame, CatalogInv, HoldInv, ServerInv
<1>3. consent[p].state = "none"
  BY <1>1 DEF CatalogInv, InstallInv, ConsentInv
<1>4. CASE Installable(p) /\ Covered(p)
  <2>1. CommitInstall(p)
    BY <1>4 DEF FinishGranted
  <2>2. consent[p].stood = Standing(p)
    BY <1>1, <1>4, UnderwayStands DEF Underway
  <2>3. CatalogInv'
    BY <1>1, <1>2, <1>4, <2>1, CommitSafe
  <2>4. consent' = [consent EXCEPT ![p] = consent'[p]]
    BY <2>1, ConsentIs DEF CommitInstall
  <2>5. QED
    BY <1>3, <1>4, <2>2, <2>3, <2>4, ConsentMoves
<1>5. CASE ~(Installable(p) /\ Covered(p))
  <2>1. RefuseInstall(p)
    BY <1>5 DEF FinishGranted
  <2>2. CatalogInv'
    BY <1>1, <1>2, <2>1, RefuseSafe
  <2>3. consent' = [consent EXCEPT ![p] = consent'[p]] /\ consent'[p].state = "refused"
    BY <2>1, ConsentIs DEF RefuseInstall
  <2>4. QED
    BY <1>3, <2>2, <2>3, ConsentMoves
<1>6. QED
  BY <1>4, <1>5

-----------------------------------------------------------------------------
(* Generations. *)

LEMMA PrefetchSafe ==
    ASSUME CatalogInv, NEW g \in DOMAIN generations, Prefetch(g)
    PROVE  CatalogInv'
<1> DEFINE row == [generations[g] EXCEPT !.state = "ready"]
           new == [generations EXCEPT ![g] = row]
           n == Len(generations)
<1>1. /\ generations \in Seq(GenerationRow) /\ g \in 1..n /\ n \in Nat
      /\ generations[g] \in GenerationRow
      /\ GenerationsFit(log, status, generations)
  BY DEF CatalogInv, GenerationInv, GenerationsFit
<1>2. /\ generations' = new
      /\ UNCHANGED <<log, keys, firstParty, registry, status, cursor, pins, plan, consent, job,
                     authorized, events>>
  BY <1>1 DEF Prefetch, server, trust, flight
<1>3. row \in GenerationRow /\ row.state = "ready"
  BY <1>1 DEF GenerationRow
<1> HIDE DEF row
<1>4. /\ new \in Seq(GenerationRow) /\ Len(new) = n /\ new[g] = row
      /\ \A h \in 1..n : h # g => new[h] = generations[h]
  BY <1>1, <1>3
<1> HIDE DEF new
<1>5. GenerationsFit(log, status, new)
  BY <1>1, <1>3, <1>4 DEF GenerationsFit, Alive
<1>6. TrustSame
  BY <1>2 DEF TrustSame, CatalogInv, HoldInv, ServerInv
<1>7. InstallInv'
  BY <1>2 DEF CatalogInv, InstallInv, PlanInv, ConsentInv, Underway
<1>8. QED
  BY <1>2, <1>5, <1>6, <1>7, InstallStep DEF GenerationInv

LEMMA ActivateSafe ==
    ASSUME CatalogInv, NEW g \in DOMAIN generations, Activate(g)
    PROVE  CatalogInv'
<1> DEFINE n == Len(generations)
           new == [i \in 1..n |->
                     IF i = g THEN [generations[i] EXCEPT !.state = "active"]
                     ELSE IF generations[i].state \in Alive
                     THEN [generations[i] EXCEPT !.state = "superseded"]
                     ELSE generations[i]]
<1>1. /\ generations \in Seq(GenerationRow) /\ g \in 1..n /\ n \in Nat
      /\ DOMAIN generations = 1..n
  BY DEF CatalogInv, GenerationInv, GenerationsFit
<1>2. /\ generations' = new /\ ~BlockedAt(log, status, generations[g].closure)
      /\ UNCHANGED <<log, keys, firstParty, registry, status, cursor, pins, plan, consent, job,
                     authorized, events>>
  BY <1>1 DEF Activate, server, trust, flight, Alive, BlockedIn, BlockedAt, HeldState
<1>3. ASSUME NEW i \in 1..n
      PROVE  /\ new[i] \in GenerationRow /\ new[i].closure = generations[i].closure
             /\ new[i].state \in Alive => i = g
  <2>1. generations[i] \in GenerationRow
    BY <1>1
  <2>2. QED
    BY <2>1 DEF GenerationRow, Alive
<1>4. new \in [1..n -> GenerationRow]
  BY <1>3
<1> HIDE DEF new
<1>5. new \in Seq(GenerationRow) /\ Len(new) = n
  BY <1>1, <1>4, SeqOfFcn
<1>6. GenerationsFit(log, status, new)
  BY <1>1, <1>2, <1>3, <1>5 DEF GenerationsFit, Alive
<1>7. TrustSame
  BY <1>2 DEF TrustSame, CatalogInv, HoldInv, ServerInv
<1>8. InstallInv'
  BY <1>2 DEF CatalogInv, InstallInv, PlanInv, ConsentInv, Underway
<1>9. QED
  BY <1>2, <1>6, <1>7, <1>8, InstallStep DEF GenerationInv

-----------------------------------------------------------------------------
(* The operator, the other machines and the registry itself. *)

\* A step of the trust tables alone.
LEMMA TrustStep ==
    ASSUME CatalogInv, HoldInv', GenerationInv', UNCHANGED <<pins, plan, consent, job, authorized>>
    PROVE  CatalogInv'
<1>1. InstallInv'
  BY DEF CatalogInv, InstallInv, PlanInv, ConsentInv, Underway
<1>2. QED
  BY <1>1 DEF CatalogInv

LEMMA RegistrySafe ==
    ASSUME CatalogInv, events' \in Nat,
           registry' \in {None} \union RegistryRow, Restored(log, registry', status),
           cursor' \in {cursor, None},
           UNCHANGED <<log, keys, status, pins, plan, consent, generations, job, authorized>>
    PROVE  CatalogInv'
<1>1. Poll \in Jobs /\ job \in [Jobs -> JobRow] /\ JobFit(job[Poll], log, Len(keys), status)
  BY DEF CatalogInv, HoldInv, JobInv, Jobs
<1>2. job' = [job EXCEPT ![Poll] = job[Poll]]
  BY <1>1
<1>3. HoldInv'
  BY <1>1, <1>2, RegistryStep DEF CatalogInv
<1>4. QED
  BY <1>3, GenerationSame, TrustStep DEF CatalogInv

LEMMA AddRegistrySafe == CatalogInv /\ AddRegistry => CatalogInv'
<1> SUFFICES ASSUME CatalogInv, AddRegistry PROVE CatalogInv'
  OBVIOUS
<1> DEFINE row == [key |-> Len(keys), from |-> 0]
           chain == <<row>>
<1>1. /\ events' \in Nat /\ registry = None
      /\ registry' = [incarnation |-> events', chain |-> chain]
      /\ UNCHANGED <<log, keys, status, cursor, pins, plan, consent, generations, job, authorized>>
  BY DEF AddRegistry, Event, server, agent, flight, CatalogInv, HoldInv, ServerInv
<1>2. row \in ChainRow
  BY DEF ChainRow, CatalogInv, HoldInv, ServerInv
<1> HIDE DEF row
<1>3. chain \in Seq(ChainRow)
  BY <1>2
<1> HIDE DEF chain
<1>4. registry' \in RegistryRow
  BY <1>1, <1>3 DEF RegistryRow
<1>5. Restored(log, registry', status)
  BY <1>1 DEF CatalogInv, HoldInv, TrustInv, Restored
<1>6. QED
  BY <1>1, <1>4, <1>5, RegistrySafe

LEMMA RepinRegistrySafe == CatalogInv /\ RepinRegistry => CatalogInv'
<1> SUFFICES ASSUME CatalogInv, RepinRegistry PROVE CatalogInv'
  OBVIOUS
<1>1. /\ events' \in Nat /\ registry # None
      /\ UNCHANGED <<log, keys, status, cursor, pins, plan, consent, generations, job, authorized>>
  BY DEF RepinRegistry, Event, server, agent, flight, CatalogInv, HoldInv, ServerInv
<1>2. PICK at \in {keys[Len(keys)].from, Len(log) + 1} :
        registry' = [registry EXCEPT !.chain = Append(@, [key |-> Len(keys), from |-> at])]
  BY DEF RepinRegistry
<1> DEFINE row == [key |-> Len(keys), from |-> at]
           chain == Append(registry.chain, row)
<1>3. /\ registry \in RegistryRow /\ registry.chain \in Seq(ChainRow)
      /\ Restored(log, registry, status) /\ ServerInv
  BY <1>1 DEF CatalogInv, HoldInv, TrustInv, RegistryRow
<1>4. row \in ChainRow
  <2>1. keys[Len(keys)] \in KeyRow /\ Len(keys) \in Nat /\ Len(log) \in Nat
    BY <1>3 DEF ServerInv
  <2>2. at \in Nat
    BY <2>1 DEF KeyRow
  <2>3. QED
    BY <2>1, <2>2 DEF ChainRow
<1> HIDE DEF row
<1>5. Extends(registry.chain, chain)
  BY <1>3, <1>4 DEF Extends
<1>6. registry' = [registry EXCEPT !.chain = chain]
  BY <1>2 DEF row
<1> HIDE DEF chain
<1>7. registry' \in RegistryRow /\ registry'.chain = chain
  BY <1>3, <1>5, <1>6 DEF RegistryRow, Extends
<1>8. Restored(log, registry', status)
  <2> DEFINE new == registry'
  <2>1. new \in RegistryRow /\ Extends(registry.chain, new.chain)
    BY <1>5, <1>7
  <2> HIDE DEF new
  <2>2. Restored(log, new, status)
    BY <1>3, <2>1, ChainGrown
  <2>3. QED
    BY <2>2 DEF new
<1>9. QED
  BY <1>1, <1>7, <1>8, RegistrySafe

LEMMA RemoveRegistrySafe == CatalogInv /\ RemoveRegistry => CatalogInv'
<1> SUFFICES ASSUME CatalogInv, RemoveRegistry PROVE CatalogInv'
  OBVIOUS
<1>1. /\ events' \in Nat /\ registry' = None /\ cursor' = None /\ Removable
      /\ UNCHANGED <<log, keys, status, pins, plan, consent, generations, job, authorized>>
  BY DEF RemoveRegistry, Event, server, agent, flight, CatalogInv, HoldInv, ServerInv
<1>2. Restored(log, registry', status)
  BY <1>1 DEF Removable, Restored
<1>3. QED
  BY <1>1, <1>2, RegistrySafe

\* The starter bundle gives a status to versions that have none, and touches no other.
LEMMA SeedSafe ==
    ASSUME CatalogInv, Seed
    PROVE  CatalogInv' /\ Advances(log, log', status, status')
<1>1. /\ events' \in Nat
      /\ UNCHANGED <<log, keys, registry, cursor, pins, plan, consent, job, authorized>>
  BY DEF Seed, Event, server, flight, CatalogInv, HoldInv, ServerInv
<1>2. PICK n \in N..Len(log) :
        WriteStatuses([v \in Versions |->
            IF status[v] = None THEN [pos |-> Latest(v, n), epoch |-> 0] ELSE status[v]])
  BY DEF Seed
<1> DEFINE table == [v \in Versions |->
              IF status[v] = None THEN [pos |-> Latest(v, n), epoch |-> 0] ELSE status[v]]
<1>3. WriteStatuses(table) /\ status' = table
  BY <1>2 DEF WriteStatuses
<1>4. /\ ServerInv /\ TrustInv /\ HoldInv /\ GenerationInv
      /\ Table(log, status) /\ Restored(log, registry, status)
      /\ CursorFit(log, status, cursor)
  BY DEF CatalogInv, HoldInv, TrustInv
<1>5. ASSUME NEW v \in Versions
      PROVE  /\ table[v] \in StatusRow /\ table[v] # None
             /\ table[v].pos \in 1..Len(log)
             /\ status[v] # None => table[v] = status[v]
             /\ status[v] = None => table[v].epoch = 0
  <2>1. CASE status[v] # None
    <3>1. table[v] = status[v]
      BY <2>1
    <3>2. QED
      BY <1>4, <2>1, <3>1 DEF Table
  <2>2. CASE status[v] = None
    <3> DEFINE p == Latest(v, n)
    <3>1. p \in 1..n
      BY <1>4, LatestServed, LatestIsIn
    <3>2. p \in 1..Len(log) /\ p \in Nat
      BY <1>4, <3>1, VersionsAre DEF ServerInv
    <3>3. table[v] = [pos |-> p, epoch |-> 0]
      BY <2>2
    <3> HIDE DEF p, table
    <3>4. table[v] \in StatusRow /\ table[v].pos = p /\ table[v].epoch = 0
      BY <3>2, <3>3 DEF StatusRow
    <3>5. QED
      BY <2>2, <3>2, <3>4, CatalogNone DEF StatusRow
  <2>3. QED
    BY <2>1, <2>2
<1>6. table = [v \in Versions |-> table[v]]
  OBVIOUS
<1> HIDE DEF table
<1>7. Table(log, table)
  BY <1>5, <1>6 DEF Table
<1>8. Restored(log, registry, table)
  BY <1>4, <1>5 DEF Restored
<1>9. Grows(log, log) /\ Advances(log, log, status, status)
  BY <1>4, SameAdvances
<1>10. Advances(log, log, status, table)
  BY <1>5, <1>9 DEF Advances
<1>11. CursorFit(log, table, cursor')
  <2>1. CASE cursor = None
    BY <1>1, <1>4, <2>1 DEF CursorFit
  <2>2. CASE cursor # None
    <3>1. cursor \in 0..Len(log) /\ Covers(log, status, cursor)
      BY <1>4, <2>2 DEF CursorFit
    <3>2. Covers(log, table, cursor)
      BY <1>4, <1>7, <1>9, <1>10, <3>1, CoversKept
    <3>3. QED
      BY <1>1, <3>1, <3>2 DEF CursorFit
  <2>3. QED
    BY <2>1, <2>2
<1>12. /\ Poll \in Jobs /\ JobFit(job[Poll], log, Len(keys), status)
       /\ job' = [job EXCEPT ![Poll] = job[Poll]]
  BY <1>1, <1>4 DEF HoldInv, JobInv, Jobs
<1>13. HoldInv' /\ GenerationInv'
  BY <1>1, <1>3, <1>4, <1>7, <1>8, <1>10, <1>11, <1>12, StatusStep
<1>14. QED
  BY <1>1, <1>3, <1>10, <1>13, TrustStep

\* What the operator does to grants and prompts, and what a machine without work does.
LEMMA GrantSafe ==
    ASSUME CatalogInv, TrustSame, UNCHANGED <<pins, plan, consent, generations, job, authorized>>
    PROVE  CatalogInv'
<1>1. HoldInv' /\ GenerationInv'
  BY HoldIdle, GenerationSame DEF CatalogInv, TrustSame
<1>2. QED
  BY <1>1, TrustStep

LEMMA ReplayPinSafe == CatalogInv /\ ReplayPin => CatalogInv'
<1> SUFFICES ASSUME CatalogInv, ReplayPin PROVE CatalogInv'
  OBVIOUS
<1>1. /\ pins' \in Versions
      /\ UNCHANGED <<plan, consent, generations, job, authorized>>
  BY DEF ReplayPin, flight
<1>2. TrustSame
  BY DEF ReplayPin, Event, TrustSame, server, trust, CatalogInv, HoldInv, ServerInv
<1>3. InstallInv'
  BY <1>1 DEF CatalogInv, InstallInv, PlanInv, ConsentInv, Underway
<1>4. GenerationInv'
  BY <1>1, <1>2, GenerationSame DEF CatalogInv, TrustSame
<1>5. QED
  BY <1>1, <1>2, <1>3, <1>4, InstallStep

\* The registry's log and keys grow; the machine does not know yet.
LEMMA ServerStep ==
    ASSUME CatalogInv, Grows(log, log'), keys' \in Seq(KeyRow), Len(keys) <= Len(keys'),
           events' \in Nat,
           UNCHANGED <<registry, status, cursor, pins, plan, consent, generations, job, authorized>>
    PROVE  CatalogInv' /\ Advances(log, log', status, status')
<1> DEFINE m == log'
           k == Len(keys')
<1>1. /\ ServerInv /\ TrustInv /\ JobInv /\ GenerationsFit(log, status, generations)
      /\ Table(log, status)
  BY DEF CatalogInv, HoldInv, GenerationInv, TrustInv
<1>2. ServerInv'
  <2>1. N \in Nat /\ \A v \in Versions : v \in 1..Len(log)
    BY <1>1, VersionsAre DEF ServerInv
  <2>2. QED
    BY <1>1, <2>1 DEF ServerInv, Grows
<1>3. Len(keys) \in Nat /\ k \in Nat /\ Len(keys) <= k /\ Grows(log, m)
  BY <1>1 DEF ServerInv
<1> HIDE DEF m, k
<1>4. /\ Table(m, status) /\ Advances(log, m, status, status)
      /\ \A reg : Restored(log, reg, status) => Restored(m, reg, status)
      /\ \A cur : CursorFit(log, status, cur) => CursorFit(m, status, cur)
      /\ \A gens : GenerationsFit(log, status, gens) => GenerationsFit(m, status, gens)
  BY <1>1, <1>3, GrownTrust
<1>5. Restored(m, registry, status) /\ CursorFit(m, status, cursor)
      /\ GenerationsFit(m, status, generations)
  BY <1>1, <1>4 DEF TrustInv
<1>6. TrustInv'
  BY <1>1, <1>4, <1>5 DEF TrustInv, m
<1>7. \A j \in Jobs : JobFit(job[j], m, k, status)
  BY <1>1, <1>3, <1>4, JobKept DEF JobInv
<1>8. JobInv'
  BY <1>1, <1>7 DEF JobInv, m, k
<1>9. GenerationInv'
  BY <1>5 DEF GenerationInv, m
<1>10. CatalogInv'
  BY <1>2, <1>6, <1>8, <1>9, TrustStep DEF HoldInv
<1>11. QED
  BY <1>4, <1>10 DEF m

LEMMA WriteStatusSafe ==
    ASSUME CatalogInv, WriteStatus
    PROVE  CatalogInv' /\ Advances(log, log', status, status')
<1>1. /\ events' \in Nat /\ keys' = keys
      /\ UNCHANGED <<registry, status, cursor, pins, plan, consent, generations, job, authorized>>
  BY DEF WriteStatus, Event, trust, agent, flight, CatalogInv, HoldInv, ServerInv
<1>2. PICK v \in Versions, s \in States :
        log' = Append(log, [version |-> v, state |-> s, key |-> Len(keys)])
  BY DEF WriteStatus
<1> DEFINE row == [version |-> v, state |-> s, key |-> Len(keys)]
<1>3. log \in Seq(LogRow) /\ keys \in Seq(KeyRow) /\ Len(keys) \in Nat
  BY DEF CatalogInv, HoldInv, ServerInv
<1>4. row \in LogRow
  BY <1>3, CatalogAssumption DEF LogRow, StatusStates
<1> HIDE DEF row
<1>5. Grows(log, log')
  BY <1>2, <1>3, <1>4 DEF Grows, row
<1>6. QED
  BY <1>1, <1>3, <1>5, ServerStep

LEMMA RekeySafe ==
    ASSUME CatalogInv, Rekey
    PROVE  CatalogInv' /\ Advances(log, log', status, status')
<1>1. /\ events' \in Nat /\ log' = log
      /\ UNCHANGED <<registry, status, cursor, pins, plan, consent, generations, job, authorized>>
  BY DEF Rekey, Event, trust, agent, flight, CatalogInv, HoldInv, ServerInv
<1>2. PICK by \in {Len(keys), 0} : keys' = Append(keys, [from |-> Len(log) + 1, signedBy |-> by])
  BY DEF Rekey
<1> DEFINE row == [from |-> Len(log) + 1, signedBy |-> by]
<1>3. log \in Seq(LogRow) /\ keys \in Seq(KeyRow) /\ Len(keys) \in Nat /\ Len(log) \in Nat
  BY DEF CatalogInv, HoldInv, ServerInv
<1>4. row \in KeyRow
  BY <1>3 DEF KeyRow
<1>5. keys' = Append(keys, row)
  BY <1>2
<1> HIDE DEF row
<1>6. keys' \in Seq(KeyRow) /\ Len(keys) <= Len(keys')
  BY <1>3, <1>4, <1>5
<1>7. Grows(log, log')
  BY <1>1, <1>3 DEF Grows
<1>8. QED
  BY <1>1, <1>6, <1>7, ServerStep

\* A restart loses the work in flight and nothing else.
LEMMA RestartSafe == CatalogInv /\ Restart => CatalogInv'
<1> SUFFICES ASSUME CatalogInv, Restart PROVE CatalogInv'
  OBVIOUS
<1>1. /\ job' = [j \in Jobs |-> Idle] /\ authorized' = [p \in Plans |-> FALSE]
      /\ UNCHANGED <<pins, plan, consent, generations>>
  BY DEF Restart, agent
<1>2. TrustSame
  BY DEF Restart, Fault, Event, TrustSame, server, trust, CatalogInv, HoldInv, ServerInv
<1>3. Idle \in JobRow /\ JobFit(Idle, log, Len(keys), status) /\ Idle.pc = "idle"
  <2>1. ServerInv
    BY DEF CatalogInv, HoldInv
  <2>2. QED
    BY <2>1, IdleFits DEF Idle
<1>4. JobInv'
  BY <1>1, <1>2, <1>3 DEF JobInv, TrustSame
<1>5. HoldInv'
  BY <1>2, <1>4 DEF CatalogInv, HoldInv, ServerInv, TrustInv, TrustSame
<1>6. \A p \in Plans : job'[p].pc = "idle"
  BY <1>1, <1>3 DEF Jobs
<1>7. PlanInv'
  BY <1>1, <1>6 DEF CatalogInv, InstallInv, PlanInv
<1>8. ConsentInv'
  BY <1>1 DEF CatalogInv, InstallInv, ConsentInv, Underway
<1>9. GenerationInv'
  BY <1>1, <1>2, GenerationSame DEF CatalogInv, TrustSame
<1>10. QED
  BY <1>5, <1>7, <1>8, <1>9 DEF CatalogInv, InstallInv

-----------------------------------------------------------------------------
(* The initial states, the next-state relation and the theorems. *)

LEMMA InitSafe == Init => CatalogInv
<1> SUFFICES ASSUME Init PROVE CatalogInv
  OBVIOUS
<1>1. N \in Nat /\ 1 <= N /\ Versions = 1..N
  BY VersionsAre
<1>2. /\ log \in Seq(LogRow) /\ Len(log) = N
      /\ \A v \in Versions : log[v] = [version |-> v, state |-> "available", key |-> 1]
  <2>1. \A v \in 1..N : [version |-> v, state |-> "available", key |-> 1] \in LogRow
    BY <1>1 DEF LogRow, StatusStates
  <2>2. log = [v \in 1..N |-> [version |-> v, state |-> "available", key |-> 1]]
    BY DEF Init
  <2>3. log \in [1..N -> LogRow]
    BY <2>1, <2>2
  <2>4. log \in Seq(LogRow) /\ Len(log) = N
    BY <1>1, <2>3, SeqOfFcn
  <2>5. QED
    BY <1>1, <2>2, <2>4
<1>3. ServerInv
  <2> DEFINE first == [from |-> 0, signedBy |-> 0]
  <2>1. first \in KeyRow
    BY DEF KeyRow
  <2>2. keys = <<first>> /\ events = 0
    BY DEF Init
  <2> HIDE DEF first
  <2>3. keys \in Seq(KeyRow) /\ Len(keys) = 1
    BY <2>1, <2>2
  <2>4. QED
    BY <1>1, <1>2, <2>2, <2>3 DEF ServerInv
<1> DEFINE row == [key |-> 1, from |-> 0]
           added == [incarnation |-> 0, chain |-> <<row>>]
<1>4. row \in ChainRow /\ row.key = 1 /\ row.from = 0
  BY DEF ChainRow
<1>5. /\ added \in RegistryRow /\ added # None
      /\ Len(added.chain) = 1 /\ added.chain[1] = row
  <2> HIDE DEF row
  <2>1. <<row>> \in Seq(ChainRow) /\ Len(<<row>>) = 1 /\ <<row>>[1] = row
    BY <1>4
  <2>2. added \in RegistryRow
    BY <2>1 DEF RegistryRow
  <2>3. QED
    BY <2>1, <2>2, CatalogNone DEF RegistryRow, ChainRow
<1>6. TrustInv /\ GenerationInv /\ pins \in {None} \union Versions
  <2>1. CASE Fresh
    <3>1. /\ registry \in {None, added} /\ status = [v \in Versions |-> None]
          /\ cursor = None /\ pins = None /\ generations = <<>>
      BY <2>1 DEF Fresh
    <3> HIDE DEF added
    <3>2. TrustInv
      BY <1>5, <3>1 DEF TrustInv, Table, Restored, CursorFit
    <3>3. GenerationInv
      BY <3>1 DEF GenerationInv, GenerationsFit
    <3>4. QED
      BY <3>1, <3>2, <3>3
  <2>2. CASE Running
    <3> DEFINE made == [plan |-> 0, closure |-> 1, state |-> "active"]
    <3>1. /\ registry = added /\ status = [v \in Versions |-> [pos |-> v, epoch |-> 1]]
          /\ cursor = N /\ pins = 1 /\ generations = <<made>>
      BY <2>2 DEF Running
    <3>2. ASSUME NEW v \in Versions
          PROVE  /\ status[v] \in StatusRow /\ status[v] # None
                 /\ status[v].pos = v /\ status[v].epoch = 1
      <4>1. status[v] = [pos |-> v, epoch |-> 1] /\ v \in Nat
        BY <1>1, <3>1
      <4>2. status[v] \in StatusRow
        BY <4>1 DEF StatusRow
      <4>3. QED
        BY <4>1, <4>2, CatalogNone DEF StatusRow
    <3>3. Table(log, status)
      BY <1>1, <1>2, <3>1, <3>2 DEF Table
    <3> HIDE DEF added
    <3>4. Restored(log, registry, status)
      <4>1. SUFFICES ASSUME NEW v \in Versions PROVE RestoresIn(log, registry.chain, status[v])
        BY <1>5, <3>1 DEF Restored
      <4>2. log[v].key = 1 /\ v \in Nat
        BY <1>1, <1>2
      <4>3. QED
        BY <1>4, <1>5, <3>1, <3>2, <4>2 DEF RestoresIn
    <3>5. Covers(log, status, N)
      <4>1. SUFFICES ASSUME NEW v \in Versions, LatestIn(log, v, N) > 0
                     PROVE  v >= LatestIn(log, v, N)
        BY <3>2 DEF Covers
      <4>2. LatestIn(log, v, N) \in 1..N /\ log[LatestIn(log, v, N)].version = v
        BY <1>1, <4>1, LatestIs
      <4>3. log[LatestIn(log, v, N)].version = LatestIn(log, v, N)
        BY <1>1, <1>2, <4>2
      <4>4. QED
        BY <1>1, <4>2, <4>3
    <3>6. TrustInv
      BY <1>1, <1>2, <1>5, <3>1, <3>3, <3>4, <3>5 DEF TrustInv, CursorFit
    <3>7. GenerationInv
      <4>1. made \in GenerationRow /\ made.closure = 1
        BY <1>1 DEF GenerationRow
      <4>2. 1 \in Versions /\ log[1].state = "available" /\ status[1].pos = 1
        BY <1>1, <1>2, <3>2
      <4>3. ~BlockedAt(log, status, 1)
        BY <4>2 DEF BlockedAt, Blocking
      <4> HIDE DEF made
      <4>4. generations \in Seq(GenerationRow) /\ Len(generations) = 1 /\ generations[1] = made
        BY <3>1, <4>1
      <4>5. QED
        BY <4>1, <4>3, <4>4 DEF GenerationInv, GenerationsFit
    <3>8. QED
      BY <1>1, <3>1, <3>6, <3>7
  <2>3. QED
    BY <2>1, <2>2 DEF Init
<1>7. Idle \in JobRow /\ JobFit(Idle, log, Len(keys), status) /\ Idle.pc = "idle"
  BY <1>3, IdleFits DEF Idle
<1>8. JobInv
  BY <1>7 DEF Init, JobInv
<1>9. PlanInv
  <2>1. \A p \in Plans : job[p].pc = "idle"
    BY <1>7 DEF Init, Jobs
  <2>2. [state |-> "absent", base |-> None, closure |-> 0, snapshot |-> 0] \in PlanRow
    BY DEF PlanRow
  <2>3. plan \in [Plans -> PlanRow] /\ \A p \in Plans : plan[p].state = "absent"
    BY <2>2 DEF Init
  <2>4. QED
    BY <1>6, <2>1, <2>3 DEF PlanInv
<1>10. ConsentInv
  BY DEF Init, ConsentInv, Underway
<1>11. QED
  BY <1>3, <1>6, <1>8, <1>9, <1>10 DEF CatalogInv, HoldInv, InstallInv

\* A step that leaves the log and the statuses alone.
LEMMA StatusKept ==
    ASSUME CatalogInv, UNCHANGED <<log, status>>
    PROVE  Advances(log, log', status, status')
  BY SameAdvances DEF CatalogInv, HoldInv

LEMMA NextSafe ==
    ASSUME CatalogInv, [Next]_vars
    PROVE  CatalogInv' /\ Advances(log, log', status, status') /\ UnchangedStep
<1>1. CASE UNCHANGED vars
  <2>1. /\ UNCHANGED <<log, keys, firstParty, registry, status, cursor, pins, plan, consent,
                       generations, job, authorized, events>>
    BY <1>1 DEF vars, server, trust, agent, flight
  <2>2. TrustSame
    BY <2>1 DEF TrustSame, CatalogInv, HoldInv, ServerInv
  <2>3. QED
    BY <2>1, <2>2, GrantSafe, StatusKept, ConsentKept
<1>2. CASE StartPoll
  BY <1>2, StartPollSafe, StatusKept, ConsentKept DEF StartPoll, server, trust, agent
<1>3. CASE \E j \in Jobs : ApplyKeys(j) \/ FetchFeed(j) \/ ApplyFeed(j) \/ CallFails(j)
  <2>1. PICK j \in Jobs : ApplyKeys(j) \/ FetchFeed(j) \/ ApplyFeed(j) \/ CallFails(j)
    BY <1>3
  <2>2. CASE ApplyKeys(j)
    BY <2>2, ApplyKeysSafe, StatusKept, ConsentKept DEF ApplyKeys, server
  <2>3. CASE FetchFeed(j)
    BY <2>3, FetchFeedSafe, StatusKept, ConsentKept DEF FetchFeed, server, trust, agent
  <2>4. CASE ApplyFeed(j)
    BY <2>4, ApplyFeedSafe, ConsentKept DEF ApplyFeed
  <2>5. CASE CallFails(j)
    BY <2>5, CallFailsSafe, StatusKept, ConsentKept DEF CallFails, server, trust
  <2>6. QED
    BY <2>1, <2>2, <2>3, <2>4, <2>5
<1>4. CASE \E p \in Plans :
             \/ Prepare(p) \/ CheckPins(p) \/ FetchVersion(p) \/ AcceptVersion(p)
             \/ PublishVersion(p) \/ Resolve(p) \/ FinishPlan(p)
  <2>1. PICK p \in Plans :
             \/ Prepare(p) \/ CheckPins(p) \/ FetchVersion(p) \/ AcceptVersion(p)
             \/ PublishVersion(p) \/ Resolve(p) \/ FinishPlan(p)
    BY <1>4
  <2>2. CASE Prepare(p)
    BY <2>2, PrepareSafe, StatusKept, ConsentKept DEF Prepare, server, trust
  <2>3. CASE CheckPins(p)
    BY <2>3, CheckPinsSafe, StatusKept, ConsentKept DEF CheckPins, server, trust
  <2>4. CASE FetchVersion(p)
    BY <2>4, FetchVersionSafe, StatusKept, ConsentKept DEF FetchVersion, server, trust, agent
  <2>5. CASE AcceptVersion(p)
    BY <2>5, AcceptVersionSafe, ConsentKept DEF AcceptVersion
  <2>6. CASE PublishVersion(p)
    BY <2>6, PublishVersionSafe, StatusKept, ConsentKept DEF PublishVersion, server, agent
  <2>7. CASE Resolve(p)
    BY <2>7, ResolveSafe, StatusKept, ConsentKept DEF Resolve, server, trust
  <2>8. CASE FinishPlan(p)
    BY <2>8, FinishPlanSafe, StatusKept, ConsentKept DEF FinishPlan, server, trust
  <2>9. QED
    BY <2>1, <2>2, <2>3, <2>4, <2>5, <2>6, <2>7, <2>8
<1>5. CASE \E p \in Plans : StartInstall(p) \/ Answer(p) \/ FinishCard(p) \/ FinishGranted(p)
  <2>1. PICK p \in Plans : StartInstall(p) \/ Answer(p) \/ FinishCard(p) \/ FinishGranted(p)
    BY <1>5
  <2>2. CASE StartInstall(p)
    BY <2>2, StartInstallSafe, StartInstallUnchanged, StatusKept DEF StartInstall, server, trust
  <2>3. CASE Answer(p)
    BY <2>3, AnswerSafe, AnswerUnchanged, StatusKept DEF Answer, server, trust
  <2>4. CASE FinishCard(p)
    BY <2>4, FinishCardSafe, StatusKept DEF FinishCard, server, trust
  <2>5. CASE FinishGranted(p)
    BY <2>5, FinishGrantedSafe, StatusKept DEF FinishGranted, server, trust
  <2>6. QED
    BY <2>1, <2>2, <2>3, <2>4, <2>5
<1>6. CASE \E g \in DOMAIN generations : Prefetch(g) \/ Activate(g)
  <2>1. PICK g \in DOMAIN generations : Prefetch(g) \/ Activate(g)
    BY <1>6
  <2>2. CASE Prefetch(g)
    BY <2>2, PrefetchSafe, StatusKept, ConsentKept DEF Prefetch, server, trust
  <2>3. CASE Activate(g)
    BY <2>3, ActivateSafe, StatusKept, ConsentKept DEF Activate, server, trust
  <2>4. QED
    BY <2>1, <2>2, <2>3
<1>7. CASE AddRegistry
  BY <1>7, AddRegistrySafe, StatusKept, ConsentKept DEF AddRegistry, server, agent
<1>8. CASE RepinRegistry
  BY <1>8, RepinRegistrySafe, StatusKept, ConsentKept DEF RepinRegistry, server, agent
<1>9. CASE RemoveRegistry
  BY <1>9, RemoveRegistrySafe, StatusKept, ConsentKept DEF RemoveRegistry, server, agent
<1>10. CASE Seed
  BY <1>10, SeedSafe, ConsentKept DEF Seed
<1>11. CASE AskTrust \/ ConfirmTrust \/ RevokeGrant \/ Retire
  <2>1. /\ UNCHANGED <<log, keys, firstParty, registry, status, cursor, pins, plan, consent,
                       generations, job, authorized>>
        /\ events' \in {events, events + 1}
    BY <1>11 DEF AskTrust, ConfirmTrust, RevokeGrant, Retire, Event, server, trust, agent, flight
  <2>2. TrustSame
    BY <2>1 DEF TrustSame, CatalogInv, HoldInv, ServerInv
  <2>3. QED
    BY <2>1, <2>2, GrantSafe, StatusKept, ConsentKept
<1>12. CASE ReplayPin
  BY <1>12, ReplayPinSafe, StatusKept, ConsentKept DEF ReplayPin, server, trust
<1>13. CASE WriteStatus
  BY <1>13, WriteStatusSafe, ConsentKept DEF WriteStatus, agent
<1>14. CASE Rekey
  BY <1>14, RekeySafe, ConsentKept DEF Rekey, agent
<1>15. CASE Restart
  BY <1>15, RestartSafe, StatusKept, ConsentKept DEF Restart, server, trust, agent
<1>16. QED
  BY <1>1, <1>2, <1>3, <1>4, <1>5, <1>6, <1>7, <1>8, <1>9, <1>10, <1>11, <1>12, <1>13,
     <1>14, <1>15 DEF Next

LEMMA InvHolds == Spec => []CatalogInv
<1>1. CatalogInv /\ [Next]_vars => CatalogInv'
  BY NextSafe
<1>2. QED
  BY InitSafe, <1>1, PTL DEF Spec

LEMMA RestoresIs ==
    ASSUME NEW chain \in Seq(ChainRow), NEW row \in StatusRow
    PROVE  Restores(chain, row) <=> RestoresIn(log, chain, row)
  BY DEF Restores, RestoresIn, Epochs

LEMMA InvHoldsFeed == CatalogInv => HoldsCoverFeed
<1> SUFFICES ASSUME CatalogInv PROVE HoldsCoverFeed
  OBVIOUS
<1>1. TrustInv /\ ServerInv
  BY DEF CatalogInv, HoldInv
<1>2. ASSUME NEW v \in Versions, status[v] # None, status[v].epoch # 0
      PROVE  registry # None /\ Restores(registry.chain, status[v])
  <2>1. registry # None /\ RestoresIn(log, registry.chain, status[v])
    BY <1>1, <1>2 DEF TrustInv, Restored
  <2>2. registry.chain \in Seq(ChainRow) /\ status[v] \in StatusRow
    BY <1>1, <1>2, <2>1 DEF TrustInv, Table, RegistryRow
  <2>3. QED
    BY <2>1, <2>2, RestoresIs
<1>3. cursor # None => Covers(log, status, cursor)
  BY <1>1 DEF TrustInv, CursorFit
<1>4. QED
  BY <1>2, <1>3, LatestIsIn DEF HoldsCoverFeed, Covers

LEMMA InvRunsUsable == CatalogInv => RunningIsUsable
<1> SUFFICES ASSUME CatalogInv PROVE RunningIsUsable
  OBVIOUS
<1>1. GenerationsFit(log, status, generations) /\ DOMAIN generations = 1..Len(generations)
  BY DEF CatalogInv, GenerationInv, GenerationsFit
<1>2. \A g, h \in DOMAIN generations :
        {generations[g].state, generations[h].state} \subseteq {"active", "degraded"} => g = h
  BY <1>1 DEF GenerationsFit, Alive
<1>3. \A g \in DOMAIN generations :
        generations[g].state = "active" => ~BlockedIn(status, generations[g].closure)
  BY <1>1 DEF GenerationsFit, BlockedAt, BlockedIn, HeldState
<1>4. QED
  BY <1>2, <1>3 DEF RunningIsUsable

\* What the machine holds is whole (apply_scope_feed, catalog_registry_remove): for every
\* interleaving of a poll with preparations, seeds, re-keyings and operator acts, every
\* status row still authenticates under the chain it was accepted with, and no record at
\* or below the cursor of the feed is missing.
THEOREM HoldsWhole == Spec => []HoldsCoverFeed
  BY InvHolds, InvHoldsFeed, PTL

\* One generation of the agent runs at a time, and none is active on a version whose held
\* status blocks it (catalog_generation_step, apply_status_effects).
THEOREM RunsUsable == Spec => []RunningIsUsable
  BY InvHolds, InvRunsUsable, PTL

\* A held status never goes back nor away, and a revoked version is never merely available
\* again, whichever lagging, late or old reply is applied (apply_status, seed_statuses).
THEOREM StatusAdvances == Spec => StatusOnlyAdvances
<1> DEFINE step == \A v \in Versions : status[v] # None =>
             /\ status'[v] # None
             /\ status'[v].pos >= status[v].pos
             /\ HeldState(status, v) = "revoked" =>
                    log'[status'[v].pos].state \in {"revoked", "spared", "tombstoned"}
             /\ status'[v].epoch = 0 => status[v].epoch = 0
<1>1. CatalogInv /\ [Next]_vars => [step]_vars
  BY NextSafe DEF Advances, HeldState
<1>2. QED
  BY <1>1, InvHolds, PTL DEF Spec, StatusOnlyAdvances

\* A plan is installed once, and only while the pin it replaces and the status held of its
\* version are those it was made ready against, however long the card was open; without a
\* card only under a grant that covers it at the commit (catalog_install).
THEOREM NothingChanged == Spec => InstallsUnchanged
<1>1. CatalogInv /\ [Next]_vars => [UnchangedStep]_vars
  BY NextSafe
<1>2. QED
  BY <1>1, InvHolds, PTL DEF Spec, InstallsUnchanged, UnchangedStep

=============================================================================
