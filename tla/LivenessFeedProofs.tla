------------------------- MODULE LivenessFeedProofs -------------------------
(***************************************************************************)
(* The liveness feed for every set of keys, routes and modules and every   *)
(* bound: the upkeep of ends, the mirror of a host that is gone, and what  *)
(* the answers are worth, but for what a batch that was applied after its  *)
(* route had gone leaves behind.                                           *)
(***************************************************************************)
EXTENDS LivenessFeed, FiniteSetTheorems, SequenceTheorems, WellFoundedInduction,
        NaturalsInduction, TLAPS

\* The fields of the mirror and the host that the argument reads are there.
FeedShape ==
    /\ bound \in [Routes -> Modules \cup {None}]
    /\ {"module", "route"} \subseteq DOMAIN host
    /\ host.module \in Modules /\ host.route \in Routes \cup {None}
    /\ {"stale", "sender"} \subseteq DOMAIN mirror

\* A batch was sent on a route, and an admitted one that is not orphaned is from the
\* principal that the route still has.
BatchesOnRoutes ==
    /\ \A b \in flight \cup admitted : b.route \in Routes /\ b.module \in Modules
    /\ \A b \in admitted \ orphaned : bound[b.route] = b.module

SenderKnown ==
    mirror.sender # NoSender =>
      mirror.sender.route \in Routes /\ mirror.sender.module \in Modules

\* LostHostIsStale needs the batches under way: one that was admitted becomes
\* the last sender, late if its route has changed since.
RouteInv == FeedShape /\ BatchesOnRoutes /\ SenderKnown /\ LostHostIsStale

\* No host has a route yet.
LEMMA InitRoutes == Init => RouteInv
  BY ConstantsAssumption
     DEF Init, RouteInv, FeedShape, BatchesOnRoutes, SenderKnown,
         LostHostIsStale, ClosedRouteIsStale, EmptyMirror, NoSender

\* What the host reports goes out on the route it has.
LEMMA ReportRoutes ==
    ASSUME RouteInv, NEW snapshot, NEW state, NEW entries,
           Report(snapshot, state, entries),
           UNCHANGED <<admitted, orphaned, bound, mirrorVars>>
    PROVE  RouteInv'
<1>1. FeedShape'
  BY DEF RouteInv, FeedShape, Report, mirrorVars
<1>2. \A b \in flight' : b.route \in Routes /\ b.module \in Modules
  BY DEF RouteInv, FeedShape, BatchesOnRoutes, Report, Batch
<1>3. BatchesOnRoutes'
  BY <1>2 DEF RouteInv, BatchesOnRoutes
<1>4. SenderKnown' /\ LostHostIsStale'
  BY DEF RouteInv, SenderKnown, LostHostIsStale, ClosedRouteIsStale, mirrorVars
<1>5. QED
  BY <1>1, <1>3, <1>4 DEF RouteInv

\* A module that takes over the route of the last sender makes the mirror
\* stale; a route that was closed before had done so already.
LEMMA ConnectRoutes ==
    ASSUME RouteInv, NEW r \in Routes, Connect(r)
    PROVE  RouteInv'
<1>1. FeedShape'
  BY DEF RouteInv, FeedShape, Connect, OnBind
<1>2. BatchesOnRoutes'
  BY DEF RouteInv, FeedShape, BatchesOnRoutes, Connect, OnRoute
<1>3. SenderKnown' /\ mirror'.sender = mirror.sender
  BY DEF RouteInv, FeedShape, SenderKnown, Connect, OnBind
<1>4. LostHostIsStale'
  <2>1. CASE mirror.sender.route = r
    <3>1. mirror'.stale = (mirror.stale \/ bound[r] # None)
      BY <2>1 DEF RouteInv, FeedShape, Connect, OnBind
    <3>2. QED
      BY <2>1, <3>1, <1>3, ConstantsAssumption
         DEF RouteInv, SenderKnown, LostHostIsStale, ClosedRouteIsStale, Connect
  <2>2. CASE mirror.sender.route # r
    <3>1. mirror.stale => mirror'.stale
      BY DEF RouteInv, FeedShape, Connect, OnBind
    <3>2. mirror.sender # NoSender =>
            bound'[mirror.sender.route] = bound[mirror.sender.route]
      BY <2>2 DEF RouteInv, FeedShape, SenderKnown, Connect
    <3>3. QED
      BY <3>1, <3>2, <1>3 DEF RouteInv, LostHostIsStale, ClosedRouteIsStale, Connect
  <2>3. QED
    BY <2>1, <2>2
<1>5. QED
  BY <1>1, <1>2, <1>3, <1>4 DEF RouteInv

\* A closed route makes the mirror stale when it was the last sender's.
LEMMA RouteGoneRoutes ==
    ASSUME RouteInv, NEW r \in Routes, RouteGone(r)
    PROVE  RouteInv'
<1>1. FeedShape'
  BY DEF RouteInv, FeedShape, RouteGone, OnRouteGone
<1>2. BatchesOnRoutes'
  BY DEF RouteInv, FeedShape, BatchesOnRoutes, RouteGone, OnRoute
<1>3. SenderKnown' /\ mirror'.sender = mirror.sender
  BY DEF RouteInv, FeedShape, SenderKnown, RouteGone, OnRouteGone
<1>4. LostHostIsStale'
  <2>1. mirror'.stale = (mirror.stale \/ mirror.sender.route = r)
    BY DEF RouteInv, FeedShape, RouteGone, OnRouteGone
  <2>2. mirror.sender # NoSender /\ mirror.sender.route # r =>
          bound'[mirror.sender.route] = bound[mirror.sender.route]
    BY DEF RouteInv, FeedShape, SenderKnown, RouteGone
  <2>3. QED
    BY <2>1, <2>2, <1>3 DEF RouteInv, LostHostIsStale, ClosedRouteIsStale, RouteGone
<1>5. QED
  BY <1>1, <1>2, <1>3, <1>4 DEF RouteInv

\* A batch that is received is admitted only while its route is its sender's.
LEMMA DeliverRoutes ==
    ASSUME RouteInv, NEW b \in flight, Deliver(b)
    PROVE  RouteInv'
<1>1. /\ flight' \cup admitted' \subseteq flight \cup admitted
      /\ \A x \in admitted' : x \in admitted \/ bound[x.route] = x.module
      /\ UNCHANGED <<host, orphaned, bound, mirror, late>>
  BY DEF Deliver, Admit, hostVars, mirrorVars
<1>2. QED
  BY <1>1 DEF RouteInv, FeedShape, BatchesOnRoutes, SenderKnown,
              LostHostIsStale, ClosedRouteIsStale

\* An applied batch makes its route the last sender's, which it still is unless the
\* batch was orphaned.
LEMMA ApplyRoutes ==
    ASSUME RouteInv, NEW b \in admitted, Apply(b)
    PROVE  RouteInv'
<1>1. {"stale", "sender"} \subseteq DOMAIN Ingested(b)
  BY DEF RouteInv, FeedShape, Ingested, Take, Rebased, Followed
<1>2. /\ mirror'.sender = [route |-> b.route, module |-> b.module]
      /\ {"stale", "sender"} \subseteq DOMAIN mirror'
  BY <1>1 DEF Apply
<1>3. /\ {"module", "route"} \subseteq DOMAIN host'
      /\ host'.module = host.module /\ host'.route = host.route
  BY DEF RouteInv, FeedShape, Apply, Answered
<1>4. /\ bound' = bound /\ flight' = flight
      /\ admitted' = admitted \ {b} /\ orphaned' = orphaned \ {b}
  BY DEF Apply
<1>5. FeedShape' /\ BatchesOnRoutes'
  BY <1>2, <1>3, <1>4 DEF RouteInv, FeedShape, BatchesOnRoutes
<1>6. late'.sender = (b \in orphaned)
  BY DEF Apply, LateAfter
<1>7. SenderKnown'
  BY <1>2, <1>4 DEF RouteInv, BatchesOnRoutes, SenderKnown
<1>8. CASE b \in orphaned
  <2>1. LostHostIsStale'
    BY <1>6, <1>8 DEF LostHostIsStale
  <2>2. QED
    BY <1>5, <1>7, <2>1 DEF RouteInv
<1>9. CASE b \notin orphaned
  <2>1. bound'[b.route] = b.module
    BY <1>4, <1>9 DEF RouteInv, BatchesOnRoutes
  <2>2. ClosedRouteIsStale'
    BY <1>2, <2>1 DEF ClosedRouteIsStale
  <2>3. LostHostIsStale'
    BY <2>2 DEF LostHostIsStale
  <2>4. QED
    BY <1>5, <1>7, <2>3 DEF RouteInv
<1>10. QED
  BY <1>8, <1>9

\* Every step keeps the routes of the batches and of the last sender.
LEMMA NextRoutes ==
    ASSUME RouteInv, [Next]_vars
    PROVE  RouteInv'
<1> USE DEF hostVars, wire, mirrorVars, stamps
<1>1. ASSUME NEW k \in Keys, NEW s, Change(k, s) PROVE RouteInv'
  BY <1>1, ReportRoutes DEF Change
<1>2. CASE Snapshot
  BY <1>2, ReportRoutes DEF Snapshot
<1>3. ASSUME NEW r \in Routes, Connect(r) \/ RouteGone(r) PROVE RouteInv'
  BY <1>3, ConnectRoutes, RouteGoneRoutes
<1>4. ASSUME NEW m \in Modules, Replace(m) PROVE RouteInv'
  BY <1>4 DEF Replace, RouteInv, FeedShape, BatchesOnRoutes, SenderKnown,
              LostHostIsStale, ClosedRouteIsStale
<1>5. ASSUME NEW b \in flight, Lose(b) PROVE RouteInv'
  BY <1>5 DEF Lose, RouteInv, FeedShape, BatchesOnRoutes, SenderKnown,
              LostHostIsStale, ClosedRouteIsStale
<1>6. ASSUME NEW b \in flight, Deliver(b) PROVE RouteInv'
  BY <1>6, DeliverRoutes
<1>7. ASSUME NEW b \in admitted, Apply(b) PROVE RouteInv'
  BY <1>7, ApplyRoutes
<1>8. CASE \/ \E k \in Keys : Register(k)
           \/ TakeStamps \/ WriteStamps
           \/ UNCHANGED vars
  <2>1. UNCHANGED <<host, flight, admitted, orphaned, bound, mirror, late>>
    BY <1>8 DEF Register, TakeStamps, WriteStamps, vars
  <2>2. QED
    BY <2>1 DEF RouteInv, FeedShape, BatchesOnRoutes, SenderKnown,
                LostHostIsStale, ClosedRouteIsStale
<1>9. CASE Restart
  <2>1. /\ mirror' = EmptyMirror /\ flight' = {} /\ admitted' = {}
        /\ bound' \in [Routes -> Modules \cup {None}]
    BY <1>9 DEF Restart
  <2>2. FeedShape'
    BY <1>9, <2>1 DEF Restart, RouteInv, FeedShape, EmptyMirror
  <2>3. QED
    BY <2>1, <2>2 DEF RouteInv, BatchesOnRoutes, SenderKnown,
                      LostHostIsStale, ClosedRouteIsStale, EmptyMirror
<1>10. QED
  BY <1>1, <1>2, <1>3, <1>4, <1>5, <1>6, <1>7, <1>8, <1>9 DEF Next

\* on_bind and on_route_gone leave the mirror stale for a host that is gone,
\* and no batch undoes it but one whose own route was gone when it was applied.
THEOREM LostHost == Spec => []LostHostIsStale
<1>1. Init => RouteInv
  BY InitRoutes
<1>2. RouteInv /\ [Next]_vars => RouteInv'
  BY NextRoutes
<1>3. RouteInv => LostHostIsStale
  BY DEF RouteInv
<1>4. QED
  BY <1>1, <1>2, <1>3, PTL DEF Spec

-----------------------------------------------------------------------------
(* Sets the model folds, lists and takes the least of. *)

\* A batch that reports no session gone leaves the gone set as it was.
LEMMA TakeNone ==
    ASSUME NEW base
    PROVE  FoldSet(LAMBDA k, g : Remember(g, k), base, {}) = base
<1> DEFINE it == [s \in SUBSET {} |-> base]
<1>1. it = [s \in SUBSET {} |->
         IF s = {} THEN base
         ELSE Remember(it[s \ {CHOOSE x \in s : TRUE}], CHOOSE x \in s : TRUE)]
  OBVIOUS
<1> QED BY <1>1 DEF FoldSet, MapThenFoldSet

\* A batch reports at most one session gone.
LEMMA TakeOne ==
    ASSUME NEW base, NEW e
    PROVE  FoldSet(LAMBDA k, g : Remember(g, k), base, {e}) = Remember(base, e)
<1> DEFINE it == [s \in SUBSET {e} |-> IF s = {} THEN base ELSE Remember(base, e)]
           P(f) == f = [s \in SUBSET {e} |->
                          IF s = {} THEN base
                          ELSE Remember(f[s \ {CHOOSE x \in s : TRUE}],
                                        CHOOSE x \in s : TRUE)]
<1>1. ASSUME NEW s \in SUBSET {e}, s # {}
      PROVE  (CHOOSE x \in s : TRUE) = e /\ s \ {CHOOSE x \in s : TRUE} = {}
  <2>1. s = {e}
    BY <1>1
  <2>2. (CHOOSE x \in {e} : TRUE) \in {e}
    OBVIOUS
  <2>3. QED BY <2>1, <2>2
<1>2. it[{}] = base /\ it[{e}] = Remember(base, e)
  <2>1. {} \in SUBSET {e} /\ {e} \in SUBSET {e} /\ {e} # {}
    OBVIOUS
  <2>2. QED BY <2>1
<1>3. P(it)
  <2>1. ASSUME NEW s \in SUBSET {e}, s # {}
        PROVE  it[s] = Remember(it[s \ {CHOOSE x \in s : TRUE}], CHOOSE x \in s : TRUE)
    BY <1>1, <2>1, <1>2
  <2>2. QED BY <2>1
<1>4. PICK f : f = (CHOOSE g : P(g)) /\ P(f)
  <2> HIDE DEF P, it
  <2>1. P(CHOOSE g : P(g))
    BY <1>3, Zenon
  <2>2. QED BY <2>1
<1>5. f[{}] = base /\ f[{e}] = Remember(f[{e} \ {CHOOSE x \in {e} : TRUE}], CHOOSE x \in {e} : TRUE)
  <2>1. {} \in SUBSET {e} /\ {e} \in SUBSET {e} /\ {e} # {}
    OBVIOUS
  <2>2. QED BY <1>4, <2>1
<1>6. f[{e}] = Remember(base, e)
  BY <1>5, <1>1
<1> QED BY <1>4, <1>6 DEF FoldSet, MapThenFoldSet

\* The list of a finite set has its elements.
LEMMA SeqOfSet ==
    ASSUME NEW S, IsFiniteSet(S)
    PROVE  SetToSeq(S) \in Seq(S)
<1>1. PICK f \in [1..Cardinality(S) -> S] : IsInjective(f)
  BY FS_CardinalityType DEF ExistsBijection, Bijection, Injection, IsInjective
<1>2. SetToSeq(S) \in [1..Cardinality(S) -> S]
  BY <1>1 DEF SetToSeq
<1> QED BY <1>2, FS_CardinalityType

\* A set of naturals that is not empty has a least element.
LEMMA MinInSet ==
    ASSUME NEW S, S \subseteq Nat, S # {}
    PROVE  Min(S) \in S
<1> DEFINE lt == {p \in Nat \X Nat : p[1] < p[2]}
<1>1. IsWellFoundedOn(lt, Nat)
  BY NatLessThanWellFounded DEF OpToRel
<1>2. PICK x \in S : \A y \in S : ~ (<<y, x>> \in lt)
  <2> HIDE DEF lt
  <2> QED BY <1>1, WFMin
<1>3. ASSUME NEW y \in S PROVE x =< y
  <2>1. <<y, x>> \in Nat \X Nat /\ ~ (y < x)
    BY <1>2
  <2>2. QED
    BY <2>1
<1>4. QED
  BY <1>3 DEF Min

-----------------------------------------------------------------------------
(***************************************************************************)
(* What the host reported, and what a batch under way says of it.          *)
(***************************************************************************)
States == Tracked \cup {"gone", "absent"}
Host == [module: Modules, route: Routes \cup {None}, life: Nat, seq: Nat,
         live: [Keys -> States], wants: BOOLEAN]
Mirror == [seq: Nat, stale: BOOLEAN,
           sender: [route: Routes \cup {None}, module: Modules \cup {None}],
           sessions: [Keys -> Tracked \cup {"absent"}], gone: SUBSET Keys]
UnderWay == flight \cup admitted

\* The batches whose route is still the one they were sent on.
Routed == flight \cup (admitted \ orphaned)

\* What the host process l had reported for a session after its batch n.
Had(l, n, k) == shown[l][n][k]

\* The host numbers its batches from one, without a gap, and its sessions are
\* those of its last report.
HostShape ==
    /\ host \in Host /\ shown \in Seq(Seq([Keys -> States]))
    /\ host.life = Len(shown) /\ host.life > 0
    /\ host.seq = Len(shown[host.life])
    /\ host.seq > 0 => host.live = shown[host.life][host.seq]

MirrorShape ==
    /\ mirror \in Mirror
    /\ IsFiniteSet(mirror.gone) /\ Cardinality(mirror.gone) <= GoneCap
    /\ bound \in [Routes -> Modules \cup {None}]

\* A batch reports what its host had: a snapshot every session the host tracks, a
\* push the one that changed since the batch before.
Carries(b) ==
    /\ b.life \in 1..Len(shown) /\ b.seq \in 1..Len(shown[b.life])
    /\ b.snapshot \in BOOLEAN /\ DOMAIN b.entries \subseteq Keys
    /\ \A k \in DOMAIN b.entries : b.entries[k] = Had(b.life, b.seq, k)
    /\ b.snapshot =>
         /\ \A k \in DOMAIN b.entries : b.entries[k] \in Tracked
         /\ \A k \in Keys \ DOMAIN b.entries : Had(b.life, b.seq, k) = "absent"
    /\ ~b.snapshot =>
         \E k \in Keys :
           /\ DOMAIN b.entries = {k} /\ b.entries[k] \in Tracked \cup {"gone"}
           /\ b.seq > 1 => \A x \in Keys \ {k} :
                             Had(b.life, b.seq, x) = Had(b.life, b.seq - 1, x)

FeedInv == HostShape /\ MirrorShape /\ \A b \in UnderWay : Carries(b)

(***************************************************************************)
(* Stamps and bindings.                                                    *)
(***************************************************************************)
Stamps == [key: Keys, run: Nat]
Binding == [runs: Nat, ended: BOOLEAN, endOf: Nat, crossed: BOOLEAN]
ReportedGone(k) == \E l \in Lives : \E i \in DOMAIN shown[l] : shown[l][i][k] = "gone"

\* A stamp is for a session that was reported gone, in the run it has or in one
\* that a registration crossed.
StampDue(s) ==
    /\ ReportedGone(s.key)
    /\ s.run = binding[s.key].runs \/ binding[s.key].crossed

UpkeepShape ==
    /\ upkeep \in [queue: Seq(Stamps), wake: BOOLEAN, job: Seq(Stamps)]
    /\ Len(upkeep.queue) <= PendingCap
    /\ binding \in [Keys -> Binding]

UpkeepInv ==
    /\ UpkeepShape
    /\ \A i \in DOMAIN upkeep.queue : StampDue(upkeep.queue[i])
    /\ \A i \in DOMAIN upkeep.job : StampDue(upkeep.job[i])
    /\ EndsOnlyWhenReported /\ EndIsOfThisRun

(***************************************************************************)
(* The mirror.                                                             *)
(***************************************************************************)

\* A mirror that is worth an answer.
Vouches == ~mirror.stale /\ ~late.content

\* The routed batches are of one host process: the one the mirror follows, and the
\* one that has a route now.
OneLife ==
    /\ \A b, c \in Routed : b.life = c.life
    /\ host.route # None => \A b \in Routed : b.life = host.life
    /\ Vouches =>
         /\ \A b \in Routed : b.life = source
         /\ host.route # None => source = host.life

\* At most one provider has a route, and a host that has one is it.
OneProvider ==
    /\ host.route # None => bound[host.route] = host.module
    /\ \A b \in Routed : bound[b.route] = b.module

\* A mirror that vouches for its sessions has those of the batch it took last.
Mirrors(k) ==
    LET had == Had(source, mirror.seq, k)
    IN  /\ mirror.sessions[k] \in Tracked \/ had \in Tracked => mirror.sessions[k] = had
        /\ k \in mirror.gone => had = "gone"

\* Its sender is not late either: a late batch is content, unless it is an older one,
\* which leaves the mirror stale.
MirrorFollows ==
    Vouches =>
      /\ source \in 1..Len(shown) /\ mirror.seq \in 1..Len(shown[source])
      /\ mirror.sender # NoSender /\ ~late.sender
      /\ \A k \in Keys : Mirrors(k)

AnswerInv == OneLife /\ OneProvider /\ MirrorFollows

\* What a host reported stays, whatever happens next.
ShownKept ==
    /\ Len(shown) <= Len(shown')
    /\ \A l \in 1..Len(shown) :
         /\ Len(shown[l]) <= Len(shown'[l])
         /\ \A i \in 1..Len(shown[l]) : shown'[l][i] = shown[l][i]

\* A list of reports, and each of them, is a sequence.
LEMMA ShownTypes ==
    ASSUME NEW s, s \in Seq(Seq([Keys -> States]))
    PROVE  /\ Len(s) \in Nat /\ DOMAIN s = 1..Len(s)
           /\ \A l \in 1..Len(s) :
                /\ s[l] \in Seq([Keys -> States]) /\ Len(s[l]) \in Nat
                /\ DOMAIN s[l] = 1..Len(s[l])
                /\ \A i \in 1..Len(s[l]) : s[l][i] \in [Keys -> States]
<1> DEFINE T == [Keys -> States]
<1>1. s \in Seq(Seq(T))
  OBVIOUS
<1> HIDE DEF T
<1>2. Len(s) \in Nat /\ DOMAIN s = 1..Len(s)
      /\ \A l \in 1..Len(s) : s[l] \in Seq(T)
  BY <1>1
<1>3. \A l \in 1..Len(s) :
         /\ Len(s[l]) \in Nat /\ DOMAIN s[l] = 1..Len(s[l])
         /\ \A i \in 1..Len(s[l]) : s[l][i] \in T
  BY <1>2
<1>4. QED
  BY <1>2, <1>3 DEF T

\* A report is the last one of its host, and the others stay.
LEMMA ReportShape ==
    ASSUME HostShape, NEW snapshot \in BOOLEAN, NEW state \in [Keys -> States],
           NEW entries, Report(snapshot, state, entries)
    PROVE  /\ HostShape' /\ ShownKept
           /\ Len(shown') = Len(shown)
           /\ Len(shown'[host.life]) = host.seq + 1
           /\ shown'[host.life][host.seq + 1] = state
<1> DEFINE T == [Keys -> States]
           l == host.life
<1>1. /\ l \in 1..Len(shown) /\ Len(shown) \in Nat /\ l \in Nat
      /\ host.seq = Len(shown[l]) /\ host.seq \in Nat
  BY ShownTypes DEF HostShape, Host
<1>2. /\ shown' = [shown EXCEPT ![l] = Append(shown[l], state)]
      /\ host' = [host EXCEPT !.live = state, !.seq = @ + 1, !.wants = @ /\ ~snapshot]
  BY DEF Report
<1>3. shown \in Seq(Seq(T)) /\ state \in T
  BY DEF HostShape
<1>4. \A i \in 1..Len(shown) : shown[i] \in Seq(T)
  BY <1>3
<1> HIDE DEF T
<1>5. /\ Append(shown[l], state) \in Seq(T)
      /\ Len(Append(shown[l], state)) = host.seq + 1
      /\ Append(shown[l], state)[host.seq + 1] = state
      /\ \A i \in 1..host.seq : Append(shown[l], state)[i] = shown[l][i]
  BY <1>1, <1>3, <1>4
<1>6. /\ shown' \in Seq(Seq(T)) /\ Len(shown') = Len(shown)
      /\ shown'[l] = Append(shown[l], state)
      /\ \A i \in 1..Len(shown) : i # l => shown'[i] = shown[i]
  BY <1>1, <1>2, <1>3, <1>5
<1>7. ShownKept
  <2>1. ASSUME NEW i \in 1..Len(shown)
        PROVE  /\ Len(shown[i]) <= Len(shown'[i])
               /\ \A j \in 1..Len(shown[i]) : shown'[i][j] = shown[i][j]
    <3>1. CASE i = l
      BY <3>1, <1>1, <1>5, <1>6
    <3>2. CASE i # l
      BY <3>2, <1>4, <1>6
    <3>3. QED
      BY <3>1, <3>2
  <2>2. QED
    BY <2>1, <1>6, <1>1 DEF ShownKept
<1>8. /\ host' \in Host /\ host'.life = l /\ host'.seq = host.seq + 1
      /\ host'.live = state
  <2>1. (host.wants /\ ~snapshot) \in BOOLEAN
    OBVIOUS
  <2>2. PICK w \in BOOLEAN : w = (host.wants /\ ~snapshot)
    BY <2>1, Zenon
  <2>3. host' = [host EXCEPT !.live = state, !.seq = @ + 1, !.wants = w]
    BY <1>2, <2>2
  <2>4. host \in Host /\ state \in [Keys -> States]
    BY DEF HostShape
  <2>5. host' = [module |-> host.module, route |-> host.route, life |-> host.life,
                 seq |-> host.seq + 1, live |-> state, wants |-> w]
    BY <2>3, <2>4 DEF Host
  <2>6. /\ host.module \in Modules /\ host.route \in Routes \cup {None}
        /\ host.life \in Nat
    BY <2>4 DEF Host
  <2>7. QED
    BY <1>1, <2>2, <2>4, <2>5, <2>6 DEF Host
<1>9. HostShape'
  BY <1>1, <1>5, <1>6, <1>8 DEF HostShape, T
<1>10. QED
  BY <1>5, <1>6, <1>7, <1>9

\* A batch under way still says what its host had.
LEMMA CarriesKept ==
    ASSUME HostShape, ShownKept, HostShape', NEW b, Carries(b)
    PROVE  Carries(b)'
<1>1. /\ b.life \in 1..Len(shown) /\ b.seq \in 1..Len(shown[b.life])
      /\ Len(shown) \in Nat /\ Len(shown') \in Nat
      /\ Len(shown[b.life]) \in Nat
  BY ShownTypes DEF Carries, HostShape
<1>2. /\ b.life \in 1..Len(shown') /\ Len(shown'[b.life]) \in Nat
  <2>1. b.life \in 1..Len(shown')
    BY <1>1 DEF ShownKept
  <2>2. shown' \in Seq(Seq([Keys -> States]))
    BY DEF HostShape
  <2>3. QED
    BY <2>1, <2>2, ShownTypes
<1>3. b.seq \in 1..Len(shown'[b.life])
  BY <1>1, <1>2 DEF ShownKept
<1>4. \A i \in 1..Len(shown[b.life]) : shown'[b.life][i] = shown[b.life][i]
  BY <1>1 DEF ShownKept
<1>5. \A k : Had(b.life, b.seq, k)' = Had(b.life, b.seq, k)
  BY <1>1, <1>4 DEF Had
<1>6. b.seq > 1 => \A k : Had(b.life, b.seq - 1, k)' = Had(b.life, b.seq - 1, k)
  BY <1>1, <1>4 DEF Had
<1>7. QED
  BY <1>2, <1>3, <1>5, <1>6 DEF Carries

\* Only a push reports a session gone, and it reports one.
LEMMA GoneOfBatch ==
    ASSUME NEW b, Carries(b)
    PROVE  /\ Gone(b) \subseteq Keys
           /\ Gone(b) = {} \/ \E e \in Keys : Gone(b) = {e} /\ DOMAIN b.entries = {e}
           /\ \A k \in DOMAIN b.entries \ Gone(b) : b.entries[k] \in Tracked
           /\ b.snapshot => Gone(b) = {}
           /\ \A k \in Gone(b) : Had(b.life, b.seq, k) = "gone"
<1>1. \A k \in DOMAIN b.entries : b.entries[k] = Had(b.life, b.seq, k)
  BY DEF Carries
<1>2. CASE b.snapshot
  <2>1. \A k \in DOMAIN b.entries : b.entries[k] \in Tracked
    BY <1>2 DEF Carries
  <2>2. Gone(b) = {}
    BY <2>1 DEF Gone, Tracked
  <2>3. QED
    BY <2>1, <2>2
<1>3. CASE ~b.snapshot
  <2>1. PICK e \in Keys : DOMAIN b.entries = {e} /\ b.entries[e] \in Tracked \cup {"gone"}
    BY <1>3 DEF Carries
  <2>2. QED
    BY <2>1, <1>1, <1>3 DEF Gone, Tracked
<1>4. QED
  BY <1>2, <1>3

\* A full set of gone sessions forgets one.
LEMMA RememberBounded ==
    ASSUME NEW gone, gone \subseteq Keys, IsFiniteSet(gone),
           Cardinality(gone) <= GoneCap, NEW e \in Keys
    PROVE  /\ Remember(gone, e) \subseteq gone \cup {e}
           /\ IsFiniteSet(Remember(gone, e))
           /\ Cardinality(Remember(gone, e)) <= GoneCap
<1> DEFINE all == gone \cup {e}
<1>1. /\ IsFiniteSet(all) /\ Cardinality(gone) \in Nat /\ Cardinality(all) \in Nat
      /\ Cardinality(all) <= Cardinality(gone) + 1
  BY FS_AddElement, FS_CardinalityType
<1>2. Min(all) \in all
  BY ConstantsAssumption, MinInSet
<1>3. /\ IsFiniteSet(all \ {Min(all)})
      /\ Cardinality(all \ {Min(all)}) = Cardinality(all) - 1
  BY <1>1, <1>2, FS_RemoveElement
<1> HIDE DEF all
<1>4. Remember(gone, e) = IF Cardinality(all) > GoneCap THEN all \ {Min(all)} ELSE all
  BY DEF Remember, all
<1>5. Remember(gone, e) \subseteq all
  BY <1>4
<1>6. CASE Cardinality(all) > GoneCap
  <2>1. Remember(gone, e) = all \ {Min(all)}
    BY <1>4, <1>6
  <2>2. Cardinality(all) - 1 <= GoneCap
    BY <1>1, ConstantsAssumption
  <2>3. QED
    BY <2>1, <2>2, <1>3, <1>5 DEF all
<1>7. CASE ~(Cardinality(all) > GoneCap)
  <2>1. Remember(gone, e) = all
    BY <1>4, <1>7
  <2>2. QED
    BY <2>1, <1>1, <1>7, ConstantsAssumption DEF all
<1>8. QED
  BY <1>6, <1>7

\* What the mirror is after it took a batch's entries.
LEMMA TakeMirror ==
    ASSUME NEW m \in Mirror, IsFiniteSet(m.gone), Cardinality(m.gone) <= GoneCap,
           NEW b, Carries(b)
    PROVE  /\ Take(m, b) \in Mirror
           /\ IsFiniteSet(Take(m, b).gone) /\ Cardinality(Take(m, b).gone) <= GoneCap
           /\ Take(m, b).gone \subseteq (m.gone \ (DOMAIN b.entries \ Gone(b))) \cup Gone(b)
           /\ \A k \in Keys : Take(m, b).sessions[k] =
                IF k \notin DOMAIN b.entries THEN m.sessions[k]
                ELSE IF k \in Gone(b) THEN "absent" ELSE b.entries[k]
           /\ Take(m, b).stale = m.stale /\ Take(m, b).seq = m.seq
           /\ Take(m, b).sender = m.sender
<1> DEFINE kept == m.gone \ (DOMAIN b.entries \ Gone(b))
           gone == FoldSet(LAMBDA k, g : Remember(g, k), kept, Gone(b))
           now == [k \in Keys |->
                     IF k \notin DOMAIN b.entries THEN m.sessions[k]
                     ELSE IF k \in Gone(b) THEN "absent" ELSE b.entries[k]]
<1>1. /\ m.seq \in Nat /\ m.stale \in BOOLEAN
      /\ m.sender \in [route: Routes \cup {None}, module: Modules \cup {None}]
      /\ m.sessions \in [Keys -> Tracked \cup {"absent"}] /\ m.gone \subseteq Keys
  BY DEF Mirror
<1>2. IsFiniteSet(kept) /\ Cardinality(kept) <= GoneCap /\ kept \subseteq Keys
  <2>1. kept \in SUBSET m.gone
    OBVIOUS
  <2>2. /\ IsFiniteSet(kept) /\ Cardinality(kept) <= Cardinality(m.gone)
        /\ Cardinality(kept) \in Nat /\ Cardinality(m.gone) \in Nat
    <3> HIDE DEF kept
    <3> QED BY <2>1, FS_Subset, FS_CardinalityType
  <2>3. QED
    BY <2>2, <1>1, ConstantsAssumption
<1>3. /\ gone \subseteq kept \cup Gone(b) /\ gone \subseteq Keys
      /\ IsFiniteSet(gone) /\ Cardinality(gone) <= GoneCap
  <2>1. CASE Gone(b) = {}
    <3>1. gone = kept
      <4> HIDE DEF kept
      <4> QED BY <2>1, TakeNone
    <3>2. QED
      BY <3>1, <1>2
  <2>2. ASSUME NEW e \in Keys, Gone(b) = {e}
        PROVE  /\ gone \subseteq kept \cup Gone(b) /\ gone \subseteq Keys
               /\ IsFiniteSet(gone) /\ Cardinality(gone) <= GoneCap
    <3>1. gone = Remember(kept, e)
      <4> HIDE DEF kept
      <4> QED BY <2>2, TakeOne
    <3>2. /\ Remember(kept, e) \subseteq kept \cup {e}
          /\ IsFiniteSet(Remember(kept, e))
          /\ Cardinality(Remember(kept, e)) <= GoneCap
      <4> HIDE DEF kept
      <4> QED BY <1>2, RememberBounded
    <3> HIDE DEF kept, gone
    <3>3. QED
      BY <3>1, <3>2, <2>2, <1>2
  <2>3. QED
    BY <2>1, <2>2, GoneOfBatch
<1>4. now \in [Keys -> Tracked \cup {"absent"}]
  BY <1>1, GoneOfBatch
<1>5. Take(m, b) = [seq |-> m.seq, stale |-> m.stale, sender |-> m.sender,
                    sessions |-> now, gone |-> gone]
  <2>1. Take(m, b) = [m EXCEPT !.sessions = now, !.gone = gone]
    BY DEF Take
  <2> HIDE DEF now, gone
  <2>2. QED
    BY <2>1 DEF Mirror
<1> HIDE DEF gone, kept
<1>6. Take(m, b) \in Mirror
  <2> HIDE DEF now
  <2> QED BY <1>1, <1>3, <1>4, <1>5 DEF Mirror
<1>7. \A k \in Keys : Take(m, b).sessions[k] =
        IF k \notin DOMAIN b.entries THEN m.sessions[k]
        ELSE IF k \in Gone(b) THEN "absent" ELSE b.entries[k]
  BY <1>5
<1>8. QED
  <2> HIDE DEF now
  <2> QED BY <1>3, <1>5, <1>6, <1>7 DEF kept

\* The mirror after a batch: a snapshot replaces it, and a push that leaves it
\* fresh is the next one of what it has.
LEMMA IngestedMirror ==
    ASSUME MirrorShape, NEW b, Carries(b)
    PROVE  /\ Ingested(b) \in Mirror
           /\ IsFiniteSet(Ingested(b).gone) /\ Cardinality(Ingested(b).gone) <= GoneCap
           /\ b.snapshot =>
                /\ ~Older(b) /\ ~Ingested(b).stale /\ Ingested(b).seq = b.seq
                /\ Ingested(b).gone = {}
                /\ \A k \in Keys : Ingested(b).sessions[k] =
                     IF k \in DOMAIN b.entries THEN b.entries[k] ELSE "absent"
           /\ ~b.snapshot /\ ~Ingested(b).stale =>
                /\ ~Older(b) /\ ~mirror.stale /\ ~SkipsAhead(b)
                /\ Ingested(b).seq = b.seq
                /\ Ingested(b).gone \subseteq
                     (mirror.gone \ (DOMAIN b.entries \ Gone(b))) \cup Gone(b)
                /\ \A k \in Keys : Ingested(b).sessions[k] =
                     IF k \notin DOMAIN b.entries THEN mirror.sessions[k]
                     ELSE IF k \in Gone(b) THEN "absent" ELSE b.entries[k]
<1>1. /\ mirror \in Mirror /\ IsFiniteSet(mirror.gone)
      /\ Cardinality(mirror.gone) <= GoneCap
  BY DEF MirrorShape
<1>2. /\ b.snapshot \in BOOLEAN
      /\ b.seq \in Nat
  <2>1. ASSUME NEW n PROVE 1..n \subseteq Nat
    OBVIOUS
  <2>2. QED
    BY <2>1 DEF Carries
<1>3. /\ mirror.seq \in Nat /\ mirror.stale \in BOOLEAN
      /\ mirror.sender \in [route: Routes \cup {None}, module: Modules \cup {None}]
      /\ mirror.sessions \in [Keys -> Tracked \cup {"absent"}]
      /\ mirror.gone \subseteq Keys
      /\ mirror = [seq |-> mirror.seq, stale |-> mirror.stale, sender |-> mirror.sender,
                   sessions |-> mirror.sessions, gone |-> mirror.gone]
  BY <1>1 DEF Mirror
<1>4. CASE Older(b)
  <2>1. Ingested(b) = [seq |-> mirror.seq, stale |-> TRUE, sender |-> mirror.sender,
                       sessions |-> mirror.sessions, gone |-> mirror.gone]
    BY <1>3, <1>4 DEF Ingested
  <2>2. Ingested(b) \in Mirror
    BY <2>1, <1>3 DEF Mirror
  <2>3. QED
    BY <2>1, <2>2, <1>1, <1>4 DEF Older
<1>5. CASE b.snapshot
  <2> PICK w \in BOOLEAN : w = FALSE
    OBVIOUS
  <2> DEFINE m == [seq |-> b.seq, stale |-> w, sender |-> mirror.sender,
                   sessions |-> Absent, gone |-> {}]
  <2>1. Rebased(b) = m /\ ~Older(b)
    <3>1. Rebased(b) = [mirror EXCEPT !.sessions = Absent, !.gone = {}, !.stale = w,
                                      !.seq = b.seq]
      BY DEF Rebased
    <3>2. Rebased(b) = m
      BY <3>1, <1>1 DEF Mirror
    <3>3. QED
      BY <3>2, <1>5 DEF Older
  <2>2. /\ m \in Mirror /\ IsFiniteSet(m.gone) /\ Cardinality(m.gone) <= GoneCap
        /\ m.gone = {} /\ m.stale = FALSE /\ m.seq = b.seq
        /\ \A k \in Keys : m.sessions[k] = "absent"
    BY <1>2, <1>3, FS_EmptySet, ConstantsAssumption DEF Mirror, Absent
  <2>3. Ingested(b) = Take(m, b)
    <3> HIDE DEF m
    <3> QED BY <2>1, <1>5 DEF Ingested
  <2> HIDE DEF m
  <2>4. /\ Ingested(b) \in Mirror
        /\ IsFiniteSet(Ingested(b).gone) /\ Cardinality(Ingested(b).gone) <= GoneCap
        /\ Ingested(b).gone \subseteq Gone(b)
        /\ \A k \in Keys : Ingested(b).sessions[k] =
             IF k \notin DOMAIN b.entries THEN m.sessions[k]
             ELSE IF k \in Gone(b) THEN "absent" ELSE b.entries[k]
        /\ Ingested(b).stale = FALSE /\ Ingested(b).seq = b.seq
    BY <2>2, <2>3, TakeMirror
  <2>5. Gone(b) = {}
    BY <1>5, GoneOfBatch
  <2>6. QED
    BY <2>1, <2>2, <2>4, <2>5, <1>5
<1>6. CASE ~b.snapshot /\ ~Older(b)
  <2>1. PICK w \in BOOLEAN : w = (mirror.stale \/ SenderChanged(b) \/ SkipsAhead(b))
    <3>1. (mirror.stale \/ SenderChanged(b) \/ SkipsAhead(b)) \in BOOLEAN
      OBVIOUS
    <3>2. QED
      BY <3>1, Zenon
  <2> DEFINE m == [seq |-> b.seq, stale |-> w, sender |-> mirror.sender,
                   sessions |-> mirror.sessions, gone |-> mirror.gone]
  <2>2. Followed(b) = m
    <3>1. Followed(b) = [mirror EXCEPT !.stale = w, !.seq = b.seq]
      BY <2>1, <1>1 DEF Followed
    <3>2. QED
      BY <3>1, <1>1 DEF Mirror
  <2>3. /\ m \in Mirror /\ IsFiniteSet(m.gone) /\ Cardinality(m.gone) <= GoneCap
        /\ m.gone = mirror.gone /\ m.stale = w /\ m.seq = b.seq
        /\ m.sessions = mirror.sessions
    BY <1>1, <1>2, <1>3, <2>1 DEF Mirror
  <2>4. Ingested(b) = Take(m, b)
    <3> HIDE DEF m
    <3> QED BY <2>2, <1>6 DEF Ingested
  <2> HIDE DEF m
  <2>5. /\ Ingested(b) \in Mirror
        /\ IsFiniteSet(Ingested(b).gone) /\ Cardinality(Ingested(b).gone) <= GoneCap
        /\ Ingested(b).gone \subseteq (mirror.gone \ (DOMAIN b.entries \ Gone(b))) \cup Gone(b)
        /\ \A k \in Keys : Ingested(b).sessions[k] =
             IF k \notin DOMAIN b.entries THEN mirror.sessions[k]
             ELSE IF k \in Gone(b) THEN "absent" ELSE b.entries[k]
        /\ Ingested(b).stale = w /\ Ingested(b).seq = b.seq
    BY <2>3, <2>4, TakeMirror
  <2>6. ~Ingested(b).stale => ~mirror.stale /\ ~SkipsAhead(b)
    BY <2>1, <2>5
  <2>7. QED
    BY <2>5, <2>6, <1>6
<1>7. QED
  BY <1>2, <1>4, <1>5, <1>6

\* A step that only changes the host's route and what it wants.
LEMMA HostKeeps ==
    ASSUME HostShape, shown' = shown, NEW r \in Routes \cup {None}, NEW w \in BOOLEAN,
           host' = [host EXCEPT !.route = r, !.wants = w]
    PROVE  HostShape' /\ ShownKept
<1>1. host \in Host
  BY DEF HostShape
<1>2. /\ host' \in Host /\ host'.life = host.life /\ host'.seq = host.seq
      /\ host'.live = host.live
  BY <1>1 DEF Host
<1>3. ShownKept
  <2>1. /\ Len(shown) \in Nat /\ \A l \in 1..Len(shown) : Len(shown[l]) \in Nat
    BY ShownTypes DEF HostShape
  <2>2. QED
    BY <2>1 DEF ShownKept
<1>4. QED
  BY <1>2, <1>3 DEF HostShape

\* No batch is new.
LEMMA FeedFewer ==
    ASSUME FeedInv, HostShape', ShownKept, MirrorShape', UnderWay' \subseteq UnderWay
    PROVE  FeedInv'
<1>1. \A b \in UnderWay : Carries(b)'
  BY CarriesKept DEF FeedInv
<1>2. QED
  BY <1>1 DEF FeedInv

\* A route that opens or closes can only make the mirror stale.
LEMMA MirrorKeeps ==
    ASSUME MirrorShape, NEW w \in BOOLEAN, mirror' = [mirror EXCEPT !.stale = w],
           bound' \in [Routes -> Modules \cup {None}]
    PROVE  MirrorShape'
<1>1. mirror \in Mirror
  BY DEF MirrorShape
<1>2. mirror' \in Mirror /\ mirror'.gone = mirror.gone
  BY <1>1 DEF Mirror
<1>3. QED
  BY <1>2 DEF MirrorShape

\* Nothing is reported, and nothing under way.
LEMMA InitFeed == Init => FeedInv
<1> SUFFICES ASSUME Init PROVE FeedInv
  OBVIOUS
<1>1. /\ host \in Host /\ host.life = 1 /\ host.seq = 0
  BY DEF Init, Host, Absent, States, Tracked
<1>2. /\ shown = << <<>> >> /\ shown \in Seq(Seq([Keys -> States]))
      /\ Len(shown) = 1 /\ shown[1] = <<>>
  BY DEF Init
<1>3. HostShape
  BY <1>1, <1>2 DEF HostShape
<1>4. MirrorShape
  BY FS_EmptySet, ConstantsAssumption
     DEF Init, MirrorShape, Mirror, EmptyMirror, NoSender, Absent, Tracked
<1>5. QED
  BY <1>3, <1>4 DEF FeedInv, UnderWay, Init

\* A report numbers a batch, which says what its host has then.
LEMMA ReportFeed ==
    ASSUME FeedInv, NEW snapshot \in BOOLEAN, NEW state \in [Keys -> States],
           NEW entries, Report(snapshot, state, entries),
           UNCHANGED <<admitted, bound, mirror>>,
           DOMAIN entries \subseteq Keys,
           \A k \in DOMAIN entries : entries[k] = state[k],
           snapshot =>
             /\ \A k \in DOMAIN entries : entries[k] \in Tracked
             /\ \A k \in Keys \ DOMAIN entries : state[k] = "absent",
           ~snapshot =>
             \E k \in Keys :
               /\ DOMAIN entries = {k} /\ entries[k] \in Tracked \cup {"gone"}
               /\ \A x \in Keys \ {k} : state[x] = host.live[x]
    PROVE  FeedInv'
<1> PICK new : new = Batch(snapshot, entries)
  OBVIOUS
<1>1. /\ HostShape' /\ ShownKept /\ Len(shown') = Len(shown)
      /\ Len(shown'[host.life]) = host.seq + 1
      /\ shown'[host.life][host.seq + 1] = state
  BY ReportShape DEF FeedInv
<1>2. /\ host.life \in 1..Len(shown) /\ host.seq \in Nat /\ Len(shown) \in Nat
      /\ host.seq = Len(shown[host.life])
      /\ host.seq > 0 => host.live = shown[host.life][host.seq]
  BY ShownTypes DEF FeedInv, HostShape, Host
<1>3. /\ new.life = host.life /\ new.seq = host.seq + 1 /\ new.snapshot = snapshot
      /\ new.entries = entries
  BY DEF Batch
<1>4. \A k : Had(new.life, new.seq, k)' = state[k]
  BY <1>1, <1>3 DEF Had
<1>5. new.seq > 1 => \A k : Had(new.life, new.seq - 1, k)' = host.live[k]
  <2> SUFFICES ASSUME new.seq > 1, NEW k
               PROVE  Had(new.life, new.seq - 1, k)' = host.live[k]
    OBVIOUS
  <2>1. new.seq - 1 = host.seq /\ host.seq > 0
    BY <1>2, <1>3
  <2>2. shown'[host.life][host.seq] = shown[host.life][host.seq]
    BY <1>1, <1>2, <2>1 DEF ShownKept
  <2>3. QED
    BY <2>1, <2>2, <1>2, <1>3 DEF Had
<1>6. Carries(new)'
  <2>1. new.life \in 1..Len(shown') /\ new.seq \in 1..Len(shown'[new.life])
    BY <1>1, <1>2, <1>3
  <2>2. ~new.snapshot =>
         \E k \in Keys :
           /\ DOMAIN new.entries = {k} /\ new.entries[k] \in Tracked \cup {"gone"}
           /\ new.seq > 1 => \A x \in Keys \ {k} :
                Had(new.life, new.seq, x)' = Had(new.life, new.seq - 1, x)'
    BY <1>3, <1>4, <1>5
  <2>3. /\ new.snapshot \in BOOLEAN /\ DOMAIN new.entries \subseteq Keys
        /\ \A k \in DOMAIN new.entries :
             new.entries[k] = Had(new.life, new.seq, k)'
    BY <1>3, <1>4
  <2>4. new.snapshot =>
         /\ \A k \in DOMAIN new.entries : new.entries[k] \in Tracked
         /\ \A k \in Keys \ DOMAIN new.entries : Had(new.life, new.seq, k)' = "absent"
    BY <1>3, <1>4
  <2>5. QED
    BY <2>1, <2>2, <2>3, <2>4 DEF Carries
<1>7. UnderWay' \subseteq UnderWay \cup {new}
  BY DEF Report, UnderWay
<1>8. MirrorShape'
  BY DEF FeedInv, MirrorShape
<1>9. QED
  BY <1>1, <1>6, <1>7, <1>8, CarriesKept DEF FeedInv

\* A push carries the session that changed.
LEMMA ChangeFeed ==
    ASSUME FeedInv, NEW k \in Keys, NEW s \in Tracked \cup {"gone"}, Change(k, s)
    PROVE  FeedInv'
<1> DEFINE state == [host.live EXCEPT ![k] = s]
           entries == [x \in {k} |-> s]
<1>1. host.live \in [Keys -> States]
  BY DEF FeedInv, HostShape, Host
<1>2. /\ state \in [Keys -> States]
      /\ DOMAIN entries = {k} /\ entries[k] = s /\ state[k] = s
      /\ \A x \in Keys \ {k} : state[x] = host.live[x]
  BY <1>1 DEF States
<1> PICK w \in BOOLEAN : w = FALSE
  OBVIOUS
<1>3. Report(w, state, entries) /\ UNCHANGED <<admitted, bound, mirror>>
  BY DEF Change, mirrorVars
<1> HIDE DEF state, entries
<1>4. /\ DOMAIN entries \subseteq Keys
      /\ \A x \in DOMAIN entries : entries[x] = state[x]
      /\ \E x \in Keys :
           /\ DOMAIN entries = {x} /\ entries[x] \in Tracked \cup {"gone"}
           /\ \A y \in Keys \ {x} : state[y] = host.live[y]
  BY <1>2
<1>5. QED
  BY <1>2, <1>3, <1>4, ReportFeed

\* A snapshot carries the sessions the host tracks.
LEMMA SnapshotFeed ==
    ASSUME FeedInv, Snapshot
    PROVE  FeedInv'
<1> DEFINE now == {k \in Keys : host.live[k] \in Tracked}
           state == [k \in Keys |-> IF k \in now THEN host.live[k] ELSE "absent"]
           entries == [k \in now |-> host.live[k]]
<1>1. state \in [Keys -> States]
  BY DEF States
<1>2. /\ DOMAIN entries \subseteq Keys
      /\ \A k \in DOMAIN entries : entries[k] = state[k] /\ entries[k] \in Tracked
      /\ \A k \in Keys \ DOMAIN entries : state[k] = "absent"
  OBVIOUS
<1>3. Report(TRUE, state, entries) /\ UNCHANGED <<admitted, bound, mirror>>
  BY DEF Snapshot, mirrorVars
<1> HIDE DEF now, state, entries
<1>4. QED
  BY <1>1, <1>2, <1>3, ReportFeed

\* A host that connects changes its route and may make the mirror stale.
LEMMA ConnectFeed ==
    ASSUME FeedInv, NEW r \in Routes, Connect(r)
    PROVE  FeedInv'
<1>1. host \in Host /\ shown' = shown
  BY DEF FeedInv, HostShape, Connect
<1>2. HostShape' /\ ShownKept
  <2>1. host' = [host EXCEPT !.route = r, !.wants = TRUE]
    BY DEF Connect
  <2>2. QED
    BY <1>1, <2>1, HostKeeps DEF FeedInv
<1>3. MirrorShape'
  <2>1. PICK w \in BOOLEAN :
          w = (mirror.stale \/ (bound[r] # None /\ mirror.sender.route = r))
    <3>1. (mirror.stale \/ (bound[r] # None /\ mirror.sender.route = r)) \in BOOLEAN
      OBVIOUS
    <3>2. QED
      BY <3>1, Zenon
  <2>2. mirror' = [mirror EXCEPT !.stale = w]
    BY <2>1 DEF Connect, OnBind
  <2>3. bound' \in [Routes -> Modules \cup {None}]
    BY <1>1 DEF FeedInv, MirrorShape, Connect, Host
  <2>4. QED
    BY <2>2, <2>3, MirrorKeeps DEF FeedInv
<1>4. UnderWay' \subseteq UnderWay
  BY DEF Connect, UnderWay
<1>5. QED
  BY <1>2, <1>3, <1>4, FeedFewer

\* So does a route that closes.
LEMMA RouteGoneFeed ==
    ASSUME FeedInv, NEW r \in Routes, RouteGone(r)
    PROVE  FeedInv'
<1>1. host \in Host /\ shown' = shown
  BY DEF FeedInv, HostShape, RouteGone
<1>2. HostShape' /\ ShownKept
  <2>1. PICK q \in Routes \cup {None} : q = IF host.route = r THEN None ELSE host.route
    BY <1>1 DEF Host
  <2>2. host' = [host EXCEPT !.route = q, !.wants = host.wants] /\ host.wants \in BOOLEAN
    BY <1>1, <2>1 DEF RouteGone, Host
  <2>3. QED
    BY <1>1, <2>2, HostKeeps DEF FeedInv
<1>3. MirrorShape'
  <2>1. PICK w \in BOOLEAN : w = (mirror.stale \/ mirror.sender.route = r)
    <3>1. (mirror.stale \/ mirror.sender.route = r) \in BOOLEAN
      OBVIOUS
    <3>2. QED
      BY <3>1, Zenon
  <2>2. mirror' = [mirror EXCEPT !.stale = w]
    BY <2>1 DEF RouteGone, OnRouteGone
  <2>3. bound' \in [Routes -> Modules \cup {None}]
    BY DEF FeedInv, MirrorShape, RouteGone
  <2>4. QED
    BY <2>2, <2>3, MirrorKeeps DEF FeedInv
<1>4. UnderWay' \subseteq UnderWay
  BY DEF RouteGone, UnderWay
<1>5. QED
  BY <1>2, <1>3, <1>4, FeedFewer

\* A new process counts from one again.
LEMMA ReplaceShape ==
    ASSUME HostShape, NEW m \in Modules, Replace(m)
    PROVE  HostShape' /\ ShownKept
<1> DEFINE T == [Keys -> States]
<1>1. /\ shown \in Seq(Seq(T)) /\ host.life = Len(shown) /\ Len(shown) \in Nat
      /\ \A l \in 1..Len(shown) : Len(shown[l]) \in Nat
  BY ShownTypes DEF HostShape
<1>2. /\ shown' = Append(shown, <<>>)
      /\ host' = [module |-> m, life |-> Len(shown) + 1, route |-> None,
                  seq |-> 0, live |-> Absent, wants |-> FALSE]
  BY <1>1 DEF Replace
<1>3. Absent \in T
  BY DEF Absent, States
<1>4. host' \in Host
  BY <1>1, <1>2, <1>3 DEF Host
<1> HIDE DEF T
<1>5. <<>> \in Seq(T)
  OBVIOUS
<1>6. /\ shown' \in Seq(Seq(T)) /\ Len(shown') = Len(shown) + 1
      /\ shown'[Len(shown) + 1] = <<>>
      /\ \A l \in 1..Len(shown) : shown'[l] = shown[l]
  BY <1>1, <1>2, <1>5
<1>7. ShownKept
  BY <1>1, <1>6 DEF ShownKept
<1>8. HostShape'
  <2>1. host'.life = Len(shown) + 1 /\ host'.seq = 0
    BY <1>2
  <2>2. QED
    BY <1>1, <1>4, <1>6, <2>1 DEF HostShape, T
<1>9. QED
  BY <1>7, <1>8

\* The batches of the process before stay as they were.
LEMMA ReplaceFeed ==
    ASSUME FeedInv, NEW m \in Modules, Replace(m)
    PROVE  FeedInv'
<1>1. HostShape' /\ ShownKept
  BY ReplaceShape DEF FeedInv
<1>2. UNCHANGED <<mirror, bound, flight, admitted>>
  BY DEF Replace, wire, mirrorVars
<1>3. MirrorShape' /\ UnderWay' \subseteq UnderWay
  BY <1>2 DEF FeedInv, MirrorShape, UnderWay
<1>4. QED
  BY <1>1, <1>3, FeedFewer

\* A lost snapshot is asked for again.
LEMMA LoseFeed ==
    ASSUME FeedInv, NEW b \in flight, Lose(b)
    PROVE  FeedInv'
<1>1. host \in Host
  BY DEF FeedInv, HostShape
<1>2. PICK w \in BOOLEAN : w = (host.wants \/ (b.snapshot /\ b.life = host.life))
  <2>1. (host.wants \/ (b.snapshot /\ b.life = host.life)) \in BOOLEAN
    OBVIOUS
  <2>2. QED
    BY <2>1, Zenon
<1>3. /\ host' = [host EXCEPT !.route = host.route, !.wants = w]
      /\ host.route \in Routes \cup {None}
  <2>1. host' = [host EXCEPT !.wants = w]
    BY <1>2 DEF Lose
  <2>2. QED
    BY <1>1, <2>1 DEF Host
<1>4. HostShape' /\ ShownKept
  BY <1>3, HostKeeps DEF FeedInv, Lose
<1>5. MirrorShape' /\ UnderWay' \subseteq UnderWay
  BY DEF Lose, FeedInv, MirrorShape, mirrorVars, UnderWay
<1>6. QED
  BY <1>4, <1>5, FeedFewer

\* A step that leaves host, mirror and routes alone.
LEMMA SameFeed ==
    ASSUME FeedInv, UNCHANGED <<host, shown, mirror, bound>>, UnderWay' \subseteq UnderWay
    PROVE  FeedInv'
<1>1. HostShape' /\ MirrorShape'
  BY DEF FeedInv, HostShape, MirrorShape
<1>2. /\ Len(shown) \in Nat /\ \A l \in 1..Len(shown) : Len(shown[l]) \in Nat
  BY ShownTypes DEF FeedInv, HostShape
<1>3. ShownKept
  BY <1>2 DEF ShownKept
<1>4. QED
  BY <1>1, <1>3, FeedFewer

\* A batch that is received is under way until it is applied.
LEMMA DeliverFeed ==
    ASSUME FeedInv, NEW b \in flight, Deliver(b)
    PROVE  FeedInv'
<1>1. UNCHANGED <<host, shown, mirror, bound>> /\ UnderWay' \subseteq UnderWay
  BY DEF Deliver, Admit, hostVars, mirrorVars, UnderWay
<1>2. QED
  BY <1>1, SameFeed

\* What Apply makes of the mirror.
LEMMA ApplyMirror ==
    ASSUME FeedInv, NEW b \in admitted, Apply(b), b.route \in Routes, b.module \in Modules
    PROVE  /\ MirrorShape'
           /\ mirror'.sender = [route |-> b.route, module |-> b.module]
           /\ mirror'.stale = Ingested(b).stale /\ mirror'.seq = Ingested(b).seq
           /\ mirror'.sessions = Ingested(b).sessions /\ mirror'.gone = Ingested(b).gone
<1> DEFINE s == [route |-> b.route, module |-> b.module]
<1>1. /\ Ingested(b) \in Mirror /\ IsFiniteSet(Ingested(b).gone)
      /\ Cardinality(Ingested(b).gone) <= GoneCap
  BY IngestedMirror DEF FeedInv, UnderWay
<1>2. PICK m : m = Ingested(b)
  OBVIOUS
<1>3. mirror' = [m EXCEPT !.sender = s]
  BY <1>2 DEF Apply
<1>4. s \in [route: Routes \cup {None}, module: Modules \cup {None}]
  OBVIOUS
<1> HIDE DEF s
<1>5. /\ m \in Mirror
  BY <1>1, <1>2
<1>6. /\ mirror' = [seq |-> m.seq, stale |-> m.stale, sender |-> s,
                    sessions |-> m.sessions, gone |-> m.gone]
  BY <1>3, <1>5 DEF Mirror
<1>7. mirror' \in Mirror
  BY <1>4, <1>5, <1>6 DEF Mirror
<1>8. bound' = bound
  BY DEF Apply
<1>9. MirrorShape'
  BY <1>1, <1>2, <1>6, <1>7, <1>8 DEF MirrorShape, FeedInv
<1>10. QED
  BY <1>2, <1>6, <1>9 DEF s

\* An applied batch leaves the mirror in shape.
LEMMA ApplyFeed ==
    ASSUME FeedInv, NEW b \in admitted, Apply(b), b.route \in Routes, b.module \in Modules
    PROVE  FeedInv'
<1>1. host \in Host
  BY DEF FeedInv, HostShape
<1>2. PICK heard \in BOOLEAN : Answered(b, heard)
  BY DEF Apply
<1>3. PICK w \in BOOLEAN :
        w = (host.wants \/ (heard /\ b.life = host.life /\ mirror'.stale))
  <2>1. (host.wants \/ (heard /\ b.life = host.life /\ mirror'.stale)) \in BOOLEAN
    OBVIOUS
  <2>2. QED
    BY <2>1, Zenon
<1>4. /\ host' = [host EXCEPT !.route = host.route, !.wants = w]
      /\ host.route \in Routes \cup {None}
  <2>1. host' = [host EXCEPT !.wants = w]
    BY <1>2, <1>3 DEF Answered
  <2>2. QED
    BY <1>1, <2>1 DEF Host
<1>5. HostShape' /\ ShownKept
  BY <1>4, HostKeeps DEF FeedInv, Apply
<1>6. UnderWay' \subseteq UnderWay
  BY DEF Apply, UnderWay
<1>7. QED
  BY <1>5, <1>6, ApplyMirror, FeedFewer

\* A restart empties the mirror.
LEMMA RestartFeed ==
    ASSUME FeedInv, Restart
    PROVE  FeedInv'
<1>1. host \in Host
  BY DEF FeedInv, HostShape
<1>2. host' = [host EXCEPT !.route = None, !.wants = host.wants] /\ host.wants \in BOOLEAN
  BY <1>1 DEF Restart, Host
<1>3. HostShape' /\ ShownKept
  BY <1>2, HostKeeps DEF FeedInv, Restart
<1>4. MirrorShape' /\ UnderWay' \subseteq UnderWay
  BY FS_EmptySet, ConstantsAssumption
     DEF Restart, MirrorShape, Mirror, EmptyMirror, NoSender, Absent, Tracked, UnderWay
<1>5. QED
  BY <1>3, <1>4, FeedFewer

\* The batches were sent on routes, by modules.
Addressed == \A b \in UnderWay : b.route \in Routes /\ b.module \in Modules

\* A batch is orphaned while it is being handled.
LEMMA NextOrphans ==
    ASSUME orphaned \subseteq admitted, [Next]_vars
    PROVE  (orphaned \subseteq admitted)'
<1>1. CASE UNCHANGED <<admitted, orphaned>>
  BY <1>1
<1>2. CASE ~UNCHANGED <<admitted, orphaned>>
  BY <1>2 DEF Next, vars, Change, Snapshot, Connect, RouteGone, OnRoute, Replace, Lose,
              Deliver, Admit, Apply, Register, TakeStamps, WriteStamps, Restart, wire
<1>3. QED
  BY <1>1, <1>2

\* What a host sends is addressed with its route and module.
LEMMA NextAddressed ==
    ASSUME FeedInv, Addressed, [Next]_vars
    PROVE  Addressed'
<1>1. host.route \in Routes \cup {None} /\ host.module \in Modules
  BY DEF FeedInv, HostShape, Host
<1>2. ASSUME NEW snapshot, NEW state, NEW entries,
             Report(snapshot, state, entries), admitted' = admitted
      PROVE  Addressed'
  BY <1>1, <1>2 DEF Report, Batch, Addressed, UnderWay
<1>3. ASSUME UnderWay' \subseteq UnderWay PROVE Addressed'
  BY <1>3 DEF Addressed
<1>4. ASSUME NEW k, NEW s, Change(k, s) PROVE Addressed'
  BY <1>2, <1>4 DEF Change
<1>5. CASE Snapshot
  BY <1>2, <1>5 DEF Snapshot
<1>6. ASSUME ~Snapshot, ~\E k \in Keys, s \in Tracked \cup {"gone"} : Change(k, s)
      PROVE  UnderWay' \subseteq UnderWay
  BY <1>6 DEF Next, vars, Connect, RouteGone, Replace, Lose, Deliver, Admit, Apply,
              Register, TakeStamps, WriteStamps, Restart, UnderWay, wire, hostVars
<1>7. QED
  BY <1>3, <1>4, <1>5, <1>6

\* Every step keeps the reports, the batches and the mirror in shape.
LEMMA NextFeed ==
    ASSUME FeedInv, Addressed, [Next]_vars
    PROVE  FeedInv'
<1>1. ASSUME NEW k \in Keys, NEW s \in Tracked \cup {"gone"}, Change(k, s) PROVE FeedInv'
  BY <1>1, ChangeFeed
<1>2. CASE Snapshot
  BY <1>2, SnapshotFeed
<1>3. ASSUME NEW r \in Routes, Connect(r) \/ RouteGone(r) PROVE FeedInv'
  BY <1>3, ConnectFeed, RouteGoneFeed
<1>4. ASSUME NEW m \in Modules, Replace(m) PROVE FeedInv'
  BY <1>4, ReplaceFeed
<1>5. ASSUME NEW b \in flight, Lose(b) \/ Deliver(b) PROVE FeedInv'
  BY <1>5, LoseFeed, DeliverFeed
<1>6. ASSUME NEW b \in admitted, Apply(b) PROVE FeedInv'
  <2>1. b.route \in Routes /\ b.module \in Modules
    BY DEF Addressed, UnderWay
  <2>2. QED
    BY <1>6, <2>1, ApplyFeed
<1>7. CASE \/ \E k \in Keys : Register(k)
           \/ TakeStamps \/ WriteStamps \/ UNCHANGED vars
  <2>1. UNCHANGED <<host, shown, mirror, bound, flight, admitted>>
    BY <1>7 DEF Register, TakeStamps, WriteStamps, vars, hostVars, wire, mirrorVars
  <2>2. QED
    BY <2>1, SameFeed DEF UnderWay
<1>8. CASE Restart
  BY <1>8, RestartFeed
<1>9. QED
  BY <1>1, <1>2, <1>3, <1>4, <1>5, <1>6, <1>7, <1>8 DEF Next

\* No step takes a report back.
LEMMA NextKept ==
    ASSUME FeedInv, [Next]_vars
    PROVE  ShownKept
<1>1. host.live \in [Keys -> States]
  BY DEF FeedInv, HostShape, Host
<1>2. ASSUME shown' = shown PROVE ShownKept
  <2>1. Len(shown) \in Nat /\ \A l \in 1..Len(shown) : Len(shown[l]) \in Nat
    BY ShownTypes DEF FeedInv, HostShape
  <2>2. QED
    BY <1>2, <2>1 DEF ShownKept
<1>3. ASSUME NEW k \in Keys, NEW s \in Tracked \cup {"gone"}, Change(k, s)
      PROVE  ShownKept
  <2>1. [host.live EXCEPT ![k] = s] \in [Keys -> States]
    BY <1>1 DEF States
  <2>2. QED
    BY <1>3, <2>1, ReportShape DEF Change, FeedInv
<1>4. CASE Snapshot
  <2> DEFINE now == {k \in Keys : host.live[k] \in Tracked}
  <2>1. [k \in Keys |-> IF k \in now THEN host.live[k] ELSE "absent"] \in [Keys -> States]
    BY DEF States
  <2>2. QED
    BY <1>4, <2>1, ReportShape DEF Snapshot, FeedInv
<1>5. ASSUME NEW m \in Modules, Replace(m) PROVE ShownKept
  BY <1>5, ReplaceShape DEF FeedInv
<1>6. CASE \/ \E r \in Routes : Connect(r) \/ RouteGone(r)
           \/ \E b \in flight : Lose(b) \/ Deliver(b)
           \/ \E b \in admitted : Apply(b)
           \/ \E k \in Keys : Register(k)
           \/ TakeStamps \/ WriteStamps \/ Restart \/ UNCHANGED vars
  <2>1. shown' = shown
    BY <1>6 DEF Connect, RouteGone, Lose, Deliver, Admit, Apply, Register, TakeStamps,
                WriteStamps, Restart, vars, hostVars
  <2>2. QED
    BY <2>1, <1>2
<1>7. QED
  BY <1>3, <1>4, <1>5, <1>6 DEF Next

\* A session that was reported gone stays so.
LEMMA ReportedKept ==
    ASSUME HostShape, HostShape', ShownKept, NEW k, ReportedGone(k)
    PROVE  ReportedGone(k)'
<1>1. PICK l \in DOMAIN shown : \E j \in DOMAIN shown[l] : shown[l][j][k] = "gone"
  BY DEF ReportedGone, Lives
<1>2. PICK i \in DOMAIN shown[l] : shown[l][i][k] = "gone"
  BY <1>1
<1>3. /\ Len(shown) \in Nat /\ l \in 1..Len(shown)
      /\ Len(shown[l]) \in Nat /\ i \in 1..Len(shown[l])
  <2>1. shown \in Seq(Seq([Keys -> States]))
    BY DEF HostShape
  <2>2. Len(shown) \in Nat /\ l \in 1..Len(shown)
    BY <1>1, <2>1, ShownTypes
  <2>3. Len(shown[l]) \in Nat /\ DOMAIN shown[l] = 1..Len(shown[l])
    BY <2>1, <2>2, ShownTypes
  <2>4. QED
    BY <1>2, <2>2, <2>3
<1>4. shown' \in Seq(Seq([Keys -> States]))
  BY DEF HostShape
<1>5. /\ l \in DOMAIN shown' /\ Len(shown'[l]) \in Nat
      /\ DOMAIN shown'[l] = 1..Len(shown'[l])
  <2>1. Len(shown') \in Nat /\ DOMAIN shown' = 1..Len(shown') /\ l \in 1..Len(shown')
    BY <1>3, <1>4, ShownTypes DEF ShownKept
  <2>2. QED
    BY <2>1, <1>4, ShownTypes
<1>6. i \in DOMAIN shown'[l] /\ shown'[l][i] = shown[l][i]
  BY <1>3, <1>5 DEF ShownKept
<1>7. QED
  BY <1>2, <1>5, <1>6 DEF ReportedGone, Lives

\* Nothing is queued, and no binding ended.
LEMMA InitUpkeep == Init => UpkeepInv
<1> SUFFICES ASSUME Init PROVE UpkeepInv
  OBVIOUS
<1>1. UpkeepShape
  BY ConstantsAssumption DEF Init, UpkeepShape, IdleUpkeep, Binding
<1>2. QED
  BY <1>1 DEF UpkeepInv, Init, IdleUpkeep, EndsOnlyWhenReported, EndIsOfThisRun

\* Stamps and bindings as they were.
LEMMA SameUpkeep ==
    ASSUME UpkeepInv, UNCHANGED <<upkeep, binding>>,
           \A k \in Keys : ReportedGone(k) => ReportedGone(k)'
    PROVE  UpkeepInv'
<1>1. UpkeepShape'
  BY DEF UpkeepInv, UpkeepShape
<1>2. ASSUME NEW s \in Stamps, StampDue(s) PROVE StampDue(s)'
  BY <1>2 DEF StampDue, Stamps
<1>3. /\ \A i \in DOMAIN upkeep.queue : upkeep.queue[i] \in Stamps
      /\ \A i \in DOMAIN upkeep.job : upkeep.job[i] \in Stamps
  BY DEF UpkeepInv, UpkeepShape
<1>4. /\ \A i \in DOMAIN upkeep'.queue : StampDue(upkeep.queue[i])'
      /\ \A i \in DOMAIN upkeep'.job : StampDue(upkeep.job[i])'
  BY <1>2, <1>3 DEF UpkeepInv
<1>5. EndsOnlyWhenReported' /\ EndIsOfThisRun'
  BY DEF UpkeepInv, EndsOnlyWhenReported, EndIsOfThisRun, ReportedGone
<1>6. QED
  BY <1>1, <1>4, <1>5 DEF UpkeepInv

\* What a full queue leaves out is at the end of the batch's stamps.
LEMMA FittingStamps ==
    ASSUME UpkeepShape, NEW ended \in Seq(Stamps)
    PROVE  /\ Fitting(ended) \in Seq(Stamps)
           /\ Len(upkeep.queue \o Fitting(ended)) <= PendingCap
           /\ \A i \in DOMAIN Fitting(ended) : \E j \in DOMAIN ended : Fitting(ended)[i] = ended[j]
<1> DEFINE room == PendingCap - Len(upkeep.queue)
           n == IF Len(ended) < room THEN Len(ended) ELSE room
<1>1. /\ Len(upkeep.queue) \in Nat /\ upkeep.queue \in Seq(Stamps)
      /\ room \in Nat /\ Len(ended) \in Nat /\ n \in Nat /\ n <= Len(ended) /\ n <= room
  BY ConstantsAssumption DEF UpkeepShape
<1>2. Fitting(ended) = SubSeq(ended, 1, n)
  BY DEF Fitting
<1> HIDE DEF n
<1>3. /\ SubSeq(ended, 1, n) \in Seq(Stamps) /\ Len(SubSeq(ended, 1, n)) = n
      /\ \A i \in 1..n : SubSeq(ended, 1, n)[i] = ended[i]
  BY <1>1
<1>4. Len(upkeep.queue \o Fitting(ended)) = Len(upkeep.queue) + n
  <2>1. Fitting(ended) \in Seq(Stamps) /\ Len(Fitting(ended)) = n
    BY <1>2, <1>3
  <2>2. QED
    BY <2>1, <1>1
<1>5. Len(upkeep.queue) + n <= PendingCap
  BY <1>1, ConstantsAssumption
<1>6. \A i \in 1..n : i \in DOMAIN ended
  BY <1>1
<1>7. QED
  BY <1>2, <1>3, <1>4, <1>5, <1>6

\* A batch queues stamps for what its host reported gone.
LEMMA ApplyUpkeep ==
    ASSUME FeedInv, UpkeepInv, NEW b \in admitted, Apply(b)
    PROVE  UpkeepInv'
<1> DEFINE S == {Stamp(k) : k \in Gone(b)}
<1>1. Carries(b) /\ Gone(b) \subseteq Keys
  BY GoneOfBatch DEF FeedInv, UnderWay
<1>2. \A k \in Keys : binding[k].runs \in Nat
  BY DEF UpkeepInv, UpkeepShape, Binding
<1>3. \A k \in Gone(b) : ReportedGone(k)
  <2>1. b.life \in DOMAIN shown /\ b.seq \in DOMAIN shown[b.life]
    BY <1>1, ShownTypes DEF Carries, FeedInv, HostShape
  <2>2. \A k \in Gone(b) : shown[b.life][b.seq][k] = "gone"
    BY <1>1, GoneOfBatch DEF Had
  <2>3. QED
    BY <2>1, <2>2 DEF ReportedGone, Lives
<1>4. \A s \in S : s \in Stamps /\ StampDue(s)
  <2>1. ASSUME NEW k \in Gone(b) PROVE Stamp(k) \in Stamps /\ StampDue(Stamp(k))
    BY <1>1, <1>2, <1>3 DEF Stamp, Stamps, StampDue
  <2>2. QED
    BY <2>1
<1>5. IsFiniteSet(S)
  <2>1. CASE Gone(b) = {}
    BY <2>1, FS_EmptySet
  <2>2. ASSUME NEW e, Gone(b) = {e} PROVE IsFiniteSet(S)
    <3>1. S = {Stamp(e)}
      BY <2>2
    <3>2. QED
      BY <3>1, FS_Singleton
  <2>3. QED
    BY <2>1, <2>2, <1>1, GoneOfBatch
<1> HIDE DEF S
<1>6. PICK ended : ended = IF Older(b) THEN <<>> ELSE SetToSeq(S)
  OBVIOUS
<1>7. ended \in Seq(S)
  BY <1>5, <1>6, SeqOfSet
<1>8. /\ ended \in Seq(Stamps)
      /\ \A i \in DOMAIN ended : StampDue(ended[i])
  BY <1>4, <1>7
<1>9. Push(ended)
  BY <1>6 DEF Apply, S
<1>10. UNCHANGED <<shown, binding>>
  BY DEF Apply
<1>11. \A k \in Keys : ReportedGone(k) => ReportedGone(k)'
  BY <1>10 DEF ReportedGone, Lives
<1>12. CASE ended = <<>>
  BY <1>9, <1>10, <1>11, <1>12, SameUpkeep DEF Push
<1>13. CASE ended # <<>>
  <2> PICK q : q = upkeep.queue \o Fitting(ended)
    OBVIOUS
  <2> PICK job : job = upkeep.job
    OBVIOUS
  <2>1. /\ upkeep \in [queue: Seq(Stamps), wake: BOOLEAN, job: Seq(Stamps)]
        /\ UpkeepShape
    BY DEF UpkeepInv, UpkeepShape
  <2>2. upkeep' = [queue |-> q, wake |-> TRUE, job |-> job]
    BY <1>9, <1>13, <2>1 DEF Push
  <2>3. /\ Fitting(ended) \in Seq(Stamps) /\ Len(q) <= PendingCap
        /\ \A i \in DOMAIN Fitting(ended) : StampDue(Fitting(ended)[i])
    BY <1>8, <2>1, FittingStamps
  <2>4. upkeep.queue \in Seq(Stamps) /\ job \in Seq(Stamps)
    BY <2>1
  <2>5. q \in Seq(Stamps)
    BY <2>3, <2>4
  <2>6. ASSUME NEW i \in DOMAIN q PROVE StampDue(q[i])
    <3>1. /\ i \in 1..(Len(upkeep.queue) + Len(Fitting(ended)))
          /\ Len(upkeep.queue) \in Nat /\ Len(Fitting(ended)) \in Nat
      BY <2>3, <2>4
    <3>2. CASE i <= Len(upkeep.queue)
      <4>1. i \in DOMAIN upkeep.queue /\ q[i] = upkeep.queue[i]
        BY <3>1, <3>2, <2>3, <2>4
      <4>2. QED
        BY <4>1 DEF UpkeepInv
    <3>3. CASE i > Len(upkeep.queue)
      <4>1. /\ i - Len(upkeep.queue) \in DOMAIN Fitting(ended)
            /\ q[i] = Fitting(ended)[i - Len(upkeep.queue)]
        BY <3>1, <3>3, <2>3, <2>4
      <4>2. QED
        BY <4>1, <2>3
    <3>4. QED
      BY <3>1, <3>2, <3>3
  <2>7. UpkeepShape'
    BY <2>1, <2>2, <2>3, <2>4, <2>5, <1>10 DEF UpkeepShape
  <2>8. ASSUME NEW s, StampDue(s) PROVE StampDue(s)'
    BY <2>8, <1>10 DEF StampDue, ReportedGone, Lives
  <2>9. upkeep'.queue = q /\ upkeep'.job = job
    BY <2>2
  <2>10. /\ (\A i \in DOMAIN upkeep.queue : StampDue(upkeep.queue[i]))'
         /\ (\A i \in DOMAIN upkeep.job : StampDue(upkeep.job[i]))'
    <3>1. \A i \in DOMAIN q : StampDue(q[i])'
      BY <2>6, <2>8
    <3>2. \A i \in DOMAIN job : StampDue(job[i])'
      BY <2>8 DEF UpkeepInv
    <3>3. QED
      BY <3>1, <3>2, <2>9
  <2>11. EndsOnlyWhenReported' /\ EndIsOfThisRun'
    BY <1>10 DEF UpkeepInv, EndsOnlyWhenReported, EndIsOfThisRun, Lives
  <2>12. QED
    BY <2>7, <2>10, <2>11 DEF UpkeepInv
<1>14. QED
  BY <1>12, <1>13

\* A registration starts a new run: a stamp of an earlier one that waits is crossed.
LEMMA RegisterUpkeep ==
    ASSUME UpkeepInv, NEW k \in Keys, Register(k)
    PROVE  UpkeepInv'
<1>1. /\ UNCHANGED <<shown, upkeep>>
      /\ binding \in [Keys -> Binding] /\ UpkeepShape
  BY DEF Register, hostVars, UpkeepInv, UpkeepShape
<1>2. PICK w \in BOOLEAN : w = StampWaits(k)
  <2>1. StampWaits(k) \in BOOLEAN
    BY DEF StampWaits
  <2>2. QED
    BY <2>1, Zenon
<1> PICK open \in BOOLEAN : open = FALSE
  OBVIOUS
<1>3. PICK old, n : old = binding[k] /\ n = binding[k].runs + 1
  OBVIOUS
<1>4. PICK new : new = [old EXCEPT !.runs = n, !.ended = open, !.crossed = w]
  OBVIOUS
<1>5. /\ binding' \in [Keys -> Binding]
      /\ binding'[k].crossed = w /\ ~binding'[k].ended
      /\ \A x \in Keys \ {k} : binding'[x] = binding[x]
  <2>1. old \in Binding /\ n \in Nat
    BY <1>1, <1>3 DEF Binding
  <2>2. new = [runs |-> n, ended |-> open, endOf |-> old.endOf, crossed |-> w]
    BY <1>4, <2>1 DEF Binding
  <2>3. new \in Binding /\ new.crossed = w /\ ~new.ended
    BY <2>1, <2>2 DEF Binding
  <2>4. binding' = [binding EXCEPT ![k] = new]
    <3>1. binding' = [binding EXCEPT ![k] =
                        [binding[k] EXCEPT !.runs = binding[k].runs + 1, !.ended = open,
                                           !.crossed = w]]
      BY <1>2 DEF Register
    <3>2. QED
      BY <3>1, <1>3, <1>4
  <2>5. QED
    BY <2>3, <2>4, <1>1
<1>6. \A x : ReportedGone(x)' = ReportedGone(x)
  BY <1>1 DEF ReportedGone, Lives
<1>7. ASSUME NEW s \in Stamps, StampDue(s), s.key = k => w
      PROVE  StampDue(s)'
  <2>1. CASE s.key = k
    BY <1>5, <1>6, <1>7, <2>1 DEF StampDue
  <2>2. CASE s.key # k
    BY <1>5, <1>6, <1>7, <2>2 DEF StampDue, Stamps
  <2>3. QED
    BY <2>1, <2>2
<1>8. PICK queue, job : queue = upkeep.queue /\ job = upkeep.job
  OBVIOUS
<1>9. /\ \A i \in DOMAIN queue :
           queue[i] \in Stamps /\ StampDue(queue[i]) /\ (queue[i].key = k => w)
      /\ \A i \in DOMAIN job :
           job[i] \in Stamps /\ StampDue(job[i]) /\ (job[i].key = k => w)
  BY <1>1, <1>2, <1>8 DEF UpkeepShape, UpkeepInv, StampWaits
<1>10. /\ \A i \in DOMAIN queue : StampDue(queue[i])'
       /\ \A i \in DOMAIN job : StampDue(job[i])'
  BY <1>7, <1>9
<1>11. /\ (\A i \in DOMAIN upkeep.queue : StampDue(upkeep.queue[i]))'
       /\ (\A i \in DOMAIN upkeep.job : StampDue(upkeep.job[i]))'
  BY <1>1, <1>8, <1>10
<1>12. EndsOnlyWhenReported' /\ EndIsOfThisRun'
  BY <1>1, <1>5 DEF UpkeepInv, EndsOnlyWhenReported, EndIsOfThisRun, Lives
<1>13. UpkeepShape'
  BY <1>1, <1>5 DEF UpkeepShape
<1>14. QED
  BY <1>11, <1>12, <1>13 DEF UpkeepInv

\* The writer takes the queue as it is.
LEMMA TakeUpkeep ==
    ASSUME UpkeepInv, TakeStamps
    PROVE  UpkeepInv'
<1>1. /\ UNCHANGED <<shown, binding>>
      /\ upkeep' = [queue |-> <<>>, wake |-> FALSE, job |-> upkeep.queue]
      /\ upkeep.queue \in Seq(Stamps)
  BY DEF TakeStamps, hostVars, UpkeepInv, UpkeepShape
<1>2. UpkeepShape'
  BY <1>1, ConstantsAssumption DEF UpkeepInv, UpkeepShape
<1>3. PICK queue : queue = upkeep.queue
  OBVIOUS
<1>4. \A i \in DOMAIN queue : StampDue(queue[i])'
  BY <1>1, <1>3 DEF UpkeepInv, StampDue, ReportedGone, Lives
<1>5. /\ (\A i \in DOMAIN upkeep.queue : StampDue(upkeep.queue[i]))'
      /\ (\A i \in DOMAIN upkeep.job : StampDue(upkeep.job[i]))'
  BY <1>1, <1>3, <1>4
<1>6. EndsOnlyWhenReported' /\ EndIsOfThisRun'
  BY <1>1 DEF UpkeepInv, EndsOnlyWhenReported, EndIsOfThisRun, Lives
<1>7. QED
  BY <1>2, <1>5, <1>6 DEF UpkeepInv

\* The first stamp of a session ends its binding, if it is open.
LEMMA StampedBinding ==
    ASSUME UpkeepInv, NEW k \in Keys
    PROVE  /\ Stamped(k) \in Binding
           /\ Stamped(k).runs = binding[k].runs
           /\ Stamped(k).crossed = binding[k].crossed
           /\ \/ Stamped(k) = binding[k]
              \/ /\ ReportedGone(k)
                 /\ Stamped(k).endOf = binding[k].runs \/ binding[k].crossed
<1> DEFINE due == {i \in DOMAIN upkeep.job : upkeep.job[i].key = k}
<1>1. binding[k] \in Binding /\ upkeep.job \in Seq(Stamps)
  BY DEF UpkeepInv, UpkeepShape
<1>2. CASE due = {} \/ binding[k].runs = 0 \/ binding[k].ended
  BY <1>1, <1>2 DEF Stamped
<1>3. CASE ~(due = {} \/ binding[k].runs = 0 \/ binding[k].ended)
  <2>1. due \subseteq Nat
    BY <1>1
  <2>2. Min(due) \in due
    BY <1>3, <2>1, MinInSet
  <2>3. PICK i, s : i = Min(due) /\ s = upkeep.job[Min(due)]
    OBVIOUS
  <2>4. s \in Stamps /\ StampDue(s) /\ s.key = k
    <3>1. i \in DOMAIN upkeep.job /\ s = upkeep.job[i] /\ s.key = k
      BY <2>2, <2>3
    <3>2. QED
      BY <1>1, <3>1 DEF UpkeepInv
  <2> HIDE DEF due
  <2>5. Stamped(k) = [binding[k] EXCEPT !.ended = TRUE, !.endOf = s.run]
    BY <1>3, <2>3 DEF Stamped, due
  <2>6. s.run \in Nat
    BY <2>4 DEF Stamps
  <2>7. Stamped(k) = [runs |-> binding[k].runs, ended |-> TRUE, endOf |-> s.run,
                      crossed |-> binding[k].crossed]
    BY <2>5, <1>1 DEF Binding
  <2>8. QED
    BY <2>4, <2>6, <2>7, <1>1 DEF Binding, StampDue
<1>4. QED
  BY <1>2, <1>3

\* A transaction stamps by the stamps the writer took, or fails.
LEMMA WriteUpkeep ==
    ASSUME UpkeepInv, WriteStamps
    PROVE  UpkeepInv'
<1>1. /\ shown' = shown /\ UpkeepShape
      /\ upkeep \in [queue: Seq(Stamps), wake: BOOLEAN, job: Seq(Stamps)]
      /\ Len(upkeep.queue) <= PendingCap
      /\ binding \in [Keys -> Binding]
  BY DEF WriteStamps, hostVars, UpkeepInv, UpkeepShape
<1>2. upkeep' = [queue |-> upkeep.queue, wake |-> upkeep.wake, job |-> <<>>]
  <2>1. upkeep' = [upkeep EXCEPT !.job = <<>>]
    BY DEF WriteStamps
  <2>2. QED
    BY <1>1, <2>1
<1>3. \A x : ReportedGone(x)' = ReportedGone(x)
  BY <1>1 DEF ReportedGone, Lives
<1>4. /\ binding' \in [Keys -> Binding]
      /\ \A k \in Keys :
           /\ binding'[k].runs = binding[k].runs
           /\ binding'[k].crossed = binding[k].crossed
           /\ \/ binding'[k] = binding[k]
              \/ /\ ReportedGone(k)
                 /\ binding'[k].endOf = binding[k].runs \/ binding[k].crossed
  <2>1. CASE binding' = [k \in Keys |-> Stamped(k)]
    BY <2>1, StampedBinding
  <2>2. CASE UNCHANGED binding
    BY <1>1, <2>2
  <2>3. QED
    BY <2>1, <2>2 DEF WriteStamps
<1>5. UpkeepShape'
  BY <1>1, <1>2, <1>4 DEF UpkeepShape
<1>6. PICK queue : queue = upkeep.queue
  OBVIOUS
<1>7. \A i \in DOMAIN queue : StampDue(queue[i])'
  <2>1. ASSUME NEW s \in Stamps, StampDue(s) PROVE StampDue(s)'
    BY <1>3, <1>4, <2>1 DEF StampDue, Stamps
  <2>2. \A i \in DOMAIN queue : queue[i] \in Stamps /\ StampDue(queue[i])
    BY <1>1, <1>6 DEF UpkeepInv
  <2>3. QED
    BY <2>1, <2>2
<1>8. /\ (\A i \in DOMAIN upkeep.queue : StampDue(upkeep.queue[i]))'
      /\ (\A i \in DOMAIN upkeep.job : StampDue(upkeep.job[i]))'
  BY <1>2, <1>6, <1>7
<1>9. EndsOnlyWhenReported' /\ EndIsOfThisRun'
  <2>1. \A k \in Keys : binding[k].ended => ReportedGone(k)
    BY DEF UpkeepInv, EndsOnlyWhenReported, ReportedGone
  <2>2. \A k \in Keys : binding'[k].ended => ReportedGone(k)'
    BY <2>1, <1>3, <1>4
  <2>3. \A k \in Keys : binding[k].ended => binding[k].endOf = binding[k].runs \/ binding[k].crossed
    BY DEF UpkeepInv, EndIsOfThisRun
  <2>4. \A k \in Keys : binding'[k].ended =>
          binding'[k].endOf = binding'[k].runs \/ binding'[k].crossed
    BY <2>3, <1>4
  <2>5. QED
    BY <2>2, <2>4 DEF EndsOnlyWhenReported, EndIsOfThisRun, ReportedGone
<1>10. QED
  BY <1>5, <1>8, <1>9 DEF UpkeepInv

\* Every step keeps the stamps due, and the ends of the right run.
LEMMA NextUpkeep ==
    ASSUME FeedInv, UpkeepInv, FeedInv', [Next]_vars
    PROVE  UpkeepInv'
<1>1. \A k \in Keys : ReportedGone(k) => ReportedGone(k)'
  BY NextKept, ReportedKept DEF FeedInv
<1>2. CASE \/ \E k \in Keys, s \in Tracked \cup {"gone"} : Change(k, s)
           \/ Snapshot
           \/ \E r \in Routes : Connect(r) \/ RouteGone(r)
           \/ \E m \in Modules : Replace(m)
           \/ \E b \in flight : Lose(b) \/ Deliver(b)
           \/ UNCHANGED vars
  <2>1. UNCHANGED <<upkeep, binding>>
    BY <1>2 DEF Change, Snapshot, Connect, RouteGone, Replace, Lose, Deliver, Admit,
                vars, stamps
  <2>2. QED
    BY <2>1, <1>1, SameUpkeep
<1>3. ASSUME NEW b \in admitted, Apply(b) PROVE UpkeepInv'
  BY <1>3, ApplyUpkeep
<1>4. ASSUME NEW k \in Keys, Register(k) PROVE UpkeepInv'
  BY <1>4, RegisterUpkeep
<1>5. CASE TakeStamps
  BY <1>5, TakeUpkeep
<1>6. CASE WriteStamps
  BY <1>6, WriteUpkeep
<1>7. CASE Restart
  <2>1. upkeep' = [queue |-> <<>>, wake |-> FALSE, job |-> <<>>] /\ UNCHANGED <<shown, binding>>
    BY <1>7 DEF Restart, IdleUpkeep
  <2>2. UpkeepShape'
    BY <2>1, ConstantsAssumption DEF UpkeepInv, UpkeepShape
  <2>3. /\ (\A i \in DOMAIN upkeep.queue : StampDue(upkeep.queue[i]))'
        /\ (\A i \in DOMAIN upkeep.job : StampDue(upkeep.job[i]))'
    BY <2>1
  <2>4. EndsOnlyWhenReported' /\ EndIsOfThisRun'
    BY <2>1 DEF UpkeepInv, EndsOnlyWhenReported, EndIsOfThisRun, Lives
  <2>5. QED
    BY <2>2, <2>3, <2>4 DEF UpkeepInv
<1>8. QED
  BY <1>2, <1>3, <1>4, <1>5, <1>6, <1>7 DEF Next

\* The feed's records keep their shape, its sets and its queue their caps, and a
\* binding is ended only for a session that was reported gone, in the run it was
\* reported for unless a stamp waited while the session was registered again,
\* whatever batches, stamps and restarts come in between
\* (main.rs session_liveness, session_upkeep.rs, session_lifecycle.rs).
THEOREM UpkeepHolds == Spec => []UpkeepOK
<1> DEFINE Inv == FeedInv /\ Addressed /\ UpkeepInv /\ orphaned \subseteq admitted
<1>1. Init => Inv
  BY InitFeed, InitUpkeep DEF Addressed, UnderWay, Init
<1>2. Inv /\ [Next]_vars => Inv'
  BY NextFeed, NextAddressed, NextUpkeep, NextOrphans
<1>3. Inv => UpkeepOK
  <2> SUFFICES ASSUME Inv PROVE UpkeepOK
    OBVIOUS
  <2>1. /\ host.module \in Modules /\ host.route \in Routes \cup {None}
        /\ host.life = Len(shown) /\ host.seq = Len(shown[host.life])
    BY DEF FeedInv, HostShape, Host
  <2>2. /\ mirror.sessions \in [Keys -> Tracked \cup {"absent"}]
        /\ mirror.gone \subseteq Keys /\ Cardinality(mirror.gone) <= GoneCap
        /\ bound \in [Routes -> Modules \cup {None}]
    BY DEF FeedInv, MirrorShape, Mirror
  <2>3. Len(upkeep.queue) <= PendingCap
    BY DEF UpkeepInv, UpkeepShape
  <2>4. QED
    BY <2>1, <2>2, <2>3 DEF UpkeepOK, TypeOK, UpkeepInv
<1>4. QED
  BY <1>1, <1>2, <1>3, PTL DEF Spec

-----------------------------------------------------------------------------
(* The mirror follows one host process at a time. *)

\* A mirror that did not change still follows: what was reported stays.
LEMMA FollowsKept ==
    ASSUME MirrorFollows, FeedInv, FeedInv', ShownKept, source' = source,
           late' = late,
           ~mirror'.stale => /\ ~mirror.stale
                             /\ mirror'.seq = mirror.seq /\ mirror'.sender = mirror.sender
                             /\ mirror'.sessions = mirror.sessions
                             /\ mirror'.gone = mirror.gone
    PROVE  MirrorFollows'
<1> SUFFICES ASSUME Vouches'
             PROVE  /\ source \in 1..Len(shown') /\ mirror.seq \in 1..Len(shown'[source])
                    /\ mirror'.sender # NoSender /\ ~late.sender
                    /\ \A k \in Keys : Mirrors(k)'
  BY DEF MirrorFollows, Vouches
<1>1. /\ source \in 1..Len(shown) /\ mirror.seq \in 1..Len(shown[source])
      /\ mirror'.sender # NoSender /\ ~late.sender
      /\ \A k \in Keys : Mirrors(k)
  BY DEF MirrorFollows, Vouches
<1>2. /\ Len(shown) \in Nat /\ Len(shown[source]) \in Nat
  BY <1>1, ShownTypes DEF FeedInv, HostShape
<1>3. /\ Len(shown') \in Nat /\ source \in 1..Len(shown') /\ Len(shown'[source]) \in Nat
  <2>1. shown' \in Seq(Seq([Keys -> States]))
    BY DEF FeedInv, HostShape
  <2>2. Len(shown') \in Nat /\ source \in 1..Len(shown')
    BY <1>1, <1>2, <2>1, ShownTypes DEF ShownKept
  <2>3. QED
    BY <2>1, <2>2, ShownTypes
<1>4. /\ mirror.seq \in 1..Len(shown'[source])
      /\ shown'[source][mirror.seq] = shown[source][mirror.seq]
  BY <1>1, <1>2, <1>3 DEF ShownKept
<1>5. \A k \in Keys : Mirrors(k)'
  BY <1>1, <1>4 DEF Mirrors, Had, Vouches
<1>6. QED
  BY <1>1, <1>3, <1>4, <1>5

\* A batch after which the mirror vouches is not orphaned, and it replaces the mirror
\* or finds one that vouches.
LEMMA ApplyOnTime ==
    ASSUME FeedInv, Addressed, NEW b \in admitted, Apply(b), Vouches'
    PROVE  /\ b \in Routed /\ ~Older(b) /\ source' = b.life /\ ~late'.sender
           /\ b.snapshot \/ Vouches
<1>1. /\ Carries(b) /\ MirrorShape /\ b.route \in Routes /\ b.module \in Modules
  BY DEF FeedInv, UnderWay, Addressed
<1>2. mirror'.stale = Ingested(b).stale /\ b.snapshot \in BOOLEAN
  BY <1>1, ApplyMirror DEF Carries
<1>3. ~Older(b) /\ (b.snapshot \/ ~mirror.stale)
  BY <1>1, <1>2, IngestedMirror DEF Vouches
<1>4. /\ late'.sender = (b \in orphaned)
      /\ late'.content = (b \in orphaned \/ (late.content /\ ~b.snapshot))
  BY <1>3 DEF Apply, LateAfter
<1>5. QED
  BY <1>3, <1>4 DEF Apply, Vouches, Routed

\* A batch that leaves the mirror fresh is a snapshot, or the next one of the host
\* that the mirror follows.
LEMMA ApplyFollows ==
    ASSUME FeedInv, Addressed, OneLife, MirrorFollows, NEW b \in admitted, Apply(b)
    PROVE  MirrorFollows'
<1> SUFFICES ASSUME Vouches'
             PROVE  /\ source' \in 1..Len(shown) /\ mirror'.seq \in 1..Len(shown[source'])
                    /\ mirror'.sender # NoSender
                    /\ \A k \in Keys : Mirrors(k)'
  BY ApplyOnTime DEF MirrorFollows, Apply
<1>1. /\ Carries(b) /\ b \in UnderWay /\ MirrorShape
      /\ b.route \in Routes /\ b.module \in Modules
  BY DEF FeedInv, UnderWay, Addressed
<1>2. /\ mirror'.sender = [route |-> b.route, module |-> b.module]
      /\ mirror'.stale = Ingested(b).stale /\ mirror'.seq = Ingested(b).seq
      /\ mirror'.sessions = Ingested(b).sessions /\ mirror'.gone = Ingested(b).gone
  BY <1>1, ApplyMirror
<1>3. mirror'.sender # NoSender
  BY <1>1, <1>2, ConstantsAssumption DEF NoSender
<1>4. /\ b.life \in 1..Len(shown) /\ b.seq \in 1..Len(shown[b.life])
      /\ \A k \in DOMAIN b.entries : b.entries[k] = Had(b.life, b.seq, k)
      /\ b.snapshot \in BOOLEAN
  BY <1>1 DEF Carries
<1>6. ~Older(b) /\ Ingested(b).seq = b.seq
  BY <1>1, <1>2, <1>4, IngestedMirror DEF Vouches
<1>7. /\ source' = b.life /\ mirror'.seq = b.seq /\ shown' = shown
  BY <1>2, <1>6 DEF Apply
<1>8. ASSUME NEW k \in Keys
      PROVE  Mirrors(k)' <=>
               /\ mirror'.sessions[k] \in Tracked \/ Had(b.life, b.seq, k) \in Tracked =>
                    mirror'.sessions[k] = Had(b.life, b.seq, k)
               /\ k \in mirror'.gone => Had(b.life, b.seq, k) = "gone"
  BY <1>7 DEF Mirrors, Had
<1>9. CASE b.snapshot
  <2>1. /\ mirror'.gone = {}
        /\ \A k \in Keys : mirror'.sessions[k] =
             IF k \in DOMAIN b.entries THEN b.entries[k] ELSE "absent"
    BY <1>1, <1>2, <1>9, IngestedMirror
  <2>2. \A k \in Keys \ DOMAIN b.entries : Had(b.life, b.seq, k) = "absent"
    BY <1>1, <1>9 DEF Carries
  <2>3. \A k \in Keys : mirror'.sessions[k] = Had(b.life, b.seq, k)
    BY <1>4, <2>1, <2>2
  <2>4. QED
    BY <1>3, <1>4, <1>7, <1>8, <2>1, <2>3
<1>10. CASE ~b.snapshot
  <2>1. /\ ~mirror.stale /\ ~SkipsAhead(b)
        /\ mirror'.gone \subseteq (mirror.gone \ (DOMAIN b.entries \ Gone(b))) \cup Gone(b)
        /\ \A k \in Keys : mirror'.sessions[k] =
             IF k \notin DOMAIN b.entries THEN mirror.sessions[k]
             ELSE IF k \in Gone(b) THEN "absent" ELSE b.entries[k]
    BY <1>1, <1>2, <1>10, IngestedMirror DEF Vouches
  <2>2. /\ source = b.life /\ mirror.seq \in 1..Len(shown[b.life])
        /\ \A k \in Keys : Mirrors(k)
    BY <1>10, ApplyOnTime DEF OneLife, MirrorFollows
  <2>3. mirror.seq \in Nat /\ mirror.seq # 0 /\ b.seq \in Nat
    <3>1. Len(shown[b.life]) \in Nat
      BY <1>4, ShownTypes DEF FeedInv, HostShape
    <3>2. QED
      BY <3>1, <2>2, <1>4
  <2>4. b.seq - 1 = mirror.seq /\ b.seq > 1
    BY <1>6, <1>10, <2>1, <2>3 DEF Older, SkipsAhead
  <2>5. PICK e \in Keys :
          /\ DOMAIN b.entries = {e} /\ b.entries[e] \in Tracked \cup {"gone"}
          /\ \A x \in Keys \ {e} : Had(b.life, b.seq, x) = Had(b.life, b.seq - 1, x)
    BY <1>1, <1>10, <2>4 DEF Carries
  <2>6. ASSUME NEW k \in Keys PROVE Mirrors(k)'
    <3>1. CASE k # e
      <4>1. /\ mirror'.sessions[k] = mirror.sessions[k]
            /\ k \in mirror'.gone => k \in mirror.gone
        BY <2>1, <2>5, <3>1 DEF Gone
      <4>2. Had(b.life, b.seq, k) = Had(source, mirror.seq, k)
        BY <2>2, <2>4, <2>5, <3>1
      <4>3. Mirrors(k)
        BY <2>2
      <4>4. QED
        BY <4>1, <4>2, <4>3, <1>8 DEF Mirrors
    <3>2. CASE k = e /\ b.entries[e] = "gone"
      <4>1. /\ mirror'.sessions[k] = "absent" /\ Had(b.life, b.seq, k) = "gone"
        BY <2>1, <2>5, <3>2, <1>4 DEF Gone
      <4>2. QED
        BY <4>1, <1>8 DEF Tracked
    <3>3. CASE k = e /\ b.entries[e] # "gone"
      <4>1. /\ mirror'.sessions[k] = Had(b.life, b.seq, k) /\ k \notin mirror'.gone
        BY <2>1, <2>5, <3>3, <1>4 DEF Gone
      <4>2. QED
        BY <4>1, <1>8
    <3>4. QED
      BY <3>1, <3>2, <3>3
  <2>7. QED
    BY <1>3, <1>4, <1>7, <2>6
<1>11. QED
  BY <1>4, <1>9, <1>10

\* Routes and lives, when no batch is new and the mirror is not refreshed.
LEMMA FewerLives ==
    ASSUME OneLife, OneProvider, Routed' \subseteq Routed, UNCHANGED <<bound, late>>,
           host'.route # None => /\ host'.route = host.route
                                 /\ host'.life = host.life /\ host'.module = host.module,
           source' = source, ~mirror'.stale => ~mirror.stale
    PROVE  OneLife' /\ OneProvider'
  BY DEF OneLife, OneProvider, Vouches

\* What a host sends over its route is of its life.
LEMMA ReportAnswers ==
    ASSUME FeedInv, AnswerInv, FeedInv', ShownKept,
           NEW snapshot, NEW state, NEW entries, Report(snapshot, state, entries),
           UNCHANGED <<admitted, orphaned, bound, mirror, source, late>>
    PROVE  AnswerInv'
<1>1. host'.route = host.route /\ host'.life = host.life /\ host'.module = host.module
  <2>1. host \in Host
    BY DEF FeedInv, HostShape
  <2>2. QED
    BY <2>1 DEF Report, Host
<1>2. \A b \in Routed' :
        \/ b \in Routed
        \/ /\ host.route # None
           /\ b.route = host.route /\ b.module = host.module /\ b.life = host.life
  BY DEF Report, Routed, Batch
<1>3. OneProvider'
  BY <1>1, <1>2 DEF AnswerInv, OneProvider
<1>4. OneLife'
  <2>1. \A b \in Routed' : host.route # None => b.life = host.life
    BY <1>2 DEF AnswerInv, OneLife
  <2>2. \A b, c \in Routed' : b.life = c.life
    BY <1>2, <2>1 DEF AnswerInv, OneLife
  <2>3. Vouches => \A b \in Routed' : b.life = source
    BY <1>2 DEF AnswerInv, OneLife
  <2>4. QED
    BY <1>1, <2>1, <2>2, <2>3 DEF AnswerInv, OneLife, Vouches
<1>5. QED
  BY <1>3, <1>4, FollowsKept DEF AnswerInv

\* A provider that connects leaves no batch on a route, and a mirror that vouches for
\* nothing.
LEMMA ConnectAnswers ==
    ASSUME FeedInv, Addressed, AnswerInv, RouteInv,
           NEW r \in Routes, Connect(r)
    PROVE  AnswerInv'
<1>1. /\ host \in Host /\ mirror \in Mirror
      /\ bound \in [Routes -> Modules \cup {None}]
  BY DEF FeedInv, HostShape, MirrorShape
<1>2. \A b \in Routed : b.route = r
  BY ConstantsAssumption DEF Connect, AnswerInv, OneProvider, Addressed, Routed, UnderWay
<1>3. Routed' = {}
  BY <1>2 DEF Connect, OnRoute, Routed
<1>4. ~Vouches'
  <2>1. mirror'.stale = (mirror.stale \/ (bound[r] # None /\ mirror.sender.route = r))
    BY <1>1 DEF Connect, OnBind, Mirror
  <2>2. ASSUME Vouches PROVE bound[r] # None /\ mirror.sender.route = r
    <3>1. /\ mirror.sender.route \in Routes /\ mirror.sender.module \in Modules
          /\ bound[mirror.sender.route] = mirror.sender.module
      BY <2>2 DEF AnswerInv, MirrorFollows, RouteInv, SenderKnown, LostHostIsStale,
                  ClosedRouteIsStale, Vouches
    <3>2. bound[mirror.sender.route] # None
      BY <3>1, ConstantsAssumption
    <3>3. QED
      BY <3>1, <3>2 DEF Connect
  <2>3. QED
    BY <2>1, <2>2 DEF Vouches, Connect
<1>5. bound'[host'.route] = host'.module
  BY <1>1 DEF Connect, Host
<1>6. QED
  BY <1>3, <1>4, <1>5 DEF AnswerInv, OneLife, OneProvider, MirrorFollows

\* A closed route takes its batches along.
LEMMA RouteGoneAnswers ==
    ASSUME FeedInv, FeedInv', ShownKept, Addressed, AnswerInv,
           NEW r \in Routes, RouteGone(r)
    PROVE  AnswerInv'
<1>1. /\ host \in Host /\ mirror \in Mirror
      /\ bound \in [Routes -> Modules \cup {None}]
  BY DEF FeedInv, HostShape, MirrorShape
<1>2. \A b \in Routed' : b \in Routed /\ b.route # r
  BY DEF RouteGone, OnRoute, Routed
<1>3. /\ host'.life = host.life /\ host'.module = host.module
      /\ host'.route # None => host'.route = host.route /\ host.route # r
  BY <1>1 DEF RouteGone, Host
<1>4. /\ mirror'.stale = (mirror.stale \/ mirror.sender.route = r)
      /\ mirror'.seq = mirror.seq /\ mirror'.sender = mirror.sender
      /\ mirror'.sessions = mirror.sessions /\ mirror'.gone = mirror.gone
  BY <1>1 DEF RouteGone, OnRouteGone, Mirror
<1>5. OneProvider'
  <2>1. \A q \in Routes : q # r => bound'[q] = bound[q]
    BY <1>1 DEF RouteGone
  <2>2. host.route \in Routes \cup {None}
    BY <1>1 DEF Host
  <2>3. QED
    BY <1>2, <1>3, <2>1, <2>2 DEF AnswerInv, OneProvider, Addressed, Routed, UnderWay
<1>6. source' = source /\ late' = late
  BY DEF RouteGone
<1>7. OneLife'
  BY <1>2, <1>3, <1>4, <1>6 DEF AnswerInv, OneLife, Vouches
<1>8. QED
  BY <1>4, <1>5, <1>6, <1>7, FollowsKept DEF AnswerInv

\* The mirror follows the host of the batch it took.
LEMMA ApplyAnswers ==
    ASSUME FeedInv, Addressed, AnswerInv, NEW b \in admitted, Apply(b)
    PROVE  AnswerInv'
<1>1. host \in Host
  BY DEF FeedInv, HostShape
<1>2. host'.route = host.route /\ host'.life = host.life /\ host'.module = host.module
  BY <1>1 DEF Apply, Answered, Host
<1>3. Routed' \subseteq Routed /\ bound' = bound
  BY DEF Apply, Routed
<1>4. OneProvider'
  BY <1>2, <1>3 DEF AnswerInv, OneProvider
<1>5. Vouches' => source' = b.life /\ b \in Routed
  BY ApplyOnTime
<1>6. OneLife'
  BY <1>2, <1>3, <1>5 DEF AnswerInv, OneLife
<1>7. QED
  BY <1>4, <1>6, ApplyFollows DEF AnswerInv

\* Every step keeps the mirror on one host, and what it has of it.
LEMMA NextAnswers ==
    ASSUME FeedInv, FeedInv', Addressed, RouteInv, AnswerInv, [Next]_vars
    PROVE  AnswerInv'
<1>1. ShownKept
  BY NextKept
<1>2. host \in Host
  BY DEF FeedInv, HostShape
<1>3. ASSUME NEW k \in Keys, NEW s \in Tracked \cup {"gone"}, Change(k, s)
      PROVE  AnswerInv'
  BY <1>1, <1>3, ReportAnswers DEF Change, mirrorVars
<1>4. CASE Snapshot
  BY <1>1, <1>4, ReportAnswers DEF Snapshot, mirrorVars
<1>5. ASSUME NEW r \in Routes, Connect(r) \/ RouteGone(r) PROVE AnswerInv'
  BY <1>1, <1>5, ConnectAnswers, RouteGoneAnswers
<1>6. ASSUME NEW b \in admitted, Apply(b) PROVE AnswerInv'
  BY <1>6, ApplyAnswers
<1>7. CASE \/ \E m \in Modules : Replace(m)
           \/ \E b \in flight : Lose(b) \/ Deliver(b)
           \/ \E k \in Keys : Register(k)
           \/ TakeStamps \/ WriteStamps \/ UNCHANGED vars
  <2>1. /\ Routed' \subseteq Routed /\ UNCHANGED <<bound, mirror, source, late>>
    BY <1>7 DEF Replace, Lose, Deliver, Admit, Register, TakeStamps, WriteStamps, vars,
                hostVars, wire, mirrorVars, Routed
  <2>2. host'.route # None => /\ host'.route = host.route
                              /\ host'.life = host.life /\ host'.module = host.module
    <3>1. ASSUME NEW m \in Modules, Replace(m) PROVE host'.route = None
      BY <3>1 DEF Replace
    <3>2. ASSUME NEW b \in flight, Lose(b)
          PROVE  /\ host'.route = host.route
                 /\ host'.life = host.life /\ host'.module = host.module
      BY <1>2, <3>2 DEF Lose, Host
    <3>3. CASE \/ \E b \in flight : Deliver(b)
               \/ \E k \in Keys : Register(k)
               \/ TakeStamps \/ WriteStamps \/ UNCHANGED vars
      BY <3>3 DEF Deliver, Admit, Register, TakeStamps, WriteStamps, vars, hostVars
    <3>4. QED
      BY <1>7, <3>1, <3>2, <3>3
  <2>3. OneLife' /\ OneProvider'
    BY <2>1, <2>2, FewerLives DEF AnswerInv
  <2>4. MirrorFollows'
    BY <1>1, <2>1, FollowsKept DEF AnswerInv
  <2>5. QED
    BY <2>3, <2>4 DEF AnswerInv
<1>8. CASE Restart
  <2>1. /\ mirror' = EmptyMirror /\ Routed' = {}
        /\ host'.route = None
    BY <1>2, <1>8 DEF Restart, Routed, Host
  <2>2. ~Vouches'
    BY <2>1 DEF EmptyMirror, Vouches
  <2>3. QED
    BY <2>1, <2>2 DEF AnswerInv, OneLife, OneProvider, MirrorFollows
<1>9. QED
  BY <1>3, <1>4, <1>5, <1>6, <1>7, <1>8 DEF Next

\* Whatever is lost, repeated, overtaken or restarted, an answer is what the host
\* reported with the batch the mirror took last (main.rs session_liveness,
\* sessions.rs LivenessState::answer), unless that is built on a batch whose route
\* was gone when it was applied.
THEOREM AnswersMatch == Spec => []AnswersMatchReports
<1> DEFINE Inv == FeedInv /\ Addressed /\ RouteInv /\ AnswerInv
<1>1. Init => Inv
  <2> SUFFICES ASSUME Init PROVE Inv
    OBVIOUS
  <2>1. host.route = None /\ mirror.stale /\ UnderWay = {} /\ Routed = {}
    BY DEF Init, EmptyMirror, UnderWay, Routed
  <2>2. AnswerInv /\ Addressed
    BY <2>1 DEF Addressed, AnswerInv, OneLife, OneProvider, MirrorFollows, Vouches
  <2>3. QED
    BY <2>2, InitFeed, InitRoutes
<1>2. Inv /\ [Next]_vars => Inv'
  BY NextFeed, NextAddressed, NextRoutes, NextAnswers
<1>3. Inv => AnswersMatchReports
  <2> SUFFICES ASSUME AnswerInv, MirrorShape, Vouches, NEW k \in Keys
               PROVE  /\ Answer(k) = "active" <=> Reported(k) = "open"
                      /\ Answer(k) = "gone" => Reported(k) = "gone"
    BY DEF AnswersMatchReports, FeedInv, Vouches
  <2>1. Mirrors(k) /\ Reported(k) = Had(source, mirror.seq, k)
    BY DEF AnswerInv, MirrorFollows, Reported, Had
  <2>2. /\ Answer(k) = "active" <=> mirror.sessions[k] = "open"
        /\ Answer(k) = "gone" => k \in mirror.gone
    BY DEF Answer, Vouches
  <2>3. QED
    BY <2>1, <2>2 DEF Mirrors, Tracked
<1>4. QED
  BY <1>1, <1>2, <1>3, PTL DEF Spec

=============================================================================
