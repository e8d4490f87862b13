-------------------------- MODULE IdentityLogProofs --------------------------
(***************************************************************************)
(* The shared identity log, for every number of machines, requests, parts, *)
(* retries and faults: stores and log stay well formed, machines agree on  *)
(* the shared tables, a key is shared once, nobody's catch-up stalls on an *)
(* entry, and the answers to clients are those of SharedHistory.           *)
(***************************************************************************)
EXTENDS IdentityLog, SequenceTheorems, WellFoundedInduction, TLAPS

-----------------------------------------------------------------------------
(* Types *)

\* Every update of a durable store stays in its type.
LEMMA StoreType ==
    ASSUME NEW s \in Store
    PROVE  /\ EmptyStore \in Store
           /\ \A id : Forgotten(s, id) \in Store
           /\ \A number \in Nat, base \in Nat : Planned(s, number, base) \in Store
           /\ Abandoned(s) \in Store
           /\ Enabled(s) \in Store
           /\ \A position \in Nat : StillPending(s, position) \subseteq s.pending
           /\ \A position \in Nat, head \in Nat : JoinedState(s, position, head) \in LogStates
  <1> USE ConstantsAssumption DEF Store
  <1>1. EmptyStore \in Store
    BY EmptySeq DEF EmptyStore, LogStates
  <1>2. \A id : Forgotten(s, id) \in Store
    BY DEF Forgotten
  <1>3. \A number \in Nat, base \in Nat : Planned(s, number, base) \in Store
    BY DEF Planned, LogStates
  <1>4. Abandoned(s) \in Store
    BY EmptySeq DEF Abandoned, LogStates
  <1>5. Enabled(s) \in Store
    <2>1. PICK n \in Nat : n = s.base + Parts
      OBVIOUS
    <2>2. "enabled" \in LogStates /\ <<>> \in Seq(Keys)
      BY EmptySeq DEF LogStates
    <2> QED  BY <2>1, <2>2 DEF Enabled
  <1>6. \A position \in Nat : StillPending(s, position) \subseteq s.pending
    BY DEF StillPending
  <1>7. \A position \in Nat, head \in Nat : JoinedState(s, position, head) \in LogStates
    BY DEF JoinedState, LogStates
  <1> QED  BY <1>1, <1>2, <1>3, <1>4, <1>5, <1>6, <1>7

\* Applying what precedes a position keeps the store in its type.
LEMMA AdvancedType ==
    ASSUME NEW s \in Store, NEW m \in Machines, NEW position \in 1..Len(log),
           NEW content \in Seq(Keys), log \in Seq(Entry)
    PROVE  Advanced(s, m, position, content) \in Store
  <1>0. position \in Nat
    BY LenProperties
  <1>1. Max2(s.seen, position) \in Nat
    BY <1>0 DEF Max2, Store
  <1>2. JoinedState(s, position, Max2(s.seen, position)) \in LogStates
    BY <1>0, <1>1, StoreType
  <1>3. StillPending(s, position) \in SUBSET PendingEntry
    <2>1. StillPending(s, position) \subseteq s.pending
      BY <1>0, StoreType
    <2>2. s.pending \subseteq PendingEntry
      BY DEF Store
    <2> QED  BY <2>1, <2>2
  <1>4. PICK w \in BOOLEAN : w = (s.author \/ log[position].author = m)
    OBVIOUS
  <1> QED
    BY <1>0, <1>1, <1>2, <1>3, <1>4 DEF Advanced, Store

LEMMA TaskType ==
    ASSUME TypeOK, NEW m \in Machines
    PROVE  /\ IdleTask \in Task
           /\ Release(m) \in Task
           /\ \A holder \in Holders, r \in Requests \cup {NoRequest}, try \in 0..Retries :
                  Reading(m, holder, r, try) \in Task
  <1> USE ConstantsAssumption DEF Task
  <1>1. task[m] \in Task /\ store[m] \in Store
    BY DEF TypeOK
  <1>2. IdleTask \in Task
    BY DEF IdleTask, Holders, Places
  <1>3. Release(m) \in Task
    BY <1>1, <1>2 DEF Release
  <1>4. \A holder \in Holders, r \in Requests \cup {NoRequest}, try \in 0..Retries :
                  Reading(m, holder, r, try) \in Task
    <2> TAKE holder \in Holders, r \in Requests \cup {NoRequest}, try \in 0..Retries
    <2>1. "read" \in Places /\ store[m].applied \in Nat
      BY <1>1 DEF Places, Store
    <2>2. PICK t \in Task : t = task[m]
      BY <1>1
    <2> QED  BY <2>1, <2>2 DEF Reading
  <1> QED  BY <1>2, <1>3, <1>4

-----------------------------------------------------------------------------
(***************************************************************************)
(* The inductive invariant, said of the values of the variables: an action *)
(* often does several things, and each of them keeps it.  l is the log, f  *)
(* the unanswered appends, s the store and t the lock holder of one        *)
(* machine (st and tk: of all), an the answers, ho the hosts of requests   *)
(* and en the number of enables.                                           *)
(***************************************************************************)
ChangeIds == [req: Requests, try: 0..Retries]
PartIds == [plan: Nat, part: 1..Parts]
Lost == {"unknown", "dropped", "lost"}
Closed == {"local", "cached", "nothing", "refused"}

\* No snapshot is open after the first n entries.
Edge(l, n) == n = 0 \/ l[n].kind = "change" \/ Completes(l[n])

PartId(plan, part) == [plan |-> plan, part |-> part]

\* The entry e may stand after the first n entries of l.
ChangeFollows(l, e, n) ==
    /\ e.id \in ChangeIds /\ e.data = <<KeyOf[e.id.req]>>
    /\ n > 0 /\ Edge(l, n)
PartFollows(l, e, n) ==
    /\ e.id \in PartIds /\ e.id.plan > 0
    /\ n + 1 = e.through + e.id.part
    /\ Edge(l, e.through)
    /\ \A j \in 1..e.through : l[j].author = e.author
    /\ \A k \in 1..n : k > e.through =>
           l[k] = [e EXCEPT !.id = PartId(e.id.plan, k - e.through)]
Follows(l, e, n) ==
    /\ e.kind = "change" => ChangeFollows(l, e, n)
    /\ e.kind = "snapshot" => PartFollows(l, e, n)

LogOK(l) ==
    /\ \A i \in 1..Len(l) : Follows(l, l[i], i - 1)
    /\ \A i, j \in 1..Len(l) : l[i].id = l[j].id => i = j
FlightOK(l, f) == \A c \in f : c.expect <= Len(l) /\ Follows(l, c.entry, c.expect)

\* A request has at most one entry, now and if an append lands late.
EntriesOnce(l, f) ==
    /\ \A i, j \in 1..Len(l) :
           IsChange(l[i]) /\ IsChange(l[j]) /\ l[i].id.req = l[j].id.req => i = j
    /\ \A i \in 1..Len(l), c \in f :
           /\ IsChange(l[i]) /\ IsChange(c.entry) /\ c.expect = Len(l)
           /\ l[i].id.req = c.entry.id.req
           => l[i].id = c.entry.id
    /\ \A c, d \in f :
           /\ IsChange(c.entry) /\ IsChange(d.entry) /\ c.expect = Len(l) /\ d.expect = Len(l)
           /\ c.entry.id.req = d.entry.id.req
           => c.entry.id = d.entry.id

\* OncePerKey, now and if an append lands late.
SameWrite(ho, r, q) ==
    r # q /\ KeyOf[r] = KeyOf[q] /\ ho[r] = ho[q] /\ ho[r] # Nobody
KeysOnce(l, f, an, ho) ==
    /\ \A i, j \in 1..Len(l) :
           /\ i < j /\ IsChange(l[i]) /\ IsChange(l[j])
           /\ SameWrite(ho, l[i].id.req, l[j].id.req)
           => an[l[i].id.req] \in Lost
    /\ \A i \in 1..Len(l), c \in f :
           /\ IsChange(l[i]) /\ IsChange(c.entry) /\ c.expect = Len(l)
           /\ SameWrite(ho, l[i].id.req, c.entry.id.req)
           => an[l[i].id.req] \in Lost

\* The number of the snapshot that a machine saved or is about to save.
Number(s, t) ==
    IF t.pc = "head" THEN t.after ELSE IF s.state = "enabling" THEN s.plan ELSE 0
OfPlan(e, number) == e.kind = "snapshot" /\ e.id.plan = number
PlansUsed(l, f, en) ==
    /\ \A i \in 1..Len(l) : l[i].kind = "snapshot" => l[i].id.plan <= en
    /\ \A c \in f : c.entry.kind = "snapshot" => c.entry.id.plan <= en
NumbersDiffer(st, tk) ==
    \A m, n \in Machines : m # n /\ Number(st[m], tk[m]) > 0 =>
        Number(st[m], tk[m]) # Number(st[n], tk[n])

CallOf(m, s, t) ==
    [entry |-> [id |-> AttemptId(t), author |-> m, kind |-> "change",
                data |-> <<KeyOf[t.req]>>, through |-> 0],
     expect |-> s.applied]
PartOf(m, s, i) ==
    [entry |-> [id |-> PartId(s.plan, i), author |-> m, kind |-> "snapshot",
                data |-> s.saved, through |-> s.base],
     expect |-> s.base + i - 1]

Shares(s) == s.state \in {"joining", "enabled"}
StoreOK(l, s) ==
    /\ s.applied <= Len(l) /\ Edge(l, s.applied)
    /\ Shares(s) <=> s.applied > 0
    /\ Shares(s) => s.content = Image(l)[s.applied]
    /\ \A id \in s.own : \E i \in 1..s.applied : l[i].id = id

\* A saved snapshot, and a number for the next one.
SavedOK(l, f, m, s) ==
    /\ s.saved = s.content
    /\ s.base <= Len(l) /\ Edge(l, s.base)
    /\ \A i \in 1..s.base : l[i].author = m
    /\ \A i \in 1..Len(l) : OfPlan(l[i], s.plan) => l[i] = PartOf(m, s, l[i].id.part).entry
    /\ \A c \in f : OfPlan(c.entry, s.plan) => c = PartOf(m, s, c.entry.id.part)
Unused(l, f, number) ==
    /\ \A i \in 1..Len(l) : ~OfPlan(l[i], number)
    /\ \A c \in f : ~OfPlan(c.entry, number)
PlanOK(l, f, en, m, s, t) ==
    /\ Number(s, t) <= en
    /\ t.pc = "head" => t.after > 0 /\ Unused(l, f, t.after)
    /\ s.state = "enabling" => s.plan > 0 /\ SavedOK(l, f, m, s)

Working(t) == t.holder \in {"write", "readback"}
Writing(t) == t.holder = "write"
Sending(t) == t.pc \in {"settle", "commit"}

\* The lock holder, and how far it has read.
HolderOK(s, t) ==
    /\ t.stalled # "apply"
    /\ t.pc = "idle" <=> t.holder = "free"
    /\ t.pc \in {"attempt", "settle", "commit"} => Writing(t)
    /\ Working(t) => s.state = "enabled" /\ t.req \in Requests
    /\ Working(t) => t.pc \in {"read", "apply", "attempt", "settle", "commit"}
    /\ t.pc = "head" => s.state = "disabled"
    /\ t.pc \in {"resume", "parts"} => s.state = "enabling"
ReadOK(l, s, t) ==
    /\ t.pc \in {"read", "apply"} =>
         /\ s.state # "enabling"
         /\ s.state = "disabled" => s.content = <<>>
         /\ s.applied <= t.after /\ t.after <= Len(l)
         /\ \A k \in s.applied + 1..t.after :
                l[k].kind = "snapshot" /\ l[k].through = s.applied /\ ~Completes(l[k])
    /\ t.pc = "apply" => t.after <= t.end /\ t.end <= t.head /\ t.head <= Len(l)
SendOK(l, m, s, t) ==
    /\ t.pc = "commit" => s.applied < Len(l) /\ l[s.applied + 1] = CallOf(m, s, t).entry
    /\ t.pc = "parts" =>
         /\ t.after <= Parts /\ s.base + t.after <= Len(l)
         /\ \A k \in 1..t.after : l[s.base + k] = PartOf(m, s, k).entry
TaskOK(l, m, s, t) == HolderOK(s, t) /\ ReadOK(l, s, t) /\ SendOK(l, m, s, t)

\* The request that the lock holder works for.
ServesOK(l, an, ho, m, s, t) ==
    Working(t) =>
        /\ an[t.req] = "active" /\ ho[t.req] = m
        /\ ~Writing(t) /\ t.sent =>
               \E i \in 1..s.applied : IsChange(l[i]) /\ l[i].id.req = t.req
        /\ Writing(t) => KeyOf[t.req] \notin s.keys

\* The rows of pending_entry: what each of them says, and who has one.
RowOK(l, f, an, ho, m, s, t, p) ==
    /\ p.id \in ChangeIds /\ ho[p.id.req] = m
    /\ an[p.id.req] \notin {"new", "queued"}
    /\ Writing(t) /\ p.id.req = t.req =>
         p.id.try < t.try \/ (p.id.try = t.try /\ Sending(t) /\ p.expect = s.applied)
    /\ \A i \in 1..Len(l) : l[i].id = p.id => i = p.expect + 1
    /\ \A c \in f : c.entry.id = p.id => c.expect = p.expect
Known(s, e) == \E p \in s.pending : p.id = e.id
PendingOK(l, f, an, ho, m, s, t) ==
    /\ \A p \in s.pending : RowOK(l, f, an, ho, m, s, t, p)
    /\ Sending(t) => [id |-> AttemptId(t), expect |-> s.applied] \in s.pending
    /\ \A i \in 1..Len(l) :
           i > s.applied /\ IsChange(l[i]) /\ ho[l[i].id.req] = m => Known(s, l[i])
    /\ \A c \in f :
           c.expect = Len(l) /\ IsChange(c.entry) /\ ho[c.entry.id.req] = m => Known(s, c.entry)

MachineOK(l, f, an, ho, en, m, s, t) ==
    /\ StoreOK(l, s) /\ PlanOK(l, f, en, m, s, t) /\ TaskOK(l, m, s, t)
    /\ ServesOK(l, an, ho, m, s, t) /\ PendingOK(l, f, an, ho, m, s, t)

\* An attempt of a request, with the position that it expected: of the present
\* attempt of the lock holder, or of an earlier one; and one that is in the log
\* or may still get there.
Present(h, s, t, e, pos) ==
    Sending(t) /\ t.sent /\ [entry |-> e, expect |-> pos] = CallOf(h, s, t)
SentOK(a, h, s, t, e, pos) ==
    /\ h \in {e.author, Nobody}
    /\ a \notin {"new", "queued"}
    /\ a = "active" /\ Writing(t) => e.id.try < t.try \/ Present(h, s, t, e, pos)
OpenOK(a, h, s, t, e, pos) ==
    /\ a \notin Closed
    /\ a = "active" => IF Writing(t) THEN Present(h, s, t, e, pos) ELSE t.sent
    /\ h # Nobody /\ a \notin Lost /\ ~(a = "active" /\ Writing(t)) =>
           KeyOf[e.id.req] \in s.keys

RequestOK(l, f, r, a, h, s, t) ==
    /\ a = "new" => h = Nobody
    /\ a \in Waiting => h \in Machines
    /\ a = "active" => Working(t) /\ t.req = r
    /\ \A i \in 1..Len(l) : IsChange(l[i]) /\ l[i].id.req = r =>
           /\ SentOK(a, h, s, t, l[i], i - 1) /\ OpenOK(a, h, s, t, l[i], i - 1)
    /\ \A c \in f : IsChange(c.entry) /\ c.entry.id.req = r =>
           /\ SentOK(a, h, s, t, c.entry, c.expect)
           /\ c.expect = Len(l) => OpenOK(a, h, s, t, c.entry, c.expect)

Typed(l, f, st, tk, an, ho, en) ==
    /\ l \in Seq(Entry) /\ f \subseteq AppendCall
    /\ st \in [Machines -> Store] /\ tk \in [Machines -> Task]
    /\ an \in [Requests -> Answers] /\ ho \in [Requests -> Machines \cup {Nobody}]
    /\ en \in Nat

Good(l, f, st, tk, an, ho, en) ==
    /\ Typed(l, f, st, tk, an, ho, en)
    /\ LogOK(l) /\ FlightOK(l, f) /\ PlansUsed(l, f, en)
    /\ EntriesOnce(l, f) /\ KeysOnce(l, f, an, ho) /\ NumbersDiffer(st, tk)
    /\ \A m \in Machines : MachineOK(l, f, an, ho, en, m, st[m], tk[m])
    /\ \A r \in Requests : RequestOK(l, f, r, an[r], ho[r], st[ho[r]], tk[ho[r]])

IInv == faults \in Nat /\ broken = {} /\ Good(log, flight, store, task, answer, host, enables)

-----------------------------------------------------------------------------
(* The log and the tables it stands for *)

LEMMA Appended ==
    ASSUME NEW l \in Seq(Entry), NEW e \in Entry
    PROVE  /\ Append(l, e) \in Seq(Entry)
           /\ Len(l) \in Nat /\ Len(Append(l, e)) = Len(l) + 1
           /\ \A i \in 1..Len(l) : Append(l, e)[i] = l[i]
           /\ Append(l, e)[Len(l) + 1] = e
           /\ \A i \in 1..Len(l) : l[i] \in Entry
  BY AppendProperties, LenProperties, ElementOfSeq

\* A set of natural numbers that is not empty has a least member.
LEMMA LeastExists ==
    ASSUME NEW S \in SUBSET Nat, S # {}
    PROVE  \E n \in S : \A k \in S : n <= k
  <1> DEFINE lt == {p \in Nat \X Nat : p[1] < p[2]}
  <1>1. IsWellFoundedOn(lt, Nat)
    BY NatLessThanWellFounded DEF OpToRel
  <1>2. PICK n \in S : \A k \in S : ~(<<k, n>> \in lt)
    <2> HIDE DEF lt
    <2> QED  BY <1>1, WFMin
  <1>3. ASSUME NEW k \in S PROVE n <= k
    <2>1. <<k, n>> \in Nat \X Nat /\ ~(k < n)
      BY <1>2
    <2> QED  BY <2>1
  <1> QED  BY <1>3

\* How the tables grow with the log.
Step(l, image, n) ==
    IF n = 0 THEN <<>>
    ELSE IF Completes(l[n]) THEN l[n].data
    ELSE IF IsChange(l[n]) THEN Append(image[n - 1], Head(l[n].data))
    ELSE image[n - 1]
Steps(l, image, n) == image = [k \in 0..n |-> Step(l, image, k)]

LEMMA StepsExist ==
    ASSUME NEW l, NEW n \in Nat
    PROVE  \E image : Steps(l, image, n)
  <1> DEFINE Bad == {k \in Nat : ~\E image : Steps(l, image, k)}
  <1>1. SUFFICES ASSUME Bad # {} PROVE FALSE
    OBVIOUS
  <1>2. PICK b \in Bad : \A k \in Bad : b <= k
    BY <1>1, LeastExists
  <1>3. Steps(l, [k \in 0..0 |-> <<>>], 0)
    BY DEF Steps, Step
  <1>4. b # 0
    BY <1>3
  <1>5. b - 1 \in Nat /\ b - 1 \notin Bad
    BY <1>2, <1>4
  <1>6. PICK image : Steps(l, image, b - 1)
    BY <1>5
  <1> DEFINE longer == [k \in 0..b |-> IF k = b THEN Step(l, image, b) ELSE image[k]]
  <1>7. ASSUME NEW k \in 0..b PROVE longer[k] = Step(l, longer, k)
    <2>0. k \in Nat /\ b \in Nat /\ (k # 0 => k - 1 \in 0..b /\ k - 1 # b)
      BY <1>2
    <2>1. k # 0 => longer[k - 1] = image[k - 1]
      BY <2>0
    <2>2. Step(l, longer, k) = Step(l, image, k)
      BY <2>1 DEF Step
    <2>3. CASE k = b
      BY <2>2, <2>3
    <2>4. CASE k # b
      <3>1. k \in 0..(b - 1)
        BY <2>0, <2>4
      <3>2. image[k] = Step(l, image, k)
        BY <1>6, <3>1 DEF Steps
      <3> QED  BY <2>2, <2>4, <3>2
    <2> QED  BY <2>3, <2>4
  <1>8. Steps(l, longer, b)
    <2>1. longer = [k \in 0..b |-> longer[k]]
      OBVIOUS
    <2> HIDE DEF longer
    <2> QED  BY <1>7, <2>1 DEF Steps
  <1> QED  BY <1>8

\* The tables after n entries depend on those entries only.
LEMMA StepsAgree ==
    ASSUME NEW l, NEW n \in Nat, NEW image, Steps(l, image, n),
           NEW l2, NEW n2 \in Nat, NEW image2, Steps(l2, image2, n2),
           n <= n2, \A i \in 1..n : l[i] = l2[i]
    PROVE  \A k \in 0..n : image[k] = image2[k]
  <1> DEFINE Bad == {k \in 0..n : image[k] # image2[k]}
  <1>1. SUFFICES ASSUME Bad # {} PROVE FALSE
    OBVIOUS
  <1>2. PICK b \in Bad : \A k \in Bad : b <= k
    <2>1. Bad \in SUBSET Nat
      OBVIOUS
    <2> HIDE DEF Bad
    <2> QED  BY <1>1, <2>1, LeastExists
  <1>3. b \in 0..n /\ b \in 0..n2
    BY <1>2
  <1>4. image[b] = Step(l, image, b) /\ image2[b] = Step(l2, image2, b)
    BY <1>3 DEF Steps
  <1>5. b # 0 => b - 1 \in 0..n /\ b \in 1..n
    BY <1>3
  <1>6. b # 0 => image[b - 1] = image2[b - 1] /\ l[b] = l2[b]
    BY <1>2, <1>5
  <1>7. Step(l, image, b) = Step(l2, image2, b)
    BY <1>6 DEF Step
  <1> QED  BY <1>2, <1>4, <1>7

LEMMA ImageSteps ==
    ASSUME NEW l \in Seq(Entry)
    PROVE  Steps(l, Image(l), Len(l))
  <1>1. Len(l) \in Nat
    BY LenProperties
  <1>2. \E image : Steps(l, image, Len(l))
    BY <1>1, StepsExist
  <1> QED  BY <1>2 DEF Image, Steps, Step

\* What one more entry does to the tables.
LEMMA ImageGrows ==
    ASSUME NEW l \in Seq(Entry), NEW e \in Entry
    PROVE  \A k \in 0..Len(l) : Image(Append(l, e))[k] = Image(l)[k]
  <1>1. Steps(l, Image(l), Len(l))
    BY ImageSteps
  <1>2. Append(l, e) \in Seq(Entry) /\ Len(l) \in Nat /\ Len(Append(l, e)) = Len(l) + 1
        /\ \A i \in 1..Len(l) : Append(l, e)[i] = l[i]
    BY Appended
  <1>3. Steps(Append(l, e), Image(Append(l, e)), Len(l) + 1)
    BY <1>2, ImageSteps
  <1>4. PICK n : n = Len(l)
    OBVIOUS
  <1>7. PICK l2 : l2 = Append(l, e)
    OBVIOUS
  <1>8. PICK image : image = Image(l)
    OBVIOUS
  <1>9. PICK image2 : image2 = Image(l2)
    OBVIOUS
  <1>10. PICK n2 : n2 = n + 1
    OBVIOUS
  <1>11. n \in Nat /\ n2 \in Nat
    BY <1>2, <1>4, <1>10
  <1>5. Steps(l, image, n) /\ Steps(l2, image2, n2) /\ n <= n2 /\ \A i \in 1..n : l[i] = l2[i]
    BY <1>1, <1>2, <1>3, <1>4, <1>7, <1>8, <1>9, <1>10
  <1>6. \A k \in 0..n : image[k] = image2[k]
    BY <1>5, <1>11, StepsAgree
  <1> QED  BY <1>4, <1>6, <1>7, <1>8, <1>9

LEMMA ImageStep ==
    ASSUME NEW l \in Seq(Entry)
    PROVE  \A k \in 0..Len(l) : Image(l)[k] = Step(l, Image(l), k)
  BY ImageSteps DEF Steps

LEMMA EdgeGrows ==
    ASSUME NEW l \in Seq(Entry), NEW x \in Entry, NEW n \in 0..Len(l)
    PROVE  Edge(Append(l, x), n) = Edge(l, n)
  <1>1. n # 0 => Append(l, x)[n] = l[n]
    BY Appended
  <1> QED  BY <1>1 DEF Edge

LEMMA FollowsGrows ==
    ASSUME NEW l \in Seq(Entry), NEW x \in Entry, NEW e \in Entry, NEW n \in 0..Len(l),
           Follows(l, e, n)
    PROVE  Follows(Append(l, x), e, n)
  <1>0. PICK l2 : l2 = Append(l, x)
    OBVIOUS
  <1>1. Len(l) \in Nat /\ \A i \in 1..Len(l) : l2[i] = l[i]
    BY <1>0, Appended
  <1>2. Edge(l2, n) = Edge(l, n)
    BY <1>0, EdgeGrows
  <1>3. CASE e.kind = "change"
    <2>1. ChangeFollows(l, e, n)
      BY <1>3 DEF Follows
    <2> QED  BY <1>0, <1>2, <1>3, <2>1 DEF Follows, ChangeFollows
  <1>4. CASE e.kind = "snapshot"
    <2>1. PartFollows(l, e, n)
      BY <1>4 DEF Follows
    <2>2. e.through \in 0..n /\ e.through \in 0..Len(l)
      BY <1>1, <2>1, ConstantsAssumption DEF PartFollows, PartIds, Entry
    <2>3. Edge(l2, e.through) = Edge(l, e.through)
      BY <1>0, <2>2, EdgeGrows
    <2>4. \A j \in 1..n : l2[j] = l[j]
      BY <1>1
    <2>5. \A j \in 1..e.through : l2[j] = l[j]
      BY <1>1, <2>2
    <2> QED  BY <1>0, <1>4, <2>1, <2>3, <2>4, <2>5 DEF Follows, PartFollows
  <1>5. e.kind \in {"change", "snapshot"}
    BY DEF Entry
  <1> QED  BY <1>3, <1>4, <1>5

-----------------------------------------------------------------------------
(* An unanswered append lands in the log *)

LEMMA LandLog ==
    ASSUME NEW l \in Seq(Entry), NEW f \in SUBSET AppendCall, NEW en,
           LogOK(l), FlightOK(l, f), PlansUsed(l, f, en),
           NEW c \in f, c.expect = Len(l), \A i \in 1..Len(l) : l[i].id # c.entry.id
    PROVE  LogOK(Append(l, c.entry)) /\ FlightOK(Append(l, c.entry), f)
           /\ PlansUsed(Append(l, c.entry), f, en)
  <1>1. c.entry \in Entry /\ c.expect \in Nat
    BY DEF AppendCall
  <1>2. PICK l2 : l2 = Append(l, c.entry)
    OBVIOUS
  <1>3. /\ Len(l) \in Nat /\ Len(l2) = Len(l) + 1
        /\ \A i \in 1..Len(l) : l2[i] = l[i] /\ l[i] \in Entry
        /\ l2[Len(l) + 1] = c.entry
    BY <1>1, <1>2, Appended
  <1>4. ASSUME NEW i \in 1..Len(l2) PROVE Follows(l2, l2[i], i - 1)
    <2>1. CASE i \in 1..Len(l)
      <3>1. Follows(l, l[i], i - 1) /\ l[i] \in Entry /\ i - 1 \in 0..Len(l)
        BY <1>3, <2>1 DEF LogOK
      <3>2. Follows(l2, l[i], i - 1)
        BY <1>1, <1>2, <3>1, FollowsGrows
      <3> QED  BY <1>3, <2>1, <3>2
    <2>2. CASE i = Len(l) + 1
      <3>1. Follows(l, c.entry, Len(l)) /\ Len(l) \in 0..Len(l)
        BY <1>3 DEF FlightOK
      <3>2. Follows(l2, c.entry, Len(l))
        BY <1>1, <1>2, <3>1, FollowsGrows
      <3>3. i - 1 = Len(l)
        BY <1>3, <2>2
      <3> QED  BY <1>3, <2>2, <3>2, <3>3
    <2> QED  BY <1>3, <2>1, <2>2
  <1>5. ASSUME NEW i \in 1..Len(l2), NEW j \in 1..Len(l2), l2[i].id = l2[j].id PROVE i = j
    BY <1>3, <1>5 DEF LogOK
  <1>6. ASSUME NEW d \in f PROVE d.expect <= Len(l2) /\ Follows(l2, d.entry, d.expect)
    <2>1. d.entry \in Entry /\ d.expect \in 0..Len(l) /\ Follows(l, d.entry, d.expect)
      BY <1>3 DEF AppendCall, FlightOK
    <2>2. Follows(l2, d.entry, d.expect)
      BY <1>1, <1>2, <2>1, FollowsGrows
    <2> QED  BY <1>3, <2>1, <2>2
  <1>7. PlansUsed(l2, f, en)
    BY <1>3 DEF PlansUsed
  <1> QED  BY <1>2, <1>4, <1>5, <1>6, <1>7 DEF LogOK, FlightOK

LEMMA LandOnce ==
    ASSUME NEW l \in Seq(Entry), NEW f \in SUBSET AppendCall, NEW an, NEW ho,
           FlightOK(l, f), EntriesOnce(l, f), KeysOnce(l, f, an, ho),
           NEW c \in f, c.expect = Len(l), \A i \in 1..Len(l) : l[i].id # c.entry.id
    PROVE  EntriesOnce(Append(l, c.entry), f) /\ KeysOnce(Append(l, c.entry), f, an, ho)
  <1>1. c.entry \in Entry /\ \A d \in f : d.expect \in Nat /\ d.expect <= Len(l)
    BY DEF AppendCall, FlightOK
  <1>2. PICK l2 : l2 = Append(l, c.entry)
    OBVIOUS
  <1>3. /\ Len(l) \in Nat /\ Len(l2) = Len(l) + 1
        /\ \A i \in 1..Len(l) : l2[i] = l[i]
        /\ l2[Len(l) + 1] = c.entry
    BY <1>1, <1>2, Appended
  <1>4. \A d \in f : d.expect # Len(l2)
    BY <1>1, <1>3
  <1>5. ASSUME NEW i \in 1..Len(l2), NEW j \in 1..Len(l2), IsChange(l2[i]), IsChange(l2[j]),
               l2[i].id.req = l2[j].id.req
        PROVE  i = j
    <2>1. CASE i \in 1..Len(l) /\ j \in 1..Len(l)
      BY <1>3, <1>5, <2>1 DEF EntriesOnce
    <2>2. CASE i \in 1..Len(l) /\ j = Len(l) + 1
      BY <1>3, <1>5, <2>2 DEF EntriesOnce
    <2>3. CASE i = Len(l) + 1 /\ j \in 1..Len(l)
      <3>1. IsChange(l[j]) /\ IsChange(c.entry) /\ l[j].id.req = c.entry.id.req
        BY <1>3, <1>5, <2>3
      <3>2. l[j].id = c.entry.id
        BY <2>3, <3>1 DEF EntriesOnce
      <3> QED  BY <2>3, <3>2
    <2> QED  BY <1>3, <2>1, <2>2, <2>3
  <1>6. EntriesOnce(l2, f)
    BY <1>4, <1>5 DEF EntriesOnce
  <1>7. ASSUME NEW i \in 1..Len(l2), NEW j \in 1..Len(l2), i < j, IsChange(l2[i]),
               IsChange(l2[j]), SameWrite(ho, l2[i].id.req, l2[j].id.req)
        PROVE  an[l2[i].id.req] \in Lost
    <2>1. i \in 1..Len(l)
      BY <1>3, <1>7
    <2>2. CASE j \in 1..Len(l)
      BY <1>3, <1>7, <2>1, <2>2 DEF KeysOnce
    <2>3. CASE j = Len(l) + 1
      BY <1>3, <1>7, <2>1, <2>3 DEF KeysOnce
    <2> QED  BY <1>3, <2>2, <2>3
  <1>8. KeysOnce(l2, f, an, ho)
    BY <1>4, <1>7 DEF KeysOnce
  <1> QED  BY <1>2, <1>6, <1>8

LEMMA LandMachine ==
    ASSUME NEW l \in Seq(Entry), NEW f \in SUBSET AppendCall, NEW an, NEW ho, NEW en,
           NEW m \in Machines, NEW s \in Store, NEW t \in Task,
           FlightOK(l, f), MachineOK(l, f, an, ho, en, m, s, t),
           NEW c \in f, c.expect = Len(l), \A i \in 1..Len(l) : l[i].id # c.entry.id
    PROVE  MachineOK(Append(l, c.entry), f, an, ho, en, m, s, t)
  <1>1. c.entry \in Entry /\ \A d \in f : d.expect \in Nat /\ d.expect <= Len(l)
    BY DEF AppendCall, FlightOK
  <1>2. PICK l2 : l2 = Append(l, c.entry)
    OBVIOUS
  <1>3. /\ Len(l) \in Nat /\ Len(l2) = Len(l) + 1
        /\ \A i \in 1..Len(l) : l2[i] = l[i]
        /\ l2[Len(l) + 1] = c.entry
    BY <1>1, <1>2, Appended
  <1>4. \A d \in f : d.expect # Len(l2)
    BY <1>1, <1>3
  <1>5. /\ s.applied \in Nat /\ s.base \in Nat
        /\ t.after \in Nat /\ t.end \in Nat /\ t.head \in Nat
    BY DEF Store, Task
  <1>6. \A k \in 0..Len(l) : Image(l2)[k] = Image(l)[k] /\ Edge(l2, k) = Edge(l, k)
    BY <1>1, <1>2, ImageGrows, EdgeGrows
  <1>7. StoreOK(l2, s)
    <2>1. s.applied <= Len(l) /\ s.applied \in 0..Len(l) /\ StoreOK(l, s)
      BY <1>3, <1>5 DEF MachineOK, StoreOK
    <2>2. Image(l2)[s.applied] = Image(l)[s.applied] /\ Edge(l2, s.applied) = Edge(l, s.applied)
      BY <1>6, <2>1
    <2>3. \A i \in 1..s.applied : l2[i] = l[i]
      BY <1>3, <1>5, <2>1
    <2> QED  BY <1>3, <2>1, <2>2, <2>3 DEF StoreOK
  <1>8. PlanOK(l2, f, en, m, s, t)
    <2>1. PlanOK(l, f, en, m, s, t)
      BY DEF MachineOK
    <2>2. t.pc = "head" => Unused(l2, f, t.after)
      BY <1>3, <2>1 DEF PlanOK, Unused
    <2>3. ASSUME s.state = "enabling" PROVE SavedOK(l2, f, m, s)
      <3>1. SavedOK(l, f, m, s)
        BY <2>1, <2>3 DEF PlanOK
      <3>2. s.base <= Len(l) /\ s.base \in 0..Len(l)
        BY <1>3, <1>5, <3>1 DEF SavedOK
      <3>3. Edge(l2, s.base) = Edge(l, s.base) /\ \A i \in 1..s.base : l2[i] = l[i]
        BY <1>3, <1>6, <3>2
      <3>4. ASSUME NEW i \in 1..Len(l2), OfPlan(l2[i], s.plan)
            PROVE  l2[i] = PartOf(m, s, l2[i].id.part).entry
        <4>1. CASE i \in 1..Len(l)
          BY <1>3, <3>1, <3>4, <4>1 DEF SavedOK
        <4>2. CASE i = Len(l) + 1
          BY <1>3, <3>1, <3>4, <4>2 DEF SavedOK
        <4> QED  BY <1>3, <4>1, <4>2
      <3> QED  BY <1>3, <1>5, <3>1, <3>2, <3>3, <3>4 DEF SavedOK
    <2> QED  BY <2>1, <2>2, <2>3 DEF PlanOK
  <1>9. TaskOK(l2, m, s, t)
    <2>1. HolderOK(s, t) /\ ReadOK(l, s, t) /\ SendOK(l, m, s, t)
      BY DEF MachineOK, TaskOK
    <2>2. ReadOK(l2, s, t)
      BY <1>3, <1>5, <2>1 DEF ReadOK
    <2>3. SendOK(l2, m, s, t)
      <3>1. ASSUME t.pc = "commit"
            PROVE  s.applied < Len(l2) /\ l2[s.applied + 1] = CallOf(m, s, t).entry
        <4>1. s.applied < Len(l) /\ l[s.applied + 1] = CallOf(m, s, t).entry
          BY <2>1, <3>1 DEF SendOK
        <4>2. s.applied + 1 \in 1..Len(l)
          BY <1>3, <1>5, <4>1
        <4> QED  BY <1>3, <1>5, <4>1, <4>2
      <3>2. ASSUME t.pc = "parts"
            PROVE  /\ t.after <= Parts /\ s.base + t.after <= Len(l2)
                   /\ \A k \in 1..t.after : l2[s.base + k] = PartOf(m, s, k).entry
        <4>1. /\ t.after <= Parts /\ s.base + t.after <= Len(l)
              /\ \A k \in 1..t.after : l[s.base + k] = PartOf(m, s, k).entry
          BY <2>1, <3>2 DEF SendOK
        <4>2. ASSUME NEW k \in 1..t.after PROVE l2[s.base + k] = PartOf(m, s, k).entry
          <5>1. s.base + k \in 1..Len(l)
            BY <1>3, <1>5, <4>1
          <5>2. l2[s.base + k] = l[s.base + k]
            BY <1>3, <5>1
          <5> QED  BY <4>1, <5>2
        <4>3. s.base + t.after <= Len(l2)
          BY <1>3, <1>5, <4>1
        <4> QED  BY <4>1, <4>2, <4>3
      <3> QED  BY <3>1, <3>2 DEF SendOK
    <2> QED  BY <2>1, <2>2, <2>3 DEF TaskOK
  <1>10. ServesOK(l2, an, ho, m, s, t)
    <2>1. s.applied <= Len(l) /\ ServesOK(l, an, ho, m, s, t)
      BY DEF MachineOK, StoreOK
    <2>2. \A i \in 1..s.applied : l2[i] = l[i]
      BY <1>3, <1>5, <2>1
    <2> QED  BY <2>1, <2>2 DEF ServesOK
  <1>11. PendingOK(l2, f, an, ho, m, s, t)
    <2>1. PendingOK(l, f, an, ho, m, s, t)
      BY DEF MachineOK
    <2>2. ASSUME NEW p \in s.pending PROVE RowOK(l2, f, an, ho, m, s, t, p)
      <3>1. RowOK(l, f, an, ho, m, s, t, p)
        BY <2>1 DEF PendingOK
      <3>2. ASSUME NEW i \in 1..Len(l2), l2[i].id = p.id PROVE i = p.expect + 1
        <4>1. CASE i \in 1..Len(l)
          BY <1>3, <3>1, <3>2, <4>1 DEF RowOK
        <4>2. CASE i = Len(l) + 1
          BY <1>3, <3>1, <3>2, <4>2 DEF RowOK
        <4> QED  BY <1>3, <4>1, <4>2
      <3> QED  BY <3>1, <3>2 DEF RowOK
    <2>3. ASSUME NEW i \in 1..Len(l2), i > s.applied, IsChange(l2[i]), ho[l2[i].id.req] = m
          PROVE  Known(s, l2[i])
      <3>1. CASE i \in 1..Len(l)
        BY <1>3, <2>1, <2>3, <3>1 DEF PendingOK
      <3>2. CASE i = Len(l) + 1
        BY <1>3, <2>1, <2>3, <3>2 DEF PendingOK
      <3> QED  BY <1>3, <3>1, <3>2
    <2> QED  BY <1>4, <2>1, <2>2, <2>3 DEF PendingOK
  <1> QED  BY <1>2, <1>7, <1>8, <1>9, <1>10, <1>11 DEF MachineOK

LEMMA LandRequest ==
    ASSUME NEW l \in Seq(Entry), NEW f \in SUBSET AppendCall, FlightOK(l, f),
           NEW r, NEW a, NEW h, NEW s, NEW t, RequestOK(l, f, r, a, h, s, t),
           NEW c \in f, c.expect = Len(l)
    PROVE  RequestOK(Append(l, c.entry), f, r, a, h, s, t)
  <1>1. c.entry \in Entry /\ \A d \in f : d.expect \in Nat /\ d.expect <= Len(l)
    BY DEF AppendCall, FlightOK
  <1>2. PICK l2 : l2 = Append(l, c.entry)
    OBVIOUS
  <1>3. /\ Len(l) \in Nat /\ Len(l2) = Len(l) + 1
        /\ \A i \in 1..Len(l) : l2[i] = l[i]
        /\ l2[Len(l) + 1] = c.entry
    BY <1>1, <1>2, Appended
  <1>4. \A d \in f : d.expect # Len(l2)
    BY <1>1, <1>3
  <1>5. ASSUME NEW i \in 1..Len(l2), IsChange(l2[i]), l2[i].id.req = r
        PROVE  SentOK(a, h, s, t, l2[i], i - 1) /\ OpenOK(a, h, s, t, l2[i], i - 1)
    <2>1. CASE i \in 1..Len(l)
      BY <1>3, <1>5, <2>1 DEF RequestOK
    <2>2. CASE i = Len(l) + 1
      <3>1. l2[i] = c.entry /\ i - 1 = c.expect
        BY <1>3, <2>2
      <3> QED  BY <1>5, <3>1 DEF RequestOK
    <2> QED  BY <1>3, <2>1, <2>2
  <1> QED  BY <1>2, <1>4, <1>5 DEF RequestOK

\* An append that was not answered reaches the log.
LEMMA LandKeeps ==
    ASSUME NEW l, NEW f, NEW st, NEW tk, NEW an, NEW ho, NEW en,
           Good(l, f, st, tk, an, ho, en),
           NEW c \in f, c.expect = Len(l), \A i \in 1..Len(l) : l[i].id # c.entry.id
    PROVE  Good(Append(l, c.entry), f, st, tk, an, ho, en)
  <1>1. /\ l \in Seq(Entry) /\ f \in SUBSET AppendCall
        /\ \A m \in Machines : st[m] \in Store /\ tk[m] \in Task
    BY DEF Good, Typed
  <1>2. /\ LogOK(l) /\ FlightOK(l, f) /\ PlansUsed(l, f, en)
        /\ EntriesOnce(l, f) /\ KeysOnce(l, f, an, ho)
    BY DEF Good
  <1>3. Append(l, c.entry) \in Seq(Entry)
    BY <1>1, Appended DEF AppendCall
  <1>4. PICK l2 : l2 = Append(l, c.entry)
    OBVIOUS
  <1>5. LogOK(l2) /\ FlightOK(l2, f) /\ PlansUsed(l2, f, en)
    BY <1>1, <1>2, <1>4, LandLog
  <1>6. EntriesOnce(l2, f) /\ KeysOnce(l2, f, an, ho)
    BY <1>1, <1>2, <1>4, LandOnce
  <1>7. \A m \in Machines : MachineOK(l2, f, an, ho, en, m, st[m], tk[m])
    BY <1>1, <1>2, <1>4, LandMachine DEF Good
  <1>8. \A r \in Requests : RequestOK(l2, f, r, an[r], ho[r], st[ho[r]], tk[ho[r]])
    BY <1>1, <1>2, <1>4, LandRequest DEF Good
  <1>9. Typed(l2, f, st, tk, an, ho, en)
    BY <1>3, <1>4 DEF Good, Typed
  <1>10. NumbersDiffer(st, tk)
    BY DEF Good
  <1>11. Good(l2, f, st, tk, an, ho, en)
    BY <1>5, <1>6, <1>7, <1>8, <1>9, <1>10 DEF Good
  <1> QED  BY <1>4, <1>11

\* One that never does is forgotten.
LEMMA LoseKeeps ==
    ASSUME NEW l, NEW f, NEW st, NEW tk, NEW an, NEW ho, NEW en,
           Good(l, f, st, tk, an, ho, en), NEW g \in SUBSET f
    PROVE  Good(l, g, st, tk, an, ho, en)
  <1>1. Typed(l, g, st, tk, an, ho, en)
    BY DEF Good, Typed
  <1>2. LogOK(l) /\ FlightOK(l, g) /\ PlansUsed(l, g, en)
    BY DEF Good, FlightOK, PlansUsed
  <1>3. EntriesOnce(l, g) /\ KeysOnce(l, g, an, ho) /\ NumbersDiffer(st, tk)
    BY DEF Good, EntriesOnce, KeysOnce
  <1>4. ASSUME NEW m \in Machines PROVE MachineOK(l, g, an, ho, en, m, st[m], tk[m])
    <2>1. MachineOK(l, f, an, ho, en, m, st[m], tk[m])
      BY DEF Good
    <2>2. PlanOK(l, g, en, m, st[m], tk[m])
      BY <2>1 DEF MachineOK, PlanOK, SavedOK, Unused
    <2>3. PendingOK(l, g, an, ho, m, st[m], tk[m])
      BY <2>1 DEF MachineOK, PendingOK, RowOK
    <2> QED  BY <2>1, <2>2, <2>3 DEF MachineOK
  <1>5. ASSUME NEW r \in Requests PROVE RequestOK(l, g, r, an[r], ho[r], st[ho[r]], tk[ho[r]])
    BY DEF Good, RequestOK
  <1> QED  BY <1>1, <1>2, <1>3, <1>4, <1>5 DEF Good

-----------------------------------------------------------------------------
(* A step of one machine *)

\* A request that nobody works for does not depend on the lock holder.
LEMMA RequestRests ==
    ASSUME NEW l, NEW f, NEW r, NEW a, NEW h, NEW s, NEW t, RequestOK(l, f, r, a, h, s, t),
           a # "active", NEW s2, NEW t2, h = Nobody \/ s.keys \subseteq s2.keys
    PROVE  RequestOK(l, f, r, a, h, s2, t2)
  BY DEF RequestOK, SentOK, OpenOK

\* One that has not had the lock has no entry: it can end in any way, or get it.
LEMMA RequestStarts ==
    ASSUME NEW l, NEW f, NEW r, NEW h, NEW s, NEW t, RequestOK(l, f, r, "queued", h, s, t),
           NEW a, a # "new", NEW s2, NEW t2, a = "active" => Working(t2) /\ t2.req = r
    PROVE  RequestOK(l, f, r, a, h, s2, t2)
  BY DEF RequestOK, SentOK, Waiting

\* The answers that one step changes belong to requests sent to its machine.
Answered(an, ho, m, an2) ==
    \A r \in Requests : an2[r] # an[r] =>
        ho[r] = m /\ an[r] \in Waiting /\ an2[r] \notin {"new", "queued"}

LEMMA MachineFrame ==
    ASSUME NEW l, NEW f, NEW an, NEW ho, NEW en \in Nat, NEW n \in Machines, NEW s \in Store,
           NEW t \in Task, MachineOK(l, f, an, ho, en, n, s, t), NEW m, m # n,
           NEW an2, Answered(an, ho, m, an2), NEW en2 \in Nat, en <= en2
    PROVE  MachineOK(l, f, an2, ho, en2, n, s, t)
  <1>1. PlanOK(l, f, en2, n, s, t)
    <2>1. Number(s, t) \in Nat
      BY DEF Number, Store, Task
    <2> QED  BY <2>1 DEF MachineOK, PlanOK
  <1>2. ServesOK(l, an2, ho, n, s, t)
    <2>1. ServesOK(l, an, ho, n, s, t) /\ HolderOK(s, t)
      BY DEF MachineOK, TaskOK
    <2>2. Working(t) => an2[t.req] = "active"
      BY <2>1 DEF ServesOK, HolderOK, Answered
    <2> QED  BY <2>1, <2>2 DEF ServesOK
  <1>3. PendingOK(l, f, an2, ho, n, s, t)
    <2>1. PendingOK(l, f, an, ho, n, s, t)
      BY DEF MachineOK
    <2>2. ASSUME NEW p \in s.pending PROVE RowOK(l, f, an2, ho, n, s, t, p)
      <3>1. RowOK(l, f, an, ho, n, s, t, p)
        BY <2>1 DEF PendingOK
      <3>2. p.id.req \in Requests /\ ho[p.id.req] = n
        BY <3>1 DEF RowOK, ChangeIds
      <3>3. an2[p.id.req] = an[p.id.req]
        BY <3>2 DEF Answered
      <3> QED  BY <3>1, <3>3 DEF RowOK
    <2> QED  BY <2>1, <2>2 DEF PendingOK
  <1> QED  BY <1>1, <1>2, <1>3 DEF MachineOK

\* A step of the machine m to a new store and a new lock holder keeps the
\* invariant if it keeps what the invariant says of m and of its requests.
LEMMA LocalKeeps ==
    ASSUME NEW l, NEW f, NEW st, NEW tk, NEW an, NEW ho, NEW en,
           Good(l, f, st, tk, an, ho, en),
           NEW m \in Machines, NEW s2 \in Store, NEW t2 \in Task,
           NEW an2 \in [Requests -> Answers], NEW en2 \in Nat, en <= en2,
           Answered(an, ho, m, an2),
           MachineOK(l, f, an2, ho, en2, m, s2, t2),
           \A r \in Requests : ho[r] = m /\ "active" \in {an[r], an2[r]} =>
               RequestOK(l, f, r, an2[r], m, s2, t2),
           st[m].keys \subseteq s2.keys,
           Number(s2, t2) \in {0, Number(st[m], tk[m])} \/ Number(s2, t2) > en
    PROVE  Good(l, f, [st EXCEPT ![m] = s2], [tk EXCEPT ![m] = t2], an2, ho, en2)
  <1>1. PICK st2 : st2 = [st EXCEPT ![m] = s2]
    OBVIOUS
  <1>2. PICK tk2 : tk2 = [tk EXCEPT ![m] = t2]
    OBVIOUS
  <1>3. Typed(l, f, st, tk, an, ho, en)
    BY DEF Good
  <1>4. /\ st2[m] = s2 /\ tk2[m] = t2
        /\ \A n \in Machines : n # m => st2[n] = st[n] /\ tk2[n] = tk[n]
        /\ \A n \in Machines : st[n] \in Store /\ tk[n] \in Task
        /\ en \in Nat
    BY <1>1, <1>2, <1>3 DEF Typed
  <1>5. Typed(l, f, st2, tk2, an2, ho, en2)
    BY <1>1, <1>2, <1>3 DEF Typed
  <1>6. LogOK(l) /\ FlightOK(l, f) /\ EntriesOnce(l, f)
    BY DEF Good
  <1>7. PlansUsed(l, f, en2)
    <2>1. PlansUsed(l, f, en)
      BY DEF Good
    <2>2. ASSUME NEW i \in 1..Len(l), l[i].kind = "snapshot" PROVE l[i].id.plan <= en2
      <3>1. l[i].id.plan <= en /\ Follows(l, l[i], i - 1)
        BY <1>6, <2>1, <2>2 DEF PlansUsed, LogOK
      <3>2. l[i].id.plan \in Nat
        BY <2>2, <3>1 DEF Follows, PartFollows, PartIds
      <3> QED  BY <1>4, <3>1, <3>2
    <2>3. ASSUME NEW c \in f, c.entry.kind = "snapshot" PROVE c.entry.id.plan <= en2
      <3>1. c.entry.id.plan <= en /\ Follows(l, c.entry, c.expect)
        BY <1>6, <2>1, <2>3 DEF PlansUsed, FlightOK
      <3>2. c.entry.id.plan \in Nat
        BY <2>3, <3>1 DEF Follows, PartFollows, PartIds
      <3> QED  BY <1>4, <3>1, <3>2
    <2> QED  BY <2>2, <2>3 DEF PlansUsed
  <1>8. KeysOnce(l, f, an2, ho)
    <2>1. KeysOnce(l, f, an, ho)
      BY DEF Good
    <2>2. \A r \in Requests : an[r] \in Lost => an2[r] \in Lost
      BY DEF Answered, Lost, Waiting
    <2>3. \A i \in 1..Len(l) : IsChange(l[i]) => l[i].id.req \in Requests
      BY <1>6 DEF LogOK, Follows, ChangeFollows, ChangeIds, IsChange
    <2> QED  BY <2>1, <2>2, <2>3 DEF KeysOnce
  <1>9. NumbersDiffer(st2, tk2)
    <2>1. NumbersDiffer(st, tk)
      BY DEF Good
    <2>2. \A n \in Machines : Number(st[n], tk[n]) <= en
      BY DEF Good, MachineOK, PlanOK
    <2>3. \A n \in Machines : Number(st2[n], tk2[n]) = IF n = m THEN Number(s2, t2) ELSE Number(st[n], tk[n])
      BY <1>4
    <2>4. \A n \in Machines : Number(st[n], tk[n]) \in Nat
      BY <1>4 DEF Number, Store, Task
    <2>5. Number(s2, t2) \in Nat
      BY DEF Number, Store, Task
    <2> QED  BY <1>4, <2>1, <2>2, <2>3, <2>4, <2>5 DEF NumbersDiffer
  <1>10. ASSUME NEW n \in Machines PROVE MachineOK(l, f, an2, ho, en2, n, st2[n], tk2[n])
    <2>1. CASE n = m
      BY <1>4, <2>1
    <2>2. CASE n # m
      <3>1. MachineOK(l, f, an, ho, en, n, st[n], tk[n])
        BY DEF Good
      <3>2. MachineOK(l, f, an2, ho, en2, n, st[n], tk[n])
        BY <1>4, <2>2, <3>1, MachineFrame
      <3> QED  BY <1>4, <2>2, <3>2
    <2> QED  BY <2>1, <2>2
  <1>11. ASSUME NEW r \in Requests PROVE RequestOK(l, f, r, an2[r], ho[r], st2[ho[r]], tk2[ho[r]])
    <2>1. RequestOK(l, f, r, an[r], ho[r], st[ho[r]], tk[ho[r]])
      BY DEF Good
    <2>2. CASE ho[r] = m
      <3>1. CASE "active" \in {an[r], an2[r]}
        BY <1>4, <2>2, <3>1
      <3>2. CASE an[r] # "active" /\ an2[r] = an[r]
        BY <1>4, <2>1, <2>2, <3>2, RequestRests
      <3>3. CASE an[r] # "active" /\ an2[r] # an[r] /\ an2[r] # "active"
        <4>1. an[r] = "queued" /\ an2[r] # "new"
          BY <3>3 DEF Answered, Waiting
        <4>2. RequestOK(l, f, r, an2[r], m, s2, t2)
          BY <2>1, <2>2, <3>3, <4>1, RequestStarts
        <4> QED  BY <1>4, <2>2, <4>2
      <3> QED  BY <3>1, <3>2, <3>3
    <2>3. CASE ho[r] # m /\ ho[r] \in Machines
      <3>1. an2[r] = an[r]
        BY <2>3 DEF Answered
      <3> QED  BY <1>4, <2>1, <2>3, <3>1
    <2>4. CASE ho[r] # m /\ ho[r] = Nobody
      <3>1. an2[r] = an[r]
        BY <2>4 DEF Answered
      <3>2. an[r] # "active"
        BY <2>1, <2>4, ConstantsAssumption DEF RequestOK, Waiting, Nobody
      <3>3. PICK s3 : s3 = st2[ho[r]]
        OBVIOUS
      <3>4. PICK t3 : t3 = tk2[ho[r]]
        OBVIOUS
      <3>5. RequestOK(l, f, r, an[r], ho[r], s3, t3)
        BY <2>1, <2>4, <3>2, RequestRests
      <3> QED  BY <3>1, <3>3, <3>4, <3>5
    <2> QED  BY <1>3, <2>2, <2>3, <2>4 DEF Typed
  <1>12. Good(l, f, st2, tk2, an2, ho, en2)
    BY <1>5, <1>6, <1>7, <1>8, <1>9, <1>10, <1>11 DEF Good
  <1> QED  BY <1>1, <1>2, <1>12

-----------------------------------------------------------------------------
(* An append is sent *)

LEMMA IdsDiffer ==
    ASSUME NEW x \in ChangeIds, NEW plan, NEW part
    PROVE  x # PartId(plan, part)
  <1>1. DOMAIN x = {"req", "try"}
    BY DEF ChangeIds
  <1>2. DOMAIN PartId(plan, part) = {"plan", "part"}
    BY DEF PartId
  <1> QED  BY <1>1, <1>2

LEMMA CallType ==
    ASSUME NEW m \in Machines, NEW s \in Store, NEW t \in Task, t.req \in Requests
    PROVE  /\ CallOf(m, s, t) \in AppendCall
           /\ AttemptId(t) \in ChangeIds /\ AttemptId(t).req = t.req /\ AttemptId(t).try = t.try
  <1>1. AttemptId(t) \in ChangeIds /\ AttemptId(t).req = t.req /\ AttemptId(t).try = t.try
    BY DEF AttemptId, ChangeIds, Task
  <1>2. AttemptId(t) \in EntryIds
    BY <1>1 DEF ChangeIds, EntryIds
  <1>3. KeyOf[t.req] \in Keys
    BY DEF Keys
  <1>4. <<KeyOf[t.req]>> \in Seq(Keys)
    BY <1>3
  <1>5. s.applied \in Nat
    BY DEF Store
  <1> QED  BY <1>1, <1>2, <1>4, <1>5 DEF CallOf, AppendCall, Entry

LEMMA PartType ==
    ASSUME NEW m \in Machines, NEW s \in Store, NEW i \in 1..Parts
    PROVE  PartOf(m, s, i) \in AppendCall /\ PartId(s.plan, i) \in PartIds
  <1>1. PartId(s.plan, i) \in PartIds
    BY DEF PartId, PartIds, Store
  <1>2. PartId(s.plan, i) \in EntryIds
    BY <1>1 DEF PartIds, EntryIds
  <1>3. s.base \in Nat /\ s.base + i - 1 \in Nat /\ s.saved \in Seq(Keys)
    BY ConstantsAssumption DEF Store
  <1> QED  BY <1>1, <1>2, <1>3 DEF PartOf, AppendCall, Entry

\* The lock holder sends the append of its attempt.
LEMMA SendCallKeeps ==
    ASSUME NEW l, NEW f, NEW st, NEW tk, NEW an, NEW ho, NEW en,
           Good(l, f, st, tk, an, ho, en), NEW m \in Machines,
           Sending(tk[m]), tk[m].sent
    PROVE  Good(l, f \cup {CallOf(m, st[m], tk[m])}, st, tk, an, ho, en)
  <1>1. PICK s \in Store : s = st[m]
    BY DEF Good, Typed
  <1>2. PICK t \in Task : t = tk[m]
    BY DEF Good, Typed
  <1>3. PICK c : c = CallOf(m, s, t)
    OBVIOUS
  <1>4. PICK g : g = f \cup {c}
    OBVIOUS
  <1>5. Typed(l, f, st, tk, an, ho, en) /\ MachineOK(l, f, an, ho, en, m, s, t)
    BY <1>1, <1>2 DEF Good
  <1>6. /\ Writing(t) /\ Working(t) /\ t.req \in Requests /\ s.state = "enabled"
        /\ an[t.req] = "active" /\ ho[t.req] = m /\ KeyOf[t.req] \notin s.keys
        /\ t.sent /\ Sending(t)
    BY <1>1, <1>2, <1>5 DEF MachineOK, TaskOK, HolderOK, ServesOK, Sending, Writing, Working
  <1>7. c \in AppendCall /\ AttemptId(t) \in ChangeIds /\ AttemptId(t).req = t.req
        /\ AttemptId(t).try = t.try
    BY <1>3, <1>6, CallType
  <1>8. /\ c.entry.kind = "change" /\ c.entry.id = AttemptId(t) /\ c.entry.author = m
        /\ c.entry.data = <<KeyOf[t.req]>> /\ c.expect = s.applied
        /\ [entry |-> c.entry, expect |-> c.expect] = CallOf(m, s, t)
    BY <1>3 DEF CallOf
  <1>9. Typed(l, g, st, tk, an, ho, en)
    BY <1>4, <1>5, <1>7 DEF Typed
  <1>10. LogOK(l) /\ NumbersDiffer(st, tk)
    BY DEF Good
  <1>11. FlightOK(l, g)
    <2>1. s.applied > 0 /\ s.applied <= Len(l) /\ Edge(l, s.applied)
      BY <1>5, <1>6 DEF MachineOK, StoreOK, Shares
    <2>2. Follows(l, c.entry, c.expect)
      BY <1>7, <1>8, <2>1 DEF Follows, ChangeFollows
    <2> QED  BY <1>4, <1>8, <2>1, <2>2 DEF FlightOK, Good
  <1>12. PlansUsed(l, g, en)
    BY <1>4, <1>8 DEF Good, PlansUsed
  <1>13. RequestOK(l, f, t.req, "active", m, s, t)
    BY <1>1, <1>2, <1>6 DEF Good
  <1>14. EntriesOnce(l, g)
    <2>1. EntriesOnce(l, f)
      BY DEF Good
    <2>2. \A i \in 1..Len(l) : IsChange(l[i]) /\ l[i].id.req = t.req => l[i].id = c.entry.id
      BY <1>6, <1>8, <1>13 DEF RequestOK, OpenOK, Present, CallOf
    <2>3. \A d \in f : IsChange(d.entry) /\ d.expect = Len(l) /\ d.entry.id.req = t.req =>
              d.entry.id = c.entry.id
      BY <1>6, <1>8, <1>13 DEF RequestOK, OpenOK, Present, CallOf
    <2>4. c.entry.id.req = t.req
      BY <1>7, <1>8
    <2> QED  BY <1>4, <2>1, <2>2, <2>3, <2>4 DEF EntriesOnce
  <1>15. KeysOnce(l, g, an, ho)
    <2>1. KeysOnce(l, f, an, ho)
      BY DEF Good
    <2>2. ASSUME NEW i \in 1..Len(l), IsChange(l[i]), SameWrite(ho, l[i].id.req, t.req)
          PROVE  an[l[i].id.req] \in Lost
      <3>1. PICK q \in Requests : q = l[i].id.req
        BY <1>10, <2>2 DEF LogOK, Follows, ChangeFollows, ChangeIds, IsChange
      <3>2. q # t.req /\ KeyOf[q] = KeyOf[t.req] /\ ho[q] = m /\ ho[q] # Nobody
        BY <1>6, <2>2, <3>1 DEF SameWrite
      <3>3. RequestOK(l, f, q, an[q], m, s, t)
        BY <1>1, <1>2, <3>2 DEF Good
      <3>4. an[q] # "active"
        BY <3>2, <3>3 DEF RequestOK
      <3>5. OpenOK(an[q], m, s, t, l[i], i - 1)
        BY <2>2, <3>1, <3>3 DEF RequestOK
      <3> QED  BY <1>6, <3>1, <3>2, <3>4, <3>5 DEF OpenOK
    <2>3. c.entry.id.req = t.req
      BY <1>7, <1>8
    <2> QED  BY <1>4, <2>1, <2>2, <2>3 DEF KeysOnce
  <1>16. ASSUME NEW n \in Machines PROVE MachineOK(l, g, an, ho, en, n, st[n], tk[n])
    <2>1. MachineOK(l, f, an, ho, en, n, st[n], tk[n])
      BY DEF Good
    <2>2. PlanOK(l, g, en, n, st[n], tk[n])
      <3>1. \A number : ~OfPlan(c.entry, number)
        BY <1>8 DEF OfPlan
      <3> QED  BY <1>4, <2>1, <3>1 DEF MachineOK, PlanOK, SavedOK, Unused
    <2>3. PendingOK(l, f, an, ho, n, st[n], tk[n])
      BY <2>1 DEF MachineOK
    <2>4. ASSUME NEW p \in st[n].pending PROVE RowOK(l, g, an, ho, n, st[n], tk[n], p)
      <3>1. RowOK(l, f, an, ho, n, st[n], tk[n], p)
        BY <2>3 DEF PendingOK
      <3>2. ASSUME c.entry.id = p.id PROVE c.expect = p.expect
        <4>1. p.id.req = t.req /\ p.id.try = t.try
          BY <1>7, <1>8, <3>2
        <4>2. n = m
          BY <1>6, <3>1, <4>1 DEF RowOK
        <4>3. ~(p.id.try < t.try)
          BY <4>1 DEF Task
        <4> QED  BY <1>1, <1>2, <1>6, <1>8, <3>1, <4>1, <4>2, <4>3 DEF RowOK
      <3> QED  BY <1>4, <3>1, <3>2 DEF RowOK
    <2>5. ASSUME ho[c.entry.id.req] = n PROVE Known(st[n], c.entry)
      <3>1. n = m
        BY <1>6, <1>7, <1>8, <2>5
      <3> QED  BY <1>1, <1>2, <1>6, <1>8, <2>3, <3>1 DEF PendingOK, Known
    <2>6. PendingOK(l, g, an, ho, n, st[n], tk[n])
      BY <1>4, <2>3, <2>4, <2>5 DEF PendingOK
    <2> QED  BY <2>1, <2>2, <2>6 DEF MachineOK
  <1>17. ASSUME NEW r \in Requests PROVE RequestOK(l, g, r, an[r], ho[r], st[ho[r]], tk[ho[r]])
    <2>1. RequestOK(l, f, r, an[r], ho[r], st[ho[r]], tk[ho[r]])
      BY DEF Good
    <2>2. CASE r = t.req
      <3>1. Present(m, s, t, c.entry, c.expect)
        BY <1>6, <1>8 DEF Present
      <3>2. SentOK("active", m, s, t, c.entry, c.expect) /\ OpenOK("active", m, s, t, c.entry, c.expect)
        BY <1>6, <1>8, <3>1 DEF SentOK, OpenOK, Closed, Lost
      <3>3. RequestOK(l, g, r, "active", m, s, t)
        BY <1>4, <1>13, <2>2, <3>2 DEF RequestOK
      <3> QED  BY <1>1, <1>2, <1>6, <2>2, <3>3
    <2>3. CASE r # t.req
      <3>1. c.entry.id.req # r
        BY <1>7, <1>8, <2>3
      <3> QED  BY <1>4, <2>1, <3>1 DEF RequestOK
    <2> QED  BY <2>2, <2>3
  <1>18. Good(l, g, st, tk, an, ho, en)
    BY <1>9, <1>10, <1>11, <1>12, <1>14, <1>15, <1>16, <1>17 DEF Good
  <1> QED  BY <1>1, <1>2, <1>3, <1>4, <1>18

\* An enabling machine sends the next part of its snapshot.
LEMMA SendPartKeeps ==
    ASSUME NEW l, NEW f, NEW st, NEW tk, NEW an, NEW ho, NEW en,
           Good(l, f, st, tk, an, ho, en), NEW m \in Machines,
           tk[m].pc = "parts", tk[m].after < Parts
    PROVE  Good(l, f \cup {PartOf(m, st[m], tk[m].after + 1)}, st, tk, an, ho, en)
  <1>1. PICK s \in Store : s = st[m]
    BY DEF Good, Typed
  <1>2. PICK t \in Task : t = tk[m]
    BY DEF Good, Typed
  <1>3. PICK i : i = t.after + 1
    OBVIOUS
  <1>4. PICK c : c = PartOf(m, s, i)
    OBVIOUS
  <1>5. PICK g : g = f \cup {c}
    OBVIOUS
  <1>6. /\ Typed(l, f, st, tk, an, ho, en) /\ MachineOK(l, f, an, ho, en, m, s, t)
        /\ LogOK(l) /\ NumbersDiffer(st, tk)
    BY <1>1, <1>2 DEF Good
  <1>7. i \in 1..Parts /\ t.after \in Nat /\ s.base \in Nat /\ s.plan \in Nat /\ Len(l) \in Nat
    BY <1>1, <1>2, <1>3, <1>6, ConstantsAssumption, LenProperties DEF Task, Store, Typed
  <1>8. c \in AppendCall /\ PartId(s.plan, i) \in PartIds
    BY <1>4, <1>7, PartType
  <1>9. /\ c.entry.kind = "snapshot" /\ c.entry.id = PartId(s.plan, i) /\ c.entry.author = m
        /\ c.entry.through = s.base /\ c.entry.id.plan = s.plan /\ c.entry.id.part = i
        /\ c.expect = s.base + i - 1 /\ ~IsChange(c.entry)
    BY <1>4 DEF PartOf, PartId, IsChange
  <1>10. /\ s.state = "enabling" /\ s.plan > 0 /\ SavedOK(l, f, m, s) /\ Number(s, t) = s.plan
         /\ s.plan <= en /\ t.pc # "head"
    BY <1>2, <1>6 DEF MachineOK, TaskOK, HolderOK, PlanOK, Number
  <1>11. s.base + t.after <= Len(l) /\ \A k \in 1..t.after : l[s.base + k] = PartOf(m, s, k).entry
    BY <1>2, <1>6 DEF MachineOK, TaskOK, SendOK
  <1>12. FlightOK(l, g)
    <2>0. c.expect = s.base + t.after /\ c.expect \in Nat /\ i \in Nat
      BY <1>3, <1>7, <1>9
    <2>1. ASSUME NEW k \in 1..c.expect, k > s.base
          PROVE  l[k] = [c.entry EXCEPT !.id = PartId(s.plan, k - s.base)]
      <3>1. k - s.base \in 1..t.after /\ s.base + (k - s.base) = k
        BY <1>7, <2>0, <2>1
      <3>2. l[k] = PartOf(m, s, k - s.base).entry
        BY <1>11, <3>1
      <3> QED  BY <1>4, <3>2 DEF PartOf
    <2>2. c.expect <= Len(l) /\ c.expect + 1 = s.base + i
      BY <1>3, <1>7, <1>11, <2>0
    <2>3. PartFollows(l, c.entry, c.expect)
      BY <1>8, <1>9, <1>10, <2>1, <2>2 DEF PartFollows, SavedOK
    <2>4. Follows(l, c.entry, c.expect)
      BY <1>9, <2>3 DEF Follows
    <2> QED  BY <1>5, <2>2, <2>4 DEF FlightOK, Good
  <1>13. Typed(l, g, st, tk, an, ho, en)
    BY <1>5, <1>6, <1>8 DEF Typed
  <1>14. PlansUsed(l, g, en)
    BY <1>5, <1>9, <1>10 DEF Good, PlansUsed
  <1>15. EntriesOnce(l, g) /\ KeysOnce(l, g, an, ho)
    BY <1>5, <1>9 DEF Good, EntriesOnce, KeysOnce
  <1>16. ASSUME NEW n \in Machines PROVE MachineOK(l, g, an, ho, en, n, st[n], tk[n])
    <2>1. MachineOK(l, f, an, ho, en, n, st[n], tk[n])
      BY DEF Good
    <2>2. n # m => Number(st[n], tk[n]) # s.plan
      BY <1>1, <1>2, <1>6, <1>10 DEF NumbersDiffer
    <2>3. PlanOK(l, f, en, n, st[n], tk[n]) /\ HolderOK(st[n], tk[n])
      BY <2>1 DEF MachineOK, TaskOK
    <2>4. ASSUME tk[n].pc = "head" PROVE Unused(l, g, tk[n].after)
      <3>1. n # m /\ Number(st[n], tk[n]) = tk[n].after
        BY <1>2, <1>10, <2>4 DEF Number
      <3>2. ~OfPlan(c.entry, tk[n].after)
        BY <1>9, <2>2, <3>1 DEF OfPlan
      <3> QED  BY <1>5, <2>3, <2>4, <3>2 DEF PlanOK, Unused
    <2>5. ASSUME st[n].state = "enabling" PROVE SavedOK(l, g, n, st[n])
      <3>1. SavedOK(l, f, n, st[n])
        BY <2>3, <2>5 DEF PlanOK
      <3>2. CASE n = m
        BY <1>1, <1>4, <1>5, <1>9, <3>1, <3>2 DEF SavedOK
      <3>3. CASE n # m
        <4>1. Number(st[n], tk[n]) = st[n].plan
          BY <2>3, <2>5 DEF HolderOK, Number
        <4>2. ~OfPlan(c.entry, st[n].plan)
          BY <1>9, <2>2, <3>3, <4>1 DEF OfPlan
        <4> QED  BY <1>5, <3>1, <4>2 DEF SavedOK
      <3> QED  BY <3>2, <3>3
    <2>6. PlanOK(l, g, en, n, st[n], tk[n])
      BY <2>3, <2>4, <2>5 DEF PlanOK
    <2>7. PendingOK(l, g, an, ho, n, st[n], tk[n])
      <3>1. PendingOK(l, f, an, ho, n, st[n], tk[n])
        BY <2>1 DEF MachineOK
      <3>2. ASSUME NEW p \in st[n].pending PROVE RowOK(l, g, an, ho, n, st[n], tk[n], p)
        <4>1. RowOK(l, f, an, ho, n, st[n], tk[n], p)
          BY <3>1 DEF PendingOK
        <4>2. p.id # c.entry.id
          BY <1>9, <4>1, IdsDiffer DEF RowOK
        <4> QED  BY <1>5, <4>1, <4>2 DEF RowOK
      <3> QED  BY <1>5, <1>9, <3>1, <3>2 DEF PendingOK
    <2> QED  BY <2>1, <2>6, <2>7 DEF MachineOK
  <1>17. ASSUME NEW r \in Requests PROVE RequestOK(l, g, r, an[r], ho[r], st[ho[r]], tk[ho[r]])
    <2>1. RequestOK(l, f, r, an[r], ho[r], st[ho[r]], tk[ho[r]])
      BY DEF Good
    <2> QED  BY <1>5, <1>9, <2>1 DEF RequestOK
  <1>18. Good(l, g, st, tk, an, ho, en)
    BY <1>6, <1>12, <1>13, <1>14, <1>15, <1>16, <1>17 DEF Good
  <1> QED  BY <1>1, <1>2, <1>3, <1>4, <1>5, <1>18

-----------------------------------------------------------------------------
(* A request arrives; a machine starts over *)

NoEntries(l, f, r) ==
    /\ \A i \in 1..Len(l) : IsChange(l[i]) => l[i].id.req # r
    /\ \A c \in f : IsChange(c.entry) => c.entry.id.req # r

LEMMA ArriveKeeps ==
    ASSUME NEW l, NEW f, NEW st, NEW tk, NEW an, NEW ho, NEW en,
           Good(l, f, st, tk, an, ho, en), NEW r \in Requests, an[r] = "new",
           NEW m \in Machines, NEW x \in {"queued", "refused", "cached"}
    PROVE  Good(l, f, st, tk, [an EXCEPT ![r] = x], [ho EXCEPT ![r] = m], en)
  <1>1. PICK an2 : an2 = [an EXCEPT ![r] = x]
    OBVIOUS
  <1>2. PICK ho2 : ho2 = [ho EXCEPT ![r] = m]
    OBVIOUS
  <1>3. Typed(l, f, st, tk, an, ho, en)
    BY DEF Good
  <1>4. /\ an2[r] = x /\ ho2[r] = m
        /\ \A q \in Requests : q # r => an2[q] = an[q] /\ ho2[q] = ho[q]
    BY <1>1, <1>2, <1>3 DEF Typed
  <1>5. Typed(l, f, st, tk, an2, ho2, en)
    BY <1>1, <1>2, <1>3 DEF Typed, Answers, Waiting
  <1>6. NoEntries(l, f, r)
    BY DEF Good, RequestOK, SentOK, NoEntries
  <1>7. LogOK(l) /\ FlightOK(l, f) /\ PlansUsed(l, f, en) /\ EntriesOnce(l, f) /\ NumbersDiffer(st, tk)
    BY DEF Good
  <1>8. /\ \A i \in 1..Len(l) : IsChange(l[i]) => l[i].id.req \in Requests \ {r}
        /\ \A c \in f : IsChange(c.entry) => c.entry.id.req \in Requests \ {r}
    BY <1>6, <1>7 DEF NoEntries, LogOK, FlightOK, Follows, ChangeFollows, ChangeIds, IsChange
  <1>9. KeysOnce(l, f, an2, ho2)
    <2>1. KeysOnce(l, f, an, ho)
      BY DEF Good
    <2>2. \A q, p \in Requests \ {r} : SameWrite(ho2, q, p) => SameWrite(ho, q, p)
      BY <1>4 DEF SameWrite
    <2> QED  BY <1>4, <1>8, <2>1, <2>2 DEF KeysOnce
  <1>10. ASSUME NEW n \in Machines PROVE MachineOK(l, f, an2, ho2, en, n, st[n], tk[n])
    <2>1. MachineOK(l, f, an, ho, en, n, st[n], tk[n])
      BY DEF Good
    <2>2. ServesOK(l, an2, ho2, n, st[n], tk[n])
      <3>1. Working(tk[n]) => tk[n].req \in Requests /\ an[tk[n].req] = "active" /\ ho[tk[n].req] = n
        BY <2>1 DEF MachineOK, TaskOK, HolderOK, ServesOK
      <3>2. Working(tk[n]) => tk[n].req # r
        BY <3>1
      <3> QED  BY <1>4, <2>1, <3>1, <3>2 DEF MachineOK, ServesOK
    <2>3. PendingOK(l, f, an2, ho2, n, st[n], tk[n])
      <3>1. PendingOK(l, f, an, ho, n, st[n], tk[n])
        BY <2>1 DEF MachineOK
      <3>2. ASSUME NEW p \in st[n].pending PROVE RowOK(l, f, an2, ho2, n, st[n], tk[n], p)
        <4>1. RowOK(l, f, an, ho, n, st[n], tk[n], p)
          BY <3>1 DEF PendingOK
        <4>2. p.id.req \in Requests /\ p.id.req # r
          BY <4>1 DEF RowOK, ChangeIds
        <4> QED  BY <1>4, <4>1, <4>2 DEF RowOK
      <3> QED  BY <1>4, <1>8, <3>1, <3>2 DEF PendingOK
    <2> QED  BY <2>1, <2>2, <2>3 DEF MachineOK
  <1>11. ASSUME NEW q \in Requests PROVE RequestOK(l, f, q, an2[q], ho2[q], st[ho2[q]], tk[ho2[q]])
    <2>1. CASE q = r
      BY <1>4, <1>6, <2>1 DEF RequestOK, NoEntries, Waiting
    <2>2. CASE q # r
      BY <1>4, <2>2 DEF Good
    <2> QED  BY <2>1, <2>2
  <1>12. Good(l, f, st, tk, an2, ho2, en)
    BY <1>5, <1>7, <1>9, <1>10, <1>11 DEF Good
  <1> QED  BY <1>1, <1>2, <1>12

\* An idle machine with no request of its own starts over with an empty store.
LEMMA WipeKeeps ==
    ASSUME NEW l, NEW f, NEW st, NEW tk, NEW an, NEW ho, NEW en,
           Good(l, f, st, tk, an, ho, en), NEW m \in Machines, tk[m] = IdleTask,
           \A r \in Requests : ho[r] = m => an[r] \notin Waiting
    PROVE  Good(l, f, [st EXCEPT ![m] = EmptyStore], tk, an,
                [r \in Requests |-> IF ho[r] = m THEN Nobody ELSE ho[r]], en)
  <1>1. PICK st2 : st2 = [st EXCEPT ![m] = EmptyStore]
    OBVIOUS
  <1>2. PICK ho2 : ho2 = [r \in Requests |-> IF ho[r] = m THEN Nobody ELSE ho[r]]
    OBVIOUS
  <1>3. Typed(l, f, st, tk, an, ho, en)
    BY DEF Good
  <1>4. /\ st2[m] = EmptyStore
        /\ \A n \in Machines : n # m => st2[n] = st[n]
        /\ \A r \in Requests : ho2[r] = IF ho[r] = m THEN Nobody ELSE ho[r]
        /\ Nobody \notin Machines
    BY <1>1, <1>2, <1>3, ConstantsAssumption DEF Typed, Nobody
  <1>5. EmptyStore \in Store
    BY <1>3, StoreType DEF Typed
  <1>6. Typed(l, f, st2, tk, an, ho2, en)
    BY <1>1, <1>2, <1>3, <1>5 DEF Typed
  <1>7. LogOK(l) /\ FlightOK(l, f) /\ PlansUsed(l, f, en) /\ EntriesOnce(l, f)
    BY DEF Good
  <1>8. /\ \A i \in 1..Len(l) : IsChange(l[i]) => l[i].id.req \in Requests
        /\ \A c \in f : IsChange(c.entry) => c.entry.id.req \in Requests
    BY <1>7 DEF LogOK, FlightOK, Follows, ChangeFollows, ChangeIds, IsChange
  <1>9. KeysOnce(l, f, an, ho2)
    <2>1. KeysOnce(l, f, an, ho)
      BY DEF Good
    <2>2. \A q, p \in Requests : SameWrite(ho2, q, p) => SameWrite(ho, q, p)
      BY <1>4 DEF SameWrite
    <2> QED  BY <1>8, <2>1, <2>2 DEF KeysOnce
  <1>10. Number(EmptyStore, IdleTask) = 0
    BY DEF Number, EmptyStore, IdleTask
  <1>11. NumbersDiffer(st2, tk)
    BY <1>4, <1>10 DEF Good, NumbersDiffer
  <1>12. ASSUME NEW n \in Machines PROVE MachineOK(l, f, an, ho2, en, n, st2[n], tk[n])
    <2>1. CASE n = m
      <3>1. Len(l) \in Nat /\ en \in Nat
        BY <1>3, LenProperties DEF Typed
      <3>2. StoreOK(l, EmptyStore)
        BY <3>1 DEF StoreOK, EmptyStore, Edge, Shares
      <3>3. PlanOK(l, f, en, m, EmptyStore, IdleTask)
        BY <1>10, <3>1 DEF PlanOK, EmptyStore, IdleTask
      <3>4. TaskOK(l, m, EmptyStore, IdleTask)
        BY DEF TaskOK, HolderOK, ReadOK, SendOK, IdleTask, Working, Writing
      <3>5. ServesOK(l, an, ho2, m, EmptyStore, IdleTask)
        BY DEF ServesOK, IdleTask, Working
      <3>6. \A r \in Requests : ho2[r] # m
        BY <1>4
      <3>7. PendingOK(l, f, an, ho2, m, EmptyStore, IdleTask)
        BY <1>8, <3>6 DEF PendingOK, EmptyStore, IdleTask, Sending
      <3> QED  BY <1>4, <2>1, <3>2, <3>3, <3>4, <3>5, <3>7 DEF MachineOK
    <2>2. CASE n # m
      <3>1. MachineOK(l, f, an, ho, en, n, st[n], tk[n])
        BY DEF Good
      <3>2. \A r \in Requests : ho2[r] = n <=> ho[r] = n
        BY <1>4, <2>2
      <3>3. ServesOK(l, an, ho2, n, st[n], tk[n])
        BY <3>1, <3>2 DEF MachineOK, TaskOK, HolderOK, ServesOK
      <3>4. PendingOK(l, f, an, ho, n, st[n], tk[n])
        BY <3>1 DEF MachineOK
      <3>5. ASSUME NEW p \in st[n].pending PROVE RowOK(l, f, an, ho2, n, st[n], tk[n], p)
        BY <3>2, <3>4 DEF PendingOK, RowOK, ChangeIds
      <3>6. PendingOK(l, f, an, ho2, n, st[n], tk[n])
        BY <1>8, <3>2, <3>4, <3>5 DEF PendingOK
      <3> QED  BY <1>4, <2>2, <3>1, <3>3, <3>6 DEF MachineOK
    <2> QED  BY <2>1, <2>2
  <1>13. ASSUME NEW r \in Requests PROVE RequestOK(l, f, r, an[r], ho2[r], st2[ho2[r]], tk[ho2[r]])
    <2>1. RequestOK(l, f, r, an[r], ho[r], st[ho[r]], tk[ho[r]])
      BY DEF Good
    <2>2. CASE ho[r] = m
      <3>1. an[r] \notin {"queued", "active"} /\ ho2[r] = Nobody
        BY <1>4, <2>2 DEF Waiting
      <3>2. PICK s3 : s3 = st2[ho2[r]]
        OBVIOUS
      <3>3. PICK t3 : t3 = tk[ho2[r]]
        OBVIOUS
      <3>4. RequestOK(l, f, r, an[r], Nobody, s3, t3)
        BY <2>1, <3>1 DEF RequestOK, SentOK, OpenOK, Waiting
      <3> QED  BY <3>1, <3>2, <3>3, <3>4
    <2>3. CASE ho[r] # m /\ ho[r] \in Machines
      BY <1>4, <2>1, <2>3
    <2>4. CASE ho[r] # m /\ ho[r] = Nobody
      <3>1. an[r] # "active" /\ ho2[r] = Nobody
        BY <1>4, <2>1, <2>4 DEF RequestOK, Waiting
      <3>2. PICK s3 : s3 = st2[ho2[r]]
        OBVIOUS
      <3>3. PICK t3 : t3 = tk[ho2[r]]
        OBVIOUS
      <3>4. RequestOK(l, f, r, an[r], ho[r], s3, t3)
        BY <2>1, <2>4, <3>1, RequestRests
      <3> QED  BY <2>4, <3>1, <3>2, <3>3, <3>4
    <2> QED  BY <1>3, <2>2, <2>3, <2>4 DEF Typed
  <1>14. Good(l, f, st2, tk, an, ho2, en)
    BY <1>6, <1>7, <1>9, <1>11, <1>12, <1>13 DEF Good
  <1> QED  BY <1>1, <1>2, <1>14

-----------------------------------------------------------------------------
(* How the request of a lock holder goes on or ends *)

\* No attempt of the request is in the log or may still get there.
Unlanded(l, f, r) ==
    /\ \A i \in 1..Len(l) : IsChange(l[i]) => l[i].id.req # r
    /\ \A c \in f : IsChange(c.entry) /\ c.expect = Len(l) => c.entry.id.req # r

LEMMA NothingSent ==
    ASSUME NEW l, NEW f, NEW r, NEW h, NEW s, NEW t, RequestOK(l, f, r, "active", h, s, t),
           IF Writing(t) THEN ~Sending(t) \/ ~t.sent ELSE ~t.sent
    PROVE  Unlanded(l, f, r)
  BY DEF RequestOK, OpenOK, Present, Unlanded

LEMMA RequestEnds ==
    ASSUME NEW l, NEW f, NEW r, NEW h, NEW s, NEW t, RequestOK(l, f, r, "active", h, s, t),
           NEW x \in Lost \cup Closed \cup {"ok"}, x \in Closed => Unlanded(l, f, r),
           NEW s2, NEW t2, x = "ok" => KeyOf[r] \in s2.keys
    PROVE  RequestOK(l, f, r, x, h, s2, t2)
  BY DEF RequestOK, SentOK, OpenOK, Unlanded, Lost, Closed, Waiting

\* The request goes on with an attempt that was already sent, or none.
LEMMA RequestGoesOn ==
    ASSUME NEW l, NEW f, NEW r, NEW h, NEW s, NEW t, RequestOK(l, f, r, "active", h, s, t),
           NEW s2, NEW t2, t2.holder = t.holder, t2.req = t.req, t2.try = t.try,
           s.keys \subseteq s2.keys,
           IF Writing(t)
           THEN \/ Unlanded(l, f, r) /\ ~(Sending(t) /\ t.sent)
                \/ Sending(t2) /\ t2.sent /\ s2.applied = s.applied
           ELSE t2.sent = t.sent
    PROVE  RequestOK(l, f, r, "active", h, s2, t2)
  BY DEF RequestOK, SentOK, OpenOK, Present, CallOf, AttemptId, Writing, Working, Unlanded

\* It goes on with a new attempt, after the last one was decided.
LEMMA RequestRetries ==
    ASSUME NEW l, NEW f, NEW r, NEW h, NEW s, NEW t \in Task, RequestOK(l, f, r, "active", h, s, t),
           FlightOK(l, f), Writing(t), Unlanded(l, f, r),
           NEW t2, Writing(t2), t2.req = t.req, t2.try = t.try + 1
    PROVE  RequestOK(l, f, r, "active", h, s, t2)
  <1>1. ASSUME NEW c \in f, IsChange(c.entry), c.entry.id.req = r
        PROVE  SentOK("active", h, s, t2, c.entry, c.expect)
    <2>1. SentOK("active", h, s, t, c.entry, c.expect)
      BY <1>1 DEF RequestOK
    <2>2. c.entry.id.try < t.try \/ c.entry.id.try = t.try
      BY <2>1 DEF SentOK, Present, CallOf, AttemptId
    <2>3. c.entry.id.try \in Nat /\ t.try \in Nat
      BY <1>1, ConstantsAssumption
         DEF FlightOK, Follows, ChangeFollows, ChangeIds, IsChange, Task
    <2>4. c.entry.id.try < t2.try
      BY <2>2, <2>3
    <2> QED  BY <2>1, <2>4 DEF SentOK
  <1> QED  BY <1>1 DEF RequestOK, Unlanded, Working, Writing

\* A write becomes a read-back: it is decided, with an entry or without one.
LEMMA RequestReadsBack ==
    ASSUME NEW l, NEW f, NEW r, NEW h, NEW s, NEW t, RequestOK(l, f, r, "active", h, s, t),
           NEW s2, NEW t2, t2.holder = "readback", t2.req = t.req,
           t2.sent \/ Unlanded(l, f, r), t2.sent => KeyOf[r] \in s2.keys
    PROVE  RequestOK(l, f, r, "active", h, s2, t2)
  BY DEF RequestOK, SentOK, OpenOK, Writing, Working, Unlanded

-----------------------------------------------------------------------------
(* The task of a machine ends *)

Idle(t) == t.holder = "free" /\ t.pc = "idle" /\ t.stalled # "apply"

LEMMA IdleMachine ==
    ASSUME NEW l, NEW f, NEW an, NEW ho, NEW en \in Nat, NEW m \in Machines, NEW s \in Store,
           NEW t \in Task, MachineOK(l, f, an, ho, en, m, s, t), NEW an2, Answered(an, ho, m, an2),
           NEW t2, Idle(t2)
    PROVE  /\ MachineOK(l, f, an2, ho, en, m, s, t2)
           /\ Number(s, t2) \in {0, Number(s, t)}
  <1>1. Number(s, t2) \in {0, Number(s, t)} /\ Number(s, t2) <= en
    BY DEF Number, MachineOK, PlanOK, TaskOK, HolderOK, Idle
  <1>2. PlanOK(l, f, en, m, s, t2)
    BY <1>1 DEF MachineOK, PlanOK, Idle
  <1>3. TaskOK(l, m, s, t2)
    BY DEF Idle, TaskOK, HolderOK, ReadOK, SendOK, Working, Writing
  <1>4. ServesOK(l, an2, ho, m, s, t2)
    BY DEF ServesOK, Idle, Working
  <1>5. PendingOK(l, f, an2, ho, m, s, t2)
    <2>1. PendingOK(l, f, an, ho, m, s, t)
      BY DEF MachineOK
    <2>2. ASSUME NEW p \in s.pending PROVE RowOK(l, f, an2, ho, m, s, t2, p)
      <3>1. RowOK(l, f, an, ho, m, s, t, p)
        BY <2>1 DEF PendingOK
      <3>2. an2[p.id.req] \notin {"new", "queued"}
        BY <3>1 DEF RowOK, ChangeIds, Answered
      <3> QED  BY <3>1, <3>2 DEF RowOK, Idle, Writing
    <2> QED  BY <2>1, <2>2 DEF PendingOK, Idle, Sending
  <1> QED  BY <1>1, <1>2, <1>3, <1>4, <1>5 DEF MachineOK

\* The answers after the task ends with `result`.
ToldOf(an, t, result) ==
    CASE t.holder = "write" -> [an EXCEPT ![t.req] = result]
      [] t.holder = "readback" -> [an EXCEPT ![t.req] = IF t.sent THEN "ok" ELSE "nothing"]
      [] OTHER -> an

LEMMA ToldAnswers ==
    ASSUME NEW an \in [Requests -> Answers], NEW ho, NEW m, NEW t,
           Working(t) => t.req \in Requests /\ an[t.req] = "active" /\ ho[t.req] = m,
           NEW result \in Lost \cup Closed \cup {"ok"}
    PROVE  /\ ToldOf(an, t, result) \in [Requests -> Answers]
           /\ Answered(an, ho, m, ToldOf(an, t, result))
           /\ ~Working(t) => ToldOf(an, t, result) = an
           /\ \A r \in Requests : Working(t) /\ r = t.req => ToldOf(an, t, result)[r] =
                  IF Writing(t) THEN result ELSE IF t.sent THEN "ok" ELSE "nothing"
           /\ \A r \in Requests : ~(Working(t) /\ r = t.req) => ToldOf(an, t, result)[r] = an[r]
  <1>1. CASE t.holder = "write"
    <2>1. ToldOf(an, t, result) = [an EXCEPT ![t.req] = result]
      BY <1>1 DEF ToldOf
    <2> QED  BY <1>1, <2>1 DEF Working, Writing, Answered, Answers, Waiting, Lost, Closed
  <1>2. CASE t.holder = "readback"
    <2>1. ToldOf(an, t, result) = [an EXCEPT ![t.req] = IF t.sent THEN "ok" ELSE "nothing"]
      BY <1>2 DEF ToldOf
    <2> QED  BY <1>2, <2>1 DEF Working, Writing, Answered, Answers, Waiting
  <1>3. CASE t.holder \notin {"write", "readback"}
    <2>1. ToldOf(an, t, result) = an
      BY <1>3 DEF ToldOf
    <2> QED  BY <1>3, <2>1 DEF Working, Writing, Answered
  <1> QED  BY <1>1, <1>2, <1>3

LEMMA EndKeeps ==
    ASSUME NEW l, NEW f, NEW st, NEW tk, NEW an, NEW ho, NEW en,
           Good(l, f, st, tk, an, ho, en), NEW m \in Machines,
           NEW t2 \in Task, Idle(t2), NEW result \in Lost \cup {"refused", "nothing"},
           Writing(tk[m]) /\ result \notin Lost => Unlanded(l, f, tk[m].req)
    PROVE  Good(l, f, st, [tk EXCEPT ![m] = t2], ToldOf(an, tk[m], result), ho, en)
  <1>1. PICK s \in Store : s = st[m]
    BY DEF Good, Typed
  <1>2. PICK t \in Task : t = tk[m]
    BY DEF Good, Typed
  <1>3. Typed(l, f, st, tk, an, ho, en) /\ MachineOK(l, f, an, ho, en, m, s, t) /\ en \in Nat
    BY <1>1, <1>2 DEF Good, Typed
  <1>4. Working(t) => t.req \in Requests /\ an[t.req] = "active" /\ ho[t.req] = m
    BY <1>3 DEF MachineOK, TaskOK, HolderOK, ServesOK
  <1>5. PICK an2 : an2 = ToldOf(an, t, result)
    OBVIOUS
  <1>6. result \in Lost \cup Closed \cup {"ok"}
    BY DEF Closed
  <1>7. /\ an2 \in [Requests -> Answers] /\ Answered(an, ho, m, an2)
        /\ \A r \in Requests : Working(t) /\ r = t.req => an2[r] =
               IF Writing(t) THEN result ELSE IF t.sent THEN "ok" ELSE "nothing"
        /\ \A r \in Requests : ~(Working(t) /\ r = t.req) => an2[r] = an[r]
    <2>1. an \in [Requests -> Answers]
      BY <1>3 DEF Typed
    <2> QED  BY <2>1, <1>4, <1>5, <1>6, ToldAnswers
  <1>8. MachineOK(l, f, an2, ho, en, m, s, t2) /\ Number(s, t2) \in {0, Number(s, t)}
    BY <1>3, <1>7, IdleMachine
  <1>9. ASSUME NEW r \in Requests, ho[r] = m, "active" \in {an[r], an2[r]}
        PROVE  RequestOK(l, f, r, an2[r], m, s, t2)
    <2>1. RequestOK(l, f, r, an[r], m, s, t)
      BY <1>1, <1>2, <1>9 DEF Good
    <2>2. an[r] = "active"
      BY <1>4, <1>7, <1>9
    <2>3. Working(t) /\ t.req = r
      BY <2>1, <2>2 DEF RequestOK
    <2>4. CASE Writing(t)
      <3>1. an2[r] = result /\ (result \in Closed => Unlanded(l, f, r)) /\ result # "ok"
        BY <1>2, <1>7, <2>3, <2>4 DEF Closed, Lost
      <3> QED  BY <1>6, <2>1, <2>2, <3>1, RequestEnds
    <2>5. CASE ~Writing(t) /\ t.sent
      <3>1. an2[r] = "ok" /\ "ok" \in Lost \cup Closed \cup {"ok"} /\ "ok" \notin Closed
        BY <1>7, <2>3, <2>5 DEF Closed
      <3>2. ASSUME Unlanded(l, f, r) PROVE RequestOK(l, f, r, "ok", m, s, t2)
        BY <2>1, <2>2, <3>2 DEF RequestOK, SentOK, Unlanded, Waiting
      <3>3. ASSUME ~Unlanded(l, f, r) PROVE KeyOf[r] \in s.keys
        <4>1. \A e, pos : OpenOK("active", m, s, t, e, pos) /\ e.id.req = r => KeyOf[r] \in s.keys
          BY <1>3, <2>5, ConstantsAssumption DEF OpenOK, Nobody, Lost
        <4> QED  BY <2>1, <2>2, <3>3, <4>1 DEF RequestOK, Unlanded
      <3>4. ASSUME KeyOf[r] \in s.keys PROVE RequestOK(l, f, r, "ok", m, s, t2)
        BY <2>1, <2>2, <3>1, <3>4, RequestEnds
      <3> QED  BY <3>1, <3>2, <3>3, <3>4
    <2>6. CASE ~Writing(t) /\ ~t.sent
      <3>1. an2[r] = "nothing" /\ "nothing" \in Lost \cup Closed \cup {"ok"}
        BY <1>7, <2>3, <2>6 DEF Closed
      <3>2. Unlanded(l, f, r)
        BY <2>1, <2>2, <2>6, NothingSent
      <3> QED  BY <2>1, <2>2, <3>1, <3>2, RequestEnds
    <2> QED  BY <2>4, <2>5, <2>6
  <1>10. [st EXCEPT ![m] = s] = st
    BY <1>1, <1>3 DEF Typed
  <1>11. Good(l, f, [st EXCEPT ![m] = s], [tk EXCEPT ![m] = t2], an2, ho, en)
    BY <1>1, <1>2, <1>3, <1>7, <1>8, <1>9, LocalKeeps
  <1> QED  BY <1>2, <1>5, <1>10, <1>11

-----------------------------------------------------------------------------
(* The actions: requests, and tasks that end *)

\* What the invariant says of the machine whose turn it is.
LEMMA Turn ==
    ASSUME IInv, NEW m \in Machines
    PROVE  /\ Good(log, flight, store, task, answer, host, enables)
           /\ Typed(log, flight, store, task, answer, host, enables)
           /\ store[m] \in Store /\ task[m] \in Task /\ enables \in Nat /\ Len(log) \in Nat
           /\ MachineOK(log, flight, answer, host, enables, m, store[m], task[m])
           /\ HolderOK(store[m], task[m])
           /\ TypeOK
           /\ Idle(Release(m)) /\ Release(m) \in Task /\ Idle(IdleTask) /\ IdleTask \in Task
           /\ Release(m).stalled = task[m].stalled
           /\ [store EXCEPT ![m] = store[m]] = store
           /\ \A r \in Requests : host[r] = m =>
                  RequestOK(log, flight, r, answer[r], m, store[m], task[m])
  <1>1. Good(log, flight, store, task, answer, host, enables)
    BY DEF IInv
  <1>2. Typed(log, flight, store, task, answer, host, enables)
    BY <1>1 DEF Good
  <1>3. TypeOK
    BY <1>2 DEF IInv, Typed, TypeOK
  <1>4. MachineOK(log, flight, answer, host, enables, m, store[m], task[m])
    BY <1>1 DEF Good
  <1>5. HolderOK(store[m], task[m])
    BY <1>4 DEF MachineOK, TaskOK
  <1>6. Release(m) \in Task /\ IdleTask \in Task
    BY <1>3, TaskType
  <1>7. Idle(IdleTask)
    BY DEF Idle, IdleTask
  <1>8. Release(m).stalled = task[m].stalled
    BY DEF Release, IdleTask
  <1>9. Idle(Release(m))
    BY <1>5 DEF Idle, Release, IdleTask, HolderOK
  <1>10. [store EXCEPT ![m] = store[m]] = store
    BY <1>2 DEF Typed
  <1>11. Len(log) \in Nat
    BY <1>2, LenProperties DEF Typed
  <1> QED
    BY <1>1, <1>2, <1>3, <1>4, <1>5, <1>6, <1>7, <1>8, <1>9, <1>10, <1>11 DEF Typed, Good

LEMMA ToldIs ==
    ASSUME NEW m, NEW result
    PROVE  Told(m, result) = ToldOf(answer, task[m], result)
  BY DEF Told, ToldOf

\* A served request is its lock holder's, and the other way round.
LEMMA Served ==
    ASSUME IInv, NEW r \in Requests, answer[r] \in Waiting
    PROVE  /\ host[r] \in Machines
           /\ answer[r] = "active" => Working(task[host[r]]) /\ task[host[r]].req = r
  BY DEF IInv, Good, RequestOK

\* Requests that queue at one machine end without the lock.
LEMMA AnswerKeeps ==
    ASSUME IInv, NEW m \in Machines, NEW an2 \in [Requests -> Answers],
           \A r \in Requests : an2[r] # answer[r] =>
               host[r] = m /\ answer[r] = "queued" /\ an2[r] \notin {"new", "queued", "active"}
    PROVE  Good(log, flight, store, task, an2, host, enables)
  <1>1. Answered(answer, host, m, an2)
    BY DEF Answered, Waiting
  <1>2. MachineOK(log, flight, an2, host, enables, m, store[m], task[m])
    <2>1. MachineOK(log, flight, answer, host, enables, m, store[m], task[m])
          /\ HolderOK(store[m], task[m])
      BY Turn
    <2>2. ServesOK(log, an2, host, m, store[m], task[m])
      BY <2>1 DEF MachineOK, HolderOK, ServesOK
    <2>3. ASSUME NEW p \in store[m].pending
          PROVE  RowOK(log, flight, an2, host, m, store[m], task[m], p)
      <3>1. RowOK(log, flight, answer, host, m, store[m], task[m], p)
        BY <2>1 DEF MachineOK, PendingOK
      <3>2. an2[p.id.req] \notin {"new", "queued"}
        BY <3>1 DEF RowOK, ChangeIds
      <3> QED  BY <3>1, <3>2 DEF RowOK
    <2>4. PendingOK(log, flight, an2, host, m, store[m], task[m])
      BY <2>1, <2>3 DEF MachineOK, PendingOK
    <2> QED  BY <2>1, <2>2, <2>4 DEF MachineOK
  <1>3. ASSUME NEW r \in Requests, host[r] = m, "active" \in {answer[r], an2[r]}
        PROVE  RequestOK(log, flight, r, an2[r], m, store[m], task[m])
    <2>1. an2[r] = answer[r]
      BY <1>3
    <2> QED  BY <1>3, <2>1, Turn
  <1>4. [store EXCEPT ![m] = store[m]] = store /\ [task EXCEPT ![m] = task[m]] = task
    BY Turn DEF Typed
  <1>5. enables <= enables
    BY Turn
  <1>6. Good(log, flight, [store EXCEPT ![m] = store[m]], [task EXCEPT ![m] = task[m]], an2,
             host, enables)
    BY <1>1, <1>2, <1>3, <1>5, Turn, LocalKeeps
  <1> QED  BY <1>4, <1>6

LEMMA ArriveStep ==
    ASSUME IInv, NEW r \in Requests, NEW m \in Machines, Arrive(r, m)
    PROVE  IInv'
  <1>1. PICK x : x = CASE Fenced(store[m]) -> "refused"
                       [] store[m].state = "enabled" /\ Cached(store[m], KeyOf[r]) -> "cached"
                       [] OTHER -> "queued"
    OBVIOUS
  <1>2. x \in {"queued", "refused", "cached"}
    BY <1>1
  <1>3. /\ answer[r] = "new" /\ answer' = [answer EXCEPT ![r] = x]
        /\ host' = [host EXCEPT ![r] = m]
        /\ UNCHANGED <<log, flight, store, task, enables, broken, faults>>
    BY <1>1 DEF Arrive, bookkeeping
  <1>4. Good(log, flight, store, task, answer, host, enables)
    BY DEF IInv
  <1>5. Good(log, flight, store, task, [answer EXCEPT ![r] = x], [host EXCEPT ![r] = m], enables)
    BY <1>2, <1>3, <1>4, ArriveKeeps
  <1> QED  BY <1>3, <1>5 DEF IInv

LEMMA LockExpiresStep ==
    ASSUME IInv, NEW r \in Requests, LockExpires(r)
    PROVE  IInv'
  <1>1. /\ answer[r] = "queued" /\ answer' = [answer EXCEPT ![r] = "refused"]
        /\ UNCHANGED <<log, flight, store, task, host, enables, broken>> /\ faults' = faults + 1
    BY DEF LockExpires, Fault, bookkeeping
  <1>2. host[r] \in Machines
    BY <1>1, Served DEF Waiting
  <1>3. answer \in [Requests -> Answers]
    BY <1>2, Turn DEF Typed
  <1>4. Good(log, flight, store, task, answer', host, enables)
    BY <1>1, <1>2, <1>3, AnswerKeeps DEF Answers
  <1> QED  BY <1>1, <1>4 DEF IInv

LEMMA ReadFailsStep ==
    ASSUME IInv, NEW m \in Machines, ReadFails(m)
    PROVE  IInv'
  <1>1. /\ task[m].pc = "read" /\ answer' = ToldOf(answer, task[m], "refused")
        /\ UNCHANGED <<log, flight, store, host, enables, broken>>
        /\ faults' \in {faults, faults + 1}
    BY ToldIs DEF ReadFails, At, Fault, bookkeeping
  <1>2. PICK t2 \in Task : Idle(t2) /\ task' = [task EXCEPT ![m] = t2]
    <2>1. CASE task' = [task EXCEPT ![m] = Release(m)]
      BY <2>1, Turn
    <2>2. CASE task' = [task EXCEPT ![m] = [Release(m) EXCEPT !.stalled = "verify"]]
      <3>1. [Release(m) EXCEPT !.stalled = "verify"] \in Task
            /\ Idle([Release(m) EXCEPT !.stalled = "verify"])
        BY Turn DEF Task, Idle
      <3> QED  BY <2>2, <3>1
    <2> QED  BY <2>1, <2>2 DEF ReadFails
  <1>3. Writing(task[m]) => Unlanded(log, flight, task[m].req)
    <2>1. Writing(task[m]) => ~Sending(task[m]) /\ Working(task[m])
      BY <1>1 DEF Sending, Writing, Working
    <2>2. Writing(task[m]) => task[m].req \in Requests /\ host[task[m].req] = m
                              /\ answer[task[m].req] = "active"
      BY <2>1, Turn DEF HolderOK, MachineOK, ServesOK
    <2> QED  BY <2>1, <2>2, Turn, NothingSent
  <1>4. Good(log, flight, store, task', answer', host, enables)
    BY <1>1, <1>2, <1>3, Turn, EndKeeps
  <1> QED  BY <1>1, <1>4 DEF IInv

-----------------------------------------------------------------------------
(* The actions: a task begins *)

ReadingOf(s, t, holder, r, try) ==
    [t EXCEPT !.holder = holder, !.req = r, !.pc = "read", !.try = try,
              !.after = s.applied, !.head = 0, !.end = 0, !.sent = FALSE]

LEMMA ReadingIs ==
    ASSUME NEW s \in Store, NEW t \in Task, NEW h \in Holders,
           NEW r \in Requests \cup {NoRequest}, NEW n \in 0..Retries,
           NEW t2, t2 = ReadingOf(s, t, h, r, n)
    PROVE  /\ t2 \in Task /\ t2.holder = h /\ t2.req = r /\ t2.pc = "read" /\ t2.try = n
           /\ t2.after = s.applied /\ ~t2.sent /\ t2.stalled = t.stalled
  <1>1. "read" \in Places /\ s.applied \in Nat
    BY DEF Places, Store
  <1> QED  BY <1>1 DEF ReadingOf, Task

\* A machine that begins to read the log, from its applied position on.
LEMMA MachineReads ==
    ASSUME NEW l, NEW f, NEW an, NEW ho, NEW en \in Nat, NEW m \in Machines, NEW s \in Store,
           NEW t \in Task, l \in Seq(Entry), StoreOK(l, s), s.state # "enabling",
           s.state = "disabled" => s.content = <<>>,
           t.pc = "read", t.holder # "free", t.after = s.applied, t.stalled # "apply",
           Working(t) => s.state = "enabled" /\ t.req \in Requests,
           ServesOK(l, an, ho, m, s, t), PendingOK(l, f, an, ho, m, s, t)
    PROVE  MachineOK(l, f, an, ho, en, m, s, t) /\ Number(s, t) = 0
  <1>1. Number(s, t) = 0
    BY DEF Number
  <1>2. PlanOK(l, f, en, m, s, t)
    BY <1>1 DEF PlanOK
  <1>3. HolderOK(s, t)
    BY DEF HolderOK, Working, Writing
  <1>4. ReadOK(l, s, t)
    <2>1. s.applied <= s.applied /\ s.applied <= Len(l) /\ s.applied \in Nat
      BY DEF StoreOK, Store
    <2>2. s.applied + 1..t.after = {}
      BY <2>1
    <2> QED  BY <2>1, <2>2 DEF ReadOK
  <1>5. SendOK(l, m, s, t)
    BY DEF SendOK
  <1> QED  BY <1>1, <1>2, <1>3, <1>4, <1>5 DEF MachineOK, TaskOK

LEMMA TakeLockStep ==
    ASSUME IInv, NEW r \in Requests, TakeLock(r)
    PROVE  IInv'
  <1>1. PICK m : m = host[r]
    OBVIOUS
  <1>2. PICK x : x = Admitted(store[m], KeyOf[r])
    OBVIOUS
  <1>3. /\ answer[r] = "queued" /\ task[m].holder = "free"
        /\ answer' = [answer EXCEPT ![r] = x]
        /\ UNCHANGED <<log, flight, host, enables, broken, faults>>
        /\ store' = IF x # "local" THEN store
                    ELSE [store EXCEPT ![m].content = Append(@, KeyOf[r]),
                                       ![m].keys = @ \cup {KeyOf[r]}]
        /\ task' = IF x # "active" THEN task
                   ELSE [task EXCEPT ![m] = Reading(m, "write", r, 0)]
    BY <1>1, <1>2 DEF TakeLock, Free, bookkeeping
  <1>4. m \in Machines
    BY <1>1, <1>3, Served DEF Waiting
  <1>5. PICK s \in Store : s = store[m]
    BY <1>4, Turn
  <1>6. PICK t \in Task : t = task[m]
    BY <1>4, Turn
  <1>7. /\ MachineOK(log, flight, answer, host, enables, m, s, t)
        /\ answer \in [Requests -> Answers] /\ enables \in Nat
        /\ Good(log, flight, store, task, answer, host, enables)
        /\ ~Working(t) /\ t.holder = "free" /\ t.pc = "idle" /\ t.stalled # "apply"
        /\ log \in Seq(Entry) /\ TypeOK /\ enables <= enables
    BY <1>3, <1>4, <1>5, <1>6, Turn DEF Typed, Working, HolderOK
  <1>8. x \in {"refused", "cached", "local", "active"}
        /\ (x = "active" => s.state = "enabled" /\ KeyOf[r] \notin s.keys)
        /\ (x = "local" => s.state = "disabled")
    <2>1. s.state \in LogStates
      BY DEF Store
    <2> QED  BY <1>2, <1>5, <2>1 DEF Admitted, Fenced, Cached, LogStates
  <1>9. PICK an2 : an2 = answer'
    OBVIOUS
  <1>10. /\ an2 \in [Requests -> Answers] /\ an2[r] = x
         /\ \A q \in Requests : q # r => an2[q] = answer[q]
         /\ Answered(answer, host, m, an2)
    BY <1>1, <1>3, <1>7, <1>8, <1>9 DEF Answers, Waiting, Answered
  <1>11. \A q \in Requests : host[q] = m => answer[q] # "active"
    BY <1>3, <1>4, Served DEF Waiting, Working
  <1>12. CASE x \in {"refused", "cached"}
    <2>1. Good(log, flight, store, task, an2, host, enables)
      BY <1>1, <1>3, <1>4, <1>10, <1>12, AnswerKeeps
    <2> QED  BY <1>3, <1>9, <1>12, <2>1 DEF IInv
  <1>13. CASE x = "local"
    <2>1. PICK s2 : s2 = [s EXCEPT !.content = Append(@, KeyOf[r]), !.keys = @ \cup {KeyOf[r]}]
      OBVIOUS
    <2>2. s2 \in Store
      <3>1. KeyOf[r] \in Keys
        BY DEF Keys
      <3>2. Append(s.content, KeyOf[r]) \in Seq(Keys)
        BY <3>1, AppendProperties DEF Store
      <3> QED  BY <2>1, <3>1, <3>2 DEF Store
    <2>3. /\ s2.state = s.state /\ s2.applied = s.applied /\ s2.own = s.own
          /\ s2.pending = s.pending /\ s.keys \subseteq s2.keys
      BY <2>1 DEF Store
    <2>4. store' = [store EXCEPT ![m] = s2]
      BY <1>3, <1>5, <1>13, <2>1
    <2>5. MachineOK(log, flight, an2, host, enables, m, s2, t)
      <3>1. MachineOK(log, flight, an2, host, enables, m, s, t)
        BY <1>4, <1>7, <1>10, IdleMachine DEF Idle
      <3>2. StoreOK(log, s2)
        BY <1>8, <1>13, <2>3, <3>1 DEF MachineOK, StoreOK, Shares
      <3>3. PlanOK(log, flight, enables, m, s2, t)
        BY <1>8, <1>13, <2>3, <3>1 DEF MachineOK, PlanOK, Number
      <3>4. TaskOK(log, m, s2, t)
        BY <1>7 DEF TaskOK, HolderOK, ReadOK, SendOK, Working, Writing
      <3>5. ServesOK(log, an2, host, m, s2, t)
        BY <1>7 DEF ServesOK
      <3>6. PendingOK(log, flight, an2, host, m, s2, t)
        BY <2>3, <3>1 DEF MachineOK, PendingOK, RowOK, Known
      <3> QED  BY <3>2, <3>3, <3>4, <3>5, <3>6 DEF MachineOK
    <2>6. Number(s2, t) = Number(s, t)
      BY <1>7, <1>8, <1>13, <2>3 DEF Number
    <2>7. \A q \in Requests : host[q] = m => "active" \notin {answer[q], an2[q]}
      BY <1>10, <1>11, <1>13
    <2>8. Good(log, flight, [store EXCEPT ![m] = s2], [task EXCEPT ![m] = t], an2, host, enables)
      BY <1>4, <1>5, <1>6, <1>7, <1>10, <2>2, <2>3, <2>5, <2>6, <2>7, LocalKeeps
    <2>9. [task EXCEPT ![m] = t] = task
      BY <1>6, <1>7 DEF TypeOK
    <2> QED  BY <1>3, <1>9, <1>13, <2>4, <2>8, <2>9 DEF IInv
  <1>14. CASE x = "active"
    <2>1. PICK t2 : t2 = Reading(m, "write", r, 0)
      OBVIOUS
    <2>2. /\ t2 \in Task /\ t2.holder = "write" /\ t2.req = r /\ t2.pc = "read" /\ t2.try = 0
          /\ t2.after = s.applied /\ ~t2.sent /\ t2.stalled = t.stalled
      <3>1. "write" \in Holders /\ r \in Requests \cup {NoRequest} /\ 0 \in 0..Retries
        BY ConstantsAssumption DEF Holders
      <3>2. t2 = ReadingOf(s, t, "write", r, 0)
        BY <1>5, <1>6, <2>1 DEF Reading, ReadingOf
      <3> QED  BY <3>1, <3>2, ReadingIs
    <2>3. ServesOK(log, an2, host, m, s, t2)
      BY <1>1, <1>8, <1>10, <1>14, <2>2 DEF ServesOK, Writing
    <2>4. PendingOK(log, flight, an2, host, m, s, t2)
      <3>1. PendingOK(log, flight, answer, host, m, s, t)
        BY <1>7 DEF MachineOK
      <3>2. ASSUME NEW p \in s.pending PROVE RowOK(log, flight, an2, host, m, s, t2, p)
        <4>1. RowOK(log, flight, answer, host, m, s, t, p)
          BY <3>1 DEF PendingOK
        <4>2. p.id.req \in Requests /\ p.id.req # r
          BY <1>3, <4>1 DEF RowOK, ChangeIds
        <4> QED  BY <1>10, <2>2, <4>1, <4>2 DEF RowOK
      <3> QED  BY <2>2, <3>1, <3>2 DEF PendingOK, Sending
    <2>5. MachineOK(log, flight, an2, host, enables, m, s, t2) /\ Number(s, t2) = 0
      <3>1. StoreOK(log, s) /\ s.state = "enabled" /\ s.state # "enabling" /\ s.state # "disabled"
        BY <1>7, <1>8, <1>14 DEF MachineOK
      <3>2. t2.holder # "free" /\ t2.stalled # "apply" /\ t2.req \in Requests
        BY <1>7, <2>2
      <3> QED  BY <1>4, <1>7, <2>2, <2>3, <2>4, <3>1, <3>2, MachineReads
    <2>6. ASSUME NEW q \in Requests, host[q] = m, "active" \in {answer[q], an2[q]}
          PROVE  RequestOK(log, flight, q, an2[q], m, s, t2)
      <3>1. q = r
        BY <1>10, <1>11, <2>6
      <3>2. RequestOK(log, flight, r, "queued", m, s, t)
        BY <1>1, <1>3, <1>4, <1>5, <1>6, Turn
      <3>3. Working(t2) /\ t2.req = r /\ "active" # "new"
        BY <2>2 DEF Working
      <3> QED  BY <1>10, <1>14, <3>1, <3>2, <3>3, RequestStarts
    <2>7. Good(log, flight, [store EXCEPT ![m] = s], [task EXCEPT ![m] = t2], an2, host, enables)
      BY <1>4, <1>5, <1>7, <1>10, <2>2, <2>5, <2>6, LocalKeeps
    <2>8. [store EXCEPT ![m] = s] = store
      BY <1>4, <1>5, Turn
    <2> QED  BY <1>3, <1>9, <1>14, <2>1, <2>7, <2>8 DEF IInv
  <1> QED  BY <1>8, <1>12, <1>13, <1>14

\* A step that changes the store and the task of one machine only.
LEMMA LocalStep ==
    ASSUME IInv, NEW m \in Machines, NEW s2 \in Store, NEW t2 \in Task,
           store' = [store EXCEPT ![m] = s2], task' = [task EXCEPT ![m] = t2],
           log' = log /\ flight' = flight /\ answer' = answer /\ host' = host,
           enables' = enables /\ broken' = broken /\ faults' \in Nat,
           MachineOK(log, flight, answer, host, enables, m, s2, t2),
           \A r \in Requests : host[r] = m /\ answer[r] = "active" =>
               RequestOK(log, flight, r, "active", m, s2, t2),
           store[m].keys \subseteq s2.keys,
           Number(s2, t2) \in {0, Number(store[m], task[m])}
    PROVE  IInv'
  <1>1. Good(log, flight, store, task, answer, host, enables)
    BY DEF IInv
  <1>2. answer \in [Requests -> Answers] /\ enables \in Nat /\ enables <= enables
    BY Turn DEF Typed
  <1>3. Answered(answer, host, m, answer)
    BY DEF Answered
  <1>4. \A r \in Requests : host[r] = m /\ "active" \in {answer[r], answer[r]} =>
               RequestOK(log, flight, r, answer[r], m, s2, t2)
    OBVIOUS
  <1>5. Good(log, flight, [store EXCEPT ![m] = s2], [task EXCEPT ![m] = t2], answer, host, enables)
    BY <1>1, <1>2, <1>3, <1>4, LocalKeeps
  <1> QED  BY <1>5 DEF IInv

\* A task that serves no request.
LEMMA MachineServesNone ==
    ASSUME NEW l, NEW f, NEW an, NEW ho, NEW en, NEW m, NEW s, NEW t,
           MachineOK(l, f, an, ho, en, m, s, t),
           NEW t2, ~Working(t2), ~Sending(t2), NEW en2, PlanOK(l, f, en2, m, s, t2), TaskOK(l, m, s, t2)
    PROVE  MachineOK(l, f, an, ho, en2, m, s, t2)
  <1>1. ServesOK(l, an, ho, m, s, t2)
    BY DEF ServesOK
  <1>2. PendingOK(l, f, an, ho, m, s, t2)
    BY DEF MachineOK, PendingOK, RowOK, Working, Writing
  <1> QED  BY <1>1, <1>2 DEF MachineOK

\* Background and Enable resume an enable ...
LEMMA ResumeStep ==
    ASSUME IInv, NEW m \in Machines, Free(m), store[m].state = "enabling",
           NEW h \in {"background", "operator"},
           task' = [task EXCEPT ![m] = [@ EXCEPT !.holder = h, !.pc = "resume"]],
           UNCHANGED <<log, flight, store, answer, host, enables, broken, faults>>
    PROVE  IInv'
  <1>1. PICK s \in Store : s = store[m]
    BY Turn
  <1>2. PICK t \in Task : t = task[m]
    BY Turn
  <1>3. PICK t2 : t2 = [t EXCEPT !.holder = h, !.pc = "resume"]
    OBVIOUS
  <1>4. /\ t2 \in Task /\ t2.holder = h /\ t2.pc = "resume" /\ t2.stalled = t.stalled
    BY <1>3 DEF Task, Holders, Places
  <1>5. /\ MachineOK(log, flight, answer, host, enables, m, s, t)
        /\ t.holder = "free" /\ t.pc = "idle" /\ t.stalled # "apply" /\ s.state = "enabling"
    BY <1>1, <1>2, Turn DEF HolderOK, Free
  <1>6. ~Working(t2) /\ ~Sending(t2) /\ Number(s, t2) = Number(s, t)
    BY <1>4, <1>5 DEF Working, Sending, Number
  <1>7. PlanOK(log, flight, enables, m, s, t2)
    BY <1>4, <1>5, <1>6 DEF MachineOK, PlanOK
  <1>8. TaskOK(log, m, s, t2)
    BY <1>4, <1>5 DEF TaskOK, HolderOK, ReadOK, SendOK, Working, Writing
  <1>9. MachineOK(log, flight, answer, host, enables, m, s, t2)
    BY <1>5, <1>6, <1>7, <1>8, MachineServesNone
  <1>10. \A r \in Requests : host[r] = m => answer[r] # "active"
    BY <1>2, <1>5, Served DEF Waiting, Working
  <1>11. store' = [store EXCEPT ![m] = s] /\ task' = [task EXCEPT ![m] = t2]
    BY <1>1, <1>2, <1>3, Turn
  <1>12. /\ log' = log /\ flight' = flight /\ answer' = answer /\ host' = host
         /\ enables' = enables /\ broken' = broken /\ faults' \in Nat
    BY DEF IInv
  <1>13. Number(s, t2) \in {0, Number(store[m], task[m])} /\ store[m].keys \subseteq s.keys
    BY <1>1, <1>2, <1>6
  <1>14. \A r \in Requests : host[r] = m /\ answer[r] = "active" =>
             RequestOK(log, flight, r, "active", m, s, t2)
    BY <1>10
  <1>15. MachineOK(log, flight, answer, host, enables, m, s, t2)
    BY <1>9
  <1> QED  BY <1>4, <1>11, <1>12, <1>13, <1>14, <1>15, LocalStep

\* ... or catch up.
LEMMA CatchUpBegins ==
    ASSUME IInv, NEW m \in Machines, Free(m), store[m].state \in {"joining", "enabled"},
           NEW h \in {"background", "operator"},
           task' = [task EXCEPT ![m] = Reading(m, h, NoRequest, 0)],
           UNCHANGED <<log, flight, store, answer, host, enables, broken, faults>>
    PROVE  IInv'
  <1>1. PICK s \in Store : s = store[m]
    BY Turn
  <1>2. PICK t \in Task : t = task[m]
    BY Turn
  <1>3. PICK t2 : t2 = Reading(m, h, NoRequest, 0)
    OBVIOUS
  <1>4. /\ t2 \in Task /\ t2.holder = h /\ t2.pc = "read"
        /\ t2.after = s.applied /\ t2.stalled = t.stalled
    <2>1. h \in Holders /\ NoRequest \in Requests \cup {NoRequest} /\ 0 \in 0..Retries
      BY ConstantsAssumption DEF Holders
    <2>2. t2 = ReadingOf(s, t, h, NoRequest, 0)
      BY <1>1, <1>2, <1>3 DEF Reading, ReadingOf
    <2> QED  BY <2>1, <2>2, ReadingIs
  <1>5. /\ MachineOK(log, flight, answer, host, enables, m, s, t)
        /\ t.holder = "free" /\ t.pc = "idle" /\ t.stalled # "apply"
        /\ s.state # "enabling" /\ s.state # "disabled"
        /\ log \in Seq(Entry) /\ enables \in Nat
    BY <1>1, <1>2, Turn DEF HolderOK, Free, Typed
  <1>6. ~Working(t2) /\ ~Sending(t2)
    BY <1>4 DEF Working, Sending
  <1>7. ServesOK(log, answer, host, m, s, t2) /\ PendingOK(log, flight, answer, host, m, s, t2)
    BY <1>5, <1>6 DEF ServesOK, MachineOK, PendingOK, RowOK, Working, Writing
  <1>8. StoreOK(log, s) /\ t2.holder # "free"
    BY <1>4, <1>5 DEF MachineOK
  <1>9. MachineOK(log, flight, answer, host, enables, m, s, t2) /\ Number(s, t2) = 0
    BY <1>4, <1>5, <1>6, <1>7, <1>8, MachineReads
  <1>10. \A r \in Requests : host[r] = m => answer[r] # "active"
    BY <1>2, <1>5, Served DEF Waiting, Working
  <1>11. store' = [store EXCEPT ![m] = s] /\ task' = [task EXCEPT ![m] = t2]
    BY <1>1, <1>3, Turn
  <1>12. /\ log' = log /\ flight' = flight /\ answer' = answer /\ host' = host
         /\ enables' = enables /\ broken' = broken /\ faults' \in Nat
    BY DEF IInv
  <1>13. Number(s, t2) \in {0, Number(store[m], task[m])} /\ store[m].keys \subseteq s.keys
    BY <1>1, <1>9
  <1>14. \A r \in Requests : host[r] = m /\ answer[r] = "active" =>
             RequestOK(log, flight, r, "active", m, s, t2)
    BY <1>10
  <1>15. MachineOK(log, flight, answer, host, enables, m, s, t2)
    BY <1>9
  <1> QED  BY <1>4, <1>11, <1>12, <1>13, <1>14, <1>15, LocalStep

LEMMA BackgroundStep ==
    ASSUME IInv, NEW m \in Machines, Background(m)
    PROVE  IInv'
  <1>1. Free(m) /\ store[m].state # "disabled" /\ store[m].state \in LogStates
    BY Turn DEF Background, Ticks, Store
  <1>2. UNCHANGED <<log, flight, store, answer, host, enables, broken, faults>>
    BY DEF Background, requests, bookkeeping
  <1>3. CASE store[m].state = "enabling"
    <2>1. task' = [task EXCEPT ![m] = [@ EXCEPT !.holder = "background", !.pc = "resume"]]
      BY <1>3 DEF Background
    <2> QED  BY <1>1, <1>2, <1>3, <2>1, ResumeStep
  <1>4. CASE store[m].state \in {"joining", "enabled"}
    <2>1. task' = [task EXCEPT ![m] = Reading(m, "background", NoRequest, 0)]
      BY <1>4 DEF Background
    <2> QED  BY <1>1, <1>2, <1>4, <2>1, CatchUpBegins
  <1> QED  BY <1>1, <1>3, <1>4 DEF LogStates

LEMMA EnableStarts ==
    ASSUME IInv, NEW m \in Machines, Enable(m)
    PROVE  IInv'
  <1>1. Free(m) /\ store[m].state \in LogStates /\ store[m].state # "enabled"
    BY Turn DEF Enable, Store
  <1>2. UNCHANGED <<log, flight, store, answer, host, broken, faults>>
    BY DEF Enable, requests
  <1>3. CASE store[m].state = "enabling"
    <2>1. /\ task' = [task EXCEPT ![m] = [@ EXCEPT !.holder = "operator", !.pc = "resume"]]
          /\ UNCHANGED enables
      BY <1>3 DEF Enable
    <2> QED  BY <1>1, <1>2, <1>3, <2>1, ResumeStep
  <1>4. CASE store[m].state = "joining"
    <2>1. task' = [task EXCEPT ![m] = Reading(m, "operator", NoRequest, 0)] /\ UNCHANGED enables
      BY <1>4 DEF Enable
    <2> QED  BY <1>1, <1>2, <1>4, <2>1, CatchUpBegins
  <1>5. CASE store[m].state = "disabled"
    <2>1. PICK s \in Store : s = store[m]
      BY Turn
    <2>2. PICK t \in Task : t = task[m]
      BY Turn
    <2>3. PICK n \in Nat : n = enables + 1
      BY Turn
    <2>4. PICK t2 : t2 = [t EXCEPT !.holder = "operator", !.pc = "head", !.after = n]
      OBVIOUS
    <2>5. /\ t2 \in Task /\ t2.holder = "operator" /\ t2.pc = "head" /\ t2.after = n
          /\ t2.stalled = t.stalled
      BY <2>4 DEF Task, Holders, Places
    <2>6. /\ task' = [task EXCEPT ![m] = t2] /\ enables' = n
      BY <1>5, <2>2, <2>3, <2>4 DEF Enable
    <2>7. /\ MachineOK(log, flight, answer, host, enables, m, s, t)
          /\ t.holder = "free" /\ t.pc = "idle" /\ t.stalled # "apply" /\ s.state = "disabled"
          /\ answer \in [Requests -> Answers] /\ enables \in Nat
          /\ Good(log, flight, store, task, answer, host, enables)
      BY <1>1, <1>5, <2>1, <2>2, Turn DEF HolderOK, Free, Typed
    <2>8. ~Working(t2) /\ ~Sending(t2) /\ Number(s, t2) = n /\ n > 0 /\ n > enables /\ enables <= n
      BY <2>3, <2>5, <2>7 DEF Working, Sending, Number
    <2>9. Unused(log, flight, n)
      <3>1. LogOK(log) /\ FlightOK(log, flight) /\ PlansUsed(log, flight, enables)
        BY <2>7 DEF Good
      <3>2. ASSUME NEW i \in 1..Len(log) PROVE ~OfPlan(log[i], n)
        <4>1. log[i].kind = "snapshot" => log[i].id.plan \in Nat /\ log[i].id.plan <= enables
          BY <3>1 DEF LogOK, PlansUsed, Follows, PartFollows, PartIds
        <4> QED  BY <2>3, <2>7, <4>1 DEF OfPlan
      <3>3. ASSUME NEW c \in flight PROVE ~OfPlan(c.entry, n)
        <4>1. c.entry.kind = "snapshot" => c.entry.id.plan \in Nat /\ c.entry.id.plan <= enables
          BY <3>1 DEF FlightOK, PlansUsed, Follows, PartFollows, PartIds
        <4> QED  BY <2>3, <2>7, <4>1 DEF OfPlan
      <3> QED  BY <3>2, <3>3 DEF Unused
    <2>10. PlanOK(log, flight, n, m, s, t2)
      BY <2>5, <2>7, <2>8, <2>9 DEF PlanOK
    <2>11. TaskOK(log, m, s, t2)
      BY <2>5, <2>7 DEF TaskOK, HolderOK, ReadOK, SendOK, Working, Writing
    <2>12. MachineOK(log, flight, answer, host, n, m, s, t2)
      BY <2>7, <2>8, <2>10, <2>11, MachineServesNone
    <2>13. \A r \in Requests : host[r] = m => answer[r] # "active"
      BY <2>2, <2>7, Served DEF Waiting, Working
    <2>14. Answered(answer, host, m, answer)
      BY DEF Answered
    <2>15. \A r \in Requests : host[r] = m /\ "active" \in {answer[r], answer[r]} =>
               RequestOK(log, flight, r, answer[r], m, s, t2)
      BY <2>13
    <2>16. Good(log, flight, [store EXCEPT ![m] = s], [task EXCEPT ![m] = t2], answer, host, n)
      BY <2>1, <2>3, <2>5, <2>7, <2>8, <2>12, <2>14, <2>15, LocalKeeps
    <2>17. [store EXCEPT ![m] = s] = store
      BY <2>1, Turn
    <2> QED  BY <1>2, <2>6, <2>16, <2>17 DEF IInv
  <1> QED  BY <1>1, <1>3, <1>4, <1>5 DEF LogStates

-----------------------------------------------------------------------------
(* The actions: tasks that are cut short *)

LEMMA EnableFailsStep ==
    ASSUME IInv, NEW m \in Machines, EnableFails(m)
    PROVE  IInv'
  <1>1. /\ task' = [task EXCEPT ![m] = Release(m)]
        /\ UNCHANGED <<log, flight, store, answer, host, enables, broken>> /\ faults' = faults + 1
    BY DEF EnableFails, Fault, requests, bookkeeping
  <1>2. ~Working(task[m]) /\ ~Writing(task[m])
    BY Turn DEF EnableFails, HolderOK, Working, Writing
  <1>3. ToldOf(answer, task[m], "refused") = answer
    BY <1>2 DEF ToldOf, Working, Writing
  <1>4. PICK t2 \in Task : t2 = Release(m) /\ Idle(t2)
    BY Turn
  <1>5. Good(log, flight, store, task, answer, host, enables)
        /\ (Writing(task[m]) => Unlanded(log, flight, task[m].req))
    BY <1>2, Turn
  <1>6. Good(log, flight, store, [task EXCEPT ![m] = t2], ToldOf(answer, task[m], "refused"), host,
             enables)
    BY <1>4, <1>5, EndKeeps
  <1> QED  BY <1>1, <1>3, <1>4, <1>6 DEF IInv

\* The lock holder goes away; clients of the machine never learn the outcome.
LEMMA GiveUpKeeps ==
    ASSUME IInv, NEW m \in Machines, NEW t2 \in Task, Idle(t2),
           NEW an2 \in [Requests -> Answers],
           \A r \in Requests : an2[r] # answer[r] =>
               host[r] = m /\ answer[r] \in Waiting /\ an2[r] \in Lost,
           \A r \in Requests : host[r] = m => an2[r] # "active"
    PROVE  Good(log, flight, store, [task EXCEPT ![m] = t2], an2, host, enables)
  <1>1. PICK s \in Store : s = store[m]
    BY Turn
  <1>2. PICK t \in Task : t = task[m]
    BY Turn
  <1>3. /\ MachineOK(log, flight, answer, host, enables, m, s, t)
        /\ enables \in Nat /\ enables <= enables /\ s.keys \subseteq s.keys
        /\ Good(log, flight, store, task, answer, host, enables)
        /\ [store EXCEPT ![m] = s] = store
    BY <1>1, <1>2, Turn
  <1>4. Answered(answer, host, m, an2)
    BY DEF Answered, Lost
  <1>5. MachineOK(log, flight, an2, host, enables, m, s, t2) /\ Number(s, t2) \in {0, Number(s, t)}
    BY <1>3, <1>4, IdleMachine
  <1>6. ASSUME NEW r \in Requests, host[r] = m, "active" \in {answer[r], an2[r]}
        PROVE  RequestOK(log, flight, r, an2[r], m, s, t2)
    <2>1. answer[r] = "active" /\ an2[r] \in Lost
      BY <1>6
    <2>2. RequestOK(log, flight, r, "active", m, s, t)
      BY <1>1, <1>2, <1>6, <2>1, Turn
    <2>3. an2[r] \in Lost \cup Closed \cup {"ok"} /\ an2[r] \notin Closed /\ an2[r] # "ok"
      BY <2>1 DEF Lost, Closed
    <2> QED  BY <2>2, <2>3, RequestEnds
  <1>7. Good(log, flight, [store EXCEPT ![m] = s], [task EXCEPT ![m] = t2], an2, host, enables)
    BY <1>1, <1>2, <1>3, <1>4, <1>5, <1>6, LocalKeeps
  <1> QED  BY <1>3, <1>7

LEMMA DropStep ==
    ASSUME IInv, NEW r \in Requests, Drop(r)
    PROVE  IInv'
  <1>1. PICK m : m = host[r]
    OBVIOUS
  <1>2. /\ answer[r] \in Waiting /\ answer' = [answer EXCEPT ![r] = "dropped"]
        /\ task' = IF answer[r] = "active" THEN [task EXCEPT ![m] = Release(m)] ELSE task
        /\ UNCHANGED <<log, flight, store, host, enables, broken>> /\ faults' = faults + 1
    BY <1>1 DEF Drop, Fault, bookkeeping
  <1>3. m \in Machines
    BY <1>1, <1>2, Served
  <1>4. answer \in [Requests -> Answers]
    BY <1>3, Turn DEF Typed
  <1>5. PICK an2 : an2 = answer'
    OBVIOUS
  <1>6. /\ an2 \in [Requests -> Answers] /\ an2[r] = "dropped"
        /\ \A q \in Requests : q # r => an2[q] = answer[q]
    BY <1>2, <1>4, <1>5 DEF Answers
  <1>7. CASE answer[r] = "queued"
    <2>1. Good(log, flight, store, task, an2, host, enables)
      BY <1>1, <1>3, <1>6, <1>7, AnswerKeeps
    <2> QED  BY <1>2, <1>5, <1>7, <2>1 DEF IInv
  <1>8. CASE answer[r] = "active"
    <2>1. \A q \in Requests : host[q] = m => an2[q] # "active"
      <3>1. ASSUME NEW q \in Requests, host[q] = m, answer[q] = "active" PROVE q = r
        BY <1>1, <1>8, <3>1, Served DEF Waiting
      <3> QED  BY <1>6, <3>1
    <2>2. Good(log, flight, store, [task EXCEPT ![m] = Release(m)], an2, host, enables)
      BY <1>1, <1>2, <1>3, <1>6, <2>1, Turn, GiveUpKeeps DEF Lost
    <2> QED  BY <1>2, <1>5, <1>8, <2>2 DEF IInv
  <1> QED  BY <1>2, <1>7, <1>8 DEF Waiting

\* What clients know of a machine that restarted.
LostAnswers(m) ==
    [r \in Requests |-> IF host[r] = m /\ answer[r] \in Waiting THEN "lost" ELSE answer[r]]

LEMMA CrashKeeps ==
    ASSUME IInv, NEW m \in Machines
    PROVE  /\ Good(log, flight, store, [task EXCEPT ![m] = IdleTask], LostAnswers(m), host, enables)
           /\ \A r \in Requests : host[r] = m => LostAnswers(m)[r] \notin Waiting
  <1>1. answer \in [Requests -> Answers]
    BY Turn DEF Typed
  <1>2. PICK an2 : an2 = LostAnswers(m)
    OBVIOUS
  <1>3. /\ an2 \in [Requests -> Answers]
        /\ \A r \in Requests : an2[r] =
               IF host[r] = m /\ answer[r] \in Waiting THEN "lost" ELSE answer[r]
    BY <1>1, <1>2 DEF LostAnswers, Answers
  <1>4. \A r \in Requests : host[r] = m => an2[r] \notin Waiting
    BY <1>3 DEF Waiting
  <1>5. Good(log, flight, store, [task EXCEPT ![m] = IdleTask], an2, host, enables)
    BY <1>3, <1>4, Turn, GiveUpKeeps DEF Lost, Waiting
  <1> QED  BY <1>2, <1>4, <1>5

LEMMA CrashStep ==
    ASSUME IInv, NEW m \in Machines, Crash(m)
    PROVE  IInv'
  <1>1. /\ task' = [task EXCEPT ![m] = IdleTask] /\ answer' = LostAnswers(m)
        /\ UNCHANGED <<log, flight, store, host, enables, broken>> /\ faults' = faults + 1
    BY DEF Crash, Fault, bookkeeping, LostAnswers
  <1>2. Good(log, flight, store, [task EXCEPT ![m] = IdleTask], LostAnswers(m), host, enables)
    BY CrashKeeps
  <1>3. faults' \in Nat /\ broken' = {}
    BY <1>1 DEF IInv
  <1>4. Good(log', flight', store', task', answer', host', enables')
    BY <1>1, <1>2
  <1> QED  BY <1>3, <1>4 DEF IInv

LEMMA StartOverStep ==
    ASSUME IInv, NEW m \in Machines, StartOver(m)
    PROVE  IInv'
  <1>1. /\ task' = [task EXCEPT ![m] = IdleTask] /\ answer' = LostAnswers(m)
        /\ store' = [store EXCEPT ![m] = EmptyStore]
        /\ host' = [r \in Requests |-> IF host[r] = m THEN Nobody ELSE host[r]]
        /\ UNCHANGED <<log, flight, enables, broken>> /\ faults' = faults + 1
    BY DEF StartOver, Fault, bookkeeping, LostAnswers
  <1>2. PICK tk : tk = [task EXCEPT ![m] = IdleTask]
    OBVIOUS
  <1>3. PICK an : an = LostAnswers(m)
    OBVIOUS
  <1>4. Good(log, flight, store, tk, an, host, enables)
        /\ \A r \in Requests : host[r] = m => an[r] \notin Waiting
    BY <1>2, <1>3, CrashKeeps
  <1>5. tk[m] = IdleTask
    BY <1>2, Turn DEF Typed
  <1>6. Good(log, flight, [store EXCEPT ![m] = EmptyStore], tk, an,
             [r \in Requests |-> IF host[r] = m THEN Nobody ELSE host[r]], enables)
    BY <1>4, <1>5, WipeKeeps
  <1> QED  BY <1>1, <1>2, <1>3, <1>6 DEF IInv

LEMMA DeliverLateStep ==
    ASSUME IInv, DeliverLate
    PROVE  IInv'
  <1>1. PICK call \in flight :
            /\ flight' = flight \ {call}
            /\ log' = IF ~Logged(call.entry.id) /\ Len(log) = call.expect
                      THEN Append(log, call.entry) ELSE log
            /\ UNCHANGED <<store, task, answer, host, enables, broken, faults>>
    BY DEF DeliverLate, requests, bookkeeping
  <1>2. Good(log, flight, store, task, answer, host, enables)
    BY DEF IInv
  <1>3. Good(log', flight, store, task, answer, host, enables)
    <2>1. CASE ~Logged(call.entry.id) /\ Len(log) = call.expect
      <3>1. \A i \in 1..Len(log) : log[i].id # call.entry.id
        BY <2>1 DEF Logged
      <3>2. Good(Append(log, call.entry), flight, store, task, answer, host, enables)
        BY <1>2, <2>1, <3>1, LandKeeps
      <3> QED  BY <1>1, <2>1, <3>2
    <2>2. CASE ~(~Logged(call.entry.id) /\ Len(log) = call.expect)
      BY <1>1, <1>2, <2>2
    <2> QED  BY <2>1, <2>2
  <1>4. PICK l : l = log'
    OBVIOUS
  <1>5. Good(l, flight \ {call}, store, task, answer, host, enables)
    BY <1>3, <1>4, LoseKeeps
  <1> QED  BY <1>1, <1>4, <1>5 DEF IInv

-----------------------------------------------------------------------------
(* The actions: catch-up *)

\* The lock holder reads on: no attempt of its request is open.
LEMMA ReadGoesOn ==
    ASSUME IInv, NEW m \in Machines, NEW s2 \in Store, NEW t2 \in Task,
           task[m].pc \in {"read", "apply"},
           store' = [store EXCEPT ![m] = s2], task' = [task EXCEPT ![m] = t2],
           log' = log /\ flight' = flight /\ answer' = answer /\ host' = host,
           enables' = enables /\ broken' = broken /\ faults' = faults,
           t2.holder = task[m].holder, t2.req = task[m].req, t2.try = task[m].try,
           Writing(task[m]) \/ t2.sent = task[m].sent,
           MachineOK(log, flight, answer, host, enables, m, s2, t2), Number(s2, t2) = 0,
           store[m].keys \subseteq s2.keys
    PROVE  IInv'
  <1>1. ASSUME NEW r \in Requests, host[r] = m, answer[r] = "active"
        PROVE  RequestOK(log, flight, r, "active", m, s2, t2)
    <2>1. PICK s : s = store[m]
      OBVIOUS
    <2>2. PICK t : t = task[m]
      OBVIOUS
    <2>3. RequestOK(log, flight, r, "active", m, s, t)
      BY <1>1, <2>1, <2>2, Turn
    <2>4. ~Sending(t)
      BY <2>2 DEF Sending
    <2>5. Writing(t) => Unlanded(log, flight, r)
      BY <2>3, <2>4, NothingSent
    <2>6. t2.holder = t.holder /\ t2.req = t.req /\ t2.try = t.try /\ s.keys \subseteq s2.keys
      BY <2>1, <2>2
    <2>7. IF Writing(t)
          THEN \/ Unlanded(log, flight, r) /\ ~(Sending(t) /\ t.sent)
               \/ Sending(t2) /\ t2.sent /\ s2.applied = s.applied
          ELSE t2.sent = t.sent
      BY <2>2, <2>4, <2>5
    <2> QED  BY <2>3, <2>6, <2>7, RequestGoesOn
  <1>2. Number(s2, t2) \in {0, Number(store[m], task[m])} /\ faults' \in Nat
    BY DEF IInv
  <1>3. /\ log' = log /\ flight' = flight /\ answer' = answer /\ host' = host
        /\ enables' = enables /\ broken' = broken
    OBVIOUS
  <1> QED  BY <1>1, <1>2, <1>3, LocalStep

\* A machine that reads or applies, apart from how far it is.
LEMMA MachineReading ==
    ASSUME NEW l, NEW f, NEW an, NEW ho, NEW en \in Nat, NEW m, NEW s, NEW t,
           MachineOK(l, f, an, ho, en, m, s, t), t.pc \in {"read", "apply"},
           NEW t2, t2.pc \in {"read", "apply"}, t2.holder = t.holder, t2.req = t.req,
           t2.try = t.try, t2.sent = t.sent, t2.stalled = t.stalled, ReadOK(l, s, t2)
    PROVE  MachineOK(l, f, an, ho, en, m, s, t2) /\ Number(s, t2) = 0
  <1>1. Number(s, t2) = 0
    BY DEF Number, ReadOK
  <1>2. PlanOK(l, f, en, m, s, t2)
    BY <1>1 DEF PlanOK, ReadOK
  <1>3. TaskOK(l, m, s, t2)
    BY DEF MachineOK, TaskOK, HolderOK, SendOK, Working, Writing
  <1>4. ServesOK(l, an, ho, m, s, t2)
    BY DEF MachineOK, ServesOK, Working, Writing
  <1>5. PendingOK(l, f, an, ho, m, s, t2)
    <2>1. ~Sending(t) /\ ~Sending(t2) /\ Writing(t2) = Writing(t)
      BY DEF Sending, Writing
    <2>2. ASSUME NEW p \in s.pending PROVE RowOK(l, f, an, ho, m, s, t2, p)
      <3>1. RowOK(l, f, an, ho, m, s, t, p)
        BY DEF MachineOK, PendingOK
      <3> QED  BY <2>1, <3>1 DEF RowOK
    <2> QED  BY <2>1, <2>2 DEF MachineOK, PendingOK
  <1> QED  BY <1>1, <1>2, <1>3, <1>4, <1>5 DEF MachineOK

LEMMA ReadPageStep ==
    ASSUME IInv, NEW m \in Machines, ReadPage(m)
    PROVE  IInv'
  <1>1. PICK s \in Store : s = store[m]
    BY Turn
  <1>2. PICK t \in Task : t = task[m]
    BY Turn
  <1>3. PICK n \in Nat : n = Len(log)
    BY Turn
  <1>4. PICK w \in BOOLEAN : w = (s.author \/ (s.applied > 0 /\ log[s.applied].id \in s.own))
    OBVIOUS
  <1>5. PICK seen \in Nat : seen = Observed(s)
    BY <1>3 DEF Observed, Max2, Store
  <1>6. PICK end \in Nat : end = Min2(t.after + PageLimit, n)
    BY <1>3, ConstantsAssumption DEF Min2, Task
  <1>7. PICK s2 : s2 = [s EXCEPT !.seen = seen, !.author = w]
    OBVIOUS
  <1>8. PICK t2 : t2 = [t EXCEPT !.pc = "apply", !.head = n, !.end = end]
    OBVIOUS
  <1>9. /\ t.pc = "read" /\ store' = [store EXCEPT ![m] = s2] /\ task' = [task EXCEPT ![m] = t2]
        /\ log' = log /\ flight' = flight /\ answer' = answer /\ host' = host
        /\ enables' = enables /\ broken' = broken /\ faults' = faults
    BY <1>1, <1>2, <1>3, <1>4, <1>5, <1>6, <1>7, <1>8
       DEF ReadPage, At, requests, bookkeeping
  <1>10. /\ s2 \in Store /\ s2.state = s.state /\ s2.applied = s.applied /\ s2.content = s.content
         /\ s2.pending = s.pending /\ s2.keys = s.keys /\ s2.own = s.own
         /\ s2.plan = s.plan /\ s2.base = s.base /\ s2.saved = s.saved
    BY <1>7 DEF Store
  <1>11. /\ t2 \in Task /\ t2.pc = "apply" /\ t2.holder = t.holder /\ t2.req = t.req
         /\ t2.try = t.try /\ t2.sent = t.sent /\ t2.stalled = t.stalled
         /\ t2.after = t.after /\ t2.head = n /\ t2.end = end
    BY <1>8 DEF Task, Places
  <1>12. MachineOK(log, flight, answer, host, enables, m, s, t) /\ enables \in Nat
    BY <1>1, <1>2, Turn
  <1>13. ReadOK(log, s, t2)
    <2>1. ReadOK(log, s, t)
      BY <1>12 DEF MachineOK, TaskOK
    <2>2. t.after <= n /\ t.after \in Nat /\ PageLimit \in Nat
      BY <1>3, <1>9, <2>1, ConstantsAssumption DEF ReadOK, Task
    <2>3. t.after <= end /\ end <= n
      BY <1>6, <2>2 DEF Min2
    <2> QED  BY <1>3, <1>9, <1>11, <2>1, <2>3 DEF ReadOK
  <1>14. MachineOK(log, flight, answer, host, enables, m, s, t2) /\ Number(s, t2) = 0
    BY <1>9, <1>11, <1>12, <1>13, MachineReading
  <1>15. MachineOK(log, flight, answer, host, enables, m, s2, t2) /\ Number(s2, t2) = 0
    <2>1. Number(s2, t2) = 0
      BY <1>10, <1>14 DEF Number
    <2>2. StoreOK(log, s2)
      BY <1>10, <1>14 DEF MachineOK, StoreOK, Shares
    <2>3. PlanOK(log, flight, enables, m, s2, t2)
      BY <1>10, <1>14, <2>1 DEF MachineOK, PlanOK, SavedOK, PartOf
    <2>4. TaskOK(log, m, s2, t2)
      BY <1>10, <1>11, <1>14 DEF MachineOK, TaskOK, HolderOK, ReadOK, SendOK
    <2>5. ServesOK(log, answer, host, m, s2, t2) /\ PendingOK(log, flight, answer, host, m, s2, t2)
      BY <1>10, <1>14 DEF MachineOK, ServesOK, PendingOK, RowOK, Known
    <2> QED  BY <2>1, <2>2, <2>3, <2>4, <2>5 DEF MachineOK
  <1>16. /\ task[m].pc \in {"read", "apply"} /\ store[m].keys \subseteq s2.keys
         /\ t2.holder = task[m].holder /\ t2.req = task[m].req /\ t2.try = task[m].try
         /\ (Writing(task[m]) \/ t2.sent = task[m].sent)
    BY <1>1, <1>2, <1>9, <1>10, <1>11
  <1> QED  BY <1>9, <1>10, <1>11, <1>15, <1>16, ReadGoesOn

\* Whatever comes next in the log can be applied, or is the next part of the
\* snapshot in the buffer.
LEMMA NextApplies ==
    ASSUME IInv, NEW m \in Machines, task[m].pc = "apply", task[m].after < task[m].end
    PROVE  /\ Applies(m, Next1(m))
           /\ Next1(m) \in Entry /\ task[m].after + 1 \in 1..Len(log)
           /\ IsChange(Next1(m)) => /\ task[m].after = store[m].applied
                                    /\ Next1(m).id \in ChangeIds
                                    /\ Next1(m).data = <<KeyOf[Next1(m).id.req]>>
           /\ ~IsChange(Next1(m)) => Next1(m).kind = "snapshot" /\ Next1(m).through = store[m].applied
  <1>1. PICK s \in Store : s = store[m]
    BY Turn
  <1>2. PICK t \in Task : t = task[m]
    BY Turn
  <1>3. PICK e : e = log[t.after + 1]
    OBVIOUS
  <1>4. MachineOK(log, flight, answer, host, enables, m, s, t) /\ LogOK(log)
        /\ log \in Seq(Entry) /\ Len(log) \in Nat
    BY <1>1, <1>2, Turn DEF Good, Typed
  <1>5. StoreOK(log, s) /\ ReadOK(log, s, t)
    BY <1>4 DEF MachineOK, TaskOK
  <1>6. /\ t.after \in Nat /\ s.applied \in Nat /\ t.end \in Nat /\ t.head \in Nat
        /\ t.after < t.end /\ t.end <= t.head /\ t.head <= Len(log) /\ s.applied <= t.after
    BY <1>2, <1>5 DEF Task, Store, ReadOK
  <1>7. t.after + 1 \in 1..Len(log)
    BY <1>4, <1>6
  <1>8. e \in Entry /\ Follows(log, e, t.after)
    <2>1. Follows(log, e, (t.after + 1) - 1) /\ e \in Entry
      BY <1>3, <1>4, <1>7 DEF LogOK
    <2> QED  BY <1>6, <2>1
  <1>9. Next1(m) = e /\ (Buffering(m) <=> t.after > s.applied)
    BY <1>1, <1>2, <1>3 DEF Next1, Buffering
  <1>10. \A k \in s.applied + 1..t.after :
             log[k].kind = "snapshot" /\ log[k].through = s.applied /\ ~Completes(log[k])
    BY <1>2, <1>5 DEF ReadOK
  <1>11. ~(Edge(log, t.after) /\ t.after > s.applied)
    <2>1. SUFFICES ASSUME Edge(log, t.after), t.after > s.applied PROVE FALSE
      OBVIOUS
    <2>2. t.after \in s.applied + 1..t.after /\ t.after # 0
      BY <1>6, <2>1
    <2> QED  BY <1>10, <2>1, <2>2 DEF Edge
  <1>12. CASE e.kind = "change"
    <2>1. ChangeFollows(log, e, t.after)
      BY <1>8, <1>12 DEF Follows
    <2>2. t.after = s.applied
      BY <1>6, <1>11, <2>1 DEF ChangeFollows
    <2>3. s.state # "disabled"
      BY <1>5, <2>1, <2>2 DEF ChangeFollows, StoreOK, Shares
    <2>4. Applies(m, e)
      BY <1>1, <1>6, <1>9, <1>12, <2>2, <2>3 DEF Applies
    <2>5. e.id \in ChangeIds /\ e.data = <<KeyOf[e.id.req]>>
      BY <2>1 DEF ChangeFollows
    <2> QED  BY <1>1, <1>2, <1>7, <1>8, <1>9, <1>12, <2>2, <2>4, <2>5 DEF IsChange
  <1>13. CASE e.kind = "snapshot"
    <2>1. PartFollows(log, e, t.after)
      BY <1>8, <1>13 DEF Follows
    <2>2. e.id.part \in 1..Parts /\ e.through \in Nat /\ Parts \in Nat
          /\ t.after + 1 = e.through + e.id.part /\ Edge(log, e.through)
      BY <1>8, <2>1, ConstantsAssumption DEF PartFollows, PartIds, Entry
    <2>3. \A k \in 1..t.after : k > e.through => log[k] = [e EXCEPT !.id = PartId(e.id.plan, k - e.through)]
      BY <2>1 DEF PartFollows
    <2>4. ASSUME NEW k \in 1..t.after, k > e.through
          PROVE  /\ log[k].kind = "snapshot" /\ log[k].through = e.through
                 /\ log[k].id.plan = e.id.plan /\ log[k].id.part = k - e.through
      <3>1. log[k] = [e EXCEPT !.id = PartId(e.id.plan, k - e.through)]
        BY <2>3, <2>4
      <3>2. log[k].id = PartId(e.id.plan, k - e.through) /\ log[k].kind = e.kind
            /\ log[k].through = e.through
        BY <1>8, <3>1 DEF Entry
      <3> QED  BY <1>13, <3>2 DEF PartId
    <2>5. e.through = s.applied
      <3>1. CASE t.after > s.applied /\ e.through < t.after
        <4>1. t.after \in 1..t.after /\ t.after > e.through /\ t.after \in s.applied + 1..t.after
          BY <1>6, <2>2, <3>1
        <4> QED  BY <1>10, <2>4, <4>1
      <3>2. CASE t.after > s.applied /\ e.through = t.after
        BY <1>11, <2>2, <3>2
      <3>3. CASE t.after = s.applied /\ e.through < t.after
        <4>1. t.after \in 1..t.after /\ t.after > e.through /\ t.after # 0
          BY <1>6, <2>2, <3>3
        <4>2. log[t.after].kind = "snapshot" /\ log[t.after].id.part = t.after - e.through
          BY <2>4, <4>1
        <4>3. log[t.after].id.part # Parts
          BY <1>6, <2>2, <4>2
        <4>4. Edge(log, t.after)
          BY <1>5, <3>3 DEF StoreOK
        <4> QED  BY <4>1, <4>2, <4>3, <4>4 DEF Edge, Completes
      <3>4. e.through <= t.after
        BY <1>6, <2>2
      <3> QED  BY <1>6, <2>2, <3>1, <3>2, <3>3, <3>4
    <2>6. e.id.part = t.after - s.applied + 1
      BY <1>6, <2>2, <2>5
    <2>7. ASSUME t.after > s.applied PROVE e.id.plan = log[s.applied + 1].id.plan
      <3>1. s.applied + 1 \in 1..t.after /\ s.applied + 1 > e.through
        BY <1>6, <2>5, <2>7
      <3> QED  BY <2>4, <3>1
    <2>8. InOrder(m, e)
      BY <1>1, <1>2, <1>9, <1>13, <2>6, <2>7 DEF InOrder
    <2>9. MaySupersede(s, e)
      BY <2>1, <2>5 DEF MaySupersede, Precedes, PartFollows
    <2>10. Applies(m, e)
      BY <1>1, <2>8, <2>9 DEF Applies
    <2> QED  BY <1>1, <1>2, <1>7, <1>8, <1>9, <1>13, <2>5, <2>10 DEF IsChange
  <1> QED  BY <1>8, <1>12, <1>13 DEF Entry

\* The store s2 differs from s by the entries up to position n.
Reached(l, s, n, s2) ==
    /\ s2.applied = n /\ Edge(l, n) /\ s2.content = Image(l)[n]
    /\ s2.own = s.own /\ s2.keys = s.keys /\ Shares(s2)
    /\ s2.pending = StillPending(s, n)
    /\ s.state = "enabled" => s2.state = "enabled"

Moves(t, n, t2) == n = t.after + 1 /\ t2 = [t EXCEPT !.after = n]

\* The entries up to the next one are in the tables: the store is at the
\* position after it.
LEMMA MachineAdvances ==
    ASSUME NEW l \in Seq(Entry), NEW f, NEW an, NEW ho, NEW en \in Nat, NEW m \in Machines,
           NEW s \in Store, NEW t \in Task, MachineOK(l, f, an, ho, en, m, s, t),
           FlightOK(l, f), t.pc = "apply", t.after < t.end,
           NEW s2 \in Store, NEW n \in Nat, NEW t2, Reached(l, s, n, s2), Moves(t, n, t2)
    PROVE  MachineOK(l, f, an, ho, en, m, s2, t2) /\ Number(s2, t2) = 0
  <1> USE DEF Reached, Moves
  <1>1. /\ t2.pc = "apply" /\ t2.holder = t.holder /\ t2.req = t.req /\ t2.try = t.try
        /\ t2.sent = t.sent /\ t2.stalled = t.stalled /\ t2.after = n
        /\ t2.head = t.head /\ t2.end = t.end
    BY DEF Task
  <1>2. /\ t.after \in Nat /\ t.end \in Nat /\ t.head \in Nat /\ s.applied \in Nat
        /\ Len(l) \in Nat /\ HolderOK(s, t) /\ ReadOK(l, s, t)
    BY LenProperties DEF Task, Store, MachineOK, TaskOK
  <1>3. n <= t.end /\ t.end <= t.head /\ t.head <= Len(l) /\ s.applied < n /\ n <= Len(l)
    BY <1>2 DEF ReadOK
  <1>4. Number(s2, t2) = 0 /\ s2.state \in {"joining", "enabled"}
    BY <1>1 DEF Number, Shares
  <1>5. StoreOK(l, s2)
    <2>1. \A id \in s2.own : \E i \in 1..s.applied : l[i].id = id
      BY DEF MachineOK, StoreOK
    <2>2. 1..s.applied \subseteq 1..n
      BY <1>2, <1>3
    <2>3. \A id \in s2.own : \E i \in 1..n : l[i].id = id
      BY <2>1, <2>2
    <2>4. n > 0 /\ s2.applied <= Len(l) /\ s2.applied > 0
      BY <1>2, <1>3
    <2>5. Edge(l, s2.applied) /\ s2.content = Image(l)[s2.applied]
      OBVIOUS
    <2>6. \A id \in s2.own : \E i \in 1..s2.applied : l[i].id = id
      BY <2>3
    <2> QED  BY <2>4, <2>5, <2>6 DEF StoreOK
  <1>6. PlanOK(l, f, en, m, s2, t2)
    BY <1>1, <1>4 DEF PlanOK
  <1>7. TaskOK(l, m, s2, t2)
    <2>1. HolderOK(s2, t2)
      BY <1>1, <1>2, <1>4 DEF HolderOK, Working, Writing
    <2>2. ReadOK(l, s2, t2)
      <3>1. s2.applied + 1..t2.after = {}
        BY <1>1
      <3>2. s2.applied <= t2.after
        BY <1>1
      <3> QED  BY <1>1, <1>3, <1>4, <3>1, <3>2 DEF ReadOK
    <2> QED  BY <1>1, <2>1, <2>2 DEF TaskOK, SendOK
  <1>8. ServesOK(l, an, ho, m, s2, t2)
    <2>1. ServesOK(l, an, ho, m, s, t)
      BY DEF MachineOK
    <2>2. 1..s.applied \subseteq 1..s2.applied
      BY <1>2, <1>3
    <2> QED  BY <1>1, <2>1, <2>2 DEF ServesOK, Working, Writing
  <1>9. PendingOK(l, f, an, ho, m, s2, t2)
    <2>1. PendingOK(l, f, an, ho, m, s, t)
      BY DEF MachineOK
    <2>2. ~Sending(t) /\ ~Sending(t2) /\ (Writing(t2) <=> Writing(t))
      BY <1>1 DEF Sending, Writing
    <2>0. s2.pending = {p \in s.pending : p.expect >= n}
      BY DEF StillPending
    <2>3. ASSUME NEW p \in s2.pending PROVE RowOK(l, f, an, ho, m, s2, t2, p)
      <3>1. RowOK(l, f, an, ho, m, s, t, p)
        BY <2>0, <2>1, <2>3 DEF PendingOK
      <3> QED  BY <1>1, <2>2, <3>1 DEF RowOK
    <2>4. ASSUME NEW i \in 1..Len(l), i > s2.applied, IsChange(l[i]), ho[l[i].id.req] = m
          PROVE  Known(s2, l[i])
      <3>1. i > s.applied
        BY <1>2, <1>3, <2>4
      <3>2. PICK p \in s.pending : p.id = l[i].id
        BY <2>1, <2>4, <3>1 DEF PendingOK, Known
      <3>3. i = p.expect + 1 /\ p.expect \in Nat
        BY <2>1, <2>4, <3>2 DEF PendingOK, RowOK, Store, PendingEntry
      <3>4. p.expect >= n
        BY <2>4, <3>3
      <3> QED  BY <2>0, <3>2, <3>4 DEF Known
    <2>5. ASSUME NEW c \in f, c.expect = Len(l), IsChange(c.entry), ho[c.entry.id.req] = m
          PROVE  Known(s2, c.entry)
      <3>1. PICK p \in s.pending : p.id = c.entry.id
        BY <2>1, <2>5 DEF PendingOK, Known
      <3>2. c.expect = p.expect
        BY <2>1, <2>5, <3>1 DEF PendingOK, RowOK
      <3>3. p.expect >= n
        BY <1>2, <1>3, <2>5, <3>2
      <3> QED  BY <2>0, <3>1, <3>3 DEF Known
    <2> QED  BY <2>2, <2>3, <2>4, <2>5 DEF PendingOK
  <1> QED  BY <1>4, <1>5, <1>6, <1>7, <1>8, <1>9 DEF MachineOK

\* What Advanced leaves, and what it changes.
LEMMA AdvancedIs ==
    ASSUME NEW s \in Store, NEW m, NEW n \in Nat, NEW content, Shares(s)
    PROVE  /\ Advanced(s, m, n, content).applied = n
           /\ Advanced(s, m, n, content).content = content
           /\ Advanced(s, m, n, content).own = s.own
           /\ Advanced(s, m, n, content).keys = s.keys
           /\ Advanced(s, m, n, content).pending = StillPending(s, n)
           /\ Shares(Advanced(s, m, n, content))
           /\ s.state = "enabled" => Advanced(s, m, n, content).state = "enabled"
  <1>1. PICK seen : seen = Max2(s.seen, n)
    OBVIOUS
  <1>2. PICK x : x = Advanced(s, m, n, content)
    OBVIOUS
  <1>3. x = [s EXCEPT !.applied = n, !.seen = seen, !.content = content,
                      !.state = JoinedState(s, n, seen),
                      !.author = @ \/ log[n].author = m,
                      !.pending = StillPending(s, n)]
    BY <1>1, <1>2 DEF Advanced
  <1>4. /\ x.applied = n /\ x.content = content /\ x.own = s.own /\ x.keys = s.keys
        /\ x.pending = StillPending(s, n) /\ x.state = JoinedState(s, n, seen)
    BY <1>3 DEF Store
  <1>5. Shares(x) /\ (s.state = "enabled" => x.state = "enabled")
    BY <1>4 DEF Shares, JoinedState
  <1> QED  BY <1>2, <1>4, <1>5

LEMMA ApplyEntryStep ==
    ASSUME IInv, NEW m \in Machines, ApplyEntry(m)
    PROVE  IInv'
  <1>1. PICK s \in Store : s = store[m]
    BY Turn
  <1>2. PICK t \in Task : t = task[m]
    BY Turn
  <1>3. PICK e : e = Next1(m)
    OBVIOUS
  <1>4. PICK n \in Nat : n = t.after + 1
    BY DEF Task
  <1>5. PICK t2 : t2 = [t EXCEPT !.after = n]
    OBVIOUS
  <1>6. t.pc = "apply" /\ t.after < t.end
    BY <1>2 DEF ApplyEntry, At
  <1>7. /\ Applies(m, e) /\ e \in Entry /\ n \in 1..Len(log) /\ log[n] = e
        /\ IsChange(e) => /\ t.after = s.applied /\ e.id \in ChangeIds
                          /\ e.data = <<KeyOf[e.id.req]>>
        /\ ~IsChange(e) => e.kind = "snapshot" /\ e.through = s.applied
    BY <1>1, <1>2, <1>3, <1>4, <1>6, NextApplies DEF Next1
  <1>19. task' = [task EXCEPT ![m] = t2]
    <2>1. Applies(m, e)
      BY <1>7
    <2>2. task' = [task EXCEPT ![m] = [@ EXCEPT !.after = task[m].after + 1]]
      BY <1>3, <2>1 DEF ApplyEntry
    <2> QED  BY <1>2, <1>4, <1>5, <2>2
  <1>8. /\ task' = [task EXCEPT ![m] = t2]
        /\ log' = log /\ flight' = flight /\ answer' = answer /\ host' = host
        /\ enables' = enables /\ broken' = broken /\ faults' = faults
    BY <1>3, <1>7, <1>19 DEF ApplyEntry, bookkeeping
  <1>0. PICK v : /\ store' = [store EXCEPT ![m] = v]
                 /\ IsChange(e) => v = Advanced(s, m, s.applied + 1, Changed(s, e))
                 /\ ~IsChange(e) /\ Completes(e) => v = Installed(m, e)
                 /\ ~IsChange(e) /\ ~Completes(e) => v = s
    <2>1. PICK v : v = CASE Applies(m, e) /\ e.kind = "change" ->
                              Advanced(s, m, s.applied + 1, Changed(s, e))
                         [] Applies(m, e) /\ Completes(e) -> Installed(m, e)
                         [] OTHER -> s
      OBVIOUS
    <2>2. store' = [store EXCEPT ![m] = v]
      BY <1>1, <1>3, <2>1 DEF ApplyEntry
    <2>3. /\ IsChange(e) => v = Advanced(s, m, s.applied + 1, Changed(s, e))
          /\ ~IsChange(e) /\ Completes(e) => v = Installed(m, e)
          /\ ~IsChange(e) /\ ~Completes(e) => v = s
      <3>1. ~(e.kind = "change" /\ Completes(e))
        BY DEF Completes
      <3> QED  BY <1>7, <2>1, <3>1 DEF IsChange
    <2> QED  BY <2>2, <2>3
  <1>9. /\ t2 \in Task /\ t2.pc = "apply" /\ t2.holder = t.holder /\ t2.req = t.req
        /\ t2.try = t.try /\ t2.sent = t.sent /\ t2.stalled = t.stalled
        /\ t2.after = n /\ t2.head = t.head /\ t2.end = t.end
    BY <1>5, <1>6 DEF Task
  <1>10. /\ MachineOK(log, flight, answer, host, enables, m, s, t) /\ LogOK(log)
         /\ FlightOK(log, flight) /\ log \in Seq(Entry) /\ Len(log) \in Nat /\ enables \in Nat
    BY <1>1, <1>2, Turn DEF Good, Typed
  <1>11. StoreOK(log, s) /\ ReadOK(log, s, t)
    BY <1>10 DEF MachineOK, TaskOK
  <1>12. t.after \in Nat /\ t.end \in Nat /\ t.head \in Nat /\ s.applied \in Nat
    BY DEF Task, Store
  <1>13. Image(log)[n] = Step(log, Image(log), n)
    BY <1>7, <1>10, ImageStep
  <1>14. n # 0 /\ n - 1 = t.after
    BY <1>4, <1>12
  <1>15. /\ task[m].pc \in {"read", "apply"}
         /\ t2.holder = task[m].holder /\ t2.req = task[m].req /\ t2.try = task[m].try
         /\ (Writing(task[m]) \/ t2.sent = task[m].sent)
    BY <1>2, <1>6, <1>9
  <1>16. CASE IsChange(e)
    <2>1. PICK content : content = Append(s.content, Head(e.data))
      OBVIOUS
    <2>2. Changed(s, e) = content /\ n = s.applied + 1
      <3>1. n = s.applied + 1
        BY <1>4, <1>7, <1>16
      <3>2. ASSUME e.id \in s.own PROVE FALSE
        <4>1. PICK i \in 1..s.applied : log[i].id = e.id
          BY <1>11, <3>2 DEF StoreOK
        <4>2. i \in 1..Len(log) /\ i # n
          BY <1>7, <1>10, <1>12, <3>1, <4>1
        <4> QED  BY <1>7, <1>10, <4>1, <4>2 DEF LogOK
      <3> QED  BY <2>1, <3>1, <3>2 DEF Changed
    <2>3. content \in Seq(Keys) /\ content = Image(log)[n]
      <3>1. Head(e.data) = KeyOf[e.id.req] /\ KeyOf[e.id.req] \in Keys
        BY <1>7, <1>16 DEF Keys, ChangeIds
      <3>2. content \in Seq(Keys)
        BY <2>1, <3>1, AppendProperties DEF Store
      <3>3. s.content = Image(log)[s.applied] /\ s.applied = n - 1
        <4>1. s.applied # 0
          BY <1>7, <1>10, <1>14, <1>16 DEF LogOK, Follows, ChangeFollows, IsChange
        <4>2. s.applied > 0
          BY <1>12, <4>1
        <4> QED  BY <1>7, <1>11, <1>14, <1>16, <4>2 DEF StoreOK
      <3>4. ~Completes(e)
        BY <1>16 DEF IsChange, Completes
      <3> QED  BY <1>7, <1>13, <1>14, <1>16, <2>1, <3>2, <3>3, <3>4 DEF Step
    <2>4. Shares(s)
      <3>1. s.applied # 0
        BY <1>7, <1>10, <1>14, <1>16 DEF LogOK, Follows, ChangeFollows, IsChange
      <3> QED  BY <1>11, <1>12, <3>1 DEF StoreOK
    <2>5. PICK s2 : s2 = Advanced(s, m, n, content)
      OBVIOUS
    <2>6. s2 \in Store
      BY <1>7, <1>10, <2>3, <2>5, AdvancedType
    <2>7. /\ s2.applied = n /\ s2.content = content /\ s2.own = s.own /\ s2.keys = s.keys
          /\ s2.pending = StillPending(s, n) /\ Shares(s2)
          /\ (s.state = "enabled" => s2.state = "enabled")
      BY <2>4, <2>5, AdvancedIs
    <2>8. Edge(log, n)
      BY <1>7, <1>16 DEF Edge, IsChange
    <2>9. MachineOK(log, flight, answer, host, enables, m, s2, t2) /\ Number(s2, t2) = 0
      <3>1. Reached(log, s, n, s2)
        BY <2>3, <2>7, <2>8 DEF Reached
      <3>2. Moves(t, n, t2)
        BY <1>4, <1>5 DEF Moves
      <3> QED  BY <1>6, <1>10, <2>6, <3>1, <3>2, MachineAdvances
    <2>10. store' = [store EXCEPT ![m] = s2] /\ store[m].keys \subseteq s2.keys
      BY <1>0, <1>1, <1>16, <2>2, <2>5, <2>7
    <2> QED  BY <1>8, <1>9, <1>15, <2>6, <2>9, <2>10, ReadGoesOn
  <1>17. CASE ~IsChange(e) /\ Completes(e)
    <2>1. PICK j : j = IF s.state = "disabled"
                       THEN [s EXCEPT !.state = "joining", !.seen = t.head] ELSE s
      OBVIOUS
    <2>2. /\ j \in Store /\ j.own = s.own /\ j.keys = s.keys /\ j.pending = s.pending
          /\ (s.state = "enabled" => j.state = "enabled") /\ Shares(j)
      <3>1. s.state \in {"disabled", "joining", "enabled"}
        BY <1>6, <1>11 DEF ReadOK, Store, LogStates
      <3> QED  BY <1>12, <2>1, <3>1 DEF Store, LogStates, Shares
    <2>3. PICK content : content = IF e.through > 0 THEN e.data ELSE s.content \o e.data
      OBVIOUS
    <2>4. content = e.data /\ e.data \in Seq(Keys)
      <3>1. e.data \in Seq(Keys)
        BY <1>7 DEF Entry
      <3>2. CASE s.applied > 0
        BY <1>7, <1>17, <2>3, <3>1, <3>2
      <3>3. CASE s.applied = 0
        <4>1. s.content = <<>>
          BY <1>6, <1>11, <3>3 DEF StoreOK, Shares, ReadOK, Store, LogStates
        <4>2. <<>> \o e.data = e.data
          BY <3>1
        <4> QED  BY <1>7, <1>17, <2>3, <3>1, <3>3, <4>1, <4>2
      <3> QED  BY <1>12, <3>2, <3>3
    <2>5. content = Image(log)[n]
      BY <1>7, <1>13, <1>14, <1>17, <2>4 DEF Step
    <2>6. PICK s2 : s2 = Advanced(j, m, n, content)
      OBVIOUS
    <2>7. s2 \in Store
      BY <1>7, <1>10, <2>2, <2>4, <2>6, AdvancedType
    <2>8. /\ s2.applied = n /\ s2.content = content /\ s2.own = s.own /\ s2.keys = s.keys
          /\ s2.pending = StillPending(s, n) /\ Shares(s2)
          /\ (s.state = "enabled" => s2.state = "enabled")
      <3>1. StillPending(j, n) = StillPending(s, n)
        BY <2>2 DEF StillPending
      <3> QED  BY <2>2, <2>6, <3>1, AdvancedIs
    <2>9. Edge(log, n)
      BY <1>7, <1>17 DEF Edge
    <2>10. MachineOK(log, flight, answer, host, enables, m, s2, t2) /\ Number(s2, t2) = 0
      <3>1. Reached(log, s, n, s2)
        BY <2>5, <2>8, <2>9 DEF Reached
      <3>2. Moves(t, n, t2)
        BY <1>4, <1>5 DEF Moves
      <3> QED  BY <1>6, <1>10, <2>7, <3>1, <3>2, MachineAdvances
    <2>11. Installed(m, e) = s2
      BY <1>1, <1>2, <1>4, <2>1, <2>3, <2>6 DEF Installed
    <2>12. store' = [store EXCEPT ![m] = s2] /\ store[m].keys \subseteq s2.keys
      BY <1>0, <1>1, <1>17, <2>8, <2>11
    <2> QED  BY <1>8, <1>9, <1>15, <2>7, <2>10, <2>12, ReadGoesOn
  <1>18. CASE ~IsChange(e) /\ ~Completes(e)
    <2>1. store' = [store EXCEPT ![m] = s] /\ store[m].keys \subseteq s.keys
      BY <1>0, <1>1, <1>18
    <2>2. ReadOK(log, s, t2)
      <3>1. \A k \in s.applied + 1..n :
               log[k].kind = "snapshot" /\ log[k].through = s.applied /\ ~Completes(log[k])
        <4>1. \A k \in s.applied + 1..n : k = n \/ k \in s.applied + 1..t.after
          BY <1>4, <1>12
        <4> QED  BY <1>6, <1>7, <1>11, <1>18, <4>1 DEF ReadOK
      <3>2. s.applied <= n /\ n <= t.end /\ n <= Len(log)
        BY <1>4, <1>6, <1>7, <1>11, <1>12 DEF ReadOK
      <3> QED  BY <1>6, <1>9, <1>11, <3>1, <3>2 DEF ReadOK
    <2>3. MachineOK(log, flight, answer, host, enables, m, s, t2) /\ Number(s, t2) = 0
      BY <1>6, <1>9, <1>10, <2>2, MachineReading
    <2> QED  BY <1>8, <1>9, <1>15, <2>1, <2>3, ReadGoesOn
  <1> QED  BY <1>16, <1>17, <1>18

\* A write that is not being sent has no open attempt.
LEMMA NotOpen ==
    ASSUME IInv, NEW m \in Machines, Writing(task[m]), ~Sending(task[m]) \/ ~task[m].sent
    PROVE  Unlanded(log, flight, task[m].req)
  <1>1. Working(task[m])
    BY DEF Writing, Working
  <1>2. task[m].req \in Requests /\ host[task[m].req] = m /\ answer[task[m].req] = "active"
    BY <1>1, Turn DEF HolderOK, MachineOK, ServesOK
  <1>3. RequestOK(log, flight, task[m].req, "active", m, store[m], task[m])
    BY <1>2, Turn
  <1> QED  BY <1>3, NothingSent

LEMMA EndPageStep ==
    ASSUME IInv, NEW m \in Machines, EndPage(m)
    PROVE  IInv'
  <1>1. PICK s \in Store : s = store[m]
    BY Turn
  <1>2. PICK t \in Task : t = task[m]
    BY Turn
  <1>3. /\ t.pc = "apply" /\ t.after = t.end
        /\ log' = log /\ flight' = flight /\ host' = host
        /\ enables' = enables /\ broken' = broken /\ faults' = faults
    BY <1>2 DEF EndPage, At, bookkeeping
  <1>4. /\ MachineOK(log, flight, answer, host, enables, m, s, t) /\ HolderOK(s, t)
        /\ ReadOK(log, s, t) /\ enables \in Nat /\ enables <= enables /\ log \in Seq(Entry)
        /\ Good(log, flight, store, task, answer, host, enables)
        /\ [store EXCEPT ![m] = s] = store /\ answer \in [Requests -> Answers]
    BY <1>1, <1>2, Turn DEF MachineOK, TaskOK, Typed
  <1>5. ~Sending(t) /\ (Writing(t) => Unlanded(log, flight, t.req))
    <2>1. ~Sending(t)
      BY <1>3 DEF Sending
    <2> QED  BY <1>2, <2>1, NotOpen
  <1>6. CASE t.end # t.head
    <2>1. PICK t2 : t2 = [t EXCEPT !.pc = "read", !.head = 0, !.end = 0]
      OBVIOUS
    <2>2. /\ t2 \in Task /\ t2.pc = "read" /\ t2.holder = t.holder /\ t2.req = t.req
          /\ t2.try = t.try /\ t2.sent = t.sent /\ t2.stalled = t.stalled /\ t2.after = t.after
      BY <2>1 DEF Task, Places
    <2>3. /\ task' = [task EXCEPT ![m] = t2] /\ store' = [store EXCEPT ![m] = s]
          /\ answer' = answer
      BY <1>2, <1>4, <1>6, <2>1 DEF EndPage
    <2>4. ReadOK(log, s, t2)
      BY <1>3, <1>4, <2>2 DEF ReadOK
    <2>5. MachineOK(log, flight, answer, host, enables, m, s, t2) /\ Number(s, t2) = 0
      BY <1>3, <1>4, <2>2, <2>4, MachineReading
    <2>6. /\ task[m].pc \in {"read", "apply"} /\ store[m].keys \subseteq s.keys
          /\ t2.holder = task[m].holder /\ t2.req = task[m].req /\ t2.try = task[m].try
          /\ (Writing(task[m]) \/ t2.sent = task[m].sent)
      BY <1>1, <1>2, <1>3, <2>2
    <2> QED  BY <1>3, <2>2, <2>3, <2>5, <2>6, ReadGoesOn
  <1>7. CASE t.end = t.head /\ Buffering(m)
    <2>1. PICK t2 \in Task : t2 = Release(m) /\ Idle(t2)
      BY Turn
    <2>2. /\ task' = [task EXCEPT ![m] = t2] /\ store' = store
          /\ answer' = ToldOf(answer, t, "refused")
      BY <1>2, <1>7, <2>1, ToldIs DEF EndPage
    <2>3. Good(log, flight, store, [task EXCEPT ![m] = t2], ToldOf(answer, t, "refused"), host, enables)
      BY <1>2, <1>4, <1>5, <2>1, EndKeeps
    <2> QED  BY <1>3, <2>2, <2>3 DEF IInv
  <1>8. CASE t.end = t.head /\ ~Buffering(m) /\ t.holder = "write"
    <2>1. Writing(t) /\ Working(t) /\ s.state = "enabled" /\ t.req \in Requests
      BY <1>4, <1>8 DEF Writing, Working, HolderOK
    <2>2. PICK t2 : t2 = [IdleTask EXCEPT !.holder = "write", !.req = t.req, !.pc = "attempt",
                                          !.try = t.try]
      OBVIOUS
    <2>3. /\ t2 \in Task /\ t2.pc = "attempt" /\ t2.holder = "write" /\ t2.req = t.req
          /\ t2.try = t.try /\ ~t2.sent /\ t2.stalled = "no"
      <3>1. t.try \in 0..Retries /\ IdleTask \in Task
        BY Turn DEF Task
      <3>2. "write" \in Holders /\ "attempt" \in Places
        BY DEF Holders, Places
      <3> QED  BY <2>1, <2>2, <3>1, <3>2 DEF IdleTask, Task
    <2>4. store' = [store EXCEPT ![m] = s]
      <3>1. JoinedState(s, s.applied, t.head) = s.state
        BY <2>1 DEF JoinedState
      <3>2. store' = [store EXCEPT ![m].state = JoinedState(s, s.applied, t.head)]
        BY <1>1, <1>2, <1>8 DEF EndPage
      <3>3. [s EXCEPT !.state = s.state] = s
        BY DEF Store
      <3> QED  BY <1>1, <3>1, <3>2, <3>3
    <2>5. task' = [task EXCEPT ![m] = t2] /\ answer' = answer
      BY <1>2, <1>8, <2>2 DEF EndPage
    <2>6. Number(s, t2) = 0 /\ Writing(t2) /\ Working(t2) /\ ~Sending(t2)
      BY <2>1, <2>3 DEF Number, Writing, Working, Sending
    <2>7. PlanOK(log, flight, enables, m, s, t2)
      BY <1>4, <2>1, <2>3, <2>6 DEF PlanOK
    <2>8. TaskOK(log, m, s, t2)
      BY <2>1, <2>3, <2>6 DEF TaskOK, HolderOK, ReadOK, SendOK
    <2>9. ServesOK(log, answer, host, m, s, t2)
      BY <1>4, <2>1, <2>3, <2>6 DEF MachineOK, ServesOK
    <2>10. PendingOK(log, flight, answer, host, m, s, t2)
      <3>1. ASSUME NEW p \in s.pending PROVE RowOK(log, flight, answer, host, m, s, t2, p)
        <4>1. RowOK(log, flight, answer, host, m, s, t, p)
          BY <1>4 DEF MachineOK, PendingOK
        <4> QED  BY <1>5, <2>1, <2>3, <4>1 DEF RowOK
      <3> QED  BY <1>4, <2>6, <3>1 DEF MachineOK, PendingOK
    <2>11. MachineOK(log, flight, answer, host, enables, m, s, t2)
      BY <1>4, <2>7, <2>8, <2>9, <2>10 DEF MachineOK
    <2>12. ASSUME NEW r \in Requests, host[r] = m, answer[r] = "active"
           PROVE  RequestOK(log, flight, r, "active", m, s, t2)
      <3>1. RequestOK(log, flight, r, "active", m, s, t)
        BY <1>1, <1>2, <2>12, Turn
      <3>2. t.req = r
        BY <3>1 DEF RequestOK
      <3>3. t2.holder = t.holder /\ s.keys \subseteq s.keys
        BY <1>8, <2>3
      <3>4. IF Writing(t)
            THEN \/ Unlanded(log, flight, r) /\ ~(Sending(t) /\ t.sent)
                 \/ Sending(t2) /\ t2.sent /\ s.applied = s.applied
            ELSE t2.sent = t.sent
        BY <1>5, <2>1, <3>2
      <3> QED  BY <2>3, <3>1, <3>3, <3>4, RequestGoesOn
    <2>13. /\ log' = log /\ flight' = flight /\ answer' = answer /\ host' = host
           /\ enables' = enables /\ broken' = broken /\ faults' \in Nat
      BY <1>3, <2>5 DEF IInv
    <2>14. Number(s, t2) \in {0, Number(store[m], task[m])} /\ store[m].keys \subseteq s.keys
      BY <1>1, <2>6
    <2> QED  BY <2>3, <2>4, <2>5, <2>11, <2>12, <2>13, <2>14, LocalStep
  <1>9. CASE t.end = t.head /\ ~Buffering(m) /\ t.holder # "write"
    <2>1. PICK t2 \in Task : t2 = IdleTask /\ Idle(t2)
      BY Turn
    <2>2. PICK tk : tk = [task EXCEPT ![m] = t2]
      OBVIOUS
    <2>3. PICK an : an = ToldOf(answer, t, "refused")
      OBVIOUS
    <2>4. PICK s2 : s2 = [s EXCEPT !.state = JoinedState(s, s.applied, t.head)]
      OBVIOUS
    <2>5. task' = tk /\ answer' = an /\ store' = [store EXCEPT ![m] = s2]
      BY <1>1, <1>2, <1>9, <2>1, <2>2, <2>3, <2>4, ToldIs DEF EndPage
    <2>6. Good(log, flight, store, tk, an, host, enables)
      BY <1>2, <1>4, <1>5, <2>1, <2>2, <2>3, EndKeeps
    <2>7. tk[m] = t2 /\ [tk EXCEPT ![m] = t2] = tk /\ an \in [Requests -> Answers]
      BY <2>2, <2>6, Turn DEF Typed, Good
    <2>8. s2 \in Store /\ s2.applied = s.applied /\ s2.content = s.content /\ s2.own = s.own
          /\ s2.pending = s.pending /\ s2.keys = s.keys
          /\ (s2.state = s.state \/ (s.state = "joining" /\ s2.state = "enabled"))
      BY <2>4 DEF Store, LogStates, JoinedState
    <2>9. MachineOK(log, flight, an, host, enables, m, s, t2)
      BY <1>1, <2>6, <2>7 DEF Good
    <2>10. s.state # "enabling"
      BY <1>3, <1>4 DEF ReadOK
    <2>11. MachineOK(log, flight, an, host, enables, m, s2, t2) /\ Number(s2, t2) = 0
      <3>1. Number(s2, t2) = 0
        BY <2>1, <2>8, <2>10 DEF Number, Idle
      <3>2. StoreOK(log, s2)
        BY <2>8, <2>9 DEF MachineOK, StoreOK, Shares
      <3>3. PlanOK(log, flight, enables, m, s2, t2)
        BY <1>4, <2>1, <2>8, <2>10, <3>1 DEF PlanOK, Idle
      <3>4. TaskOK(log, m, s2, t2) /\ ServesOK(log, an, host, m, s2, t2)
        BY <2>1 DEF Idle, TaskOK, HolderOK, ReadOK, SendOK, ServesOK, Working, Writing
      <3>5. PendingOK(log, flight, an, host, m, s2, t2)
        BY <2>1, <2>8, <2>9 DEF MachineOK, PendingOK, RowOK, Known, Idle, Writing, Sending
      <3> QED  BY <3>1, <3>2, <3>3, <3>4, <3>5 DEF MachineOK
    <2>12. \A r \in Requests : host[r] = m /\ "active" \in {an[r], an[r]} =>
               RequestOK(log, flight, r, an[r], m, s2, t2)
      BY <2>1, <2>6, <2>7 DEF Good, RequestOK, Idle, Working
    <2>13. Answered(an, host, m, an) /\ store[m].keys \subseteq s2.keys
           /\ Number(s2, t2) \in {0, Number(store[m], tk[m])}
      BY <1>1, <2>8, <2>11 DEF Answered
    <2>14. Good(log, flight, [store EXCEPT ![m] = s2], [tk EXCEPT ![m] = t2], an, host, enables)
      BY <1>4, <2>6, <2>7, <2>8, <2>11, <2>12, <2>13, LocalKeeps
    <2> QED  BY <1>3, <2>5, <2>7, <2>14 DEF IInv
  <1> QED  BY <1>6, <1>7, <1>8, <1>9

-----------------------------------------------------------------------------
(* The actions: attempts *)

\* What the invariant says of a machine that attempts a write.
LEMMA Attempts ==
    ASSUME IInv, NEW m \in Machines, task[m].pc \in {"attempt", "settle", "commit"}
    PROVE  /\ Writing(task[m]) /\ Working(task[m]) /\ task[m].req \in Requests
           /\ store[m].state = "enabled" /\ store[m].applied > 0
           /\ answer[task[m].req] = "active" /\ host[task[m].req] = m
           /\ KeyOf[task[m].req] \notin store[m].keys
           /\ RequestOK(log, flight, task[m].req, "active", m, store[m], task[m])
           /\ \A r \in Requests : host[r] = m /\ answer[r] = "active" => r = task[m].req
  <1>1. /\ MachineOK(log, flight, answer, host, enables, m, store[m], task[m])
        /\ HolderOK(store[m], task[m])
    BY Turn
  <1>2. /\ Writing(task[m]) /\ Working(task[m]) /\ task[m].req \in Requests
        /\ store[m].state = "enabled"
    BY <1>1 DEF HolderOK, Writing, Working
  <1>3. /\ answer[task[m].req] = "active" /\ host[task[m].req] = m
        /\ KeyOf[task[m].req] \notin store[m].keys
    BY <1>1, <1>2 DEF MachineOK, ServesOK
  <1>4. store[m].applied > 0
    BY <1>1, <1>2 DEF MachineOK, StoreOK, Shares
  <1>5. RequestOK(log, flight, task[m].req, "active", m, store[m], task[m])
    BY <1>2, <1>3, Turn
  <1>6. \A r \in Requests : host[r] = m /\ answer[r] = "active" => r = task[m].req
    BY Served DEF Waiting
  <1> QED  BY <1>2, <1>3, <1>4, <1>5, <1>6

\* No entry of the log has the id of an attempt whose request has no entry.
LEMMA IdUnlanded ==
    ASSUME NEW l, LogOK(l), l \in Seq(Entry), NEW f, NEW id \in ChangeIds, Unlanded(l, f, id.req)
    PROVE  \A i \in 1..Len(l) : l[i].id # id
  <1>1. SUFFICES ASSUME NEW i \in 1..Len(l), l[i].id = id PROVE FALSE
    OBVIOUS
  <1>2. Follows(l, l[i], i - 1) /\ l[i] \in Entry
    BY ElementOfSeq DEF LogOK
  <1>3. CASE l[i].kind = "change"
    BY <1>1, <1>3 DEF Unlanded, IsChange
  <1>4. CASE l[i].kind = "snapshot"
    <2>1. id \in PartIds
      BY <1>1, <1>2, <1>4 DEF Follows, PartFollows
    <2>2. PICK plan \in Nat, part \in 1..Parts : id = PartId(plan, part)
      BY <2>1 DEF PartIds, PartId
    <2> QED  BY <2>2, IdsDiffer
  <1> QED  BY <1>2, <1>3, <1>4 DEF Entry

LEMMA BeginAttemptStep ==
    ASSUME IInv, NEW m \in Machines, BeginAttempt(m)
    PROVE  IInv'
  <1>1. PICK s \in Store : s = store[m]
    BY Turn
  <1>2. PICK t \in Task : t = task[m]
    BY Turn
  <1>3. PICK row : row = [id |-> AttemptId(t), expect |-> s.applied]
    OBVIOUS
  <1>4. PICK s2 : s2 = [s EXCEPT !.pending = @ \cup {row}]
    OBVIOUS
  <1>5. PICK t2 : t2 = [t EXCEPT !.pc = "settle", !.sent = FALSE]
    OBVIOUS
  <1>6. /\ t.pc = "attempt" /\ store' = [store EXCEPT ![m] = s2] /\ task' = [task EXCEPT ![m] = t2]
        /\ log' = log /\ flight' = flight /\ answer' = answer /\ host' = host
        /\ enables' = enables /\ broken' = broken /\ faults' \in Nat
    BY <1>1, <1>2, <1>3, <1>4, <1>5 DEF BeginAttempt, At, requests, bookkeeping, IInv
  <1>7. /\ Writing(t) /\ Working(t) /\ t.req \in Requests /\ s.state = "enabled"
        /\ answer[t.req] = "active" /\ host[t.req] = m
        /\ RequestOK(log, flight, t.req, "active", m, s, t)
        /\ \A r \in Requests : host[r] = m /\ answer[r] = "active" => r = t.req
    BY <1>1, <1>2, <1>6, Attempts
  <1>8. /\ MachineOK(log, flight, answer, host, enables, m, s, t)
        /\ LogOK(log) /\ FlightOK(log, flight) /\ log \in Seq(Entry) /\ enables \in Nat
    BY <1>1, <1>2, Turn DEF Good, Typed
  <1>9. ~Sending(t) /\ Unlanded(log, flight, t.req)
    <2>1. ~Sending(t)
      BY <1>6 DEF Sending
    <2> QED  BY <1>2, <1>7, <2>1, NotOpen
  <1>10. AttemptId(t) \in ChangeIds /\ AttemptId(t).req = t.req /\ AttemptId(t).try = t.try
    BY <1>7, CallType
  <1>11. row \in PendingEntry /\ row.id = AttemptId(t) /\ row.expect = s.applied
    <2>1. AttemptId(t) \in EntryIds /\ s.applied \in Nat
      BY <1>10 DEF ChangeIds, EntryIds, Store
    <2> QED  BY <1>3, <2>1 DEF PendingEntry
  <1>12. /\ s2 \in Store /\ s2.state = s.state /\ s2.applied = s.applied /\ s2.content = s.content
         /\ s2.keys = s.keys /\ s2.own = s.own /\ s2.pending = s.pending \cup {row}
    BY <1>4, <1>11 DEF Store
  <1>13. /\ t2 \in Task /\ t2.pc = "settle" /\ ~t2.sent /\ t2.holder = t.holder /\ t2.req = t.req
         /\ t2.try = t.try /\ t2.stalled = t.stalled
    BY <1>5 DEF Task, Places
  <1>14. Number(s2, t2) = 0 /\ Writing(t2) /\ Working(t2) /\ Sending(t2)
    BY <1>7, <1>12, <1>13 DEF Number, Writing, Working, Sending
  <1>15. StoreOK(log, s2)
    BY <1>8, <1>12 DEF MachineOK, StoreOK, Shares
  <1>16. PlanOK(log, flight, enables, m, s2, t2)
    BY <1>7, <1>8, <1>12, <1>13, <1>14 DEF PlanOK
  <1>17. TaskOK(log, m, s2, t2)
    BY <1>7, <1>8, <1>12, <1>13, <1>14 DEF MachineOK, TaskOK, HolderOK, ReadOK, SendOK
  <1>18. ServesOK(log, answer, host, m, s2, t2)
    BY <1>7, <1>8, <1>12, <1>13, <1>14 DEF MachineOK, ServesOK
  <1>19. PendingOK(log, flight, answer, host, m, s2, t2)
    <2>1. PendingOK(log, flight, answer, host, m, s, t)
      BY <1>8 DEF MachineOK
    <2>2. ASSUME NEW p \in s.pending PROVE RowOK(log, flight, answer, host, m, s2, t2, p)
      <3>1. RowOK(log, flight, answer, host, m, s, t, p)
        BY <2>1 DEF PendingOK
      <3> QED  BY <1>7, <1>9, <1>13, <3>1 DEF RowOK
    <2>3. RowOK(log, flight, answer, host, m, s2, t2, row)
      <3>1. \A i \in 1..Len(log) : log[i].id # row.id
        BY <1>8, <1>9, <1>10, <1>11, IdUnlanded
      <3>2. ASSUME NEW c \in flight, c.entry.id = row.id PROVE FALSE
        <4>1. c.entry.id \in ChangeIds /\ c.entry.id.req = t.req /\ c.entry.id.try = t.try
          BY <1>10, <1>11, <3>2
        <4>2. IsChange(c.entry)
          <5>1. Follows(log, c.entry, c.expect) /\ c.entry \in Entry
            BY <1>8, Turn DEF FlightOK, AppendCall, Typed
          <5>2. ASSUME c.entry.kind = "snapshot" PROVE FALSE
            <6>1. c.entry.id \in PartIds
              BY <5>1, <5>2 DEF Follows, PartFollows
            <6>2. PICK plan \in Nat, part \in 1..Parts : c.entry.id = PartId(plan, part)
              BY <6>1 DEF PartIds, PartId
            <6> QED  BY <4>1, <6>2, IdsDiffer
          <5> QED  BY <5>1, <5>2 DEF Entry, IsChange
        <4>3. SentOK("active", m, s, t, c.entry, c.expect)
          BY <1>7, <4>1, <4>2 DEF RequestOK
        <4>4. t.try < t.try
          BY <1>7, <1>9, <4>1, <4>3 DEF SentOK, Present
        <4> QED  BY <4>4 DEF Task
      <3> QED  BY <1>7, <1>10, <1>11, <1>12, <1>13, <1>14, <3>1, <3>2 DEF RowOK
    <2>4. [id |-> AttemptId(t2), expect |-> s2.applied] \in s2.pending
      BY <1>3, <1>12, <1>13 DEF AttemptId
    <2> QED  BY <1>12, <2>1, <2>2, <2>3, <2>4 DEF PendingOK, Known
  <1>20. MachineOK(log, flight, answer, host, enables, m, s2, t2)
    BY <1>15, <1>16, <1>17, <1>18, <1>19 DEF MachineOK
  <1>21. RequestOK(log, flight, t.req, "active", m, s2, t2)
    <2>1. s.keys \subseteq s2.keys /\ t2.holder = t.holder /\ t2.req = t.req /\ t2.try = t.try
      BY <1>12, <1>13
    <2>2. IF Writing(t)
          THEN \/ Unlanded(log, flight, t.req) /\ ~(Sending(t) /\ t.sent)
               \/ Sending(t2) /\ t2.sent /\ s2.applied = s.applied
          ELSE t2.sent = t.sent
      BY <1>7, <1>9
    <2> QED  BY <1>7, <2>1, <2>2, RequestGoesOn
  <1>22. \A r \in Requests : host[r] = m /\ answer[r] = "active" =>
             RequestOK(log, flight, r, "active", m, s2, t2)
    BY <1>7, <1>21
  <1>23. Number(s2, t2) \in {0, Number(store[m], task[m])} /\ store[m].keys \subseteq s2.keys
    BY <1>1, <1>12, <1>14
  <1> QED  BY <1>6, <1>12, <1>13, <1>20, <1>22, <1>23, LocalStep

\* The pending row of an attempt that was not sent goes, and so does the attempt.
LEMMA ForgetKeeps ==
    ASSUME IInv, NEW m \in Machines, task[m].pc = "settle", ~task[m].sent,
           NEW st, st = [store EXCEPT ![m] = Forgotten(store[m], AttemptId(task[m]))],
           NEW tk, tk = [task EXCEPT ![m] = [task[m] EXCEPT !.pc = "attempt"]]
    PROVE  /\ Good(log, flight, st, tk, answer, host, enables)
           /\ tk[m].pc = "attempt" /\ tk[m].holder = task[m].holder /\ tk[m].req = task[m].req
           /\ ~tk[m].sent /\ tk[m].try = task[m].try /\ tk[m].stalled = task[m].stalled
           /\ tk[m] \in Task /\ st[m] \in Store
           /\ st[m].state = store[m].state /\ st[m].applied = store[m].applied
           /\ st[m].author = store[m].author
           /\ Unlanded(log, flight, task[m].req)
  <1>1. PICK s \in Store : s = store[m]
    BY Turn
  <1>2. PICK t \in Task : t = task[m]
    BY Turn
  <1>3. PICK s2 : s2 = Forgotten(s, AttemptId(t))
    OBVIOUS
  <1>4. PICK t2 : t2 = [t EXCEPT !.pc = "attempt"]
    OBVIOUS
  <1>5. /\ Writing(t) /\ Working(t) /\ t.req \in Requests /\ s.state = "enabled"
        /\ answer[t.req] = "active" /\ host[t.req] = m
        /\ RequestOK(log, flight, t.req, "active", m, s, t)
        /\ \A r \in Requests : host[r] = m /\ answer[r] = "active" => r = t.req
    BY <1>1, <1>2, Attempts
  <1>6. /\ MachineOK(log, flight, answer, host, enables, m, s, t)
        /\ enables \in Nat /\ enables <= enables /\ answer \in [Requests -> Answers]
        /\ Good(log, flight, store, task, answer, host, enables)
    BY <1>1, <1>2, Turn DEF Typed
  <1>7. ~t.sent /\ t.pc = "settle" /\ Unlanded(log, flight, t.req)
    BY <1>2, <1>5, NotOpen
  <1>8. AttemptId(t) \in ChangeIds /\ AttemptId(t).req = t.req /\ AttemptId(t).try = t.try
    BY <1>5, CallType
  <1>9. /\ s2 \in Store /\ s2.state = s.state /\ s2.applied = s.applied /\ s2.content = s.content
        /\ s2.keys = s.keys /\ s2.own = s.own /\ s2.author = s.author
        /\ s2.pending = {p \in s.pending : p.id # AttemptId(t)}
    BY <1>3 DEF Store, Forgotten
  <1>10. /\ t2 \in Task /\ t2.pc = "attempt" /\ ~t2.sent /\ t2.holder = t.holder /\ t2.req = t.req
         /\ t2.try = t.try /\ t2.stalled = t.stalled
    BY <1>4, <1>7 DEF Task, Places
  <1>11. Number(s2, t2) = 0 /\ Writing(t2) /\ Working(t2) /\ ~Sending(t2)
    BY <1>5, <1>9, <1>10 DEF Number, Writing, Working, Sending
  <1>12. StoreOK(log, s2)
    BY <1>6, <1>9 DEF MachineOK, StoreOK, Shares
  <1>13. PlanOK(log, flight, enables, m, s2, t2)
    BY <1>5, <1>6, <1>9, <1>10, <1>11 DEF PlanOK
  <1>14. TaskOK(log, m, s2, t2)
    BY <1>5, <1>6, <1>9, <1>10, <1>11 DEF MachineOK, TaskOK, HolderOK, ReadOK, SendOK
  <1>15. ServesOK(log, answer, host, m, s2, t2)
    BY <1>5, <1>6, <1>9, <1>10, <1>11 DEF MachineOK, ServesOK
  <1>16. PendingOK(log, flight, answer, host, m, s2, t2)
    <2>1. PendingOK(log, flight, answer, host, m, s, t)
      BY <1>6 DEF MachineOK
    <2>2. ASSUME NEW p \in s2.pending PROVE RowOK(log, flight, answer, host, m, s2, t2, p)
      <3>1. RowOK(log, flight, answer, host, m, s, t, p) /\ p.id # AttemptId(t)
        BY <1>9, <2>1, <2>2 DEF PendingOK
      <3>2. p.id.req = t.req => p.id.try # t.try
        BY <3>1 DEF RowOK, ChangeIds, AttemptId
      <3> QED  BY <1>5, <1>10, <3>1, <3>2 DEF RowOK
    <2>3. ASSUME NEW i \in 1..Len(log), i > s2.applied, IsChange(log[i]), host[log[i].id.req] = m
          PROVE  Known(s2, log[i])
      <3>1. PICK p \in s.pending : p.id = log[i].id
        BY <1>9, <2>1, <2>3 DEF PendingOK, Known
      <3>2. p.id # AttemptId(t)
        BY <1>7, <1>8, <2>3, <3>1 DEF Unlanded
      <3> QED  BY <1>9, <3>1, <3>2 DEF Known
    <2>4. ASSUME NEW c \in flight, c.expect = Len(log), IsChange(c.entry),
                 host[c.entry.id.req] = m
          PROVE  Known(s2, c.entry)
      <3>1. PICK p \in s.pending : p.id = c.entry.id
        BY <2>1, <2>4 DEF PendingOK, Known
      <3>2. p.id # AttemptId(t)
        BY <1>7, <1>8, <2>4, <3>1 DEF Unlanded
      <3> QED  BY <1>9, <3>1, <3>2 DEF Known
    <2> QED  BY <1>11, <2>2, <2>3, <2>4 DEF PendingOK
  <1>17. MachineOK(log, flight, answer, host, enables, m, s2, t2)
    BY <1>12, <1>13, <1>14, <1>15, <1>16 DEF MachineOK
  <1>18. RequestOK(log, flight, t.req, "active", m, s2, t2)
    <2>1. s.keys \subseteq s2.keys
      BY <1>9
    <2>2. IF Writing(t)
          THEN \/ Unlanded(log, flight, t.req) /\ ~(Sending(t) /\ t.sent)
               \/ Sending(t2) /\ t2.sent /\ s2.applied = s.applied
          ELSE t2.sent = t.sent
      BY <1>5, <1>7
    <2> QED  BY <1>5, <1>10, <2>1, <2>2, RequestGoesOn
  <1>19. \A r \in Requests : host[r] = m /\ "active" \in {answer[r], answer[r]} =>
             RequestOK(log, flight, r, answer[r], m, s2, t2)
    BY <1>5, <1>18
  <1>20. Number(s2, t2) \in {0, Number(store[m], task[m])} /\ store[m].keys \subseteq s2.keys
         /\ Answered(answer, host, m, answer)
    BY <1>1, <1>9, <1>11 DEF Answered
  <1>21. Good(log, flight, [store EXCEPT ![m] = s2], [task EXCEPT ![m] = t2], answer, host, enables)
    BY <1>6, <1>9, <1>10, <1>17, <1>19, <1>20, LocalKeeps
  <1>22. st = [store EXCEPT ![m] = s2] /\ tk = [task EXCEPT ![m] = t2]
    BY <1>1, <1>2, <1>3, <1>4
  <1>23. st[m] = s2 /\ tk[m] = t2
    BY <1>22, Turn DEF Typed
  <1> QED  BY <1>1, <1>2, <1>7, <1>9, <1>10, <1>21, <1>22, <1>23

\* The task of a machine whose pending row went ends.
LEMMA ForgetEnds ==
    ASSUME IInv, NEW m \in Machines, task[m].pc = "settle", ~task[m].sent,
           NEW result \in {"refused", "nothing"}
    PROVE  Good(log, flight, [store EXCEPT ![m] = Forgotten(store[m], AttemptId(task[m]))],
                [task EXCEPT ![m] = Release(m)], ToldOf(answer, task[m], result), host, enables)
  <1>1. PICK st : st = [store EXCEPT ![m] = Forgotten(store[m], AttemptId(task[m]))]
    OBVIOUS
  <1>2. PICK tk : tk = [task EXCEPT ![m] = [task[m] EXCEPT !.pc = "attempt"]]
    OBVIOUS
  <1>3. /\ Good(log, flight, st, tk, answer, host, enables)
        /\ tk[m].pc = "attempt" /\ tk[m].holder = task[m].holder /\ tk[m].req = task[m].req
        /\ ~tk[m].sent
        /\ Unlanded(log, flight, task[m].req)
    BY <1>1, <1>2, ForgetKeeps
  <1>4. PICK t2 \in Task : t2 = Release(m) /\ Idle(t2)
    BY Turn
  <1>5. result \in Lost \cup {"refused", "nothing"}
        /\ (Writing(tk[m]) /\ result \notin Lost => Unlanded(log, flight, tk[m].req))
    BY <1>3
  <1>6. Good(log, flight, st, [tk EXCEPT ![m] = t2], ToldOf(answer, tk[m], result), host, enables)
    BY <1>3, <1>4, <1>5, EndKeeps
  <1>7. [tk EXCEPT ![m] = t2] = [task EXCEPT ![m] = t2]
    BY <1>2, Turn DEF Typed
  <1>8. ToldOf(answer, tk[m], result) = ToldOf(answer, task[m], result)
    <2>1. Writing(task[m])
      BY Attempts
    <2> QED  BY <1>3, <2>1 DEF ToldOf, Writing
  <1> QED  BY <1>1, <1>4, <1>6, <1>7, <1>8

LEMMA NothingToShareStep ==
    ASSUME IInv, NEW m \in Machines, NothingToShare(m)
    PROVE  IInv'
  <1>1. /\ task[m].pc = "settle" /\ ~task[m].sent
        /\ store' = [store EXCEPT ![m] = Forgotten(store[m], AttemptId(task[m]))]
        /\ log' = log /\ flight' = flight /\ host' = host
        /\ enables' = enables /\ broken' = broken /\ faults' = faults
    BY DEF NothingToShare, At, bookkeeping
  <1>2. CASE Fails(m)
    <2>1. task' = [task EXCEPT ![m] = Release(m)] /\ answer' = ToldOf(answer, task[m], "refused")
      BY <1>2, ToldIs DEF Fails
    <2>2. Good(log, flight, [store EXCEPT ![m] = Forgotten(store[m], AttemptId(task[m]))],
               [task EXCEPT ![m] = Release(m)], ToldOf(answer, task[m], "refused"), host, enables)
      BY <1>1, ForgetEnds
    <2> QED  BY <1>1, <2>1, <2>2 DEF IInv
  <1>3. CASE Succeeds(m, "nothing", store[m].applied) /\ store[m].author
    <2>1. task' = [task EXCEPT ![m] = Release(m)] /\ answer' = ToldOf(answer, task[m], "nothing")
      BY <1>3, ToldIs DEF Succeeds
    <2>2. Good(log, flight, [store EXCEPT ![m] = Forgotten(store[m], AttemptId(task[m]))],
               [task EXCEPT ![m] = Release(m)], ToldOf(answer, task[m], "nothing"), host, enables)
      BY <1>1, ForgetEnds
    <2> QED  BY <1>1, <2>1, <2>2 DEF IInv
  <1>4. CASE Succeeds(m, "nothing", store[m].applied) /\ ~store[m].author
    <2>1. PICK st : st = [store EXCEPT ![m] = Forgotten(store[m], AttemptId(task[m]))]
      OBVIOUS
    <2>2. PICK tk : tk = [task EXCEPT ![m] = [task[m] EXCEPT !.pc = "attempt"]]
      OBVIOUS
    <2>3. /\ Good(log, flight, st, tk, answer, host, enables)
          /\ tk[m].pc = "attempt" /\ tk[m].req = task[m].req /\ tk[m].stalled = task[m].stalled
          /\ tk[m].holder = task[m].holder
          /\ st[m].applied = store[m].applied /\ st[m].state = store[m].state
          /\ Unlanded(log, flight, task[m].req)
      BY <1>1, <2>1, <2>2, ForgetKeeps
    <2>4. PICK s \in Store : s = st[m]
      BY <2>3 DEF Good, Typed
    <2>5. PICK t \in Task : t = tk[m]
      BY <2>3 DEF Good, Typed
    <2>6. PICK t2 : t2 = [Reading(m, "readback", task[m].req, 0) EXCEPT
                             !.after = store[m].applied, !.sent = FALSE]
      OBVIOUS
    <2>7. /\ t2 \in Task /\ t2.holder = "readback" /\ t2.req = t.req /\ t2.pc = "read"
          /\ t2.after = s.applied /\ ~t2.sent /\ t2.stalled = t.stalled
      <3>1. task[m].req \in Requests /\ 0 \in 0..Retries /\ "readback" \in Holders
        BY <1>1, Attempts, ConstantsAssumption DEF Holders
      <3>2. store[m] \in Store /\ task[m] \in Task /\ store[m].applied \in Nat
        BY Turn DEF Store
      <3>3. PICK t1 : t1 = Reading(m, "readback", task[m].req, 0)
        OBVIOUS
      <3>4. t1 = ReadingOf(store[m], task[m], "readback", task[m].req, 0)
        BY <3>3 DEF Reading, ReadingOf
      <3>5. /\ t1 \in Task /\ t1.holder = "readback" /\ t1.req = task[m].req /\ t1.pc = "read"
            /\ t1.stalled = task[m].stalled
        BY <3>1, <3>2, <3>4, ReadingIs
      <3>6. t2 = [t1 EXCEPT !.after = store[m].applied, !.sent = FALSE]
        BY <2>6, <3>3
      <3> QED  BY <2>3, <2>4, <2>5, <3>2, <3>5, <3>6 DEF Task
    <2>8. task' = [task EXCEPT ![m] = t2] /\ answer' = answer
      BY <1>4, <2>6 DEF Succeeds
    <2>9. /\ MachineOK(log, flight, answer, host, enables, m, s, t) /\ HolderOK(s, t)
          /\ log \in Seq(Entry) /\ enables \in Nat /\ enables <= enables
          /\ answer \in [Requests -> Answers]
      BY <2>3, <2>4, <2>5 DEF Good, Typed, MachineOK, TaskOK
    <2>10. /\ s.state = "enabled" /\ Writing(t) /\ Working(t) /\ t.req \in Requests /\ ~Sending(t)
           /\ answer[t.req] = "active" /\ host[t.req] = m /\ Unlanded(log, flight, t.req)
      BY <1>1, <2>3, <2>4, <2>5, Attempts DEF Writing, Working, Sending
    <2>11. ~Writing(t2) /\ ~Sending(t2)
      BY <2>7 DEF Writing, Sending
    <2>12. ServesOK(log, answer, host, m, s, t2)
      BY <2>7, <2>10, <2>11 DEF ServesOK
    <2>13. PendingOK(log, flight, answer, host, m, s, t2)
      BY <2>9, <2>11 DEF MachineOK, PendingOK, RowOK
    <2>14. MachineOK(log, flight, answer, host, enables, m, s, t2) /\ Number(s, t2) = 0
      <3>1. StoreOK(log, s) /\ s.state # "enabling" /\ s.state # "disabled" /\ t2.holder # "free"
            /\ t2.stalled # "apply" /\ t2.req \in Requests
        BY <2>7, <2>9, <2>10 DEF MachineOK, HolderOK
      <3> QED  BY <2>7, <2>9, <2>10, <2>12, <2>13, <3>1, MachineReads
    <2>15. ASSUME NEW r \in Requests, host[r] = m, "active" \in {answer[r], answer[r]}
           PROVE  RequestOK(log, flight, r, answer[r], m, s, t2)
      <3>1. answer[r] = "active" /\ RequestOK(log, flight, r, "active", m, s, t)
        BY <2>3, <2>4, <2>5, <2>15 DEF Good
      <3>2. r = t.req
        BY <3>1 DEF RequestOK
      <3> QED  BY <2>7, <2>10, <3>1, <3>2, RequestReadsBack
    <2>16. Number(s, t2) \in {0, Number(st[m], tk[m])} /\ st[m].keys \subseteq s.keys
           /\ Answered(answer, host, m, answer)
      BY <2>4, <2>14 DEF Answered
    <2>17. Good(log, flight, [st EXCEPT ![m] = s], [tk EXCEPT ![m] = t2], answer, host, enables)
      BY <2>3, <2>7, <2>9, <2>14, <2>15, <2>16, LocalKeeps
    <2>18. [st EXCEPT ![m] = s] = st /\ [tk EXCEPT ![m] = t2] = [task EXCEPT ![m] = t2]
      BY <2>1, <2>2, <2>4, Turn DEF Typed
    <2> QED  BY <1>1, <2>1, <2>8, <2>17, <2>18 DEF IInv
  <1> QED  BY <1>2, <1>3, <1>4 DEF NothingToShare

\* The lock holder may have sent its append: the attempt is marked as sent.
LEMMA MarkSent ==
    ASSUME IInv, NEW m \in Machines, task[m].pc = "settle",
           NEW tk, tk = [task EXCEPT ![m] = [task[m] EXCEPT !.sent = TRUE]]
    PROVE  /\ Good(log, flight, store, tk, answer, host, enables)
           /\ Sending(tk[m]) /\ tk[m].sent /\ tk[m].pc = "settle" /\ tk[m].req = task[m].req
           /\ CallOf(m, store[m], tk[m]) = Call(m)
           /\ Call(m).expect = store[m].applied /\ Call(m).entry.id = AttemptId(task[m])
  <1>1. PICK s \in Store : s = store[m]
    BY Turn
  <1>2. PICK t \in Task : t = task[m]
    BY Turn
  <1>3. PICK t2 : t2 = [t EXCEPT !.sent = TRUE]
    OBVIOUS
  <1>4. /\ Writing(t) /\ Working(t) /\ t.req \in Requests /\ s.state = "enabled"
        /\ RequestOK(log, flight, t.req, "active", m, s, t)
        /\ \A r \in Requests : host[r] = m /\ answer[r] = "active" => r = t.req
    BY <1>1, <1>2, Attempts
  <1>5. /\ MachineOK(log, flight, answer, host, enables, m, s, t)
        /\ enables \in Nat /\ enables <= enables /\ answer \in [Requests -> Answers]
        /\ Good(log, flight, store, task, answer, host, enables)
        /\ [store EXCEPT ![m] = s] = store
    BY <1>1, <1>2, Turn DEF Typed
  <1>6. /\ t2 \in Task /\ t2.pc = "settle" /\ t.pc = "settle" /\ t2.sent /\ t2.holder = t.holder
        /\ t2.req = t.req /\ t2.try = t.try /\ t2.stalled = t.stalled
    BY <1>2, <1>3 DEF Task
  <1>7. Number(s, t2) = 0 /\ Writing(t2) /\ Working(t2) /\ Sending(t2) /\ Sending(t)
        /\ AttemptId(t2) = AttemptId(t)
    BY <1>4, <1>6 DEF Number, Writing, Working, Sending, AttemptId
  <1>8. PlanOK(log, flight, enables, m, s, t2)
    BY <1>4, <1>5, <1>6, <1>7 DEF PlanOK
  <1>9. TaskOK(log, m, s, t2)
    BY <1>4, <1>5, <1>6, <1>7 DEF MachineOK, TaskOK, HolderOK, ReadOK, SendOK
  <1>10. ServesOK(log, answer, host, m, s, t2)
    BY <1>4, <1>5, <1>6, <1>7 DEF MachineOK, ServesOK
  <1>11. PendingOK(log, flight, answer, host, m, s, t2)
    <2>1. PendingOK(log, flight, answer, host, m, s, t)
      BY <1>5 DEF MachineOK
    <2>2. ASSUME NEW p \in s.pending PROVE RowOK(log, flight, answer, host, m, s, t2, p)
      <3>1. RowOK(log, flight, answer, host, m, s, t, p)
        BY <2>1 DEF PendingOK
      <3> QED  BY <1>4, <1>6, <1>7, <3>1 DEF RowOK
    <2> QED  BY <1>7, <2>1, <2>2 DEF PendingOK
  <1>12. MachineOK(log, flight, answer, host, enables, m, s, t2)
    BY <1>5, <1>8, <1>9, <1>10, <1>11 DEF MachineOK
  <1>13. RequestOK(log, flight, t.req, "active", m, s, t2)
    <2>1. IF Writing(t)
          THEN \/ Unlanded(log, flight, t.req) /\ ~(Sending(t) /\ t.sent)
               \/ Sending(t2) /\ t2.sent /\ s.applied = s.applied
          ELSE t2.sent = t.sent
      BY <1>4, <1>6, <1>7
    <2>2. s.keys \subseteq s.keys
      OBVIOUS
    <2> QED  BY <1>4, <1>6, <2>1, <2>2, RequestGoesOn
  <1>14. \A r \in Requests : host[r] = m /\ "active" \in {answer[r], answer[r]} =>
             RequestOK(log, flight, r, answer[r], m, s, t2)
    BY <1>4, <1>13
  <1>15. Number(s, t2) \in {0, Number(store[m], task[m])} /\ store[m].keys \subseteq s.keys
         /\ Answered(answer, host, m, answer)
    BY <1>1, <1>7 DEF Answered
  <1>16. Good(log, flight, [store EXCEPT ![m] = s], [task EXCEPT ![m] = t2], answer, host, enables)
    BY <1>5, <1>6, <1>12, <1>14, <1>15, LocalKeeps
  <1>17. tk = [task EXCEPT ![m] = t2] /\ tk[m] = t2
    BY <1>2, <1>3, Turn DEF Typed
  <1>18. CallOf(m, s, t2) = Call(m) /\ Call(m).expect = s.applied /\ Call(m).entry.id = AttemptId(t)
    BY <1>1, <1>2, <1>6, <1>7 DEF CallOf, Call
  <1> QED  BY <1>1, <1>2, <1>5, <1>6, <1>7, <1>16, <1>17, <1>18

LEMMA SettleUnansweredStep ==
    ASSUME IInv, NEW m \in Machines, SettleUnanswered(m)
    PROVE  IInv'
  <1>1. PICK tk : tk = [task EXCEPT ![m] = [task[m] EXCEPT !.sent = TRUE]]
    OBVIOUS
  <1>2. /\ task[m].pc = "settle" /\ flight' = flight \cup {Call(m)}
        /\ log' = log /\ store' = store /\ answer' = answer /\ host' = host
        /\ enables' = enables /\ broken' = broken /\ faults' = faults + 1
    BY DEF SettleUnanswered, At, Fault, requests, bookkeeping
  <1>3. task' = tk
    BY <1>1 DEF SettleUnanswered
  <1>4. Good(log, flight, store, tk, answer, host, enables) /\ Sending(tk[m]) /\ tk[m].sent
        /\ CallOf(m, store[m], tk[m]) = Call(m)
    BY <1>1, <1>2, MarkSent
  <1>5. Good(log, flight \cup {CallOf(m, store[m], tk[m])}, store, tk, answer, host, enables)
    BY <1>4, SendCallKeeps
  <1> QED  BY <1>2, <1>3, <1>4, <1>5 DEF IInv

LEMMA SettleExpiresStep ==
    ASSUME IInv, NEW m \in Machines, SettleExpires(m)
    PROVE  IInv'
  <1>1. /\ task[m].pc = "settle" /\ task' = [task EXCEPT ![m] = Release(m)]
        /\ answer' = ToldOf(answer, task[m], ExpiredAnswer(m))
        /\ log' = log /\ flight' = flight /\ host' = host
        /\ enables' = enables /\ broken' = broken /\ faults' = faults + 1
    BY ToldIs DEF SettleExpires, At, Fault, bookkeeping
  <1>2. CASE task[m].sent
    <2>1. store' = store /\ ExpiredAnswer(m) = "unknown"
      BY <1>2 DEF SettleExpires, KeepsPending, ExpiredAnswer
    <2>2. PICK t2 \in Task : t2 = Release(m) /\ Idle(t2)
      BY Turn
    <2>3. Good(log, flight, store, task, answer, host, enables)
          /\ "unknown" \in Lost \cup {"refused", "nothing"} /\ "unknown" \in Lost
      BY DEF IInv, Lost
    <2>4. Good(log, flight, store, [task EXCEPT ![m] = t2], ToldOf(answer, task[m], "unknown"),
               host, enables)
      BY <2>2, <2>3, EndKeeps
    <2> QED  BY <1>1, <2>1, <2>2, <2>4 DEF IInv
  <1>3. CASE ~task[m].sent
    <2>1. store' = [store EXCEPT ![m] = Forgotten(store[m], AttemptId(task[m]))]
          /\ ExpiredAnswer(m) = "refused"
      BY <1>3 DEF SettleExpires, KeepsPending, ExpiredAnswer
    <2>2. Good(log, flight, [store EXCEPT ![m] = Forgotten(store[m], AttemptId(task[m]))],
               [task EXCEPT ![m] = Release(m)], ToldOf(answer, task[m], "refused"), host, enables)
      BY <1>1, <1>3, ForgetEnds
    <2> QED  BY <1>1, <2>1, <2>2 DEF IInv
  <1> QED  BY <1>2, <1>3

\* An attempt that meets another entry has no entry, and gets none.
LEMMA MovedUnlanded ==
    ASSUME IInv, NEW m \in Machines, task[m].pc = "settle", HeadMoved(Call(m))
    PROVE  Unlanded(log, flight, task[m].req)
  <1>1. PICK s \in Store : s = store[m]
    BY Turn
  <1>2. PICK t \in Task : t = task[m]
    BY Turn
  <1>3. Writing(t) /\ RequestOK(log, flight, t.req, "active", m, s, t)
    BY <1>1, <1>2, Attempts
  <1>4. (\A i \in 1..Len(log) : log[i].id # AttemptId(t)) /\ Len(log) # s.applied
    BY <1>1, <1>2 DEF HeadMoved, Logged, Call
  <1>5. ASSUME NEW i \in 1..Len(log), IsChange(log[i]), log[i].id.req = t.req PROVE FALSE
    <2>1. Present(m, s, t, log[i], i - 1)
      BY <1>3, <1>5 DEF RequestOK, OpenOK
    <2>2. log[i].id = AttemptId(t)
      BY <2>1 DEF Present, CallOf
    <2> QED  BY <1>4, <2>2
  <1>6. ASSUME NEW c \in flight, IsChange(c.entry), c.expect = Len(log), c.entry.id.req = t.req
        PROVE  FALSE
    <2>1. Present(m, s, t, c.entry, c.expect)
      BY <1>3, <1>6 DEF RequestOK, OpenOK
    <2>2. c.expect = s.applied
      BY <2>1 DEF Present, CallOf
    <2> QED  BY <1>4, <1>6, <2>2
  <1> QED  BY <1>2, <1>5, <1>6 DEF Unlanded

LEMMA SettleHeadMovedStep ==
    ASSUME IInv, NEW m \in Machines, SettleHeadMoved(m)
    PROVE  IInv'
  <1>1. /\ task[m].pc = "settle" /\ HeadMoved(Call(m))
        /\ log' = log /\ flight' = flight /\ store' = store /\ host' = host
        /\ enables' = enables /\ broken' = broken /\ faults' = faults
    BY DEF SettleHeadMoved, At, bookkeeping, HeadMoved
  <1>2. PICK s \in Store : s = store[m]
    BY Turn
  <1>3. PICK t \in Task : t = task[m]
    BY Turn
  <1>4. Unlanded(log, flight, t.req)
    BY <1>1, <1>3, MovedUnlanded
  <1>5. /\ Writing(t) /\ Working(t) /\ t.req \in Requests /\ s.state = "enabled"
        /\ answer[t.req] = "active" /\ host[t.req] = m /\ KeyOf[t.req] \notin s.keys
        /\ RequestOK(log, flight, t.req, "active", m, s, t)
        /\ \A r \in Requests : host[r] = m /\ answer[r] = "active" => r = t.req
    BY <1>1, <1>2, <1>3, Attempts
  <1>6. /\ MachineOK(log, flight, answer, host, enables, m, s, t) /\ HolderOK(s, t)
        /\ FlightOK(log, flight) /\ log \in Seq(Entry) /\ enables \in Nat
        /\ Good(log, flight, store, task, answer, host, enables)
        /\ [store EXCEPT ![m] = s] = store
    BY <1>2, <1>3, Turn DEF Good, Typed
  <1>7. CASE RetriesUsed(task[m])
    <2>1. PICK t2 \in Task : t2 = Release(m) /\ Idle(t2)
      BY Turn
    <2>2. task' = [task EXCEPT ![m] = t2] /\ answer' = ToldOf(answer, t, "refused")
      BY <1>3, <1>7, <2>1, ToldIs DEF SettleHeadMoved, Fails
    <2>3. Good(log, flight, store, [task EXCEPT ![m] = t2], ToldOf(answer, t, "refused"), host, enables)
      BY <1>3, <1>4, <1>6, <2>1, EndKeeps
    <2> QED  BY <1>1, <2>2, <2>3 DEF IInv
  <1>8. CASE ~RetriesUsed(task[m])
    <2>1. PICK n : n = t.try + 1
      OBVIOUS
    <2>2. n \in 0..Retries /\ t.try \in Nat
      BY <1>3, <1>8, <2>1, ConstantsAssumption DEF RetriesUsed, Task
    <2>3. PICK t2 : t2 = Reading(m, "write", t.req, n)
      OBVIOUS
    <2>4. /\ t2 \in Task /\ t2.holder = "write" /\ t2.req = t.req /\ t2.pc = "read" /\ t2.try = n
          /\ t2.after = s.applied /\ ~t2.sent /\ t2.stalled = t.stalled
      <3>1. "write" \in Holders /\ t.req \in Requests \cup {NoRequest}
        BY <1>5 DEF Holders
      <3>2. t2 = ReadingOf(s, t, "write", t.req, n)
        BY <1>2, <1>3, <2>3 DEF Reading, ReadingOf
      <3> QED  BY <2>2, <3>1, <3>2, ReadingIs
    <2>5. task' = [task EXCEPT ![m] = t2] /\ answer' = answer
      BY <1>3, <1>8, <2>1, <2>3 DEF SettleHeadMoved
    <2>6. Writing(t2) /\ ~Sending(t2)
      BY <2>4 DEF Writing, Sending
    <2>7. ServesOK(log, answer, host, m, s, t2)
      BY <1>5, <2>4, <2>6 DEF ServesOK
    <2>8. PendingOK(log, flight, answer, host, m, s, t2)
      <3>1. PendingOK(log, flight, answer, host, m, s, t)
        BY <1>6 DEF MachineOK
      <3>2. ASSUME NEW p \in s.pending PROVE RowOK(log, flight, answer, host, m, s, t2, p)
        <4>1. RowOK(log, flight, answer, host, m, s, t, p)
          BY <3>1 DEF PendingOK
        <4>2. p.id.try \in Nat
          BY <4>1, ConstantsAssumption DEF RowOK, ChangeIds
        <4>3. p.id.req = t.req => p.id.try < n
          BY <1>5, <2>1, <2>2, <4>1, <4>2 DEF RowOK
        <4> QED  BY <2>4, <4>1, <4>3 DEF RowOK
      <3> QED  BY <2>6, <3>1, <3>2 DEF PendingOK
    <2>9. MachineOK(log, flight, answer, host, enables, m, s, t2) /\ Number(s, t2) = 0
      <3>1. StoreOK(log, s) /\ s.state # "enabling" /\ s.state # "disabled" /\ t2.holder # "free"
            /\ t2.stalled # "apply" /\ t2.req \in Requests
        BY <1>5, <1>6, <2>4 DEF MachineOK, HolderOK
      <3> QED  BY <1>5, <1>6, <2>4, <2>7, <2>8, <3>1, MachineReads
    <2>10. RequestOK(log, flight, t.req, "active", m, s, t2)
      BY <1>4, <1>5, <1>6, <2>1, <2>4, <2>6, RequestRetries
    <2>11. \A r \in Requests : host[r] = m /\ answer[r] = "active" =>
               RequestOK(log, flight, r, "active", m, s, t2)
      BY <1>5, <2>10
    <2>12. store' = [store EXCEPT ![m] = s]
      BY <1>1, <1>6
    <2>13. /\ log' = log /\ flight' = flight /\ answer' = answer /\ host' = host
           /\ enables' = enables /\ broken' = broken /\ faults' \in Nat
      BY <1>1, <2>5 DEF IInv
    <2>14. Number(s, t2) \in {0, Number(store[m], task[m])} /\ store[m].keys \subseteq s.keys
      BY <1>2, <2>9
    <2>15. MachineOK(log, flight, answer, host, enables, m, s, t2)
      BY <2>9
    <2> QED  BY <2>4, <2>5, <2>11, <2>12, <2>13, <2>14, <2>15, LocalStep
  <1> QED  BY <1>7, <1>8

\* The entry of an attempt that is in the log is the one it sent, at the
\* position that it expected.
LEMMA AttemptLanded ==
    ASSUME NEW l, NEW f, NEW an, NEW ho, NEW m, NEW s \in Store, NEW t \in Task,
           LogOK(l), l \in Seq(Entry), PendingOK(l, f, an, ho, m, s, t), Sending(t), Writing(t),
           t.req \in Requests, RequestOK(l, f, t.req, "active", m, s, t),
           NEW i \in 1..Len(l), l[i].id = AttemptId(t)
    PROVE  s.applied < Len(l) /\ l[s.applied + 1] = CallOf(m, s, t).entry
  <1>1. AttemptId(t) \in ChangeIds /\ AttemptId(t).req = t.req
    BY DEF AttemptId, ChangeIds, Task
  <1>2. IsChange(l[i])
    <2>1. Follows(l, l[i], i - 1) /\ l[i] \in Entry
      BY ElementOfSeq DEF LogOK
    <2>2. ASSUME l[i].kind = "snapshot" PROVE FALSE
      <3>1. l[i].id \in PartIds
        BY <2>1, <2>2 DEF Follows, PartFollows
      <3>2. PICK plan \in Nat, part \in 1..Parts : l[i].id = PartId(plan, part)
        BY <3>1 DEF PartIds, PartId
      <3> QED  BY <1>1, <3>2, IdsDiffer
    <2> QED  BY <2>1, <2>2 DEF Entry, IsChange
  <1>3. Present(m, s, t, l[i], i - 1)
    BY <1>1, <1>2 DEF RequestOK, OpenOK
  <1>4. l[i] = CallOf(m, s, t).entry /\ i - 1 = s.applied
    BY <1>3 DEF Present, CallOf
  <1>5. s.applied \in Nat /\ Len(l) \in Nat
    BY LenProperties DEF Store
  <1> QED  BY <1>4, <1>5

LEMMA SettleCommitStep ==
    ASSUME IInv, NEW m \in Machines, SettleCommit(m)
    PROVE  IInv'
  <1>1. PICK tk : tk = [task EXCEPT ![m] = [task[m] EXCEPT !.sent = TRUE]]
    OBVIOUS
  <1>2. /\ task[m].pc = "settle" /\ Landed(Call(m))
        /\ flight' = flight /\ store' = store /\ answer' = answer /\ host' = host
        /\ enables' = enables /\ broken' = broken /\ faults' = faults
    BY DEF SettleCommit, At, requests, bookkeeping
  <1>3. PICK s \in Store : s = store[m]
    BY Turn
  <1>4. PICK c : c = Call(m)
    OBVIOUS
  <1>5. /\ Good(log, flight, store, tk, answer, host, enables)
        /\ Sending(tk[m]) /\ tk[m].sent /\ tk[m].req = task[m].req
        /\ CallOf(m, store[m], tk[m]) = c /\ c.expect = s.applied
    BY <1>1, <1>2, <1>3, <1>4, MarkSent
  <1>6. PICK t \in Task : t = tk[m]
    BY <1>5 DEF Good, Typed
  <1>7. c.entry.id = AttemptId(t) /\ CallOf(m, s, t) = c
    BY <1>3, <1>5, <1>6 DEF CallOf
  <1>8. Typed(log, flight, store, tk, answer, host, enables) /\ log \in Seq(Entry) /\ Len(log) \in Nat
    BY <1>5, Turn DEF Good, Typed
  <1>9. PICK l : l = log'
    OBVIOUS
  <1>10. /\ Good(l, flight, store, tk, answer, host, enables)
         /\ \E i \in 1..Len(l) : l[i].id = AttemptId(t)
    <2>1. CASE Logged(c.entry.id)
      <3>1. l = log
        BY <1>2, <1>4, <1>9, <2>1 DEF Landed
      <3> QED  BY <1>5, <1>7, <2>1, <3>1 DEF Logged
    <2>2. CASE ~Logged(c.entry.id)
      <3>1. Len(log) = c.expect /\ l = Append(log, c.entry)
        BY <1>2, <1>4, <1>9, <2>2 DEF Landed
      <3>2. \A i \in 1..Len(log) : log[i].id # c.entry.id
        BY <2>2 DEF Logged
      <3>3. PICK g : g = flight \cup {c}
        OBVIOUS
      <3>4. Good(log, g, store, tk, answer, host, enables)
        BY <1>5, <3>3, SendCallKeeps
      <3>5. c \in g /\ flight \in SUBSET g
        BY <3>3
      <3>6. Good(l, g, store, tk, answer, host, enables)
        BY <3>1, <3>2, <3>4, <3>5, LandKeeps
      <3>7. Good(l, flight, store, tk, answer, host, enables)
        BY <3>5, <3>6, LoseKeeps
      <3>8. c.entry \in Entry
        BY <3>4, <3>5 DEF Good, Typed, AppendCall
      <3>9. Len(l) = Len(log) + 1 /\ l[Len(log) + 1] = c.entry
        BY <1>8, <3>1, <3>8, Appended
      <3>10. Len(log) + 1 \in 1..Len(l)
        BY <1>8, <3>9
      <3> QED  BY <1>7, <3>7, <3>9, <3>10
    <2> QED  BY <2>1, <2>2
  <1>11. PICK i \in 1..Len(l) : l[i].id = AttemptId(t)
    BY <1>10
  <1>12. /\ MachineOK(l, flight, answer, host, enables, m, s, t) /\ LogOK(l) /\ l \in Seq(Entry)
         /\ enables \in Nat /\ enables <= enables /\ answer \in [Requests -> Answers]
         /\ \A r \in Requests : host[r] = m => RequestOK(l, flight, r, answer[r], m, s, t)
    BY <1>3, <1>6, <1>10, Turn DEF Good, Typed
  <1>13. /\ Writing(t) /\ Working(t) /\ t.req \in Requests /\ s.state = "enabled" /\ Sending(t)
         /\ answer[t.req] = "active" /\ host[t.req] = m /\ t.sent
    BY <1>5, <1>6, <1>12 DEF MachineOK, TaskOK, HolderOK, ServesOK, Sending, Writing, Working
  <1>14. RequestOK(l, flight, t.req, "active", m, s, t)
    BY <1>12, <1>13
  <1>15. s.applied < Len(l) /\ l[s.applied + 1] = CallOf(m, s, t).entry
    BY <1>11, <1>12, <1>13, <1>14, AttemptLanded DEF MachineOK
  <1>16. PICK t2 : t2 = [t EXCEPT !.pc = "commit"]
    OBVIOUS
  <1>17. /\ t2 \in Task /\ t2.pc = "commit" /\ t2.sent /\ t2.holder = t.holder
         /\ t2.req = t.req /\ t2.try = t.try /\ t2.stalled = t.stalled
    BY <1>13, <1>16 DEF Task, Places
  <1>18. Number(s, t2) = 0 /\ Writing(t2) /\ Working(t2) /\ Sending(t2)
         /\ AttemptId(t2) = AttemptId(t) /\ CallOf(m, s, t2) = CallOf(m, s, t)
    BY <1>13, <1>17 DEF Number, Writing, Working, Sending, AttemptId, CallOf
  <1>19. PlanOK(l, flight, enables, m, s, t2)
    BY <1>12, <1>13, <1>17, <1>18 DEF PlanOK
  <1>20. TaskOK(l, m, s, t2)
    BY <1>12, <1>13, <1>15, <1>17, <1>18 DEF MachineOK, TaskOK, HolderOK, ReadOK, SendOK
  <1>21. ServesOK(l, answer, host, m, s, t2)
    BY <1>12, <1>13, <1>17, <1>18 DEF MachineOK, ServesOK
  <1>22. PendingOK(l, flight, answer, host, m, s, t2)
    <2>1. PendingOK(l, flight, answer, host, m, s, t)
      BY <1>12 DEF MachineOK
    <2>2. ASSUME NEW p \in s.pending PROVE RowOK(l, flight, answer, host, m, s, t2, p)
      <3>1. RowOK(l, flight, answer, host, m, s, t, p)
        BY <2>1 DEF PendingOK
      <3> QED  BY <1>13, <1>17, <1>18, <3>1 DEF RowOK
    <2> QED  BY <1>13, <1>18, <2>1, <2>2 DEF PendingOK
  <1>23. MachineOK(l, flight, answer, host, enables, m, s, t2)
    BY <1>12, <1>19, <1>20, <1>21, <1>22 DEF MachineOK
  <1>24. RequestOK(l, flight, t.req, "active", m, s, t2)
    <2>1. IF Writing(t)
          THEN \/ Unlanded(l, flight, t.req) /\ ~(Sending(t) /\ t.sent)
               \/ Sending(t2) /\ t2.sent /\ s.applied = s.applied
          ELSE t2.sent = t.sent
      BY <1>13, <1>17, <1>18
    <2>2. s.keys \subseteq s.keys
      OBVIOUS
    <2> QED  BY <1>14, <1>17, <2>1, <2>2, RequestGoesOn
  <1>25. ASSUME NEW r \in Requests, host[r] = m, "active" \in {answer[r], answer[r]}
         PROVE  RequestOK(l, flight, r, answer[r], m, s, t2)
    <2>1. r = t.req
      BY <1>12, <1>25 DEF RequestOK
    <2> QED  BY <1>13, <1>24, <2>1
  <1>26. Number(s, t2) \in {0, Number(store[m], tk[m])} /\ store[m].keys \subseteq s.keys
         /\ Answered(answer, host, m, answer)
    BY <1>3, <1>18 DEF Answered
  <1>27. Good(l, flight, [store EXCEPT ![m] = s], [tk EXCEPT ![m] = t2], answer, host, enables)
    BY <1>10, <1>12, <1>17, <1>23, <1>25, <1>26, LocalKeeps
  <1>28. [store EXCEPT ![m] = s] = store /\ task' = [tk EXCEPT ![m] = t2]
    <2>1. task \in [Machines -> Task]
      BY Turn DEF Typed
    <2>2. task' = [task EXCEPT ![m] = [task[m] EXCEPT !.pc = "commit", !.sent = TRUE]]
      BY DEF SettleCommit
    <2>3. t2 = [task[m] EXCEPT !.pc = "commit", !.sent = TRUE]
      <3>1. t = [task[m] EXCEPT !.sent = TRUE]
        BY <1>1, <1>6, <2>1
      <3> QED  BY <1>16, <2>1, <3>1 DEF Task
    <2> QED  BY <1>1, <1>3, <2>1, <2>2, <2>3, Turn
  <1> QED  BY <1>2, <1>9, <1>27, <1>28 DEF IInv

-----------------------------------------------------------------------------
(* The actions: the commit of a shared write *)

\* The store after the commit of the write that its lock holder works for.
CommitOf(s, t, n) ==
    [s EXCEPT !.applied = n, !.seen = Max2(@, n), !.content = Append(@, KeyOf[t.req]),
              !.keys = @ \cup {KeyOf[t.req]}, !.own = @ \cup {AttemptId(t)},
              !.pending = StillPending(s, n)]

CommitsAs(s, t, n, s2) == n = s.applied + 1 /\ s2 = CommitOf(s, t, n)
ReadsBack(m, n, t2) ==
    t2 = [Reading(m, "readback", task[m].req, 0) EXCEPT !.after = n, !.sent = TRUE]

\* The entry of the write is the next one, and the tables with it are the log's.
LEMMA Committed ==
    ASSUME IInv, NEW m \in Machines, task[m].pc = "commit",
           NEW s \in Store, s = store[m], NEW t \in Task, t = task[m],
           NEW n \in Nat, NEW s2, CommitsAs(s, t, n, s2)
    PROVE  /\ s2 \in Store /\ s2.state = "enabled" /\ s2.applied = n /\ s2.author = s.author
           /\ s.keys \subseteq s2.keys /\ KeyOf[t.req] \in s2.keys
           /\ s2.pending = StillPending(s, n)
           /\ StoreOK(log, s2)
           /\ n <= Len(log) /\ n > 0 /\ log[n] = CallOf(m, s, t).entry
  <1>1. /\ t.req \in Requests /\ s.state = "enabled" /\ t.pc = "commit"
        /\ MachineOK(log, flight, answer, host, enables, m, s, t)
        /\ LogOK(log) /\ log \in Seq(Entry) /\ Len(log) \in Nat
    BY Attempts, Turn DEF Good, Typed
  <1>0. n = s.applied + 1
    BY DEF CommitsAs
  <1>2. s.applied \in Nat /\ n > 0 /\ n - 1 = s.applied
    BY <1>0 DEF Store
  <1>3. n <= Len(log) /\ log[n] = CallOf(m, s, t).entry
    <2>1. s.applied < Len(log) /\ log[s.applied + 1] = CallOf(m, s, t).entry
      BY <1>1 DEF MachineOK, TaskOK, SendOK
    <2> QED  BY <1>0, <1>1, <1>2, <2>1
  <1>4. PICK e : e = log[n]
    OBVIOUS
  <1>5. /\ e.kind = "change" /\ e.data = <<KeyOf[t.req]>> /\ e.id = AttemptId(t)
        /\ AttemptId(t) \in ChangeIds
    <2>1. AttemptId(t) \in ChangeIds
      BY <1>1, CallType
    <2> QED  BY <1>3, <1>4, <2>1 DEF CallOf
  <1>6. PICK seen \in Nat : seen = Max2(s.seen, n)
    BY DEF Max2, Store
  <1>7. PICK content : content = Append(s.content, KeyOf[t.req])
    OBVIOUS
  <1>8. content \in Seq(Keys)
    <2>1. KeyOf[t.req] \in Keys /\ s.content \in Seq(Keys)
      BY <1>1 DEF Keys, Store
    <2> QED  BY <1>7, <2>1, AppendProperties
  <1>9. PICK pending \in SUBSET PendingEntry : pending = StillPending(s, n)
    BY DEF StillPending, Store
  <1>10. s2 = [s EXCEPT !.applied = n, !.seen = seen, !.content = content,
                        !.keys = s.keys \cup {KeyOf[t.req]}, !.own = s.own \cup {AttemptId(t)},
                        !.pending = pending]
    BY <1>6, <1>7, <1>9 DEF CommitsAs, CommitOf
  <1>11. AttemptId(t) \in EntryIds /\ KeyOf[t.req] \in Keys
    BY <1>1, <1>5 DEF EntryIds, ChangeIds, Keys
  <1>12. /\ s2 \in Store /\ s2.state = s.state /\ s2.applied = n /\ s2.author = s.author
         /\ s2.keys = s.keys \cup {KeyOf[t.req]} /\ s2.own = s.own \cup {AttemptId(t)}
         /\ s2.pending = pending /\ s2.content = content
    BY <1>8, <1>10, <1>11 DEF Store
  <1>13. StoreOK(log, s2)
    <2>1. StoreOK(log, s)
      BY <1>1 DEF MachineOK
    <2>2. Edge(log, n)
      BY <1>4, <1>5 DEF Edge
    <2>3. content = Image(log)[n]
      <3>1. Image(log)[n] = Step(log, Image(log), n)
        BY <1>1, <1>2, <1>3, ImageStep
      <3>2. ~Completes(log[n]) /\ IsChange(log[n]) /\ n # 0
        BY <1>2, <1>4, <1>5 DEF Completes, IsChange
      <3>3. Image(log)[n] = Append(Image(log)[s.applied], Head(log[n].data))
        BY <1>2, <3>1, <3>2 DEF Step
      <3>4. s.content = Image(log)[s.applied]
        BY <1>1, <2>1 DEF StoreOK, Shares
      <3>5. Head(e.data) = KeyOf[t.req]
        BY <1>5
      <3> QED  BY <1>4, <1>7, <3>3, <3>4, <3>5
    <2>4. ASSUME NEW id \in s2.own PROVE \E i \in 1..n : log[i].id = id
      <3>1. CASE id = AttemptId(t)
        <4>1. n \in 1..n
          BY <1>2
        <4> QED  BY <1>4, <1>5, <3>1, <4>1
      <3>2. CASE id \in s.own
        <4>1. PICK i \in 1..s.applied : log[i].id = id
          BY <2>1, <3>2 DEF StoreOK
        <4>2. i \in 1..n
          BY <1>2, <4>1
        <4> QED  BY <4>1, <4>2
      <3> QED  BY <1>12, <3>1, <3>2
    <2> QED  BY <1>1, <1>2, <1>3, <1>12, <2>2, <2>3, <2>4 DEF StoreOK, Shares
  <1> QED  BY <1>1, <1>2, <1>3, <1>9, <1>12, <1>13

\* After the commit the write only has its author to learn.
LEMMA CommitReads ==
    ASSUME IInv, NEW m \in Machines, task[m].pc = "commit",
           NEW n \in Nat, NEW s2, CommitsAs(store[m], task[m], n, s2),
           NEW t2, ReadsBack(m, n, t2)
    PROVE  /\ Good(log, flight, [store EXCEPT ![m] = s2], [task EXCEPT ![m] = t2], answer,
                   host, enables)
           /\ t2.holder = "readback" /\ t2.sent /\ t2.req = task[m].req
  <1>1. PICK s \in Store : s = store[m]
    BY Turn
  <1>2. PICK t \in Task : t = task[m]
    BY Turn
  <1>3. /\ s2 \in Store /\ s2.state = "enabled" /\ s2.applied = n
        /\ s.keys \subseteq s2.keys /\ KeyOf[t.req] \in s2.keys
        /\ s2.pending = StillPending(s, n) /\ StoreOK(log, s2)
        /\ n <= Len(log) /\ n > 0 /\ log[n] = CallOf(m, s, t).entry
    <2>1. CommitsAs(s, t, n, s2)
      BY <1>1, <1>2
    <2> QED  BY <1>1, <1>2, <2>1, Committed
  <1>4. /\ Writing(t) /\ Working(t) /\ t.req \in Requests
        /\ answer[t.req] = "active" /\ host[t.req] = m
        /\ RequestOK(log, flight, t.req, "active", m, s, t)
        /\ \A r \in Requests : host[r] = m /\ answer[r] = "active" => r = t.req
    BY <1>1, <1>2, Attempts
  <1>5. /\ MachineOK(log, flight, answer, host, enables, m, s, t) /\ HolderOK(s, t)
        /\ log \in Seq(Entry) /\ Len(log) \in Nat /\ FlightOK(log, flight)
        /\ enables \in Nat /\ enables <= enables /\ answer \in [Requests -> Answers]
        /\ Good(log, flight, store, task, answer, host, enables)
    BY <1>1, <1>2, Turn DEF Good, Typed
  <1>6. /\ t2 \in Task /\ t2.holder = "readback" /\ t2.req = t.req /\ t2.pc = "read"
        /\ t2.after = n /\ t2.sent /\ t2.stalled = t.stalled
    <2>1. "readback" \in Holders /\ t.req \in Requests \cup {NoRequest} /\ 0 \in 0..Retries
      BY <1>4, ConstantsAssumption DEF Holders
    <2>2. PICK t1 : t1 = Reading(m, "readback", t.req, 0)
      OBVIOUS
    <2>3. t1 = ReadingOf(s, t, "readback", t.req, 0)
      BY <1>1, <1>2, <2>2 DEF Reading, ReadingOf
    <2>4. /\ t1 \in Task /\ t1.holder = "readback" /\ t1.req = t.req /\ t1.pc = "read"
          /\ t1.stalled = t.stalled
      BY <2>1, <2>3, ReadingIs
    <2>5. t2 = [t1 EXCEPT !.after = n, !.sent = TRUE]
      BY <1>2, <2>2 DEF ReadsBack
    <2> QED  BY <2>4, <2>5 DEF Task
  <1>7. ~Writing(t2) /\ Working(t2) /\ ~Sending(t2)
    BY <1>6 DEF Writing, Working, Sending
  <1>8. ServesOK(log, answer, host, m, s2, t2)
    <2>1. IsChange(log[n]) /\ log[n].id.req = t.req /\ n \in 1..s2.applied
      BY <1>3, <1>4 DEF CallOf, AttemptId, IsChange
    <2> QED  BY <1>4, <1>6, <1>7, <2>1 DEF ServesOK
  <1>9. PendingOK(log, flight, answer, host, m, s2, t2)
    <2>1. PendingOK(log, flight, answer, host, m, s, t)
      BY <1>5 DEF MachineOK
    <2>2. s2.pending = {p \in s.pending : p.expect >= n} /\ s.applied \in Nat /\ n = s.applied + 1
      BY <1>1, <1>3 DEF StillPending, Store, CommitsAs
    <2>3. ASSUME NEW p \in s2.pending PROVE RowOK(log, flight, answer, host, m, s2, t2, p)
      <3>1. RowOK(log, flight, answer, host, m, s, t, p)
        BY <2>1, <2>2, <2>3 DEF PendingOK
      <3> QED  BY <1>7, <3>1 DEF RowOK
    <2>4. ASSUME NEW i \in 1..Len(log), i > s2.applied, IsChange(log[i]), host[log[i].id.req] = m
          PROVE  Known(s2, log[i])
      <3>1. i > s.applied
        BY <1>3, <2>2, <2>4
      <3>2. PICK p \in s.pending : p.id = log[i].id
        BY <2>1, <2>4, <3>1 DEF PendingOK, Known
      <3>3. i = p.expect + 1 /\ p.expect \in Nat
        BY <2>1, <2>4, <3>2 DEF PendingOK, RowOK, Store, PendingEntry
      <3>4. p.expect >= n
        BY <1>3, <2>4, <3>3
      <3> QED  BY <2>2, <3>2, <3>4 DEF Known
    <2>5. ASSUME NEW c \in flight, c.expect = Len(log), IsChange(c.entry), host[c.entry.id.req] = m
          PROVE  Known(s2, c.entry)
      <3>1. PICK p \in s.pending : p.id = c.entry.id
        BY <2>1, <2>5 DEF PendingOK, Known
      <3>2. c.expect = p.expect
        BY <2>1, <2>5, <3>1 DEF PendingOK, RowOK
      <3>3. p.expect >= n
        BY <1>3, <1>5, <2>5, <3>2
      <3> QED  BY <2>2, <3>1, <3>3 DEF Known
    <2> QED  BY <1>7, <2>3, <2>4, <2>5 DEF PendingOK
  <1>10. MachineOK(log, flight, answer, host, enables, m, s2, t2) /\ Number(s2, t2) = 0
    <2>1. /\ s2.state # "enabling" /\ s2.state # "disabled" /\ t2.holder # "free"
          /\ t2.stalled # "apply" /\ t2.req \in Requests /\ t2.after = s2.applied
      BY <1>3, <1>4, <1>5, <1>6 DEF HolderOK
    <2> QED  BY <1>3, <1>5, <1>6, <1>8, <1>9, <2>1, MachineReads
  <1>11. ASSUME NEW r \in Requests, host[r] = m, "active" \in {answer[r], answer[r]}
         PROVE  RequestOK(log, flight, r, answer[r], m, s2, t2)
    <2>1. r = t.req
      BY <1>4, <1>11
    <2> QED  BY <1>3, <1>4, <1>6, <2>1, RequestReadsBack
  <1>12. Number(s2, t2) \in {0, Number(store[m], task[m])} /\ store[m].keys \subseteq s2.keys
         /\ Answered(answer, host, m, answer)
    BY <1>1, <1>3, <1>10 DEF Answered
  <1>13. Good(log, flight, [store EXCEPT ![m] = s2], [task EXCEPT ![m] = t2], answer, host, enables)
    BY <1>3, <1>5, <1>6, <1>10, <1>11, <1>12, LocalKeeps
  <1> QED  BY <1>2, <1>6, <1>13

LEMMA CommitStep ==
    ASSUME IInv, NEW m \in Machines, Commit(m)
    PROVE  IInv'
  <1>1. PICK n \in Nat : n = store[m].applied + 1
    BY Turn DEF Store
  <1>2. PICK s2 : s2 = CommitOf(store[m], task[m], n)
    OBVIOUS
  <1>3. PICK t2 : t2 = [Reading(m, "readback", task[m].req, 0) EXCEPT !.after = n, !.sent = TRUE]
    OBVIOUS
  <1>4. /\ task[m].pc = "commit" /\ store' = [store EXCEPT ![m] = s2]
        /\ Succeeds(m, "ok", n)
        /\ log' = log /\ flight' = flight /\ host' = host
        /\ enables' = enables /\ broken' = broken /\ faults' = faults
    BY <1>1, <1>2 DEF Commit, At, CommitOf, bookkeeping
  <1>5. PICK st : st = [store EXCEPT ![m] = s2]
    OBVIOUS
  <1>6. PICK tk : tk = [task EXCEPT ![m] = t2]
    OBVIOUS
  <1>7. /\ Good(log, flight, st, tk, answer, host, enables)
        /\ t2.holder = "readback" /\ t2.sent /\ t2.req = task[m].req
    <2>1. CommitsAs(store[m], task[m], n, s2) /\ ReadsBack(m, n, t2)
      BY <1>1, <1>2, <1>3 DEF CommitsAs, ReadsBack
    <2> QED  BY <1>4, <1>5, <1>6, <2>1, CommitReads
  <1>8. CASE store[m].author
    <2>1. task' = [task EXCEPT ![m] = Release(m)] /\ answer' = ToldOf(answer, task[m], "ok")
      BY <1>4, <1>8, ToldIs DEF Succeeds
    <2>2. PICK t3 \in Task : t3 = Release(m) /\ Idle(t3)
      BY Turn
    <2>3. "refused" \in Lost \cup {"refused", "nothing"} /\ tk[m] = t2 /\ ~Writing(t2)
      BY <1>6, <1>7, Turn DEF Typed, Writing
    <2>4. Good(log, flight, st, [tk EXCEPT ![m] = t3], ToldOf(answer, t2, "refused"), host, enables)
      BY <1>7, <2>2, <2>3, EndKeeps
    <2>5. ToldOf(answer, t2, "refused") = ToldOf(answer, task[m], "ok")
      <3>1. task[m].holder = "write"
        BY <1>4, Attempts DEF Writing
      <3> QED  BY <1>7, <3>1 DEF ToldOf
    <2>6. [tk EXCEPT ![m] = t3] = [task EXCEPT ![m] = t3]
      BY <1>6, Turn DEF Typed
    <2> QED  BY <1>4, <1>5, <2>1, <2>2, <2>4, <2>5, <2>6 DEF IInv
  <1>9. CASE ~store[m].author
    <2>1. task' = tk /\ answer' = answer
      BY <1>3, <1>4, <1>6, <1>9 DEF Succeeds
    <2> QED  BY <1>4, <1>5, <1>7, <2>1 DEF IInv
  <1> QED  BY <1>8, <1>9

-----------------------------------------------------------------------------
(* The actions: enabling *)

\* A step of a machine that works for no request, before it or after it.
LEMMA EnableKeeps ==
    ASSUME NEW l, NEW f, NEW st, NEW tk, NEW an, NEW ho, NEW en,
           Good(l, f, st, tk, an, ho, en), NEW m \in Machines, ~Working(tk[m]),
           NEW s2 \in Store, NEW t2 \in Task, ~Working(t2), ~Sending(t2),
           StoreOK(l, s2), PlanOK(l, f, en, m, s2, t2), TaskOK(l, m, s2, t2),
           s2.pending = st[m].pending, s2.keys = st[m].keys, st[m].applied <= s2.applied,
           Number(s2, t2) \in {0, Number(st[m], tk[m])}
    PROVE  Good(l, f, [st EXCEPT ![m] = s2], [tk EXCEPT ![m] = t2], an, ho, en)
  <1>1. PICK s \in Store : s = st[m]
    BY DEF Good, Typed
  <1>2. PICK t \in Task : t = tk[m]
    BY DEF Good, Typed
  <1>3. /\ MachineOK(l, f, an, ho, en, m, s, t) /\ ~Working(t)
        /\ an \in [Requests -> Answers] /\ en \in Nat /\ en <= en
        /\ l \in Seq(Entry) /\ Len(l) \in Nat
    BY <1>1, <1>2, LenProperties DEF Good, Typed
  <1>4. ServesOK(l, an, ho, m, s2, t2)
    BY DEF ServesOK
  <1>5. PendingOK(l, f, an, ho, m, s2, t2)
    <2>1. PendingOK(l, f, an, ho, m, s, t) /\ s2.pending = s.pending
      BY <1>1, <1>3 DEF MachineOK
    <2>2. ~Writing(t2)
      BY DEF Writing, Working
    <2>3. ASSUME NEW p \in s2.pending PROVE RowOK(l, f, an, ho, m, s2, t2, p)
      <3>1. RowOK(l, f, an, ho, m, s, t, p)
        BY <2>1, <2>3 DEF PendingOK
      <3> QED  BY <2>2, <3>1 DEF RowOK
    <2>4. ASSUME NEW i \in 1..Len(l), i > s2.applied, IsChange(l[i]), ho[l[i].id.req] = m
          PROVE  Known(s2, l[i])
      <3>1. s.applied \in Nat /\ s2.applied \in Nat /\ s.applied <= s2.applied
        BY <1>1 DEF Store
      <3>2. i > s.applied
        BY <1>3, <2>4, <3>1
      <3>3. Known(s, l[i])
        BY <2>1, <2>4, <3>2 DEF PendingOK
      <3> QED  BY <2>1, <3>3 DEF Known
    <2>5. ASSUME NEW c \in f, c.expect = Len(l), IsChange(c.entry), ho[c.entry.id.req] = m
          PROVE  Known(s2, c.entry)
      <3>1. Known(s, c.entry)
        BY <2>1, <2>5 DEF PendingOK
      <3> QED  BY <2>1, <3>1 DEF Known
    <2> QED  BY <2>3, <2>4, <2>5 DEF PendingOK
  <1>6. MachineOK(l, f, an, ho, en, m, s2, t2)
    BY <1>4, <1>5 DEF MachineOK
  <1>7. ASSUME NEW r \in Requests, ho[r] = m, "active" \in {an[r], an[r]}
        PROVE  RequestOK(l, f, r, an[r], m, s2, t2)
    <2>1. RequestOK(l, f, r, an[r], m, s, t) /\ an[r] = "active"
      BY <1>1, <1>2, <1>7 DEF Good
    <2> QED  BY <1>3, <2>1 DEF RequestOK
  <1>8. Answered(an, ho, m, an) /\ st[m].keys \subseteq s2.keys
    BY DEF Answered
  <1>9. Number(s2, t2) \in {0, Number(st[m], tk[m])} \/ Number(s2, t2) > en
    OBVIOUS
  <1> QED  BY <1>3, <1>6, <1>7, <1>8, <1>9, LocalKeeps

\* An enabling machine holds the shared lock for no request.
LEMMA Enabling ==
    ASSUME NEW l, NEW f, NEW st, NEW tk, NEW an, NEW ho, NEW en,
           Good(l, f, st, tk, an, ho, en), NEW m \in Machines,
           tk[m].pc \in {"head", "resume", "parts"}
    PROVE  /\ ~Working(tk[m]) /\ ~Writing(tk[m]) /\ ~Sending(tk[m]) /\ tk[m].holder # "free"
           /\ tk[m].stalled # "apply" /\ st[m] \in Store /\ tk[m] \in Task
           /\ tk[m].pc = "head" => st[m].state = "disabled"
           /\ tk[m].pc # "head" => st[m].state = "enabling"
           /\ MachineOK(l, f, an, ho, en, m, st[m], tk[m])
           /\ st[m].applied \in Nat /\ (st[m].state = "enabling" => st[m].applied = 0)
           /\ LogOK(l) /\ l \in Seq(Entry) /\ Len(l) \in Nat
  <1>1. PICK s \in Store : s = st[m]
    BY DEF Good, Typed
  <1>2. PICK t \in Task : t = tk[m]
    BY DEF Good, Typed
  <1>3. MachineOK(l, f, an, ho, en, m, s, t) /\ HolderOK(s, t) /\ StoreOK(l, s)
    BY <1>1, <1>2 DEF Good, MachineOK, TaskOK
  <1>4. ~Working(t) /\ ~Writing(t) /\ ~Sending(t) /\ t.holder # "free" /\ t.stalled # "apply"
        /\ (t.pc = "head" => s.state = "disabled") /\ (t.pc # "head" => s.state = "enabling")
    BY <1>2, <1>3 DEF HolderOK, Working, Writing, Sending
  <1>5. s.applied \in Nat /\ (s.state = "enabling" => s.applied = 0)
    <2>1. s.applied \in Nat
      BY DEF Store
    <2>2. s.state = "enabling" => ~(s.applied > 0)
      BY <1>3 DEF StoreOK, Shares
    <2> QED  BY <2>1, <2>2
  <1>6. LogOK(l) /\ l \in Seq(Entry) /\ Len(l) \in Nat
    BY LenProperties DEF Good, Typed
  <1> QED  BY <1>1, <1>2, <1>3, <1>4, <1>5, <1>6

\* The task ends ...
LEMMA EnableStops ==
    ASSUME NEW l, NEW f, NEW st, NEW tk, NEW an, NEW ho, NEW en,
           Good(l, f, st, tk, an, ho, en), NEW m \in Machines,
           tk[m].pc \in {"head", "resume", "parts"}, NEW t2 \in Task, Idle(t2)
    PROVE  Good(l, f, st, [tk EXCEPT ![m] = t2], an, ho, en)
  <1>1. ~Working(tk[m]) /\ ~Writing(tk[m])
    BY Enabling
  <1>2. ToldOf(an, tk[m], "refused") = an
    BY <1>1 DEF ToldOf, Working, Writing
  <1>3. "refused" \in Lost \cup {"refused", "nothing"}
        /\ (Writing(tk[m]) /\ "refused" \notin Lost => Unlanded(l, f, tk[m].req))
    BY <1>1
  <1>4. Good(l, f, st, [tk EXCEPT ![m] = t2], ToldOf(an, tk[m], "refused"), ho, en)
    BY <1>3, EndKeeps
  <1> QED  BY <1>2, <1>4

\* ... and the plan may be given up with it.
LEMMA AbandonKeeps ==
    ASSUME NEW l, NEW f, NEW st, NEW tk, NEW an, NEW ho, NEW en,
           Good(l, f, st, tk, an, ho, en), NEW m \in Machines,
           tk[m].pc \in {"resume", "parts"}, NEW t2 \in Task, Idle(t2)
    PROVE  Good(l, f, [st EXCEPT ![m] = Abandoned(st[m])], [tk EXCEPT ![m] = t2], an, ho, en)
  <1>1. PICK s \in Store : s = st[m]
    BY DEF Good, Typed
  <1>2. PICK s2 : s2 = Abandoned(s)
    OBVIOUS
  <1>3. /\ ~Working(tk[m]) /\ s.state = "enabling" /\ s.applied = 0
        /\ MachineOK(l, f, an, ho, en, m, s, tk[m])
    BY <1>1, Enabling
  <1>4. /\ s2 \in Store /\ s2.state = "disabled" /\ s2.applied = s.applied
        /\ s2.own = s.own /\ s2.pending = s.pending /\ s2.keys = s.keys
    <2>1. s2 \in Store
      BY <1>2, StoreType
    <2> QED  BY <1>2, <2>1 DEF Store, Abandoned
  <1>5. ~Working(t2) /\ ~Sending(t2) /\ Number(s2, t2) = 0
    BY <1>4 DEF Working, Sending, Number, Idle
  <1>6. StoreOK(l, s2)
    BY <1>3, <1>4 DEF MachineOK, StoreOK, Shares
  <1>7. en \in Nat
    BY DEF Good, Typed
  <1>8. PlanOK(l, f, en, m, s2, t2)
    BY <1>4, <1>5, <1>7 DEF PlanOK, Idle
  <1>9. TaskOK(l, m, s2, t2)
    BY <1>4, <1>5 DEF TaskOK, HolderOK, ReadOK, SendOK, Idle, Working, Writing
  <1>10. /\ s2.pending = st[m].pending /\ s2.keys = st[m].keys /\ st[m].applied <= s2.applied
         /\ Number(s2, t2) \in {0, Number(st[m], tk[m])}
    BY <1>1, <1>3, <1>4, <1>5
  <1>11. Good(l, f, [st EXCEPT ![m] = s2], [tk EXCEPT ![m] = t2], an, ho, en)
    BY <1>3, <1>4, <1>5, <1>6, <1>8, <1>9, <1>10, EnableKeeps
  <1> QED  BY <1>1, <1>2, <1>11

LEMMA EnableHeadStep ==
    ASSUME IInv, NEW m \in Machines, EnableHead(m)
    PROVE  IInv'
  <1>1. PICK s \in Store : s = store[m]
    BY Turn
  <1>2. PICK t \in Task : t = task[m]
    BY Turn
  <1>3. PICK base \in Nat : base = Len(log)
    BY Turn
  <1>4. PICK joins \in BOOLEAN : joins = (base > 0 /\ s.content = <<>>)
    OBVIOUS
  <1>5. PICK planned \in BOOLEAN : planned = (~joins /\ (base > 0 => OwnPrefix(m)))
    OBVIOUS
  <1>6. /\ t.pc = "head"
        /\ store' = IF planned THEN [store EXCEPT ![m] = Planned(s, t.after, base)] ELSE store
        /\ task' = [task EXCEPT ![m] =
               CASE joins -> Reading(m, "operator", NoRequest, 0)
                 [] planned -> [t EXCEPT !.pc = "resume", !.after = 0]
                 [] OTHER -> Release(m)]
        /\ log' = log /\ flight' = flight /\ answer' = answer /\ host' = host
        /\ enables' = enables /\ broken' = broken /\ faults' = faults
    BY <1>1, <1>2, <1>3, <1>4, <1>5 DEF EnableHead, At, requests, bookkeeping
  <1>7. /\ ~Working(t) /\ ~Sending(t) /\ t.holder # "free" /\ t.stalled # "apply"
        /\ s.state = "disabled" /\ s.applied \in Nat
        /\ MachineOK(log, flight, answer, host, enables, m, s, t)
        /\ LogOK(log) /\ log \in Seq(Entry) /\ enables \in Nat
        /\ Good(log, flight, store, task, answer, host, enables)
        /\ [store EXCEPT ![m] = s] = store
    <2>1. Good(log, flight, store, task, answer, host, enables) /\ task[m].pc \in {"head", "resume", "parts"}
      BY <1>2, <1>6 DEF IInv
    <2> QED  BY <1>1, <1>2, <1>6, <2>1, Turn, Enabling
  <1>8. StoreOK(log, s) /\ PlanOK(log, flight, enables, m, s, t)
    BY <1>7 DEF MachineOK
  <1>9. CASE joins
    <2>1. PICK t2 : t2 = Reading(m, "operator", NoRequest, 0)
      OBVIOUS
    <2>2. /\ t2 \in Task /\ t2.holder = "operator" /\ t2.pc = "read"
          /\ t2.after = s.applied /\ t2.stalled = t.stalled
      <3>1. "operator" \in Holders /\ NoRequest \in Requests \cup {NoRequest} /\ 0 \in 0..Retries
        BY ConstantsAssumption DEF Holders
      <3>2. t2 = ReadingOf(s, t, "operator", NoRequest, 0)
        BY <1>1, <1>2, <2>1 DEF Reading, ReadingOf
      <3> QED  BY <3>1, <3>2, ReadingIs
    <2>3. ~Working(t2) /\ ~Sending(t2) /\ Number(s, t2) = 0
      BY <1>7, <2>2 DEF Working, Sending, Number
    <2>4. PlanOK(log, flight, enables, m, s, t2)
      BY <1>7, <2>2, <2>3 DEF PlanOK
    <2>5. TaskOK(log, m, s, t2)
      <3>1. HolderOK(s, t2)
        BY <1>7, <2>2 DEF HolderOK, Working, Writing
      <3>2. s.applied + 1..t2.after = {} /\ s.applied <= t2.after /\ t2.after <= Len(log)
        BY <1>7, <1>8, <2>2 DEF StoreOK
      <3>3. ReadOK(log, s, t2)
        BY <1>4, <1>7, <1>9, <2>2, <3>2 DEF ReadOK
      <3> QED  BY <2>2, <3>1, <3>3 DEF TaskOK, SendOK
    <2>6. /\ s.pending = store[m].pending /\ s.keys = store[m].keys /\ store[m].applied <= s.applied
          /\ Number(s, t2) \in {0, Number(store[m], task[m])} /\ ~Working(task[m])
      BY <1>1, <1>2, <1>7, <2>3
    <2>7. Good(log, flight, [store EXCEPT ![m] = s], [task EXCEPT ![m] = t2], answer, host, enables)
      BY <1>7, <1>8, <2>2, <2>3, <2>4, <2>5, <2>6, EnableKeeps
    <2>8. task' = [task EXCEPT ![m] = t2] /\ store' = store
      BY <1>5, <1>6, <1>9, <2>1
    <2> QED  BY <1>6, <1>7, <2>7, <2>8 DEF IInv
  <1>10. CASE planned
    <2>1. PICK number \in Nat : number = t.after
      BY DEF Task
    <2>2. PICK s2 : s2 = Planned(s, number, base)
      OBVIOUS
    <2>3. PICK t2 : t2 = [t EXCEPT !.pc = "resume", !.after = 0]
      OBVIOUS
    <2>4. store' = [store EXCEPT ![m] = s2] /\ task' = [task EXCEPT ![m] = t2]
      BY <1>5, <1>6, <1>10, <2>1, <2>2, <2>3
    <2>5. /\ s2 \in Store /\ s2.state = "enabling" /\ s2.plan = number /\ s2.base = base
          /\ s2.saved = s.content /\ s2.content = s.content /\ s2.applied = s.applied
          /\ s2.own = s.own /\ s2.pending = s.pending /\ s2.keys = s.keys
      <3>1. s2 \in Store
        BY <2>2, StoreType
      <3> QED  BY <2>2, <3>1 DEF Store, Planned
    <2>6. /\ t2 \in Task /\ t2.pc = "resume" /\ t2.holder = t.holder /\ t2.stalled = t.stalled
      BY <2>3 DEF Task, Places
    <2>7. ~Working(t2) /\ ~Sending(t2) /\ Number(s2, t2) = number /\ Number(s, t) = number
      BY <1>6, <1>7, <2>1, <2>5, <2>6 DEF Working, Sending, Number
    <2>8. number > 0 /\ number <= enables /\ Unused(log, flight, number)
      BY <1>6, <1>8, <2>1, <2>7 DEF PlanOK
    <2>9. StoreOK(log, s2)
      BY <1>7, <1>8, <2>5 DEF StoreOK, Shares
    <2>10. PlanOK(log, flight, enables, m, s2, t2)
      <3>1. Edge(log, base) /\ \A i \in 1..base : log[i].author = m
        <4>1. CASE base = 0
          BY <4>1 DEF Edge
        <4>2. CASE base > 0
          <5>1. OwnPrefix(m)
            <6>1. planned => (base > 0 => OwnPrefix(m))
              BY <1>5, Zenon
            <6> QED  BY <1>10, <4>2, <6>1
          <5>2. base \in 1..Len(log)
            BY <1>3, <4>2
          <5>3. log[base] \in Entry
            BY <1>7, <5>2, ElementOfSeq
          <5>4. log[base].kind \in {"change", "snapshot"}
            BY <5>3 DEF Entry
          <5> QED  BY <1>3, <5>1, <5>2, <5>4 DEF OwnPrefix, WholeSnapshots, Edge
        <4> QED  BY <4>1, <4>2
      <3>2. SavedOK(log, flight, m, s2)
        BY <1>3, <2>5, <2>8, <3>1 DEF SavedOK, Unused
      <3> QED  BY <2>5, <2>6, <2>7, <2>8, <3>2 DEF PlanOK
    <2>11. TaskOK(log, m, s2, t2)
      BY <1>7, <2>5, <2>6, <2>7 DEF TaskOK, HolderOK, ReadOK, SendOK, Working, Writing
    <2>12. /\ s2.pending = store[m].pending /\ s2.keys = store[m].keys
           /\ store[m].applied <= s2.applied
           /\ Number(s2, t2) \in {0, Number(store[m], task[m])} /\ ~Working(task[m])
      BY <1>1, <1>2, <1>7, <2>5, <2>7
    <2>13. Good(log, flight, [store EXCEPT ![m] = s2], [task EXCEPT ![m] = t2], answer, host, enables)
      BY <1>7, <2>5, <2>6, <2>7, <2>9, <2>10, <2>11, <2>12, EnableKeeps
    <2> QED  BY <1>6, <2>4, <2>13 DEF IInv
  <1>11. CASE ~joins /\ ~planned
    <2>1. PICK t2 \in Task : t2 = Release(m) /\ Idle(t2)
      BY Turn
    <2>2. task[m].pc \in {"head", "resume", "parts"}
      BY <1>2, <1>6
    <2>3. Good(log, flight, store, [task EXCEPT ![m] = t2], answer, host, enables)
      BY <1>7, <2>1, <2>2, EnableStops
    <2>4. task' = [task EXCEPT ![m] = t2] /\ store' = store
      BY <1>6, <1>11, <2>1
    <2> QED  BY <1>6, <2>3, <2>4 DEF IInv
  <1> QED  BY <1>9, <1>10, <1>11

\* The parts of a plan that are in the log are its own, each at its place ...
LEMMA PartPlaced ==
    ASSUME NEW l, NEW f, NEW m, NEW s \in Store, LogOK(l), l \in Seq(Entry), SavedOK(l, f, m, s),
           NEW i \in 1..Parts, NEW j \in 1..Len(l), l[j].id = PartId(s.plan, i)
    PROVE  j = s.base + i /\ l[j] = PartOf(m, s, i).entry
  <1>1. l[j] \in Entry /\ Follows(l, l[j], j - 1)
    BY ElementOfSeq DEF LogOK
  <1>2. l[j].kind = "snapshot"
    <2>1. ASSUME l[j].kind = "change" PROVE FALSE
      <3>1. l[j].id \in ChangeIds
        BY <1>1, <2>1 DEF Follows, ChangeFollows
      <3> QED  BY <3>1, IdsDiffer
    <2> QED  BY <1>1, <2>1 DEF Entry
  <1>3. l[j].id.plan = s.plan /\ l[j].id.part = i
    BY DEF PartId
  <1>4. l[j] = PartOf(m, s, i).entry
    BY <1>2, <1>3 DEF SavedOK, OfPlan
  <1>5. l[j].through = s.base
    BY <1>4 DEF PartOf
  <1>6. (j - 1) + 1 = s.base + i
    BY <1>1, <1>2, <1>3, <1>5 DEF Follows, PartFollows
  <1> QED  BY <1>4, <1>6

\* ... and what follows one that is not the last is the next.
LEMMA NextIsPart ==
    ASSUME NEW l, NEW f, NEW m, NEW s \in Store, LogOK(l), l \in Seq(Entry), SavedOK(l, f, m, s),
           NEW k \in 1..Parts, k < Parts, s.base + k < Len(l),
           l[s.base + k] = PartOf(m, s, k).entry
    PROVE  l[s.base + k + 1].id = PartId(s.plan, k + 1)
  <1>1. PICK n \in Nat : n = s.base + k
    BY ConstantsAssumption DEF Store
  <1>2. PICK e : e = l[n + 1]
    OBVIOUS
  <1>3. /\ s.base \in Nat /\ k \in Nat /\ Parts \in Nat /\ Len(l) \in Nat /\ n > s.base /\ n # 0
        /\ n + 1 \in 1..Len(l) /\ n \in 1..n
    BY <1>1, LenProperties, ConstantsAssumption DEF Store
  <1>4. e \in Entry /\ Follows(l, e, n)
    <2>1. e \in Entry /\ Follows(l, e, (n + 1) - 1)
      BY <1>2, <1>3, ElementOfSeq DEF LogOK
    <2> QED  BY <1>3, <2>1
  <1>5. /\ l[n].kind = "snapshot" /\ l[n].id = PartId(s.plan, k) /\ l[n].through = s.base
        /\ l[n].id.plan = s.plan /\ l[n].id.part = k
    BY <1>1 DEF PartOf, PartId
  <1>6. ~Edge(l, n)
    BY <1>3, <1>5 DEF Edge, Completes
  <1>7. e.kind = "snapshot"
    BY <1>4, <1>6 DEF Entry, Follows, ChangeFollows
  <1>8. PartFollows(l, e, n)
    BY <1>4, <1>7 DEF Follows
  <1>9. e.id \in PartIds /\ n + 1 = e.through + e.id.part /\ e.id.part \in Nat /\ e.id.part >= 1
        /\ e.through \in Nat /\ Edge(l, e.through)
    BY <1>4, <1>8, ConstantsAssumption DEF PartFollows, PartIds, Entry
  <1>10. e.through < n
    BY <1>3, <1>6, <1>9
  <1>11. l[n] = [e EXCEPT !.id = PartId(e.id.plan, n - e.through)]
    BY <1>3, <1>8, <1>10 DEF PartFollows
  <1>12. l[n].through = e.through /\ l[n].id = PartId(e.id.plan, n - e.through)
    BY <1>4, <1>11 DEF Entry
  <1>13. e.through = s.base /\ e.id.plan = s.plan
    BY <1>5, <1>12 DEF PartId
  <1>14. e.id.part = k + 1
    BY <1>1, <1>3, <1>9, <1>13
  <1>15. e.id = PartId(s.plan, k + 1)
    BY <1>9, <1>13, <1>14 DEF PartIds, PartId
  <1> QED  BY <1>1, <1>2, <1>15

\* What the log confirms of a plan: its first k parts, and then nothing, or an
\* entry that is not its next part.
HasParts(l, s, k) == \A i \in 1..k : s.base + i <= Len(l) /\ l[s.base + i].id = PartId(s.plan, i)
Leads(l, s, k) ==
    /\ HasParts(l, s, k)
    /\ k < Parts /\ s.base + k < Len(l) => l[s.base + k + 1].id # PartId(s.plan, k + 1)

LEMMA ConfirmedLeads ==
    ASSUME NEW m, store[m] \in Store, Len(log) \in Nat
    PROVE  Confirmed(m) \in 0..Parts /\ Leads(log, store[m], Confirmed(m))
  <1>1. PICK s \in Store : s = store[m]
    OBVIOUS
  <1>2. Parts \in Nat /\ s.base \in Nat
    BY ConstantsAssumption DEF Store
  <1> DEFINE Stop == {k \in 0..Parts : k = Parts \/ ~HasParts(log, s, k + 1)}
  <1>3. PICK k \in Stop : \A j \in Stop : k <= j
    <2>1. Stop \in SUBSET Nat /\ Parts \in Stop
      BY <1>2
    <2>2. Stop # {}
      BY <2>1
    <2> HIDE DEF Stop
    <2> QED  BY <2>1, <2>2, LeastExists
  <1>4. k \in 0..Parts /\ (k = Parts \/ ~HasParts(log, s, k + 1))
    BY <1>3
  <1>5. HasParts(log, s, k)
    <2>1. CASE k = 0
      BY <2>1 DEF HasParts
    <2>2. CASE k # 0
      <3>1. PICK j \in 0..Parts : j + 1 = k /\ j # Parts
        <4>1. k - 1 \in 0..Parts /\ (k - 1) + 1 = k /\ k - 1 # Parts
          BY <1>2, <1>4, <2>2
        <4> QED  BY <4>1
      <3>2. ~(k <= j)
        BY <3>1
      <3>3. j \notin Stop
        BY <1>3, <3>2
      <3>4. HasParts(log, s, j + 1)
        BY <3>1, <3>3
      <3> QED  BY <3>1, <3>4
    <2> QED  BY <2>1, <2>2
  <1>6. Leads(log, s, k)
    <2>1. SUFFICES ASSUME k < Parts, s.base + k < Len(log),
                          log[s.base + k + 1].id = PartId(s.plan, k + 1)
                   PROVE  FALSE
      BY <1>5 DEF Leads
    <2>2. ~HasParts(log, s, k + 1)
      BY <1>2, <1>4, <2>1
    <2>3. PICK i \in 1..(k + 1) : ~(s.base + i <= Len(log) /\ log[s.base + i].id = PartId(s.plan, i))
      BY <2>2 DEF HasParts
    <2>4. CASE i \in 1..k
      BY <1>5, <2>3, <2>4 DEF HasParts
    <2>5. CASE i = k + 1
      <3>1. s.base + i = s.base + k + 1 /\ s.base + i <= Len(log)
        BY <1>2, <1>4, <2>1, <2>5
      <3> QED  BY <2>1, <2>3, <2>5, <3>1
    <2> QED  BY <1>4, <2>3, <2>4, <2>5
  <1>7. Confirmed(m) = CHOOSE c \in 0..Parts : Leads(log, s, c)
    BY <1>1 DEF Confirmed, Leads, HasParts, PartCall, PartId
  <1>8. \E c \in 0..Parts : Leads(log, s, c)
    BY <1>4, <1>6
  <1> QED  BY <1>1, <1>7, <1>8

\* The parts of an enabling machine that are in the log.
PartsIn(l, m, s, k) ==
    /\ k <= Parts /\ s.base + k <= Len(l)
    /\ \A i \in 1..k : l[s.base + i] = PartOf(m, s, i).entry

\* An enabling machine goes on with as many parts as the log holds.
LEMMA PartsKeep ==
    ASSUME NEW l, NEW f, NEW st, NEW tk, NEW an, NEW ho, NEW en,
           Good(l, f, st, tk, an, ho, en), NEW m \in Machines,
           tk[m].pc \in {"resume", "parts"}, NEW k \in Nat, PartsIn(l, m, st[m], k),
           NEW t2, t2 = [tk[m] EXCEPT !.pc = "parts", !.after = k]
    PROVE  Good(l, f, st, [tk EXCEPT ![m] = t2], an, ho, en)
  <1>1. PICK s \in Store : s = st[m]
    BY DEF Good, Typed
  <1>2. PICK t \in Task : t = tk[m]
    BY DEF Good, Typed
  <1>3. /\ t.pc \in {"resume", "parts"} /\ PartsIn(l, m, s, k)
        /\ t2 = [t EXCEPT !.pc = "parts", !.after = k]
    BY <1>1, <1>2
  <1>4. /\ ~Working(t) /\ t.holder # "free" /\ t.stalled # "apply" /\ s.state = "enabling"
        /\ s.applied \in Nat /\ MachineOK(l, f, an, ho, en, m, s, t)
    <2>1. tk[m].pc \in {"head", "resume", "parts"} /\ tk[m].pc # "head"
      OBVIOUS
    <2> QED  BY <1>1, <1>2, <2>1, Enabling
  <1>5. /\ t2 \in Task /\ t2.pc = "parts" /\ t2.after = k /\ t2.holder = t.holder
        /\ t2.stalled = t.stalled
    BY <1>3 DEF Task, Places
  <1>6. ~Working(t2) /\ ~Sending(t2) /\ Number(s, t2) = Number(s, t)
    BY <1>3, <1>4, <1>5 DEF Working, Sending, Number
  <1>7. StoreOK(l, s) /\ PlanOK(l, f, en, m, s, t2)
    BY <1>4, <1>5, <1>6 DEF MachineOK, PlanOK
  <1>8. TaskOK(l, m, s, t2)
    <2>1. HolderOK(s, t2) /\ ReadOK(l, s, t2)
      BY <1>4, <1>5, <1>6 DEF HolderOK, ReadOK, Working, Writing
    <2>2. SendOK(l, m, s, t2)
      BY <1>3, <1>5 DEF SendOK, PartsIn
    <2> QED  BY <2>1, <2>2 DEF TaskOK
  <1>9. /\ s.pending = st[m].pending /\ s.keys = st[m].keys /\ st[m].applied <= s.applied
        /\ Number(s, t2) \in {0, Number(st[m], tk[m])} /\ ~Working(tk[m])
    BY <1>1, <1>2, <1>4, <1>6
  <1>10. Good(l, f, [st EXCEPT ![m] = s], [tk EXCEPT ![m] = t2], an, ho, en)
    BY <1>5, <1>6, <1>7, <1>8, <1>9, EnableKeeps
  <1>11. [st EXCEPT ![m] = s] = st
    BY <1>1 DEF Good, Typed
  <1> QED  BY <1>10, <1>11

LEMMA ResumeReadStep ==
    ASSUME IInv, NEW m \in Machines, ResumeRead(m)
    PROVE  IInv'
  <1>1. PICK s \in Store : s = store[m]
    BY Turn
  <1>2. PICK k \in 0..Parts : k = Confirmed(m) /\ Leads(log, s, k)
    BY <1>1, Turn, ConfirmedLeads
  <1>3. PICK blocked \in BOOLEAN : blocked = (k < Parts /\ s.base + k < Len(log))
    OBVIOUS
  <1>4. /\ task[m].pc = "resume"
        /\ task' = [task EXCEPT ![m] =
               IF blocked THEN Release(m) ELSE [task[m] EXCEPT !.pc = "parts", !.after = k]]
        /\ store' = IF blocked /\ k = 0 THEN [store EXCEPT ![m] = Abandoned(store[m])] ELSE store
        /\ broken' = IF blocked /\ k > 0 THEN broken \cup {m} ELSE broken
        /\ log' = log /\ flight' = flight /\ answer' = answer /\ host' = host
        /\ enables' = enables /\ faults' = faults
    BY <1>1, <1>2, <1>3 DEF ResumeRead, At, requests
  <1>5. /\ task[m].pc \in {"resume", "parts"} /\ task[m].pc \in {"head", "resume", "parts"}
        /\ Good(log, flight, store, task, answer, host, enables)
    BY <1>4 DEF IInv
  <1>6. LogOK(log) /\ log \in Seq(Entry) /\ Len(log) \in Nat /\ SavedOK(log, flight, m, s)
        /\ s.base \in Nat /\ Parts \in Nat /\ s.base <= Len(log)
    <2>1. /\ LogOK(log) /\ log \in Seq(Entry) /\ Len(log) \in Nat
          /\ MachineOK(log, flight, answer, host, enables, m, s, task[m]) /\ s.state = "enabling"
      BY <1>1, <1>4, <1>5, Enabling
    <2>2. SavedOK(log, flight, m, s)
      BY <2>1 DEF MachineOK, PlanOK
    <2> QED  BY <2>1, <2>2, ConstantsAssumption DEF SavedOK, Store
  <1>7. PartsIn(log, m, s, k)
    <2>1. ASSUME NEW i \in 1..k
          PROVE  s.base + i <= Len(log) /\ log[s.base + i] = PartOf(m, s, i).entry
      <3>1. s.base + i <= Len(log) /\ log[s.base + i].id = PartId(s.plan, i)
        BY <1>2 DEF Leads, HasParts
      <3>2. i \in 1..Parts /\ s.base + i \in 1..Len(log)
        BY <1>6, <3>1
      <3> QED  BY <1>6, <3>1, <3>2, PartPlaced
    <2>2. s.base + k <= Len(log)
      <3>1. CASE k = 0
        BY <1>6, <3>1
      <3>2. CASE k # 0
        <4>1. k \in 1..k
          BY <1>6, <3>2
        <4> QED  BY <2>1, <4>1
      <3> QED  BY <3>1, <3>2
    <2> QED  BY <1>6, <2>1, <2>2 DEF PartsIn
  <1>8. CASE blocked
    <2>1. k < Parts /\ s.base + k < Len(log)
      BY <1>3, <1>8
    <2>2. k = 0
      <3>1. SUFFICES ASSUME k # 0 PROVE FALSE
        OBVIOUS
      <3>2. k \in 1..Parts /\ k \in 1..k
        BY <1>6, <3>1
      <3>3. log[s.base + k] = PartOf(m, s, k).entry
        BY <1>7, <3>2 DEF PartsIn
      <3>4. log[s.base + k + 1].id = PartId(s.plan, k + 1)
        BY <1>6, <2>1, <3>2, <3>3, NextIsPart
      <3> QED  BY <1>2, <2>1, <3>4 DEF Leads
    <2>3. PICK t2 \in Task : t2 = Release(m) /\ Idle(t2)
      BY Turn
    <2>4. /\ task' = [task EXCEPT ![m] = t2] /\ store' = [store EXCEPT ![m] = Abandoned(store[m])]
          /\ broken' = broken
      BY <1>4, <1>8, <2>2, <2>3
    <2>5. Good(log, flight, [store EXCEPT ![m] = Abandoned(store[m])], [task EXCEPT ![m] = t2],
               answer, host, enables)
      BY <1>5, <2>3, AbandonKeeps
    <2> QED  BY <1>4, <2>4, <2>5 DEF IInv
  <1>9. CASE ~blocked
    <2>1. PICK t2 : t2 = [task[m] EXCEPT !.pc = "parts", !.after = k]
      OBVIOUS
    <2>2. task' = [task EXCEPT ![m] = t2] /\ store' = store /\ broken' = broken
      BY <1>4, <1>9, <2>1
    <2>3. k \in Nat /\ PartsIn(log, m, store[m], k)
      BY <1>1, <1>6, <1>7
    <2>4. Good(log, flight, store, [task EXCEPT ![m] = t2], answer, host, enables)
      BY <1>5, <2>1, <2>3, PartsKeep
    <2> QED  BY <1>4, <2>2, <2>4 DEF IInv
  <1> QED  BY <1>8, <1>9

\* A part that is in the log, however it got there, is confirmed.
LEMMA PartConfirmed ==
    ASSUME NEW l, NEW f, NEW st, NEW tk, NEW an, NEW ho, NEW en,
           Good(l, f, st, tk, an, ho, en), NEW m \in Machines, tk[m].pc = "parts",
           NEW k \in 1..Parts, k = tk[m].after + 1,
           \E j \in 1..Len(l) : l[j].id = PartId(st[m].plan, k),
           NEW t2, t2 = [tk[m] EXCEPT !.after = k]
    PROVE  Good(l, f, st, [tk EXCEPT ![m] = t2], an, ho, en)
  <1>1. PICK s \in Store : s = st[m]
    BY DEF Good, Typed
  <1>2. PICK t \in Task : t = tk[m]
    BY DEF Good, Typed
  <1>3. LogOK(l) /\ l \in Seq(Entry) /\ Len(l) \in Nat /\ SavedOK(l, f, m, s) /\ SendOK(l, m, s, t)
    <2>1. tk[m].pc \in {"head", "resume", "parts"} /\ tk[m].pc # "head"
      OBVIOUS
    <2>2. /\ LogOK(l) /\ l \in Seq(Entry) /\ Len(l) \in Nat
          /\ MachineOK(l, f, an, ho, en, m, s, t) /\ s.state = "enabling"
      BY <1>1, <1>2, <2>1, Enabling
    <2> QED  BY <2>2 DEF MachineOK, PlanOK, TaskOK
  <1>4. PICK j \in 1..Len(l) : l[j].id = PartId(s.plan, k)
    BY <1>1
  <1>5. j = s.base + k /\ l[j] = PartOf(m, s, k).entry
    BY <1>3, <1>4, PartPlaced
  <1>6. k = t.after + 1 /\ t.after \in Nat /\ Parts \in Nat /\ s.base \in Nat
    BY <1>2, ConstantsAssumption DEF Task, Store
  <1>7. PartsIn(l, m, s, k)
    <2>1. \A i \in 1..t.after : l[s.base + i] = PartOf(m, s, i).entry
      BY <1>2, <1>3 DEF SendOK
    <2>2. ASSUME NEW i \in 1..k PROVE l[s.base + i] = PartOf(m, s, i).entry
      <3>1. CASE i \in 1..t.after
        BY <2>1, <3>1
      <3>2. CASE i = k
        BY <1>5, <3>2
      <3> QED  BY <1>6, <3>1, <3>2
    <2> QED  BY <1>3, <1>5, <1>6, <2>2 DEF PartsIn
  <1>8. t2 = [tk[m] EXCEPT !.pc = "parts", !.after = k]
    BY <1>2 DEF Task
  <1>9. k \in Nat /\ PartsIn(l, m, st[m], k) /\ tk[m].pc \in {"resume", "parts"}
    BY <1>1, <1>6, <1>7
  <1> QED  BY <1>8, <1>9, PartsKeep

LEMMA SendPartStep ==
    ASSUME IInv, NEW m \in Machines, SendPart(m)
    PROVE  IInv'
  <1>1. PICK s \in Store : s = store[m]
    BY Turn
  <1>2. PICK k \in 1..Parts : k = task[m].after + 1
    <2>1. task[m].after \in Nat /\ Parts \in Nat /\ task[m].after + 1 <= Parts
      BY Turn, ConstantsAssumption DEF SendPart, Task
    <2>2. task[m].after + 1 \in 1..Parts
      BY <2>1
    <2> QED  BY <2>2
  <1>3. PICK c : c = PartCall(m, k)
    OBVIOUS
  <1>4. /\ task[m].pc = "parts" /\ task[m].after < Parts
        /\ answer' = answer /\ host' = host /\ enables' = enables
    <2>1. task[m].after \in Nat /\ task[m].after + 1 <= Parts /\ Parts \in Nat
      BY Turn, ConstantsAssumption DEF SendPart, Task
    <2> QED  BY <2>1 DEF SendPart, At, requests
  <1>5. \/ /\ Landed(c) /\ task' = [task EXCEPT ![m].after = k]
           /\ flight' = flight /\ store' = store /\ broken' = broken /\ faults' = faults
        \/ /\ HeadMoved(c) /\ task' = [task EXCEPT ![m] = Release(m)]
           /\ IF k = 1
              THEN store' = [store EXCEPT ![m] = Abandoned(store[m])] /\ broken' = broken
              ELSE broken' = broken \cup {m} /\ store' = store
           /\ flight' = flight /\ faults' = faults
        \/ /\ flight' = flight \cup {c} /\ task' = [task EXCEPT ![m] = Release(m)]
           /\ log' = log /\ store' = store /\ broken' = broken /\ faults' = faults + 1
    BY <1>2, <1>3 DEF SendPart, Fault
  <1>6. /\ task[m].pc \in {"head", "resume", "parts"} /\ task[m].pc \in {"resume", "parts"}
        /\ Good(log, flight, store, task, answer, host, enables)
    BY <1>4 DEF IInv
  <1>7. /\ c.entry.id = PartId(s.plan, k) /\ c.expect = s.base + k - 1
        /\ c = PartOf(m, store[m], task[m].after + 1)
    BY <1>1, <1>2, <1>3 DEF PartCall, PartOf, PartId
  <1>8. Good(log, flight \cup {c}, store, task, answer, host, enables)
    BY <1>4, <1>6, <1>7, SendPartKeeps
  <1>9. LogOK(log) /\ log \in Seq(Entry) /\ Len(log) \in Nat /\ SavedOK(log, flight, m, s)
        /\ SendOK(log, m, s, task[m])
    <2>1. /\ LogOK(log) /\ log \in Seq(Entry) /\ Len(log) \in Nat
          /\ MachineOK(log, flight, answer, host, enables, m, s, task[m]) /\ s.state = "enabling"
      BY <1>1, <1>4, <1>6, Enabling
    <2> QED  BY <2>1 DEF MachineOK, PlanOK, TaskOK
  <1>10. CASE /\ Landed(c) /\ task' = [task EXCEPT ![m].after = k]
              /\ flight' = flight /\ store' = store /\ broken' = broken /\ faults' = faults
    <2>1. PICK l : l = log'
      OBVIOUS
    <2>2. Good(l, flight, store, task, answer, host, enables)
          /\ \E j \in 1..Len(l) : l[j].id = PartId(store[m].plan, k)
      <3>1. CASE Logged(c.entry.id)
        <4>1. l = log
          BY <1>10, <2>1, <3>1 DEF Landed
        <4> QED  BY <1>1, <1>6, <1>7, <3>1, <4>1 DEF Logged
      <3>2. CASE ~Logged(c.entry.id)
        <4>1. Len(log) = c.expect /\ l = Append(log, c.entry)
          BY <1>10, <2>1, <3>2 DEF Landed
        <4>2. \A i \in 1..Len(log) : log[i].id # c.entry.id
          BY <3>2 DEF Logged
        <4>3. PICK g : g = flight \cup {c}
          OBVIOUS
        <4>4. Good(log, g, store, task, answer, host, enables) /\ c \in g /\ flight \in SUBSET g
          BY <1>8, <4>3
        <4>5. Good(l, g, store, task, answer, host, enables)
          BY <4>1, <4>2, <4>4, LandKeeps
        <4>6. Good(l, flight, store, task, answer, host, enables)
          BY <4>4, <4>5, LoseKeeps
        <4>7. c.entry \in Entry
          BY <4>4 DEF Good, Typed, AppendCall
        <4>8. Len(l) = Len(log) + 1 /\ l[Len(log) + 1] = c.entry
          BY <1>9, <4>1, <4>7, Appended
        <4>9. Len(log) + 1 \in 1..Len(l)
          BY <1>9, <4>8
        <4> QED  BY <1>1, <1>7, <4>6, <4>8, <4>9
      <3> QED  BY <3>1, <3>2
    <2>3. PICK t2 : t2 = [task[m] EXCEPT !.after = k]
      OBVIOUS
    <2>4. Good(l, flight, store, [task EXCEPT ![m] = t2], answer, host, enables)
      BY <1>2, <1>4, <2>2, <2>3, PartConfirmed
    <2>5. task' = [task EXCEPT ![m] = t2]
      BY <1>10, <2>3
    <2> QED  BY <1>4, <1>10, <2>1, <2>4, <2>5 DEF IInv
  <1>11. CASE /\ HeadMoved(c) /\ task' = [task EXCEPT ![m] = Release(m)]
              /\ IF k = 1
                 THEN store' = [store EXCEPT ![m] = Abandoned(store[m])] /\ broken' = broken
                 ELSE broken' = broken \cup {m} /\ store' = store
              /\ flight' = flight /\ faults' = faults
    <2>1. k = 1
      <3>1. SUFFICES ASSUME k # 1 PROVE FALSE
        OBVIOUS
      <3>2. PICK i \in Nat : i = task[m].after
        BY Turn DEF Task
      <3>3. /\ i \in 1..Parts /\ i < Parts /\ i \in 1..i /\ i + 1 = k
            /\ s.base \in Nat /\ Parts \in Nat
        <4>1. Parts \in Nat /\ s.base \in Nat /\ i + 1 = k /\ k # 1 /\ k <= Parts /\ i # 0
          BY <1>2, <3>1, <3>2, ConstantsAssumption DEF Store
        <4> QED  BY <4>1
      <3>4. s.base + i <= Len(log) /\ log[s.base + i] = PartOf(m, s, i).entry
        BY <1>4, <1>9, <3>2, <3>3 DEF SendOK
      <3>5. /\ Len(log) # s.base + i
            /\ \A j \in 1..Len(log) : log[j].id # PartId(s.plan, i + 1)
        BY <1>7, <1>11, <3>3 DEF HeadMoved, Logged
      <3>6. s.base + i < Len(log)
        BY <1>9, <3>3, <3>4, <3>5
      <3>7. log[s.base + i + 1].id = PartId(s.plan, i + 1)
        BY <1>9, <3>3, <3>4, <3>6, NextIsPart
      <3>8. s.base + i + 1 \in 1..Len(log)
        BY <1>9, <3>3, <3>6
      <3> QED  BY <3>5, <3>7, <3>8
    <2>2. PICK t2 \in Task : t2 = Release(m) /\ Idle(t2)
      BY Turn
    <2>3. /\ task' = [task EXCEPT ![m] = t2] /\ store' = [store EXCEPT ![m] = Abandoned(store[m])]
          /\ broken' = broken /\ log' = log
      BY <1>11, <2>1, <2>2 DEF HeadMoved
    <2>4. Good(log, flight, [store EXCEPT ![m] = Abandoned(store[m])], [task EXCEPT ![m] = t2],
               answer, host, enables)
      BY <1>6, <2>2, AbandonKeeps
    <2> QED  BY <1>4, <1>11, <2>3, <2>4 DEF IInv
  <1>12. CASE /\ flight' = flight \cup {c} /\ task' = [task EXCEPT ![m] = Release(m)]
              /\ log' = log /\ store' = store /\ broken' = broken /\ faults' = faults + 1
    <2>1. PICK t2 \in Task : t2 = Release(m) /\ Idle(t2)
      BY Turn
    <2>2. Good(log, flight \cup {c}, store, [task EXCEPT ![m] = t2], answer, host, enables)
      BY <1>6, <1>8, <2>1, EnableStops
    <2> QED  BY <1>4, <1>12, <2>1, <2>2 DEF IInv
  <1> QED  BY <1>5, <1>10, <1>11, <1>12

\* A machine whose last part is confirmed is at the position after it.
LEMMA FinishEnableStep ==
    ASSUME IInv, NEW m \in Machines, FinishEnable(m)
    PROVE  IInv'
  <1>1. PICK s \in Store : s = store[m]
    BY Turn
  <1>2. PICK t \in Task : t = task[m]
    BY Turn
  <1>3. PICK n \in Nat : n = s.base + Parts
    BY ConstantsAssumption DEF Store
  <1>4. PICK s2 : s2 = Enabled(s)
    OBVIOUS
  <1>5. /\ t.pc = "parts" /\ t.after = Parts
        /\ store' = [store EXCEPT ![m] = s2] /\ task' = [task EXCEPT ![m] = IdleTask]
        /\ log' = log /\ flight' = flight /\ answer' = answer /\ host' = host
        /\ enables' = enables /\ broken' = broken /\ faults' = faults
    BY <1>1, <1>2, <1>4 DEF FinishEnable, At, requests, bookkeeping
  <1>6. /\ Good(log, flight, store, task, answer, host, enables)
        /\ task[m].pc \in {"head", "resume", "parts"} /\ task[m].pc # "head"
    BY <1>2, <1>5 DEF IInv
  <1>7. /\ ~Working(task[m]) /\ s.state = "enabling" /\ s.applied = 0
        /\ MachineOK(log, flight, answer, host, enables, m, s, t)
        /\ log \in Seq(Entry) /\ Len(log) \in Nat
    BY <1>1, <1>2, <1>6, Enabling
  <1>8. SavedOK(log, flight, m, s) /\ SendOK(log, m, s, t) /\ StoreOK(log, s)
    BY <1>7 DEF MachineOK, PlanOK, TaskOK
  <1>9. Parts \in Nat /\ Parts > 0 /\ s.base \in Nat /\ n > 0
    BY <1>3, ConstantsAssumption DEF Store
  <1>10. n <= Len(log) /\ log[n] = PartOf(m, s, Parts).entry
    <2>1. Parts \in 1..t.after
      BY <1>5, <1>9
    <2> QED  BY <1>3, <1>5, <1>8, <2>1 DEF SendOK
  <1>11. /\ s2 \in Store /\ s2.state = "enabled" /\ s2.applied = n /\ s2.content = s.content
         /\ s2.own = s.own /\ s2.pending = s.pending /\ s2.keys = s.keys
    <2>1. s2 \in Store
      BY <1>4, StoreType
    <2> QED  BY <1>3, <1>4, <2>1 DEF Store, Enabled
  <1>12. Completes(log[n]) /\ log[n].data = s.saved
    BY <1>10 DEF Completes, PartOf, PartId
  <1>13. StoreOK(log, s2)
    <2>1. Image(log)[n] = Step(log, Image(log), n)
      BY <1>7, <1>9, <1>10, ImageStep
    <2>2. Image(log)[n] = s.content
      BY <1>8, <1>9, <1>12, <2>1 DEF Step, SavedOK
    <2>3. Edge(log, n)
      BY <1>12 DEF Edge
    <2>4. \A id \in s2.own : \E i \in 1..n : log[i].id = id
      <3>1. 1..s.applied = {}
        BY <1>7
      <3> QED  BY <1>8, <1>11, <3>1 DEF StoreOK
    <2> QED  BY <1>9, <1>10, <1>11, <2>2, <2>3, <2>4 DEF StoreOK, Shares
  <1>14. PICK t2 \in Task : t2 = IdleTask /\ Idle(t2)
    BY Turn
  <1>15. ~Working(t2) /\ ~Sending(t2) /\ Number(s2, t2) = 0 /\ enables \in Nat
    BY <1>11, <1>14, Turn DEF Working, Sending, Number, Idle
  <1>16. PlanOK(log, flight, enables, m, s2, t2)
    BY <1>11, <1>14, <1>15 DEF PlanOK, Idle
  <1>17. TaskOK(log, m, s2, t2)
    BY <1>14 DEF TaskOK, HolderOK, ReadOK, SendOK, Idle, Working, Writing
  <1>18. /\ s2.pending = store[m].pending /\ s2.keys = store[m].keys
         /\ store[m].applied <= s2.applied /\ Number(s2, t2) \in {0, Number(store[m], task[m])}
    BY <1>1, <1>7, <1>11, <1>15
  <1>19. Good(log, flight, [store EXCEPT ![m] = s2], [task EXCEPT ![m] = t2], answer, host, enables)
    BY <1>6, <1>7, <1>11, <1>13, <1>15, <1>16, <1>17, <1>18, EnableKeeps
  <1> QED  BY <1>5, <1>14, <1>19 DEF IInv

-----------------------------------------------------------------------------
(* The invariant holds from the start, and every action keeps it *)

LEMMA InitGood ==
    ASSUME Init
    PROVE  IInv
  <1>1. /\ log = <<>> /\ flight = {} /\ enables = 0 /\ broken = {} /\ faults = 0
        /\ store = [m \in Machines |-> EmptyStore] /\ task = [m \in Machines |-> IdleTask]
        /\ answer = [r \in Requests |-> "new"] /\ host = [r \in Requests |-> Nobody]
    BY DEF Init
  <1>2. Len(log) = 0 /\ log \in Seq(Entry)
    BY <1>1, EmptySeq
  <1>3. EmptyStore \in Store
    BY EmptySeq, ConstantsAssumption DEF EmptyStore, Store, LogStates
  <1>4. IdleTask \in Task
    BY ConstantsAssumption DEF IdleTask, Task, Holders, Places
  <1>5. Typed(log, flight, store, task, answer, host, enables)
    BY <1>1, <1>2, <1>3, <1>4 DEF Typed, Answers
  <1>6. /\ LogOK(log) /\ FlightOK(log, flight) /\ PlansUsed(log, flight, enables)
        /\ EntriesOnce(log, flight) /\ KeysOnce(log, flight, answer, host)
    BY <1>1, <1>2 DEF LogOK, FlightOK, PlansUsed, EntriesOnce, KeysOnce
  <1>7. Number(EmptyStore, IdleTask) = 0
    BY DEF Number, EmptyStore, IdleTask
  <1>8. NumbersDiffer(store, task)
    BY <1>1, <1>7 DEF NumbersDiffer
  <1>9. ASSUME NEW m \in Machines
        PROVE  MachineOK(log, flight, answer, host, enables, m, store[m], task[m])
    <2>1. store[m] = EmptyStore /\ task[m] = IdleTask
      BY <1>1
    <2>2. StoreOK(log, EmptyStore)
      BY <1>2 DEF StoreOK, EmptyStore, Edge, Shares
    <2>3. PlanOK(log, flight, enables, m, EmptyStore, IdleTask)
      BY <1>1, <1>7 DEF PlanOK, EmptyStore, IdleTask
    <2>4. TaskOK(log, m, EmptyStore, IdleTask)
      BY DEF TaskOK, HolderOK, ReadOK, SendOK, IdleTask, Working, Writing
    <2>5. ServesOK(log, answer, host, m, EmptyStore, IdleTask)
      BY DEF ServesOK, IdleTask, Working
    <2>6. PendingOK(log, flight, answer, host, m, EmptyStore, IdleTask)
      BY <1>1, <1>2 DEF PendingOK, EmptyStore, IdleTask, Sending
    <2> QED  BY <2>1, <2>2, <2>3, <2>4, <2>5, <2>6 DEF MachineOK
  <1>10. ASSUME NEW r \in Requests
         PROVE  RequestOK(log, flight, r, answer[r], host[r], store[host[r]], task[host[r]])
    <2>1. answer[r] = "new" /\ host[r] = Nobody
      BY <1>1
    <2>2. PICK s : s = store[host[r]]
      OBVIOUS
    <2>3. PICK t : t = task[host[r]]
      OBVIOUS
    <2>4. RequestOK(log, flight, r, "new", Nobody, s, t)
      BY <1>1, <1>2 DEF RequestOK, Waiting
    <2> QED  BY <2>1, <2>2, <2>3, <2>4
  <1> QED  BY <1>1, <1>5, <1>6, <1>8, <1>9, <1>10 DEF IInv, Good

\* The snapshot of an empty store.
PartAt(m, e, i) ==
    [id |-> PartId(1, i), author |-> m, kind |-> "snapshot", data |-> e, through |-> 0]

LEMMA BootstrapParts ==
    ASSUME NEW m \in Machines, NEW e \in Seq(Keys), NEW i \in 1..Parts,
           NEW p, p = PartAt(m, e, i)
    PROVE  /\ p \in Entry /\ p.kind = "snapshot" /\ p.author = m /\ p.id = PartId(1, i)
           /\ p.data = e /\ p.through = 0
           /\ p.id \in PartIds /\ p.id.plan = 1 /\ p.id.part = i
           /\ \A k : [p EXCEPT !.id = PartId(1, k)] = PartAt(m, e, k)
  <1>1. PartId(1, i) \in PartIds /\ PartId(1, i) \in EntryIds
        /\ PartId(1, i).plan = 1 /\ PartId(1, i).part = i
    BY DEF PartId, PartIds, EntryIds
  <1>2. PICK id \in EntryIds : id = PartId(1, i)
    BY <1>1
  <1>3. p = [id |-> id, author |-> m, kind |-> "snapshot", data |-> e, through |-> 0]
    BY <1>2 DEF PartAt
  <1>4. /\ p \in Entry /\ p.kind = "snapshot" /\ p.author = m /\ p.id = id
        /\ p.data = e /\ p.through = 0
    BY <1>3 DEF Entry
  <1>5. \A k : [p EXCEPT !.id = PartId(1, k)] = PartAt(m, e, k)
    BY <1>3 DEF PartAt
  <1> QED  BY <1>1, <1>2, <1>4, <1>5

LEMMA BootstrapIs ==
    ASSUME NEW m \in Machines, NEW e \in Seq(Keys), NEW l,
           l = [i \in 1..Parts |-> PartAt(m, e, i)]
    PROVE  /\ l \in Seq(Entry) /\ Len(l) = Parts
           /\ \A i \in 1..Parts : l[i].kind = "snapshot" /\ ~IsChange(l[i]) /\ l[i].id.plan = 1
           /\ LogOK(l) /\ Edge(l, Parts) /\ Image(l)[Parts] = e
  <1>1. Parts \in Nat /\ Parts > 0
    BY ConstantsAssumption
  <1>2. \A i \in 1..Parts : l[i] = PartAt(m, e, i)
    OBVIOUS
  <1>3. \A i \in 1..Parts :
           /\ l[i] \in Entry /\ l[i].kind = "snapshot" /\ l[i].author = m /\ l[i].id = PartId(1, i)
           /\ l[i].data = e /\ l[i].through = 0
           /\ l[i].id \in PartIds /\ l[i].id.plan = 1 /\ l[i].id.part = i
           /\ \A k : [l[i] EXCEPT !.id = PartId(1, k)] = PartAt(m, e, k)
    BY <1>2, BootstrapParts
  <1>4. l \in Seq(Entry) /\ Len(l) = Parts
    <2>1. l \in [1..Parts -> Entry]
      BY <1>3
    <2> HIDE DEF Entry
    <2>2. l \in Seq(Entry)
      BY <1>1, <2>1, SeqDef
    <2>3. DOMAIN l = 1..Parts /\ DOMAIN l = 1..Len(l) /\ Len(l) \in Nat
      BY <2>1, <2>2, LenProperties
    <2> QED  BY <1>1, <2>2, <2>3
  <1>6. ASSUME NEW i \in 1..Len(l) PROVE Follows(l, l[i], i - 1)
    <2>1. PICK n \in Nat : n = i - 1
      BY <1>1, <1>4
    <2>2. i \in 1..Parts /\ n + 1 = 0 + i /\ n < Parts
      BY <1>1, <1>4, <2>1
    <2>3. Edge(l, 0)
      BY DEF Edge
    <2>4. ASSUME NEW k \in 1..n, k > 0 PROVE l[k] = [l[i] EXCEPT !.id = PartId(1, k - 0)]
      <3>1. k \in 1..Parts /\ k - 0 = k
        BY <1>1, <2>2
      <3> QED  BY <1>2, <1>3, <2>2, <3>1
    <2>5. \A j \in 1..0 : l[j].author = l[i].author
      OBVIOUS
    <2>6. PartFollows(l, l[i], n)
      BY <1>3, <2>2, <2>3, <2>4, <2>5 DEF PartFollows
    <2> QED  BY <1>3, <2>1, <2>2, <2>6 DEF Follows
  <1>7. ASSUME NEW i \in 1..Len(l), NEW j \in 1..Len(l), l[i].id = l[j].id PROVE i = j
    <2>1. l[i].id.part = i /\ l[j].id.part = j
      BY <1>3, <1>4
    <2> QED  BY <1>7, <2>1
  <1>8. Parts \in 1..Parts /\ Parts \in 0..Len(l)
    BY <1>1, <1>4
  <1>9. Completes(l[Parts]) /\ l[Parts].data = e
    BY <1>3, <1>8 DEF Completes
  <1>10. Image(l)[Parts] = Step(l, Image(l), Parts)
    BY <1>4, <1>8, ImageStep
  <1>11. Image(l)[Parts] = e
    BY <1>1, <1>9, <1>10 DEF Step
  <1>12. \A i \in 1..Parts : ~IsChange(l[i])
    BY <1>3 DEF IsChange
  <1> QED  BY <1>3, <1>4, <1>6, <1>7, <1>9, <1>11, <1>12 DEF LogOK, Edge

LEMMA SharingGood ==
    ASSUME SharingInit
    PROVE  IInv
  <1>1. PICK a \in Machines :
            /\ log = Bootstrap(a)
            /\ store = [n \in Machines |->
                   [EmptyStore EXCEPT !.state = "enabled", !.applied = Parts, !.seen = Parts,
                                      !.author = (n = a)]]
    BY DEF SharingInit
  <1>2. /\ flight = {} /\ enables = 1 /\ broken = {} /\ faults = 0
        /\ task = [m \in Machines |-> IdleTask]
        /\ answer = [r \in Requests |-> "new"] /\ host = [r \in Requests |-> Nobody]
    BY DEF SharingInit
  <1>3. /\ log \in Seq(Entry) /\ Len(log) = Parts /\ LogOK(log) /\ Edge(log, Parts)
        /\ Image(log)[Parts] = <<>>
        /\ \A i \in 1..Parts : /\ log[i].kind = "snapshot" /\ ~IsChange(log[i])
                               /\ log[i].id.plan = 1
    <2>1. PICK e \in Seq(Keys) : e = <<>>
      BY EmptySeq
    <2>2. log = [i \in 1..Parts |-> PartAt(a, e, i)]
      BY <1>1, <2>1 DEF Bootstrap, PartAt, PartId
    <2>3. PICK l : l = log
      OBVIOUS
    <2>4. l = [i \in 1..Parts |-> PartAt(a, e, i)]
      BY <2>2, <2>3
    <2>5. /\ l \in Seq(Entry) /\ Len(l) = Parts
          /\ \A i \in 1..Parts : l[i].kind = "snapshot" /\ ~IsChange(l[i]) /\ l[i].id.plan = 1
          /\ LogOK(l) /\ Edge(l, Parts) /\ Image(l)[Parts] = e
      BY <2>4, BootstrapIs
    <2> QED  BY <2>1, <2>3, <2>5
  <1>4. Parts \in Nat /\ Parts > 0
    BY ConstantsAssumption
  <1>5. ASSUME NEW m \in Machines
        PROVE  /\ store[m] \in Store /\ store[m].state = "enabled" /\ store[m].applied = Parts
               /\ store[m].content = <<>> /\ store[m].pending = {} /\ store[m].own = {}
    <2>1. PICK w \in BOOLEAN : w = (m = a)
      OBVIOUS
    <2>2. store[m] = [EmptyStore EXCEPT !.state = "enabled", !.applied = Parts, !.seen = Parts,
                                        !.author = w]
      BY <1>1, <2>1
    <2>3. PICK e \in Store : e = EmptyStore
      BY EmptySeq, ConstantsAssumption DEF EmptyStore, Store, LogStates
    <2>4. e.content = <<>> /\ e.pending = {} /\ e.own = {}
      BY <2>3 DEF EmptyStore
    <2>5. store[m] = [e EXCEPT !.state = "enabled", !.applied = Parts, !.seen = Parts,
                               !.author = w]
      BY <2>2, <2>3
    <2> QED  BY <1>4, <2>4, <2>5 DEF Store, LogStates
  <1>6. IdleTask \in Task
    BY ConstantsAssumption DEF IdleTask, Task, Holders, Places
  <1>7. store \in [Machines -> Store]
    <2>1. store = [m \in Machines |-> store[m]]
      BY <1>1
    <2> QED  BY <1>5, <2>1
  <1>8. Typed(log, flight, store, task, answer, host, enables)
    BY <1>2, <1>3, <1>6, <1>7 DEF Typed, Answers
  <1>9. /\ FlightOK(log, flight) /\ PlansUsed(log, flight, enables)
        /\ EntriesOnce(log, flight) /\ KeysOnce(log, flight, answer, host)
    BY <1>2, <1>3 DEF FlightOK, PlansUsed, EntriesOnce, KeysOnce
  <1>10. \A m \in Machines : Number(store[m], task[m]) = 0 /\ task[m] = IdleTask
    BY <1>2, <1>5 DEF Number, IdleTask
  <1>11. NumbersDiffer(store, task)
    BY <1>10 DEF NumbersDiffer
  <1>12. ASSUME NEW m \in Machines
         PROVE  MachineOK(log, flight, answer, host, enables, m, store[m], task[m])
    <2>1. PICK s \in Store : s = store[m]
      BY <1>5
    <2>2. /\ s.state = "enabled" /\ s.applied = Parts /\ s.content = <<>>
          /\ s.pending = {} /\ s.own = {} /\ Number(s, IdleTask) = 0 /\ task[m] = IdleTask
      BY <1>5, <1>10, <2>1
    <2>3. StoreOK(log, s)
      BY <1>3, <1>4, <2>2 DEF StoreOK, Shares
    <2>4. PlanOK(log, flight, enables, m, s, IdleTask)
      BY <1>2, <2>2 DEF PlanOK, IdleTask
    <2>5. TaskOK(log, m, s, IdleTask)
      BY DEF TaskOK, HolderOK, ReadOK, SendOK, IdleTask, Working, Writing
    <2>6. ServesOK(log, answer, host, m, s, IdleTask)
      BY DEF ServesOK, IdleTask, Working
    <2>7. PendingOK(log, flight, answer, host, m, s, IdleTask)
      BY <1>2, <1>3, <2>2 DEF PendingOK, IdleTask, Sending
    <2> QED  BY <2>1, <2>2, <2>3, <2>4, <2>5, <2>6, <2>7 DEF MachineOK
  <1>13. ASSUME NEW r \in Requests
         PROVE  RequestOK(log, flight, r, answer[r], host[r], store[host[r]], task[host[r]])
    <2>1. answer[r] = "new" /\ host[r] = Nobody
      BY <1>2
    <2>2. PICK s : s = store[host[r]]
      OBVIOUS
    <2>3. PICK t : t = task[host[r]]
      OBVIOUS
    <2>4. RequestOK(log, flight, r, "new", Nobody, s, t)
      BY <1>2, <1>3 DEF RequestOK, Waiting
    <2> QED  BY <2>1, <2>2, <2>3, <2>4
  <1> QED  BY <1>2, <1>3, <1>8, <1>9, <1>11, <1>12, <1>13 DEF IInv, Good

LEMMA StepKeeps ==
    ASSUME IInv, [Next]_vars
    PROVE  IInv'
  <1>1. ASSUME NEW m \in Machines, WriteStep(m) PROVE IInv'
    BY <1>1, BeginAttemptStep, NothingToShareStep, SettleCommitStep, SettleHeadMovedStep,
       SettleUnansweredStep, SettleExpiresStep, CommitStep DEF WriteStep
  <1>2. ASSUME NEW m \in Machines, CatchUpStep(m) PROVE IInv'
    BY <1>2, ReadFailsStep, ReadPageStep, ApplyEntryStep, EndPageStep DEF CatchUpStep
  <1>3. ASSUME NEW m \in Machines, EnableStep(m) PROVE IInv'
    BY <1>3, EnableHeadStep, ResumeReadStep, SendPartStep, FinishEnableStep, EnableFailsStep
       DEF EnableStep
  <1>4. ASSUME NEW m \in Machines, Background(m) \/ Enable(m) \/ Crash(m) \/ StartOver(m)
        PROVE  IInv'
    BY <1>4, BackgroundStep, EnableStarts, CrashStep, StartOverStep
  <1>5. ASSUME NEW r \in Requests, TakeLock(r) \/ LockExpires(r) \/ Drop(r) PROVE IInv'
    BY <1>5, TakeLockStep, LockExpiresStep, DropStep
  <1>6. ASSUME NEW r \in Requests, NEW m \in Machines, Arrive(r, m) PROVE IInv'
    BY <1>6, ArriveStep
  <1>7. ASSUME DeliverLate PROVE IInv'
    BY <1>7, DeliverLateStep
  <1>8. ASSUME UNCHANGED vars PROVE IInv'
    BY <1>8 DEF vars, IInv
  <1> QED
    BY <1>1, <1>2, <1>3, <1>4, <1>5, <1>6, <1>7, <1>8 DEF Next, TaskStep

-----------------------------------------------------------------------------
(* What the invariant says of the properties *)

LEMMA InvariantImplies ==
    ASSUME IInv
    PROVE  StoresOK /\ ReplicasAgree /\ OncePerKey /\ EnablesMeetSafely
  <1>1. Good(log, flight, store, task, answer, host, enables)
    BY DEF IInv
  <1>2. TypeOK
    BY <1>1 DEF IInv, Good, Typed, TypeOK
  <1>3. \A m \in Machines : /\ PendingOK(log, flight, answer, host, m, store[m], task[m])
                            /\ StoreOK(log, store[m]) /\ HolderOK(store[m], task[m])
                            /\ store[m].applied \in Nat
    BY <1>1 DEF Good, Typed, MachineOK, TaskOK, Store
  <1>4. Len(log) \in Nat
    BY <1>1, LenProperties DEF Good, Typed
  <1>5. PendingKnown
    <2>1. ASSUME NEW m \in Machines, NEW i \in (store[m].applied + 1)..Len(log),
                 log[i].kind = "change", host[log[i].id.req] = m
          PROVE  \E p \in store[m].pending : p.id = log[i].id
      <3>1. i \in 1..Len(log) /\ i > store[m].applied
        BY <1>3, <1>4
      <3> QED  BY <1>3, <2>1, <3>1 DEF PendingOK, Known, IsChange
    <2>2. ASSUME NEW m \in Machines, NEW c \in flight, c.expect = Len(log),
                 c.entry.kind = "change", host[c.entry.id.req] = m
          PROVE  \E p \in store[m].pending : p.id = c.entry.id
      BY <1>3, <2>2 DEF PendingOK, Known, IsChange
    <2> QED  BY <2>1, <2>2 DEF PendingKnown
  <1>6. ReplicasAgree
    BY <1>3 DEF StoreOK, Shares, ReplicasAgree
  <1>7. OncePerKey
    BY <1>1, <1>4 DEF Good, EntriesOnce, KeysOnce, SameWrite, Lost, OncePerKey
  <1>8. LogReadable
    BY <1>3 DEF IInv, HolderOK, LogReadable
  <1> QED  BY <1>2, <1>5, <1>6, <1>7, <1>8 DEF StoresOK, EnablesMeetSafely

\* In every reachable state the variables have their types, and every machine has
\* a pending row for each of its writes that the log may hold without the machine
\* having applied it: cut short, refused, retried or restarted, the store knows
\* that the write is open (pending.rs shared_attempt, pending_entry).
THEOREM StoresHold == (Spec => []StoresOK) /\ (SharingSpec => []StoresOK)
  <1>1. Init => IInv
    BY InitGood
  <1>2. SharingInit => IInv
    BY SharingGood
  <1>3. IInv /\ [Next]_vars => IInv'
    BY StepKeeps
  <1>4. IInv => StoresOK
    BY InvariantImplies
  <1> QED  BY <1>1, <1>2, <1>3, <1>4, PTL DEF Spec, SharingSpec

\* Machines that have applied the same prefix of the log hold the same shared
\* tables, namely the ones that the prefix stands for (catch_up.rs apply,
\* shared_write.rs commit, enable.rs finish_enable).
THEOREM ReplicasHold == (Spec => []ReplicasAgree) /\ (SharingSpec => []ReplicasAgree)
  <1>1. Init => IInv
    BY InitGood
  <1>2. SharingInit => IInv
    BY SharingGood
  <1>3. IInv /\ [Next]_vars => IInv'
    BY StepKeeps
  <1>4. IInv => ReplicasAgree
    BY InvariantImplies
  <1> QED  BY <1>1, <1>2, <1>3, <1>4, PTL DEF Spec, SharingSpec

\* A write has one entry at most, and a key is shared once by a machine unless
\* the client of its first use never learned the outcome (shared_request_cache,
\* pending.rs shared_attempt).
THEOREM KeysSharedOnce == (Spec => []OncePerKey) /\ (SharingSpec => []OncePerKey)
  <1>1. Init => IInv
    BY InitGood
  <1>2. SharingInit => IInv
    BY SharingGood
  <1>3. IInv /\ [Next]_vars => IInv'
    BY StepKeeps
  <1>4. IInv => OncePerKey
    BY InvariantImplies
  <1> QED  BY <1>1, <1>2, <1>3, <1>4, PTL DEF Spec, SharingSpec

\* Whatever enables of several machines meet, nobody's catch-up stalls on an
\* entry, no snapshot is cut in two by another entry, and those who share hold
\* the tables of the log (enable.rs resume, catch_up.rs apply).
THEOREM EnablesStaySafe == (Spec => []EnablesMeetSafely) /\ (SharingSpec => []EnablesMeetSafely)
  <1>1. Init => IInv
    BY InitGood
  <1>2. SharingInit => IInv
    BY SharingGood
  <1>3. IInv /\ [Next]_vars => IInv'
    BY StepKeeps
  <1>4. IInv => EnablesMeetSafely
    BY InvariantImplies
  <1> QED  BY <1>1, <1>2, <1>3, <1>4, PTL DEF Spec, SharingSpec

-----------------------------------------------------------------------------
(***************************************************************************)
(* The refinement of SharedHistory: a step adds one entry to the log, or   *)
(* it answers clients and moves machines along the log.                    *)
(***************************************************************************)
Open == {"new", "queued", "active"}

\* Some machine has applied the entry of the write r.
Shows(l, n, r) == \E i \in 1..n : IsChange(l[i]) /\ l[i].id.req = r
AppliedBy(l, st, r) == \E m \in Machines : Shows(l, st[m].applied, r)

\* A machine applies more, or starts over; an open write may be answered.
Onward(n, k) == k = 0 \/ k >= n
Answers2(l, st, r, a, b) == b = a \/ (a \in Open /\ (b = "ok" => AppliedBy(l, st, r)))

Quiet ==
    /\ log' = log
    /\ \A m \in Machines : Onward(store[m].applied, (store[m].applied)')
    /\ \A r \in Requests : Answers2(log, store', r, answer[r], answer'[r])
Grows ==
    /\ \E e \in Entry : log' = Append(log, e)
    /\ answer' = answer
    /\ \A m \in Machines : (store[m].applied)' = store[m].applied

\* The history that a log stands for.
LEMMA HistoryOf ==
    ASSUME NEW l \in Seq(Entry), LogOK(l), NEW h,
           h = [i \in 1..Len(l) |-> IF IsChange(l[i]) THEN l[i].id.req ELSE NoRequest]
    PROVE  /\ Len(h) = Len(l) /\ Len(h) \in Nat
           /\ h \in Seq(Requests \cup {NoRequest})
           /\ \A r \in Requests, i \in 1..Len(h) : h[i] = r <=> IsChange(l[i]) /\ l[i].id.req = r
  <1>1. PICK n \in Nat : n = Len(l)
    BY LenProperties
  <1>2. ASSUME NEW i \in 1..n
        PROVE  /\ h[i] = IF IsChange(l[i]) THEN l[i].id.req ELSE NoRequest
               /\ h[i] \in Requests \cup {NoRequest}
    <2>1. h[i] = IF IsChange(l[i]) THEN l[i].id.req ELSE NoRequest
      BY <1>1
    <2>2. IsChange(l[i]) => l[i].id.req \in Requests
      <3>1. Follows(l, l[i], i - 1)
        BY <1>1 DEF LogOK
      <3> QED  BY <3>1 DEF Follows, ChangeFollows, ChangeIds, IsChange
    <2> QED  BY <2>1, <2>2
  <1>3. h \in [1..n -> Requests \cup {NoRequest}]
    BY <1>1, <1>2
  <1>4. h \in Seq(Requests \cup {NoRequest})
    BY <1>1, <1>3, SeqDef
  <1>5. Len(h) = n
    <2>1. DOMAIN h = 1..n /\ DOMAIN h = 1..Len(h) /\ Len(h) \in Nat
      BY <1>3, <1>4, LenProperties
    <2> QED  BY <1>1, <2>1
  <1>6. \A r \in Requests, i \in 1..n : h[i] = r <=> IsChange(l[i]) /\ l[i].id.req = r
    BY <1>2, ConstantsAssumption DEF NoRequest
  <1> QED  BY <1>1, <1>4, <1>5, <1>6

\* A write that is answered without an entry has none.
LEMMA ClosedUnwritten ==
    ASSUME IInv, NEW r \in Requests, answer[r] \in Closed, NEW i \in 1..Len(log)
    PROVE  ~(IsChange(log[i]) /\ log[i].id.req = r)
  <1>1. PICK a : a = answer[r]
    OBVIOUS
  <1>2. PICK h : h = host[r]
    OBVIOUS
  <1>3. PICK s : s = store[h]
    OBVIOUS
  <1>4. PICK t : t = task[h]
    OBVIOUS
  <1>5. RequestOK(log, flight, r, a, h, s, t)
    BY <1>1, <1>2, <1>3, <1>4 DEF IInv, Good
  <1> QED  BY <1>1, <1>5 DEF RequestOK, OpenOK

\* The writes of the log as SharedHistory's history, and how far machines are.
Viewed ==
    /\ log \in Seq(Entry) /\ LogOK(log) /\ Len(log) \in Nat
    /\ Len(Writes) = Len(log) /\ Writes \in Seq(Requests \cup {NoRequest})
    /\ \A r \in Requests, i \in 1..Len(log) :
           Writes[i] = r <=> IsChange(log[i]) /\ log[i].id.req = r
    /\ \A m \in Machines : Positions[m] = store[m].applied /\ Positions[m] \in 0..Len(log)
    /\ \A r \in Requests : Promises[r] = Promise(answer[r]) /\ answer[r] \in Answers
LEMMA HistoryViewed == IInv => Viewed
  <1> SUFFICES ASSUME IInv PROVE Viewed
    OBVIOUS
  <1>1. Good(log, flight, store, task, answer, host, enables)
    BY DEF IInv
  <1>2. log \in Seq(Entry) /\ LogOK(log) /\ Len(log) \in Nat
    BY <1>1, LenProperties DEF Good, Typed
  <1>3. PICK h : h = Writes
    OBVIOUS
  <1>4. h = [i \in 1..Len(log) |-> IF IsChange(log[i]) THEN log[i].id.req ELSE NoRequest]
    BY <1>3 DEF Writes
  <1>5. /\ Len(h) = Len(log) /\ h \in Seq(Requests \cup {NoRequest})
        /\ \A r \in Requests, i \in 1..Len(h) : h[i] = r <=> IsChange(log[i]) /\ log[i].id.req = r
    BY <1>2, <1>4, HistoryOf
  <1>6. ASSUME NEW m \in Machines
        PROVE  Positions[m] = store[m].applied /\ Positions[m] \in 0..Len(log)
    <2>1. store[m] \in Store /\ StoreOK(log, store[m])
      BY <1>1 DEF Good, Typed, MachineOK
    <2> QED  BY <1>2, <2>1 DEF Positions, Store, StoreOK
  <1>7. \A r \in Requests : Promises[r] = Promise(answer[r]) /\ answer[r] \in Answers
    BY <1>1 DEF Promises, Good, Typed
  <1> QED  BY <1>2, <1>3, <1>5, <1>6, <1>7 DEF Viewed

LEMMA HistoryViewedNext == IInv' => Viewed'
  BY HistoryViewed, PTL
ClosedClear ==
    \A r \in Requests : answer[r] \in Closed =>
        \A i \in 1..Len(log) : ~(IsChange(log[i]) /\ log[i].id.req = r)
LEMMA ClosedNext == IInv' => ClosedClear'
  <1>1. IInv => ClosedClear
    BY ClosedUnwritten DEF ClosedClear
  <1> QED  BY <1>1, PTL

\* A step that leaves the log alone answers clients and moves machines.
LEMMA QuietTells ==
    ASSUME IInv, IInv', Quiet
    PROVE  History!Tell
  <1>1. Viewed /\ Viewed' /\ log' = log
    BY HistoryViewed, HistoryViewedNext DEF Quiet
  <1>2. Writes' = Writes
    BY <1>1 DEF Writes
  <1>3. PICK n \in Nat : n = Len(log) /\ n = Len(Writes)
    BY <1>1 DEF Viewed
  <1>4. ASSUME NEW m \in Machines
        PROVE  History!Moves(m)
    <2>1. Positions[m] = store[m].applied /\ Positions[m] \in 0..n
      BY <1>1, <1>3 DEF Viewed
    <2>2. Positions'[m] = (store[m].applied)' /\ Positions'[m] \in 0..n
      BY <1>1, <1>3 DEF Viewed
    <2>3. PICK j \in 0..n : j = Positions[m]
      BY <2>1
    <2>4. PICK k \in 0..n : k = Positions'[m]
      BY <2>2
    <2>5. k = 0 \/ k >= j
      BY <2>1, <2>2, <2>3, <2>4 DEF Quiet, Onward
    <2>6. k \in {0} \cup j..n
      BY <2>5
    <2> QED  BY <1>3, <2>3, <2>4, <2>6 DEF History!Moves
  <1>5. ASSUME NEW r \in Requests
        PROVE  History!MayTell(r, Promises'[r])
    <2>1. PICK a \in Answers : a = answer[r] /\ Promises[r] = Promise(a)
      BY <1>1 DEF Viewed
    <2>2. PICK b \in Answers : b = answer'[r] /\ Promises'[r] = Promise(b)
      BY <1>1 DEF Viewed, Promise
    <2>3. Answers2(log, store', r, a, b)
      BY <2>1, <2>2 DEF Quiet
    <2>4. CASE b = a
      BY <2>1, <2>2, <2>4 DEF History!MayTell
    <2>5. CASE a \in Open /\ b \in Open
      <3>1. Promise(a) = "open" /\ Promise(b) = "open"
        BY <2>5 DEF Promise, Open
      <3> QED  BY <2>1, <2>2, <3>1 DEF History!MayTell
    <2>6. CASE a \in Open /\ b = "ok"
      <3>1. Promise(a) = "open" /\ Promise(b) = "ok"
        BY <2>6 DEF Promise, Open
      <3>2. AppliedBy(log, store', r)
        BY <2>3, <2>6 DEF Answers2, Open
      <3>3. PICK m \in Machines : Shows(log, store'[m].applied, r)
        BY <3>2 DEF AppliedBy
      <3>4. Positions'[m] = store'[m].applied /\ Positions'[m] \in 0..n
        BY <1>1, <1>3 DEF Viewed
      <3>5. PICK k \in 0..n : k = Positions'[m]
        BY <3>4
      <3>6. PICK i \in 1..k : IsChange(log[i]) /\ log[i].id.req = r
        BY <3>3, <3>4, <3>5 DEF Shows
      <3>7. i \in 1..Len(log)
        BY <1>3, <3>5, <3>6
      <3>8. Writes[i] = r
        BY <1>1, <3>6, <3>7 DEF Viewed
      <3> QED  BY <2>1, <2>2, <3>1, <3>5, <3>6, <3>8 DEF History!MayTell
    <2>7. CASE a \in Open /\ b \in Lost
      <3>1. Promise(a) = "open" /\ Promise(b) = "unknown"
        BY <2>7 DEF Promise, Open, Lost
      <3> QED  BY <2>1, <2>2, <3>1 DEF History!MayTell
    <2>8. CASE a \in Open /\ b \in Closed
      <3>1. Promise(a) = "open" /\ Promise(b) = "closed"
        BY <2>8 DEF Promise, Open, Closed
      <3>2. \A i \in 1..Len(log) : ~(IsChange(log[i]) /\ log[i].id.req = r)
        BY <1>1, <2>2, <2>8, ClosedNext DEF ClosedClear
      <3>3. ~History!Accepted(r)
        BY <1>1, <1>3, <3>2 DEF Viewed, History!Accepted
      <3> QED  BY <2>1, <2>2, <3>1, <3>3 DEF History!MayTell
    <2>9. b \in Open \cup {"ok"} \cup Lost \cup Closed
      BY DEF Answers, Open, Lost, Closed, Waiting
    <2> QED  BY <2>3, <2>4, <2>5, <2>6, <2>7, <2>8, <2>9 DEF Answers2
  <1> QED  BY <1>2, <1>4, <1>5 DEF History!Tell

\* A step that adds an entry accepts a write that has none and is not closed, or
\* a part of a snapshot.
LEMMA GrowsAccepts ==
    ASSUME IInv, IInv', Grows
    PROVE  History!Accept
  <1>1. Viewed /\ Viewed'
    BY HistoryViewed, HistoryViewedNext
  <1>2. PICK e \in Entry : log' = Append(log, e)
    BY DEF Grows
  <1>3. PICK l : l = log'
    OBVIOUS
  <1>4. PICK n \in Nat : n = Len(log) /\ n = Len(Writes)
    BY <1>1 DEF Viewed
  <1>5. /\ Len(l) = n + 1 /\ l[n + 1] = e
        /\ \A i \in 1..n : l[i] = log[i]
    BY <1>1, <1>2, <1>3, <1>4, AppendProperties DEF Viewed
  <1>6. PICK h \in Seq(Requests \cup {NoRequest}) : h = Writes
    BY <1>1 DEF Viewed
  <1>7. PICK g \in Seq(Requests \cup {NoRequest}) : g = Writes'
    BY <1>1 DEF Viewed
  <1>8. /\ Len(h) = n /\ Len(g) = n + 1
        /\ h = [i \in 1..n |-> IF IsChange(log[i]) THEN log[i].id.req ELSE NoRequest]
        /\ g = [i \in 1..n + 1 |-> IF IsChange(l[i]) THEN l[i].id.req ELSE NoRequest]
    <2>1. Len(h) = n
      BY <1>4, <1>6
    <2>2. h = [i \in 1..n |-> IF IsChange(log[i]) THEN log[i].id.req ELSE NoRequest]
      BY <1>4, <1>6 DEF Writes
    <2>3. Len(g) = n + 1
      BY <1>1, <1>3, <1>5, <1>7 DEF Viewed
    <2>4. g = [i \in 1..n + 1 |-> IF IsChange(l[i]) THEN l[i].id.req ELSE NoRequest]
      BY <1>3, <1>5, <1>7 DEF Writes
    <2> QED  BY <2>1, <2>2, <2>3, <2>4
  <1>9. SubSeq(g, 1, n) = h
    <2>1. \A i \in 1..n : g[i] = h[i]
      BY <1>5, <1>8
    <2>2. SubSeq(g, 1, n) = [i \in 1..n |-> g[i]]
      BY <1>4, <1>8 DEF SubSeq
    <2> QED  BY <1>8, <2>1, <2>2
  <1>10. PICK r : r = g[n + 1]
    OBVIOUS
  <1>12. ASSUME IsChange(e)
         PROVE  r \in Requests /\ ~History!Accepted(r) /\ Promises[r] # "closed"
    <2>1. n + 1 \in 1..n + 1
      BY <1>4
    <2>2. r = e.id.req /\ r \in Requests
      <3>1. r = e.id.req
        BY <1>5, <1>8, <1>10, <1>12, <2>1
      <3>2. LogOK(l)
        BY <1>1, <1>3 DEF Viewed
      <3>3. Follows(l, l[n + 1], n + 1 - 1)
        BY <1>5, <2>1, <3>2 DEF LogOK
      <3> QED  BY <1>5, <1>12, <3>1, <3>3 DEF Follows, ChangeFollows, ChangeIds, IsChange
    <2>3. ~History!Accepted(r)
      <3>1. EntriesOnce(l, flight')
        BY <1>3 DEF IInv, Good
      <3>2. ASSUME NEW i \in 1..n, Writes[i] = r PROVE FALSE
        <4>1. IsChange(log[i]) /\ log[i].id.req = r
          BY <1>1, <1>4, <2>2, <3>2 DEF Viewed
        <4>2. IsChange(l[i]) /\ l[i].id.req = l[n + 1].id.req /\ IsChange(l[n + 1])
          BY <1>5, <1>12, <2>2, <4>1
        <4>3. i \in 1..Len(l) /\ n + 1 \in 1..Len(l) /\ i # n + 1
          BY <1>4, <1>5
        <4> QED  BY <3>1, <4>2, <4>3 DEF EntriesOnce
      <3> QED  BY <1>4, <3>2 DEF History!Accepted
    <2>4. Promises[r] # "closed"
      <3>1. PICK a \in Answers : a = answer[r] /\ Promises[r] = Promise(a)
        BY <1>1, <2>2 DEF Viewed
      <3>2. a \notin Closed
        <4>1. IsChange(l[n + 1]) /\ l[n + 1].id.req = r /\ n + 1 \in 1..Len(l)
          BY <1>4, <1>5, <1>12, <2>2
        <4>2. answer'[r] = a
          BY <3>1 DEF Grows
        <4> QED  BY <1>3, <2>2, <4>1, <4>2, ClosedNext DEF ClosedClear
      <3>3. Promise(a) # "closed"
        BY <3>2 DEF Promise, Answers, Closed, Waiting
      <3> QED  BY <3>1, <3>3
    <2> QED  BY <2>2, <2>3, <2>4
  <1>13. \/ r = NoRequest
         \/ r \in Requests /\ ~History!Accepted(r) /\ Promises[r] # "closed"
    <2>1. CASE ~IsChange(e)
      <3>1. n + 1 \in 1..n + 1
        BY <1>4
      <3> QED  BY <1>5, <1>8, <1>10, <2>1, <3>1
    <2> QED  BY <2>1, <1>12
  <1>14. Promises' = Promises
    BY DEF Promises, Grows
  <1>15. Positions' = Positions
    BY DEF Positions, Grows
  <1> QED
    BY <1>4, <1>6, <1>7, <1>8, <1>9, <1>10, <1>13, <1>14, <1>15 DEF History!Accept

-----------------------------------------------------------------------------
(* The steps of the machines, as SharedHistory sees them *)

\* A machine's place in the log after a step that writes only its own store.
LEMMA Moved ==
    ASSUME IInv, NEW m \in Machines, NEW s2, store' = [store EXCEPT ![m] = s2],
           Onward(store[m].applied, s2.applied)
    PROVE  \A n \in Machines : Onward(store[n].applied, (store[n].applied)')
  <1> SUFFICES ASSUME NEW n \in Machines PROVE Onward(store[n].applied, (store[n].applied)')
    OBVIOUS
  <1>1. store \in [Machines -> Store]
    BY Turn DEF Typed
  <1>2. CASE n = m
    BY <1>1, <1>2
  <1>3. CASE n # m
    BY <1>1, <1>3 DEF Onward, Store
  <1> QED  BY <1>2, <1>3

LEMMA Unmoved ==
    ASSUME IInv, store' = store
    PROVE  \A n \in Machines : Onward(store[n].applied, (store[n].applied)')
  <1> SUFFICES ASSUME NEW n \in Machines PROVE Onward(store[n].applied, (store[n].applied)')
    OBVIOUS
  <1>1. store[n] \in Store
    BY Turn
  <1> QED  BY <1>1 DEF Onward, Store

LEMMA Unanswered ==
    ASSUME answer' = answer
    PROVE  \A r \in Requests : Answers2(log, store', r, answer[r], answer'[r])
  BY DEF Answers2

\* The lock holder ends its task: its client gets an answer that holds.
LEMMA HolderTells ==
    ASSUME IInv, NEW m \in Machines, NEW s2 \in Store, store' = [store EXCEPT ![m] = s2],
           store[m].applied <= s2.applied,
           NEW result \in Lost \cup Closed \cup {"ok"}, answer' = Told(m, result),
           result = "ok" /\ Writing(task[m]) => Shows(log, s2.applied, task[m].req)
    PROVE  \A r \in Requests : Answers2(log, store', r, answer[r], answer'[r])
  <1>1. PICK t \in Task : t = task[m]
    BY Turn
  <1>2. PICK s \in Store : s = store[m]
    BY Turn
  <1>3. MachineOK(log, flight, answer, host, enables, m, s, t) /\ HolderOK(s, t)
    BY <1>1, <1>2, Turn
  <1>4. Working(t) => t.req \in Requests /\ answer[t.req] = "active" /\ host[t.req] = m
    BY <1>3 DEF MachineOK, HolderOK, ServesOK
  <1>5. answer \in [Requests -> Answers] /\ store \in [Machines -> Store]
    BY Turn DEF Typed
  <1>6. answer' = ToldOf(answer, t, result)
    BY <1>1, ToldIs
  <1>7. /\ \A r \in Requests : Working(t) /\ r = t.req => answer'[r] =
               IF Writing(t) THEN result ELSE IF t.sent THEN "ok" ELSE "nothing"
        /\ \A r \in Requests : ~(Working(t) /\ r = t.req) => answer'[r] = answer[r]
    <2>1. PICK an2 : an2 = ToldOf(answer, t, result)
      OBVIOUS
    <2>2. PICK an \in [Requests -> Answers] : an = answer
      BY <1>5
    <2>3. PICK ho : ho = host
      OBVIOUS
    <2>4. Working(t) => t.req \in Requests /\ an[t.req] = "active" /\ ho[t.req] = m
      BY <1>4, <2>2, <2>3
    <2>6. result \in Lost \cup Closed \cup {"ok"}
      OBVIOUS
    <2>7. an \in [Requests -> Answers]
      OBVIOUS
    <2>5. /\ ToldOf(an, t, result) \in [Requests -> Answers]
          /\ Answered(an, ho, m, ToldOf(an, t, result))
          /\ ~Working(t) => ToldOf(an, t, result) = an
          /\ \A r \in Requests : Working(t) /\ r = t.req => ToldOf(an, t, result)[r] =
                 IF Writing(t) THEN result ELSE IF t.sent THEN "ok" ELSE "nothing"
          /\ \A r \in Requests : ~(Working(t) /\ r = t.req) => ToldOf(an, t, result)[r] = an[r]
      BY <2>4, <2>6, <2>7, ToldAnswers
    <2> QED  BY <1>6, <2>1, <2>2, <2>5
  <1>8. store'[m].applied = s2.applied
    BY <1>5
  <1>9. ASSUME NEW r \in Requests, Working(t), r = t.req
        PROVE  Answers2(log, store', r, answer[r], answer'[r])
    <2>1. answer[r] \in Open
      BY <1>4, <1>9 DEF Open
    <2>2. CASE answer'[r] # "ok"
      BY <2>1, <2>2 DEF Answers2
    <2>3. CASE answer'[r] = "ok" /\ Writing(t)
      <3>1. result = "ok" /\ Shows(log, s2.applied, r)
        BY <1>1, <1>7, <1>9, <2>3
      <3> QED  BY <1>8, <2>1, <3>1 DEF Answers2, AppliedBy
    <2>4. CASE answer'[r] = "ok" /\ ~Writing(t)
      <3>1. t.sent
        BY <1>7, <1>9, <2>4
      <3>2. PICK i \in 1..s.applied : IsChange(log[i]) /\ log[i].id.req = r
        BY <1>3, <1>9, <2>4, <3>1 DEF MachineOK, ServesOK
      <3>3. i \in 1..s2.applied
        BY <1>2, <3>2 DEF Store
      <3>4. Shows(log, s2.applied, r)
        BY <3>2, <3>3 DEF Shows
      <3> QED  BY <1>8, <2>1, <3>4 DEF Answers2, AppliedBy
    <2> QED  BY <2>2, <2>3, <2>4
  <1>10. ASSUME NEW r \in Requests, ~(Working(t) /\ r = t.req)
         PROVE  Answers2(log, store', r, answer[r], answer'[r])
    BY <1>7, <1>10 DEF Answers2
  <1> QED  BY <1>9, <1>10

\* A step of the lock holder that leaves the log alone.
LEMMA HolderQuiet ==
    ASSUME IInv, log' = log, NEW m \in Machines, NEW s2 \in Store,
           store' = [store EXCEPT ![m] = s2], store[m].applied <= s2.applied,
           NEW result \in Lost \cup Closed \cup {"ok"},
           answer' = answer \/ answer' = Told(m, result),
           result = "ok" /\ Writing(task[m]) => Shows(log, s2.applied, task[m].req)
    PROVE  Quiet
  <1>1. \A n \in Machines : Onward(store[n].applied, (store[n].applied)')
    <2>1. Onward(store[m].applied, s2.applied)
      BY Turn DEF Onward, Store
    <2> QED  BY <2>1, Moved
  <1>2. \A r \in Requests : Answers2(log, store', r, answer[r], answer'[r])
    <2>1. CASE answer' = answer
      BY <2>1, Unanswered
    <2>2. CASE answer' = Told(m, result)
      BY <2>2, HolderTells
    <2> QED  BY <2>1, <2>2
  <1> QED  BY <1>1, <1>2 DEF Quiet

\* Requests arrive, are admitted, time out or are dropped.
LEMMA RequestQuiet ==
    ASSUME IInv, NEW r \in Requests,
           TakeLock(r) \/ LockExpires(r) \/ Drop(r) \/ \E m \in Machines : Arrive(r, m)
    PROVE  Quiet
  <1>1. answer \in [Requests -> Answers] /\ log' = log
    BY DEF IInv, Good, Typed, TakeLock, LockExpires, Drop, Arrive
  <1>2. answer[r] \in Open /\ \E b : b # "ok" /\ answer' = [answer EXCEPT ![r] = b]
    <2>1. CASE TakeLock(r)
      <3>1. PICK b : b = Admitted(store[host[r]], KeyOf[r])
        OBVIOUS
      <3>2. b # "ok"
        BY <3>1 DEF Admitted
      <3> QED  BY <2>1, <3>1, <3>2 DEF TakeLock, Open
    <2>2. CASE LockExpires(r)
      BY <2>2 DEF LockExpires, Open
    <2>3. CASE Drop(r)
      BY <2>3 DEF Drop, Open, Waiting
    <2>4. ASSUME NEW m \in Machines, Arrive(r, m)
          PROVE  answer[r] \in Open /\ \E b : b # "ok" /\ answer' = [answer EXCEPT ![r] = b]
      <3>1. PICK b : b = CASE Fenced(store[m]) -> "refused"
                           [] store[m].state = "enabled" /\ Cached(store[m], KeyOf[r]) -> "cached"
                           [] OTHER -> "queued"
        OBVIOUS
      <3>2. b # "ok"
        BY <3>1
      <3> QED  BY <2>4, <3>1, <3>2 DEF Arrive, Open
    <2> QED  BY <2>1, <2>2, <2>3, <2>4
  <1>3. \A q \in Requests : Answers2(log, store', q, answer[q], answer'[q])
    BY <1>1, <1>2 DEF Answers2
  <1>4. \A n \in Machines : Onward(store[n].applied, (store[n].applied)')
    <2>1. CASE store' = store
      BY <2>1, Unmoved
    <2>2. CASE TakeLock(r) /\ store' # store
      <3>1. answer[r] \in Waiting
        BY <2>2 DEF TakeLock, Waiting
      <3>2. PICK m \in Machines : m = host[r]
        BY <3>1, Served
      <3>3. PICK s \in Store : s = store[m]
        BY Turn
      <3>4. PICK s2 : s2 = [s EXCEPT !.content = Append(s.content, KeyOf[r]),
                                     !.keys = s.keys \cup {KeyOf[r]}]
        OBVIOUS
      <3>5. store' = [store EXCEPT ![m] = s2]
        BY <2>2, <3>2, <3>3, <3>4, Turn DEF TakeLock, Typed
      <3>6. Onward(s.applied, s2.applied)
        BY <3>4 DEF Onward, Store
      <3> QED  BY <3>3, <3>5, <3>6, Moved
    <2> QED  BY <2>1, <2>2 DEF LockExpires, Drop, Arrive
  <1> QED  BY <1>1, <1>3, <1>4 DEF Quiet

\* Ticks, enables and restarts.
LEMMA MachineQuiet ==
    ASSUME IInv, NEW m \in Machines, Background(m) \/ Enable(m) \/ Crash(m) \/ StartOver(m)
    PROVE  Quiet
  <1>1. log' = log
    BY DEF Background, Enable, Crash, StartOver
  <1>2. CASE Background(m) \/ Enable(m)
    <2>1. answer' = answer /\ store' = store
      BY <1>2 DEF Background, Enable, requests
    <2> QED  BY <1>1, <2>1, Unmoved, Unanswered DEF Quiet
  <1>3. CASE Crash(m) \/ StartOver(m)
    <2>1. answer' = [r \in Requests |->
              IF host[r] = m /\ answer[r] \in Waiting THEN "lost" ELSE answer[r]]
      BY <1>3 DEF Crash, StartOver
    <2>2. \A r \in Requests : Answers2(log, store', r, answer[r], answer'[r])
      BY <2>1 DEF Answers2, Waiting, Open
    <2>3. CASE Crash(m)
      <3>1. store' = store
        BY <2>3 DEF Crash
      <3> QED  BY <1>1, <2>2, <3>1, Unmoved DEF Quiet
    <2>4. CASE StartOver(m)
      <3>1. store' = [store EXCEPT ![m] = EmptyStore]
        BY <2>4 DEF StartOver
      <3>2. Onward(store[m].applied, EmptyStore.applied)
        BY DEF Onward, EmptyStore
      <3> QED  BY <1>1, <2>2, <3>1, <3>2, Moved DEF Quiet
    <2> QED  BY <1>3, <2>3, <2>4
  <1> QED  BY <1>2, <1>3

\* Catch-up reads and applies; a task that ends answers its client.
LEMMA CatchUpQuiet ==
    ASSUME IInv, NEW m \in Machines, CatchUpStep(m)
    PROVE  Quiet
  <1>1. PICK s \in Store : s = store[m]
    BY Turn
  <1>2. PICK t \in Task : t = task[m]
    BY Turn
  <1>3. log' = log /\ store \in [Machines -> Store] /\ [store EXCEPT ![m] = s] = store
    BY <1>1, Turn DEF CatchUpStep, ReadFails, ReadPage, ApplyEntry, EndPage, Typed
  <1>4. "refused" \in Lost \cup Closed \cup {"ok"}
    BY DEF Closed
  <1>5. ASSUME NEW s2 \in Store, store' = [store EXCEPT ![m] = s2], s.applied <= s2.applied,
               answer' = answer \/ answer' = Told(m, "refused")
        PROVE  Quiet
    <2>1. store[m].applied <= s2.applied
      BY <1>1, <1>5
    <2>2. PICK result \in Lost \cup Closed \cup {"ok"} : result = "refused"
      BY <1>4
    <2>3. answer' = answer \/ answer' = Told(m, result)
      BY <1>5, <2>2
    <2>4. result = "ok" /\ Writing(task[m]) => Shows(log, s2.applied, task[m].req)
      BY <2>2
    <2> QED  BY <1>3, <1>5, <2>1, <2>3, <2>4, HolderQuiet
  <1>6. s.applied <= s.applied
    BY DEF Store
  <1>7. CASE ReadFails(m)
    <2>1. answer' = Told(m, "refused") /\ store' = [store EXCEPT ![m] = s]
      BY <1>3, <1>7 DEF ReadFails
    <2> QED  BY <1>5, <1>6, <2>1
  <1>8. CASE ReadPage(m)
    <2>1. PICK seen \in Nat : seen = Observed(s)
      BY Turn DEF Observed, Max2, Store
    <2>2. PICK w \in BOOLEAN : w = (s.author \/ (s.applied > 0 /\ log[s.applied].id \in s.own))
      OBVIOUS
    <2>3. PICK s2 : s2 = [s EXCEPT !.seen = seen, !.author = w]
      OBVIOUS
    <2>4. store' = [store EXCEPT ![m] = s2] /\ answer' = answer
      BY <1>1, <1>3, <1>8, <2>1, <2>2, <2>3 DEF ReadPage, requests
    <2>5. s2 \in Store /\ s2.applied = s.applied
      BY <2>3 DEF Store
    <2> QED  BY <1>5, <1>6, <2>4, <2>5
  <1>9. CASE ApplyEntry(m)
    <2>1. PICK e : e = Next1(m)
      OBVIOUS
    <2>2. PICK s2 : s2 = CASE Applies(m, e) /\ e.kind = "change" ->
                                  Advanced(s, m, s.applied + 1, Changed(s, e))
                           [] Applies(m, e) /\ Completes(e) -> Installed(m, e)
                           [] OTHER -> s
      OBVIOUS
    <2>3. store' = [store EXCEPT ![m] = s2] /\ (answer' = answer \/ answer' = Told(m, "refused"))
      BY <1>1, <1>9, <2>1, <2>2 DEF ApplyEntry
    <2>4. IInv'
      BY <1>9, ApplyEntryStep
    <2>5. s2 \in Store
      <3>1. store' \in [Machines -> Store]
        BY <2>4 DEF IInv, Good, Typed
      <3> QED  BY <1>3, <2>3, <3>1
    <2>6. t.pc = "apply" /\ ReadOK(log, s, t)
      BY <1>1, <1>2, <1>9, Turn DEF ApplyEntry, At, MachineOK, TaskOK
    <2>7. s.applied <= t.after /\ s.applied \in Nat /\ t.after \in Nat
      BY <2>6 DEF ReadOK, Store, Task
    <2>8. \A x \in Store : \A position, content :
             Advanced(x, m, position, content).applied = position
      BY DEF Advanced, Store
    <2>9. Installed(m, e).applied = t.after + 1
      <3>1. PICK x : x = IF s.state = "disabled"
                         THEN [s EXCEPT !.state = "joining", !.seen = t.head] ELSE s
        OBVIOUS
      <3>2. x \in Store
        BY <3>1 DEF Store, Task, LogStates
      <3>3. PICK content : content = IF e.through > 0 THEN e.data ELSE s.content \o e.data
        OBVIOUS
      <3>4. Installed(m, e) = Advanced(x, m, t.after + 1, content)
        BY <1>1, <1>2, <3>1, <3>3 DEF Installed
      <3> QED  BY <2>8, <3>2, <3>4
    <2>10. s2.applied \in {s.applied, s.applied + 1, t.after + 1}
      BY <2>2, <2>8, <2>9
    <2>11. s.applied <= s2.applied
      BY <2>7, <2>10
    <2> QED  BY <1>5, <2>3, <2>5, <2>11
  <1>10. CASE EndPage(m)
    <2>1. PICK st \in LogStates : st = JoinedState(s, s.applied, t.head)
      BY DEF JoinedState, LogStates, Store
    <2>2. PICK s2 \in {s, [s EXCEPT !.state = st]} : store' = [store EXCEPT ![m] = s2]
      BY <1>1, <1>2, <1>3, <1>10, <2>1 DEF EndPage
    <2>3. s2 \in Store /\ s2.applied = s.applied
      BY <2>2 DEF Store
    <2>4. answer' = answer \/ answer' = Told(m, "refused")
      BY <1>10 DEF EndPage
    <2> QED  BY <1>5, <1>6, <2>2, <2>3, <2>4
  <1> QED  BY <1>7, <1>8, <1>9, <1>10 DEF CatchUpStep

\* A write is prepared, refused, retried, given up or committed.
LEMMA WriteQuiet ==
    ASSUME IInv, NEW m \in Machines, WriteStep(m), ~SettleCommit(m)
    PROVE  Quiet
  <1>1. PICK s \in Store : s = store[m]
    BY Turn
  <1>2. PICK t \in Task : t = task[m]
    BY Turn
  <1>3. log' = log /\ store \in [Machines -> Store] /\ [store EXCEPT ![m] = s] = store
    BY <1>1, Turn DEF WriteStep, BeginAttempt, NothingToShare, SettleHeadMoved, HeadMoved,
                      SettleUnanswered, SettleExpires, Commit, Typed
  <1>4. MachineOK(log, flight, answer, host, enables, m, s, t)
    BY <1>1, <1>2, Turn
  <1>5. \A id : Forgotten(s, id) \in Store /\ Forgotten(s, id).applied = s.applied
    <2>1. \A id : Forgotten(s, id) \in Store
      BY StoreType
    <2> QED  BY <2>1 DEF Forgotten, Store
  <1>6. ASSUME NEW s2 \in Store, store' = [store EXCEPT ![m] = s2], s2.applied = s.applied,
               NEW result \in Lost \cup Closed,
               answer' = answer \/ answer' = Told(m, result)
        PROVE  Quiet
    <2>1. store[m].applied <= s2.applied
      BY <1>1, <1>6 DEF Store
    <2>2. PICK x \in Lost \cup Closed \cup {"ok"} : x = result /\ x # "ok"
      BY <1>6 DEF Lost, Closed
    <2>3. answer' = answer \/ answer' = Told(m, x)
      BY <1>6, <2>2
    <2>4. x = "ok" /\ Writing(task[m]) => Shows(log, s2.applied, task[m].req)
      BY <2>2
    <2> QED  BY <1>3, <1>6, <2>1, <2>3, <2>4, HolderQuiet
  <1>7. "refused" \in Lost \cup Closed /\ "nothing" \in Lost \cup Closed
        /\ "unknown" \in Lost \cup Closed
    BY DEF Lost, Closed
  <1>8. CASE BeginAttempt(m) \/ SettleUnanswered(m)
    <2>1. answer' = answer
      BY <1>8 DEF BeginAttempt, SettleUnanswered, requests
    <2>2. \A n \in Machines : Onward(store[n].applied, (store[n].applied)')
      <3>1. CASE BeginAttempt(m)
        <4>1. PICK s2 : s2 = [s EXCEPT !.pending =
                    s.pending \cup {[id |-> AttemptId(t), expect |-> s.applied]}]
          OBVIOUS
        <4>2. store' = [store EXCEPT ![m] = s2]
          BY <1>1, <1>2, <1>3, <3>1, <4>1 DEF BeginAttempt
        <4>3. Onward(s.applied, s2.applied)
          BY <4>1 DEF Onward, Store
        <4> QED  BY <1>1, <4>2, <4>3, Moved
      <3>2. CASE SettleUnanswered(m)
        <4>1. store' = store
          BY <3>2 DEF SettleUnanswered
        <4> QED  BY <4>1, Unmoved
      <3> QED  BY <1>8, <3>1, <3>2
    <2> QED  BY <1>3, <2>1, <2>2, Unanswered DEF Quiet
  <1>9. CASE NothingToShare(m)
    <2>1. PICK s2 \in Store : s2 = Forgotten(s, AttemptId(t)) /\ s2.applied = s.applied
      BY <1>5
    <2>2. store' = [store EXCEPT ![m] = s2]
      BY <1>1, <1>2, <1>3, <1>9, <2>1 DEF NothingToShare
    <2>3. answer' = Told(m, "refused") \/ answer' = answer \/ answer' = Told(m, "nothing")
      BY <1>9 DEF NothingToShare, Fails, Succeeds
    <2> QED  BY <1>6, <1>7, <2>1, <2>2, <2>3
  <1>10. CASE SettleHeadMoved(m)
    <2>1. store' = [store EXCEPT ![m] = s] /\ (answer' = answer \/ answer' = Told(m, "refused"))
      BY <1>3, <1>10 DEF SettleHeadMoved, Fails
    <2> QED  BY <1>6, <1>7, <2>1
  <1>11. CASE SettleExpires(m)
    <2>1. PICK s2 \in Store : /\ s2 \in {s, Forgotten(s, AttemptId(t))}
                              /\ store' = [store EXCEPT ![m] = s2]
      BY <1>1, <1>2, <1>3, <1>5, <1>11 DEF SettleExpires
    <2>2. answer' = Told(m, "unknown") \/ answer' = Told(m, "refused")
      BY <1>11 DEF SettleExpires, ExpiredAnswer
    <2>3. s2.applied = s.applied
      BY <1>5, <2>1
    <2> QED  BY <1>6, <1>7, <2>1, <2>2, <2>3
  <1>12. CASE Commit(m)
    <2>1. t.pc = "commit"
      BY <1>2, <1>12 DEF Commit, At
    <2>2. PICK n \in Nat : n = s.applied + 1
      BY DEF Store
    <2>3. PICK s2 : s2 = [s EXCEPT !.applied = n, !.seen = Max2(s.seen, n),
                            !.content = Append(s.content, KeyOf[t.req]),
                            !.keys = s.keys \cup {KeyOf[t.req]},
                            !.own = s.own \cup {AttemptId(t)},
                            !.pending = StillPending(s, n)]
      OBVIOUS
    <2>4. store' = [store EXCEPT ![m] = s2]
      BY <1>1, <1>2, <1>3, <1>12, <2>2, <2>3 DEF Commit
    <2>5. IInv'
      BY <1>12, CommitStep
    <2>6. s2 \in Store
      <3>1. store' \in [Machines -> Store]
        BY <2>5 DEF IInv, Good, Typed
      <3> QED  BY <1>3, <2>4, <3>1
    <2>7. s2.applied = n /\ s.applied <= n
      BY <2>2, <2>3 DEF Store
    <2>8. n \in 1..n /\ log[n] = CallOf(m, s, t).entry
      BY <1>4, <2>1, <2>2, Turn DEF MachineOK, TaskOK, SendOK, Store
    <2>9. Shows(log, n, t.req)
      BY <2>8 DEF Shows, CallOf, IsChange, AttemptId
    <2>10. answer' = answer \/ answer' = Told(m, "ok")
      BY <1>12 DEF Commit, Succeeds
    <2>11. store[m].applied <= s2.applied /\ "ok" \in Lost \cup Closed \cup {"ok"}
      BY <1>1, <2>7
    <2>12. "ok" = "ok" /\ Writing(task[m]) => Shows(log, s2.applied, task[m].req)
      BY <1>2, <2>7, <2>9
    <2> QED  BY <1>3, <2>4, <2>6, <2>10, <2>11, <2>12, HolderQuiet
  <1> QED  BY <1>8, <1>9, <1>10, <1>11, <1>12 DEF WriteStep

\* Enabling plans, resumes, gives up or finishes.
LEMMA EnableQuiet ==
    ASSUME IInv, NEW m \in Machines, EnableStep(m), ~SendPart(m)
    PROVE  Quiet
  <1>1. PICK s \in Store : s = store[m]
    BY Turn
  <1>2. /\ log' = log /\ store \in [Machines -> Store] /\ [store EXCEPT ![m] = s] = store
        /\ answer' = answer
    BY <1>1, Turn DEF EnableStep, EnableHead, ResumeRead, FinishEnable, EnableFails, Typed,
                      requests
  <1>3. ASSUME NEW s2, store' = [store EXCEPT ![m] = s2], Onward(s.applied, s2.applied)
        PROVE  Quiet
    <2>1. \A n \in Machines : Onward(store[n].applied, (store[n].applied)')
      BY <1>1, <1>3, Moved
    <2> QED  BY <1>2, <2>1, Unanswered DEF Quiet
  <1>4. Onward(s.applied, s.applied)
    BY DEF Onward, Store
  <1>5. CASE EnableHead(m)
    <2>1. PICK s2 : s2 = Planned(s, task[m].after, Len(log))
      OBVIOUS
    <2>2. s2.applied = s.applied
      BY <2>1 DEF Planned, Store
    <2>3. store' \in {[store EXCEPT ![m] = s], [store EXCEPT ![m] = s2]}
      BY <1>1, <1>2, <1>5, <2>1 DEF EnableHead
    <2> QED  BY <1>3, <1>4, <2>2, <2>3
  <1>6. CASE ResumeRead(m)
    <2>1. PICK s2 : s2 = Abandoned(s)
      OBVIOUS
    <2>2. s2.applied = s.applied
      BY <2>1 DEF Abandoned, Store
    <2>3. store' \in {[store EXCEPT ![m] = s], [store EXCEPT ![m] = s2]}
      BY <1>1, <1>2, <1>6, <2>1 DEF ResumeRead
    <2> QED  BY <1>3, <1>4, <2>2, <2>3
  <1>7. CASE FinishEnable(m)
    <2>1. PICK s2 : s2 = Enabled(s)
      OBVIOUS
    <2>2. store' = [store EXCEPT ![m] = s2]
      BY <1>1, <1>2, <1>7, <2>1 DEF FinishEnable
    <2>3. s.applied = 0
      <3>1. task[m].pc = "parts" /\ HolderOK(s, task[m]) /\ StoreOK(log, s)
        BY <1>1, <1>7, Turn DEF FinishEnable, At, MachineOK
      <3> QED  BY <3>1 DEF HolderOK, StoreOK, Shares, Store
    <2>4. s2.applied = s.base + Parts
      BY <2>1 DEF Enabled, Store
    <2>5. Onward(s.applied, s2.applied)
      BY <2>3, <2>4, ConstantsAssumption DEF Onward, Store
    <2> QED  BY <1>3, <2>2, <2>5
  <1>8. CASE EnableFails(m)
    <2>1. store' = [store EXCEPT ![m] = s]
      BY <1>2, <1>8 DEF EnableFails
    <2> QED  BY <1>3, <1>4, <2>1
  <1> QED  BY <1>5, <1>6, <1>7, <1>8 DEF EnableStep

\* An append that lands adds an entry, or the log had it.
LEMMA LandingGrows ==
    ASSUME IInv, NEW c, Landed(c), c.entry \in Entry, answer' = answer, store' = store
    PROVE  Quiet \/ Grows
  <1>1. \A n \in Machines : (store[n].applied)' = store[n].applied
    OBVIOUS
  <1>2. CASE log' = log
    BY <1>2, Unmoved, Unanswered DEF Quiet
  <1>3. CASE log' = Append(log, c.entry)
    BY <1>1, <1>3 DEF Grows
  <1> QED  BY <1>2, <1>3 DEF Landed

LEMMA AppendQuietOrGrows ==
    ASSUME IInv, DeliverLate \/ \E m \in Machines : SettleCommit(m) \/ SendPart(m)
    PROVE  Quiet \/ Grows
  <1>1. CASE DeliverLate
    <2>1. PICK c \in flight :
              /\ log' = IF ~Logged(c.entry.id) /\ Len(log) = c.expect
                        THEN Append(log, c.entry) ELSE log
              /\ store' = store /\ answer' = answer
      BY <1>1 DEF DeliverLate, requests
    <2>2. c.entry \in Entry
      BY <2>1 DEF IInv, Good, Typed, AppendCall
    <2>3. CASE log' = log
      BY <2>1, <2>3, Unmoved, Unanswered DEF Quiet
    <2>4. CASE log' = Append(log, c.entry)
      <3>1. \A n \in Machines : (store[n].applied)' = store[n].applied
        BY <2>1
      <3> QED  BY <2>1, <2>2, <2>4, <3>1 DEF Grows
    <2> QED  BY <2>1, <2>3, <2>4
  <1>2. ASSUME NEW m \in Machines, SettleCommit(m) PROVE Quiet \/ Grows
    <2>1. PICK c : c = Call(m)
      OBVIOUS
    <2>2. c.entry \in Entry
      <3>1. PICK s \in Store : s = store[m]
        BY Turn
      <3>2. PICK t \in Task : t = task[m]
        BY Turn
      <3>3. c = CallOf(m, s, t)
        BY <2>1, <3>1, <3>2 DEF Call, CallOf
      <3>4. t.req \in Requests
        BY <1>2, <3>2, Turn DEF SettleCommit, At, HolderOK, Working, Writing
      <3> QED  BY <3>3, <3>4, CallType DEF AppendCall
    <2>3. Landed(c) /\ answer' = answer /\ store' = store
      BY <1>2, <2>1 DEF SettleCommit, requests
    <2> QED  BY <2>2, <2>3, LandingGrows
  <1>3. ASSUME NEW m \in Machines, SendPart(m) PROVE Quiet \/ Grows
    <2>1. PICK s \in Store : s = store[m]
      BY Turn
    <2>2. PICK k \in 1..Parts : k = task[m].after + 1
      <3>1. task[m].after \in Nat /\ Parts \in Nat /\ task[m].after + 1 <= Parts
        BY <1>3, Turn, ConstantsAssumption DEF SendPart, Task
      <3>2. task[m].after + 1 \in 1..Parts
        BY <3>1
      <3> QED  BY <3>2
    <2>3. PICK c : c = PartCall(m, k)
      OBVIOUS
    <2>4. c.entry \in Entry
      <3>1. c.entry = PartOf(m, s, k).entry
        BY <2>1, <2>3 DEF PartCall, PartOf, PartId
      <3> QED  BY <3>1, PartType DEF AppendCall
    <2>5. answer' = answer
      BY <1>3 DEF SendPart, requests
    <2>6. \/ Landed(c) /\ store' = store
          \/ log' = log /\ store' = store
          \/ log' = log /\ store' = [store EXCEPT ![m] = Abandoned(s)]
      BY <1>3, <2>1, <2>2, <2>3, Turn DEF SendPart, HeadMoved, Typed
    <2>7. CASE Landed(c) /\ store' = store
      BY <2>4, <2>5, <2>7, LandingGrows
    <2>8. CASE log' = log /\ store' = store
      BY <2>5, <2>8, Unmoved, Unanswered DEF Quiet
    <2>9. CASE log' = log /\ store' = [store EXCEPT ![m] = Abandoned(s)]
      <3>1. Onward(s.applied, Abandoned(s).applied)
        BY DEF Abandoned, Store, Onward
      <3>2. \A n \in Machines : Onward(store[n].applied, (store[n].applied)')
        BY <2>1, <2>9, <3>1, Moved
      <3> QED  BY <2>5, <2>9, <3>2, Unanswered DEF Quiet
    <2> QED  BY <2>6, <2>7, <2>8, <2>9
  <1> QED  BY <1>1, <1>2, <1>3

\* Every step of the machines is one of SharedHistory's, or does not show in it.
LEMMA StepRefines ==
    ASSUME IInv, IInv', [Next]_vars
    PROVE  History!Next
  <1>1. Quiet \/ Grows
    <2>1. ASSUME NEW m \in Machines, TaskStep(m) PROVE Quiet \/ Grows
      BY <2>1, WriteQuiet, CatchUpQuiet, EnableQuiet, AppendQuietOrGrows DEF TaskStep
    <2>2. ASSUME NEW m \in Machines, Background(m) \/ Enable(m) \/ Crash(m) \/ StartOver(m)
          PROVE  Quiet \/ Grows
      BY <2>2, MachineQuiet
    <2>3. ASSUME NEW r \in Requests,
                 TakeLock(r) \/ LockExpires(r) \/ Drop(r) \/ \E m \in Machines : Arrive(r, m)
          PROVE  Quiet \/ Grows
      BY <2>3, RequestQuiet
    <2>4. CASE DeliverLate
      BY <2>4, AppendQuietOrGrows
    <2>5. CASE UNCHANGED vars
      <3>1. log' = log /\ store' = store /\ answer' = answer
        BY <2>5 DEF vars, requests
      <3> QED  BY <3>1, Unmoved, Unanswered DEF Quiet
    <2> QED  BY <2>1, <2>2, <2>3, <2>4, <2>5 DEF Next
  <1> QED  BY <1>1, QuietTells, GrowsAccepts DEF History!Next

\* An empty log, or the snapshot of an empty store, promised nothing yet.
LEMMA HistoryStarts == Init \/ SharingInit => History!Init
  <1> SUFFICES ASSUME Init \/ SharingInit PROVE History!Init
    OBVIOUS
  <1>1. Viewed
    BY InitGood, SharingGood, HistoryViewed
  <1>2. PICK n \in Nat : n = Len(log) /\ n = Len(Writes)
    BY <1>1 DEF Viewed
  <1>3. \A i \in 1..n : ~IsChange(log[i])
    <2>1. CASE Init
      <3>1. n = 0
        BY <1>2, <2>1 DEF Init
      <3> QED  BY <3>1
    <2>2. CASE SharingInit
      <3>1. PICK m \in Machines : log = Bootstrap(m)
        BY <2>2 DEF SharingInit
      <3>2. PICK e \in Seq(Keys) : e = <<>>
        BY EmptySeq
      <3>3. PICK l : l = log
        OBVIOUS
      <3>4. l = [i \in 1..Parts |-> PartAt(m, e, i)]
        BY <3>1, <3>2, <3>3 DEF Bootstrap, PartAt, PartId
      <3>5. /\ l \in Seq(Entry) /\ Len(l) = Parts
            /\ \A i \in 1..Parts : l[i].kind = "snapshot" /\ ~IsChange(l[i]) /\ l[i].id.plan = 1
        BY <3>4, BootstrapIs
      <3> QED  BY <1>2, <3>3, <3>5
    <2> QED  BY <2>1, <2>2
  <1>4. \A i \in 1..n : Writes[i] = NoRequest
    BY <1>2, <1>3 DEF Writes
  <1>5. Promises = [r \in Requests |-> "open"]
    <2>1. answer = [r \in Requests |-> "new"]
      BY DEF Init, SharingInit
    <2> QED  BY <2>1 DEF Promises, Promise
  <1> QED  BY <1>1, <1>2, <1>4, <1>5 DEF Viewed, History!Init

\* What the machines, the log and the lost, late and repeated appends between
\* them do is what SharedHistory promises: an answered write is in the log and
\* stays applied, a refused or cached one is not and never gets there, and no
\* write is accepted twice (identity-log-contract.md section 3).
THEOREM HistoryImplemented ==
    (Spec => ImplementsHistory) /\ (SharingSpec => ImplementsHistory)
  <1>1. Init => IInv /\ History!Init
    BY InitGood, HistoryStarts
  <1>2. SharingInit => IInv /\ History!Init
    BY SharingGood, HistoryStarts
  <1>3. IInv /\ [Next]_vars => IInv'
    BY StepKeeps
  <1>4. IInv /\ IInv' /\ [Next]_vars => History!Next
    BY StepRefines
  <1> QED  BY <1>1, <1>2, <1>3, <1>4, PTL DEF Spec, SharingSpec, ImplementsHistory, History!Spec

=============================================================================
