---------------------------- MODULE ConsentProofs ----------------------------
(***************************************************************************)
(* Proofs about Consent, for every number of calls, requests, epochs,      *)
(* faults and changes by others: a request shows one card and is applied   *)
(* once, what is written and granted is what the user answered, no answer  *)
(* that was acknowledged is lost, and outcomes are final.                  *)
(*                                                                         *)
(* The invariant is said of the values of the variables, because one step  *)
(* often does two things (a row changes and its call goes on or ends), and *)
(* each of them keeps the invariant by a lemma of its own.                 *)
(***************************************************************************)
EXTENDS Consent, SequenceTheorems, WellFoundedInduction, TLAPS

-----------------------------------------------------------------------------
(* The inductive invariant.                                                *)

CardSet == [req: Requests, name: Names, epoch: Epochs, plan: Plan,
            state: Settlements \cup {"pending"}, kept: BOOLEAN]
WriteSet == [plan: Plan, by: {"card", "grant", "own", "log"}, card: Nat,
             at: Workspaces \cup {None}, misled: BOOLEAN]
World == [ws: Workspaces, staff: SUBSET Names, cap: Nat, gone: BOOLEAN]
RowSets == [Requests -> Row \cup {NoRow}]
Cursors == [Epochs -> Nat]
Feeds == [Epochs -> Seq(Nat)]

CardOf(cd, x, r) == x \in DOMAIN cd /\ cd[x].req = r

\* What a call, or a job it left behind, holds fits the cards.
JobOK(k, cd) ==
    /\ k.req \in Requests /\ k.name \in Names /\ k.epoch \in Epochs
    /\ k.pc \notin {"lease", "lost"} => k.plan \in Plan
    /\ k.card # 0 => CardOf(cd, k.card, k.req)
    /\ k.pc \in {"setid", "poll", "settle"} => k.card # 0
    /\ k.pc = "settle" => cd[k.card].state # "pending"
    /\ k.pc = "write" => k.auth # "none"
    /\ k.pc \in {"ask", "delete"} => ~k.found
    /\ k.pc \in {"page", "save", "ack", "reload"} => k.found
    /\ k.pc \in {"lease", "begin"} => k.card = 0
    /\ k.choice # "none" => k.card # 0 /\ cd[k.card].state = k.choice
    /\ ~k.found /\ k.card # 0 => cd[k.card].plan = k.plan
    /\ k.auth = "card" =>
          /\ k.card # 0 /\ cd[k.card].state \in Approvals
          /\ cd[k.card].plan = k.plan \/ (k.found /\ ~k.saved)

\* What a capture read begins at or before the cursor, and ends within the feed.
CaptureOK(k, cu, fd) ==
    /\ k.pc \in {"page", "save", "ack"} => k.cur <= cu[k.epoch]
    /\ k.pc \in {"save", "ack"} => k.next <= Len(fd[k.epoch])
    /\ k.pc = "ack" => k.next <= cu[k.epoch]

\* A call that goes on with a saved plan goes on with the plan of the card.
SavedPlan(k, cd, ml) ==
    k.saved /\ k.pc \notin {"lease", "lost"} =>
        /\ \A i \in DOMAIN cd : cd[i].req = k.req => cd[i].plan = k.plan
        /\ \A m \in ml : m.req = k.req => m.plan = k.plan

CallsOK(cl, cd, ml, cu, fd) ==
    \A c \in Calls :
        IF cl[c].pc = "idle" THEN cl[c] = Idle
        ELSE JobOK(cl[c], cd) /\ CaptureOK(cl[c], cu, fd) /\ SavedPlan(cl[c], cd, ml)
LatePlaces == (SqlPlaces \ {"reload"}) \cup {"write"}
LateOK(lt, cd, cu, fd) ==
    \A k \in lt : k.pc \in LatePlaces /\ JobOK(k, cd) /\ CaptureOK(k, cu, fd)

\* One call at a time holds a request.
Leases(cl) ==
    \A c, d \in Calls :
        c # d /\ cl[c].req = cl[d].req /\ cl[c].pc \notin {"idle", "lease"}
            => cl[d].pc \in {"idle", "lease"}

\* The call that made the row has not asked yet, or its card was refused.
Asking(k) == ~k.found /\ k.pc \in {"open", "ask", "delete"}
Unasked(r, cd, ml) ==
    (\A i \in DOMAIN cd : cd[i].req # r) /\ (\A m \in ml : m.req # r)
\* The row that x was made from is there.
Made(rs, x) ==
    /\ rs[x.req].state # "none"
    /\ rs[x.req].name = x.name /\ rs[x.req].epoch = x.epoch /\ rs[x.req].plan = x.plan

\* For each request there is one card, or one may still be made, or the row may
\* still be deleted because none was; and meanwhile there is a row.
CardsOnce(rs, cd, ml) ==
    /\ \A i, j \in DOMAIN cd : cd[i].req = cd[j].req => i = j
    /\ \A m, n \in ml : m.req = n.req => m = n
    /\ \A m \in ml, i \in DOMAIN cd : m.req # cd[i].req
    /\ \A i \in DOMAIN cd : Made(rs, cd[i])
    /\ \A m \in ml : Made(rs, m)
AsksOnce(rs, cl, lt, cd, ml) ==
    /\ \A c \in Calls : Asking(cl[c]) => Made(rs, cl[c]) /\ Unasked(cl[c].req, cd, ml)
    /\ \A k \in lt : k.pc = "delete" =>
          /\ Made(rs, k) /\ Unasked(k.req, cd, ml)
          /\ \A c \in Calls : Asking(cl[c]) => cl[c].req # k.req
          /\ \A l \in lt : l.pc = "delete" /\ l.req = k.req => l = k

\* A row knows the card of its request or none, and its answer is the card's.
RowsFit(rs, cd) ==
    \A r \in Requests : rs[r].state # "none" =>
        /\ rs[r].card # 0 => CardOf(cd, rs[r].card, r)
        /\ rs[r].answer # "none" => rs[r].card # 0 /\ cd[rs[r].card].state = rs[r].answer

\* The feed reports cards that were answered.
FeedFits(cd, fd) ==
    \A e \in Epochs : \A p \in 1..Len(fd[e]) :
        fd[e][p] \in DOMAIN cd /\ cd[fd[e][p]].state # "pending"
\* Up to the cursor every answer is saved in the row that waits for it.
AnswersSaved(rs, cd, fd, cu) ==
    \A e \in Epochs : cu[e] <= Len(fd[e]) /\ \A p \in 1..cu[e] :
        LET card == cd[fd[e][p]] IN
        card.kept /\ rs[card.req].state = "awaiting" => rs[card.req].answer = card.state

\* The outcome `applied` is that of one write.
OutcomesFit(rs, dn) ==
    \A r \in Requests :
        (\A i \in DOMAIN dn[r] : dn[r][i].by # "log") =>
            /\ Len(dn[r]) <= 1
            /\ rs[r].state = "applied" <=> dn[r] # <<>>
\* What was written by a card is what the card showed.
WritesFit(dn, cd) ==
    \A r \in Requests : \A i \in DOMAIN dn[r] :
        LET write == dn[r][i] IN
        write.by = "card" /\ ~write.misled =>
            /\ CardOf(cd, write.card, r) /\ cd[write.card].state \in Approvals
            /\ cd[write.card].plan = write.plan /\ write.at = write.plan.ws
GrantFits(gr, cd) == gr # "none" => \E i \in DOMAIN cd : cd[i].state = "always"

\* The three groups of the invariant: what there is of a request, what is known of
\* the answers, and what came of it.
Shapes(rs, cl, lt, cd, ml, fd, cu) ==
    /\ rs \in RowSets /\ cl \in [Calls -> Call] /\ lt \subseteq Call
    /\ cd \in Seq(CardSet) /\ ml \subseteq CardSet /\ fd \in Feeds /\ cu \in Cursors
Good(rs, cl, lt, cd, ml, fd, cu) ==
    /\ Shapes(rs, cl, lt, cd, ml, fd, cu)
    /\ CallsOK(cl, cd, ml, cu, fd) /\ LateOK(lt, cd, cu, fd) /\ Leases(cl)
    /\ CardsOnce(rs, cd, ml) /\ AsksOnce(rs, cl, lt, cd, ml)
    /\ RowsFit(rs, cd) /\ FeedFits(cd, fd) /\ AnswersSaved(rs, cd, fd, cu)
Results(rs, gr, dn, cd) ==
    /\ gr \in {"none", "live", "revoked"} /\ dn \in [Requests -> Seq(WriteSet)]
    /\ OutcomesFit(rs, dn) /\ WritesFit(dn, cd) /\ GrantFits(gr, cd)
Rest ==
    /\ world \in World /\ epoch \in Epochs
    /\ \A k \in flight : k \in Call /\ k.req \in Requests /\ k.plan \in Plan
    /\ acked \in Cursors /\ \A e \in Epochs : acked[e] <= cursor[e]

IInv ==
    /\ Good(rows, calls, late, cards, mail, feed, cursor)
    /\ Results(rows, grant, done, cards)
    /\ Rest

-----------------------------------------------------------------------------
(* Rows and calls as records.                                              *)

\* A row that is there is a Row.
LEMMA RowIs ==
    ASSUME NEW x \in Row \cup {NoRow}
    PROVE  /\ x = NoRow <=> x.state = "none"
           /\ x # NoRow => x \in Row /\ x.state \in {"awaiting", "applied", "refused"}
  BY DEF Row, NoRow

\* What the list of cards is.
LEMMA CardsAre ==
    ASSUME NEW cd \in Seq(CardSet)
    PROVE  /\ Len(cd) \in Nat /\ DOMAIN cd = 1..Len(cd)
           /\ \A i \in DOMAIN cd : /\ cd[i] \in CardSet /\ cd[i].req \in Requests
                                   /\ i \in Nat /\ i # 0
  <1>1. DOMAIN cd = 1..Len(cd) /\ Len(cd) \in Nat  OBVIOUS
  <1>2. \A i \in 1..Len(cd) : cd[i] \in CardSet /\ i \in Nat /\ i # 0  OBVIOUS
  <1>. QED  BY <1>1, <1>2 DEF CardSet

LEMMA IdleIs == Idle \in Call /\ Idle.pc = "idle" /\ Idle.req = None /\ ~Asking(Idle)
  BY DEF Idle, Call, Places, Asking

\* A call that goes on, starts or ends.
LEMMA CallGood ==
    ASSUME NEW rs, NEW cl, NEW lt, NEW cd, NEW ml, NEW fd, NEW cu,
           Good(rs, cl, lt, cd, ml, fd, cu), NEW c \in Calls, NEW k \in Call,
           IF k.pc = "idle" THEN k = Idle
           ELSE JobOK(k, cd) /\ CaptureOK(k, cu, fd) /\ SavedPlan(k, cd, ml),
           k.pc \notin {"idle", "lease"} =>
               \A d \in Calls \ {c} : cl[d].req = k.req => cl[d].pc \in {"idle", "lease"},
           Asking(k) => /\ Made(rs, k) /\ Unasked(k.req, cd, ml)
                        /\ \A l \in lt : l.pc = "delete" => l.req # k.req
    PROVE  Good(rs, [cl EXCEPT ![c] = k], lt, cd, ml, fd, cu)
  <1>1. PICK cl2 : cl2 = [cl EXCEPT ![c] = k]  OBVIOUS
  <1>2. cl \in [Calls -> Call]  BY DEF Good, Shapes
  <1>3. /\ cl2 \in [Calls -> Call] /\ cl2[c] = k
        /\ \A d \in Calls \ {c} : cl2[d] = cl[d]
    BY <1>1, <1>2
  <1>4. Shapes(rs, cl2, lt, cd, ml, fd, cu)  BY <1>3 DEF Good, Shapes
  <1>5. CallsOK(cl2, cd, ml, cu, fd)
    <2>1. ASSUME NEW d \in Calls
          PROVE  IF cl2[d].pc = "idle" THEN cl2[d] = Idle
                 ELSE JobOK(cl2[d], cd) /\ CaptureOK(cl2[d], cu, fd) /\ SavedPlan(cl2[d], cd, ml)
      <3>1. CASE d = c  BY <1>3, <3>1
      <3>2. CASE d # c
        <4>1. cl2[d] = cl[d]  BY <1>3, <3>2
        <4>. QED  BY <4>1 DEF Good, CallsOK
      <3>. QED  BY <3>1, <3>2
    <2>. QED  BY <2>1 DEF CallsOK
  <1>6. Leases(cl2)
    <2>1. ASSUME NEW a \in Calls, NEW b \in Calls, a # b, cl2[a].req = cl2[b].req,
                 cl2[a].pc \notin {"idle", "lease"}
          PROVE  cl2[b].pc \in {"idle", "lease"}
      <3>0. Leases(cl)  BY DEF Good
      <3>1. CASE a = c
        <4>1. b \in Calls \ {c} /\ cl2[b] = cl[b] /\ cl2[a] = k  BY <1>3, <2>1, <3>1
        <4>. QED  BY <2>1, <4>1
      <3>2. CASE b = c
        <4>1. a \in Calls \ {c} /\ cl2[a] = cl[a] /\ cl2[b] = k  BY <1>3, <2>1, <3>2
        <4>. QED  BY <2>1, <4>1
      <3>3. CASE a # c /\ b # c
        <4>1. cl2[a] = cl[a] /\ cl2[b] = cl[b]  BY <1>3, <3>3
        <4>. QED  BY <2>1, <3>0, <4>1 DEF Leases
      <3>. QED  BY <3>1, <3>2, <3>3
    <2>. QED  BY <2>1 DEF Leases
  <1>7. AsksOnce(rs, cl2, lt, cd, ml)
    <2>0. AsksOnce(rs, cl, lt, cd, ml)  BY DEF Good
    <2>1. ASSUME NEW d \in Calls, Asking(cl2[d])
          PROVE  /\ Made(rs, cl2[d]) /\ Unasked(cl2[d].req, cd, ml)
                 /\ \A l \in lt : l.pc = "delete" => l.req # cl2[d].req
      <3>1. CASE d = c  BY <1>3, <2>1, <3>1
      <3>2. CASE d # c
        <4>1. cl2[d] = cl[d]  BY <1>3, <3>2
        <4>. QED  BY <2>0, <2>1, <4>1 DEF AsksOnce
      <3>. QED  BY <3>1, <3>2
    <2>2. ASSUME NEW l \in lt, l.pc = "delete"
          PROVE  /\ Made(rs, l) /\ Unasked(l.req, cd, ml)
                 /\ \A n \in lt : n.pc = "delete" /\ n.req = l.req => n = l
      BY <2>0, <2>2 DEF AsksOnce
    <2>. QED  BY <2>1, <2>2 DEF AsksOnce
  <1>. QED  BY <1>1, <1>4, <1>5, <1>6, <1>7 DEF Good

LEMMA EndGood ==
    ASSUME NEW rs, NEW cl, NEW lt, NEW cd, NEW ml, NEW fd, NEW cu,
           Good(rs, cl, lt, cd, ml, fd, cu), NEW c \in Calls
    PROVE  Good(rs, [cl EXCEPT ![c] = Idle], lt, cd, ml, fd, cu)
  BY IdleIs, CallGood

\* A call goes on to a place of the same request where it does not ask.
LEMMA GoOnGood ==
    ASSUME NEW rs, NEW cl, NEW lt, NEW cd, NEW ml, NEW fd, NEW cu,
           Good(rs, cl, lt, cd, ml, fd, cu), NEW c \in Calls, NEW k \in Call,
           cl[c].pc \notin {"idle", "lease"}, k.req = cl[c].req,
           k.pc # "idle", JobOK(k, cd), CaptureOK(k, cu, fd), SavedPlan(k, cd, ml), ~Asking(k)
    PROVE  Good(rs, [cl EXCEPT ![c] = k], lt, cd, ml, fd, cu)
  <1>1. \A d \in Calls \ {c} : cl[d].req = k.req => cl[d].pc \in {"idle", "lease"}
    BY DEF Good, Leases
  <1>. QED  BY <1>1, CallGood

-----------------------------------------------------------------------------
(* Rows.                                                                   *)

RowFits(x, r, cd) ==
    /\ x.card # 0 => CardOf(cd, x.card, r)
    /\ x.answer # "none" => x.card # 0 /\ cd[x.card].state = x.answer

\* What may become of a row: an open one, or none, becomes one that fits the cards
\* and keeps its arguments, its plan and its answer.
RowGoesOn(x, y, r, cd) ==
    \/ y = x
    \/ /\ x.state \in {"none", "awaiting"} /\ y \in Row /\ RowFits(y, r, cd)
       /\ x.state = "awaiting" =>
             /\ y.name = x.name /\ y.epoch = x.epoch /\ y.plan = x.plan
             /\ x.answer # "none" => y.answer = x.answer
RowsGoOn(rs, rs2, cd) ==
    rs2 \in RowSets /\ \A r \in Requests : RowGoesOn(rs[r], rs2[r], r, cd)

LEMMA MadeKept ==
    ASSUME NEW rs, NEW rs2, NEW cd, NEW x, rs \in RowSets, RowsGoOn(rs, rs2, cd),
           x.req \in Requests, Made(rs, x)
    PROVE  Made(rs2, x)
  <1>1. rs[x.req] \in Row \cup {NoRow} /\ rs[x.req].state # "none"
    BY DEF RowSets, Made
  <1>2. RowGoesOn(rs[x.req], rs2[x.req], x.req, cd)  BY DEF RowsGoOn
  <1>. QED  BY <1>1, <1>2, RowIs DEF RowGoesOn, Made, Row

LEMMA RowsGood ==
    ASSUME NEW rs, NEW cl, NEW lt, NEW cd, NEW ml, NEW fd, NEW cu,
           Good(rs, cl, lt, cd, ml, fd, cu), NEW rs2, RowsGoOn(rs, rs2, cd)
    PROVE  Good(rs2, cl, lt, cd, ml, fd, cu)
  <1>1. Shapes(rs, cl, lt, cd, ml, fd, cu) /\ rs \in RowSets /\ rs2 \in RowSets
    BY DEF Good, Shapes, RowsGoOn
  <1>2. Shapes(rs2, cl, lt, cd, ml, fd, cu)  BY <1>1 DEF Shapes
  <1>3. \A x : x.req \in Requests /\ Made(rs, x) => Made(rs2, x)  BY <1>1, MadeKept
  <1>4. \A i \in DOMAIN cd : cd[i] \in CardSet /\ cd[i].req \in Requests
    BY <1>1, CardsAre DEF Shapes
  <1>5. \A m \in ml : m.req \in Requests  BY <1>1 DEF Shapes, CardSet
  <1>6. CardsOnce(rs2, cd, ml)  BY <1>3, <1>4, <1>5 DEF Good, CardsOnce
  <1>7. \A c \in Calls : Asking(cl[c]) => cl[c].req \in Requests
    BY DEF Good, CallsOK, Asking, JobOK
  <1>8. \A k \in lt : k.req \in Requests  BY DEF Good, LateOK, JobOK
  <1>9. AsksOnce(rs2, cl, lt, cd, ml)  BY <1>3, <1>7, <1>8 DEF Good, AsksOnce
  <1>10. RowsFit(rs2, cd)
    <2>1. ASSUME NEW r \in Requests, rs2[r].state # "none" PROVE RowFits(rs2[r], r, cd)
      <3>1. RowGoesOn(rs[r], rs2[r], r, cd)  BY DEF RowsGoOn
      <3>2. CASE rs2[r] = rs[r]  BY <2>1, <3>2 DEF Good, RowsFit, RowFits
      <3>. QED  BY <3>1, <3>2 DEF RowGoesOn
    <2>. QED  BY <2>1 DEF RowsFit, RowFits
  <1>11. AnswersSaved(rs2, cd, fd, cu)
    <2>0. AnswersSaved(rs, cd, fd, cu) /\ FeedFits(cd, fd) /\ CardsOnce(rs, cd, ml)  BY DEF Good
    <2>1. ASSUME NEW e \in Epochs, NEW p \in 1..cu[e], cd[fd[e][p]].kept,
                 rs2[cd[fd[e][p]].req].state = "awaiting"
          PROVE  rs2[cd[fd[e][p]].req].answer = cd[fd[e][p]].state
      <3>1. PICK i : i = fd[e][p]  OBVIOUS
      <3>2. PICK r : r = cd[i].req  OBVIOUS
      <3>3. cu[e] \in Nat /\ cu[e] <= Len(fd[e]) /\ Len(fd[e]) \in Nat
        BY <1>1, <2>0 DEF AnswersSaved, Shapes, Cursors, Feeds
      <3>4. p \in 1..Len(fd[e])  BY <3>3
      <3>5. i \in DOMAIN cd /\ cd[i].state # "pending"  BY <2>0, <3>1, <3>4 DEF FeedFits
      <3>6. r \in Requests /\ cd[i].state \in Settlements  BY <1>4, <3>2, <3>5 DEF CardSet
      <3>7. rs[r].state # "none"  BY <2>0, <3>2, <3>5 DEF CardsOnce, Made
      <3>8. rs[r] \in Row  BY <1>1, <3>6, <3>7, RowIs DEF RowSets
      <3>9. RowGoesOn(rs[r], rs2[r], r, cd)  BY <3>6 DEF RowsGoOn
      <3>10. rs[r].state = "awaiting"  BY <2>1, <3>1, <3>2, <3>7, <3>9 DEF RowGoesOn
      <3>11. rs[r].answer = cd[i].state  BY <2>0, <2>1, <3>1, <3>2, <3>10 DEF AnswersSaved
      <3>12. rs[r].answer # "none"  BY <3>6, <3>11 DEF Settlements, Approvals
      <3>. QED  BY <3>1, <3>2, <3>9, <3>10, <3>11, <3>12 DEF RowGoesOn
    <2>. QED  BY <2>0, <2>1 DEF AnswersSaved
  <1>. QED  BY <1>2, <1>6, <1>9, <1>10, <1>11 DEF Good

\* A row for which no card was made is deleted.
LEMMA DeletedGood ==
    ASSUME NEW rs, NEW cl, NEW lt, NEW cd, NEW ml, NEW fd, NEW cu,
           Good(rs, cl, lt, cd, ml, fd, cu), NEW r \in Requests, Unasked(r, cd, ml),
           \A c \in Calls : Asking(cl[c]) => cl[c].req # r,
           \A k \in lt : k.pc = "delete" => k.req # r
    PROVE  Good([rs EXCEPT ![r] = NoRow], cl, lt, cd, ml, fd, cu)
  <1>1. PICK rs2 : rs2 = [rs EXCEPT ![r] = NoRow]  OBVIOUS
  <1>2. Shapes(rs, cl, lt, cd, ml, fd, cu) /\ rs \in RowSets  BY DEF Good, Shapes
  <1>3. /\ rs2 \in RowSets /\ rs2[r] = NoRow
        /\ \A q \in Requests \ {r} : rs2[q] = rs[q]
    BY <1>1, <1>2 DEF RowSets
  <1>4. \A x : x.req \in Requests /\ x.req # r /\ Made(rs, x) => Made(rs2, x)
    BY <1>3 DEF Made
  <1>5. \A i \in DOMAIN cd : cd[i].req \in Requests  BY <1>2, CardsAre DEF Shapes
  <1>6. \A m \in ml : m.req \in Requests  BY <1>2 DEF Shapes, CardSet
  <1>7. \A c \in Calls : Asking(cl[c]) => cl[c].req \in Requests
    BY DEF Good, CallsOK, Asking, JobOK
  <1>8. \A k \in lt : k.req \in Requests  BY DEF Good, LateOK, JobOK
  <1>9. Shapes(rs2, cl, lt, cd, ml, fd, cu)  BY <1>2, <1>3 DEF Shapes
  <1>10. CardsOnce(rs2, cd, ml)  BY <1>4, <1>5, <1>6 DEF Good, CardsOnce, Unasked
  <1>11. AsksOnce(rs2, cl, lt, cd, ml)  BY <1>4, <1>7, <1>8 DEF Good, AsksOnce
  <1>12. RowsFit(rs2, cd)
    <2>1. ASSUME NEW q \in Requests, rs2[q].state # "none"
          PROVE  RowFits(rs2[q], q, cd)
      <3>1. q # r  BY <1>3, <2>1 DEF NoRow
      <3>. QED  BY <1>3, <2>1, <3>1 DEF Good, RowsFit, RowFits
    <2>. QED  BY <2>1 DEF RowsFit, RowFits
  <1>13. AnswersSaved(rs2, cd, fd, cu)
    <2>0. AnswersSaved(rs, cd, fd, cu) /\ FeedFits(cd, fd)  BY DEF Good
    <2>1. ASSUME NEW e \in Epochs, NEW p \in 1..cu[e]
          PROVE  rs2[cd[fd[e][p]].req] = rs[cd[fd[e][p]].req]
      <3>1. cu[e] \in Nat /\ cu[e] <= Len(fd[e]) /\ Len(fd[e]) \in Nat
        BY <1>2, <2>0 DEF AnswersSaved, Shapes, Cursors, Feeds
      <3>2. p \in 1..Len(fd[e])  BY <3>1
      <3>3. fd[e][p] \in DOMAIN cd  BY <2>0, <3>2 DEF FeedFits
      <3>4. cd[fd[e][p]].req \in Requests \ {r}  BY <1>5, <3>3 DEF Unasked
      <3>. QED  BY <1>3, <3>4
    <2>. QED  BY <2>0, <2>1 DEF AnswersSaved
  <1>. QED  BY <1>1, <1>9, <1>10, <1>11, <1>12, <1>13 DEF Good

-----------------------------------------------------------------------------
(* Jobs that outlive their call, and card requests nobody waits for.       *)

LEMMA LateGood ==
    ASSUME NEW rs, NEW cl, NEW lt, NEW cd, NEW ml, NEW fd, NEW cu,
           Good(rs, cl, lt, cd, ml, fd, cu), NEW k \in Call,
           k.pc \in LatePlaces, JobOK(k, cd), CaptureOK(k, cu, fd),
           k.pc = "delete" =>
               /\ Made(rs, k) /\ Unasked(k.req, cd, ml)
               /\ \A c \in Calls : Asking(cl[c]) => cl[c].req # k.req
               /\ \A l \in lt : l.pc = "delete" => l.req # k.req
    PROVE  Good(rs, cl, lt \cup {k}, cd, ml, fd, cu)
  <1>1. Shapes(rs, cl, lt \cup {k}, cd, ml, fd, cu)  BY DEF Good, Shapes
  <1>2. LateOK(lt \cup {k}, cd, cu, fd)  BY DEF Good, LateOK
  <1>3. AsksOnce(rs, cl, lt \cup {k}, cd, ml)  BY DEF Good, AsksOnce
  <1>. QED  BY <1>1, <1>2, <1>3 DEF Good

LEMMA LateDoneGood ==
    ASSUME NEW rs, NEW cl, NEW lt, NEW cd, NEW ml, NEW fd, NEW cu,
           Good(rs, cl, lt, cd, ml, fd, cu), NEW lt2 \in SUBSET lt
    PROVE  Good(rs, cl, lt2, cd, ml, fd, cu)
  BY DEF Good, Shapes, LateOK, AsksOnce

LEMMA MailLostGood ==
    ASSUME NEW rs, NEW cl, NEW lt, NEW cd, NEW ml, NEW fd, NEW cu,
           Good(rs, cl, lt, cd, ml, fd, cu), NEW ml2 \in SUBSET ml
    PROVE  Good(rs, cl, lt, cd, ml2, fd, cu)
  <1>1. Shapes(rs, cl, lt, cd, ml2, fd, cu)  BY DEF Good, Shapes
  <1>2. CallsOK(cl, cd, ml2, cu, fd)  BY DEF Good, CallsOK, SavedPlan
  <1>3. CardsOnce(rs, cd, ml2)  BY DEF Good, CardsOnce
  <1>4. AsksOnce(rs, cl, lt, cd, ml2)  BY DEF Good, AsksOnce, Unasked
  <1>. QED  BY <1>1, <1>2, <1>3, <1>4 DEF Good

\* A card, or a request for one, may be made: there is none, nobody else asks, and the
\* row is there.
MayAsk(rs, cl, lt, cd, ml, x) ==
    /\ Made(rs, x) /\ Unasked(x.req, cd, ml)
    /\ \A c \in Calls : Asking(cl[c]) => cl[c].req # x.req
    /\ \A l \in lt : l.pc = "delete" => l.req # x.req
    /\ \A c \in Calls :
          cl[c].saved /\ cl[c].pc \notin {"idle", "lease", "lost"} /\ cl[c].req = x.req
              => cl[c].plan = x.plan

LEMMA MailSentGood ==
    ASSUME NEW rs, NEW cl, NEW lt, NEW cd, NEW ml, NEW fd, NEW cu,
           Good(rs, cl, lt, cd, ml, fd, cu), NEW x \in CardSet,
           MayAsk(rs, cl, lt, cd, ml, x)
    PROVE  Good(rs, cl, lt, cd, ml \cup {x}, fd, cu)
  <1>1. Shapes(rs, cl, lt, cd, ml \cup {x}, fd, cu)  BY DEF Good, Shapes
  <1>2. CallsOK(cl, cd, ml \cup {x}, cu, fd)
    <2>1. ASSUME NEW c \in Calls, cl[c].pc # "idle", SavedPlan(cl[c], cd, ml)
          PROVE  SavedPlan(cl[c], cd, ml \cup {x})
      BY <2>1 DEF MayAsk, SavedPlan
    <2>. QED  BY <2>1 DEF Good, CallsOK
  <1>3. CardsOnce(rs, cd, ml \cup {x})  BY DEF Good, CardsOnce, MayAsk, Unasked
  <1>4. AsksOnce(rs, cl, lt, cd, ml \cup {x})  BY DEF Good, AsksOnce, Unasked, MayAsk
  <1>. QED  BY <1>1, <1>2, <1>3, <1>4 DEF Good

-----------------------------------------------------------------------------
(* Cards and answers.                                                      *)

\* Cards stay what they are about, an answer stays, and none comes back.
CardsStay(cd, cd2) ==
    /\ cd2 \in Seq(CardSet)
    /\ \A i \in DOMAIN cd :
          /\ i \in DOMAIN cd2
          /\ cd2[i].req = cd[i].req /\ cd2[i].name = cd[i].name
          /\ cd2[i].epoch = cd[i].epoch /\ cd2[i].plan = cd[i].plan
          /\ cd[i].state # "pending" => cd2[i].state = cd[i].state
          /\ cd2[i].kept => cd[i].kept

LEMMA JobStays ==
    ASSUME NEW cd, NEW cd2, CardsStay(cd, cd2), NEW k \in Call, JobOK(k, cd)
    PROVE  JobOK(k, cd2)
  <1>1. k.choice # "none" => k.choice # "pending"  BY DEF Call, Approvals
  <1>2. "pending" \notin Approvals  BY DEF Approvals
  <1>3. k.card # 0 => /\ k.card \in DOMAIN cd /\ cd2[k.card].req = cd[k.card].req
                      /\ cd2[k.card].plan = cd[k.card].plan /\ k.card \in DOMAIN cd2
                      /\ cd[k.card].state # "pending" => cd2[k.card].state = cd[k.card].state
    BY DEF JobOK, CardOf, CardsStay
  <1>4. k.card # 0 => CardOf(cd2, k.card, k.req)  BY <1>3 DEF JobOK, CardOf
  <1>5. k.pc = "settle" => cd2[k.card].state # "pending"  BY <1>3 DEF JobOK
  <1>6. k.choice # "none" => k.card # 0 /\ cd2[k.card].state = k.choice
    BY <1>1, <1>3 DEF JobOK
  <1>7. ~k.found /\ k.card # 0 => cd2[k.card].plan = k.plan  BY <1>3 DEF JobOK
  <1>8. k.auth = "card" =>
          /\ k.card # 0 /\ cd2[k.card].state \in Approvals
          /\ cd2[k.card].plan = k.plan \/ (k.found /\ ~k.saved)
    BY <1>2, <1>3 DEF JobOK
  <1>. QED  BY <1>4, <1>5, <1>6, <1>7, <1>8 DEF JobOK

LEMMA RowStays ==
    ASSUME NEW cd, NEW cd2, CardsStay(cd, cd2), NEW x \in Row, NEW r, RowFits(x, r, cd)
    PROVE  RowFits(x, r, cd2)
  <1>1. x.answer # "none" => x.answer # "pending"  BY DEF Row, Settlements, Approvals
  <1>. QED  BY <1>1 DEF RowFits, CardOf, CardsStay

LEMMA FeedStays ==
    ASSUME NEW cd, NEW cd2, CardsStay(cd, cd2), NEW fd, FeedFits(cd, fd)
    PROVE  FeedFits(cd2, fd)
  BY DEF FeedFits, CardsStay

LEMMA AnswersStay ==
    ASSUME NEW rs, NEW cd, NEW cd2, CardsStay(cd, cd2), NEW fd \in Feeds, FeedFits(cd, fd),
           NEW cu \in Cursors, AnswersSaved(rs, cd, fd, cu)
    PROVE  AnswersSaved(rs, cd2, fd, cu)
  <1>1. ASSUME NEW e \in Epochs, NEW p \in 1..cu[e]
        PROVE  /\ cd2[fd[e][p]].req = cd[fd[e][p]].req
               /\ cd2[fd[e][p]].state = cd[fd[e][p]].state
               /\ cd2[fd[e][p]].kept => cd[fd[e][p]].kept
    <2>1. cu[e] \in Nat /\ cu[e] <= Len(fd[e]) /\ Len(fd[e]) \in Nat
      BY DEF AnswersSaved, Cursors, Feeds
    <2>2. p \in 1..Len(fd[e])  BY <2>1
    <2>3. fd[e][p] \in DOMAIN cd /\ cd[fd[e][p]].state # "pending"  BY <2>2 DEF FeedFits
    <2>. QED  BY <2>3 DEF CardsStay
  <1>. QED  BY <1>1 DEF AnswersSaved

LEMMA MadeStays ==
    ASSUME NEW rs, NEW cd, NEW cd2, CardsStay(cd, cd2), NEW i \in DOMAIN cd, Made(rs, cd[i])
    PROVE  Made(rs, cd2[i])
  BY DEF Made, CardsStay

\* A card is answered, or forgotten.
LEMMA CardsGood ==
    ASSUME NEW rs, NEW cl, NEW lt, NEW cd, NEW ml, NEW fd, NEW cu,
           Good(rs, cl, lt, cd, ml, fd, cu), NEW cd2, CardsStay(cd, cd2),
           DOMAIN cd2 = DOMAIN cd
    PROVE  Good(rs, cl, lt, cd2, ml, fd, cu)
  <1>1. Shapes(rs, cl, lt, cd, ml, fd, cu) /\ rs \in RowSets /\ fd \in Feeds /\ cu \in Cursors
    BY DEF Good, Shapes
  <1>2. Shapes(rs, cl, lt, cd2, ml, fd, cu)  BY <1>1 DEF Shapes, CardsStay
  <1>3. CallsOK(cl, cd2, ml, cu, fd)
    <2>1. ASSUME NEW c \in Calls, cl[c].pc # "idle"
          PROVE  JobOK(cl[c], cd2) /\ CaptureOK(cl[c], cu, fd) /\ SavedPlan(cl[c], cd2, ml)
      <3>1. cl[c] \in Call  BY <1>1 DEF Shapes
      <3>2. JobOK(cl[c], cd) /\ CaptureOK(cl[c], cu, fd) /\ SavedPlan(cl[c], cd, ml)
        BY <2>1 DEF Good, CallsOK
      <3>3. SavedPlan(cl[c], cd2, ml)  BY <3>2 DEF SavedPlan, CardsStay
      <3>. QED  BY <3>1, <3>2, <3>3, JobStays
    <2>. QED  BY <2>1 DEF Good, CallsOK
  <1>4. LateOK(lt, cd2, cu, fd)  BY <1>1, JobStays DEF Good, LateOK, Shapes
  <1>5. CardsOnce(rs, cd2, ml)
    <2>1. CardsOnce(rs, cd, ml)  BY DEF Good
    <2>2. \A i \in DOMAIN cd2 : Made(rs, cd2[i])  BY <2>1, MadeStays DEF CardsOnce
    <2>3. \A i \in DOMAIN cd2 : cd2[i].req = cd[i].req  BY DEF CardsStay
    <2>. QED  BY <2>1, <2>2, <2>3 DEF CardsOnce
  <1>6. AsksOnce(rs, cl, lt, cd2, ml)
    <2>1. \A r : Unasked(r, cd, ml) => Unasked(r, cd2, ml)  BY DEF Unasked, CardsStay
    <2>. QED  BY <2>1 DEF Good, AsksOnce
  <1>7. RowsFit(rs, cd2)
    <2>1. ASSUME NEW r \in Requests, rs[r].state # "none" PROVE RowFits(rs[r], r, cd2)
      <3>1. rs[r] \in Row  BY <1>1, <2>1, RowIs DEF RowSets
      <3>2. RowFits(rs[r], r, cd)  BY <2>1 DEF Good, RowsFit, RowFits
      <3>. QED  BY <3>1, <3>2, RowStays
    <2>. QED  BY <2>1 DEF RowsFit, RowFits
  <1>8. FeedFits(cd2, fd)  BY FeedStays DEF Good
  <1>9. AnswersSaved(rs, cd2, fd, cu)  BY <1>1, AnswersStay DEF Good
  <1>. QED  BY <1>2, <1>3, <1>4, <1>5, <1>6, <1>7, <1>8, <1>9 DEF Good

\* A card is shown.
LEMMA AppendedCard ==
    ASSUME NEW cd \in Seq(CardSet), NEW x \in CardSet
    PROVE  /\ CardsStay(cd, Append(cd, x))
           /\ DOMAIN Append(cd, x) = DOMAIN cd \cup {Len(cd) + 1}
           /\ Append(cd, x)[Len(cd) + 1] = x
           /\ \A i \in DOMAIN cd : Append(cd, x)[i] = cd[i]
           /\ Len(cd) + 1 \notin DOMAIN cd
  <1>1. Append(cd, x) \in Seq(CardSet) /\ Len(Append(cd, x)) = Len(cd) + 1  OBVIOUS
  <1>2. DOMAIN cd = 1..Len(cd) /\ Len(cd) \in Nat  OBVIOUS
  <1>3. DOMAIN Append(cd, x) = 1..(Len(cd) + 1)  BY <1>1
  <1>4. \A i \in 1..Len(cd) : Append(cd, x)[i] = cd[i]  OBVIOUS
  <1>5. Append(cd, x)[Len(cd) + 1] = x  OBVIOUS
  <1>6. DOMAIN Append(cd, x) = DOMAIN cd \cup {Len(cd) + 1}  BY <1>2, <1>3
  <1>7. Len(cd) + 1 \notin DOMAIN cd  BY <1>2
  <1>8. CardsStay(cd, Append(cd, x))  BY <1>1, <1>2, <1>4, <1>6 DEF CardsStay
  <1>. QED  BY <1>2, <1>4, <1>5, <1>6, <1>7, <1>8

LEMMA ShownGood ==
    ASSUME NEW rs, NEW cl, NEW lt, NEW cd, NEW ml, NEW fd, NEW cu,
           Good(rs, cl, lt, cd, ml, fd, cu), NEW x \in CardSet,
           MayAsk(rs, cl, lt, cd, ml, x)
    PROVE  Good(rs, cl, lt, Append(cd, x), ml, fd, cu)
  <1>1. Shapes(rs, cl, lt, cd, ml, fd, cu) /\ rs \in RowSets /\ fd \in Feeds /\ cu \in Cursors
        /\ cd \in Seq(CardSet)
    BY DEF Good, Shapes
  <1>2. PICK cd2 : cd2 = Append(cd, x)  OBVIOUS
  <1>3. /\ CardsStay(cd, cd2) /\ DOMAIN cd2 = DOMAIN cd \cup {Len(cd) + 1}
        /\ cd2[Len(cd) + 1] = x /\ \A i \in DOMAIN cd : cd2[i] = cd[i]
        /\ Len(cd) + 1 \notin DOMAIN cd
    BY <1>1, <1>2, AppendedCard
  <1>4. Shapes(rs, cl, lt, cd2, ml, fd, cu)  BY <1>1, <1>3 DEF Shapes, CardsStay
  <1>5. CallsOK(cl, cd2, ml, cu, fd)
    <2>1. ASSUME NEW c \in Calls, cl[c].pc # "idle"
          PROVE  JobOK(cl[c], cd2) /\ CaptureOK(cl[c], cu, fd) /\ SavedPlan(cl[c], cd2, ml)
      <3>1. cl[c] \in Call  BY <1>1 DEF Shapes
      <3>2. JobOK(cl[c], cd) /\ CaptureOK(cl[c], cu, fd) /\ SavedPlan(cl[c], cd, ml)
        BY <2>1 DEF Good, CallsOK
      <3>3. SavedPlan(cl[c], cd2, ml)  BY <1>3, <2>1, <3>2 DEF SavedPlan, MayAsk
      <3>. QED  BY <1>3, <3>1, <3>2, <3>3, JobStays
    <2>. QED  BY <2>1 DEF Good, CallsOK
  <1>6. LateOK(lt, cd2, cu, fd)  BY <1>1, <1>3, JobStays DEF Good, LateOK, Shapes
  <1>7. CardsOnce(rs, cd2, ml)  BY <1>3 DEF Good, CardsOnce, MayAsk, Unasked
  <1>8. AsksOnce(rs, cl, lt, cd2, ml)
    <2>1. \A r : r # x.req /\ Unasked(r, cd, ml) => Unasked(r, cd2, ml)
      BY <1>3 DEF Unasked
    <2>. QED  BY <2>1 DEF Good, AsksOnce, MayAsk
  <1>9. RowsFit(rs, cd2)
    <2>1. ASSUME NEW r \in Requests, rs[r].state # "none" PROVE RowFits(rs[r], r, cd2)
      <3>1. rs[r] \in Row  BY <1>1, <2>1, RowIs DEF RowSets
      <3>2. RowFits(rs[r], r, cd)  BY <2>1 DEF Good, RowsFit, RowFits
      <3>. QED  BY <1>3, <3>1, <3>2, RowStays
    <2>. QED  BY <2>1 DEF RowsFit, RowFits
  <1>10. FeedFits(cd2, fd)  BY <1>3, FeedStays DEF Good
  <1>11. AnswersSaved(rs, cd2, fd, cu)  BY <1>1, <1>3, AnswersStay DEF Good
  <1>. QED  BY <1>2, <1>4, <1>5, <1>6, <1>7, <1>8, <1>9, <1>10, <1>11 DEF Good

\* An answer is reported.
LEMMA ReportedGood ==
    ASSUME NEW rs, NEW cl, NEW lt, NEW cd, NEW ml, NEW fd, NEW cu,
           Good(rs, cl, lt, cd, ml, fd, cu), NEW e \in Epochs, NEW i \in DOMAIN cd,
           cd[i].state # "pending"
    PROVE  Good(rs, cl, lt, cd, ml, [fd EXCEPT ![e] = Append(@, i)], cu)
  <1>1. Shapes(rs, cl, lt, cd, ml, fd, cu) /\ fd \in Feeds /\ cu \in Cursors
        /\ cl \in [Calls -> Call] /\ lt \subseteq Call /\ i \in Nat
    BY CardsAre DEF Good, Shapes
  <1>2. PICK s \in Seq(Nat) : s = fd[e]  BY <1>1 DEF Feeds
  <1>3. PICK t : t = Append(s, i)  OBVIOUS
  <1>4. /\ t \in Seq(Nat) /\ Len(t) = Len(s) + 1 /\ Len(s) \in Nat /\ t[Len(s) + 1] = i
        /\ \A p \in 1..Len(s) : t[p] = s[p]
    BY <1>1, <1>3
  <1>5. PICK fd2 : fd2 = [fd EXCEPT ![e] = t]  OBVIOUS
  <1>6. /\ fd2 \in Feeds /\ fd2[e] = t /\ \A f \in Epochs \ {e} : fd2[f] = fd[f]
    BY <1>1, <1>4, <1>5 DEF Feeds
  <1>7. \A f \in Epochs : /\ Len(fd[f]) \in Nat /\ Len(fd2[f]) \in Nat
                          /\ Len(fd[f]) <= Len(fd2[f])
                          /\ \A p \in 1..Len(fd[f]) : fd2[f][p] = fd[f][p]
                          /\ \A p \in 1..Len(fd2[f]) :
                                p \in 1..Len(fd[f]) \/ fd2[f][p] = i
    <2>1. ASSUME NEW f \in Epochs
          PROVE  /\ Len(fd[f]) \in Nat /\ Len(fd2[f]) \in Nat
                 /\ Len(fd[f]) <= Len(fd2[f])
                 /\ \A p \in 1..Len(fd[f]) : fd2[f][p] = fd[f][p]
                 /\ \A p \in 1..Len(fd2[f]) : p \in 1..Len(fd[f]) \/ fd2[f][p] = i
      <3>1. CASE f = e  BY <1>2, <1>4, <1>6, <3>1
      <3>2. CASE f # e
        <4>1. fd2[f] = fd[f] /\ Len(fd[f]) \in Nat  BY <1>1, <1>6, <3>2 DEF Feeds
        <4>. QED  BY <4>1
      <3>. QED  BY <3>1, <3>2
    <2>. QED  BY <2>1
  <1>8. Shapes(rs, cl, lt, cd, ml, fd2, cu)  BY <1>1, <1>6 DEF Shapes
  <1>9. \A k \in Call : k.epoch \in Epochs /\ CaptureOK(k, cu, fd) => CaptureOK(k, cu, fd2)
    <2>1. ASSUME NEW k \in Call, k.epoch \in Epochs, CaptureOK(k, cu, fd)
          PROVE  CaptureOK(k, cu, fd2)
      <3>1. k.next \in Nat  BY DEF Call
      <3>. QED  BY <1>7, <2>1, <3>1 DEF CaptureOK
    <2>. QED  BY <2>1
  <1>10. CallsOK(cl, cd, ml, cu, fd2)
    <2>1. \A c \in Calls : cl[c] \in Call  BY <1>1
    <2>. QED  BY <1>9, <2>1 DEF Good, CallsOK, JobOK
  <1>11. LateOK(lt, cd, cu, fd2)  BY <1>1, <1>9 DEF Good, LateOK, JobOK
  <1>12. FeedFits(cd, fd2)
    <2>1. ASSUME NEW f \in Epochs, NEW p \in 1..Len(fd2[f])
          PROVE  fd2[f][p] \in DOMAIN cd /\ cd[fd2[f][p]].state # "pending"
      <3>1. CASE fd2[f][p] = i  BY <3>1
      <3>2. CASE p \in 1..Len(fd[f])
        <4>1. fd2[f][p] = fd[f][p]  BY <1>7, <3>2
        <4>. QED  BY <3>2, <4>1 DEF Good, FeedFits
      <3>. QED  BY <1>7, <3>1, <3>2
    <2>. QED  BY <2>1 DEF FeedFits
  <1>13. AnswersSaved(rs, cd, fd2, cu)
    <2>1. ASSUME NEW f \in Epochs
          PROVE  cu[f] <= Len(fd2[f]) /\ \A p \in 1..cu[f] : fd2[f][p] = fd[f][p]
      <3>1. cu[f] \in Nat /\ cu[f] <= Len(fd[f])  BY <1>1 DEF Good, AnswersSaved, Cursors
      <3>. QED  BY <1>7, <3>1
    <2>. QED  BY <2>1 DEF Good, AnswersSaved
  <1>. QED  BY <1>2, <1>3, <1>5, <1>8, <1>10, <1>11, <1>12, <1>13 DEF Good

\* The cursor moves on to a place up to which every answer is saved.
AnswerSaved(rs, cd, i) ==
    cd[i].kept /\ rs[cd[i].req].state = "awaiting" => rs[cd[i].req].answer = cd[i].state

LEMMA CursorGood ==
    ASSUME NEW rs, NEW cl, NEW lt, NEW cd, NEW ml, NEW fd, NEW cu,
           Good(rs, cl, lt, cd, ml, fd, cu), NEW e \in Epochs, NEW n \in Nat,
           n <= Len(fd[e]), \A p \in 1..n : AnswerSaved(rs, cd, fd[e][p])
    PROVE  /\ Good(rs, cl, lt, cd, ml, fd, [cu EXCEPT ![e] = Larger(@, n)])
           /\ [cu EXCEPT ![e] = Larger(@, n)] \in Cursors
           /\ \A f \in Epochs : cu[f] <= [cu EXCEPT ![e] = Larger(@, n)][f]
           /\ n <= [cu EXCEPT ![e] = Larger(@, n)][e]
  <1>1. Shapes(rs, cl, lt, cd, ml, fd, cu) /\ fd \in Feeds /\ cu \in Cursors
        /\ cl \in [Calls -> Call] /\ lt \subseteq Call
    BY DEF Good, Shapes
  <1>2. cu[e] \in Nat  BY <1>1 DEF Cursors
  <1>3. PICK x : x = Larger(cu[e], n)  OBVIOUS
  <1>4. x \in {cu[e], n} /\ cu[e] <= x /\ n <= x /\ x \in Nat  BY <1>2, <1>3 DEF Larger
  <1>5. PICK cu2 : cu2 = [cu EXCEPT ![e] = x]  OBVIOUS
  <1>6. cu2 \in Cursors /\ cu2[e] = x /\ \A f \in Epochs \ {e} : cu2[f] = cu[f]
    BY <1>1, <1>4, <1>5 DEF Cursors
  <1>7. \A f \in Epochs : cu[f] \in Nat /\ cu2[f] \in Nat /\ cu[f] <= cu2[f]
    BY <1>1, <1>4, <1>6 DEF Cursors
  <1>8. Shapes(rs, cl, lt, cd, ml, fd, cu2)  BY <1>1, <1>6 DEF Shapes
  <1>9. \A k \in Call : k.epoch \in Epochs /\ CaptureOK(k, cu, fd) => CaptureOK(k, cu2, fd)
    <2>1. ASSUME NEW k \in Call, k.epoch \in Epochs, CaptureOK(k, cu, fd)
          PROVE  CaptureOK(k, cu2, fd)
      <3>1. k.next \in Nat /\ k.cur \in Nat  BY DEF Call
      <3>. QED  BY <1>7, <2>1, <3>1 DEF CaptureOK
    <2>. QED  BY <2>1
  <1>10. CallsOK(cl, cd, ml, cu2, fd)
    <2>1. \A c \in Calls : cl[c] \in Call  BY <1>1
    <2>. QED  BY <1>9, <2>1 DEF Good, CallsOK, JobOK
  <1>11. LateOK(lt, cd, cu2, fd)  BY <1>1, <1>9 DEF Good, LateOK, JobOK
  <1>12. AnswersSaved(rs, cd, fd, cu2)
    <2>1. ASSUME NEW f \in Epochs
          PROVE  cu2[f] <= Len(fd[f]) /\ \A p \in 1..cu2[f] : AnswerSaved(rs, cd, fd[f][p])
      <3>1. cu[f] <= Len(fd[f]) /\ \A p \in 1..cu[f] : AnswerSaved(rs, cd, fd[f][p])
        BY DEF Good, AnswersSaved, AnswerSaved
      <3>2. cu2[f] = cu[f] \/ (f = e /\ cu2[f] = n)  BY <1>4, <1>6
      <3>. QED  BY <3>1, <3>2
    <2>. QED  BY <2>1 DEF AnswersSaved, AnswerSaved
  <1>13. Good(rs, cl, lt, cd, ml, fd, cu2)  BY <1>8, <1>10, <1>11, <1>12 DEF Good
  <1>14. cu2 = [cu EXCEPT ![e] = Larger(@, n)]  BY <1>3, <1>5
  <1>. QED  BY <1>4, <1>6, <1>7, <1>13, <1>14

\* The module restarts: running calls and jobs are gone, requests under way may arrive.
LEMMA CrashGood ==
    ASSUME NEW rs, NEW cl, NEW lt, NEW cd, NEW ml, NEW fd, NEW cu,
           Good(rs, cl, lt, cd, ml, fd, cu)
    PROVE  Good(rs, [c \in Calls |-> Idle], {}, cd,
                ml \cup {Card(cl[c]) : c \in {d \in Calls : cl[d].pc = "ask"}}, fd, cu)
  <1>1. Shapes(rs, cl, lt, cd, ml, fd, cu) /\ cl \in [Calls -> Call] /\ ml \subseteq CardSet
    BY DEF Good, Shapes
  <1>2. PICK sent : sent = {Card(cl[c]) : c \in {d \in Calls : cl[d].pc = "ask"}}  OBVIOUS
  <1>3. \A c \in Calls : cl[c].pc = "ask" =>
            /\ Card(cl[c]) \in CardSet /\ Card(cl[c]).req = cl[c].req
            /\ Made(rs, Card(cl[c])) /\ Unasked(cl[c].req, cd, ml)
    <2>1. ASSUME NEW c \in Calls, cl[c].pc = "ask"
          PROVE  /\ Card(cl[c]) \in CardSet /\ Card(cl[c]).req = cl[c].req
                 /\ Made(rs, Card(cl[c])) /\ Unasked(cl[c].req, cd, ml)
      <3>1. JobOK(cl[c], cd)  BY <2>1 DEF Good, CallsOK
      <3>2. Asking(cl[c])  BY <2>1, <3>1 DEF JobOK, Asking
      <3>3. Made(rs, cl[c]) /\ Unasked(cl[c].req, cd, ml)  BY <3>2 DEF Good, AsksOnce
      <3>4. Card(cl[c]) \in CardSet /\ Card(cl[c]).req = cl[c].req
        BY <2>1, <3>1 DEF JobOK, Card, CardSet
      <3>. QED  BY <3>3, <3>4 DEF Made, Card
    <2>. QED  BY <2>1
  <1>4. \A x \in sent : \E c \in Calls : cl[c].pc = "ask" /\ x = Card(cl[c])  BY <1>2
  <1>5. \A x, y \in sent : x.req = y.req => x = y
    <2>1. ASSUME NEW x \in sent, NEW y \in sent, x.req = y.req PROVE x = y
      <3>1. PICK c \in Calls : cl[c].pc = "ask" /\ x = Card(cl[c])  BY <1>4
      <3>2. PICK d \in Calls : cl[d].pc = "ask" /\ y = Card(cl[d])  BY <1>4
      <3>3. cl[c].req = cl[d].req  BY <1>3, <2>1, <3>1, <3>2
      <3>4. c = d  BY <3>1, <3>2, <3>3 DEF Good, Leases
      <3>. QED  BY <3>1, <3>2, <3>4
    <2>. QED  BY <2>1
  <1>6. \A x \in sent : x \in CardSet /\ Made(rs, x) /\ Unasked(x.req, cd, ml)
    BY <1>3, <1>4
  <1>7. PICK cl2 : cl2 = [c \in Calls |-> Idle]  OBVIOUS
  <1>8. cl2 \in [Calls -> Call] /\ \A c \in Calls : cl2[c] = Idle  BY <1>7, IdleIs
  <1>9. Shapes(rs, cl2, {}, cd, ml \cup sent, fd, cu)  BY <1>1, <1>6, <1>8 DEF Shapes
  <1>10. CallsOK(cl2, cd, ml \cup sent, cu, fd) /\ Leases(cl2)
    BY <1>8, IdleIs DEF CallsOK, Leases
  <1>11. CardsOnce(rs, cd, ml \cup sent)
    BY <1>5, <1>6 DEF Good, CardsOnce, Unasked
  <1>12. AsksOnce(rs, cl2, {}, cd, ml \cup sent)  BY <1>8, IdleIs DEF AsksOnce
  <1>13. LateOK({}, cd, cu, fd)  BY DEF LateOK
  <1>. QED  BY <1>2, <1>7, <1>9, <1>10, <1>11, <1>12, <1>13 DEF Good

-----------------------------------------------------------------------------
(* What came of a request.                                                 *)

\* No row gets, or loses, the outcome `applied`.
NoneApplied(rs, rs2) ==
    \A r \in Requests : rs2[r].state = "applied" <=> rs[r].state = "applied"

LEMMA ResultsRows ==
    ASSUME NEW rs, NEW gr, NEW dn, NEW cd, Results(rs, gr, dn, cd),
           NEW rs2, NoneApplied(rs, rs2)
    PROVE  Results(rs2, gr, dn, cd)
  BY DEF Results, OutcomesFit, NoneApplied

LEMMA ResultsCards ==
    ASSUME NEW rs, NEW gr, NEW dn, NEW cd, Results(rs, gr, dn, cd),
           NEW cd2, CardsStay(cd, cd2)
    PROVE  Results(rs, gr, dn, cd2)
  <1>1. "pending" \notin Approvals  BY DEF Approvals
  <1>2. ASSUME NEW r \in Requests, NEW i \in DOMAIN dn[r],
               dn[r][i].by = "card", ~dn[r][i].misled
        PROVE  /\ CardOf(cd2, dn[r][i].card, r) /\ cd2[dn[r][i].card].state \in Approvals
               /\ cd2[dn[r][i].card].plan = dn[r][i].plan
               /\ dn[r][i].at = dn[r][i].plan.ws
    <2>1. PICK w : w = dn[r][i]  OBVIOUS
    <2>2. /\ CardOf(cd, w.card, r) /\ cd[w.card].state \in Approvals
          /\ cd[w.card].plan = w.plan /\ w.at = w.plan.ws
      BY <1>2, <2>1 DEF Results, WritesFit
    <2>3. w.card \in DOMAIN cd /\ cd[w.card].state # "pending"  BY <1>1, <2>2 DEF CardOf
    <2>4. CardOf(cd2, w.card, r) /\ cd2[w.card].state \in Approvals /\ cd2[w.card].plan = w.plan
      BY <2>2, <2>3 DEF CardOf, CardsStay
    <2>. QED  BY <2>1, <2>2, <2>4
  <1>3. WritesFit(dn, cd2)  BY <1>2 DEF WritesFit
  <1>4. GrantFits(gr, cd2)
    <2>1. ASSUME NEW i \in DOMAIN cd, cd[i].state = "always"
          PROVE  i \in DOMAIN cd2 /\ cd2[i].state = "always"
      BY <2>1 DEF CardsStay
    <2>. QED  BY <2>1 DEF Results, GrantFits
  <1>. QED  BY <1>3, <1>4 DEF Results

\* One more write of a request, in its place.
LEMMA WrittenOnce ==
    ASSUME NEW dn \in [Requests -> Seq(WriteSet)], NEW r \in Requests, NEW w \in WriteSet
    PROVE  /\ [dn EXCEPT ![r] = Append(@, w)] \in [Requests -> Seq(WriteSet)]
           /\ \A q \in Requests \ {r} : [dn EXCEPT ![r] = Append(@, w)][q] = dn[q]
           /\ [dn EXCEPT ![r] = Append(@, w)][r] = Append(dn[r], w)
           /\ Len(Append(dn[r], w)) = Len(dn[r]) + 1 /\ Len(dn[r]) \in Nat
           /\ DOMAIN dn[r] = 1..Len(dn[r])
           /\ DOMAIN Append(dn[r], w) = 1..(Len(dn[r]) + 1)
           /\ \A i \in DOMAIN dn[r] : Append(dn[r], w)[i] = dn[r][i]
           /\ Append(dn[r], w)[Len(dn[r]) + 1] = w
  <1>1. PICK s \in Seq(WriteSet) : s = dn[r]  OBVIOUS
  <1>2. Append(s, w) \in Seq(WriteSet) /\ Len(Append(s, w)) = Len(s) + 1  OBVIOUS
  <1>3. DOMAIN s = 1..Len(s) /\ Len(s) \in Nat /\ Append(s, w)[Len(s) + 1] = w
        /\ \A i \in 1..Len(s) : Append(s, w)[i] = s[i]
    OBVIOUS
  <1>4. DOMAIN Append(s, w) = 1..(Len(s) + 1)  BY <1>2
  <1>. QED  BY <1>1, <1>2, <1>3, <1>4

\* A write of r fits, if it is by a card that shows it.
WriteFits(w, r, cd) ==
    w.by = "card" /\ ~w.misled =>
        /\ CardOf(cd, w.card, r) /\ cd[w.card].state \in Approvals
        /\ cd[w.card].plan = w.plan /\ w.at = w.plan.ws

LEMMA WritesStillFit ==
    ASSUME NEW dn \in [Requests -> Seq(WriteSet)], NEW r \in Requests, NEW w \in WriteSet,
           NEW cd, WritesFit(dn, cd), WriteFits(w, r, cd)
    PROVE  WritesFit([dn EXCEPT ![r] = Append(@, w)], cd)
  <1>1. PICK dn2 : dn2 = [dn EXCEPT ![r] = Append(@, w)]  OBVIOUS
  <1>2. ASSUME NEW q \in Requests, NEW i \in DOMAIN dn2[q] PROVE WriteFits(dn2[q][i], q, cd)
    <2>1. CASE q = r
      <3>1. dn2[q] = Append(dn[r], w)  BY <1>1, <2>1, WrittenOnce
      <3>2. i \in 1..(Len(dn[r]) + 1) /\ Len(dn[r]) \in Nat  BY <3>1, WrittenOnce
      <3>3. CASE i = Len(dn[r]) + 1  BY <2>1, <3>1, <3>3, WrittenOnce
      <3>4. CASE i \in 1..Len(dn[r])
        <4>1. i \in DOMAIN dn[r] /\ dn2[q][i] = dn[r][i]  BY <3>1, <3>4, WrittenOnce
        <4>. QED  BY <2>1, <4>1 DEF WritesFit, WriteFits
      <3>. QED  BY <3>2, <3>3, <3>4
    <2>2. CASE q # r
      <3>1. dn2[q] = dn[q]  BY <1>1, <2>2, WrittenOnce
      <3>. QED  BY <3>1 DEF WritesFit, WriteFits
    <2>. QED  BY <2>1, <2>2
  <1>. QED  BY <1>1, <1>2 DEF WritesFit, WriteFits

\* Catch-up applies a write; its request is not among those that the claim is about.
LEMMA ResultsLog ==
    ASSUME NEW rs, NEW gr, NEW dn, NEW cd, Results(rs, gr, dn, cd),
           NEW r \in Requests, NEW w \in WriteSet, w.by = "log"
    PROVE  Results(rs, gr, [dn EXCEPT ![r] = Append(@, w)], cd)
  <1>1. PICK dn2 : dn2 = [dn EXCEPT ![r] = Append(@, w)]  OBVIOUS
  <1>2. dn \in [Requests -> Seq(WriteSet)]  BY DEF Results
  <1>3. WritesFit(dn2, cd)
    <2>1. WriteFits(w, r, cd)  BY DEF WriteFits
    <2>. QED  BY <1>1, <1>2, <2>1, WritesStillFit DEF Results
  <1>4. OutcomesFit(rs, dn2)
    <2>1. ASSUME NEW q \in Requests, \A i \in DOMAIN dn2[q] : dn2[q][i].by # "log"
          PROVE  q # r /\ dn2[q] = dn[q]
      <3>1. q # r
        <4>1. SUFFICES ASSUME q = r PROVE FALSE  OBVIOUS
        <4>2. dn2[r] = Append(dn[r], w) /\ Len(dn[r]) \in Nat
              /\ DOMAIN Append(dn[r], w) = 1..(Len(dn[r]) + 1)
              /\ Append(dn[r], w)[Len(dn[r]) + 1] = w
          BY <1>1, <1>2, WrittenOnce
        <4>3. Len(dn[r]) + 1 \in DOMAIN dn2[r]  BY <4>2
        <4>. QED  BY <2>1, <4>1, <4>2, <4>3
      <3>. QED  BY <1>1, <1>2, <3>1, WrittenOnce
    <2>. QED  BY <2>1 DEF Results, OutcomesFit
  <1>5. dn2 \in [Requests -> Seq(WriteSet)]  BY <1>1, <1>2, WrittenOnce
  <1>. QED  BY <1>1, <1>3, <1>4, <1>5 DEF Results

\* The write and the outcome of its request commit together.
LEMMA ResultsCommit ==
    ASSUME NEW rs, NEW gr, NEW dn, NEW cd, Results(rs, gr, dn, cd),
           NEW r \in Requests, NEW w \in WriteSet, WriteFits(w, r, cd),
           rs[r].state # "applied", NEW rs2, rs2[r].state = "applied",
           \A q \in Requests \ {r} : rs2[q] = rs[q],
           NEW gr2 \in {"none", "live", "revoked"}, GrantFits(gr2, cd)
    PROVE  Results(rs2, gr2, [dn EXCEPT ![r] = Append(@, w)], cd)
  <1>1. PICK dn2 : dn2 = [dn EXCEPT ![r] = Append(@, w)]  OBVIOUS
  <1>2. dn \in [Requests -> Seq(WriteSet)] /\ OutcomesFit(rs, dn)  BY DEF Results
  <1>3. WritesFit(dn2, cd)  BY <1>1, <1>2, WritesStillFit DEF Results
  <1>4. OutcomesFit(rs2, dn2)
    <2>1. ASSUME NEW q \in Requests, \A i \in DOMAIN dn2[q] : dn2[q][i].by # "log"
          PROVE  Len(dn2[q]) <= 1 /\ (rs2[q].state = "applied" <=> dn2[q] # <<>>)
      <3>1. CASE q # r
        <4>1. dn2[q] = dn[q] /\ rs2[q] = rs[q]  BY <1>1, <1>2, <3>1, WrittenOnce
        <4>. QED  BY <1>2, <2>1, <4>1 DEF OutcomesFit
      <3>2. CASE q = r
        <4>1. /\ dn2[r] = Append(dn[r], w) /\ Len(dn[r]) \in Nat
              /\ Len(Append(dn[r], w)) = Len(dn[r]) + 1 /\ DOMAIN dn[r] = 1..Len(dn[r])
              /\ DOMAIN Append(dn[r], w) = 1..(Len(dn[r]) + 1)
              /\ \A i \in DOMAIN dn[r] : Append(dn[r], w)[i] = dn[r][i]
          BY <1>1, <1>2, WrittenOnce
        <4>2. \A i \in DOMAIN dn[r] : dn[r][i].by # "log"
          <5>1. ASSUME NEW i \in DOMAIN dn[r] PROVE dn[r][i].by # "log"
            <6>1. i \in DOMAIN dn2[r] /\ dn2[r][i] = dn[r][i]  BY <4>1
            <6>. QED  BY <2>1, <3>2, <6>1
          <5>. QED  BY <5>1
        <4>3. dn[r] = <<>>  BY <1>2, <4>2 DEF OutcomesFit
        <4>4. Len(dn[r]) = 0  BY <4>3
        <4>5. Len(dn2[r]) = 1 /\ dn2[r] # <<>>  BY <4>1, <4>4
        <4>. QED  BY <3>2, <4>5
      <3>. QED  BY <3>1, <3>2
    <2>. QED  BY <2>1 DEF OutcomesFit
  <1>5. dn2 \in [Requests -> Seq(WriteSet)]  BY <1>1, <1>2, WrittenOnce
  <1>. QED  BY <1>1, <1>3, <1>4, <1>5 DEF Results

-----------------------------------------------------------------------------
(* What the transactions do to the rows.                                   *)

\* Outcomes and saved answers are final.
Final(rs, rs2) ==
    \A r \in Requests :
        /\ rs[r].state \in {"applied", "refused"} => rs2[r] = rs[r]
        /\ rs[r].state # "none" /\ rs[r].answer # "none" =>
               rs2[r].state # "none" /\ rs2[r].answer = rs[r].answer

LEMMA GoesOnFinal ==
    ASSUME NEW rs \in RowSets, NEW rs2, NEW cd, RowsGoOn(rs, rs2, cd)
    PROVE  Final(rs, rs2)
  <1>1. ASSUME NEW r \in Requests
        PROVE  /\ rs[r].state \in {"applied", "refused"} => rs2[r] = rs[r]
               /\ rs[r].state # "none" /\ rs[r].answer # "none" =>
                      rs2[r].state # "none" /\ rs2[r].answer = rs[r].answer
    <2>1. RowGoesOn(rs[r], rs2[r], r, cd)  BY DEF RowsGoOn
    <2>2. \A y \in Row : y.state # "none"  BY DEF Row
    <2>. QED  BY <2>1, <2>2 DEF RowGoesOn
  <1>. QED  BY <1>1 DEF Final

LEMMA RowChanged ==
    ASSUME NEW rs \in RowSets, NEW cd, NEW r \in Requests, NEW y \in Row, RowFits(y, r, cd),
           rs[r].state \in {"none", "awaiting"},
           rs[r].state = "awaiting" =>
               /\ y.name = rs[r].name /\ y.epoch = rs[r].epoch /\ y.plan = rs[r].plan
               /\ rs[r].answer # "none" => y.answer = rs[r].answer
    PROVE  /\ RowsGoOn(rs, [rs EXCEPT ![r] = y], cd)
           /\ y.state # "applied" => NoneApplied(rs, [rs EXCEPT ![r] = y])
           /\ [rs EXCEPT ![r] = y][r] = y
           /\ \A q \in Requests \ {r} : [rs EXCEPT ![r] = y][q] = rs[q]
  <1>1. PICK rs2 : rs2 = [rs EXCEPT ![r] = y]  OBVIOUS
  <1>2. rs2 \in RowSets /\ rs2[r] = y /\ \A q \in Requests \ {r} : rs2[q] = rs[q]
    BY <1>1 DEF RowSets
  <1>3. ASSUME NEW q \in Requests PROVE RowGoesOn(rs[q], rs2[q], q, cd)
    <2>1. CASE q = r  BY <1>2, <2>1 DEF RowGoesOn
    <2>2. CASE q # r  BY <1>2, <2>2 DEF RowGoesOn
    <2>. QED  BY <2>1, <2>2
  <1>4. y.state # "applied" => NoneApplied(rs, rs2)
    <2>1. ASSUME y.state # "applied", NEW q \in Requests
          PROVE  rs2[q].state = "applied" <=> rs[q].state = "applied"
      <3>1. CASE q = r  BY <1>2, <2>1, <3>1
      <3>2. CASE q # r  BY <1>2, <3>2
      <3>. QED  BY <3>1, <3>2
    <2>. QED  BY <2>1 DEF NoneApplied
  <1>. QED  BY <1>1, <1>2, <1>3, <1>4 DEF RowsGoOn

LEMMA RowsSame ==
    ASSUME NEW rs \in RowSets, NEW cd
    PROVE  RowsGoOn(rs, rs, cd) /\ NoneApplied(rs, rs)
  BY DEF RowsGoOn, RowGoesOn, NoneApplied

GoodNow == Good(rows, calls, late, cards, mail, feed, cursor)

LEMMA RowNow ==
    ASSUME GoodNow, NEW r \in Requests
    PROVE  /\ rows \in RowSets
           /\ rows[r] = NoRow <=> rows[r].state = "none"
           /\ rows[r].state \in {"none", "awaiting", "applied", "refused"}
           /\ rows[r].state # "none" => rows[r] \in Row /\ RowFits(rows[r], r, cards)
  <1>1. rows \in RowSets  BY DEF GoodNow, Good, Shapes
  <1>2. rows[r] \in Row \cup {NoRow}  BY <1>1 DEF RowSets
  <1>3. rows[r].state # "none" => RowFits(rows[r], r, cards)
    BY DEF GoodNow, Good, RowsFit, RowFits
  <1>4. NoRow.state = "none"  BY DEF NoRow
  <1>. QED  BY <1>1, <1>2, <1>3, <1>4, RowIs

LEMMA NewRowIs ==
    ASSUME NEW k \in Call, k.name \in Names, k.epoch \in Epochs,
           NEW plan \in Plan \cup {NoPlan}
    PROVE  /\ NewRow(k, plan) \in Row /\ NewRow(k, plan).state = "awaiting"
           /\ NewRow(k, plan).card = 0 /\ NewRow(k, plan).answer = "none"
           /\ NewRow(k, plan).name = k.name /\ NewRow(k, plan).epoch = k.epoch
           /\ NewRow(k, plan).plan = plan
  BY DEF NewRow, Row

LEMMA BeginRowsGo ==
    ASSUME GoodNow, NEW k \in Call, JobOK(k, cards), k.pc = "begin"
    PROVE  RowsGoOn(rows, BeginRows(k), cards) /\ NoneApplied(rows, BeginRows(k))
  <1>1. k.req \in Requests /\ k.name \in Names /\ k.epoch \in Epochs /\ k.plan \in Plan
    BY DEF JobOK
  <1>2. CASE rows[k.req] = NoRow
    <2>1. PICK y : y = NewRow(k, k.plan)  OBVIOUS
    <2>2. y \in Row /\ y.card = 0 /\ y.answer = "none" /\ y.state = "awaiting"
      BY <1>1, <2>1, NewRowIs
    <2>3. RowFits(y, k.req, cards)  BY <2>2 DEF RowFits
    <2>4. rows[k.req].state = "none" /\ rows \in RowSets  BY <1>1, <1>2, RowNow
    <2>. QED  BY <1>1, <1>2, <2>1, <2>2, <2>3, <2>4, RowChanged DEF BeginRows
  <1>3. CASE rows[k.req] # NoRow
    <2>1. BeginRows(k) = rows /\ rows \in RowSets  BY <1>1, <1>3, RowNow DEF BeginRows
    <2>. QED  BY <2>1, RowsSame
  <1>. QED  BY <1>2, <1>3

LEMMA SetIdRowsGo ==
    ASSUME GoodNow, NEW k \in Call, JobOK(k, cards), k.pc = "setid"
    PROVE  RowsGoOn(rows, SetIdRows(k), cards) /\ NoneApplied(rows, SetIdRows(k))
  <1>1. k.req \in Requests /\ CardOf(cards, k.card, k.req) /\ k.card \in Nat
    BY DEF JobOK, Call
  <1>2. rows \in RowSets  BY <1>1, RowNow
  <1>3. CASE Awaiting(k.req) /\ rows[k.req].card = 0
    <2>1. PICK x \in Row : x = rows[k.req] /\ x.state = "awaiting" /\ x.card = 0
      BY <1>1, <1>3, RowNow DEF Awaiting
    <2>2. PICK y : y = [x EXCEPT !.card = k.card]  OBVIOUS
    <2>3. y \in Row /\ y.card = k.card /\ y.answer = x.answer /\ y.state = "awaiting"
          /\ y.name = x.name /\ y.epoch = x.epoch /\ y.plan = x.plan
      BY <1>1, <2>1, <2>2 DEF Row
    <2>4. RowFits(x, k.req, cards)  BY <1>1, <2>1, RowNow
    <2>5. RowFits(y, k.req, cards)  BY <1>1, <2>1, <2>3, <2>4 DEF RowFits
    <2>6. SetIdRows(k) = [rows EXCEPT ![k.req] = y]  BY <1>3, <2>1, <2>2 DEF SetIdRows
    <2>7. /\ y \in Row /\ k.req \in Requests /\ rows[k.req].state \in {"none", "awaiting"}
          /\ y.name = rows[k.req].name /\ y.epoch = rows[k.req].epoch
          /\ y.plan = rows[k.req].plan /\ y.answer = rows[k.req].answer
          /\ y.state # "applied"
      BY <1>1, <2>1, <2>3
    <2>8. RowsGoOn(rows, [rows EXCEPT ![k.req] = y], cards)
          /\ NoneApplied(rows, [rows EXCEPT ![k.req] = y])
      BY <1>2, <2>5, <2>7, RowChanged
    <2>. QED  BY <2>6, <2>8
  <1>4. CASE ~(Awaiting(k.req) /\ rows[k.req].card = 0)
    <2>1. SetIdRows(k) = rows  BY <1>4 DEF SetIdRows
    <2>. QED  BY <1>2, <2>1, RowsSame
  <1>. QED  BY <1>3, <1>4

\* Recording card i changes the row of its request at most.
LEMMA RecordedGo ==
    ASSUME GoodNow, NEW i \in DOMAIN cards, cards[i].state # "pending"
    PROVE  /\ RowsGoOn(rows, Recorded(rows, i), cards) /\ NoneApplied(rows, Recorded(rows, i))
           /\ \A r \in Requests \ {cards[i].req} : Recorded(rows, i)[r] = rows[r]
           /\ AnswerSaved(Recorded(rows, i), cards, i)
  <1>1. PICK c \in CardSet : c = cards[i] /\ c.req \in Requests /\ i \in Nat /\ i # 0
    BY CardsAre DEF GoodNow, Good, Shapes
  <1>2. PICK r \in Requests : r = c.req  BY <1>1
  <1>3. rows \in RowSets /\ rows[r].state # "none" /\ rows[r] \in Row
        /\ rows[r].name = c.name /\ rows[r].epoch = c.epoch
    BY <1>1, <1>2, RowNow DEF GoodNow, Good, CardsOnce, Made
  <1>4. rows[r].card # 0 => rows[r].card = i
    <2>1. RowFits(rows[r], r, cards)  BY <1>3, RowNow
    <2>2. rows[r].card # 0 => rows[r].card \in DOMAIN cards /\ cards[rows[r].card].req = cards[i].req
      BY <1>1, <1>2, <2>1 DEF RowFits, CardOf
    <2>. QED  BY <2>2 DEF GoodNow, Good, CardsOnce
  <1>5. CASE rows[r].state = "awaiting" /\ rows[r].answer = "none" /\ c.kept
    <2>1. PICK y : y = [rows[r] EXCEPT !.answer = c.state, !.card = i]  OBVIOUS
    <2>2. c.state \in Settlements  BY <1>1 DEF CardSet
    <2>3. y \in Row /\ y.card = i /\ y.answer = c.state /\ y.state = "awaiting"
          /\ y.name = rows[r].name /\ y.epoch = rows[r].epoch /\ y.plan = rows[r].plan
      BY <1>1, <1>3, <1>5, <2>1, <2>2 DEF Row
    <2>4. RowFits(y, r, cards)  BY <1>1, <1>2, <2>3 DEF RowFits, CardOf
    <2>5. Recorded(rows, i) = [rows EXCEPT ![r] = y]
      <3>1. rows[r].card \in {0, i}  BY <1>3, <1>4
      <3>. QED  BY <1>1, <1>2, <1>3, <1>5, <2>1, <3>1 DEF Recorded
    <2>6. /\ RowsGoOn(rows, Recorded(rows, i), cards) /\ NoneApplied(rows, Recorded(rows, i))
          /\ Recorded(rows, i)[r] = y
          /\ \A q \in Requests \ {r} : Recorded(rows, i)[q] = rows[q]
      <3>1. y.state # "applied" /\ rows[r].state \in {"none", "awaiting"}  BY <1>5, <2>3
      <3>2. rows[r].answer = "none"  BY <1>5
      <3>3. /\ RowsGoOn(rows, [rows EXCEPT ![r] = y], cards)
            /\ NoneApplied(rows, [rows EXCEPT ![r] = y])
            /\ [rows EXCEPT ![r] = y][r] = y
            /\ \A q \in Requests \ {r} : [rows EXCEPT ![r] = y][q] = rows[q]
        BY <1>3, <2>3, <2>4, <3>1, <3>2, RowChanged
      <3>. QED  BY <2>5, <3>3
    <2>7. AnswerSaved(Recorded(rows, i), cards, i)  BY <1>1, <1>2, <2>3, <2>6 DEF AnswerSaved
    <2>. QED  BY <1>1, <1>2, <2>6, <2>7
  <1>6. CASE ~(rows[r].state = "awaiting" /\ rows[r].answer = "none" /\ c.kept)
    <2>1. Recorded(rows, i) = rows  BY <1>1, <1>2, <1>6 DEF Recorded
    <2>2. AnswerSaved(rows, cards, i)
      <3>1. ASSUME c.kept, rows[r].state = "awaiting" PROVE rows[r].answer = c.state
        <4>1. rows[r].answer # "none"  BY <1>6, <3>1
        <4>2. rows[r].card # 0 /\ cards[rows[r].card].state = rows[r].answer
          BY <1>3, <4>1, RowNow DEF RowFits
        <4>. QED  BY <1>1, <1>4, <4>2
      <3>. QED  BY <1>1, <1>2, <3>1 DEF AnswerSaved
    <2>. QED  BY <1>3, <2>1, <2>2, RowsSame
  <1>. QED  BY <1>5, <1>6

\* A page has a first answer that a row takes, if it has one.
LEMMA FirstOf ==
    ASSUME NEW ps \in SUBSET Nat, ps # {}
    PROVE  (CHOOSE p \in ps : \A q \in ps : p <= q) \in ps
  <1> DEFINE before == {x \in Nat \X Nat : x[1] < x[2]}
  <1>1. IsWellFoundedOn(before, Nat)  BY NatLessThanWellFounded DEF OpToRel
  <1>2. PICK p \in ps : \A q \in ps : <<q, p>> \notin before
    <2> HIDE DEF before
    <2>. QED  BY <1>1, WFMin
  <1>3. ASSUME NEW q \in ps PROVE p <= q
    <2>1. <<q, p>> \in Nat \X Nat /\ ~(q < p)  BY <1>2
    <2>. QED  BY <2>1
  <1>. QED  BY <1>3

\* A page whose answers are recorded: the rows go on, and every answer up to its end
\* is saved.
LEMMA SaveRowsGo ==
    ASSUME GoodNow, NEW k \in Call, JobOK(k, cards), CaptureOK(k, cursor, feed), k.pc = "save"
    PROVE  /\ RowsGoOn(rows, SaveRows(k), cards) /\ NoneApplied(rows, SaveRows(k))
           /\ k.next \in Nat /\ k.next <= Len(feed[k.epoch])
           /\ \A p \in 1..k.next : AnswerSaved(SaveRows(k), cards, feed[k.epoch][p])
  <1>1. k.epoch \in Epochs /\ k.cur \in Nat /\ k.next \in Nat
        /\ k.cur <= cursor[k.epoch] /\ k.next <= Len(feed[k.epoch])
    BY DEF JobOK, CaptureOK, Call
  <1>2. /\ rows \in RowSets /\ cursor[k.epoch] \in Nat /\ Len(feed[k.epoch]) \in Nat
        /\ cursor[k.epoch] <= Len(feed[k.epoch])
    BY <1>1 DEF GoodNow, Good, Shapes, Cursors, Feeds, AnswersSaved
  <1>3. \A p \in 1..Len(feed[k.epoch]) :
            /\ feed[k.epoch][p] \in DOMAIN cards /\ cards[feed[k.epoch][p]].state # "pending"
            /\ cards[feed[k.epoch][p]].req \in Requests
    BY <1>1, CardsAre DEF GoodNow, Good, FeedFits, Shapes
  <1>4. \A p \in (k.cur + 1)..k.next : p \in 1..Len(feed[k.epoch]) /\ p \in Nat
    BY <1>1, <1>2
  <1>5. PICK rs2 : rs2 = SaveRows(k)  OBVIOUS
  <1>6. ASSUME NEW r \in Requests
        PROVE  /\ rs2[r] = rows[r] /\ AnswersFor(k, r) = {}
               \/ \E i \in DOMAIN cards :
                     /\ cards[i].req = r /\ cards[i].state # "pending"
                     /\ rs2[r] = Recorded(rows, i)[r]
    <2>1. PICK ps : ps = AnswersFor(k, r)  OBVIOUS
    <2>2. rs2[r] = PageRow(k, r)  BY <1>5 DEF SaveRows
    <2>3. CASE ps = {}  BY <2>1, <2>2, <2>3 DEF PageRow
    <2>4. CASE ps # {}
      <3>1. ps \in SUBSET Nat  BY <1>4, <2>1 DEF AnswersFor
      <3>2. PICK p \in ps : p = (CHOOSE q \in ps : \A o \in ps : q <= o)
        BY <2>4, <3>1, FirstOf
      <3>3. p \in (k.cur + 1)..k.next /\ cards[feed[k.epoch][p]].req = r
        <4>1. p \in AnswersFor(k, r)  BY <2>1, <3>2
        <4>2. \A q \in AnswersFor(k, r) :
                 q \in (k.cur + 1)..k.next /\ cards[feed[k.epoch][q]].req = r
          BY Zenon DEF AnswersFor
        <4>. QED  BY <4>1, <4>2
      <3>4. rs2[r] = Recorded(rows, feed[k.epoch][p])[r]
        BY <2>1, <2>2, <2>4, <3>2 DEF PageRow
      <3>. QED  BY <1>3, <1>4, <3>3, <3>4
    <2>. QED  BY <2>3, <2>4
  <1>7. ASSUME NEW r \in Requests
        PROVE  /\ rs2[r] \in Row \cup {NoRow} /\ RowGoesOn(rows[r], rs2[r], r, cards)
               /\ rs2[r].state = "applied" <=> rows[r].state = "applied"
    <2>1. CASE rs2[r] = rows[r]  BY <1>2, <2>1 DEF RowSets, RowGoesOn
    <2>2. CASE rs2[r] # rows[r]
      <3>1. PICK i \in DOMAIN cards : cards[i].state # "pending" /\ rs2[r] = Recorded(rows, i)[r]
        BY <1>6, <2>2
      <3>2. RowsGoOn(rows, Recorded(rows, i), cards) /\ NoneApplied(rows, Recorded(rows, i))
        BY <3>1, RecordedGo
      <3>. QED  BY <3>1, <3>2 DEF RowsGoOn, NoneApplied, RowSets
    <2>. QED  BY <2>1, <2>2
  <1>8. rs2 = [r \in Requests |-> rs2[r]]  BY <1>5 DEF SaveRows
  <1>9. rs2 \in RowSets
    <2>1. \A r \in Requests : rs2[r] \in Row \cup {NoRow}  BY <1>7
    <2>. QED  BY <1>8, <2>1 DEF RowSets
  <1>10. RowsGoOn(rows, rs2, cards) /\ NoneApplied(rows, rs2)
    BY <1>7, <1>9 DEF RowsGoOn, NoneApplied
  <1>11. ASSUME NEW p \in 1..k.next
         PROVE  AnswerSaved(rs2, cards, feed[k.epoch][p])
    <2>1. p \in 1..Len(feed[k.epoch])  BY <1>1, <1>2
    <2>2. PICK i \in DOMAIN cards : i = feed[k.epoch][p] /\ cards[i].state # "pending"
      BY <1>3, <2>1
    <2>3. PICK r \in Requests : r = cards[i].req  BY <1>3, <2>1, <2>2
    <2>4. CASE \E j \in DOMAIN cards :
                  /\ cards[j].req = r /\ cards[j].state # "pending"
                  /\ rs2[r] = Recorded(rows, j)[r]
      <3>1. PICK j \in DOMAIN cards :
                  cards[j].req = r /\ cards[j].state # "pending" /\ rs2[r] = Recorded(rows, j)[r]
        BY <2>4
      <3>2. j = i  BY <2>3, <3>1 DEF GoodNow, Good, CardsOnce
      <3>3. AnswerSaved(Recorded(rows, i), cards, i)  BY <2>2, RecordedGo
      <3>. QED  BY <2>2, <2>3, <3>1, <3>2, <3>3 DEF AnswerSaved
    <2>5. CASE rs2[r] = rows[r] /\ AnswersFor(k, r) = {}
      <3>1. CASE p <= cursor[k.epoch]
        <4>1. p \in 1..cursor[k.epoch]  BY <1>1, <1>2, <3>1
        <4>2. AnswerSaved(rows, cards, i)
          BY <1>1, <2>2, <4>1 DEF GoodNow, Good, AnswersSaved, AnswerSaved
        <4>. QED  BY <2>2, <2>3, <2>5, <4>2 DEF AnswerSaved
      <3>2. CASE ~(p <= cursor[k.epoch])
        <4>1. p \in (k.cur + 1)..k.next  BY <1>1, <1>2, <3>2
        <4>2. Recorded(rows, i) = rows  BY <2>2, <2>3, <2>5, <4>1 DEF AnswersFor
        <4>3. AnswerSaved(rows, cards, i)  BY <2>2, <4>2, RecordedGo
        <4>. QED  BY <2>2, <2>3, <2>5, <4>3 DEF AnswerSaved
      <3>. QED  BY <3>1, <3>2
    <2>. QED  BY <1>6, <2>4, <2>5
  <1>. QED  BY <1>1, <1>5, <1>10, <1>11

\* The row of a write that goes on is open, or not there.
LEMMA FinishedGo ==
    ASSUME GoodNow, NEW k \in Call, JobOK(k, cards), StillOpen(k)
    PROVE  /\ RowsGoOn(rows, Finished(k), cards) /\ Finished(k)[k.req].state = "applied"
           /\ rows[k.req].state # "applied"
           /\ \A q \in Requests \ {k.req} : Finished(k)[q] = rows[q]
  <1>1. k.req \in Requests /\ k.name \in Names /\ k.epoch \in Epochs  BY DEF JobOK
  <1>2. rows \in RowSets  BY <1>1, RowNow
  <1>3. PICK x : x = IF rows[k.req] = NoRow THEN NewRow(k, NoPlan) ELSE rows[k.req]  OBVIOUS
  <1>4. /\ x \in Row /\ RowFits(x, k.req, cards) /\ rows[k.req].state \in {"none", "awaiting"}
        /\ rows[k.req].state = "awaiting" => x = rows[k.req]
    <2>1. CASE rows[k.req] = NoRow
      <3>1. rows[k.req].state = "none"  BY <1>1, <2>1, RowNow
      <3>2. x \in Row /\ x.card = 0 /\ x.answer = "none"  BY <1>1, <1>3, <2>1, NewRowIs
      <3>. QED  BY <3>1, <3>2 DEF RowFits
    <2>2. CASE rows[k.req] # NoRow
      <3>1. rows[k.req].state = "awaiting"  BY <2>2 DEF StillOpen, Awaiting
      <3>. QED  BY <1>1, <1>3, <2>2, <3>1, RowNow
    <2>. QED  BY <2>1, <2>2
  <1>5. PICK y : y = [x EXCEPT !.state = "applied"]  OBVIOUS
  <1>6. y \in Row /\ y.card = x.card /\ y.answer = x.answer /\ y.state = "applied"
        /\ y.name = x.name /\ y.epoch = x.epoch /\ y.plan = x.plan
    BY <1>4, <1>5 DEF Row
  <1>7. RowFits(y, k.req, cards)  BY <1>4, <1>6 DEF RowFits
  <1>8. Finished(k) = [rows EXCEPT ![k.req] = y]  BY <1>3, <1>5 DEF Finished
  <1>9. /\ RowsGoOn(rows, [rows EXCEPT ![k.req] = y], cards)
        /\ [rows EXCEPT ![k.req] = y][k.req] = y
        /\ \A q \in Requests \ {k.req} : [rows EXCEPT ![k.req] = y][q] = rows[q]
    BY <1>1, <1>2, <1>4, <1>6, <1>7, RowChanged
  <1>. QED  BY <1>4, <1>6, <1>8, <1>9

LEMMA RefusedRowsGo ==
    ASSUME GoodNow, NEW k \in Call, JobOK(k, cards)
    PROVE  RowsGoOn(rows, RefusedRows(k), cards) /\ NoneApplied(rows, RefusedRows(k))
  <1>1. k.req \in Requests /\ k.name \in Names /\ k.epoch \in Epochs  BY DEF JobOK
  <1>2. rows \in RowSets  BY <1>1, RowNow
  <1>3. CASE ~StillOpen(k)
    <2>1. RefusedRows(k) = rows  BY <1>3 DEF RefusedRows
    <2>. QED  BY <1>2, <2>1, RowsSame
  <1>4. CASE StillOpen(k)
    <2>1. PICK x : x = IF rows[k.req] = NoRow THEN NewRow(k, NoPlan) ELSE rows[k.req]  OBVIOUS
    <2>2. /\ x \in Row /\ RowFits(x, k.req, cards) /\ rows[k.req].state \in {"none", "awaiting"}
          /\ rows[k.req].state = "awaiting" => x = rows[k.req]
      <3>1. CASE rows[k.req] = NoRow
        <4>1. rows[k.req].state = "none"  BY <1>1, <3>1, RowNow
        <4>2. x \in Row /\ x.card = 0 /\ x.answer = "none"  BY <1>1, <2>1, <3>1, NewRowIs
        <4>. QED  BY <4>1, <4>2 DEF RowFits
      <3>2. CASE rows[k.req] # NoRow
        <4>1. rows[k.req].state = "awaiting"  BY <1>4, <3>2 DEF StillOpen, Awaiting
        <4>. QED  BY <1>1, <2>1, <3>2, <4>1, RowNow
      <3>. QED  BY <3>1, <3>2
    <2>3. PICK y : y = [x EXCEPT !.state = "refused"]  OBVIOUS
    <2>4. y \in Row /\ y.card = x.card /\ y.answer = x.answer /\ y.state = "refused"
          /\ y.name = x.name /\ y.epoch = x.epoch /\ y.plan = x.plan
      BY <2>2, <2>3 DEF Row
    <2>5. RowFits(y, k.req, cards)  BY <2>2, <2>4 DEF RowFits
    <2>6. RefusedRows(k) = [rows EXCEPT ![k.req] = y]  BY <1>4, <2>1, <2>3 DEF RefusedRows
    <2>7. y.state # "applied"  BY <2>4
    <2>8. /\ RowsGoOn(rows, [rows EXCEPT ![k.req] = y], cards)
          /\ NoneApplied(rows, [rows EXCEPT ![k.req] = y])
      BY <1>1, <1>2, <2>2, <2>4, <2>5, <2>7, RowChanged
    <2>. QED  BY <2>6, <2>8
  <1>. QED  BY <1>3, <1>4

-----------------------------------------------------------------------------
(* The invariant, step by step.                                            *)

\* What a step keeps: the invariant, outcomes and saved answers.
Keeps == IInv' /\ Final(rows, rows')

\* What the invariant says of a call.
LEMMA CallNow ==
    ASSUME IInv, NEW c \in Calls, ~At(c, "idle")
    PROVE  /\ calls[c] \in Call /\ calls[c].pc # "idle"
           /\ JobOK(calls[c], cards) /\ CaptureOK(calls[c], cursor, feed)
           /\ SavedPlan(calls[c], cards, mail)
           /\ calls[c].req \in Requests
           /\ calls[c].pc # "lease" =>
                  \A d \in Calls \ {c} :
                      calls[d].req = calls[c].req => calls[d].pc \in {"idle", "lease"}
  <1>1. calls[c] \in Call  BY DEF IInv, Good, Shapes
  <1>2. calls[c].pc # "idle"  BY DEF At
  <1>3. /\ JobOK(calls[c], cards) /\ CaptureOK(calls[c], cursor, feed)
        /\ SavedPlan(calls[c], cards, mail)
    BY <1>2 DEF IInv, Good, CallsOK
  <1>4. calls[c].req \in Requests  BY <1>3 DEF JobOK
  <1>. QED  BY <1>1, <1>2, <1>3, <1>4 DEF IInv, Good, Leases

\* What has just been asked, or may be.
LEMMA AskingNow ==
    ASSUME IInv, NEW c \in Calls, Asking(calls[c])
    PROVE  /\ Made(rows, calls[c]) /\ Unasked(calls[c].req, cards, mail)
           /\ \A l \in late : l.pc = "delete" => l.req # calls[c].req
           /\ \A d \in Calls \ {c} : Asking(calls[d]) => calls[d].req # calls[c].req
           /\ calls[c].card = 0
  <1>1. /\ Made(rows, calls[c]) /\ Unasked(calls[c].req, cards, mail)
        /\ \A l \in late : l.pc = "delete" => l.req # calls[c].req
    BY DEF IInv, Good, AsksOnce
  <1>2. ~At(c, "idle") /\ calls[c].pc \notin {"idle", "lease"}  BY DEF Asking, At
  <1>3. \A d \in Calls \ {c} : Asking(calls[d]) => calls[d].req # calls[c].req
    BY <1>2 DEF IInv, Good, Leases, Asking
  <1>4. JobOK(calls[c], cards)  BY <1>2, CallNow
  <1>5. calls[c].card = 0  BY <1>1, <1>4 DEF JobOK, CardOf, Unasked
  <1>. QED  BY <1>1, <1>3, <1>5

\* A call goes on to a place of the same request, and asks only if it did.
LEMMA CallGoesOn ==
    ASSUME NEW rs, NEW cl, NEW lt, NEW cd, NEW ml, NEW fd, NEW cu,
           Good(rs, cl, lt, cd, ml, fd, cu), NEW c \in Calls, NEW k \in Call,
           cl[c].pc \notin {"idle", "lease"}, k.pc # "idle",
           k.req = cl[c].req, k.name = cl[c].name, k.epoch = cl[c].epoch, k.plan = cl[c].plan,
           JobOK(k, cd), CaptureOK(k, cu, fd), SavedPlan(k, cd, ml), Asking(k) => Asking(cl[c])
    PROVE  Good(rs, [cl EXCEPT ![c] = k], lt, cd, ml, fd, cu)
  <1>1. \A d \in Calls \ {c} : cl[d].req = k.req => cl[d].pc \in {"idle", "lease"}
    BY DEF Good, Leases
  <1>2. ASSUME Asking(k)
        PROVE  /\ Made(rs, k) /\ Unasked(k.req, cd, ml)
               /\ \A l \in lt : l.pc = "delete" => l.req # k.req
    <2>1. /\ Made(rs, cl[c]) /\ Unasked(cl[c].req, cd, ml)
          /\ \A l \in lt : l.pc = "delete" => l.req # cl[c].req
      BY <1>2 DEF Good, AsksOnce
    <2>. QED  BY <2>1 DEF Made
  <1>. QED  BY <1>1, <1>2, CallGood

\* A step that lets a call go on and may change rows.
LEMMA RowCallKeeps ==
    ASSUME IInv, NoneApplied(rows, rows'), Final(rows, rows'),
           Good(rows', calls', late', cards', mail', feed', cursor'),
           UNCHANGED <<grant, cursor, world, flight, cards, acked, epoch, done>>
    PROVE  Keeps
  <1>1. Results(rows', grant', done', cards')  BY ResultsRows DEF IInv
  <1>2. Rest'  BY DEF IInv, Rest
  <1>. QED  BY <1>1, <1>2 DEF Keeps, IInv

\* A step that only lets a call go on, or end.
LEMMA CallKeeps ==
    ASSUME IInv, Good(rows, calls', late, cards, mail, feed, cursor),
           UNCHANGED <<local, world, late, flight, service, epoch, done>>
    PROVE  Keeps
  <1>1. /\ rows' = rows /\ grant' = grant /\ cursor' = cursor /\ world' = world /\ late' = late
        /\ flight' = flight /\ cards' = cards /\ feed' = feed /\ acked' = acked /\ mail' = mail
        /\ epoch' = epoch /\ done' = done
    BY DEF local, service
  <1>2. NoneApplied(rows, rows') /\ Final(rows, rows')
    <2>1. rows \in RowSets  BY DEF IInv, Good, Shapes
    <2>. QED  BY <1>1, <2>1, RowsSame, GoesOnFinal
  <1>. QED  BY <1>1, <1>2, RowCallKeeps

\* A row that goes on, for the step that changes it.
LEMMA RowsNow ==
    ASSUME IInv, RowsGoOn(rows, rows', cards)
    PROVE  Good(rows', calls, late, cards, mail, feed, cursor) /\ Final(rows, rows')
  <1>1. Good(rows, calls, late, cards, mail, feed, cursor)  BY DEF IInv
  <1>2. rows \in RowSets  BY <1>1 DEF Good, Shapes
  <1>. QED  BY <1>1, <1>2, RowsGood, GoesOnFinal

\* A call ends.
LEMMA EndNow ==
    ASSUME IInv, NEW c \in Calls, End(c)
    PROVE  Good(rows, calls', late, cards, mail, feed, cursor)
  BY EndGood DEF IInv, End, Goto

\* A call of consent_pending ends, or goes on to refuse the request it lost.
LEMMA UnresolvedNow ==
    ASSUME IInv, NEW c \in Calls, calls[c].pc \notin {"idle", "lease", "lost"}, Unresolved(c)
    PROVE  /\ Good(rows, calls', late, cards, mail, feed, cursor)
           /\ calls'[c].pc \in {"idle", "refuse"} /\ ~Asking(calls'[c])
           /\ calls'[c].pc = "refuse" => calls'[c].plan = calls[c].plan
           /\ \A d \in Calls \ {c} : calls'[d] = calls[d]
  <1>0. calls \in [Calls -> Call]  BY DEF IInv, Good, Shapes
  <1>1. CASE Lost(calls[c])
    <2>1. PICK k : k = [calls[c] EXCEPT !.pc = "refuse"]  OBVIOUS
    <2>2. /\ calls[c] \in Call /\ JobOK(calls[c], cards) /\ SavedPlan(calls[c], cards, mail)
      BY CallNow DEF At
    <2>3. k \in Call /\ k.pc = "refuse" /\ ~Asking(k) /\ k.req = calls[c].req
          /\ k.name = calls[c].name /\ k.epoch = calls[c].epoch /\ k.plan = calls[c].plan
      BY <2>1, <2>2 DEF Call, Places, Asking
    <2>4. JobOK(k, cards) /\ CaptureOK(k, cursor, feed) /\ SavedPlan(k, cards, mail)
      BY <2>1, <2>2 DEF JobOK, CaptureOK, SavedPlan, Call
    <2>5. calls' = [calls EXCEPT ![c] = k]  BY <1>1, <2>1 DEF Unresolved, Goto
    <2>6. Good(rows, calls', late, cards, mail, feed, cursor)
      BY <2>3, <2>4, <2>5, CallGoesOn DEF IInv
    <2>. QED  BY <1>0, <2>3, <2>5, <2>6
  <1>2. CASE ~Lost(calls[c])
    <2>1. End(c)  BY <1>2 DEF Unresolved
    <2>2. calls' = [calls EXCEPT ![c] = Idle]  BY <2>1 DEF End, Goto
    <2>. QED  BY <1>0, <2>1, <2>2, EndNow, IdleIs
  <1>. QED  BY <1>1, <1>2

\* A call goes on, alone of what there is.
LEMMA GoNow ==
    ASSUME IInv, NEW c \in Calls, NEW k \in Call, Goto(c, k),
           calls[c].pc \notin {"idle", "lease"}, k.pc # "idle",
           k.req = calls[c].req, k.name = calls[c].name, k.epoch = calls[c].epoch,
           k.plan = calls[c].plan,
           JobOK(k, cards), CaptureOK(k, cursor, feed), SavedPlan(k, cards, mail),
           Asking(k) => Asking(calls[c])
    PROVE  Good(rows, calls', late, cards, mail, feed, cursor)
  BY CallGoesOn DEF IInv, Goto

-----------------------------------------------------------------------------
(* Calls that start, plan and begin.                                       *)

LEMMA StartKeeps ==
    ASSUME IInv, NEW c \in Calls, NEW r \in Requests, NEW name \in ArgsOf[r], Start(c, r, name)
    PROVE  Keeps
  <1>1. UNCHANGED <<local, world, late, flight, service, epoch, done>>
    BY DEF Start
  <1>2. Good(rows, calls', late, cards, mail, feed, cursor)
    <2>1. CASE End(c)  BY <2>1, EndNow
    <2>2. CASE ~End(c)
      <3>1. PICK k : k = [Idle EXCEPT !.pc = "lease", !.req = r, !.name = name,
                                      !.epoch = epoch, !.saved = rows[r] # NoRow]
        OBVIOUS
      <3>2. Goto(c, k)  BY <2>2, <3>1 DEF Start
      <3>3. name \in Names /\ epoch \in Epochs /\ epoch \in Nat
        BY ConsentAssumption DEF IInv, Rest, Epochs
      <3>4. k \in Call /\ k.pc = "lease" /\ JobOK(k, cards) /\ CaptureOK(k, cursor, feed)
            /\ SavedPlan(k, cards, mail) /\ ~Asking(k)
        BY <3>1, <3>3 DEF Call, Places, Idle, JobOK, CaptureOK, SavedPlan, Asking
      <3>. QED  BY <3>2, <3>4, CallGood DEF Goto, IInv
    <2>. QED  BY <2>1, <2>2
  <1>. QED  BY <1>1, <1>2, CallKeeps

\* The plan of a hire or a retirement.
LEMMA FreshIs ==
    ASSUME IInv, NEW r \in Requests, NEW name \in Names
    PROVE  /\ Fresh(r, name) \in Plan
           /\ \A tool \in Tools : Placed(tool) \in Workspaces \cup {None}
  <1>1. world.ws \in Workspaces /\ ToolOf[r] \in Tools
    BY ConsentAssumption DEF IInv, Rest, World
  <1>. QED  BY <1>1 DEF Fresh, Plan, Placed

LEMMA LeaseKeeps ==
    ASSUME IInv, NEW c \in Calls, Lease(c)
    PROVE  Keeps
  <1>1. UNCHANGED <<local, world, late, flight, service, epoch, done>>
    BY DEF Lease
  <1>2. PICK k \in Call : k = calls[c] /\ k.pc = "lease"
    BY CallNow DEF Lease, At
  <1>3. /\ JobOK(k, cards) /\ CaptureOK(k, cursor, feed) /\ SavedPlan(k, cards, mail)
        /\ k.req \in Requests /\ k.name \in Names /\ k.card = 0
    BY <1>2, CallNow DEF At, JobOK
  <1>4. Good(rows, calls', late, cards, mail, feed, cursor)
    <2>1. CASE Leased(k.req)
      <3>1. End(c)  BY <1>2, <2>1 DEF Lease
      <3>. QED  BY <3>1, EndNow
    <2>2. CASE ~Leased(k.req)
      <3>1. \A d \in Calls \ {c} : calls[d].req = k.req => calls[d].pc \in {"idle", "lease"}
        BY <2>2 DEF Leased
      <3>2. ASSUME NEW x \in Call, Goto(c, x), x.pc # "idle", JobOK(x, cards),
                   CaptureOK(x, cursor, feed), SavedPlan(x, cards, mail), ~Asking(x),
                   x.req = k.req
            PROVE  Good(rows, calls', late, cards, mail, feed, cursor)
        BY <3>1, <3>2, CallGood DEF Goto, IInv
      <3>3. CASE k.saved /\ (rows[k.req] = NoRow \/ rows[k.req].plan = NoPlan)
        <4>1. PICK x : x = [k EXCEPT !.pc = "lost"]  OBVIOUS
        <4>2. Goto(c, x)  BY <1>2, <2>2, <3>3, <4>1 DEF Lease
        <4>3. x \in Call /\ x.pc = "lost" /\ x.req = k.req  BY <4>1 DEF Call, Places
        <4>4. JobOK(x, cards) /\ CaptureOK(x, cursor, feed) /\ SavedPlan(x, cards, mail)
              /\ ~Asking(x)
          BY <1>2, <1>3, <4>1 DEF Call, JobOK, CaptureOK, SavedPlan, Asking
        <4>. QED  BY <3>2, <4>2, <4>3, <4>4
      <3>4. CASE k.saved /\ rows[k.req] # NoRow /\ rows[k.req].plan # NoPlan
        <4>1. PICK x : x = [k EXCEPT !.pc = "begin", !.plan = rows[k.req].plan]  OBVIOUS
        <4>2. Goto(c, x)  BY <1>2, <2>2, <3>4, <4>1 DEF Lease
        <4>3. rows[k.req].plan \in Plan
          <5>1. rows[k.req] \in Row  BY <1>3, <3>4, RowNow DEF GoodNow, IInv
          <5>. QED  BY <3>4, <5>1 DEF Row
        <4>4. x \in Call /\ x.pc = "begin" /\ x.req = k.req /\ x.plan = rows[k.req].plan
          <5>1. x = [k EXCEPT !.pc = "begin", !.plan = rows[k.req].plan, !.auth = k.auth]
                /\ k.auth \in {"none", "card", "grant", "own"} /\ "begin" \in Places
            BY <4>1 DEF Call, Places, SqlPlaces
          <5>2. PICK auth \in {"none", "card", "grant", "own"}, plan \in Plan :
                    auth = k.auth /\ plan = rows[k.req].plan
            BY <4>3, <5>1
          <5>3. \A y : y = [k EXCEPT !.pc = "begin", !.plan = plan, !.auth = auth] =>
                    y \in Call /\ y.pc = "begin" /\ y.req = k.req /\ y.plan = plan
            BY <5>1, plan \in Plan \cup {NoPlan} DEF Call
          <5>. QED  BY <5>1, <5>2, <5>3
        <4>5. JobOK(x, cards) /\ CaptureOK(x, cursor, feed) /\ ~Asking(x)
          BY <1>2, <1>3, <4>1, <4>3 DEF Call, JobOK, CaptureOK, Asking
        <4>6. SavedPlan(x, cards, mail)
          BY <4>4 DEF SavedPlan, IInv, Good, CardsOnce, Made
        <4>. QED  BY <3>2, <4>2, <4>4, <4>5, <4>6
      <3>5. CASE ~k.saved /\ ~Allowed(k.req, k.name)
        <4>1. End(c)  BY <1>2, <2>2, <3>5 DEF Lease
        <4>. QED  BY <4>1, EndNow
      <3>6. CASE ~k.saved /\ Allowed(k.req, k.name)
        <4>1. PICK plan \in Plan : plan = Fresh(k.req, k.name)  BY <1>3, FreshIs
        <4>2. Goto(c, CASE plan.tool = "retire" ->
                             [k EXCEPT !.pc = "write", !.plan = plan, !.auth = "own"]
                        [] Covered -> [k EXCEPT !.pc = "write", !.plan = plan, !.auth = "grant"]
                        [] OTHER -> [k EXCEPT !.pc = "begin", !.plan = plan])
          <5>1. ~(k.saved /\ ~Leased(k.req)) /\ ~(~Leased(k.req) /\ ~k.saved /\ ~Allowed(k.req, k.name))
                /\ ~Leased(k.req)
            BY <2>2, <3>6
          <5>. QED  BY <1>2, <4>1, <5>1 DEF Lease
        <4>3. PICK x : /\ Goto(c, x)
                       /\ \/ x = [k EXCEPT !.pc = "write", !.plan = plan, !.auth = "own"]
                          \/ x = [k EXCEPT !.pc = "write", !.plan = plan, !.auth = "grant"]
                          \/ x = [k EXCEPT !.pc = "begin", !.plan = plan]
          BY <4>2
        <4>4. x \in Call /\ x.pc \in {"write", "begin"} /\ x.req = k.req /\ x.saved = k.saved
          <5>1. PICK pc \in Places, auth \in {"none", "card", "grant", "own"} :
                    x = [k EXCEPT !.pc = pc, !.plan = plan, !.auth = auth]
                    /\ pc \in {"write", "begin"}
            <6>1. "begin" \in Places /\ "write" \in Places  BY DEF Places, SqlPlaces
            <6>2. k.auth \in {"none", "card", "grant", "own"}  BY DEF Call
            <6>3. [k EXCEPT !.pc = "begin", !.plan = plan]
                      = [k EXCEPT !.pc = "begin", !.plan = plan, !.auth = k.auth]
              BY DEF Call
            <6>. QED  BY <4>3, <6>1, <6>2, <6>3
          <5>2. x \in Call /\ x.pc = pc /\ x.req = k.req /\ x.saved = k.saved
            <6>1. \A y : y = [k EXCEPT !.pc = pc, !.plan = plan, !.auth = auth] =>
                      y \in Call /\ y.pc = pc /\ y.req = k.req /\ y.saved = k.saved
              BY plan \in Plan \cup {NoPlan} DEF Call
            <6>. QED  BY <5>1, <6>1
          <5>. QED  BY <5>1, <5>2
        <4>5. JobOK(x, cards) /\ CaptureOK(x, cursor, feed) /\ ~Asking(x)
          BY <1>2, <1>3, <4>3 DEF Call, JobOK, CaptureOK, Asking
        <4>6. SavedPlan(x, cards, mail)  BY <3>6, <4>4 DEF SavedPlan
        <4>. QED  BY <3>2, <4>3, <4>4, <4>5, <4>6
      <3>. QED  BY <3>3, <3>4, <3>5, <3>6
    <2>. QED  BY <2>1, <2>2
  <1>. QED  BY <1>1, <1>4, CallKeeps

\* x is k gone on to write, or to refuse.
Decides(k, x, cd, ml, cu, fd) ==
    /\ x \in Call /\ x.pc \in {"write", "refuse"} /\ x.req = k.req /\ x.name = k.name
    /\ x.epoch = k.epoch /\ x.plan = k.plan
    /\ JobOK(x, cd) /\ CaptureOK(x, cu, fd) /\ SavedPlan(x, cd, ml) /\ ~Asking(x)

\* A call that a saved answer decides goes on to write, or to refuse.
LEMMA DecidedOK ==
    ASSUME NEW rs, NEW cd, NEW ml, NEW cu, NEW fd, CardsOnce(rs, cd, ml), RowsFit(rs, cd),
           NEW k \in Call, k.pc \notin {"idle", "lease", "lost"}, JobOK(k, cd),
           SavedPlan(k, cd, ml), NEW row \in Row, row = rs[k.req],
           k.found \/ k.card # 0
    PROVE  Decides(k, Decided(k, row), cd, ml, cu, fd)
  <1>1. PICK x : x = Decided(k, row)  OBVIOUS
  <1>2. k.req \in Requests /\ row.state # "none" /\ row.card \in Nat
    BY DEF JobOK, Row
  <1>3. /\ row.card # 0 => CardOf(cd, row.card, k.req)
        /\ row.answer # "none" => row.card # 0 /\ cd[row.card].state = row.answer
    BY <1>2 DEF RowsFit
  <1>4. CASE row.answer \in Approvals /\ ~row.day
    <2>1. x = [k EXCEPT !.pc = "write", !.auth = "card", !.choice = row.answer, !.card = row.card]
      BY <1>1, <1>4 DEF Decided
    <2>2. x \in Call /\ x.pc = "write" /\ x.auth = "card" /\ x.choice = row.answer
          /\ x.card = row.card /\ x.req = k.req /\ x.name = k.name /\ x.epoch = k.epoch
          /\ x.plan = k.plan /\ x.found = k.found /\ x.saved = k.saved
      BY <1>2, <1>4, <2>1 DEF Call, Places
    <2>3. row.card # 0 /\ CardOf(cd, row.card, k.req) /\ cd[row.card].state = row.answer
      BY <1>3, <1>4 DEF Approvals
    <2>4. k.saved => cd[row.card].plan = k.plan
      BY <2>3 DEF SavedPlan, CardOf
    <2>5. ~k.found => cd[row.card].plan = k.plan
      <3>1. ASSUME ~k.found PROVE cd[row.card].plan = k.plan
        <4>1. CardOf(cd, k.card, k.req) /\ cd[k.card].plan = k.plan  BY <3>1 DEF JobOK
        <4>2. row.card = k.card  BY <2>3, <4>1 DEF CardOf, CardsOnce
        <4>. QED  BY <4>1, <4>2
      <3>. QED  BY <3>1
    <2>6. k.name \in Names /\ k.epoch \in Epochs /\ k.plan \in Plan  BY DEF JobOK
    <2>7. JobOK(x, cd)  BY <1>2, <1>4, <2>2, <2>3, <2>4, <2>5, <2>6 DEF JobOK
    <2>8. CaptureOK(x, cu, fd) /\ SavedPlan(x, cd, ml) /\ ~Asking(x)
      BY <2>2 DEF CaptureOK, SavedPlan, Asking
    <2>. QED  BY <1>1, <2>2, <2>7, <2>8 DEF Decides
  <1>5. CASE ~(row.answer \in Approvals /\ ~row.day)
    <2>1. x = [k EXCEPT !.pc = "refuse"]  BY <1>1, <1>5 DEF Decided
    <2>2. x \in Call /\ x.pc = "refuse" /\ x.req = k.req /\ x.name = k.name
          /\ x.epoch = k.epoch /\ x.plan = k.plan
      BY <2>1 DEF Call, Places
    <2>3. JobOK(x, cd) /\ CaptureOK(x, cu, fd) /\ SavedPlan(x, cd, ml) /\ ~Asking(x)
      BY <2>1 DEF JobOK, CaptureOK, SavedPlan, Asking, Call
    <2>. QED  BY <1>1, <2>2, <2>3 DEF Decides
  <1>. QED  BY <1>4, <1>5

-----------------------------------------------------------------------------
(* Calls that resolve their request.                                       *)

LEMMA BeginKeeps ==
    ASSUME IInv, NEW c \in Calls, Begin(c)
    PROVE  Keeps
  <1>1. /\ rows' = BeginRows(calls[c])
        /\ UNCHANGED <<grant, cursor, world, late, flight, service, epoch, done>>
        /\ late' = late /\ cards' = cards /\ mail' = mail /\ feed' = feed /\ acked' = acked
        /\ cursor' = cursor
    BY DEF Begin, service
  <1>2. PICK k \in Call : k = calls[c] /\ k.pc = "begin"
    BY CallNow DEF Begin, At
  <1>3. /\ JobOK(k, cards) /\ SavedPlan(k, cards, mail)
        /\ k.req \in Requests /\ k.name \in Names /\ k.epoch \in Epochs /\ k.plan \in Plan
        /\ k.card = 0
        /\ \A d \in Calls \ {c} : calls[d].req = k.req => calls[d].pc \in {"idle", "lease"}
    BY <1>2, CallNow DEF At, JobOK
  <1>4. GoodNow  BY DEF GoodNow, IInv
  <1>5. RowsGoOn(rows, rows', cards) /\ NoneApplied(rows, rows')
    BY <1>1, <1>2, <1>3, <1>4, BeginRowsGo
  <1>6. Good(rows', calls, late, cards, mail, feed, cursor) /\ Final(rows, rows')
    BY <1>5, RowsNow
  <1>7. Good(rows', calls', late, cards, mail, feed, cursor)
    <2>1. CASE rows[k.req] = NoRow
      <3>1. PICK x : x = [k EXCEPT !.pc = "open"]  OBVIOUS
      <3>2. calls' = [calls EXCEPT ![c] = x]  
        <4>1. Goto(c, [k EXCEPT !.pc = "open"])  
          <5>1. ~Awaiting(k.req)  BY <2>1 DEF Awaiting, NoRow
          <5>. QED  BY <1>2, <2>1, <5>1, Zenon DEF Begin
        <4>. QED  BY <3>1, <4>1 DEF Goto
      <3>3. x \in Call /\ x.pc = "open" /\ x.req = k.req /\ x.name = k.name
            /\ x.epoch = k.epoch /\ x.plan = k.plan
        BY <3>1 DEF Call, Places
      <3>4. JobOK(x, cards) /\ CaptureOK(x, cursor, feed) /\ SavedPlan(x, cards, mail)
        BY <1>2, <1>3, <3>1 DEF Call, JobOK, CaptureOK, SavedPlan
      <3>5. Made(rows', x)
        <4>1. rows'[k.req] = NewRow(k, k.plan)
          BY <1>1, <1>2, <1>3, <1>4, <2>1, RowNow DEF BeginRows, RowSets
        <4>. QED  BY <1>3, <3>3, <4>1, NewRowIs DEF Made
      <3>6. rows[k.req].state = "none"  BY <2>1 DEF NoRow
      <3>7. Unasked(x.req, cards, mail)
        BY <3>3, <3>6 DEF Unasked, IInv, Good, CardsOnce, Made
      <3>8. \A l \in late : l.pc = "delete" => l.req # x.req
        BY <3>3, <3>6 DEF IInv, Good, AsksOnce, Made
      <3>. QED  BY <1>3, <1>6, <3>2, <3>3, <3>4, <3>5, <3>7, <3>8, CallGood
    <2>2. CASE rows[k.req] # NoRow
      <3>1. rows' = rows  BY <1>1, <1>2, <2>2 DEF BeginRows
      <3>2. rows[k.req] \in Row /\ RowFits(rows[k.req], k.req, cards)
        BY <1>3, <1>4, <2>2, RowNow
      <3>3. CASE End(c)  BY <3>1, <3>3, EndNow
      <3>4. CASE Goto(c, [k EXCEPT !.pc = "refuse"])
        <4>1. PICK x : x = [k EXCEPT !.pc = "refuse"]  OBVIOUS
        <4>2. x \in Call /\ x.pc = "refuse" /\ x.req = k.req /\ x.name = k.name
              /\ x.epoch = k.epoch /\ x.plan = k.plan /\ ~Asking(x)
          BY <4>1 DEF Call, Places, Asking
        <4>3. JobOK(x, cards) /\ CaptureOK(x, cursor, feed) /\ SavedPlan(x, cards, mail)
          BY <1>2, <1>3, <4>1 DEF Call, JobOK, CaptureOK, SavedPlan
        <4>. QED  BY <1>2, <3>1, <3>4, <4>1, <4>2, <4>3, GoNow
      <3>5. CASE Goto(c, [Decided(k, rows[k.req]) EXCEPT !.found = TRUE])
        <4>1. PICK x : x = [k EXCEPT !.found = TRUE]  OBVIOUS
        <4>2. x \in Call /\ x.pc = "begin" /\ x.req = k.req /\ x.name = k.name
              /\ x.epoch = k.epoch /\ x.plan = k.plan /\ x.found
          BY <1>2, <4>1 DEF Call
        <4>3. JobOK(x, cards) /\ SavedPlan(x, cards, mail)
          BY <1>2, <1>3, <4>1 DEF Call, JobOK, SavedPlan
        <4>4. PICK y : y = Decided(x, rows[k.req])  OBVIOUS
        <4>5. y = [Decided(k, rows[k.req]) EXCEPT !.found = TRUE]
          BY <4>1, <4>4 DEF Decided, Call
        <4>6. /\ y \in Call /\ y.pc \in {"write", "refuse"} /\ y.req = x.req /\ y.name = x.name
              /\ y.epoch = x.epoch /\ y.plan = x.plan /\ JobOK(y, cards)
              /\ CaptureOK(y, cursor, feed) /\ SavedPlan(y, cards, mail) /\ ~Asking(y)
          <5>1. CardsOnce(rows, cards, mail) /\ RowsFit(rows, cards)  BY DEF IInv, Good
          <5>2. PICK row \in Row : row = rows[k.req]  BY <3>2
          <5>3. row = rows[x.req] /\ x.pc \notin {"idle", "lease", "lost"}
                /\ (x.found \/ x.card # 0)
            BY <4>2, <5>2
          <5>4. x \in Call /\ JobOK(x, cards) /\ SavedPlan(x, cards, mail)  BY <4>2, <4>3
          <5>5. Decides(x, Decided(x, row), cards, mail, cursor, feed)
            BY <5>1, <5>3, <5>4, DecidedOK
          <5>. QED  BY <4>4, <5>2, <5>5 DEF Decides
        <4>. QED  BY <1>2, <3>1, <3>5, <4>2, <4>5, <4>6, GoNow
      <3>6. CASE Goto(c, [k EXCEPT !.pc = "open", !.found = TRUE, !.card = rows[k.req].card])
        <4>1. PICK x : x = [k EXCEPT !.pc = "open", !.found = TRUE, !.card = rows[k.req].card]
          OBVIOUS
        <4>2. rows[k.req].card \in Nat  BY <3>2 DEF Row
        <4>3. x \in Call /\ x.pc = "open" /\ x.req = k.req /\ x.name = k.name
              /\ x.epoch = k.epoch /\ x.plan = k.plan /\ x.found /\ x.card = rows[k.req].card
              /\ x.auth = k.auth /\ x.choice = k.choice /\ x.saved = k.saved
          BY <4>1, <4>2 DEF Call, Places
        <4>4. JobOK(x, cards)
          BY <1>2, <1>3, <3>2, <4>3 DEF JobOK, RowFits
        <4>5. CaptureOK(x, cursor, feed) /\ SavedPlan(x, cards, mail) /\ ~Asking(x)
          BY <1>2, <1>3, <4>3 DEF CaptureOK, SavedPlan, Asking
        <4>6. Goto(c, x)  BY <3>6, <4>1
        <4>. QED  BY <1>2, <3>1, <4>3, <4>4, <4>5, <4>6, GoNow
      <3>7. \/ End(c) \/ Goto(c, [k EXCEPT !.pc = "refuse"])
            \/ Goto(c, [Decided(k, rows[k.req]) EXCEPT !.found = TRUE])
            \/ Goto(c, [k EXCEPT !.pc = "open", !.found = TRUE, !.card = rows[k.req].card])
        BY <1>2, <2>2, Zenon DEF Begin
      <3>. QED  BY <3>3, <3>4, <3>5, <3>6, <3>7
    <2>. QED  BY <2>1, <2>2
  <1>8. Good(rows', calls', late', cards', mail', feed', cursor')  BY <1>1, <1>7
  <1>. QED  BY <1>1, <1>5, <1>6, <1>8, RowCallKeeps

LEMMA OpenKeeps ==
    ASSUME IInv, NEW c \in Calls, Open(c)
    PROVE  Keeps
  <1>1. UNCHANGED <<local, world, late, flight, service, epoch, done>>  BY DEF Open
  <1>2. PICK k \in Call : k = calls[c] /\ k.pc = "open"  BY CallNow DEF Open, At
  <1>3. JobOK(k, cards) /\ SavedPlan(k, cards, mail) /\ k.epoch \in Epochs
    BY <1>2, CallNow DEF At, JobOK
  <1>4. cursor[k.epoch] \in Nat  BY <1>3 DEF IInv, Good, Shapes, Cursors
  <1>5. ASSUME NEW x \in Call, Goto(c, x), x.pc # "idle", x.req = k.req, x.name = k.name,
               x.epoch = k.epoch, x.plan = k.plan, JobOK(x, cards), CaptureOK(x, cursor, feed),
               SavedPlan(x, cards, mail), x.found = k.found
        PROVE  Good(rows, calls', late, cards, mail, feed, cursor)
    <2>1. Asking(x) => Asking(k)  BY <1>2, <1>5 DEF Asking
    <2>. QED  BY <1>2, <1>5, <2>1, GoNow
  <1>6. Good(rows, calls', late, cards, mail, feed, cursor)
    <2>1. CASE Goto(c, [k EXCEPT !.pc = OnRoute(k), !.cur = cursor[k.epoch]])
      <3>1. PICK x : x = [k EXCEPT !.pc = OnRoute(k), !.cur = cursor[k.epoch]]  OBVIOUS
      <3>2. OnRoute(k) \in {"ask", "page", "poll"} /\ OnRoute(k) \in Places
        BY DEF OnRoute, Places, SqlPlaces
      <3>3. x \in Call /\ x.pc = OnRoute(k) /\ x.req = k.req /\ x.name = k.name
            /\ x.epoch = k.epoch /\ x.plan = k.plan /\ x.found = k.found /\ x.cur = cursor[k.epoch]
            /\ x.card = k.card /\ x.auth = k.auth /\ x.choice = k.choice /\ x.saved = k.saved
        BY <1>4, <3>1, <3>2 DEF Call
      <3>4. JobOK(x, cards)  BY <1>2, <1>3, <3>3 DEF JobOK, OnRoute
      <3>5. CaptureOK(x, cursor, feed) /\ SavedPlan(x, cards, mail)
        BY <1>2, <1>3, <1>4, <3>2, <3>3 DEF CaptureOK, SavedPlan
      <3>. QED  BY <1>5, <2>1, <3>1, <3>2, <3>3, <3>4, <3>5
    <2>2. CASE k.found /\ Unresolved(c)  BY <1>2, <2>2, UnresolvedNow
    <2>3. CASE ~k.found /\ Goto(c, [k EXCEPT !.pc = "delete"])
      <3>1. PICK x : x = [k EXCEPT !.pc = "delete"]  OBVIOUS
      <3>2. x \in Call /\ x.pc = "delete" /\ x.req = k.req /\ x.name = k.name
            /\ x.epoch = k.epoch /\ x.plan = k.plan /\ x.found = k.found
        BY <3>1 DEF Call, Places, SqlPlaces
      <3>3. JobOK(x, cards) /\ CaptureOK(x, cursor, feed) /\ SavedPlan(x, cards, mail)
        BY <1>2, <1>3, <2>3, <3>1 DEF Call, JobOK, CaptureOK, SavedPlan
      <3>. QED  BY <1>5, <2>3, <3>1, <3>2, <3>3
    <2>. QED  BY <1>2, <2>1, <2>2, <2>3 DEF Open
  <1>. QED  BY <1>1, <1>6, CallKeeps

\* The card of a call that asks may be made, when the call itself asks no more.
LEMMA CardMayCome ==
    ASSUME IInv, NEW c \in Calls, Asking(calls[c]), At(c, "ask"), NEW x, ~Asking(x),
           x.pc \notin {"idle", "lease", "lost"} => x.plan = calls[c].plan
    PROVE  /\ Card(calls[c]) \in CardSet
           /\ MayAsk(rows, [calls EXCEPT ![c] = x], late, cards, mail, Card(calls[c]))
  <1>1. PICK k : k = calls[c]  OBVIOUS
  <1>2. ~At(c, "idle") /\ k.pc = "ask"  BY <1>1 DEF At
  <1>3. /\ k \in Call /\ JobOK(k, cards)
        /\ \A d \in Calls \ {c} : calls[d].req = k.req => calls[d].pc \in {"idle", "lease"}
    BY <1>1, <1>2, CallNow
  <1>4. PICK y : y = Card(k)  OBVIOUS
  <1>5. y.req = k.req /\ y.name = k.name /\ y.epoch = k.epoch /\ y.plan = k.plan
    BY <1>4 DEF Card
  <1>6. y \in CardSet  BY <1>2, <1>3, <1>4 DEF JobOK, Card, CardSet
  <1>7. Made(rows, y) /\ Unasked(y.req, cards, mail)
        /\ \A l \in late : l.pc = "delete" => l.req # y.req
    BY <1>1, <1>5, AskingNow DEF Made
  <1>8. PICK cl : cl = [calls EXCEPT ![c] = x]  OBVIOUS
  <1>9. cl[c] = x /\ \A d \in Calls \ {c} : cl[d] = calls[d]
    BY <1>8 DEF IInv, Good, Shapes
  <1>10. \A d \in Calls : Asking(cl[d]) => cl[d].req # y.req
    BY <1>1, <1>5, <1>9, AskingNow
  <1>11. ASSUME NEW d \in Calls, cl[d].saved, cl[d].pc \notin {"idle", "lease", "lost"},
                cl[d].req = y.req
         PROVE  cl[d].plan = y.plan
    BY <1>1, <1>3, <1>5, <1>9, <1>11
  <1>. QED  BY <1>1, <1>4, <1>6, <1>7, <1>8, <1>10, <1>11 DEF MayAsk

LEMMA AskKeeps ==
    ASSUME IInv, NEW c \in Calls, Ask(c)
    PROVE  Keeps
  <1>1. /\ UNCHANGED <<local, world, late, flight, feed, acked, epoch, done>>
        /\ rows' = rows /\ grant' = grant /\ cursor' = cursor
    BY DEF Ask, local
  <1>2. PICK k \in Call : k = calls[c] /\ k.pc = "ask"  BY CallNow DEF Ask, At
  <1>3. /\ JobOK(k, cards) /\ SavedPlan(k, cards, mail) /\ ~k.found /\ Asking(k)
        /\ k.plan \in Plan
        /\ \A d \in Calls \ {c} : calls[d].req = k.req => calls[d].pc \in {"idle", "lease"}
    BY <1>2, CallNow DEF At, JobOK, Asking
  <1>4. /\ Made(rows, k) /\ Unasked(k.req, cards, mail) /\ k.card = 0
        /\ \A l \in late : l.pc = "delete" => l.req # k.req
    BY <1>2, <1>3, AskingNow
  <1>5. rows \in RowSets /\ cards \in Seq(CardSet) /\ calls \in [Calls -> Call]
    BY DEF IInv, Good, Shapes
  <1>6. NoneApplied(rows, rows') /\ Final(rows, rows')
    BY <1>1, <1>5, RowsSame, GoesOnFinal
  <1>7. CASE /\ cards' = Append(cards, Card(k)) /\ mail' = mail
             /\ Goto(c, [k EXCEPT !.pc = "setid", !.card = Len(cards) + 1])
    <2>1. PICK idle : idle = [calls EXCEPT ![c] = Idle]  OBVIOUS
    <2>2. Good(rows, idle, late, cards, mail, feed, cursor)  BY <2>1, EndGood DEF IInv
    <2>3. Card(k) \in CardSet /\ MayAsk(rows, idle, late, cards, mail, Card(k))
      BY <1>2, <1>3, <2>1, CardMayCome, IdleIs DEF At
    <2>4. Good(rows, idle, late, cards', mail, feed, cursor)  BY <1>7, <2>2, <2>3, ShownGood
    <2>5. PICK x : x = [k EXCEPT !.pc = "setid", !.card = Len(cards) + 1]  OBVIOUS
    <2>6. Len(cards) \in Nat /\ Len(cards) + 1 \in Nat  BY <1>5
    <2>7. x \in Call /\ x.pc = "setid" /\ x.card = Len(cards) + 1 /\ x.req = k.req
          /\ x.name = k.name /\ x.epoch = k.epoch /\ x.plan = k.plan /\ x.found = k.found
          /\ x.auth = k.auth /\ x.choice = k.choice /\ x.saved = k.saved
      BY <2>5, <2>6 DEF Call, Places, SqlPlaces
    <2>8. /\ DOMAIN cards' = DOMAIN cards \cup {Len(cards) + 1}
          /\ cards'[Len(cards) + 1] = Card(k) /\ \A i \in DOMAIN cards : cards'[i] = cards[i]
      BY <1>5, <1>7, <2>3, AppendedCard
    <2>9. Card(k).req = k.req /\ Card(k).plan = k.plan  BY DEF Card
    <2>10. JobOK(x, cards')
      <3>1. CardOf(cards', x.card, x.req) /\ x.card # 0 /\ cards'[x.card].plan = x.plan
        BY <2>6, <2>7, <2>8, <2>9 DEF CardOf
      <3>2. x.choice = "none" /\ x.auth # "card"  BY <1>3, <1>4, <2>7 DEF JobOK
      <3>. QED  BY <1>2, <1>3, <2>7, <3>1, <3>2 DEF JobOK
    <2>11. SavedPlan(x, cards', mail)
      <3>1. \A i \in DOMAIN cards' : cards'[i].req = k.req => cards'[i].plan = k.plan
        BY <1>4, <2>8, <2>9 DEF Unasked
      <3>. QED  BY <1>4, <2>7, <3>1 DEF SavedPlan, Unasked
    <2>12. CaptureOK(x, cursor, feed) /\ ~Asking(x)  BY <2>7 DEF CaptureOK, Asking
    <2>13. /\ calls' = [idle EXCEPT ![c] = x]
           /\ \A d \in Calls \ {c} : idle[d].req = x.req => idle[d].pc \in {"idle", "lease"}
      BY <1>3, <1>5, <1>7, <2>1, <2>5, <2>7 DEF Goto
    <2>14. Good(rows, calls', late, cards', mail, feed, cursor)
      BY <2>4, <2>7, <2>10, <2>11, <2>12, <2>13, CallGood
    <2>15. Good(rows', calls', late', cards', mail', feed', cursor')
      BY <1>1, <1>7, <2>14
    <2>16. Results(rows', grant', done', cards')
      <3>1. CardsStay(cards, cards')  BY <1>5, <1>7, <2>3, AppendedCard
      <3>. QED  BY <1>1, <3>1, ResultsCards DEF IInv
    <2>17. Rest'  BY <1>1 DEF IInv, Rest
    <2>. QED  BY <1>6, <2>15, <2>16, <2>17 DEF Keeps, IInv
  <1>8. CASE Goto(c, [k EXCEPT !.pc = "delete"]) /\ cards' = cards /\ mail' = mail
    <2>1. PICK x : x = [k EXCEPT !.pc = "delete"]  OBVIOUS
    <2>2. x \in Call /\ x.pc = "delete" /\ x.req = k.req /\ x.name = k.name
          /\ x.epoch = k.epoch /\ x.plan = k.plan
      BY <2>1 DEF Call, Places, SqlPlaces
    <2>3. JobOK(x, cards) /\ CaptureOK(x, cursor, feed) /\ SavedPlan(x, cards, mail)
      BY <1>2, <1>3, <2>1 DEF Call, JobOK, CaptureOK, SavedPlan
    <2>4. Good(rows, calls', late, cards, mail, feed, cursor)
      BY <1>2, <1>3, <1>8, <2>1, <2>2, <2>3, GoNow
    <2>. QED  BY <1>1, <1>8, <2>4, CallKeeps DEF service
  <1>9. CASE mail' = mail \cup {Card(k)} /\ AskUnanswered(c) /\ cards' = cards
    <2>1. /\ Good(rows, calls', late, cards, mail, feed, cursor)
          /\ calls'[c].pc \in {"idle", "refuse"} /\ ~Asking(calls'[c])
          /\ calls'[c].pc = "refuse" => calls'[c].plan = k.plan
          /\ \A d \in Calls \ {c} : calls'[d] = calls[d]
      BY <1>2, <1>9, UnresolvedNow DEF AskUnanswered
    <2>2. calls' = [calls EXCEPT ![c] = calls'[c]]
      <3>1. calls' \in [Calls -> Call]  BY <2>1 DEF Good, Shapes
      <3>. QED  BY <1>5, <2>1, <3>1
    <2>3. Card(k) \in CardSet /\ MayAsk(rows, calls', late, cards, mail, Card(k))
      <3>1. PICK x : x = calls'[c]  OBVIOUS
      <3>2. ~Asking(x) /\ (x.pc \notin {"idle", "lease", "lost"} => x.plan = calls[c].plan)
        BY <1>2, <2>1, <3>1
      <3>3. Card(calls[c]) \in CardSet
            /\ MayAsk(rows, [calls EXCEPT ![c] = x], late, cards, mail, Card(calls[c]))
        BY <1>2, <1>3, <3>2, CardMayCome DEF At
      <3>. QED  BY <1>2, <2>2, <3>1, <3>3
    <2>4. Good(rows, calls', late, cards, mail', feed, cursor)
      BY <1>9, <2>1, <2>3, MailSentGood
    <2>5. Good(rows', calls', late', cards', mail', feed', cursor')
      BY <1>1, <1>9, <2>4
    <2>. QED  BY <1>1, <1>6, <1>9, <2>5, RowCallKeeps
  <1>. QED  BY <1>2, <1>7, <1>8, <1>9 DEF Ask

LEMMA SetIdKeeps ==
    ASSUME IInv, NEW c \in Calls, SetId(c)
    PROVE  Keeps
  <1>1. /\ rows' = SetIdRows(calls[c])
        /\ UNCHANGED <<grant, cursor, world, late, flight, service, epoch, done>>
        /\ late' = late /\ cards' = cards /\ mail' = mail /\ feed' = feed /\ acked' = acked
        /\ cursor' = cursor
    BY DEF SetId, service
  <1>2. PICK k \in Call : k = calls[c] /\ k.pc = "setid"  BY CallNow DEF SetId, At
  <1>3. JobOK(k, cards) /\ SavedPlan(k, cards, mail)  BY <1>2, CallNow DEF At
  <1>4. GoodNow  BY DEF GoodNow, IInv
  <1>5. RowsGoOn(rows, rows', cards) /\ NoneApplied(rows, rows')
    BY <1>1, <1>2, <1>3, <1>4, SetIdRowsGo
  <1>6. Good(rows', calls, late, cards, mail, feed, cursor) /\ Final(rows, rows')
    BY <1>5, RowsNow
  <1>7. PICK x : x = [k EXCEPT !.pc = "poll"]  OBVIOUS
  <1>8. calls' = [calls EXCEPT ![c] = x]  BY <1>2, <1>7 DEF SetId, Goto
  <1>9. x \in Call /\ x.pc = "poll" /\ x.req = k.req /\ x.name = k.name
        /\ x.epoch = k.epoch /\ x.plan = k.plan /\ ~Asking(x)
    BY <1>7 DEF Call, Places, Asking
  <1>10. JobOK(x, cards) /\ CaptureOK(x, cursor, feed) /\ SavedPlan(x, cards, mail)
    BY <1>2, <1>3, <1>7 DEF Call, JobOK, CaptureOK, SavedPlan
  <1>11. Good(rows', calls', late, cards, mail, feed, cursor)
    BY <1>2, <1>6, <1>8, <1>9, <1>10, CallGoesOn
  <1>12. Good(rows', calls', late', cards', mail', feed', cursor')  BY <1>1, <1>11
  <1>. QED  BY <1>1, <1>5, <1>6, <1>12, RowCallKeeps

LEMMA PollKeeps ==
    ASSUME IInv, NEW c \in Calls, Poll(c)
    PROVE  Keeps
  <1>1. UNCHANGED <<local, world, late, flight, service, epoch, done>>  BY DEF Poll
  <1>2. PICK k \in Call : k = calls[c] /\ k.pc = "poll"  BY CallNow DEF Poll, At
  <1>3. JobOK(k, cards) /\ SavedPlan(k, cards, mail)  BY <1>2, CallNow DEF At
  <1>4. Good(rows, calls', late, cards, mail, feed, cursor)
    <2>1. CASE End(c)  BY <2>1, EndNow
    <2>2. ASSUME NEW pc \in {"settle", "refuse"}, Goto(c, [k EXCEPT !.pc = pc]),
                 pc = "settle" => Settled(k.card)
          PROVE  Good(rows, calls', late, cards, mail, feed, cursor)
      <3>1. PICK x : x = [k EXCEPT !.pc = pc]  OBVIOUS
      <3>2. x \in Call /\ x.pc = pc /\ x.req = k.req /\ x.name = k.name
            /\ x.epoch = k.epoch /\ x.plan = k.plan /\ ~Asking(x)
        BY <3>1 DEF Call, Places, SqlPlaces, Asking
      <3>3. JobOK(x, cards) /\ CaptureOK(x, cursor, feed) /\ SavedPlan(x, cards, mail)
        BY <1>2, <1>3, <2>2, <3>1 DEF Call, JobOK, CaptureOK, SavedPlan, Settled
      <3>. QED  BY <1>2, <2>2, <3>1, <3>2, <3>3, GoNow
    <2>. QED  BY <1>2, <2>1, <2>2 DEF Poll
  <1>. QED  BY <1>1, <1>4, CallKeeps

LEMMA SettleKeeps ==
    ASSUME IInv, NEW c \in Calls, Settle(c)
    PROVE  Keeps
  <1>1. /\ rows' = Recorded(rows, calls[c].card)
        /\ UNCHANGED <<grant, cursor, world, late, flight, service, epoch, done>>
        /\ late' = late /\ cards' = cards /\ mail' = mail /\ feed' = feed /\ acked' = acked
        /\ cursor' = cursor
    BY DEF Settle, service
  <1>2. PICK k \in Call : k = calls[c] /\ k.pc = "settle"  BY CallNow DEF Settle, At
  <1>3. JobOK(k, cards) /\ SavedPlan(k, cards, mail) /\ k.req \in Requests
    BY <1>2, CallNow DEF At
  <1>4. GoodNow  BY DEF GoodNow, IInv
  <1>5. k.card \in DOMAIN cards /\ cards[k.card].state # "pending" /\ k.card # 0
    BY <1>2, <1>3 DEF JobOK, CardOf
  <1>6. RowsGoOn(rows, rows', cards) /\ NoneApplied(rows, rows')
    BY <1>1, <1>2, <1>4, <1>5, RecordedGo
  <1>7. Good(rows', calls, late, cards, mail, feed, cursor) /\ Final(rows, rows')
    BY <1>6, RowsNow
  <1>8. rows'[k.req] \in Row \cup {NoRow}
        /\ CardsOnce(rows', cards, mail) /\ RowsFit(rows', cards)
    BY <1>3, <1>7 DEF Good, Shapes, RowSets
  <1>9. PICK row : row = rows'[k.req]  OBVIOUS
  <1>10. PICK x : x = IF row = NoRow THEN [k EXCEPT !.pc = "lost"] ELSE Decided(k, row)  OBVIOUS
  <1>11. calls' = [calls EXCEPT ![c] = x]
    BY <1>1, <1>2, <1>9, <1>10 DEF Settle, Goto
  <1>12. Good(rows', calls', late, cards, mail, feed, cursor)
    <2>1. CASE row = NoRow
      <3>1. x = [k EXCEPT !.pc = "lost"]  BY <1>10, <2>1
      <3>2. x \in Call /\ x.pc = "lost" /\ x.req = k.req /\ x.name = k.name
            /\ x.epoch = k.epoch /\ x.plan = k.plan /\ ~Asking(x)
        BY <3>1 DEF Call, Places, Asking
      <3>3. JobOK(x, cards) /\ CaptureOK(x, cursor, feed) /\ SavedPlan(x, cards, mail)
        BY <1>2, <1>3, <3>1 DEF Call, JobOK, CaptureOK, SavedPlan
      <3>. QED  BY <1>2, <1>7, <1>11, <3>2, <3>3, CallGoesOn
    <2>2. CASE row # NoRow
      <3>1. row \in Row /\ row = rows'[k.req] /\ k.pc \notin {"idle", "lease", "lost"}
            /\ (k.found \/ k.card # 0)
        BY <1>2, <1>5, <1>8, <1>9, <2>2
      <3>2. Decides(k, Decided(k, row), cards, mail, cursor, feed)
        BY <1>3, <1>8, <3>1, DecidedOK
      <3>3. Decides(k, x, cards, mail, cursor, feed)  BY <1>10, <2>2, <3>2
      <3>. QED  BY <1>2, <1>7, <1>11, <3>3, CallGoesOn DEF Decides
    <2>. QED  BY <2>1, <2>2
  <1>13. Good(rows', calls', late', cards', mail', feed', cursor')  BY <1>1, <1>12
  <1>. QED  BY <1>1, <1>6, <1>7, <1>13, RowCallKeeps

\* The row of a request that asked nobody is deleted.
LEMMA RowDeleted ==
    ASSUME IInv, NEW k, k.req \in Requests, Unasked(k.req, cards, mail), NEW cl, NEW lt,
           Good(rows, cl, lt, cards, mail, feed, cursor),
           \A c \in Calls : Asking(cl[c]) => cl[c].req # k.req,
           \A l \in lt : l.pc = "delete" => l.req # k.req, rows' = DeleteRows(k)
    PROVE  /\ Good(rows', cl, lt, cards, mail, feed, cursor)
           /\ NoneApplied(rows, rows') /\ Final(rows, rows')
  <1>1. GoodNow /\ rows \in RowSets  BY DEF GoodNow, IInv, Good, Shapes
  <1>2. CASE rows[k.req].state = "awaiting"
    <2>1. rows' = [rows EXCEPT ![k.req] = NoRow]  BY <1>2 DEF DeleteRows, Awaiting
    <2>2. Good(rows', cl, lt, cards, mail, feed, cursor)
      <3>1. PICK r \in Requests : r = k.req  OBVIOUS
      <3>2. /\ Unasked(r, cards, mail) /\ \A c \in Calls : Asking(cl[c]) => cl[c].req # r
            /\ \A l \in lt : l.pc = "delete" => l.req # r
        BY <3>1
      <3>3. Good([rows EXCEPT ![r] = NoRow], cl, lt, cards, mail, feed, cursor)
        BY <3>2, DeletedGood
      <3>. QED  BY <2>1, <3>1, <3>3
    <2>3. rows'[k.req].state = "none" /\ \A q \in Requests \ {k.req} : rows'[q] = rows[q]
      BY <1>1, <2>1 DEF RowSets, NoRow
    <2>4. rows[k.req].answer = "none"
      <3>1. RowFits(rows[k.req], k.req, cards)  BY <1>1, <1>2, RowNow
      <3>. QED  BY <3>1 DEF RowFits, CardOf, Unasked
    <2>5. NoneApplied(rows, rows')
      <3>1. ASSUME NEW r \in Requests
            PROVE  rows'[r].state = "applied" <=> rows[r].state = "applied"
        <4>1. CASE r = k.req  BY <1>2, <2>3, <4>1
        <4>2. CASE r # k.req  BY <2>3, <4>2
        <4>. QED  BY <4>1, <4>2
      <3>. QED  BY <3>1 DEF NoneApplied
    <2>6. Final(rows, rows')
      <3>1. ASSUME NEW r \in Requests
            PROVE  /\ rows[r].state \in {"applied", "refused"} => rows'[r] = rows[r]
                   /\ rows[r].state # "none" /\ rows[r].answer # "none" =>
                          rows'[r].state # "none" /\ rows'[r].answer = rows[r].answer
        <4>1. CASE r = k.req  BY <1>2, <2>4, <4>1
        <4>2. CASE r # k.req  BY <2>3, <4>2
        <4>. QED  BY <4>1, <4>2
      <3>. QED  BY <3>1 DEF Final
    <2>. QED  BY <2>2, <2>5, <2>6
  <1>3. CASE rows[k.req].state # "awaiting"
    <2>1. rows' = rows  BY <1>3 DEF DeleteRows, Awaiting
    <2>. QED  BY <1>1, <2>1, RowsSame, GoesOnFinal
  <1>. QED  BY <1>2, <1>3

LEMMA DeleteKeeps ==
    ASSUME IInv, NEW c \in Calls, Delete(c)
    PROVE  Keeps
  <1>1. /\ rows' = DeleteRows(calls[c]) /\ End(c)
        /\ UNCHANGED <<grant, cursor, world, late, flight, service, epoch, done>>
        /\ late' = late /\ cards' = cards /\ mail' = mail /\ feed' = feed /\ acked' = acked
        /\ cursor' = cursor
    BY DEF Delete, service
  <1>2. PICK k \in Call : k = calls[c] /\ k.pc = "delete" /\ k.req \in Requests /\ Asking(k)
    BY CallNow DEF Delete, At, JobOK, Asking
  <1>3. /\ Unasked(k.req, cards, mail)
        /\ \A l \in late : l.pc = "delete" => l.req # k.req
        /\ \A d \in Calls \ {c} : Asking(calls[d]) => calls[d].req # k.req
    BY <1>2, AskingNow
  <1>4. Good(rows, calls', late, cards, mail, feed, cursor)  BY <1>1, EndNow
  <1>5. \A d \in Calls : Asking(calls'[d]) => calls'[d].req # k.req
    <2>1. calls'[c] = Idle /\ \A d \in Calls \ {c} : calls'[d] = calls[d]
      BY <1>1 DEF End, Goto, IInv, Good, Shapes
    <2>. QED  BY <1>3, <2>1, IdleIs
  <1>6. /\ Good(rows', calls', late, cards, mail, feed, cursor)
        /\ NoneApplied(rows, rows') /\ Final(rows, rows')
    BY <1>1, <1>2, <1>3, <1>4, <1>5, RowDeleted
  <1>7. Good(rows', calls', late', cards', mail', feed', cursor')  BY <1>1, <1>6
  <1>. QED  BY <1>1, <1>6, <1>7, RowCallKeeps

-----------------------------------------------------------------------------
(* Calls that capture the feed.                                            *)

LEMMA PageKeeps ==
    ASSUME IInv, NEW c \in Calls, Page(c)
    PROVE  Keeps
  <1>1. UNCHANGED <<local, world, late, flight, service, epoch, done>>  BY DEF Page
  <1>2. PICK k \in Call : k = calls[c] /\ k.pc = "page"  BY CallNow DEF Page, At
  <1>3. JobOK(k, cards) /\ SavedPlan(k, cards, mail) /\ CaptureOK(k, cursor, feed)
        /\ k.epoch \in Epochs
    BY <1>2, CallNow DEF At, JobOK
  <1>4. Len(feed[k.epoch]) \in Nat /\ k.cur \in Nat /\ PageSize \in Nat
    BY <1>3, ConsentAssumption DEF IInv, Good, Shapes, Feeds, Call
  <1>5. CASE Unresolved(c)  BY <1>1, <1>2, <1>5, UnresolvedNow, CallKeeps
  <1>6. CASE Goto(c, [k EXCEPT !.pc = "save",
                               !.next = Smaller(k.cur + PageSize, Len(feed[k.epoch])),
                               !.more = k.cur + PageSize < Len(feed[k.epoch])])
    <2>1. PICK n \in Nat : n = Smaller(k.cur + PageSize, Len(feed[k.epoch])) /\ n <= Len(feed[k.epoch])
      BY <1>4 DEF Smaller
    <2>2. PICK more \in BOOLEAN : more = (k.cur + PageSize < Len(feed[k.epoch]))
      <3>1. (k.cur + PageSize < Len(feed[k.epoch])) \in BOOLEAN  BY SMT
      <3>. QED  BY <3>1, Zenon
    <2>3. PICK x : x = [k EXCEPT !.pc = "save", !.next = n, !.more = more]  OBVIOUS
    <2>4. Goto(c, x)  BY <1>6, <2>1, <2>2, <2>3
    <2>5. x \in Call /\ x.pc = "save" /\ x.next = n /\ x.cur = k.cur /\ x.req = k.req
          /\ x.name = k.name /\ x.epoch = k.epoch /\ x.plan = k.plan /\ x.found = k.found
          /\ x.card = k.card /\ x.auth = k.auth /\ x.choice = k.choice /\ x.saved = k.saved
      BY <2>3 DEF Call, Places, SqlPlaces
    <2>6. JobOK(x, cards)  BY <1>2, <1>3, <2>5 DEF JobOK
    <2>7. CaptureOK(x, cursor, feed) /\ SavedPlan(x, cards, mail) /\ ~Asking(x)
      BY <1>2, <1>3, <2>1, <2>5 DEF CaptureOK, SavedPlan, Asking
    <2>8. Good(rows, calls', late, cards, mail, feed, cursor)
      BY <1>2, <2>4, <2>5, <2>6, <2>7, GoNow
    <2>. QED  BY <1>1, <2>8, CallKeeps
  <1>. QED  BY <1>2, <1>5, <1>6 DEF Page

\* A page is saved with the cursor, by a call or by the job it left behind.
LEMMA SavedNow ==
    ASSUME IInv, NEW k \in Call, k.pc = "save", JobOK(k, cards), CaptureOK(k, cursor, feed),
           rows' = SaveRows(k), cursor' = SaveCursor(k)
    PROVE  /\ Good(rows', calls, late, cards, mail, feed, cursor')
           /\ NoneApplied(rows, rows') /\ Final(rows, rows')
           /\ cursor' \in Cursors /\ \A e \in Epochs : cursor[e] <= cursor'[e]
           /\ k.next <= cursor'[k.epoch] /\ k.next <= Len(feed[k.epoch])
  <1>1. GoodNow  BY DEF GoodNow, IInv
  <1>2. /\ RowsGoOn(rows, rows', cards) /\ NoneApplied(rows, rows')
        /\ k.next \in Nat /\ k.next <= Len(feed[k.epoch])
        /\ \A p \in 1..k.next : AnswerSaved(rows', cards, feed[k.epoch][p])
    BY <1>1, SaveRowsGo
  <1>3. Good(rows', calls, late, cards, mail, feed, cursor) /\ Final(rows, rows')
    BY <1>2, RowsNow
  <1>4. k.epoch \in Epochs  BY DEF JobOK
  <1>5. cursor' = [cursor EXCEPT ![k.epoch] = Larger(@, k.next)]  BY DEF SaveCursor
  <1>6. /\ Good(rows', calls, late, cards, mail, feed, cursor')
        /\ cursor' \in Cursors /\ \A e \in Epochs : cursor[e] <= cursor'[e]
        /\ k.next <= cursor'[k.epoch]
    <2>1. PICK e \in Epochs, n \in Nat : e = k.epoch /\ n = k.next  BY <1>2, <1>4
    <2>2. n <= Len(feed[e]) /\ \A p \in 1..n : AnswerSaved(rows', cards, feed[e][p])
      BY <1>2, <2>1
    <2>3. PICK cu : cu = [cursor EXCEPT ![e] = Larger(@, n)]  OBVIOUS
    <2>4. /\ Good(rows', calls, late, cards, mail, feed, cu)
          /\ cu \in Cursors /\ \A f \in Epochs : cursor[f] <= cu[f]
          /\ n <= cu[e]
      BY <1>3, <2>2, <2>3, CursorGood
    <2>. QED  BY <1>5, <2>1, <2>3, <2>4
  <1>. QED  BY <1>2, <1>3, <1>6

\* The acknowledgements stay behind a cursor that goes forward.
LEMMA RestSaved ==
    ASSUME IInv, cursor' \in Cursors, \A e \in Epochs : cursor[e] <= cursor'[e],
           UNCHANGED <<world, flight, acked, epoch>>
    PROVE  Rest'
  <1>1. cursor \in Cursors  BY DEF IInv, Good, Shapes
  <1>2. acked \in Cursors /\ \A e \in Epochs : acked[e] <= cursor[e]  BY DEF IInv, Rest
  <1>3. \A e \in Epochs : acked'[e] <= cursor'[e]  BY <1>1, <1>2 DEF Cursors
  <1>. QED  BY <1>2, <1>3 DEF IInv, Rest

LEMMA SaveKeeps ==
    ASSUME IInv, NEW c \in Calls, Save(c)
    PROVE  Keeps
  <1>1. /\ rows' = SaveRows(calls[c]) /\ cursor' = SaveCursor(calls[c])
        /\ UNCHANGED <<grant, world, late, flight, service, epoch, done>>
        /\ late' = late /\ cards' = cards /\ mail' = mail /\ feed' = feed /\ acked' = acked
    BY DEF Save, service
  <1>2. PICK k \in Call : k = calls[c] /\ k.pc = "save"  BY CallNow DEF Save, At
  <1>3. JobOK(k, cards) /\ SavedPlan(k, cards, mail) /\ CaptureOK(k, cursor, feed)
        /\ k.epoch \in Epochs /\ k.cur \in Nat
    BY <1>2, CallNow DEF At, JobOK, Call
  <1>4. /\ Good(rows', calls, late, cards, mail, feed, cursor')
        /\ NoneApplied(rows, rows') /\ Final(rows, rows')
        /\ cursor' \in Cursors /\ \A e \in Epochs : cursor[e] <= cursor'[e]
        /\ k.next <= cursor'[k.epoch] /\ k.next <= Len(feed[k.epoch])
    BY <1>1, <1>2, <1>3, SavedNow
  <1>5. PICK x : x = [k EXCEPT !.pc = "ack"]  OBVIOUS
  <1>6. calls' = [calls EXCEPT ![c] = x]  BY <1>2, <1>5 DEF Save, Goto
  <1>7. x \in Call /\ x.pc = "ack" /\ x.next = k.next /\ x.cur = k.cur /\ x.req = k.req
        /\ x.name = k.name /\ x.epoch = k.epoch /\ x.plan = k.plan /\ ~Asking(x)
    BY <1>5 DEF Call, Places, Asking
  <1>8. JobOK(x, cards) /\ SavedPlan(x, cards, mail)
    BY <1>2, <1>3, <1>5 DEF Call, JobOK, SavedPlan
  <1>9. k.cur <= cursor'[k.epoch]
    <2>1. k.cur <= cursor[k.epoch] /\ cursor[k.epoch] \in Nat /\ cursor'[k.epoch] \in Nat
      BY <1>2, <1>3, <1>4 DEF CaptureOK, IInv, Good, Shapes, Cursors
    <2>. QED  BY <1>3, <1>4, <2>1
  <1>10. CaptureOK(x, cursor', feed)  BY <1>4, <1>7, <1>9 DEF CaptureOK
  <1>11. Good(rows', calls', late, cards, mail, feed, cursor')
    BY <1>2, <1>4, <1>6, <1>7, <1>8, <1>10, CallGoesOn
  <1>12. Good(rows', calls', late', cards', mail', feed', cursor')  BY <1>1, <1>11
  <1>13. Results(rows', grant', done', cards')  BY <1>1, <1>4, ResultsRows DEF IInv
  <1>14. Rest'  BY <1>1, <1>4, RestSaved
  <1>. QED  BY <1>4, <1>12, <1>13, <1>14 DEF Keeps, IInv

LEMMA AckKeeps ==
    ASSUME IInv, NEW c \in Calls, Ack(c)
    PROVE  Keeps
  <1>1. /\ acked' = [acked EXCEPT ![calls[c].epoch] = Larger(@, calls[c].next)]
        /\ UNCHANGED <<local, world, late, flight, cards, feed, mail, epoch, done>>
        /\ rows' = rows /\ grant' = grant /\ cursor' = cursor
    BY DEF Ack, local
  <1>2. PICK k \in Call : k = calls[c] /\ k.pc = "ack"  BY CallNow DEF Ack, At
  <1>3. /\ JobOK(k, cards) /\ SavedPlan(k, cards, mail) /\ CaptureOK(k, cursor, feed)
        /\ k.epoch \in Epochs /\ k.next \in Nat /\ k.found
    BY <1>2, CallNow DEF At, JobOK, Call
  <1>4. Good(rows, calls', late, cards, mail, feed, cursor)
    <2>1. CASE Unresolved(c)  BY <1>2, <2>1, UnresolvedNow
    <2>2. CASE Goto(c, [k EXCEPT !.pc = "page", !.cur = k.next])
      <3>1. PICK x : x = [k EXCEPT !.pc = "page", !.cur = k.next]  OBVIOUS
      <3>2. x \in Call /\ x.pc = "page" /\ x.cur = k.next /\ x.req = k.req /\ x.name = k.name
            /\ x.epoch = k.epoch /\ x.plan = k.plan /\ x.found = k.found
            /\ x.card = k.card /\ x.auth = k.auth /\ x.choice = k.choice /\ x.saved = k.saved
        BY <1>3, <3>1 DEF Call, Places
      <3>3. JobOK(x, cards)  BY <1>2, <1>3, <3>2 DEF JobOK
      <3>4. CaptureOK(x, cursor, feed) /\ SavedPlan(x, cards, mail) /\ ~Asking(x)
        BY <1>2, <1>3, <3>2 DEF CaptureOK, SavedPlan, Asking
      <3>5. Goto(c, x)  BY <2>2, <3>1
      <3>. QED  BY <1>2, <3>2, <3>3, <3>4, <3>5, GoNow
    <2>3. CASE Goto(c, [k EXCEPT !.pc = "reload"])
      <3>1. PICK x : x = [k EXCEPT !.pc = "reload"]  OBVIOUS
      <3>2. x \in Call /\ x.pc = "reload" /\ x.req = k.req /\ x.name = k.name
            /\ x.epoch = k.epoch /\ x.plan = k.plan /\ ~Asking(x)
        BY <3>1 DEF Call, Places, SqlPlaces, Asking
      <3>3. JobOK(x, cards) /\ CaptureOK(x, cursor, feed) /\ SavedPlan(x, cards, mail)
        BY <1>2, <1>3, <3>1 DEF Call, JobOK, CaptureOK, SavedPlan
      <3>. QED  BY <1>2, <2>3, <3>1, <3>2, <3>3, GoNow
    <2>4. \/ Unresolved(c) \/ Goto(c, [k EXCEPT !.pc = "page", !.cur = k.next])
          \/ Goto(c, [k EXCEPT !.pc = "reload"])
      BY <1>2, Zenon DEF Ack
    <2>. QED  BY <2>1, <2>2, <2>3, <2>4
  <1>5. acked' \in Cursors /\ \A e \in Epochs : acked'[e] <= cursor[e]
    <2>1. PICK n \in Nat, f \in Epochs : n = k.next /\ f = k.epoch  BY <1>3
    <2>2. acked' = [acked EXCEPT ![f] = Larger(@, n)]  BY <1>1, <1>2, <2>1
    <2>3. acked \in Cursors /\ cursor \in Cursors /\ \A e \in Epochs : acked[e] <= cursor[e]
      BY DEF IInv, Rest, Good, Shapes
    <2>4. n <= cursor[f]  BY <1>2, <1>3, <2>1 DEF CaptureOK
    <2>5. acked'[f] = Larger(acked[f], n) /\ \A e \in Epochs \ {f} : acked'[e] = acked[e]
      BY <2>2, <2>3 DEF Cursors
    <2>6. Larger(acked[f], n) \in Nat /\ Larger(acked[f], n) <= cursor[f]
      BY <2>3, <2>4 DEF Cursors, Larger
    <2>7. acked' \in Cursors  BY <2>2, <2>3, <2>6 DEF Cursors
    <2>. QED  BY <2>3, <2>5, <2>6, <2>7
  <1>6. NoneApplied(rows, rows') /\ Final(rows, rows')
    <2>1. rows \in RowSets  BY DEF IInv, Good, Shapes
    <2>. QED  BY <1>1, <2>1, RowsSame, GoesOnFinal
  <1>7. Good(rows', calls', late', cards', mail', feed', cursor')  BY <1>1, <1>4
  <1>8. Results(rows', grant', done', cards')  BY <1>1 DEF IInv
  <1>9. Rest'  BY <1>1, <1>5 DEF IInv, Rest
  <1>. QED  BY <1>6, <1>7, <1>8, <1>9 DEF Keeps, IInv

LEMMA ReloadKeeps ==
    ASSUME IInv, NEW c \in Calls, Reload(c)
    PROVE  Keeps
  <1>1. UNCHANGED <<local, world, late, flight, service, epoch, done>>  BY DEF Reload
  <1>2. PICK k \in Call : k = calls[c] /\ k.pc = "reload"  BY CallNow DEF Reload, At
  <1>3. /\ JobOK(k, cards) /\ SavedPlan(k, cards, mail) /\ k.req \in Requests /\ k.found
    BY <1>2, CallNow DEF At, JobOK
  <1>4. PICK row : row = rows[k.req]  OBVIOUS
  <1>5. CASE Unresolved(c)  BY <1>1, <1>2, <1>5, UnresolvedNow, CallKeeps
  <1>6. CASE End(c)  BY <1>1, <1>6, EndNow, CallKeeps
  <1>7. CASE Goto(c, [k EXCEPT !.pc = "lost"])
    <2>1. PICK x : x = [k EXCEPT !.pc = "lost"]  OBVIOUS
    <2>2. x \in Call /\ x.pc = "lost" /\ x.req = k.req /\ x.name = k.name
          /\ x.epoch = k.epoch /\ x.plan = k.plan /\ ~Asking(x)
      BY <2>1 DEF Call, Places, Asking
    <2>3. JobOK(x, cards) /\ CaptureOK(x, cursor, feed) /\ SavedPlan(x, cards, mail)
      BY <1>2, <1>3, <2>1 DEF Call, JobOK, CaptureOK, SavedPlan
    <2>4. Good(rows, calls', late, cards, mail, feed, cursor)
      BY <1>2, <1>7, <2>1, <2>2, <2>3, GoNow
    <2>. QED  BY <1>1, <2>4, CallKeeps
  <1>8. CASE row # NoRow /\ Goto(c, Decided(k, row))
    <2>1. row \in Row /\ row = rows[k.req] /\ k.pc \notin {"idle", "lease", "lost"}
          /\ (k.found \/ k.card # 0)
      BY <1>2, <1>3, <1>4, <1>8, RowNow DEF GoodNow, IInv
    <2>2. CardsOnce(rows, cards, mail) /\ RowsFit(rows, cards)  BY DEF IInv, Good
    <2>3. Decides(k, Decided(k, row), cards, mail, cursor, feed)
      BY <1>3, <2>1, <2>2, DecidedOK
    <2>4. PICK x : x = Decided(k, row)  OBVIOUS
    <2>5. Good(rows, calls', late, cards, mail, feed, cursor)
      BY <1>2, <1>8, <2>3, <2>4, GoNow DEF Decides
    <2>. QED  BY <1>1, <2>5, CallKeeps
  <1>9. \/ Unresolved(c) \/ End(c) \/ Goto(c, [k EXCEPT !.pc = "lost"])
        \/ row # NoRow /\ Goto(c, Decided(k, row))
    <2>1. CASE row = NoRow
      <3>1. Goto(c, [k EXCEPT !.pc = "lost"])  BY <1>2, <1>4, <2>1, Zenon DEF Reload
      <3>. QED  BY <3>1
    <2>2. CASE row # NoRow  BY <1>2, <1>4, <2>2, Zenon DEF Reload
    <2>. QED  BY <2>1, <2>2
  <1>. QED  BY <1>5, <1>6, <1>7, <1>8, <1>9

-----------------------------------------------------------------------------
(* Writes.                                                                 *)

\* A write that commits, by a call or by the job it left behind.
LEMMA Committed ==
    ASSUME IInv, NEW k \in Call, k.pc = "write", JobOK(k, cards), StillOpen(k), Admitted(k),
           CommitWrite(k)
    PROVE  /\ Good(rows', calls, late, cards, mail, feed, cursor) /\ Final(rows, rows')
           /\ Results(rows', grant', done', cards) /\ world' \in World /\ flight' = {}
  <1>1. /\ rows' = Finished(k) /\ grant' = (IF GrantsMore(k) THEN "live" ELSE grant)
        /\ world' = Applied(world, k.plan) /\ flight' = {}
        /\ done' = [done EXCEPT ![k.req] = Append(@, Write(k, k.auth))]
    BY DEF CommitWrite
  <1>2. k.req \in Requests /\ k.name \in Names /\ k.plan \in Plan  BY DEF JobOK
  <1>3. GoodNow  BY DEF GoodNow, IInv
  <1>4. /\ RowsGoOn(rows, rows', cards) /\ rows'[k.req].state = "applied"
        /\ rows[k.req].state # "applied"
        /\ \A q \in Requests \ {k.req} : rows'[q] = rows[q]
    BY <1>1, <1>3, FinishedGo
  <1>5. Good(rows', calls, late, cards, mail, feed, cursor) /\ Final(rows, rows')
    BY <1>4, RowsNow
  <1>6. PICK w : w = Write(k, k.auth)  OBVIOUS
  <1>7. k.plan.tool \in Tools /\ k.plan.name \in Names  BY <1>2 DEF Plan
  <1>8. /\ w.plan = k.plan /\ w.by = k.auth /\ w.card = k.card /\ w.at = Placed(k.plan.tool)
        /\ w.misled = (k.auth = "card" /\ k.found /\ ~k.saved)
    BY <1>6 DEF Write
  <1>9. w \in WriteSet
    <2>1. w.by \in {"card", "grant", "own", "log"} /\ w.card \in Nat
      BY <1>8 DEF JobOK, Call
    <2>2. Placed(k.plan.tool) \in Workspaces \cup {None}  BY <1>2, <1>7, FreshIs
    <2>3. (k.auth = "card" /\ k.found /\ ~k.saved) \in BOOLEAN  OBVIOUS
    <2>. QED  BY <1>2, <1>6, <1>8, <2>1, <2>2, <2>3 DEF Write, WriteSet
  <1>10. WriteFits(w, k.req, cards)
    <2>1. ASSUME w.by = "card", ~w.misled
          PROVE  /\ CardOf(cards, w.card, k.req) /\ cards[w.card].state \in Approvals
                 /\ cards[w.card].plan = w.plan /\ w.at = w.plan.ws
      <3>1. k.auth = "card" /\ ~(k.found /\ ~k.saved)  BY <1>8, <2>1
      <3>2. /\ CardOf(cards, k.card, k.req) /\ cards[k.card].state \in Approvals
            /\ cards[k.card].plan = k.plan
        BY <3>1 DEF JobOK
      <3>3. Placed(k.plan.tool) = k.plan.ws
        <4>1. Fresh(k.req, k.name) = k.plan  BY DEF Admitted
        <4>2. k.plan.tool = ToolOf[k.req] /\ k.plan.ws = Placed(ToolOf[k.req])
          BY <4>1 DEF Fresh
        <4>. QED  BY <4>2
      <3>. QED  BY <1>8, <3>2, <3>3
    <2>. QED  BY <2>1 DEF WriteFits
  <1>11. grant' \in {"none", "live", "revoked"} /\ GrantFits(grant', cards)
    <2>1. grant \in {"none", "live", "revoked"} /\ GrantFits(grant, cards)
      BY DEF IInv, Results
    <2>2. CASE GrantsMore(k)
      <3>1. k.choice = "always"  BY <2>2 DEF GrantsMore
      <3>2. k.card \in DOMAIN cards /\ cards[k.card].state = "always"
        BY <3>1 DEF JobOK, CardOf
      <3>. QED  BY <1>1, <2>2, <3>2 DEF GrantFits
    <2>3. CASE ~GrantsMore(k)  BY <1>1, <2>1, <2>3
    <2>. QED  BY <2>2, <2>3
  <1>12. Results(rows', grant', done', cards)
    <2>1. PICK gr : gr = grant'  OBVIOUS
    <2>2. PICK r \in Requests : r = k.req  BY <1>2
    <2>3. PICK dn : dn = [done EXCEPT ![r] = Append(@, w)]  OBVIOUS
    <2>4. done' = dn  BY <1>1, <1>6, <2>2, <2>3
    <2>5. Results(rows', gr, dn, cards)
      <3>1. Results(rows, grant, done, cards) /\ w \in WriteSet /\ WriteFits(w, r, cards)
            /\ gr \in {"none", "live", "revoked"} /\ GrantFits(gr, cards)
        BY <1>9, <1>10, <1>11, <2>1, <2>2 DEF IInv
      <3>2. PICK rs2 : rs2 = rows'  OBVIOUS
      <3>3. /\ rows[r].state # "applied" /\ rs2[r].state = "applied"
            /\ \A q \in Requests \ {r} : rs2[q] = rows[q]
        BY <1>4, <2>2, <3>2
      <3>4. Results(rs2, gr, [done EXCEPT ![r] = Append(@, w)], cards)
        BY <3>1, <3>3, ResultsCommit
      <3>. QED  BY <2>3, <3>2, <3>4
    <2>. QED  BY <2>1, <2>4, <2>5
  <1>13. world' \in World
    <2>1. PICK p \in Plan : p = k.plan /\ p.name \in Names  BY <1>2, <1>7
    <2>2. world \in World  BY DEF IInv, Rest
    <2>. QED  BY <1>1, <2>1, <2>2 DEF Applied, World
  <1>. QED  BY <1>1, <1>5, <1>12, <1>13

LEMMA WriteKeeps ==
    ASSUME IInv, NEW c \in Calls, WriteStep(c)
    PROVE  Keeps
  <1>1. UNCHANGED <<cursor, late, service, epoch>> /\ cards' = cards /\ mail' = mail
        /\ feed' = feed /\ acked' = acked
    BY DEF WriteStep, service
  <1>2. PICK k \in Call : k = calls[c] /\ k.pc = "write" /\ JobOK(k, cards)
    BY CallNow DEF WriteStep, At
  <1>3. SavedPlan(k, cards, mail) /\ k.req \in Requests /\ k.plan \in Plan
    BY <1>2, CallNow DEF At, JobOK
  <1>4. CASE StillOpen(k) /\ Admitted(k) /\ CommitWrite(k) /\ End(c)
    <2>1. /\ Good(rows', calls, late, cards, mail, feed, cursor) /\ Final(rows, rows')
          /\ Results(rows', grant', done', cards) /\ world' \in World /\ flight' = {}
      BY <1>2, <1>4, Committed
    <2>2. Good(rows', calls', late, cards, mail, feed, cursor)
      BY <1>4, <2>1, EndGood DEF End, Goto
    <2>3. Good(rows', calls', late', cards', mail', feed', cursor')  BY <1>1, <2>2
    <2>4. Results(rows', grant', done', cards')  BY <1>1, <2>1
    <2>5. Rest'  BY <1>1, <2>1 DEF IInv, Rest
    <2>. QED  BY <2>1, <2>3, <2>4, <2>5 DEF Keeps, IInv
  <1>5. CASE StillOpen(k) /\ End(c) /\ flight' = {k} /\ UNCHANGED <<rows, grant, world, done>>
    <2>1. Good(rows, calls', late, cards, mail, feed, cursor)  BY <1>5, EndNow
    <2>2. Good(rows', calls', late', cards', mail', feed', cursor')  BY <1>1, <1>5, <2>1
    <2>3. Results(rows', grant', done', cards')  BY <1>1, <1>5 DEF IInv
    <2>4. Rest'  BY <1>1, <1>3, <1>5 DEF IInv, Rest
    <2>5. Final(rows, rows')
      <3>1. rows \in RowSets  BY DEF IInv, Good, Shapes
      <3>. QED  BY <1>5, <3>1, RowsSame, GoesOnFinal
    <2>. QED  BY <2>2, <2>3, <2>4, <2>5 DEF Keeps, IInv
  <1>6. CASE /\ Goto(c, [k EXCEPT !.pc = "lost"]) \/ End(c)
             /\ UNCHANGED <<rows, grant, world, done, flight>>
    <2>1. UNCHANGED <<local, world, late, flight, service, epoch, done>>
      BY <1>1, <1>6 DEF local
    <2>2. CASE End(c)  BY <2>1, <2>2, EndNow, CallKeeps
    <2>3. CASE Goto(c, [k EXCEPT !.pc = "lost"])
      <3>1. PICK x : x = [k EXCEPT !.pc = "lost"]  OBVIOUS
      <3>2. x \in Call /\ x.pc = "lost" /\ x.req = k.req /\ x.name = k.name
            /\ x.epoch = k.epoch /\ x.plan = k.plan /\ ~Asking(x)
        BY <3>1 DEF Call, Places, Asking
      <3>3. JobOK(x, cards) /\ CaptureOK(x, cursor, feed) /\ SavedPlan(x, cards, mail)
        BY <1>2, <1>3, <3>1 DEF Call, JobOK, CaptureOK, SavedPlan
      <3>4. Good(rows, calls', late, cards, mail, feed, cursor)
        BY <1>2, <2>3, <3>1, <3>2, <3>3, GoNow
      <3>. QED  BY <2>1, <3>4, CallKeeps
    <2>. QED  BY <1>6, <2>2, <2>3
  <1>. QED  BY <1>2, <1>4, <1>5, <1>6 DEF WriteStep

LEMMA CatchUpKeeps ==
    ASSUME IInv, NEW k \in flight, CatchUp(k)
    PROVE  Keeps
  <1>1. /\ flight' = flight \ {k} /\ world' = Applied(world, k.plan)
        /\ done' = [done EXCEPT ![k.req] = Append(@, Write(k, "log"))]
        /\ UNCHANGED <<local, calls, late, service, epoch>> /\ cards' = cards /\ mail' = mail
        /\ feed' = feed /\ acked' = acked /\ rows' = rows /\ grant' = grant /\ cursor' = cursor
    BY DEF CatchUp, local, service
  <1>2. k \in Call /\ k.req \in Requests /\ k.plan \in Plan  BY DEF IInv, Rest
  <1>3. k.plan.tool \in Tools /\ k.plan.name \in Names  BY <1>2 DEF Plan
  <1>4. PICK w : w = Write(k, "log")  OBVIOUS
  <1>5. w \in WriteSet /\ w.by = "log"
    <2>1. k.name \in Names \cup {None} /\ k.card \in Nat  BY <1>2 DEF Call
    <2>2. Placed(k.plan.tool) \in Workspaces \cup {None}
      <3>1. world.ws \in Workspaces  BY DEF IInv, Rest, World
      <3>. QED  BY <3>1 DEF Placed
    <2>. QED  BY <1>2, <1>4, <2>1, <2>2 DEF Write, WriteSet
  <1>6. Results(rows', grant', done', cards')
    <2>1. PICK r \in Requests : r = k.req  BY <1>2
    <2>2. PICK dn : dn = [done EXCEPT ![r] = Append(@, w)]  OBVIOUS
    <2>3. Results(rows, grant, dn, cards)  BY <1>5, <2>2, ResultsLog DEF IInv
    <2>. QED  BY <1>1, <1>4, <2>1, <2>2, <2>3
  <1>7. world' \in World
    <2>1. PICK p \in Plan : p = k.plan /\ p.name \in Names  BY <1>2, <1>3
    <2>2. world \in World  BY DEF IInv, Rest
    <2>. QED  BY <1>1, <2>1, <2>2 DEF Applied, World
  <1>8. Rest'  BY <1>1, <1>7 DEF IInv, Rest
  <1>9. Good(rows', calls', late', cards', mail', feed', cursor')  BY <1>1 DEF IInv
  <1>10. Final(rows, rows')
    <2>1. rows \in RowSets  BY DEF IInv, Good, Shapes
    <2>. QED  BY <1>1, <2>1, RowsSame, GoesOnFinal
  <1>. QED  BY <1>6, <1>8, <1>9, <1>10 DEF Keeps, IInv

LEMMA RefuseKeeps ==
    ASSUME IInv, NEW c \in Calls, Refuse(c)
    PROVE  Keeps
  <1>1. /\ \/ rows' = rows
           \/ rows' = RefusedRows(calls[c])
        /\ UNCHANGED <<grant, cursor, world, late, flight, service, epoch, done>>
        /\ late' = late /\ cards' = cards /\ mail' = mail /\ feed' = feed /\ acked' = acked
        /\ cursor' = cursor /\ End(c)
    BY DEF Refuse, service
  <1>2. calls[c] \in Call /\ JobOK(calls[c], cards)  BY CallNow DEF Refuse, At
  <1>3. GoodNow /\ rows \in RowSets  BY DEF GoodNow, IInv, Good, Shapes
  <1>4. RowsGoOn(rows, rows', cards) /\ NoneApplied(rows, rows')
    <2>1. CASE rows' = rows  BY <1>3, <2>1, RowsSame
    <2>2. CASE rows' = RefusedRows(calls[c])  BY <1>2, <1>3, <2>2, RefusedRowsGo
    <2>. QED  BY <1>1, <2>1, <2>2
  <1>5. Good(rows', calls, late, cards, mail, feed, cursor) /\ Final(rows, rows')
    BY <1>4, RowsNow
  <1>6. Good(rows', calls', late, cards, mail, feed, cursor)
    BY <1>1, <1>5, EndGood DEF End, Goto
  <1>7. Good(rows', calls', late', cards', mail', feed', cursor')  BY <1>1, <1>6
  <1>. QED  BY <1>1, <1>4, <1>5, <1>7, RowCallKeeps

-----------------------------------------------------------------------------
(* Calls that give up, jobs that go on without them, and restarts.         *)

LEMMA AbandonKeeps ==
    ASSUME IInv, NEW c \in Calls, Abandon(c)
    PROVE  Keeps
  <1>1. /\ UNCHANGED <<local, world, flight, cards, feed, acked, epoch, done>>
        /\ rows' = rows /\ grant' = grant /\ cursor' = cursor /\ End(c)
    BY DEF Abandon, local
  <1>2. PICK k \in Call : k = calls[c] /\ k.pc \notin {"idle", "lease"}
    BY CallNow DEF Abandon, At
  <1>3. /\ late' = IF k.pc \in LatePlaces THEN late \cup {k} ELSE late
        /\ mail' = IF k.pc = "ask" THEN mail \cup {Card(k)} ELSE mail
    BY <1>2 DEF Abandon, LatePlaces
  <1>4. JobOK(k, cards) /\ CaptureOK(k, cursor, feed)  BY <1>2, CallNow DEF At
  <1>5. Good(rows, calls', late, cards, mail, feed, cursor)  BY <1>1, EndNow
  <1>6. calls' = [calls EXCEPT ![c] = Idle] /\ calls'[c] = Idle
        /\ \A d \in Calls \ {c} : calls'[d] = calls[d]
    BY <1>1 DEF End, Goto, IInv, Good, Shapes
  <1>7. Good(rows, calls', late', cards, mail', feed, cursor)
    <2>1. CASE k.pc = "ask"
      <3>1. Asking(k)  BY <1>4, <2>1 DEF JobOK, Asking
      <3>2. Card(k) \in CardSet /\ MayAsk(rows, calls', late, cards, mail, Card(k))
        BY <1>2, <1>6, <2>1, <3>1, CardMayCome, IdleIs DEF At
      <3>3. late' = late /\ mail' = mail \cup {Card(k)}
        BY <1>3, <2>1 DEF LatePlaces, SqlPlaces
      <3>. QED  BY <1>5, <3>2, <3>3, MailSentGood
    <2>2. CASE k.pc \in LatePlaces
      <3>1. late' = late \cup {k} /\ mail' = mail
        BY <1>3, <2>2 DEF LatePlaces, SqlPlaces
      <3>2. ASSUME k.pc = "delete"
            PROVE  /\ Made(rows, k) /\ Unasked(k.req, cards, mail)
                   /\ \A d \in Calls : Asking(calls'[d]) => calls'[d].req # k.req
                   /\ \A l \in late : l.pc = "delete" => l.req # k.req
        <4>1. Asking(k)  BY <1>4, <3>2 DEF JobOK, Asking
        <4>. QED  BY <1>2, <1>6, <4>1, AskingNow, IdleIs
      <3>. QED  BY <1>4, <1>5, <2>2, <3>1, <3>2, LateGood
    <2>3. CASE k.pc # "ask" /\ k.pc \notin LatePlaces  BY <1>3, <1>5, <2>3
    <2>. QED  BY <2>1, <2>2, <2>3
  <1>8. NoneApplied(rows, rows') /\ Final(rows, rows')
    <2>1. rows \in RowSets  BY DEF IInv, Good, Shapes
    <2>. QED  BY <1>1, <2>1, RowsSame, GoesOnFinal
  <1>9. Good(rows', calls', late', cards', mail', feed', cursor')  BY <1>1, <1>7
  <1>. QED  BY <1>1, <1>8, <1>9, RowCallKeeps

LEMMA LateJobKeeps ==
    ASSUME IInv, NEW k \in late, LateJob(k)
    PROVE  Keeps
  <1>1. /\ late' = late \ {k} /\ late' \in SUBSET late
        /\ UNCHANGED <<calls, service, epoch>> /\ cards' = cards /\ mail' = mail
        /\ feed' = feed /\ acked' = acked /\ calls' = calls
    BY DEF LateJob, service
  <1>2. k \in Call /\ k.pc \in LatePlaces /\ JobOK(k, cards) /\ CaptureOK(k, cursor, feed)
    BY DEF IInv, Good, LateOK, Shapes
  <1>3. GoodNow /\ rows \in RowSets  BY DEF GoodNow, IInv, Good, Shapes
  <1>4. CASE /\ RowsGoOn(rows, rows', cards) /\ NoneApplied(rows, rows')
             /\ UNCHANGED <<grant, cursor, world, done, flight>>
    <2>1. Good(rows', calls, late, cards, mail, feed, cursor) /\ Final(rows, rows')
      BY <1>4, RowsNow
    <2>2. Good(rows', calls, late', cards, mail, feed, cursor)  BY <1>1, <2>1, LateDoneGood
    <2>3. Good(rows', calls', late', cards', mail', feed', cursor')  BY <1>1, <1>4, <2>2
    <2>. QED  BY <1>1, <1>4, <2>1, <2>3, RowCallKeeps
  <1>5. CASE k.pc = "begin"
    <2>1. rows' = BeginRows(k) /\ UNCHANGED <<grant, cursor, world, done, flight>>
      BY <1>5 DEF LateJob
    <2>. QED  BY <1>2, <1>3, <1>4, <1>5, <2>1, BeginRowsGo
  <1>6. CASE k.pc = "setid"
    <2>1. rows' = SetIdRows(k) /\ UNCHANGED <<grant, cursor, world, done, flight>>
      BY <1>6 DEF LateJob
    <2>. QED  BY <1>2, <1>3, <1>4, <1>6, <2>1, SetIdRowsGo
  <1>7. CASE k.pc = "settle"
    <2>1. rows' = Recorded(rows, k.card) /\ UNCHANGED <<grant, cursor, world, done, flight>>
      BY <1>7 DEF LateJob
    <2>2. k.card \in DOMAIN cards /\ cards[k.card].state # "pending"
      BY <1>2, <1>7 DEF JobOK, CardOf
    <2>. QED  BY <1>3, <1>4, <2>1, <2>2, RecordedGo
  <1>8. CASE k.pc = "delete"
    <2>1. rows' = DeleteRows(k) /\ UNCHANGED <<grant, cursor, world, done, flight>>
      BY <1>8 DEF LateJob
    <2>2. /\ Unasked(k.req, cards, mail)
          /\ \A c \in Calls : Asking(calls[c]) => calls[c].req # k.req
          /\ \A l \in late' : l.pc = "delete" => l.req # k.req
      BY <1>1, <1>8 DEF IInv, Good, AsksOnce
    <2>3. k.req \in Requests  BY <1>2 DEF JobOK
    <2>4. Good(rows, calls, late', cards, mail, feed, cursor)
      BY <1>1, LateDoneGood DEF IInv
    <2>5. /\ Good(rows', calls, late', cards, mail, feed, cursor)
          /\ NoneApplied(rows, rows') /\ Final(rows, rows')
      BY <2>1, <2>2, <2>3, <2>4, RowDeleted
    <2>6. Good(rows', calls', late', cards', mail', feed', cursor')  BY <1>1, <2>1, <2>5
    <2>. QED  BY <1>1, <2>1, <2>5, <2>6, RowCallKeeps
  <1>9. CASE k.pc = "save"
    <2>1. rows' = SaveRows(k) /\ cursor' = SaveCursor(k) /\ UNCHANGED <<grant, world, done, flight>>
      BY <1>9 DEF LateJob
    <2>2. /\ Good(rows', calls, late, cards, mail, feed, cursor')
          /\ NoneApplied(rows, rows') /\ Final(rows, rows')
          /\ cursor' \in Cursors /\ \A e \in Epochs : cursor[e] <= cursor'[e]
      BY <1>2, <1>9, <2>1, SavedNow
    <2>3. Good(rows', calls, late', cards, mail, feed, cursor')  BY <1>1, <2>2, LateDoneGood
    <2>4. Good(rows', calls', late', cards', mail', feed', cursor')  BY <1>1, <2>3
    <2>5. Results(rows', grant', done', cards')  BY <1>1, <2>1, <2>2, ResultsRows DEF IInv
    <2>6. Rest'  BY <1>1, <2>1, <2>2, RestSaved
    <2>. QED  BY <2>2, <2>4, <2>5, <2>6 DEF Keeps, IInv
  <1>10. CASE k.pc = "write"
    <2>1. \/ StillOpen(k) /\ Admitted(k) /\ CommitWrite(k) /\ UNCHANGED cursor
          \/ UNCHANGED <<rows, grant, cursor, world, done, flight>>
      BY <1>10 DEF LateJob
    <2>2. CASE UNCHANGED <<rows, grant, cursor, world, done, flight>>
      BY <1>3, <1>4, <2>2, RowsSame
    <2>3. CASE StillOpen(k) /\ Admitted(k) /\ CommitWrite(k) /\ UNCHANGED cursor
      <3>1. /\ Good(rows', calls, late, cards, mail, feed, cursor) /\ Final(rows, rows')
            /\ Results(rows', grant', done', cards) /\ world' \in World /\ flight' = {}
        BY <1>2, <1>10, <2>3, Committed
      <3>2. Good(rows', calls, late', cards, mail, feed, cursor)  BY <1>1, <3>1, LateDoneGood
      <3>3. Good(rows', calls', late', cards', mail', feed', cursor')  BY <1>1, <2>3, <3>2
      <3>4. Results(rows', grant', done', cards')  BY <1>1, <3>1
      <3>5. Rest'  BY <1>1, <2>3, <3>1 DEF IInv, Rest
      <3>. QED  BY <3>1, <3>3, <3>4, <3>5 DEF Keeps, IInv
    <2>. QED  BY <2>1, <2>2, <2>3
  <1>. QED  BY <1>2, <1>5, <1>6, <1>7, <1>8, <1>9, <1>10 DEF LatePlaces, SqlPlaces

LEMMA CrashKeeps ==
    ASSUME IInv, Crash
    PROVE  Keeps
  <1>1. /\ calls' = [c \in Calls |-> Idle] /\ late' = {}
        /\ mail' = mail \cup {Card(calls[c]) : c \in {d \in Calls : calls[d].pc = "ask"}}
        /\ UNCHANGED <<local, world, flight, cards, feed, acked, epoch, done>>
        /\ rows' = rows /\ grant' = grant /\ cursor' = cursor
    BY DEF Crash, local, At
  <1>2. Good(rows, calls', late', cards, mail', feed, cursor)
    BY <1>1, CrashGood DEF IInv
  <1>3. NoneApplied(rows, rows') /\ Final(rows, rows')
    <2>1. rows \in RowSets  BY DEF IInv, Good, Shapes
    <2>. QED  BY <1>1, <2>1, RowsSame, GoesOnFinal
  <1>4. Good(rows', calls', late', cards', mail', feed', cursor')  BY <1>1, <1>2
  <1>. QED  BY <1>1, <1>3, <1>4, RowCallKeeps

-----------------------------------------------------------------------------
(* Time, Cingulate and others.                                             *)

\* A row that is there grows old.
LEMMA OlderRow ==
    ASSUME IInv, NEW r \in Requests, Awaiting(r), NEW day \in BOOLEAN,
           rows' = [rows EXCEPT ![r] = [@ EXCEPT !.aged = TRUE, !.day = day]]
    PROVE  RowsGoOn(rows, rows', cards) /\ NoneApplied(rows, rows')
  <1>1. GoodNow /\ rows \in RowSets  BY DEF GoodNow, IInv, Good, Shapes
  <1>2. PICK x \in Row : x = rows[r] /\ x.state = "awaiting" /\ RowFits(x, r, cards)
    BY <1>1, RowNow DEF Awaiting
  <1>3. PICK y : y = [x EXCEPT !.aged = TRUE, !.day = day]  OBVIOUS
  <1>4. y \in Row /\ y.card = x.card /\ y.answer = x.answer /\ y.state = "awaiting"
        /\ y.name = x.name /\ y.epoch = x.epoch /\ y.plan = x.plan
    BY <1>2, <1>3 DEF Row
  <1>5. RowFits(y, r, cards)  BY <1>2, <1>4 DEF RowFits
  <1>6. rows' = [rows EXCEPT ![r] = y]  BY <1>2, <1>3
  <1>7. rows[r].state \in {"none", "awaiting"} /\ y.state # "applied"
        /\ y.name = rows[r].name /\ y.epoch = rows[r].epoch /\ y.plan = rows[r].plan
        /\ y.answer = rows[r].answer
    BY <1>2, <1>4
  <1>8. RowsGoOn(rows, [rows EXCEPT ![r] = y], cards)
        /\ NoneApplied(rows, [rows EXCEPT ![r] = y])
    BY <1>1, <1>4, <1>5, <1>7, RowChanged
  <1>. QED  BY <1>6, <1>8

LEMMA AgeKeeps ==
    ASSUME IInv, NEW r \in Requests, Age(r)
    PROVE  Keeps
  <1>1. /\ rows' = [rows EXCEPT ![r].aged = TRUE] /\ Awaiting(r)
        /\ UNCHANGED <<grant, cursor, world, calls, late, flight, service, epoch, done>>
        /\ late' = late /\ cards' = cards /\ mail' = mail /\ feed' = feed /\ acked' = acked
        /\ cursor' = cursor /\ calls' = calls
    BY DEF Age, service
  <1>2. rows[r] \in Row  BY <1>1, RowNow DEF GoodNow, IInv, Awaiting
  <1>3. rows[r].day \in BOOLEAN /\ [rows[r] EXCEPT !.aged = TRUE]
            = [rows[r] EXCEPT !.aged = TRUE, !.day = rows[r].day]
    BY <1>2 DEF Row
  <1>4. PICK day \in BOOLEAN : day = rows[r].day  BY <1>3
  <1>5. rows' = [rows EXCEPT ![r] = [@ EXCEPT !.aged = TRUE, !.day = day]]
    BY <1>1, <1>3, <1>4
  <1>6. RowsGoOn(rows, rows', cards) /\ NoneApplied(rows, rows')  BY <1>1, <1>5, OlderRow
  <1>7. Good(rows', calls, late, cards, mail, feed, cursor) /\ Final(rows, rows')
    BY <1>6, RowsNow
  <1>8. Good(rows', calls', late', cards', mail', feed', cursor')  BY <1>1, <1>7
  <1>. QED  BY <1>1, <1>6, <1>7, <1>8, RowCallKeeps

\* A step that changes rows, cards and answers, and keeps what they are about.
LEMMA CardsKeep ==
    ASSUME IInv, CardsStay(cards, cards'), NoneApplied(rows, rows'), Final(rows, rows'),
           Good(rows', calls', late', cards', mail', feed', cursor'),
           UNCHANGED <<grant, cursor, world, flight, acked, epoch, done>>
    PROVE  Keeps
  <1>1. PICK cd : cd = cards'  OBVIOUS
  <1>2. Results(rows, grant, done, cd)  BY <1>1, ResultsCards DEF IInv
  <1>3. Results(rows', grant', done', cards')  BY <1>1, <1>2, ResultsRows
  <1>4. Rest'  BY DEF IInv, Rest
  <1>. QED  BY <1>3, <1>4 DEF Keeps, IInv

LEMMA DayKeeps ==
    ASSUME IInv, NEW r \in Requests, Day(r)
    PROVE  Keeps
  <1>1. /\ rows' = [rows EXCEPT ![r].aged = TRUE, ![r].day = TRUE] /\ Awaiting(r)
        /\ cards' = [i \in DOMAIN cards |-> [cards[i] EXCEPT !.kept = @ /\ cards[i].req # r]]
        /\ UNCHANGED <<grant, cursor, world, calls, late, flight, feed, acked, mail, epoch, done>>
    BY DEF Day
  <1>2. rows' = [rows EXCEPT ![r] = [@ EXCEPT !.aged = TRUE, !.day = TRUE]]
    <2>1. rows \in RowSets  BY DEF IInv, Good, Shapes
    <2>. QED  BY <1>1, <2>1 DEF RowSets
  <1>3. RowsGoOn(rows, rows', cards) /\ NoneApplied(rows, rows')
    <2>1. PICK day \in BOOLEAN : day = TRUE  OBVIOUS
    <2>. QED  BY <1>1, <1>2, <2>1, OlderRow
  <1>4. Good(rows', calls, late, cards, mail, feed, cursor) /\ Final(rows, rows')
    BY <1>3, RowsNow
  <1>5. CardsStay(cards, cards') /\ DOMAIN cards' = DOMAIN cards
    <2>1. cards \in Seq(CardSet)  BY DEF IInv, Good, Shapes
    <2>2. PICK n \in Nat : n = Len(cards) /\ DOMAIN cards = 1..n  BY <2>1, CardsAre
    <2>3. ASSUME NEW i \in 1..n
          PROVE  /\ cards'[i] \in CardSet
                 /\ cards'[i].req = cards[i].req /\ cards'[i].name = cards[i].name
                 /\ cards'[i].epoch = cards[i].epoch /\ cards'[i].plan = cards[i].plan
                 /\ cards'[i].state = cards[i].state
                 /\ cards'[i].kept => cards[i].kept
      <3>1. PICK x \in CardSet : x = cards[i]  BY <2>1, <2>2, CardsAre
      <3>2. PICK kept \in BOOLEAN : kept = (x.kept /\ x.req # r)
        <4>1. (x.kept /\ x.req # r) \in BOOLEAN  OBVIOUS
        <4>. QED  BY <4>1, Zenon
      <3>3. cards'[i] = [x EXCEPT !.kept = kept]  BY <1>1, <2>2, <3>1, <3>2
      <3>4. kept => x.kept  BY <3>2
      <3>. QED  BY <3>1, <3>3, <3>4 DEF CardSet
    <2>4. cards' = [i \in 1..n |-> cards'[i]]  BY <1>1, <2>2
    <2>5. cards' \in [1..n -> CardSet]  BY <2>3, <2>4
    <2>6. cards' \in Seq(CardSet) /\ DOMAIN cards' = 1..n
      <3>1. PICK s : s = cards'  OBVIOUS
      <3>2. s \in [1..n -> CardSet]  BY <2>5, <3>1
      <3>3. s \in Seq(CardSet) /\ DOMAIN s = 1..n  BY <3>2
      <3>. QED  BY <3>1, <3>3
    <2>. QED  BY <2>2, <2>3, <2>6 DEF CardsStay
  <1>6. Good(rows', calls, late, cards', mail, feed, cursor)  BY <1>4, <1>5, CardsGood
  <1>7. Good(rows', calls', late', cards', mail', feed', cursor')  BY <1>1, <1>6
  <1>. QED  BY <1>1, <1>3, <1>4, <1>5, <1>7, CardsKeep

LEMMA AnswerKeeps ==
    ASSUME IInv, NEW i \in DOMAIN cards, NEW choice \in Settlements, Answer(i, choice)
    PROVE  Keeps
  <1>1. /\ cards' = [cards EXCEPT ![i].state = choice]
        /\ feed' = [feed EXCEPT ![cards[i].epoch] = Append(@, i)] /\ cards[i].state = "pending"
        /\ UNCHANGED <<local, world, calls, late, flight, acked, mail, epoch, done>>
        /\ rows' = rows /\ grant' = grant /\ cursor' = cursor
    BY DEF Answer, Settled, local
  <1>2. rows \in RowSets /\ cards \in Seq(CardSet)  BY DEF IInv, Good, Shapes
  <1>3. PICK x \in CardSet : x = cards[i]  BY <1>2, CardsAre
  <1>4. PICK e \in Epochs : e = cards[i].epoch  BY <1>3 DEF CardSet
  <1>5. PICK y : y = [x EXCEPT !.state = choice]  OBVIOUS
  <1>6. y \in CardSet /\ y.req = x.req /\ y.name = x.name /\ y.epoch = x.epoch
        /\ y.plan = x.plan /\ y.state = choice /\ y.kept = x.kept
    BY <1>5 DEF CardSet
  <1>7. cards' = [cards EXCEPT ![i] = y]  BY <1>1, <1>3, <1>5
  <1>8. cards' \in Seq(CardSet) /\ DOMAIN cards' = DOMAIN cards
        /\ cards'[i] = y /\ \A j \in DOMAIN cards \ {i} : cards'[j] = cards[j]
    <2>1. PICK s \in Seq(CardSet) : s = cards  BY <1>2
    <2>2. PICK t : t = [s EXCEPT ![i] = y]  OBVIOUS
    <2>3. i \in 1..Len(s)  BY <2>1
    <2>4. t \in Seq(CardSet) /\ DOMAIN t = DOMAIN s  BY <1>6, <2>2, <2>3
    <2>5. t[i] = y /\ \A j \in DOMAIN s \ {i} : t[j] = s[j]  BY <2>1, <2>2
    <2>. QED  BY <1>7, <2>1, <2>2, <2>4, <2>5
  <1>9. CardsStay(cards, cards')
    <2>1. ASSUME NEW j \in DOMAIN cards
          PROVE  /\ cards'[j].req = cards[j].req /\ cards'[j].name = cards[j].name
                 /\ cards'[j].epoch = cards[j].epoch /\ cards'[j].plan = cards[j].plan
                 /\ cards[j].state # "pending" => cards'[j].state = cards[j].state
                 /\ cards'[j].kept => cards[j].kept
      <3>1. CASE j = i  BY <1>1, <1>3, <1>6, <1>8, <3>1
      <3>2. CASE j # i  BY <1>8, <3>2
      <3>. QED  BY <3>1, <3>2
    <2>. QED  BY <1>8, <2>1 DEF CardsStay
  <1>10. Good(rows, calls, late, cards', mail, feed, cursor)
    BY <1>8, <1>9, CardsGood DEF IInv
  <1>11. cards'[i].state # "pending" /\ i \in DOMAIN cards'
    BY <1>6, <1>8 DEF Settlements, Approvals
  <1>12. Good(rows, calls, late, cards', mail, feed', cursor)
    <2>1. PICK cd : cd = cards'  OBVIOUS
    <2>2. i \in DOMAIN cd /\ cd[i].state # "pending"  BY <1>11, <2>1
    <2>3. Good(rows, calls, late, cd, mail, [feed EXCEPT ![e] = Append(@, i)], cursor)
      BY <1>10, <2>1, <2>2, ReportedGood
    <2>. QED  BY <1>1, <1>4, <2>1, <2>3
  <1>13. Good(rows', calls', late', cards', mail', feed', cursor')  BY <1>1, <1>12
  <1>14. NoneApplied(rows, rows') /\ Final(rows, rows')
    BY <1>1, <1>2, RowsSame, GoesOnFinal
  <1>. QED  BY <1>1, <1>9, <1>13, <1>14, CardsKeep

LEMMA MailKeeps ==
    ASSUME IInv, NEW m \in mail, MailArrives(m)
    PROVE  Keeps
  <1>1. /\ mail' = mail \ {m} /\ mail' \in SUBSET mail
        /\ cards' = cards \/ cards' = Append(cards, m)
        /\ UNCHANGED <<local, world, calls, late, flight, feed, acked, epoch, done>>
        /\ rows' = rows /\ grant' = grant /\ cursor' = cursor
    BY DEF MailArrives, local
  <1>2. rows \in RowSets /\ cards \in Seq(CardSet) /\ m \in CardSet /\ m.req \in Requests
    BY DEF IInv, Good, Shapes, CardSet
  <1>3. Good(rows, calls, late, cards, mail', feed, cursor)
    BY <1>1, MailLostGood DEF IInv
  <1>4. NoneApplied(rows, rows') /\ Final(rows, rows')
    BY <1>1, <1>2, RowsSame, GoesOnFinal
  <1>5. CASE cards' = cards
    <2>1. Good(rows', calls', late', cards', mail', feed', cursor')  BY <1>1, <1>3, <1>5
    <2>. QED  BY <1>1, <1>4, <1>5, <2>1, RowCallKeeps
  <1>6. CASE cards' = Append(cards, m)
    <2>1. MayAsk(rows, calls, late, cards, mail', m)
      <3>1. Made(rows, m) /\ Unasked(m.req, cards, mail')
        BY <1>1 DEF IInv, Good, CardsOnce, Unasked
      <3>2. \A c \in Calls : Asking(calls[c]) => calls[c].req # m.req
        BY DEF IInv, Good, AsksOnce, Unasked
      <3>3. \A l \in late : l.pc = "delete" => l.req # m.req
        BY DEF IInv, Good, AsksOnce, Unasked
      <3>4. ASSUME NEW c \in Calls, calls[c].saved, calls[c].pc \notin {"idle", "lease", "lost"},
                   calls[c].req = m.req
            PROVE  calls[c].plan = m.plan
        <4>1. SavedPlan(calls[c], cards, mail)  BY <3>4, CallNow DEF At
        <4>. QED  BY <3>4, <4>1 DEF SavedPlan
      <3>. QED  BY <3>1, <3>2, <3>3, <3>4 DEF MayAsk
    <2>2. Good(rows, calls, late, cards', mail', feed, cursor)
      BY <1>2, <1>3, <1>6, <2>1, ShownGood
    <2>3. Good(rows', calls', late', cards', mail', feed', cursor')  BY <1>1, <2>2
    <2>4. CardsStay(cards, cards')  BY <1>2, <1>6, AppendedCard
    <2>. QED  BY <1>1, <1>4, <2>3, <2>4, CardsKeep
  <1>. QED  BY <1>1, <1>5, <1>6

LEMMA OthersKeep ==
    ASSUME IInv, OthersStep
    PROVE  Keeps
  <1>1. /\ UNCHANGED <<rows, cursor, calls, late, service, done>> /\ cards' = cards
        /\ mail' = mail /\ feed' = feed /\ acked' = acked
    BY DEF OthersStep, Move, Dismiss, CallerGone, ChangeWorld, SetCap, Revoke, NewEpoch, Others,
           service
  <1>2. world \in World /\ epoch \in Epochs /\ grant \in {"none", "live", "revoked"}
    BY DEF IInv, Rest, Results
  <1>3. world' \in World
    <2>1. ASSUME NEW ws \in Workspaces, Move(ws) PROVE world' \in World
      BY <1>2, <2>1 DEF Move, ChangeWorld, World
    <2>2. ASSUME NEW name \in Names, Dismiss(name) PROVE world' \in World
      BY <1>2, <2>2 DEF Dismiss, ChangeWorld, World
    <2>3. CASE CallerGone  BY <1>2, <2>3 DEF CallerGone, ChangeWorld, World
    <2>4. ASSUME NEW cap \in Caps, SetCap(cap) PROVE world' \in World
      BY <1>2, <2>4, ConsentAssumption DEF SetCap, World
    <2>5. CASE Revoke  BY <1>2, <2>5 DEF Revoke
    <2>6. CASE NewEpoch  BY <1>2, <2>6 DEF NewEpoch
    <2>. QED  BY <2>1, <2>2, <2>3, <2>4, <2>5, <2>6 DEF OthersStep
  <1>4. epoch' \in Epochs
    <2>1. CASE NewEpoch  BY <1>2, <2>1, ConsentAssumption DEF NewEpoch, Epochs
    <2>2. CASE ~NewEpoch
      BY <1>2, <2>2 DEF OthersStep, Move, Dismiss, CallerGone, ChangeWorld, SetCap, Revoke
    <2>. QED  BY <2>1, <2>2
  <1>5. flight' \subseteq flight
    BY DEF OthersStep, Move, Dismiss, CallerGone, ChangeWorld, SetCap, Revoke, NewEpoch
  <1>6. grant' \in {"none", "live", "revoked"} /\ (grant' # "none" => grant # "none")
    <2>1. CASE Revoke  BY <2>1 DEF Revoke
    <2>2. CASE ~Revoke
      BY <1>2, <2>2 DEF OthersStep, Move, Dismiss, CallerGone, ChangeWorld, SetCap, NewEpoch
    <2>. QED  BY <2>1, <2>2
  <1>7. Good(rows', calls', late', cards', mail', feed', cursor')  BY <1>1 DEF IInv
  <1>8. Results(rows', grant', done', cards')
    BY <1>1, <1>6 DEF IInv, Results, GrantFits
  <1>9. Rest'  BY <1>1, <1>3, <1>4, <1>5 DEF IInv, Rest
  <1>10. Final(rows, rows')
    <2>1. rows \in RowSets  BY DEF IInv, Good, Shapes
    <2>. QED  BY <1>1, <2>1, RowsSame, GoesOnFinal
  <1>. QED  BY <1>7, <1>8, <1>9, <1>10 DEF Keeps, IInv

\* A call's own steps.
LEMMA CallStepKeeps ==
    ASSUME IInv, NEW c \in Calls, CallStep(c)
    PROVE  Keeps
  BY LeaseKeeps, BeginKeeps, OpenKeeps, AskKeeps, SetIdKeeps, PollKeeps, SettleKeeps,
     DeleteKeeps, PageKeeps, SaveKeeps, AckKeeps, ReloadKeeps, WriteKeeps, RefuseKeeps
  DEF CallStep

LEMMA StutterKeeps ==
    ASSUME IInv, UNCHANGED vars
    PROVE  Keeps
  <1>1. UNCHANGED <<local, world, late, flight, service, epoch, done>> /\ calls' = calls
    BY DEF vars
  <1>. QED  BY <1>1, CallKeeps DEF IInv

LEMMA NextKeeps ==
    ASSUME IInv, [Next]_vars
    PROVE  Keeps
  <1>1. CASE \E c \in Calls, r \in Requests : \E name \in ArgsOf[r] : Start(c, r, name)
    BY <1>1, StartKeeps
  <1>2. CASE \E c \in Calls : CallStep(c) \/ Abandon(c)  BY <1>2, CallStepKeeps, AbandonKeeps
  <1>3. CASE \E k \in late : LateJob(k)  BY <1>3, LateJobKeeps
  <1>4. CASE \E k \in flight : CatchUp(k)  BY <1>4, CatchUpKeeps
  <1>5. CASE \E i \in DOMAIN cards : \E choice \in Settlements : Answer(i, choice)
    BY <1>5, AnswerKeeps
  <1>6. CASE \E m \in mail : MailArrives(m)  BY <1>6, MailKeeps
  <1>7. CASE \E r \in Requests : Age(r) \/ Day(r)  BY <1>7, AgeKeeps, DayKeeps
  <1>8. CASE Crash  BY <1>8, CrashKeeps
  <1>9. CASE OthersStep  BY <1>9, OthersKeep
  <1>10. CASE UNCHANGED vars  BY <1>10, StutterKeeps
  <1>. QED
    BY <1>1, <1>2, <1>3, <1>4, <1>5, <1>6, <1>7, <1>8, <1>9, <1>10 DEF Next

LEMMA InitGood ==
    ASSUME Init
    PROVE  IInv
  <1>1. /\ rows = [r \in Requests |-> NoRow] /\ calls = [c \in Calls |-> Idle]
        /\ late = {} /\ flight = {} /\ cards = <<>> /\ mail = {} /\ grant = "none"
        /\ feed = [e \in Epochs |-> <<>>] /\ cursor = [e \in Epochs |-> 0]
        /\ acked = [e \in Epochs |-> 0] /\ epoch = 1 /\ done = [r \in Requests |-> <<>>]
    BY DEF Init
  <1>2. NoRow.state = "none" /\ DOMAIN cards = {} /\ Len(cards) = 0  BY <1>1 DEF NoRow
  <1>3. Shapes(rows, calls, late, cards, mail, feed, cursor)
    BY <1>1, IdleIs DEF Shapes, RowSets, Feeds, Cursors
  <1>4. CallsOK(calls, cards, mail, cursor, feed) /\ LateOK(late, cards, cursor, feed)
        /\ Leases(calls)
    BY <1>1, IdleIs DEF CallsOK, LateOK, Leases
  <1>5. CardsOnce(rows, cards, mail) /\ AsksOnce(rows, calls, late, cards, mail)
    BY <1>1, <1>2, IdleIs DEF CardsOnce, AsksOnce
  <1>6. RowsFit(rows, cards) /\ FeedFits(cards, feed) /\ AnswersSaved(rows, cards, feed, cursor)
    <2>1. RowsFit(rows, cards)  BY <1>1, <1>2 DEF RowsFit
    <2>2. ASSUME NEW e \in Epochs PROVE cursor[e] = 0 /\ Len(feed[e]) = 0  BY <1>1
    <2>. QED  BY <2>1, <2>2 DEF FeedFits, AnswersSaved
  <1>7. Results(rows, grant, done, cards)
    <2>1. ASSUME NEW r \in Requests
          PROVE  done[r] = <<>> /\ Len(done[r]) = 0 /\ DOMAIN done[r] = {} /\ rows[r].state = "none"
      BY <1>1, <1>2
    <2>2. done \in [Requests -> Seq(WriteSet)]  BY <1>1
    <2>. QED  BY <1>1, <2>1, <2>2 DEF Results, OutcomesFit, WritesFit, GrantFits
  <1>8. Rest
    <2>1. world \in World
      <3>1. PICK ws \in Workspaces :
                world = [ws |-> ws, staff |-> {}, cap |-> DefaultCap, gone |-> FALSE]
        BY DEF Init
      <3>. QED  BY <3>1, ConsentAssumption DEF World
    <2>2. 1 \in Epochs  BY ConsentAssumption DEF Epochs
    <2>. QED  BY <1>1, <2>1, <2>2 DEF Rest, Cursors
  <1>. QED  BY <1>3, <1>4, <1>5, <1>6, <1>7, <1>8 DEF IInv, Good

-----------------------------------------------------------------------------
(* The theorems.                                                           *)

\* The inductive invariant holds in every state: calls, the jobs they left behind, rows,
\* cards and the feed fit each other (consent.rs obtain_leased, resolve, capture_feed;
\* tool_writes.rs).
THEOREM Inductive == Spec => []IInv
  <1>1. Init => IInv  BY InitGood
  <1>2. IInv /\ [Next]_vars => IInv'  BY NextKeeps DEF Keeps
  <1>. QED  BY <1>1, <1>2, PTL DEF Spec

\* The state is what the module says, and what was acknowledged was saved before.
LEMMA TypesHold ==
    ASSUME IInv
    PROVE  TypeOK
  <1>1. /\ rows \in RowSets /\ calls \in [Calls -> Call] /\ late \subseteq Call
        /\ grant \in {"none", "live", "revoked"} /\ flight \subseteq Call
    BY DEF IInv, Good, Shapes, Results, Rest
  <1>2. \A e \in Epochs : acked[e] <= cursor[e] /\ cursor[e] <= Len(feed[e])
    BY DEF IInv, Rest, Good, AnswersSaved
  <1>. QED  BY <1>1, <1>2 DEF TypeOK, RowSets

\* However often a request is sent, abandoned and sent again, it shows the user one card.
\* Its write is applied once, with its outcome, unless an append to the operation log was
\* left without a definite outcome (CommitOnce; consent.rs obtain_leased,
\* delete_awaiting, set_elicitation; tool_writes.rs finish_request; mutations.rs:477).
THEOREM AsksAndAppliesOnce == Spec => []OncePerRequest
  <1>1. ASSUME IInv PROVE OncePerRequest
    <2>1. TypeOK  BY <1>1, TypesHold
    <2>2. OneCard  BY <1>1 DEF IInv, Good, CardsOnce, OneCard
    <2>3. CommitOnce  BY <1>1 DEF IInv, Results, OutcomesFit, CommitOnce
    <2>. QED  BY <2>1, <2>2, <2>3 DEF OncePerRequest
  <1>. QED  BY <1>1, Inductive, PTL

\* What is written by a card is what the card showed, unless the call that wrote it had read
\* the row before it held the lease (AppliedAsShown; tool_writes.rs:225).  What is granted
\* for later was answered with "always", and an acknowledged answer is saved (consent.rs
\* record_settlement, capture_feed; tool_writes.rs admit_commit, approval_grant).
THEOREM WritesWhatWasAnswered == Spec => []ActsOnAnswers
  <1>1. ASSUME IInv PROVE ActsOnAnswers
    <2>1. AppliedAsShown
      <3>1. ASSUME NEW r \in Requests, NEW i \in DOMAIN done[r],
                   done[r][i].by = "card", ~done[r][i].misled
            PROVE  ApprovedCard(r, done[r][i]) /\ done[r][i].at = done[r][i].plan.ws
        BY <1>1, <3>1 DEF IInv, Results, WritesFit, CardOf, ApprovedCard
      <3>. QED  BY <3>1 DEF AppliedAsShown
    <2>2. GrantsFromAlways  BY <1>1 DEF IInv, Results, GrantFits, GrantsFromAlways
    <2>3. AckedIsSaved
      <3>1. ASSUME NEW e \in Epochs, NEW p \in 1..acked[e]
            PROVE  LET card == cards[feed[e][p]] IN
                   /\ rows[card.req] # NoRow
                   /\ card.kept /\ Awaiting(card.req) => rows[card.req].answer = card.state
        <4>1. /\ acked[e] \in Nat /\ cursor[e] \in Nat /\ Len(feed[e]) \in Nat
              /\ acked[e] <= cursor[e] /\ cursor[e] <= Len(feed[e])
          BY <1>1 DEF IInv, Rest, Good, Shapes, Cursors, Feeds, AnswersSaved
        <4>2. p \in 1..cursor[e] /\ p \in 1..Len(feed[e])  BY <4>1
        <4>3. PICK i \in DOMAIN cards : i = feed[e][p]
          BY <1>1, <4>2 DEF IInv, Good, FeedFits
        <4>4. cards[i].req \in Requests /\ rows[cards[i].req].state # "none"
          BY <1>1, CardsAre DEF IInv, Good, Shapes, CardsOnce, Made
        <4>5. rows[cards[i].req] # NoRow  BY <4>4 DEF NoRow
        <4>6. cards[i].kept /\ rows[cards[i].req].state = "awaiting"
                  => rows[cards[i].req].answer = cards[i].state
          BY <1>1, <4>2, <4>3 DEF IInv, Good, AnswersSaved
        <4>. QED  BY <4>3, <4>5, <4>6 DEF Awaiting
      <3>. QED  BY <3>1 DEF AckedIsSaved
    <2>. QED  BY <2>1, <2>2, <2>3 DEF ActsOnAnswers
  <1>. QED  BY <1>1, Inductive, PTL

\* An outcome is final, and so is a saved answer, whatever late jobs, other calls and
\* restarts do (consent.rs record_settlement, delete_awaiting; tool_writes.rs refuse_write).
THEOREM FinalOutcomes == Spec => OutcomesFinal
  <1>1. ASSUME IInv, [Next]_vars
        PROVE  [\A r \in Requests :
                   /\ Terminal(r) => rows'[r] = rows[r]
                   /\ rows[r] # NoRow /\ rows[r].answer # "none" =>
                          rows'[r] # NoRow /\ rows'[r].answer = rows[r].answer]_vars
    <2>1. Final(rows, rows')  BY <1>1, NextKeeps DEF Keeps
    <2>2. ASSUME NEW r \in Requests
          PROVE  /\ Terminal(r) => rows'[r] = rows[r]
                 /\ rows[r] # NoRow /\ rows[r].answer # "none" =>
                        rows'[r] # NoRow /\ rows'[r].answer = rows[r].answer
      <3>1. rows[r] # NoRow => rows[r].state # "none"
        BY <1>1, RowNow DEF GoodNow, IInv
      <3>2. rows'[r].state # "none" => rows'[r] # NoRow  BY DEF NoRow
      <3>. QED  BY <2>1, <3>1, <3>2 DEF Final, Terminal
    <2>. QED  BY <2>2
  <1>. QED  BY <1>1, Inductive, PTL DEF Spec, OutcomesFinal

=============================================================================
