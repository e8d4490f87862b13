------------------------------- MODULE Consent -------------------------------
(***************************************************************************)
(* Agent tool writes with the user's consent.  A tool call names a request *)
(* key; it plans its write, asks the user with a card that another module, *)
(* Cingulate, shows, and applies the plan once the card is approved or a   *)
(* standing grant covers it.  A call may end before the card is answered;  *)
(* the client then calls again with the same key.                          *)
(*                                                                         *)
(* Durable: `rows` (consent_request with consent_write_plan), `grant`,     *)
(* `cursor`, and `world`, the part of the registry that the writes are     *)
(* about.  `calls` are the running tool calls.  An action is one SQL       *)
(* transaction or one call to Cingulate, with the code up to the next      *)
(* await.  A SQL job outlives the call that gave up on it (`late`), a card *)
(* request whose reply never came may still arrive (`mail`), and so may a  *)
(* log entry whose append was not answered (`flight`).                     *)
(***************************************************************************)
EXTENDS Naturals, Sequences, FiniteSets

CONSTANTS
    Calls,          \* tool calls that can run at a time
    Requests,       \* request identities: agent, tool and key
    ToolOf,         \* the tool of each request
    Names,          \* the arguments calls can have
    ArgsOf,         \* the arguments used with each request
    Workspaces,
    DefaultCap,     \* how many hires a project may have
    Caps,           \* the hire caps an operator sets
    PageSize,       \* answers per page of Cingulate's feed
    MaxEpoch,       \* bound on the epochs of the caller's scope
    FaultKinds,     \* the kinds of fault a run allows, a subset of Faults
    MaxEvents,      \* bound on requests, faults and changes by others, together
    None

Faults == {"open", "refused", "unanswered", "abandon", "crash", "unavailable",
           "unknown", "day"}
Tools == {"hire", "retire"}

ASSUME ConsentAssumption ==
    /\ ToolOf \in [Requests -> Tools] /\ ArgsOf \in [Requests -> SUBSET Names]
    /\ DefaultCap \in Nat /\ Caps \subseteq Nat
    /\ PageSize \in Nat \ {0} /\ MaxEpoch \in Nat \ {0}
    /\ MaxEvents \in Nat /\ FaultKinds \subseteq Faults
    /\ None \notin Requests \cup Names \cup Workspaces

VARIABLES
    rows,      \* the consent_request of each identity, with its saved plan
    grant,     \* the project's standing grant for hires
    cursor,    \* consent_feed_cursor, by epoch
    world,     \* the registry
    calls,     \* the running calls
    late,      \* SQL jobs whose call is over
    flight,    \* log entries whose append was not answered
    cards,     \* Cingulate's records; a card's id is its place
    feed,      \* the answers that Cingulate reports to each epoch, in order
    acked,     \* how much of its feed each epoch has acknowledged
    mail,      \* card requests that nobody waits for any more
    epoch,     \* the epoch of the caller's scope
    done,      \* the writes that were applied for each request
    upsets     \* faults and changes by others so far

local == <<rows, grant, cursor>>
service == <<cards, feed, acked, mail>>
vars == <<local, world, calls, late, flight, service, epoch, done, upsets>>

Epochs == 1..MaxEpoch
Smaller(a, b) == IF a < b THEN a ELSE b
Larger(a, b) == IF a > b THEN a ELSE b

-----------------------------------------------------------------------------
(***************************************************************************)
(* Plans.  The arguments are a name.  The head of a project hires into it, *)
(* which needs consent, and retires its hires, which does not.  A card     *)
(* shows the plan, with the workspace the project is in.                   *)
(***************************************************************************)
Plan == [tool: Tools, name: Names, ws: Workspaces \cup {None}]
Placed(tool) == IF tool = "retire" THEN None ELSE world.ws

\* prepare_write
Fresh(r, name) == [tool |-> ToolOf[r], name |-> name, ws |-> Placed(ToolOf[r])]

\* A repeated hire is a name conflict, a full project refuses hires, and only a
\* live hire can be retired.
Allowed(r, name) ==
    /\ ~world.gone
    /\ ToolOf[r] = "hire" => name \notin world.staff /\ Cardinality(world.staff) < world.cap
    /\ ToolOf[r] = "retire" => name \in world.staff

Applied(w, plan) ==
    [w EXCEPT !.staff = IF plan.tool = "hire" THEN @ \cup {plan.name} ELSE @ \ {plan.name}]

\* The project's standing grant covers a hire.
Covered == grant = "live"

-----------------------------------------------------------------------------
(***************************************************************************)
(* Rows and calls.                                                         *)
(***************************************************************************)
Approvals == {"once", "always"}
\* A card that expires or is withdrawn refuses like one that is denied.
Settlements == Approvals \cup {"deny"}
NoRow == [state |-> "none"]
NoPlan == [tool |-> "none"]
Row == [state: {"awaiting", "applied", "refused"}, name: Names, epoch: Epochs,
        plan: Plan \cup {NoPlan}, card: Nat, answer: Settlements \cup {"none"},
        aged: BOOLEAN, day: BOOLEAN]

SqlPlaces == {"begin", "setid", "settle", "save", "reload", "delete"}
Places == {"idle", "lease", "open", "ask", "poll", "page", "ack", "write", "refuse", "lost"}
              \cup SqlPlaces
\* `saved`: the call found a row when it started; `found`: its transaction did.
Call == [pc: Places, req: Requests \cup {None}, name: Names \cup {None},
         epoch: Nat, saved: BOOLEAN, found: BOOLEAN, plan: Plan \cup {NoPlan},
         card: Nat, auth: {"none", "card", "grant", "own"}, choice: Approvals \cup {"none"},
         cur: Nat, next: Nat, more: BOOLEAN]
Idle == [pc |-> "idle", req |-> None, name |-> None, epoch |-> 0, saved |-> FALSE,
         found |-> FALSE, plan |-> NoPlan, card |-> 0, auth |-> "none",
         choice |-> "none", cur |-> 0, next |-> 0, more |-> FALSE]

Awaiting(r) == rows[r].state = "awaiting"
Terminal(r) == rows[r].state \in {"applied", "refused"}
At(c, pc) == calls[c].pc = pc
Goto(c, k) == calls' = [calls EXCEPT ![c] = k]
\* The call returns, and drops its lease.
End(c) == Goto(c, Idle)
\* RequestLease: a call holds its request from try_lease until it returns.
Leased(r) == \E c \in Calls : calls[c].req = r /\ calls[c].pc # "lease"

\* The requests a call was made for.
Used == {r \in Requests : rows[r] # NoRow \/ \E c \in Calls : calls[c].req = r}
MoreEvents == Larger(1, Cardinality(Used)) + upsets < MaxEvents
Upset ==
    /\ MoreEvents
    /\ upsets' = upsets + 1
Fault(kind) ==
    /\ kind \in FaultKinds
    /\ Upset

NewRow(k, plan) ==
    [state |-> "awaiting", name |-> k.name, epoch |-> k.epoch, plan |-> plan,
     card |-> 0, answer |-> "none", aged |-> FALSE, day |-> FALSE]

\* A call starts: it loads the row, refuses other arguments, and answers from a
\* terminal row.
Start(c, r, name) ==
    /\ At(c, "idle")
    /\ r \in Used \/ Used = {} \/ MoreEvents
    /\ IF rows[r] # NoRow /\ (rows[r].name # name \/ Terminal(r)) THEN End(c)
       ELSE Goto(c, [Idle EXCEPT !.pc = "lease", !.req = r, !.name = name,
                                 !.epoch = epoch, !.saved = rows[r] # NoRow])
    /\ UNCHANGED <<local, world, late, flight, service, epoch, done, upsets>>

\* try_lease, then the plan: the saved one, or a prechecked new one.  A grant is
\* looked up for a request that has no row.
Lease(c) ==
    LET k == calls[c]
        r == k.req
        plan == Fresh(r, k.name)
    IN  /\ At(c, "lease")
        /\ CASE Leased(r) -> End(c)
             [] ~Leased(r) /\ k.saved ->
                    Goto(c, IF rows[r] = NoRow \/ rows[r].plan = NoPlan
                            THEN [k EXCEPT !.pc = "lost"]
                            ELSE [k EXCEPT !.pc = "begin", !.plan = rows[r].plan])
             [] ~Leased(r) /\ ~k.saved /\ ~Allowed(r, k.name) -> End(c)
             [] OTHER ->
                    Goto(c, CASE plan.tool = "retire" ->
                                   [k EXCEPT !.pc = "write", !.plan = plan, !.auth = "own"]
                              [] Covered ->
                                   [k EXCEPT !.pc = "write", !.plan = plan, !.auth = "grant"]
                              [] OTHER -> [k EXCEPT !.pc = "begin", !.plan = plan])
        /\ UNCHANGED <<local, world, late, flight, service, epoch, done, upsets>>

\* recorded_decision: what a saved answer means for the call.
Decided(k, row) ==
    IF row.answer \in Approvals /\ ~row.day
    THEN [k EXCEPT !.pc = "write", !.auth = "card", !.choice = row.answer,
                   !.card = row.card]
    ELSE [k EXCEPT !.pc = "refuse"]

\* A request that never learned its card is lost when the card must be over.
Lost(k) == k.card = 0 /\ rows[k.req] # NoRow /\ rows[k.req].aged
\* unresolved: the call ends with consent_pending, or refuses a lost request.
Unresolved(c) ==
    IF Lost(calls[c]) THEN Goto(c, [calls[c] EXCEPT !.pc = "refuse"]) ELSE End(c)

\* The transaction of obtain_leased: the row and its plan are inserted once.
BeginRows(k) ==
    IF rows[k.req] = NoRow THEN [rows EXCEPT ![k.req] = NewRow(k, k.plan)] ELSE rows

\* obtain_leased and the start of resolve.
Begin(c) ==
    LET k == calls[c]
        row == rows[k.req]
    IN  /\ At(c, "begin")
        /\ rows' = BeginRows(k)
        /\ CASE row = NoRow -> Goto(c, [k EXCEPT !.pc = "open"])
             [] row # NoRow /\ (row.name # k.name \/ Terminal(k.req)) -> End(c)
             [] Awaiting(k.req) /\ row.name = k.name /\ row.epoch # k.epoch ->
                    Goto(c, [k EXCEPT !.pc = "refuse"])
             [] Awaiting(k.req) /\ row.name = k.name /\ row.epoch = k.epoch
                    /\ row.answer # "none" ->
                    Goto(c, [Decided(k, row) EXCEPT !.found = TRUE])
             [] OTHER -> Goto(c, [k EXCEPT !.pc = "open", !.found = TRUE, !.card = row.card])
        /\ UNCHANGED <<grant, cursor, world, late, flight, service, epoch, done, upsets>>

-----------------------------------------------------------------------------
(***************************************************************************)
(* Cingulate.                                                              *)
(***************************************************************************)
Card(k) == [req |-> k.req, name |-> k.name, epoch |-> k.epoch, plan |-> k.plan,
            state |-> "pending", kept |-> TRUE]
Settled(i) == cards[i].state # "pending"

\* The user answers a card, or it expires after ten minutes.
Answer(i, choice) ==
    /\ ~Settled(i)
    /\ cards' = [cards EXCEPT ![i].state = choice]
    /\ feed' = [feed EXCEPT ![cards[i].epoch] = Append(@, i)]
    /\ UNCHANGED <<local, world, calls, late, flight, acked, mail, epoch, done, upsets>>

\* A card request arrives after its caller gave up, or is lost.
MailArrives(m) ==
    /\ mail' = mail \ {m}
    /\ cards' \in {cards, Append(cards, m)}
    /\ UNCHANGED <<local, world, calls, late, flight, feed, acked, epoch, done, upsets>>

\* The call that made the row is over, and its card request with it.
CallOver(r) ==
    /\ \A m \in mail : m.req # r
    /\ \A c \in Calls : calls[c].req = r => calls[c].found \/ calls[c].pc \in {"lease", "begin"}

\* Eleven minutes after the row was made the call that made it is over (CALL_BUDGET), but
\* a card that this call opened late may still be pending for a minute.  That matters to a
\* row, or a call, that does not know the card.
Age(r) ==
    /\ Awaiting(r) /\ ~rows[r].aged /\ CallOver(r)
    /\ \/ rows[r].card = 0
       \/ \E c \in Calls : calls[c].req = r /\ calls[c].found /\ calls[c].card = 0
    /\ rows' = [rows EXCEPT ![r].aged = TRUE]
    /\ UNCHANGED <<grant, cursor, world, calls, late, flight, service, epoch, done, upsets>>

\* A day later Cingulate forgets the answers, and a saved one is too old.
Day(r) ==
    /\ Awaiting(r) /\ ~rows[r].day /\ CallOver(r)
    /\ \A i \in DOMAIN cards : cards[i].req = r => Settled(i)
    /\ Fault("day")
    /\ rows' = [rows EXCEPT ![r].aged = TRUE, ![r].day = TRUE]
    /\ cards' = [i \in DOMAIN cards |-> [cards[i] EXCEPT !.kept = @ /\ cards[i].req # r]]
    /\ UNCHANGED <<grant, cursor, world, calls, late, flight, feed, acked, mail, epoch, done>>

-----------------------------------------------------------------------------
(***************************************************************************)
(* resolve: what a call does with Cingulate.                               *)
(***************************************************************************)

\* Faulty: a call that found the row asks again as long as it has no card.
AsksUntilKnown(k) == IF k.card = 0 THEN "ask" ELSE "poll"

\* Where a call goes once its route is open: only the call that inserted the row
\* asks; another polls the card, or looks for it in the feed.
OnRoute(k) == IF ~k.found THEN "ask" ELSE IF k.card = 0 THEN "page" ELSE "poll"

Open(c) ==
    LET k == calls[c] IN
    /\ At(c, "open")
    /\ \/ /\ Goto(c, [k EXCEPT !.pc = OnRoute(k), !.cur = cursor[k.epoch]])
          /\ UNCHANGED upsets
       \/ /\ Fault("open")
          /\ IF k.found THEN Unresolved(c) ELSE Goto(c, [k EXCEPT !.pc = "delete"])
    /\ UNCHANGED <<local, world, late, flight, service, epoch, done>>

\* An unanswered consent.request may have made a card: the row stays.
AskUnanswered(c) == Unresolved(c)

\* consent.request: answered with the card's id, refused, or unanswered.
Ask(c) ==
    LET k == calls[c] IN
    /\ At(c, "ask")
    /\ \/ /\ cards' = Append(cards, Card(k))
          /\ Goto(c, [k EXCEPT !.pc = "setid", !.card = Len(cards) + 1])
          /\ UNCHANGED <<mail, upsets>>
       \/ /\ Fault("refused")
          /\ Goto(c, [k EXCEPT !.pc = "delete"])
          /\ UNCHANGED <<cards, mail>>
       \/ /\ Fault("unanswered")
          /\ mail' = mail \cup {Card(k)}
          /\ AskUnanswered(c)
          /\ UNCHANGED cards
    /\ UNCHANGED <<local, world, late, flight, feed, acked, epoch, done>>

\* set_elicitation
SetIdRows(k) ==
    IF Awaiting(k.req) /\ rows[k.req].card = 0
    THEN [rows EXCEPT ![k.req].card = k.card] ELSE rows

SetId(c) ==
    /\ At(c, "setid")
    /\ rows' = SetIdRows(calls[c])
    /\ Goto(c, [calls[c] EXCEPT !.pc = "poll"])
    /\ UNCHANGED <<grant, cursor, world, late, flight, service, epoch, done, upsets>>

\* consent.get, consent.await and consent.detach: the answer, if there is one;
\* otherwise, and whenever they fail, consent_pending.  A forgotten card is not
\* found, or is a record without binding and answer.
Poll(c) ==
    LET k == calls[c] IN
    /\ At(c, "poll")
    /\ \/ /\ Settled(k.card) /\ cards[k.card].kept
          /\ Goto(c, [k EXCEPT !.pc = "settle"])
       \/ /\ k.found /\ ~cards[k.card].kept
          /\ Goto(c, [k EXCEPT !.pc = "refuse"])
       \/ End(c)
    /\ UNCHANGED <<local, world, late, flight, service, epoch, done, upsets>>

\* Faulty: the answer is also recorded in a row that has its outcome.
RecordsLate(rs, i) ==
    LET card == cards[i] IN
    IF rs[card.req] # NoRow /\ rs[card.req].answer = "none" /\ card.kept
    THEN [rs EXCEPT ![card.req].answer = card.state, ![card.req].card = i]
    ELSE rs
\* record_settlement of card i in the row that it is bound to.
Recorded(rs, i) ==
    LET card == cards[i]
        row == rs[card.req]
    IN  IF row.state = "awaiting" /\ row.name = card.name /\ row.epoch = card.epoch
              /\ row.answer = "none" /\ row.card \in {0, i} /\ card.kept
        THEN [rs EXCEPT ![card.req].answer = card.state, ![card.req].card = i]
        ELSE rs

\* inspect_record: save the answer, and decide by the row as it is then.
Settle(c) ==
    LET k == calls[c]
        row == Recorded(rows, k.card)[k.req]
    IN  /\ At(c, "settle")
        /\ rows' = Recorded(rows, k.card)
        /\ Goto(c, IF row = NoRow THEN [k EXCEPT !.pc = "lost"] ELSE Decided(k, row))
        /\ UNCHANGED <<grant, cursor, world, late, flight, service, epoch, done, upsets>>

\* delete_awaiting
DeleteRows(k) == IF Awaiting(k.req) THEN [rows EXCEPT ![k.req] = NoRow] ELSE rows

\* No card was made: the row goes, and the tool is consent_unavailable.
Delete(c) ==
    /\ At(c, "delete")
    /\ rows' = DeleteRows(calls[c])
    /\ End(c)
    /\ UNCHANGED <<grant, cursor, world, late, flight, service, epoch, done, upsets>>

-----------------------------------------------------------------------------
(***************************************************************************)
(* capture_feed: read a page of answers, save it with the cursor in one    *)
(* transaction, acknowledge it, go on until the last page.                 *)
(***************************************************************************)
\* consent.answers, with a continuation if the feed goes on after the page.
Page(c) ==
    LET k == calls[c] IN
    /\ At(c, "page")
    /\ \/ /\ Goto(c, [k EXCEPT !.pc = "save",
                               !.next = Smaller(k.cur + PageSize, Len(feed[k.epoch])),
                               !.more = k.cur + PageSize < Len(feed[k.epoch])])
          /\ UNCHANGED upsets
       \/ Fault("unanswered") /\ Unresolved(c)
    /\ UNCHANGED <<local, world, late, flight, service, epoch, done>>

\* The answers of the page, by place, that the row of r would take.
AnswersFor(k, r) ==
    {p \in (k.cur + 1)..k.next :
        cards[feed[k.epoch][p]].req = r /\ Recorded(rows, feed[k.epoch][p]) # rows}
\* The page is recorded in order, and a row keeps the first answer it takes.
PageRow(k, r) ==
    LET ps == AnswersFor(k, r)
        first == CHOOSE p \in ps : \A q \in ps : p <= q
    IN  IF ps = {} THEN rows[r] ELSE Recorded(rows, feed[k.epoch][first])[r]

\* Faulty: only the answer of the call's own request is saved.
SavesOwn(k) == [rows EXCEPT ![k.req] = PageRow(k, k.req)]
SaveRows(k) == [r \in Requests |-> PageRow(k, r)]
\* save_feed_cursor: the cursor never goes back.
SaveCursor(k) == [cursor EXCEPT ![k.epoch] = Larger(@, k.next)]

Save(c) ==
    LET k == calls[c] IN
    /\ At(c, "save")
    /\ rows' = SaveRows(k) /\ cursor' = SaveCursor(k)
    /\ Goto(c, [k EXCEPT !.pc = "ack"])
    /\ UNCHANGED <<grant, world, late, flight, service, epoch, done, upsets>>

\* consent.ack, and the next page if the feed went on after this one.
Ack(c) ==
    LET k == calls[c] IN
    /\ At(c, "ack")
    /\ acked' = [acked EXCEPT ![k.epoch] = Larger(@, k.next)]
    /\ \/ /\ Goto(c, IF k.more THEN [k EXCEPT !.pc = "page", !.cur = k.next]
                     ELSE [k EXCEPT !.pc = "reload"])
          /\ UNCHANGED upsets
       \/ Fault("unanswered") /\ Unresolved(c)
    /\ UNCHANGED <<local, world, late, flight, cards, feed, mail, epoch, done>>

\* The feed is captured: the row as it is now decides.
Reload(c) ==
    LET k == calls[c]
        row == rows[k.req]
    IN  /\ At(c, "reload")
        /\ CASE row = NoRow -> Goto(c, [k EXCEPT !.pc = "lost"])
             [] row # NoRow /\ row.answer # "none" -> Goto(c, Decided(k, row))
             [] OTHER -> IF row.card = 0 THEN Unresolved(c) ELSE End(c)
        /\ UNCHANGED <<local, world, late, flight, service, epoch, done, upsets>>

-----------------------------------------------------------------------------
(***************************************************************************)
(* The write.                                                              *)
(***************************************************************************)

\* admit_commit: the plan is prepared again and must be the same; a grant must
\* still be live.
Admitted(k) ==
    /\ Allowed(k.req, k.name)
    /\ Fresh(k.req, k.name) = k.plan
    /\ k.auth = "grant" => grant = "live"

\* The request has no outcome yet, and these arguments.
StillOpen(k) ==
    rows[k.req] # NoRow => Awaiting(k.req) /\ rows[k.req].name = k.name

\* The record kept of an applied write.
Write(k, by) ==
    [plan |-> k.plan, by |-> by, card |-> k.card, at |-> Placed(k.plan.tool),
     misled |-> by = "card" /\ k.found /\ ~k.saved]

\* approval_grant
GrantsMore(k) == k.choice = "always"

\* begin_request and finish_request.
Finished(k) ==
    [rows EXCEPT ![k.req] =
        [IF rows[k.req] = NoRow THEN NewRow(k, NoPlan) ELSE rows[k.req]
            EXCEPT !.state = "applied"]]

\* One transaction: the write, the new grant, the row's outcome.  An entry that
\* had not reached the log cannot do so any more.
CommitWrite(k) ==
    /\ rows' = Finished(k)
    /\ grant' = IF GrantsMore(k) THEN "live" ELSE grant
    /\ world' = Applied(world, k.plan)
    /\ done' = [done EXCEPT ![k.req] = Append(@, Write(k, k.auth))]
    /\ flight' = {}

\* The write commits, is refused, is answered from a terminal row, is not sent,
\* or is rolled back although its entry may reach the log.
WriteStep(c) ==
    LET k == calls[c] IN
    /\ At(c, "write")
    /\ \/ /\ StillOpen(k) /\ Admitted(k)
          /\ CommitWrite(k) /\ End(c)
          /\ UNCHANGED upsets
       \/ /\ StillOpen(k) /\ ~Admitted(k)
          /\ Goto(c, [k EXCEPT !.pc = "lost"])
          /\ UNCHANGED <<rows, grant, world, done, flight, upsets>>
       \/ /\ ~StillOpen(k) /\ End(c)
          /\ UNCHANGED <<rows, grant, world, done, flight, upsets>>
       \/ /\ Fault("unavailable") /\ End(c)
          /\ UNCHANGED <<rows, grant, world, done, flight>>
       \/ /\ StillOpen(k) /\ Admitted(k) /\ Fault("unknown")
          /\ flight' = {k} /\ End(c)
          /\ UNCHANGED <<rows, grant, world, done>>
    /\ UNCHANGED <<cursor, late, service, epoch>>

\* Catch-up applies an entry of a write that was rolled back here.
CatchUp(k) ==
    /\ flight' = flight \ {k}
    /\ world' = Applied(world, k.plan)
    /\ done' = [done EXCEPT ![k.req] = Append(@, Write(k, "log"))]
    /\ UNCHANGED <<local, calls, late, service, epoch, upsets>>

\* refuse_write
RefusedRows(k) ==
    IF ~StillOpen(k) THEN rows
    ELSE [rows EXCEPT ![k.req] =
             [IF rows[k.req] = NoRow THEN NewRow(k, NoPlan) ELSE rows[k.req]
                 EXCEPT !.state = "refused"]]

\* A refused decision is recorded if the row is still there; a lost request or a
\* refused write always.
Refuse(c) ==
    LET k == calls[c] IN
    /\ At(c, "refuse") \/ At(c, "lost")
    /\ rows' = IF At(c, "refuse") /\ rows[k.req] = NoRow THEN rows ELSE RefusedRows(k)
    /\ End(c)
    /\ UNCHANGED <<grant, cursor, world, late, flight, service, epoch, done, upsets>>

-----------------------------------------------------------------------------
(***************************************************************************)
(* Calls that give up, and restarts.                                       *)
(***************************************************************************)

\* The call's deadline expires, or its client goes away, at an await: what it
\* waited for goes on without it.
Abandon(c) ==
    LET k == calls[c] IN
    /\ k.pc \notin {"idle", "lease", "refuse", "lost"}
    /\ Fault("abandon")
    /\ End(c)
    /\ late' = IF k.pc \in (SqlPlaces \ {"reload"}) \cup {"write"} THEN late \cup {k} ELSE late
    /\ mail' = IF k.pc = "ask" THEN mail \cup {Card(k)} ELSE mail
    /\ UNCHANGED <<local, world, flight, cards, feed, acked, epoch, done>>

\* A SQL job finishes after its call; a write may also have been rolled back.
LateJob(k) ==
    /\ late' = late \ {k}
    /\ CASE k.pc = "begin" ->
               rows' = BeginRows(k) /\ UNCHANGED <<grant, cursor, world, done, flight>>
         [] k.pc = "setid" ->
               rows' = SetIdRows(k) /\ UNCHANGED <<grant, cursor, world, done, flight>>
         [] k.pc = "settle" ->
               rows' = Recorded(rows, k.card) /\ UNCHANGED <<grant, cursor, world, done, flight>>
         [] k.pc = "delete" ->
               rows' = DeleteRows(k) /\ UNCHANGED <<grant, cursor, world, done, flight>>
         [] k.pc = "save" ->
               /\ rows' = SaveRows(k) /\ cursor' = SaveCursor(k)
               /\ UNCHANGED <<grant, world, done, flight>>
         [] OTHER ->
               /\ \/ StillOpen(k) /\ Admitted(k) /\ CommitWrite(k)
                  \/ UNCHANGED <<rows, grant, world, done, flight>>
               /\ UNCHANGED cursor
    /\ UNCHANGED <<calls, service, epoch, upsets>>

Crash ==
    /\ Fault("crash")
    /\ calls' = [c \in Calls |-> Idle]
    /\ late' = {}
    /\ mail' = mail \cup {Card(calls[c]) : c \in {d \in Calls : At(d, "ask")}}
    /\ UNCHANGED <<local, world, flight, cards, feed, acked, epoch, done>>

-----------------------------------------------------------------------------
(***************************************************************************)
(* What others do meanwhile.                                               *)
(***************************************************************************)
Others ==
    /\ Upset
    /\ UNCHANGED <<rows, cursor, calls, late, service, done>>

\* Shared writes of the operator: the open entry did not reach the log before.
ChangeWorld(w) ==
    /\ Others
    /\ w # world
    /\ world' = w /\ flight' = {}
    /\ UNCHANGED <<grant, epoch>>

Move(ws) == ChangeWorld([world EXCEPT !.ws = ws])
Dismiss(name) == ChangeWorld([world EXCEPT !.staff = @ \ {name}])
CallerGone == ChangeWorld([world EXCEPT !.gone = TRUE])

\* permission.set_hire_cap
SetCap(cap) ==
    /\ Others
    /\ cap # world.cap
    /\ world' = [world EXCEPT !.cap = cap]
    /\ UNCHANGED <<grant, flight, epoch>>

\* permission.revoke
Revoke ==
    /\ Others
    /\ grant = "live"
    /\ grant' = "revoked"
    /\ UNCHANGED <<world, flight, epoch>>

\* The caller's scope is opened anew.
NewEpoch ==
    /\ Others
    /\ epoch < MaxEpoch
    /\ epoch' = epoch + 1
    /\ UNCHANGED <<grant, world, flight>>

-----------------------------------------------------------------------------
Init ==
    /\ rows = [r \in Requests |-> NoRow]
    /\ grant = "none"
    /\ cursor = [e \in Epochs |-> 0]
    /\ \E ws \in Workspaces :
         world = [ws |-> ws, staff |-> {}, cap |-> DefaultCap, gone |-> FALSE]
    /\ calls = [c \in Calls |-> Idle]
    /\ late = {} /\ flight = {}
    /\ cards = <<>> /\ mail = {}
    /\ feed = [e \in Epochs |-> <<>>]
    /\ acked = [e \in Epochs |-> 0]
    /\ epoch = 1
    /\ done = [r \in Requests |-> <<>>]
    /\ upsets = 0

CallStep(c) ==
    \/ Lease(c) \/ Begin(c) \/ Open(c) \/ Ask(c) \/ SetId(c) \/ Poll(c) \/ Settle(c)
    \/ Delete(c) \/ Page(c) \/ Save(c) \/ Ack(c) \/ Reload(c) \/ WriteStep(c) \/ Refuse(c)

OthersStep ==
    \/ \E ws \in Workspaces : Move(ws)
    \/ \E name \in Names : Dismiss(name)
    \/ CallerGone
    \/ \E cap \in Caps : SetCap(cap)
    \/ Revoke
    \/ NewEpoch

Next ==
    \/ \E c \in Calls, r \in Requests : \E name \in ArgsOf[r] : Start(c, r, name)
    \/ \E c \in Calls : CallStep(c) \/ Abandon(c)
    \/ \E k \in late : LateJob(k)
    \/ \E k \in flight : CatchUp(k)
    \/ \E i \in DOMAIN cards : \E choice \in Settlements : Answer(i, choice)
    \/ \E m \in mail : MailArrives(m)
    \/ \E r \in Requests : Age(r) \/ Day(r)
    \/ Crash
    \/ OthersStep

Spec == Init /\ [][Next]_vars

-----------------------------------------------------------------------------
(***************************************************************************)
(* What the module is for.                                                 *)
(***************************************************************************)
TypeOK ==
    /\ rows \in [Requests -> Row \cup {NoRow}]
    /\ grant \in {"none", "live", "revoked"}
    /\ calls \in [Calls -> Call] /\ late \subseteq Call /\ flight \subseteq Call
    /\ \A e \in Epochs : acked[e] <= cursor[e] /\ cursor[e] <= Len(feed[e])

\* One request key runs at most one card, however many calls use it, restarts
\* and lost replies included (consent-contract.md section 3).
OneCard ==
    \A i, j \in DOMAIN cards : cards[i].req = cards[j].req => i = j

ApprovedCard(r, write) ==
    /\ write.card \in DOMAIN cards
    /\ LET card == cards[write.card]
       IN card.req = r /\ card.state \in Approvals /\ card.plan = write.plan

\* A write asked for by a card is the one the card showed, where the card showed
\* it, and the user approved it.  Left out: a call that found no row when it
\* started, and another call's row when it began.
AppliedAsShown ==
    \A r \in Requests : \A i \in DOMAIN done[r] :
        LET write == done[r][i] IN
        write.by = "card" /\ ~write.misled =>
            ApprovedCard(r, write) /\ write.at = write.plan.ws

\* A standing grant exists only if the user answered a card with "always".
GrantsFromAlways ==
    grant # "none" => \E i \in DOMAIN cards : cards[i].state = "always"

\* An answer that was acknowledged to Cingulate, which may then forget it, is saved
\* in the row that waits for it, whichever call captured it (consent.rs
\* capture_feed).
AckedIsSaved ==
    \A e \in Epochs : \A i \in 1..acked[e] :
        LET card == cards[feed[e][i]] IN
        /\ rows[card.req] # NoRow
        /\ card.kept /\ Awaiting(card.req) => rows[card.req].answer = card.state

\* The write and the request's outcome commit together, and once (section 6): an
\* outcome is `applied` exactly if the write was applied, and no request is applied
\* twice.  Left out: an append whose outcome is unknown.
CommitOnce ==
    \A r \in Requests :
        (\A i \in DOMAIN done[r] : done[r][i].by # "log") =>
            /\ Len(done[r]) <= 1
            /\ rows[r].state = "applied" <=> done[r] # <<>>

\* An outcome is final, and so is a saved answer.
OutcomesFinal ==
    [][\A r \in Requests :
          /\ Terminal(r) => rows'[r] = rows[r]
          /\ rows[r] # NoRow /\ rows[r].answer # "none" =>
                 rows'[r] # NoRow /\ rows'[r].answer = rows[r].answer]_vars

\* However often a request is sent, abandoned and sent again, it asks the user once
\* and is applied once.
OncePerRequest == TypeOK /\ OneCard /\ CommitOnce

\* What is written, and what is granted for later, is what the user answered, and no
\* answer is lost on the way (consent.rs, tool_writes.rs).
ActsOnAnswers == AppliedAsShown /\ GrantsFromAlways /\ AckedIsSaved

=============================================================================
