----------------------------- MODULE IdentityLog -----------------------------
(***************************************************************************)
(* The shared identity log: several machines, each with its own SQLite     *)
(* store, that share changes through one append-only log kept by engram.   *)
(* A machine writes to the log under its writer lock, holding a SQLite     *)
(* transaction open until the log has answered; it reads the log before    *)
(* each write and in the background; and it starts sharing by appending a  *)
(* snapshot of its store, in several parts, or by installing another       *)
(* machine's snapshot.                                                     *)
(*                                                                         *)
(* `store` is durable.  `task` is the process: the task that holds the     *)
(* writer lock, and the place it reached.  An action is one call to the    *)
(* log, or one SQLite transaction, with the memory updates that go with    *)
(* it.  An append that was not answered stays in `flight` and may reach    *)
(* the log at any later time, or never.                                    *)
(***************************************************************************)
EXTENDS Naturals, Sequences

CONSTANTS
    Machines,
    Requests,       \* the shared writes that clients send
    KeyOf,          \* the request key of each write
    Parts,          \* how many parts a snapshot has
    PageLimit,      \* entries per page of a log read (128 in the code)
    Retries,        \* retries after the head moved (5 in the code)
    MaxEnables,     \* bound on enable requests to disabled stores
    FaultKinds,     \* the kinds of fault a run allows, a subset of Faults
    MaxFaults       \* bound on the number of faults of a behaviour

\* "lost": an append whose reply is lost; "outage": a call that fails;
\* "verify": a read the log refuses to verify; "timeout": a deadline;
\* "drop": a client goes away; "crash": a restart; "new_store": a machine
\* starts over with an empty store.
Faults == {"lost", "outage", "verify", "timeout", "drop", "crash", "new_store"}

ASSUME ConstantsAssumption ==
    /\ Parts \in Nat \ {0} /\ PageLimit \in Nat \ {0} /\ Retries \in Nat
    /\ MaxEnables \in Nat /\ MaxFaults \in Nat
    /\ FaultKinds \subseteq Faults
    /\ DOMAIN KeyOf = Requests
    /\ "nobody" \notin Machines /\ "none" \notin Requests

VARIABLES
    log,       \* the log: a sequence of entries
    flight,    \* unanswered appends that may still reach the log
    store,     \* the durable state of each machine
    task,      \* the holder of each machine's writer lock
    answer,    \* where each request is, and what its client was told
    host,      \* the machine each request was sent to
    broken,    \* machines that reported identity_log_invariant
    enables,   \* enable requests to disabled stores so far
    faults     \* faults so far

vars == <<log, flight, store, task, answer, host, broken, enables, faults>>
requests == <<answer, host>>
bookkeeping == <<broken, enables>>

Keys == {KeyOf[r] : r \in Requests}
Nobody == "nobody"
NoRequest == "none"

\* A change is appended under the id of its attempt, a snapshot part under the
\* id of its plan; `through` is a superseding snapshot's supersedes_through.
EntryIds == [req: Requests, try: 0..Retries] \cup [plan: Nat, part: 1..Parts]
Entry == [id: EntryIds, author: Machines, kind: {"change", "snapshot"},
          data: Seq(Keys), through: Nat]
AppendCall == [entry: Entry, expect: Nat]
PendingEntry == [id: EntryIds, expect: Nat]

LogStates == {"disabled", "enabling", "joining", "enabled"}
\* identity_log_state, pending_entry, the shared tables (content, as the
\* changes that made them, in order), the request keys and entry ids that the
\* journal holds for writes committed here, and the saved snapshot plan.
Store == [state: LogStates, applied: Nat, seen: Nat, content: Seq(Keys),
          pending: SUBSET PendingEntry, keys: SUBSET Keys, own: SUBSET EntryIds,
          author: BOOLEAN, plan: Nat, base: Nat, saved: Seq(Keys)]

Holders == {"free", "write", "readback", "background", "operator"}
Places == {"idle", "read", "apply", "attempt", "settle", "commit", "head",
           "resume", "parts"}
Task == [holder: Holders, req: Requests \cup {NoRequest}, pc: Places,
         after: Nat, head: Nat, end: Nat, try: 0..Retries, sent: BOOLEAN,
         stalled: {"no", "verify", "apply"}]

Waiting == {"queued", "active"}
Answers == {"new", "ok", "local", "cached", "nothing", "refused", "unknown",
            "dropped", "lost"} \cup Waiting

\* Every variable stays in its type: in particular a machine's applied position
\* and the place its lock holder reached always belong to a log position.
TypeOK ==
    /\ log \in Seq(Entry) /\ flight \subseteq AppendCall
    /\ store \in [Machines -> Store] /\ task \in [Machines -> Task]
    /\ answer \in [Requests -> Answers]
    /\ host \in [Requests -> Machines \cup {Nobody}]
    /\ broken \subseteq Machines /\ enables \in Nat /\ faults \in Nat

EmptyStore ==
    [state |-> "disabled", applied |-> 0, seen |-> 0, content |-> <<>>,
     pending |-> {}, keys |-> {}, own |-> {}, author |-> FALSE, plan |-> 0, base |-> 0,
     saved |-> <<>>]
IdleTask ==
    [holder |-> "free", req |-> NoRequest, pc |-> "idle", after |-> 0, head |-> 0,
     end |-> 0, try |-> 0, sent |-> FALSE, stalled |-> "no"]

Init ==
    /\ log = <<>> /\ flight = {}
    /\ store = [m \in Machines |-> EmptyStore]
    /\ task = [m \in Machines |-> IdleTask]
    /\ answer = [r \in Requests |-> "new"]
    /\ host = [r \in Requests |-> Nobody]
    /\ broken = {} /\ enables = 0 /\ faults = 0

Fault(kind) ==
    /\ kind \in FaultKinds
    /\ faults < MaxFaults
    /\ faults' = faults + 1

Max2(a, b) == IF a > b THEN a ELSE b
Min2(a, b) == IF a < b THEN a ELSE b

-----------------------------------------------------------------------------
(***************************************************************************)
(* The log service.  It answers a known entry id with its first position,  *)
(* and otherwise accepts an append only at the head that it expects.       *)
(***************************************************************************)
Logged(id) == \E i \in 1..Len(log) : log[i].id = id

\* An answered append: it landed, now or by an earlier send, or the head moved.
Landed(call) ==
    IF Logged(call.entry.id) THEN UNCHANGED log
    ELSE /\ Len(log) = call.expect
         /\ log' = Append(log, call.entry)

HeadMoved(call) ==
    /\ ~Logged(call.entry.id)
    /\ Len(log) # call.expect
    /\ UNCHANGED log

\* An append that was never answered reaches the log late.
DeliverLate ==
    \E call \in flight :
        /\ flight' = flight \ {call}
        /\ log' = IF ~Logged(call.entry.id) /\ Len(log) = call.expect
                  THEN Append(log, call.entry) ELSE log
        /\ UNCHANGED <<store, task, requests, bookkeeping, faults>>

-----------------------------------------------------------------------------
(* The writer lock *)

Release(m) == [IdleTask EXCEPT !.stalled = task[m].stalled]
Free(m) == task[m].holder = "free"
At(m, pc) == task[m].pc = pc

\* Starts Worker::run: read the log from the applied position on.
Reading(m, holder, r, try) ==
    [task[m] EXCEPT !.holder = holder, !.req = r, !.pc = "read", !.try = try,
                    !.after = store[m].applied, !.head = 0, !.end = 0,
                    !.sent = FALSE]

\* Bootstrap refuses shared writes.
Fenced(s) == s.state \in {"enabling", "joining"}
\* The journal has a reply for the key.
Cached(s, key) == key \in s.keys

\* A shared write reaches the machine; a known key is answered from the cache,
\* and during bootstrap the write is refused, both before queueing.
Arrive(r, m) ==
    /\ answer[r] = "new"
    /\ host' = [host EXCEPT ![r] = m]
    /\ answer' = [answer EXCEPT ![r] =
           CASE Fenced(store[m]) -> "refused"
             [] store[m].state = "enabled" /\ Cached(store[m], KeyOf[r]) -> "cached"
             [] OTHER -> "queued"]
    /\ UNCHANGED <<log, flight, store, task, bookkeeping, faults>>

\* Faulty: the request cache is not asked again.
NoSecondProbe(s, key) ==
    CASE Fenced(s) -> "refused"
      [] s.state = "disabled" -> IF Cached(s, key) THEN "cached" ELSE "local"
      [] OTHER -> "active"
\* What becomes of a write that got the lock: the state and the request cache
\* are looked at again.
Admitted(s, key) ==
    CASE Fenced(s) -> "refused"
      [] ~Fenced(s) /\ Cached(s, key) -> "cached"
      [] ~Cached(s, key) /\ s.state = "disabled" -> "local"
      [] OTHER -> "active"

TakeLock(r) ==
    LET m == host[r]
        result == Admitted(store[m], KeyOf[r])
    IN  /\ answer[r] = "queued" /\ Free(m)
        /\ answer' = [answer EXCEPT ![r] = result]
        /\ store' = IF result # "local" THEN store
                    ELSE [store EXCEPT ![m].content = Append(@, KeyOf[r]),
                                       ![m].keys = @ \cup {KeyOf[r]}]
        /\ task' = IF result # "active" THEN task
                   ELSE [task EXCEPT ![m] = Reading(m, "write", r, 0)]
        /\ UNCHANGED <<log, flight, host, bookkeeping, faults>>

\* The lock is not free before the request's deadline.
LockExpires(r) ==
    /\ answer[r] = "queued"
    /\ Fault("timeout")
    /\ answer' = [answer EXCEPT ![r] = "refused"]
    /\ UNCHANGED <<log, flight, store, task, host, bookkeeping>>

\* Faulty: the tick leaves an unfinished enable to the operator.
SkipsEnabling(s) == s.state \in {"joining", "enabled"}
Ticks(s) == s.state # "disabled"

\* The 30 s tick: resume an enable, otherwise catch up.
Background(m) ==
    /\ Free(m) /\ Ticks(store[m])
    /\ task' = [task EXCEPT ![m] =
           IF store[m].state = "enabling"
           THEN [@ EXCEPT !.holder = "background", !.pc = "resume"]
           ELSE Reading(m, "background", NoRequest, 0)]
    /\ UNCHANGED <<log, flight, store, requests, bookkeeping, faults>>

\* identity_log.enable; on an enabled store it does nothing.  An enable of a
\* disabled store has a number, which names its snapshot.
Enable(m) ==
    /\ Free(m) /\ store[m].state # "enabled"
    /\ store[m].state = "disabled" => enables < MaxEnables
    /\ enables' = IF store[m].state = "disabled" THEN enables + 1 ELSE enables
    /\ task' = [task EXCEPT ![m] =
           CASE store[m].state = "enabling" -> [@ EXCEPT !.holder = "operator", !.pc = "resume"]
             [] store[m].state = "joining" -> Reading(m, "operator", NoRequest, 0)
             [] OTHER -> [@ EXCEPT !.holder = "operator", !.pc = "head",
                                   !.after = enables + 1]]
    /\ UNCHANGED <<log, flight, store, requests, broken, faults>>

-----------------------------------------------------------------------------
(***************************************************************************)
(* Catch-up (Worker::run): read a page, apply its entries one transaction  *)
(* at a time, and go on until the head that the last page reported.  The   *)
(* parts of a snapshot are only buffered until the last one is there; they *)
(* are the entries between the applied position and `after`.               *)
(***************************************************************************)

\* What the client is told when its task ends with `result`; a write that only
\* reads back has succeeded whatever happens, with or without an entry.
Told(m, result) ==
    LET t == task[m] IN
    CASE t.holder = "write" -> [answer EXCEPT ![t.req] = result]
      [] t.holder = "readback" ->
             [answer EXCEPT ![t.req] = IF t.sent THEN "ok" ELSE "nothing"]
      [] OTHER -> answer

\* The task ends, with an error for the client.
Fails(m) ==
    /\ task' = [task EXCEPT ![m] = Release(m)]
    /\ answer' = Told(m, "refused")

\* A read of the log fails, or is refused because catch-up is stalled.
ReadFails(m) ==
    /\ At(m, "read")
    /\ answer' = Told(m, "refused")
    /\ \/ /\ task[m].stalled # "no" /\ store[m].state = "enabled"
          /\ task' = [task EXCEPT ![m] = Release(m)]
          /\ UNCHANGED faults
       \/ /\ Fault("outage")
          /\ task' = [task EXCEPT ![m] = Release(m)]
       \/ /\ Fault("verify")
          /\ task' = [task EXCEPT ![m] = [Release(m) EXCEPT !.stalled = "verify"]]
    /\ UNCHANGED <<log, flight, store, host, bookkeeping>>

\* observe_log_head, which a disabled store does not do.
Observed(s) == IF s.state = "disabled" THEN s.seen ELSE Max2(s.seen, Len(log))

\* A page is read; the head is remembered unless the log is disabled, and a
\* first own write at the applied position tells the machine its author.
ReadPage(m) ==
    LET s == store[m] IN
    /\ At(m, "read")
    /\ task[m].stalled = "no" \/ s.state # "enabled"
    /\ task' = [task EXCEPT ![m].pc = "apply", ![m].head = Len(log),
                            ![m].end = Min2(task[m].after + PageLimit, Len(log))]
    /\ store' = [store EXCEPT
           ![m].seen = Observed(s),
           ![m].author = \/ @
                         \/ s.applied > 0 /\ log[s.applied].id \in s.own]
    /\ UNCHANGED <<log, flight, requests, bookkeeping, faults>>

\* An entry at `position` decides every attempt that expected less.
StillPending(s, position) == {p \in s.pending : p.expect >= position}

\* finish_join_at_head: a join that reached the head is enabled.
JoinedState(s, position, head) ==
    IF s.state = "joining" /\ position = head THEN "enabled" ELSE s.state

\* apply: the store after the entries up to `position` were applied.
Advanced(s, m, position, content) ==
    LET seen == Max2(s.seen, position) IN
    [s EXCEPT !.applied = position, !.seen = seen, !.content = content,
              !.state = JoinedState(s, position, seen),
              !.author = @ \/ log[position].author = m,
              !.pending = StillPending(s, position)]

Completes(e) == e.kind = "snapshot" /\ e.id.part = Parts
Next1(m) == log[task[m].after + 1]
Buffering(m) == task[m].after > store[m].applied

\* The entry is the next part of the snapshot in the buffer, or a first part.
InOrder(m, e) ==
    /\ e.kind = "snapshot"
    /\ e.id.part = task[m].after - store[m].applied + 1
    /\ Buffering(m) => e.id.plan = log[store[m].applied + 1].id.plan

\* supersedes_through is the position before the snapshot's first part.
Precedes(s, e) == e.through = s.applied

\* A superseding snapshot replaces exactly the entries before it, and its
\* author wrote all of them.
MaySupersede(s, e) ==
    e.through > 0 => /\ Precedes(s, e)
                     /\ \A i \in 1..e.through : log[i].author = e.author

\* The entry can be applied, or buffered.
Applies(m, e) ==
    \/ e.kind = "change" /\ ~Buffering(m) /\ store[m].state # "disabled"
    \/ InOrder(m, e) /\ (e.id.part = Parts => MaySupersede(store[m], e))

\* Faulty: an entry with a pending row is taken as committed.
PendingTakenAsDone(s, e) ==
    IF e.id \in s.own \cup {p.id : p \in s.pending} THEN s.content
    ELSE Append(s.content, Head(e.data))
\* A change that this store committed itself is not applied again.
Changed(s, e) == IF e.id \in s.own THEN s.content ELSE Append(s.content, Head(e.data))

\* The last part: the whole snapshot is installed in one transaction, which
\* also makes a disabled store a joining one.
Installed(m, e) ==
    LET s == store[m]
        joined == IF s.state = "disabled"
                  THEN [s EXCEPT !.state = "joining", !.seen = task[m].head] ELSE s
    IN  Advanced(joined, m, task[m].after + 1,
                 IF e.through > 0 THEN e.data ELSE s.content \o e.data)

\* One entry of the page: a change is applied, the last part of a snapshot
\* installs it, an earlier part is only buffered; an entry that cannot be
\* applied stalls catch-up.
ApplyEntry(m) ==
    LET e == Next1(m)
        s == store[m]
        ok == Applies(m, e)
    IN  /\ At(m, "apply") /\ task[m].after < task[m].end
        /\ store' = [store EXCEPT ![m] =
               CASE ok /\ e.kind = "change" -> Advanced(s, m, s.applied + 1, Changed(s, e))
                 [] ok /\ Completes(e) -> Installed(m, e)
                 [] OTHER -> s]
        /\ task' = [task EXCEPT ![m] =
               IF ok THEN [@ EXCEPT !.after = task[m].after + 1]
               ELSE [Release(m) EXCEPT !.stalled = "apply"]]
        /\ answer' = IF ok THEN answer ELSE Told(m, "refused")
        /\ UNCHANGED <<log, flight, host, bookkeeping, faults>>

\* The page is used up: read on, fail on a snapshot that is not complete yet, or
\* finish; a finished join is enabled, a write goes on to its attempt.
EndPage(m) ==
    LET t == task[m]
        s == store[m]
        done == t.end = t.head
        fails == done /\ Buffering(m)
        goesOn == done /\ ~fails /\ t.holder = "write"
    IN  /\ At(m, "apply") /\ t.after = t.end
        /\ task' = [task EXCEPT ![m] =
               CASE ~done -> [t EXCEPT !.pc = "read", !.head = 0, !.end = 0]
                 [] fails -> Release(m)
                 [] goesOn -> [IdleTask EXCEPT !.holder = "write", !.req = t.req,
                                              !.pc = "attempt", !.try = t.try]
                 [] OTHER -> IdleTask]
        /\ answer' = IF done /\ ~goesOn THEN Told(m, "refused") ELSE answer
        /\ store' = IF done /\ ~fails
                    THEN [store EXCEPT ![m].state = JoinedState(s, s.applied, t.head)]
                    ELSE store
        /\ UNCHANGED <<log, flight, host, bookkeeping, faults>>

-----------------------------------------------------------------------------
(***************************************************************************)
(* A shared write: one attempt after another, each with a new entry id, at *)
(* the applied position as its expected head.                              *)
(***************************************************************************)
AttemptId(t) == [req |-> t.req, try |-> t.try]

\* The append of the present attempt; a resend is identical.
Call(m) ==
    [entry |-> [id |-> AttemptId(task[m]), author |-> m, kind |-> "change",
                data |-> <<KeyOf[task[m].req]>>, through |-> 0],
     expect |-> store[m].applied]

\* Faulty: the attempt is not made durable.
NoPendingRow(m) ==
    /\ At(m, "attempt")
    /\ task' = [task EXCEPT ![m].pc = "settle", ![m].sent = FALSE]
    /\ UNCHANGED <<log, flight, store, requests, bookkeeping, faults>>
\* shared_attempt: the pending row is committed before anything is sent.
BeginAttempt(m) ==
    /\ At(m, "attempt")
    /\ store' = [store EXCEPT ![m].pending =
           @ \cup {[id |-> AttemptId(task[m]), expect |-> store[m].applied]}]
    /\ task' = [task EXCEPT ![m].pc = "settle", ![m].sent = FALSE]
    /\ UNCHANGED <<log, flight, requests, bookkeeping, faults>>

Forgotten(s, id) == [s EXCEPT !.pending = {p \in @ : p.id # id}]

\* A write ends well: the client is told, unless the machine does not know its
\* author yet and reads the log once more, from `after` on.
Succeeds(m, result, after) ==
    IF store[m].author
    THEN /\ task' = [task EXCEPT ![m] = Release(m)]
         /\ answer' = Told(m, result)
    ELSE /\ task' = [task EXCEPT ![m] =
                [Reading(m, "readback", task[m].req, 0) EXCEPT
                    !.after = after, !.sent = (result = "ok")]]
         /\ UNCHANGED answer

\* The operation is refused, or changes nothing shared: its own pending row goes
\* and nothing is sent.
NothingToShare(m) ==
    /\ At(m, "settle") /\ ~task[m].sent
    /\ store' = [store EXCEPT ![m] = Forgotten(@, AttemptId(task[m]))]
    /\ \/ Fails(m)
       \/ Succeeds(m, "nothing", store[m].applied)
    /\ UNCHANGED <<log, flight, host, bookkeeping, faults>>

\* The log confirmed the entry at the expected position.
SettleCommit(m) ==
    /\ At(m, "settle")
    /\ Landed(Call(m))
    /\ task' = [task EXCEPT ![m].pc = "commit", ![m].sent = TRUE]
    /\ UNCHANGED <<flight, store, requests, bookkeeping, faults>>

RetriesUsed(t) == t.try = Retries

\* Another entry has the position: roll back, keep the pending row, and try
\* again with a new id after catching up, unless the retries are used up.
SettleHeadMoved(m) ==
    /\ At(m, "settle")
    /\ HeadMoved(Call(m))
    /\ IF RetriesUsed(task[m])
       THEN Fails(m)
       ELSE /\ task' = [task EXCEPT ![m] =
                           Reading(m, "write", task[m].req, task[m].try + 1)]
            /\ UNCHANGED answer
    /\ UNCHANGED <<flight, store, host, bookkeeping, faults>>

\* No definite answer: the identical append is sent again.
SettleUnanswered(m) ==
    /\ At(m, "settle")
    /\ Fault("lost")
    /\ flight' = flight \cup {Call(m)}
    /\ task' = [task EXCEPT ![m].sent = TRUE]
    /\ UNCHANGED <<log, store, requests, bookkeeping>>

\* The pending row stays once a request may have been sent.
KeepsPending(m) == task[m].sent

\* Faulty: a write that may have been sent is told to be refused.
AlwaysUnavailable(m) == "refused"
ExpiredAnswer(m) == IF task[m].sent THEN "unknown" ELSE "refused"

\* The settlement bound: roll back.
SettleExpires(m) ==
    /\ At(m, "settle")
    /\ Fault("timeout")
    /\ store' = IF KeepsPending(m) THEN store
                ELSE [store EXCEPT ![m] = Forgotten(@, AttemptId(task[m]))]
    /\ task' = [task EXCEPT ![m] = Release(m)]
    /\ answer' = Told(m, ExpiredAnswer(m))
    /\ UNCHANGED <<log, flight, host, bookkeeping>>

\* The SQLite commit.
Commit(m) ==
    LET s == store[m]
        r == task[m].req
        position == s.applied + 1
    IN  /\ At(m, "commit")
        /\ store' = [store EXCEPT ![m] =
               [s EXCEPT !.applied = position, !.seen = Max2(@, position),
                         !.content = Append(@, KeyOf[r]), !.keys = @ \cup {KeyOf[r]},
                         !.own = @ \cup {AttemptId(task[m])},
                         !.pending = StillPending(s, position)]]
        /\ Succeeds(m, "ok", position)
        /\ UNCHANGED <<log, flight, host, bookkeeping, faults>>

\* The client's route closes: a queued request leaves; one that holds the lock
\* ends its catch-up, or its worker rolls back and keeps the pending row.
\* A commit that was decided still happens.
Drop(r) ==
    LET m == host[r] IN
    /\ answer[r] \in Waiting
    /\ answer[r] = "active" => ~At(m, "commit")
    /\ Fault("drop")
    /\ answer' = [answer EXCEPT ![r] = "dropped"]
    /\ task' = IF answer[r] = "active" THEN [task EXCEPT ![m] = Release(m)] ELSE task
    /\ UNCHANGED <<log, flight, store, host, bookkeeping>>

\* The process restarts: only the store is left.
Crash(m) ==
    /\ Fault("crash")
    /\ task' = [task EXCEPT ![m] = IdleTask]
    /\ answer' = [r \in Requests |->
           IF host[r] = m /\ answer[r] \in Waiting THEN "lost" ELSE answer[r]]
    /\ UNCHANGED <<log, flight, store, host, bookkeeping>>

\* The machine starts over with an empty store; engram still knows its author.
StartOver(m) ==
    /\ Fault("new_store")
    /\ task' = [task EXCEPT ![m] = IdleTask]
    /\ store' = [store EXCEPT ![m] = EmptyStore]
    /\ answer' = [r \in Requests |->
           IF host[r] = m /\ answer[r] \in Waiting THEN "lost" ELSE answer[r]]
    /\ host' = [r \in Requests |-> IF host[r] = m THEN Nobody ELSE host[r]]
    /\ UNCHANGED <<log, flight, bookkeeping>>

-----------------------------------------------------------------------------
(***************************************************************************)
(* Enabling: a snapshot plan is saved before its first part is sent, and   *)
(* resumed from what the log holds until every part is confirmed, or until *)
(* another entry is found where the first part belongs.                    *)
(***************************************************************************)
PartCall(m, i) ==
    [entry |-> [id |-> [plan |-> store[m].plan, part |-> i], author |-> m,
                kind |-> "snapshot", data |-> store[m].saved,
                through |-> store[m].base],
     expect |-> store[m].base + i - 1]

\* Faulty: whatever the log holds may be superseded.
AnyPrefix(m) == TRUE
\* agent_history refuses a log that ends inside a snapshot.
WholeSnapshots == log[Len(log)].kind = "snapshot" => Completes(log[Len(log)])
\* The machine wrote every entry of the log, and they can be replayed.
OwnPrefix(m) ==
    /\ \A i \in 1..Len(log) : log[i].author = m
    /\ WholeSnapshots

\* prepare_enable_plan and begin_enable: the snapshot is saved with its base.
Planned(s, number, base) ==
    [s EXCEPT !.state = "enabling", !.plan = number, !.base = base, !.saved = s.content]

\* A disabled store reads the head: an empty store joins what is there, any
\* other plans a snapshot of itself, if it may supersede the log.
EnableHead(m) ==
    LET s == store[m]
        base == Len(log)
        joins == base > 0 /\ s.content = <<>>
        planned == ~joins /\ (base > 0 => OwnPrefix(m))
    IN  /\ At(m, "head")
        /\ store' = IF planned
                    THEN [store EXCEPT ![m] = Planned(s, task[m].after, base)] ELSE store
        /\ task' = [task EXCEPT ![m] =
               CASE joins -> Reading(m, "operator", NoRequest, 0)
                 [] planned -> [@ EXCEPT !.pc = "resume", !.after = 0]
                 [] OTHER -> Release(m)]
        /\ UNCHANGED <<log, flight, requests, bookkeeping, faults>>

\* abandon_enable: another entry has the first part's position.
Abandoned(s) == [s EXCEPT !.state = "disabled", !.plan = 0, !.base = 0, !.saved = <<>>]

\* The leading parts of the plan that the log holds.
Confirmed(m) ==
    CHOOSE k \in 0..Parts :
        /\ \A i \in 1..k : /\ store[m].base + i <= Len(log)
                           /\ log[store[m].base + i].id = PartCall(m, i).entry.id
        /\ k < Parts /\ store[m].base + k < Len(log) =>
               log[store[m].base + k + 1].id # PartCall(m, k + 1).entry.id

\* resume reads the confirmed parts; an entry of someone else after them gives
\* the plan up if it is where the first part belongs, and is an error elsewhere.
ResumeRead(m) ==
    LET k == Confirmed(m)
        blocked == k < Parts /\ store[m].base + k < Len(log)
    IN  /\ At(m, "resume")
        /\ task' = [task EXCEPT ![m] =
               IF blocked THEN Release(m) ELSE [@ EXCEPT !.pc = "parts", !.after = k]]
        /\ store' = IF blocked /\ k = 0 THEN [store EXCEPT ![m] = Abandoned(@)] ELSE store
        /\ broken' = IF blocked /\ k > 0 THEN broken \cup {m} ELSE broken
        /\ UNCHANGED <<log, flight, requests, enables, faults>>

\* A missing part is sent.
SendPart(m) ==
    LET i == task[m].after + 1
        call == PartCall(m, i)
    IN  /\ At(m, "parts") /\ i <= Parts
        /\ \/ /\ Landed(call)
              /\ task' = [task EXCEPT ![m].after = i]
              /\ UNCHANGED <<flight, store, broken, faults>>
           \/ /\ HeadMoved(call)
              /\ task' = [task EXCEPT ![m] = Release(m)]
              /\ IF i = 1
                 THEN store' = [store EXCEPT ![m] = Abandoned(@)] /\ UNCHANGED broken
                 ELSE broken' = broken \cup {m} /\ UNCHANGED store
              /\ UNCHANGED <<flight, faults>>
           \/ /\ Fault("lost")
              /\ flight' = flight \cup {call}
              /\ task' = [task EXCEPT ![m] = Release(m)]
              /\ UNCHANGED <<log, store, broken>>
        /\ UNCHANGED <<requests, enables>>

\* finish_enable
Enabled(s) ==
    [s EXCEPT !.state = "enabled", !.applied = s.base + Parts, !.seen = s.base + Parts,
              !.author = TRUE, !.plan = 0, !.base = 0, !.saved = <<>>]

\* Every part is confirmed.
FinishEnable(m) ==
    /\ At(m, "parts") /\ task[m].after = Parts
    /\ store' = [store EXCEPT ![m] = Enabled(@)]
    /\ task' = [task EXCEPT ![m] = IdleTask]
    /\ UNCHANGED <<log, flight, requests, bookkeeping, faults>>

\* A read or an append of enable fails; the state stays.
EnableFails(m) ==
    /\ task[m].pc \in {"head", "resume", "parts"}
    /\ Fault("outage")
    /\ task' = [task EXCEPT ![m] = Release(m)]
    /\ UNCHANGED <<log, flight, store, requests, bookkeeping>>

-----------------------------------------------------------------------------
WriteStep(m) ==
    \/ BeginAttempt(m) \/ NothingToShare(m) \/ SettleCommit(m) \/ SettleHeadMoved(m)
    \/ SettleUnanswered(m) \/ SettleExpires(m) \/ Commit(m)
CatchUpStep(m) ==
    \/ ReadFails(m) \/ ReadPage(m) \/ ApplyEntry(m) \/ EndPage(m)
EnableStep(m) ==
    \/ EnableHead(m) \/ ResumeRead(m) \/ SendPart(m) \/ FinishEnable(m) \/ EnableFails(m)
\* One step of the task that holds the lock.
TaskStep(m) == WriteStep(m) \/ CatchUpStep(m) \/ EnableStep(m)

Next ==
    \/ \E m \in Machines :
           TaskStep(m) \/ Background(m) \/ Enable(m) \/ Crash(m) \/ StartOver(m)
    \/ \E r \in Requests :
           TakeLock(r) \/ LockExpires(r) \/ Drop(r) \/ \E m \in Machines : Arrive(r, m)
    \/ DeliverLate

Spec == Init /\ [][Next]_vars

\* A state the machines reach by enabling one of them with an empty store and
\* joining it with the others: everyone shares, nothing was written yet.
Bootstrap(m) ==
    [i \in 1..Parts |-> [id |-> [plan |-> 1, part |-> i], author |-> m,
                         kind |-> "snapshot", data |-> <<>>, through |-> 0]]

SharingInit ==
    /\ \E m \in Machines :
         /\ log = Bootstrap(m)
         /\ store = [n \in Machines |->
                [EmptyStore EXCEPT !.state = "enabled", !.applied = Parts, !.seen = Parts,
                                   !.author = (n = m)]]
    /\ enables = 1
    /\ flight = {}
    /\ task = [m \in Machines |-> IdleTask]
    /\ answer = [r \in Requests |-> "new"]
    /\ host = [r \in Requests |-> Nobody]
    /\ broken = {} /\ faults = 0

SharingSpec == SharingInit /\ [][Next]_vars

-----------------------------------------------------------------------------
(***************************************************************************)
(* What the module is for.                                                 *)
(***************************************************************************)
IsChange(e) == e.kind = "change"

\* The shared tables that the first n entries of the log l stand for: a complete
\* snapshot replaces what was there, and each change is appended to it.
Image(l) ==
    LET image[n \in 0..Len(l)] ==
            IF n = 0 THEN <<>>
            ELSE IF Completes(l[n]) THEN l[n].data
            ELSE IF IsChange(l[n]) THEN Append(image[n - 1], Head(l[n].data))
            ELSE image[n - 1]
    IN  image

\* Machines that applied the same prefix of the log hold the same shared tables,
\* those the prefix stands for: no entry is skipped, applied twice or out of
\* order, and no change outside the log gets in, by its own writes, by catch-up,
\* by enabling or by joining (identity-log-contract.md section 4).
ReplicasAgree ==
    \A m \in Machines : store[m].state \in {"joining", "enabled"} =>
        store[m].content = Image(log)[store[m].applied]

\* An entry of this machine that may still reach the log, or did without the
\* machine having applied it, has its pending row: whatever was cut short, the
\* machine knows that a write is open (pending.rs shared_attempt).
PendingKnown ==
    \A m \in Machines :
        LET known(e) == \E p \in store[m].pending : p.id = e.id
            here(e) == e.kind = "change" /\ host[e.id.req] = m
        IN  /\ \A call \in flight :
                   here(call.entry) /\ call.expect = Len(log) => known(call.entry)
            /\ \A i \in (store[m].applied + 1)..Len(log) : here(log[i]) => known(log[i])

\* The stores are well formed, and none has forgotten a write that is still open
\* (pending_entry).
StoresOK == TypeOK /\ PendingKnown

\* A key is shared once by a machine, unless the client never learned the outcome
\* of its first use: neither a lost reply, a resend, a retry after the head moved
\* nor the same write queued twice appends it again (shared_request_cache).
OncePerKey ==
    \A i, j \in 1..Len(log) :
        LET r == log[i].id.req
            q == log[j].id.req
        IN  i < j /\ IsChange(log[i]) /\ IsChange(log[j]) =>
                /\ r # q
                /\ KeyOf[r] = KeyOf[q] /\ host[r] = host[q] /\ host[r] # Nobody =>
                       answer[r] \in {"unknown", "dropped", "lost"}

\* However enables of several machines meet, retries and late appends included,
\* the log can be read by everyone: nobody's catch-up stalls on an entry it cannot
\* apply, and no snapshot is cut in two by another entry (enable.rs resume).
LogReadable ==
    /\ \A m \in Machines : task[m].stalled # "apply"
    /\ broken = {}

\* Whoever enables, resumes, supersedes or joins, in whatever order: everyone can
\* read the log, and those who share hold the same tables (enable.rs).
EnablesMeetSafely == ReplicasAgree /\ LogReadable

\* The log with its promises to clients, as the machines see them: the writes in
\* it, what the client of each write was told, and how far each machine is.
Writes == [i \in 1..Len(log) |-> IF IsChange(log[i]) THEN log[i].id.req ELSE NoRequest]
Promise(result) ==
    CASE result \in {"new", "queued", "active"} -> "open"
      [] result = "ok" -> "ok"
      [] result \in {"unknown", "dropped", "lost"} -> "unknown"
      [] OTHER -> "closed"
Promises == [r \in Requests |-> Promise(answer[r])]
Positions == [m \in Machines |-> store[m].applied]

History ==
    INSTANCE SharedHistory WITH
        Snapshot <- NoRequest, history <- Writes, told <- Promises, view <- Positions

\* The machines implement SharedHistory: an answered write is in the log and stays
\* applied, a refused one is not and never gets there, and no write is accepted
\* twice (identity-log-contract.md section 3).
ImplementsHistory == History!Spec

-----------------------------------------------------------------------------
(***************************************************************************)
(* Fairness: the runtime runs every ready task; the tick fires every 30 s; *)
(* the writer lock is a tokio mutex, which serves its waiters in order, so *)
(* a waiter that finds it free again and again gets it.                    *)
(***************************************************************************)
Fairness ==
    /\ \A m \in Machines : WF_vars(TaskStep(m)) /\ WF_vars(Background(m))
    /\ \A r \in Requests : SF_vars(TakeLock(r))

FairSpec == Spec /\ Fairness

\* A write that queues for the writer lock ends, one way or another: a failed or
\* cancelled holder always frees it (shared_write.rs write_wait_inner).
RequestsEnd ==
    \A r \in Requests : answer[r] = "queued" ~> answer[r] \notin Waiting

\* A machine does not stay in `enabling`, where shared writes are refused: its
\* snapshot is completed or given up (enable.rs resume).
EnableEnds ==
    \A m \in Machines : store[m].state = "enabling" ~> store[m].state # "enabling"

\* Once clients and faults are done, every machine that shares reaches the end
\* of the log and leaves bootstrap (catch_up.rs background).
CatchesUp ==
    <>[](\A m \in Machines : store[m].state # "disabled" =>
            store[m].state = "enabled" /\ store[m].applied = Len(log))

\* Nobody keeps the writer lock or the state that shuts writers out: queued
\* writes end, and so do enables, and every machine gets to the end of the log
\* (shared_write.rs, enable.rs resume, catch_up.rs background).
WritesAndEnablesEnd == RequestsEnd /\ EnableEnds /\ CatchesUp

=============================================================================
