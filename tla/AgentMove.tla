------------------------------ MODULE AgentMove ------------------------------
(***************************************************************************)
(* One move (one cut) of one agent from a source machine to a receiving    *)
(* machine: the two drivers with the rows they keep in SQLite, the shared  *)
(* records they compare-and-swap, the session door, and the participants   *)
(* that hold the agent's data on each side.                                *)
(*                                                                         *)
(* A driver pass (Source::tick, Receiver::tick) reads the move record once *)
(* and then makes calls one at a time, saving its row around each of them. *)
(* One action is one call together with the saves that go with it; `pc` is *)
(* the place reached inside the pass.  A pass ends (pc = "idle") when it   *)
(* finishes, fails, or the process restarts; whatever is only in `sdrv`    *)
(* and `rdrv` is memory.                                                   *)
(*                                                                         *)
(* A call whose outcome is unknown may have reached its target, may never  *)
(* reach it, and may reach it later: it stays in flight (recq, claimq,     *)
(* inboxq, slate, rlate, doorLate) and can take effect at any later time.  *)
(***************************************************************************)
EXTENDS Naturals

CONSTANTS
    N,              \* number of modules that hold data of the agent
    FaultKinds,     \* the kinds of fault a run allows, a subset of Faults
    MaxFaults       \* bound on the number of faults of a behaviour

\* "lost": a call whose outcome is unknown; "crash": a process restart;
\* "refused": a refusal that aborts; "busy": a refusal or answer that is
\* retried; "stuck": an abort refused until an operator repairs it;
\* "violation": an answer outside the participant contract; "operator": an
\* abort request; "rival": another machine takes an unclaimed agent; "digest":
\* an import whose data does not have the digest of the plan, which costs no fault.
Faults == {"lost", "crash", "refused", "busy", "stuck", "violation",
           "operator", "rival", "digest"}

\* The participants in the order of the plan.
Participants == 1..N

ASSUME ConstantsAssumption ==
    /\ N \in Nat \ {0}
    /\ FaultKinds \subseteq Faults
    /\ MaxFaults \in Nat

VARIABLES
    rec,       \* the shared record move:<cut>
    claim,     \* the shared record claim:<agent>
    inbox,     \* the receiver's shared inbox record: does it list the cut
    recq,      \* unanswered writes of the move record, still in flight
    claimq,    \* unanswered writes of the claim, still in flight
    inboxq,    \* unanswered writes of the inbox, still in flight
    door,      \* the session door's state of the cut
    doorLate,  \* an unanswered seal is still in flight
    sdata,     \* source participants: state of the agent's data
    slate,     \* source participants with an unprocessed prepare in flight
    rdata,     \* receiver participants: state of the incoming data
    rlate,     \* receiver participants with an unprocessed import in flight
    src, sdrv, \* source row (durable) and driver memory
    rcv, rdrv, \* receiver row (durable) and driver memory
    faults     \* faults so far

shared == <<rec, claim, inbox, recq, claimq, inboxq>>
doorVars == <<door, doorLate>>
srcData == <<sdata, slate>>
rcvData == <<rdata, rlate>>
srcVars == <<src, sdrv>>
rcvVars == <<rcv, rdrv>>
vars == <<rec, claim, inbox, recq, claimq, inboxq, door, doorLate,
          sdata, slate, rdata, rlate, src, sdrv, rcv, rdrv, faults>>

RecStates == {"none", "published", "staged", "claimed", "activated",
              "released", "aborted"}
Sides == {"source", "receiver"}
Holders == {"none", "source", "receiver", "rival"}
SourceSteps == {"none", "preparing", "exported", "sealed", "published",
                "releasing", "released", "aborted"}
ReceiverSteps == {"none", "picked_up", "imported", "staged", "claimed",
                  "activating", "activated", "done", "taken_over", "aborted"}

\* (Definitions marked "Faulty" are never used by the specification: each is a
\* plausible error in the code that the properties are tested against.)

\* Faulty: the boundary one step too late.
LateBoundary == {"picked_up", "imported", "staged", "claimed", "activating"}

\* AgentMove::before_boundary, per side.
SourceBefore == {"preparing", "exported", "sealed", "published"}
ReceiverBefore == {"picked_up", "imported", "staged", "claimed"}
\* The receiver's steps from its boundary on.
Past == {"activating", "activated", "done", "taken_over"}
\* MoveStep::is_terminal.
Terminal == {"released", "aborted", "done", "taken_over"}

SourcePcs == {"idle", "prepare", "export", "reseal", "seal", "publish",
              "append", "handoff", "release", "cas_released", "settle",
              "decide", "abort_door", "abort_parts"}
ReceiverPcs == {"idle", "settle", "check", "diverged", "writers", "import",
                "bindings", "stage", "preflight", "take_read", "take",
                "cas_claimed", "fence", "activate", "cas_activated", "install", "finish",
                "takeover", "undo_settle", "undo_take", "undo_return",
                "undo_check", "undo_parts", "undo_inbox"}
SourceCalls == {"prepare", "export"} \X Participants
ReceiverCalls == {"diverged", "import", "activate", "abort"} \X Participants

DoorStates == {"none", "pending", "published", "failed", "aborted", "taken", "refuses"}
SourceData == {"live", "frozen", "exported", "released"}
ReceiverData == {"none", "staged", "active"}
RecordWrite == [expect: Nat, state: RecStates, author: Sides]
ClaimWrite == [expect: Nat, holder: Holders, epoch: Nat]
InboxCas == [expect: Nat, has: BOOLEAN]

\* The rows agent_moves keeps on either side, as far as the drivers use them,
\* and what a driver task remembers between its steps.
SourceRow ==
    [step: SourceSteps, abort: BOOLEAN, pending: SUBSET SourceCalls,
     sealSent: BOOLEAN, sealRefused: BOOLEAN, claimVer: Nat,
     aborted: SUBSET Participants, violation: BOOLEAN]
SourceMemory ==
    [pc: SourcePcs, obs: RecStates, ver: Nat, resumed: BOOLEAN,
     done: SUBSET Participants, unres: SUBSET Participants, held: BOOLEAN]
ReceiverRow ==
    [step: ReceiverSteps, abort: BOOLEAN, pending: SUBSET ReceiverCalls,
     touched: SUBSET Participants, aborted: SUBSET Participants,
     takeEpoch: Nat, takeFailed: BOOLEAN, landed: Nat, stopped: BOOLEAN,
     takeoverSent: BOOLEAN]
ReceiverMemory ==
    [pc: ReceiverPcs, obs: RecStates, ver: Nat, done: SUBSET Participants,
     unres: SUBSET Participants, held: BOOLEAN]

SharedType ==
    /\ rec \in [state: RecStates, ver: Nat, author: Sides]
    /\ claim \in [holder: Holders, epoch: Nat, ver: Nat]
    /\ inbox \in [has: BOOLEAN, ver: Nat]
    /\ recq \subseteq RecordWrite
    /\ claimq \subseteq ClaimWrite
    /\ inboxq \subseteq InboxCas

DoorType == door \in DoorStates /\ doorLate \in BOOLEAN

DataType ==
    /\ sdata \in [Participants -> SourceData] /\ slate \subseteq Participants
    /\ rdata \in [Participants -> ReceiverData] /\ rlate \subseteq Participants

\* Every variable stays in its type: in particular a row only ever holds a
\* step of its own side, and every saved call names a planned participant.
TypeOK ==
    /\ SharedType /\ DoorType /\ DataType
    /\ src \in SourceRow /\ sdrv \in SourceMemory
    /\ rcv \in ReceiverRow /\ rdrv \in ReceiverMemory
    /\ faults \in Nat

Init ==
    /\ rec = [state |-> "none", ver |-> 0, author |-> "source"]
    /\ claim \in {[holder |-> "none", epoch |-> 0, ver |-> 0],
                  [holder |-> "source", epoch |-> 1, ver |-> 1]}
    /\ inbox = [has |-> FALSE, ver |-> 0]
    /\ recq = {} /\ claimq = {} /\ inboxq = {}
    /\ door \in {"none"} \cup (IF "refused" \in FaultKinds THEN {"refuses"} ELSE {})
    /\ doorLate = FALSE
    /\ sdata = [p \in Participants |-> "live"] /\ slate = {}
    /\ rdata = [p \in Participants |-> "none"] /\ rlate = {}
    /\ src = [step |-> "none", abort |-> FALSE, pending |-> {}, sealSent |-> FALSE,
              sealRefused |-> FALSE, claimVer |-> 0, aborted |-> {},
              violation |-> FALSE]
    /\ sdrv = [pc |-> "idle", obs |-> "none", ver |-> 0, resumed |-> FALSE,
               done |-> {}, unres |-> {}, held |-> FALSE]
    /\ rcv = [step |-> "none", abort |-> FALSE, pending |-> {}, touched |-> {},
              aborted |-> {}, takeEpoch |-> 0, takeFailed |-> FALSE, landed |-> 0,
              stopped |-> FALSE, takeoverSent |-> FALSE]
    /\ rdrv = [pc |-> "idle", obs |-> "none", ver |-> 0, done |-> {},
               unres |-> {}, held |-> FALSE]
    /\ faults = 0

-----------------------------------------------------------------------------
(***************************************************************************)
(* Shared records (record.cas, record.read).  A write names the version it *)
(* replaces and is sent twice when it is not answered.  cas_settled then   *)
(* reads the record afresh: the write landed if the record shows its body  *)
(* by its author, and otherwise moved, although an unanswered write may    *)
(* still be in flight; a reading that fails or is stale ends the pass.     *)
(* For the move record, whose drivers end the pass either way, both are    *)
(* CasUnanswered.                                                          *)
(***************************************************************************)
Fault(kind) ==
    /\ kind \in FaultKinds
    /\ faults < MaxFaults
    /\ faults' = faults + 1

\* Faulty: a write that does not compare the version.
BlindCas(expect, state, author) ==
    rec' = [state |-> state, ver |-> rec.ver + 1, author |-> author]

CasLanded(expect, state, author) ==
    \/ /\ rec.ver = expect
       /\ rec' = [state |-> state, ver |-> expect + 1, author |-> author]
    \/ /\ rec.ver # expect /\ rec.state = state /\ rec.author = author
       /\ UNCHANGED rec

CasMoved(expect, state, author) ==
    /\ rec.ver # expect
    /\ ~(rec.state = state /\ rec.author = author)
    /\ UNCHANGED rec

CasUnanswered(expect, state, author) ==
    /\ Fault("lost")
    /\ recq' = recq \cup {[expect |-> expect, state |-> state, author |-> author]}

ClaimLanded(expect, holder, epoch) ==
    \/ /\ claim.ver = expect
       /\ claim' = [holder |-> holder, epoch |-> epoch, ver |-> expect + 1]
    \/ /\ claim.ver # expect /\ claim.holder = holder /\ claim.epoch = epoch
       /\ UNCHANGED claim

ClaimMoved(expect, holder, epoch) ==
    /\ claim.ver # expect
    /\ ~(claim.holder = holder /\ claim.epoch = epoch)
    /\ UNCHANGED claim

ClaimUnanswered(expect, holder, epoch) ==
    /\ Fault("lost")
    /\ claimq' = claimq \cup {[expect |-> expect, holder |-> holder, epoch |-> epoch]}
    /\ UNCHANGED claim

\* Settled as moved: the claim is at another version, or a write that was not
\* answered and may still land has not landed yet.
ClaimJudgedMoved(expect, holder, epoch) ==
    \/ ClaimMoved(expect, holder, epoch) /\ UNCHANGED <<claimq, faults>>
    \/ claim.ver = expect /\ ClaimUnanswered(expect, holder, epoch)

\* The loops of append_inbox and remove_inbox, as their last write.
InboxWrite(has) ==
    IF inbox.has = has THEN UNCHANGED inbox
    ELSE inbox' = [has |-> has, ver |-> inbox.ver + 1]

InboxUnanswered(has) ==
    /\ inbox.has # has
    /\ Fault("lost")
    /\ inboxq' = inboxq \cup {[expect |-> inbox.ver, has |-> has]}

\* A write that was never answered reaches the service late.
DeliverRecord ==
    \E c \in recq :
        /\ recq' = recq \ {c}
        /\ rec' = IF rec.ver = c.expect
                  THEN [state |-> c.state, ver |-> c.expect + 1, author |-> c.author]
                  ELSE rec
        /\ UNCHANGED <<claim, inbox, claimq, inboxq, doorVars, srcData, rcvData,
                       srcVars, rcvVars, faults>>

DeliverClaim ==
    \E c \in claimq :
        /\ claimq' = claimq \ {c}
        /\ claim' = IF claim.ver = c.expect
                    THEN [holder |-> c.holder, epoch |-> c.epoch, ver |-> c.expect + 1]
                    ELSE claim
        /\ UNCHANGED <<rec, inbox, recq, inboxq, doorVars, srcData, rcvData,
                       srcVars, rcvVars, faults>>

DeliverInbox ==
    \E c \in inboxq :
        /\ inboxq' = inboxq \ {c}
        /\ inbox' = IF inbox.ver = c.expect
                    THEN [has |-> c.has, ver |-> c.expect + 1]
                    ELSE inbox
        /\ UNCHANGED <<rec, claim, recq, claimq, doorVars, srcData, rcvData,
                       srcVars, rcvVars, faults>>

\* Another machine that also knows the still unclaimed agent takes its claim.
RivalClaim ==
    /\ claim.epoch = 0
    /\ Fault("rival")
    /\ claim' = [holder |-> "rival", epoch |-> 1, ver |-> claim.ver + 1]
    /\ UNCHANGED <<rec, inbox, recq, claimq, inboxq, doorVars, srcData, rcvData,
                   srcVars, rcvVars>>

-----------------------------------------------------------------------------
(***************************************************************************)
(* The door and the participants.  Both answer a repeated request for the  *)
(* same cut with their first reply.  A prepare or an import that was never *)
(* answered and never processed may still be processed later.              *)
(***************************************************************************)
Sealed(d) == IF d = "none" THEN "pending" ELSE d
DoorAborted(d) == IF d \in {"pending", "published", "failed"} THEN "aborted" ELSE d

DoorStep ==
    /\ \/ /\ door = "pending"
          /\ \/ door' = "published" /\ UNCHANGED faults
             \/ door' = "failed" /\ Fault("refused")
          /\ UNCHANGED doorLate
       \/ /\ doorLate
          /\ doorLate' = FALSE /\ door' = Sealed(door) /\ UNCHANGED faults
    /\ UNCHANGED <<shared, srcData, rcvData, srcVars, rcvVars>>

Frozen(d) == IF d = "live" THEN "frozen" ELSE d
Exported(d) == IF d = "frozen" THEN "exported" ELSE d
Thawed(d) == IF d \in {"frozen", "exported"} THEN "live" ELSE d

LatePrepare ==
    \E p \in slate :
        /\ slate' = slate \ {p}
        /\ sdata' = [sdata EXCEPT ![p] = Frozen(@)]
        /\ UNCHANGED <<shared, doorVars, rcvData, srcVars, rcvVars, faults>>

LateImport ==
    \E p \in rlate :
        /\ rlate' = rlate \ {p}
        /\ rdata' = [rdata EXCEPT ![p] = IF @ = "none" THEN "staged" ELSE @]
        /\ UNCHANGED <<shared, doorVars, srcData, srcVars, rcvVars, faults>>

\* An unanswered prepare is in flight unless the participant already froze.
InFlightPrepare(p) == IF sdata[p] = "live" THEN slate \cup {p} ELSE slate
\* Faulty: an unresolved cut is not reconciled before the next call.
NotReconciled(late, drv, p) == late
\* ParticipantClient::call reconciles an unresolved cut before the next call,
\* so the earlier call is no longer in flight.
Reconciled(late, drv, p) == IF p \in drv.unres THEN late \ {p} ELSE late

-----------------------------------------------------------------------------
(* Source driver *)

SIdle(d) == [d EXCEPT !.pc = "idle", !.done = {}, !.obs = "none", !.ver = 0]
SPc(d, pc) == [d EXCEPT !.pc = pc, !.done = {}]
\* A loop over the plan calls its participants in order.
Turn(p, done) == p \notin done /\ \A q \in Participants : q < p => q \in done
\* A call to p was answered, respectively was not.
Answered(d, p) == [d EXCEPT !.done = @ \cup {p}, !.unres = @ \ {p}]
Unresolved(d, p) == [d EXCEPT !.unres = @ \cup {p}]

SourceFrame == UNCHANGED <<rcvData, rcvVars>>

\* agent.move: admission pins the claim's version; a claimed agent moves only
\* from its holder.
AdmitMove ==
    /\ src.step = "none"
    /\ claim.epoch >= 1 => claim.holder = "source"
    /\ src' = [src EXCEPT !.step = "preparing", !.claimVer = claim.ver]
    /\ UNCHANGED <<shared, doorVars, srcData, sdrv, faults>> /\ SourceFrame

\* agent.move_abort on the source: recorded before the boundary only.
SourceRequestAbort ==
    /\ src.step \in SourceBefore /\ ~src.abort
    /\ Fault("operator")
    /\ src' = [src EXCEPT !.abort = TRUE]
    /\ UNCHANGED <<shared, doorVars, srcData, sdrv>> /\ SourceFrame

\* agent.move_abort on a stuck abort: the driver resumes its cleanup.
SourceRetryAbort ==
    /\ sdrv.held
    /\ sdrv' = [sdrv EXCEPT !.held = FALSE]
    /\ UNCHANGED <<shared, doorVars, srcData, src, faults>> /\ SourceFrame

SourceCrash ==
    /\ src.step \notin Terminal \cup {"none"}
    /\ Fault("crash")
    /\ sdrv' = [pc |-> "idle", obs |-> "none", ver |-> 0, resumed |-> FALSE,
                done |-> {}, unres |-> {}, held |-> FALSE]
    /\ UNCHANGED <<shared, doorVars, srcData, src>> /\ SourceFrame

\* Faulty: the record's state is copied into the row.
RowCopiesRecord(seen) ==
    IF seen \in {"aborted", "activated"}
    THEN [src EXCEPT !.step = seen, !.abort = FALSE] ELSE src
\* Faulty: an abort by the peer is not noticed.
PeerAbortIgnored(seen) ==
    IF seen = "activated" THEN [src EXCEPT !.abort = FALSE, !.step = "releasing"] ELSE src

\* The source row after a pass has read `seen` in the move record.
SourceObserved(seen) ==
    IF seen = "aborted" /\ src.step # "releasing"
      THEN [src EXCEPT !.abort = TRUE]
    ELSE IF seen = "activated"
      THEN [src EXCEPT !.abort = FALSE, !.step = "releasing"]
    ELSE IF seen \notin {"none", "published"}
      THEN [src EXCEPT !.abort = FALSE]
    ELSE src

\* Where advance starts.
SourceAdvancePc(row, seen, resumed) ==
    CASE row.step = "preparing" -> "prepare"
      [] row.step \in {"exported", "sealed"} /\ ~resumed -> "prepare"
      [] row.step = "exported" /\ resumed -> "seal"
      [] row.step = "sealed" /\ resumed -> IF seen = "none" THEN "publish" ELSE "append"
      [] row.step = "releasing" /\ seen = "activated" -> "handoff"
      [] OTHER -> "idle"

\* Faulty: cleanup thaws the participants without a shared abort.
AbortUndecided(row, seen, resumed) ==
    IF row.abort /\ row.step # "releasing" THEN "abort_parts"
    ELSE SourceAdvancePc(row, seen, resumed)

\* What the rest of the pass does: cleanup once an abort is requested, advance
\* otherwise.
SourceNextPc(row, seen, resumed) ==
    IF row.abort /\ row.step # "releasing" THEN "settle"
    ELSE SourceAdvancePc(row, seen, resumed)

SourceTick ==
    /\ sdrv.pc = "idle"
    /\ src.step \notin Terminal \cup {"none"}
    /\ LET watching == src.step \in {"sealed", "published", "releasing"}
           seen == IF watching THEN rec.state ELSE "none"
           row == SourceObserved(seen)
           stopped == row.violation \/ sdrv.held
           over == /\ seen = "released"
                   /\ \/ row.violation
                      \/ row.step \in {"published", "releasing"} /\ ~stopped
           pc == SourceNextPc(row, seen, sdrv.resumed)
       IN  /\ src' = IF over THEN [row EXCEPT !.step = "released"] ELSE row
           /\ sdrv' = IF over \/ stopped \/ pc = "idle" THEN sdrv
                      ELSE [sdrv EXCEPT !.pc = pc, !.obs = seen,
                                        !.ver = IF watching THEN rec.ver ELSE 0]
    /\ UNCHANGED <<shared, doorVars, srcData, faults>> /\ SourceFrame

\* A pass fails with something to retry: it ends, and a later pass resumes.
SourceBusy ==
    /\ sdrv.pc # "idle"
    /\ Fault("busy")
    /\ sdrv' = SIdle(sdrv)
    /\ UNCHANGED <<shared, doorVars, srcData, src>> /\ SourceFrame

\* A refusal that is not retried, before the boundary and outside cleanup,
\* requests the abort.
SourceRefused ==
    /\ sdrv.pc \in {"prepare", "export", "append"} /\ ~src.abort
    /\ Fault("refused")
    /\ src' = [src EXCEPT !.abort = TRUE,
                          !.pending = IF sdrv.pc \in {"prepare", "export"} THEN {} ELSE @]
    /\ sdrv' = SIdle(sdrv)
    /\ UNCHANGED <<shared, doorVars, srcData>> /\ SourceFrame

\* A contract violation in cleanup or release stops the move durably.
SourceViolation ==
    /\ sdrv.pc \in {"settle", "abort_parts", "release"}
    /\ sdrv.pc = "settle" => src.pending # {}
    /\ Fault("violation")
    /\ src' = [src EXCEPT !.violation = TRUE]
    /\ sdrv' = SIdle(sdrv)
    /\ UNCHANGED <<shared, doorVars, srcData>> /\ SourceFrame

\* freeze_export, first loop: the call is saved as pending, sent, and cleared
\* when answered; an abort request found by that save ends the pass.
SourcePrepare(p) ==
    /\ sdrv.pc = "prepare" /\ Turn(p, sdrv.done)
    /\ \/ /\ sdata' = [sdata EXCEPT ![p] = Frozen(@)]
          /\ slate' = slate \ {p}
          /\ src' = [src EXCEPT !.pending = {}]
          /\ LET d == Answered(sdrv, p) IN
             sdrv' = IF src.abort THEN SIdle(d)
                     ELSE IF d.done = Participants THEN SPc(d, "export") ELSE d
          /\ UNCHANGED faults
       \/ /\ Fault("lost")
          /\ src' = [src EXCEPT !.pending = {<<"prepare", p>>}]
          /\ slate' = InFlightPrepare(p)
          /\ sdrv' = SIdle(Unresolved(sdrv, p))
          /\ UNCHANGED sdata
    /\ UNCHANGED <<shared, doorVars>> /\ SourceFrame

\* freeze_export, second loop, and what follows it in advance: the first
\* pass saves `exported`; a resumed one repeats a seal that was sent.
SourceExport(p) ==
    /\ sdrv.pc = "export" /\ Turn(p, sdrv.done)
    /\ \/ /\ sdata' = [sdata EXCEPT ![p] = Exported(@)]
          /\ LET d == Answered(sdrv, p)
                 finished == d.done = Participants /\ ~src.abort
             IN /\ src' = [src EXCEPT !.pending = {},
                               !.step = IF finished /\ @ = "preparing"
                                        THEN "exported" ELSE @]
                /\ sdrv' = IF src.abort \/ (finished /\ src.step = "preparing")
                             THEN [SIdle(d) EXCEPT !.resumed = finished]
                           ELSE IF finished
                             THEN SPc(d, IF src.sealSent THEN "reseal" ELSE "seal")
                           ELSE d
          /\ UNCHANGED faults
       \/ /\ Fault("lost")
          /\ src' = [src EXCEPT !.pending = {<<"export", p>>}]
          /\ sdata' \in {sdata, [sdata EXCEPT ![p] = Exported(@)]}
          /\ sdrv' = SIdle(Unresolved(sdrv, p))
    /\ slate' = Reconciled(slate, sdrv, p)
    /\ UNCHANGED <<shared, doorVars>> /\ SourceFrame

\* The seal repeated after a restart.
SourceReseal ==
    /\ sdrv.pc = "reseal"
    /\ IF door = "refuses"
       THEN /\ src' = [src EXCEPT !.abort = TRUE,
                                  !.sealRefused = @ \/ src.step = "exported"]
            /\ sdrv' = SIdle(sdrv)
       ELSE /\ sdrv' = SPc([sdrv EXCEPT !.resumed = TRUE],
                           IF src.step = "exported" THEN "seal"
                           ELSE IF sdrv.obs = "none" THEN "publish"
                           ELSE "append")
            /\ UNCHANGED src
    /\ door' = Sealed(door)
    /\ UNCHANGED <<shared, srcData, doorLate, faults>> /\ SourceFrame

\* Step::Exported: seal_sent is saved before the seal is sent; the step
\* follows once the door reports the cut published.
SourceSeal ==
    /\ sdrv.pc = "seal"
    /\ LET sent == [src EXCEPT !.sealSent = TRUE]
       IN \/ /\ door # "refuses"
             /\ door' = Sealed(door)
             /\ src' = CASE door = "published" -> [sent EXCEPT !.step = "sealed"]
                         [] door \in {"failed", "aborted"} -> [sent EXCEPT !.abort = TRUE]
                         [] OTHER -> sent
             /\ UNCHANGED <<doorLate, faults>>
          \/ /\ door = "refuses"
             /\ src' = [sent EXCEPT !.abort = TRUE, !.sealRefused = TRUE]
             /\ UNCHANGED <<doorVars, faults>>
          \/ /\ Fault("lost")
             /\ src' = sent
             /\ doorLate' = (door = "none")
             /\ UNCHANGED door
    /\ sdrv' = [SIdle(sdrv) EXCEPT !.resumed = TRUE]
    /\ UNCHANGED <<shared, srcData>> /\ SourceFrame

\* Step::Sealed with no record: create it, unless the receiver's inbox is
\* full of other moves.
SourcePublish ==
    /\ sdrv.pc = "publish"
    /\ \/ /\ CasLanded(0, "published", "source") \/ CasMoved(0, "published", "source")
          /\ sdrv' = SPc(sdrv, "append")
          /\ UNCHANGED <<recq, src, faults>>
       \/ /\ CasUnanswered(0, "published", "source")
          /\ sdrv' = SIdle(sdrv)
          /\ UNCHANGED <<rec, src>>
       \/ /\ Fault("refused") /\ ~inbox.has
          /\ src' = [src EXCEPT !.abort = TRUE]
          /\ sdrv' = SIdle(sdrv)
          /\ UNCHANGED <<rec, recq>>
    /\ UNCHANGED <<claim, inbox, claimq, inboxq, doorVars, srcData>> /\ SourceFrame

\* append_inbox re-reads the record, and does nothing once it has left
\* `published`.
SourceAppendInbox ==
    /\ sdrv.pc = "append"
    /\ \/ /\ rec.state # "none"
          /\ IF rec.state = "published" THEN InboxWrite(TRUE) ELSE UNCHANGED inbox
          /\ src' = [src EXCEPT !.step = "published"]
          /\ UNCHANGED <<inboxq, faults>>
       \/ /\ rec.state = "published" /\ InboxUnanswered(TRUE)
          /\ UNCHANGED <<inbox, src>>
    /\ sdrv' = SIdle(sdrv)
    /\ UNCHANGED <<rec, claim, recq, claimq, doorVars, srcData>> /\ SourceFrame

\* release: the door must have handed the cut off before any participant
\* lets go of its data.
SourceHandoff ==
    /\ sdrv.pc = "handoff"
    /\ door \in {"published", "taken"} /\ claim.ver > 0
    /\ sdrv' = SPc(sdrv, "release")
    /\ UNCHANGED <<shared, doorVars, srcData, src, faults>> /\ SourceFrame

SourceRelease(p) ==
    /\ sdrv.pc = "release" /\ Turn(p, sdrv.done)
    /\ \/ /\ sdata' = [sdata EXCEPT ![p] = "released"]
          /\ LET d == Answered(sdrv, p) IN
             sdrv' = IF d.done = Participants THEN SPc(d, "cas_released") ELSE d
          /\ UNCHANGED faults
       \/ /\ Fault("lost")
          /\ sdata' \in {sdata, [sdata EXCEPT ![p] = "released"]}
          /\ sdrv' = SIdle(Unresolved(sdrv, p))
    /\ slate' = Reconciled(slate, sdrv, p)
    /\ UNCHANGED <<shared, doorVars, src>> /\ SourceFrame

SourceCasReleased ==
    /\ sdrv.pc = "cas_released"
    /\ \/ /\ CasLanded(sdrv.ver, "released", "source")
          /\ src' = [src EXCEPT !.step = "released"]
          /\ UNCHANGED <<recq, faults>>
       \/ /\ CasMoved(sdrv.ver, "released", "source")
          /\ UNCHANGED <<recq, src, faults>>
       \/ /\ CasUnanswered(sdrv.ver, "released", "source")
          /\ UNCHANGED <<rec, src>>
    /\ sdrv' = SIdle(sdrv)
    /\ UNCHANGED <<claim, inbox, claimq, inboxq, doorVars, srcData>> /\ SourceFrame

\* settle_pending: status, then the pending call again.  A refusal settles it
\* as well; only an unknown outcome keeps it pending.
SourceSettlePending ==
    /\ sdrv.pc = "settle"
    /\ \/ /\ src.pending = {}
          /\ sdrv' = SPc(sdrv, "decide")
          /\ UNCHANGED <<srcData, src, faults>>
       \/ \E p \in Participants :
          /\ src.pending \in {{<<"prepare", p>>}, {<<"export", p>>}}
          /\ slate' = slate \ {p}
          /\ \/ sdata' = [sdata EXCEPT ![p] = IF <<"prepare", p>> \in src.pending
                                              THEN Frozen(@) ELSE Exported(@)]
                /\ UNCHANGED faults
             \/ Fault("refused") /\ UNCHANGED sdata
          /\ src' = [src EXCEPT !.pending = {}]
          /\ sdrv' = [SPc(sdrv, "decide") EXCEPT !.unres = @ \ {p}]
    /\ UNCHANGED <<shared, doorVars>> /\ SourceFrame

\* cleanup with a shared record: the source may abort a `published` record,
\* follows an `aborted` one if the claim is not held elsewhere, and otherwise
\* leaves the abort to the receiver.
SourceDecide ==
    /\ sdrv.pc = "decide"
    /\ LET seen == sdrv.obs
           isShared == src.step \in {"sealed", "published"}
       IN \/ /\ isShared /\ seen = "published"
             /\ \/ /\ \/ CasLanded(sdrv.ver, "aborted", "source")
                      \/ CasMoved(sdrv.ver, "aborted", "source")
                   /\ UNCHANGED <<recq, faults>>
                \/ CasUnanswered(sdrv.ver, "aborted", "source") /\ UNCHANGED rec
             /\ sdrv' = SIdle(sdrv)
             /\ UNCHANGED src
          \/ /\ isShared /\ seen = "aborted"
             /\ sdrv' = IF claim.epoch >= 1 /\ claim.holder # "source"
                        THEN SIdle(sdrv) ELSE SPc(sdrv, "abort_door")
             /\ UNCHANGED <<rec, recq, src, faults>>
          \/ /\ isShared /\ seen \notin {"none", "published", "aborted"}
             /\ src' = [src EXCEPT !.abort = FALSE]
             /\ sdrv' = SIdle(sdrv)
             /\ UNCHANGED <<rec, recq, faults>>
          \/ /\ seen = "none"
             /\ sdrv' = IF src.step = "published" THEN SIdle(sdrv)
                        ELSE SPc(sdrv, "abort_parts")
             /\ UNCHANGED <<rec, recq, src, faults>>
    /\ UNCHANGED <<claim, inbox, claimq, inboxq, doorVars, srcData>> /\ SourceFrame

SourceAbortDoor ==
    /\ sdrv.pc = "abort_door"
    /\ \/ /\ door' = IF src.sealSent THEN DoorAborted(door) ELSE door
          /\ sdrv' = SPc(sdrv, "abort_parts")
          /\ UNCHANGED faults
       \/ /\ Fault("lost")
          /\ door' \in {door, DoorAborted(door)}
          /\ sdrv' = SIdle(sdrv)
    /\ UNCHANGED <<shared, doorLate, srcData, src>> /\ SourceFrame

\* abort_participants: each answer is saved before the next call.  An abort
\* refused until an operator repairs it pauses this driver.
SourceAbortParticipant(p) ==
    /\ sdrv.pc = "abort_parts" /\ Turn(p, src.aborted)
    /\ \/ /\ sdata' = [sdata EXCEPT ![p] = Thawed(@)]
          /\ src' = [src EXCEPT !.aborted = @ \cup {p}]
          /\ sdrv' = [sdrv EXCEPT !.unres = @ \ {p}]
          /\ UNCHANGED faults
       \/ /\ Fault("lost")
          /\ sdata' \in {sdata, [sdata EXCEPT ![p] = Thawed(@)]}
          /\ sdrv' = SIdle(Unresolved(sdrv, p))
          /\ UNCHANGED src
       \/ /\ Fault("stuck")
          /\ sdrv' = [SIdle(sdrv) EXCEPT !.held = TRUE]
          /\ UNCHANGED <<sdata, src>>
    /\ slate' = Reconciled(slate, sdrv, p)
    /\ UNCHANGED <<shared, doorVars>> /\ SourceFrame

\* The end of cleanup.  With no shared abort the cut is closed at the door
\* last: a seal that may never have arrived is repeated, then aborted.
SourceCloseDoor ==
    /\ sdrv.pc = "abort_parts" /\ src.aborted = Participants
    /\ LET over == [src EXCEPT !.step = "aborted", !.abort = FALSE]
           open == sdrv.obs # "aborted" /\ src.sealSent /\ ~src.sealRefused
       IN \/ /\ ~open \/ (door = "refuses" /\ src.step = "exported")
             /\ src' = IF open THEN [over EXCEPT !.sealRefused = TRUE] ELSE over
             /\ UNCHANGED <<door, faults>>
          \/ /\ open /\ door # "refuses"
             /\ door' = DoorAborted(Sealed(door))
             /\ src' = over
             /\ UNCHANGED faults
          \/ /\ open /\ door # "refuses" /\ Fault("lost")
             /\ door' \in {door, Sealed(door), DoorAborted(Sealed(door))}
             /\ UNCHANGED src
    /\ sdrv' = SIdle(sdrv)
    /\ UNCHANGED <<shared, doorLate, srcData>> /\ SourceFrame

SourceNext ==
    \/ SourceTick \/ SourceReseal \/ SourceSeal \/ SourcePublish
    \/ SourceAppendInbox \/ SourceHandoff \/ SourceCasReleased
    \/ SourceSettlePending \/ SourceDecide \/ SourceAbortDoor \/ SourceCloseDoor
    \/ \E p \in Participants :
          \/ SourcePrepare(p) \/ SourceExport(p)
          \/ SourceRelease(p) \/ SourceAbortParticipant(p)

SourceFault == SourceBusy \/ SourceRefused \/ SourceViolation \/ SourceCrash

-----------------------------------------------------------------------------
(* Receiver driver *)

RIdle(d) == [d EXCEPT !.pc = "idle", !.done = {}, !.obs = "none", !.ver = 0]
RPc(d, pc) == [d EXCEPT !.pc = pc, !.done = {}]
ReceiverFrame == UNCHANGED <<srcData, srcVars>>

\* A listed cut that this machine no longer needs: the row or the record is at
\* its end, or the door has no open cut for a move not yet picked up.
EntryOver ==
    \/ rcv.step \in Terminal \cup {"activated"}
    \/ rec.state \in {"none", "aborted", "released"}
    \/ /\ rcv.step = "none" /\ rec.state = "published"
       /\ door \in {"none", "aborted"}

\* poll_entry: a listed cut is removed once it is over, and picked up when its
\* record is published, the door has the cut and no row exists yet.
ReceiverPoll ==
    /\ inbox.has
    /\ \/ /\ EntryOver
          /\ \/ InboxWrite(FALSE) /\ UNCHANGED <<inboxq, faults>>
             \/ InboxUnanswered(FALSE) /\ UNCHANGED inbox
          /\ UNCHANGED rcv
       \/ /\ ~EntryOver /\ rcv.step = "none" /\ rec.state = "published"
          /\ rcv' = [rcv EXCEPT !.step = "picked_up"]
          /\ UNCHANGED <<inbox, inboxq, faults>>
    /\ UNCHANGED <<rec, claim, recq, claimq, doorVars, rcvData, rdrv>> /\ ReceiverFrame

ReceiverRequestAbort ==
    /\ rcv.step \in ReceiverBefore /\ ~rcv.abort
    /\ Fault("operator")
    /\ rcv' = [rcv EXCEPT !.abort = TRUE]
    /\ UNCHANGED <<shared, doorVars, rcvData, rdrv>> /\ ReceiverFrame

ReceiverRetryAbort ==
    /\ rdrv.held
    /\ rdrv' = [rdrv EXCEPT !.held = FALSE]
    /\ UNCHANGED <<shared, doorVars, rcvData, rcv, faults>> /\ ReceiverFrame

ReceiverCrash ==
    /\ rcv.step \notin Terminal \cup {"none"}
    /\ Fault("crash")
    /\ rdrv' = [pc |-> "idle", obs |-> "none", ver |-> 0, done |-> {},
                unres |-> {}, held |-> FALSE]
    /\ UNCHANGED <<shared, doorVars, rcvData, rcv>> /\ ReceiverFrame

\* Where advance starts.
ReceiverAdvancePc(step) ==
    CASE step = "picked_up" -> "settle"
      [] step = "imported" -> "stage"
      [] step = "staged" -> "preflight"
      [] step = "claimed" -> "fence"
      [] step = "activating" -> "settle"
      [] step = "activated" -> "finish"
      [] OTHER -> "idle"

\* Faulty: cleanup starts without settling an unanswered call.
UndoUnsettled(row) ==
    IF row.abort /\ row.step \in ReceiverBefore THEN "undo_take"
    ELSE ReceiverAdvancePc(row.step)

ReceiverNextPc(row) ==
    IF row.abort /\ row.step \in ReceiverBefore THEN "undo_settle"
    ELSE ReceiverAdvancePc(row.step)

ReceiverTick ==
    /\ rdrv.pc = "idle"
    /\ rcv.step \notin Terminal \cup {"none"}
    /\ rec.state # "none"
    /\ LET row == IF rec.state = "aborted" /\ rcv.step \in ReceiverBefore
                  THEN [rcv EXCEPT !.abort = TRUE] ELSE rcv
           stopped == rcv.stopped \/ rdrv.held
           over == ~stopped /\ rcv.step = "activated" /\ rec.state = "released"
       IN /\ rcv' = IF over THEN [row EXCEPT !.step = "done"] ELSE row
          /\ rdrv' = IF over \/ stopped THEN rdrv
                     ELSE [rdrv EXCEPT !.pc = ReceiverNextPc(row),
                                       !.obs = rec.state, !.ver = rec.ver]
    /\ UNCHANGED <<shared, doorVars, rcvData, faults>> /\ ReceiverFrame

\* A hold: the pass ends and is retried.
ReceiverHold ==
    /\ rdrv.pc # "idle"
    /\ Fault("busy")
    /\ rdrv' = RIdle(rdrv)
    /\ UNCHANGED <<shared, doorVars, rcvData, rcv>> /\ ReceiverFrame

\* A failed precondition or catalog preflight, or a local owner of an
\* incoming ref, requests the abort.
ReceiverRefused ==
    /\ rdrv.pc \in {"check", "writers", "stage", "preflight", "fence"}
    /\ Fault("refused")
    /\ rcv' = [rcv EXCEPT !.abort = TRUE]
    /\ rdrv' = RIdle(rdrv)
    /\ UNCHANGED <<shared, doorVars, rcvData>> /\ ReceiverFrame

\* An answer outside the contract, or an activation a participant refuses for
\* good, stops the row for an operator.
ReceiverStopped ==
    /\ rdrv.pc \in {"diverged", "import", "bindings", "activate", "undo_parts"}
    /\ Fault("violation")
    /\ rcv' = [rcv EXCEPT !.stopped = TRUE]
    /\ rdrv' = RIdle(rdrv)
    /\ UNCHANGED <<shared, doorVars, rcvData>> /\ ReceiverFrame

\* Faulty: after a restart the activations are taken to be complete.
ActivationsAssumed ==
    IF rdrv.pc = "undo_settle" THEN "undo_take"
    ELSE IF rcv.step = "activating"
      THEN IF rcv.pending = {} THEN "activate" ELSE "cas_activated"
    ELSE "check"

\* What follows settle_pending.
AfterSettle ==
    IF rdrv.pc = "undo_settle" THEN "undo_take"
    ELSE IF rcv.step = "activating" THEN "activate"
    ELSE "check"

\* An import the participant did not take yet is refused for its digest.
BadImport(p) == "digest" \in FaultKinds /\ rdata[p] = "none"

\* settle_pending, at the start of picked_up and activating passes and of
\* cleanup: status, then the pending call again.  An import the participant
\* refuses stays pending.
ReceiverSettlePending ==
    /\ rdrv.pc \in {"settle", "undo_settle"}
    /\ \/ /\ rcv.pending = {}
          /\ rdrv' = RPc(rdrv, AfterSettle)
          /\ UNCHANGED <<rcvData, rcv>>
       \/ \E p \in Participants, op \in {"diverged", "import", "activate", "abort"} :
          /\ rcv.pending = {<<op, p>>}
          /\ rlate' = rlate \ {p}
          /\ \/ /\ op = "import" /\ BadImport(p)
                /\ rcv' = [rcv EXCEPT !.abort = TRUE]
                /\ rdrv' = [RIdle(rdrv) EXCEPT !.unres = @ \ {p}]
                /\ UNCHANGED rdata
             \/ /\ rdata' = [rdata EXCEPT ![p] =
                       CASE op = "import" /\ @ = "none" -> "staged"
                         [] op = "activate" -> "active"
                         [] op = "abort" -> "none"
                         [] OTHER -> @]
                /\ rcv' = [rcv EXCEPT !.pending = {},
                       !.aborted = IF op = "abort" THEN @ \cup {p} ELSE @]
                /\ rdrv' = [RPc(rdrv, AfterSettle) EXCEPT !.unres = @ \ {p}]
    /\ UNCHANGED <<shared, doorVars, faults>> /\ ReceiverFrame

\* Faulty: a saved attempt to take the claim counts as taken.
AttemptCountsAsTaken ==
    IF rcv.landed > 0 \/ rcv.takeEpoch > 0 THEN "cas_claimed" ELSE "take_read"

\* take_claim resumes where its saved progress says.
TakePc ==
    IF rcv.landed > 0 THEN "cas_claimed"
    ELSE IF rcv.takeEpoch > 0 THEN "take"
    ELSE "take_read"

\* preconditions, local_writers and catalog_preflight, when they pass.
ReceiverChecks ==
    /\ \/ rdrv.pc = "check" /\ rdrv' = RPc(rdrv, "diverged")
       \/ rdrv.pc = "writers" /\ rdrv' = RPc(rdrv, "import")
       \/ rdrv.pc = "preflight" /\ rdrv' = RPc(rdrv, TakePc)
    /\ UNCHANGED <<shared, doorVars, rcvData, rcv, faults>> /\ ReceiverFrame

ReceiverDiverged(p) ==
    /\ rdrv.pc = "diverged" /\ Turn(p, rdrv.done)
    /\ LET called == [rcv EXCEPT !.touched = @ \cup {p}]
           d == Answered(rdrv, p)
       IN \/ /\ rcv' = [called EXCEPT !.pending = {}]
             /\ rdrv' = IF d.done = Participants THEN RPc(d, "writers") ELSE d
             /\ UNCHANGED faults
          \/ /\ Fault("refused")
             /\ rcv' = [called EXCEPT !.pending = {}, !.abort = TRUE]
             /\ rdrv' = RIdle(d)
          \/ /\ Fault("lost")
             /\ rcv' = [called EXCEPT !.pending = {<<"diverged", p>>}]
             /\ rdrv' = RIdle(Unresolved(rdrv, p))
    /\ rlate' = Reconciled(rlate, rdrv, p)
    /\ UNCHANGED <<shared, doorVars, rdata>> /\ ReceiverFrame

ReceiverImport(p) ==
    /\ rdrv.pc = "import" /\ Turn(p, rdrv.done)
    /\ LET d == Answered(rdrv, p)
       IN \/ /\ rdata' = [rdata EXCEPT ![p] = IF @ = "none" THEN "staged" ELSE @]
             /\ rlate' = rlate \ {p}
             /\ rcv' = [rcv EXCEPT !.pending = {}]
             /\ rdrv' = IF d.done = Participants THEN RPc(d, "bindings") ELSE d
             /\ UNCHANGED faults
          \/ /\ BadImport(p)
             /\ rcv' = [rcv EXCEPT !.pending = {}, !.abort = TRUE]
             /\ rdrv' = RIdle(d)
             /\ UNCHANGED <<rcvData, faults>>
          \/ /\ Fault("lost")
             /\ rcv' = [rcv EXCEPT !.pending = {<<"import", p>>}]
             /\ rlate' = IF rdata[p] = "none" THEN rlate \cup {p} ELSE rlate
             /\ rdrv' = RIdle(Unresolved(rdrv, p))
             /\ UNCHANGED rdata
    /\ UNCHANGED <<shared, doorVars>> /\ ReceiverFrame

ReceiverImported ==
    /\ rdrv.pc = "bindings"
    /\ rcv' = [rcv EXCEPT !.step = "imported"]
    /\ rdrv' = RIdle(rdrv)
    /\ UNCHANGED <<shared, doorVars, rcvData, faults>> /\ ReceiverFrame

\* cas_move from the state the pass observed; `next` is the row if it landed.
ReceiverCas(to, next, pc) ==
    \/ /\ CasLanded(rdrv.ver, to, "receiver")
       /\ rcv' = next
       /\ rdrv' = IF pc = "idle" THEN RIdle(rdrv) ELSE RPc(rdrv, pc)
       /\ UNCHANGED <<recq, faults>>
    \/ /\ CasMoved(rdrv.ver, to, "receiver")
       /\ rdrv' = RIdle(rdrv)
       /\ UNCHANGED <<recq, rcv, faults>>
    \/ /\ CasUnanswered(rdrv.ver, to, "receiver")
       /\ rdrv' = RIdle(rdrv)
       /\ UNCHANGED <<rec, rcv>>

ReceiverStage ==
    /\ rdrv.pc = "stage"
    /\ LET next == [rcv EXCEPT !.step = "staged"]
       IN IF rdrv.obs = "published" THEN ReceiverCas("staged", next, "idle")
          ELSE /\ rcv' = IF rdrv.obs = "staged" THEN next ELSE rcv
               /\ rdrv' = RIdle(rdrv)
               /\ UNCHANGED <<rec, recq, faults>>
    /\ UNCHANGED <<claim, inbox, claimq, inboxq, doorVars, rcvData>> /\ ReceiverFrame

\* take_claim, first half: the claim must be at the version the move pinned
\* and, when claimed, held by the source; the attempt is saved before it is
\* sent.
ReceiverTakeRead ==
    /\ rdrv.pc = "take_read"
    /\ IF claim.ver # src.claimVer \/ (claim.epoch >= 1 /\ claim.holder # "source")
       THEN /\ rcv' = [rcv EXCEPT !.abort = TRUE, !.takeFailed = TRUE]
            /\ rdrv' = RIdle(rdrv)
       ELSE /\ rcv' = [rcv EXCEPT !.takeEpoch = claim.epoch + 1]
            /\ rdrv' = RPc(rdrv, "take")
    /\ UNCHANGED <<shared, doorVars, rcvData, faults>> /\ ReceiverFrame

\* take_claim, second half, and its repetition by cleanup when an attempt was
\* saved and never landed: a take judged moved away from this machine aborts the
\* move, and cleanup goes on after it.
ReceiverTake ==
    /\ rdrv.pc \in {"take", "undo_take"}
    /\ LET undo == rdrv.pc = "undo_take"
           settled == rcv.takeEpoch = 0 \/ rcv.landed > 0
       IN \/ /\ undo /\ settled
             /\ rdrv' = RPc(rdrv, "undo_return")
             /\ UNCHANGED <<claim, claimq, rcv, faults>>
          \/ /\ ~(undo /\ settled)
             /\ \/ /\ ClaimLanded(src.claimVer, "receiver", rcv.takeEpoch)
                   /\ rcv' = [rcv EXCEPT !.landed = claim'.ver]
                   /\ rdrv' = RPc(rdrv, IF undo THEN "undo_return" ELSE "cas_claimed")
                   /\ UNCHANGED <<claimq, faults>>
                \/ /\ ClaimJudgedMoved(src.claimVer, "receiver", rcv.takeEpoch)
                   /\ LET lost == claim.holder # "receiver" IN
                      /\ rcv' = [rcv EXCEPT !.abort = @ \/ lost,
                                            !.takeFailed = @ \/ lost]
                      /\ rdrv' = IF undo /\ lost
                                 THEN RPc(rdrv, "undo_return") ELSE RIdle(rdrv)
                \/ /\ ClaimUnanswered(src.claimVer, "receiver", rcv.takeEpoch)
                   /\ rdrv' = RIdle(rdrv)
                   /\ UNCHANGED rcv
    /\ UNCHANGED <<rec, inbox, recq, inboxq, doorVars, rcvData>> /\ ReceiverFrame

ReceiverCasClaimed ==
    /\ rdrv.pc = "cas_claimed"
    /\ LET next == [rcv EXCEPT !.step = "claimed"]
       IN IF rdrv.obs = "claimed"
          THEN /\ rcv' = next
               /\ rdrv' = RIdle(rdrv)
               /\ UNCHANGED <<rec, recq, faults>>
          ELSE ReceiverCas("claimed", next, "idle")
    /\ UNCHANGED <<claim, inbox, claimq, inboxq, doorVars, rcvData>> /\ ReceiverFrame

\* Faulty: the boundary is saved without looking at the abort request.
FenceWithoutCheck ==
    /\ rdrv.pc = "fence"
    /\ rcv' = [rcv EXCEPT !.step = "activating"]
    /\ rdrv' = RIdle(rdrv)
    /\ UNCHANGED <<shared, doorVars, rcvData, faults>> /\ ReceiverFrame

\* Step::Claimed, and checkpoint_agent_move: one transaction decides between
\* the boundary and an abort that was requested since the pass began.
ReceiverFence ==
    /\ rdrv.pc = "fence"
    /\ rcv' = IF rcv.abort THEN rcv ELSE [rcv EXCEPT !.step = "activating"]
    /\ rdrv' = RIdle(rdrv)
    /\ UNCHANGED <<shared, doorVars, rcvData, faults>> /\ ReceiverFrame

ReceiverActivate(p) ==
    /\ rdrv.pc = "activate" /\ Turn(p, rdrv.done)
    /\ \/ /\ rdata' = [rdata EXCEPT ![p] = "active"]
          /\ rcv' = [rcv EXCEPT !.pending = {}]
          /\ LET d == Answered(rdrv, p) IN
             rdrv' = IF d.done = Participants THEN RPc(d, "cas_activated") ELSE d
          /\ UNCHANGED faults
       \/ /\ Fault("lost")
          /\ rdata' \in {rdata, [rdata EXCEPT ![p] = "active"]}
          /\ rcv' = [rcv EXCEPT !.pending = {<<"activate", p>>}]
          /\ rdrv' = RIdle(Unresolved(rdrv, p))
    /\ rlate' = Reconciled(rlate, rdrv, p)
    /\ UNCHANGED <<shared, doorVars>> /\ ReceiverFrame

ReceiverCasActivated ==
    /\ rdrv.pc = "cas_activated"
    /\ IF rdrv.obs = "claimed" THEN ReceiverCas("activated", rcv, "install")
       ELSE /\ rdrv' = IF rdrv.obs \in {"activated", "released"}
                       THEN RPc(rdrv, "install") ELSE RIdle(rdrv)
            /\ UNCHANGED <<rec, recq, rcv, faults>>
    /\ UNCHANGED <<claim, inbox, claimq, inboxq, doorVars, rcvData>> /\ ReceiverFrame

\* activate_agent_move_carrying, then the inbox entry goes.
ReceiverInstall ==
    /\ rdrv.pc = "install"
    /\ rcv' = [rcv EXCEPT !.step = "activated"]
    /\ rdrv' = RPc(rdrv, "finish")
    /\ UNCHANGED <<shared, doorVars, rcvData, faults>> /\ ReceiverFrame

\* Step::Activated; `takeover` is the pass that finds the source silent for
\* ten minutes.
ReceiverFinish ==
    /\ rdrv.pc = "finish"
    /\ \/ /\ InboxWrite(FALSE)
          /\ \/ rdrv' = RIdle(rdrv)
             \/ rdrv' = RPc(rdrv, "takeover")
          /\ UNCHANGED <<inboxq, faults>>
       \/ /\ InboxUnanswered(FALSE)
          /\ rdrv' = RIdle(rdrv)
          /\ UNCHANGED inbox
    /\ UNCHANGED <<rec, claim, recq, claimq, doorVars, rcvData, rcv>> /\ ReceiverFrame

ReceiverTakeover ==
    /\ rdrv.pc = "takeover"
    /\ \/ /\ door' = IF door = "published" THEN "taken" ELSE door
          /\ rcv' = [rcv EXCEPT !.takeoverSent = TRUE, !.step = "taken_over"]
          /\ UNCHANGED faults
       \/ /\ Fault("lost")
          /\ rcv' = [rcv EXCEPT !.takeoverSent = TRUE]
          /\ door' \in {door, IF door = "published" THEN "taken" ELSE door}
    /\ rdrv' = RIdle(rdrv)
    /\ UNCHANGED <<shared, doorLate, rcvData>> /\ ReceiverFrame

\* return_claim: the claim goes back to the source under the version the take
\* produced.
ReceiverReturnClaim ==
    /\ rdrv.pc = "undo_return"
    /\ LET back == rcv.takeEpoch + 1
       IN \/ /\ rcv.landed = 0
             /\ rdrv' = RPc(rdrv, "undo_check")
             /\ UNCHANGED <<claim, claimq, faults>>
          \/ /\ rcv.landed > 0
             /\ \/ /\ ClaimLanded(rcv.landed, "source", back)
                   /\ rdrv' = RPc(rdrv, "undo_check")
                   /\ UNCHANGED <<claimq, faults>>
                \/ /\ ClaimJudgedMoved(rcv.landed, "source", back)
                   /\ rdrv' = IF claim.holder = "source"
                              THEN RPc(rdrv, "undo_check") ELSE RIdle(rdrv)
                \/ /\ ClaimUnanswered(rcv.landed, "source", back)
                   /\ rdrv' = RIdle(rdrv)
    /\ UNCHANGED <<rec, inbox, recq, inboxq, doorVars, rcvData, rcv>> /\ ReceiverFrame

\* cleanup goes on only once the claim is not held here.
ReceiverUndoCheck ==
    /\ rdrv.pc = "undo_check"
    /\ rdrv' = IF claim.holder = "receiver" THEN RIdle(rdrv) ELSE RPc(rdrv, "undo_parts")
    /\ UNCHANGED <<shared, doorVars, rcvData, rcv, faults>> /\ ReceiverFrame

ReceiverAbortParticipant(p) ==
    /\ rdrv.pc = "undo_parts"
    /\ Turn(p, rcv.aborted \cup {q \in Participants : q < p /\ q \notin rcv.touched})
    /\ \/ /\ rdata' = [rdata EXCEPT ![p] = "none"]
          /\ rcv' = [rcv EXCEPT !.pending = {}, !.aborted = @ \cup {p}]
          /\ rdrv' = [rdrv EXCEPT !.unres = @ \ {p}]
          /\ UNCHANGED faults
       \/ /\ Fault("lost")
          /\ rdata' \in {rdata, [rdata EXCEPT ![p] = "none"]}
          /\ rcv' = [rcv EXCEPT !.pending = {<<"abort", p>>}]
          /\ rdrv' = RIdle(Unresolved(rdrv, p))
       \/ /\ Fault("stuck")
          /\ rcv' = [rcv EXCEPT !.pending = {<<"abort", p>>}]
          /\ rdrv' = [RIdle(rdrv) EXCEPT !.held = TRUE]
          /\ UNCHANGED rdata
    /\ rlate' = Reconciled(rlate, rdrv, p)
    /\ UNCHANGED <<shared, doorVars>> /\ ReceiverFrame

\* The shared abort is written only after every participant was undone; one
\* that was never called may be skipped.
ReceiverUndoRecord ==
    /\ rdrv.pc = "undo_parts" /\ rcv.touched \subseteq rcv.aborted
    /\ \/ /\ rec.state = "aborted"
          /\ rdrv' = RPc(rdrv, "undo_inbox")
          /\ UNCHANGED <<rec, recq, faults>>
       \/ /\ rec.state \in {"published", "staged", "claimed"}
          /\ \/ /\ CasLanded(rec.ver, "aborted", "receiver")
                /\ rdrv' = RPc(rdrv, "undo_inbox")
                /\ UNCHANGED <<recq, faults>>
             \/ /\ CasUnanswered(rec.ver, "aborted", "receiver")
                /\ rdrv' = RIdle(rdrv)
                /\ UNCHANGED rec
    /\ UNCHANGED <<claim, inbox, claimq, inboxq, doorVars, rcvData, rcv>> /\ ReceiverFrame

ReceiverAborted ==
    /\ rdrv.pc = "undo_inbox"
    /\ \/ /\ InboxWrite(FALSE)
          /\ rcv' = [rcv EXCEPT !.step = "aborted"]
          /\ UNCHANGED <<inboxq, faults>>
       \/ /\ InboxUnanswered(FALSE)
          /\ UNCHANGED <<inbox, rcv>>
    /\ rdrv' = RIdle(rdrv)
    /\ UNCHANGED <<rec, claim, recq, claimq, doorVars, rcvData>> /\ ReceiverFrame

ReceiverNext ==
    \/ ReceiverTick \/ ReceiverSettlePending \/ ReceiverChecks
    \/ ReceiverImported \/ ReceiverStage \/ ReceiverTakeRead \/ ReceiverTake
    \/ ReceiverCasClaimed \/ ReceiverFence \/ ReceiverCasActivated
    \/ ReceiverInstall \/ ReceiverFinish \/ ReceiverTakeover
    \/ ReceiverReturnClaim \/ ReceiverUndoCheck \/ ReceiverUndoRecord
    \/ ReceiverAborted
    \/ \E p \in Participants :
          \/ ReceiverDiverged(p) \/ ReceiverImport(p)
          \/ ReceiverActivate(p) \/ ReceiverAbortParticipant(p)

ReceiverFault == ReceiverHold \/ ReceiverRefused \/ ReceiverStopped \/ ReceiverCrash

Environment ==
    \/ DeliverRecord \/ DeliverClaim \/ DeliverInbox \/ RivalClaim
    \/ DoorStep \/ LatePrepare \/ LateImport

Operator ==
    \/ AdmitMove \/ SourceRequestAbort \/ ReceiverRequestAbort
    \/ SourceRetryAbort \/ ReceiverRetryAbort

Next ==
    \/ SourceNext \/ SourceFault \/ ReceiverPoll \/ ReceiverNext \/ ReceiverFault
    \/ Environment \/ Operator

Spec == Init /\ [][Next]_vars

-----------------------------------------------------------------------------
(* Safety *)

\* The agent's data is never writable on both machines: once any participant
\* of the receiver is active, no participant of the source is thawed, whatever
\* was lost, repeated or delivered late on the way.
NeverBothLive ==
    \A p, q \in Participants : ~(rdata[p] = "active" /\ sdata[q] = "live")

\* The receiver has settled a take of the claim as moved away from it, which
\* cas_settled also does while an unanswered take may still land; a later pass of
\* cleanup may repeat the take.
GivenUp == rcv.takeEpoch > 0 /\ rcv.takeFailed

\* What the contract says of a lost reply: however the take of the claim is lost
\* and repeated, a source that has given up the move does not leave the claim
\* stranded at the receiver.
ClaimNeverStranded == src.step = "aborted" => claim.holder # "receiver"

\* Data and claim agree: a receiver participant is active only while the claim
\* is the receiver's, and a source that has given up the move with a shared
\* record does not find the claim at the receiver, unless the receiver took a
\* take still in flight for one that had moved (GivenUp).
ClaimFollowsData ==
    /\ (\E p \in Participants : rdata[p] = "active") => claim.holder = "receiver"
    /\ GivenUp \/ ClaimNeverStranded

\* The source lets go of a participant's data only after every participant of
\* the receiver is active and the record says so.
ReleaseAfterActivation ==
    (\E p \in Participants : sdata[p] = "released") =>
        /\ rec.state \in {"activated", "released"}
        /\ \A p \in Participants : rdata[p] = "active"

\* A receiver that finished aborting holds nothing of the move: no staged data,
\* no import that could still stage some and, unless its only takes were settled as
\* moved (GivenUp), no claim and no write in flight that could still take it.
AbortedReceiverIsClean ==
    rcv.step = "aborted" =>
        /\ rec.state = "aborted"
        /\ \A p \in Participants : rdata[p] = "none"
        /\ rlate = {}
        /\ \/ GivenUp /\ rcv.landed = 0
           \/ /\ claim.holder # "receiver"
              /\ \A c \in claimq : c.holder = "receiver" => c.expect # claim.ver

\* The door keeps no open cut for a move its source has aborted.
AbortedCutIsClosed ==
    src.step = "aborted" => door \in {"none", "aborted", "refuses"}

\* The claim is written at most twice for one move: taken once, returned once.
ClaimMovesOnce ==
    src.step # "none" /\ claim.holder # "rival" => claim.ver <= src.claimVer + 2

\* The agent lives exactly once: never on both machines, and the source gives
\* its data up only when every participant of the receiver runs with it.
LivesOnce == NeverBothLive /\ ReleaseAfterActivation

\* The claim goes with the data, and goes once, however often its write is
\* repeated.
ClaimFollowsMove == ClaimFollowsData /\ ClaimMovesOnce

\* A move that was aborted leaves nothing behind: no staged data on the receiver
\* when the source thaws, no claim either unless its take was settled as moved
\* (GivenUp), no sealed cut at the door.
AbortLeavesNothing == AbortedReceiverIsClean /\ AbortedCutIsClosed

\* A thawed source of a finished abort stays thawed: no participant is frozen
\* and no prepare is in flight that could freeze it again.
AbortedSourceIsThawed ==
    src.step = "aborted" => slate = {} /\ \A p \in Participants : sdata[p] = "live"

(***************************************************************************)
(* What the protocol promises, with the machinery left out: MoveDecision.  *)
(* The move is decided once, at the receiver's boundary or when an abort   *)
(* can no longer be overtaken: it is in the shared record, or the source   *)
(* gave up before the receiver could hear of the cut.                      *)
(***************************************************************************)
Withdrawn ==
    /\ src.abort
    /\ inbox.ver = 0 /\ inboxq = {}
    /\ sdrv.pc \notin {"reseal", "publish", "append"}

Decided ==
    IF rcv.step \in Past THEN "commit"
    ELSE IF rec.state = "aborted" \/ src.step = "aborted" \/ Withdrawn THEN "abort"
    ELSE "open"

SourceAgent ==
    IF \E p \in Participants : sdata[p] = "released" THEN "gone"
    ELSE IF \A p \in Participants : sdata[p] = "live" THEN "running"
    ELSE "paused"

ReceiverAgent ==
    IF \E p \in Participants : rdata[p] = "active" THEN "running" ELSE "absent"

Abstract == INSTANCE MoveDecision WITH
    decision <- Decided, home <- SourceAgent, away <- ReceiverAgent

\* Every step of the two drivers, the shared records and the participants is
\* a step of MoveDecision or leaves its state alone.
ImplementsDecision == Abstract!Spec

(* Action properties *)

\* check_transition as a relation.
Transitions ==
    {<<"none", "published">>, <<"published", "staged">>, <<"staged", "claimed">>,
     <<"claimed", "activated">>, <<"activated", "released">>,
     <<"published", "aborted">>, <<"staged", "aborted">>, <<"claimed", "aborted">>}

\* The shared record only ever follows the contract's transitions, also when
\* writes arrive late or twice.
RecordFollowsContract ==
    [][rec'.state # rec.state => <<rec.state, rec'.state>> \in Transitions]_rec

\* From the receiver's boundary on nothing undoes the move: the row never
\* leaves the later steps and the record is never aborted.
BoundaryIsFinal ==
    [][rcv.step \in Past => rcv'.step \in Past /\ rec'.state # "aborted"]_<<rcv, rec>>

-----------------------------------------------------------------------------
(***************************************************************************)
(* Why the record follows the contract and the boundary is final: the      *)
(* inductive invariant behind both, in four parts.                         *)
(***************************************************************************)

\* A state of the move record is reached by a fixed number of writes.
Versions(state) ==
    CASE state = "none" -> {0}
      [] state = "published" -> {1}
      [] state = "staged" -> {2}
      [] state = "claimed" -> {3}
      [] state = "activated" -> {4}
      [] state = "released" -> {5}
      [] state = "aborted" -> {2, 3, 4}

\* The record's version fits its state; it is activated only past the boundary
\* and aborted by the receiver, or after `published`, only with its own abort.
RecordInv ==
    /\ rec.ver \in Versions(rec.state)
    /\ rec.state \in {"activated", "released"} => rcv.step \in Past
    /\ rec.state = "aborted" /\ (rec.ver > 2 \/ rec.author = "receiver") => rcv.abort

\* What a write in flight would do if it landed now.
WriteInv ==
    \A c \in recq :
        /\ c.expect <= rec.ver
        /\ rec.ver = c.expect => <<rec.state, c.state>> \in Transitions
        /\ c.state = "aborted" => IF c.author = "source" THEN c.expect = 1 ELSE rcv.abort
        /\ c.state \in {"activated", "released"} => rcv.step \in Past

\* A driver's reading of the record is its present state or an earlier version.
Reading(d) ==
    /\ d.ver \in Versions(d.obs)
    /\ d.ver <= rec.ver
    /\ d.ver = rec.ver => d.obs = rec.state

SourceInv ==
    /\ Reading(sdrv)
    /\ sdrv.pc \in {"handoff", "release", "cas_released"} => sdrv.obs = "activated"
    /\ sdrv.obs = "activated" => rcv.step \in Past

Importing == {"check", "diverged", "writers", "import", "bindings"}
Claiming == {"preflight", "take_read", "take", "cas_claimed"}
Undoing == {"undo_settle", "undo_take", "undo_return", "undo_check", "undo_parts",
            "undo_inbox"}

\* The place reached in a receiver pass fits the row.
PlaceInv ==
    /\ rdrv.pc \in Importing => rcv.step = "picked_up" /\ rcv.pending = {}
    /\ rdrv.pc = "settle" => rcv.step \in {"picked_up", "activating"}
    /\ rdrv.pc = "stage" => rcv.step = "imported"
    /\ rdrv.pc \in Claiming => rcv.step = "staged" /\ rdrv.obs \in {"staged", "claimed"}
    /\ rdrv.pc = "fence" => rcv.step = "claimed"
    /\ rdrv.pc \in {"activate", "cas_activated", "install"} => rcv.step = "activating"
    /\ rdrv.pc \in {"finish", "takeover"} => rcv.step = "activated"
    /\ rdrv.pc \in Undoing => rcv.step \in ReceiverBefore /\ rcv.abort

\* The row fits the record, and past the boundary it carries no abort and no
\* import to repeat.
RowInv ==
    /\ rcv.step = "staged" => rec.ver >= 2
    /\ rcv.step \in Past \cup {"claimed"} => rec.ver >= 3
    /\ rcv.step \in Past => ~rcv.abort
    /\ (\E p \in Participants : <<"import", p>> \in rcv.pending) =>
           rcv.step \in {"picked_up", "aborted"}

ReceiverInv == Reading(rdrv) /\ PlaceInv /\ RowInv

\* Together: every reading and every write in flight fits the record, and the
\* receiver's row fits all three.
BoundaryInv == RecordInv /\ WriteInv /\ SourceInv /\ ReceiverInv

-----------------------------------------------------------------------------
(* Liveness *)

\* The driver tasks run forever (each pass is followed by another after a
\* bounded delay), the inbox is polled periodically, and the door publishes a
\* sealed cut or says that it failed.  Faults are finite by MaxFaults.
Fairness ==
    /\ WF_vars(SourceNext)
    /\ WF_vars(ReceiverNext)
    /\ WF_vars(ReceiverPoll)
    /\ WF_vars(DoorStep)

FairSpec == Spec /\ Fairness

\* An admitted move ends, and both machines end it the same way: released at
\* the source and done or taken over at the receiver, or aborted at the source
\* and aborted or never picked up at the receiver.  A source whose claim came to
\* a receiver that had settled its take as moved (GivenUp) waits for its return.
MoveEnds ==
    src.step = "preparing" ~>
        \/ src.step = "released" /\ rcv.step \in {"done", "taken_over"}
        \/ src.step = "aborted" /\ rcv.step \in {"none", "aborted"}
        \/ GivenUp /\ rcv.landed = 0 /\ rcv.step = "aborted" /\ claim.holder = "receiver"

\* A requested abort of the receiver's side ends it.
ReceiverAbortEnds == rcv.abort ~> rcv.step = "aborted"

\* A cut that is over does not stay in the receiver's inbox.
InboxDrains == src.step \in Terminal /\ inbox.has ~> ~inbox.has

\* Every admitted move comes to the same end on both machines, a requested abort
\* on the receiver is carried out, and the inbox forgets a cut that is over.
MovesAndAbortsEnd == MoveEnds /\ ReceiverAbortEnds /\ InboxDrains

=============================================================================
