--------------------------- MODULE AgentMoveProofs ---------------------------
(***************************************************************************)
(* Four parts, each resting on the one before, for every plan and every    *)
(* number of faults.  AgentMove keeps its types.  The move record follows  *)
(* the contract and the receiver's boundary is final: BoundaryInv is       *)
(* inductive, and both properties follow from it step by step.  The agent  *)
(* lives once: its data is never writable on both machines and the source  *)
(* lets go of it only when the receiver runs with all of it.  That         *)
(* argument adds to BoundaryInv what the receiver can know of the cut      *)
(* (LifeInv); the same invariant shows that every step is a step of        *)
(* MoveDecision.  Last, the claim follows the data and moves once, and an  *)
(* aborted move leaves nothing behind: AbortInv adds to LifeInv how far    *)
(* the claim can have moved, what cleanup on the receiver has undone, and  *)
(* what the door knows of the cut.                                         *)
(***************************************************************************)
EXTENDS AgentMove, TLAPS

\* Every update the source driver makes to its memory stays in its type.
LEMMA SourceMemoryType ==
    ASSUME NEW d \in SourceMemory
    PROVE  /\ SIdle(d) \in SourceMemory
           /\ \A pc \in SourcePcs : SPc(d, pc) \in SourceMemory
           /\ \A p \in Participants : Answered(d, p) \in SourceMemory
           /\ \A p \in Participants : Unresolved(d, p) \in SourceMemory
           /\ \A p \in Participants : [d EXCEPT !.unres = @ \ {p}] \in SourceMemory
           /\ \A b \in BOOLEAN : [d EXCEPT !.held = b] \in SourceMemory
           /\ \A b \in BOOLEAN : [d EXCEPT !.resumed = b] \in SourceMemory
  <1>1. SIdle(d) \in SourceMemory
    BY DEF SourceMemory, SIdle, SourcePcs, RecStates
  <1>2. \A pc \in SourcePcs : SPc(d, pc) \in SourceMemory
    BY DEF SourceMemory, SPc
  <1>3. \A p \in Participants : Answered(d, p) \in SourceMemory
    BY DEF SourceMemory, Answered
  <1>4. \A p \in Participants : Unresolved(d, p) \in SourceMemory
    BY DEF SourceMemory, Unresolved
  <1>5. \A p \in Participants : [d EXCEPT !.unres = @ \ {p}] \in SourceMemory
    BY DEF SourceMemory
  <1>6. \A b \in BOOLEAN : [d EXCEPT !.held = b] \in SourceMemory
    BY DEF SourceMemory
  <1>7. \A b \in BOOLEAN : [d EXCEPT !.resumed = b] \in SourceMemory
    BY DEF SourceMemory
  <1> QED  BY <1>1, <1>2, <1>3, <1>4, <1>5, <1>6, <1>7

\* The same for the receiver driver.
LEMMA ReceiverMemoryType ==
    ASSUME NEW d \in ReceiverMemory
    PROVE  /\ RIdle(d) \in ReceiverMemory
           /\ \A pc \in ReceiverPcs : RPc(d, pc) \in ReceiverMemory
           /\ \A p \in Participants : Answered(d, p) \in ReceiverMemory
           /\ \A p \in Participants : Unresolved(d, p) \in ReceiverMemory
           /\ \A p \in Participants : [d EXCEPT !.unres = @ \ {p}] \in ReceiverMemory
           /\ \A b \in BOOLEAN : [d EXCEPT !.held = b] \in ReceiverMemory
  <1>1. RIdle(d) \in ReceiverMemory
    BY DEF ReceiverMemory, RIdle, ReceiverPcs, RecStates
  <1>2. \A pc \in ReceiverPcs : RPc(d, pc) \in ReceiverMemory
    BY DEF ReceiverMemory, RPc
  <1>3. \A p \in Participants : Answered(d, p) \in ReceiverMemory
    BY DEF ReceiverMemory, Answered
  <1>4. \A p \in Participants : Unresolved(d, p) \in ReceiverMemory
    BY DEF ReceiverMemory, Unresolved
  <1>5. \A p \in Participants : [d EXCEPT !.unres = @ \ {p}] \in ReceiverMemory
    BY DEF ReceiverMemory
  <1>6. \A b \in BOOLEAN : [d EXCEPT !.held = b] \in ReceiverMemory
    BY DEF ReceiverMemory
  <1> QED  BY <1>1, <1>2, <1>3, <1>4, <1>5, <1>6

\* Every single-field update of the source's saved row stays in its type.
LEMMA SourceRowType ==
    ASSUME NEW r \in SourceRow
    PROVE  /\ \A s \in SourceSteps : [r EXCEPT !.step = s] \in SourceRow
           /\ \A b \in BOOLEAN : [r EXCEPT !.abort = b] \in SourceRow
           /\ [r EXCEPT !.pending = {}] \in SourceRow
           /\ \A c \in SourceCalls : [r EXCEPT !.pending = {c}] \in SourceRow
           /\ [r EXCEPT !.sealSent = TRUE] \in SourceRow
           /\ [r EXCEPT !.sealRefused = TRUE] \in SourceRow
           /\ [r EXCEPT !.violation = TRUE] \in SourceRow
           /\ \A p \in Participants : [r EXCEPT !.aborted = @ \cup {p}] \in SourceRow
  <1>1. \A s \in SourceSteps : [r EXCEPT !.step = s] \in SourceRow
    BY DEF SourceRow
  <1>2. \A b \in BOOLEAN : [r EXCEPT !.abort = b] \in SourceRow
    BY DEF SourceRow
  <1>3. [r EXCEPT !.pending = {}] \in SourceRow
    BY DEF SourceRow
  <1>4. \A c \in SourceCalls : [r EXCEPT !.pending = {c}] \in SourceRow
    BY DEF SourceRow
  <1>5. [r EXCEPT !.sealSent = TRUE] \in SourceRow
    BY DEF SourceRow
  <1>6. [r EXCEPT !.sealRefused = TRUE] \in SourceRow
    BY DEF SourceRow
  <1>7. [r EXCEPT !.violation = TRUE] \in SourceRow
    BY DEF SourceRow
  <1>8. \A p \in Participants : [r EXCEPT !.aborted = @ \cup {p}] \in SourceRow
    BY DEF SourceRow
  <1> QED  BY <1>1, <1>2, <1>3, <1>4, <1>5, <1>6, <1>7, <1>8

\* The same for the receiver's saved row.
LEMMA ReceiverRowType ==
    ASSUME NEW r \in ReceiverRow
    PROVE  /\ \A s \in ReceiverSteps : [r EXCEPT !.step = s] \in ReceiverRow
           /\ [r EXCEPT !.abort = TRUE] \in ReceiverRow
           /\ [r EXCEPT !.abort = TRUE, !.takeFailed = TRUE] \in ReceiverRow
           /\ [r EXCEPT !.pending = {}] \in ReceiverRow
           /\ \A c \in ReceiverCalls : [r EXCEPT !.pending = {c}] \in ReceiverRow
           /\ \A p \in Participants : [r EXCEPT !.touched = @ \cup {p}] \in ReceiverRow
           /\ \A p \in Participants :
                [r EXCEPT !.pending = {}, !.aborted = @ \cup {p}] \in ReceiverRow
           /\ \A e \in Nat : [r EXCEPT !.takeEpoch = e] \in ReceiverRow
           /\ \A e \in Nat : [r EXCEPT !.landed = e] \in ReceiverRow
           /\ [r EXCEPT !.stopped = TRUE] \in ReceiverRow
           /\ [r EXCEPT !.takeoverSent = TRUE] \in ReceiverRow
  <1>1. \A s \in ReceiverSteps : [r EXCEPT !.step = s] \in ReceiverRow
    BY DEF ReceiverRow
  <1>2. /\ [r EXCEPT !.abort = TRUE] \in ReceiverRow
        /\ [r EXCEPT !.abort = TRUE, !.takeFailed = TRUE] \in ReceiverRow
    BY DEF ReceiverRow
  <1>3. [r EXCEPT !.pending = {}] \in ReceiverRow
    BY DEF ReceiverRow
  <1>4. \A c \in ReceiverCalls : [r EXCEPT !.pending = {c}] \in ReceiverRow
    BY DEF ReceiverRow
  <1>5. \A p \in Participants : [r EXCEPT !.touched = @ \cup {p}] \in ReceiverRow
    BY DEF ReceiverRow
  <1>6. \A p \in Participants :
           [r EXCEPT !.pending = {}, !.aborted = @ \cup {p}] \in ReceiverRow
    BY DEF ReceiverRow
  <1>7. \A e \in Nat : [r EXCEPT !.takeEpoch = e] \in ReceiverRow
    BY DEF ReceiverRow
  <1>8. \A e \in Nat : [r EXCEPT !.landed = e] \in ReceiverRow
    BY DEF ReceiverRow
  <1>9. [r EXCEPT !.stopped = TRUE] \in ReceiverRow
    BY DEF ReceiverRow
  <1>10. [r EXCEPT !.takeoverSent = TRUE] \in ReceiverRow
    BY DEF ReceiverRow
  <1> QED  BY <1>1, <1>2, <1>3, <1>4, <1>5, <1>6, <1>7, <1>8, <1>9, <1>10

\* What an answered and an unanswered write of the inbox leave behind.
LEMMA InboxTypes ==
    ASSUME TypeOK, NEW b \in BOOLEAN
    PROVE  /\ InboxWrite(b) => inbox' \in [has: BOOLEAN, ver: Nat]
           /\ InboxUnanswered(b) => inboxq' \subseteq InboxCas /\ faults' \in Nat
  <1>1. inbox.ver \in Nat /\ SharedType /\ faults \in Nat
    BY DEF TypeOK, SharedType
  <1>2. ASSUME InboxWrite(b) PROVE inbox' \in [has: BOOLEAN, ver: Nat]
    <2>1. CASE inbox' = inbox
      BY <1>1, <2>1 DEF SharedType
    <2>2. CASE inbox' = [has |-> b, ver |-> inbox.ver + 1]
      BY <1>1, <2>2
    <2> QED  BY <1>2, <2>1, <2>2 DEF InboxWrite
  <1>3. ASSUME InboxUnanswered(b) PROVE inboxq' \subseteq InboxCas /\ faults' \in Nat
    BY <1>1, <1>3 DEF InboxUnanswered, InboxCas, SharedType, Fault
  <1> QED  BY <1>2, <1>3

\* A saved pending call of the receiver is one of its calls.
LEMMA ReceiverCallType ==
    ASSUME NEW r \in ReceiverRow, NEW p \in Participants,
           NEW op \in {"diverged", "import", "activate", "abort"}
    PROVE  [r EXCEPT !.pending = {<<op, p>>}] \in ReceiverRow
  <1>1. <<op, p>> \in ReceiverCalls
    BY DEF ReceiverCalls
  <1> QED  BY <1>1, ReceiverRowType

\* Every action of the drivers, the services and the operator keeps the types.
LEMMA StepTypeOK == TypeOK /\ [Next]_vars => TypeOK'
  <1> SUFFICES ASSUME TypeOK, [Next]_vars PROVE TypeOK'
    OBVIOUS
  <1>1. CASE DeliverRecord
    <2>1. SharedType'
      BY <1>1 DEF DeliverRecord, TypeOK, SharedType, RecordWrite
    <2>2. DoorType' /\ DataType'
      BY <1>1
        DEF DeliverRecord, TypeOK, DoorType, DataType, doorVars, srcData,
            rcvData
    <2> QED  BY <1>1, <2>1, <2>2 DEF DeliverRecord, TypeOK, srcVars, rcvVars
  <1>2. CASE DeliverClaim
    <2>1. SharedType'
      BY <1>2 DEF DeliverClaim, TypeOK, SharedType, ClaimWrite
    <2>2. DoorType' /\ DataType'
      BY <1>2
        DEF DeliverClaim, TypeOK, DoorType, DataType, doorVars, srcData,
            rcvData
    <2> QED  BY <1>2, <2>1, <2>2 DEF DeliverClaim, TypeOK, srcVars, rcvVars
  <1>3. CASE DeliverInbox
    <2>1. SharedType'
      BY <1>3 DEF DeliverInbox, TypeOK, SharedType, InboxCas
    <2>2. DoorType' /\ DataType'
      BY <1>3
        DEF DeliverInbox, TypeOK, DoorType, DataType, doorVars, srcData,
            rcvData
    <2> QED  BY <1>3, <2>1, <2>2 DEF DeliverInbox, TypeOK, srcVars, rcvVars
  <1>4. CASE RivalClaim
    <2>1. SharedType'
      BY <1>4 DEF RivalClaim, TypeOK, SharedType, Holders
    <2>2. DoorType' /\ DataType'
      BY <1>4
        DEF RivalClaim, TypeOK, DoorType, DataType, doorVars, srcData, rcvData
    <2>3. faults' \in Nat
      BY <1>4 DEF RivalClaim, TypeOK, Fault
    <2> QED
      BY <1>4, <2>1, <2>2, <2>3 DEF RivalClaim, TypeOK, srcVars, rcvVars
  <1>5. CASE DoorStep
    <2>1. DoorType'
      BY <1>5 DEF DoorStep, TypeOK, DoorType, DoorStates, Sealed
    <2>2. SharedType' /\ DataType'
      BY <1>5
        DEF DoorStep, TypeOK, SharedType, DataType, shared, srcData, rcvData
    <2>3. faults' \in Nat
      BY <1>5 DEF DoorStep, TypeOK, Fault
    <2> QED
      BY <1>5, <2>1, <2>2, <2>3 DEF DoorStep, TypeOK, srcVars, rcvVars
  <1>6. CASE LatePrepare
    <2>1. DataType'
      BY <1>6
        DEF LatePrepare, TypeOK, DataType, SourceData, Frozen, srcData,
            rcvData
    <2>2. SharedType' /\ DoorType'
      BY <1>6 DEF LatePrepare, TypeOK, SharedType, DoorType, shared, doorVars
    <2> QED  BY <1>6, <2>1, <2>2 DEF LatePrepare, TypeOK, srcVars, rcvVars
  <1>7. CASE LateImport
    <2>1. DataType'
      BY <1>7 DEF LateImport, TypeOK, DataType, ReceiverData, srcData
    <2>2. SharedType' /\ DoorType'
      BY <1>7 DEF LateImport, TypeOK, SharedType, DoorType, shared, doorVars
    <2> QED  BY <1>7, <2>1, <2>2 DEF LateImport, TypeOK, srcVars, rcvVars
  <1>8. CASE AdmitMove
    <2>1. src' \in SourceRow
      BY <1>8 DEF AdmitMove, TypeOK, SourceRow, SourceSteps, SharedType
    <2>2. SharedType' /\ DoorType' /\ DataType'
      BY <1>8
        DEF AdmitMove, TypeOK, SharedType, DoorType, DataType, shared,
            doorVars, srcData, rcvData, SourceFrame
    <2> QED  BY <1>8, <2>1, <2>2 DEF AdmitMove, TypeOK, SourceFrame, rcvVars
  <1>9. CASE SourceRequestAbort
    <2>1. src' \in SourceRow
      BY <1>9, SourceRowType DEF SourceRequestAbort, TypeOK, SourceSteps
    <2>2. SharedType' /\ DoorType' /\ DataType'
      BY <1>9
        DEF SourceRequestAbort, TypeOK, SharedType, DoorType, DataType,
            shared, doorVars, srcData, rcvData, SourceFrame
    <2>3. faults' \in Nat
      BY <1>9 DEF SourceRequestAbort, TypeOK, Fault
    <2> QED
      BY <1>9, <2>1, <2>2, <2>3
        DEF SourceRequestAbort, TypeOK, SourceFrame, rcvVars
  <1>10. CASE SourceRetryAbort
    <2>1. sdrv' \in SourceMemory
      BY <1>10, SourceMemoryType DEF SourceRetryAbort, TypeOK, SourcePcs
    <2>2. SharedType' /\ DoorType' /\ DataType'
      BY <1>10
        DEF SourceRetryAbort, TypeOK, SharedType, DoorType, DataType, shared,
            doorVars, srcData, rcvData, SourceFrame
    <2> QED
      BY <1>10, <2>1, <2>2 DEF SourceRetryAbort, TypeOK, SourceFrame, rcvVars
  <1>11. CASE SourceCrash
    <2>1. sdrv' \in SourceMemory
      BY <1>11 DEF SourceCrash, TypeOK, SourceMemory, SourcePcs, RecStates
    <2>2. SharedType' /\ DoorType' /\ DataType'
      BY <1>11
        DEF SourceCrash, TypeOK, SharedType, DoorType, DataType, shared,
            doorVars, srcData, rcvData, SourceFrame
    <2>3. faults' \in Nat
      BY <1>11 DEF SourceCrash, TypeOK, Fault
    <2> QED
      BY <1>11, <2>1, <2>2, <2>3 DEF SourceCrash, TypeOK, SourceFrame, rcvVars
  <1>12. CASE SourceTick
    <2>1. src' \in SourceRow
      BY <1>12, SourceRowType
        DEF SourceTick, TypeOK, SourceObserved, SourceSteps
    <2>2. sdrv' \in SourceMemory
      BY <1>12
        DEF SourceTick, TypeOK, SourceNextPc, SourceAdvancePc, SourcePcs,
            SourceMemory, SharedType, RecStates
    <2>3. SharedType' /\ DoorType' /\ DataType'
      BY <1>12
        DEF SourceTick, TypeOK, SharedType, DoorType, DataType, shared,
            doorVars, srcData, rcvData, SourceFrame
    <2> QED
      BY <1>12, <2>1, <2>2, <2>3 DEF SourceTick, TypeOK, SourceFrame, rcvVars
  <1>13. CASE SourceBusy
    <2>1. sdrv' \in SourceMemory
      BY <1>13, SourceMemoryType DEF SourceBusy, TypeOK, SourcePcs
    <2>2. SharedType' /\ DoorType' /\ DataType'
      BY <1>13
        DEF SourceBusy, TypeOK, SharedType, DoorType, DataType, shared,
            doorVars, srcData, rcvData, SourceFrame
    <2>3. faults' \in Nat
      BY <1>13 DEF SourceBusy, TypeOK, Fault
    <2> QED
      BY <1>13, <2>1, <2>2, <2>3 DEF SourceBusy, TypeOK, SourceFrame, rcvVars
  <1>14. CASE SourceRefused
    <2>1. src' \in SourceRow
      BY <1>14 DEF SourceRefused, TypeOK, SourceRow
    <2>2. sdrv' \in SourceMemory
      BY <1>14, SourceMemoryType DEF SourceRefused, TypeOK, SourcePcs
    <2>3. SharedType' /\ DoorType' /\ DataType'
      BY <1>14
        DEF SourceRefused, TypeOK, SharedType, DoorType, DataType, shared,
            doorVars, srcData, rcvData, SourceFrame
    <2>4. faults' \in Nat
      BY <1>14 DEF SourceRefused, TypeOK, Fault
    <2> QED
      BY <1>14, <2>1, <2>2, <2>3, <2>4
        DEF SourceRefused, TypeOK, SourceFrame, rcvVars
  <1>15. CASE SourceViolation
    <2>1. src' \in SourceRow
      BY <1>15, SourceRowType DEF SourceViolation, TypeOK, SourceSteps
    <2>2. sdrv' \in SourceMemory
      BY <1>15, SourceMemoryType DEF SourceViolation, TypeOK, SourcePcs
    <2>3. SharedType' /\ DoorType' /\ DataType'
      BY <1>15
        DEF SourceViolation, TypeOK, SharedType, DoorType, DataType, shared,
            doorVars, srcData, rcvData, SourceFrame
    <2>4. faults' \in Nat
      BY <1>15 DEF SourceViolation, TypeOK, Fault
    <2> QED
      BY <1>15, <2>1, <2>2, <2>3, <2>4
        DEF SourceViolation, TypeOK, SourceFrame, rcvVars
  <1>16. ASSUME NEW p \in Participants, SourcePrepare(p)
        PROVE  TypeOK'
    <2>1. DataType'
      BY <1>16
        DEF SourcePrepare, TypeOK, DataType, SourceData, Frozen,
            InFlightPrepare, SourceFrame, rcvData
    <2>2. src' \in SourceRow
      BY <1>16 DEF SourcePrepare, TypeOK, SourceRow, SourceCalls
    <2>3. sdrv' \in SourceMemory
      BY <1>16, SourceMemoryType DEF SourcePrepare, TypeOK, SourcePcs
    <2>4. SharedType' /\ DoorType'
      BY <1>16
        DEF SourcePrepare, TypeOK, SharedType, DoorType, shared, doorVars
    <2>5. faults' \in Nat
      BY <1>16 DEF SourcePrepare, TypeOK, Fault
    <2> QED
      BY <1>16, <2>1, <2>2, <2>3, <2>4, <2>5
        DEF SourcePrepare, TypeOK, SourceFrame, rcvVars
  <1>17. ASSUME NEW p \in Participants, SourceExport(p)
        PROVE  TypeOK'
    <2>1. DataType'
      BY <1>17
        DEF SourceExport, TypeOK, DataType, SourceData, Exported, Reconciled,
            SourceFrame, rcvData
    <2>2. src' \in SourceRow
      <3>1. /\ [src EXCEPT !.pending = {}] \in SourceRow
            /\ [src EXCEPT !.pending = {<<"export", p>>}] \in SourceRow
        BY SourceRowType DEF TypeOK, SourceCalls
      <3>2. [src EXCEPT !.pending = {}, !.step = "exported"] \in SourceRow
        BY SourceRowType, <3>1 DEF SourceSteps
      <3>3. [src EXCEPT !.pending = {}, !.step = src.step] = [src EXCEPT !.pending = {}]
        BY DEF TypeOK, SourceRow
      <3> QED  BY <1>17, <3>1, <3>2, <3>3 DEF SourceExport
    <2>3. sdrv' \in SourceMemory
      <3>1. /\ Answered(sdrv, p) \in SourceMemory
            /\ SIdle(Answered(sdrv, p)) \in SourceMemory
            /\ SIdle(Unresolved(sdrv, p)) \in SourceMemory
        BY SourceMemoryType DEF TypeOK
      <3>2. /\ \A b \in BOOLEAN :
                 [SIdle(Answered(sdrv, p)) EXCEPT !.resumed = b] \in SourceMemory
            /\ SPc(Answered(sdrv, p), "seal") \in SourceMemory
            /\ SPc(Answered(sdrv, p), "reseal") \in SourceMemory
        BY SourceMemoryType, <3>1 DEF SourcePcs
      <3> QED  BY <1>17, <3>1, <3>2 DEF SourceExport
    <2>4. SharedType' /\ DoorType'
      BY <1>17
        DEF SourceExport, TypeOK, SharedType, DoorType, shared, doorVars
    <2>5. faults' \in Nat
      BY <1>17 DEF SourceExport, TypeOK, Fault
    <2> QED
      BY <1>17, <2>1, <2>2, <2>3, <2>4, <2>5
        DEF SourceExport, TypeOK, SourceFrame, rcvVars
  <1>18. CASE SourceReseal
    <2>1. DoorType'
      BY <1>18 DEF SourceReseal, TypeOK, DoorType, DoorStates, Sealed
    <2>2. src' \in SourceRow
      BY <1>18 DEF SourceReseal, TypeOK, SourceRow
    <2>3. sdrv' \in SourceMemory
      BY <1>18, SourceMemoryType DEF SourceReseal, TypeOK, SourcePcs
    <2>4. SharedType' /\ DataType'
      BY <1>18
        DEF SourceReseal, TypeOK, SharedType, DataType, shared, srcData,
            rcvData, SourceFrame
    <2> QED
      BY <1>18, <2>1, <2>2, <2>3, <2>4
        DEF SourceReseal, TypeOK, SourceFrame, rcvVars
  <1>19. CASE SourceSeal
    <2>1. DoorType'
      BY <1>19 DEF SourceSeal, TypeOK, DoorType, DoorStates, Sealed, doorVars
    <2>2. src' \in SourceRow
      BY <1>19 DEF SourceSeal, TypeOK, SourceRow, SourceSteps
    <2>3. sdrv' \in SourceMemory
      BY <1>19, SourceMemoryType DEF SourceSeal, TypeOK, SourcePcs
    <2>4. SharedType' /\ DataType'
      BY <1>19
        DEF SourceSeal, TypeOK, SharedType, DataType, shared, srcData,
            rcvData, SourceFrame
    <2>5. faults' \in Nat
      BY <1>19 DEF SourceSeal, TypeOK, Fault
    <2> QED
      BY <1>19, <2>1, <2>2, <2>3, <2>4, <2>5
        DEF SourceSeal, TypeOK, SourceFrame, rcvVars
  <1>20. CASE SourcePublish
    <2>1. SharedType'
      BY <1>20
        DEF SourcePublish, TypeOK, SharedType, RecordWrite, RecStates, Sides,
            CasLanded, CasMoved, CasUnanswered
    <2>2. src' \in SourceRow
      BY <1>20, SourceRowType DEF SourcePublish, TypeOK, SourceSteps
    <2>3. sdrv' \in SourceMemory
      BY <1>20, SourceMemoryType DEF SourcePublish, TypeOK, SourcePcs
    <2>4. DoorType' /\ DataType'
      BY <1>20
        DEF SourcePublish, TypeOK, DoorType, DataType, doorVars, srcData,
            rcvData, SourceFrame
    <2>5. faults' \in Nat
      BY <1>20 DEF SourcePublish, TypeOK, Fault, CasUnanswered
    <2> QED
      BY <1>20, <2>1, <2>2, <2>3, <2>4, <2>5
        DEF SourcePublish, TypeOK, SourceFrame, rcvVars
  <1>21. CASE SourceAppendInbox
    <2>1. SharedType'
      BY <1>21, InboxTypes DEF SourceAppendInbox, TypeOK, SharedType
    <2>2. src' \in SourceRow
      BY <1>21, SourceRowType DEF SourceAppendInbox, TypeOK, SourceSteps
    <2>3. sdrv' \in SourceMemory
      BY <1>21, SourceMemoryType DEF SourceAppendInbox, TypeOK, SourcePcs
    <2>4. DoorType' /\ DataType'
      BY <1>21
        DEF SourceAppendInbox, TypeOK, DoorType, DataType, doorVars, srcData,
            rcvData, SourceFrame
    <2>5. faults' \in Nat
      BY <1>21, InboxTypes DEF SourceAppendInbox, TypeOK
    <2> QED
      BY <1>21, <2>1, <2>2, <2>3, <2>4, <2>5
        DEF SourceAppendInbox, TypeOK, SourceFrame, rcvVars
  <1>22. CASE SourceHandoff
    <2>1. sdrv' \in SourceMemory
      BY <1>22, SourceMemoryType DEF SourceHandoff, TypeOK, SourcePcs
    <2>2. SharedType' /\ DoorType' /\ DataType'
      BY <1>22
        DEF SourceHandoff, TypeOK, SharedType, DoorType, DataType, shared,
            doorVars, srcData, rcvData, SourceFrame
    <2> QED
      BY <1>22, <2>1, <2>2 DEF SourceHandoff, TypeOK, SourceFrame, rcvVars
  <1>23. ASSUME NEW p \in Participants, SourceRelease(p)
        PROVE  TypeOK'
    <2>1. DataType'
      BY <1>23
        DEF SourceRelease, TypeOK, DataType, SourceData, Reconciled,
            SourceFrame, rcvData
    <2>2. sdrv' \in SourceMemory
      BY <1>23, SourceMemoryType DEF SourceRelease, TypeOK, SourcePcs
    <2>3. SharedType' /\ DoorType'
      BY <1>23
        DEF SourceRelease, TypeOK, SharedType, DoorType, shared, doorVars
    <2>4. faults' \in Nat
      BY <1>23 DEF SourceRelease, TypeOK, Fault
    <2> QED
      BY <1>23, <2>1, <2>2, <2>3, <2>4
        DEF SourceRelease, TypeOK, SourceFrame, rcvVars
  <1>24. CASE SourceCasReleased
    <2>1. SharedType'
      BY <1>24
        DEF SourceCasReleased, TypeOK, SharedType, RecordWrite, RecStates,
            Sides, SourceMemory, CasLanded, CasMoved, CasUnanswered
    <2>2. src' \in SourceRow
      BY <1>24, SourceRowType DEF SourceCasReleased, TypeOK, SourceSteps
    <2>3. sdrv' \in SourceMemory
      BY <1>24, SourceMemoryType DEF SourceCasReleased, TypeOK, SourcePcs
    <2>4. DoorType' /\ DataType'
      BY <1>24
        DEF SourceCasReleased, TypeOK, DoorType, DataType, doorVars, srcData,
            rcvData, SourceFrame
    <2>5. faults' \in Nat
      BY <1>24 DEF SourceCasReleased, TypeOK, Fault, CasUnanswered
    <2> QED
      BY <1>24, <2>1, <2>2, <2>3, <2>4, <2>5
        DEF SourceCasReleased, TypeOK, SourceFrame, rcvVars
  <1>25. CASE SourceSettlePending
    <2>1. DataType'
      BY <1>25
        DEF SourceSettlePending, TypeOK, DataType, SourceData, Frozen,
            Exported, srcData, SourceFrame, rcvData
    <2>2. src' \in SourceRow
      BY <1>25, SourceRowType DEF SourceSettlePending, TypeOK, SourceSteps
    <2>3. sdrv' \in SourceMemory
      <3>1. SPc(sdrv, "decide") \in SourceMemory
        BY SourceMemoryType DEF TypeOK, SourcePcs
      <3>2. \A p \in Participants :
               [SPc(sdrv, "decide") EXCEPT !.unres = @ \ {p}] \in SourceMemory
        BY <3>1, SourceMemoryType
      <3> QED  BY <1>25, <3>1, <3>2 DEF SourceSettlePending
    <2>4. SharedType' /\ DoorType'
      BY <1>25
        DEF SourceSettlePending, TypeOK, SharedType, DoorType, shared,
            doorVars
    <2>5. faults' \in Nat
      <3>1. UNCHANGED faults \/ Fault("refused")
        BY <1>25 DEF SourceSettlePending
      <3> QED  BY <3>1 DEF Fault, TypeOK
    <2> QED
      BY <1>25, <2>1, <2>2, <2>3, <2>4, <2>5
        DEF SourceSettlePending, TypeOK, SourceFrame, rcvVars
  <1>26. CASE SourceDecide
    <2>1. SharedType'
      BY <1>26
        DEF SourceDecide, TypeOK, SharedType, RecordWrite, RecStates, Sides,
            SourceMemory, CasLanded, CasMoved, CasUnanswered
    <2>2. src' \in SourceRow
      BY <1>26, SourceRowType DEF SourceDecide, TypeOK, SourceSteps
    <2>3. sdrv' \in SourceMemory
      BY <1>26, SourceMemoryType DEF SourceDecide, TypeOK, SourcePcs
    <2>4. DoorType' /\ DataType'
      BY <1>26
        DEF SourceDecide, TypeOK, DoorType, DataType, doorVars, srcData,
            rcvData, SourceFrame
    <2>5. faults' \in Nat
      BY <1>26 DEF SourceDecide, TypeOK, Fault, CasUnanswered
    <2> QED
      BY <1>26, <2>1, <2>2, <2>3, <2>4, <2>5
        DEF SourceDecide, TypeOK, SourceFrame, rcvVars
  <1>27. CASE SourceAbortDoor
    <2>1. DoorType'
      BY <1>27 DEF SourceAbortDoor, TypeOK, DoorType, DoorStates, DoorAborted
    <2>2. sdrv' \in SourceMemory
      BY <1>27, SourceMemoryType DEF SourceAbortDoor, TypeOK, SourcePcs
    <2>3. SharedType' /\ DataType'
      BY <1>27
        DEF SourceAbortDoor, TypeOK, SharedType, DataType, shared, srcData,
            rcvData, SourceFrame
    <2>4. faults' \in Nat
      BY <1>27 DEF SourceAbortDoor, TypeOK, Fault
    <2> QED
      BY <1>27, <2>1, <2>2, <2>3, <2>4
        DEF SourceAbortDoor, TypeOK, SourceFrame, rcvVars
  <1>28. ASSUME NEW p \in Participants, SourceAbortParticipant(p)
        PROVE  TypeOK'
    <2>1. DataType'
      BY <1>28
        DEF SourceAbortParticipant, TypeOK, DataType, SourceData, Thawed,
            Reconciled, SourceFrame, rcvData
    <2>2. src' \in SourceRow
      BY <1>28, SourceRowType DEF SourceAbortParticipant, TypeOK, SourceSteps
    <2>3. sdrv' \in SourceMemory
      BY <1>28, SourceMemoryType DEF SourceAbortParticipant, TypeOK, SourcePcs
    <2>4. SharedType' /\ DoorType'
      BY <1>28
        DEF SourceAbortParticipant, TypeOK, SharedType, DoorType, shared,
            doorVars
    <2>5. faults' \in Nat
      BY <1>28 DEF SourceAbortParticipant, TypeOK, Fault
    <2> QED
      BY <1>28, <2>1, <2>2, <2>3, <2>4, <2>5
        DEF SourceAbortParticipant, TypeOK, SourceFrame, rcvVars
  <1>29. CASE SourceCloseDoor
    <2>1. DoorType'
      BY <1>29
        DEF SourceCloseDoor, TypeOK, DoorType, DoorStates, DoorAborted, Sealed
    <2>2. src' \in SourceRow
      BY <1>29 DEF SourceCloseDoor, TypeOK, SourceRow, SourceSteps
    <2>3. sdrv' \in SourceMemory
      BY <1>29, SourceMemoryType DEF SourceCloseDoor, TypeOK, SourcePcs
    <2>4. SharedType' /\ DataType'
      BY <1>29
        DEF SourceCloseDoor, TypeOK, SharedType, DataType, shared, srcData,
            rcvData, SourceFrame
    <2>5. faults' \in Nat
      BY <1>29 DEF SourceCloseDoor, TypeOK, Fault
    <2> QED
      BY <1>29, <2>1, <2>2, <2>3, <2>4, <2>5
        DEF SourceCloseDoor, TypeOK, SourceFrame, rcvVars
  <1>30. CASE ReceiverPoll
    <2>1. SharedType'
      BY <1>30, InboxTypes DEF ReceiverPoll, TypeOK, SharedType
    <2>2. rcv' \in ReceiverRow
      BY <1>30, ReceiverRowType DEF ReceiverPoll, TypeOK, ReceiverSteps
    <2>3. DoorType' /\ DataType'
      BY <1>30
        DEF ReceiverPoll, TypeOK, DoorType, DataType, doorVars, srcData,
            rcvData, ReceiverFrame
    <2>4. faults' \in Nat
      BY <1>30, InboxTypes DEF ReceiverPoll, TypeOK
    <2> QED
      BY <1>30, <2>1, <2>2, <2>3, <2>4
        DEF ReceiverPoll, TypeOK, ReceiverFrame, srcVars
  <1>31. CASE ReceiverRequestAbort
    <2>1. rcv' \in ReceiverRow
      BY <1>31, ReceiverRowType
        DEF ReceiverRequestAbort, TypeOK, ReceiverSteps
    <2>2. SharedType' /\ DoorType' /\ DataType'
      BY <1>31
        DEF ReceiverRequestAbort, TypeOK, SharedType, DoorType, DataType,
            shared, doorVars, srcData, rcvData, ReceiverFrame
    <2>3. faults' \in Nat
      BY <1>31 DEF ReceiverRequestAbort, TypeOK, Fault
    <2> QED
      BY <1>31, <2>1, <2>2, <2>3
        DEF ReceiverRequestAbort, TypeOK, ReceiverFrame, srcVars
  <1>32. CASE ReceiverRetryAbort
    <2>1. rdrv' \in ReceiverMemory
      BY <1>32, ReceiverMemoryType DEF ReceiverRetryAbort, TypeOK, ReceiverPcs
    <2>2. SharedType' /\ DoorType' /\ DataType'
      BY <1>32
        DEF ReceiverRetryAbort, TypeOK, SharedType, DoorType, DataType,
            shared, doorVars, srcData, rcvData, ReceiverFrame
    <2> QED
      BY <1>32, <2>1, <2>2
        DEF ReceiverRetryAbort, TypeOK, ReceiverFrame, srcVars
  <1>33. CASE ReceiverCrash
    <2>1. rdrv' \in ReceiverMemory
      BY <1>33
        DEF ReceiverCrash, TypeOK, ReceiverMemory, ReceiverPcs, RecStates
    <2>2. SharedType' /\ DoorType' /\ DataType'
      BY <1>33
        DEF ReceiverCrash, TypeOK, SharedType, DoorType, DataType, shared,
            doorVars, srcData, rcvData, ReceiverFrame
    <2>3. faults' \in Nat
      BY <1>33 DEF ReceiverCrash, TypeOK, Fault
    <2> QED
      BY <1>33, <2>1, <2>2, <2>3
        DEF ReceiverCrash, TypeOK, ReceiverFrame, srcVars
  <1>34. CASE ReceiverTick
    <2>1. rcv' \in ReceiverRow
      BY <1>34, ReceiverRowType DEF ReceiverTick, TypeOK, ReceiverSteps
    <2>2. rdrv' \in ReceiverMemory
      BY <1>34
        DEF ReceiverTick, TypeOK, ReceiverNextPc, ReceiverAdvancePc,
            ReceiverPcs, ReceiverMemory, SharedType, RecStates
    <2>3. SharedType' /\ DoorType' /\ DataType'
      BY <1>34
        DEF ReceiverTick, TypeOK, SharedType, DoorType, DataType, shared,
            doorVars, srcData, rcvData, ReceiverFrame
    <2> QED
      BY <1>34, <2>1, <2>2, <2>3
        DEF ReceiverTick, TypeOK, ReceiverFrame, srcVars
  <1>35. CASE ReceiverHold
    <2>1. rdrv' \in ReceiverMemory
      BY <1>35, ReceiverMemoryType DEF ReceiverHold, TypeOK, ReceiverPcs
    <2>2. SharedType' /\ DoorType' /\ DataType'
      BY <1>35
        DEF ReceiverHold, TypeOK, SharedType, DoorType, DataType, shared,
            doorVars, srcData, rcvData, ReceiverFrame
    <2>3. faults' \in Nat
      BY <1>35 DEF ReceiverHold, TypeOK, Fault
    <2> QED
      BY <1>35, <2>1, <2>2, <2>3
        DEF ReceiverHold, TypeOK, ReceiverFrame, srcVars
  <1>36. CASE ReceiverRefused
    <2>1. rcv' \in ReceiverRow
      BY <1>36, ReceiverRowType DEF ReceiverRefused, TypeOK, ReceiverSteps
    <2>2. rdrv' \in ReceiverMemory
      BY <1>36, ReceiverMemoryType DEF ReceiverRefused, TypeOK, ReceiverPcs
    <2>3. SharedType' /\ DoorType' /\ DataType'
      BY <1>36
        DEF ReceiverRefused, TypeOK, SharedType, DoorType, DataType, shared,
            doorVars, srcData, rcvData, ReceiverFrame
    <2>4. faults' \in Nat
      BY <1>36 DEF ReceiverRefused, TypeOK, Fault
    <2> QED
      BY <1>36, <2>1, <2>2, <2>3, <2>4
        DEF ReceiverRefused, TypeOK, ReceiverFrame, srcVars
  <1>37. CASE ReceiverStopped
    <2>1. rcv' \in ReceiverRow
      BY <1>37, ReceiverRowType DEF ReceiverStopped, TypeOK, ReceiverSteps
    <2>2. rdrv' \in ReceiverMemory
      BY <1>37, ReceiverMemoryType DEF ReceiverStopped, TypeOK, ReceiverPcs
    <2>3. SharedType' /\ DoorType' /\ DataType'
      BY <1>37
        DEF ReceiverStopped, TypeOK, SharedType, DoorType, DataType, shared,
            doorVars, srcData, rcvData, ReceiverFrame
    <2>4. faults' \in Nat
      BY <1>37 DEF ReceiverStopped, TypeOK, Fault
    <2> QED
      BY <1>37, <2>1, <2>2, <2>3, <2>4
        DEF ReceiverStopped, TypeOK, ReceiverFrame, srcVars
  <1>38. CASE ReceiverSettlePending
    <2>1. DataType'
      BY <1>38
        DEF ReceiverSettlePending, TypeOK, DataType, ReceiverData,
            ReceiverFrame, srcData, rcvData
    <2>2. rcv' \in ReceiverRow
      <3>1. /\ [rcv EXCEPT !.abort = TRUE] \in ReceiverRow
            /\ [rcv EXCEPT !.pending = {}] \in ReceiverRow
            /\ \A p \in Participants :
                 [rcv EXCEPT !.pending = {}, !.aborted = @ \cup {p}] \in ReceiverRow
        BY ReceiverRowType DEF TypeOK
      <3>2. [rcv EXCEPT !.pending = {}, !.aborted = @] = [rcv EXCEPT !.pending = {}]
        BY DEF TypeOK, ReceiverRow
      <3>3. CASE rcv' = rcv
        BY <3>3 DEF TypeOK
      <3>4. ASSUME NEW p \in Participants, NEW op,
                   rcv' = [rcv EXCEPT !.pending = {},
                             !.aborted = IF op = "abort" THEN @ \cup {p} ELSE @]
            PROVE  rcv' \in ReceiverRow
        BY <3>1, <3>2, <3>4
      <3> QED  BY <1>38, <3>1, <3>3, <3>4 DEF ReceiverSettlePending
    <2>3. rdrv' \in ReceiverMemory
      <3>1. AfterSettle \in ReceiverPcs
        BY DEF AfterSettle, ReceiverPcs
      <3>2. RPc(rdrv, AfterSettle) \in ReceiverMemory /\ RIdle(rdrv) \in ReceiverMemory
        BY <3>1, ReceiverMemoryType DEF TypeOK
      <3>3. \A p \in Participants :
               /\ [RPc(rdrv, AfterSettle) EXCEPT !.unres = @ \ {p}] \in ReceiverMemory
               /\ [RIdle(rdrv) EXCEPT !.unres = @ \ {p}] \in ReceiverMemory
        BY <3>2, ReceiverMemoryType
      <3> QED  BY <1>38, <3>2, <3>3 DEF ReceiverSettlePending
    <2>4. SharedType' /\ DoorType'
      BY <1>38
        DEF ReceiverSettlePending, TypeOK, SharedType, DoorType, shared,
            doorVars
    <2> QED
      BY <1>38, <2>1, <2>2, <2>3, <2>4
        DEF ReceiverSettlePending, TypeOK, ReceiverFrame, srcVars
  <1>39. CASE ReceiverChecks
    <2>1. rdrv' \in ReceiverMemory
      BY <1>39, ReceiverMemoryType
        DEF ReceiverChecks, TypeOK, ReceiverPcs, TakePc
    <2>2. SharedType' /\ DoorType' /\ DataType'
      BY <1>39
        DEF ReceiverChecks, TypeOK, SharedType, DoorType, DataType, shared,
            doorVars, srcData, rcvData, ReceiverFrame
    <2> QED
      BY <1>39, <2>1, <2>2 DEF ReceiverChecks, TypeOK, ReceiverFrame, srcVars
  <1>40. ASSUME NEW p \in Participants, ReceiverDiverged(p)
        PROVE  TypeOK'
    <2>1. DataType'
      BY <1>40
        DEF ReceiverDiverged, TypeOK, DataType, Reconciled, ReceiverFrame,
            srcData
    <2>2. rcv' \in ReceiverRow
      <3> DEFINE called == [rcv EXCEPT !.touched = @ \cup {p}]
      <3>1. called \in ReceiverRow
        BY ReceiverRowType DEF TypeOK
      <3> HIDE DEF called
      <3>2. /\ [called EXCEPT !.pending = {}] \in ReceiverRow
            /\ [called EXCEPT !.pending = {<<"diverged", p>>}] \in ReceiverRow
        BY <3>1, ReceiverRowType, ReceiverCallType
      <3>3. [called EXCEPT !.pending = {}, !.abort = TRUE] \in ReceiverRow
        BY <3>2, ReceiverRowType
      <3> QED  BY <1>40, <3>2, <3>3 DEF ReceiverDiverged, called
    <2>3. rdrv' \in ReceiverMemory
      BY <1>40, ReceiverMemoryType DEF ReceiverDiverged, TypeOK, ReceiverPcs
    <2>4. SharedType' /\ DoorType'
      BY <1>40
        DEF ReceiverDiverged, TypeOK, SharedType, DoorType, shared, doorVars
    <2>5. faults' \in Nat
      BY <1>40 DEF ReceiverDiverged, TypeOK, Fault
    <2> QED
      BY <1>40, <2>1, <2>2, <2>3, <2>4, <2>5
        DEF ReceiverDiverged, TypeOK, ReceiverFrame, srcVars
  <1>41. ASSUME NEW p \in Participants, ReceiverImport(p)
        PROVE  TypeOK'
    <2>1. DataType'
      BY <1>41
        DEF ReceiverImport, TypeOK, DataType, ReceiverData, ReceiverFrame,
            srcData, rcvData
    <2>2. rcv' \in ReceiverRow
      <3>1. /\ [rcv EXCEPT !.pending = {}] \in ReceiverRow
            /\ [rcv EXCEPT !.pending = {<<"import", p>>}] \in ReceiverRow
        BY ReceiverRowType, ReceiverCallType DEF TypeOK
      <3>2. [rcv EXCEPT !.pending = {}, !.abort = TRUE] \in ReceiverRow
        BY <3>1, ReceiverRowType
      <3> QED  BY <1>41, <3>1, <3>2 DEF ReceiverImport
    <2>3. rdrv' \in ReceiverMemory
      BY <1>41, ReceiverMemoryType DEF ReceiverImport, TypeOK, ReceiverPcs
    <2>4. SharedType' /\ DoorType'
      BY <1>41
        DEF ReceiverImport, TypeOK, SharedType, DoorType, shared, doorVars
    <2>5. faults' \in Nat
      BY <1>41 DEF ReceiverImport, TypeOK, Fault
    <2> QED
      BY <1>41, <2>1, <2>2, <2>3, <2>4, <2>5
        DEF ReceiverImport, TypeOK, ReceiverFrame, srcVars
  <1>42. CASE ReceiverImported
    <2>1. rcv' \in ReceiverRow
      BY <1>42, ReceiverRowType DEF ReceiverImported, TypeOK, ReceiverSteps
    <2>2. rdrv' \in ReceiverMemory
      BY <1>42, ReceiverMemoryType DEF ReceiverImported, TypeOK, ReceiverPcs
    <2>3. SharedType' /\ DoorType' /\ DataType'
      BY <1>42
        DEF ReceiverImported, TypeOK, SharedType, DoorType, DataType, shared,
            doorVars, srcData, rcvData, ReceiverFrame
    <2> QED
      BY <1>42, <2>1, <2>2, <2>3
        DEF ReceiverImported, TypeOK, ReceiverFrame, srcVars
  <1>43. CASE ReceiverStage
    <2>1. SharedType'
      BY <1>43
        DEF ReceiverStage, TypeOK, SharedType, RecordWrite, RecStates, Sides,
            ReceiverMemory, ReceiverCas, CasLanded, CasMoved, CasUnanswered
    <2>2. rcv' \in ReceiverRow
      BY <1>43, ReceiverRowType
        DEF ReceiverStage, TypeOK, ReceiverSteps, ReceiverCas
    <2>3. rdrv' \in ReceiverMemory
      BY <1>43, ReceiverMemoryType DEF ReceiverStage, TypeOK, ReceiverCas
    <2>4. DoorType' /\ DataType'
      BY <1>43
        DEF ReceiverStage, TypeOK, DoorType, DataType, doorVars, srcData,
            rcvData, ReceiverFrame
    <2>5. faults' \in Nat
      BY <1>43 DEF ReceiverStage, TypeOK, Fault, ReceiverCas, CasUnanswered
    <2> QED
      BY <1>43, <2>1, <2>2, <2>3, <2>4, <2>5
        DEF ReceiverStage, TypeOK, ReceiverFrame, srcVars
  <1>44. CASE ReceiverTakeRead
    <2>1. rcv' \in ReceiverRow
      <3>1. claim.epoch + 1 \in Nat
        BY DEF TypeOK, SharedType
      <3> QED  BY <1>44, <3>1, ReceiverRowType DEF ReceiverTakeRead, TypeOK
    <2>2. rdrv' \in ReceiverMemory
      BY <1>44, ReceiverMemoryType DEF ReceiverTakeRead, TypeOK, ReceiverPcs
    <2>3. SharedType' /\ DoorType' /\ DataType'
      BY <1>44
        DEF ReceiverTakeRead, TypeOK, SharedType, DoorType, DataType, shared,
            doorVars, srcData, rcvData, ReceiverFrame
    <2> QED
      BY <1>44, <2>1, <2>2, <2>3
        DEF ReceiverTakeRead, TypeOK, ReceiverFrame, srcVars
  <1>45. CASE ReceiverTake
    <2>1. SharedType'
      BY <1>45
        DEF ReceiverTake, TypeOK, SharedType, ClaimWrite, Holders, SourceRow,
            ReceiverRow, ClaimLanded, ClaimMoved, ClaimUnanswered, ClaimJudgedMoved
    <2>2. rcv' \in ReceiverRow
      <3>1. claim'.ver \in Nat
        BY <2>1 DEF SharedType
      <3>2. [rcv EXCEPT !.landed = claim'.ver] \in ReceiverRow
        BY <3>1, ReceiverRowType DEF TypeOK
      <3>3. [rcv EXCEPT !.abort = @ \/ claim.holder # "receiver",
                        !.takeFailed = @ \/ claim.holder # "receiver"] \in ReceiverRow
        BY DEF TypeOK, ReceiverRow
      <3> QED  BY <1>45, <3>2, <3>3 DEF ReceiverTake, TypeOK
    <2>3. rdrv' \in ReceiverMemory
      BY <1>45, ReceiverMemoryType DEF ReceiverTake, TypeOK, ReceiverPcs
    <2>4. DoorType' /\ DataType'
      BY <1>45
        DEF ReceiverTake, TypeOK, DoorType, DataType, doorVars, srcData,
            rcvData, ReceiverFrame
    <2>5. faults' \in Nat
      BY <1>45 DEF ReceiverTake, TypeOK, Fault, ClaimUnanswered, ClaimJudgedMoved
    <2> QED
      BY <1>45, <2>1, <2>2, <2>3, <2>4, <2>5
        DEF ReceiverTake, TypeOK, ReceiverFrame, srcVars
  <1>46. CASE ReceiverCasClaimed
    <2>1. SharedType'
      BY <1>46
        DEF ReceiverCasClaimed, TypeOK, SharedType, RecordWrite, RecStates,
            Sides, ReceiverMemory, ReceiverCas, CasLanded, CasMoved,
            CasUnanswered
    <2>2. rcv' \in ReceiverRow
      BY <1>46, ReceiverRowType
        DEF ReceiverCasClaimed, TypeOK, ReceiverSteps, ReceiverCas
    <2>3. rdrv' \in ReceiverMemory
      BY <1>46, ReceiverMemoryType DEF ReceiverCasClaimed, TypeOK, ReceiverCas
    <2>4. DoorType' /\ DataType'
      BY <1>46
        DEF ReceiverCasClaimed, TypeOK, DoorType, DataType, doorVars, srcData,
            rcvData, ReceiverFrame
    <2>5. faults' \in Nat
      BY <1>46
        DEF ReceiverCasClaimed, TypeOK, Fault, ReceiverCas, CasUnanswered
    <2> QED
      BY <1>46, <2>1, <2>2, <2>3, <2>4, <2>5
        DEF ReceiverCasClaimed, TypeOK, ReceiverFrame, srcVars
  <1>47. CASE ReceiverFence
    <2>1. rcv' \in ReceiverRow
      BY <1>47, ReceiverRowType DEF ReceiverFence, TypeOK, ReceiverSteps
    <2>2. rdrv' \in ReceiverMemory
      BY <1>47, ReceiverMemoryType DEF ReceiverFence, TypeOK, ReceiverPcs
    <2>3. SharedType' /\ DoorType' /\ DataType'
      BY <1>47
        DEF ReceiverFence, TypeOK, SharedType, DoorType, DataType, shared,
            doorVars, srcData, rcvData, ReceiverFrame
    <2> QED
      BY <1>47, <2>1, <2>2, <2>3
        DEF ReceiverFence, TypeOK, ReceiverFrame, srcVars
  <1>48. ASSUME NEW p \in Participants, ReceiverActivate(p)
        PROVE  TypeOK'
    <2>1. DataType'
      BY <1>48
        DEF ReceiverActivate, TypeOK, DataType, ReceiverData, Reconciled,
            ReceiverFrame, srcData
    <2>2. rcv' \in ReceiverRow
      BY <1>48 DEF ReceiverActivate, TypeOK, ReceiverRow, ReceiverCalls
    <2>3. rdrv' \in ReceiverMemory
      BY <1>48, ReceiverMemoryType DEF ReceiverActivate, TypeOK, ReceiverPcs
    <2>4. SharedType' /\ DoorType'
      BY <1>48
        DEF ReceiverActivate, TypeOK, SharedType, DoorType, shared, doorVars
    <2>5. faults' \in Nat
      BY <1>48 DEF ReceiverActivate, TypeOK, Fault
    <2> QED
      BY <1>48, <2>1, <2>2, <2>3, <2>4, <2>5
        DEF ReceiverActivate, TypeOK, ReceiverFrame, srcVars
  <1>49. CASE ReceiverCasActivated
    <2>1. SharedType'
      BY <1>49
        DEF ReceiverCasActivated, TypeOK, SharedType, RecordWrite, RecStates,
            Sides, ReceiverMemory, ReceiverCas, CasLanded, CasMoved,
            CasUnanswered
    <2>2. rcv' \in ReceiverRow
      BY <1>49 DEF ReceiverCasActivated, TypeOK, ReceiverCas
    <2>3. rdrv' \in ReceiverMemory
      BY <1>49, ReceiverMemoryType
        DEF ReceiverCasActivated, TypeOK, ReceiverCas, ReceiverPcs
    <2>4. DoorType' /\ DataType'
      BY <1>49
        DEF ReceiverCasActivated, TypeOK, DoorType, DataType, doorVars,
            srcData, rcvData, ReceiverFrame
    <2>5. faults' \in Nat
      BY <1>49
        DEF ReceiverCasActivated, TypeOK, Fault, ReceiverCas, CasUnanswered
    <2> QED
      BY <1>49, <2>1, <2>2, <2>3, <2>4, <2>5
        DEF ReceiverCasActivated, TypeOK, ReceiverFrame, srcVars
  <1>50. CASE ReceiverInstall
    <2>1. rcv' \in ReceiverRow
      BY <1>50, ReceiverRowType DEF ReceiverInstall, TypeOK, ReceiverSteps
    <2>2. rdrv' \in ReceiverMemory
      BY <1>50, ReceiverMemoryType DEF ReceiverInstall, TypeOK, ReceiverPcs
    <2>3. SharedType' /\ DoorType' /\ DataType'
      BY <1>50
        DEF ReceiverInstall, TypeOK, SharedType, DoorType, DataType, shared,
            doorVars, srcData, rcvData, ReceiverFrame
    <2> QED
      BY <1>50, <2>1, <2>2, <2>3
        DEF ReceiverInstall, TypeOK, ReceiverFrame, srcVars
  <1>51. CASE ReceiverFinish
    <2>1. SharedType'
      BY <1>51, InboxTypes DEF ReceiverFinish, TypeOK, SharedType
    <2>2. rdrv' \in ReceiverMemory
      BY <1>51, ReceiverMemoryType DEF ReceiverFinish, TypeOK, ReceiverPcs
    <2>3. DoorType' /\ DataType'
      BY <1>51
        DEF ReceiverFinish, TypeOK, DoorType, DataType, doorVars, srcData,
            rcvData, ReceiverFrame
    <2>4. faults' \in Nat
      BY <1>51, InboxTypes DEF ReceiverFinish, TypeOK
    <2> QED
      BY <1>51, <2>1, <2>2, <2>3, <2>4
        DEF ReceiverFinish, TypeOK, ReceiverFrame, srcVars
  <1>52. CASE ReceiverTakeover
    <2>1. DoorType'
      BY <1>52 DEF ReceiverTakeover, TypeOK, DoorType, DoorStates
    <2>2. rcv' \in ReceiverRow
      BY <1>52 DEF ReceiverTakeover, TypeOK, ReceiverRow, ReceiverSteps
    <2>3. rdrv' \in ReceiverMemory
      BY <1>52, ReceiverMemoryType DEF ReceiverTakeover, TypeOK, ReceiverPcs
    <2>4. SharedType' /\ DataType'
      BY <1>52
        DEF ReceiverTakeover, TypeOK, SharedType, DataType, shared, srcData,
            rcvData, ReceiverFrame
    <2>5. faults' \in Nat
      BY <1>52 DEF ReceiverTakeover, TypeOK, Fault
    <2> QED
      BY <1>52, <2>1, <2>2, <2>3, <2>4, <2>5
        DEF ReceiverTakeover, TypeOK, ReceiverFrame, srcVars
  <1>53. CASE ReceiverReturnClaim
    <2>1. SharedType'
      BY <1>53
        DEF ReceiverReturnClaim, TypeOK, SharedType, ClaimWrite, Holders,
            ReceiverRow, ClaimLanded, ClaimMoved, ClaimUnanswered, ClaimJudgedMoved
    <2>2. rdrv' \in ReceiverMemory
      BY <1>53, ReceiverMemoryType
        DEF ReceiverReturnClaim, TypeOK, ReceiverPcs
    <2>3. DoorType' /\ DataType'
      BY <1>53
        DEF ReceiverReturnClaim, TypeOK, DoorType, DataType, doorVars,
            srcData, rcvData, ReceiverFrame
    <2>4. faults' \in Nat
      BY <1>53 DEF ReceiverReturnClaim, TypeOK, Fault, ClaimUnanswered, ClaimJudgedMoved
    <2> QED
      BY <1>53, <2>1, <2>2, <2>3, <2>4
        DEF ReceiverReturnClaim, TypeOK, ReceiverFrame, srcVars
  <1>54. CASE ReceiverUndoCheck
    <2>1. rdrv' \in ReceiverMemory
      BY <1>54, ReceiverMemoryType DEF ReceiverUndoCheck, TypeOK, ReceiverPcs
    <2>2. SharedType' /\ DoorType' /\ DataType'
      BY <1>54
        DEF ReceiverUndoCheck, TypeOK, SharedType, DoorType, DataType, shared,
            doorVars, srcData, rcvData, ReceiverFrame
    <2> QED
      BY <1>54, <2>1, <2>2
        DEF ReceiverUndoCheck, TypeOK, ReceiverFrame, srcVars
  <1>55. ASSUME NEW p \in Participants, ReceiverAbortParticipant(p)
        PROVE  TypeOK'
    <2>1. DataType'
      BY <1>55
        DEF ReceiverAbortParticipant, TypeOK, DataType, ReceiverData,
            Reconciled, ReceiverFrame, srcData
    <2>2. rcv' \in ReceiverRow
      <3>1. /\ [rcv EXCEPT !.pending = {}, !.aborted = @ \cup {p}] \in ReceiverRow
            /\ [rcv EXCEPT !.pending = {<<"abort", p>>}] \in ReceiverRow
        BY ReceiverRowType, ReceiverCallType DEF TypeOK
      <3> QED  BY <1>55, <3>1 DEF ReceiverAbortParticipant
    <2>3. rdrv' \in ReceiverMemory
      BY <1>55, ReceiverMemoryType
        DEF ReceiverAbortParticipant, TypeOK, ReceiverPcs
    <2>4. SharedType' /\ DoorType'
      BY <1>55
        DEF ReceiverAbortParticipant, TypeOK, SharedType, DoorType, shared,
            doorVars
    <2>5. faults' \in Nat
      BY <1>55 DEF ReceiverAbortParticipant, TypeOK, Fault
    <2> QED
      BY <1>55, <2>1, <2>2, <2>3, <2>4, <2>5
        DEF ReceiverAbortParticipant, TypeOK, ReceiverFrame, srcVars
  <1>56. CASE ReceiverUndoRecord
    <2>1. SharedType'
      BY <1>56
        DEF ReceiverUndoRecord, TypeOK, SharedType, RecordWrite, RecStates,
            Sides, CasLanded, CasMoved, CasUnanswered
    <2>2. rdrv' \in ReceiverMemory
      BY <1>56, ReceiverMemoryType DEF ReceiverUndoRecord, TypeOK, ReceiverPcs
    <2>3. DoorType' /\ DataType'
      BY <1>56
        DEF ReceiverUndoRecord, TypeOK, DoorType, DataType, doorVars, srcData,
            rcvData, ReceiverFrame
    <2>4. faults' \in Nat
      BY <1>56 DEF ReceiverUndoRecord, TypeOK, Fault, CasUnanswered
    <2> QED
      BY <1>56, <2>1, <2>2, <2>3, <2>4
        DEF ReceiverUndoRecord, TypeOK, ReceiverFrame, srcVars
  <1>57. CASE ReceiverAborted
    <2>1. SharedType'
      BY <1>57, InboxTypes DEF ReceiverAborted, TypeOK, SharedType
    <2>2. rcv' \in ReceiverRow
      BY <1>57, ReceiverRowType DEF ReceiverAborted, TypeOK, ReceiverSteps
    <2>3. rdrv' \in ReceiverMemory
      BY <1>57, ReceiverMemoryType DEF ReceiverAborted, TypeOK, ReceiverPcs
    <2>4. DoorType' /\ DataType'
      BY <1>57
        DEF ReceiverAborted, TypeOK, DoorType, DataType, doorVars, srcData,
            rcvData, ReceiverFrame
    <2>5. faults' \in Nat
      BY <1>57, InboxTypes DEF ReceiverAborted, TypeOK
    <2> QED
      BY <1>57, <2>1, <2>2, <2>3, <2>4, <2>5
        DEF ReceiverAborted, TypeOK, ReceiverFrame, srcVars
  <1>58. CASE UNCHANGED vars
    BY <1>58 DEF TypeOK, SharedType, DoorType, DataType, vars
  <1> QED
    BY <1>1, <1>2, <1>3, <1>4, <1>5, <1>6, <1>7, <1>8, <1>9, <1>10, <1>11,
       <1>12, <1>13, <1>14, <1>15, <1>16, <1>17, <1>18, <1>19, <1>20, <1>21,
       <1>22, <1>23, <1>24, <1>25, <1>26, <1>27, <1>28, <1>29, <1>30, <1>31,
       <1>32, <1>33, <1>34, <1>35, <1>36, <1>37, <1>38, <1>39, <1>40, <1>41,
       <1>42, <1>43, <1>44, <1>45, <1>46, <1>47, <1>48, <1>49, <1>50, <1>51,
       <1>52, <1>53, <1>54, <1>55, <1>56, <1>57, <1>58
      DEF Next, SourceNext, SourceFault, ReceiverNext, ReceiverFault,
          Environment, Operator

\* The empty plan state is typed.
LEMMA InitTypeOK == Init => TypeOK
  <1> SUFFICES ASSUME Init PROVE TypeOK
    OBVIOUS
  <1>1. SharedType
    BY DEF Init, SharedType, RecStates, Sides, Holders
  <1>2. DoorType
    BY DEF Init, DoorType, DoorStates
  <1>3. DataType
    BY DEF Init, DataType, SourceData, ReceiverData
  <1>4. src \in SourceRow /\ sdrv \in SourceMemory
    BY DEF Init, SourceRow, SourceMemory, SourceSteps, SourcePcs, RecStates
  <1>5. rcv \in ReceiverRow /\ rdrv \in ReceiverMemory
    BY DEF Init, ReceiverRow, ReceiverMemory, ReceiverSteps, ReceiverPcs, RecStates
  <1> QED  BY <1>1, <1>2, <1>3, <1>4, <1>5 DEF Init, TypeOK

\* Rows, shared records, door, participants and driver memory always hold what
\* the drivers' code can read back: for every number of participants, every
\* set of faults and every bound on them.
THEOREM TypeCorrect == Spec => []TypeOK
  BY InitTypeOK, StepTypeOK, PTL DEF Spec

-----------------------------------------------------------------------------

\* How a source step may treat its reading of the record: forget it at the end
\* of a pass, or keep it.
SourceEnds == sdrv'.pc = "idle" /\ sdrv'.obs = "none" /\ sdrv'.ver = 0
SourceStays ==
    /\ sdrv'.obs = sdrv.obs /\ sdrv'.ver = sdrv.ver
    /\ sdrv'.pc \in {"handoff", "release", "cas_released"} =>
           sdrv.pc \in {"handoff", "release", "cas_released"}

\* The same for the receiver.
ReceiverEnds == rdrv'.pc = "idle" /\ rdrv'.obs = "none" /\ rdrv'.ver = 0
ReceiverStays == rdrv'.obs = rdrv.obs /\ rdrv'.ver = rdrv.ver

\* What no receiver step may do to its row: forget an abort, or leave the steps
\* past the boundary.
RowGrows ==
    /\ rcv.abort => rcv'.abort
    /\ rcv.step \in Past => rcv'.step \in Past
    /\ rcv.takeFailed => rcv'.takeFailed

\* A source step that leaves the record alone and forgets or keeps its reading
\* keeps the reading true.
LEMMA SourceInvKept ==
    ASSUME TypeOK, SourceInv, RecordInv, UNCHANGED <<rec, rcv>>, SourceEnds \/ SourceStays
    PROVE  SourceInv'
  <1>1. CASE SourceEnds
     BY <1>1 DEF SourceEnds, SourceInv, Reading, RecordInv, Versions, TypeOK, SharedType, RecStates
  <1>2. CASE SourceStays
     BY <1>2 DEF SourceStays, SourceInv, Reading
  <1> QED BY <1>1, <1>2

\* The same for the receiver.
LEMMA ReadingKept ==
    ASSUME TypeOK, RecordInv, Reading(rdrv), UNCHANGED rec, ReceiverEnds \/ ReceiverStays
    PROVE  Reading(rdrv)'
  <1>1. CASE ReceiverEnds
    BY <1>1 DEF ReceiverEnds, Reading, RecordInv, Versions, TypeOK, SharedType, RecStates
  <1>2. CASE ReceiverStays
    BY <1>2 DEF ReceiverStays, Reading
  <1> QED BY <1>1, <1>2

\* A receiver step that leaves the record alone keeps what the others rely on.
LEMMA OthersKept ==
    ASSUME RecordInv, WriteInv, SourceInv, UNCHANGED <<rec, recq, sdrv>>, RowGrows
    PROVE  RecordInv' /\ WriteInv' /\ SourceInv'
  <1>1. RecordInv'
    BY DEF RecordInv, RowGrows
  <1>2. WriteInv'
    BY DEF WriteInv, RowGrows
  <1>3. SourceInv'
    BY DEF SourceInv, Reading, RowGrows
  <1> QED BY <1>1, <1>2, <1>3

\* The source's steps that do not write the record.
SourceLocal ==
    \/ AdmitMove \/ SourceRequestAbort \/ SourceRetryAbort \/ SourceCrash
    \/ SourceBusy \/ SourceRefused \/ SourceViolation \/ SourceReseal
    \/ SourceSeal \/ SourceAppendInbox \/ SourceHandoff
    \/ SourceSettlePending \/ SourceAbortDoor \/ SourceCloseDoor
    \/ \E p \in Participants :
          \/ SourcePrepare(p) \/ SourceExport(p) \/ SourceRelease(p)
          \/ SourceAbortParticipant(p)

\* Each of them forgets or keeps the pass's reading of the record, and none
\* touches the record, its writes in flight or the receiver.
LEMMA SourceLocalShape ==
    ASSUME TypeOK, SourceLocal
    PROVE  /\ SourceEnds \/ SourceStays
           /\ UNCHANGED <<rec, recq, rcv, rdrv>>
  <1> DEFINE Shape == /\ SourceEnds \/ SourceStays
                      /\ UNCHANGED <<rec, recq, rcv, rdrv>>
  <1>1. CASE AdmitMove
    <2>1. SourceEnds \/ SourceStays
      BY <1>1
        DEF AdmitMove, SourceEnds, SourceStays, TypeOK, SourceMemory, SIdle,
            SPc, Answered, Unresolved
    <2>2. UNCHANGED <<rec, recq, rcv, rdrv>>
      BY <1>1 DEF AdmitMove, SourceFrame, rcvVars, shared
    <2> QED  BY <2>1, <2>2
  <1>2. CASE SourceRequestAbort
    <2>1. SourceEnds \/ SourceStays
      BY <1>2
        DEF SourceRequestAbort, SourceEnds, SourceStays, TypeOK, SourceMemory,
            SIdle, SPc, Answered, Unresolved
    <2>2. UNCHANGED <<rec, recq, rcv, rdrv>>
      BY <1>2 DEF SourceRequestAbort, SourceFrame, rcvVars, shared
    <2> QED  BY <2>1, <2>2
  <1>3. CASE SourceRetryAbort
    <2>1. SourceEnds \/ SourceStays
      BY <1>3
        DEF SourceRetryAbort, SourceEnds, SourceStays, TypeOK, SourceMemory,
            SIdle, SPc, Answered, Unresolved
    <2>2. UNCHANGED <<rec, recq, rcv, rdrv>>
      BY <1>3 DEF SourceRetryAbort, SourceFrame, rcvVars, shared
    <2> QED  BY <2>1, <2>2
  <1>4. CASE SourceCrash
    <2>1. SourceEnds \/ SourceStays
      BY <1>4
        DEF SourceCrash, SourceEnds, SourceStays, TypeOK, SourceMemory, SIdle,
            SPc, Answered, Unresolved
    <2>2. UNCHANGED <<rec, recq, rcv, rdrv>>
      BY <1>4 DEF SourceCrash, SourceFrame, rcvVars, shared
    <2> QED  BY <2>1, <2>2
  <1>5. CASE SourceBusy
    <2>1. SourceEnds \/ SourceStays
      BY <1>5
        DEF SourceBusy, SourceEnds, SourceStays, TypeOK, SourceMemory, SIdle,
            SPc, Answered, Unresolved
    <2>2. UNCHANGED <<rec, recq, rcv, rdrv>>
      BY <1>5 DEF SourceBusy, SourceFrame, rcvVars, shared
    <2> QED  BY <2>1, <2>2
  <1>6. CASE SourceRefused
    <2>1. SourceEnds \/ SourceStays
      BY <1>6
        DEF SourceRefused, SourceEnds, SourceStays, TypeOK, SourceMemory,
            SIdle, SPc, Answered, Unresolved
    <2>2. UNCHANGED <<rec, recq, rcv, rdrv>>
      BY <1>6 DEF SourceRefused, SourceFrame, rcvVars, shared
    <2> QED  BY <2>1, <2>2
  <1>7. CASE SourceViolation
    <2>1. SourceEnds \/ SourceStays
      BY <1>7
        DEF SourceViolation, SourceEnds, SourceStays, TypeOK, SourceMemory,
            SIdle, SPc, Answered, Unresolved
    <2>2. UNCHANGED <<rec, recq, rcv, rdrv>>
      BY <1>7 DEF SourceViolation, SourceFrame, rcvVars, shared
    <2> QED  BY <2>1, <2>2
  <1>8. CASE SourceReseal
    <2>1. SourceEnds \/ SourceStays
      BY <1>8
        DEF SourceReseal, SourceEnds, SourceStays, TypeOK, SourceMemory,
            SIdle, SPc, Answered, Unresolved
    <2>2. UNCHANGED <<rec, recq, rcv, rdrv>>
      BY <1>8 DEF SourceReseal, SourceFrame, rcvVars, shared
    <2> QED  BY <2>1, <2>2
  <1>9. CASE SourceSeal
    <2>1. SourceEnds \/ SourceStays
      BY <1>9
        DEF SourceSeal, SourceEnds, SourceStays, TypeOK, SourceMemory, SIdle,
            SPc, Answered, Unresolved
    <2>2. UNCHANGED <<rec, recq, rcv, rdrv>>
      BY <1>9 DEF SourceSeal, SourceFrame, rcvVars, shared
    <2> QED  BY <2>1, <2>2
  <1>10. CASE SourceAppendInbox
    <2>1. SourceEnds \/ SourceStays
      BY <1>10
        DEF SourceAppendInbox, SourceEnds, SourceStays, TypeOK, SourceMemory,
            SIdle, SPc, Answered, Unresolved
    <2>2. UNCHANGED <<rec, recq, rcv, rdrv>>
      BY <1>10 DEF SourceAppendInbox, SourceFrame, rcvVars, shared
    <2> QED  BY <2>1, <2>2
  <1>11. CASE SourceHandoff
    <2>1. SourceEnds \/ SourceStays
      BY <1>11
        DEF SourceHandoff, SourceEnds, SourceStays, TypeOK, SourceMemory,
            SIdle, SPc, Answered, Unresolved
    <2>2. UNCHANGED <<rec, recq, rcv, rdrv>>
      BY <1>11 DEF SourceHandoff, SourceFrame, rcvVars, shared
    <2> QED  BY <2>1, <2>2
  <1>12. CASE SourceSettlePending
    <2>1. SourceEnds \/ SourceStays
      BY <1>12
        DEF SourceSettlePending, SourceEnds, SourceStays, TypeOK,
            SourceMemory, SIdle, SPc, Answered, Unresolved
    <2>2. UNCHANGED <<rec, recq, rcv, rdrv>>
      BY <1>12 DEF SourceSettlePending, SourceFrame, rcvVars, shared
    <2> QED  BY <2>1, <2>2
  <1>13. CASE SourceAbortDoor
    <2>1. SourceEnds \/ SourceStays
      BY <1>13
        DEF SourceAbortDoor, SourceEnds, SourceStays, TypeOK, SourceMemory,
            SIdle, SPc, Answered, Unresolved
    <2>2. UNCHANGED <<rec, recq, rcv, rdrv>>
      BY <1>13 DEF SourceAbortDoor, SourceFrame, rcvVars, shared
    <2> QED  BY <2>1, <2>2
  <1>14. CASE SourceCloseDoor
    <2>1. SourceEnds \/ SourceStays
      BY <1>14
        DEF SourceCloseDoor, SourceEnds, SourceStays, TypeOK, SourceMemory,
            SIdle, SPc, Answered, Unresolved
    <2>2. UNCHANGED <<rec, recq, rcv, rdrv>>
      BY <1>14 DEF SourceCloseDoor, SourceFrame, rcvVars, shared
    <2> QED  BY <2>1, <2>2
  <1>15. ASSUME NEW p \in Participants, SourcePrepare(p)
        PROVE  Shape
    <2>1. SourceEnds \/ SourceStays
      BY <1>15
        DEF SourcePrepare, SourceEnds, SourceStays, TypeOK, SourceMemory,
            SIdle, SPc, Answered, Unresolved
    <2>2. UNCHANGED <<rec, recq, rcv, rdrv>>
      BY <1>15 DEF SourcePrepare, SourceFrame, rcvVars, shared
    <2> QED  BY <2>1, <2>2
  <1>16. ASSUME NEW p \in Participants, SourceExport(p)
        PROVE  Shape
    <2>1. SourceEnds \/ SourceStays
      BY <1>16
        DEF SourceExport, SourceEnds, SourceStays, TypeOK, SourceMemory,
            SIdle, SPc, Answered, Unresolved
    <2>2. UNCHANGED <<rec, recq, rcv, rdrv>>
      BY <1>16 DEF SourceExport, SourceFrame, rcvVars, shared
    <2> QED  BY <2>1, <2>2
  <1>17. ASSUME NEW p \in Participants, SourceRelease(p)
        PROVE  Shape
    <2>1. SourceEnds \/ SourceStays
      BY <1>17
        DEF SourceRelease, SourceEnds, SourceStays, TypeOK, SourceMemory,
            SIdle, SPc, Answered, Unresolved
    <2>2. UNCHANGED <<rec, recq, rcv, rdrv>>
      BY <1>17 DEF SourceRelease, SourceFrame, rcvVars, shared
    <2> QED  BY <2>1, <2>2
  <1>18. ASSUME NEW p \in Participants, SourceAbortParticipant(p)
        PROVE  Shape
    <2>1. SourceEnds \/ SourceStays
      BY <1>18
        DEF SourceAbortParticipant, SourceEnds, SourceStays, TypeOK,
            SourceMemory, SIdle, SPc, Answered, Unresolved
    <2>2. UNCHANGED <<rec, recq, rcv, rdrv>>
      BY <1>18 DEF SourceAbortParticipant, SourceFrame, rcvVars, shared
    <2> QED  BY <2>1, <2>2
  <1> QED
    BY <1>1, <1>2, <1>3, <1>4, <1>5, <1>6, <1>7, <1>8, <1>9, <1>10, <1>11,
       <1>12, <1>13, <1>14, <1>15, <1>16, <1>17, <1>18
      DEF SourceLocal

\* The receiver's steps that do not write the record.
ReceiverLocal ==
    \/ ReceiverPoll \/ ReceiverRequestAbort \/ ReceiverRetryAbort
    \/ ReceiverCrash \/ ReceiverHold \/ ReceiverRefused \/ ReceiverStopped
    \/ ReceiverSettlePending \/ ReceiverChecks \/ ReceiverImported
    \/ ReceiverTakeRead \/ ReceiverTake \/ ReceiverFence \/ ReceiverInstall
    \/ ReceiverFinish \/ ReceiverTakeover \/ ReceiverReturnClaim
    \/ ReceiverUndoCheck \/ ReceiverAborted
    \/ \E p \in Participants :
          \/ ReceiverDiverged(p) \/ ReceiverImport(p) \/ ReceiverActivate(p)
          \/ ReceiverAbortParticipant(p)

\* None of them touches the record, its writes in flight or the source.
LEMMA ReceiverLocalFrame ==
    ASSUME ReceiverLocal
    PROVE  UNCHANGED <<rec, recq, sdrv>>
  <1> DEFINE Same == UNCHANGED <<rec, recq, sdrv>>
  <1>1. CASE ReceiverPoll
    BY <1>1 DEF ReceiverPoll, ReceiverFrame, srcVars, shared
  <1>2. CASE ReceiverRequestAbort
    BY <1>2 DEF ReceiverRequestAbort, ReceiverFrame, srcVars, shared
  <1>3. CASE ReceiverRetryAbort
    BY <1>3 DEF ReceiverRetryAbort, ReceiverFrame, srcVars, shared
  <1>4. CASE ReceiverCrash
    BY <1>4 DEF ReceiverCrash, ReceiverFrame, srcVars, shared
  <1>5. CASE ReceiverHold
    BY <1>5 DEF ReceiverHold, ReceiverFrame, srcVars, shared
  <1>6. CASE ReceiverRefused
    BY <1>6 DEF ReceiverRefused, ReceiverFrame, srcVars, shared
  <1>7. CASE ReceiverStopped
    BY <1>7 DEF ReceiverStopped, ReceiverFrame, srcVars, shared
  <1>8. CASE ReceiverSettlePending
    BY <1>8 DEF ReceiverSettlePending, ReceiverFrame, srcVars, shared
  <1>9. CASE ReceiverChecks
    BY <1>9 DEF ReceiverChecks, ReceiverFrame, srcVars, shared
  <1>10. CASE ReceiverImported
    BY <1>10 DEF ReceiverImported, ReceiverFrame, srcVars, shared
  <1>11. CASE ReceiverTakeRead
    BY <1>11 DEF ReceiverTakeRead, ReceiverFrame, srcVars, shared
  <1>12. CASE ReceiverTake
    BY <1>12 DEF ReceiverTake, ReceiverFrame, srcVars, shared
  <1>13. CASE ReceiverFence
    BY <1>13 DEF ReceiverFence, ReceiverFrame, srcVars, shared
  <1>14. CASE ReceiverInstall
    BY <1>14 DEF ReceiverInstall, ReceiverFrame, srcVars, shared
  <1>15. CASE ReceiverFinish
    BY <1>15 DEF ReceiverFinish, ReceiverFrame, srcVars, shared
  <1>16. CASE ReceiverTakeover
    BY <1>16 DEF ReceiverTakeover, ReceiverFrame, srcVars, shared
  <1>17. CASE ReceiverReturnClaim
    BY <1>17 DEF ReceiverReturnClaim, ReceiverFrame, srcVars, shared
  <1>18. CASE ReceiverUndoCheck
    BY <1>18 DEF ReceiverUndoCheck, ReceiverFrame, srcVars, shared
  <1>19. CASE ReceiverAborted
    BY <1>19 DEF ReceiverAborted, ReceiverFrame, srcVars, shared
  <1>20. ASSUME NEW p \in Participants, ReceiverDiverged(p)
        PROVE  Same
    BY <1>20 DEF ReceiverDiverged, ReceiverFrame, srcVars, shared
  <1>21. ASSUME NEW p \in Participants, ReceiverImport(p)
        PROVE  Same
    BY <1>21 DEF ReceiverImport, ReceiverFrame, srcVars, shared
  <1>22. ASSUME NEW p \in Participants, ReceiverActivate(p)
        PROVE  Same
    BY <1>22 DEF ReceiverActivate, ReceiverFrame, srcVars, shared
  <1>23. ASSUME NEW p \in Participants, ReceiverAbortParticipant(p)
        PROVE  Same
    BY <1>23 DEF ReceiverAbortParticipant, ReceiverFrame, srcVars, shared
  <1> QED
    BY <1>1, <1>2, <1>3, <1>4, <1>5, <1>6, <1>7, <1>8, <1>9, <1>10, <1>11,
       <1>12, <1>13, <1>14, <1>15, <1>16, <1>17, <1>18, <1>19, <1>20, <1>21,
       <1>22, <1>23
      DEF ReceiverLocal

\* Each of them forgets or keeps the pass's reading, keeps a requested abort and
\* the boundary, and leaves place, row and record consistent.
LEMMA ReceiverLocalShape ==
    ASSUME TypeOK, ReceiverInv, ReceiverLocal
    PROVE  (ReceiverEnds \/ ReceiverStays) /\ RowGrows /\ PlaceInv' /\ RowInv'
  <1> DEFINE Shape ==
        (ReceiverEnds \/ ReceiverStays) /\ RowGrows /\ PlaceInv' /\ RowInv'
  <1>0. UNCHANGED rec
    BY ReceiverLocalFrame
  <1>1. CASE ReceiverPoll
    <2>1. ReceiverEnds \/ ReceiverStays
      BY <1>1
        DEF ReceiverPoll, ReceiverEnds, ReceiverStays, TypeOK, ReceiverMemory,
            RIdle, RPc, Answered, Unresolved
    <2>2. RowGrows
      BY <1>1
        DEF ReceiverPoll, RowGrows, TypeOK, ReceiverRow, ReceiverInv,
            PlaceInv, RowInv, Past, ReceiverBefore, Importing, Claiming,
            Undoing
    <2>3. PlaceInv'
      BY <1>1
        DEF ReceiverPoll, TypeOK, ReceiverMemory, ReceiverRow, RIdle, RPc,
            Answered, Unresolved, ReceiverInv, PlaceInv, RowInv, Past,
            ReceiverBefore, Importing, Claiming, Undoing
    <2>4. RowInv'
      BY <1>0, <1>1
        DEF ReceiverPoll, TypeOK, ReceiverRow, ReceiverInv, PlaceInv, RowInv,
            Past, ReceiverBefore, Importing, Claiming, Undoing
    <2> QED  BY <2>1, <2>2, <2>3, <2>4
  <1>2. CASE ReceiverRequestAbort
    <2>1. ReceiverEnds \/ ReceiverStays
      BY <1>2
        DEF ReceiverRequestAbort, ReceiverEnds, ReceiverStays, TypeOK,
            ReceiverMemory, RIdle, RPc, Answered, Unresolved
    <2>2. RowGrows
      BY <1>2
        DEF ReceiverRequestAbort, RowGrows, TypeOK, ReceiverRow, ReceiverInv,
            PlaceInv, RowInv, Past, ReceiverBefore, Importing, Claiming,
            Undoing
    <2>3. PlaceInv'
      BY <1>2
        DEF ReceiverRequestAbort, TypeOK, ReceiverMemory, ReceiverRow, RIdle,
            RPc, Answered, Unresolved, ReceiverInv, PlaceInv, RowInv, Past,
            ReceiverBefore, Importing, Claiming, Undoing
    <2>4. RowInv'
      BY <1>0, <1>2
        DEF ReceiverRequestAbort, TypeOK, ReceiverRow, ReceiverInv, PlaceInv,
            RowInv, Past, ReceiverBefore, Importing, Claiming, Undoing
    <2> QED  BY <2>1, <2>2, <2>3, <2>4
  <1>3. CASE ReceiverRetryAbort
    <2>1. ReceiverEnds \/ ReceiverStays
      BY <1>3
        DEF ReceiverRetryAbort, ReceiverEnds, ReceiverStays, TypeOK,
            ReceiverMemory, RIdle, RPc, Answered, Unresolved
    <2>2. RowGrows
      BY <1>3
        DEF ReceiverRetryAbort, RowGrows, TypeOK, ReceiverRow, ReceiverInv,
            PlaceInv, RowInv, Past, ReceiverBefore, Importing, Claiming,
            Undoing
    <2>3. PlaceInv'
      BY <1>3
        DEF ReceiverRetryAbort, TypeOK, ReceiverMemory, ReceiverRow, RIdle,
            RPc, Answered, Unresolved, ReceiverInv, PlaceInv, RowInv, Past,
            ReceiverBefore, Importing, Claiming, Undoing
    <2>4. RowInv'
      BY <1>0, <1>3
        DEF ReceiverRetryAbort, TypeOK, ReceiverRow, ReceiverInv, PlaceInv,
            RowInv, Past, ReceiverBefore, Importing, Claiming, Undoing
    <2> QED  BY <2>1, <2>2, <2>3, <2>4
  <1>4. CASE ReceiverCrash
    <2>1. ReceiverEnds \/ ReceiverStays
      BY <1>4
        DEF ReceiverCrash, ReceiverEnds, ReceiverStays, TypeOK,
            ReceiverMemory, RIdle, RPc, Answered, Unresolved
    <2>2. RowGrows
      BY <1>4
        DEF ReceiverCrash, RowGrows, TypeOK, ReceiverRow, ReceiverInv,
            PlaceInv, RowInv, Past, ReceiverBefore, Importing, Claiming,
            Undoing
    <2>3. PlaceInv'
      BY <1>4
        DEF ReceiverCrash, TypeOK, ReceiverMemory, ReceiverRow, RIdle, RPc,
            Answered, Unresolved, ReceiverInv, PlaceInv, RowInv, Past,
            ReceiverBefore, Importing, Claiming, Undoing
    <2>4. RowInv'
      BY <1>0, <1>4
        DEF ReceiverCrash, TypeOK, ReceiverRow, ReceiverInv, PlaceInv, RowInv,
            Past, ReceiverBefore, Importing, Claiming, Undoing
    <2> QED  BY <2>1, <2>2, <2>3, <2>4
  <1>5. CASE ReceiverHold
    <2>1. ReceiverEnds \/ ReceiverStays
      BY <1>5
        DEF ReceiverHold, ReceiverEnds, ReceiverStays, TypeOK, ReceiverMemory,
            RIdle, RPc, Answered, Unresolved
    <2>2. RowGrows
      BY <1>5
        DEF ReceiverHold, RowGrows, TypeOK, ReceiverRow, ReceiverInv,
            PlaceInv, RowInv, Past, ReceiverBefore, Importing, Claiming,
            Undoing
    <2>3. PlaceInv'
      BY <1>5
        DEF ReceiverHold, TypeOK, ReceiverMemory, ReceiverRow, RIdle, RPc,
            Answered, Unresolved, ReceiverInv, PlaceInv, RowInv, Past,
            ReceiverBefore, Importing, Claiming, Undoing
    <2>4. RowInv'
      BY <1>0, <1>5
        DEF ReceiverHold, TypeOK, ReceiverRow, ReceiverInv, PlaceInv, RowInv,
            Past, ReceiverBefore, Importing, Claiming, Undoing
    <2> QED  BY <2>1, <2>2, <2>3, <2>4
  <1>6. CASE ReceiverRefused
    <2>1. ReceiverEnds \/ ReceiverStays
      BY <1>6
        DEF ReceiverRefused, ReceiverEnds, ReceiverStays, TypeOK,
            ReceiverMemory, RIdle, RPc, Answered, Unresolved
    <2>2. RowGrows
      BY <1>6
        DEF ReceiverRefused, RowGrows, TypeOK, ReceiverRow, ReceiverInv,
            PlaceInv, RowInv, Past, ReceiverBefore, Importing, Claiming,
            Undoing
    <2>3. PlaceInv'
      BY <1>6
        DEF ReceiverRefused, TypeOK, ReceiverMemory, ReceiverRow, RIdle, RPc,
            Answered, Unresolved, ReceiverInv, PlaceInv, RowInv, Past,
            ReceiverBefore, Importing, Claiming, Undoing
    <2>4. RowInv'
      BY <1>0, <1>6
        DEF ReceiverRefused, TypeOK, ReceiverRow, ReceiverInv, PlaceInv,
            RowInv, Past, ReceiverBefore, Importing, Claiming, Undoing
    <2> QED  BY <2>1, <2>2, <2>3, <2>4
  <1>7. CASE ReceiverStopped
    <2>1. ReceiverEnds \/ ReceiverStays
      BY <1>7
        DEF ReceiverStopped, ReceiverEnds, ReceiverStays, TypeOK,
            ReceiverMemory, RIdle, RPc, Answered, Unresolved
    <2>2. RowGrows
      BY <1>7
        DEF ReceiverStopped, RowGrows, TypeOK, ReceiverRow, ReceiverInv,
            PlaceInv, RowInv, Past, ReceiverBefore, Importing, Claiming,
            Undoing
    <2>3. PlaceInv'
      BY <1>7
        DEF ReceiverStopped, TypeOK, ReceiverMemory, ReceiverRow, RIdle, RPc,
            Answered, Unresolved, ReceiverInv, PlaceInv, RowInv, Past,
            ReceiverBefore, Importing, Claiming, Undoing
    <2>4. RowInv'
      BY <1>0, <1>7
        DEF ReceiverStopped, TypeOK, ReceiverRow, ReceiverInv, PlaceInv,
            RowInv, Past, ReceiverBefore, Importing, Claiming, Undoing
    <2> QED  BY <2>1, <2>2, <2>3, <2>4
  <1>8. CASE ReceiverSettlePending
    <2>1. ReceiverEnds \/ ReceiverStays
      BY <1>8
        DEF ReceiverSettlePending, ReceiverEnds, ReceiverStays, TypeOK,
            ReceiverMemory, RIdle, RPc, Answered, Unresolved
    <2>2. RowGrows
      BY <1>8
        DEF ReceiverSettlePending, RowGrows, TypeOK, ReceiverRow, ReceiverInv,
            PlaceInv, RowInv, Past, ReceiverBefore, Importing, Claiming,
            Undoing, AfterSettle
    <2>3. PlaceInv'
      <3>1. /\ rcv'.step = rcv.step /\ (rcv.abort => rcv'.abort)
            /\ rdrv'.pc = "idle" \/ (rdrv'.pc = AfterSettle /\ rcv'.pending = {})
        BY <1>8 DEF ReceiverSettlePending, TypeOK, ReceiverMemory, ReceiverRow, RIdle, RPc
      <3>2. CASE rdrv.pc = "undo_settle"
        BY <3>1, <3>2 DEF AfterSettle, ReceiverInv, PlaceInv, Importing, Claiming, Undoing
      <3>3. CASE rdrv.pc = "settle"
        BY <3>1, <3>3 DEF AfterSettle, ReceiverInv, PlaceInv, Importing, Claiming, Undoing
      <3> QED  BY <1>8, <3>2, <3>3 DEF ReceiverSettlePending
    <2>4. RowInv'
      <3>1. \/ UNCHANGED <<rcv>>
            \/ \E p \in Participants :
                  /\ <<"import", p>> \in rcv.pending
                  /\ rcv' = [rcv EXCEPT !.abort = TRUE]
            \/ rcv'.step = rcv.step /\ rcv'.abort = rcv.abort /\ rcv'.pending = {}
        BY <1>8 DEF ReceiverSettlePending, TypeOK, ReceiverRow
      <3>2. CASE UNCHANGED <<rcv>>
        BY <1>0, <3>2 DEF ReceiverInv, RowInv
      <3>3. ASSUME NEW p \in Participants, <<"import", p>> \in rcv.pending,
                   rcv' = [rcv EXCEPT !.abort = TRUE]
            PROVE  RowInv'
        <4>1. rcv.step \in {"picked_up", "aborted"} /\ rcv'.step = rcv.step
          BY <3>3 DEF ReceiverInv, RowInv, TypeOK, ReceiverRow
        <4> QED  BY <4>1 DEF RowInv, Past
      <3>4. CASE rcv'.step = rcv.step /\ rcv'.abort = rcv.abort /\ rcv'.pending = {}
        BY <1>0, <3>4 DEF ReceiverInv, RowInv
      <3> QED  BY <3>1, <3>2, <3>3, <3>4
    <2> QED  BY <2>1, <2>2, <2>3, <2>4
  <1>9. CASE ReceiverChecks
    <2>1. ReceiverEnds \/ ReceiverStays
      BY <1>9
        DEF ReceiverChecks, ReceiverEnds, ReceiverStays, TypeOK,
            ReceiverMemory, RIdle, RPc, Answered, Unresolved
    <2>2. RowGrows
      BY <1>9
        DEF ReceiverChecks, RowGrows, TypeOK, ReceiverRow, ReceiverInv,
            PlaceInv, RowInv, Past, ReceiverBefore, Importing, Claiming,
            Undoing, TakePc
    <2>3. PlaceInv'
      <3>1. /\ rcv' = rcv /\ rdrv'.obs = rdrv.obs
            /\ \/ rdrv.pc = "check" /\ rdrv'.pc = "diverged"
               \/ rdrv.pc = "writers" /\ rdrv'.pc = "import"
               \/ rdrv.pc = "preflight" /\ rdrv'.pc = TakePc
        BY <1>9 DEF ReceiverChecks, TypeOK, ReceiverMemory, RPc
      <3>2. \/ rdrv.pc \in Importing /\ rdrv'.pc \in {"diverged", "import"}
            \/ rdrv.pc \in Claiming /\ rdrv'.pc \in {"cas_claimed", "take", "take_read"}
        BY <3>1 DEF TakePc, Importing, Claiming
      <3>3. CASE rdrv.pc \in Importing /\ rdrv'.pc \in {"diverged", "import"}
        BY <3>1, <3>3 DEF ReceiverInv, PlaceInv, Importing, Claiming, Undoing
      <3>4. CASE rdrv.pc \in Claiming /\ rdrv'.pc \in {"cas_claimed", "take", "take_read"}
        BY <3>1, <3>4 DEF ReceiverInv, PlaceInv, Importing, Claiming, Undoing
      <3> QED  BY <3>2, <3>3, <3>4
    <2>4. RowInv'
      BY <1>0, <1>9
        DEF ReceiverChecks, TypeOK, ReceiverRow, ReceiverInv, PlaceInv,
            RowInv, Past, ReceiverBefore, Importing, Claiming, Undoing
    <2> QED  BY <2>1, <2>2, <2>3, <2>4
  <1>10. CASE ReceiverImported
    <2>1. ReceiverEnds \/ ReceiverStays
      BY <1>10
        DEF ReceiverImported, ReceiverEnds, ReceiverStays, TypeOK,
            ReceiverMemory, RIdle, RPc, Answered, Unresolved
    <2>2. RowGrows
      BY <1>10
        DEF ReceiverImported, RowGrows, TypeOK, ReceiverRow, ReceiverInv,
            PlaceInv, RowInv, Past, ReceiverBefore, Importing, Claiming,
            Undoing
    <2>3. PlaceInv'
      BY <1>10
        DEF ReceiverImported, TypeOK, ReceiverMemory, ReceiverRow, RIdle, RPc,
            Answered, Unresolved, ReceiverInv, PlaceInv, RowInv, Past,
            ReceiverBefore, Importing, Claiming, Undoing
    <2>4. RowInv'
      BY <1>0, <1>10
        DEF ReceiverImported, TypeOK, ReceiverRow, ReceiverInv, PlaceInv,
            RowInv, Past, ReceiverBefore, Importing, Claiming, Undoing
    <2> QED  BY <2>1, <2>2, <2>3, <2>4
  <1>11. CASE ReceiverTakeRead
    <2>1. ReceiverEnds \/ ReceiverStays
      BY <1>11
        DEF ReceiverTakeRead, ReceiverEnds, ReceiverStays, TypeOK,
            ReceiverMemory, RIdle, RPc, Answered, Unresolved
    <2>2. RowGrows
      BY <1>11
        DEF ReceiverTakeRead, RowGrows, TypeOK, ReceiverRow, ReceiverInv,
            PlaceInv, RowInv, Past, ReceiverBefore, Importing, Claiming,
            Undoing
    <2>3. PlaceInv'
      <3>1. rcv.step = "staged" /\ rdrv.obs \in {"staged", "claimed"}
        BY <1>11 DEF ReceiverTakeRead, ReceiverInv, PlaceInv, Claiming
      <3>2. /\ rdrv'.pc = "idle" \/ (rdrv'.pc = "take" /\ rdrv'.obs = rdrv.obs)
            /\ rcv'.step = rcv.step
        BY <1>11 DEF ReceiverTakeRead, TypeOK, ReceiverMemory, ReceiverRow, RIdle, RPc
      <3> QED  BY <3>1, <3>2 DEF PlaceInv, Importing, Claiming, Undoing
    <2>4. RowInv'
      BY <1>0, <1>11
        DEF ReceiverTakeRead, TypeOK, ReceiverRow, ReceiverInv, PlaceInv,
            RowInv, Past, ReceiverBefore, Importing, Claiming, Undoing
    <2> QED  BY <2>1, <2>2, <2>3, <2>4
  <1>12. CASE ReceiverTake
    <2>1. ReceiverEnds \/ ReceiverStays
      BY <1>12
        DEF ReceiverTake, ReceiverEnds, ReceiverStays, TypeOK, ReceiverMemory,
            RIdle, RPc, Answered, Unresolved
    <2>2. RowGrows
      BY <1>12
        DEF ReceiverTake, RowGrows, TypeOK, ReceiverRow, ReceiverInv,
            PlaceInv, RowInv, Past, ReceiverBefore, Importing, Claiming,
            Undoing
    <2>3. PlaceInv'
      <3>1. rcv'.step = rcv.step /\ (rcv.abort => rcv'.abort)
        BY <1>12 DEF ReceiverTake, TypeOK, ReceiverRow
      <3>2. CASE rdrv.pc = "take"
        <4>1. \/ rdrv'.pc = "idle"
              \/ rdrv'.pc = "cas_claimed" /\ rdrv'.obs = rdrv.obs
          BY <1>12, <3>2 DEF ReceiverTake, TypeOK, ReceiverMemory, RIdle, RPc
        <4>2. rcv.step = "staged" /\ rdrv.obs \in {"staged", "claimed"}
          BY <3>2 DEF ReceiverInv, PlaceInv, Claiming
        <4> QED  BY <3>1, <4>1, <4>2 DEF PlaceInv, Importing, Claiming, Undoing
      <3>3. CASE rdrv.pc = "undo_take"
        <4>1. rdrv'.pc \in {"idle", "undo_return"}
          BY <1>12, <3>3 DEF ReceiverTake, TypeOK, ReceiverMemory, RIdle, RPc
        <4>2. rcv.step \in ReceiverBefore /\ rcv.abort
          BY <3>3 DEF ReceiverInv, PlaceInv, Undoing
        <4> QED  BY <3>1, <4>1, <4>2 DEF PlaceInv, Importing, Claiming, Undoing
      <3> QED  BY <1>12, <3>2, <3>3 DEF ReceiverTake
    <2>4. RowInv'
      BY <1>0, <1>12
        DEF ReceiverTake, TypeOK, ReceiverRow, ReceiverInv, PlaceInv, RowInv,
            Past, ReceiverBefore, Importing, Claiming, Undoing
    <2> QED  BY <2>1, <2>2, <2>3, <2>4
  <1>13. CASE ReceiverFence
    <2>1. ReceiverEnds \/ ReceiverStays
      BY <1>13
        DEF ReceiverFence, ReceiverEnds, ReceiverStays, TypeOK,
            ReceiverMemory, RIdle, RPc, Answered, Unresolved
    <2>2. RowGrows
      BY <1>13
        DEF ReceiverFence, RowGrows, TypeOK, ReceiverRow, ReceiverInv,
            PlaceInv, RowInv, Past, ReceiverBefore, Importing, Claiming,
            Undoing
    <2>3. PlaceInv'
      BY <1>13
        DEF ReceiverFence, TypeOK, ReceiverMemory, ReceiverRow, RIdle, RPc,
            Answered, Unresolved, ReceiverInv, PlaceInv, RowInv, Past,
            ReceiverBefore, Importing, Claiming, Undoing
    <2>4. RowInv'
      BY <1>0, <1>13
        DEF ReceiverFence, TypeOK, ReceiverRow, ReceiverInv, PlaceInv, RowInv,
            Past, ReceiverBefore, Importing, Claiming, Undoing
    <2> QED  BY <2>1, <2>2, <2>3, <2>4
  <1>14. CASE ReceiverInstall
    <2>1. ReceiverEnds \/ ReceiverStays
      BY <1>14
        DEF ReceiverInstall, ReceiverEnds, ReceiverStays, TypeOK,
            ReceiverMemory, RIdle, RPc, Answered, Unresolved
    <2>2. RowGrows
      BY <1>14
        DEF ReceiverInstall, RowGrows, TypeOK, ReceiverRow, ReceiverInv,
            PlaceInv, RowInv, Past, ReceiverBefore, Importing, Claiming,
            Undoing
    <2>3. PlaceInv'
      BY <1>14
        DEF ReceiverInstall, TypeOK, ReceiverMemory, ReceiverRow, RIdle, RPc,
            Answered, Unresolved, ReceiverInv, PlaceInv, RowInv, Past,
            ReceiverBefore, Importing, Claiming, Undoing
    <2>4. RowInv'
      BY <1>0, <1>14
        DEF ReceiverInstall, TypeOK, ReceiverRow, ReceiverInv, PlaceInv,
            RowInv, Past, ReceiverBefore, Importing, Claiming, Undoing
    <2> QED  BY <2>1, <2>2, <2>3, <2>4
  <1>15. CASE ReceiverFinish
    <2>1. ReceiverEnds \/ ReceiverStays
      BY <1>15
        DEF ReceiverFinish, ReceiverEnds, ReceiverStays, TypeOK,
            ReceiverMemory, RIdle, RPc, Answered, Unresolved
    <2>2. RowGrows
      BY <1>15
        DEF ReceiverFinish, RowGrows, TypeOK, ReceiverRow, ReceiverInv,
            PlaceInv, RowInv, Past, ReceiverBefore, Importing, Claiming,
            Undoing
    <2>3. PlaceInv'
      BY <1>15
        DEF ReceiverFinish, TypeOK, ReceiverMemory, ReceiverRow, RIdle, RPc,
            Answered, Unresolved, ReceiverInv, PlaceInv, RowInv, Past,
            ReceiverBefore, Importing, Claiming, Undoing
    <2>4. RowInv'
      BY <1>0, <1>15
        DEF ReceiverFinish, TypeOK, ReceiverRow, ReceiverInv, PlaceInv,
            RowInv, Past, ReceiverBefore, Importing, Claiming, Undoing
    <2> QED  BY <2>1, <2>2, <2>3, <2>4
  <1>16. CASE ReceiverTakeover
    <2>1. ReceiverEnds \/ ReceiverStays
      BY <1>16
        DEF ReceiverTakeover, ReceiverEnds, ReceiverStays, TypeOK,
            ReceiverMemory, RIdle, RPc, Answered, Unresolved
    <2>2. RowGrows
      BY <1>16
        DEF ReceiverTakeover, RowGrows, TypeOK, ReceiverRow, ReceiverInv,
            PlaceInv, RowInv, Past, ReceiverBefore, Importing, Claiming,
            Undoing
    <2>3. PlaceInv'
      BY <1>16
        DEF ReceiverTakeover, TypeOK, ReceiverMemory, ReceiverRow, RIdle, RPc,
            Answered, Unresolved, ReceiverInv, PlaceInv, RowInv, Past,
            ReceiverBefore, Importing, Claiming, Undoing
    <2>4. RowInv'
      BY <1>0, <1>16
        DEF ReceiverTakeover, TypeOK, ReceiverRow, ReceiverInv, PlaceInv,
            RowInv, Past, ReceiverBefore, Importing, Claiming, Undoing
    <2> QED  BY <2>1, <2>2, <2>3, <2>4
  <1>17. CASE ReceiverReturnClaim
    <2>1. ReceiverEnds \/ ReceiverStays
      BY <1>17
        DEF ReceiverReturnClaim, ReceiverEnds, ReceiverStays, TypeOK,
            ReceiverMemory, RIdle, RPc, Answered, Unresolved
    <2>2. RowGrows
      BY <1>17
        DEF ReceiverReturnClaim, RowGrows, TypeOK, ReceiverRow, ReceiverInv,
            PlaceInv, RowInv, Past, ReceiverBefore, Importing, Claiming,
            Undoing
    <2>3. PlaceInv'
      BY <1>17
        DEF ReceiverReturnClaim, TypeOK, ReceiverMemory, ReceiverRow, RIdle,
            RPc, Answered, Unresolved, ReceiverInv, PlaceInv, RowInv, Past,
            ReceiverBefore, Importing, Claiming, Undoing
    <2>4. RowInv'
      BY <1>0, <1>17
        DEF ReceiverReturnClaim, TypeOK, ReceiverRow, ReceiverInv, PlaceInv,
            RowInv, Past, ReceiverBefore, Importing, Claiming, Undoing
    <2> QED  BY <2>1, <2>2, <2>3, <2>4
  <1>18. CASE ReceiverUndoCheck
    <2>1. ReceiverEnds \/ ReceiverStays
      BY <1>18
        DEF ReceiverUndoCheck, ReceiverEnds, ReceiverStays, TypeOK,
            ReceiverMemory, RIdle, RPc, Answered, Unresolved
    <2>2. RowGrows
      BY <1>18
        DEF ReceiverUndoCheck, RowGrows, TypeOK, ReceiverRow, ReceiverInv,
            PlaceInv, RowInv, Past, ReceiverBefore, Importing, Claiming,
            Undoing
    <2>3. PlaceInv'
      BY <1>18
        DEF ReceiverUndoCheck, TypeOK, ReceiverMemory, ReceiverRow, RIdle,
            RPc, Answered, Unresolved, ReceiverInv, PlaceInv, RowInv, Past,
            ReceiverBefore, Importing, Claiming, Undoing
    <2>4. RowInv'
      BY <1>0, <1>18
        DEF ReceiverUndoCheck, TypeOK, ReceiverRow, ReceiverInv, PlaceInv,
            RowInv, Past, ReceiverBefore, Importing, Claiming, Undoing
    <2> QED  BY <2>1, <2>2, <2>3, <2>4
  <1>19. CASE ReceiverAborted
    <2>1. ReceiverEnds \/ ReceiverStays
      BY <1>19
        DEF ReceiverAborted, ReceiverEnds, ReceiverStays, TypeOK,
            ReceiverMemory, RIdle, RPc, Answered, Unresolved
    <2>2. RowGrows
      BY <1>19
        DEF ReceiverAborted, RowGrows, TypeOK, ReceiverRow, ReceiverInv,
            PlaceInv, RowInv, Past, ReceiverBefore, Importing, Claiming,
            Undoing
    <2>3. PlaceInv'
      BY <1>19
        DEF ReceiverAborted, TypeOK, ReceiverMemory, ReceiverRow, RIdle, RPc,
            Answered, Unresolved, ReceiverInv, PlaceInv, RowInv, Past,
            ReceiverBefore, Importing, Claiming, Undoing
    <2>4. RowInv'
      BY <1>0, <1>19
        DEF ReceiverAborted, TypeOK, ReceiverRow, ReceiverInv, PlaceInv,
            RowInv, Past, ReceiverBefore, Importing, Claiming, Undoing
    <2> QED  BY <2>1, <2>2, <2>3, <2>4
  <1>20. ASSUME NEW p \in Participants, ReceiverDiverged(p)
        PROVE  Shape
    <2>1. ReceiverEnds \/ ReceiverStays
      BY <1>20
        DEF ReceiverDiverged, ReceiverEnds, ReceiverStays, TypeOK,
            ReceiverMemory, RIdle, RPc, Answered, Unresolved
    <2>2. RowGrows
      BY <1>20
        DEF ReceiverDiverged, RowGrows, TypeOK, ReceiverRow, ReceiverInv,
            PlaceInv, RowInv, Past, ReceiverBefore, Importing, Claiming,
            Undoing
    <2>3. PlaceInv'
      <3>1. rcv.step = "picked_up"
        BY <1>20 DEF ReceiverDiverged, ReceiverInv, PlaceInv, Importing
      <3>2. rcv'.step = rcv.step
        BY <1>20 DEF ReceiverDiverged, TypeOK, ReceiverRow
      <3>3. \/ rdrv'.pc = "idle"
            \/ rdrv'.pc \in {"diverged", "writers"} /\ rcv'.pending = {}
        BY <1>20 DEF ReceiverDiverged, TypeOK, ReceiverMemory, ReceiverRow, RIdle,
                     RPc, Answered, Unresolved
      <3> QED  BY <3>1, <3>2, <3>3 DEF PlaceInv, Importing, Claiming, Undoing
    <2>4. RowInv'
      BY <1>0, <1>20
        DEF ReceiverDiverged, TypeOK, ReceiverRow, ReceiverInv, PlaceInv,
            RowInv, Past, ReceiverBefore, Importing, Claiming, Undoing
    <2> QED  BY <2>1, <2>2, <2>3, <2>4
  <1>21. ASSUME NEW p \in Participants, ReceiverImport(p)
        PROVE  Shape
    <2>1. ReceiverEnds \/ ReceiverStays
      BY <1>21
        DEF ReceiverImport, ReceiverEnds, ReceiverStays, TypeOK,
            ReceiverMemory, RIdle, RPc, Answered, Unresolved
    <2>2. RowGrows
      BY <1>21
        DEF ReceiverImport, RowGrows, TypeOK, ReceiverRow, ReceiverInv,
            PlaceInv, RowInv, Past, ReceiverBefore, Importing, Claiming,
            Undoing
    <2>3. PlaceInv'
      <3>1. rcv.step = "picked_up"
        BY <1>21 DEF ReceiverImport, ReceiverInv, PlaceInv, Importing
      <3>2. rcv'.step = rcv.step
        BY <1>21 DEF ReceiverImport, TypeOK, ReceiverRow
      <3>3. \/ rdrv'.pc = "idle"
            \/ rdrv'.pc \in {"import", "bindings"} /\ rcv'.pending = {}
        BY <1>21 DEF ReceiverImport, TypeOK, ReceiverMemory, ReceiverRow, RIdle,
                     RPc, Answered, Unresolved
      <3> QED  BY <3>1, <3>2, <3>3 DEF PlaceInv, Importing, Claiming, Undoing
    <2>4. RowInv'
      BY <1>0, <1>21
        DEF ReceiverImport, TypeOK, ReceiverRow, ReceiverInv, PlaceInv,
            RowInv, Past, ReceiverBefore, Importing, Claiming, Undoing
    <2> QED  BY <2>1, <2>2, <2>3, <2>4
  <1>22. ASSUME NEW p \in Participants, ReceiverActivate(p)
        PROVE  Shape
    <2>1. ReceiverEnds \/ ReceiverStays
      BY <1>22
        DEF ReceiverActivate, ReceiverEnds, ReceiverStays, TypeOK,
            ReceiverMemory, RIdle, RPc, Answered, Unresolved
    <2>2. RowGrows
      BY <1>22
        DEF ReceiverActivate, RowGrows, TypeOK, ReceiverRow, ReceiverInv,
            PlaceInv, RowInv, Past, ReceiverBefore, Importing, Claiming,
            Undoing
    <2>3. PlaceInv'
      <3>1. rcv.step = "activating" /\ rcv'.step = rcv.step
        BY <1>22 DEF ReceiverActivate, ReceiverInv, PlaceInv, TypeOK, ReceiverRow
      <3>2. rdrv'.pc \in {"idle", "activate", "cas_activated"}
        BY <1>22 DEF ReceiverActivate, TypeOK, ReceiverMemory, RIdle, RPc, Answered,
                     Unresolved
      <3> QED  BY <3>1, <3>2 DEF PlaceInv, Importing, Claiming, Undoing
    <2>4. RowInv'
      <3>1. /\ rcv'.step = rcv.step /\ rcv'.abort = rcv.abort
            /\ rcv'.pending = {} \/ rcv'.pending = {<<"activate", p>>}
        BY <1>22 DEF ReceiverActivate, TypeOK, ReceiverRow
      <3>2. \A q \in Participants : <<"import", q>> \notin rcv'.pending
        BY <3>1
      <3> QED  BY <1>0, <3>1, <3>2 DEF ReceiverInv, RowInv
    <2> QED  BY <2>1, <2>2, <2>3, <2>4
  <1>23. ASSUME NEW p \in Participants, ReceiverAbortParticipant(p)
        PROVE  Shape
    <2>1. ReceiverEnds \/ ReceiverStays
      BY <1>23
        DEF ReceiverAbortParticipant, ReceiverEnds, ReceiverStays, TypeOK,
            ReceiverMemory, RIdle, RPc, Answered, Unresolved
    <2>2. RowGrows
      BY <1>23
        DEF ReceiverAbortParticipant, RowGrows, TypeOK, ReceiverRow,
            ReceiverInv, PlaceInv, RowInv, Past, ReceiverBefore, Importing,
            Claiming, Undoing
    <2>3. PlaceInv'
      <3>1. /\ rcv.step \in ReceiverBefore /\ rcv.abort
            /\ rcv'.step = rcv.step /\ rcv'.abort = rcv.abort
        BY <1>23 DEF ReceiverAbortParticipant, ReceiverInv, PlaceInv, Undoing, TypeOK,
                     ReceiverRow
      <3>2. rdrv'.pc \in {"idle", "undo_parts"}
        BY <1>23 DEF ReceiverAbortParticipant, TypeOK, ReceiverMemory, RIdle, Unresolved
      <3> QED  BY <3>1, <3>2 DEF PlaceInv, Importing, Claiming, Undoing
    <2>4. RowInv'
      <3>1. /\ rcv'.step = rcv.step /\ rcv'.abort = rcv.abort
            /\ rcv'.pending = {} \/ rcv'.pending = {<<"abort", p>>}
        BY <1>23 DEF ReceiverAbortParticipant, TypeOK, ReceiverRow
      <3>2. \A q \in Participants : <<"import", q>> \notin rcv'.pending
        BY <3>1
      <3> QED  BY <1>0, <3>1, <3>2 DEF ReceiverInv, RowInv
    <2> QED  BY <2>1, <2>2, <2>3, <2>4
  <1> QED
    BY <1>1, <1>2, <1>3, <1>4, <1>5, <1>6, <1>7, <1>8, <1>9, <1>10, <1>11,
       <1>12, <1>13, <1>14, <1>15, <1>16, <1>17, <1>18, <1>19, <1>20, <1>21,
       <1>22, <1>23
      DEF ReceiverLocal

\* A write lands: the record advances along the contract, and every reading and
\* every write in flight becomes an older one.
LEMMA RecordAdvances ==
    ASSUME TypeOK, RecordInv, WriteInv,
           NEW state \in RecStates, NEW author \in Sides,
           rec' = [state |-> state, ver |-> rec.ver + 1, author |-> author],
           <<rec.state, state>> \in Transitions,
           state \in {"activated", "released"} => rcv.step \in Past,
           state = "aborted" => (author = "source" /\ rec.ver = 1) \/ rcv.abort,
           recq' \subseteq recq, RowGrows
    PROVE  RecordInv' /\ WriteInv'
  <1>1. rec'.ver = rec.ver + 1 /\ rec'.state = state /\ rec'.author = author
    OBVIOUS
  <1>2. rec.ver \in Nat /\ recq \subseteq RecordWrite
    BY DEF TypeOK, SharedType
  <1>3. RecordInv'
    BY <1>1, <1>2 DEF RecordInv, Versions, Transitions, RowGrows
  <1>4. WriteInv'
    <2> SUFFICES ASSUME NEW c \in recq'
                 PROVE  /\ c.expect <= rec'.ver /\ rec'.ver # c.expect
                        /\ c.state = "aborted" =>
                              IF c.author = "source" THEN c.expect = 1 ELSE rcv'.abort
                        /\ c.state \in {"activated", "released"} => rcv'.step \in Past
      BY DEF WriteInv
    <2>1. c \in recq /\ c.expect \in Nat
      BY <1>2 DEF RecordWrite
    <2>2. /\ c.expect <= rec.ver
          /\ c.state = "aborted" =>
                IF c.author = "source" THEN c.expect = 1 ELSE rcv.abort
          /\ c.state \in {"activated", "released"} => rcv.step \in Past
      BY <2>1 DEF WriteInv
    <2>3. c.expect <= rec'.ver /\ rec'.ver # c.expect
      BY <1>1, <1>2, <2>1, <2>2
    <2> QED  BY <2>2, <2>3 DEF RowGrows
  <1> QED  BY <1>3, <1>4

\* A driver's reading survives an advance of the record.
LEMMA ReadingAges ==
    ASSUME TypeOK, rec'.ver = rec.ver + 1
    PROVE  /\ Reading(sdrv) /\ sdrv'.obs = sdrv.obs /\ sdrv'.ver = sdrv.ver => Reading(sdrv)'
           /\ Reading(rdrv) /\ ReceiverStays => Reading(rdrv)'
           /\ SourceEnds => Reading(sdrv)'
           /\ ReceiverEnds => Reading(rdrv)'
  <1>1. rec.ver \in Nat /\ sdrv.ver \in Nat /\ rdrv.ver \in Nat
    BY DEF TypeOK, SharedType, SourceMemory, ReceiverMemory
  <1>2. SourceEnds => Reading(sdrv)'
    BY <1>1 DEF Reading, SourceEnds, Versions
  <1>3. ReceiverEnds => Reading(rdrv)'
    BY <1>1 DEF Reading, ReceiverEnds, Versions
  <1>4. Reading(sdrv) /\ sdrv'.obs = sdrv.obs /\ sdrv'.ver = sdrv.ver => Reading(sdrv)'
    BY <1>1 DEF Reading
  <1>5. Reading(rdrv) /\ ReceiverStays => Reading(rdrv)'
    BY <1>1 DEF Reading, ReceiverStays
  <1> QED  BY <1>2, <1>3, <1>4, <1>5

\* A write goes unanswered: it may land later only if it would be legal now.
LEMMA RecordQueued ==
    ASSUME TypeOK, RecordInv, WriteInv, UNCHANGED rec, RowGrows,
           NEW c \in RecordWrite, recq' = recq \cup {c},
           c.expect <= rec.ver,
           rec.ver = c.expect => <<rec.state, c.state>> \in Transitions,
           c.state = "aborted" => IF c.author = "source" THEN c.expect = 1 ELSE rcv.abort,
           c.state \in {"activated", "released"} => rcv.step \in Past
    PROVE  RecordInv' /\ WriteInv'
  BY DEF RecordInv, WriteInv, RowGrows

\* One write of the record by a driver: it lands now, it had landed, it lost, or
\* it goes unanswered.
LEMMA CasStep ==
    ASSUME TypeOK, RecordInv, WriteInv, RowGrows,
           NEW expect \in Nat, NEW state \in RecStates, NEW author \in Sides,
           expect <= rec.ver,
           rec.ver = expect => <<rec.state, state>> \in Transitions,
           state = "aborted" => IF author = "source" THEN expect = 1 ELSE rcv.abort,
           state \in {"activated", "released"} => rcv.step \in Past,
           \/ CasLanded(expect, state, author) /\ UNCHANGED recq
           \/ CasMoved(expect, state, author) /\ UNCHANGED recq
           \/ CasUnanswered(expect, state, author) /\ UNCHANGED rec
    PROVE  /\ RecordInv' /\ WriteInv'
           /\ \/ UNCHANGED rec
              \/ rec'.ver = rec.ver + 1 /\ <<rec.state, rec'.state>> \in Transitions
  <1>1. CASE UNCHANGED <<rec, recq>>
    BY <1>1 DEF RecordInv, WriteInv, RowGrows
  <1>2. CASE rec.ver = expect /\ UNCHANGED recq
             /\ rec' = [state |-> state, ver |-> expect + 1, author |-> author]
    <2>1. RecordInv' /\ WriteInv'
      BY <1>2, RecordAdvances
    <2> QED  BY <1>2, <2>1
  <1>3. CASE CasUnanswered(expect, state, author) /\ UNCHANGED rec
    <2> DEFINE c == [expect |-> expect, state |-> state, author |-> author]
    <2>1. c \in RecordWrite /\ recq' = recq \cup {c}
      BY <1>3 DEF CasUnanswered, RecordWrite
    <2>2. RecordInv' /\ WriteInv'
      BY <1>3, <2>1, RecordQueued
    <2> QED  BY <1>3, <2>2
  <1> QED  BY <1>1, <1>2, <1>3 DEF CasLanded, CasMoved

\* What any step may do to the record: nothing, or one transition of the
\* contract, which adds one to the version.
RecordStep ==
    \/ UNCHANGED rec
    \/ rec'.ver = rec.ver + 1 /\ <<rec.state, rec'.state>> \in Transitions

\* What the two drivers rely on survives a write by either of them.
LEMMA ReadingsKept ==
    ASSUME TypeOK, RecordInv, SourceInv, Reading(rdrv), RecordStep, RowGrows,
           SourceEnds \/ SourceStays, ReceiverEnds \/ ReceiverStays
    PROVE  SourceInv' /\ Reading(rdrv)'
  <1>1. Reading(rdrv)'
    BY ReadingKept, ReadingAges DEF RecordStep
  <1>2. Reading(sdrv)'
    <2>1. CASE UNCHANGED rec
      <3>1. CASE SourceEnds
        BY <2>1, <3>1 DEF SourceEnds, Reading, RecordInv, Versions, TypeOK, SharedType,
                          RecStates
      <3>2. CASE SourceStays
        BY <2>1, <3>2 DEF SourceStays, SourceInv, Reading
      <3> QED  BY <3>1, <3>2
    <2>2. CASE rec'.ver = rec.ver + 1
      BY <2>2, ReadingAges DEF SourceInv, SourceStays
    <2> QED  BY <2>1, <2>2 DEF RecordStep
  <1>3. SourceInv'
    BY <1>2 DEF SourceInv, SourceEnds, SourceStays, RowGrows
  <1> QED  BY <1>1, <1>3

\* A write by the source leaves the receiver's row consistent.
LEMMA RowKept ==
    ASSUME TypeOK, PlaceInv, RowInv, RecordStep, UNCHANGED <<rcv, rdrv>>
    PROVE  PlaceInv' /\ RowInv'
  <1>1. PlaceInv'
    BY DEF PlaceInv
  <1>2. rec.ver \in Nat /\ rec'.ver >= rec.ver
    BY DEF TypeOK, SharedType, RecordStep
  <1>3. rec.ver >= 2 => rec'.ver >= 2
    BY <1>2 DEF RecordStep
  <1>4. rec.ver >= 3 => rec'.ver >= 3
    BY <1>2 DEF RecordStep
  <1>5. RowInv'
    BY <1>3, <1>4 DEF RowInv
  <1> QED  BY <1>1, <1>5

\* What every step does: it keeps the invariant, moves the record along the
\* contract or not at all, and takes nothing back in the receiver's row.
GoodStep == BoundaryInv' /\ RecordStep /\ RowGrows

\* The steps that read or write the record, one by one: first a write that was
\* never answered and arrives late.
LEMMA DeliverRecordInv ==
    ASSUME TypeOK, BoundaryInv, DeliverRecord
    PROVE  GoodStep
  <1>1. PICK c \in recq :
           /\ recq' = recq \ {c}
           /\ rec' = IF rec.ver = c.expect
                     THEN [state |-> c.state, ver |-> c.expect + 1, author |-> c.author]
                     ELSE rec
    BY DEF DeliverRecord
  <1>2. UNCHANGED <<sdrv, rcv, rdrv>>
    BY DEF DeliverRecord, srcVars, rcvVars
  <1>3. c.state \in RecStates /\ c.author \in Sides
    BY DEF TypeOK, SharedType, RecordWrite
  <1>4. RowGrows /\ SourceStays /\ ReceiverStays
    BY <1>2 DEF RowGrows, SourceStays, ReceiverStays
  <1>5. RecordInv' /\ WriteInv' /\ RecordStep
    <2>1. CASE rec.ver = c.expect
      <3>1. /\ <<rec.state, c.state>> \in Transitions
            /\ c.state \in {"activated", "released"} => rcv.step \in Past
            /\ c.state = "aborted" => (c.author = "source" /\ rec.ver = 1) \/ rcv.abort
        BY <2>1 DEF BoundaryInv, WriteInv
      <3>2. RecordInv' /\ WriteInv'
        BY <1>1, <1>3, <1>4, <2>1, <3>1, RecordAdvances DEF BoundaryInv
      <3> QED  BY <1>1, <2>1, <3>1, <3>2 DEF RecordStep
    <2>2. CASE rec.ver # c.expect
      BY <1>1, <1>2, <2>2 DEF BoundaryInv, RecordInv, WriteInv, RecordStep
    <2> QED  BY <2>1, <2>2
  <1>6. SourceInv' /\ Reading(rdrv)'
    BY <1>4, <1>5, ReadingsKept DEF BoundaryInv, ReceiverInv
  <1>7. PlaceInv' /\ RowInv'
    BY <1>2, <1>5, RowKept DEF BoundaryInv, ReceiverInv
  <1> QED  BY <1>4, <1>5, <1>6, <1>7 DEF GoodStep, BoundaryInv, ReceiverInv

\* A source pass reads the record.
LEMMA SourceTickInv ==
    ASSUME TypeOK, BoundaryInv, SourceTick
    PROVE  GoodStep
  <1>1. UNCHANGED <<rec, recq, rcv, rdrv>>
    BY DEF SourceTick, shared, SourceFrame, rcvVars
  <1>2. SourceInv'
    <2>1. \/ UNCHANGED sdrv
          \/ /\ sdrv'.obs = rec.state /\ sdrv'.ver = rec.ver
             /\ sdrv'.pc = "handoff" => rec.state = "activated"
             /\ sdrv'.pc \notin {"release", "cas_released"}
          \/ /\ sdrv'.obs = "none" /\ sdrv'.ver = 0
             /\ sdrv'.pc \notin {"handoff", "release", "cas_released"}
      <3> DEFINE watching == src.step \in {"sealed", "published", "releasing"}
                 seen == IF watching THEN rec.state ELSE "none"
                 pc == SourceNextPc(SourceObserved(seen), seen, sdrv.resumed)
      <3>1. \/ UNCHANGED sdrv
            \/ sdrv' = [sdrv EXCEPT !.pc = pc, !.obs = seen,
                                    !.ver = IF watching THEN rec.ver ELSE 0]
        BY DEF SourceTick
      <3>2. /\ pc = "handoff" => seen = "activated"
            /\ pc \notin {"release", "cas_released"}
        BY DEF SourceNextPc, SourceAdvancePc
      <3>3. DOMAIN sdrv = {"pc", "obs", "ver", "done", "resumed", "held", "unres"}
        BY DEF TypeOK, SourceMemory
      <3> HIDE DEF pc
      <3>4. CASE sdrv' = [sdrv EXCEPT !.pc = pc, !.obs = seen,
                                     !.ver = IF watching THEN rec.ver ELSE 0]
        <4>1. /\ sdrv'.pc = pc /\ sdrv'.obs = seen
              /\ sdrv'.ver = IF watching THEN rec.ver ELSE 0
          BY <3>3, <3>4
        <4> QED  BY <3>2, <4>1
      <3> QED  BY <3>1, <3>4
    <2>2. rec.ver \in Nat /\ rec.state \in RecStates
      BY DEF TypeOK, SharedType
    <2>3. CASE UNCHANGED sdrv
      BY <1>1, <2>3 DEF BoundaryInv, SourceInv, Reading
    <2>4. CASE /\ sdrv'.obs = rec.state /\ sdrv'.ver = rec.ver
               /\ sdrv'.pc = "handoff" => rec.state = "activated"
               /\ sdrv'.pc \notin {"release", "cas_released"}
      BY <1>1, <2>2, <2>4 DEF BoundaryInv, RecordInv, SourceInv, Reading
    <2>5. CASE /\ sdrv'.obs = "none" /\ sdrv'.ver = 0
               /\ sdrv'.pc \notin {"handoff", "release", "cas_released"}
      BY <1>1, <2>2, <2>5 DEF BoundaryInv, RecordInv, SourceInv, Reading, Versions,
                              RecStates
    <2> QED  BY <2>1, <2>3, <2>4, <2>5
  <1> QED  BY <1>1, <1>2 DEF GoodStep, RecordStep, RowGrows, BoundaryInv, RecordInv,
                             WriteInv, ReceiverInv, Reading, PlaceInv, RowInv

\* The source creates the record.
LEMMA SourcePublishInv ==
    ASSUME TypeOK, BoundaryInv, SourcePublish
    PROVE  GoodStep
  <1>1. UNCHANGED <<rcv, rdrv>>
    BY DEF SourcePublish, SourceFrame, rcvVars
  <1>2. RowGrows /\ ReceiverStays /\ (SourceEnds \/ SourceStays)
    BY <1>1 DEF RowGrows, ReceiverStays, SourcePublish, SourceEnds, SourceStays,
                TypeOK, SourceMemory, SIdle, SPc
  <1>3. RecordInv' /\ WriteInv' /\ RecordStep
    <2>1. rec.ver \in Nat /\ (rec.ver = 0 => <<rec.state, "published">> \in Transitions)
      BY DEF BoundaryInv, RecordInv, Versions, Transitions, TypeOK, SharedType, RecStates
    <2>2. CASE UNCHANGED <<rec, recq>>
      BY <1>1, <2>2 DEF BoundaryInv, RecordInv, WriteInv, RecordStep
    <2>3. CASE ~ UNCHANGED <<rec, recq>>
      <3>1. \/ CasLanded(0, "published", "source") /\ UNCHANGED recq
            \/ CasMoved(0, "published", "source") /\ UNCHANGED recq
            \/ CasUnanswered(0, "published", "source") /\ UNCHANGED rec
        BY <2>3 DEF SourcePublish
      <3> QED  BY <1>2, <2>1, <3>1, CasStep
               DEF BoundaryInv, RecordStep, RecStates, Sides
    <2> QED  BY <2>2, <2>3
  <1>4. SourceInv' /\ Reading(rdrv)'
    BY <1>2, <1>3, ReadingsKept DEF BoundaryInv, ReceiverInv
  <1>5. PlaceInv' /\ RowInv'
    BY <1>1, <1>3, RowKept DEF BoundaryInv, ReceiverInv
  <1> QED  BY <1>2, <1>3, <1>4, <1>5 DEF GoodStep, BoundaryInv, ReceiverInv

\* The source writes released.
LEMMA SourceCasReleasedInv ==
    ASSUME TypeOK, BoundaryInv, SourceCasReleased
    PROVE  GoodStep
  <1>1. UNCHANGED <<rcv, rdrv>>
    BY DEF SourceCasReleased, SourceFrame, rcvVars
  <1>2. RowGrows /\ ReceiverStays /\ SourceEnds
    BY <1>1 DEF RowGrows, ReceiverStays, SourceCasReleased, SourceEnds,
                TypeOK, SourceMemory, SIdle
  <1>3. RecordInv' /\ WriteInv' /\ RecordStep
    <2>1. /\ sdrv.obs = "activated" /\ rcv.step \in Past
          /\ sdrv.ver \in Nat /\ sdrv.ver <= rec.ver
          /\ rec.ver = sdrv.ver => <<rec.state, "released">> \in Transitions
      BY DEF SourceCasReleased, BoundaryInv, SourceInv, Reading, Transitions, TypeOK,
             SourceMemory
    <2>2. \/ CasLanded(sdrv.ver, "released", "source") /\ UNCHANGED recq
          \/ CasMoved(sdrv.ver, "released", "source") /\ UNCHANGED recq
          \/ CasUnanswered(sdrv.ver, "released", "source") /\ UNCHANGED rec
      BY DEF SourceCasReleased
    <2> QED  BY <1>2, <2>1, <2>2, CasStep
             DEF BoundaryInv, RecordStep, RecStates, Sides
  <1>4. SourceInv' /\ Reading(rdrv)'
    BY <1>2, <1>3, ReadingsKept DEF BoundaryInv, ReceiverInv
  <1>5. PlaceInv' /\ RowInv'
    BY <1>1, <1>3, RowKept DEF BoundaryInv, ReceiverInv
  <1> QED  BY <1>2, <1>3, <1>4, <1>5 DEF GoodStep, BoundaryInv, ReceiverInv

\* The source aborts a published record.
LEMMA SourceDecideInv ==
    ASSUME TypeOK, BoundaryInv, SourceDecide
    PROVE  GoodStep
  <1>1. UNCHANGED <<rcv, rdrv>>
    BY DEF SourceDecide, SourceFrame, rcvVars
  <1>2. RowGrows /\ ReceiverStays /\ (SourceEnds \/ SourceStays)
    BY <1>1 DEF RowGrows, ReceiverStays, SourceDecide, SourceEnds, SourceStays,
                TypeOK, SourceMemory, SIdle, SPc
  <1>3. RecordInv' /\ WriteInv' /\ RecordStep
    <2>1. CASE UNCHANGED <<rec, recq>>
      BY <1>1, <2>1 DEF BoundaryInv, RecordInv, WriteInv, RecordStep
    <2>2. CASE ~ UNCHANGED <<rec, recq>>
      <3>1. /\ sdrv.obs = "published"
            /\ \/ CasLanded(sdrv.ver, "aborted", "source") /\ UNCHANGED recq
               \/ CasMoved(sdrv.ver, "aborted", "source") /\ UNCHANGED recq
               \/ CasUnanswered(sdrv.ver, "aborted", "source") /\ UNCHANGED rec
        BY <2>2 DEF SourceDecide
      <3>2. /\ sdrv.ver = 1 /\ sdrv.ver <= rec.ver
            /\ rec.ver = sdrv.ver => <<rec.state, "aborted">> \in Transitions
        BY <3>1 DEF BoundaryInv, SourceInv, Reading, Versions, Transitions
      <3> QED  BY <1>2, <3>1, <3>2, CasStep
               DEF BoundaryInv, RecordStep, RecStates, Sides
    <2> QED  BY <2>1, <2>2
  <1>4. SourceInv' /\ Reading(rdrv)'
    BY <1>2, <1>3, ReadingsKept DEF BoundaryInv, ReceiverInv
  <1>5. PlaceInv' /\ RowInv'
    BY <1>1, <1>3, RowKept DEF BoundaryInv, ReceiverInv
  <1> QED  BY <1>2, <1>3, <1>4, <1>5 DEF GoodStep, BoundaryInv, ReceiverInv

\* A receiver pass reads the record and follows an abort it finds there.
LEMMA ReceiverTickInv ==
    ASSUME TypeOK, BoundaryInv, ReceiverTick
    PROVE  GoodStep
  <1>1. UNCHANGED <<rec, recq, sdrv>>
    BY DEF ReceiverTick, shared, ReceiverFrame, srcVars
  <1>2. rec.ver \in Nat /\ rec.state \in RecStates
    BY DEF TypeOK, SharedType
  <1>3. /\ rcv'.step = rcv.step \/ (rcv.step = "activated" /\ rcv'.step = "done")
        /\ rcv'.pending = rcv.pending /\ rcv'.takeFailed = rcv.takeFailed
        /\ \/ rcv'.abort = rcv.abort /\ ~(rec.state = "aborted" /\ rcv.step \in ReceiverBefore)
           \/ rcv.step \in ReceiverBefore /\ rcv'.abort
    BY DEF ReceiverTick, TypeOK, ReceiverRow
  <1>4. \/ UNCHANGED rdrv
        \/ /\ rcv'.step = rcv.step
           /\ rdrv'.pc = IF rcv'.abort /\ rcv.step \in ReceiverBefore THEN "undo_settle"
                         ELSE ReceiverAdvancePc(rcv.step)
           /\ rdrv'.obs = rec.state /\ rdrv'.ver = rec.ver
    BY DEF ReceiverTick, ReceiverNextPc, TypeOK, ReceiverRow, ReceiverMemory
  <1>5. rdrv.pc = "idle"
    BY DEF ReceiverTick
  <1>6. RowGrows
    BY <1>3 DEF RowGrows, Past, ReceiverBefore
  <1>7. RecordInv' /\ WriteInv' /\ SourceInv'
    BY <1>1, <1>6, OthersKept DEF BoundaryInv
  <1>8. Reading(rdrv)'
    BY <1>1, <1>2, <1>4 DEF BoundaryInv, ReceiverInv, RecordInv, Reading
  <1>9. PlaceInv'
    <2>1. CASE UNCHANGED rdrv
      BY <1>5, <2>1 DEF PlaceInv, Importing, Claiming, Undoing
    <2>2. CASE rdrv'.pc = "undo_settle" /\ rcv'.abort /\ rcv'.step \in ReceiverBefore
      BY <2>2 DEF PlaceInv, Importing, Claiming, Undoing
    <2>3. CASE rdrv'.pc = "preflight" /\ rcv'.step = "staged" /\ rcv.step = "staged"
               /\ ~rcv'.abort /\ rdrv'.obs = rec.state
      <3>1. rec.state \in {"staged", "claimed"}
        BY <1>2, <1>3, <2>3 DEF BoundaryInv, RecordInv, ReceiverInv, RowInv, Versions,
                                RecStates, Past, ReceiverBefore
      <3> QED  BY <2>3, <3>1 DEF PlaceInv, Importing, Claiming, Undoing
    <2>4. CASE rdrv'.pc = ReceiverAdvancePc(rcv'.step) /\ rcv'.step # "staged"
      BY <2>4 DEF ReceiverAdvancePc, PlaceInv, Importing, Claiming, Undoing
    <2> QED  BY <1>3, <1>4, <2>1, <2>2, <2>3, <2>4 DEF ReceiverAdvancePc, ReceiverBefore
  <1>10. RowInv'
    BY <1>1, <1>3 DEF BoundaryInv, ReceiverInv, RowInv, Past, ReceiverBefore
  <1> QED  BY <1>1, <1>6, <1>7, <1>8, <1>9, <1>10
           DEF GoodStep, RecordStep, BoundaryInv, ReceiverInv

\* cas_move: the write, and what its outcomes leave of the row and the pass.
LEMMA ReceiverCasStep ==
    ASSUME TypeOK, BoundaryInv, UNCHANGED sdrv,
           NEW to \in {"staged", "claimed", "activated"}, NEW next,
           NEW pc \in {"idle", "install"},
           ReceiverCas(to, next, pc), RowGrows,
           <<rdrv.obs, to>> \in Transitions,
           to = "activated" => rcv.step \in Past
    PROVE  /\ RecordInv' /\ WriteInv' /\ SourceInv' /\ Reading(rdrv)' /\ RecordStep
           /\ ReceiverEnds \/ (ReceiverStays /\ rdrv'.pc = pc)
           /\ \/ UNCHANGED rcv /\ ReceiverEnds
              \/ rcv' = next /\ rec'.state = to
  <1>1. \/ CasLanded(rdrv.ver, to, "receiver") /\ UNCHANGED recq
        \/ CasMoved(rdrv.ver, to, "receiver") /\ UNCHANGED recq
        \/ CasUnanswered(rdrv.ver, to, "receiver") /\ UNCHANGED rec
    BY DEF ReceiverCas
  <1>2. /\ rdrv.ver \in Nat /\ rdrv.ver <= rec.ver
        /\ rec.ver = rdrv.ver => <<rec.state, to>> \in Transitions
    BY DEF BoundaryInv, ReceiverInv, Reading, TypeOK, ReceiverMemory
  <1>3. RecordInv' /\ WriteInv' /\ RecordStep
    BY <1>1, <1>2, CasStep DEF BoundaryInv, RecordStep, RecStates, Sides
  <1>4. ReceiverEnds \/ (ReceiverStays /\ rdrv'.pc = pc)
    BY DEF ReceiverCas, ReceiverEnds, ReceiverStays, TypeOK, ReceiverMemory, RIdle, RPc
  <1>5. (UNCHANGED rcv /\ ReceiverEnds) \/ (rcv' = next /\ rec'.state = to)
    <2>1. RIdle(rdrv).pc = "idle" /\ RIdle(rdrv).obs = "none" /\ RIdle(rdrv).ver = 0
      BY DEF TypeOK, ReceiverMemory, RIdle
    <2>2. CASE rcv' = next /\ CasLanded(rdrv.ver, to, "receiver")
      BY <2>2 DEF CasLanded
    <2>3. CASE UNCHANGED rcv /\ rdrv' = RIdle(rdrv)
      BY <2>1, <2>3 DEF ReceiverEnds
    <2> QED  BY <2>2, <2>3 DEF ReceiverCas
  <1>6. SourceInv' /\ Reading(rdrv)'
    BY <1>3, <1>4, ReadingsKept DEF BoundaryInv, ReceiverInv, SourceStays
  <1> QED  BY <1>3, <1>4, <1>5, <1>6

\* The receiver writes staged.
LEMMA ReceiverStageInv ==
    ASSUME TypeOK, BoundaryInv, ReceiverStage
    PROVE  GoodStep
  <1> DEFINE next == [rcv EXCEPT !.step = "staged"]
  <1>1. UNCHANGED sdrv
    BY DEF ReceiverStage, ReceiverFrame, srcVars
  <1>2. rcv.step = "imported"
    BY DEF ReceiverStage, BoundaryInv, ReceiverInv, PlaceInv
  <1>3. /\ next.step = "staged" /\ next.abort = rcv.abort /\ next.pending = rcv.pending
        /\ next.takeFailed = rcv.takeFailed /\ (rcv' = rcv \/ rcv' = next)
    BY DEF ReceiverStage, ReceiverCas, TypeOK, ReceiverRow
  <1>4. RowGrows
    BY <1>2, <1>3 DEF RowGrows, Past
  <1>5. /\ RecordInv' /\ WriteInv' /\ SourceInv' /\ Reading(rdrv)' /\ rdrv'.pc = "idle"
        /\ RecordStep
        /\ rcv' = rcv \/ rec'.ver >= 2
    <2>1. CASE rdrv.obs = "published"
      <3>1. ReceiverCas("staged", next, "idle")
        BY <2>1 DEF ReceiverStage
      <3>2. /\ RecordInv' /\ WriteInv' /\ SourceInv' /\ Reading(rdrv)'
            /\ ReceiverEnds \/ rdrv'.pc = "idle"
            /\ RecordStep
            /\ UNCHANGED rcv \/ rec'.state = "staged"
        BY <1>1, <1>4, <2>1, <3>1, ReceiverCasStep DEF Transitions
      <3>3. rec'.state = "staged" => rec'.ver >= 2
        BY <3>2 DEF RecordInv, Versions
      <3> QED  BY <3>2, <3>3 DEF ReceiverEnds
    <2>2. CASE rdrv.obs # "published"
      <3>1. UNCHANGED <<rec, recq>> /\ (rdrv.obs = "staged" \/ rcv' = rcv) /\ ReceiverEnds
        BY <2>2 DEF ReceiverStage, ReceiverEnds, TypeOK, ReceiverMemory, RIdle
      <3>2. rdrv.obs = "staged" => rec.ver >= 2
        BY DEF BoundaryInv, ReceiverInv, Reading, Versions, TypeOK, SharedType
      <3>3. RecordInv' /\ WriteInv' /\ SourceInv'
        BY <1>1, <1>4, <3>1, OthersKept DEF BoundaryInv
      <3>4. Reading(rdrv)'
        BY <3>1, ReadingKept DEF BoundaryInv, ReceiverInv
      <3> QED  BY <3>1, <3>2, <3>3, <3>4 DEF ReceiverEnds, RecordStep
    <2> QED  BY <2>1, <2>2
  <1>6. PlaceInv'
    BY <1>5 DEF PlaceInv, Importing, Claiming, Undoing
  <1>7. RowInv'
    BY <1>2, <1>3, <1>5 DEF BoundaryInv, ReceiverInv, RowInv, Past
  <1> QED  BY <1>4, <1>5, <1>6, <1>7 DEF GoodStep, BoundaryInv, ReceiverInv

\* The receiver writes claimed.
LEMMA ReceiverCasClaimedInv ==
    ASSUME TypeOK, BoundaryInv, ReceiverCasClaimed
    PROVE  GoodStep
  <1> DEFINE next == [rcv EXCEPT !.step = "claimed"]
  <1>1. UNCHANGED sdrv
    BY DEF ReceiverCasClaimed, ReceiverFrame, srcVars
  <1>2. rcv.step = "staged" /\ rdrv.obs \in {"staged", "claimed"} /\ rec.ver >= 2
    BY DEF ReceiverCasClaimed, BoundaryInv, ReceiverInv, PlaceInv, RowInv, Claiming
  <1>3. /\ next.step = "claimed" /\ next.abort = rcv.abort /\ next.pending = rcv.pending
        /\ next.takeFailed = rcv.takeFailed /\ (rcv' = rcv \/ rcv' = next)
    BY DEF ReceiverCasClaimed, ReceiverCas, TypeOK, ReceiverRow
  <1>4. RowGrows
    BY <1>2, <1>3 DEF RowGrows, Past
  <1>5. /\ RecordInv' /\ WriteInv' /\ SourceInv' /\ Reading(rdrv)' /\ rdrv'.pc = "idle"
        /\ RecordStep
        /\ rcv' = rcv \/ rec'.ver >= 3
    <2>1. CASE rdrv.obs = "staged"
      <3>1. ReceiverCas("claimed", next, "idle")
        BY <2>1 DEF ReceiverCasClaimed
      <3>2. /\ RecordInv' /\ WriteInv' /\ SourceInv' /\ Reading(rdrv)'
            /\ ReceiverEnds \/ rdrv'.pc = "idle"
            /\ RecordStep
            /\ UNCHANGED rcv \/ rec'.state = "claimed"
        BY <1>1, <1>4, <2>1, <3>1, ReceiverCasStep DEF Transitions
      <3>3. rec'.state = "claimed" => rec'.ver >= 3
        BY <3>2 DEF RecordInv, Versions
      <3> QED  BY <3>2, <3>3 DEF ReceiverEnds
    <2>2. CASE rdrv.obs = "claimed"
      <3>1. UNCHANGED <<rec, recq>> /\ ReceiverEnds
        BY <2>2 DEF ReceiverCasClaimed, ReceiverEnds, TypeOK, ReceiverMemory, RIdle
      <3>2. rec.ver >= 3
        BY <2>2 DEF BoundaryInv, ReceiverInv, Reading, Versions, TypeOK, SharedType
      <3>3. RecordInv' /\ WriteInv' /\ SourceInv'
        BY <1>1, <1>4, <3>1, OthersKept DEF BoundaryInv
      <3>4. Reading(rdrv)'
        BY <3>1, ReadingKept DEF BoundaryInv, ReceiverInv
      <3> QED  BY <3>1, <3>2, <3>3, <3>4 DEF ReceiverEnds, RecordStep
    <2> QED  BY <1>2, <2>1, <2>2
  <1>6. PlaceInv'
    BY <1>5 DEF PlaceInv, Importing, Claiming, Undoing
  <1>7. rec'.ver >= 2
    BY <1>2, <1>5 DEF RecordStep, TypeOK, SharedType
  <1>8. RowInv'
    BY <1>2, <1>3, <1>5, <1>7 DEF BoundaryInv, ReceiverInv, RowInv, Past
  <1> QED  BY <1>4, <1>5, <1>6, <1>8 DEF GoodStep, BoundaryInv, ReceiverInv

\* The receiver writes activated.
LEMMA ReceiverCasActivatedInv ==
    ASSUME TypeOK, BoundaryInv, ReceiverCasActivated
    PROVE  GoodStep
  <1>1. UNCHANGED <<sdrv, rcv>>
    BY DEF ReceiverCasActivated, ReceiverCas, ReceiverFrame, srcVars
  <1>2. rcv.step = "activating" /\ RowGrows
    BY <1>1 DEF ReceiverCasActivated, BoundaryInv, ReceiverInv, PlaceInv, RowGrows
  <1>3. /\ RecordInv' /\ WriteInv' /\ SourceInv' /\ Reading(rdrv)' /\ RecordStep
        /\ rdrv'.pc \in {"idle", "install"}
    <2>1. CASE rdrv.obs = "claimed"
      <3>1. ReceiverCas("activated", rcv, "install")
        BY <2>1 DEF ReceiverCasActivated
      <3> QED  BY <1>1, <1>2, <2>1, <3>1, ReceiverCasStep DEF Transitions, Past, ReceiverEnds
    <2>2. CASE rdrv.obs # "claimed"
      <3>1. /\ UNCHANGED <<rec, recq>>
            /\ ReceiverEnds \/ (ReceiverStays /\ rdrv'.pc = "install")
        BY <2>2 DEF ReceiverCasActivated, ReceiverEnds, ReceiverStays, TypeOK,
                    ReceiverMemory, RIdle, RPc
      <3>2. RecordInv' /\ WriteInv' /\ SourceInv'
        BY <1>1, <1>2, <3>1, OthersKept DEF BoundaryInv
      <3>3. Reading(rdrv)'
        BY <3>1, ReadingKept DEF BoundaryInv, ReceiverInv
      <3> QED  BY <3>1, <3>2, <3>3 DEF ReceiverEnds, RecordStep
    <2> QED  BY <2>1, <2>2
  <1>4. PlaceInv'
    BY <1>1, <1>2, <1>3 DEF PlaceInv, Importing, Claiming, Undoing
  <1>5. rec.ver \in Nat /\ rec.ver >= 3
    BY <1>2 DEF BoundaryInv, ReceiverInv, RowInv, Past, TypeOK, SharedType
  <1>6. rec'.ver >= 3
    BY <1>3, <1>5 DEF RecordStep
  <1>7. RowInv'
    BY <1>1, <1>2, <1>6 DEF BoundaryInv, ReceiverInv, RowInv
  <1> QED  BY <1>2, <1>3, <1>4, <1>7 DEF GoodStep, BoundaryInv, ReceiverInv

\* The cleanup of the receiver writes aborted.
LEMMA ReceiverUndoRecordInv ==
    ASSUME TypeOK, BoundaryInv, ReceiverUndoRecord
    PROVE  GoodStep
  <1>1. UNCHANGED <<sdrv, rcv>>
    BY DEF ReceiverUndoRecord, ReceiverFrame, srcVars
  <1>2. rcv.step \in ReceiverBefore /\ rcv.abort /\ RowGrows
    BY <1>1 DEF ReceiverUndoRecord, BoundaryInv, ReceiverInv, PlaceInv, Undoing, RowGrows
  <1>3. /\ ReceiverEnds \/ ReceiverStays
        /\ rdrv'.pc \in {"idle", "undo_inbox"}
    BY DEF ReceiverUndoRecord, ReceiverEnds, ReceiverStays, TypeOK, ReceiverMemory,
           RIdle, RPc
  <1>4. RecordInv' /\ WriteInv' /\ RecordStep
    <2>1. CASE UNCHANGED <<rec, recq>>
      BY <1>1, <2>1 DEF BoundaryInv, RecordInv, WriteInv, RecordStep
    <2>2. CASE ~ UNCHANGED <<rec, recq>>
      <3>1. /\ rec.state \in {"published", "staged", "claimed"}
            /\ \/ CasLanded(rec.ver, "aborted", "receiver") /\ UNCHANGED recq
               \/ CasUnanswered(rec.ver, "aborted", "receiver") /\ UNCHANGED rec
        BY <2>2 DEF ReceiverUndoRecord
      <3>2. rec.ver \in Nat /\ <<rec.state, "aborted">> \in Transitions
        BY <3>1 DEF TypeOK, SharedType, Transitions
      <3> QED  BY <1>2, <3>1, <3>2, CasStep
               DEF BoundaryInv, RecordStep, RecStates, Sides
    <2> QED  BY <2>1, <2>2
  <1>5. SourceInv' /\ Reading(rdrv)'
    BY <1>1, <1>2, <1>3, <1>4, ReadingsKept DEF BoundaryInv, ReceiverInv, SourceStays
  <1>6. PlaceInv'
    BY <1>1, <1>2, <1>3 DEF PlaceInv, Importing, Claiming, Undoing
  <1>7. rec.ver \in Nat /\ (rec.ver >= 2 => rec'.ver >= 2) /\ (rec.ver >= 3 => rec'.ver >= 3)
    BY <1>4 DEF RecordStep, TypeOK, SharedType
  <1>8. RowInv'
    BY <1>1, <1>7 DEF BoundaryInv, ReceiverInv, RowInv
  <1> QED  BY <1>2, <1>4, <1>5, <1>6, <1>8 DEF GoodStep, BoundaryInv, ReceiverInv

\* The source's other steps.
LEMMA SourceLocalInv ==
    ASSUME TypeOK, BoundaryInv, SourceLocal
    PROVE  GoodStep
  <1>1. (SourceEnds \/ SourceStays) /\ UNCHANGED <<rec, recq, rcv, rdrv>>
    BY SourceLocalShape
  <1>2. SourceInv'
    BY <1>1, SourceInvKept DEF BoundaryInv
  <1> QED  BY <1>1, <1>2 DEF GoodStep, RecordStep, RowGrows, BoundaryInv, RecordInv,
                             WriteInv, ReceiverInv, Reading, PlaceInv, RowInv

\* The receiver's other steps.
LEMMA ReceiverLocalInv ==
    ASSUME TypeOK, BoundaryInv, ReceiverLocal
    PROVE  GoodStep
  <1>1. (ReceiverEnds \/ ReceiverStays) /\ RowGrows /\ PlaceInv' /\ RowInv'
    BY ReceiverLocalShape DEF BoundaryInv
  <1>2. UNCHANGED <<rec, recq, sdrv>>
    BY ReceiverLocalFrame
  <1>3. RecordInv' /\ WriteInv' /\ SourceInv'
    BY <1>1, <1>2, OthersKept DEF BoundaryInv
  <1>4. Reading(rdrv)'
    BY <1>1, <1>2, ReadingKept DEF BoundaryInv, ReceiverInv
  <1> QED  BY <1>1, <1>2, <1>3, <1>4 DEF GoodStep, RecordStep, BoundaryInv, ReceiverInv

\* Steps that touch neither the record nor a driver.
LEMMA OtherInv ==
    ASSUME BoundaryInv, UNCHANGED <<rec, recq, sdrv, rcv, rdrv>>
    PROVE  GoodStep
  BY DEF GoodStep, RecordStep, RowGrows, BoundaryInv, RecordInv, WriteInv, SourceInv,
         ReceiverInv, Reading, PlaceInv, RowInv

\* Every step of the system.
LEMMA EveryStepIsGood == TypeOK /\ BoundaryInv /\ [Next]_vars => GoodStep
  <1> SUFFICES ASSUME TypeOK, BoundaryInv, [Next]_vars PROVE GoodStep
    OBVIOUS
  <1>1. CASE SourceNext \/ SourceFault
    BY <1>1, SourceLocalInv, SourceTickInv, SourcePublishInv, SourceCasReleasedInv,
       SourceDecideInv
    DEF SourceNext, SourceFault, SourceLocal
  <1>2. CASE ReceiverPoll \/ ReceiverNext \/ ReceiverFault
    BY <1>2, ReceiverLocalInv, ReceiverTickInv, ReceiverStageInv, ReceiverCasClaimedInv,
       ReceiverCasActivatedInv, ReceiverUndoRecordInv
    DEF ReceiverNext, ReceiverFault, ReceiverLocal
  <1>3. CASE Operator
    BY <1>3, SourceLocalInv, ReceiverLocalInv DEF Operator, SourceLocal, ReceiverLocal
  <1>4. CASE Environment
    <2>1. CASE DeliverRecord
      BY <2>1, DeliverRecordInv
    <2>2. CASE DeliverClaim \/ DeliverInbox \/ RivalClaim
      BY <2>2, OtherInv DEF DeliverClaim, DeliverInbox, RivalClaim, srcVars, rcvVars
    <2>3. CASE DoorStep \/ LatePrepare \/ LateImport
      BY <2>3, OtherInv DEF DoorStep, LatePrepare, LateImport, shared, srcVars, rcvVars
    <2> QED  BY <1>4, <2>1, <2>2, <2>3 DEF Environment
  <1>5. CASE UNCHANGED vars
    BY <1>5, OtherInv DEF vars
  <1> QED  BY <1>1, <1>2, <1>3, <1>4, <1>5 DEF Next

\* Before a move is admitted.
LEMMA InitBoundaryInv == Init => BoundaryInv
  BY DEF Init, BoundaryInv, RecordInv, WriteInv, SourceInv, ReceiverInv, Reading,
         PlaceInv, RowInv, Versions, Past, Importing, Claiming, Undoing

\* However calls are lost, repeated or delivered late and wherever the two
\* drivers stop and restart, their readings, their writes in flight and the
\* receiver's row stay consistent with the move record.
THEOREM BoundaryInvariant == Spec => []BoundaryInv
  <1>1. TypeOK /\ BoundaryInv /\ [Next]_vars => BoundaryInv'
    BY EveryStepIsGood DEF GoodStep
  <1> QED  BY <1>1, InitBoundaryInv, TypeCorrect, PTL DEF Spec

\* The shared record moves only along check_transition, for any plan: also when
\* a write arrives after its driver has forgotten it.
THEOREM RecordContract == Spec => RecordFollowsContract
  <1>1. TypeOK /\ BoundaryInv /\ [Next]_vars =>
           [rec'.state # rec.state => <<rec.state, rec'.state>> \in Transitions]_rec
    BY EveryStepIsGood DEF GoodStep, RecordStep
  <1> QED  BY <1>1, TypeCorrect, BoundaryInvariant, PTL DEF Spec, RecordFollowsContract

\* Once the receiver has saved its boundary, no abort of either side, no late
\* write and no restart undoes the move.
THEOREM BoundaryFinal == Spec => BoundaryIsFinal
  <1>1. ASSUME TypeOK, BoundaryInv, [Next]_vars
        PROVE  [rcv.step \in Past => rcv'.step \in Past /\ rec'.state # "aborted"]_<<rcv, rec>>
    <2>1. GoodStep
      BY <1>1, EveryStepIsGood
    <2>2. ASSUME rcv.step \in Past PROVE rcv'.step \in Past /\ rec'.state # "aborted"
      <3>1. rcv'.step \in Past
        BY <2>1, <2>2 DEF GoodStep, RowGrows
      <3>2. rec'.ver >= 3 /\ ~rcv'.abort
        BY <2>1, <3>1 DEF GoodStep, BoundaryInv, ReceiverInv, RowInv
      <3>3. rec'.ver > 2
        BY <1>1, <3>2, StepTypeOK DEF TypeOK, SharedType
      <3> QED  BY <2>1, <3>1, <3>2, <3>3 DEF GoodStep, BoundaryInv, RecordInv
    <2> QED  BY <2>2
  <1> QED  BY <1>1, TypeCorrect, BoundaryInvariant, PTL DEF Spec, BoundaryIsFinal

-----------------------------------------------------------------------------
(* The agent lives once *)

Cleanup == {"settle", "decide", "abort_door", "abort_parts"}
Handing == {"reseal", "publish", "append"}
Releasing == {"handoff", "release", "cas_released"}
Unsealed == {"none", "preparing", "exported"}
Early == {"none", "preparing"}
\* The states of the record only the receiver can have brought about.
Later == {"staged", "claimed", "activated", "released"}
Activated == {"activated", "released"}

\* The place reached in a source pass fits the row.
SourcePlaceInv ==
    /\ sdrv.pc \in {"prepare", "export"} => src.step \in {"preparing", "exported", "sealed"}
    /\ sdrv.pc \in {"reseal", "seal"} => src.step \in {"exported", "sealed"}
    /\ sdrv.pc \in {"publish", "append"} => src.step = "sealed"
    /\ sdrv.pc \in Releasing => src.step = "releasing"
    /\ sdrv.pc \in Cleanup => src.abort
    /\ sdrv.pc \in {"abort_door", "abort_parts"} => sdrv.obs \in {"none", "aborted"}
    /\ src.abort => src.step \in SourceBefore

\* The receiver may have heard, or may yet hear, of the cut.
Listed == inbox.ver > 0 \/ inboxq # {}

\* The cut is listed only once its record exists and the cut is sealed; the
\* receiver acts only on a listed cut; a source that cleans up a move without
\* a record has listed nothing.
ListedInv ==
    /\ inbox.has => inbox.ver > 0
    /\ \A c \in inboxq : c.expect <= inbox.ver
    /\ Listed => rec.state # "none" /\ src.step \notin Unsealed
    /\ sdrv.pc \in Cleanup /\ sdrv.obs = "none" => ~Listed
    /\ rcv.step # "none" => Listed

\* Before the receiver has a row, nothing it could have written exists.
UnlistedInv ==
    rcv.step = "none" =>
        /\ rec.state \notin Later /\ sdrv.obs \notin Later
        /\ \A c \in recq : c.state \notin Later

\* The source is giving the move up and will not list the cut.
GivingUp == src.abort /\ sdrv.pc \notin Handing

\* The receiver can never activate the move.
Doomed ==
    \/ rec.state = "aborted"
    \/ ~Listed /\ (src.step = "aborted" \/ GivingUp)

NoneLive == \A p \in Participants : sdata[p] # "live"

\* What freeze_export has frozen stays frozen during its pass.
FreezeInv ==
    /\ sdrv.pc = "idle" => sdrv.done = {}
    /\ sdrv.pc = "prepare" => \A p \in sdrv.done : sdata[p] # "live"
    /\ sdrv.pc = "export" => NoneLive

\* Once everything was exported, source data is writable only in a move that is
\* doomed.
LiveInv ==
    /\ src.step = "aborted" => Doomed
    /\ sdrv.obs = "aborted" => rec.state = "aborted"
    /\ NoneLive \/ src.step \in Early \/ Doomed

AllActive == \A p \in Participants : rdata[p] = "active"

\* Receiver data is active only past the boundary, and its abort is repeated
\* only in a move that the receiver aborts.
ActiveInv ==
    /\ \A p \in Participants : rdata[p] = "active" => rcv.step \in Past
    /\ \A p \in Participants : <<"activate", p>> \in rcv.pending => rcv.step \in Past
    /\ \A p \in Participants : <<"abort", p>> \in rcv.pending => rcv.abort
    /\ rdrv.pc = "activate" => \A p \in rdrv.done : rdata[p] = "active"
    /\ rdrv.pc = "cas_activated" => AllActive

\* The record says activated, and the source reads so and lets go of its data,
\* only when every participant of the receiver is active.
ReleasedInv ==
    /\ rec.state \in Activated => AllActive
    /\ \A c \in recq : c.state \in Activated => AllActive
    /\ sdrv.obs = "activated" => rec.state \in Activated
    /\ (\E p \in Participants : sdata[p] = "released") => rec.state \in Activated

LifeInv ==
    /\ SourcePlaceInv /\ ListedInv /\ UnlistedInv /\ FreezeInv /\ LiveInv
    /\ ActiveInv /\ ReleasedInv

-----------------------------------------------------------------------------
(* What the source's steps do to its row and to its participants. *)

\* The row only moves on, an abort is kept until the move ends or the receiver
\* is seen to have staged it, and cleanup is entered by a new pass only.
RowWalk ==
    /\ src'.step \in Unsealed => src.step \in Unsealed
    /\ src'.step \in Early => src.step \in Early
    /\ src.step \in Early => src'.step \in Early \cup {"aborted"} \/ sdrv.pc = "export"
    /\ src'.step = "aborted" => src.step = "aborted" \/ sdrv.pc = "abort_parts"
    /\ src.step = "aborted" => src'.step = "aborted"
    /\ GivingUp => GivingUp' \/ src'.step = "aborted" \/ sdrv.obs \in Later
    /\ sdrv'.pc \in Cleanup => sdrv.pc \in Cleanup /\ sdrv'.obs = sdrv.obs

\* Data is thawed by an abort only, released by a release only, and never taken
\* back once released.
DataWalk ==
    \A p \in Participants :
        /\ sdata'[p] = "live" => sdata[p] = "live" \/ sdrv.pc = "abort_parts"
        /\ sdata'[p] = "released" => sdata[p] = "released" \/ sdrv.pc = "release"
        /\ sdata[p] = "released" => sdata'[p] = "released"

\* The source's steps, but for the one that begins a pass.
SourceMoves ==
    \/ SourceLocal \/ SourcePublish \/ SourceCasReleased \/ SourceDecide

LEMMA SourceMovesWalk ==
    ASSUME TypeOK, SourcePlaceInv, FreezeInv, SourceMoves
    PROVE  SourcePlaceInv' /\ RowWalk /\ DataWalk /\ FreezeInv'
  <1> DEFINE Walk == SourcePlaceInv' /\ RowWalk /\ DataWalk /\ FreezeInv'
  <1>1. CASE AdmitMove
    <2>1. SourcePlaceInv'
      BY <1>1
        DEF AdmitMove, SourcePlaceInv, TypeOK, SourceMemory, SourceRow, SIdle,
            SPc, Answered, Unresolved, Cleanup, Handing, Releasing,
            SourceBefore, Terminal
    <2>2. RowWalk
      BY <1>1
        DEF AdmitMove, SourcePlaceInv, RowWalk, GivingUp, TypeOK,
            SourceMemory, SourceRow, SIdle, SPc, Answered, Unresolved,
            Cleanup, Handing, Releasing, SourceBefore, Terminal, Unsealed,
            Early, Later
    <2>3. UNCHANGED sdata
      BY <1>1 DEF AdmitMove, srcData
    <2>4. FreezeInv'
      BY <1>1, <2>3
        DEF AdmitMove, FreezeInv, NoneLive, TypeOK, SourceMemory, SourceRow,
            SIdle, SPc, Answered, Unresolved
    <2> QED  BY <2>1, <2>2, <2>3, <2>4 DEF DataWalk
  <1>2. CASE SourceRequestAbort
    <2>1. SourcePlaceInv'
      BY <1>2
        DEF SourceRequestAbort, SourcePlaceInv, TypeOK, SourceMemory,
            SourceRow, SIdle, SPc, Answered, Unresolved, Cleanup, Handing,
            Releasing, SourceBefore, Terminal
    <2>2. RowWalk
      BY <1>2
        DEF SourceRequestAbort, SourcePlaceInv, RowWalk, GivingUp, TypeOK,
            SourceMemory, SourceRow, SIdle, SPc, Answered, Unresolved,
            Cleanup, Handing, Releasing, SourceBefore, Terminal, Unsealed,
            Early, Later
    <2>3. UNCHANGED sdata
      BY <1>2 DEF SourceRequestAbort, srcData
    <2>4. FreezeInv'
      BY <1>2, <2>3
        DEF SourceRequestAbort, FreezeInv, NoneLive, TypeOK, SourceMemory,
            SourceRow, SIdle, SPc, Answered, Unresolved
    <2> QED  BY <2>1, <2>2, <2>3, <2>4 DEF DataWalk
  <1>3. CASE SourceRetryAbort
    <2>1. SourcePlaceInv'
      BY <1>3
        DEF SourceRetryAbort, SourcePlaceInv, TypeOK, SourceMemory, SourceRow,
            SIdle, SPc, Answered, Unresolved, Cleanup, Handing, Releasing,
            SourceBefore, Terminal
    <2>2. RowWalk
      BY <1>3
        DEF SourceRetryAbort, SourcePlaceInv, RowWalk, GivingUp, TypeOK,
            SourceMemory, SourceRow, SIdle, SPc, Answered, Unresolved,
            Cleanup, Handing, Releasing, SourceBefore, Terminal, Unsealed,
            Early, Later
    <2>3. UNCHANGED sdata
      BY <1>3 DEF SourceRetryAbort, srcData
    <2>4. FreezeInv'
      BY <1>3, <2>3
        DEF SourceRetryAbort, FreezeInv, NoneLive, TypeOK, SourceMemory,
            SourceRow, SIdle, SPc, Answered, Unresolved
    <2> QED  BY <2>1, <2>2, <2>3, <2>4 DEF DataWalk
  <1>4. CASE SourceCrash
    <2>1. SourcePlaceInv'
      BY <1>4
        DEF SourceCrash, SourcePlaceInv, TypeOK, SourceMemory, SourceRow,
            SIdle, SPc, Answered, Unresolved, Cleanup, Handing, Releasing,
            SourceBefore, Terminal
    <2>2. RowWalk
      BY <1>4
        DEF SourceCrash, SourcePlaceInv, RowWalk, GivingUp, TypeOK,
            SourceMemory, SourceRow, SIdle, SPc, Answered, Unresolved,
            Cleanup, Handing, Releasing, SourceBefore, Terminal, Unsealed,
            Early, Later
    <2>3. UNCHANGED sdata
      BY <1>4 DEF SourceCrash, srcData
    <2>4. FreezeInv'
      BY <1>4, <2>3
        DEF SourceCrash, FreezeInv, NoneLive, TypeOK, SourceMemory, SourceRow,
            SIdle, SPc, Answered, Unresolved
    <2> QED  BY <2>1, <2>2, <2>3, <2>4 DEF DataWalk
  <1>5. CASE SourceBusy
    <2>1. SourcePlaceInv'
      BY <1>5
        DEF SourceBusy, SourcePlaceInv, TypeOK, SourceMemory, SourceRow,
            SIdle, SPc, Answered, Unresolved, Cleanup, Handing, Releasing,
            SourceBefore, Terminal
    <2>2. RowWalk
      BY <1>5
        DEF SourceBusy, SourcePlaceInv, RowWalk, GivingUp, TypeOK,
            SourceMemory, SourceRow, SIdle, SPc, Answered, Unresolved,
            Cleanup, Handing, Releasing, SourceBefore, Terminal, Unsealed,
            Early, Later
    <2>3. UNCHANGED sdata
      BY <1>5 DEF SourceBusy, srcData
    <2>4. FreezeInv'
      BY <1>5, <2>3
        DEF SourceBusy, FreezeInv, NoneLive, TypeOK, SourceMemory, SourceRow,
            SIdle, SPc, Answered, Unresolved
    <2> QED  BY <2>1, <2>2, <2>3, <2>4 DEF DataWalk
  <1>6. CASE SourceRefused
    <2>1. SourcePlaceInv'
      BY <1>6
        DEF SourceRefused, SourcePlaceInv, TypeOK, SourceMemory, SourceRow,
            SIdle, SPc, Answered, Unresolved, Cleanup, Handing, Releasing,
            SourceBefore, Terminal
    <2>2. RowWalk
      BY <1>6
        DEF SourceRefused, SourcePlaceInv, RowWalk, GivingUp, TypeOK,
            SourceMemory, SourceRow, SIdle, SPc, Answered, Unresolved,
            Cleanup, Handing, Releasing, SourceBefore, Terminal, Unsealed,
            Early, Later
    <2>3. UNCHANGED sdata
      BY <1>6 DEF SourceRefused, srcData
    <2>4. FreezeInv'
      BY <1>6, <2>3
        DEF SourceRefused, FreezeInv, NoneLive, TypeOK, SourceMemory,
            SourceRow, SIdle, SPc, Answered, Unresolved
    <2> QED  BY <2>1, <2>2, <2>3, <2>4 DEF DataWalk
  <1>7. CASE SourceViolation
    <2>1. SourcePlaceInv'
      BY <1>7
        DEF SourceViolation, SourcePlaceInv, TypeOK, SourceMemory, SourceRow,
            SIdle, SPc, Answered, Unresolved, Cleanup, Handing, Releasing,
            SourceBefore, Terminal
    <2>2. RowWalk
      BY <1>7
        DEF SourceViolation, SourcePlaceInv, RowWalk, GivingUp, TypeOK,
            SourceMemory, SourceRow, SIdle, SPc, Answered, Unresolved,
            Cleanup, Handing, Releasing, SourceBefore, Terminal, Unsealed,
            Early, Later
    <2>3. UNCHANGED sdata
      BY <1>7 DEF SourceViolation, srcData
    <2>4. FreezeInv'
      BY <1>7, <2>3
        DEF SourceViolation, FreezeInv, NoneLive, TypeOK, SourceMemory,
            SourceRow, SIdle, SPc, Answered, Unresolved
    <2> QED  BY <2>1, <2>2, <2>3, <2>4 DEF DataWalk
  <1>8. CASE SourceReseal
    <2>0. /\ sdrv.pc = "reseal" /\ src'.step = src.step
          /\ \/ sdrv'.pc = "idle" /\ src'.abort
             \/ sdrv'.pc = "seal" /\ src.step = "exported" /\ src'.abort = src.abort
             \/ /\ sdrv'.pc \in {"publish", "append"} /\ src.step # "exported"
                /\ src'.abort = src.abort
      <3>1. CASE door = "refuses"
        <4> DEFINE refused == src.sealRefused \/ src.step = "exported"
        <4>1. /\ sdrv.pc = "reseal" /\ sdrv' = SIdle(sdrv)
              /\ src' = [src EXCEPT !.abort = TRUE, !.sealRefused = refused]
          BY <1>8, <3>1 DEF SourceReseal
        <4> HIDE DEF refused
        <4>2. src'.step = src.step /\ src'.abort
          BY <4>1 DEF TypeOK, SourceRow
        <4>3. sdrv'.pc = "idle"
          BY <4>1 DEF TypeOK, SourceMemory, SIdle
        <4> QED  BY <4>1, <4>2, <4>3
      <3>2. CASE door # "refuses"
        BY <1>8, <3>2 DEF SourceReseal, TypeOK, SourceRow, SourceMemory, SPc
      <3> QED  BY <3>1, <3>2
    <2>1. SourcePlaceInv'
      BY <2>0
        DEF SourcePlaceInv, TypeOK, SourceRow, Cleanup, Handing, Releasing,
            SourceBefore
    <2>2. RowWalk
      BY <2>0
        DEF SourcePlaceInv, RowWalk, GivingUp, TypeOK, SourceRow, Cleanup,
            Handing, Releasing, SourceBefore, Unsealed, Early, Later
    <2>3. UNCHANGED sdata
      BY <1>8 DEF SourceReseal, srcData
    <2>4. FreezeInv'
      BY <1>8, <2>3
        DEF SourceReseal, FreezeInv, NoneLive, TypeOK, SourceMemory,
            SourceRow, SIdle, SPc, Answered, Unresolved
    <2> QED  BY <2>1, <2>2, <2>3, <2>4 DEF DataWalk
  <1>9. CASE SourceSeal
    <2>1. SourcePlaceInv'
      BY <1>9
        DEF SourceSeal, SourcePlaceInv, TypeOK, SourceMemory, SourceRow,
            SIdle, SPc, Answered, Unresolved, Cleanup, Handing, Releasing,
            SourceBefore, Terminal
    <2>2. RowWalk
      BY <1>9
        DEF SourceSeal, SourcePlaceInv, RowWalk, GivingUp, TypeOK,
            SourceMemory, SourceRow, SIdle, SPc, Answered, Unresolved,
            Cleanup, Handing, Releasing, SourceBefore, Terminal, Unsealed,
            Early, Later
    <2>3. UNCHANGED sdata
      BY <1>9 DEF SourceSeal, srcData
    <2>4. FreezeInv'
      BY <1>9, <2>3
        DEF SourceSeal, FreezeInv, NoneLive, TypeOK, SourceMemory, SourceRow,
            SIdle, SPc, Answered, Unresolved
    <2> QED  BY <2>1, <2>2, <2>3, <2>4 DEF DataWalk
  <1>10. CASE SourcePublish
    <2>1. SourcePlaceInv'
      BY <1>10
        DEF SourcePublish, SourcePlaceInv, TypeOK, SourceMemory, SourceRow,
            SIdle, SPc, Answered, Unresolved, Cleanup, Handing, Releasing,
            SourceBefore, Terminal
    <2>2. RowWalk
      BY <1>10
        DEF SourcePublish, SourcePlaceInv, RowWalk, GivingUp, TypeOK,
            SourceMemory, SourceRow, SIdle, SPc, Answered, Unresolved,
            Cleanup, Handing, Releasing, SourceBefore, Terminal, Unsealed,
            Early, Later
    <2>3. UNCHANGED sdata
      BY <1>10 DEF SourcePublish, srcData
    <2>4. FreezeInv'
      BY <1>10, <2>3
        DEF SourcePublish, FreezeInv, NoneLive, TypeOK, SourceMemory,
            SourceRow, SIdle, SPc, Answered, Unresolved
    <2> QED  BY <2>1, <2>2, <2>3, <2>4 DEF DataWalk
  <1>11. CASE SourceAppendInbox
    <2>1. SourcePlaceInv'
      BY <1>11
        DEF SourceAppendInbox, SourcePlaceInv, TypeOK, SourceMemory,
            SourceRow, SIdle, SPc, Answered, Unresolved, Cleanup, Handing,
            Releasing, SourceBefore, Terminal
    <2>2. RowWalk
      BY <1>11
        DEF SourceAppendInbox, SourcePlaceInv, RowWalk, GivingUp, TypeOK,
            SourceMemory, SourceRow, SIdle, SPc, Answered, Unresolved,
            Cleanup, Handing, Releasing, SourceBefore, Terminal, Unsealed,
            Early, Later
    <2>3. UNCHANGED sdata
      BY <1>11 DEF SourceAppendInbox, srcData
    <2>4. FreezeInv'
      BY <1>11, <2>3
        DEF SourceAppendInbox, FreezeInv, NoneLive, TypeOK, SourceMemory,
            SourceRow, SIdle, SPc, Answered, Unresolved
    <2> QED  BY <2>1, <2>2, <2>3, <2>4 DEF DataWalk
  <1>12. CASE SourceHandoff
    <2>1. SourcePlaceInv'
      BY <1>12
        DEF SourceHandoff, SourcePlaceInv, TypeOK, SourceMemory, SourceRow,
            SIdle, SPc, Answered, Unresolved, Cleanup, Handing, Releasing,
            SourceBefore, Terminal
    <2>2. RowWalk
      BY <1>12
        DEF SourceHandoff, SourcePlaceInv, RowWalk, GivingUp, TypeOK,
            SourceMemory, SourceRow, SIdle, SPc, Answered, Unresolved,
            Cleanup, Handing, Releasing, SourceBefore, Terminal, Unsealed,
            Early, Later
    <2>3. UNCHANGED sdata
      BY <1>12 DEF SourceHandoff, srcData
    <2>4. FreezeInv'
      BY <1>12, <2>3
        DEF SourceHandoff, FreezeInv, NoneLive, TypeOK, SourceMemory,
            SourceRow, SIdle, SPc, Answered, Unresolved
    <2> QED  BY <2>1, <2>2, <2>3, <2>4 DEF DataWalk
  <1>13. CASE SourceCasReleased
    <2>1. SourcePlaceInv'
      BY <1>13
        DEF SourceCasReleased, SourcePlaceInv, TypeOK, SourceMemory,
            SourceRow, SIdle, SPc, Answered, Unresolved, Cleanup, Handing,
            Releasing, SourceBefore, Terminal
    <2>2. RowWalk
      BY <1>13
        DEF SourceCasReleased, SourcePlaceInv, RowWalk, GivingUp, TypeOK,
            SourceMemory, SourceRow, SIdle, SPc, Answered, Unresolved,
            Cleanup, Handing, Releasing, SourceBefore, Terminal, Unsealed,
            Early, Later
    <2>3. UNCHANGED sdata
      BY <1>13 DEF SourceCasReleased, srcData
    <2>4. FreezeInv'
      BY <1>13, <2>3
        DEF SourceCasReleased, FreezeInv, NoneLive, TypeOK, SourceMemory,
            SourceRow, SIdle, SPc, Answered, Unresolved
    <2> QED  BY <2>1, <2>2, <2>3, <2>4 DEF DataWalk
  <1>14. CASE SourceDecide
    <2>0. /\ sdrv.pc = "decide" /\ src'.step = src.step
          /\ \/ sdrv'.pc = "idle" /\ (src'.abort = src.abort \/ (~src'.abort /\ sdrv.obs \in Later))
             \/ /\ src'.abort = src.abort /\ sdrv'.obs = sdrv.obs
                /\ \/ sdrv'.pc = "abort_door" /\ sdrv.obs = "aborted"
                   \/ sdrv'.pc = "abort_parts" /\ sdrv.obs = "none"
      BY <1>14
        DEF SourceDecide, TypeOK, SourceRow, SourceMemory, RecStates, Later,
            SIdle, SPc
    <2>1. SourcePlaceInv'
      BY <2>0
        DEF SourcePlaceInv, TypeOK, SourceRow, Cleanup, Handing, Releasing,
            SourceBefore
    <2>2. RowWalk
      BY <2>0
        DEF SourcePlaceInv, RowWalk, GivingUp, TypeOK, SourceRow, Cleanup,
            Handing, Releasing, SourceBefore, Unsealed, Early, Later
    <2>3. UNCHANGED sdata
      BY <1>14 DEF SourceDecide, srcData
    <2>4. FreezeInv'
      BY <1>14, <2>3
        DEF SourceDecide, FreezeInv, NoneLive, TypeOK, SourceMemory,
            SourceRow, SIdle, SPc, Answered, Unresolved
    <2> QED  BY <2>1, <2>2, <2>3, <2>4 DEF DataWalk
  <1>15. CASE SourceAbortDoor
    <2>1. SourcePlaceInv'
      BY <1>15
        DEF SourceAbortDoor, SourcePlaceInv, TypeOK, SourceMemory, SourceRow,
            SIdle, SPc, Answered, Unresolved, Cleanup, Handing, Releasing,
            SourceBefore, Terminal
    <2>2. RowWalk
      BY <1>15
        DEF SourceAbortDoor, SourcePlaceInv, RowWalk, GivingUp, TypeOK,
            SourceMemory, SourceRow, SIdle, SPc, Answered, Unresolved,
            Cleanup, Handing, Releasing, SourceBefore, Terminal, Unsealed,
            Early, Later
    <2>3. UNCHANGED sdata
      BY <1>15 DEF SourceAbortDoor, srcData
    <2>4. FreezeInv'
      BY <1>15, <2>3
        DEF SourceAbortDoor, FreezeInv, NoneLive, TypeOK, SourceMemory,
            SourceRow, SIdle, SPc, Answered, Unresolved
    <2> QED  BY <2>1, <2>2, <2>3, <2>4 DEF DataWalk
  <1>16. CASE SourceCloseDoor
    <2>1. SourcePlaceInv'
      BY <1>16
        DEF SourceCloseDoor, SourcePlaceInv, TypeOK, SourceMemory, SourceRow,
            SIdle, SPc, Answered, Unresolved, Cleanup, Handing, Releasing,
            SourceBefore, Terminal
    <2>2. RowWalk
      BY <1>16
        DEF SourceCloseDoor, SourcePlaceInv, RowWalk, GivingUp, TypeOK,
            SourceMemory, SourceRow, SIdle, SPc, Answered, Unresolved,
            Cleanup, Handing, Releasing, SourceBefore, Terminal, Unsealed,
            Early, Later
    <2>3. UNCHANGED sdata
      BY <1>16 DEF SourceCloseDoor, srcData
    <2>4. FreezeInv'
      BY <1>16, <2>3
        DEF SourceCloseDoor, FreezeInv, NoneLive, TypeOK, SourceMemory,
            SourceRow, SIdle, SPc, Answered, Unresolved
    <2> QED  BY <2>1, <2>2, <2>3, <2>4 DEF DataWalk
  <1>17. CASE SourceSettlePending
    <2>1. SourcePlaceInv'
      BY <1>17
        DEF SourceSettlePending, SourcePlaceInv, TypeOK, SourceMemory,
            SourceRow, SIdle, SPc, Answered, Unresolved, Cleanup, Handing,
            Releasing, SourceBefore, Terminal
    <2>2. RowWalk
      BY <1>17
        DEF SourceSettlePending, SourcePlaceInv, RowWalk, GivingUp, TypeOK,
            SourceMemory, SourceRow, SIdle, SPc, Answered, Unresolved,
            Cleanup, Handing, Releasing, SourceBefore, Terminal, Unsealed,
            Early, Later
    <2>3. DataWalk
      BY <1>17
        DEF SourceSettlePending, DataWalk, TypeOK, DataType, SourceData,
            Frozen, Exported, srcData
    <2>4. FreezeInv'
      BY <1>17 DEF SourceSettlePending, FreezeInv, TypeOK, SourceMemory, SPc
    <2> QED  BY <2>1, <2>2, <2>3, <2>4
  <1>18. ASSUME NEW p \in Participants, SourcePrepare(p)
        PROVE  Walk
    <2>0. /\ sdrv.pc = "prepare" /\ sdrv'.pc \in {"idle", "prepare", "export"}
          /\ src'.step = src.step /\ src'.abort = src.abort
      BY <1>18
        DEF SourcePrepare, TypeOK, SourceRow, SourceMemory, SIdle, SPc,
            Answered, Unresolved
    <2>1. SourcePlaceInv'
      BY <2>0
        DEF SourcePlaceInv, TypeOK, SourceRow, Cleanup, Handing, Releasing,
            SourceBefore
    <2>2. RowWalk
      BY <2>0
        DEF SourcePlaceInv, RowWalk, GivingUp, TypeOK, SourceRow, Cleanup,
            Handing, Releasing, SourceBefore, Unsealed, Early, Later
    <2>3. DataWalk
      BY <1>18
        DEF SourcePrepare, DataWalk, TypeOK, DataType, SourceData, Frozen
    <2>4. FreezeInv'
      <3>1. CASE sdrv'.pc = "idle"
        BY <1>18, <2>0, <3>1
          DEF SourcePrepare, FreezeInv, TypeOK, SourceMemory, SIdle, SPc,
              Answered, Unresolved
      <3>2. CASE sdrv'.pc # "idle"
        <4>1. /\ sdata' = [sdata EXCEPT ![p] = Frozen(@)]
              /\ sdrv'.pc = "prepare" => sdrv'.done = sdrv.done \cup {p}
              /\ sdrv'.pc = "export" => sdrv.done \cup {p} = Participants
          BY <1>18, <2>0, <3>2
            DEF SourcePrepare, TypeOK, SourceMemory, SIdle, SPc, Answered,
                Unresolved
        <4>2. \A q \in sdrv.done \cup {p} : sdata'[q] # "live"
          BY <2>0, <4>1 DEF FreezeInv, TypeOK, DataType, SourceMemory, SourceData, Frozen
        <4> QED  BY <2>0, <3>2, <4>1, <4>2 DEF FreezeInv, NoneLive
      <3> QED  BY <3>1, <3>2
    <2> QED  BY <2>1, <2>2, <2>3, <2>4
  <1>19. ASSUME NEW p \in Participants, SourceExport(p)
        PROVE  Walk
    <2>0. /\ sdrv.pc = "export" /\ src'.abort = src.abort
          /\ \/ sdrv'.pc = "export" /\ src'.step = src.step
             \/ sdrv'.pc = "idle" /\ src'.step = src.step
             \/ sdrv'.pc = "idle" /\ src.step = "preparing" /\ src'.step = "exported"
             \/ /\ sdrv'.pc \in {"seal", "reseal"} /\ src'.step = src.step
                /\ src.step # "preparing" /\ ~src.abort
      <3>1. /\ src'.abort = src.abort
            /\ src'.step = src.step \/ (src.step = "preparing" /\ src'.step = "exported")
        BY <1>19 DEF SourceExport, TypeOK, SourceRow
      <3>2. CASE src.step = "preparing"
        BY <1>19, <3>1, <3>2 DEF SourceExport, TypeOK, SourceRow, SourceMemory, SIdle, Answered, Unresolved
      <3>3. CASE src.step # "preparing"
        BY <1>19, <3>1, <3>3 DEF SourceExport, TypeOK, SourceRow, SourceMemory, SIdle, SPc, Answered, Unresolved
      <3> QED  BY <3>2, <3>3
    <2>1. SourcePlaceInv'
      BY <2>0
        DEF SourcePlaceInv, TypeOK, SourceRow, Cleanup, Handing, Releasing,
            SourceBefore
    <2>2. RowWalk
      BY <2>0
        DEF SourcePlaceInv, RowWalk, GivingUp, TypeOK, SourceRow, Cleanup,
            Handing, Releasing, SourceBefore, Unsealed, Early, Later
    <2>3. DataWalk
      BY <1>19
        DEF SourceExport, DataWalk, TypeOK, DataType, SourceData, Exported
    <2>4. FreezeInv'
      BY <1>19
        DEF SourceExport, FreezeInv, NoneLive, TypeOK, DataType, SourceData,
            SourceMemory, Exported, SIdle, SPc, Answered, Unresolved
    <2> QED  BY <2>1, <2>2, <2>3, <2>4
  <1>20. ASSUME NEW p \in Participants, SourceRelease(p)
        PROVE  Walk
    <2>1. SourcePlaceInv'
      BY <1>20
        DEF SourceRelease, SourcePlaceInv, TypeOK, SourceMemory, SourceRow,
            SIdle, SPc, Answered, Unresolved, Cleanup, Handing, Releasing,
            SourceBefore, Terminal
    <2>2. RowWalk
      BY <1>20
        DEF SourceRelease, SourcePlaceInv, RowWalk, GivingUp, TypeOK,
            SourceMemory, SourceRow, SIdle, SPc, Answered, Unresolved,
            Cleanup, Handing, Releasing, SourceBefore, Terminal, Unsealed,
            Early, Later
    <2>3. DataWalk
      BY <1>20
        DEF SourceRelease, DataWalk, TypeOK, DataType, SourceData
    <2>4. FreezeInv'
      BY <1>20
        DEF SourceRelease, FreezeInv, TypeOK, SourceMemory, SIdle, SPc,
            Answered, Unresolved
    <2> QED  BY <2>1, <2>2, <2>3, <2>4
  <1>21. ASSUME NEW p \in Participants, SourceAbortParticipant(p)
        PROVE  Walk
    <2>0. /\ sdrv.pc = "abort_parts" /\ src'.step = src.step /\ src'.abort = src.abort
          /\ sdrv'.pc = "idle" \/ (sdrv'.pc = sdrv.pc /\ sdrv'.obs = sdrv.obs)
      BY <1>21
        DEF SourceAbortParticipant, TypeOK, SourceRow, SourceMemory, SIdle,
            Unresolved
    <2>1. SourcePlaceInv'
      BY <2>0
        DEF SourcePlaceInv, TypeOK, SourceRow, Cleanup, Handing, Releasing,
            SourceBefore
    <2>2. RowWalk
      BY <2>0
        DEF SourcePlaceInv, RowWalk, GivingUp, TypeOK, SourceRow, Cleanup,
            Handing, Releasing, SourceBefore, Unsealed, Early, Later
    <2>3. DataWalk
      BY <1>21
        DEF SourceAbortParticipant, DataWalk, TypeOK, DataType, SourceData,
            Thawed
    <2>4. FreezeInv'
      BY <1>21
        DEF SourceAbortParticipant, FreezeInv, TypeOK, SourceMemory, SIdle,
            Unresolved
    <2> QED  BY <2>1, <2>2, <2>3, <2>4
  <1> QED
    BY <1>1, <1>2, <1>3, <1>4, <1>5, <1>6, <1>7, <1>8, <1>9, <1>10, <1>11,
       <1>12, <1>13, <1>14, <1>15, <1>16, <1>17, <1>18, <1>19, <1>20, <1>21
      DEF SourceMoves, SourceLocal

\* A pass begins by reading the record.
LEMMA SourceTickWalk ==
    ASSUME TypeOK, SourcePlaceInv, FreezeInv, SourceTick
    PROVE  /\ SourcePlaceInv' /\ FreezeInv' /\ UNCHANGED sdata
           /\ \/ src'.step = src.step
              \/ /\ src.step \in {"sealed", "published", "releasing"}
                 /\ src'.step \in {"releasing", "released"} /\ rec.state \in Activated
           /\ GivingUp => GivingUp' \/ rec.state \in Later
           /\ \/ UNCHANGED sdrv
              \/ sdrv'.obs = IF src.step \in {"sealed", "published", "releasing"}
                             THEN rec.state ELSE "none"
           /\ sdrv'.pc \in Cleanup => ~UNCHANGED sdrv
  <1> DEFINE watching == src.step \in {"sealed", "published", "releasing"}
             seen == IF watching THEN rec.state ELSE "none"
             row == SourceObserved(seen)
             pc == SourceNextPc(row, seen, sdrv.resumed)
             over == seen = "released" /\ src' = [row EXCEPT !.step = "released"]
  <1>1. /\ sdrv.pc = "idle" /\ src.step \notin Terminal \cup {"none"}
        /\ UNCHANGED sdata
        /\ src' = row \/ over
        /\ \/ UNCHANGED sdrv
           \/ /\ src' = row /\ pc # "idle"
              /\ sdrv' = [sdrv EXCEPT !.pc = pc, !.obs = seen,
                                      !.ver = IF watching THEN rec.ver ELSE 0]
    BY DEF SourceTick, srcData
  <1>2. /\ seen \in RecStates /\ src.step \in SourceSteps /\ src.abort \in BOOLEAN
        /\ seen # "none" => watching /\ seen = rec.state
    BY DEF TypeOK, SharedType, SourceRow, RecStates
  <1> HIDE DEF seen
  <1>3. /\ row.step = IF seen = "activated" THEN "releasing" ELSE src.step
        /\ row.abort = IF seen = "aborted" /\ src.step # "releasing" THEN TRUE
                       ELSE IF seen \notin {"none", "published"} THEN FALSE
                       ELSE src.abort
        /\ DOMAIN row = DOMAIN src
    BY <1>2 DEF SourceObserved, TypeOK, SourceRow, RecStates
  <1>4. /\ src'.step = IF over THEN "released" ELSE row.step
        /\ src'.abort = row.abort
    BY <1>1, <1>3 DEF TypeOK, SourceRow
  <1>5. /\ pc \in Cleanup => row.abort
        /\ pc \in {"prepare"} => row.step \in {"preparing", "exported", "sealed"}
        /\ pc \in {"seal"} => row.step = "exported"
        /\ pc \in {"publish", "append"} => row.step = "sealed"
        /\ pc \in Releasing => row.step = "releasing"
        /\ pc \notin {"reseal", "export", "abort_door", "abort_parts"}
        /\ row.abort /\ row.step # "releasing" => pc = "settle"
    BY DEF SourceNextPc, SourceAdvancePc, Cleanup, Releasing
  <1> HIDE DEF row, pc
  <1>6. \/ UNCHANGED sdrv
        \/ /\ src' = row /\ pc # "idle"
           /\ sdrv'.pc = pc /\ sdrv'.obs = seen /\ sdrv'.done = sdrv.done
    BY <1>1 DEF TypeOK, SourceMemory
  <1>7. src.abort => src.step \in SourceBefore
    BY DEF SourcePlaceInv
  <1>8. src'.abort => src'.step \in SourceBefore
    BY <1>1, <1>2, <1>3, <1>4, <1>7 DEF SourceBefore, Terminal, RecStates, SourceSteps
  <1>9. SourcePlaceInv'
    BY <1>1, <1>4, <1>5, <1>6, <1>8
      DEF SourcePlaceInv, Cleanup, Releasing, Handing
  <1>10. FreezeInv'
    <2>1. sdrv'.done = {}
      BY <1>1, <1>6 DEF FreezeInv
    <2>2. sdrv'.pc # "export"
      BY <1>1, <1>5, <1>6
    <2> QED  BY <2>1, <2>2 DEF FreezeInv
  <1>11. /\ \/ src'.step = src.step
            \/ /\ src.step \in {"sealed", "published", "releasing"}
               /\ src'.step \in {"releasing", "released"} /\ rec.state \in Activated
         /\ src.abort => src'.abort \/ rec.state \in Later
    BY <1>2, <1>3, <1>4, <1>7 DEF Activated, Later, RecStates, SourceBefore
  <1>12. src'.abort => sdrv'.pc \notin Handing
    BY <1>1, <1>4, <1>5, <1>6, <1>8 DEF Handing, SourceBefore
  <1>13. sdrv'.pc \in Cleanup => ~UNCHANGED sdrv
    BY <1>1 DEF Cleanup
  <1>14. seen = IF src.step \in {"sealed", "published", "releasing"}
                THEN rec.state ELSE "none"
    BY DEF seen
  <1>15. GivingUp => GivingUp' \/ rec.state \in Later
    BY <1>11, <1>12 DEF GivingUp
  <1> QED  BY <1>1, <1>6, <1>9, <1>10, <1>11, <1>13, <1>14, <1>15

\* None of the source's steps touches the receiver, and only append_inbox writes
\* the inbox.
LEMMA SourceMovesFrame ==
    ASSUME SourceMoves
    PROVE  /\ UNCHANGED <<rcvData, rcvVars>>
           /\ UNCHANGED <<inbox, inboxq>> \/ SourceAppendInbox
  <1> DEFINE Frame == /\ UNCHANGED <<rcvData, rcvVars>>
                      /\ UNCHANGED <<inbox, inboxq>> \/ SourceAppendInbox
  <1>1. CASE AdmitMove
    BY <1>1 DEF AdmitMove, SourceFrame, shared
  <1>2. CASE SourceRequestAbort
    BY <1>2 DEF SourceRequestAbort, SourceFrame, shared
  <1>3. CASE SourceRetryAbort
    BY <1>3 DEF SourceRetryAbort, SourceFrame, shared
  <1>4. CASE SourceCrash
    BY <1>4 DEF SourceCrash, SourceFrame, shared
  <1>5. CASE SourceBusy
    BY <1>5 DEF SourceBusy, SourceFrame, shared
  <1>6. CASE SourceRefused
    BY <1>6 DEF SourceRefused, SourceFrame, shared
  <1>7. CASE SourceViolation
    BY <1>7 DEF SourceViolation, SourceFrame, shared
  <1>8. CASE SourceReseal
    BY <1>8 DEF SourceReseal, SourceFrame, shared
  <1>9. CASE SourceSeal
    BY <1>9 DEF SourceSeal, SourceFrame, shared
  <1>10. CASE SourceHandoff
    BY <1>10 DEF SourceHandoff, SourceFrame, shared
  <1>11. CASE SourceSettlePending
    BY <1>11 DEF SourceSettlePending, SourceFrame, shared
  <1>12. CASE SourceAbortDoor
    BY <1>12 DEF SourceAbortDoor, SourceFrame, shared
  <1>13. CASE SourceCloseDoor
    BY <1>13 DEF SourceCloseDoor, SourceFrame, shared
  <1>14. CASE SourcePublish
    BY <1>14 DEF SourcePublish, SourceFrame, shared
  <1>15. CASE SourceCasReleased
    BY <1>15 DEF SourceCasReleased, SourceFrame, shared
  <1>16. CASE SourceDecide
    BY <1>16 DEF SourceDecide, SourceFrame, shared
  <1>17. CASE SourceAppendInbox
    BY <1>17 DEF SourceAppendInbox, SourceFrame, shared
  <1>18. ASSUME NEW p \in Participants, SourcePrepare(p)
        PROVE  Frame
    BY <1>18 DEF SourcePrepare, SourceFrame, shared
  <1>19. ASSUME NEW p \in Participants, SourceExport(p)
        PROVE  Frame
    BY <1>19 DEF SourceExport, SourceFrame, shared
  <1>20. ASSUME NEW p \in Participants, SourceRelease(p)
        PROVE  Frame
    BY <1>20 DEF SourceRelease, SourceFrame, shared
  <1>21. ASSUME NEW p \in Participants, SourceAbortParticipant(p)
        PROVE  Frame
    BY <1>21 DEF SourceAbortParticipant, SourceFrame, shared
  <1> QED
    BY <1>1, <1>2, <1>3, <1>4, <1>5, <1>6, <1>7, <1>8, <1>9, <1>10, <1>11,
       <1>12, <1>13, <1>14, <1>15, <1>16, <1>17, <1>18, <1>19, <1>20, <1>21
      DEF SourceMoves, SourceLocal

\* What the source writes: `published` and `aborted`, and `released` from the
\* place after the release.
SourceWrites(state) ==
    state \in {"published", "aborted"} \/ (state = "released" /\ sdrv.pc = "cas_released")

LEMMA SourceMovesWrites ==
    ASSUME TypeOK, SourceMoves
    PROVE  /\ rec'.state = rec.state \/ SourceWrites(rec'.state)
           /\ \A c \in recq' : c \in recq \/ SourceWrites(c.state)
           /\ SourceEnds \/ SourceStays
  <1>1. CASE SourceLocal
    BY <1>1, SourceLocalShape
  <1>2. CASE SourcePublish
    <2>1. SourceEnds \/ SourceStays
      BY <1>2 DEF SourcePublish, SourceEnds, SourceStays, TypeOK, SourceMemory, SIdle, SPc
    <2> QED
      BY <1>2, <2>1
        DEF SourcePublish, CasLanded, CasMoved, CasUnanswered, SourceWrites
  <1>3. CASE SourceCasReleased
    <2>1. SourceEnds
      BY <1>3 DEF SourceCasReleased, SourceEnds, TypeOK, SourceMemory, SIdle
    <2> QED
      BY <1>3, <2>1
        DEF SourceCasReleased, CasLanded, CasMoved, CasUnanswered, SourceWrites
  <1>4. CASE SourceDecide
    <2>1. SourceEnds \/ SourceStays
      BY <1>4 DEF SourceDecide, SourceEnds, SourceStays, TypeOK, SourceMemory, SIdle, SPc
    <2> QED
      BY <1>4, <2>1
        DEF SourceDecide, CasLanded, CasMoved, CasUnanswered, SourceWrites
  <1> QED  BY <1>1, <1>2, <1>3, <1>4 DEF SourceMoves

\* The record never goes back.
LEMMA RecordOnward ==
    ASSUME RecordStep
    PROVE  /\ rec.state # "none" => rec'.state # "none"
           /\ rec.state = "aborted" => rec'.state = "aborted"
           /\ rec.state \in Activated => rec'.state \in Activated
           /\ rec'.state = "none" => rec.state = "none"
  BY DEF RecordStep, Transitions, Activated

\* Where cleanup thaws participants or gives up, the move is doomed.
LEMMA CleanupIsDoomed ==
    ASSUME SourcePlaceInv, ListedInv, LiveInv, sdrv.pc = "abort_parts"
    PROVE  Doomed
  BY DEF SourcePlaceInv, ListedInv, LiveInv, Doomed, GivingUp, Cleanup, Handing

\* A doomed move stays doomed.
LEMMA DoomedStays ==
    ASSUME SourcePlaceInv, ListedInv, UnlistedInv, RecordStep, Doomed,
           Listed' => Listed \/ sdrv.pc = "append",
           src.step = "aborted" => src'.step = "aborted",
           GivingUp => GivingUp' \/ src'.step = "aborted" \/ rcv.step # "none"
    PROVE  Doomed'
  <1>1. CASE rec.state = "aborted"
    BY <1>1, RecordOnward DEF Doomed
  <1>2. CASE ~Listed /\ src.step = "aborted"
    BY <1>2 DEF SourcePlaceInv, Doomed
  <1>3. CASE ~Listed /\ GivingUp
    BY <1>3 DEF ListedInv, Doomed, GivingUp, Handing
  <1> QED  BY <1>1, <1>2, <1>3 DEF Doomed

\* The source's steps keep the invariant.
LEMMA SourceMovesLife ==
    ASSUME TypeOK, TypeOK', BoundaryInv, LifeInv, GoodStep, SourceMoves
    PROVE  LifeInv' /\ (Doomed => Doomed')
  <1>1. /\ SourcePlaceInv' /\ RowWalk /\ DataWalk /\ FreezeInv'
        /\ SourcePlaceInv /\ ListedInv /\ UnlistedInv /\ FreezeInv /\ LiveInv
        /\ ActiveInv /\ ReleasedInv
    BY SourceMovesWalk DEF LifeInv
  <1>2. /\ UNCHANGED <<rdata, rcv, rdrv>>
        /\ UNCHANGED <<inbox, inboxq>> \/ SourceAppendInbox
    BY SourceMovesFrame DEF rcvData, rcvVars
  <1>3. /\ rec'.state = rec.state \/ SourceWrites(rec'.state)
        /\ \A c \in recq' : c \in recq \/ SourceWrites(c.state)
        /\ SourceEnds \/ SourceStays
    BY SourceMovesWrites
  <1>4. RecordStep /\ SourceInv
    BY DEF GoodStep, BoundaryInv
  <1>5. /\ rec.state # "none" => rec'.state # "none"
        /\ rec.state = "aborted" => rec'.state = "aborted"
        /\ rec.state \in Activated => rec'.state \in Activated
    BY <1>4, RecordOnward
  <1>6. sdrv'.obs = "none" \/ sdrv'.obs = sdrv.obs
    BY <1>3 DEF SourceEnds, SourceStays
  <1>7. /\ Listed => Listed'
        /\ Listed' => Listed \/ (sdrv.pc = "append" /\ rec.state = "published")
        /\ inbox'.has => inbox'.ver > 0
        /\ \A c \in inboxq' : c.expect <= inbox'.ver
    <2>1. inbox.ver \in Nat /\ inboxq \subseteq InboxCas
      BY DEF TypeOK, SharedType
    <2>2. CASE UNCHANGED <<inbox, inboxq>>
      BY <1>1, <2>2 DEF ListedInv, Listed
    <2>3. CASE SourceAppendInbox
      <3>1. /\ sdrv.pc = "append"
            /\ \/ UNCHANGED <<inbox, inboxq>>
               \/ /\ rec.state = "published" /\ UNCHANGED inboxq
                  /\ inbox' = [has |-> TRUE, ver |-> inbox.ver + 1]
               \/ /\ rec.state = "published" /\ UNCHANGED inbox
                  /\ inboxq' = inboxq \cup {[expect |-> inbox.ver, has |-> TRUE]}
        BY <2>3 DEF SourceAppendInbox, InboxWrite, InboxUnanswered
      <3>2. \A c \in inboxq : c.expect \in Nat
        BY <2>1 DEF InboxCas
      <3> QED  BY <1>1, <2>1, <3>1, <3>2 DEF ListedInv, Listed
    <2> QED  BY <1>2, <2>2, <2>3
  <1>8. ListedInv'
    <2>1. Listed' => rec'.state # "none" /\ src'.step \notin Unsealed
      BY <1>1, <1>5, <1>7 DEF ListedInv, RowWalk, SourcePlaceInv, Unsealed
    <2>2. sdrv'.pc \in Cleanup /\ sdrv'.obs = "none" => ~Listed'
      BY <1>1, <1>7 DEF RowWalk, ListedInv, Cleanup
    <2>3. rcv'.step # "none" => Listed'
      BY <1>1, <1>2, <1>7 DEF ListedInv
    <2> QED  BY <1>7, <2>1, <2>2, <2>3 DEF ListedInv
  <1>9. rcv.step = "none" => sdrv.pc # "cas_released"
    BY <1>4 DEF SourceInv, Past
  <1>10. UnlistedInv'
    BY <1>1, <1>2, <1>3, <1>6, <1>9 DEF UnlistedInv, SourceWrites, Later
  <1>11. Doomed => Doomed'
    <2>1. GivingUp => GivingUp' \/ src'.step = "aborted" \/ rcv.step # "none"
      BY <1>1 DEF RowWalk, UnlistedInv
    <2> QED  BY <1>1, <1>4, <1>7, <2>1, DoomedStays DEF RowWalk
  <1>12. LiveInv'
    <2>1. src'.step = "aborted" => Doomed'
      BY <1>1, <1>11, CleanupIsDoomed DEF RowWalk, LiveInv
    <2>2. sdrv'.obs = "aborted" => rec'.state = "aborted"
      BY <1>1, <1>5, <1>6 DEF LiveInv
    <2>3. NoneLive' \/ src'.step \in Early \/ Doomed'
      <3>1. CASE sdrv.pc = "abort_parts"
        BY <1>1, <1>11, <3>1, CleanupIsDoomed
      <3>2. CASE sdrv.pc # "abort_parts"
        <4>1. NoneLive => NoneLive'
          BY <1>1, <3>2 DEF DataWalk, NoneLive
        <4>2. src.step \in Early => src'.step \in Early \cup {"aborted"} \/ NoneLive
          BY <1>1 DEF RowWalk, FreezeInv
        <4> QED  BY <1>1, <1>11, <2>1, <4>1, <4>2 DEF LiveInv
      <3> QED  BY <3>1, <3>2
    <2> QED  BY <2>1, <2>2, <2>3 DEF LiveInv
  <1>13. ActiveInv'
    BY <1>1, <1>2 DEF ActiveInv, AllActive
  <1>14. ReleasedInv'
    <2>1. AllActive => AllActive'
      BY <1>2 DEF AllActive
    <2>2. sdrv.pc \in {"release", "cas_released"} => rec.state \in Activated
      BY <1>1, <1>4 DEF SourceInv, ReleasedInv
    <2>3. rec'.state \in Activated => AllActive'
      BY <1>1, <1>3, <2>1, <2>2 DEF ReleasedInv, SourceWrites, Activated
    <2>4. \A c \in recq' : c.state \in Activated => AllActive'
      BY <1>1, <1>3, <2>1, <2>2 DEF ReleasedInv, SourceWrites, Activated
    <2>5. sdrv'.obs = "activated" => rec'.state \in Activated
      BY <1>1, <1>5, <1>6 DEF ReleasedInv
    <2>6. (\E p \in Participants : sdata'[p] = "released") => rec'.state \in Activated
      BY <1>1, <1>5, <2>2 DEF ReleasedInv, DataWalk
    <2> QED  BY <2>3, <2>4, <2>5, <2>6 DEF ReleasedInv
  <1> QED  BY <1>1, <1>8, <1>10, <1>11, <1>12, <1>13, <1>14 DEF LifeInv

\* So does the step that begins a pass.
LEMMA SourceTickLife ==
    ASSUME TypeOK, TypeOK', BoundaryInv, LifeInv, GoodStep, SourceTick
    PROVE  LifeInv' /\ (Doomed => Doomed')
  <1> DEFINE watching == src.step \in {"sealed", "published", "releasing"}
  <1>1. /\ SourcePlaceInv' /\ FreezeInv' /\ UNCHANGED sdata
        /\ \/ src'.step = src.step
           \/ watching /\ src'.step \in {"releasing", "released"} /\ rec.state \in Activated
        /\ GivingUp => GivingUp' \/ rec.state \in Later
        /\ UNCHANGED sdrv \/ sdrv'.obs = (IF watching THEN rec.state ELSE "none")
        /\ sdrv'.pc \in Cleanup => ~UNCHANGED sdrv
    BY SourceTickWalk DEF LifeInv
  <1>2. UNCHANGED <<rec, inbox, recq, inboxq, rdata, rcv, rdrv>>
    BY DEF SourceTick, shared, SourceFrame, rcvData, rcvVars
  <1>3. /\ SourcePlaceInv /\ ListedInv /\ UnlistedInv /\ FreezeInv /\ LiveInv
        /\ ActiveInv /\ ReleasedInv
    BY DEF LifeInv
  <1>4. Listed' <=> Listed
    BY <1>2 DEF Listed
  <1>5. ~watching => src.step \in Unsealed \cup {"released", "aborted"}
    BY DEF TypeOK, SourceRow, SourceSteps, Unsealed
  <1>6. src.step \notin {"released", "aborted", "none"}
    BY DEF SourceTick, Terminal
  <1>7. ListedInv'
    <2>1. Listed' => rec'.state # "none" /\ src'.step \notin Unsealed
      BY <1>1, <1>2, <1>3, <1>4 DEF ListedInv, Unsealed
    <2>2. sdrv'.pc \in Cleanup /\ sdrv'.obs = "none" => ~Listed'
      BY <1>1, <1>3, <1>4, <1>5, <1>6 DEF ListedInv
    <2> QED  BY <1>2, <1>3, <1>4, <2>1, <2>2 DEF ListedInv
  <1>8. UnlistedInv'
    BY <1>1, <1>2, <1>3 DEF UnlistedInv, Later
  <1>9. Doomed => Doomed'
    <2>1. GivingUp => GivingUp' \/ rcv.step # "none"
      BY <1>1, <1>3 DEF UnlistedInv
    <2>2. RecordStep
      BY DEF GoodStep
    <2> QED  BY <1>3, <1>4, <1>6, <2>1, <2>2, DoomedStays
  <1>10. LiveInv'
    <2>1. src'.step # "aborted"
      BY <1>1, <1>6
    <2>2. sdrv'.obs = "aborted" => rec'.state = "aborted"
      BY <1>1, <1>2, <1>3 DEF LiveInv
    <2>3. NoneLive' \/ src'.step \in Early \/ Doomed'
      BY <1>1, <1>3, <1>9 DEF LiveInv, NoneLive, Early
    <2> QED  BY <2>1, <2>2, <2>3 DEF LiveInv
  <1>11. ActiveInv'
    BY <1>2, <1>3 DEF ActiveInv, AllActive
  <1>12. ReleasedInv'
    BY <1>1, <1>2, <1>3 DEF ReleasedInv, AllActive, Activated
  <1> QED  BY <1>1, <1>7, <1>8, <1>9, <1>10, <1>11, <1>12 DEF LifeInv

-----------------------------------------------------------------------------
(* The receiver's steps. *)

ReceiverMoves ==
    \/ ReceiverLocal \/ ReceiverTick \/ ReceiverStage \/ ReceiverCasClaimed
    \/ ReceiverCasActivated \/ ReceiverUndoRecord

\* None of them touches the source, and three of them write the inbox.
LEMMA ReceiverMovesFrame ==
    ASSUME ReceiverMoves
    PROVE  /\ UNCHANGED <<srcData, srcVars>>
           /\ \/ UNCHANGED <<inbox, inboxq>>
              \/ ReceiverPoll \/ ReceiverFinish \/ ReceiverAborted
  <1> DEFINE Frame == /\ UNCHANGED <<srcData, srcVars>>
                      /\ \/ UNCHANGED <<inbox, inboxq>>
                         \/ ReceiverPoll \/ ReceiverFinish \/ ReceiverAborted
  <1>1. CASE ReceiverPoll
    BY <1>1 DEF ReceiverPoll, ReceiverFrame
  <1>2. CASE ReceiverRequestAbort
    BY <1>2 DEF ReceiverRequestAbort, ReceiverFrame, shared
  <1>3. CASE ReceiverRetryAbort
    BY <1>3 DEF ReceiverRetryAbort, ReceiverFrame, shared
  <1>4. CASE ReceiverCrash
    BY <1>4 DEF ReceiverCrash, ReceiverFrame, shared
  <1>5. CASE ReceiverHold
    BY <1>5 DEF ReceiverHold, ReceiverFrame, shared
  <1>6. CASE ReceiverRefused
    BY <1>6 DEF ReceiverRefused, ReceiverFrame, shared
  <1>7. CASE ReceiverStopped
    BY <1>7 DEF ReceiverStopped, ReceiverFrame, shared
  <1>8. CASE ReceiverChecks
    BY <1>8 DEF ReceiverChecks, ReceiverFrame, shared
  <1>9. CASE ReceiverImported
    BY <1>9 DEF ReceiverImported, ReceiverFrame, shared
  <1>10. CASE ReceiverTakeRead
    BY <1>10 DEF ReceiverTakeRead, ReceiverFrame, shared
  <1>11. CASE ReceiverTake
    BY <1>11 DEF ReceiverTake, ReceiverFrame, shared
  <1>12. CASE ReceiverFence
    BY <1>12 DEF ReceiverFence, ReceiverFrame, shared
  <1>13. CASE ReceiverInstall
    BY <1>13 DEF ReceiverInstall, ReceiverFrame, shared
  <1>14. CASE ReceiverFinish
    BY <1>14 DEF ReceiverFinish, ReceiverFrame
  <1>15. CASE ReceiverTakeover
    BY <1>15 DEF ReceiverTakeover, ReceiverFrame, shared
  <1>16. CASE ReceiverReturnClaim
    BY <1>16 DEF ReceiverReturnClaim, ReceiverFrame, shared
  <1>17. CASE ReceiverUndoCheck
    BY <1>17 DEF ReceiverUndoCheck, ReceiverFrame, shared
  <1>18. CASE ReceiverAborted
    BY <1>18 DEF ReceiverAborted, ReceiverFrame
  <1>19. CASE ReceiverTick
    BY <1>19 DEF ReceiverTick, ReceiverFrame, shared
  <1>20. CASE ReceiverStage
    BY <1>20 DEF ReceiverStage, ReceiverFrame, shared
  <1>21. CASE ReceiverCasClaimed
    BY <1>21 DEF ReceiverCasClaimed, ReceiverFrame, shared
  <1>22. CASE ReceiverCasActivated
    BY <1>22 DEF ReceiverCasActivated, ReceiverFrame, shared
  <1>23. CASE ReceiverUndoRecord
    BY <1>23 DEF ReceiverUndoRecord, ReceiverFrame, shared
  <1>24. CASE ReceiverSettlePending
    BY <1>24 DEF ReceiverSettlePending, ReceiverFrame, shared
  <1>25. ASSUME NEW p \in Participants, ReceiverDiverged(p)
        PROVE  Frame
    BY <1>25 DEF ReceiverDiverged, ReceiverFrame, shared
  <1>26. ASSUME NEW p \in Participants, ReceiverImport(p)
        PROVE  Frame
    BY <1>26 DEF ReceiverImport, ReceiverFrame, shared
  <1>27. ASSUME NEW p \in Participants, ReceiverActivate(p)
        PROVE  Frame
    BY <1>27 DEF ReceiverActivate, ReceiverFrame, shared
  <1>28. ASSUME NEW p \in Participants, ReceiverAbortParticipant(p)
        PROVE  Frame
    BY <1>28 DEF ReceiverAbortParticipant, ReceiverFrame, shared
  <1> QED
    BY <1>1, <1>2, <1>3, <1>4, <1>5, <1>6, <1>7, <1>8, <1>9, <1>10, <1>11,
       <1>12, <1>13, <1>14, <1>15, <1>16, <1>17, <1>18, <1>19, <1>20, <1>21,
       <1>22, <1>23, <1>24, <1>25, <1>26, <1>27, <1>28
      DEF ReceiverMoves, ReceiverLocal

\* A set of saved calls with no activation and no abort among them.
Calm(pending) ==
    \A p \in Participants : <<"activate", p>> \notin pending /\ <<"abort", p>> \notin pending

\* A step that calls no participant, or one that cannot activate anything.
Quiet ==
    /\ UNCHANGED rdata
    /\ rcv'.pending = rcv.pending \/ Calm(rcv'.pending)
    /\ rdrv'.pc = "activate" =>
           rdrv'.done = {} \/ (rdrv.pc = "activate" /\ rdrv'.done = rdrv.done)
    /\ rdrv'.pc = "cas_activated" => rdrv.pc = "cas_activated"
    /\ rcv'.step = "none" <=> rcv.step = "none"

QuietStep ==
    \/ ReceiverRequestAbort \/ ReceiverRetryAbort \/ ReceiverCrash \/ ReceiverHold
    \/ ReceiverRefused \/ ReceiverStopped \/ ReceiverChecks \/ ReceiverImported
    \/ ReceiverTakeRead \/ ReceiverTake \/ ReceiverFence \/ ReceiverInstall
    \/ ReceiverFinish \/ ReceiverTakeover \/ ReceiverReturnClaim
    \/ ReceiverUndoCheck \/ ReceiverAborted \/ ReceiverTick \/ ReceiverStage
    \/ ReceiverCasClaimed \/ ReceiverCasActivated \/ ReceiverUndoRecord
    \/ \E p \in Participants : ReceiverDiverged(p)

LEMMA QuietSteps ==
    ASSUME TypeOK, ReceiverInv, QuietStep
    PROVE  Quiet
  <1>1. CASE ReceiverRequestAbort
    <2>1. UNCHANGED rdata
      BY <1>1 DEF ReceiverRequestAbort, rcvData
    <2>2. rcv'.pending = rcv.pending \/ Calm(rcv'.pending)
      BY <1>1
        DEF ReceiverRequestAbort, Calm, TypeOK, ReceiverRow
    <2>3. /\ rdrv'.pc = "activate" =>
                rdrv'.done = {} \/ (rdrv.pc = "activate" /\ rdrv'.done = rdrv.done)
          /\ rdrv'.pc = "cas_activated" => rdrv.pc = "cas_activated"
      BY <1>1
        DEF ReceiverRequestAbort, TypeOK, ReceiverMemory, RIdle, RPc,
            Answered, Unresolved
    <2>4. rcv'.step = "none" <=> rcv.step = "none"
      BY <1>1
        DEF ReceiverRequestAbort, TypeOK, ReceiverRow, ReceiverInv, PlaceInv,
            Importing, Claiming, Undoing, ReceiverBefore, Past, Terminal
    <2> QED  BY <2>1, <2>2, <2>3, <2>4 DEF Quiet
  <1>2. CASE ReceiverRetryAbort
    <2>1. UNCHANGED rdata
      BY <1>2 DEF ReceiverRetryAbort, rcvData
    <2>2. rcv'.pending = rcv.pending \/ Calm(rcv'.pending)
      BY <1>2
        DEF ReceiverRetryAbort, Calm, TypeOK, ReceiverRow
    <2>3. /\ rdrv'.pc = "activate" =>
                rdrv'.done = {} \/ (rdrv.pc = "activate" /\ rdrv'.done = rdrv.done)
          /\ rdrv'.pc = "cas_activated" => rdrv.pc = "cas_activated"
      BY <1>2
        DEF ReceiverRetryAbort, TypeOK, ReceiverMemory, RIdle, RPc, Answered,
            Unresolved
    <2>4. rcv'.step = "none" <=> rcv.step = "none"
      BY <1>2
        DEF ReceiverRetryAbort, TypeOK, ReceiverRow, ReceiverInv, PlaceInv,
            Importing, Claiming, Undoing, ReceiverBefore, Past, Terminal
    <2> QED  BY <2>1, <2>2, <2>3, <2>4 DEF Quiet
  <1>3. CASE ReceiverCrash
    <2>1. UNCHANGED rdata
      BY <1>3 DEF ReceiverCrash, rcvData
    <2>2. rcv'.pending = rcv.pending \/ Calm(rcv'.pending)
      BY <1>3
        DEF ReceiverCrash, Calm, TypeOK, ReceiverRow
    <2>3. /\ rdrv'.pc = "activate" =>
                rdrv'.done = {} \/ (rdrv.pc = "activate" /\ rdrv'.done = rdrv.done)
          /\ rdrv'.pc = "cas_activated" => rdrv.pc = "cas_activated"
      BY <1>3
        DEF ReceiverCrash, TypeOK, ReceiverMemory, RIdle, RPc, Answered,
            Unresolved
    <2>4. rcv'.step = "none" <=> rcv.step = "none"
      BY <1>3
        DEF ReceiverCrash, TypeOK, ReceiverRow, ReceiverInv, PlaceInv,
            Importing, Claiming, Undoing, ReceiverBefore, Past, Terminal
    <2> QED  BY <2>1, <2>2, <2>3, <2>4 DEF Quiet
  <1>4. CASE ReceiverHold
    <2>1. UNCHANGED rdata
      BY <1>4 DEF ReceiverHold, rcvData
    <2>2. rcv'.pending = rcv.pending \/ Calm(rcv'.pending)
      BY <1>4
        DEF ReceiverHold, Calm, TypeOK, ReceiverRow
    <2>3. /\ rdrv'.pc = "activate" =>
                rdrv'.done = {} \/ (rdrv.pc = "activate" /\ rdrv'.done = rdrv.done)
          /\ rdrv'.pc = "cas_activated" => rdrv.pc = "cas_activated"
      BY <1>4
        DEF ReceiverHold, TypeOK, ReceiverMemory, RIdle, RPc, Answered,
            Unresolved
    <2>4. rcv'.step = "none" <=> rcv.step = "none"
      BY <1>4
        DEF ReceiverHold, TypeOK, ReceiverRow, ReceiverInv, PlaceInv,
            Importing, Claiming, Undoing, ReceiverBefore, Past, Terminal
    <2> QED  BY <2>1, <2>2, <2>3, <2>4 DEF Quiet
  <1>5. CASE ReceiverRefused
    <2>1. UNCHANGED rdata
      BY <1>5 DEF ReceiverRefused, rcvData
    <2>2. rcv'.pending = rcv.pending \/ Calm(rcv'.pending)
      BY <1>5
        DEF ReceiverRefused, Calm, TypeOK, ReceiverRow
    <2>3. /\ rdrv'.pc = "activate" =>
                rdrv'.done = {} \/ (rdrv.pc = "activate" /\ rdrv'.done = rdrv.done)
          /\ rdrv'.pc = "cas_activated" => rdrv.pc = "cas_activated"
      BY <1>5
        DEF ReceiverRefused, TypeOK, ReceiverMemory, RIdle, RPc, Answered,
            Unresolved
    <2>4. rcv'.step = "none" <=> rcv.step = "none"
      BY <1>5
        DEF ReceiverRefused, TypeOK, ReceiverRow, ReceiverInv, PlaceInv,
            Importing, Claiming, Undoing, ReceiverBefore, Past, Terminal
    <2> QED  BY <2>1, <2>2, <2>3, <2>4 DEF Quiet
  <1>6. CASE ReceiverStopped
    <2>1. UNCHANGED rdata
      BY <1>6 DEF ReceiverStopped, rcvData
    <2>2. rcv'.pending = rcv.pending \/ Calm(rcv'.pending)
      BY <1>6
        DEF ReceiverStopped, Calm, TypeOK, ReceiverRow
    <2>3. /\ rdrv'.pc = "activate" =>
                rdrv'.done = {} \/ (rdrv.pc = "activate" /\ rdrv'.done = rdrv.done)
          /\ rdrv'.pc = "cas_activated" => rdrv.pc = "cas_activated"
      BY <1>6
        DEF ReceiverStopped, TypeOK, ReceiverMemory, RIdle, RPc, Answered,
            Unresolved
    <2>4. rcv'.step = "none" <=> rcv.step = "none"
      BY <1>6
        DEF ReceiverStopped, TypeOK, ReceiverRow, ReceiverInv, PlaceInv,
            Importing, Claiming, Undoing, ReceiverBefore, Past, Terminal
    <2> QED  BY <2>1, <2>2, <2>3, <2>4 DEF Quiet
  <1>7. CASE ReceiverChecks
    <2>1. UNCHANGED rdata
      BY <1>7 DEF ReceiverChecks, rcvData
    <2>2. rcv'.pending = rcv.pending \/ Calm(rcv'.pending)
      BY <1>7
        DEF ReceiverChecks, Calm, TypeOK, ReceiverRow
    <2>3. /\ rdrv'.pc = "activate" =>
                rdrv'.done = {} \/ (rdrv.pc = "activate" /\ rdrv'.done = rdrv.done)
          /\ rdrv'.pc = "cas_activated" => rdrv.pc = "cas_activated"
      BY <1>7
        DEF ReceiverChecks, TakePc, TypeOK, ReceiverMemory, RIdle, RPc,
            Answered, Unresolved
    <2>4. rcv'.step = "none" <=> rcv.step = "none"
      BY <1>7
        DEF ReceiverChecks, TypeOK, ReceiverRow, ReceiverInv, PlaceInv,
            Importing, Claiming, Undoing, ReceiverBefore, Past, Terminal
    <2> QED  BY <2>1, <2>2, <2>3, <2>4 DEF Quiet
  <1>8. CASE ReceiverImported
    <2>1. UNCHANGED rdata
      BY <1>8 DEF ReceiverImported, rcvData
    <2>2. rcv'.pending = rcv.pending \/ Calm(rcv'.pending)
      BY <1>8
        DEF ReceiverImported, Calm, TypeOK, ReceiverRow
    <2>3. /\ rdrv'.pc = "activate" =>
                rdrv'.done = {} \/ (rdrv.pc = "activate" /\ rdrv'.done = rdrv.done)
          /\ rdrv'.pc = "cas_activated" => rdrv.pc = "cas_activated"
      BY <1>8
        DEF ReceiverImported, TypeOK, ReceiverMemory, RIdle, RPc, Answered,
            Unresolved
    <2>4. rcv'.step = "none" <=> rcv.step = "none"
      BY <1>8
        DEF ReceiverImported, TypeOK, ReceiverRow, ReceiverInv, PlaceInv,
            Importing, Claiming, Undoing, ReceiverBefore, Past, Terminal
    <2> QED  BY <2>1, <2>2, <2>3, <2>4 DEF Quiet
  <1>9. CASE ReceiverTakeRead
    <2>1. UNCHANGED rdata
      BY <1>9 DEF ReceiverTakeRead, rcvData
    <2>2. rcv'.pending = rcv.pending \/ Calm(rcv'.pending)
      BY <1>9
        DEF ReceiverTakeRead, Calm, TypeOK, ReceiverRow
    <2>3. /\ rdrv'.pc = "activate" =>
                rdrv'.done = {} \/ (rdrv.pc = "activate" /\ rdrv'.done = rdrv.done)
          /\ rdrv'.pc = "cas_activated" => rdrv.pc = "cas_activated"
      BY <1>9
        DEF ReceiverTakeRead, TypeOK, ReceiverMemory, RIdle, RPc, Answered,
            Unresolved
    <2>4. rcv'.step = "none" <=> rcv.step = "none"
      BY <1>9
        DEF ReceiverTakeRead, TypeOK, ReceiverRow, ReceiverInv, PlaceInv,
            Importing, Claiming, Undoing, ReceiverBefore, Past, Terminal
    <2> QED  BY <2>1, <2>2, <2>3, <2>4 DEF Quiet
  <1>10. CASE ReceiverTake
    <2>1. UNCHANGED rdata
      BY <1>10 DEF ReceiverTake, rcvData
    <2>2. rcv'.pending = rcv.pending \/ Calm(rcv'.pending)
      BY <1>10
        DEF ReceiverTake, Calm, TypeOK, ReceiverRow
    <2>3. /\ rdrv'.pc = "activate" =>
                rdrv'.done = {} \/ (rdrv.pc = "activate" /\ rdrv'.done = rdrv.done)
          /\ rdrv'.pc = "cas_activated" => rdrv.pc = "cas_activated"
      BY <1>10
        DEF ReceiverTake, TypeOK, ReceiverMemory, RIdle, RPc, Answered,
            Unresolved
    <2>4. rcv'.step = "none" <=> rcv.step = "none"
      BY <1>10
        DEF ReceiverTake, TypeOK, ReceiverRow, ReceiverInv, PlaceInv,
            Importing, Claiming, Undoing, ReceiverBefore, Past, Terminal
    <2> QED  BY <2>1, <2>2, <2>3, <2>4 DEF Quiet
  <1>11. CASE ReceiverFence
    <2>1. UNCHANGED rdata
      BY <1>11 DEF ReceiverFence, rcvData
    <2>2. rcv'.pending = rcv.pending \/ Calm(rcv'.pending)
      BY <1>11
        DEF ReceiverFence, Calm, TypeOK, ReceiverRow
    <2>3. /\ rdrv'.pc = "activate" =>
                rdrv'.done = {} \/ (rdrv.pc = "activate" /\ rdrv'.done = rdrv.done)
          /\ rdrv'.pc = "cas_activated" => rdrv.pc = "cas_activated"
      BY <1>11
        DEF ReceiverFence, TypeOK, ReceiverMemory, RIdle, RPc, Answered,
            Unresolved
    <2>4. rcv'.step = "none" <=> rcv.step = "none"
      BY <1>11
        DEF ReceiverFence, TypeOK, ReceiverRow, ReceiverInv, PlaceInv,
            Importing, Claiming, Undoing, ReceiverBefore, Past, Terminal
    <2> QED  BY <2>1, <2>2, <2>3, <2>4 DEF Quiet
  <1>12. CASE ReceiverInstall
    <2>1. UNCHANGED rdata
      BY <1>12 DEF ReceiverInstall, rcvData
    <2>2. rcv'.pending = rcv.pending \/ Calm(rcv'.pending)
      BY <1>12
        DEF ReceiverInstall, Calm, TypeOK, ReceiverRow
    <2>3. /\ rdrv'.pc = "activate" =>
                rdrv'.done = {} \/ (rdrv.pc = "activate" /\ rdrv'.done = rdrv.done)
          /\ rdrv'.pc = "cas_activated" => rdrv.pc = "cas_activated"
      BY <1>12
        DEF ReceiverInstall, TypeOK, ReceiverMemory, RIdle, RPc, Answered,
            Unresolved
    <2>4. rcv'.step = "none" <=> rcv.step = "none"
      BY <1>12
        DEF ReceiverInstall, TypeOK, ReceiverRow, ReceiverInv, PlaceInv,
            Importing, Claiming, Undoing, ReceiverBefore, Past, Terminal
    <2> QED  BY <2>1, <2>2, <2>3, <2>4 DEF Quiet
  <1>13. CASE ReceiverFinish
    <2>1. UNCHANGED rdata
      BY <1>13 DEF ReceiverFinish, rcvData
    <2>2. rcv'.pending = rcv.pending \/ Calm(rcv'.pending)
      BY <1>13
        DEF ReceiverFinish, Calm, TypeOK, ReceiverRow
    <2>3. /\ rdrv'.pc = "activate" =>
                rdrv'.done = {} \/ (rdrv.pc = "activate" /\ rdrv'.done = rdrv.done)
          /\ rdrv'.pc = "cas_activated" => rdrv.pc = "cas_activated"
      BY <1>13
        DEF ReceiverFinish, TypeOK, ReceiverMemory, RIdle, RPc, Answered,
            Unresolved
    <2>4. rcv'.step = "none" <=> rcv.step = "none"
      BY <1>13
        DEF ReceiverFinish, TypeOK, ReceiverRow, ReceiverInv, PlaceInv,
            Importing, Claiming, Undoing, ReceiverBefore, Past, Terminal
    <2> QED  BY <2>1, <2>2, <2>3, <2>4 DEF Quiet
  <1>14. CASE ReceiverTakeover
    <2>1. UNCHANGED rdata
      BY <1>14 DEF ReceiverTakeover, rcvData
    <2>2. rcv'.pending = rcv.pending \/ Calm(rcv'.pending)
      BY <1>14
        DEF ReceiverTakeover, Calm, TypeOK, ReceiverRow
    <2>3. /\ rdrv'.pc = "activate" =>
                rdrv'.done = {} \/ (rdrv.pc = "activate" /\ rdrv'.done = rdrv.done)
          /\ rdrv'.pc = "cas_activated" => rdrv.pc = "cas_activated"
      BY <1>14
        DEF ReceiverTakeover, TypeOK, ReceiverMemory, RIdle, RPc, Answered,
            Unresolved
    <2>4. rcv'.step = "none" <=> rcv.step = "none"
      BY <1>14
        DEF ReceiverTakeover, TypeOK, ReceiverRow, ReceiverInv, PlaceInv,
            Importing, Claiming, Undoing, ReceiverBefore, Past, Terminal
    <2> QED  BY <2>1, <2>2, <2>3, <2>4 DEF Quiet
  <1>15. CASE ReceiverReturnClaim
    <2>1. UNCHANGED rdata
      BY <1>15 DEF ReceiverReturnClaim, rcvData
    <2>2. rcv'.pending = rcv.pending \/ Calm(rcv'.pending)
      BY <1>15
        DEF ReceiverReturnClaim, Calm, TypeOK, ReceiverRow
    <2>3. /\ rdrv'.pc = "activate" =>
                rdrv'.done = {} \/ (rdrv.pc = "activate" /\ rdrv'.done = rdrv.done)
          /\ rdrv'.pc = "cas_activated" => rdrv.pc = "cas_activated"
      BY <1>15
        DEF ReceiverReturnClaim, TypeOK, ReceiverMemory, RIdle, RPc, Answered,
            Unresolved
    <2>4. rcv'.step = "none" <=> rcv.step = "none"
      BY <1>15
        DEF ReceiverReturnClaim, TypeOK, ReceiverRow, ReceiverInv, PlaceInv,
            Importing, Claiming, Undoing, ReceiverBefore, Past, Terminal
    <2> QED  BY <2>1, <2>2, <2>3, <2>4 DEF Quiet
  <1>16. CASE ReceiverUndoCheck
    <2>1. UNCHANGED rdata
      BY <1>16 DEF ReceiverUndoCheck, rcvData
    <2>2. rcv'.pending = rcv.pending \/ Calm(rcv'.pending)
      BY <1>16
        DEF ReceiverUndoCheck, Calm, TypeOK, ReceiverRow
    <2>3. /\ rdrv'.pc = "activate" =>
                rdrv'.done = {} \/ (rdrv.pc = "activate" /\ rdrv'.done = rdrv.done)
          /\ rdrv'.pc = "cas_activated" => rdrv.pc = "cas_activated"
      BY <1>16
        DEF ReceiverUndoCheck, TypeOK, ReceiverMemory, RIdle, RPc, Answered,
            Unresolved
    <2>4. rcv'.step = "none" <=> rcv.step = "none"
      BY <1>16
        DEF ReceiverUndoCheck, TypeOK, ReceiverRow, ReceiverInv, PlaceInv,
            Importing, Claiming, Undoing, ReceiverBefore, Past, Terminal
    <2> QED  BY <2>1, <2>2, <2>3, <2>4 DEF Quiet
  <1>17. CASE ReceiverAborted
    <2>1. UNCHANGED rdata
      BY <1>17 DEF ReceiverAborted, rcvData
    <2>2. rcv'.pending = rcv.pending \/ Calm(rcv'.pending)
      BY <1>17
        DEF ReceiverAborted, Calm, TypeOK, ReceiverRow
    <2>3. /\ rdrv'.pc = "activate" =>
                rdrv'.done = {} \/ (rdrv.pc = "activate" /\ rdrv'.done = rdrv.done)
          /\ rdrv'.pc = "cas_activated" => rdrv.pc = "cas_activated"
      BY <1>17
        DEF ReceiverAborted, TypeOK, ReceiverMemory, RIdle, RPc, Answered,
            Unresolved
    <2>4. rcv'.step = "none" <=> rcv.step = "none"
      BY <1>17
        DEF ReceiverAborted, TypeOK, ReceiverRow, ReceiverInv, PlaceInv,
            Importing, Claiming, Undoing, ReceiverBefore, Past, Terminal
    <2> QED  BY <2>1, <2>2, <2>3, <2>4 DEF Quiet
  <1>18. CASE ReceiverTick
    <2>1. UNCHANGED rdata
      BY <1>18 DEF ReceiverTick, rcvData
    <2>2. rcv'.pending = rcv.pending \/ Calm(rcv'.pending)
      BY <1>18
        DEF ReceiverTick, Calm, TypeOK, ReceiverRow
    <2>3. /\ rdrv'.pc = "activate" =>
                rdrv'.done = {} \/ (rdrv.pc = "activate" /\ rdrv'.done = rdrv.done)
          /\ rdrv'.pc = "cas_activated" => rdrv.pc = "cas_activated"
      BY <1>18
        DEF ReceiverTick, ReceiverNextPc, ReceiverAdvancePc, TypeOK,
            ReceiverMemory, RIdle, RPc, Answered, Unresolved
    <2>4. rcv'.step = "none" <=> rcv.step = "none"
      BY <1>18
        DEF ReceiverTick, TypeOK, ReceiverRow, ReceiverInv, PlaceInv,
            Importing, Claiming, Undoing, ReceiverBefore, Past, Terminal
    <2> QED  BY <2>1, <2>2, <2>3, <2>4 DEF Quiet
  <1>19. CASE ReceiverStage
    <2>1. UNCHANGED rdata
      BY <1>19 DEF ReceiverStage, rcvData
    <2>2. rcv'.pending = rcv.pending \/ Calm(rcv'.pending)
      BY <1>19
        DEF ReceiverStage, ReceiverCas, Calm, TypeOK, ReceiverRow
    <2>3. /\ rdrv'.pc = "activate" =>
                rdrv'.done = {} \/ (rdrv.pc = "activate" /\ rdrv'.done = rdrv.done)
          /\ rdrv'.pc = "cas_activated" => rdrv.pc = "cas_activated"
      BY <1>19
        DEF ReceiverStage, ReceiverCas, TypeOK, ReceiverMemory, RIdle, RPc,
            Answered, Unresolved
    <2>4. rcv'.step = "none" <=> rcv.step = "none"
      BY <1>19
        DEF ReceiverStage, ReceiverCas, TypeOK, ReceiverRow, ReceiverInv,
            PlaceInv, Importing, Claiming, Undoing, ReceiverBefore, Past,
            Terminal
    <2> QED  BY <2>1, <2>2, <2>3, <2>4 DEF Quiet
  <1>20. CASE ReceiverCasClaimed
    <2>1. UNCHANGED rdata
      BY <1>20 DEF ReceiverCasClaimed, rcvData
    <2>2. rcv'.pending = rcv.pending \/ Calm(rcv'.pending)
      BY <1>20
        DEF ReceiverCasClaimed, ReceiverCas, Calm, TypeOK, ReceiverRow
    <2>3. /\ rdrv'.pc = "activate" =>
                rdrv'.done = {} \/ (rdrv.pc = "activate" /\ rdrv'.done = rdrv.done)
          /\ rdrv'.pc = "cas_activated" => rdrv.pc = "cas_activated"
      BY <1>20
        DEF ReceiverCasClaimed, ReceiverCas, TypeOK, ReceiverMemory, RIdle,
            RPc, Answered, Unresolved
    <2>4. rcv'.step = "none" <=> rcv.step = "none"
      BY <1>20
        DEF ReceiverCasClaimed, ReceiverCas, TypeOK, ReceiverRow, ReceiverInv,
            PlaceInv, Importing, Claiming, Undoing, ReceiverBefore, Past,
            Terminal
    <2> QED  BY <2>1, <2>2, <2>3, <2>4 DEF Quiet
  <1>21. CASE ReceiverCasActivated
    <2>1. UNCHANGED rdata
      BY <1>21 DEF ReceiverCasActivated, rcvData
    <2>2. rcv'.pending = rcv.pending \/ Calm(rcv'.pending)
      BY <1>21
        DEF ReceiverCasActivated, ReceiverCas, Calm, TypeOK, ReceiverRow
    <2>3. /\ rdrv'.pc = "activate" =>
                rdrv'.done = {} \/ (rdrv.pc = "activate" /\ rdrv'.done = rdrv.done)
          /\ rdrv'.pc = "cas_activated" => rdrv.pc = "cas_activated"
      BY <1>21
        DEF ReceiverCasActivated, ReceiverCas, TypeOK, ReceiverMemory, RIdle,
            RPc, Answered, Unresolved
    <2>4. rcv'.step = "none" <=> rcv.step = "none"
      BY <1>21
        DEF ReceiverCasActivated, ReceiverCas, TypeOK, ReceiverRow,
            ReceiverInv, PlaceInv, Importing, Claiming, Undoing,
            ReceiverBefore, Past, Terminal
    <2> QED  BY <2>1, <2>2, <2>3, <2>4 DEF Quiet
  <1>22. CASE ReceiverUndoRecord
    <2>1. UNCHANGED rdata
      BY <1>22 DEF ReceiverUndoRecord, rcvData
    <2>2. rcv'.pending = rcv.pending \/ Calm(rcv'.pending)
      BY <1>22
        DEF ReceiverUndoRecord, Calm, TypeOK, ReceiverRow
    <2>3. /\ rdrv'.pc = "activate" =>
                rdrv'.done = {} \/ (rdrv.pc = "activate" /\ rdrv'.done = rdrv.done)
          /\ rdrv'.pc = "cas_activated" => rdrv.pc = "cas_activated"
      BY <1>22
        DEF ReceiverUndoRecord, TypeOK, ReceiverMemory, RIdle, RPc, Answered,
            Unresolved
    <2>4. rcv'.step = "none" <=> rcv.step = "none"
      BY <1>22
        DEF ReceiverUndoRecord, TypeOK, ReceiverRow, ReceiverInv, PlaceInv,
            Importing, Claiming, Undoing, ReceiverBefore, Past, Terminal
    <2> QED  BY <2>1, <2>2, <2>3, <2>4 DEF Quiet
  <1>23. ASSUME NEW p \in Participants, ReceiverDiverged(p)
        PROVE  Quiet
    <2>1. UNCHANGED rdata
      BY <1>23 DEF ReceiverDiverged, rcvData
    <2>2. rcv'.pending = rcv.pending \/ Calm(rcv'.pending)
      <3>1. rcv'.pending \in {{}, {<<"diverged", p>>}}
        BY <1>23 DEF ReceiverDiverged, TypeOK, ReceiverRow
      <3>2. \A r \in Participants :
               <<"diverged", p>> # <<"activate", r>> /\ <<"diverged", p>> # <<"abort", r>>
        OBVIOUS
      <3> QED  BY <3>1, <3>2 DEF Calm
    <2>3. /\ rdrv'.pc = "activate" =>
                rdrv'.done = {} \/ (rdrv.pc = "activate" /\ rdrv'.done = rdrv.done)
          /\ rdrv'.pc = "cas_activated" => rdrv.pc = "cas_activated"
      BY <1>23
        DEF ReceiverDiverged, TypeOK, ReceiverMemory, RIdle, RPc, Answered,
            Unresolved
    <2>4. rcv'.step = "none" <=> rcv.step = "none"
      BY <1>23
        DEF ReceiverDiverged, TypeOK, ReceiverRow, ReceiverInv, PlaceInv,
            Importing, Claiming, Undoing, ReceiverBefore, Past, Terminal
    <2> QED  BY <2>1, <2>2, <2>3, <2>4 DEF Quiet
  <1> QED
    BY <1>1, <1>2, <1>3, <1>4, <1>5, <1>6, <1>7, <1>8, <1>9, <1>10, <1>11,
       <1>12, <1>13, <1>14, <1>15, <1>16, <1>17, <1>18, <1>19, <1>20, <1>21,
       <1>22, <1>23
      DEF QuietStep

\* What has become active stays active.
ActiveKept ==
    \A p \in Participants : rdata[p] = "active" => rdata'[p] = "active"

LEMMA QuietActive ==
    ASSUME ActiveInv, RowGrows, Quiet
    PROVE  ActiveInv' /\ ActiveKept
  <1>1. ActiveKept
    BY DEF Quiet, ActiveKept
  <1>2. \A p \in Participants : <<"activate", p>> \in rcv'.pending => rcv'.step \in Past
    BY DEF Quiet, Calm, ActiveInv, RowGrows
  <1>3. \A p \in Participants : <<"abort", p>> \in rcv'.pending => rcv'.abort
    BY DEF Quiet, Calm, ActiveInv, RowGrows
  <1>4. /\ \A p \in Participants : rdata'[p] = "active" => rcv'.step \in Past
        /\ rdrv'.pc = "activate" => \A p \in rdrv'.done : rdata'[p] = "active"
        /\ rdrv'.pc = "cas_activated" => AllActive'
    BY DEF Quiet, ActiveInv, AllActive, RowGrows
  <1> QED  BY <1>1, <1>2, <1>3, <1>4 DEF ActiveInv

\* The steps that call participants: an import.
LEMMA ImportActive ==
    ASSUME TypeOK, ReceiverInv, ActiveInv, RowGrows, NEW p \in Participants, ReceiverImport(p)
    PROVE  ActiveInv' /\ ActiveKept /\ (rcv'.step = "none" <=> rcv.step = "none")
  <1>1. rdrv.pc = "import" /\ rcv'.step = rcv.step /\ rcv'.abort \in BOOLEAN
    BY DEF ReceiverImport, TypeOK, ReceiverRow
  <1>2. \A q \in Participants : rdata'[q] = "active" <=> rdata[q] = "active"
    BY DEF ReceiverImport, TypeOK, DataType, ReceiverData, rcvData
  <1>3. Calm(rcv'.pending)
    <2>1. rcv'.pending \in {{}, {<<"import", p>>}}
      BY DEF ReceiverImport, TypeOK, ReceiverRow
    <2>2. \A r \in Participants :
             <<"import", p>> # <<"activate", r>> /\ <<"import", p>> # <<"abort", r>>
      OBVIOUS
    <2> QED  BY <2>1, <2>2 DEF Calm
  <1>4. rdrv'.pc \in {"idle", "import", "bindings"}
    BY DEF ReceiverImport, TypeOK, ReceiverMemory, RIdle, RPc, Answered, Unresolved
  <1>5. ActiveKept
    BY <1>2 DEF ActiveKept
  <1>6. ActiveInv'
    BY <1>1, <1>2, <1>3, <1>4 DEF ActiveInv, Calm
  <1> QED  BY <1>1, <1>5, <1>6

\* An activation.
LEMMA ActivateActive ==
    ASSUME TypeOK, ReceiverInv, ActiveInv, RowGrows, NEW p \in Participants, ReceiverActivate(p)
    PROVE  ActiveInv' /\ ActiveKept /\ (rcv'.step = "none" <=> rcv.step = "none")
  <1>1. rdrv.pc = "activate" /\ rcv'.step = rcv.step /\ rcv.step \in Past
    BY DEF ReceiverActivate, TypeOK, ReceiverRow, ReceiverInv, PlaceInv, Past
  <1>2. rdata' \in {rdata, [rdata EXCEPT ![p] = "active"]}
    BY DEF ReceiverActivate
  <1>3. ActiveKept
    BY <1>2 DEF ActiveKept, TypeOK, DataType
  <1>4. \A q \in Participants : <<"abort", q>> \notin rcv'.pending
    <2>1. rcv'.pending \in {{}, {<<"activate", p>>}}
      BY DEF ReceiverActivate, TypeOK, ReceiverRow
    <2>2. \A r \in Participants : <<"activate", p>> # <<"abort", r>>
      OBVIOUS
    <2> QED  BY <2>1, <2>2
  <1>5. /\ rdrv'.pc = "activate" =>
              rdrv'.done = rdrv.done \cup {p} /\ rdata' = [rdata EXCEPT ![p] = "active"]
        /\ rdrv'.pc = "cas_activated" =>
              rdrv.done \cup {p} = Participants /\ rdata' = [rdata EXCEPT ![p] = "active"]
    BY <1>1 DEF ReceiverActivate, TypeOK, ReceiverMemory, RIdle, RPc, Answered, Unresolved
  <1>6. rdata' = [rdata EXCEPT ![p] = "active"] =>
            \A q \in rdrv.done \cup {p} : rdata'[q] = "active"
    BY <1>1 DEF ActiveInv, TypeOK, DataType, ReceiverMemory
  <1>7. ActiveInv'
    BY <1>1, <1>4, <1>5, <1>6 DEF ActiveInv, AllActive
  <1> QED  BY <1>1, <1>3, <1>7

\* An abort, which the boundary excludes once anything is active.
LEMMA AbortActive ==
    ASSUME TypeOK, ReceiverInv, ActiveInv, RowGrows, NEW p \in Participants,
           ReceiverAbortParticipant(p)
    PROVE  ActiveInv' /\ ActiveKept /\ (rcv'.step = "none" <=> rcv.step = "none")
  <1>1. /\ rdrv.pc = "undo_parts" /\ rcv'.step = rcv.step /\ rcv'.abort = rcv.abort
        /\ rcv.step \notin Past /\ rcv.abort
    BY DEF ReceiverAbortParticipant, TypeOK, ReceiverRow, ReceiverInv, PlaceInv, Past,
           Undoing, ReceiverBefore
  <1>2. \A q \in Participants : rdata[q] # "active"
    BY <1>1 DEF ActiveInv
  <1>3. \A q \in Participants : rdata'[q] # "active"
    BY <1>2 DEF ReceiverAbortParticipant, TypeOK, DataType
  <1>4. \A q \in Participants : <<"activate", q>> \notin rcv'.pending
    <2>1. rcv'.pending \in {{}, {<<"abort", p>>}}
      BY DEF ReceiverAbortParticipant, TypeOK, ReceiverRow
    <2>2. \A r \in Participants : <<"abort", p>> # <<"activate", r>>
      OBVIOUS
    <2> QED  BY <2>1, <2>2
  <1>5. rdrv'.pc \in {"idle", "undo_parts"}
    BY <1>1 DEF ReceiverAbortParticipant, TypeOK, ReceiverMemory, RIdle, Unresolved
  <1>6. ActiveInv' /\ ActiveKept
    BY <1>1, <1>2, <1>3, <1>4, <1>5 DEF ActiveInv, ActiveKept
  <1> QED  BY <1>1, <1>6

\* A pending call repeated.
LEMMA SettleActive ==
    ASSUME TypeOK, ReceiverInv, ActiveInv, RowGrows, ReceiverSettlePending
    PROVE  ActiveInv' /\ ActiveKept /\ (rcv'.step = "none" <=> rcv.step = "none")
  <1>1. /\ rdrv.pc \in {"settle", "undo_settle"} /\ rcv'.step = rcv.step
        /\ rcv'.pending \in {{}, rcv.pending}
    BY DEF ReceiverSettlePending, TypeOK, ReceiverRow
  <1>2. /\ rdrv'.pc \in {"idle", "undo_take", "activate", "check"}
        /\ rdrv'.done = {}
    BY <1>1 DEF ReceiverSettlePending, TypeOK, ReceiverMemory, RIdle, RPc, AfterSettle
  <1>3. ASSUME NEW q \in Participants
        PROVE  /\ rdata[q] = "active" => rdata'[q] = "active"
               /\ rdata'[q] = "active" => rdata[q] = "active" \/ rcv.step \in Past
    <2>1. CASE rcv.pending = {}
      BY <2>1 DEF ReceiverSettlePending, rcvData
    <2>2. CASE rcv.pending # {}
      <3>1. PICK p \in Participants, op \in {"diverged", "import", "activate", "abort"} :
               /\ rcv.pending = {<<op, p>>}
               /\ \/ UNCHANGED rdata
                  \/ rdata' = [rdata EXCEPT ![p] =
                        CASE op = "import" /\ @ = "none" -> "staged"
                          [] op = "activate" -> "active"
                          [] op = "abort" -> "none"
                          [] OTHER -> @]
        BY <2>2 DEF ReceiverSettlePending
      <3>2. op = "activate" => rcv.step \in Past
        BY <3>1 DEF ActiveInv
      <3>3. op = "abort" => rcv.step \notin Past
        BY <3>1 DEF ActiveInv, ReceiverInv, RowInv
      <3>4. rdata[q] = "active" => rcv.step \in Past
        BY DEF ActiveInv
      <3> QED  BY <3>1, <3>2, <3>3, <3>4 DEF TypeOK, DataType, ReceiverData
    <2> QED  BY <2>1, <2>2
  <1>4. ActiveKept
    BY <1>3 DEF ActiveKept
  <1>5. ActiveInv'
    BY <1>1, <1>2, <1>3 DEF ActiveInv, RowGrows
  <1> QED  BY <1>1, <1>4, <1>5

\* Every step of the receiver, and its row before and after the pickup.
LEMMA ReceiverMovesWalk ==
    ASSUME TypeOK, ReceiverInv, ActiveInv, RowGrows, ReceiverMoves
    PROVE  /\ ActiveInv' /\ ActiveKept
           /\ rcv.step # "none" => rcv'.step # "none"
           /\ rcv'.step # "none" => rcv.step # "none" \/ inbox.has
  <1>1. CASE QuietStep
    BY <1>1, QuietSteps, QuietActive DEF Quiet
  <1>2. CASE ReceiverPoll
    <2>1. /\ UNCHANGED <<rdata, rdrv>> /\ rcv'.pending = rcv.pending /\ rcv'.abort = rcv.abort
          /\ rcv.step # "none" => rcv'.step # "none"
      BY <1>2 DEF ReceiverPoll, rcvData, TypeOK, ReceiverRow
    <2>2. ActiveInv' /\ ActiveKept
      BY <2>1 DEF ActiveInv, ActiveKept, AllActive, RowGrows
    <2> QED  BY <1>2, <2>1, <2>2 DEF ReceiverPoll
  <1>3. CASE ReceiverSettlePending
    BY <1>3, SettleActive
  <1>4. ASSUME NEW p \in Participants,
               ReceiverImport(p) \/ ReceiverActivate(p) \/ ReceiverAbortParticipant(p)
        PROVE  /\ ActiveInv' /\ ActiveKept
               /\ rcv'.step = "none" <=> rcv.step = "none"
    BY <1>4, ImportActive, ActivateActive, AbortActive
  <1> QED
    BY <1>1, <1>2, <1>3, <1>4 DEF ReceiverMoves, ReceiverLocal, QuietStep

\* What the receiver writes: `activated` only from the place after the last
\* activation.
ReceiverWrites(state) ==
    /\ rcv.step # "none"
    /\ state \in {"staged", "claimed", "aborted"} \/ (state = "activated" /\ rdrv.pc = "cas_activated")

LEMMA ReceiverMovesWrites ==
    ASSUME TypeOK, ReceiverInv, ReceiverMoves
    PROVE  /\ rec'.state = rec.state \/ ReceiverWrites(rec'.state)
           /\ \A c \in recq' : c \in recq \/ ReceiverWrites(c.state)
  <1>1. CASE ReceiverLocal
    BY <1>1, ReceiverLocalFrame
  <1>2. CASE ReceiverTick
    BY <1>2 DEF ReceiverTick, shared
  <1>3. CASE ReceiverStage
    BY <1>3
      DEF ReceiverStage, ReceiverCas, CasLanded, CasMoved, CasUnanswered,
          ReceiverWrites, ReceiverInv, PlaceInv
  <1>4. CASE ReceiverCasClaimed
    BY <1>4
      DEF ReceiverCasClaimed, ReceiverCas, CasLanded, CasMoved, CasUnanswered,
          ReceiverWrites, ReceiverInv, PlaceInv, Claiming
  <1>5. CASE ReceiverCasActivated
    BY <1>5
      DEF ReceiverCasActivated, ReceiverCas, CasLanded, CasMoved,
          CasUnanswered, ReceiverWrites, ReceiverInv, PlaceInv
  <1>6. CASE ReceiverUndoRecord
    BY <1>6
      DEF ReceiverUndoRecord, CasLanded, CasUnanswered, ReceiverWrites,
          ReceiverInv, PlaceInv, Undoing, ReceiverBefore
  <1> QED  BY <1>1, <1>2, <1>3, <1>4, <1>5, <1>6 DEF ReceiverMoves

\* The receiver takes a cut off its inbox, and never puts one there.
LEMMA ReceiverMovesInbox ==
    ASSUME TypeOK, ListedInv, ReceiverMoves
    PROVE  /\ Listed' <=> Listed
           /\ inbox'.has => inbox'.ver > 0
           /\ \A c \in inboxq' : c.expect <= inbox'.ver
  <1>1. inbox \in [has: BOOLEAN, ver: Nat] /\ inboxq \subseteq InboxCas
    BY DEF TypeOK, SharedType
  <1>2. \A c \in inboxq : c.expect \in Nat
    BY <1>1 DEF InboxCas
  <1>3. \/ UNCHANGED <<inbox, inboxq>>
        \/ inbox.has /\ UNCHANGED inboxq /\ inbox' = [has |-> FALSE, ver |-> inbox.ver + 1]
        \/ /\ inbox.has /\ UNCHANGED inbox
           /\ inboxq' = inboxq \cup {[expect |-> inbox.ver, has |-> FALSE]}
    <2>1. CASE UNCHANGED <<inbox, inboxq>>
      BY <2>1
    <2>2. CASE ReceiverPoll
      BY <1>1, <2>2 DEF ReceiverPoll, InboxWrite, InboxUnanswered
    <2>3. CASE ReceiverFinish
      BY <1>1, <2>3 DEF ReceiverFinish, InboxWrite, InboxUnanswered
    <2>4. CASE ReceiverAborted
      BY <1>1, <2>4 DEF ReceiverAborted, InboxWrite, InboxUnanswered
    <2> QED  BY <2>1, <2>2, <2>3, <2>4, ReceiverMovesFrame
  <1>4. /\ inbox.has => inbox.ver > 0
        /\ \A c \in inboxq : c.expect <= inbox.ver
    BY DEF ListedInv
  <1>5. CASE UNCHANGED <<inbox, inboxq>>
    BY <1>4, <1>5 DEF Listed
  <1>6. CASE inbox.has /\ UNCHANGED inboxq /\ inbox' = [has |-> FALSE, ver |-> inbox.ver + 1]
    BY <1>1, <1>2, <1>4, <1>6 DEF Listed
  <1>7. CASE /\ inbox.has /\ UNCHANGED inbox
             /\ inboxq' = inboxq \cup {[expect |-> inbox.ver, has |-> FALSE]}
    BY <1>1, <1>2, <1>4, <1>7 DEF Listed
  <1> QED  BY <1>3, <1>5, <1>6, <1>7

\* The receiver's steps keep the invariant.
LEMMA ReceiverMovesLife ==
    ASSUME TypeOK, BoundaryInv, LifeInv, GoodStep, ReceiverMoves
    PROVE  LifeInv' /\ (Doomed => Doomed')
  <1>1. /\ SourcePlaceInv /\ ListedInv /\ UnlistedInv /\ FreezeInv /\ LiveInv
        /\ ActiveInv /\ ReleasedInv /\ ReceiverInv /\ RowGrows /\ RecordStep
    BY DEF LifeInv, GoodStep, BoundaryInv
  <1>2. UNCHANGED <<sdata, src, sdrv>>
    BY ReceiverMovesFrame DEF srcData, srcVars
  <1>3. /\ Listed' <=> Listed
        /\ inbox'.has => inbox'.ver > 0
        /\ \A c \in inboxq' : c.expect <= inbox'.ver
    BY <1>1, ReceiverMovesInbox
  <1>4. /\ rec'.state = rec.state \/ ReceiverWrites(rec'.state)
        /\ \A c \in recq' : c \in recq \/ ReceiverWrites(c.state)
    BY <1>1, ReceiverMovesWrites
  <1>5. /\ ActiveInv' /\ ActiveKept
        /\ rcv.step # "none" => rcv'.step # "none"
        /\ rcv'.step # "none" => rcv.step # "none" \/ inbox.has
    BY <1>1, ReceiverMovesWalk
  <1>6. /\ rec.state # "none" => rec'.state # "none"
        /\ rec.state = "aborted" => rec'.state = "aborted"
        /\ rec.state \in Activated => rec'.state \in Activated
    BY <1>1, RecordOnward
  <1>7. SourcePlaceInv' /\ FreezeInv'
    BY <1>1, <1>2 DEF SourcePlaceInv, FreezeInv, NoneLive
  <1>8. ListedInv'
    <2>1. inbox.has => Listed
      BY <1>1 DEF ListedInv, Listed
    <2> QED  BY <1>1, <1>2, <1>3, <1>5, <1>6, <2>1 DEF ListedInv
  <1>9. UnlistedInv'
    BY <1>1, <1>2, <1>4, <1>5 DEF UnlistedInv, ReceiverWrites
  <1>10. Doomed => Doomed'
    BY <1>2, <1>3, <1>6 DEF Doomed, GivingUp
  <1>11. LiveInv'
    BY <1>1, <1>2, <1>6, <1>10 DEF LiveInv, NoneLive
  <1>12. ReleasedInv'
    <2>1. AllActive => AllActive'
      BY <1>5 DEF ActiveKept, AllActive
    <2>2. rdrv.pc = "cas_activated" => AllActive
      BY <1>1 DEF ActiveInv
    <2>3. rec'.state \in Activated => AllActive'
      BY <1>1, <1>4, <2>1, <2>2 DEF ReleasedInv, ReceiverWrites, Activated
    <2>4. \A c \in recq' : c.state \in Activated => AllActive'
      BY <1>1, <1>4, <2>1, <2>2 DEF ReleasedInv, ReceiverWrites, Activated
    <2> QED  BY <1>1, <1>2, <1>6, <2>3, <2>4 DEF ReleasedInv
  <1> QED  BY <1>5, <1>7, <1>8, <1>9, <1>10, <1>11, <1>12 DEF LifeInv

-----------------------------------------------------------------------------
(* Calls that arrive late, and the door. *)

\* A late write of the record.
LEMMA DeliverRecordLife ==
    ASSUME TypeOK, BoundaryInv, LifeInv, GoodStep, DeliverRecord
    PROVE  LifeInv' /\ (Doomed => Doomed')
  <1>1. /\ UNCHANGED <<inbox, inboxq, sdata, rdata, src, sdrv, rcv, rdrv>>
        /\ recq' \subseteq recq
        /\ rec'.state = rec.state \/ \E c \in recq : rec'.state = c.state
    BY DEF DeliverRecord, srcData, rcvData, srcVars, rcvVars
  <1>2. /\ rec.state # "none" => rec'.state # "none"
        /\ rec.state = "aborted" => rec'.state = "aborted"
        /\ rec.state \in Activated => rec'.state \in Activated
    BY RecordOnward DEF GoodStep
  <1>3. SourcePlaceInv' /\ FreezeInv' /\ ActiveInv'
    BY <1>1 DEF LifeInv, SourcePlaceInv, FreezeInv, NoneLive, ActiveInv, AllActive
  <1>4. Listed' <=> Listed
    BY <1>1 DEF Listed
  <1>5. ListedInv'
    BY <1>1, <1>2, <1>4 DEF LifeInv, ListedInv
  <1>6. UnlistedInv'
    BY <1>1 DEF LifeInv, UnlistedInv
  <1>7. Doomed => Doomed'
    BY <1>1, <1>2, <1>4 DEF Doomed, GivingUp
  <1>8. LiveInv'
    BY <1>1, <1>2, <1>7 DEF LifeInv, LiveInv, NoneLive
  <1>9. ReleasedInv'
    BY <1>1, <1>2 DEF LifeInv, ReleasedInv, AllActive
  <1> QED  BY <1>3, <1>5, <1>6, <1>7, <1>8, <1>9 DEF LifeInv

\* A late write of the inbox: the cut is listed before and after.
LEMMA DeliverInboxLife ==
    ASSUME TypeOK, LifeInv, DeliverInbox
    PROVE  LifeInv' /\ (Doomed => Doomed')
  <1>1. PICK c \in inboxq :
           /\ inboxq' = inboxq \ {c}
           /\ inbox' = IF inbox.ver = c.expect
                       THEN [has |-> c.has, ver |-> c.expect + 1] ELSE inbox
    BY DEF DeliverInbox
  <1>2. UNCHANGED <<rec, recq, sdata, rdata, src, sdrv, rcv, rdrv>>
    BY DEF DeliverInbox, srcData, rcvData, srcVars, rcvVars
  <1>3. inbox.ver \in Nat /\ \A d \in inboxq : d.expect \in Nat
    BY DEF TypeOK, SharedType, InboxCas
  <1>4. /\ inbox.has => inbox.ver > 0
        /\ \A d \in inboxq : d.expect <= inbox.ver
    BY DEF LifeInv, ListedInv
  <1>5. /\ Listed /\ Listed'
        /\ inbox'.has => inbox'.ver > 0
        /\ \A d \in inboxq' : d.expect <= inbox'.ver
    <2>1. CASE inbox.ver = c.expect
      BY <1>1, <1>3, <1>4, <2>1 DEF Listed
    <2>2. CASE inbox.ver # c.expect
      BY <1>1, <1>3, <1>4, <2>2 DEF Listed
    <2> QED  BY <2>1, <2>2
  <1>6. SourcePlaceInv' /\ UnlistedInv' /\ FreezeInv' /\ ActiveInv' /\ ReleasedInv'
    BY <1>2 DEF LifeInv, SourcePlaceInv, UnlistedInv, FreezeInv, NoneLive, ActiveInv,
                ReleasedInv, AllActive
  <1>7. ListedInv'
    BY <1>2, <1>5 DEF LifeInv, ListedInv
  <1>8. Doomed => Doomed'
    BY <1>2, <1>5 DEF Doomed
  <1>9. LiveInv'
    BY <1>2, <1>8 DEF LifeInv, LiveInv, NoneLive
  <1> QED  BY <1>6, <1>7, <1>8, <1>9 DEF LifeInv

\* A late prepare freezes, a late import stages.
LEMMA LateLife ==
    ASSUME TypeOK, LifeInv,
           UNCHANGED <<rec, recq, inbox, inboxq, src, sdrv, rcv, rdrv>>,
           \A p \in Participants :
               /\ sdata'[p] = "live" => sdata[p] = "live"
               /\ sdata'[p] = "released" => sdata[p] = "released"
               /\ rdata'[p] = "active" <=> rdata[p] = "active"
    PROVE  LifeInv' /\ (Doomed => Doomed')
  <1>1. (Listed' <=> Listed) /\ (AllActive' <=> AllActive) /\ (NoneLive => NoneLive')
    BY DEF Listed, AllActive, NoneLive
  <1>2. SourcePlaceInv' /\ UnlistedInv'
    BY DEF LifeInv, SourcePlaceInv, UnlistedInv
  <1>3. ListedInv'
    BY <1>1 DEF LifeInv, ListedInv
  <1>4. FreezeInv'
    BY <1>1 DEF LifeInv, FreezeInv, TypeOK, SourceMemory
  <1>5. Doomed => Doomed'
    BY <1>1 DEF Doomed, GivingUp
  <1>6. LiveInv'
    BY <1>1, <1>5 DEF LifeInv, LiveInv
  <1>7. ActiveInv'
    BY <1>1 DEF LifeInv, ActiveInv, TypeOK, ReceiverMemory
  <1>8. ReleasedInv'
    BY <1>1 DEF LifeInv, ReleasedInv
  <1> QED  BY <1>2, <1>3, <1>4, <1>5, <1>6, <1>7, <1>8 DEF LifeInv

LEMMA EnvironmentLife ==
    ASSUME TypeOK, BoundaryInv, LifeInv, GoodStep, Environment
    PROVE  LifeInv' /\ (Doomed => Doomed')
  <1>1. CASE DeliverRecord
    BY <1>1, DeliverRecordLife
  <1>2. CASE DeliverInbox
    BY <1>2, DeliverInboxLife
  <1>3. CASE DeliverClaim \/ RivalClaim \/ DoorStep
    <2>1. UNCHANGED <<rec, recq, inbox, inboxq, src, sdrv, rcv, rdrv, sdata, rdata>>
      BY <1>3 DEF DeliverClaim, RivalClaim, DoorStep, shared, srcData, rcvData, srcVars, rcvVars
    <2> QED  BY <2>1, LateLife
  <1>4. CASE LatePrepare
    <2>1. UNCHANGED <<rec, recq, inbox, inboxq, src, sdrv, rcv, rdrv, rdata>>
      BY <1>4 DEF LatePrepare, shared, rcvData, srcVars, rcvVars
    <2>2. \A p \in Participants :
             /\ sdata'[p] = "live" => sdata[p] = "live"
             /\ sdata'[p] = "released" => sdata[p] = "released"
      BY <1>4 DEF LatePrepare, Frozen, TypeOK, DataType
    <2> QED  BY <2>1, <2>2, LateLife
  <1>5. CASE LateImport
    <2>1. UNCHANGED <<rec, recq, inbox, inboxq, src, sdrv, rcv, rdrv, sdata>>
      BY <1>5 DEF LateImport, shared, srcData, srcVars, rcvVars
    <2>2. \A p \in Participants : rdata'[p] = "active" <=> rdata[p] = "active"
      BY <1>5 DEF LateImport, TypeOK, DataType
    <2> QED  BY <2>1, <2>2, LateLife
  <1> QED  BY <1>1, <1>2, <1>3, <1>4, <1>5 DEF Environment

\* Every step of the system, sorted by who takes it.
LEMMA StepSorts ==
    ASSUME [Next]_vars
    PROVE  SourceMoves \/ SourceTick \/ ReceiverMoves \/ Environment \/ UNCHANGED vars
  <1>1. CASE SourceNext
    BY <1>1 DEF SourceNext, SourceMoves, SourceLocal
  <1>2. CASE SourceFault
    BY <1>2 DEF SourceFault, SourceMoves, SourceLocal
  <1>3. CASE ReceiverPoll \/ ReceiverNext
    BY <1>3 DEF ReceiverNext, ReceiverMoves, ReceiverLocal
  <1>4. CASE ReceiverFault
    BY <1>4 DEF ReceiverFault, ReceiverMoves, ReceiverLocal
  <1>5. CASE Operator
    BY <1>5 DEF Operator, SourceMoves, SourceLocal, ReceiverMoves, ReceiverLocal
  <1> QED  BY <1>1, <1>2, <1>3, <1>4, <1>5 DEF Next

LEMMA StepLife ==
    ASSUME TypeOK, BoundaryInv, LifeInv, [Next]_vars
    PROVE  LifeInv' /\ (Doomed => Doomed')
  <1>1. GoodStep /\ TypeOK'
    BY EveryStepIsGood, StepTypeOK
  <1>2. CASE UNCHANGED vars
    BY <1>2, LateLife DEF vars
  <1> QED  BY <1>1, <1>2, StepSorts, SourceMovesLife, SourceTickLife, ReceiverMovesLife,
              EnvironmentLife

LEMMA InitLife == Init => LifeInv
  <1> SUFFICES ASSUME Init PROVE LifeInv
    OBVIOUS
  <1>1. SourcePlaceInv /\ FreezeInv
    BY DEF Init, SourcePlaceInv, FreezeInv, Cleanup, Releasing
  <1>2. ListedInv /\ UnlistedInv
    BY DEF Init, ListedInv, UnlistedInv, Listed, Cleanup, Later
  <1>3. LiveInv
    BY DEF Init, LiveInv, Early
  <1>4. ActiveInv /\ ReleasedInv
    BY DEF Init, ActiveInv, ReleasedInv, Activated
  <1> QED  BY <1>1, <1>2, <1>3, <1>4 DEF LifeInv

\* However calls are lost, repeated or late, the two rows, the inbox and the
\* participants stay consistent with what the receiver can know of the cut.
THEOREM LifeInvariant == Spec => []LifeInv
  <1>1. TypeOK /\ BoundaryInv /\ LifeInv /\ [Next]_vars => LifeInv'
    BY StepLife
  <1> QED  BY <1>1, InitLife, TypeCorrect, BoundaryInvariant, PTL DEF Spec

\* Past the boundary nothing of the source is live.
LEMMA PastIsFrozen ==
    ASSUME TypeOK, BoundaryInv, LifeInv, rcv.step \in Past
    PROVE  NoneLive /\ ~Doomed /\ rec.state # "aborted"
  <1>1. rcv.step # "none" /\ Listed /\ src.step \notin Early
    BY DEF LifeInv, ListedInv, Past, Early, Unsealed
  <1>2. rec.ver > 2 /\ ~rcv.abort
    BY DEF BoundaryInv, ReceiverInv, RowInv, TypeOK, SharedType
  <1>3. rec.state # "aborted"
    BY <1>2 DEF BoundaryInv, RecordInv
  <1> QED  BY <1>1, <1>3 DEF LifeInv, LiveInv, Doomed

\* The agent's data is never writable on both machines, and the source lets go
\* of it only when the receiver runs with all of it: for any number of
\* participants, and any number of lost or late calls, restarts, refusals and
\* aborts.
THEOREM AgentLivesOnce == Spec => []LivesOnce
  <1>1. TypeOK /\ BoundaryInv /\ LifeInv => LivesOnce
    <2> SUFFICES ASSUME TypeOK, BoundaryInv, LifeInv PROVE LivesOnce
      OBVIOUS
    <2>1. NeverBothLive
      BY PastIsFrozen DEF NeverBothLive, LifeInv, ActiveInv, NoneLive
    <2>2. ReleaseAfterActivation
      BY DEF ReleaseAfterActivation, LifeInv, ReleasedInv, Activated, AllActive
    <2> QED  BY <2>1, <2>2 DEF LivesOnce
  <1> QED  BY <1>1, TypeCorrect, BoundaryInvariant, LifeInvariant, PTL

-----------------------------------------------------------------------------
(***************************************************************************)
(* The refinement: with the mapping of AgentMove, every step is a step of  *)
(* MoveDecision or leaves its state alone.                                 *)
(***************************************************************************)

Invs == TypeOK /\ BoundaryInv /\ LifeInv

\* The mapped variables in terms of the invariant.
Mapped ==
    /\ Decided = IF rcv.step \in Past THEN "commit" ELSE IF Doomed THEN "abort" ELSE "open"
    /\ rcv.step \in Past => NoneLive /\ ~Doomed
    /\ SourceAgent = "running" => ~NoneLive
    /\ SourceAgent = "gone" => rcv.step \in Past /\ ReceiverAgent = "running"
    /\ ReceiverAgent = "running" => rcv.step \in Past

LEMMA MappedState == Invs => Mapped
  <1> SUFFICES ASSUME Invs PROVE Mapped
    OBVIOUS
  <1>1. 1 \in Participants
    BY ConstantsAssumption DEF Participants
  <1>2. Withdrawn <=> ~Listed /\ GivingUp
    BY DEF Invs, TypeOK, SharedType, Withdrawn, Listed, GivingUp, Handing
  <1>3. (rec.state = "aborted" \/ src.step = "aborted" \/ Withdrawn) <=> Doomed
    BY <1>2 DEF Invs, LifeInv, LiveInv, Doomed
  <1>4. SourceAgent = "gone" => AllActive
    BY DEF SourceAgent, Invs, LifeInv, ReleasedInv
  <1>5. ReceiverAgent = "running" => rcv.step \in Past
    BY DEF ReceiverAgent, Invs, LifeInv, ActiveInv
  <1>6. AllActive => ReceiverAgent = "running"
    BY <1>1 DEF AllActive, ReceiverAgent
  <1>7. SourceAgent = "running" => ~NoneLive
    BY <1>1 DEF SourceAgent, NoneLive
  <1>8. rcv.step \in Past => NoneLive /\ ~Doomed
    BY PastIsFrozen DEF Invs
  <1> QED  BY <1>3, <1>4, <1>5, <1>6, <1>7, <1>8 DEF Decided, Mapped

LEMMA MappedStateNext == Invs' => Mapped'
  BY MappedState, PTL

\* The decision is taken once.
LEMMA DecisionStep ==
    ASSUME Mapped, Mapped', RowGrows, Doomed => Doomed'
    PROVE  \/ UNCHANGED Decided
           \/ Decided = "open" /\ Decided' = "abort"
           \/ Decided = "open" /\ Decided' = "commit" /\ rcv'.step \in Past
  BY DEF Mapped, RowGrows

\* A step whose effects on data and decision are kept apart is a step of
\* MoveDecision.
LEMMA AbstractStep ==
    ASSUME TypeOK, Mapped, Mapped', RowGrows, Doomed => Doomed',
           DataWalk, ActiveKept,
           sdrv.pc = "abort_parts" => Doomed,
           sdrv.pc = "release" => ReceiverAgent = "running",
           UNCHANGED <<sdata, rdata>> \/ UNCHANGED Decided,
           UNCHANGED sdata \/ UNCHANGED ReceiverAgent
    PROVE  [Abstract!Next]_(Abstract!vars)
  <1> SUFFICES Abstract!Next \/ UNCHANGED <<Decided, SourceAgent, ReceiverAgent>>
    BY DEF Abstract!vars
  <1>1. /\ SourceAgent \in {"gone", "running", "paused"}
        /\ SourceAgent' \in {"gone", "running", "paused"}
        /\ ReceiverAgent \in {"running", "absent"} /\ ReceiverAgent' \in {"running", "absent"}
    BY DEF SourceAgent, ReceiverAgent
  <1>2. CASE ~UNCHANGED Decided
    <2>1. UNCHANGED <<SourceAgent, ReceiverAgent>>
      BY <1>2 DEF SourceAgent, ReceiverAgent
    <2>2. Decided' = "commit" => SourceAgent = "paused"
      BY <1>1, <1>2, <2>1 DEF Mapped
    <2>3. Abstract!Decide
      BY <1>2, <2>1, <2>2, DecisionStep DEF Abstract!Decide
    <2> QED  BY <2>3 DEF Abstract!Next
  <1>3. CASE UNCHANGED Decided /\ UNCHANGED ReceiverAgent
    <2>1. CASE SourceAgent = "running" /\ SourceAgent' = "paused"
      <3>1. Decided # "commit"
        BY <2>1 DEF Mapped
      <3> QED  BY <1>3, <2>1, <3>1 DEF Abstract!Next, Abstract!Pause
    <2>2. CASE SourceAgent = "paused" /\ SourceAgent' = "running"
      <3>1. sdrv.pc = "abort_parts"
        BY <2>2 DEF SourceAgent, DataWalk
      <3>2. Decided = "abort"
        BY <3>1 DEF Mapped
      <3> QED  BY <1>3, <2>2, <3>2 DEF Abstract!Next, Abstract!Resume
    <2>3. CASE SourceAgent # "gone" /\ SourceAgent' = "gone"
      <3>1. sdrv.pc = "release"
        BY <2>3 DEF SourceAgent, DataWalk
      <3>2. ReceiverAgent = "running" /\ SourceAgent = "paused"
        BY <1>1, <2>3, <3>1 DEF Mapped
      <3> QED  BY <1>3, <2>3, <3>2 DEF Abstract!Next, Abstract!Leave
    <2>4. SourceAgent = "gone" => SourceAgent' = "gone"
      BY DEF SourceAgent, DataWalk
    <2> QED  BY <1>1, <1>3, <2>1, <2>2, <2>3, <2>4
  <1>4. CASE UNCHANGED Decided /\ ~UNCHANGED ReceiverAgent
    <2>1. ReceiverAgent = "absent" /\ ReceiverAgent' = "running"
      BY <1>1, <1>4 DEF ReceiverAgent, ActiveKept
    <2>2. UNCHANGED SourceAgent
      BY <1>4 DEF SourceAgent
    <2>3. Decided' = "commit"
      BY <2>1 DEF Mapped
    <2>4. Decided = "commit" /\ SourceAgent = "paused"
      BY <1>1, <1>4, <2>1, <2>3 DEF Mapped
    <2> QED  BY <1>4, <2>1, <2>2, <2>4 DEF Abstract!Next, Abstract!Start
  <1> QED  BY <1>2, <1>3, <1>4

\* A source step that touches data takes no decision.
LEMMA SourceDecidesApart ==
    ASSUME TypeOK, BoundaryInv, LifeInv, SourceMoves
    PROVE  \/ UNCHANGED sdata
           \/ /\ UNCHANGED <<rec, inbox, inboxq, rcv>> /\ src'.abort = src.abort
              /\ src'.step = "aborted" => src.step = "aborted"
              /\ sdrv.pc \notin Handing
  <1> DEFINE Apart ==
        \/ UNCHANGED sdata
        \/ /\ UNCHANGED <<rec, inbox, inboxq, rcv>> /\ src'.abort = src.abort
           /\ src'.step = "aborted" => src.step = "aborted"
           /\ sdrv.pc \notin Handing
  <1>1. CASE SourceSettlePending
    BY <1>1 DEF SourceSettlePending, shared, SourceFrame, rcvVars, TypeOK, SourceRow, Handing
  <1>2. ASSUME NEW p \in Participants, SourcePrepare(p)
        PROVE  Apart
    BY <1>2 DEF SourcePrepare, shared, SourceFrame, rcvVars, TypeOK, SourceRow, Handing
  <1>3. ASSUME NEW p \in Participants, SourceExport(p)
        PROVE  Apart
    BY <1>3 DEF SourceExport, shared, SourceFrame, rcvVars, TypeOK, SourceRow, Handing
  <1>4. ASSUME NEW p \in Participants, SourceRelease(p)
        PROVE  Apart
    BY <1>4 DEF SourceRelease, shared, SourceFrame, rcvVars, TypeOK, SourceRow, Handing
  <1>5. ASSUME NEW p \in Participants, SourceAbortParticipant(p)
        PROVE  Apart
    BY <1>5 DEF SourceAbortParticipant, shared, SourceFrame, rcvVars, TypeOK, SourceRow, Handing
  <1>6. CASE AdmitMove \/ SourceRequestAbort \/ SourceRetryAbort \/ SourceCrash \/ SourceBusy
    BY <1>6 DEF AdmitMove, SourceRequestAbort, SourceRetryAbort, SourceCrash, SourceBusy, srcData
  <1>7. CASE SourceRefused \/ SourceViolation \/ SourceReseal \/ SourceSeal \/ SourceAppendInbox
    BY <1>7 DEF SourceRefused, SourceViolation, SourceReseal, SourceSeal, SourceAppendInbox,
                srcData
  <1>8. CASE SourceHandoff \/ SourceAbortDoor \/ SourceCloseDoor
    BY <1>8 DEF SourceHandoff, SourceAbortDoor, SourceCloseDoor, srcData
  <1>9. CASE SourcePublish \/ SourceCasReleased \/ SourceDecide
    BY <1>9 DEF SourcePublish, SourceCasReleased, SourceDecide, srcData
  <1> QED
    BY <1>1, <1>2, <1>3, <1>4, <1>5, <1>6, <1>7, <1>8, <1>9 DEF SourceMoves, SourceLocal

\* Nor does a receiver step that touches data.
LEMMA ReceiverDecidesApart ==
    ASSUME TypeOK, ReceiverInv, ReceiverMoves
    PROVE  \/ UNCHANGED rdata
           \/ UNCHANGED <<rec, inbox, inboxq>> /\ rcv'.step = rcv.step
  <1> DEFINE Apart ==
        \/ UNCHANGED rdata
        \/ UNCHANGED <<rec, inbox, inboxq>> /\ rcv'.step = rcv.step
  <1>1. CASE QuietStep
    BY <1>1, QuietSteps DEF Quiet
  <1>2. CASE ReceiverPoll
    BY <1>2 DEF ReceiverPoll, rcvData
  <1>3. CASE ReceiverSettlePending
    BY <1>3 DEF ReceiverSettlePending, shared, TypeOK, ReceiverRow
  <1>4. ASSUME NEW p \in Participants, ReceiverImport(p)
        PROVE  Apart
    BY <1>4 DEF ReceiverImport, shared, TypeOK, ReceiverRow
  <1>5. ASSUME NEW p \in Participants, ReceiverActivate(p)
        PROVE  Apart
    BY <1>5 DEF ReceiverActivate, shared, TypeOK, ReceiverRow
  <1>6. ASSUME NEW p \in Participants, ReceiverAbortParticipant(p)
        PROVE  Apart
    BY <1>6 DEF ReceiverAbortParticipant, shared, TypeOK, ReceiverRow
  <1> QED
    BY <1>1, <1>2, <1>3, <1>4, <1>5, <1>6 DEF ReceiverMoves, ReceiverLocal, QuietStep

\* Every step of the two drivers and their surroundings, mapped.
LEMMA StepRefines ==
    ASSUME Invs, Invs', [Next]_vars
    PROVE  [Abstract!Next]_(Abstract!vars)
  <1>1. /\ TypeOK /\ BoundaryInv /\ LifeInv /\ Mapped /\ Mapped'
    BY MappedState, MappedStateNext DEF Invs
  <1>2. RowGrows /\ (Doomed => Doomed')
    BY <1>1, EveryStepIsGood, StepLife DEF GoodStep
  <1>3. sdrv.pc = "abort_parts" => Doomed
    BY <1>1, CleanupIsDoomed DEF LifeInv
  <1>4. sdrv.pc = "release" => ReceiverAgent = "running"
    <2>1. sdrv.pc = "release" => AllActive
      BY <1>1 DEF BoundaryInv, SourceInv, LifeInv, ReleasedInv
    <2>2. 1 \in Participants
      BY ConstantsAssumption DEF Participants
    <2> QED  BY <2>1, <2>2 DEF AllActive, ReceiverAgent
  <1>5. UNCHANGED sdata => DataWalk
    BY DEF DataWalk
  <1>6. UNCHANGED rdata => ActiveKept /\ UNCHANGED ReceiverAgent
    BY DEF ActiveKept, ReceiverAgent
  <1>7. CASE UNCHANGED <<sdata, rdata>>
    BY <1>1, <1>2, <1>3, <1>4, <1>5, <1>6, <1>7, AbstractStep
  <1>8. CASE SourceMoves /\ ~UNCHANGED sdata
    <2>1. DataWalk
      BY <1>1, <1>8, SourceMovesWalk DEF LifeInv
    <2>2. UNCHANGED rdata
      BY <1>8, SourceMovesFrame DEF rcvData
    <2>3. /\ UNCHANGED <<rec, inbox, inboxq, rcv>> /\ src'.abort = src.abort
          /\ src'.step = "aborted" => src.step = "aborted"
          /\ sdrv.pc \notin Handing
      BY <1>1, <1>8, SourceDecidesApart
    <2>4. Doomed' => Doomed
      BY <2>3 DEF Doomed, Listed, GivingUp
    <2>5. UNCHANGED Decided
      BY <1>1, <1>2, <2>3, <2>4 DEF Mapped
    <2> QED  BY <1>1, <1>2, <1>3, <1>4, <1>6, <2>1, <2>2, <2>5, AbstractStep
  <1>9. CASE ReceiverMoves /\ ~UNCHANGED rdata
    <2>1. ActiveKept
      BY <1>1, <1>2, <1>9, ReceiverMovesWalk DEF LifeInv, BoundaryInv
    <2>2. UNCHANGED <<sdata, src, sdrv>>
      BY <1>9, ReceiverMovesFrame DEF srcData, srcVars
    <2>3. UNCHANGED <<rec, inbox, inboxq>> /\ rcv'.step = rcv.step
      BY <1>1, <1>9, ReceiverDecidesApart DEF BoundaryInv
    <2>4. Doomed' => Doomed
      BY <2>2, <2>3 DEF Doomed, Listed, GivingUp
    <2>5. UNCHANGED Decided
      BY <1>1, <1>2, <2>3, <2>4 DEF Mapped
    <2> QED  BY <1>1, <1>2, <1>3, <1>4, <1>5, <2>1, <2>2, <2>5, AbstractStep
  <1>10. CASE LatePrepare
    <2>1. UNCHANGED <<rec, inbox, inboxq, src, sdrv, rcv, rdata>>
      BY <1>10 DEF LatePrepare, shared, rcvData, srcVars, rcvVars
    <2>2. DataWalk
      BY <1>1, <1>10 DEF LatePrepare, DataWalk, Frozen, TypeOK, DataType
    <2>3. UNCHANGED Decided
      BY <2>1 DEF Decided, Withdrawn
    <2> QED  BY <1>1, <1>2, <1>3, <1>4, <1>6, <2>1, <2>2, <2>3, AbstractStep
  <1>11. CASE LateImport
    <2>1. UNCHANGED <<rec, inbox, inboxq, src, sdrv, rcv, sdata>>
      BY <1>11 DEF LateImport, shared, srcData, srcVars, rcvVars
    <2>2. ActiveKept
      BY <1>1, <1>11 DEF LateImport, ActiveKept, TypeOK, DataType
    <2>3. UNCHANGED Decided
      BY <2>1 DEF Decided, Withdrawn
    <2> QED  BY <1>1, <1>2, <1>3, <1>4, <1>5, <2>1, <2>2, <2>3, AbstractStep
  <1>12. CASE SourceMoves /\ UNCHANGED sdata
    BY <1>7, <1>12, SourceMovesFrame DEF rcvData
  <1>13. CASE ReceiverMoves /\ UNCHANGED rdata
    BY <1>7, <1>13, ReceiverMovesFrame DEF srcData
  <1>14. CASE SourceTick
    BY <1>7, <1>14 DEF SourceTick, srcData, SourceFrame, rcvData
  <1>15. CASE DeliverRecord \/ DeliverClaim \/ DeliverInbox \/ RivalClaim \/ DoorStep
    BY <1>7, <1>15 DEF DeliverRecord, DeliverClaim, DeliverInbox, RivalClaim, DoorStep,
                       srcData, rcvData
  <1>16. CASE UNCHANGED vars
    BY <1>7, <1>16 DEF vars
  <1> QED
    BY <1>8, <1>9, <1>10, <1>11, <1>12, <1>13, <1>14, <1>15, <1>16, StepSorts
    DEF Environment

\* A move in which nothing has happened is undecided, at home.
LEMMA InitRefines == Init => Abstract!Init
  <1> SUFFICES ASSUME Init PROVE Abstract!Init
    OBVIOUS
  <1>1. Decided = "open"
    BY DEF Init, Decided, Past, Withdrawn
  <1>2. SourceAgent = "running"
    BY DEF Init, SourceAgent
  <1>3. ReceiverAgent = "absent"
    BY DEF Init, ReceiverAgent
  <1> QED  BY <1>1, <1>2, <1>3 DEF Abstract!Init

\* The protocol implements MoveDecision, for every plan and every number of
\* faults: the move is decided once, the agent starts on the receiver only by a
\* decision to move, and runs at home again only by a decision not to.
THEOREM MoveIsDecidedOnce == Spec => ImplementsDecision
  <1>1. Invs /\ Invs' /\ [Next]_vars => [Abstract!Next]_(Abstract!vars)
    BY StepRefines
  <1>2. Spec => []Invs
    BY TypeCorrect, BoundaryInvariant, LifeInvariant, PTL DEF Invs
  <1> QED  BY <1>1, <1>2, InitRefines, PTL DEF Spec, ImplementsDecision, Abstract!Spec

-----------------------------------------------------------------------------
(* The claim and the abort                                                 *)

StagedSteps == {"staged", "claimed"} \cup Past
ClaimedSteps == {"claimed"} \cup Past

-----------------------------------------------------------------------------
(* The claim *)

\* The claim is where admission pinned it, taken by the receiver, returned to
\* the source, or taken by another machine while nobody held it.
ClaimShapeInv ==
    /\ src.claimVer \in {0, 1}
    /\ claim.epoch = claim.ver
    /\ src.step = "none" =>
          \/ claim.ver = 0 /\ claim.holder = "none"
          \/ claim.ver = 1 /\ claim.holder \in {"source", "rival"}
    /\ src.step # "none" =>
          \/ claim.ver = src.claimVer /\ claim.holder \in {"none", "source"}
          \/ claim.ver = src.claimVer + 1 /\ claim.holder = "receiver" /\ rcv.takeEpoch > 0
          \/ /\ claim.ver = src.claimVer + 2 /\ claim.holder = "source"
             /\ rcv.landed > 0 /\ rcv.abort
          \/ claim.ver = 1 /\ src.claimVer = 0 /\ claim.holder = "rival"

\* The writes of the claim in flight: takes of the pinned version, and returns
\* of the version a take produced.
ClaimWriteInv ==
    \A c \in claimq :
        \/ /\ c = [expect |-> src.claimVer, holder |-> "receiver", epoch |-> src.claimVer + 1]
           /\ rcv.takeEpoch > 0
        \/ /\ c = [expect |-> src.claimVer + 1, holder |-> "source", epoch |-> src.claimVer + 2]
           /\ rcv.landed > 0 /\ rcv.abort

\* What the receiver's row knows of the claim.
TakeInv ==
    /\ rcv.step = "none" => rcv.takeEpoch = 0
    /\ rcv.takeEpoch \in {0, src.claimVer + 1}
    /\ rcv.landed \in {0, src.claimVer + 1}
    /\ rcv.landed > 0 =>
          rcv.takeEpoch > 0 /\ claim.ver > src.claimVer /\ claim.holder # "rival"
    /\ rcv.step \in ClaimedSteps => rcv.landed > 0
    /\ rdrv.pc = "cas_claimed" => rcv.landed > 0
    /\ rdrv.pc = "take" => rcv.takeEpoch > 0

\* A take was never sent, none in flight can land any more, or the row says that
\* one was settled as moved.
TakeOver == rcv.takeEpoch = 0 \/ rcv.takeFailed \/ claim.ver # src.claimVer

\* Cleanup has begun to undo the participants, or has said so.
Undone ==
    \/ rdrv.pc \in {"undo_parts", "undo_inbox"}
    \/ rec.state = "aborted" /\ (rec.ver > 2 \/ rec.author = "receiver")
    \/ \E c \in recq : c.state = "aborted" /\ c.author = "receiver"
    \/ rcv.aborted # {} \/ rcv.step = "aborted"
    \/ \E p \in Participants : <<"abort", p>> \in rcv.pending

\* The receiver undoes participants, or is done with it.
Parting == rdrv.pc \in {"undo_parts", "undo_inbox"} \/ rcv.step = "aborted"

\* It has begun only after the claim is not, and cannot become, the receiver's,
\* but by a take settled as moved; and from then on every pass is cleanup.
UndoInv ==
    /\ rdrv.pc \in {"undo_return", "undo_check"} => TakeOver
    /\ Undone => /\ rcv.abort /\ TakeOver /\ (rcv.takeFailed \/ claim.holder # "receiver")
                 /\ rdrv.pc \in Undoing \cup {"idle"}
    /\ Parting => claim.holder # "receiver" \/ (rcv.takeFailed /\ rcv.landed = 0)

\* The receiver asks for the claim only after the record was staged.
StagedInv ==
    rcv.takeEpoch > 0 \/ rcv.step \in StagedSteps =>
        rec.ver >= 2 /\ (rec.ver = 2 => rec.state = "staged")

ClaimInv == ClaimShapeInv /\ ClaimWriteInv /\ TakeInv /\ UndoInv /\ StagedInv

-----------------------------------------------------------------------------
(* What the receiver holds *)

\* Data is staged, or may yet be, only where the row says a call was made; what
\* was undone stays undone.
CleanInv ==
    /\ \A p \in Participants :
          /\ rdata[p] # "none" => p \in rcv.touched
          /\ p \in rlate => rcv.pending = {<<"import", p>>}
          /\ <<"import", p>> \in rcv.pending => rcv.touched = Participants /\ rcv.aborted = {}
    /\ \A p \in rcv.aborted : rdata[p] = "none"
    /\ rdrv.pc \in Undoing \ {"undo_settle"} => rcv.pending = {}
    /\ rdrv.pc \in {"writers", "import", "bindings"} => rcv.touched = Participants
    /\ rdrv.pc = "diverged" => rdrv.done \subseteq rcv.touched
    /\ rcv.step \in {"imported"} \cup StagedSteps => rcv.touched = Participants
    /\ rdrv.pc = "undo_inbox" \/ rcv.step = "aborted" =>
          rcv.touched \subseteq rcv.aborted /\ rec.state = "aborted"

-----------------------------------------------------------------------------
(* What the door knows *)

\* A seal is known to the door only after seal_sent was saved; a sealed cut was
\* published; a source that follows a shared abort, or closes the cut without
\* one, leaves nothing open and no seal in flight that could open it.
DoorInv ==
    /\ src.sealRefused => door = "refuses"
    /\ ~src.sealSent => door \in {"none", "refuses"} /\ ~doorLate /\ sdrv.pc # "reseal"
    /\ src.step \in {"sealed", "published", "releasing", "released"} =>
          door \in {"published", "aborted", "taken"} /\ src.sealSent
    /\ door = "taken" => rcv.step \in Past
    /\ sdrv.pc = "abort_door" => src.step \in {"sealed", "published"} /\ sdrv.obs = "aborted"
    /\ sdrv.pc = "abort_parts" /\ sdrv.obs = "aborted" => door = "aborted"
    /\ src.step = "aborted" => door \in {"aborted", "refuses"} \/ (door = "none" /\ ~doorLate)

AbortInv == ClaimInv /\ CleanInv /\ DoorInv

-----------------------------------------------------------------------------
(* The door *)

SealedSteps == {"sealed", "published", "releasing", "released"}

\* A source step that does not speak to the door.
DoorQuiet ==
    /\ UNCHANGED <<door, doorLate>>
    /\ src'.sealSent = src.sealSent /\ src'.sealRefused = src.sealRefused
    /\ src'.step \in SealedSteps => src.step \in SealedSteps
    /\ src'.step = "aborted" => src.step = "aborted"
    /\ sdrv'.pc = "reseal" => src.sealSent
    /\ sdrv'.pc = "abort_door" =>
           /\ src'.step \in {"sealed", "published"} /\ sdrv'.obs = "aborted"
    /\ sdrv'.pc = "abort_parts" /\ sdrv'.obs = "aborted" =>
           sdrv.pc = "abort_parts" /\ sdrv.obs = "aborted"

DoorQuietStep ==
    \/ AdmitMove \/ SourceRequestAbort \/ SourceRetryAbort \/ SourceCrash \/ SourceBusy
    \/ SourceRefused \/ SourceViolation \/ SourcePublish \/ SourceAppendInbox
    \/ SourceHandoff \/ SourceCasReleased \/ SourceDecide \/ SourceSettlePending
    \/ \E p \in Participants :
          \/ SourcePrepare(p) \/ SourceExport(p) \/ SourceRelease(p)
          \/ SourceAbortParticipant(p)

LEMMA DoorQuietSteps ==
    ASSUME TypeOK, SourcePlaceInv, DoorInv, DoorQuietStep
    PROVE  DoorQuiet
  <1>1. CASE AdmitMove
    <2>1. UNCHANGED <<door, doorLate>>
      BY <1>1 DEF AdmitMove, doorVars
    <2>2. src'.sealSent = src.sealSent /\ src'.sealRefused = src.sealRefused
      BY <1>1 DEF AdmitMove, TypeOK, SourceRow
    <2>3. /\ src'.step \in SealedSteps => src.step \in SealedSteps
          /\ src'.step = "aborted" => src.step = "aborted"
      BY <1>1
        DEF AdmitMove, TypeOK, SourceRow, SealedSteps, SourcePlaceInv,
            Releasing
    <2>4. /\ sdrv'.pc = "reseal" => src.sealSent
          /\ sdrv'.pc = "abort_door" =>
                src'.step \in {"sealed", "published"} /\ sdrv'.obs = "aborted"
          /\ sdrv'.pc = "abort_parts" /\ sdrv'.obs = "aborted" =>
                sdrv.pc = "abort_parts" /\ sdrv.obs = "aborted"
      BY <1>1
        DEF AdmitMove, TypeOK, SourceRow, SourceMemory, SIdle, SPc, Answered,
            Unresolved, DoorInv
    <2> QED  BY <2>1, <2>2, <2>3, <2>4 DEF DoorQuiet
  <1>2. CASE SourceRequestAbort
    <2>1. UNCHANGED <<door, doorLate>>
      BY <1>2 DEF SourceRequestAbort, doorVars
    <2>2. src'.sealSent = src.sealSent /\ src'.sealRefused = src.sealRefused
      BY <1>2 DEF SourceRequestAbort, TypeOK, SourceRow
    <2>3. /\ src'.step \in SealedSteps => src.step \in SealedSteps
          /\ src'.step = "aborted" => src.step = "aborted"
      BY <1>2
        DEF SourceRequestAbort, TypeOK, SourceRow, SealedSteps,
            SourcePlaceInv, Releasing
    <2>4. /\ sdrv'.pc = "reseal" => src.sealSent
          /\ sdrv'.pc = "abort_door" =>
                src'.step \in {"sealed", "published"} /\ sdrv'.obs = "aborted"
          /\ sdrv'.pc = "abort_parts" /\ sdrv'.obs = "aborted" =>
                sdrv.pc = "abort_parts" /\ sdrv.obs = "aborted"
      BY <1>2
        DEF SourceRequestAbort, TypeOK, SourceRow, SourceMemory, SIdle, SPc,
            Answered, Unresolved, DoorInv
    <2> QED  BY <2>1, <2>2, <2>3, <2>4 DEF DoorQuiet
  <1>3. CASE SourceRetryAbort
    <2>1. UNCHANGED <<door, doorLate>>
      BY <1>3 DEF SourceRetryAbort, doorVars
    <2>2. src'.sealSent = src.sealSent /\ src'.sealRefused = src.sealRefused
      BY <1>3 DEF SourceRetryAbort, TypeOK, SourceRow
    <2>3. /\ src'.step \in SealedSteps => src.step \in SealedSteps
          /\ src'.step = "aborted" => src.step = "aborted"
      BY <1>3
        DEF SourceRetryAbort, TypeOK, SourceRow, SealedSteps, SourcePlaceInv,
            Releasing
    <2>4. /\ sdrv'.pc = "reseal" => src.sealSent
          /\ sdrv'.pc = "abort_door" =>
                src'.step \in {"sealed", "published"} /\ sdrv'.obs = "aborted"
          /\ sdrv'.pc = "abort_parts" /\ sdrv'.obs = "aborted" =>
                sdrv.pc = "abort_parts" /\ sdrv.obs = "aborted"
      BY <1>3
        DEF SourceRetryAbort, TypeOK, SourceRow, SourceMemory, SIdle, SPc,
            Answered, Unresolved, DoorInv
    <2> QED  BY <2>1, <2>2, <2>3, <2>4 DEF DoorQuiet
  <1>4. CASE SourceCrash
    <2>1. UNCHANGED <<door, doorLate>>
      BY <1>4 DEF SourceCrash, doorVars
    <2>2. src'.sealSent = src.sealSent /\ src'.sealRefused = src.sealRefused
      BY <1>4 DEF SourceCrash, TypeOK, SourceRow
    <2>3. /\ src'.step \in SealedSteps => src.step \in SealedSteps
          /\ src'.step = "aborted" => src.step = "aborted"
      BY <1>4
        DEF SourceCrash, TypeOK, SourceRow, SealedSteps, SourcePlaceInv,
            Releasing
    <2>4. /\ sdrv'.pc = "reseal" => src.sealSent
          /\ sdrv'.pc = "abort_door" =>
                src'.step \in {"sealed", "published"} /\ sdrv'.obs = "aborted"
          /\ sdrv'.pc = "abort_parts" /\ sdrv'.obs = "aborted" =>
                sdrv.pc = "abort_parts" /\ sdrv.obs = "aborted"
      BY <1>4
        DEF SourceCrash, TypeOK, SourceRow, SourceMemory, SIdle, SPc,
            Answered, Unresolved, DoorInv
    <2> QED  BY <2>1, <2>2, <2>3, <2>4 DEF DoorQuiet
  <1>5. CASE SourceBusy
    <2>1. UNCHANGED <<door, doorLate>>
      BY <1>5 DEF SourceBusy, doorVars
    <2>2. src'.sealSent = src.sealSent /\ src'.sealRefused = src.sealRefused
      BY <1>5 DEF SourceBusy, TypeOK, SourceRow
    <2>3. /\ src'.step \in SealedSteps => src.step \in SealedSteps
          /\ src'.step = "aborted" => src.step = "aborted"
      BY <1>5
        DEF SourceBusy, TypeOK, SourceRow, SealedSteps, SourcePlaceInv,
            Releasing
    <2>4. /\ sdrv'.pc = "reseal" => src.sealSent
          /\ sdrv'.pc = "abort_door" =>
                src'.step \in {"sealed", "published"} /\ sdrv'.obs = "aborted"
          /\ sdrv'.pc = "abort_parts" /\ sdrv'.obs = "aborted" =>
                sdrv.pc = "abort_parts" /\ sdrv.obs = "aborted"
      BY <1>5
        DEF SourceBusy, TypeOK, SourceRow, SourceMemory, SIdle, SPc, Answered,
            Unresolved, DoorInv
    <2> QED  BY <2>1, <2>2, <2>3, <2>4 DEF DoorQuiet
  <1>6. CASE SourceRefused
    <2>1. UNCHANGED <<door, doorLate>>
      BY <1>6 DEF SourceRefused, doorVars
    <2>2. src'.sealSent = src.sealSent /\ src'.sealRefused = src.sealRefused
      BY <1>6 DEF SourceRefused, TypeOK, SourceRow
    <2>3. /\ src'.step \in SealedSteps => src.step \in SealedSteps
          /\ src'.step = "aborted" => src.step = "aborted"
      BY <1>6
        DEF SourceRefused, TypeOK, SourceRow, SealedSteps, SourcePlaceInv,
            Releasing
    <2>4. /\ sdrv'.pc = "reseal" => src.sealSent
          /\ sdrv'.pc = "abort_door" =>
                src'.step \in {"sealed", "published"} /\ sdrv'.obs = "aborted"
          /\ sdrv'.pc = "abort_parts" /\ sdrv'.obs = "aborted" =>
                sdrv.pc = "abort_parts" /\ sdrv.obs = "aborted"
      BY <1>6
        DEF SourceRefused, TypeOK, SourceRow, SourceMemory, SIdle, SPc,
            Answered, Unresolved, DoorInv
    <2> QED  BY <2>1, <2>2, <2>3, <2>4 DEF DoorQuiet
  <1>7. CASE SourceViolation
    <2>1. UNCHANGED <<door, doorLate>>
      BY <1>7 DEF SourceViolation, doorVars
    <2>2. src'.sealSent = src.sealSent /\ src'.sealRefused = src.sealRefused
      BY <1>7 DEF SourceViolation, TypeOK, SourceRow
    <2>3. /\ src'.step \in SealedSteps => src.step \in SealedSteps
          /\ src'.step = "aborted" => src.step = "aborted"
      BY <1>7
        DEF SourceViolation, TypeOK, SourceRow, SealedSteps, SourcePlaceInv,
            Releasing
    <2>4. /\ sdrv'.pc = "reseal" => src.sealSent
          /\ sdrv'.pc = "abort_door" =>
                src'.step \in {"sealed", "published"} /\ sdrv'.obs = "aborted"
          /\ sdrv'.pc = "abort_parts" /\ sdrv'.obs = "aborted" =>
                sdrv.pc = "abort_parts" /\ sdrv.obs = "aborted"
      BY <1>7
        DEF SourceViolation, TypeOK, SourceRow, SourceMemory, SIdle, SPc,
            Answered, Unresolved, DoorInv
    <2> QED  BY <2>1, <2>2, <2>3, <2>4 DEF DoorQuiet
  <1>8. CASE SourcePublish
    <2>1. UNCHANGED <<door, doorLate>>
      BY <1>8 DEF SourcePublish, doorVars
    <2>2. src'.sealSent = src.sealSent /\ src'.sealRefused = src.sealRefused
      BY <1>8 DEF SourcePublish, TypeOK, SourceRow
    <2>3. /\ src'.step \in SealedSteps => src.step \in SealedSteps
          /\ src'.step = "aborted" => src.step = "aborted"
      BY <1>8
        DEF SourcePublish, TypeOK, SourceRow, SealedSteps, SourcePlaceInv,
            Releasing
    <2>4. /\ sdrv'.pc = "reseal" => src.sealSent
          /\ sdrv'.pc = "abort_door" =>
                src'.step \in {"sealed", "published"} /\ sdrv'.obs = "aborted"
          /\ sdrv'.pc = "abort_parts" /\ sdrv'.obs = "aborted" =>
                sdrv.pc = "abort_parts" /\ sdrv.obs = "aborted"
      BY <1>8
        DEF SourcePublish, TypeOK, SourceRow, SourceMemory, SIdle, SPc,
            Answered, Unresolved, DoorInv
    <2> QED  BY <2>1, <2>2, <2>3, <2>4 DEF DoorQuiet
  <1>9. CASE SourceAppendInbox
    <2>1. UNCHANGED <<door, doorLate>>
      BY <1>9 DEF SourceAppendInbox, doorVars
    <2>2. src'.sealSent = src.sealSent /\ src'.sealRefused = src.sealRefused
      BY <1>9 DEF SourceAppendInbox, TypeOK, SourceRow
    <2>3. /\ src'.step \in SealedSteps => src.step \in SealedSteps
          /\ src'.step = "aborted" => src.step = "aborted"
      BY <1>9
        DEF SourceAppendInbox, TypeOK, SourceRow, SealedSteps, SourcePlaceInv,
            Releasing
    <2>4. /\ sdrv'.pc = "reseal" => src.sealSent
          /\ sdrv'.pc = "abort_door" =>
                src'.step \in {"sealed", "published"} /\ sdrv'.obs = "aborted"
          /\ sdrv'.pc = "abort_parts" /\ sdrv'.obs = "aborted" =>
                sdrv.pc = "abort_parts" /\ sdrv.obs = "aborted"
      BY <1>9
        DEF SourceAppendInbox, TypeOK, SourceRow, SourceMemory, SIdle, SPc,
            Answered, Unresolved, DoorInv
    <2> QED  BY <2>1, <2>2, <2>3, <2>4 DEF DoorQuiet
  <1>10. CASE SourceHandoff
    <2>1. UNCHANGED <<door, doorLate>>
      BY <1>10 DEF SourceHandoff, doorVars
    <2>2. src'.sealSent = src.sealSent /\ src'.sealRefused = src.sealRefused
      BY <1>10 DEF SourceHandoff, TypeOK, SourceRow
    <2>3. /\ src'.step \in SealedSteps => src.step \in SealedSteps
          /\ src'.step = "aborted" => src.step = "aborted"
      BY <1>10
        DEF SourceHandoff, TypeOK, SourceRow, SealedSteps, SourcePlaceInv,
            Releasing
    <2>4. /\ sdrv'.pc = "reseal" => src.sealSent
          /\ sdrv'.pc = "abort_door" =>
                src'.step \in {"sealed", "published"} /\ sdrv'.obs = "aborted"
          /\ sdrv'.pc = "abort_parts" /\ sdrv'.obs = "aborted" =>
                sdrv.pc = "abort_parts" /\ sdrv.obs = "aborted"
      BY <1>10
        DEF SourceHandoff, TypeOK, SourceRow, SourceMemory, SIdle, SPc,
            Answered, Unresolved, DoorInv
    <2> QED  BY <2>1, <2>2, <2>3, <2>4 DEF DoorQuiet
  <1>11. CASE SourceCasReleased
    <2>1. UNCHANGED <<door, doorLate>>
      BY <1>11 DEF SourceCasReleased, doorVars
    <2>2. src'.sealSent = src.sealSent /\ src'.sealRefused = src.sealRefused
      BY <1>11 DEF SourceCasReleased, TypeOK, SourceRow
    <2>3. /\ src'.step \in SealedSteps => src.step \in SealedSteps
          /\ src'.step = "aborted" => src.step = "aborted"
      BY <1>11
        DEF SourceCasReleased, TypeOK, SourceRow, SealedSteps, SourcePlaceInv,
            Releasing
    <2>4. /\ sdrv'.pc = "reseal" => src.sealSent
          /\ sdrv'.pc = "abort_door" =>
                src'.step \in {"sealed", "published"} /\ sdrv'.obs = "aborted"
          /\ sdrv'.pc = "abort_parts" /\ sdrv'.obs = "aborted" =>
                sdrv.pc = "abort_parts" /\ sdrv.obs = "aborted"
      BY <1>11
        DEF SourceCasReleased, TypeOK, SourceRow, SourceMemory, SIdle, SPc,
            Answered, Unresolved, DoorInv
    <2> QED  BY <2>1, <2>2, <2>3, <2>4 DEF DoorQuiet
  <1>12. CASE SourceDecide
    <2>1. UNCHANGED <<door, doorLate>>
      BY <1>12 DEF SourceDecide, doorVars
    <2>2. src'.sealSent = src.sealSent /\ src'.sealRefused = src.sealRefused
      BY <1>12 DEF SourceDecide, TypeOK, SourceRow
    <2>3. /\ src'.step \in SealedSteps => src.step \in SealedSteps
          /\ src'.step = "aborted" => src.step = "aborted"
      BY <1>12
        DEF SourceDecide, TypeOK, SourceRow, SealedSteps, SourcePlaceInv,
            Releasing
    <2>4. /\ sdrv'.pc = "reseal" => src.sealSent
          /\ sdrv'.pc = "abort_door" =>
                src'.step \in {"sealed", "published"} /\ sdrv'.obs = "aborted"
          /\ sdrv'.pc = "abort_parts" /\ sdrv'.obs = "aborted" =>
                sdrv.pc = "abort_parts" /\ sdrv.obs = "aborted"
      BY <1>12
        DEF SourceDecide, TypeOK, SourceRow, SourceMemory, SIdle, SPc,
            Answered, Unresolved, DoorInv
    <2> QED  BY <2>1, <2>2, <2>3, <2>4 DEF DoorQuiet
  <1>13. CASE SourceSettlePending
    <2>1. UNCHANGED <<door, doorLate>>
      BY <1>13 DEF SourceSettlePending, doorVars
    <2>2. src'.sealSent = src.sealSent /\ src'.sealRefused = src.sealRefused
      BY <1>13 DEF SourceSettlePending, TypeOK, SourceRow
    <2>3. /\ src'.step \in SealedSteps => src.step \in SealedSteps
          /\ src'.step = "aborted" => src.step = "aborted"
      BY <1>13
        DEF SourceSettlePending, TypeOK, SourceRow, SealedSteps,
            SourcePlaceInv, Releasing
    <2>4. /\ sdrv'.pc = "reseal" => src.sealSent
          /\ sdrv'.pc = "abort_door" =>
                src'.step \in {"sealed", "published"} /\ sdrv'.obs = "aborted"
          /\ sdrv'.pc = "abort_parts" /\ sdrv'.obs = "aborted" =>
                sdrv.pc = "abort_parts" /\ sdrv.obs = "aborted"
      BY <1>13
        DEF SourceSettlePending, TypeOK, SourceRow, SourceMemory, SIdle, SPc,
            Answered, Unresolved, DoorInv
    <2> QED  BY <2>1, <2>2, <2>3, <2>4 DEF DoorQuiet
  <1>14. ASSUME NEW p \in Participants, SourcePrepare(p)
        PROVE  DoorQuiet
    <2>1. UNCHANGED <<door, doorLate>>
      BY <1>14 DEF SourcePrepare, doorVars
    <2>2. src'.sealSent = src.sealSent /\ src'.sealRefused = src.sealRefused
      BY <1>14 DEF SourcePrepare, TypeOK, SourceRow
    <2>3. /\ src'.step \in SealedSteps => src.step \in SealedSteps
          /\ src'.step = "aborted" => src.step = "aborted"
      BY <1>14
        DEF SourcePrepare, TypeOK, SourceRow, SealedSteps, SourcePlaceInv,
            Releasing
    <2>4. /\ sdrv'.pc = "reseal" => src.sealSent
          /\ sdrv'.pc = "abort_door" =>
                src'.step \in {"sealed", "published"} /\ sdrv'.obs = "aborted"
          /\ sdrv'.pc = "abort_parts" /\ sdrv'.obs = "aborted" =>
                sdrv.pc = "abort_parts" /\ sdrv.obs = "aborted"
      BY <1>14
        DEF SourcePrepare, TypeOK, SourceRow, SourceMemory, SIdle, SPc,
            Answered, Unresolved, DoorInv
    <2> QED  BY <2>1, <2>2, <2>3, <2>4 DEF DoorQuiet
  <1>15. ASSUME NEW p \in Participants, SourceExport(p)
        PROVE  DoorQuiet
    <2>1. UNCHANGED <<door, doorLate>>
      BY <1>15 DEF SourceExport, doorVars
    <2>2. src'.sealSent = src.sealSent /\ src'.sealRefused = src.sealRefused
      BY <1>15 DEF SourceExport, TypeOK, SourceRow
    <2>3. /\ src'.step \in SealedSteps => src.step \in SealedSteps
          /\ src'.step = "aborted" => src.step = "aborted"
      BY <1>15
        DEF SourceExport, TypeOK, SourceRow, SealedSteps, SourcePlaceInv,
            Releasing
    <2>4. /\ sdrv'.pc = "reseal" => src.sealSent
          /\ sdrv'.pc = "abort_door" =>
                src'.step \in {"sealed", "published"} /\ sdrv'.obs = "aborted"
          /\ sdrv'.pc = "abort_parts" /\ sdrv'.obs = "aborted" =>
                sdrv.pc = "abort_parts" /\ sdrv.obs = "aborted"
      BY <1>15
        DEF SourceExport, TypeOK, SourceRow, SourceMemory, SIdle, SPc,
            Answered, Unresolved, DoorInv
    <2> QED  BY <2>1, <2>2, <2>3, <2>4 DEF DoorQuiet
  <1>16. ASSUME NEW p \in Participants, SourceRelease(p)
        PROVE  DoorQuiet
    <2>1. UNCHANGED <<door, doorLate>>
      BY <1>16 DEF SourceRelease, doorVars
    <2>2. src'.sealSent = src.sealSent /\ src'.sealRefused = src.sealRefused
      BY <1>16 DEF SourceRelease, TypeOK, SourceRow
    <2>3. /\ src'.step \in SealedSteps => src.step \in SealedSteps
          /\ src'.step = "aborted" => src.step = "aborted"
      BY <1>16
        DEF SourceRelease, TypeOK, SourceRow, SealedSteps, SourcePlaceInv,
            Releasing
    <2>4. /\ sdrv'.pc = "reseal" => src.sealSent
          /\ sdrv'.pc = "abort_door" =>
                src'.step \in {"sealed", "published"} /\ sdrv'.obs = "aborted"
          /\ sdrv'.pc = "abort_parts" /\ sdrv'.obs = "aborted" =>
                sdrv.pc = "abort_parts" /\ sdrv.obs = "aborted"
      BY <1>16
        DEF SourceRelease, TypeOK, SourceRow, SourceMemory, SIdle, SPc,
            Answered, Unresolved, DoorInv
    <2> QED  BY <2>1, <2>2, <2>3, <2>4 DEF DoorQuiet
  <1>17. ASSUME NEW p \in Participants, SourceAbortParticipant(p)
        PROVE  DoorQuiet
    <2>1. UNCHANGED <<door, doorLate>>
      BY <1>17 DEF SourceAbortParticipant, doorVars
    <2>2. src'.sealSent = src.sealSent /\ src'.sealRefused = src.sealRefused
      BY <1>17 DEF SourceAbortParticipant, TypeOK, SourceRow
    <2>3. /\ src'.step \in SealedSteps => src.step \in SealedSteps
          /\ src'.step = "aborted" => src.step = "aborted"
      BY <1>17
        DEF SourceAbortParticipant, TypeOK, SourceRow, SealedSteps,
            SourcePlaceInv, Releasing
    <2>4. /\ sdrv'.pc = "reseal" => src.sealSent
          /\ sdrv'.pc = "abort_door" =>
                src'.step \in {"sealed", "published"} /\ sdrv'.obs = "aborted"
          /\ sdrv'.pc = "abort_parts" /\ sdrv'.obs = "aborted" =>
                sdrv.pc = "abort_parts" /\ sdrv.obs = "aborted"
      BY <1>17
        DEF SourceAbortParticipant, TypeOK, SourceRow, SourceMemory, SIdle,
            SPc, Answered, Unresolved, DoorInv
    <2> QED  BY <2>1, <2>2, <2>3, <2>4 DEF DoorQuiet
  <1> QED
    BY <1>1, <1>2, <1>3, <1>4, <1>5, <1>6, <1>7, <1>8, <1>9, <1>10, <1>11,
       <1>12, <1>13, <1>14, <1>15, <1>16, <1>17
      DEF DoorQuietStep

\* The step that begins a pass.
LEMMA SourceTickDoor ==
    ASSUME TypeOK, SourcePlaceInv, FreezeInv, DoorInv, SourceTick
    PROVE  DoorQuiet
  <1>1. UNCHANGED <<door, doorLate>>
    BY DEF SourceTick, doorVars
  <1>2. src'.sealSent = src.sealSent /\ src'.sealRefused = src.sealRefused
    <2> DEFINE seen == IF src.step \in {"sealed", "published", "releasing"}
                       THEN rec.state ELSE "none"
    <2>1. src' = SourceObserved(seen) \/ src' = [SourceObserved(seen) EXCEPT !.step = "released"]
      BY DEF SourceTick
    <2> HIDE DEF seen
    <2> QED  BY <2>1 DEF SourceObserved, TypeOK, SourceRow
  <1>3. \/ src'.step = src.step
        \/ src.step \in SealedSteps /\ src'.step \in {"releasing", "released"}
    BY SourceTickWalk DEF SealedSteps
  <1>4. sdrv'.pc \notin {"reseal", "abort_door", "abort_parts"}
    <2> DEFINE pc == SourceNextPc(SourceObserved(IF src.step \in {"sealed", "published", "releasing"}
                                                 THEN rec.state ELSE "none"),
                                  IF src.step \in {"sealed", "published", "releasing"}
                                  THEN rec.state ELSE "none", sdrv.resumed)
    <2>1. /\ sdrv.pc = "idle"
          /\ \/ UNCHANGED sdrv
             \/ \E obs \in RecStates, ver \in Nat :
                   sdrv' = [sdrv EXCEPT !.pc = pc, !.obs = obs, !.ver = ver]
      BY DEF SourceTick, TypeOK, SharedType, RecStates
    <2>2. pc \notin {"reseal", "abort_door", "abort_parts"}
      BY DEF SourceNextPc, SourceAdvancePc
    <2> HIDE DEF pc
    <2> QED  BY <2>1, <2>2 DEF TypeOK, SourceMemory
  <1> QED  BY <1>1, <1>2, <1>3, <1>4 DEF DoorQuiet, SealedSteps

LEMMA QuietDoor ==
    ASSUME DoorInv, DoorQuiet, RowGrows
    PROVE  DoorInv'
  BY DEF DoorInv, DoorQuiet, RowGrows, SealedSteps

\* The seal repeated after a restart.
LEMMA ResealDoor ==
    ASSUME TypeOK, SourcePlaceInv, DoorInv, SourceReseal
    PROVE  DoorInv'
  <1>1. /\ sdrv.pc = "reseal" /\ src.sealSent /\ src.step \in {"exported", "sealed"}
        /\ door' = Sealed(door) /\ UNCHANGED <<doorLate, rcv>>
    BY DEF SourceReseal, SourcePlaceInv, DoorInv, SourceFrame, rcvVars
  <1>2. src'.step = src.step /\ src'.sealSent = src.sealSent
    BY DEF SourceReseal, TypeOK, SourceRow
  <1>3. src'.sealRefused => src.sealRefused \/ door = "refuses"
    BY DEF SourceReseal
  <1>4. sdrv'.pc \notin {"reseal", "abort_door", "abort_parts"}
    BY DEF SourceReseal, TypeOK, SourceMemory, SIdle, SPc
  <1> QED  BY <1>1, <1>2, <1>3, <1>4 DEF DoorInv, Sealed

\* The first seal.
LEMMA SealDoor ==
    ASSUME TypeOK, SourcePlaceInv, DoorInv, SourceSeal
    PROVE  DoorInv'
  <1>1. /\ sdrv.pc = "seal" /\ src.step \in {"exported", "sealed"} /\ UNCHANGED rcv
        /\ sdrv'.pc = "idle"
    BY DEF SourceSeal, SourcePlaceInv, SourceFrame, rcvVars, TypeOK, SourceMemory, SIdle
  <1>2. /\ src'.sealSent
        /\ src'.step \in {src.step, "sealed"} /\ (src'.step # src.step => door = "published")
        /\ src'.sealRefused => src.sealRefused \/ door = "refuses"
    BY DEF SourceSeal, TypeOK, SourceRow
  <1>3. \/ door # "refuses" /\ door' = Sealed(door) /\ UNCHANGED doorLate
        \/ door = "refuses" /\ UNCHANGED <<door, doorLate>>
        \/ UNCHANGED door
    BY DEF SourceSeal, doorVars
  <1> QED  BY <1>1, <1>2, <1>3 DEF DoorInv, Sealed

\* A shared abort closes the cut at the door first.
LEMMA AbortDoorDoor ==
    ASSUME TypeOK, BoundaryInv, LifeInv, DoorInv, SourceAbortDoor
    PROVE  DoorInv'
  <1>1. /\ sdrv.pc = "abort_door" /\ src.step \in {"sealed", "published"}
        /\ sdrv.obs = "aborted" /\ UNCHANGED <<src, rcv, doorLate>>
    BY DEF SourceAbortDoor, DoorInv, SourceFrame, rcvVars
  <1>2. rec.state = "aborted"
    BY <1>1 DEF LifeInv, LiveInv
  <1>3. door \in {"published", "aborted"} /\ src.sealSent
    BY <1>1, <1>2, PastIsFrozen DEF DoorInv
  <1>4. /\ door' \in {door, "aborted"}
        /\ sdrv'.pc \in {"idle", "abort_parts"}
        /\ sdrv'.pc = "abort_parts" => door' = "aborted"
    BY <1>1, <1>3 DEF SourceAbortDoor, DoorAborted, TypeOK, SourceMemory, SIdle, SPc
  <1> QED  BY <1>1, <1>3, <1>4 DEF DoorInv

\* Without a shared abort the cut is closed at the door last.
LEMMA CloseDoorDoor ==
    ASSUME TypeOK, BoundaryInv, LifeInv, DoorInv, SourceCloseDoor
    PROVE  DoorInv'
  <1> DEFINE open == sdrv.obs # "aborted" /\ src.sealSent /\ ~src.sealRefused
  <1>1. /\ sdrv.pc = "abort_parts" /\ UNCHANGED <<doorLate, rcv>> /\ sdrv'.pc = "idle"
        /\ sdrv.obs \in {"none", "aborted"} /\ src.step \in SourceBefore
    BY DEF SourceCloseDoor, LifeInv, SourcePlaceInv, Cleanup, SourceFrame, rcvVars, TypeOK,
           SourceMemory, SIdle
  <1>2. sdrv.obs = "none" => rcv.step \notin Past
    BY <1>1 DEF LifeInv, ListedInv, Cleanup, Past
  <1>3. \/ /\ ~open /\ UNCHANGED door /\ src'.step = "aborted"
           /\ src'.sealSent = src.sealSent /\ src'.sealRefused = src.sealRefused
        \/ /\ open /\ door = "refuses" /\ UNCHANGED door /\ src'.step = "aborted"
           /\ src'.sealSent = src.sealSent
        \/ /\ open /\ door # "refuses" /\ door' = DoorAborted(Sealed(door))
           /\ src'.step = "aborted"
           /\ src'.sealSent = src.sealSent /\ src'.sealRefused = src.sealRefused
        \/ /\ open /\ door # "refuses" /\ UNCHANGED src
           /\ door' \in {door, Sealed(door), DoorAborted(Sealed(door))}
    BY DEF SourceCloseDoor, TypeOK, SourceRow
  <1>4. CASE ~open /\ UNCHANGED door /\ src'.step = "aborted"
             /\ src'.sealSent = src.sealSent /\ src'.sealRefused = src.sealRefused
    BY <1>1, <1>4 DEF DoorInv, TypeOK, SourceRow
  <1>5. CASE open /\ door = "refuses" /\ UNCHANGED door /\ src'.step = "aborted"
             /\ src'.sealSent = src.sealSent
    BY <1>1, <1>5 DEF DoorInv
  <1>6. CASE open /\ door # "refuses" /\ door' = DoorAborted(Sealed(door))
             /\ src'.step = "aborted"
             /\ src'.sealSent = src.sealSent /\ src'.sealRefused = src.sealRefused
    BY <1>1, <1>2, <1>6 DEF DoorInv, Sealed, DoorAborted, TypeOK, DoorType, DoorStates
  <1>7. CASE open /\ door # "refuses" /\ UNCHANGED src
             /\ door' \in {door, Sealed(door), DoorAborted(Sealed(door))}
    BY <1>1, <1>2, <1>7 DEF DoorInv, Sealed, DoorAborted, SourceBefore
  <1> QED  BY <1>3, <1>4, <1>5, <1>6, <1>7

\* The door itself, and the takeover.
LEMMA DoorStepDoor ==
    ASSUME DoorInv, DoorStep
    PROVE  DoorInv'
  BY DEF DoorInv, DoorStep, Sealed, srcVars, rcvVars

LEMMA TakeoverDoor ==
    ASSUME TypeOK, BoundaryInv, DoorInv, ReceiverTakeover
    PROVE  DoorInv'
  <1>1. rdrv.pc = "takeover" /\ rcv.step \in Past /\ rcv'.step \in Past
    BY DEF ReceiverTakeover, BoundaryInv, ReceiverInv, PlaceInv, Past, TypeOK, ReceiverRow
  <1>2. door' \in {door, IF door = "published" THEN "taken" ELSE door}
        /\ UNCHANGED <<doorLate, src, sdrv>>
    BY DEF ReceiverTakeover, ReceiverFrame, srcVars
  <1>3. CASE UNCHANGED door
    BY <1>1, <1>2, <1>3 DEF DoorInv
  <1>4. CASE door = "published" /\ door' = "taken"
    BY <1>1, <1>2, <1>4 DEF DoorInv
  <1> QED  BY <1>2, <1>3, <1>4

-----------------------------------------------------------------------------
(* The claim: the receiver's steps that do not touch it. *)

TakeKept == rcv'.takeEpoch = rcv.takeEpoch /\ rcv'.landed = rcv.landed

\* The row's steps move on only from the place that has earned them.
StepsEarned ==
    /\ rcv'.step \in ClaimedSteps => rcv.step \in ClaimedSteps \/ rdrv.pc = "cas_claimed"
    /\ rcv'.step \in StagedSteps => rcv.step \in StagedSteps \/ ReceiverStage

\* The pass reaches the places that write the claim only from one that may.
PlacesEarned ==
    /\ rdrv'.pc = "cas_claimed" => rdrv.pc = "cas_claimed" \/ rcv.landed > 0
    /\ rdrv'.pc = "take" => rdrv.pc = "take" \/ rcv.takeEpoch > 0
    /\ rdrv'.pc \in {"undo_return", "undo_check"} => rdrv'.pc = rdrv.pc

ClaimQuiet == UNCHANGED <<claim, claimq>> /\ TakeKept /\ StepsEarned /\ PlacesEarned

ClaimQuietStep ==
    \/ ReceiverPoll \/ ReceiverRequestAbort \/ ReceiverRetryAbort \/ ReceiverCrash
    \/ ReceiverHold \/ ReceiverRefused \/ ReceiverStopped \/ ReceiverSettlePending
    \/ ReceiverChecks \/ ReceiverImported \/ ReceiverStage \/ ReceiverCasClaimed
    \/ ReceiverFence \/ ReceiverCasActivated \/ ReceiverInstall \/ ReceiverFinish
    \/ ReceiverTakeover \/ ReceiverUndoRecord \/ ReceiverAborted
    \/ \E p \in Participants :
          \/ ReceiverDiverged(p) \/ ReceiverImport(p) \/ ReceiverActivate(p)
          \/ ReceiverAbortParticipant(p)

LEMMA ClaimQuietSteps ==
    ASSUME TypeOK, ReceiverInv, ClaimQuietStep
    PROVE  ClaimQuiet
  <1>1. CASE ReceiverPoll
    <2>1. UNCHANGED <<claim, claimq>>
      BY <1>1 DEF ReceiverPoll, shared
    <2>2. TakeKept
      BY <1>1
        DEF TakeKept, ReceiverPoll, TypeOK, ReceiverRow
    <2>3. StepsEarned
      BY <1>1
        DEF StepsEarned, ReceiverPoll, TypeOK, ReceiverRow, ClaimedSteps, StagedSteps,
            ReceiverInv, PlaceInv, Importing, Claiming, Undoing,
            ReceiverBefore, Past
    <2>4. PlacesEarned
      BY <1>1
        DEF PlacesEarned, ReceiverPoll, TypeOK, ReceiverMemory, RIdle, RPc, Answered,
            Unresolved
    <2> QED  BY <2>1, <2>2, <2>3, <2>4 DEF ClaimQuiet
  <1>2. CASE ReceiverRequestAbort
    <2>1. UNCHANGED <<claim, claimq>>
      BY <1>2 DEF ReceiverRequestAbort, shared
    <2>2. TakeKept
      BY <1>2
        DEF TakeKept, ReceiverRequestAbort, TypeOK, ReceiverRow
    <2>3. StepsEarned
      BY <1>2
        DEF StepsEarned, ReceiverRequestAbort, TypeOK, ReceiverRow, ClaimedSteps,
            StagedSteps, ReceiverInv, PlaceInv, Importing, Claiming, Undoing,
            ReceiverBefore, Past
    <2>4. PlacesEarned
      BY <1>2
        DEF PlacesEarned, ReceiverRequestAbort, TypeOK, ReceiverMemory, RIdle, RPc,
            Answered, Unresolved
    <2> QED  BY <2>1, <2>2, <2>3, <2>4 DEF ClaimQuiet
  <1>3. CASE ReceiverRetryAbort
    <2>1. UNCHANGED <<claim, claimq>>
      BY <1>3 DEF ReceiverRetryAbort, shared
    <2>2. TakeKept
      BY <1>3
        DEF TakeKept, ReceiverRetryAbort, TypeOK, ReceiverRow
    <2>3. StepsEarned
      BY <1>3
        DEF StepsEarned, ReceiverRetryAbort, TypeOK, ReceiverRow, ClaimedSteps,
            StagedSteps, ReceiverInv, PlaceInv, Importing, Claiming, Undoing,
            ReceiverBefore, Past
    <2>4. PlacesEarned
      BY <1>3
        DEF PlacesEarned, ReceiverRetryAbort, TypeOK, ReceiverMemory, RIdle, RPc, Answered,
            Unresolved
    <2> QED  BY <2>1, <2>2, <2>3, <2>4 DEF ClaimQuiet
  <1>4. CASE ReceiverCrash
    <2>1. UNCHANGED <<claim, claimq>>
      BY <1>4 DEF ReceiverCrash, shared
    <2>2. TakeKept
      BY <1>4
        DEF TakeKept, ReceiverCrash, TypeOK, ReceiverRow
    <2>3. StepsEarned
      BY <1>4
        DEF StepsEarned, ReceiverCrash, TypeOK, ReceiverRow, ClaimedSteps, StagedSteps,
            ReceiverInv, PlaceInv, Importing, Claiming, Undoing,
            ReceiverBefore, Past
    <2>4. PlacesEarned
      BY <1>4
        DEF PlacesEarned, ReceiverCrash, TypeOK, ReceiverMemory, RIdle, RPc, Answered,
            Unresolved
    <2> QED  BY <2>1, <2>2, <2>3, <2>4 DEF ClaimQuiet
  <1>5. CASE ReceiverHold
    <2>1. UNCHANGED <<claim, claimq>>
      BY <1>5 DEF ReceiverHold, shared
    <2>2. TakeKept
      BY <1>5
        DEF TakeKept, ReceiverHold, TypeOK, ReceiverRow
    <2>3. StepsEarned
      BY <1>5
        DEF StepsEarned, ReceiverHold, TypeOK, ReceiverRow, ClaimedSteps, StagedSteps,
            ReceiverInv, PlaceInv, Importing, Claiming, Undoing,
            ReceiverBefore, Past
    <2>4. PlacesEarned
      BY <1>5
        DEF PlacesEarned, ReceiverHold, TypeOK, ReceiverMemory, RIdle, RPc, Answered,
            Unresolved
    <2> QED  BY <2>1, <2>2, <2>3, <2>4 DEF ClaimQuiet
  <1>6. CASE ReceiverRefused
    <2>1. UNCHANGED <<claim, claimq>>
      BY <1>6 DEF ReceiverRefused, shared
    <2>2. TakeKept
      BY <1>6
        DEF TakeKept, ReceiverRefused, TypeOK, ReceiverRow
    <2>3. StepsEarned
      BY <1>6
        DEF StepsEarned, ReceiverRefused, TypeOK, ReceiverRow, ClaimedSteps, StagedSteps,
            ReceiverInv, PlaceInv, Importing, Claiming, Undoing,
            ReceiverBefore, Past
    <2>4. PlacesEarned
      BY <1>6
        DEF PlacesEarned, ReceiverRefused, TypeOK, ReceiverMemory, RIdle, RPc, Answered,
            Unresolved
    <2> QED  BY <2>1, <2>2, <2>3, <2>4 DEF ClaimQuiet
  <1>7. CASE ReceiverStopped
    <2>1. UNCHANGED <<claim, claimq>>
      BY <1>7 DEF ReceiverStopped, shared
    <2>2. TakeKept
      BY <1>7
        DEF TakeKept, ReceiverStopped, TypeOK, ReceiverRow
    <2>3. StepsEarned
      BY <1>7
        DEF StepsEarned, ReceiverStopped, TypeOK, ReceiverRow, ClaimedSteps, StagedSteps,
            ReceiverInv, PlaceInv, Importing, Claiming, Undoing,
            ReceiverBefore, Past
    <2>4. PlacesEarned
      BY <1>7
        DEF PlacesEarned, ReceiverStopped, TypeOK, ReceiverMemory, RIdle, RPc, Answered,
            Unresolved
    <2> QED  BY <2>1, <2>2, <2>3, <2>4 DEF ClaimQuiet
  <1>8. CASE ReceiverSettlePending
    <2>1. UNCHANGED <<claim, claimq>>
      BY <1>8 DEF ReceiverSettlePending, shared
    <2>2. TakeKept
      BY <1>8
        DEF TakeKept, ReceiverSettlePending, TypeOK, ReceiverRow
    <2>3. StepsEarned
      BY <1>8
        DEF StepsEarned, ReceiverSettlePending, TypeOK, ReceiverRow, ClaimedSteps,
            StagedSteps, ReceiverInv, PlaceInv, Importing, Claiming, Undoing,
            ReceiverBefore, Past
    <2>4. PlacesEarned
      BY <1>8
        DEF PlacesEarned, ReceiverSettlePending, AfterSettle, TypeOK, ReceiverMemory, RIdle,
            RPc, Answered, Unresolved
    <2> QED  BY <2>1, <2>2, <2>3, <2>4 DEF ClaimQuiet
  <1>9. CASE ReceiverChecks
    <2>1. UNCHANGED <<claim, claimq>>
      BY <1>9 DEF ReceiverChecks, shared
    <2>2. TakeKept
      BY <1>9
        DEF TakeKept, ReceiverChecks, TypeOK, ReceiverRow
    <2>3. StepsEarned
      BY <1>9
        DEF StepsEarned, ReceiverChecks, TypeOK, ReceiverRow, ClaimedSteps, StagedSteps,
            ReceiverInv, PlaceInv, Importing, Claiming, Undoing,
            ReceiverBefore, Past
    <2>4. PlacesEarned
      BY <1>9
        DEF PlacesEarned, ReceiverChecks, TakePc, TypeOK, ReceiverMemory, RIdle, RPc,
            Answered, Unresolved
    <2> QED  BY <2>1, <2>2, <2>3, <2>4 DEF ClaimQuiet
  <1>10. CASE ReceiverImported
    <2>1. UNCHANGED <<claim, claimq>>
      BY <1>10 DEF ReceiverImported, shared
    <2>2. TakeKept
      BY <1>10
        DEF TakeKept, ReceiverImported, TypeOK, ReceiverRow
    <2>3. StepsEarned
      BY <1>10
        DEF StepsEarned, ReceiverImported, TypeOK, ReceiverRow, ClaimedSteps, StagedSteps,
            ReceiverInv, PlaceInv, Importing, Claiming, Undoing,
            ReceiverBefore, Past
    <2>4. PlacesEarned
      BY <1>10
        DEF PlacesEarned, ReceiverImported, TypeOK, ReceiverMemory, RIdle, RPc, Answered,
            Unresolved
    <2> QED  BY <2>1, <2>2, <2>3, <2>4 DEF ClaimQuiet
  <1>11. CASE ReceiverStage
    <2>1. UNCHANGED <<claim, claimq>>
      BY <1>11 DEF ReceiverStage, shared
    <2>2. TakeKept
      BY <1>11
        DEF TakeKept, ReceiverStage, ReceiverCas, TypeOK, ReceiverRow
    <2>3. StepsEarned
      BY <1>11
        DEF StepsEarned, ReceiverStage, ReceiverCas, TypeOK, ReceiverRow, ClaimedSteps,
            StagedSteps, ReceiverInv, PlaceInv, Importing, Claiming, Undoing,
            ReceiverBefore, Past
    <2>4. PlacesEarned
      BY <1>11
        DEF PlacesEarned, ReceiverStage, ReceiverCas, TypeOK, ReceiverMemory, RIdle, RPc,
            Answered, Unresolved
    <2> QED  BY <2>1, <2>2, <2>3, <2>4 DEF ClaimQuiet
  <1>12. CASE ReceiverCasClaimed
    <2>1. UNCHANGED <<claim, claimq>>
      BY <1>12 DEF ReceiverCasClaimed, shared
    <2>2. TakeKept
      BY <1>12
        DEF TakeKept, ReceiverCasClaimed, ReceiverCas, TypeOK, ReceiverRow
    <2>3. StepsEarned
      BY <1>12
        DEF StepsEarned, ReceiverCasClaimed, ReceiverCas, TypeOK, ReceiverRow,
            ClaimedSteps, StagedSteps, ReceiverInv, PlaceInv, Importing,
            Claiming, Undoing, ReceiverBefore, Past
    <2>4. PlacesEarned
      BY <1>12
        DEF PlacesEarned, ReceiverCasClaimed, ReceiverCas, TypeOK, ReceiverMemory, RIdle,
            RPc, Answered, Unresolved
    <2> QED  BY <2>1, <2>2, <2>3, <2>4 DEF ClaimQuiet
  <1>13. CASE ReceiverFence
    <2>1. UNCHANGED <<claim, claimq>>
      BY <1>13 DEF ReceiverFence, shared
    <2>2. TakeKept
      BY <1>13
        DEF TakeKept, ReceiverFence, TypeOK, ReceiverRow
    <2>3. StepsEarned
      BY <1>13
        DEF StepsEarned, ReceiverFence, TypeOK, ReceiverRow, ClaimedSteps, StagedSteps,
            ReceiverInv, PlaceInv, Importing, Claiming, Undoing,
            ReceiverBefore, Past
    <2>4. PlacesEarned
      BY <1>13
        DEF PlacesEarned, ReceiverFence, TypeOK, ReceiverMemory, RIdle, RPc, Answered,
            Unresolved
    <2> QED  BY <2>1, <2>2, <2>3, <2>4 DEF ClaimQuiet
  <1>14. CASE ReceiverCasActivated
    <2>1. UNCHANGED <<claim, claimq>>
      BY <1>14 DEF ReceiverCasActivated, shared
    <2>2. TakeKept
      BY <1>14
        DEF TakeKept, ReceiverCasActivated, ReceiverCas, TypeOK, ReceiverRow
    <2>3. StepsEarned
      BY <1>14
        DEF StepsEarned, ReceiverCasActivated, ReceiverCas, TypeOK, ReceiverRow,
            ClaimedSteps, StagedSteps, ReceiverInv, PlaceInv, Importing,
            Claiming, Undoing, ReceiverBefore, Past
    <2>4. PlacesEarned
      BY <1>14
        DEF PlacesEarned, ReceiverCasActivated, ReceiverCas, TypeOK, ReceiverMemory, RIdle,
            RPc, Answered, Unresolved
    <2> QED  BY <2>1, <2>2, <2>3, <2>4 DEF ClaimQuiet
  <1>15. CASE ReceiverInstall
    <2>1. UNCHANGED <<claim, claimq>>
      BY <1>15 DEF ReceiverInstall, shared
    <2>2. TakeKept
      BY <1>15
        DEF TakeKept, ReceiverInstall, TypeOK, ReceiverRow
    <2>3. StepsEarned
      BY <1>15
        DEF StepsEarned, ReceiverInstall, TypeOK, ReceiverRow, ClaimedSteps, StagedSteps,
            ReceiverInv, PlaceInv, Importing, Claiming, Undoing,
            ReceiverBefore, Past
    <2>4. PlacesEarned
      BY <1>15
        DEF PlacesEarned, ReceiverInstall, TypeOK, ReceiverMemory, RIdle, RPc, Answered,
            Unresolved
    <2> QED  BY <2>1, <2>2, <2>3, <2>4 DEF ClaimQuiet
  <1>16. CASE ReceiverFinish
    <2>1. UNCHANGED <<claim, claimq>>
      BY <1>16 DEF ReceiverFinish, shared
    <2>2. TakeKept
      BY <1>16
        DEF TakeKept, ReceiverFinish, TypeOK, ReceiverRow
    <2>3. StepsEarned
      BY <1>16
        DEF StepsEarned, ReceiverFinish, TypeOK, ReceiverRow, ClaimedSteps, StagedSteps,
            ReceiverInv, PlaceInv, Importing, Claiming, Undoing,
            ReceiverBefore, Past
    <2>4. PlacesEarned
      BY <1>16
        DEF PlacesEarned, ReceiverFinish, TypeOK, ReceiverMemory, RIdle, RPc, Answered,
            Unresolved
    <2> QED  BY <2>1, <2>2, <2>3, <2>4 DEF ClaimQuiet
  <1>17. CASE ReceiverTakeover
    <2>1. UNCHANGED <<claim, claimq>>
      BY <1>17 DEF ReceiverTakeover, shared
    <2>2. TakeKept
      BY <1>17
        DEF TakeKept, ReceiverTakeover, TypeOK, ReceiverRow
    <2>3. StepsEarned
      BY <1>17
        DEF StepsEarned, ReceiverTakeover, TypeOK, ReceiverRow, ClaimedSteps, StagedSteps,
            ReceiverInv, PlaceInv, Importing, Claiming, Undoing,
            ReceiverBefore, Past
    <2>4. PlacesEarned
      BY <1>17
        DEF PlacesEarned, ReceiverTakeover, TypeOK, ReceiverMemory, RIdle, RPc, Answered,
            Unresolved
    <2> QED  BY <2>1, <2>2, <2>3, <2>4 DEF ClaimQuiet
  <1>18. CASE ReceiverUndoRecord
    <2>1. UNCHANGED <<claim, claimq>>
      BY <1>18 DEF ReceiverUndoRecord, shared
    <2>2. TakeKept
      BY <1>18
        DEF TakeKept, ReceiverUndoRecord, TypeOK, ReceiverRow
    <2>3. StepsEarned
      BY <1>18
        DEF StepsEarned, ReceiverUndoRecord, TypeOK, ReceiverRow, ClaimedSteps,
            StagedSteps, ReceiverInv, PlaceInv, Importing, Claiming, Undoing,
            ReceiverBefore, Past
    <2>4. PlacesEarned
      BY <1>18
        DEF PlacesEarned, ReceiverUndoRecord, TypeOK, ReceiverMemory, RIdle, RPc, Answered,
            Unresolved
    <2> QED  BY <2>1, <2>2, <2>3, <2>4 DEF ClaimQuiet
  <1>19. CASE ReceiverAborted
    <2>1. UNCHANGED <<claim, claimq>>
      BY <1>19 DEF ReceiverAborted, shared
    <2>2. TakeKept
      BY <1>19
        DEF TakeKept, ReceiverAborted, TypeOK, ReceiverRow
    <2>3. StepsEarned
      BY <1>19
        DEF StepsEarned, ReceiverAborted, TypeOK, ReceiverRow, ClaimedSteps, StagedSteps,
            ReceiverInv, PlaceInv, Importing, Claiming, Undoing,
            ReceiverBefore, Past
    <2>4. PlacesEarned
      BY <1>19
        DEF PlacesEarned, ReceiverAborted, TypeOK, ReceiverMemory, RIdle, RPc, Answered,
            Unresolved
    <2> QED  BY <2>1, <2>2, <2>3, <2>4 DEF ClaimQuiet
  <1>20. ASSUME NEW p \in Participants, ReceiverDiverged(p)
        PROVE  ClaimQuiet
    <2>1. UNCHANGED <<claim, claimq>>
      BY <1>20 DEF ReceiverDiverged, shared
    <2>2. TakeKept
      BY <1>20
        DEF TakeKept, ReceiverDiverged, TypeOK, ReceiverRow
    <2>3. StepsEarned
      BY <1>20
        DEF StepsEarned, ReceiverDiverged, TypeOK, ReceiverRow, ClaimedSteps, StagedSteps,
            ReceiverInv, PlaceInv, Importing, Claiming, Undoing,
            ReceiverBefore, Past
    <2>4. PlacesEarned
      BY <1>20
        DEF PlacesEarned, ReceiverDiverged, TypeOK, ReceiverMemory, RIdle, RPc, Answered,
            Unresolved
    <2> QED  BY <2>1, <2>2, <2>3, <2>4 DEF ClaimQuiet
  <1>21. ASSUME NEW p \in Participants, ReceiverImport(p)
        PROVE  ClaimQuiet
    <2>1. UNCHANGED <<claim, claimq>>
      BY <1>21 DEF ReceiverImport, shared
    <2>2. TakeKept
      BY <1>21
        DEF TakeKept, ReceiverImport, TypeOK, ReceiverRow
    <2>3. StepsEarned
      BY <1>21
        DEF StepsEarned, ReceiverImport, TypeOK, ReceiverRow, ClaimedSteps, StagedSteps,
            ReceiverInv, PlaceInv, Importing, Claiming, Undoing,
            ReceiverBefore, Past
    <2>4. PlacesEarned
      BY <1>21
        DEF PlacesEarned, ReceiverImport, TypeOK, ReceiverMemory, RIdle, RPc, Answered,
            Unresolved
    <2> QED  BY <2>1, <2>2, <2>3, <2>4 DEF ClaimQuiet
  <1>22. ASSUME NEW p \in Participants, ReceiverActivate(p)
        PROVE  ClaimQuiet
    <2>1. UNCHANGED <<claim, claimq>>
      BY <1>22 DEF ReceiverActivate, shared
    <2>2. TakeKept
      BY <1>22
        DEF TakeKept, ReceiverActivate, TypeOK, ReceiverRow
    <2>3. StepsEarned
      BY <1>22
        DEF StepsEarned, ReceiverActivate, TypeOK, ReceiverRow, ClaimedSteps, StagedSteps,
            ReceiverInv, PlaceInv, Importing, Claiming, Undoing,
            ReceiverBefore, Past
    <2>4. PlacesEarned
      BY <1>22
        DEF PlacesEarned, ReceiverActivate, TypeOK, ReceiverMemory, RIdle, RPc, Answered,
            Unresolved
    <2> QED  BY <2>1, <2>2, <2>3, <2>4 DEF ClaimQuiet
  <1>23. ASSUME NEW p \in Participants, ReceiverAbortParticipant(p)
        PROVE  ClaimQuiet
    <2>1. UNCHANGED <<claim, claimq>>
      BY <1>23 DEF ReceiverAbortParticipant, shared
    <2>2. TakeKept
      BY <1>23
        DEF TakeKept, ReceiverAbortParticipant, TypeOK, ReceiverRow
    <2>3. StepsEarned
      BY <1>23
        DEF StepsEarned, ReceiverAbortParticipant, TypeOK, ReceiverRow, ClaimedSteps,
            StagedSteps, ReceiverInv, PlaceInv, Importing, Claiming, Undoing,
            ReceiverBefore, Past
    <2>4. PlacesEarned
      BY <1>23
        DEF PlacesEarned, ReceiverAbortParticipant, TypeOK, ReceiverMemory, RIdle, RPc,
            Answered, Unresolved
    <2> QED  BY <2>1, <2>2, <2>3, <2>4 DEF ClaimQuiet
  <1> QED
    BY <1>1, <1>2, <1>3, <1>4, <1>5, <1>6, <1>7, <1>8, <1>9, <1>10, <1>11,
       <1>12, <1>13, <1>14, <1>15, <1>16, <1>17, <1>18, <1>19, <1>20, <1>21,
       <1>22, <1>23
      DEF ClaimQuietStep

-----------------------------------------------------------------------------
(* What the receiver undoes. *)

\* Cleanup reaches the participants through undo_check only, and stays cleanup
\* until the pass ends.
UndoWalk ==
    /\ rdrv'.pc \in {"undo_parts", "undo_inbox"} => rdrv.pc \in {"undo_parts", "undo_inbox"}
    /\ rdrv.pc \in Undoing \cup {"idle"} /\ rcv.abort /\ rcv.step \notin Past =>
           rdrv'.pc \in Undoing \cup {"idle"}
    /\ rcv'.aborted # {} => Undone
    /\ rcv'.step = "aborted" => rcv.step = "aborted" \/ rdrv.pc = "undo_inbox"
    /\ \A p \in Participants :
          <<"abort", p>> \in rcv'.pending =>
              <<"abort", p>> \in rcv.pending \/ rdrv.pc = "undo_parts"
    /\ UNCHANGED rec \/ rec'.state # "aborted" \/ rdrv.pc = "undo_parts"
    /\ \A c \in recq' : c \in recq \/ c.state # "aborted" \/ rdrv.pc = "undo_parts"

UndoWalkStep ==
    \/ ReceiverPoll \/ ReceiverRequestAbort \/ ReceiverRetryAbort \/ ReceiverCrash
    \/ ReceiverHold \/ ReceiverRefused \/ ReceiverStopped \/ ReceiverSettlePending
    \/ ReceiverChecks \/ ReceiverImported \/ ReceiverTakeRead \/ ReceiverTake
    \/ ReceiverFence \/ ReceiverInstall \/ ReceiverFinish \/ ReceiverTakeover
    \/ ReceiverReturnClaim \/ ReceiverAborted \/ ReceiverTick \/ ReceiverStage
    \/ ReceiverCasClaimed \/ ReceiverCasActivated \/ ReceiverUndoRecord
    \/ \E p \in Participants :
          \/ ReceiverDiverged(p) \/ ReceiverImport(p) \/ ReceiverActivate(p)
          \/ ReceiverAbortParticipant(p)

LEMMA UndoWalkSteps ==
    ASSUME TypeOK, ReceiverInv, UndoWalkStep
    PROVE  UndoWalk
  <1>1. CASE ReceiverPoll
    <2>1. /\ rdrv'.pc \in {"undo_parts", "undo_inbox"} => rdrv.pc \in {"undo_parts", "undo_inbox"}
          /\ rdrv.pc \in Undoing \cup {"idle"} /\ rcv.abort /\ rcv.step \notin Past =>
                rdrv'.pc \in Undoing \cup {"idle"}
      BY <1>1
        DEF ReceiverPoll, TypeOK, ReceiverMemory, Undoing, RIdle, RPc,
            Answered, Unresolved
    <2>2. /\ rcv'.aborted # {} => Undone
          /\ rcv'.step = "aborted" => rcv.step = "aborted" \/ rdrv.pc = "undo_inbox"
      BY <1>1
        DEF ReceiverPoll, TypeOK, ReceiverRow, Undone
    <2>3. \A q \in Participants :
             <<"abort", q>> \in rcv'.pending =>
                 <<"abort", q>> \in rcv.pending \/ rdrv.pc = "undo_parts"
      BY <1>1
        DEF ReceiverPoll, TypeOK, ReceiverRow
    <2>4. UNCHANGED <<rec, recq>>
      BY <1>1, ReceiverLocalFrame DEF ReceiverLocal
    <2> QED  BY <2>1, <2>2, <2>3, <2>4 DEF UndoWalk
  <1>2. CASE ReceiverRequestAbort
    <2>1. /\ rdrv'.pc \in {"undo_parts", "undo_inbox"} => rdrv.pc \in {"undo_parts", "undo_inbox"}
          /\ rdrv.pc \in Undoing \cup {"idle"} /\ rcv.abort /\ rcv.step \notin Past =>
                rdrv'.pc \in Undoing \cup {"idle"}
      BY <1>2
        DEF ReceiverRequestAbort, TypeOK, ReceiverMemory, Undoing, RIdle, RPc,
            Answered, Unresolved
    <2>2. /\ rcv'.aborted # {} => Undone
          /\ rcv'.step = "aborted" => rcv.step = "aborted" \/ rdrv.pc = "undo_inbox"
      BY <1>2
        DEF ReceiverRequestAbort, TypeOK, ReceiverRow, Undone
    <2>3. \A q \in Participants :
             <<"abort", q>> \in rcv'.pending =>
                 <<"abort", q>> \in rcv.pending \/ rdrv.pc = "undo_parts"
      BY <1>2
        DEF ReceiverRequestAbort, TypeOK, ReceiverRow
    <2>4. UNCHANGED <<rec, recq>>
      BY <1>2, ReceiverLocalFrame DEF ReceiverLocal
    <2> QED  BY <2>1, <2>2, <2>3, <2>4 DEF UndoWalk
  <1>3. CASE ReceiverRetryAbort
    <2>1. /\ rdrv'.pc \in {"undo_parts", "undo_inbox"} => rdrv.pc \in {"undo_parts", "undo_inbox"}
          /\ rdrv.pc \in Undoing \cup {"idle"} /\ rcv.abort /\ rcv.step \notin Past =>
                rdrv'.pc \in Undoing \cup {"idle"}
      BY <1>3
        DEF ReceiverRetryAbort, TypeOK, ReceiverMemory, Undoing, RIdle, RPc,
            Answered, Unresolved
    <2>2. /\ rcv'.aborted # {} => Undone
          /\ rcv'.step = "aborted" => rcv.step = "aborted" \/ rdrv.pc = "undo_inbox"
      BY <1>3
        DEF ReceiverRetryAbort, TypeOK, ReceiverRow, Undone
    <2>3. \A q \in Participants :
             <<"abort", q>> \in rcv'.pending =>
                 <<"abort", q>> \in rcv.pending \/ rdrv.pc = "undo_parts"
      BY <1>3
        DEF ReceiverRetryAbort, TypeOK, ReceiverRow
    <2>4. UNCHANGED <<rec, recq>>
      BY <1>3, ReceiverLocalFrame DEF ReceiverLocal
    <2> QED  BY <2>1, <2>2, <2>3, <2>4 DEF UndoWalk
  <1>4. CASE ReceiverCrash
    <2>1. /\ rdrv'.pc \in {"undo_parts", "undo_inbox"} => rdrv.pc \in {"undo_parts", "undo_inbox"}
          /\ rdrv.pc \in Undoing \cup {"idle"} /\ rcv.abort /\ rcv.step \notin Past =>
                rdrv'.pc \in Undoing \cup {"idle"}
      BY <1>4
        DEF ReceiverCrash, TypeOK, ReceiverMemory, Undoing, RIdle, RPc,
            Answered, Unresolved
    <2>2. /\ rcv'.aborted # {} => Undone
          /\ rcv'.step = "aborted" => rcv.step = "aborted" \/ rdrv.pc = "undo_inbox"
      BY <1>4
        DEF ReceiverCrash, TypeOK, ReceiverRow, Undone
    <2>3. \A q \in Participants :
             <<"abort", q>> \in rcv'.pending =>
                 <<"abort", q>> \in rcv.pending \/ rdrv.pc = "undo_parts"
      BY <1>4
        DEF ReceiverCrash, TypeOK, ReceiverRow
    <2>4. UNCHANGED <<rec, recq>>
      BY <1>4, ReceiverLocalFrame DEF ReceiverLocal
    <2> QED  BY <2>1, <2>2, <2>3, <2>4 DEF UndoWalk
  <1>5. CASE ReceiverHold
    <2>1. /\ rdrv'.pc \in {"undo_parts", "undo_inbox"} => rdrv.pc \in {"undo_parts", "undo_inbox"}
          /\ rdrv.pc \in Undoing \cup {"idle"} /\ rcv.abort /\ rcv.step \notin Past =>
                rdrv'.pc \in Undoing \cup {"idle"}
      BY <1>5
        DEF ReceiverHold, TypeOK, ReceiverMemory, Undoing, RIdle, RPc,
            Answered, Unresolved
    <2>2. /\ rcv'.aborted # {} => Undone
          /\ rcv'.step = "aborted" => rcv.step = "aborted" \/ rdrv.pc = "undo_inbox"
      BY <1>5
        DEF ReceiverHold, TypeOK, ReceiverRow, Undone
    <2>3. \A q \in Participants :
             <<"abort", q>> \in rcv'.pending =>
                 <<"abort", q>> \in rcv.pending \/ rdrv.pc = "undo_parts"
      BY <1>5
        DEF ReceiverHold, TypeOK, ReceiverRow
    <2>4. UNCHANGED <<rec, recq>>
      BY <1>5, ReceiverLocalFrame DEF ReceiverLocal
    <2> QED  BY <2>1, <2>2, <2>3, <2>4 DEF UndoWalk
  <1>6. CASE ReceiverRefused
    <2>1. /\ rdrv'.pc \in {"undo_parts", "undo_inbox"} => rdrv.pc \in {"undo_parts", "undo_inbox"}
          /\ rdrv.pc \in Undoing \cup {"idle"} /\ rcv.abort /\ rcv.step \notin Past =>
                rdrv'.pc \in Undoing \cup {"idle"}
      BY <1>6
        DEF ReceiverRefused, TypeOK, ReceiverMemory, Undoing, RIdle, RPc,
            Answered, Unresolved
    <2>2. /\ rcv'.aborted # {} => Undone
          /\ rcv'.step = "aborted" => rcv.step = "aborted" \/ rdrv.pc = "undo_inbox"
      BY <1>6
        DEF ReceiverRefused, TypeOK, ReceiverRow, Undone
    <2>3. \A q \in Participants :
             <<"abort", q>> \in rcv'.pending =>
                 <<"abort", q>> \in rcv.pending \/ rdrv.pc = "undo_parts"
      BY <1>6
        DEF ReceiverRefused, TypeOK, ReceiverRow
    <2>4. UNCHANGED <<rec, recq>>
      BY <1>6, ReceiverLocalFrame DEF ReceiverLocal
    <2> QED  BY <2>1, <2>2, <2>3, <2>4 DEF UndoWalk
  <1>7. CASE ReceiverStopped
    <2>1. /\ rdrv'.pc \in {"undo_parts", "undo_inbox"} => rdrv.pc \in {"undo_parts", "undo_inbox"}
          /\ rdrv.pc \in Undoing \cup {"idle"} /\ rcv.abort /\ rcv.step \notin Past =>
                rdrv'.pc \in Undoing \cup {"idle"}
      BY <1>7
        DEF ReceiverStopped, TypeOK, ReceiverMemory, Undoing, RIdle, RPc,
            Answered, Unresolved
    <2>2. /\ rcv'.aborted # {} => Undone
          /\ rcv'.step = "aborted" => rcv.step = "aborted" \/ rdrv.pc = "undo_inbox"
      BY <1>7
        DEF ReceiverStopped, TypeOK, ReceiverRow, Undone
    <2>3. \A q \in Participants :
             <<"abort", q>> \in rcv'.pending =>
                 <<"abort", q>> \in rcv.pending \/ rdrv.pc = "undo_parts"
      BY <1>7
        DEF ReceiverStopped, TypeOK, ReceiverRow
    <2>4. UNCHANGED <<rec, recq>>
      BY <1>7, ReceiverLocalFrame DEF ReceiverLocal
    <2> QED  BY <2>1, <2>2, <2>3, <2>4 DEF UndoWalk
  <1>8. CASE ReceiverSettlePending
    <2>1. /\ rdrv'.pc \in {"undo_parts", "undo_inbox"} => rdrv.pc \in {"undo_parts", "undo_inbox"}
          /\ rdrv.pc \in Undoing \cup {"idle"} /\ rcv.abort /\ rcv.step \notin Past =>
                rdrv'.pc \in Undoing \cup {"idle"}
      BY <1>8
        DEF ReceiverSettlePending, AfterSettle, TypeOK, ReceiverMemory,
            Undoing, RIdle, RPc, Answered, Unresolved
    <2>2. /\ rcv'.aborted # {} => Undone
          /\ rcv'.step = "aborted" => rcv.step = "aborted" \/ rdrv.pc = "undo_inbox"
      BY <1>8
        DEF ReceiverSettlePending, TypeOK, ReceiverRow, Undone
    <2>3. \A q \in Participants :
             <<"abort", q>> \in rcv'.pending =>
                 <<"abort", q>> \in rcv.pending \/ rdrv.pc = "undo_parts"
      BY <1>8
        DEF ReceiverSettlePending, TypeOK, ReceiverRow
    <2>4. UNCHANGED <<rec, recq>>
      BY <1>8, ReceiverLocalFrame DEF ReceiverLocal
    <2> QED  BY <2>1, <2>2, <2>3, <2>4 DEF UndoWalk
  <1>9. CASE ReceiverChecks
    <2>1. /\ rdrv'.pc \in {"undo_parts", "undo_inbox"} => rdrv.pc \in {"undo_parts", "undo_inbox"}
          /\ rdrv.pc \in Undoing \cup {"idle"} /\ rcv.abort /\ rcv.step \notin Past =>
                rdrv'.pc \in Undoing \cup {"idle"}
      BY <1>9
        DEF ReceiverChecks, TakePc, TypeOK, ReceiverMemory, Undoing, RIdle,
            RPc, Answered, Unresolved
    <2>2. /\ rcv'.aborted # {} => Undone
          /\ rcv'.step = "aborted" => rcv.step = "aborted" \/ rdrv.pc = "undo_inbox"
      BY <1>9
        DEF ReceiverChecks, TypeOK, ReceiverRow, Undone
    <2>3. \A q \in Participants :
             <<"abort", q>> \in rcv'.pending =>
                 <<"abort", q>> \in rcv.pending \/ rdrv.pc = "undo_parts"
      BY <1>9
        DEF ReceiverChecks, TypeOK, ReceiverRow
    <2>4. UNCHANGED <<rec, recq>>
      BY <1>9, ReceiverLocalFrame DEF ReceiverLocal
    <2> QED  BY <2>1, <2>2, <2>3, <2>4 DEF UndoWalk
  <1>10. CASE ReceiverImported
    <2>1. /\ rdrv'.pc \in {"undo_parts", "undo_inbox"} => rdrv.pc \in {"undo_parts", "undo_inbox"}
          /\ rdrv.pc \in Undoing \cup {"idle"} /\ rcv.abort /\ rcv.step \notin Past =>
                rdrv'.pc \in Undoing \cup {"idle"}
      BY <1>10
        DEF ReceiverImported, TypeOK, ReceiverMemory, Undoing, RIdle, RPc,
            Answered, Unresolved
    <2>2. /\ rcv'.aborted # {} => Undone
          /\ rcv'.step = "aborted" => rcv.step = "aborted" \/ rdrv.pc = "undo_inbox"
      BY <1>10
        DEF ReceiverImported, TypeOK, ReceiverRow, Undone
    <2>3. \A q \in Participants :
             <<"abort", q>> \in rcv'.pending =>
                 <<"abort", q>> \in rcv.pending \/ rdrv.pc = "undo_parts"
      BY <1>10
        DEF ReceiverImported, TypeOK, ReceiverRow
    <2>4. UNCHANGED <<rec, recq>>
      BY <1>10, ReceiverLocalFrame DEF ReceiverLocal
    <2> QED  BY <2>1, <2>2, <2>3, <2>4 DEF UndoWalk
  <1>11. CASE ReceiverTakeRead
    <2>1. /\ rdrv'.pc \in {"undo_parts", "undo_inbox"} => rdrv.pc \in {"undo_parts", "undo_inbox"}
          /\ rdrv.pc \in Undoing \cup {"idle"} /\ rcv.abort /\ rcv.step \notin Past =>
                rdrv'.pc \in Undoing \cup {"idle"}
      BY <1>11
        DEF ReceiverTakeRead, TypeOK, ReceiverMemory, Undoing, RIdle, RPc,
            Answered, Unresolved
    <2>2. /\ rcv'.aborted # {} => Undone
          /\ rcv'.step = "aborted" => rcv.step = "aborted" \/ rdrv.pc = "undo_inbox"
      BY <1>11
        DEF ReceiverTakeRead, TypeOK, ReceiverRow, Undone
    <2>3. \A q \in Participants :
             <<"abort", q>> \in rcv'.pending =>
                 <<"abort", q>> \in rcv.pending \/ rdrv.pc = "undo_parts"
      BY <1>11
        DEF ReceiverTakeRead, TypeOK, ReceiverRow
    <2>4. UNCHANGED <<rec, recq>>
      BY <1>11, ReceiverLocalFrame DEF ReceiverLocal
    <2> QED  BY <2>1, <2>2, <2>3, <2>4 DEF UndoWalk
  <1>12. CASE ReceiverTake
    <2>1. /\ rdrv'.pc \in {"undo_parts", "undo_inbox"} => rdrv.pc \in {"undo_parts", "undo_inbox"}
          /\ rdrv.pc \in Undoing \cup {"idle"} /\ rcv.abort /\ rcv.step \notin Past =>
                rdrv'.pc \in Undoing \cup {"idle"}
      BY <1>12
        DEF ReceiverTake, TypeOK, ReceiverMemory, Undoing, RIdle, RPc,
            Answered, Unresolved
    <2>2. /\ rcv'.aborted # {} => Undone
          /\ rcv'.step = "aborted" => rcv.step = "aborted" \/ rdrv.pc = "undo_inbox"
      BY <1>12
        DEF ReceiverTake, TypeOK, ReceiverRow, Undone
    <2>3. \A q \in Participants :
             <<"abort", q>> \in rcv'.pending =>
                 <<"abort", q>> \in rcv.pending \/ rdrv.pc = "undo_parts"
      BY <1>12
        DEF ReceiverTake, TypeOK, ReceiverRow
    <2>4. UNCHANGED <<rec, recq>>
      BY <1>12, ReceiverLocalFrame DEF ReceiverLocal
    <2> QED  BY <2>1, <2>2, <2>3, <2>4 DEF UndoWalk
  <1>13. CASE ReceiverFence
    <2>1. /\ rdrv'.pc \in {"undo_parts", "undo_inbox"} => rdrv.pc \in {"undo_parts", "undo_inbox"}
          /\ rdrv.pc \in Undoing \cup {"idle"} /\ rcv.abort /\ rcv.step \notin Past =>
                rdrv'.pc \in Undoing \cup {"idle"}
      BY <1>13
        DEF ReceiverFence, TypeOK, ReceiverMemory, Undoing, RIdle, RPc,
            Answered, Unresolved
    <2>2. /\ rcv'.aborted # {} => Undone
          /\ rcv'.step = "aborted" => rcv.step = "aborted" \/ rdrv.pc = "undo_inbox"
      BY <1>13
        DEF ReceiverFence, TypeOK, ReceiverRow, Undone
    <2>3. \A q \in Participants :
             <<"abort", q>> \in rcv'.pending =>
                 <<"abort", q>> \in rcv.pending \/ rdrv.pc = "undo_parts"
      BY <1>13
        DEF ReceiverFence, TypeOK, ReceiverRow
    <2>4. UNCHANGED <<rec, recq>>
      BY <1>13, ReceiverLocalFrame DEF ReceiverLocal
    <2> QED  BY <2>1, <2>2, <2>3, <2>4 DEF UndoWalk
  <1>14. CASE ReceiverInstall
    <2>1. /\ rdrv'.pc \in {"undo_parts", "undo_inbox"} => rdrv.pc \in {"undo_parts", "undo_inbox"}
          /\ rdrv.pc \in Undoing \cup {"idle"} /\ rcv.abort /\ rcv.step \notin Past =>
                rdrv'.pc \in Undoing \cup {"idle"}
      BY <1>14
        DEF ReceiverInstall, TypeOK, ReceiverMemory, Undoing, RIdle, RPc,
            Answered, Unresolved
    <2>2. /\ rcv'.aborted # {} => Undone
          /\ rcv'.step = "aborted" => rcv.step = "aborted" \/ rdrv.pc = "undo_inbox"
      BY <1>14
        DEF ReceiverInstall, TypeOK, ReceiverRow, Undone
    <2>3. \A q \in Participants :
             <<"abort", q>> \in rcv'.pending =>
                 <<"abort", q>> \in rcv.pending \/ rdrv.pc = "undo_parts"
      BY <1>14
        DEF ReceiverInstall, TypeOK, ReceiverRow
    <2>4. UNCHANGED <<rec, recq>>
      BY <1>14, ReceiverLocalFrame DEF ReceiverLocal
    <2> QED  BY <2>1, <2>2, <2>3, <2>4 DEF UndoWalk
  <1>15. CASE ReceiverFinish
    <2>1. /\ rdrv'.pc \in {"undo_parts", "undo_inbox"} => rdrv.pc \in {"undo_parts", "undo_inbox"}
          /\ rdrv.pc \in Undoing \cup {"idle"} /\ rcv.abort /\ rcv.step \notin Past =>
                rdrv'.pc \in Undoing \cup {"idle"}
      BY <1>15
        DEF ReceiverFinish, TypeOK, ReceiverMemory, Undoing, RIdle, RPc,
            Answered, Unresolved
    <2>2. /\ rcv'.aborted # {} => Undone
          /\ rcv'.step = "aborted" => rcv.step = "aborted" \/ rdrv.pc = "undo_inbox"
      BY <1>15
        DEF ReceiverFinish, TypeOK, ReceiverRow, Undone
    <2>3. \A q \in Participants :
             <<"abort", q>> \in rcv'.pending =>
                 <<"abort", q>> \in rcv.pending \/ rdrv.pc = "undo_parts"
      BY <1>15
        DEF ReceiverFinish, TypeOK, ReceiverRow
    <2>4. UNCHANGED <<rec, recq>>
      BY <1>15, ReceiverLocalFrame DEF ReceiverLocal
    <2> QED  BY <2>1, <2>2, <2>3, <2>4 DEF UndoWalk
  <1>16. CASE ReceiverTakeover
    <2>1. /\ rdrv'.pc \in {"undo_parts", "undo_inbox"} => rdrv.pc \in {"undo_parts", "undo_inbox"}
          /\ rdrv.pc \in Undoing \cup {"idle"} /\ rcv.abort /\ rcv.step \notin Past =>
                rdrv'.pc \in Undoing \cup {"idle"}
      BY <1>16
        DEF ReceiverTakeover, TypeOK, ReceiverMemory, Undoing, RIdle, RPc,
            Answered, Unresolved
    <2>2. /\ rcv'.aborted # {} => Undone
          /\ rcv'.step = "aborted" => rcv.step = "aborted" \/ rdrv.pc = "undo_inbox"
      BY <1>16
        DEF ReceiverTakeover, TypeOK, ReceiverRow, Undone
    <2>3. \A q \in Participants :
             <<"abort", q>> \in rcv'.pending =>
                 <<"abort", q>> \in rcv.pending \/ rdrv.pc = "undo_parts"
      BY <1>16
        DEF ReceiverTakeover, TypeOK, ReceiverRow
    <2>4. UNCHANGED <<rec, recq>>
      BY <1>16, ReceiverLocalFrame DEF ReceiverLocal
    <2> QED  BY <2>1, <2>2, <2>3, <2>4 DEF UndoWalk
  <1>17. CASE ReceiverReturnClaim
    <2>1. /\ rdrv'.pc \in {"undo_parts", "undo_inbox"} => rdrv.pc \in {"undo_parts", "undo_inbox"}
          /\ rdrv.pc \in Undoing \cup {"idle"} /\ rcv.abort /\ rcv.step \notin Past =>
                rdrv'.pc \in Undoing \cup {"idle"}
      BY <1>17
        DEF ReceiverReturnClaim, TypeOK, ReceiverMemory, Undoing, RIdle, RPc,
            Answered, Unresolved
    <2>2. /\ rcv'.aborted # {} => Undone
          /\ rcv'.step = "aborted" => rcv.step = "aborted" \/ rdrv.pc = "undo_inbox"
      BY <1>17
        DEF ReceiverReturnClaim, TypeOK, ReceiverRow, Undone
    <2>3. \A q \in Participants :
             <<"abort", q>> \in rcv'.pending =>
                 <<"abort", q>> \in rcv.pending \/ rdrv.pc = "undo_parts"
      BY <1>17
        DEF ReceiverReturnClaim, TypeOK, ReceiverRow
    <2>4. UNCHANGED <<rec, recq>>
      BY <1>17, ReceiverLocalFrame DEF ReceiverLocal
    <2> QED  BY <2>1, <2>2, <2>3, <2>4 DEF UndoWalk
  <1>18. CASE ReceiverAborted
    <2>1. /\ rdrv'.pc \in {"undo_parts", "undo_inbox"} => rdrv.pc \in {"undo_parts", "undo_inbox"}
          /\ rdrv.pc \in Undoing \cup {"idle"} /\ rcv.abort /\ rcv.step \notin Past =>
                rdrv'.pc \in Undoing \cup {"idle"}
      BY <1>18
        DEF ReceiverAborted, TypeOK, ReceiverMemory, Undoing, RIdle, RPc,
            Answered, Unresolved
    <2>2. /\ rcv'.aborted # {} => Undone
          /\ rcv'.step = "aborted" => rcv.step = "aborted" \/ rdrv.pc = "undo_inbox"
      BY <1>18
        DEF ReceiverAborted, TypeOK, ReceiverRow, Undone
    <2>3. \A q \in Participants :
             <<"abort", q>> \in rcv'.pending =>
                 <<"abort", q>> \in rcv.pending \/ rdrv.pc = "undo_parts"
      BY <1>18
        DEF ReceiverAborted, TypeOK, ReceiverRow
    <2>4. UNCHANGED <<rec, recq>>
      BY <1>18, ReceiverLocalFrame DEF ReceiverLocal
    <2> QED  BY <2>1, <2>2, <2>3, <2>4 DEF UndoWalk
  <1>19. CASE ReceiverTick
    <2>1. /\ rdrv'.pc \in {"undo_parts", "undo_inbox"} => rdrv.pc \in {"undo_parts", "undo_inbox"}
          /\ rdrv.pc \in Undoing \cup {"idle"} /\ rcv.abort /\ rcv.step \notin Past =>
                rdrv'.pc \in Undoing \cup {"idle"}
      BY <1>19
        DEF ReceiverTick, ReceiverNextPc, ReceiverAdvancePc, ReceiverBefore,
            Past, ReceiverSteps, ReceiverRow, Terminal, TypeOK,
            ReceiverMemory, Undoing, RIdle, RPc, Answered, Unresolved
    <2>2. /\ rcv'.aborted # {} => Undone
          /\ rcv'.step = "aborted" => rcv.step = "aborted" \/ rdrv.pc = "undo_inbox"
      BY <1>19
        DEF ReceiverTick, TypeOK, ReceiverRow, Undone
    <2>3. \A q \in Participants :
             <<"abort", q>> \in rcv'.pending =>
                 <<"abort", q>> \in rcv.pending \/ rdrv.pc = "undo_parts"
      BY <1>19
        DEF ReceiverTick, TypeOK, ReceiverRow
    <2>4. UNCHANGED <<rec, recq>>
      BY <1>19 DEF ReceiverTick, shared
    <2> QED  BY <2>1, <2>2, <2>3, <2>4 DEF UndoWalk
  <1>20. CASE ReceiverStage
    <2>1. /\ rdrv'.pc \in {"undo_parts", "undo_inbox"} => rdrv.pc \in {"undo_parts", "undo_inbox"}
          /\ rdrv.pc \in Undoing \cup {"idle"} /\ rcv.abort /\ rcv.step \notin Past =>
                rdrv'.pc \in Undoing \cup {"idle"}
      BY <1>20
        DEF ReceiverStage, ReceiverCas, TypeOK, ReceiverMemory, Undoing,
            RIdle, RPc, Answered, Unresolved
    <2>2. /\ rcv'.aborted # {} => Undone
          /\ rcv'.step = "aborted" => rcv.step = "aborted" \/ rdrv.pc = "undo_inbox"
      BY <1>20
        DEF ReceiverStage, ReceiverCas, TypeOK, ReceiverRow, Undone
    <2>3. \A q \in Participants :
             <<"abort", q>> \in rcv'.pending =>
                 <<"abort", q>> \in rcv.pending \/ rdrv.pc = "undo_parts"
      BY <1>20
        DEF ReceiverStage, ReceiverCas, TypeOK, ReceiverRow
    <2>4. /\ UNCHANGED rec \/ rec'.state # "aborted" \/ rdrv.pc = "undo_parts"
          /\ \A c \in recq' : c \in recq \/ c.state # "aborted" \/ rdrv.pc = "undo_parts"
      BY <1>20 DEF ReceiverStage, ReceiverCas, CasLanded, CasMoved, CasUnanswered
    <2> QED  BY <2>1, <2>2, <2>3, <2>4 DEF UndoWalk
  <1>21. CASE ReceiverCasClaimed
    <2>1. /\ rdrv'.pc \in {"undo_parts", "undo_inbox"} => rdrv.pc \in {"undo_parts", "undo_inbox"}
          /\ rdrv.pc \in Undoing \cup {"idle"} /\ rcv.abort /\ rcv.step \notin Past =>
                rdrv'.pc \in Undoing \cup {"idle"}
      BY <1>21
        DEF ReceiverCasClaimed, ReceiverCas, TypeOK, ReceiverMemory, Undoing,
            RIdle, RPc, Answered, Unresolved
    <2>2. /\ rcv'.aborted # {} => Undone
          /\ rcv'.step = "aborted" => rcv.step = "aborted" \/ rdrv.pc = "undo_inbox"
      BY <1>21
        DEF ReceiverCasClaimed, ReceiverCas, TypeOK, ReceiverRow, Undone
    <2>3. \A q \in Participants :
             <<"abort", q>> \in rcv'.pending =>
                 <<"abort", q>> \in rcv.pending \/ rdrv.pc = "undo_parts"
      BY <1>21
        DEF ReceiverCasClaimed, ReceiverCas, TypeOK, ReceiverRow
    <2>4. /\ UNCHANGED rec \/ rec'.state # "aborted" \/ rdrv.pc = "undo_parts"
          /\ \A c \in recq' : c \in recq \/ c.state # "aborted" \/ rdrv.pc = "undo_parts"
      BY <1>21 DEF ReceiverCasClaimed, ReceiverCas, CasLanded, CasMoved, CasUnanswered
    <2> QED  BY <2>1, <2>2, <2>3, <2>4 DEF UndoWalk
  <1>22. CASE ReceiverCasActivated
    <2>1. /\ rdrv'.pc \in {"undo_parts", "undo_inbox"} => rdrv.pc \in {"undo_parts", "undo_inbox"}
          /\ rdrv.pc \in Undoing \cup {"idle"} /\ rcv.abort /\ rcv.step \notin Past =>
                rdrv'.pc \in Undoing \cup {"idle"}
      BY <1>22
        DEF ReceiverCasActivated, ReceiverCas, TypeOK, ReceiverMemory,
            Undoing, RIdle, RPc, Answered, Unresolved
    <2>2. /\ rcv'.aborted # {} => Undone
          /\ rcv'.step = "aborted" => rcv.step = "aborted" \/ rdrv.pc = "undo_inbox"
      BY <1>22
        DEF ReceiverCasActivated, ReceiverCas, TypeOK, ReceiverRow, Undone
    <2>3. \A q \in Participants :
             <<"abort", q>> \in rcv'.pending =>
                 <<"abort", q>> \in rcv.pending \/ rdrv.pc = "undo_parts"
      BY <1>22
        DEF ReceiverCasActivated, ReceiverCas, TypeOK, ReceiverRow
    <2>4. /\ UNCHANGED rec \/ rec'.state # "aborted" \/ rdrv.pc = "undo_parts"
          /\ \A c \in recq' : c \in recq \/ c.state # "aborted" \/ rdrv.pc = "undo_parts"
      BY <1>22 DEF ReceiverCasActivated, ReceiverCas, CasLanded, CasMoved, CasUnanswered
    <2> QED  BY <2>1, <2>2, <2>3, <2>4 DEF UndoWalk
  <1>23. CASE ReceiverUndoRecord
    <2>1. /\ rdrv'.pc \in {"undo_parts", "undo_inbox"} => rdrv.pc \in {"undo_parts", "undo_inbox"}
          /\ rdrv.pc \in Undoing \cup {"idle"} /\ rcv.abort /\ rcv.step \notin Past =>
                rdrv'.pc \in Undoing \cup {"idle"}
      BY <1>23
        DEF ReceiverUndoRecord, TypeOK, ReceiverMemory, Undoing, RIdle, RPc,
            Answered, Unresolved
    <2>2. /\ rcv'.aborted # {} => Undone
          /\ rcv'.step = "aborted" => rcv.step = "aborted" \/ rdrv.pc = "undo_inbox"
      BY <1>23
        DEF ReceiverUndoRecord, TypeOK, ReceiverRow, Undone
    <2>3. \A q \in Participants :
             <<"abort", q>> \in rcv'.pending =>
                 <<"abort", q>> \in rcv.pending \/ rdrv.pc = "undo_parts"
      BY <1>23
        DEF ReceiverUndoRecord, TypeOK, ReceiverRow
    <2>4. /\ UNCHANGED rec \/ rec'.state # "aborted" \/ rdrv.pc = "undo_parts"
          /\ \A c \in recq' : c \in recq \/ c.state # "aborted" \/ rdrv.pc = "undo_parts"
      BY <1>23 DEF ReceiverUndoRecord, CasLanded, CasMoved, CasUnanswered
    <2> QED  BY <2>1, <2>2, <2>3, <2>4 DEF UndoWalk
  <1>24. ASSUME NEW p \in Participants, ReceiverDiverged(p)
        PROVE  UndoWalk
    <2>1. /\ rdrv'.pc \in {"undo_parts", "undo_inbox"} => rdrv.pc \in {"undo_parts", "undo_inbox"}
          /\ rdrv.pc \in Undoing \cup {"idle"} /\ rcv.abort /\ rcv.step \notin Past =>
                rdrv'.pc \in Undoing \cup {"idle"}
      BY <1>24
        DEF ReceiverDiverged, TypeOK, ReceiverMemory, Undoing, RIdle, RPc,
            Answered, Unresolved
    <2>2. /\ rcv'.aborted # {} => Undone
          /\ rcv'.step = "aborted" => rcv.step = "aborted" \/ rdrv.pc = "undo_inbox"
      BY <1>24
        DEF ReceiverDiverged, TypeOK, ReceiverRow, Undone
    <2>3. \A q \in Participants :
             <<"abort", q>> \in rcv'.pending =>
                 <<"abort", q>> \in rcv.pending \/ rdrv.pc = "undo_parts"
      <3>1. rcv'.pending = {} \/ rcv'.pending = {<<"diverged", p>>}
        BY <1>24 DEF ReceiverDiverged, TypeOK, ReceiverRow
      <3>2. \A q \in Participants : <<"abort", q>> # <<"diverged", p>>
        OBVIOUS
      <3> QED  BY <3>1, <3>2
    <2>4. UNCHANGED <<rec, recq>>
      BY <1>24, ReceiverLocalFrame DEF ReceiverLocal
    <2> QED  BY <2>1, <2>2, <2>3, <2>4 DEF UndoWalk
  <1>25. ASSUME NEW p \in Participants, ReceiverImport(p)
        PROVE  UndoWalk
    <2>1. /\ rdrv'.pc \in {"undo_parts", "undo_inbox"} => rdrv.pc \in {"undo_parts", "undo_inbox"}
          /\ rdrv.pc \in Undoing \cup {"idle"} /\ rcv.abort /\ rcv.step \notin Past =>
                rdrv'.pc \in Undoing \cup {"idle"}
      BY <1>25
        DEF ReceiverImport, TypeOK, ReceiverMemory, Undoing, RIdle, RPc,
            Answered, Unresolved
    <2>2. /\ rcv'.aborted # {} => Undone
          /\ rcv'.step = "aborted" => rcv.step = "aborted" \/ rdrv.pc = "undo_inbox"
      BY <1>25
        DEF ReceiverImport, TypeOK, ReceiverRow, Undone
    <2>3. \A q \in Participants :
             <<"abort", q>> \in rcv'.pending =>
                 <<"abort", q>> \in rcv.pending \/ rdrv.pc = "undo_parts"
      <3>1. rcv'.pending = {} \/ rcv'.pending = {<<"import", p>>}
        BY <1>25 DEF ReceiverImport, TypeOK, ReceiverRow
      <3>2. \A q \in Participants : <<"abort", q>> # <<"import", p>>
        OBVIOUS
      <3> QED  BY <3>1, <3>2
    <2>4. UNCHANGED <<rec, recq>>
      BY <1>25, ReceiverLocalFrame DEF ReceiverLocal
    <2> QED  BY <2>1, <2>2, <2>3, <2>4 DEF UndoWalk
  <1>26. ASSUME NEW p \in Participants, ReceiverActivate(p)
        PROVE  UndoWalk
    <2>1. /\ rdrv'.pc \in {"undo_parts", "undo_inbox"} => rdrv.pc \in {"undo_parts", "undo_inbox"}
          /\ rdrv.pc \in Undoing \cup {"idle"} /\ rcv.abort /\ rcv.step \notin Past =>
                rdrv'.pc \in Undoing \cup {"idle"}
      BY <1>26
        DEF ReceiverActivate, TypeOK, ReceiverMemory, Undoing, RIdle, RPc,
            Answered, Unresolved
    <2>2. /\ rcv'.aborted # {} => Undone
          /\ rcv'.step = "aborted" => rcv.step = "aborted" \/ rdrv.pc = "undo_inbox"
      BY <1>26
        DEF ReceiverActivate, TypeOK, ReceiverRow, Undone
    <2>3. \A q \in Participants :
             <<"abort", q>> \in rcv'.pending =>
                 <<"abort", q>> \in rcv.pending \/ rdrv.pc = "undo_parts"
      <3>1. rcv'.pending = {} \/ rcv'.pending = {<<"activate", p>>}
        BY <1>26 DEF ReceiverActivate, TypeOK, ReceiverRow
      <3>2. \A q \in Participants : <<"abort", q>> # <<"activate", p>>
        OBVIOUS
      <3> QED  BY <3>1, <3>2
    <2>4. UNCHANGED <<rec, recq>>
      BY <1>26, ReceiverLocalFrame DEF ReceiverLocal
    <2> QED  BY <2>1, <2>2, <2>3, <2>4 DEF UndoWalk
  <1>27. ASSUME NEW p \in Participants, ReceiverAbortParticipant(p)
        PROVE  UndoWalk
    <2>1. /\ rdrv'.pc \in {"undo_parts", "undo_inbox"} => rdrv.pc \in {"undo_parts", "undo_inbox"}
          /\ rdrv.pc \in Undoing \cup {"idle"} /\ rcv.abort /\ rcv.step \notin Past =>
                rdrv'.pc \in Undoing \cup {"idle"}
      BY <1>27
        DEF ReceiverAbortParticipant, TypeOK, ReceiverMemory, Undoing, RIdle,
            RPc, Answered, Unresolved
    <2>2. /\ rcv'.aborted # {} => Undone
          /\ rcv'.step = "aborted" => rcv.step = "aborted" \/ rdrv.pc = "undo_inbox"
      BY <1>27
        DEF ReceiverAbortParticipant, TypeOK, ReceiverRow, Undone
    <2>3. \A q \in Participants :
             <<"abort", q>> \in rcv'.pending =>
                 <<"abort", q>> \in rcv.pending \/ rdrv.pc = "undo_parts"
      BY <1>27
        DEF ReceiverAbortParticipant, TypeOK, ReceiverRow
    <2>4. UNCHANGED <<rec, recq>>
      BY <1>27, ReceiverLocalFrame DEF ReceiverLocal
    <2> QED  BY <2>1, <2>2, <2>3, <2>4 DEF UndoWalk
  <1> QED
    BY <1>1, <1>2, <1>3, <1>4, <1>5, <1>6, <1>7, <1>8, <1>9, <1>10, <1>11,
       <1>12, <1>13, <1>14, <1>15, <1>16, <1>17, <1>18, <1>19, <1>20, <1>21,
       <1>22, <1>23, <1>24, <1>25, <1>26, <1>27
      DEF UndoWalkStep

-----------------------------------------------------------------------------
(* The claim, step by step. *)

\* What a sealed, listed cut lets the receiver rely on.
LEMMA RowIsAdmitted ==
    ASSUME LifeInv, rcv.step # "none"
    PROVE  src.step # "none" /\ src.step # "preparing"
  BY DEF LifeInv, ListedInv, Unsealed

\* The record only grows older.
LEMMA RecordAges ==
    ASSUME TypeOK, RecordStep
    PROVE  /\ rec'.ver \in Nat /\ rec.ver \in Nat
           /\ UNCHANGED rec \/ rec'.ver = rec.ver + 1
  BY DEF TypeOK, SharedType, RecordStep

\* A pass begins.
LEMMA TickClaimQuiet ==
    ASSUME TypeOK, ReceiverTick
    PROVE  ClaimQuiet
  <1>1. UNCHANGED <<claim, claimq>>
    BY DEF ReceiverTick, shared
  <1>2. TakeKept
    BY DEF TakeKept, ReceiverTick, TypeOK, ReceiverRow
  <1>3. rcv'.step = rcv.step \/ (rcv.step = "activated" /\ rcv'.step = "done")
    BY DEF ReceiverTick, TypeOK, ReceiverRow
  <1>4. rdrv'.pc \notin {"cas_claimed", "take", "undo_return", "undo_check"}
    BY DEF ReceiverTick, ReceiverNextPc, ReceiverAdvancePc, TypeOK, ReceiverMemory
  <1> QED  BY <1>1, <1>2, <1>3, <1>4
    DEF ClaimQuiet, TakeKept, StepsEarned, PlacesEarned, ClaimedSteps, StagedSteps, Past

\* The claim and what is known of it, after a step that leaves them alone.
LEMMA QuietClaim ==
    ASSUME ClaimInv, ClaimQuiet, RowGrows, UNCHANGED src,
           rcv.step # "none" => rcv'.step # "none"
    PROVE  ClaimShapeInv' /\ ClaimWriteInv' /\ TakeInv'
  <1>1. ClaimShapeInv'
    BY DEF ClaimInv, ClaimShapeInv, ClaimQuiet, TakeKept, StepsEarned, PlacesEarned, RowGrows
  <1>2. ClaimWriteInv'
    BY DEF ClaimInv, ClaimWriteInv, ClaimQuiet, TakeKept, StepsEarned, PlacesEarned, RowGrows
  <1>3. TakeInv'
    BY DEF ClaimInv, TakeInv, ClaimQuiet, TakeKept, StepsEarned, PlacesEarned
  <1> QED  BY <1>1, <1>2, <1>3

\* take_claim saves the version its take will name.
LEMMA TakeReadClaim ==
    ASSUME TypeOK, BoundaryInv, LifeInv, ClaimInv, RowGrows, ReceiverTakeRead
    PROVE  /\ ClaimShapeInv' /\ ClaimWriteInv' /\ TakeInv'
           /\ rcv.step = "staged"
           /\ rdrv'.pc \in {"idle", "take"}
  <1>1. /\ rdrv.pc = "take_read" /\ UNCHANGED <<claim, claimq, src>>
        /\ rcv'.landed = rcv.landed /\ rcv'.step = rcv.step
    BY DEF ReceiverTakeRead, shared, ReceiverFrame, srcVars, TypeOK, ReceiverRow
  <1>2. rcv.step = "staged" /\ src.step # "none"
    BY <1>1, RowIsAdmitted DEF BoundaryInv, ReceiverInv, PlaceInv, Claiming
  <1>3. /\ claim.epoch = claim.ver /\ src.claimVer \in Nat
        /\ rcv.takeEpoch \in Nat
    BY DEF ClaimInv, ClaimShapeInv, TypeOK, SourceRow, ReceiverRow
  <1>4. \/ rcv'.takeEpoch = rcv.takeEpoch /\ rdrv'.pc = "idle"
        \/ rcv'.takeEpoch = src.claimVer + 1 /\ rdrv'.pc = "take"
    <2>1. CASE claim.ver # src.claimVer \/ (claim.epoch >= 1 /\ claim.holder # "source")
      BY <2>1 DEF ReceiverTakeRead, TypeOK, ReceiverRow, ReceiverMemory, RIdle
    <2>2. CASE ~(claim.ver # src.claimVer \/ (claim.epoch >= 1 /\ claim.holder # "source"))
      <3>1. claim.ver = src.claimVer
        BY <2>2
      <3>2. /\ rcv' = [rcv EXCEPT !.takeEpoch = claim.epoch + 1]
            /\ rdrv' = RPc(rdrv, "take")
        BY <2>2 DEF ReceiverTakeRead
      <3> QED  BY <1>3, <3>1, <3>2 DEF TypeOK, ReceiverRow, ReceiverMemory, RPc
    <2> QED  BY <2>1, <2>2
  <1>5. rcv'.takeEpoch \in {rcv.takeEpoch, src.claimVer + 1}
        /\ (rcv.takeEpoch > 0 => rcv'.takeEpoch > 0)
    BY <1>3, <1>4
  <1>6. ClaimShapeInv'
    BY <1>1, <1>3, <1>5 DEF ClaimInv, ClaimShapeInv, RowGrows
  <1>7. ClaimWriteInv'
    BY <1>1, <1>3, <1>5 DEF ClaimInv, ClaimWriteInv, RowGrows
  <1>8. TakeInv'
    BY <1>1, <1>2, <1>3, <1>4, <1>5 DEF ClaimInv, TakeInv, ClaimedSteps, Past
  <1> QED  BY <1>2, <1>4, <1>6, <1>7, <1>8

\* The take itself: it lands, it had landed, another holds the claim, or it goes
\* unanswered and may be settled as moved.
LEMMA TakeClaim ==
    ASSUME TypeOK, BoundaryInv, LifeInv, ClaimInv, RowGrows, ReceiverTake
    PROVE  /\ ClaimShapeInv' /\ ClaimWriteInv' /\ TakeInv'
           /\ rcv'.takeEpoch = rcv.takeEpoch /\ rcv'.step = rcv.step
           /\ rdrv'.pc = "undo_return" => TakeOver'
           /\ rdrv'.pc \in {"undo_return", "idle", "cas_claimed"}
           /\ Undone => UNCHANGED claim \/ rcv'.takeFailed
  <1> DEFINE V == src.claimVer
  <1>1. /\ rdrv.pc \in {"take", "undo_take"} /\ UNCHANGED src
        /\ rcv'.takeEpoch = rcv.takeEpoch /\ rcv'.step = rcv.step
    BY DEF ReceiverTake, ReceiverFrame, srcVars, TypeOK, ReceiverRow
  <1>3. rcv.step # "none" /\ src.step # "none"
    BY <1>1, RowIsAdmitted
    DEF BoundaryInv, ReceiverInv, PlaceInv, Claiming, Undoing, ReceiverBefore
  <1>4. /\ V \in Nat /\ rcv.takeEpoch \in {0, V + 1} /\ rcv.landed \in {0, V + 1}
        /\ claim.ver \in Nat /\ claim.epoch = claim.ver
        /\ (rdrv.pc = "take" => rcv.takeEpoch > 0)
        /\ claim.holder = "receiver" => claim.ver = V + 1
        /\ rcv.landed > 0 => claim.ver > V /\ rcv.takeEpoch > 0 /\ claim.holder # "rival"
    BY <1>3 DEF ClaimInv, ClaimShapeInv, TakeInv, TypeOK, SourceRow, SharedType
  <1> HIDE DEF V
  <1>5. CASE UNCHANGED <<claim, claimq>> /\ rcv' = rcv /\ rdrv'.pc = "undo_return"
             /\ (rcv.takeEpoch = 0 \/ rcv.landed > 0)
    <2>1. TakeOver'
      BY <1>1, <1>4, <1>5 DEF TakeOver, V
    <2> QED  BY <1>1, <1>5, <2>1 DEF ClaimInv, ClaimShapeInv, ClaimWriteInv, TakeInv
  <1>6. ASSUME claim.ver = V, rcv.takeEpoch > 0, UNCHANGED claimq,
               claim' = [holder |-> "receiver", epoch |-> rcv.takeEpoch, ver |-> V + 1],
               rcv'.landed = V + 1, rdrv'.pc \in {"undo_return", "cas_claimed"}
        PROVE  /\ ClaimShapeInv' /\ ClaimWriteInv' /\ TakeInv' /\ TakeOver'
               /\ Undone => rcv'.takeFailed
    <2>1. claim'.holder = "receiver" /\ claim'.epoch = V + 1 /\ claim'.ver = V + 1
          /\ rcv.takeEpoch = V + 1
      BY <1>4, <1>6
    <2>2. ClaimShapeInv'
      BY <1>1, <1>3, <1>4, <1>6, <2>1 DEF ClaimInv, ClaimShapeInv, V
    <2>3. ClaimWriteInv'
      BY <1>1, <1>4, <1>6 DEF ClaimInv, ClaimWriteInv, RowGrows, V
    <2>4. TakeInv'
      BY <1>1, <1>3, <1>4, <1>6, <2>1 DEF ClaimInv, TakeInv, V
    <2>5. TakeOver'
      BY <1>1, <1>4, <2>1 DEF TakeOver, V
    <2>6. Undone => rcv'.takeFailed
      BY <1>4, <1>6 DEF ClaimInv, UndoInv, TakeOver, RowGrows, V
    <2> QED  BY <2>2, <2>3, <2>4, <2>5, <2>6
  <1>7. ASSUME claim.ver # V, claim.holder = "receiver", UNCHANGED <<claim, claimq>>,
               rcv.takeEpoch > 0,
               rcv'.landed = claim.ver, rdrv'.pc \in {"undo_return", "cas_claimed"}
        PROVE  ClaimShapeInv' /\ ClaimWriteInv' /\ TakeInv' /\ TakeOver'
    <2>1. claim.ver = V + 1
      BY <1>4, <1>7
    <2>2. ClaimShapeInv'
      BY <1>1, <1>3, <1>4, <1>7, <2>1 DEF ClaimInv, ClaimShapeInv, V
    <2>3. ClaimWriteInv'
      BY <1>1, <1>4, <1>7, <2>1 DEF ClaimInv, ClaimWriteInv, RowGrows, V
    <2>4. TakeInv'
      BY <1>1, <1>3, <1>4, <1>7, <2>1 DEF ClaimInv, TakeInv, V
    <2>5. TakeOver'
      BY <1>1, <1>4, <1>7 DEF TakeOver, V
    <2> QED  BY <2>2, <2>3, <2>4, <2>5
  <1>8. ASSUME claim.ver # V, UNCHANGED <<claim, claimq>>, rcv'.landed = rcv.landed,
               rdrv'.pc \in {"undo_return", "idle"}
        PROVE  ClaimShapeInv' /\ ClaimWriteInv' /\ TakeInv' /\ TakeOver'
    <2>1. ClaimShapeInv'
      BY <1>1, <1>8 DEF ClaimInv, ClaimShapeInv, RowGrows
    <2>2. ClaimWriteInv'
      BY <1>1, <1>8 DEF ClaimInv, ClaimWriteInv, RowGrows
    <2>3. TakeInv'
      BY <1>1, <1>8 DEF ClaimInv, TakeInv
    <2>4. TakeOver'
      BY <1>1, <1>8 DEF TakeOver, V
    <2> QED  BY <2>1, <2>2, <2>3, <2>4
  <1>9. ASSUME UNCHANGED claim, rcv'.landed = rcv.landed, rcv.takeEpoch > 0,
               rdrv'.pc = "idle" \/ (rdrv'.pc = "undo_return" /\ rcv'.takeFailed),
               claimq' = claimq \cup {[expect |-> V, holder |-> "receiver",
                                       epoch |-> rcv.takeEpoch]}
        PROVE  /\ ClaimShapeInv' /\ ClaimWriteInv' /\ TakeInv'
               /\ rdrv'.pc = "undo_return" => TakeOver'
    <2>1. ClaimShapeInv' /\ TakeInv' /\ (rdrv'.pc = "undo_return" => TakeOver')
      BY <1>1, <1>9 DEF ClaimInv, ClaimShapeInv, TakeInv, RowGrows, TakeOver
    <2>2. rcv.takeEpoch = V + 1
      BY <1>4, <1>9
    <2>3. ClaimWriteInv'
      BY <1>1, <1>9, <2>2 DEF ClaimInv, ClaimWriteInv, RowGrows, V
    <2> QED  BY <2>1, <2>3
  <1>10. \/ /\ UNCHANGED <<claim, claimq>> /\ rcv' = rcv /\ rdrv'.pc = "undo_return"
            /\ rcv.takeEpoch = 0 \/ rcv.landed > 0
         \/ /\ claim.ver = V /\ rcv.takeEpoch > 0 /\ UNCHANGED claimq
            /\ claim' = [holder |-> "receiver", epoch |-> rcv.takeEpoch, ver |-> V + 1]
            /\ rcv'.landed = V + 1 /\ rdrv'.pc \in {"undo_return", "cas_claimed"}
         \/ /\ claim.ver # V /\ claim.holder = "receiver" /\ UNCHANGED <<claim, claimq>>
            /\ rcv.takeEpoch > 0
            /\ rcv'.landed = claim.ver /\ rdrv'.pc \in {"undo_return", "cas_claimed"}
         \/ /\ claim.ver # V /\ UNCHANGED <<claim, claimq>> /\ rcv'.landed = rcv.landed
            /\ rdrv'.pc \in {"undo_return", "idle"}
         \/ /\ UNCHANGED claim /\ rcv'.landed = rcv.landed /\ rcv.takeEpoch > 0
            /\ rdrv'.pc = "idle" \/ (rdrv'.pc = "undo_return" /\ rcv'.takeFailed)
            /\ claimq' = claimq \cup {[expect |-> V, holder |-> "receiver",
                                       epoch |-> rcv.takeEpoch]}
    <2>1. CASE rdrv.pc = "undo_take" /\ (rcv.takeEpoch = 0 \/ rcv.landed > 0)
      BY <2>1 DEF ReceiverTake, TypeOK, ReceiverMemory, RPc
    <2>2. CASE ~(rdrv.pc = "undo_take" /\ (rcv.takeEpoch = 0 \/ rcv.landed > 0))
      <3>1. rcv.takeEpoch > 0
        BY <1>1, <1>4, <2>2
      <3>2. CASE /\ ClaimLanded(V, "receiver", rcv.takeEpoch)
                 /\ rcv' = [rcv EXCEPT !.landed = claim'.ver]
                 /\ rdrv' = RPc(rdrv, IF rdrv.pc = "undo_take" THEN "undo_return" ELSE "cas_claimed")
                 /\ UNCHANGED claimq
        <4>1. rcv'.landed = claim'.ver /\ rdrv'.pc \in {"undo_return", "cas_claimed"}
          BY <3>2 DEF TypeOK, ReceiverRow, ReceiverMemory, RPc
        <4> QED  BY <3>1, <3>2, <4>1 DEF ClaimLanded
      <3>3. CASE /\ ClaimJudgedMoved(V, "receiver", rcv.takeEpoch)
                 /\ rcv' = [rcv EXCEPT !.abort = @ \/ claim.holder # "receiver",
                                       !.takeFailed = @ \/ claim.holder # "receiver"]
                 /\ rdrv' = IF rdrv.pc = "undo_take" /\ claim.holder # "receiver"
                            THEN RPc(rdrv, "undo_return") ELSE RIdle(rdrv)
        <4>1. rcv'.landed = rcv.landed
          BY <3>3 DEF TypeOK, ReceiverRow
        <4>2. rdrv'.pc = "idle" \/ (rdrv'.pc = "undo_return" /\ rcv'.takeFailed)
          BY <3>3 DEF TypeOK, ReceiverRow, ReceiverMemory, RPc, RIdle
        <4> QED
          BY <3>1, <3>3, <4>1, <4>2 DEF ClaimJudgedMoved, ClaimMoved, ClaimUnanswered
      <3>4. CASE /\ ClaimUnanswered(V, "receiver", rcv.takeEpoch)
                 /\ rdrv' = RIdle(rdrv)
                 /\ UNCHANGED rcv
        <4>1. rdrv'.pc = "idle"
          BY <3>4 DEF TypeOK, ReceiverMemory, RIdle
        <4> QED  BY <3>1, <3>4, <4>1 DEF ClaimUnanswered
      <3> QED  BY <2>2, <3>2, <3>3, <3>4 DEF ReceiverTake, V
    <2> QED  BY <2>1, <2>2
  <1> QED
    <2>1. ClaimShapeInv' /\ ClaimWriteInv' /\ TakeInv'
      BY <1>5, <1>6, <1>7, <1>8, <1>9, <1>10
    <2>2. rdrv'.pc = "undo_return" => TakeOver'
      BY <1>5, <1>6, <1>7, <1>8, <1>9, <1>10
    <2>3. Undone => UNCHANGED claim \/ rcv'.takeFailed
      BY <1>6, <1>10
    <2>4. rdrv'.pc \in {"undo_return", "idle", "cas_claimed"}
      BY <1>10
    <2> QED  BY <1>1, <2>1, <2>2, <2>3, <2>4

\* return_claim: the claim goes back to the source, or has gone.
LEMMA ReturnClaim ==
    ASSUME TypeOK, BoundaryInv, LifeInv, ClaimInv, RowGrows, ReceiverReturnClaim
    PROVE  /\ ClaimShapeInv' /\ ClaimWriteInv' /\ TakeInv' /\ TakeOver'
           /\ rcv' = rcv
           /\ rdrv'.pc \in {"undo_check", "idle"}
           /\ claim.holder # "receiver" => claim'.holder # "receiver"
  <1> DEFINE V == src.claimVer
  <1>1. rdrv.pc = "undo_return" /\ UNCHANGED <<src, rcv>>
    BY DEF ReceiverReturnClaim, ReceiverFrame, srcVars
  <1>2. rcv.abort /\ src.step # "none" /\ TakeOver
    BY <1>1, RowIsAdmitted
    DEF BoundaryInv, ReceiverInv, PlaceInv, Undoing, ReceiverBefore, ClaimInv, UndoInv
  <1>3. /\ V \in Nat /\ rcv.takeEpoch \in {0, V + 1} /\ rcv.landed \in {0, V + 1}
        /\ claim.ver \in Nat
        /\ rcv.landed > 0 => rcv.takeEpoch > 0 /\ claim.ver > V
    BY <1>2 DEF ClaimInv, ClaimShapeInv, TakeInv, TypeOK, SourceRow, SharedType
  <1> HIDE DEF V
  <1>4. rdrv'.pc \in {"undo_check", "idle"}
    BY DEF ReceiverReturnClaim, TypeOK, ReceiverMemory, RPc, RIdle
  <1>5. \/ UNCHANGED <<claim, claimq>>
        \/ /\ rcv.landed > 0 /\ claim.ver = rcv.landed /\ UNCHANGED claimq
           /\ claim' = [holder |-> "source", epoch |-> rcv.takeEpoch + 1, ver |-> rcv.landed + 1]
        \/ /\ rcv.landed > 0 /\ UNCHANGED claim
           /\ claimq' = claimq \cup {[expect |-> rcv.landed, holder |-> "source",
                                      epoch |-> rcv.takeEpoch + 1]}
    BY DEF ReceiverReturnClaim, ClaimLanded, ClaimMoved, ClaimUnanswered, ClaimJudgedMoved
  <1>6. CASE UNCHANGED <<claim, claimq>>
    BY <1>1, <1>2, <1>4, <1>6
    DEF ClaimInv, ClaimShapeInv, ClaimWriteInv, TakeInv, TakeOver
  <1>7. ASSUME rcv.landed > 0, claim.ver = rcv.landed, UNCHANGED claimq,
               claim' = [holder |-> "source", epoch |-> rcv.takeEpoch + 1,
                         ver |-> rcv.landed + 1]
        PROVE  /\ ClaimShapeInv' /\ ClaimWriteInv' /\ TakeInv' /\ TakeOver'
               /\ claim'.holder # "receiver"
    <2>1. claim'.holder = "source" /\ claim'.epoch = V + 2 /\ claim'.ver = V + 2
      BY <1>3, <1>7
    <2>2. ClaimShapeInv'
      BY <1>1, <1>2, <1>7, <2>1 DEF ClaimInv, ClaimShapeInv, V
    <2>3. ClaimWriteInv'
      BY <1>1, <1>7 DEF ClaimInv, ClaimWriteInv
    <2>4. TakeInv'
      BY <1>1, <1>3, <1>4, <2>1 DEF ClaimInv, TakeInv, V
    <2>5. TakeOver'
      BY <1>1, <1>3, <2>1 DEF TakeOver, V
    <2> QED  BY <2>1, <2>2, <2>3, <2>4, <2>5
  <1>8. ASSUME rcv.landed > 0, UNCHANGED claim,
               claimq' = claimq \cup {[expect |-> rcv.landed, holder |-> "source",
                                      epoch |-> rcv.takeEpoch + 1]}
        PROVE  ClaimShapeInv' /\ ClaimWriteInv' /\ TakeInv' /\ TakeOver'
    <2>1. ClaimShapeInv' /\ TakeInv' /\ TakeOver'
      BY <1>1, <1>2, <1>4, <1>8 DEF ClaimInv, ClaimShapeInv, TakeInv, TakeOver
    <2>2. rcv.landed = V + 1 /\ rcv.takeEpoch + 1 = V + 2
      BY <1>3, <1>8
    <2>3. ClaimWriteInv'
      BY <1>1, <1>2, <1>8, <2>2 DEF ClaimInv, ClaimWriteInv, V
    <2> QED  BY <2>1, <2>3
  <1>9. ClaimShapeInv' /\ ClaimWriteInv' /\ TakeInv' /\ TakeOver'
    BY <1>5, <1>6, <1>7, <1>8
  <1>10. claim.holder # "receiver" => claim'.holder # "receiver"
    BY <1>5, <1>7
  <1> QED  BY <1>1, <1>4, <1>9, <1>10

\* Where the steps of the receiver may leave the claim, short of undo_check.
LEMMA WalkUndo ==
    ASSUME TypeOK, BoundaryInv, ClaimInv, RowGrows, UndoWalk,
           UNCHANGED claim \/ claim'.holder # "receiver" \/ rcv'.takeFailed \/ ~Undone,
           Parting' => UNCHANGED claim /\ rcv'.landed = rcv.landed,
           TakeOver => TakeOver' \/ ~Undone,
           rdrv'.pc \in {"undo_return", "undo_check"} => TakeOver'
    PROVE  UndoInv'
  <1>1. Undone' => Undone
    BY DEF UndoWalk, Undone
  <1>2. ASSUME Undone
        PROVE  /\ rcv'.abort /\ TakeOver' /\ (rcv'.takeFailed \/ claim'.holder # "receiver")
               /\ rdrv'.pc \in Undoing \cup {"idle"}
    <2>1. /\ rcv.abort /\ TakeOver /\ (rcv.takeFailed \/ claim.holder # "receiver")
          /\ rdrv.pc \in Undoing \cup {"idle"}
      BY <1>2 DEF ClaimInv, UndoInv
    <2>2. rcv.step \notin Past
      BY <2>1 DEF BoundaryInv, ReceiverInv, RowInv
    <2> QED  BY <1>2, <2>1, <2>2 DEF UndoWalk, RowGrows
  <1>3. Parting' => claim'.holder # "receiver" \/ (rcv'.takeFailed /\ rcv'.landed = 0)
    BY DEF UndoWalk, Parting, ClaimInv, UndoInv, RowGrows
  <1> QED  BY <1>1, <1>2, <1>3 DEF UndoInv

\* undo_check lets cleanup go on only when the claim is not held here.
LEMMA UndoCheckUndo ==
    ASSUME TypeOK, BoundaryInv, ClaimInv, ReceiverUndoCheck
    PROVE  /\ ClaimShapeInv' /\ ClaimWriteInv' /\ TakeInv' /\ UndoInv' /\ rcv' = rcv
  <1>1. /\ rdrv.pc = "undo_check" /\ UNCHANGED <<rec, recq, claim, claimq, src, rcv>>
    BY DEF ReceiverUndoCheck, ReceiverFrame, srcVars, shared
  <1>2. rcv.abort /\ TakeOver
    BY <1>1 DEF BoundaryInv, ReceiverInv, PlaceInv, Undoing, ClaimInv, UndoInv
  <1>3. \/ rdrv'.pc = "idle"
        \/ rdrv'.pc = "undo_parts" /\ claim.holder # "receiver"
    BY DEF ReceiverUndoCheck, TypeOK, ReceiverMemory, RIdle, RPc
  <1>4. ClaimShapeInv' /\ ClaimWriteInv' /\ TakeInv'
    BY <1>1, <1>3 DEF ClaimInv, ClaimShapeInv, ClaimWriteInv, TakeInv
  <1>5. UndoInv'
    <2>1. TakeOver'
      BY <1>1, <1>2 DEF TakeOver
    <2>2. /\ Undone' => Undone \/ rdrv'.pc = "undo_parts"
          /\ Parting' => Parting \/ rdrv'.pc = "undo_parts"
      BY <1>1, <1>3 DEF Undone, Parting
    <2> QED  BY <1>1, <1>2, <1>3, <2>1, <2>2 DEF ClaimInv, UndoInv, Undoing
  <1> QED  BY <1>1, <1>4, <1>5

\* The receiver has staged the record before it asks for the claim.
LEMMA StagedKept ==
    ASSUME TypeOK, StagedInv, RecordStep, RecordInv, RecordInv',
           rcv'.takeEpoch > 0 \/ rcv'.step \in StagedSteps =>
               \/ rcv.takeEpoch > 0 \/ rcv.step \in StagedSteps
               \/ rec'.ver >= 2 /\ (rec'.ver = 2 => rec'.state = "staged")
    PROVE  StagedInv'
  BY RecordAges DEF StagedInv

LEMMA StageStaged ==
    ASSUME TypeOK, BoundaryInv, BoundaryInv', ClaimInv, RecordStep, ReceiverStage
    PROVE  StagedInv'
  <1>1. rdrv.pc = "stage" /\ rcv'.takeEpoch = rcv.takeEpoch
    BY DEF ReceiverStage, ReceiverCas, TypeOK, ReceiverRow
  <1>2. /\ rdrv.ver \in Versions(rdrv.obs) /\ rdrv.ver <= rec.ver
        /\ rdrv.ver = rec.ver => rdrv.obs = rec.state
        /\ rec.ver \in Versions(rec.state) /\ rec.ver \in Nat /\ rdrv.ver \in Nat
    BY DEF BoundaryInv, ReceiverInv, Reading, RecordInv, TypeOK, SharedType, ReceiverMemory
  <1>3. \/ rcv' = rcv
        \/ rec'.ver >= 2 /\ (rec'.ver = 2 => rec'.state = "staged")
    <2>1. CASE rdrv.obs = "published"
      <3>1. rdrv.ver = 1
        BY <1>2, <2>1 DEF Versions
      <3>2. CASE CasLanded(rdrv.ver, "staged", "receiver")
        BY <1>2, <3>1, <3>2 DEF CasLanded, Versions
      <3>3. CASE rcv' = rcv
        BY <3>3
      <3> QED  BY <2>1, <3>2, <3>3 DEF ReceiverStage, ReceiverCas
    <2>2. CASE rdrv.obs = "staged"
      <3>1. rdrv.ver = 2 /\ UNCHANGED rec
        BY <1>2, <2>2 DEF Versions, ReceiverStage
      <3> QED  BY <1>2, <2>2, <3>1
    <2>3. CASE rdrv.obs \notin {"published", "staged"}
      BY <2>3 DEF ReceiverStage
    <2> QED  BY <2>1, <2>2, <2>3
  <1> QED  BY <1>1, <1>3, StagedKept DEF BoundaryInv, ClaimInv

-----------------------------------------------------------------------------
(* Every step of the receiver. *)

LEMMA ReceiverMovesClaim ==
    ASSUME TypeOK, BoundaryInv, LifeInv, ClaimInv, GoodStep, ReceiverMoves
    PROVE  ClaimInv'
  <1>1. /\ UNCHANGED src /\ RowGrows /\ RecordStep /\ RecordInv /\ RecordInv' /\ ReceiverInv
        /\ ActiveInv /\ StagedInv
    BY ReceiverMovesFrame DEF srcVars, GoodStep, BoundaryInv, LifeInv, ClaimInv
  <1>2. rcv.step # "none" => rcv'.step # "none"
    BY <1>1, ReceiverMovesWalk
  <1>3. CASE ClaimQuiet /\ UndoWalkStep
    <2>1. ClaimShapeInv' /\ ClaimWriteInv' /\ TakeInv'
      BY <1>1, <1>2, <1>3, QuietClaim
    <2>2. UNCHANGED claim /\ (TakeOver => TakeOver') /\ rcv'.landed = rcv.landed
      BY <1>1, <1>3 DEF ClaimQuiet, TakeKept, StepsEarned, PlacesEarned, TakeOver, RowGrows
    <2>3. rdrv'.pc \in {"undo_return", "undo_check"} => TakeOver'
      BY <1>3, <2>2 DEF ClaimQuiet, TakeKept, StepsEarned, PlacesEarned, ClaimInv, UndoInv
    <2>4. UndoInv'
      BY <1>1, <1>3, <2>2, <2>3, UndoWalkSteps, WalkUndo
    <2>5. StagedInv'
      <3>1. CASE ReceiverStage
        BY <1>1, <3>1, StageStaged DEF GoodStep
      <3>2. CASE ~ReceiverStage
        BY <1>1, <1>3, <3>2, StagedKept DEF ClaimQuiet, TakeKept, StepsEarned, PlacesEarned
      <3> QED  BY <3>1, <3>2
    <2> QED  BY <2>1, <2>4, <2>5 DEF ClaimInv
  <1>4. CASE ReceiverTakeRead
    <2>1. /\ ClaimShapeInv' /\ ClaimWriteInv' /\ TakeInv'
          /\ rcv.step = "staged" /\ rdrv'.pc \in {"idle", "take"}
      BY <1>1, <1>4, TakeReadClaim
    <2>2. rdrv.pc = "take_read" /\ UNCHANGED claim
      BY <1>4 DEF ReceiverTakeRead, shared
    <2>3. ~Undone
      BY <2>2 DEF ClaimInv, UndoInv, Undoing
    <2>4. UndoInv'
      BY <1>1, <1>4, <2>1, <2>2, <2>3, UndoWalkSteps, WalkUndo
      DEF UndoWalkStep, UndoWalk, Parting
    <2>5. StagedInv'
      BY <1>1, <2>1, StagedKept DEF StagedSteps
    <2> QED  BY <2>1, <2>4, <2>5 DEF ClaimInv
  <1>5. CASE ReceiverTake
    <2>1. /\ ClaimShapeInv' /\ ClaimWriteInv' /\ TakeInv'
          /\ rcv'.takeEpoch = rcv.takeEpoch /\ rcv'.step = rcv.step
          /\ rdrv'.pc = "undo_return" => TakeOver'
          /\ rdrv'.pc \in {"undo_return", "idle", "cas_claimed"}
          /\ Undone => UNCHANGED claim \/ rcv'.takeFailed
      BY <1>1, <1>5, TakeClaim
    <2>2. TakeOver => TakeOver' \/ ~Undone
      BY <1>1, <2>1 DEF TakeOver, RowGrows
    <2>5. ~Parting'
      BY <1>1, <1>5, <2>1
      DEF ReceiverTake, Parting, ReceiverInv, PlaceInv, Claiming, Undoing, ReceiverBefore
    <2>3. UndoInv'
      BY <1>1, <1>5, <2>1, <2>2, <2>5, UndoWalkSteps, WalkUndo DEF UndoWalkStep
    <2>4. StagedInv'
      BY <1>1, <2>1, StagedKept
    <2> QED  BY <2>1, <2>3, <2>4 DEF ClaimInv
  <1>6. CASE ReceiverReturnClaim
    <2>1. /\ ClaimShapeInv' /\ ClaimWriteInv' /\ TakeInv' /\ TakeOver'
          /\ rcv' = rcv
          /\ rdrv'.pc \in {"undo_check", "idle"}
          /\ claim.holder # "receiver" => claim'.holder # "receiver"
      BY <1>1, <1>6, ReturnClaim
    <2>2. UNCHANGED claim \/ claim'.holder # "receiver" \/ rcv'.takeFailed \/ ~Undone
      BY <2>1 DEF ClaimInv, UndoInv
    <2>5. ~Parting'
      BY <1>1, <1>6, <2>1
      DEF ReceiverReturnClaim, Parting, ReceiverInv, PlaceInv, Undoing, ReceiverBefore
    <2>3. UndoInv'
      BY <1>1, <1>6, <2>1, <2>2, <2>5, UndoWalkSteps, WalkUndo DEF UndoWalkStep
    <2>4. StagedInv'
      BY <1>1, <2>1, StagedKept
    <2> QED  BY <2>1, <2>3, <2>4 DEF ClaimInv
  <1>7. CASE ReceiverUndoCheck
    <2>1. ClaimShapeInv' /\ ClaimWriteInv' /\ TakeInv' /\ UndoInv' /\ rcv' = rcv
      BY <1>7, UndoCheckUndo
    <2>2. StagedInv'
      BY <1>1, <2>1, StagedKept
    <2> QED  BY <2>1, <2>2 DEF ClaimInv
  <1>8. \/ (ClaimQuietStep \/ ReceiverTick) /\ UndoWalkStep
        \/ ReceiverTakeRead \/ ReceiverTake \/ ReceiverReturnClaim \/ ReceiverUndoCheck
    BY DEF ReceiverMoves, ReceiverLocal, ClaimQuietStep, UndoWalkStep
  <1>9. ClaimQuietStep \/ ReceiverTick => ClaimQuiet
    BY <1>1, ClaimQuietSteps, TickClaimQuiet
  <1> QED  BY <1>3, <1>4, <1>5, <1>6, <1>7, <1>8, <1>9

\* None of them but the takeover speaks to the door.
LEMMA ReceiverMovesDoor ==
    ASSUME TypeOK, BoundaryInv, DoorInv, RowGrows, ReceiverMoves
    PROVE  DoorInv'
  <1> DEFINE Same == UNCHANGED <<door, doorLate>>
  <1>1. ASSUME ReceiverPoll PROVE Same
    BY <1>1 DEF ReceiverPoll, doorVars
  <1>2. ASSUME ReceiverRequestAbort PROVE Same
    BY <1>2 DEF ReceiverRequestAbort, doorVars
  <1>3. ASSUME ReceiverRetryAbort PROVE Same
    BY <1>3 DEF ReceiverRetryAbort, doorVars
  <1>4. ASSUME ReceiverCrash PROVE Same
    BY <1>4 DEF ReceiverCrash, doorVars
  <1>5. ASSUME ReceiverHold PROVE Same
    BY <1>5 DEF ReceiverHold, doorVars
  <1>6. ASSUME ReceiverRefused PROVE Same
    BY <1>6 DEF ReceiverRefused, doorVars
  <1>7. ASSUME ReceiverStopped PROVE Same
    BY <1>7 DEF ReceiverStopped, doorVars
  <1>8. ASSUME ReceiverSettlePending PROVE Same
    BY <1>8 DEF ReceiverSettlePending, doorVars
  <1>9. ASSUME ReceiverChecks PROVE Same
    BY <1>9 DEF ReceiverChecks, doorVars
  <1>10. ASSUME ReceiverImported PROVE Same
    BY <1>10 DEF ReceiverImported, doorVars
  <1>11. ASSUME ReceiverTakeRead PROVE Same
    BY <1>11 DEF ReceiverTakeRead, doorVars
  <1>12. ASSUME ReceiverTake PROVE Same
    BY <1>12 DEF ReceiverTake, doorVars
  <1>13. ASSUME ReceiverFence PROVE Same
    BY <1>13 DEF ReceiverFence, doorVars
  <1>14. ASSUME ReceiverInstall PROVE Same
    BY <1>14 DEF ReceiverInstall, doorVars
  <1>15. ASSUME ReceiverFinish PROVE Same
    BY <1>15 DEF ReceiverFinish, doorVars
  <1>16. ASSUME ReceiverReturnClaim PROVE Same
    BY <1>16 DEF ReceiverReturnClaim, doorVars
  <1>17. ASSUME ReceiverUndoCheck PROVE Same
    BY <1>17 DEF ReceiverUndoCheck, doorVars
  <1>18. ASSUME ReceiverAborted PROVE Same
    BY <1>18 DEF ReceiverAborted, doorVars
  <1>19. ASSUME ReceiverTick PROVE Same
    BY <1>19 DEF ReceiverTick, doorVars
  <1>20. ASSUME ReceiverStage PROVE Same
    BY <1>20 DEF ReceiverStage, doorVars
  <1>21. ASSUME ReceiverCasClaimed PROVE Same
    BY <1>21 DEF ReceiverCasClaimed, doorVars
  <1>22. ASSUME ReceiverCasActivated PROVE Same
    BY <1>22 DEF ReceiverCasActivated, doorVars
  <1>23. ASSUME ReceiverUndoRecord PROVE Same
    BY <1>23 DEF ReceiverUndoRecord, doorVars
  <1>24. ASSUME NEW p \in Participants, ReceiverDiverged(p)
        PROVE  Same
    BY <1>24 DEF ReceiverDiverged, doorVars
  <1>25. ASSUME NEW p \in Participants, ReceiverImport(p)
        PROVE  Same
    BY <1>25 DEF ReceiverImport, doorVars
  <1>26. ASSUME NEW p \in Participants, ReceiverActivate(p)
        PROVE  Same
    BY <1>26 DEF ReceiverActivate, doorVars
  <1>27. ASSUME NEW p \in Participants, ReceiverAbortParticipant(p)
        PROVE  Same
    BY <1>27 DEF ReceiverAbortParticipant, doorVars
  <1>28. Same \/ ReceiverTakeover
    BY <1>1, <1>2, <1>3, <1>4, <1>5, <1>6, <1>7, <1>8, <1>9, <1>10, <1>11,
       <1>12, <1>13, <1>14, <1>15, <1>16, <1>17, <1>18, <1>19, <1>20, <1>21,
       <1>22, <1>23, <1>24, <1>25, <1>26, <1>27
    DEF ReceiverMoves, ReceiverLocal
  <1>29. UNCHANGED <<src, sdrv>>
    BY ReceiverMovesFrame DEF srcVars
  <1>30. ASSUME Same PROVE DoorInv'
    BY <1>29, <1>30 DEF DoorInv, RowGrows
  <1> QED  BY <1>28, <1>30, TakeoverDoor

-----------------------------------------------------------------------------
(* The source and the claim: after admission it only looks at it. *)

ClaimPinned ==
    /\ UNCHANGED <<claim, claimq>>
    /\ src'.claimVer = src.claimVer
    /\ src'.step = "none" <=> src.step = "none"

LEMMA SourceMovesPinned ==
    ASSUME TypeOK, SourcePlaceInv, SourceMoves
    PROVE  ClaimPinned \/ AdmitMove
  <1>1. CASE SourceRequestAbort
    <2>1. UNCHANGED <<claim, claimq>>
      BY <1>1 DEF SourceRequestAbort, shared
    <2>2. src'.claimVer = src.claimVer
      BY <1>1 DEF SourceRequestAbort, TypeOK, SourceRow
    <2>3. src'.step = "none" <=> src.step = "none"
      BY <1>1 DEF SourceRequestAbort, TypeOK, SourceRow, SourcePlaceInv, Releasing, Cleanup, SourceBefore
    <2> QED  BY <2>1, <2>2, <2>3 DEF ClaimPinned
  <1>2. CASE SourceRetryAbort
    <2>1. UNCHANGED <<claim, claimq>>
      BY <1>2 DEF SourceRetryAbort, shared
    <2>2. src'.claimVer = src.claimVer
      BY <1>2 DEF SourceRetryAbort, TypeOK, SourceRow
    <2>3. src'.step = "none" <=> src.step = "none"
      BY <1>2 DEF SourceRetryAbort, TypeOK, SourceRow, SourcePlaceInv, Releasing, Cleanup, SourceBefore
    <2> QED  BY <2>1, <2>2, <2>3 DEF ClaimPinned
  <1>3. CASE SourceCrash
    <2>1. UNCHANGED <<claim, claimq>>
      BY <1>3 DEF SourceCrash, shared
    <2>2. src'.claimVer = src.claimVer
      BY <1>3 DEF SourceCrash, TypeOK, SourceRow
    <2>3. src'.step = "none" <=> src.step = "none"
      BY <1>3 DEF SourceCrash, TypeOK, SourceRow, SourcePlaceInv, Releasing, Cleanup, SourceBefore
    <2> QED  BY <2>1, <2>2, <2>3 DEF ClaimPinned
  <1>4. CASE SourceBusy
    <2>1. UNCHANGED <<claim, claimq>>
      BY <1>4 DEF SourceBusy, shared
    <2>2. src'.claimVer = src.claimVer
      BY <1>4 DEF SourceBusy, TypeOK, SourceRow
    <2>3. src'.step = "none" <=> src.step = "none"
      BY <1>4 DEF SourceBusy, TypeOK, SourceRow, SourcePlaceInv, Releasing, Cleanup, SourceBefore
    <2> QED  BY <2>1, <2>2, <2>3 DEF ClaimPinned
  <1>5. CASE SourceRefused
    <2>1. UNCHANGED <<claim, claimq>>
      BY <1>5 DEF SourceRefused, shared
    <2>2. src'.claimVer = src.claimVer
      BY <1>5 DEF SourceRefused, TypeOK, SourceRow
    <2>3. src'.step = "none" <=> src.step = "none"
      BY <1>5 DEF SourceRefused, TypeOK, SourceRow, SourcePlaceInv, Releasing, Cleanup, SourceBefore
    <2> QED  BY <2>1, <2>2, <2>3 DEF ClaimPinned
  <1>6. CASE SourceViolation
    <2>1. UNCHANGED <<claim, claimq>>
      BY <1>6 DEF SourceViolation, shared
    <2>2. src'.claimVer = src.claimVer
      BY <1>6 DEF SourceViolation, TypeOK, SourceRow
    <2>3. src'.step = "none" <=> src.step = "none"
      BY <1>6 DEF SourceViolation, TypeOK, SourceRow, SourcePlaceInv, Releasing, Cleanup, SourceBefore
    <2> QED  BY <2>1, <2>2, <2>3 DEF ClaimPinned
  <1>7. CASE SourceReseal
    <2>1. UNCHANGED <<claim, claimq>>
      BY <1>7 DEF SourceReseal, shared
    <2>2. src'.claimVer = src.claimVer
      BY <1>7 DEF SourceReseal, TypeOK, SourceRow
    <2>3. src'.step = "none" <=> src.step = "none"
      BY <1>7 DEF SourceReseal, TypeOK, SourceRow, SourcePlaceInv, Releasing, Cleanup, SourceBefore
    <2> QED  BY <2>1, <2>2, <2>3 DEF ClaimPinned
  <1>8. CASE SourceSeal
    <2>1. UNCHANGED <<claim, claimq>>
      BY <1>8 DEF SourceSeal, shared
    <2>2. src'.claimVer = src.claimVer
      BY <1>8 DEF SourceSeal, TypeOK, SourceRow
    <2>3. src'.step = "none" <=> src.step = "none"
      BY <1>8 DEF SourceSeal, TypeOK, SourceRow, SourcePlaceInv, Releasing, Cleanup, SourceBefore
    <2> QED  BY <2>1, <2>2, <2>3 DEF ClaimPinned
  <1>9. CASE SourceAppendInbox
    <2>1. UNCHANGED <<claim, claimq>>
      BY <1>9 DEF SourceAppendInbox, shared
    <2>2. src'.claimVer = src.claimVer
      BY <1>9 DEF SourceAppendInbox, TypeOK, SourceRow
    <2>3. src'.step = "none" <=> src.step = "none"
      BY <1>9 DEF SourceAppendInbox, TypeOK, SourceRow, SourcePlaceInv, Releasing, Cleanup, SourceBefore
    <2> QED  BY <2>1, <2>2, <2>3 DEF ClaimPinned
  <1>10. CASE SourceHandoff
    <2>1. UNCHANGED <<claim, claimq>>
      BY <1>10 DEF SourceHandoff, shared
    <2>2. src'.claimVer = src.claimVer
      BY <1>10 DEF SourceHandoff, TypeOK, SourceRow
    <2>3. src'.step = "none" <=> src.step = "none"
      BY <1>10 DEF SourceHandoff, TypeOK, SourceRow, SourcePlaceInv, Releasing, Cleanup, SourceBefore
    <2> QED  BY <2>1, <2>2, <2>3 DEF ClaimPinned
  <1>11. CASE SourceSettlePending
    <2>1. UNCHANGED <<claim, claimq>>
      BY <1>11 DEF SourceSettlePending, shared
    <2>2. src'.claimVer = src.claimVer
      BY <1>11 DEF SourceSettlePending, TypeOK, SourceRow
    <2>3. src'.step = "none" <=> src.step = "none"
      BY <1>11 DEF SourceSettlePending, TypeOK, SourceRow, SourcePlaceInv, Releasing, Cleanup, SourceBefore
    <2> QED  BY <2>1, <2>2, <2>3 DEF ClaimPinned
  <1>12. CASE SourceAbortDoor
    <2>1. UNCHANGED <<claim, claimq>>
      BY <1>12 DEF SourceAbortDoor, shared
    <2>2. src'.claimVer = src.claimVer
      BY <1>12 DEF SourceAbortDoor, TypeOK, SourceRow
    <2>3. src'.step = "none" <=> src.step = "none"
      BY <1>12 DEF SourceAbortDoor, TypeOK, SourceRow, SourcePlaceInv, Releasing, Cleanup, SourceBefore
    <2> QED  BY <2>1, <2>2, <2>3 DEF ClaimPinned
  <1>13. CASE SourceCloseDoor
    <2>1. UNCHANGED <<claim, claimq>>
      BY <1>13 DEF SourceCloseDoor, shared
    <2>2. src'.claimVer = src.claimVer
      BY <1>13 DEF SourceCloseDoor, TypeOK, SourceRow
    <2>3. src'.step = "none" <=> src.step = "none"
      BY <1>13 DEF SourceCloseDoor, TypeOK, SourceRow, SourcePlaceInv, Releasing, Cleanup, SourceBefore
    <2> QED  BY <2>1, <2>2, <2>3 DEF ClaimPinned
  <1>14. CASE SourcePublish
    <2>1. UNCHANGED <<claim, claimq>>
      BY <1>14 DEF SourcePublish, shared
    <2>2. src'.claimVer = src.claimVer
      BY <1>14 DEF SourcePublish, TypeOK, SourceRow
    <2>3. src'.step = "none" <=> src.step = "none"
      BY <1>14 DEF SourcePublish, TypeOK, SourceRow, SourcePlaceInv, Releasing, Cleanup, SourceBefore
    <2> QED  BY <2>1, <2>2, <2>3 DEF ClaimPinned
  <1>15. CASE SourceCasReleased
    <2>1. UNCHANGED <<claim, claimq>>
      BY <1>15 DEF SourceCasReleased, shared
    <2>2. src'.claimVer = src.claimVer
      BY <1>15 DEF SourceCasReleased, TypeOK, SourceRow
    <2>3. src'.step = "none" <=> src.step = "none"
      BY <1>15 DEF SourceCasReleased, TypeOK, SourceRow, SourcePlaceInv, Releasing, Cleanup, SourceBefore
    <2> QED  BY <2>1, <2>2, <2>3 DEF ClaimPinned
  <1>16. CASE SourceDecide
    <2>1. UNCHANGED <<claim, claimq>>
      BY <1>16 DEF SourceDecide, shared
    <2>2. src'.claimVer = src.claimVer
      BY <1>16 DEF SourceDecide, TypeOK, SourceRow
    <2>3. src'.step = "none" <=> src.step = "none"
      BY <1>16 DEF SourceDecide, TypeOK, SourceRow, SourcePlaceInv, Releasing, Cleanup, SourceBefore
    <2> QED  BY <2>1, <2>2, <2>3 DEF ClaimPinned
  <1>17. ASSUME NEW p \in Participants, SourcePrepare(p)
        PROVE  ClaimPinned
    <2>1. UNCHANGED <<claim, claimq>>
      BY <1>17 DEF SourcePrepare, shared
    <2>2. src'.claimVer = src.claimVer
      BY <1>17 DEF SourcePrepare, TypeOK, SourceRow
    <2>3. src'.step = "none" <=> src.step = "none"
      BY <1>17 DEF SourcePrepare, TypeOK, SourceRow, SourcePlaceInv, Releasing, Cleanup, SourceBefore
    <2> QED  BY <2>1, <2>2, <2>3 DEF ClaimPinned
  <1>18. ASSUME NEW p \in Participants, SourceExport(p)
        PROVE  ClaimPinned
    <2>1. UNCHANGED <<claim, claimq>>
      BY <1>18 DEF SourceExport, shared
    <2>2. src'.claimVer = src.claimVer
      BY <1>18 DEF SourceExport, TypeOK, SourceRow
    <2>3. src'.step = "none" <=> src.step = "none"
      BY <1>18 DEF SourceExport, TypeOK, SourceRow, SourcePlaceInv, Releasing, Cleanup, SourceBefore
    <2> QED  BY <2>1, <2>2, <2>3 DEF ClaimPinned
  <1>19. ASSUME NEW p \in Participants, SourceRelease(p)
        PROVE  ClaimPinned
    <2>1. UNCHANGED <<claim, claimq>>
      BY <1>19 DEF SourceRelease, shared
    <2>2. src'.claimVer = src.claimVer
      BY <1>19 DEF SourceRelease, TypeOK, SourceRow
    <2>3. src'.step = "none" <=> src.step = "none"
      BY <1>19 DEF SourceRelease, TypeOK, SourceRow, SourcePlaceInv, Releasing, Cleanup, SourceBefore
    <2> QED  BY <2>1, <2>2, <2>3 DEF ClaimPinned
  <1>20. ASSUME NEW p \in Participants, SourceAbortParticipant(p)
        PROVE  ClaimPinned
    <2>1. UNCHANGED <<claim, claimq>>
      BY <1>20 DEF SourceAbortParticipant, shared
    <2>2. src'.claimVer = src.claimVer
      BY <1>20 DEF SourceAbortParticipant, TypeOK, SourceRow
    <2>3. src'.step = "none" <=> src.step = "none"
      BY <1>20 DEF SourceAbortParticipant, TypeOK, SourceRow, SourcePlaceInv, Releasing, Cleanup, SourceBefore
    <2> QED  BY <2>1, <2>2, <2>3 DEF ClaimPinned
  <1> QED
    BY <1>1, <1>2, <1>3, <1>4, <1>5, <1>6, <1>7, <1>8, <1>9, <1>10, <1>11,
       <1>12, <1>13, <1>14, <1>15, <1>16, <1>17, <1>18, <1>19, <1>20
    DEF SourceMoves, SourceLocal

LEMMA SourceTickPinned ==
    ASSUME TypeOK, SourcePlaceInv, FreezeInv, SourceTick
    PROVE  ClaimPinned
  <1>1. UNCHANGED <<claim, claimq>>
    BY DEF SourceTick, shared
  <1>2. src'.claimVer = src.claimVer
    <2> DEFINE seen == IF src.step \in {"sealed", "published", "releasing"}
                       THEN rec.state ELSE "none"
    <2>1. src' = SourceObserved(seen) \/ src' = [SourceObserved(seen) EXCEPT !.step = "released"]
      BY DEF SourceTick
    <2> HIDE DEF seen
    <2> QED  BY <2>1 DEF SourceObserved, TypeOK, SourceRow
  <1>3. src'.step = "none" <=> src.step = "none"
    BY SourceTickWalk
  <1> QED  BY <1>1, <1>2, <1>3 DEF ClaimPinned

\* The source's own abort of the record replaces `published`.
SourceAborts ==
    /\ UNCHANGED rec \/ rec'.state # "aborted" \/ (rec'.ver = 2 /\ rec'.author = "source")
    /\ \A c \in recq' : c \in recq \/ c.state # "aborted" \/ c.author = "source"

LEMMA SourceMovesAborts ==
    ASSUME TypeOK, BoundaryInv, SourceMoves \/ SourceTick
    PROVE  SourceAborts
  <1>1. CASE SourceLocal
    BY <1>1, SourceLocalShape DEF SourceAborts
  <1>2. CASE SourcePublish \/ SourceCasReleased
    BY <1>2 DEF SourcePublish, SourceCasReleased, CasLanded, CasMoved, CasUnanswered, SourceAborts
  <1>3. CASE SourceDecide
    <2>1. sdrv.obs = "published" => sdrv.ver = 1
      BY DEF BoundaryInv, SourceInv, Reading, Versions
    <2>2. \/ UNCHANGED <<rec, recq>>
          \/ sdrv.obs = "published" /\ CasLanded(sdrv.ver, "aborted", "source") /\ UNCHANGED recq
          \/ UNCHANGED rec /\ CasUnanswered(sdrv.ver, "aborted", "source")
      BY <1>3 DEF SourceDecide, CasMoved
    <2> QED  BY <2>1, <2>2 DEF CasLanded, CasUnanswered, SourceAborts
  <1>4. CASE SourceTick
    BY <1>4 DEF SourceTick, shared, SourceAborts
  <1> QED  BY <1>1, <1>2, <1>3, <1>4 DEF SourceMoves

\* The claim and the receiver stay as they are.
LEMMA PinnedClaim ==
    ASSUME TypeOK, BoundaryInv, BoundaryInv', ClaimInv, RecordStep, SourceAborts, ClaimPinned,
           UNCHANGED <<rcv, rdrv>>
    PROVE  ClaimInv'
  <1>1. ClaimShapeInv' /\ ClaimWriteInv' /\ TakeInv'
    BY DEF ClaimInv, ClaimPinned, ClaimShapeInv, ClaimWriteInv, TakeInv
  <1>2. UndoInv'
    <2>1. Undone' => Undone
      BY DEF Undone, SourceAborts
    <2>2. (TakeOver' <=> TakeOver) /\ (Parting' <=> Parting)
      BY DEF TakeOver, ClaimPinned, Parting
    <2> QED  BY <2>1, <2>2 DEF ClaimInv, UndoInv, ClaimPinned
  <1>3. StagedInv'
    BY StagedKept DEF BoundaryInv, ClaimInv
  <1> QED  BY <1>1, <1>2, <1>3 DEF ClaimInv

\* Admission pins the claim where it is: nobody has written it for this move.
LEMMA AdmitClaim ==
    ASSUME TypeOK, LifeInv, ClaimInv, AdmitMove
    PROVE  ClaimInv'
  <1>1. /\ src.step = "none" /\ src' = [src EXCEPT !.step = "preparing", !.claimVer = claim.ver]
        /\ claim.epoch >= 1 => claim.holder = "source"
        /\ UNCHANGED <<rec, recq, claim, claimq, rcv, rdrv>>
    BY DEF AdmitMove, shared, SourceFrame, rcvVars
  <1>2. src'.step = "preparing" /\ src'.claimVer = claim.ver
    BY <1>1 DEF TypeOK, SourceRow
  <1>3. rcv.step = "none"
    BY <1>1 DEF LifeInv, ListedInv, Unsealed
  <1>4. rcv.takeEpoch = 0 /\ rcv.landed = 0
    BY <1>3 DEF ClaimInv, TakeInv, TypeOK, ReceiverRow
  <1>5. claimq = {}
    BY <1>4 DEF ClaimInv, ClaimWriteInv
  <1>6. ClaimShapeInv'
    BY <1>1, <1>2 DEF ClaimInv, ClaimShapeInv
  <1>7. ClaimWriteInv' /\ TakeInv'
    BY <1>1, <1>3, <1>4, <1>5 DEF ClaimInv, ClaimWriteInv, TakeInv
  <1>8. UndoInv'
    <2>1. (Undone' <=> Undone) /\ TakeOver' /\ (Parting' <=> Parting)
      BY <1>1, <1>4 DEF Undone, TakeOver, Parting
    <2> QED  BY <1>1, <2>1 DEF ClaimInv, UndoInv
  <1>9. StagedInv'
    BY <1>1 DEF ClaimInv, StagedInv
  <1> QED  BY <1>6, <1>7, <1>8, <1>9 DEF ClaimInv

LEMMA SourceClaim ==
    ASSUME TypeOK, BoundaryInv, LifeInv, ClaimInv, GoodStep, SourceMoves \/ SourceTick
    PROVE  ClaimInv'
  <1>1. UNCHANGED <<rcv, rdrv>>
    BY SourceMovesFrame DEF SourceTick, SourceFrame, rcvVars
  <1>2. ClaimPinned \/ AdmitMove
    BY SourceMovesPinned, SourceTickPinned DEF LifeInv
  <1> QED  BY <1>1, <1>2, SourceMovesAborts, PinnedClaim, AdmitClaim DEF GoodStep

\* Every step of the source keeps what the door knows.
LEMMA SourceDoor ==
    ASSUME TypeOK, BoundaryInv, LifeInv, DoorInv, RowGrows, SourceMoves \/ SourceTick
    PROVE  DoorInv'
  <1>1. CASE DoorQuietStep \/ SourceTick
    BY <1>1, DoorQuietSteps, SourceTickDoor, QuietDoor DEF LifeInv
  <1>2. CASE SourceReseal \/ SourceSeal \/ SourceAbortDoor \/ SourceCloseDoor
    BY <1>2, ResealDoor, SealDoor, AbortDoorDoor, CloseDoorDoor DEF LifeInv
  <1> QED  BY <1>1, <1>2 DEF SourceMoves, SourceLocal, DoorQuietStep

-----------------------------------------------------------------------------
(* Calls that arrive late, the rival and the door. *)

\* A write of the claim that arrives late.
LEMMA DeliverClaimClaim ==
    ASSUME TypeOK, LifeInv, ClaimInv, DeliverClaim
    PROVE  ClaimInv'
  <1> DEFINE V == src.claimVer
  <1>1. PICK c \in claimq :
           /\ claimq' = claimq \ {c}
           /\ claim' = IF claim.ver = c.expect
                       THEN [holder |-> c.holder, epoch |-> c.epoch, ver |-> c.expect + 1]
                       ELSE claim
    BY DEF DeliverClaim
  <1>2. UNCHANGED <<rec, recq, src, rcv, rdrv>>
    BY DEF DeliverClaim, srcVars, rcvVars
  <1>3. /\ V \in Nat /\ claim.ver \in Nat /\ claim.epoch = claim.ver
        /\ rcv.step = "none" => rcv.takeEpoch = 0
        /\ rcv.landed > 0 =>
              rcv.takeEpoch > 0 /\ claim.ver > V /\ claim.holder # "rival"
    BY DEF ClaimInv, ClaimShapeInv, TakeInv, TypeOK, SourceRow, SharedType
  <1>4. \/ c.expect = V /\ c.holder = "receiver" /\ c.epoch = V + 1 /\ rcv.takeEpoch > 0
        \/ /\ c.expect = V + 1 /\ c.holder = "source" /\ c.epoch = V + 2
           /\ rcv.landed > 0 /\ rcv.abort
    BY <1>1 DEF ClaimInv, ClaimWriteInv
  <1>5. src.step # "none" /\ rcv.takeEpoch > 0
    <2>1. rcv.takeEpoch > 0
      BY <1>3, <1>4
    <2> QED  BY <1>3, <2>1, RowIsAdmitted
  <1> HIDE DEF V
  <1>6. \/ UNCHANGED claim
        \/ /\ claim.ver = V /\ claim'.holder = "receiver" /\ claim'.epoch = V + 1
           /\ claim'.ver = V + 1
        \/ /\ claim.ver = V + 1 /\ claim'.holder = "source" /\ claim'.epoch = V + 2
           /\ claim'.ver = V + 2 /\ rcv.landed > 0 /\ rcv.abort
    BY <1>1, <1>3, <1>4
  <1>7. ClaimShapeInv'
    BY <1>2, <1>5, <1>6 DEF ClaimInv, ClaimShapeInv, V
  <1>8. ClaimWriteInv'
    BY <1>1, <1>2 DEF ClaimInv, ClaimWriteInv
  <1>9. TakeInv'
    BY <1>2, <1>3, <1>6 DEF ClaimInv, TakeInv, V
  <1>10. UndoInv'
    <2>1. (Undone' <=> Undone) /\ (Parting' <=> Parting)
      BY <1>2 DEF Undone, Parting
    <2>2. TakeOver => TakeOver' /\ (rcv.takeFailed \/ claim.ver # V)
      BY <1>2, <1>3, <1>5, <1>6 DEF TakeOver, V
    <2>3. claim'.holder = "receiver" => claim.holder = "receiver" \/ claim.ver = V
      BY <1>6
    <2>4. Parting => Undone /\ (claim.ver = V => rcv.landed = 0)
      BY <1>3 DEF Parting, Undone, ClaimInv, TakeInv, V
    <2> QED  BY <1>2, <2>1, <2>2, <2>3, <2>4 DEF ClaimInv, UndoInv
  <1>11. StagedInv'
    BY <1>2 DEF ClaimInv, StagedInv
  <1> QED  BY <1>7, <1>8, <1>9, <1>10, <1>11 DEF ClaimInv

\* Another machine takes the claim while nobody holds it.
LEMMA RivalClaimClaim ==
    ASSUME TypeOK, LifeInv, ClaimInv, RivalClaim
    PROVE  ClaimInv'
  <1>1. /\ claim.epoch = 0
        /\ claim'.holder = "rival" /\ claim'.epoch = 1 /\ claim'.ver = claim.ver + 1
        /\ UNCHANGED <<rec, recq, claimq, src, rcv, rdrv>>
    BY DEF RivalClaim, srcVars, rcvVars
  <1>2. /\ src.claimVer \in Nat /\ claim.ver = 0
        /\ src.step # "none" => src.claimVer = 0
    BY <1>1 DEF ClaimInv, ClaimShapeInv, TypeOK, SourceRow, SharedType
  <1>3. ClaimShapeInv'
    BY <1>1, <1>2 DEF ClaimInv, ClaimShapeInv
  <1>4. ClaimWriteInv' /\ StagedInv'
    BY <1>1 DEF ClaimInv, ClaimWriteInv, StagedInv
  <1>5. ~(rcv.landed > 0)
    BY <1>2 DEF ClaimInv, TakeInv
  <1>6. TakeInv'
    BY <1>1, <1>5 DEF ClaimInv, TakeInv
  <1>7. UndoInv'
    <2>1. (Undone' <=> Undone) /\ (Parting' <=> Parting)
      BY <1>1 DEF Undone, Parting
    <2>2. rcv.takeEpoch = 0 \/ src.claimVer = 0
      BY <1>2, RowIsAdmitted DEF ClaimInv, TakeInv
    <2>3. TakeOver => TakeOver'
      BY <1>1, <1>2, <2>2 DEF TakeOver
    <2> QED  BY <1>1, <2>1, <2>3 DEF ClaimInv, UndoInv
  <1> QED  BY <1>3, <1>4, <1>6, <1>7 DEF ClaimInv

\* A write of the record that arrives late.
LEMMA DeliverRecordClaim ==
    ASSUME TypeOK, BoundaryInv, ClaimInv, GoodStep, DeliverRecord
    PROVE  ClaimInv'
  <1>1. PICK c \in recq :
           /\ recq' = recq \ {c}
           /\ rec' = IF rec.ver = c.expect
                     THEN [state |-> c.state, ver |-> c.expect + 1, author |-> c.author]
                     ELSE rec
    BY DEF DeliverRecord
  <1>2. UNCHANGED <<claim, claimq, src, rcv, rdrv>>
    BY DEF DeliverRecord, srcVars, rcvVars
  <1>3. c.state = "aborted" => c.author = "receiver" \/ c.expect = 1
    BY DEF BoundaryInv, WriteInv, TypeOK, SharedType, RecordWrite, Sides
  <1>4. Undone' => Undone
    BY <1>1, <1>2, <1>3 DEF Undone
  <1>5. (TakeOver' <=> TakeOver) /\ (Parting' <=> Parting)
    BY <1>2 DEF TakeOver, Parting
  <1>6. ClaimShapeInv' /\ ClaimWriteInv' /\ TakeInv'
    BY <1>2 DEF ClaimInv, ClaimShapeInv, ClaimWriteInv, TakeInv
  <1>7. UndoInv'
    BY <1>2, <1>4, <1>5 DEF ClaimInv, UndoInv
  <1>8. StagedInv'
    BY <1>2, StagedKept DEF GoodStep, BoundaryInv, ClaimInv
  <1> QED  BY <1>6, <1>7, <1>8 DEF ClaimInv

LEMMA EnvironmentClaim ==
    ASSUME TypeOK, BoundaryInv, LifeInv, ClaimInv, GoodStep, Environment
    PROVE  ClaimInv'
  <1>1. CASE DeliverInbox \/ DoorStep \/ LatePrepare \/ LateImport
    <2>1. UNCHANGED <<rec, recq, claim, claimq, src, rcv, rdrv>>
      BY <1>1 DEF DeliverInbox, DoorStep, LatePrepare, LateImport, shared, srcVars, rcvVars
    <2>2. (Undone' <=> Undone) /\ (TakeOver' <=> TakeOver) /\ (Parting' <=> Parting)
      BY <2>1 DEF Undone, TakeOver, Parting
    <2>3. UndoInv'
      BY <2>1, <2>2 DEF ClaimInv, UndoInv
    <2> QED  BY <2>1, <2>3 DEF ClaimInv, ClaimShapeInv, ClaimWriteInv, TakeInv, StagedInv
  <1> QED  BY <1>1, DeliverRecordClaim, DeliverClaimClaim, RivalClaimClaim DEF Environment

LEMMA EnvironmentDoor ==
    ASSUME DoorInv, Environment
    PROVE  DoorInv'
  <1>1. CASE DoorStep
    BY <1>1, DoorStepDoor
  <1>2. CASE ~DoorStep
    <2>1. UNCHANGED <<door, doorLate, src, sdrv, rcv>>
      BY <1>2 DEF Environment, DeliverRecord, DeliverClaim, DeliverInbox, RivalClaim,
                  LatePrepare, LateImport, doorVars, srcVars, rcvVars
    <2> QED  BY <2>1 DEF DoorInv
  <1> QED  BY <1>1, <1>2

-----------------------------------------------------------------------------
(* What the receiver holds: the steps that call no participant. *)

Kept == {"imported"} \cup StagedSteps

CleanQuiet ==
    /\ UNCHANGED <<rdata, rlate>>
    /\ /\ rcv'.touched = rcv.touched /\ rcv'.aborted = rcv.aborted
       /\ rcv'.pending = rcv.pending
    /\ rdrv'.pc \in Undoing \ {"undo_settle"} => rdrv.pc \in Undoing
    /\ rdrv'.pc \in Undoing \ {"undo_settle"} => rdrv.pc # "undo_settle"
    /\ rdrv'.pc \in {"writers", "import", "bindings"} =>
           rdrv.pc \in {"writers", "import", "bindings"}
    /\ rdrv'.pc = "diverged" =>
           rdrv'.done = {} \/ (rdrv.pc = "diverged" /\ rdrv'.done = rdrv.done)
    /\ rcv'.step \in Kept => rcv.step \in Kept \/ rdrv.pc = "bindings"
    /\ rdrv'.pc = "undo_inbox" \/ rcv'.step = "aborted" =>
           \/ rdrv.pc = "undo_inbox" \/ rcv.step = "aborted"
           \/ rcv.touched \subseteq rcv.aborted /\ rec'.state = "aborted"

CleanQuietStep ==
    \/ ReceiverPoll \/ ReceiverRequestAbort \/ ReceiverRetryAbort \/ ReceiverCrash
    \/ ReceiverHold \/ ReceiverRefused \/ ReceiverStopped \/ ReceiverChecks
    \/ ReceiverImported \/ ReceiverTakeRead \/ ReceiverTake \/ ReceiverFence
    \/ ReceiverInstall \/ ReceiverFinish \/ ReceiverTakeover \/ ReceiverReturnClaim
    \/ ReceiverUndoCheck \/ ReceiverAborted \/ ReceiverTick \/ ReceiverStage
    \/ ReceiverCasClaimed \/ ReceiverCasActivated \/ ReceiverUndoRecord

LEMMA CleanQuietSteps ==
    ASSUME TypeOK, ReceiverInv, CleanQuietStep
    PROVE  CleanQuiet
  <1>1. CASE ReceiverPoll
    <2>1. UNCHANGED <<rdata, rlate>>
      BY <1>1 DEF ReceiverPoll, rcvData
    <2>2. /\ rcv'.touched = rcv.touched /\ rcv'.aborted = rcv.aborted
          /\ rcv'.pending = rcv.pending
      BY <1>1 DEF ReceiverPoll, TypeOK, ReceiverRow
    <2>3. /\ rdrv'.pc \in Undoing \ {"undo_settle"} => rdrv.pc \in Undoing
          /\ rdrv'.pc \in Undoing \ {"undo_settle"} => rdrv.pc # "undo_settle"
          /\ rdrv'.pc \in {"writers", "import", "bindings"} =>
                rdrv.pc \in {"writers", "import", "bindings"}
          /\ rdrv'.pc = "diverged" =>
                rdrv'.done = {} \/ (rdrv.pc = "diverged" /\ rdrv'.done = rdrv.done)
      BY <1>1
        DEF ReceiverPoll, TypeOK, ReceiverMemory, Undoing, RIdle, RPc
    <2>4. rcv'.step \in Kept => rcv.step \in Kept \/ rdrv.pc = "bindings"
      BY <1>1
        DEF ReceiverPoll, TypeOK, ReceiverRow, Kept, StagedSteps, ReceiverInv,
            PlaceInv, Importing, Claiming, Undoing, ReceiverBefore, Past
    <2>5. rdrv'.pc = "undo_inbox" \/ rcv'.step = "aborted" =>
             \/ rdrv.pc = "undo_inbox" \/ rcv.step = "aborted"
             \/ rcv.touched \subseteq rcv.aborted /\ rec'.state = "aborted"
      BY <1>1
        DEF ReceiverPoll, TypeOK, ReceiverRow, ReceiverMemory, RIdle, RPc
    <2> QED  BY <2>1, <2>2, <2>3, <2>4, <2>5 DEF CleanQuiet
  <1>2. CASE ReceiverRequestAbort
    <2>1. UNCHANGED <<rdata, rlate>>
      BY <1>2 DEF ReceiverRequestAbort, rcvData
    <2>2. /\ rcv'.touched = rcv.touched /\ rcv'.aborted = rcv.aborted
          /\ rcv'.pending = rcv.pending
      BY <1>2 DEF ReceiverRequestAbort, TypeOK, ReceiverRow
    <2>3. /\ rdrv'.pc \in Undoing \ {"undo_settle"} => rdrv.pc \in Undoing
          /\ rdrv'.pc \in Undoing \ {"undo_settle"} => rdrv.pc # "undo_settle"
          /\ rdrv'.pc \in {"writers", "import", "bindings"} =>
                rdrv.pc \in {"writers", "import", "bindings"}
          /\ rdrv'.pc = "diverged" =>
                rdrv'.done = {} \/ (rdrv.pc = "diverged" /\ rdrv'.done = rdrv.done)
      BY <1>2
        DEF ReceiverRequestAbort, TypeOK, ReceiverMemory, Undoing, RIdle, RPc
    <2>4. rcv'.step \in Kept => rcv.step \in Kept \/ rdrv.pc = "bindings"
      BY <1>2
        DEF ReceiverRequestAbort, TypeOK, ReceiverRow, Kept, StagedSteps,
            ReceiverInv, PlaceInv, Importing, Claiming, Undoing,
            ReceiverBefore, Past
    <2>5. rdrv'.pc = "undo_inbox" \/ rcv'.step = "aborted" =>
             \/ rdrv.pc = "undo_inbox" \/ rcv.step = "aborted"
             \/ rcv.touched \subseteq rcv.aborted /\ rec'.state = "aborted"
      BY <1>2
        DEF ReceiverRequestAbort, TypeOK, ReceiverRow, ReceiverMemory, RIdle,
            RPc
    <2> QED  BY <2>1, <2>2, <2>3, <2>4, <2>5 DEF CleanQuiet
  <1>3. CASE ReceiverRetryAbort
    <2>1. UNCHANGED <<rdata, rlate>>
      BY <1>3 DEF ReceiverRetryAbort, rcvData
    <2>2. /\ rcv'.touched = rcv.touched /\ rcv'.aborted = rcv.aborted
          /\ rcv'.pending = rcv.pending
      BY <1>3 DEF ReceiverRetryAbort, TypeOK, ReceiverRow
    <2>3. /\ rdrv'.pc \in Undoing \ {"undo_settle"} => rdrv.pc \in Undoing
          /\ rdrv'.pc \in Undoing \ {"undo_settle"} => rdrv.pc # "undo_settle"
          /\ rdrv'.pc \in {"writers", "import", "bindings"} =>
                rdrv.pc \in {"writers", "import", "bindings"}
          /\ rdrv'.pc = "diverged" =>
                rdrv'.done = {} \/ (rdrv.pc = "diverged" /\ rdrv'.done = rdrv.done)
      BY <1>3
        DEF ReceiverRetryAbort, TypeOK, ReceiverMemory, Undoing, RIdle, RPc
    <2>4. rcv'.step \in Kept => rcv.step \in Kept \/ rdrv.pc = "bindings"
      BY <1>3
        DEF ReceiverRetryAbort, TypeOK, ReceiverRow, Kept, StagedSteps,
            ReceiverInv, PlaceInv, Importing, Claiming, Undoing,
            ReceiverBefore, Past
    <2>5. rdrv'.pc = "undo_inbox" \/ rcv'.step = "aborted" =>
             \/ rdrv.pc = "undo_inbox" \/ rcv.step = "aborted"
             \/ rcv.touched \subseteq rcv.aborted /\ rec'.state = "aborted"
      BY <1>3
        DEF ReceiverRetryAbort, TypeOK, ReceiverRow, ReceiverMemory, RIdle,
            RPc
    <2> QED  BY <2>1, <2>2, <2>3, <2>4, <2>5 DEF CleanQuiet
  <1>4. CASE ReceiverCrash
    <2>1. UNCHANGED <<rdata, rlate>>
      BY <1>4 DEF ReceiverCrash, rcvData
    <2>2. /\ rcv'.touched = rcv.touched /\ rcv'.aborted = rcv.aborted
          /\ rcv'.pending = rcv.pending
      BY <1>4 DEF ReceiverCrash, TypeOK, ReceiverRow
    <2>3. /\ rdrv'.pc \in Undoing \ {"undo_settle"} => rdrv.pc \in Undoing
          /\ rdrv'.pc \in Undoing \ {"undo_settle"} => rdrv.pc # "undo_settle"
          /\ rdrv'.pc \in {"writers", "import", "bindings"} =>
                rdrv.pc \in {"writers", "import", "bindings"}
          /\ rdrv'.pc = "diverged" =>
                rdrv'.done = {} \/ (rdrv.pc = "diverged" /\ rdrv'.done = rdrv.done)
      BY <1>4
        DEF ReceiverCrash, TypeOK, ReceiverMemory, Undoing, RIdle, RPc
    <2>4. rcv'.step \in Kept => rcv.step \in Kept \/ rdrv.pc = "bindings"
      BY <1>4
        DEF ReceiverCrash, TypeOK, ReceiverRow, Kept, StagedSteps,
            ReceiverInv, PlaceInv, Importing, Claiming, Undoing,
            ReceiverBefore, Past
    <2>5. rdrv'.pc = "undo_inbox" \/ rcv'.step = "aborted" =>
             \/ rdrv.pc = "undo_inbox" \/ rcv.step = "aborted"
             \/ rcv.touched \subseteq rcv.aborted /\ rec'.state = "aborted"
      BY <1>4
        DEF ReceiverCrash, TypeOK, ReceiverRow, ReceiverMemory, RIdle, RPc
    <2> QED  BY <2>1, <2>2, <2>3, <2>4, <2>5 DEF CleanQuiet
  <1>5. CASE ReceiverHold
    <2>1. UNCHANGED <<rdata, rlate>>
      BY <1>5 DEF ReceiverHold, rcvData
    <2>2. /\ rcv'.touched = rcv.touched /\ rcv'.aborted = rcv.aborted
          /\ rcv'.pending = rcv.pending
      BY <1>5 DEF ReceiverHold, TypeOK, ReceiverRow
    <2>3. /\ rdrv'.pc \in Undoing \ {"undo_settle"} => rdrv.pc \in Undoing
          /\ rdrv'.pc \in Undoing \ {"undo_settle"} => rdrv.pc # "undo_settle"
          /\ rdrv'.pc \in {"writers", "import", "bindings"} =>
                rdrv.pc \in {"writers", "import", "bindings"}
          /\ rdrv'.pc = "diverged" =>
                rdrv'.done = {} \/ (rdrv.pc = "diverged" /\ rdrv'.done = rdrv.done)
      BY <1>5
        DEF ReceiverHold, TypeOK, ReceiverMemory, Undoing, RIdle, RPc
    <2>4. rcv'.step \in Kept => rcv.step \in Kept \/ rdrv.pc = "bindings"
      BY <1>5
        DEF ReceiverHold, TypeOK, ReceiverRow, Kept, StagedSteps, ReceiverInv,
            PlaceInv, Importing, Claiming, Undoing, ReceiverBefore, Past
    <2>5. rdrv'.pc = "undo_inbox" \/ rcv'.step = "aborted" =>
             \/ rdrv.pc = "undo_inbox" \/ rcv.step = "aborted"
             \/ rcv.touched \subseteq rcv.aborted /\ rec'.state = "aborted"
      BY <1>5
        DEF ReceiverHold, TypeOK, ReceiverRow, ReceiverMemory, RIdle, RPc
    <2> QED  BY <2>1, <2>2, <2>3, <2>4, <2>5 DEF CleanQuiet
  <1>6. CASE ReceiverRefused
    <2>1. UNCHANGED <<rdata, rlate>>
      BY <1>6 DEF ReceiverRefused, rcvData
    <2>2. /\ rcv'.touched = rcv.touched /\ rcv'.aborted = rcv.aborted
          /\ rcv'.pending = rcv.pending
      BY <1>6 DEF ReceiverRefused, TypeOK, ReceiverRow
    <2>3. /\ rdrv'.pc \in Undoing \ {"undo_settle"} => rdrv.pc \in Undoing
          /\ rdrv'.pc \in Undoing \ {"undo_settle"} => rdrv.pc # "undo_settle"
          /\ rdrv'.pc \in {"writers", "import", "bindings"} =>
                rdrv.pc \in {"writers", "import", "bindings"}
          /\ rdrv'.pc = "diverged" =>
                rdrv'.done = {} \/ (rdrv.pc = "diverged" /\ rdrv'.done = rdrv.done)
      BY <1>6
        DEF ReceiverRefused, TypeOK, ReceiverMemory, Undoing, RIdle, RPc
    <2>4. rcv'.step \in Kept => rcv.step \in Kept \/ rdrv.pc = "bindings"
      BY <1>6
        DEF ReceiverRefused, TypeOK, ReceiverRow, Kept, StagedSteps,
            ReceiverInv, PlaceInv, Importing, Claiming, Undoing,
            ReceiverBefore, Past
    <2>5. rdrv'.pc = "undo_inbox" \/ rcv'.step = "aborted" =>
             \/ rdrv.pc = "undo_inbox" \/ rcv.step = "aborted"
             \/ rcv.touched \subseteq rcv.aborted /\ rec'.state = "aborted"
      BY <1>6
        DEF ReceiverRefused, TypeOK, ReceiverRow, ReceiverMemory, RIdle, RPc
    <2> QED  BY <2>1, <2>2, <2>3, <2>4, <2>5 DEF CleanQuiet
  <1>7. CASE ReceiverStopped
    <2>1. UNCHANGED <<rdata, rlate>>
      BY <1>7 DEF ReceiverStopped, rcvData
    <2>2. /\ rcv'.touched = rcv.touched /\ rcv'.aborted = rcv.aborted
          /\ rcv'.pending = rcv.pending
      BY <1>7 DEF ReceiverStopped, TypeOK, ReceiverRow
    <2>3. /\ rdrv'.pc \in Undoing \ {"undo_settle"} => rdrv.pc \in Undoing
          /\ rdrv'.pc \in Undoing \ {"undo_settle"} => rdrv.pc # "undo_settle"
          /\ rdrv'.pc \in {"writers", "import", "bindings"} =>
                rdrv.pc \in {"writers", "import", "bindings"}
          /\ rdrv'.pc = "diverged" =>
                rdrv'.done = {} \/ (rdrv.pc = "diverged" /\ rdrv'.done = rdrv.done)
      BY <1>7
        DEF ReceiverStopped, TypeOK, ReceiverMemory, Undoing, RIdle, RPc
    <2>4. rcv'.step \in Kept => rcv.step \in Kept \/ rdrv.pc = "bindings"
      BY <1>7
        DEF ReceiverStopped, TypeOK, ReceiverRow, Kept, StagedSteps,
            ReceiverInv, PlaceInv, Importing, Claiming, Undoing,
            ReceiverBefore, Past
    <2>5. rdrv'.pc = "undo_inbox" \/ rcv'.step = "aborted" =>
             \/ rdrv.pc = "undo_inbox" \/ rcv.step = "aborted"
             \/ rcv.touched \subseteq rcv.aborted /\ rec'.state = "aborted"
      BY <1>7
        DEF ReceiverStopped, TypeOK, ReceiverRow, ReceiverMemory, RIdle, RPc
    <2> QED  BY <2>1, <2>2, <2>3, <2>4, <2>5 DEF CleanQuiet
  <1>8. CASE ReceiverChecks
    <2>1. UNCHANGED <<rdata, rlate>>
      BY <1>8 DEF ReceiverChecks, rcvData
    <2>2. /\ rcv'.touched = rcv.touched /\ rcv'.aborted = rcv.aborted
          /\ rcv'.pending = rcv.pending
      BY <1>8 DEF ReceiverChecks, TypeOK, ReceiverRow
    <2>3. /\ rdrv'.pc \in Undoing \ {"undo_settle"} => rdrv.pc \in Undoing
          /\ rdrv'.pc \in Undoing \ {"undo_settle"} => rdrv.pc # "undo_settle"
          /\ rdrv'.pc \in {"writers", "import", "bindings"} =>
                rdrv.pc \in {"writers", "import", "bindings"}
          /\ rdrv'.pc = "diverged" =>
                rdrv'.done = {} \/ (rdrv.pc = "diverged" /\ rdrv'.done = rdrv.done)
      BY <1>8
        DEF ReceiverChecks, TakePc, TypeOK, ReceiverMemory, Undoing, RIdle,
            RPc
    <2>4. rcv'.step \in Kept => rcv.step \in Kept \/ rdrv.pc = "bindings"
      BY <1>8
        DEF ReceiverChecks, TypeOK, ReceiverRow, Kept, StagedSteps,
            ReceiverInv, PlaceInv, Importing, Claiming, Undoing,
            ReceiverBefore, Past
    <2>5. rdrv'.pc = "undo_inbox" \/ rcv'.step = "aborted" =>
             \/ rdrv.pc = "undo_inbox" \/ rcv.step = "aborted"
             \/ rcv.touched \subseteq rcv.aborted /\ rec'.state = "aborted"
      BY <1>8
        DEF ReceiverChecks, TakePc, TypeOK, ReceiverRow, ReceiverMemory,
            RIdle, RPc
    <2> QED  BY <2>1, <2>2, <2>3, <2>4, <2>5 DEF CleanQuiet
  <1>9. CASE ReceiverImported
    <2>1. UNCHANGED <<rdata, rlate>>
      BY <1>9 DEF ReceiverImported, rcvData
    <2>2. /\ rcv'.touched = rcv.touched /\ rcv'.aborted = rcv.aborted
          /\ rcv'.pending = rcv.pending
      BY <1>9 DEF ReceiverImported, TypeOK, ReceiverRow
    <2>3. /\ rdrv'.pc \in Undoing \ {"undo_settle"} => rdrv.pc \in Undoing
          /\ rdrv'.pc \in Undoing \ {"undo_settle"} => rdrv.pc # "undo_settle"
          /\ rdrv'.pc \in {"writers", "import", "bindings"} =>
                rdrv.pc \in {"writers", "import", "bindings"}
          /\ rdrv'.pc = "diverged" =>
                rdrv'.done = {} \/ (rdrv.pc = "diverged" /\ rdrv'.done = rdrv.done)
      BY <1>9
        DEF ReceiverImported, TypeOK, ReceiverMemory, Undoing, RIdle, RPc
    <2>4. rcv'.step \in Kept => rcv.step \in Kept \/ rdrv.pc = "bindings"
      BY <1>9
        DEF ReceiverImported, TypeOK, ReceiverRow, Kept, StagedSteps,
            ReceiverInv, PlaceInv, Importing, Claiming, Undoing,
            ReceiverBefore, Past
    <2>5. rdrv'.pc = "undo_inbox" \/ rcv'.step = "aborted" =>
             \/ rdrv.pc = "undo_inbox" \/ rcv.step = "aborted"
             \/ rcv.touched \subseteq rcv.aborted /\ rec'.state = "aborted"
      BY <1>9
        DEF ReceiverImported, TypeOK, ReceiverRow, ReceiverMemory, RIdle, RPc
    <2> QED  BY <2>1, <2>2, <2>3, <2>4, <2>5 DEF CleanQuiet
  <1>10. CASE ReceiverTakeRead
    <2>1. UNCHANGED <<rdata, rlate>>
      BY <1>10 DEF ReceiverTakeRead, rcvData
    <2>2. /\ rcv'.touched = rcv.touched /\ rcv'.aborted = rcv.aborted
          /\ rcv'.pending = rcv.pending
      BY <1>10 DEF ReceiverTakeRead, TypeOK, ReceiverRow
    <2>3. /\ rdrv'.pc \in Undoing \ {"undo_settle"} => rdrv.pc \in Undoing
          /\ rdrv'.pc \in Undoing \ {"undo_settle"} => rdrv.pc # "undo_settle"
          /\ rdrv'.pc \in {"writers", "import", "bindings"} =>
                rdrv.pc \in {"writers", "import", "bindings"}
          /\ rdrv'.pc = "diverged" =>
                rdrv'.done = {} \/ (rdrv.pc = "diverged" /\ rdrv'.done = rdrv.done)
      BY <1>10
        DEF ReceiverTakeRead, TypeOK, ReceiverMemory, Undoing, RIdle, RPc
    <2>4. rcv'.step \in Kept => rcv.step \in Kept \/ rdrv.pc = "bindings"
      BY <1>10
        DEF ReceiverTakeRead, TypeOK, ReceiverRow, Kept, StagedSteps,
            ReceiverInv, PlaceInv, Importing, Claiming, Undoing,
            ReceiverBefore, Past
    <2>5. rdrv'.pc = "undo_inbox" \/ rcv'.step = "aborted" =>
             \/ rdrv.pc = "undo_inbox" \/ rcv.step = "aborted"
             \/ rcv.touched \subseteq rcv.aborted /\ rec'.state = "aborted"
      BY <1>10
        DEF ReceiverTakeRead, TypeOK, ReceiverRow, ReceiverMemory, RIdle, RPc
    <2> QED  BY <2>1, <2>2, <2>3, <2>4, <2>5 DEF CleanQuiet
  <1>11. CASE ReceiverTake
    <2>1. UNCHANGED <<rdata, rlate>>
      BY <1>11 DEF ReceiverTake, rcvData
    <2>2. /\ rcv'.touched = rcv.touched /\ rcv'.aborted = rcv.aborted
          /\ rcv'.pending = rcv.pending
      BY <1>11 DEF ReceiverTake, TypeOK, ReceiverRow
    <2>3. /\ rdrv'.pc \in Undoing \ {"undo_settle"} => rdrv.pc \in Undoing
          /\ rdrv'.pc \in Undoing \ {"undo_settle"} => rdrv.pc # "undo_settle"
          /\ rdrv'.pc \in {"writers", "import", "bindings"} =>
                rdrv.pc \in {"writers", "import", "bindings"}
          /\ rdrv'.pc = "diverged" =>
                rdrv'.done = {} \/ (rdrv.pc = "diverged" /\ rdrv'.done = rdrv.done)
      BY <1>11
        DEF ReceiverTake, TypeOK, ReceiverMemory, Undoing, RIdle, RPc
    <2>4. rcv'.step \in Kept => rcv.step \in Kept \/ rdrv.pc = "bindings"
      BY <1>11
        DEF ReceiverTake, TypeOK, ReceiverRow, Kept, StagedSteps, ReceiverInv,
            PlaceInv, Importing, Claiming, Undoing, ReceiverBefore, Past
    <2>5. rdrv'.pc = "undo_inbox" \/ rcv'.step = "aborted" =>
             \/ rdrv.pc = "undo_inbox" \/ rcv.step = "aborted"
             \/ rcv.touched \subseteq rcv.aborted /\ rec'.state = "aborted"
      BY <1>11
        DEF ReceiverTake, TypeOK, ReceiverRow, ReceiverMemory, RIdle, RPc
    <2> QED  BY <2>1, <2>2, <2>3, <2>4, <2>5 DEF CleanQuiet
  <1>12. CASE ReceiverFence
    <2>1. UNCHANGED <<rdata, rlate>>
      BY <1>12 DEF ReceiverFence, rcvData
    <2>2. /\ rcv'.touched = rcv.touched /\ rcv'.aborted = rcv.aborted
          /\ rcv'.pending = rcv.pending
      BY <1>12 DEF ReceiverFence, TypeOK, ReceiverRow
    <2>3. /\ rdrv'.pc \in Undoing \ {"undo_settle"} => rdrv.pc \in Undoing
          /\ rdrv'.pc \in Undoing \ {"undo_settle"} => rdrv.pc # "undo_settle"
          /\ rdrv'.pc \in {"writers", "import", "bindings"} =>
                rdrv.pc \in {"writers", "import", "bindings"}
          /\ rdrv'.pc = "diverged" =>
                rdrv'.done = {} \/ (rdrv.pc = "diverged" /\ rdrv'.done = rdrv.done)
      BY <1>12
        DEF ReceiverFence, TypeOK, ReceiverMemory, Undoing, RIdle, RPc
    <2>4. rcv'.step \in Kept => rcv.step \in Kept \/ rdrv.pc = "bindings"
      BY <1>12
        DEF ReceiverFence, TypeOK, ReceiverRow, Kept, StagedSteps,
            ReceiverInv, PlaceInv, Importing, Claiming, Undoing,
            ReceiverBefore, Past
    <2>5. rdrv'.pc = "undo_inbox" \/ rcv'.step = "aborted" =>
             \/ rdrv.pc = "undo_inbox" \/ rcv.step = "aborted"
             \/ rcv.touched \subseteq rcv.aborted /\ rec'.state = "aborted"
      BY <1>12
        DEF ReceiverFence, TypeOK, ReceiverRow, ReceiverMemory, RIdle, RPc
    <2> QED  BY <2>1, <2>2, <2>3, <2>4, <2>5 DEF CleanQuiet
  <1>13. CASE ReceiverInstall
    <2>1. UNCHANGED <<rdata, rlate>>
      BY <1>13 DEF ReceiverInstall, rcvData
    <2>2. /\ rcv'.touched = rcv.touched /\ rcv'.aborted = rcv.aborted
          /\ rcv'.pending = rcv.pending
      BY <1>13 DEF ReceiverInstall, TypeOK, ReceiverRow
    <2>3. /\ rdrv'.pc \in Undoing \ {"undo_settle"} => rdrv.pc \in Undoing
          /\ rdrv'.pc \in Undoing \ {"undo_settle"} => rdrv.pc # "undo_settle"
          /\ rdrv'.pc \in {"writers", "import", "bindings"} =>
                rdrv.pc \in {"writers", "import", "bindings"}
          /\ rdrv'.pc = "diverged" =>
                rdrv'.done = {} \/ (rdrv.pc = "diverged" /\ rdrv'.done = rdrv.done)
      BY <1>13
        DEF ReceiverInstall, TypeOK, ReceiverMemory, Undoing, RIdle, RPc
    <2>4. rcv'.step \in Kept => rcv.step \in Kept \/ rdrv.pc = "bindings"
      BY <1>13
        DEF ReceiverInstall, TypeOK, ReceiverRow, Kept, StagedSteps,
            ReceiverInv, PlaceInv, Importing, Claiming, Undoing,
            ReceiverBefore, Past
    <2>5. rdrv'.pc = "undo_inbox" \/ rcv'.step = "aborted" =>
             \/ rdrv.pc = "undo_inbox" \/ rcv.step = "aborted"
             \/ rcv.touched \subseteq rcv.aborted /\ rec'.state = "aborted"
      BY <1>13
        DEF ReceiverInstall, TypeOK, ReceiverRow, ReceiverMemory, RIdle, RPc
    <2> QED  BY <2>1, <2>2, <2>3, <2>4, <2>5 DEF CleanQuiet
  <1>14. CASE ReceiverFinish
    <2>1. UNCHANGED <<rdata, rlate>>
      BY <1>14 DEF ReceiverFinish, rcvData
    <2>2. /\ rcv'.touched = rcv.touched /\ rcv'.aborted = rcv.aborted
          /\ rcv'.pending = rcv.pending
      BY <1>14 DEF ReceiverFinish, TypeOK, ReceiverRow
    <2>3. /\ rdrv'.pc \in Undoing \ {"undo_settle"} => rdrv.pc \in Undoing
          /\ rdrv'.pc \in Undoing \ {"undo_settle"} => rdrv.pc # "undo_settle"
          /\ rdrv'.pc \in {"writers", "import", "bindings"} =>
                rdrv.pc \in {"writers", "import", "bindings"}
          /\ rdrv'.pc = "diverged" =>
                rdrv'.done = {} \/ (rdrv.pc = "diverged" /\ rdrv'.done = rdrv.done)
      BY <1>14
        DEF ReceiverFinish, TypeOK, ReceiverMemory, Undoing, RIdle, RPc
    <2>4. rcv'.step \in Kept => rcv.step \in Kept \/ rdrv.pc = "bindings"
      BY <1>14
        DEF ReceiverFinish, TypeOK, ReceiverRow, Kept, StagedSteps,
            ReceiverInv, PlaceInv, Importing, Claiming, Undoing,
            ReceiverBefore, Past
    <2>5. rdrv'.pc = "undo_inbox" \/ rcv'.step = "aborted" =>
             \/ rdrv.pc = "undo_inbox" \/ rcv.step = "aborted"
             \/ rcv.touched \subseteq rcv.aborted /\ rec'.state = "aborted"
      BY <1>14
        DEF ReceiverFinish, TypeOK, ReceiverRow, ReceiverMemory, RIdle, RPc
    <2> QED  BY <2>1, <2>2, <2>3, <2>4, <2>5 DEF CleanQuiet
  <1>15. CASE ReceiverTakeover
    <2>1. UNCHANGED <<rdata, rlate>>
      BY <1>15 DEF ReceiverTakeover, rcvData
    <2>2. /\ rcv'.touched = rcv.touched /\ rcv'.aborted = rcv.aborted
          /\ rcv'.pending = rcv.pending
      BY <1>15 DEF ReceiverTakeover, TypeOK, ReceiverRow
    <2>3. /\ rdrv'.pc \in Undoing \ {"undo_settle"} => rdrv.pc \in Undoing
          /\ rdrv'.pc \in Undoing \ {"undo_settle"} => rdrv.pc # "undo_settle"
          /\ rdrv'.pc \in {"writers", "import", "bindings"} =>
                rdrv.pc \in {"writers", "import", "bindings"}
          /\ rdrv'.pc = "diverged" =>
                rdrv'.done = {} \/ (rdrv.pc = "diverged" /\ rdrv'.done = rdrv.done)
      BY <1>15
        DEF ReceiverTakeover, TypeOK, ReceiverMemory, Undoing, RIdle, RPc
    <2>4. rcv'.step \in Kept => rcv.step \in Kept \/ rdrv.pc = "bindings"
      BY <1>15
        DEF ReceiverTakeover, TypeOK, ReceiverRow, Kept, StagedSteps,
            ReceiverInv, PlaceInv, Importing, Claiming, Undoing,
            ReceiverBefore, Past
    <2>5. rdrv'.pc = "undo_inbox" \/ rcv'.step = "aborted" =>
             \/ rdrv.pc = "undo_inbox" \/ rcv.step = "aborted"
             \/ rcv.touched \subseteq rcv.aborted /\ rec'.state = "aborted"
      BY <1>15
        DEF ReceiverTakeover, TypeOK, ReceiverRow, ReceiverMemory, RIdle, RPc
    <2> QED  BY <2>1, <2>2, <2>3, <2>4, <2>5 DEF CleanQuiet
  <1>16. CASE ReceiverReturnClaim
    <2>1. UNCHANGED <<rdata, rlate>>
      BY <1>16 DEF ReceiverReturnClaim, rcvData
    <2>2. /\ rcv'.touched = rcv.touched /\ rcv'.aborted = rcv.aborted
          /\ rcv'.pending = rcv.pending
      BY <1>16 DEF ReceiverReturnClaim, TypeOK, ReceiverRow
    <2>3. /\ rdrv'.pc \in Undoing \ {"undo_settle"} => rdrv.pc \in Undoing
          /\ rdrv'.pc \in Undoing \ {"undo_settle"} => rdrv.pc # "undo_settle"
          /\ rdrv'.pc \in {"writers", "import", "bindings"} =>
                rdrv.pc \in {"writers", "import", "bindings"}
          /\ rdrv'.pc = "diverged" =>
                rdrv'.done = {} \/ (rdrv.pc = "diverged" /\ rdrv'.done = rdrv.done)
      BY <1>16
        DEF ReceiverReturnClaim, TypeOK, ReceiverMemory, Undoing, RIdle, RPc
    <2>4. rcv'.step \in Kept => rcv.step \in Kept \/ rdrv.pc = "bindings"
      BY <1>16
        DEF ReceiverReturnClaim, TypeOK, ReceiverRow, Kept, StagedSteps,
            ReceiverInv, PlaceInv, Importing, Claiming, Undoing,
            ReceiverBefore, Past
    <2>5. rdrv'.pc = "undo_inbox" \/ rcv'.step = "aborted" =>
             \/ rdrv.pc = "undo_inbox" \/ rcv.step = "aborted"
             \/ rcv.touched \subseteq rcv.aborted /\ rec'.state = "aborted"
      BY <1>16
        DEF ReceiverReturnClaim, TypeOK, ReceiverRow, ReceiverMemory, RIdle,
            RPc
    <2> QED  BY <2>1, <2>2, <2>3, <2>4, <2>5 DEF CleanQuiet
  <1>17. CASE ReceiverUndoCheck
    <2>1. UNCHANGED <<rdata, rlate>>
      BY <1>17 DEF ReceiverUndoCheck, rcvData
    <2>2. /\ rcv'.touched = rcv.touched /\ rcv'.aborted = rcv.aborted
          /\ rcv'.pending = rcv.pending
      BY <1>17 DEF ReceiverUndoCheck, TypeOK, ReceiverRow
    <2>3. /\ rdrv'.pc \in Undoing \ {"undo_settle"} => rdrv.pc \in Undoing
          /\ rdrv'.pc \in Undoing \ {"undo_settle"} => rdrv.pc # "undo_settle"
          /\ rdrv'.pc \in {"writers", "import", "bindings"} =>
                rdrv.pc \in {"writers", "import", "bindings"}
          /\ rdrv'.pc = "diverged" =>
                rdrv'.done = {} \/ (rdrv.pc = "diverged" /\ rdrv'.done = rdrv.done)
      BY <1>17
        DEF ReceiverUndoCheck, TypeOK, ReceiverMemory, Undoing, RIdle, RPc
    <2>4. rcv'.step \in Kept => rcv.step \in Kept \/ rdrv.pc = "bindings"
      BY <1>17
        DEF ReceiverUndoCheck, TypeOK, ReceiverRow, Kept, StagedSteps,
            ReceiverInv, PlaceInv, Importing, Claiming, Undoing,
            ReceiverBefore, Past
    <2>5. rdrv'.pc = "undo_inbox" \/ rcv'.step = "aborted" =>
             \/ rdrv.pc = "undo_inbox" \/ rcv.step = "aborted"
             \/ rcv.touched \subseteq rcv.aborted /\ rec'.state = "aborted"
      BY <1>17
        DEF ReceiverUndoCheck, TypeOK, ReceiverRow, ReceiverMemory, RIdle, RPc
    <2> QED  BY <2>1, <2>2, <2>3, <2>4, <2>5 DEF CleanQuiet
  <1>18. CASE ReceiverAborted
    <2>1. UNCHANGED <<rdata, rlate>>
      BY <1>18 DEF ReceiverAborted, rcvData
    <2>2. /\ rcv'.touched = rcv.touched /\ rcv'.aborted = rcv.aborted
          /\ rcv'.pending = rcv.pending
      BY <1>18 DEF ReceiverAborted, TypeOK, ReceiverRow
    <2>3. /\ rdrv'.pc \in Undoing \ {"undo_settle"} => rdrv.pc \in Undoing
          /\ rdrv'.pc \in Undoing \ {"undo_settle"} => rdrv.pc # "undo_settle"
          /\ rdrv'.pc \in {"writers", "import", "bindings"} =>
                rdrv.pc \in {"writers", "import", "bindings"}
          /\ rdrv'.pc = "diverged" =>
                rdrv'.done = {} \/ (rdrv.pc = "diverged" /\ rdrv'.done = rdrv.done)
      BY <1>18
        DEF ReceiverAborted, TypeOK, ReceiverMemory, Undoing, RIdle, RPc
    <2>4. rcv'.step \in Kept => rcv.step \in Kept \/ rdrv.pc = "bindings"
      BY <1>18
        DEF ReceiverAborted, TypeOK, ReceiverRow, Kept, StagedSteps,
            ReceiverInv, PlaceInv, Importing, Claiming, Undoing,
            ReceiverBefore, Past
    <2>5. rdrv'.pc = "undo_inbox" \/ rcv'.step = "aborted" =>
             \/ rdrv.pc = "undo_inbox" \/ rcv.step = "aborted"
             \/ rcv.touched \subseteq rcv.aborted /\ rec'.state = "aborted"
      BY <1>18
        DEF ReceiverAborted, TypeOK, ReceiverRow, ReceiverMemory, RIdle, RPc
    <2> QED  BY <2>1, <2>2, <2>3, <2>4, <2>5 DEF CleanQuiet
  <1>19. CASE ReceiverTick
    <2>1. UNCHANGED <<rdata, rlate>>
      BY <1>19 DEF ReceiverTick, rcvData
    <2>2. /\ rcv'.touched = rcv.touched /\ rcv'.aborted = rcv.aborted
          /\ rcv'.pending = rcv.pending
      BY <1>19 DEF ReceiverTick, TypeOK, ReceiverRow
    <2>3. /\ rdrv'.pc \in Undoing \ {"undo_settle"} => rdrv.pc \in Undoing
          /\ rdrv'.pc \in Undoing \ {"undo_settle"} => rdrv.pc # "undo_settle"
          /\ rdrv'.pc \in {"writers", "import", "bindings"} =>
                rdrv.pc \in {"writers", "import", "bindings"}
          /\ rdrv'.pc = "diverged" =>
                rdrv'.done = {} \/ (rdrv.pc = "diverged" /\ rdrv'.done = rdrv.done)
      BY <1>19
        DEF ReceiverTick, ReceiverNextPc, ReceiverAdvancePc, TypeOK,
            ReceiverMemory, Undoing, RIdle, RPc
    <2>4. rcv'.step \in Kept => rcv.step \in Kept \/ rdrv.pc = "bindings"
      BY <1>19
        DEF ReceiverTick, TypeOK, ReceiverRow, Kept, StagedSteps, ReceiverInv,
            PlaceInv, Importing, Claiming, Undoing, ReceiverBefore, Past
    <2>5. rdrv'.pc = "undo_inbox" \/ rcv'.step = "aborted" =>
             \/ rdrv.pc = "undo_inbox" \/ rcv.step = "aborted"
             \/ rcv.touched \subseteq rcv.aborted /\ rec'.state = "aborted"
      BY <1>19
        DEF ReceiverTick, ReceiverNextPc, ReceiverAdvancePc, TypeOK,
            ReceiverRow, ReceiverMemory, RIdle, RPc
    <2> QED  BY <2>1, <2>2, <2>3, <2>4, <2>5 DEF CleanQuiet
  <1>20. CASE ReceiverStage
    <2>1. UNCHANGED <<rdata, rlate>>
      BY <1>20 DEF ReceiverStage, rcvData
    <2>2. /\ rcv'.touched = rcv.touched /\ rcv'.aborted = rcv.aborted
          /\ rcv'.pending = rcv.pending
      BY <1>20 DEF ReceiverStage, ReceiverCas, TypeOK, ReceiverRow
    <2>3. /\ rdrv'.pc \in Undoing \ {"undo_settle"} => rdrv.pc \in Undoing
          /\ rdrv'.pc \in Undoing \ {"undo_settle"} => rdrv.pc # "undo_settle"
          /\ rdrv'.pc \in {"writers", "import", "bindings"} =>
                rdrv.pc \in {"writers", "import", "bindings"}
          /\ rdrv'.pc = "diverged" =>
                rdrv'.done = {} \/ (rdrv.pc = "diverged" /\ rdrv'.done = rdrv.done)
      BY <1>20
        DEF ReceiverStage, ReceiverCas, TypeOK, ReceiverMemory, Undoing,
            RIdle, RPc
    <2>4. rcv'.step \in Kept => rcv.step \in Kept \/ rdrv.pc = "bindings"
      BY <1>20
        DEF ReceiverStage, ReceiverCas, TypeOK, ReceiverRow, Kept,
            StagedSteps, ReceiverInv, PlaceInv, Importing, Claiming, Undoing,
            ReceiverBefore, Past
    <2>5. rdrv'.pc = "undo_inbox" \/ rcv'.step = "aborted" =>
             \/ rdrv.pc = "undo_inbox" \/ rcv.step = "aborted"
             \/ rcv.touched \subseteq rcv.aborted /\ rec'.state = "aborted"
      BY <1>20
        DEF ReceiverStage, ReceiverCas, TypeOK, ReceiverRow, ReceiverMemory,
            RIdle, RPc
    <2> QED  BY <2>1, <2>2, <2>3, <2>4, <2>5 DEF CleanQuiet
  <1>21. CASE ReceiverCasClaimed
    <2>1. UNCHANGED <<rdata, rlate>>
      BY <1>21 DEF ReceiverCasClaimed, rcvData
    <2>2. /\ rcv'.touched = rcv.touched /\ rcv'.aborted = rcv.aborted
          /\ rcv'.pending = rcv.pending
      BY <1>21 DEF ReceiverCasClaimed, ReceiverCas, TypeOK, ReceiverRow
    <2>3. /\ rdrv'.pc \in Undoing \ {"undo_settle"} => rdrv.pc \in Undoing
          /\ rdrv'.pc \in Undoing \ {"undo_settle"} => rdrv.pc # "undo_settle"
          /\ rdrv'.pc \in {"writers", "import", "bindings"} =>
                rdrv.pc \in {"writers", "import", "bindings"}
          /\ rdrv'.pc = "diverged" =>
                rdrv'.done = {} \/ (rdrv.pc = "diverged" /\ rdrv'.done = rdrv.done)
      BY <1>21
        DEF ReceiverCasClaimed, ReceiverCas, TypeOK, ReceiverMemory, Undoing,
            RIdle, RPc
    <2>4. rcv'.step \in Kept => rcv.step \in Kept \/ rdrv.pc = "bindings"
      BY <1>21
        DEF ReceiverCasClaimed, ReceiverCas, TypeOK, ReceiverRow, Kept,
            StagedSteps, ReceiverInv, PlaceInv, Importing, Claiming, Undoing,
            ReceiverBefore, Past
    <2>5. rdrv'.pc = "undo_inbox" \/ rcv'.step = "aborted" =>
             \/ rdrv.pc = "undo_inbox" \/ rcv.step = "aborted"
             \/ rcv.touched \subseteq rcv.aborted /\ rec'.state = "aborted"
      BY <1>21
        DEF ReceiverCasClaimed, ReceiverCas, TypeOK, ReceiverRow,
            ReceiverMemory, RIdle, RPc
    <2> QED  BY <2>1, <2>2, <2>3, <2>4, <2>5 DEF CleanQuiet
  <1>22. CASE ReceiverCasActivated
    <2>1. UNCHANGED <<rdata, rlate>>
      BY <1>22 DEF ReceiverCasActivated, rcvData
    <2>2. /\ rcv'.touched = rcv.touched /\ rcv'.aborted = rcv.aborted
          /\ rcv'.pending = rcv.pending
      BY <1>22 DEF ReceiverCasActivated, ReceiverCas, TypeOK, ReceiverRow
    <2>3. /\ rdrv'.pc \in Undoing \ {"undo_settle"} => rdrv.pc \in Undoing
          /\ rdrv'.pc \in Undoing \ {"undo_settle"} => rdrv.pc # "undo_settle"
          /\ rdrv'.pc \in {"writers", "import", "bindings"} =>
                rdrv.pc \in {"writers", "import", "bindings"}
          /\ rdrv'.pc = "diverged" =>
                rdrv'.done = {} \/ (rdrv.pc = "diverged" /\ rdrv'.done = rdrv.done)
      BY <1>22
        DEF ReceiverCasActivated, ReceiverCas, TypeOK, ReceiverMemory,
            Undoing, RIdle, RPc
    <2>4. rcv'.step \in Kept => rcv.step \in Kept \/ rdrv.pc = "bindings"
      BY <1>22
        DEF ReceiverCasActivated, ReceiverCas, TypeOK, ReceiverRow, Kept,
            StagedSteps, ReceiverInv, PlaceInv, Importing, Claiming, Undoing,
            ReceiverBefore, Past
    <2>5. rdrv'.pc = "undo_inbox" \/ rcv'.step = "aborted" =>
             \/ rdrv.pc = "undo_inbox" \/ rcv.step = "aborted"
             \/ rcv.touched \subseteq rcv.aborted /\ rec'.state = "aborted"
      BY <1>22
        DEF ReceiverCasActivated, ReceiverCas, TypeOK, ReceiverRow,
            ReceiverMemory, RIdle, RPc
    <2> QED  BY <2>1, <2>2, <2>3, <2>4, <2>5 DEF CleanQuiet
  <1>23. CASE ReceiverUndoRecord
    <2>1. UNCHANGED <<rdata, rlate>>
      BY <1>23 DEF ReceiverUndoRecord, rcvData
    <2>2. /\ rcv'.touched = rcv.touched /\ rcv'.aborted = rcv.aborted
          /\ rcv'.pending = rcv.pending
      BY <1>23 DEF ReceiverUndoRecord, TypeOK, ReceiverRow
    <2>3. /\ rdrv'.pc \in Undoing \ {"undo_settle"} => rdrv.pc \in Undoing
          /\ rdrv'.pc \in Undoing \ {"undo_settle"} => rdrv.pc # "undo_settle"
          /\ rdrv'.pc \in {"writers", "import", "bindings"} =>
                rdrv.pc \in {"writers", "import", "bindings"}
          /\ rdrv'.pc = "diverged" =>
                rdrv'.done = {} \/ (rdrv.pc = "diverged" /\ rdrv'.done = rdrv.done)
      BY <1>23
        DEF ReceiverUndoRecord, TypeOK, ReceiverMemory, Undoing, RIdle, RPc
    <2>4. rcv'.step \in Kept => rcv.step \in Kept \/ rdrv.pc = "bindings"
      BY <1>23
        DEF ReceiverUndoRecord, TypeOK, ReceiverRow, Kept, StagedSteps,
            ReceiverInv, PlaceInv, Importing, Claiming, Undoing,
            ReceiverBefore, Past
    <2>5. rdrv'.pc = "undo_inbox" \/ rcv'.step = "aborted" =>
             \/ rdrv.pc = "undo_inbox" \/ rcv.step = "aborted"
             \/ rcv.touched \subseteq rcv.aborted /\ rec'.state = "aborted"
      <3>1. rcv' = rcv /\ rcv.touched \subseteq rcv.aborted
        BY <1>23 DEF ReceiverUndoRecord
      <3>2. \/ rec'.state = "aborted"
            \/ rdrv' = RIdle(rdrv)
        BY <1>23 DEF ReceiverUndoRecord, CasLanded
      <3>3. rdrv' = RIdle(rdrv) => rdrv'.pc = "idle"
        BY DEF TypeOK, ReceiverMemory, RIdle
      <3> QED  BY <3>1, <3>2, <3>3
    <2> QED  BY <2>1, <2>2, <2>3, <2>4, <2>5 DEF CleanQuiet
  <1> QED
    BY <1>1, <1>2, <1>3, <1>4, <1>5, <1>6, <1>7, <1>8, <1>9, <1>10, <1>11,
       <1>12, <1>13, <1>14, <1>15, <1>16, <1>17, <1>18, <1>19, <1>20, <1>21,
       <1>22, <1>23
    DEF CleanQuietStep

LEMMA QuietClean ==
    ASSUME CleanInv, CleanQuiet, RecordStep
    PROVE  CleanInv'
  <1>1. rec.state = "aborted" => rec'.state = "aborted"
    BY RecordOnward
  <1>2. \A p \in Participants :
           /\ rdata'[p] # "none" => p \in rcv'.touched
           /\ p \in rlate' => rcv'.pending = {<<"import", p>>}
           /\ <<"import", p>> \in rcv'.pending =>
                 rcv'.touched = Participants /\ rcv'.aborted = {}
    BY DEF CleanInv, CleanQuiet
  <1>3. /\ \A p \in rcv'.aborted : rdata'[p] = "none"
        /\ rdrv'.pc \in Undoing \ {"undo_settle"} => rcv'.pending = {}
        /\ rdrv'.pc \in {"writers", "import", "bindings"} => rcv'.touched = Participants
        /\ rdrv'.pc = "diverged" => rdrv'.done \subseteq rcv'.touched
        /\ rcv'.step \in {"imported"} \cup StagedSteps => rcv'.touched = Participants
    BY DEF CleanInv, CleanQuiet, Kept
  <1>4. rdrv'.pc = "undo_inbox" \/ rcv'.step = "aborted" =>
           rcv'.touched \subseteq rcv'.aborted /\ rec'.state = "aborted"
    BY <1>1 DEF CleanInv, CleanQuiet
  <1> QED  BY <1>2, <1>3, <1>4 DEF CleanInv

\* Nothing is in flight where the row has no pending import.
LEMMA NothingLate ==
    ASSUME TypeOK, CleanInv,
           \A p \in Participants : <<"import", p>> \notin rcv.pending
    PROVE  rlate = {}
  BY DEF CleanInv, TypeOK, DataType

\* Past the boundary, and wherever a pass is not cleanup, nothing was undone.
LEMMA NothingUndone ==
    ASSUME ClaimInv, ReceiverInv,
           rcv.step \in Past \/ rdrv.pc \notin Undoing \cup {"idle"}
    PROVE  rcv.aborted = {}
  BY DEF ClaimInv, UndoInv, Undone, ReceiverInv, RowInv

-----------------------------------------------------------------------------
(* The steps that call participants. *)

\* settle_pending.
LEMMA SettleClean ==
    ASSUME TypeOK, BoundaryInv, LifeInv, ClaimInv, CleanInv, RecordStep, ReceiverSettlePending
    PROVE  CleanInv'
  <1>1. /\ rdrv.pc \in {"settle", "undo_settle"} /\ UNCHANGED rec
        /\ rcv.step # "aborted"
    BY DEF ReceiverSettlePending, shared, BoundaryInv, ReceiverInv, PlaceInv, Undoing,
           ReceiverBefore
  <1>2. CASE rcv.pending = {} /\ rdrv' = RPc(rdrv, AfterSettle) /\ UNCHANGED <<rcvData, rcv>>
    <2>1. rdrv'.pc \in {"undo_take", "activate", "check"}
      BY <1>2 DEF TypeOK, ReceiverMemory, RPc, AfterSettle
    <2> QED  BY <1>1, <1>2, <2>1 DEF CleanInv, rcvData
  <1>3. ASSUME NEW p \in Participants, NEW op \in {"diverged", "import", "activate", "abort"},
               rcv.pending = {<<op, p>>}, rlate' = rlate \ {p},
               rcv' = [rcv EXCEPT !.abort = TRUE],
               rdrv' = [RIdle(rdrv) EXCEPT !.unres = @ \ {p}], UNCHANGED rdata
        PROVE  CleanInv'
    <2>1. /\ rcv'.pending = rcv.pending /\ rcv'.touched = rcv.touched
          /\ rcv'.aborted = rcv.aborted /\ rcv'.step = rcv.step
      BY <1>3 DEF TypeOK, ReceiverRow
    <2>2. rdrv'.pc = "idle"
      BY <1>3 DEF TypeOK, ReceiverMemory, RIdle
    <2> QED  BY <1>1, <1>3, <2>1, <2>2 DEF CleanInv, Undoing
  <1>4. ASSUME NEW p \in Participants, NEW op \in {"diverged", "import", "activate", "abort"},
               rcv.pending = {<<op, p>>}, rlate' = rlate \ {p},
               rdata' = [rdata EXCEPT ![p] =
                            CASE op = "import" /\ @ = "none" -> "staged"
                              [] op = "activate" -> "active"
                              [] op = "abort" -> "none"
                              [] OTHER -> @],
               rcv' = [rcv EXCEPT !.pending = {},
                          !.aborted = IF op = "abort" THEN @ \cup {p} ELSE @],
               rdrv' = [RPc(rdrv, AfterSettle) EXCEPT !.unres = @ \ {p}]
        PROVE  CleanInv'
    <2>1. /\ rcv'.pending = {} /\ rcv'.touched = rcv.touched /\ rcv'.step = rcv.step
          /\ rcv'.aborted = IF op = "abort" THEN rcv.aborted \cup {p} ELSE rcv.aborted
      BY <1>4 DEF TypeOK, ReceiverRow
    <2>2. rdrv'.pc \in {"undo_take", "activate", "check"}
      BY <1>4 DEF TypeOK, ReceiverMemory, RPc, AfterSettle
    <2>3. \A q \in Participants :
             rdata'[q] = IF q # p THEN rdata[q]
                         ELSE IF op = "import" THEN IF rdata[p] = "none" THEN "staged" ELSE rdata[p]
                         ELSE IF op = "activate" THEN "active"
                         ELSE IF op = "abort" THEN "none" ELSE rdata[p]
      BY <1>4 DEF TypeOK, DataType
    <2>4. rlate' = {}
      <3>1. \A q \in rlate : q \in Participants /\ rcv.pending = {<<"import", q>>}
        BY DEF CleanInv, TypeOK, DataType
      <3>2. \A q \in Participants : {<<op, p>>} = {<<"import", q>>} => q = p
        <4>1. \A q \in Participants : <<op, p>> = <<"import", q>> => q = p
          OBVIOUS
        <4> QED  BY <4>1
      <3>3. \A q \in rlate : q = p
        BY <1>4, <3>1, <3>2
      <3> QED  BY <1>4, <3>3
    <2>5. op = "import" => rcv.touched = Participants /\ rcv.aborted = {}
      BY <1>4 DEF CleanInv
    <2>6. op = "activate" => rcv.step \in Past
      BY <1>4 DEF LifeInv, ActiveInv
    <2>7. op = "activate" => rcv.touched = Participants /\ rcv.aborted = {}
      BY <2>6, NothingUndone DEF CleanInv, StagedSteps, BoundaryInv
    <2>8. \A q \in Participants : rdata'[q] # "none" => q \in rcv'.touched
      BY <2>1, <2>3, <2>5, <2>7 DEF CleanInv
    <2>9. \A q \in rcv'.aborted : rdata'[q] = "none"
      <3>1. rcv.aborted \subseteq Participants
        BY DEF TypeOK, ReceiverRow
      <3> QED  BY <2>1, <2>3, <2>5, <2>7, <3>1 DEF CleanInv
    <2> QED  BY <1>1, <2>1, <2>2, <2>4, <2>8, <2>9 DEF CleanInv
  <1> QED  BY <1>2, <1>3, <1>4 DEF ReceiverSettlePending

\* A check for diverged data marks its participant as called.
LEMMA DivergedClean ==
    ASSUME TypeOK, BoundaryInv, CleanInv, NEW p \in Participants, ReceiverDiverged(p)
    PROVE  CleanInv'
  <1>1. /\ rdrv.pc = "diverged" /\ UNCHANGED <<rec, rdata>>
        /\ rcv.step = "picked_up" /\ rcv.pending = {}
    BY DEF ReceiverDiverged, shared, BoundaryInv, ReceiverInv, PlaceInv, Importing
  <1>2. rlate' = {}
    BY <1>1, NothingLate DEF ReceiverDiverged, Reconciled
  <1>3. /\ rcv'.touched = rcv.touched \cup {p} /\ rcv'.aborted = rcv.aborted
        /\ rcv'.step = rcv.step
        /\ rcv'.pending = {} \/ rcv'.pending = {<<"diverged", p>>}
    BY DEF ReceiverDiverged, TypeOK, ReceiverRow
  <1>4. \/ rdrv'.pc = "idle"
        \/ rdrv'.pc = "writers" /\ rdrv.done \cup {p} = Participants
        \/ rdrv'.pc = "diverged" /\ rdrv'.done = rdrv.done \cup {p}
    BY <1>1 DEF ReceiverDiverged, TypeOK, ReceiverMemory, RPc, RIdle, Answered, Unresolved
  <1>5. \A q \in Participants : <<"import", q>> \notin rcv'.pending
    <2>1. \A q \in Participants : <<"import", q>> # <<"diverged", p>>
      OBVIOUS
    <2> QED  BY <1>3, <2>1
  <1>6. rdrv.done \subseteq rcv.touched /\ rcv.touched \subseteq Participants
    BY <1>1 DEF CleanInv, TypeOK, ReceiverRow
  <1>7. /\ \A q \in Participants : rdata'[q] # "none" => q \in rcv'.touched
        /\ \A q \in rcv'.aborted : rdata'[q] = "none"
    BY <1>1, <1>3 DEF CleanInv
  <1>8. /\ rdrv'.pc = "writers" => rcv'.touched = Participants
        /\ rdrv'.pc = "diverged" => rdrv'.done \subseteq rcv'.touched
    BY <1>3, <1>4, <1>6
  <1> QED  BY <1>1, <1>2, <1>3, <1>4, <1>5, <1>7, <1>8 DEF CleanInv, Undoing, StagedSteps, Past

\* An import is made only when every participant was called and none undone.
LEMMA ImportClean ==
    ASSUME TypeOK, BoundaryInv, ClaimInv, CleanInv, NEW p \in Participants, ReceiverImport(p)
    PROVE  CleanInv'
  <1>1. /\ rdrv.pc = "import" /\ UNCHANGED rec
        /\ rcv.step = "picked_up" /\ rcv.pending = {}
        /\ rcv.touched = Participants
    BY DEF ReceiverImport, shared, BoundaryInv, ReceiverInv, PlaceInv, Importing, CleanInv
  <1>2. rlate = {}
    BY <1>1, NothingLate
  <1>3. rcv.aborted = {}
    BY <1>1, NothingUndone DEF Undoing, BoundaryInv
  <1>4. /\ rcv'.touched = Participants /\ rcv'.aborted = {} /\ rcv'.step = "picked_up"
        /\ \/ rcv'.pending = {} /\ rlate' = {}
           \/ rcv'.pending = {<<"import", p>>} /\ rlate' \subseteq {p}
    BY <1>1, <1>2, <1>3 DEF ReceiverImport, TypeOK, ReceiverRow, rcvData
  <1>5. rdrv'.pc \in {"idle", "import", "bindings"}
    BY <1>1 DEF ReceiverImport, TypeOK, ReceiverMemory, RPc, RIdle, Answered, Unresolved
  <1> QED  BY <1>1, <1>4, <1>5 DEF CleanInv, Undoing, StagedSteps, Past

\* An activation is past the boundary: nothing is in flight and nothing undone.
LEMMA ActivateClean ==
    ASSUME TypeOK, BoundaryInv, ClaimInv, CleanInv, NEW p \in Participants, ReceiverActivate(p)
    PROVE  CleanInv'
  <1>1. rdrv.pc = "activate" /\ UNCHANGED rec /\ rcv.step = "activating"
    BY DEF ReceiverActivate, shared, BoundaryInv, ReceiverInv, PlaceInv
  <1>2. rlate = {}
    BY <1>1, NothingLate DEF BoundaryInv, ReceiverInv, RowInv
  <1>3. rcv.aborted = {} /\ rcv.touched = Participants
    BY <1>1, NothingUndone DEF Past, BoundaryInv, CleanInv, StagedSteps
  <1>4. /\ rcv'.touched = Participants /\ rcv'.aborted = {} /\ rcv'.step = "activating"
        /\ rcv'.pending = {} \/ rcv'.pending = {<<"activate", p>>}
        /\ rlate' = {}
    BY <1>1, <1>2, <1>3 DEF ReceiverActivate, Reconciled, TypeOK, ReceiverRow
  <1>5. rdrv'.pc \in {"idle", "activate", "cas_activated"}
    BY <1>1 DEF ReceiverActivate, TypeOK, ReceiverMemory, RPc, RIdle, Answered, Unresolved
  <1>6. \A q \in Participants : <<"import", q>> \notin rcv'.pending
    <2>1. \A q \in Participants : <<"import", q>> # <<"activate", p>>
      OBVIOUS
    <2> QED  BY <1>4, <2>1
  <1> QED  BY <1>4, <1>5, <1>6 DEF CleanInv, Undoing

\* Cleanup undoes one participant after the other.
LEMMA AbortClean ==
    ASSUME TypeOK, BoundaryInv, CleanInv, NEW p \in Participants, ReceiverAbortParticipant(p)
    PROVE  CleanInv'
  <1>1. /\ rdrv.pc = "undo_parts" /\ UNCHANGED rec /\ rcv.pending = {}
        /\ rcv.step \in ReceiverBefore
    BY DEF ReceiverAbortParticipant, shared, BoundaryInv, ReceiverInv, PlaceInv, Undoing, CleanInv
  <1>2. rlate' = {}
    BY <1>1, NothingLate DEF ReceiverAbortParticipant, Reconciled
  <1>3. \A q \in Participants : rdata'[q] = rdata[q] \/ (q = p /\ rdata'[q] = "none")
    BY DEF ReceiverAbortParticipant, TypeOK, DataType
  <1>4. /\ rcv'.touched = rcv.touched /\ rcv'.step = rcv.step
        /\ \/ /\ rcv'.pending = {} /\ rcv'.aborted = rcv.aborted \cup {p} /\ rdata'[p] = "none"
              /\ rdrv'.pc = "undo_parts"
           \/ /\ rcv'.pending = {<<"abort", p>>} /\ rcv'.aborted = rcv.aborted
              /\ rdrv'.pc = "idle"
    <2>1. CASE /\ rdata' = [rdata EXCEPT ![p] = "none"]
               /\ rcv' = [rcv EXCEPT !.pending = {}, !.aborted = @ \cup {p}]
               /\ rdrv' = [rdrv EXCEPT !.unres = @ \ {p}]
      BY <1>1, <2>1 DEF TypeOK, DataType, ReceiverRow, ReceiverMemory
    <2>2. CASE /\ rcv' = [rcv EXCEPT !.pending = {<<"abort", p>>}]
               /\ \/ rdrv' = RIdle(Unresolved(rdrv, p))
                  \/ rdrv' = [RIdle(rdrv) EXCEPT !.held = TRUE]
      <3>1. rdrv'.pc = "idle"
        BY <2>2 DEF TypeOK, ReceiverMemory, RIdle, Unresolved
      <3> QED  BY <2>2, <3>1 DEF TypeOK, ReceiverRow
    <2> QED  BY <2>1, <2>2 DEF ReceiverAbortParticipant
  <1>5. \A q \in Participants : <<"import", q>> \notin rcv'.pending
    <2>1. \A q \in Participants : <<"import", q>> # <<"abort", p>>
      OBVIOUS
    <2> QED  BY <1>4, <2>1
  <1>6. /\ \A q \in Participants : rdata'[q] # "none" => q \in rcv'.touched
        /\ \A q \in rcv'.aborted : rdata'[q] = "none"
    <2>1. rcv.aborted \subseteq Participants
      BY DEF TypeOK, ReceiverRow
    <2> QED  BY <1>3, <1>4, <2>1 DEF CleanInv
  <1> QED  BY <1>1, <1>2, <1>4, <1>5, <1>6 DEF CleanInv, Undoing, ReceiverBefore

LEMMA ReceiverMovesClean ==
    ASSUME TypeOK, BoundaryInv, LifeInv, ClaimInv, CleanInv, RecordStep, ReceiverMoves
    PROVE  CleanInv'
  <1>1. CASE CleanQuietStep
    BY <1>1, CleanQuietSteps, QuietClean DEF BoundaryInv
  <1> QED  BY <1>1, SettleClean, DivergedClean, ImportClean, ActivateClean, AbortClean
           DEF ReceiverMoves, ReceiverLocal, CleanQuietStep

\* The receiver's data and row, when only the record moves.
LEMMA OthersClean ==
    ASSUME CleanInv, RecordStep, UNCHANGED <<rdata, rlate, rcv, rdrv>>
    PROVE  CleanInv'
  BY RecordOnward DEF CleanInv

\* An import that arrives late.
LEMMA LateImportClean ==
    ASSUME TypeOK, CleanInv, LateImport
    PROVE  CleanInv'
  <1>1. PICK p \in rlate :
           /\ rlate' = rlate \ {p}
           /\ rdata' = [rdata EXCEPT ![p] = IF @ = "none" THEN "staged" ELSE @]
    BY DEF LateImport
  <1>2. UNCHANGED <<rec, rcv, rdrv>> /\ p \in Participants
    BY <1>1 DEF LateImport, shared, rcvVars, TypeOK, DataType
  <1>3. rcv.touched = Participants /\ rcv.aborted = {}
    <2>1. rcv.pending = {<<"import", p>>}
      BY <1>1, <1>2 DEF CleanInv
    <2> QED  BY <1>2, <2>1 DEF CleanInv
  <1> QED  BY <1>1, <1>2, <1>3 DEF CleanInv

-----------------------------------------------------------------------------
(* Together. *)

LEMMA StepAbort ==
    ASSUME TypeOK, BoundaryInv, LifeInv, AbortInv, [Next]_vars
    PROVE  AbortInv'
  <1>1. GoodStep /\ RowGrows /\ RecordStep
    BY EveryStepIsGood DEF GoodStep
  <1>2. CASE UNCHANGED vars
    <2>1. UNCHANGED <<rec, recq, claim, claimq, door, doorLate, rdata, rlate, src, sdrv, rcv, rdrv>>
      BY <1>2 DEF vars
    <2>2. (Undone' <=> Undone) /\ (TakeOver' <=> TakeOver) /\ (Parting' <=> Parting)
      BY <2>1 DEF Undone, TakeOver, Parting
    <2>3. UndoInv'
      BY <2>1, <2>2 DEF AbortInv, ClaimInv, UndoInv
    <2>4. ClaimInv'
      BY <2>1, <2>3 DEF AbortInv, ClaimInv, ClaimShapeInv, ClaimWriteInv, TakeInv, StagedInv
    <2>5. CleanInv'
      BY <1>1, <2>1, OthersClean DEF AbortInv
    <2>6. DoorInv'
      BY <2>1 DEF AbortInv, DoorInv
    <2> QED  BY <2>4, <2>5, <2>6 DEF AbortInv
  <1>3. CASE SourceMoves \/ SourceTick
    <2>1. UNCHANGED <<rdata, rlate, rcv, rdrv>>
      BY <1>3, SourceMovesFrame DEF SourceTick, SourceFrame, rcvData, rcvVars
    <2> QED  BY <1>1, <1>3, <2>1, SourceClaim, SourceDoor, OthersClean DEF AbortInv
  <1>4. CASE ReceiverMoves
    BY <1>1, <1>4, ReceiverMovesClaim, ReceiverMovesClean, ReceiverMovesDoor DEF AbortInv
  <1>5. CASE Environment
    <2>1. CleanInv'
      <3>1. CASE LateImport
        BY <3>1, LateImportClean DEF AbortInv
      <3>2. CASE ~LateImport
        <4>1. UNCHANGED <<rdata, rlate, rcv, rdrv>>
          BY <1>5, <3>2 DEF Environment, DeliverRecord, DeliverClaim, DeliverInbox, RivalClaim,
                            DoorStep, LatePrepare, rcvData, rcvVars
        <4> QED  BY <1>1, <4>1, OthersClean DEF AbortInv
      <3> QED  BY <3>1, <3>2
    <2> QED  BY <1>1, <1>5, <2>1, EnvironmentClaim, EnvironmentDoor DEF AbortInv
  <1> QED  BY <1>2, <1>3, <1>4, <1>5, StepSorts

LEMMA InitAbort == Init => AbortInv
  <1> SUFFICES ASSUME Init PROVE AbortInv
    OBVIOUS
  <1>1. ~Undone /\ ~Parting
    BY DEF Init, Undone, Parting
  <1>2. ClaimInv
    BY <1>1 DEF Init, ClaimInv, ClaimShapeInv, ClaimWriteInv, TakeInv, UndoInv, StagedInv,
                StagedSteps, ClaimedSteps, Past
  <1>3. CleanInv
    BY DEF Init, CleanInv, Undoing, StagedSteps, Past
  <1>4. DoorInv
    BY DEF Init, DoorInv
  <1> QED  BY <1>2, <1>3, <1>4 DEF AbortInv

\* However calls are lost, repeated or late, the claim, the receiver's cleanup
\* and the door stay consistent with the record and with both rows.
THEOREM AbortInvariant == Spec => []AbortInv
  <1>1. TypeOK /\ BoundaryInv /\ LifeInv /\ AbortInv /\ [Next]_vars => AbortInv'
    BY StepAbort
  <1> QED  BY <1>1, InitAbort, TypeCorrect, BoundaryInvariant, LifeInvariant, PTL DEF Spec

\* The receiver runs with the agent's data only under its own claim, a source
\* that has given up never finds the claim at the receiver unless the receiver had
\* settled its take as moved (GivenUp), and one move writes the claim at most twice:
\* also when takes and returns are repeated, arrive late or never, and when another
\* machine claims the agent meanwhile.
THEOREM ClaimWithData == Spec => []ClaimFollowsMove
  <1>1. TypeOK /\ BoundaryInv /\ LifeInv /\ AbortInv => ClaimFollowsMove
    <2> SUFFICES ASSUME TypeOK, BoundaryInv, LifeInv, AbortInv PROVE ClaimFollowsMove
      OBVIOUS
    <2>1. claim.ver \in Nat /\ src.claimVer \in Nat /\ rec.ver \in Nat
      BY DEF TypeOK, SharedType, SourceRow
    <2>2. ASSUME NEW p \in Participants, rdata[p] = "active" PROVE claim.holder = "receiver"
      <3>1. rcv.step \in Past /\ src.step # "none"
        BY <2>2, RowIsAdmitted DEF LifeInv, ActiveInv, Past
      <3>2. rcv.landed > 0 /\ claim.ver > src.claimVer /\ claim.holder # "rival" /\ ~rcv.abort
        BY <3>1 DEF AbortInv, ClaimInv, TakeInv, ClaimedSteps, BoundaryInv, ReceiverInv, RowInv
      <3> QED  BY <2>1, <3>1, <3>2 DEF AbortInv, ClaimInv, ClaimShapeInv
    <2>3. ASSUME src.step = "aborted", claim.holder = "receiver", ~GivenUp PROVE FALSE
      <3>1. rcv.takeEpoch > 0 /\ ~Undone
        BY <2>3 DEF AbortInv, ClaimInv, ClaimShapeInv, UndoInv, GivenUp
      <3>2. Listed
        BY <3>1 DEF AbortInv, ClaimInv, TakeInv, LifeInv, ListedInv
      <3>3. rec.state = "aborted"
        BY <2>3, <3>2 DEF LifeInv, LiveInv, Doomed
      <3>4. rec.ver > 2
        BY <2>1, <3>1, <3>3 DEF AbortInv, ClaimInv, StagedInv
      <3> QED  BY <3>1, <3>3, <3>4 DEF Undone
    <2>4. ClaimMovesOnce
      BY <2>1 DEF ClaimMovesOnce, AbortInv, ClaimInv, ClaimShapeInv
    <2> QED  BY <2>2, <2>3, <2>4 DEF ClaimFollowsMove, ClaimFollowsData, ClaimNeverStranded
  <1> QED  BY <1>1, TypeCorrect, BoundaryInvariant, LifeInvariant, AbortInvariant, PTL

\* A receiver that has finished aborting holds no data of the move and no import in
\* flight; unless its only takes were settled as moved (GivenUp), no claim and no
\* take in flight that could land; and the door keeps no open cut of a move its
\* source has aborted.
THEOREM NothingLeft == Spec => []AbortLeavesNothing
  <1>1. TypeOK /\ AbortInv => AbortLeavesNothing
    <2> SUFFICES ASSUME TypeOK, AbortInv PROVE AbortLeavesNothing
      OBVIOUS
    <2>1. ASSUME rcv.step = "aborted"
          PROVE  /\ rec.state = "aborted"
                 /\ \A p \in Participants : rdata[p] = "none"
                 /\ rlate = {}
                 /\ \/ GivenUp /\ rcv.landed = 0
                    \/ /\ claim.holder # "receiver"
                       /\ \A c \in claimq : c.holder = "receiver" => c.expect # claim.ver
      <3>1. rcv.touched \subseteq rcv.aborted /\ rec.state = "aborted"
        BY <2>1 DEF AbortInv, CleanInv
      <3>2. \A p \in Participants : rdata[p] = "none"
        BY <3>1 DEF AbortInv, CleanInv
      <3>3. rlate = {}
        <4> SUFFICES ASSUME NEW p \in rlate PROVE FALSE
          OBVIOUS
        <4>1. p \in Participants
          BY DEF TypeOK, DataType
        <4>2. rcv.pending = {<<"import", p>>}
          BY <4>1 DEF AbortInv, CleanInv
        <4>3. rcv.touched = Participants /\ rcv.aborted = {}
          BY <4>1, <4>2 DEF AbortInv, CleanInv
        <4> QED  BY <3>1, <4>1, <4>3
      <3>4. TakeOver /\ (claim.holder # "receiver" \/ (rcv.takeFailed /\ rcv.landed = 0))
        BY <2>1 DEF AbortInv, ClaimInv, UndoInv, Undone, Parting
      <3>5. claim.holder # "receiver" \/ (GivenUp /\ rcv.landed = 0)
        BY <3>4 DEF GivenUp, AbortInv, ClaimInv, ClaimShapeInv
      <3>6. ASSUME NEW c \in claimq, c.holder = "receiver", ~(GivenUp /\ rcv.landed = 0)
            PROVE  c.expect # claim.ver
        <4>1. c.expect = src.claimVer /\ rcv.takeEpoch > 0
          BY <3>6 DEF AbortInv, ClaimInv, ClaimWriteInv
        <4>2. rcv.landed > 0 => claim.ver > src.claimVer
          BY DEF AbortInv, ClaimInv, TakeInv
        <4> QED
          BY <3>4, <3>6, <4>1, <4>2
          DEF TakeOver, GivenUp, TypeOK, ReceiverRow, SharedType, SourceRow
      <3> QED  BY <3>1, <3>2, <3>3, <3>5, <3>6
    <2>2. AbortedCutIsClosed
      BY DEF AbortedCutIsClosed, AbortInv, DoorInv
    <2> QED  BY <2>1, <2>2 DEF AbortLeavesNothing, AbortedReceiverIsClean
  <1> QED  BY <1>1, TypeCorrect, AbortInvariant, PTL

=============================================================================
