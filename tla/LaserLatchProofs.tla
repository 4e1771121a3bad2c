------------------------- MODULE LaserLatchProofs -------------------------
(***************************************************************************)
(* Proofs about LaserLatch, for every bound: type correctness, that the    *)
(* record of a lock is true of the hardware, that a lock someone else made *)
(* is kept, that a disarm seals the latch whatever the shipper does, and   *)
(* that the latch is sealed at rest.                                       *)
(***************************************************************************)
EXTENDS LaserLatch, TLAPS

USE LaserLatchAssumption DEF LaserLatchAssumption

\* The disarm past its close: the window is shut in both copies, and once its
\* lock has run no relight decided earlier is still to be written.
DisarmOrder ==
    /\ pc \in {"gate", "lock", "lockFault", "return"} => ~laser_armed /\ ~laser_ok
    /\ (pc \in {"lockFault", "return"} /\ unlocked) => spc # "unlock"

\* What a step leaves alone keeps its type.
LEMMA PartsKept ==
    ASSUME TypeOK
    PROVE  /\ UNCHANGED latchVars => LatchType'
           /\ UNCHANGED windowVars => WindowType'
           /\ UNCHANGED streamVars => StreamType'
           /\ UNCHANGED st => (st \in States)'
           /\ UNCHANGED armVars => ArmType'
           /\ UNCHANGED protoVars => ProtoType'
           /\ UNCHANGED shipVars => ShipType'
  BY DEF TypeOK, LatchType, WindowType, StreamType, ArmType, ProtoType, ShipType,
         latchVars, windowVars, streamVars, armVars, protoVars, shipVars

\* The writer, whoever calls it.
LEMMA LatchWriteType ==
    ASSUME LatchType, NEW lock \in BOOLEAN, NEW ok \in BOOLEAN, LatchWrite(lock, ok)
    PROVE  LatchType'
  <1>1. CASE ~lock /\ ~latch_locked_by_us
    BY <1>1 DEF LatchType, LatchWrite, latchVars
  <1>2. CASE ~(~lock /\ ~latch_locked_by_us) /\ ok
    BY <1>2 DEF LatchType, LatchWrite, WriteTakes
  <1>3. CASE ~(~lock /\ ~latch_locked_by_us) /\ ~ok
    BY <1>3 DEF LatchType, LatchWrite, WriteFails
  <1> QED BY <1>1, <1>2, <1>3

LEMMA LatchFaultType ==
    ASSUME LatchType, StreamType, LatchFault
    PROVE  LatchType' /\ StreamType'
  <1>1. LatchType'
    BY DEF LatchType, LatchFault
  <1>2. StreamType'
    BY DEF StreamType, LatchFault
  <1> QED BY <1>1, <1>2

LEMMA ShipperType == ASSUME TypeOK, Shipper PROVE TypeOK'
  <1>1. CASE RunBegin
    <2>1. ShipType'
      BY <1>1 DEF RunBegin, TypeOK, ShipType, ShipSteps
    <2> QED BY <1>1, <2>1, PartsKept DEF RunBegin, TypeOK
  <1>2. CASE RunUnlockFault
    <2>1. LatchType' /\ StreamType'
      BY <1>2, LatchFaultType DEF RunUnlockFault, TypeOK
    <2>2. ShipType'
      BY <1>2 DEF RunUnlockFault, TypeOK, ShipType, ShipSteps
    <2> QED BY <1>2, <2>1, <2>2, PartsKept DEF RunUnlockFault, TypeOK
  <1>3. CASE RunAnswered
    <2>1. ShipType'
      BY <1>3 DEF RunAnswered, TypeOK, ShipType, ShipSteps
    <2> QED BY <1>3, <2>1, PartsKept DEF RunAnswered, TypeOK
  <1>4. CASE RunRetry
    <2>1. ShipType'
      BY <1>4 DEF RunRetry, TypeOK, ShipType, ShipSteps
    <2> QED BY <1>4, <2>1, PartsKept DEF RunRetry, TypeOK
  <1>5. CASE RunRefused
    <2>1. StreamType'
      BY <1>5 DEF RunRefused, TypeOK, StreamType
    <2>2. ShipType'
      BY <1>5 DEF RunRefused, TypeOK, ShipType, ShipSteps
    <2> QED BY <1>5, <2>1, <2>2, PartsKept DEF RunRefused, TypeOK
  <1>6. CASE StreamFault
    <2>1. StreamType'
      BY <1>6 DEF StreamFault, TypeOK, StreamType
    <2> QED BY <1>6, <2>1, PartsKept DEF StreamFault, TypeOK
  <1>7. CASE StreamEnd
    <2>1. StreamType'
      BY <1>7 DEF StreamEnd, TypeOK, StreamType
    <2> QED BY <1>7, <2>1, PartsKept DEF StreamEnd, TypeOK
  <1>8. ASSUME NEW ok \in BOOLEAN, RunUnlock(ok) PROVE TypeOK'
    <2>1. LatchType'
      BY <1>8, LatchWriteType, PartsKept DEF RunUnlock, TypeOK
    <2>2. ShipType'
      BY <1>8 DEF RunUnlock, TypeOK, ShipType, ShipSteps
    <2> QED BY <1>8, <2>1, <2>2, PartsKept DEF RunUnlock, TypeOK
  <1>9. ASSUME NEW ok \in BOOLEAN, RunRecheck(ok) PROVE TypeOK'
    <2>1. LatchType'
      BY <1>9, LatchWriteType, PartsKept DEF RunRecheck, TypeOK
    <2>2. ShipType'
      BY <1>9 DEF RunRecheck, TypeOK, ShipType, ShipSteps
    <2> QED BY <1>9, <2>1, <2>2, PartsKept DEF RunRecheck, TypeOK
  <1> QED BY <1>1, <1>2, <1>3, <1>4, <1>5, <1>6, <1>7, <1>8, <1>9 DEF Shipper

LEMMA ArmingType == ASSUME TypeOK, Arming PROVE TypeOK'
  <1>1. CASE ArmPress
    <2>1. ArmType'
      BY <1>1 DEF ArmPress, TypeOK, ArmType, Waits
    <2> QED BY <1>1, <2>1, PartsKept DEF ArmPress, TypeOK
  <1>2. CASE RearmPressWaits
    <2>1. ArmType'
      BY <1>2 DEF RearmPressWaits, TypeOK, ArmType, Waits
    <2> QED BY <1>2, <2>1, PartsKept DEF RearmPressWaits, TypeOK
  <1>3. CASE ArmAbort
    <2>1. (st \in States)'
      BY <1>3 DEF ArmAbort, TypeOK, States
    <2>2. ArmType'
      BY <1>3 DEF ArmAbort, TypeOK, ArmType, Waits
    <2>3. ProtoType'
      BY <1>3 DEF ArmAbort, TypeOK, ProtoType, ProtoSteps, Callers
    <2> QED BY <1>3, <2>1, <2>2, <2>3, PartsKept DEF ArmAbort, TypeOK
  <1>4. CASE RearmCancel
    <2>1. (st \in States)'
      BY <1>4 DEF RearmCancel, TypeOK, States
    <2>2. ArmType'
      BY <1>4 DEF RearmCancel, TypeOK, ArmType, Waits
    <2>3. ProtoType'
      BY <1>4 DEF RearmCancel, TypeOK, ProtoType, ProtoSteps, Callers
    <2> QED BY <1>4, <2>1, <2>2, <2>3, PartsKept DEF RearmCancel, TypeOK
  <1>5. CASE FrameRefuse
    <2>1. (st \in States)'
      BY <1>5 DEF FrameRefuse, TypeOK, States
    <2>2. ArmType'
      BY <1>5 DEF FrameRefuse, TypeOK, ArmType, Waits
    <2>3. ProtoType'
      BY <1>5 DEF FrameRefuse, TypeOK, ProtoType, ProtoSteps, Callers
    <2> QED BY <1>5, <2>1, <2>2, <2>3, PartsKept DEF FrameRefuse, TypeOK
  <1>6. CASE EmissionWitness
    <2>1. (st \in States)'
      BY <1>6 DEF EmissionWitness, TypeOK, States
    <2>2. ProtoType'
      BY <1>6 DEF EmissionWitness, TypeOK, ProtoType, ProtoSteps, Callers
    <2> QED BY <1>6, <2>1, <2>2, PartsKept DEF EmissionWitness, TypeOK
  <1>7. CASE RefuseFault
    <2>1. LatchType' /\ StreamType'
      BY <1>7, LatchFaultType DEF RefuseFault, TypeOK
    <2>2. ProtoType'
      BY <1>7 DEF RefuseFault, TypeOK, ProtoType, ProtoSteps, Callers
    <2> QED BY <1>7, <2>1, <2>2, PartsKept DEF RefuseFault, TypeOK
  <1>8. ASSUME NEW ok \in BOOLEAN, ArmUnlock(ok) PROVE TypeOK'
    <2>1. LatchType'
      BY <1>8, LatchWriteType, PartsKept DEF ArmUnlock, TypeOK
    <2>2. (st \in States)'
      BY <1>8 DEF ArmUnlock, TypeOK, States
    <2>3. ArmType'
      BY <1>8 DEF ArmUnlock, TypeOK, ArmType, Waits
    <2> QED BY <1>8, <2>1, <2>2, <2>3, PartsKept DEF ArmUnlock, TypeOK
  <1>9. ASSUME NEW ok \in BOOLEAN, ResumeGate(ok) PROVE TypeOK'
    <2>1. LatchType'
      BY <1>9, LatchWriteType, PartsKept DEF ResumeGate, TypeOK
    <2>2. (st \in States)'
      BY <1>9 DEF ResumeGate, TypeOK, States
    <2>3. ArmType'
      BY <1>9 DEF ResumeGate, TypeOK, ArmType, Waits
    <2> QED BY <1>9, <2>1, <2>2, <2>3, PartsKept DEF ResumeGate, TypeOK
  <1>10. ASSUME NEW ok \in BOOLEAN, RefuseLock(ok) PROVE TypeOK'
    <2>1. LatchType'
      BY <1>10, LatchWriteType, PartsKept DEF RefuseLock, TypeOK
    <2>2. ProtoType'
      BY <1>10 DEF RefuseLock, TypeOK, ProtoType, ProtoSteps, Callers
    <2> QED BY <1>10, <2>1, <2>2, PartsKept DEF RefuseLock, TypeOK
  <1>11. ASSUME NEW verdict \in BOOLEAN, RearmPressAcked(verdict) PROVE TypeOK'
    <2>1. WindowType'
      BY <1>11 DEF RearmPressAcked, TypeOK, WindowType, OpenWindow
    <2>2. ArmType'
      BY <1>11 DEF RearmPressAcked, TypeOK, ArmType, Waits
    <2> QED BY <1>11, <2>1, <2>2, PartsKept DEF RearmPressAcked, TypeOK
  <1>12. ASSUME NEW verdict \in BOOLEAN, FrameOpen(verdict) PROVE TypeOK'
    <2>1. WindowType'
      BY <1>12 DEF FrameOpen, TypeOK, WindowType, OpenWindow
    <2>2. ArmType'
      BY <1>12 DEF FrameOpen, TypeOK, ArmType, Waits
    <2> QED BY <1>12, <2>1, <2>2, PartsKept DEF FrameOpen, TypeOK
  <1>13. ASSUME NEW verdict \in BOOLEAN, FireGatePublish(verdict) PROVE TypeOK'
    <2>1. WindowType'
      BY <1>13 DEF FireGatePublish, TypeOK, WindowType
    <2> QED BY <1>13, <2>1, PartsKept DEF FireGatePublish, TypeOK
  <1> QED BY <1>1, <1>2, <1>3, <1>4, <1>5, <1>6, <1>7, <1>8, <1>9,
             <1>10, <1>11, <1>12, <1>13 DEF Arming

LEMMA DisarmingType == ASSUME TypeOK, Disarming PROVE TypeOK'
  <1>1. CASE DisarmClose
    <2>1. WindowType'
      BY <1>1 DEF DisarmClose, TypeOK, WindowType
    <2>2. ProtoType'
      BY <1>1 DEF DisarmClose, TypeOK, ProtoType, ProtoSteps, Callers
    <2> QED BY <1>1, <2>1, <2>2, PartsKept DEF DisarmClose, TypeOK
  <1>2. CASE DisarmGate
    <2>1. WindowType'
      BY <1>2 DEF DisarmGate, TypeOK, WindowType
    <2>2. ProtoType'
      BY <1>2 DEF DisarmGate, TypeOK, ProtoType, ProtoSteps, Callers
    <2> QED BY <1>2, <2>1, <2>2, PartsKept DEF DisarmGate, TypeOK
  <1>3. CASE DisarmLockFault
    <2>1. LatchType' /\ StreamType'
      BY <1>3, LatchFaultType DEF DisarmLockFault, TypeOK
    <2>2. ProtoType'
      BY <1>3 DEF DisarmLockFault, TypeOK, ProtoType, ProtoSteps, Callers
    <2> QED BY <1>3, <2>1, <2>2, PartsKept DEF DisarmLockFault, TypeOK
  <1>4. CASE DisarmReturn
    <2>1. (st \in States)'
      BY <1>4 DEF DisarmReturn, TypeOK, States
    <2>2. ProtoType'
      BY <1>4 DEF DisarmReturn, TypeOK, ProtoType, ProtoSteps, Callers
    <2> QED BY <1>4, <2>1, <2>2, PartsKept DEF DisarmReturn, TypeOK
  <1>5. CASE StreamReset
    <2>1. LatchType'
      BY <1>5 DEF StreamReset, TypeOK, LatchType
    <2>2. StreamType'
      BY <1>5 DEF StreamReset, TypeOK, StreamType
    <2>3. (st \in States)'
      BY <1>5 DEF StreamReset, TypeOK, States
    <2>4. ArmType'
      BY <1>5 DEF StreamReset, TypeOK, ArmType, Waits
    <2>5. ProtoType'
      BY <1>5 DEF StreamReset, TypeOK, ProtoType, ProtoSteps, Callers
    <2> QED BY <1>5, <2>1, <2>2, <2>3, <2>4, <2>5, PartsKept DEF StreamReset, TypeOK
  <1>6. ASSUME NEW caller \in Callers, DisarmRead(caller) PROVE TypeOK'
    <2>1. StreamType'
      BY <1>6 DEF DisarmRead, TypeOK, StreamType
    <2>2. ProtoType'
      BY <1>6 DEF DisarmRead, TypeOK, ProtoType, ProtoSteps, Callers
    <2> QED BY <1>6, <2>1, <2>2, PartsKept DEF DisarmRead, TypeOK
  <1>7. ASSUME NEW ok \in BOOLEAN, DisarmLock(ok) PROVE TypeOK'
    <2>1. LatchType'
      BY <1>7, LatchWriteType, PartsKept DEF DisarmLock, TypeOK
    <2>2. ProtoType'
      BY <1>7 DEF DisarmLock, TypeOK, ProtoType, ProtoSteps, Callers
    <2> QED BY <1>7, <2>1, <2>2, PartsKept DEF DisarmLock, TypeOK
  <1> QED BY <1>1, <1>2, <1>3, <1>4, <1>5, <1>6, <1>7 DEF Disarming

LEMMA CoreType == ASSUME TypeOK, EngineLock \/ \E to \in States : CoreStep(to) PROVE TypeOK'
  <1>1. CASE EngineLock
    <2>1. LatchType'
      BY <1>1 DEF EngineLock, TypeOK, LatchType
    <2> QED BY <1>1, <2>1, PartsKept DEF EngineLock, TypeOK
  <1>2. ASSUME NEW to \in States, CoreStep(to) PROVE TypeOK'
    <2>1. StreamType'
      BY <1>2 DEF CoreStep, TypeOK, StreamType
    <2>2. (st \in States)'
      BY <1>2 DEF CoreStep, TypeOK, States
    <2> QED BY <1>2, <2>1, <2>2, PartsKept DEF CoreStep, TypeOK
  <1> QED BY <1>1, <1>2

\* The variables keep their types through every step of either thread.
THEOREM TypeCorrect == Spec => []TypeOK
  <1>1. Init => TypeOK
    <2> SUFFICES ASSUME Init PROVE TypeOK
      OBVIOUS
    <2>1. LatchType
      <3>1. latch_locked_by_us \in BOOLEAN /\ latch_fail_reported \in BOOLEAN
        BY Zenon DEF Init
      <3>2. hw \in {"locked", "unlocked"} /\ failedWrites \in 0 .. MaxFailedWrites
        BY DEF Init
      <3> QED BY <3>1, <3>2 DEF LatchType
    <2>2. StreamType /\ WindowType /\ st \in States
      BY Zenon DEF Init, StreamType, WindowType, States
    <2>3. ArmType
      <3>1. waiting \in Waits /\ kind \in {"arm", "rearm"} /\ aborting \in BOOLEAN
        BY Zenon DEF Init, Waits
      <3>2. frames \in 0 .. MaxStuck + 1
        BY DEF Init
      <3> QED BY <3>1, <3>2 DEF ArmType
    <2>4. ProtoType
      <3>1. pc \in ProtoSteps /\ unlocked \in BOOLEAN /\ why \in Callers /\ pc # "refuse"
        BY Zenon DEF Init, ProtoSteps, Callers
      <3>2. locks \in 0 .. 2
        BY DEF Init
      <3> QED BY <3>1, <3>2 DEF ProtoType
    <2>5. ShipType
      BY DEF Init, ShipType, ShipSteps
    <2> QED BY <2>1, <2>2, <2>3, <2>4, <2>5 DEF TypeOK
  <1>2. TypeOK /\ [Next]_vars => TypeOK'
    <2> SUFFICES ASSUME TypeOK, [Next]_vars PROVE TypeOK'
      OBVIOUS
    <2>1. CASE UNCHANGED vars
      BY <2>1, PartsKept DEF vars, TypeOK
    <2> QED BY ShipperType, ArmingType, DisarmingType, CoreType, <2>1 DEF Next
  <1> QED BY <1>1, <1>2, PTL DEF Spec

-----------------------------------------------------------------------------
(* The record and the hardware.                                            *)

\* The steps that write the latch; every other step leaves hardware and
\* record alone.
Writes ==
    \/ \E lock, ok \in BOOLEAN : LatchWrite(lock, ok)
    \/ hw' = "locked" /\ UNCHANGED latch_locked_by_us

LEMMA StepWrites == ASSUME [Next]_vars PROVE Writes \/ UNCHANGED <<hw, latch_locked_by_us>>
  <1>1. CASE Shipper
    BY <1>1 DEF Shipper, Writes, latchVars, LatchFault, RunUnlock, RunRecheck, RunBegin,
                RunUnlockFault, RunAnswered, RunRetry, RunRefused, StreamFault, StreamEnd
  <1>2. CASE Arming
    BY <1>2 DEF Arming, Writes, latchVars, LatchFault, ArmUnlock, ResumeGate, RefuseLock,
                ArmPress, RearmPressWaits, ArmAbort, RearmCancel, FrameRefuse, EmissionWitness,
                RefuseFault, RearmPressAcked, FrameOpen, FireGatePublish
  <1>3. CASE Disarming
    BY <1>3 DEF Disarming, Writes, latchVars, LatchFault,
         DisarmLock, DisarmClose, DisarmGate, DisarmLockFault, DisarmReturn, StreamReset, DisarmRead
  <1>4. CASE EngineLock \/ \E to \in States : CoreStep(to)
    BY <1>4 DEF EngineLock, CoreStep, Writes, latchVars
  <1>5. CASE UNCHANGED vars
    BY <1>5 DEF vars, latchVars
  <1> QED BY <1>1, <1>2, <1>3, <1>4, <1>5 DEF Next

LEMMA WritesSound == ASSUME LatchType, RecordSound, Writes PROVE RecordSound'
  <1>1. ASSUME NEW lock \in BOOLEAN, NEW ok \in BOOLEAN, LatchWrite(lock, ok)
        PROVE  RecordSound'
    <2>1. CASE ~lock /\ ~latch_locked_by_us
      BY <1>1, <2>1 DEF RecordSound, LatchWrite, latchVars
    <2>2. CASE ~(~lock /\ ~latch_locked_by_us) /\ ok
      BY <1>1, <2>2 DEF RecordSound, LatchWrite, WriteTakes
    <2>3. CASE ~(~lock /\ ~latch_locked_by_us) /\ ~ok
      BY <1>1, <2>3 DEF RecordSound, LatchWrite, WriteFails
    <2> QED BY <2>1, <2>2, <2>3
  <1>2. ASSUME hw' = "locked" /\ UNCHANGED latch_locked_by_us PROVE RecordSound'
    BY <1>2 DEF RecordSound
  <1> QED BY <1>1, <1>2 DEF Writes

\* A record of a lock is true of the hardware, whichever writes of either
\* thread failed and whenever the engine locked.
THEOREM RecordIsSound == Spec => []RecordSound
  <1>1. Init => RecordSound
    BY DEF Init, RecordSound
  <1>2. TypeOK /\ RecordSound /\ [Next]_vars => RecordSound'
    BY StepWrites, WritesSound DEF RecordSound, TypeOK
  <1> QED BY <1>1, <1>2, TypeCorrect, PTL DEF Spec

\* No step of either thread undoes a lock the record does not claim.
THEOREM ForeignLockIsKept == Spec => ForeignLockKept
  <1>1. ASSUME LatchType, [Next]_vars, hw = "locked", ~latch_locked_by_us
        PROVE  hw' = "locked"
    <2>1. ASSUME NEW lock \in BOOLEAN, NEW ok \in BOOLEAN, LatchWrite(lock, ok)
          PROVE  hw' = "locked"
      BY <1>1, <2>1 DEF LatchWrite, WriteTakes, WriteFails, latchVars
    <2> QED BY <1>1, <2>1, StepWrites DEF Writes
  <1>2. TypeOK /\ [Next]_vars
          => [hw = "locked" /\ ~latch_locked_by_us => hw' = "locked"]_vars
    BY <1>1 DEF TypeOK
  <1> QED BY <1>2, TypeCorrect, PTL DEF Spec, ForeignLockKept

-----------------------------------------------------------------------------
(* A disarm against a run start.                                           *)

SealInv == DisarmOrder /\ DisarmSeals

\* What the seal depends on.
sealVars == <<pc, unlocked, laser_ok, laser_armed, spc, hw, latch_fail_reported>>

LEMMA SealKept == ASSUME SealInv, UNCHANGED sealVars PROVE SealInv'
  BY DEF SealInv, DisarmOrder, DisarmSeals, sealVars

\* Back in the poll, or in a refusal, nothing is claimed.
LEMMA SealOutside ==
    ASSUME pc' \notin {"gate", "lock", "lockFault", "return"} PROVE SealInv'
  BY DEF SealInv, DisarmOrder, DisarmSeals

\* The shipper: a relight is decided only inside the window, so none is begun
\* once the disarm has closed it, and its other writes only lock.
LEMMA ShipperSeals == ASSUME TypeOK, SealInv, Shipper PROVE SealInv'
  <1>1. CASE RunBegin
    <2>1. pc \in {"gate", "lock", "lockFault", "return"} => spc' = "ask"
      BY <1>1 DEF RunBegin, SealInv, DisarmOrder
    <2> QED BY <1>1, <2>1 DEF RunBegin, SealInv, DisarmOrder, DisarmSeals, latchVars, windowVars,
                              protoVars
  <1>2. ASSUME NEW ok \in BOOLEAN, RunUnlock(ok) PROVE SealInv'
    <2>1. ~(pc \in {"lockFault", "return"} /\ unlocked)
      BY <1>2 DEF RunUnlock, SealInv, DisarmOrder
    <2> QED BY <1>2, <2>1 DEF RunUnlock, SealInv, DisarmOrder, DisarmSeals, windowVars, protoVars
  <1>3. CASE RunUnlockFault
    BY <1>3 DEF RunUnlockFault, LatchFault, SealInv, DisarmOrder, DisarmSeals, windowVars, protoVars
  <1>4. CASE RunAnswered \/ RunRetry \/ RunRefused \/ StreamFault \/ StreamEnd
    BY <1>4 DEF RunAnswered, RunRetry, RunRefused, StreamFault, StreamEnd, SealInv, DisarmOrder,
                DisarmSeals, latchVars, windowVars, protoVars, shipVars
  <1>5. ASSUME NEW ok \in BOOLEAN, RunRecheck(ok) PROVE SealInv'
    <2>1. hw' = "locked" \/ UNCHANGED <<hw, latch_fail_reported>>
      BY <1>5 DEF RunRecheck, LatchWrite, WriteTakes, WriteFails, latchVars
    <2> QED BY <1>5, <2>1 DEF RunRecheck, SealInv, DisarmOrder, DisarmSeals, windowVars, protoVars
  <1> QED BY <1>1, <1>2, <1>3, <1>4, <1>5 DEF Shipper

LEMMA ArmingSeals == ASSUME TypeOK, SealInv, Arming PROVE SealInv'
  <1>1. pc' \notin {"gate", "lock", "lockFault", "return"}
    BY DEF Arming, ArmPress, RearmPressWaits, ArmAbort, RearmCancel, FrameRefuse, EmissionWitness,
           RefuseFault, ArmUnlock, ResumeGate, RefuseLock, RearmPressAcked, FrameOpen,
           FireGatePublish, protoVars
  <1> QED BY <1>1, SealOutside

\* The disarm itself, in its order: read, close, gate, lock, return.
LEMMA DisarmingSeals == ASSUME TypeOK, SealInv, Disarming PROVE SealInv'
  <1>1. ASSUME NEW caller \in Callers, DisarmRead(caller) PROVE SealInv'
    BY <1>1, SealOutside DEF DisarmRead
  <1>2. CASE DisarmClose
    BY <1>2 DEF DisarmClose, SealInv, DisarmOrder, DisarmSeals
  <1>3. CASE DisarmGate
    <2>1. pc' \in {"lockFault", "return"} => ~unlocked'
      BY <1>3 DEF DisarmGate
    <2>2. ~laser_armed' /\ ~laser_ok'
      BY <1>3 DEF DisarmGate, SealInv, DisarmOrder
    <2> QED BY <2>1, <2>2 DEF SealInv, DisarmOrder, DisarmSeals
  <1>4. ASSUME NEW ok \in BOOLEAN, DisarmLock(ok) PROVE SealInv'
    <2>1. spc' # "unlock" /\ ~laser_armed' /\ ~laser_ok'
      BY <1>4 DEF DisarmLock, MutexFree, SealInv, DisarmOrder, windowVars, shipVars
    <2>2. pc' = "return" => hw' = "locked"
      BY <1>4 DEF DisarmLock, LatchWrite, WriteTakes
    <2> QED BY <2>1, <2>2 DEF SealInv, DisarmOrder, DisarmSeals
  <1>5. CASE DisarmLockFault
    <2>1. spc' # "unlock" /\ ~laser_armed' /\ ~laser_ok'
      BY <1>5 DEF DisarmLockFault, MutexFree, SealInv, DisarmOrder, windowVars, shipVars
    <2>2. latch_fail_reported'
      BY <1>5 DEF DisarmLockFault, LatchFault
    <2> QED BY <2>1, <2>2 DEF SealInv, DisarmOrder, DisarmSeals
  <1>6. CASE DisarmReturn \/ StreamReset
    BY <1>6, SealOutside DEF DisarmReturn, StreamReset
  <1> QED BY <1>1, <1>2, <1>3, <1>4, <1>5, <1>6 DEF Disarming

\* What is true at each step of a disarm holds in every reachable state.
LEMMA SealInvariant == Spec => []SealInv
  <1>1. Init => SealInv
    BY DEF Init, SealInv, DisarmOrder, DisarmSeals
  <1>2. TypeOK /\ SealInv /\ [Next]_vars => SealInv'
    <2> SUFFICES ASSUME TypeOK, SealInv, [Next]_vars PROVE SealInv'
      OBVIOUS
    <2>1. CASE EngineLock
      BY <2>1 DEF EngineLock, SealInv, DisarmOrder, DisarmSeals, windowVars, protoVars, shipVars
    <2>2. ASSUME NEW to \in States, CoreStep(to) PROVE SealInv'
      BY <2>2, SealKept DEF CoreStep, sealVars, latchVars, windowVars, protoVars, shipVars
    <2>3. CASE UNCHANGED vars
      BY <2>3, SealKept DEF vars, sealVars, latchVars, windowVars, protoVars, shipVars
    <2> QED BY ShipperSeals, ArmingSeals, DisarmingSeals, <2>1, <2>2, <2>3 DEF Next
  <1> QED BY <1>1, <1>2, TypeCorrect, PTL DEF Spec

\* gflaser_disarm, having found the latch unlocked, returns with it locked or
\* with the failure reported, for every interleaving with issue_run.
THEOREM DisarmIsSealing == Spec => []DisarmSeals
  <1>1. SealInv => DisarmSeals
    BY DEF SealInv
  <1> QED BY <1>1, SealInvariant, PTL

-----------------------------------------------------------------------------
(* The latch at rest.                                                      *)

\* This process has unlocked the latch and has not locked it since.
Opened == ~latch_locked_by_us

Disarms == {"close", "gate", "lock", "lockFault", "return"}
Refusals == {"refuse", "refuseFault"}

\* At most one activation of arm_complete is on its way: since the last arm no
\* re-arm press has had to wait.
SingleArm == kind = "arm" \/ waiting = "arm"

\* The copies of the window agree.  Under a single arm an open window has
\* nothing else arming, and its record says unlocked, or it opened into an
\* alarm, with nothing to ship.
OpenWindows ==
    /\ laser_ok <=> laser_armed
    /\ (SingleArm /\ laser_ok) => /\ pc \in {"poll", "close"} /\ waiting = "none" /\ frames = 0
                                  /\ Opened \/ (st = "alarm" /\ ~stream)

\* A single arm on its way: the latch is still this process's to close, or the
\* arm cannot go on to a window but through an alarm.
Arms ==
    /\ waiting = "rearm" => st # "cycle"
    /\ SingleArm =>
          /\ frames <= 1
          /\ frames > 0 => waiting = "none" /\ ~stream /\ st \in {"idle", "alarm"}
          /\ pc \notin Disarms =>
                /\ (waiting = "arm" \/ frames > 0) => aborting \/ Opened \/ st = "alarm"
                /\ (waiting = "rearm" /\ st = "hold") => Opened
          /\ pc \in Refusals => (waiting = "none" /\ frames = 0) \/ st = "alarm"
          /\ (pc \in Disarms /\ why = "poll") => waiting = "none" /\ frames = 0

\* A run start that relights has something to ship; it is the work of a re-arm
\* that waited, and outlives the window only behind a disarm that has still to
\* lock or has skipped its lock.
Relights ==
    /\ ~MutexFree => stream
    /\ SingleArm => spc # "unlock" /\ (spc \in {"ask", "recheck"} => ~relight)
    /\ (spc = "unlock" /\ ~laser_armed) => ~unlocked \/ pc \in {"gate", "lock"}

\* A report is a fault of the stream; a disarm over an open latch has found it
\* open, or a relight has come behind it and cleared the report; and one that
\* returns over an open latch it has found has reported.
Reports ==
    /\ latch_fail_reported => failed /\ failedWrites > 0
    /\ (pc \in {"lockFault", "refuseFault"} \/ spc = "unlockFault") => failedWrites > 0
    /\ pc \in {"lock", "lockFault"} => unlocked
    /\ (pc \in Disarms /\ Opened /\ ~unlocked) =>
          ~SingleArm /\ ~latch_fail_reported /\ spc # "unlockFault"
    /\ (pc = "return" /\ Opened /\ unlocked) => latch_fail_reported

\* How many writes have failed once the report of an open latch was taken.
Failures ==
    (latch_fail_reported /\ Opened /\ ~fault_flag) =>
        /\ failedWrites > 1 \/ (why = "fault" /\ pc \in {"close", "gate", "lock"})
        /\ (pc = "lockFault" /\ why # "fault") \/ (pc = "return" /\ why = "reset")
             => failedWrites > 2

\* A latch left open has been reported, has failed for good, or was relit behind
\* a disarm that skipped its lock.
OpenAtRest ==
    (pc = "poll" /\ waiting = "none" /\ frames = 0 /\ ~laser_ok /\ Opened) =>
        failed \/ fault_flag \/ failedWrites > 2 \/ LockSkipped

RestInv == OpenWindows /\ Arms /\ Relights /\ Reports /\ Failures /\ OpenAtRest

\* The shipper relights only where a re-arm has waited; behind a single arm it
\* writes nothing, and its faults only raise flags.
LEMMA ShipperRest ==
    ASSUME TypeOK, DisarmOrder, RestInv, Shipper PROVE RestInv'
  <1>1. CASE RunBegin
    BY <1>1 DEF RunBegin, RestInv, OpenWindows, Arms, Relights, Reports, Failures, OpenAtRest,
       Opened, SingleArm, LockSkipped, latchVars, windowVars, streamVars, armVars, protoVars
  <1>2. CASE RunUnlockFault
    <2>1. OpenWindows'
      BY <1>2 DEF RunUnlockFault, LatchFault, RestInv, OpenWindows, Opened, SingleArm,
         windowVars, armVars, protoVars
    <2>2. Arms'
      BY <1>2 DEF RunUnlockFault, LatchFault, RestInv, Arms, Opened, SingleArm, armVars,
         protoVars
    <2>3. Relights'
      BY <1>2 DEF RunUnlockFault, RestInv, Relights, MutexFree
    <2>4. Reports'
      BY <1>2 DEF RunUnlockFault, LatchFault, RestInv, Reports, Opened, protoVars
    <2>5. Failures'
      BY <1>2 DEF RunUnlockFault, LatchFault, RestInv, Failures, Opened, protoVars
    <2>6. OpenAtRest'
      BY <1>2 DEF RunUnlockFault, LatchFault, RestInv, OpenAtRest, Opened, LockSkipped,
         windowVars, armVars, protoVars
    <2> QED BY <2>1, <2>2, <2>3, <2>4, <2>5, <2>6 DEF RestInv
  <1>3. CASE RunAnswered
    BY <1>3 DEF RunAnswered, RestInv, OpenWindows, Arms, Relights, Reports, Failures,
       OpenAtRest, Opened, SingleArm, LockSkipped, MutexFree, latchVars, windowVars, streamVars,
       armVars, protoVars
  <1>4. CASE RunRetry
    BY <1>4 DEF RunRetry, RestInv, OpenWindows, Arms, Relights, Reports, Failures, OpenAtRest,
       Opened, SingleArm, LockSkipped, MutexFree, latchVars, windowVars, streamVars, armVars,
       protoVars
  <1>5. CASE RunRefused
    BY <1>5 DEF RunRefused, RestInv, OpenWindows, Arms, Relights, Reports, Failures, OpenAtRest,
       Opened, Disarms, SingleArm, LockSkipped, DisarmOrder, MutexFree, TypeOK, latchVars,
       windowVars, armVars, protoVars
  <1>6. CASE StreamFault
    BY <1>6 DEF StreamFault, RestInv, OpenWindows, Arms, Relights, Reports, Failures,
       OpenAtRest, Opened, SingleArm, MutexFree, latchVars, windowVars, armVars, protoVars,
       shipVars
  <1>7. CASE StreamEnd
    BY <1>7 DEF StreamEnd, RestInv, OpenWindows, Arms, Relights, Reports, Failures, OpenAtRest,
       Opened, SingleArm, LockSkipped, MutexFree, latchVars, windowVars, armVars, protoVars,
       shipVars
  <1>8. ASSUME NEW ok \in BOOLEAN, RunUnlock(ok) PROVE RestInv'
    BY <1>8 DEF RunUnlock, LatchWrite, WriteTakes, WriteFails, RestInv, OpenWindows, Arms,
       Relights, Reports, Failures, OpenAtRest, Opened, SingleArm, LockSkipped, DisarmOrder,
       MutexFree, TypeOK, LatchType, ArmType, latchVars, windowVars, streamVars, armVars,
       protoVars
  <1>9. ASSUME NEW ok \in BOOLEAN, RunRecheck(ok) PROVE RestInv'
    <2>1. OpenWindows'
      BY <1>9 DEF RunRecheck, RestInv, OpenWindows, Opened, SingleArm, latchVars, windowVars,
         streamVars, armVars, protoVars
    <2>2. Arms'
      BY <1>9 DEF RunRecheck, RestInv, Arms, Relights, Opened, SingleArm, latchVars, streamVars,
         armVars, protoVars
    <2>3. Relights'
      BY <1>9 DEF RunRecheck, RestInv, Relights, MutexFree
    <2>4. Reports'
      BY <1>9 DEF RunRecheck, LatchWrite, WriteTakes, WriteFails, RestInv, Reports, Opened,
         SingleArm, TypeOK, LatchType, latchVars, streamVars, armVars, protoVars
    <2>5. Failures'
      <3>1. CASE relight /\ ~laser_armed /\ ok
        BY <1>9, <3>1 DEF RunRecheck, LatchWrite, WriteTakes, Failures, Opened
      <3>2. CASE ~(relight /\ ~laser_armed)
        BY <1>9, <3>2 DEF RunRecheck, RestInv, Failures, Opened, latchVars, streamVars, protoVars
      <3>3. CASE relight /\ ~laser_armed /\ ~ok
        <4>1. failedWrites' = failedWrites + 1
          BY <1>9, <3>3 DEF RunRecheck, LatchWrite, WriteFails
        <4>2. UNCHANGED <<latch_fail_reported, latch_locked_by_us, fault_flag, why, pc>>
          BY <1>9, <3>3 DEF RunRecheck, LatchWrite, WriteFails, streamVars, protoVars
        <4>3. failedWrites \in Nat
          BY DEF TypeOK, LatchType
        <4> QED BY <4>1, <4>2, <4>3 DEF RestInv, Failures, Opened
      <3> QED BY <3>1, <3>2, <3>3
    <2>6. OpenAtRest'
      BY <1>9 DEF RunRecheck, LatchWrite, WriteTakes, WriteFails, RestInv, OpenAtRest, Opened,
         LockSkipped, TypeOK, LatchType, latchVars, windowVars, streamVars, armVars, protoVars
    <2> QED BY <2>1, <2>2, <2>3, <2>4, <2>5, <2>6 DEF RestInv
  <1> QED BY <1>1, <1>2, <1>3, <1>4, <1>5, <1>6, <1>7, <1>8, <1>9 DEF Shipper

\* An arm unlocks only where it goes on to wait; every way out of it locks, or
\* fails and reports.
LEMMA ArmingRest ==
    ASSUME TypeOK, DisarmOrder, RestInv, Arming PROVE RestInv'
  <1>1. CASE ArmPress
    BY <1>1 DEF ArmPress, TailShipped, RestInv, OpenWindows, Arms, Relights, Reports, Failures,
       OpenAtRest, Opened, SingleArm, MutexFree, latchVars, windowVars, streamVars, protoVars,
       shipVars
  <1>2. CASE RearmPressWaits
    BY <1>2 DEF RearmPressWaits, RestInv, OpenWindows, Arms, Relights, Reports, Failures,
       OpenAtRest, Opened, SingleArm, MutexFree, latchVars, windowVars, streamVars, protoVars,
       shipVars
  <1>3. CASE ArmAbort
    BY <1>3 DEF ArmAbort, RestInv, OpenWindows, Arms, Relights, Reports, Failures, OpenAtRest,
       Opened, Disarms, SingleArm, MutexFree, TypeOK, ArmType, latchVars, windowVars,
       streamVars, shipVars
  <1>4. CASE RearmCancel
    BY <1>4 DEF RearmCancel, RestInv, OpenWindows, Arms, Relights, Reports, Failures,
       OpenAtRest, Opened, Disarms, SingleArm, MutexFree, TypeOK, ArmType, latchVars,
       windowVars, streamVars, shipVars
  <1>5. CASE FrameRefuse
    BY <1>5 DEF FrameRefuse, RestInv, OpenWindows, Arms, Relights, Reports, Failures,
       OpenAtRest, Opened, Disarms, SingleArm, MutexFree, TypeOK, ArmType, latchVars,
       windowVars, streamVars, shipVars
  <1>6. CASE EmissionWitness
    BY <1>6 DEF EmissionWitness, RestInv, OpenWindows, Arms, Relights, Reports, Failures,
       OpenAtRest, Opened, Disarms, SingleArm, MutexFree, latchVars, windowVars, streamVars,
       armVars, shipVars
  <1>7. CASE RefuseFault
    BY <1>7 DEF RefuseFault, LatchFault, RestInv, OpenWindows, Arms, Relights, Reports,
       Failures, OpenAtRest, Opened, Disarms, Refusals, SingleArm, MutexFree, windowVars,
       armVars, shipVars
  <1>8. ASSUME NEW ok \in BOOLEAN, ArmUnlock(ok) PROVE RestInv'
    BY <1>8 DEF ArmUnlock, LatchWrite, WriteTakes, WriteFails, RestInv, OpenWindows, Arms,
       Relights, Reports, Failures, OpenAtRest, Opened, Disarms, Refusals, MutexFree, TypeOK,
       LatchType, latchVars, windowVars, streamVars, protoVars, shipVars
  <1>9. ASSUME NEW ok \in BOOLEAN, ResumeGate(ok) PROVE RestInv'
    BY <1>9 DEF ResumeGate, LatchWrite, WriteTakes, WriteFails, RestInv, OpenWindows, Arms,
       Relights, Reports, Failures, OpenAtRest, Opened, Disarms, Refusals, SingleArm, MutexFree,
       TypeOK, LatchType, latchVars, windowVars, streamVars, protoVars, shipVars
  <1>10. ASSUME NEW ok \in BOOLEAN, RefuseLock(ok) PROVE RestInv'
    <2>1. OpenWindows'
      BY <1>10 DEF RefuseLock, RestInv, OpenWindows, SingleArm, windowVars, armVars
    <2>2. Arms'
      BY <1>10 DEF RefuseLock, RestInv, Arms, Disarms, Refusals, SingleArm, streamVars, armVars
    <2>3. Relights'
      BY <1>10 DEF RefuseLock, RestInv, Relights, MutexFree, shipVars
    <2>4. Reports'
      BY <1>10 DEF RefuseLock, LatchWrite, WriteTakes, WriteFails, RestInv, Reports, Disarms,
         TypeOK, LatchType, streamVars, shipVars
    <2>5. Failures'
      <3>1. CASE ok
        BY <1>10, <3>1 DEF RefuseLock, LatchWrite, WriteTakes, Failures, Opened
      <3>2. CASE ~ok
        <4>1. failedWrites' = failedWrites + 1 /\ pc' = "refuseFault" /\ pc = "refuse"
          BY <1>10, <3>2 DEF RefuseLock, LatchWrite, WriteFails
        <4>2. UNCHANGED <<latch_fail_reported, latch_locked_by_us, fault_flag, why>>
          BY <1>10, <3>2 DEF RefuseLock, LatchWrite, WriteFails, streamVars
        <4>3. failedWrites \in Nat
          BY DEF TypeOK, LatchType
        <4> QED BY <4>1, <4>2, <4>3 DEF RestInv, Failures, Opened
      <3> QED BY <3>1, <3>2
    <2>6. OpenAtRest'
      BY <1>10 DEF RefuseLock, LatchWrite, WriteTakes, RestInv, OpenAtRest, Opened
    <2> QED BY <2>1, <2>2, <2>3, <2>4, <2>5, <2>6 DEF RestInv
  <1>11. ASSUME NEW verdict \in BOOLEAN, RearmPressAcked(verdict) PROVE RestInv'
    BY <1>11 DEF RearmPressAcked, OpenWindow, RestInv, OpenWindows, Arms, Relights, Reports,
       Failures, OpenAtRest, Opened, Disarms, SingleArm, MutexFree, TypeOK, ArmType, latchVars,
       streamVars, protoVars, shipVars
  <1>12. ASSUME NEW verdict \in BOOLEAN, FrameOpen(verdict) PROVE RestInv'
    BY <1>12 DEF FrameOpen, OpenWindow, RestInv, OpenWindows, Arms, Relights, Reports, Failures,
       OpenAtRest, Opened, Disarms, SingleArm, MutexFree, TypeOK, ArmType, latchVars,
       streamVars, protoVars, shipVars
  <1>13. ASSUME NEW verdict \in BOOLEAN, FireGatePublish(verdict) PROVE RestInv'
    BY <1>13 DEF FireGatePublish, RestInv, OpenWindows, Arms, Relights, Reports, Failures,
       OpenAtRest, Opened, SingleArm, LockSkipped, MutexFree, latchVars, streamVars, armVars,
       protoVars, shipVars
  <1> QED BY <1>1, <1>2, <1>3, <1>4, <1>5, <1>6, <1>7, <1>8, <1>9, <1>10, <1>11, <1>12, <1>13
             DEF Arming

\* A disarm over an open latch locks, or fails, and each failure counts.
LEMMA DisarmingRest ==
    ASSUME TypeOK, DisarmOrder, RestInv, Disarming PROVE RestInv'
  <1>1. CASE DisarmClose
    BY <1>1 DEF DisarmClose, RestInv, OpenWindows, Arms, Relights, Reports, Failures,
       OpenAtRest, Opened, Disarms, Refusals, SingleArm, MutexFree, latchVars, streamVars,
       armVars, shipVars
  <1>2. CASE DisarmGate
    BY <1>2 DEF DisarmGate, RestInv, OpenWindows, Arms, Relights, Reports, Failures, OpenAtRest,
       Opened, Disarms, Refusals, SingleArm, MutexFree, latchVars, streamVars, armVars, shipVars
  <1>3. CASE DisarmLockFault
    BY <1>3 DEF DisarmLockFault, LatchFault, RestInv, OpenWindows, Arms, Relights, Reports,
       Failures, OpenAtRest, Opened, Disarms, Refusals, SingleArm, MutexFree, windowVars,
       armVars, shipVars
  <1>4. CASE DisarmReturn
    BY <1>4 DEF DisarmReturn, RestInv, OpenWindows, Arms, Relights, Reports, Failures,
       OpenAtRest, Opened, Disarms, SingleArm, LockSkipped, MutexFree, TypeOK, ArmType,
       ProtoType, Callers, latchVars, windowVars, streamVars, armVars, shipVars
  <1>5. CASE StreamReset
    BY <1>5 DEF StreamReset, RestInv, OpenWindows, Arms, Relights, Reports, Failures,
       OpenAtRest, Opened, Disarms, Refusals, SingleArm, LockSkipped, MutexFree, TypeOK,
       ArmType, windowVars, shipVars
  <1>6. ASSUME NEW caller \in Callers, DisarmRead(caller) PROVE RestInv'
    BY <1>6 DEF DisarmRead, DisarmCalled, RestInv, OpenWindows, Arms, Relights, Reports,
       Failures, OpenAtRest, Opened, Disarms, Refusals, SingleArm, MutexFree, latchVars,
       windowVars, armVars, shipVars
  <1>7. ASSUME NEW ok \in BOOLEAN, DisarmLock(ok) PROVE RestInv'
    <2>1. OpenWindows'
      BY <1>7 DEF DisarmLock, RestInv, OpenWindows, DisarmOrder, windowVars
    <2>2. Arms'
      BY <1>7 DEF DisarmLock, RestInv, Arms, Disarms, Refusals, SingleArm, streamVars, armVars
    <2>3. Relights'
      BY <1>7 DEF DisarmLock, RestInv, Relights, MutexFree, shipVars
    <2>4. Reports'
      BY <1>7 DEF DisarmLock, LatchWrite, WriteTakes, WriteFails, RestInv, Reports, Opened,
         TypeOK, LatchType, streamVars, shipVars
    <2>5. Failures'
      <3>1. CASE ok
        BY <1>7, <3>1 DEF DisarmLock, LatchWrite, WriteTakes, Failures, Opened
      <3>2. CASE ~ok
        <4>1. failedWrites' = failedWrites + 1 /\ pc' = "lockFault" /\ pc = "lock"
          BY <1>7, <3>2 DEF DisarmLock, LatchWrite, WriteFails
        <4>2. UNCHANGED <<latch_fail_reported, latch_locked_by_us, fault_flag, why>>
          BY <1>7, <3>2 DEF DisarmLock, LatchWrite, WriteFails, streamVars
        <4>3. failedWrites \in Nat /\ (latch_fail_reported => failedWrites > 0)
          BY DEF TypeOK, LatchType, RestInv, Reports
        <4> QED BY <4>1, <4>2, <4>3 DEF RestInv, Failures, Opened
      <3> QED BY <3>1, <3>2
    <2>6. OpenAtRest'
      BY <1>7 DEF DisarmLock, RestInv, OpenAtRest
    <2> QED BY <2>1, <2>2, <2>3, <2>4, <2>5, <2>6 DEF RestInv
  <1> QED BY <1>1, <1>2, <1>3, <1>4, <1>5, <1>6, <1>7 DEF Disarming

\* The core starts no job under an arm, and none in a window that an alarm has
\* closed off.
LEMMA CoreRest ==
    ASSUME TypeOK, DisarmOrder, RestInv, EngineLock \/ \E to \in States : CoreStep(to)
    PROVE  RestInv'
  <1>1. CASE EngineLock
    BY <1>1 DEF EngineLock, RestInv, OpenWindows, Arms, Relights, Reports, Failures, OpenAtRest,
       Opened, SingleArm, LockSkipped, MutexFree, windowVars, streamVars, armVars, protoVars,
       shipVars
  <1>2. ASSUME NEW to \in States, CoreStep(to) PROVE RestInv'
    BY <1>2 DEF CoreStep, Polled, RestInv, OpenWindows, Arms, Relights, Reports, Failures,
       OpenAtRest, Opened, Refusals, SingleArm, LockSkipped, MutexFree, TypeOK, StreamType,
       latchVars, windowVars, armVars, protoVars, shipVars
  <1> QED BY <1>1, <1>2

LEMMA RestInvariant == Spec => [](TypeOK /\ RestInv)
  <1>1. Init => RestInv
    BY DEF Init, RestInv, OpenWindows, Arms, Relights, Reports, Failures, OpenAtRest, Opened,
           Disarms, Refusals, MutexFree
  <1>2. TypeOK /\ SealInv /\ RestInv /\ [Next]_vars => RestInv'
    <2> SUFFICES ASSUME TypeOK, DisarmOrder, RestInv, [Next]_vars PROVE RestInv'
      BY DEF SealInv
    <2>1. CASE UNCHANGED vars
      BY <2>1 DEF RestInv, OpenWindows, Arms, Relights, Reports, Failures, OpenAtRest, Opened,
                  SingleArm, LockSkipped, MutexFree, vars, latchVars, windowVars, streamVars,
                  armVars, protoVars, shipVars
    <2> QED BY ShipperRest, ArmingRest, DisarmingRest, CoreRest, <2>1 DEF Next
  <1> QED BY <1>1, <1>2, TypeCorrect, SealInvariant, PTL DEF Spec

\* With the window closed and nothing arming, the latch is locked or the stream
\* has faulted, through any number of arms, re-arms stuck in the suspend loop,
\* faults, resets and failed writes: unless three writes have failed, or a
\* re-arm has waited and the last disarm skipped its lock (gflaser_disarm,
\* issue_run, latch_fault, gf_stream_reset).
THEOREM LatchIsSealedAtRest == Spec => []SealedAtRest
  <1>1. TypeOK /\ RestInv /\ RecordSound => SealedAtRest
    BY DEF TypeOK, LatchType, RestInv, OpenAtRest, Opened, RecordSound, SealedAtRest, AtRest
  <1> QED BY <1>1, RestInvariant, RecordIsSound, PTL

=============================================================================
