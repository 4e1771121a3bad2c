-------------------------- MODULE PulseStreamProofs --------------------------
(***************************************************************************)
(* Proofs about PulseStream, for every bound: type correctness, that while *)
(* the reference holds the core's position accounts for every step, and    *)
(* that a run starts only over bytes its stream wrote.                     *)
(***************************************************************************)
EXTENDS PulseStream, TLAPS

USE PulseStreamAssumption DEF PulseStreamAssumption

-----------------------------------------------------------------------------
(* Types.                                                                  *)

\* What a step leaves alone keeps its type.
LEMMA PartsKept ==
    ASSUME TypeOK
    PROVE  /\ UNCHANGED coreVars => CoreType'
           /\ UNCHANGED streamVars => StreamType'
           /\ UNCHANGED runVars => RunType'
           /\ UNCHANGED countVars => CountType'
           /\ UNCHANGED debtVars => DebtType'
           /\ UNCHANGED faultVars => FaultType'
           /\ UNCHANGED shipVars => ShipType'
           /\ UNCHANGED kernelVars => KernelType'
           /\ UNCHANGED boundVars => BoundType'
  <1>1. UNCHANGED coreVars => CoreType'
    BY DEF TypeOK, CoreType, coreVars
  <1>2. UNCHANGED streamVars => StreamType'
    BY DEF TypeOK, StreamType, streamVars
  <1>3. UNCHANGED runVars => RunType'
    BY DEF TypeOK, RunType, runVars
  <1>4. UNCHANGED countVars => CountType'
    BY DEF TypeOK, CountType, countVars
  <1>5. UNCHANGED debtVars => DebtType'
    BY DEF TypeOK, DebtType, debtVars
  <1>6. UNCHANGED faultVars => FaultType'
    BY DEF TypeOK, FaultType, faultVars
  <1>7. UNCHANGED shipVars => ShipType'
    BY DEF TypeOK, ShipType, shipVars
  <1>8. UNCHANGED kernelVars => KernelType'
    BY DEF TypeOK, KernelType, kernelVars
  <1>9. UNCHANGED boundVars => BoundType'
    BY DEF TypeOK, BoundType, boundVars
  <1> QED BY <1>1, <1>2, <1>3, <1>4, <1>5, <1>6, <1>7, <1>8, <1>9

\* The budget of troubles.
LEMMA TroubleType ==
    ASSUME BoundType, NEW happens \in BOOLEAN, Trouble(happens) PROVE BoundType'
  <1>1. CASE happens
    BY <1>1 DEF BoundType, Trouble
  <1>2. CASE ~happens
    BY <1>2 DEF BoundType, Trouble
  <1> QED BY <1>1, <1>2

\* Going idle, by the callback or under a reset.
LEMMA GoIdleType ==
    ASSUME StreamType, NEW reset \in BOOLEAN, NEW step \in 0 .. 1, GoIdle(reset, step)
    PROVE  /\ armed' \in BOOLEAN /\ streaming' \in BOOLEAN /\ killed' \in BOOLEAN
           /\ kill_step' \in 0 .. 1
  <1>1. armed' \in BOOLEAN /\ streaming' \in BOOLEAN /\ killed' \in BOOLEAN
    BY Zenon DEF GoIdle
  <1>2. kill_step' \in 0 .. 1
    BY DEF GoIdle, StreamType
  <1> QED BY <1>1, <1>2

LEMMA KernelTypes == ASSUME TypeOK, Kernel PROVE TypeOK'
  <1>1. CASE KernelRunOut
    <2>1. KernelType'
      BY <1>1 DEF KernelRunOut, TypeOK, KernelType
    <2> QED BY <1>1, <2>1, PartsKept DEF KernelRunOut, TypeOK
  <1>2. CASE KernelRampEnd
    <2>1. KernelType'
      BY <1>2 DEF KernelRampEnd, TypeOK, KernelType
    <2> QED BY <1>2, <2>1, PartsKept DEF KernelRampEnd, TypeOK
  <1>3. CASE KernelStopped
    <2>1. KernelType'
      BY <1>3 DEF KernelStopped, TypeOK, KernelType, BoundType
    <2>2. BoundType'
      BY <1>3, TroubleType DEF KernelStopped, TypeOK
    <2> QED BY <1>3, <2>1, <2>2, PartsKept DEF KernelStopped, TypeOK
  <1>4. ASSUME NEW s \in 0 .. 1, KernelPlay(s) PROVE TypeOK'
    <2>1. KernelType'
      BY <1>4 DEF KernelPlay, Playing, TypeOK, KernelType
    <2> QED BY <1>4, <2>1, PartsKept DEF KernelPlay, TypeOK
  <1> QED BY <1>1, <1>2, <1>3, <1>4 DEF Kernel

LEMMA CoreTypes == ASSUME TypeOK, Core PROVE TypeOK'
  <1>1. CASE CallbackIdle
    <2>1. CoreType'
      <3>1. GoIdle(ppc = "kill", 0) /\ pend' = 0
        BY <1>1 DEF CallbackIdle
      <3>2. armed' \in BOOLEAN
        <4> DEFINE reset == ppc = "kill"
        <4>1. reset \in BOOLEAN /\ GoIdle(reset, 0) /\ StreamType
          BY <3>1 DEF TypeOK
        <4> HIDE DEF reset
        <4> QED BY <4>1, GoIdleType
      <3> QED BY <1>1, <3>1, <3>2 DEF CallbackIdle, TypeOK, CoreType
    <2>2. StreamType'
      <3>1. streaming' \in BOOLEAN /\ killed' \in BOOLEAN /\ kill_step' \in 0 .. 1
        <4> DEFINE reset == ppc = "kill"
        <4>1. reset \in BOOLEAN /\ GoIdle(reset, 0) /\ StreamType
          BY <1>1 DEF CallbackIdle, TypeOK
        <4> HIDE DEF reset
        <4> QED BY <4>1, GoIdleType
      <3>2. backlog' \in Nat
        BY <1>1 DEF CallbackIdle, Pulsed, TypeOK, StreamType
      <3> QED BY <3>1, <3>2 DEF StreamType
    <2> QED BY <1>1, <2>1, <2>2, PartsKept DEF CallbackIdle, TypeOK
  <1>2. CASE CycleComplete
    <2>1. CoreType'
      BY <1>2 DEF CycleComplete, TypeOK, CoreType
    <2> QED BY <1>2, <2>1, PartsKept DEF CycleComplete, TypeOK
  <1>3. CASE FaultTake
    <2>1. CoreType'
      BY <1>3 DEF FaultTake, TypeOK, CoreType, FaultType
    <2>2. FaultType'
      BY <1>3 DEF FaultTake, TypeOK, CoreType, FaultType
    <2> QED BY <1>3, <2>1, <2>2, PartsKept DEF FaultTake, TypeOK
  <1>4. ASSUME NEW kept \in 0 .. MaxSteps, Wakeup(kept) PROVE TypeOK'
    <2>1. CoreType'
      BY <1>4 DEF Wakeup, TypeOK, CoreType, StreamType, KernelType
    <2>2. StreamType'
      <3>1. CASE failed
        BY <1>4, <3>1 DEF Wakeup, TypeOK, StreamType, streamVars
      <3>2. CASE ~failed
        <4>1. killed' \in BOOLEAN /\ streaming' \in BOOLEAN
          BY <1>4, <3>2, Zenon DEF Wakeup
        <4>2. kill_step' \in 0 .. 1 /\ backlog' \in Nat
          BY <1>4, <3>2 DEF Wakeup
        <4> QED BY <4>1, <4>2 DEF StreamType
      <3> QED BY <3>1, <3>2
    <2>3. KernelType'
      BY <1>4 DEF Wakeup, TypeOK, CoreType, StreamType, KernelType
    <2>4. DebtType'
      <3>1. CASE failed
        BY <1>4, <3>1 DEF Wakeup, TypeOK, DebtType
      <3>2. CASE ~failed
        <4>1. overtaken' = overtaken + (backlog - kept) /\ kept \in 0 .. backlog
          BY <1>4, <3>2 DEF Wakeup, TypeOK, StreamType
        <4> QED BY <1>4, <4>1 DEF Wakeup, TypeOK, DebtType, StreamType
      <3> QED BY <3>1, <3>2
    <2> QED BY <1>4, <2>1, <2>2, <2>3, <2>4, PartsKept DEF Wakeup, TypeOK
  <1>5. ASSUME NEW s \in 0 .. 1, Callback(s) PROVE TypeOK'
    <2>1. CoreType'
      BY <1>5 DEF Callback, Pulsed, TypeOK, CoreType, StreamType
    <2>2. StreamType'
      BY <1>5 DEF Callback, Pulsed, TypeOK, CoreType, StreamType
    <2> QED BY <1>5, <2>1, <2>2, PartsKept DEF Callback, TypeOK
  <1>6. ASSUME NEW late \in BOOLEAN, PulseFault(late) PROVE TypeOK'
    <2>1. CoreType'
      BY <1>6 DEF PulseFault, StopAnswers, Playing, TypeOK, CoreType, FaultType, KernelType,
            BoundType
    <2>2. FaultType'
      BY <1>6 DEF PulseFault, StopAnswers, Playing, TypeOK, CoreType, FaultType, KernelType,
            BoundType
    <2>3. KernelType'
      BY <1>6 DEF PulseFault, StopAnswers, Playing, TypeOK, CoreType, FaultType, KernelType,
            BoundType
    <2>4. BoundType'
      BY <1>6, TroubleType DEF PulseFault, TypeOK
    <2> QED BY <1>6, <2>1, <2>2, <2>3, <2>4, PartsKept DEF PulseFault, TypeOK
  <1>7. ASSUME NEW ok \in BOOLEAN, ClearPosition(ok) PROVE TypeOK'
    <2>1. CoreType'
      BY <1>7 DEF ClearPosition, TypeOK, CoreType, CountType, KernelType, BoundType
    <2>2. CountType'
      BY <1>7 DEF ClearPosition, TypeOK, CoreType, CountType, KernelType, BoundType
    <2>3. KernelType'
      BY <1>7 DEF ClearPosition, TypeOK, CoreType, CountType, KernelType, BoundType
    <2>4. BoundType'
      BY <1>7, TroubleType DEF ClearPosition, TypeOK
    <2>5. DebtType'
      BY <1>7 DEF ClearPosition, TypeOK, DebtType
    <2> QED BY <1>7, <2>1, <2>2, <2>3, <2>4, <2>5, PartsKept DEF ClearPosition, TypeOK
  <1> QED BY <1>1, <1>2, <1>3, <1>4, <1>5, <1>6, <1>7 DEF Core

LEMMA ResetTypes == ASSUME TypeOK, Reset PROVE TypeOK'
  <1>1. CASE ResetRaised
    <2>1. CoreType'
      BY <1>1 DEF ResetRaised, TypeOK, CoreType, BoundType
    <2>2. BoundType'
      BY <1>1 DEF ResetRaised, TypeOK, BoundType
    <2> QED BY <1>1, <2>1, <2>2, PartsKept DEF ResetRaised, TypeOK
  <1>2. CASE ResetKill
    <2>1. CoreType'
      <3>1. armed' \in BOOLEAN /\ cycle' \in BOOLEAN
        BY <1>2, GoIdleType DEF ResetKill, TypeOK, CoreType
      <3> QED BY <1>2, <3>1 DEF ResetKill, TypeOK, CoreType
    <2>2. StreamType'
      <3>1. streaming' \in BOOLEAN /\ killed' \in BOOLEAN /\ kill_step' \in 0 .. 1
        BY <1>2, GoIdleType DEF ResetKill, TypeOK, CoreType
      <3> QED BY <1>2, <3>1 DEF ResetKill, TypeOK, StreamType
    <2> QED BY <1>2, <2>1, <2>2, PartsKept DEF ResetKill, TypeOK
  <1>3. CASE StreamReset
    <2>1. CoreType'
      BY <1>3 DEF StreamReset, OwedAtReset, TypeOK, CoreType, StreamType, RunType, DebtType,
            FaultType
    <2>2. StreamType'
      BY <1>3 DEF StreamReset, OwedAtReset, TypeOK, CoreType, StreamType, RunType, DebtType,
            FaultType
    <2>3. RunType'
      BY <1>3 DEF StreamReset, OwedAtReset, TypeOK, CoreType, StreamType, RunType, DebtType,
            FaultType
    <2>4. DebtType'
      BY <1>3 DEF StreamReset, OwedAtReset, TypeOK, CoreType, StreamType, RunType, DebtType,
            FaultType
    <2>5. FaultType'
      BY <1>3 DEF StreamReset, OwedAtReset, TypeOK, CoreType, StreamType, RunType, DebtType,
            FaultType
    <2> QED BY <1>3, <2>1, <2>2, <2>3, <2>4, <2>5, PartsKept DEF StreamReset, TypeOK
  <1>4. CASE StreamResetStop
    <2>1. CoreType'
      BY <1>4 DEF StreamResetStop, StopAnswers, Playing, TypeOK, CoreType, KernelType
    <2>2. KernelType'
      BY <1>4 DEF StreamResetStop, StopAnswers, Playing, TypeOK, CoreType, KernelType
    <2> QED BY <1>4, <2>1, <2>2, PartsKept DEF StreamResetStop, TypeOK
  <1>5. ASSUME NEW late \in BOOLEAN, Readback(late) PROVE TypeOK'
    <2>1. CoreType'
      <3>1. trusted' \in BOOLEAN /\ position_lost' \in BOOLEAN
        BY <1>5, Zenon DEF Readback
      <3>2. pos' \in Int
        BY <1>5 DEF Readback, TypeOK, CoreType, DebtType
      <3> QED BY <1>5, <3>1, <3>2 DEF Readback, TypeOK, CoreType
    <2>2. DebtType'
      BY <1>5 DEF Readback, ReferenceHolds, TypeOK, CoreType, DebtType, BoundType
    <2>3. BoundType'
      BY <1>5, TroubleType DEF Readback, TypeOK
    <2> QED BY <1>5, <2>1, <2>2, <2>3, PartsKept DEF Readback, TypeOK
  <1> QED BY <1>1, <1>2, <1>3, <1>4, <1>5 DEF Reset

LEMMA ShipperTypes == ASSUME TypeOK, Shipper PROVE TypeOK'
  <1>1. CASE ClearApply
    <2>1. RunType'
      BY <1>1 DEF ClearApply, CountsFresh, ClearDone, TypeOK, RunType, CountType, DebtType,
            ShipType
    <2>2. CountType'
      BY <1>1 DEF ClearApply, CountsFresh, ClearDone, TypeOK, RunType, CountType, DebtType,
            ShipType
    <2>3. DebtType'
      <3>1. CASE readback = "wait" /\ CountsFresh /\ base_valid
        <4>1. got \in Nat
          BY <3>1 DEF CountsFresh, TypeOK, ShipType
        <4>2. unplayed' = unplayed + (steps - base_steps) - (got - base_counts)
          BY <1>1, <3>1 DEF ClearApply
        <4>3. readback' = "done" /\ overtaken' = overtaken
          BY <1>1, <3>1 DEF ClearApply
        <4> QED BY <4>1, <4>2, <4>3 DEF TypeOK, DebtType, CountType
      <3>2. CASE readback = "wait" /\ ~(CountsFresh /\ base_valid)
        BY <1>1, <3>2 DEF ClearApply, TypeOK, DebtType
      <3>3. CASE readback # "wait"
        BY <1>1, <3>3 DEF ClearApply, TypeOK, DebtType
      <3> QED BY <3>1, <3>2, <3>3
    <2>4. ShipType'
      BY <1>1 DEF ClearApply, CountsFresh, ClearDone, TypeOK, RunType, CountType, DebtType,
            ShipType
    <2> QED BY <1>1, <2>1, <2>2, <2>3, <2>4, PartsKept DEF ClearApply, TypeOK
  <1>2. CASE PendingRun
    <2>1. RunType'
      BY <1>2 DEF PendingRun, Playing, TypeOK, RunType, FaultType, ShipType
    <2>2. FaultType'
      BY <1>2 DEF PendingRun, Playing, TypeOK, RunType, FaultType, ShipType
    <2>3. ShipType'
      BY <1>2 DEF PendingRun, Playing, TypeOK, RunType, FaultType, ShipType
    <2> QED BY <1>2, <2>1, <2>2, <2>3, PartsKept DEF PendingRun, TypeOK
  <1>3. CASE StreamEnd
    <2>1. RunType'
      BY <1>3 DEF StreamEnd, TypeOK, RunType, ShipType, KernelType
    <2>2. ShipType'
      BY <1>3 DEF StreamEnd, TypeOK, RunType, ShipType, KernelType
    <2>3. KernelType'
      BY <1>3 DEF StreamEnd, TypeOK, RunType, ShipType, KernelType
    <2> QED BY <1>3, <2>1, <2>2, <2>3, PartsKept DEF StreamEnd, TypeOK
  <1>4. CASE ShipCount
    <2>1. RunType'
      BY <1>4 DEF ShipCount, TypeOK, RunType, CountType, ShipType
    <2>2. CountType'
      BY <1>4 DEF ShipCount, TypeOK, RunType, CountType, ShipType
    <2>3. ShipType'
      <3>1. first' \in BOOLEAN
        BY <1>4, Zenon DEF ShipCount
      <3>2. chunk' \in [b : Nat, s : Nat] /\ chunk'.s <= chunk'.b
        BY <1>4 DEF ShipCount
      <3> QED BY <1>4, <3>1, <3>2 DEF ShipCount, TypeOK, ShipType
    <2> QED BY <1>4, <2>1, <2>2, <2>3, PartsKept DEF ShipCount, TypeOK
  <1>5. CASE ShipFailed
    <2>1. CountType'
      BY <1>5 DEF ShipFailed, TypeOK, CountType, DebtType, FaultType, ShipType
    <2>2. DebtType'
      BY <1>5 DEF ShipFailed, TypeOK, CountType, DebtType, FaultType, ShipType
    <2>3. FaultType'
      BY <1>5 DEF ShipFailed, TypeOK, CountType, DebtType, FaultType, ShipType
    <2>4. ShipType'
      <3>1. first' \in BOOLEAN
        BY <1>5, Zenon DEF ShipFailed
      <3>2. chunk' \in [b : Nat, s : Nat] /\ chunk'.s <= chunk'.b
        BY <1>5 DEF ShipFailed
      <3> QED BY <1>5, <3>1, <3>2 DEF ShipFailed, TypeOK, ShipType
    <2> QED BY <1>5, <2>1, <2>2, <2>3, <2>4, PartsKept DEF ShipFailed, TypeOK
  <1>6. CASE RunStarts
    <2>1. ShipType'
      BY <1>6 DEF RunStarts, TypeOK, ShipType, KernelType
    <2>2. KernelType'
      BY <1>6 DEF RunStarts, TypeOK, ShipType, KernelType
    <2> QED BY <1>6, <2>1, <2>2, PartsKept DEF RunStarts, TypeOK
  <1>7. CASE RunRetry
    <2>1. CoreType'
      BY <1>7 DEF RunRetry, TypeOK, CoreType, KernelType
    <2>2. KernelType'
      BY <1>7 DEF RunRetry, TypeOK, CoreType, KernelType
    <2> QED BY <1>7, <2>1, <2>2, PartsKept DEF RunRetry, TypeOK
  <1>8. CASE RunRefused
    <2>1. FaultType'
      BY <1>8 DEF RunRefused, TypeOK, FaultType, ShipType, KernelType
    <2>2. ShipType'
      BY <1>8 DEF RunRefused, TypeOK, FaultType, ShipType, KernelType
    <2>3. KernelType'
      BY <1>8 DEF RunRefused, TypeOK, FaultType, ShipType, KernelType
    <2> QED BY <1>8, <2>1, <2>2, <2>3, PartsKept DEF RunRefused, TypeOK
  <1>9. CASE CheckSnapshot
    <2>1. ShipType'
      BY <1>9 DEF CheckSnapshot, TypeOK, ShipType
    <2> QED BY <1>9, <2>1, PartsKept DEF CheckSnapshot, TypeOK
  <1>10. CASE CheckRead
    <2>1. FaultType'
      BY <1>10 DEF CheckRead, Playing, TypeOK, FaultType, ShipType
    <2>2. ShipType'
      BY <1>10 DEF CheckRead, Playing, TypeOK, FaultType, ShipType
    <2> QED BY <1>10, <2>1, <2>2, PartsKept DEF CheckRead, TypeOK
  <1>11. CASE Report
    <2>1. FaultType'
      BY <1>11 DEF Report, TypeOK, FaultType, ShipType
    <2>2. ShipType'
      BY <1>11 DEF Report, TypeOK, FaultType, ShipType
    <2> QED BY <1>11, <2>1, <2>2, PartsKept DEF Report, TypeOK
  <1>12. ASSUME NEW ok \in BOOLEAN, NEW read \in BOOLEAN, ClearSeek(ok, read) PROVE TypeOK'
    <2>1. CountType'
      BY <1>12 DEF ClearSeek, Playing, TypeOK, CountType, ShipType, KernelType, BoundType
    <2>2. ShipType'
      BY <1>12 DEF ClearSeek, Playing, TypeOK, CountType, ShipType, KernelType, BoundType
    <2>3. KernelType'
      BY <1>12 DEF ClearSeek, Playing, TypeOK, CountType, ShipType, KernelType, BoundType
    <2>4. BoundType'
      BY <1>12, TroubleType DEF ClearSeek, TypeOK
    <2> QED BY <1>12, <2>1, <2>2, <2>3, <2>4, PartsKept DEF ClearSeek, TypeOK
  <1>13. ASSUME NEW s \in 0 .. MaxSteps, NEW pad \in 0 .. 1, Ship(s, pad) PROVE TypeOK'
    <2>1. StreamType'
      BY <1>13 DEF Ship, Shippable, TypeOK, StreamType, RunType, ShipType
    <2>2. RunType'
      BY <1>13 DEF Ship, Shippable, TypeOK, StreamType, RunType, ShipType
    <2>3. ShipType'
      BY <1>13 DEF Ship, Shippable, TypeOK, StreamType, RunType, ShipType
    <2> QED BY <1>13, <2>1, <2>2, <2>3, PartsKept DEF Ship, TypeOK
  <1>14. ASSUME NEW b \in 0 .. MaxBytes, NEW s \in 0 .. MaxSteps, ShipWrite(b, s) PROVE TypeOK'
    <2>1. ShipType'
      BY <1>14 DEF ShipWrite, TypeOK, ShipType, KernelType, BoundType
    <2>2. KernelType'
      BY <1>14 DEF ShipWrite, TypeOK, ShipType, KernelType, BoundType
    <2>3. BoundType'
      BY <1>14, TroubleType DEF ShipWrite, TypeOK
    <2> QED BY <1>14, <2>1, <2>2, <2>3, PartsKept DEF ShipWrite, TypeOK
  <1>15. ASSUME NEW read \in BOOLEAN, RunGate(read) PROVE TypeOK'
    <2>1. RunType'
      BY <1>15 DEF RunGate, RingIsOwn, Playing, TypeOK, RunType, FaultType, ShipType, BoundType
    <2>2. FaultType'
      BY <1>15 DEF RunGate, RingIsOwn, Playing, TypeOK, RunType, FaultType, ShipType, BoundType
    <2>3. ShipType'
      BY <1>15 DEF RunGate, RingIsOwn, Playing, TypeOK, RunType, FaultType, ShipType, BoundType
    <2>4. BoundType'
      BY <1>15, TroubleType DEF RunGate, TypeOK
    <2> QED BY <1>15, <2>1, <2>2, <2>3, <2>4, PartsKept DEF RunGate, TypeOK
  <1> QED BY <1>1, <1>2, <1>3, <1>4, <1>5, <1>6, <1>7, <1>8, <1>9, <1>10, <1>11, <1>12, <1>13,
             <1>14, <1>15 DEF Shipper

\* No count of steps or bytes goes negative, and the kernel's ring holds part of
\* what it took, through every step of the three threads and the kernel.
THEOREM TypeCorrect == Spec => []TypeOK
  <1>1. Init => TypeOK
    <2> SUFFICES ASSUME Init PROVE TypeOK
      OBVIOUS
    <2>1. cycle \in BOOLEAN /\ position_lost \in BOOLEAN /\ trusted \in BOOLEAN /\ armed \in BOOLEAN
      BY Zenon DEF Init
    <2>2. streaming \in BOOLEAN /\ killed \in BOOLEAN /\ FaultType
      BY Zenon DEF Init, FaultType
    <2>3. kernel_running \in BOOLEAN /\ run_pending \in BOOLEAN /\ clear_pending \in BOOLEAN
      BY Zenon DEF Init
    <2>4. base_valid \in BOOLEAN /\ zeros \in BOOLEAN /\ first \in BOOLEAN /\ live \in BOOLEAN
      BY Zenon DEF Init
    <2>5. CoreType
      BY <2>1 DEF Init, CoreType
    <2>6. StreamType /\ RunType
      BY <2>2, <2>3 DEF Init, StreamType, RunType
    <2>7. CountType /\ DebtType /\ BoundType
      BY <2>4 DEF Init, CountType, DebtType, BoundType
    <2>8. ShipType
      BY <2>4 DEF Init, ShipType
    <2>9. KernelType
      BY <2>4 DEF Init, KernelType
    <2> QED BY <2>2, <2>5, <2>6, <2>7, <2>8, <2>9 DEF TypeOK
  <1>2. TypeOK /\ [Next]_vars => TypeOK'
    <2> SUFFICES ASSUME TypeOK, [Next]_vars PROVE TypeOK'
      OBVIOUS
    <2>1. CASE UNCHANGED vars
      BY <2>1, PartsKept DEF vars, TypeOK
    <2> QED BY KernelTypes, CoreTypes, ResetTypes, ShipperTypes, <2>1 DEF Next
  <1> QED BY <1>1, <1>2, PTL DEF Spec

-----------------------------------------------------------------------------
(* The inductive invariant: where every counted step is, in every phase of *)
(* a reset.                                                                *)

\* A fault has been raised, or is about to be.
Doubt == failed \/ fault_flag \/ spc \in {"report", "torn"}

InFlight == IF spc = "write" THEN chunk.s ELSE 0

\* The steps played, queued in the kernel, being written, unshipped, and the
\* one still to be output.
Accounted == counts + ringS + backlog + pend + InFlight

\* The steps shipped since the base and not played since.
NotPlayed == (steps - base_steps) - (counts - base_counts)

\* Which flags stand together in which phase of a cycle and of a reset.
Phases ==
    /\ armed <=> streaming
    /\ streaming => cycle
    /\ pend = 1 => streaming
    /\ cycle => ppc \in {"run", "kill"}
    /\ ppc = "kill" => position_lost
    /\ killed => ppc \in {"kill", "reset"} /\ position_lost /\ ~streaming
    /\ (killed /\ ppc = "kill") => kill_step = 0
    /\ readback # "none" => ppc \in {"stop", "readback"} /\ position_lost /\ backlog = 0

\* A fault nobody has been told of is on its way to the hook.
Faults == (failed /\ trusted) => (fault_flag \/ spc = "report")

\* What a clear finds in the ring, and what it leaves there.
Clears ==
    /\ spc = "clear" => clear_pending /\ ~Playing /\ (first => ringS = 0)
    /\ (spc = "clear" /\ got # -1) => (first /\ (~zeros => got = counts))
    /\ readback = "done" => /\ ringS = 0 /\ spc = "top"
                            /\ ~clear_pending /\ ~kernel_running /\ ~run_pending
    /\ (clear_pending /\ trusted /\ ~Doubt /\ readback \notin {"wait", "lost"})
         => ringS = 0 /\ spc \notin {"write", "landed"}

\* What the base says of the ring.
Base ==
    /\ readback = "wait" => base_valid
    /\ (base_valid /\ spc \notin {"clear", "torn", "landed"}) => NotPlayed = ringS
    /\ (base_valid /\ spc = "landed") => NotPlayed = ringS - chunk.s
    /\ (base_valid /\ spc = "clear" /\ zeros) => NotPlayed = 0 /\ ringS = 0
    /\ (base_valid /\ spc = "clear" /\ trusted /\ ~Doubt /\ readback \notin {"wait", "lost"})
         => NotPlayed = 0

\* The position, phase by phase.
Position ==
    (trusted /\ ~Doubt) =>
        /\ (ppc \in {"run", "kill"} \/ (ppc \in {"stop", "readback"} /\ readback = "none"))
             => pos = Accounted + overtaken
        /\ ppc = "reset" => pos = Accounted + overtaken + (IF killed THEN kill_step ELSE 0)
        /\ readback = "done" => pos = counts + overtaken + unplayed
        /\ (readback = "wait" /\ spc # "clear") => pos = Accounted + overtaken + unplayed
        /\ (readback = "wait" /\ spc = "clear" /\ got # -1)
             => pos = counts + overtaken + unplayed + NotPlayed

StreamInv == Phases /\ Faults /\ Clears /\ Base /\ Position

LEMMA KernelInv == ASSUME TypeOK, StreamInv, Kernel PROVE StreamInv'
  <1>1. CASE KernelRunOut
    <2>1. Phases'
      BY <1>1 DEF KernelRunOut, StreamInv, Phases, TypeOK, CoreType, StreamType, DebtType,
            coreVars, streamVars, runVars, countVars, debtVars, faultVars, shipVars
    <2>2. Faults'
      BY <1>1 DEF KernelRunOut, StreamInv, Faults, TypeOK, FaultType, CoreType, coreVars,
            streamVars, runVars, countVars, debtVars, faultVars, shipVars
    <2>3. Clears'
      BY <1>1 DEF KernelRunOut, StreamInv, Clears, Phases, Doubt, Playing, TypeOK, StreamType,
            ShipType, KernelType, FaultType, RunType, CountType, coreVars, streamVars, runVars,
            countVars, debtVars, faultVars, shipVars
    <2>4. Base'
      BY <1>1 DEF KernelRunOut, StreamInv, Base, Clears, Phases, NotPlayed, Doubt, Playing,
            TypeOK, CountType, ShipType, KernelType, FaultType, RunType, coreVars, streamVars,
            runVars, countVars, debtVars, faultVars, shipVars
    <2>5. Position'
      BY <1>1 DEF KernelRunOut, StreamInv, Position, Phases, Clears, Base, Faults, NotPlayed,
            Doubt, Accounted, InFlight, Playing, TypeOK, CoreType, StreamType, CountType,
            DebtType, ShipType, KernelType, FaultType, RunType, coreVars, streamVars, runVars,
            countVars, debtVars, faultVars, shipVars
    <2> QED BY <2>1, <2>2, <2>3, <2>4, <2>5 DEF StreamInv
  <1>2. CASE KernelRampEnd
    <2>1. Phases'
      BY <1>2 DEF KernelRampEnd, StreamInv, Phases, TypeOK, CoreType, StreamType, DebtType,
            coreVars, streamVars, runVars, countVars, debtVars, faultVars, shipVars
    <2>2. Faults'
      BY <1>2 DEF KernelRampEnd, StreamInv, Faults, TypeOK, FaultType, CoreType, coreVars,
            streamVars, runVars, countVars, debtVars, faultVars, shipVars
    <2>3. Clears'
      BY <1>2 DEF KernelRampEnd, StreamInv, Clears, Phases, Doubt, Playing, TypeOK, StreamType,
            ShipType, KernelType, FaultType, RunType, CountType, coreVars, streamVars, runVars,
            countVars, debtVars, faultVars, shipVars
    <2>4. Base'
      BY <1>2 DEF KernelRampEnd, StreamInv, Base, Clears, Phases, NotPlayed, Doubt, Playing,
            TypeOK, CountType, ShipType, KernelType, FaultType, RunType, coreVars, streamVars,
            runVars, countVars, debtVars, faultVars, shipVars
    <2>5. Position'
      BY <1>2 DEF KernelRampEnd, StreamInv, Position, Phases, Clears, Base, Faults, NotPlayed,
            Doubt, Accounted, InFlight, Playing, TypeOK, CoreType, StreamType, CountType,
            DebtType, ShipType, KernelType, FaultType, RunType, coreVars, streamVars, runVars,
            countVars, debtVars, faultVars, shipVars
    <2> QED BY <2>1, <2>2, <2>3, <2>4, <2>5 DEF StreamInv
  <1>3. CASE KernelStopped
    <2>1. Phases'
      BY <1>3 DEF KernelStopped, StreamInv, Phases, TypeOK, CoreType, StreamType, DebtType,
            coreVars, streamVars, runVars, countVars, debtVars, faultVars, shipVars
    <2>2. Faults'
      BY <1>3 DEF KernelStopped, StreamInv, Faults, TypeOK, FaultType, CoreType, coreVars,
            streamVars, runVars, countVars, debtVars, faultVars, shipVars
    <2>3. Clears'
      BY <1>3 DEF KernelStopped, StreamInv, Clears, Phases, Doubt, Playing, TypeOK, StreamType,
            ShipType, KernelType, FaultType, RunType, CountType, coreVars, streamVars, runVars,
            countVars, debtVars, faultVars, shipVars
    <2>4. Base'
      BY <1>3 DEF KernelStopped, StreamInv, Base, Clears, Phases, NotPlayed, Doubt, Playing,
            TypeOK, CountType, ShipType, KernelType, FaultType, RunType, coreVars, streamVars,
            runVars, countVars, debtVars, faultVars, shipVars
    <2>5. Position'
      BY <1>3 DEF KernelStopped, StreamInv, Position, Phases, Clears, Base, Faults, NotPlayed,
            Doubt, Accounted, InFlight, Playing, TypeOK, CoreType, StreamType, CountType,
            DebtType, ShipType, KernelType, FaultType, RunType, coreVars, streamVars, runVars,
            countVars, debtVars, faultVars, shipVars
    <2> QED BY <2>1, <2>2, <2>3, <2>4, <2>5 DEF StreamInv
  <1>4. ASSUME NEW s \in 0 .. 1, KernelPlay(s) PROVE StreamInv'
    <2>1. Phases'
      BY <1>4 DEF KernelPlay, Playing, StreamInv, Phases, TypeOK, CoreType, StreamType, DebtType,
            coreVars, streamVars, runVars, countVars, debtVars, faultVars, shipVars
    <2>2. Faults'
      BY <1>4 DEF KernelPlay, Playing, StreamInv, Faults, TypeOK, FaultType, CoreType, coreVars,
            streamVars, runVars, countVars, debtVars, faultVars, shipVars
    <2>3. Clears'
      BY <1>4 DEF KernelPlay, Playing, StreamInv, Clears, Phases, Doubt, TypeOK, StreamType,
            ShipType, KernelType, FaultType, RunType, CountType, coreVars, streamVars, runVars,
            countVars, debtVars, faultVars, shipVars
    <2>4. Base'
      BY <1>4 DEF KernelPlay, Playing, StreamInv, Base, Clears, Phases, NotPlayed, Doubt, TypeOK,
            CountType, ShipType, KernelType, FaultType, RunType, coreVars, streamVars, runVars,
            countVars, debtVars, faultVars, shipVars
    <2>5. Position'
      BY <1>4 DEF KernelPlay, Playing, StreamInv, Position, Phases, Clears, Base, Faults,
            NotPlayed, Doubt, Accounted, InFlight, TypeOK, CoreType, StreamType, CountType,
            DebtType, ShipType, KernelType, FaultType, RunType, coreVars, streamVars, runVars,
            countVars, debtVars, faultVars, shipVars
    <2> QED BY <2>1, <2>2, <2>3, <2>4, <2>5 DEF StreamInv
  <1> QED BY <1>1, <1>2, <1>3, <1>4 DEF Kernel

LEMMA CoreInv == ASSUME TypeOK, StreamInv, Core PROVE StreamInv'
  <1>1. CASE CallbackIdle
    <2>1. Phases'
      BY <1>1 DEF CallbackIdle, GoIdle, Pulsed, StreamInv, Phases, TypeOK, CoreType, StreamType,
            DebtType, runVars, countVars, debtVars, faultVars, shipVars, kernelVars
    <2>2. Faults'
      BY <1>1 DEF CallbackIdle, GoIdle, Pulsed, StreamInv, Faults, TypeOK, FaultType, CoreType,
            runVars, countVars, debtVars, faultVars, shipVars, kernelVars
    <2>3. Clears'
      BY <1>1 DEF CallbackIdle, GoIdle, Pulsed, StreamInv, Clears, Phases, Doubt, Playing, TypeOK,
            StreamType, ShipType, KernelType, FaultType, RunType, CountType, runVars, countVars,
            debtVars, faultVars, shipVars, kernelVars
    <2>4. Base'
      BY <1>1 DEF CallbackIdle, GoIdle, Pulsed, StreamInv, Base, Clears, Phases, NotPlayed, Doubt,
            Playing, TypeOK, CountType, ShipType, KernelType, FaultType, RunType, runVars,
            countVars, debtVars, faultVars, shipVars, kernelVars
    <2>5. Position'
      BY <1>1 DEF CallbackIdle, GoIdle, Pulsed, StreamInv, Position, Phases, Clears, Base, Faults,
            NotPlayed, Doubt, Accounted, InFlight, Playing, TypeOK, CoreType, StreamType,
            CountType, DebtType, ShipType, KernelType, FaultType, RunType, runVars, countVars,
            debtVars, faultVars, shipVars, kernelVars
    <2> QED BY <2>1, <2>2, <2>3, <2>4, <2>5 DEF StreamInv
  <1>2. CASE CycleComplete
    <2>1. Phases'
      BY <1>2 DEF CycleComplete, StreamInv, Phases, TypeOK, CoreType, StreamType, DebtType,
            streamVars, runVars, countVars, debtVars, faultVars, shipVars, kernelVars
    <2>2. Faults'
      BY <1>2 DEF CycleComplete, StreamInv, Faults, TypeOK, FaultType, CoreType, streamVars,
            runVars, countVars, debtVars, faultVars, shipVars, kernelVars
    <2>3. Clears'
      BY <1>2 DEF CycleComplete, StreamInv, Clears, Phases, Doubt, Playing, TypeOK, StreamType,
            ShipType, KernelType, FaultType, RunType, CountType, streamVars, runVars, countVars,
            debtVars, faultVars, shipVars, kernelVars
    <2>4. Base'
      BY <1>2 DEF CycleComplete, StreamInv, Base, Clears, Phases, NotPlayed, Doubt, Playing,
            TypeOK, CountType, ShipType, KernelType, FaultType, RunType, streamVars, runVars,
            countVars, debtVars, faultVars, shipVars, kernelVars
    <2>5. Position'
      BY <1>2 DEF CycleComplete, StreamInv, Position, Phases, Clears, Base, Faults, NotPlayed,
            Doubt, Accounted, InFlight, Playing, TypeOK, CoreType, StreamType, CountType,
            DebtType, ShipType, KernelType, FaultType, RunType, streamVars, runVars, countVars,
            debtVars, faultVars, shipVars, kernelVars
    <2> QED BY <2>1, <2>2, <2>3, <2>4, <2>5 DEF StreamInv
  <1>3. CASE FaultTake
    <2>1. Phases'
      BY <1>3 DEF FaultTake, StreamInv, Phases, TypeOK, CoreType, StreamType, DebtType,
            streamVars, runVars, countVars, debtVars, shipVars, kernelVars
    <2>2. Faults'
      BY <1>3 DEF FaultTake, StreamInv, Faults, TypeOK, FaultType, CoreType, streamVars, runVars,
            countVars, debtVars, shipVars, kernelVars
    <2>3. Clears'
      BY <1>3 DEF FaultTake, StreamInv, Clears, Phases, Doubt, Playing, TypeOK, StreamType,
            ShipType, KernelType, FaultType, RunType, CountType, streamVars, runVars, countVars,
            debtVars, shipVars, kernelVars
    <2>4. Base'
      BY <1>3 DEF FaultTake, StreamInv, Base, Clears, Phases, NotPlayed, Doubt, Playing, TypeOK,
            CountType, ShipType, KernelType, FaultType, RunType, streamVars, runVars, countVars,
            debtVars, shipVars, kernelVars
    <2>5. Position'
      BY <1>3 DEF FaultTake, StreamInv, Position, Phases, Clears, Base, Faults, NotPlayed, Doubt,
            Accounted, InFlight, Playing, TypeOK, CoreType, StreamType, CountType, DebtType,
            ShipType, KernelType, FaultType, RunType, streamVars, runVars, countVars, debtVars,
            shipVars, kernelVars
    <2> QED BY <2>1, <2>2, <2>3, <2>4, <2>5 DEF StreamInv
  <1>4. ASSUME NEW kept \in 0 .. MaxSteps, Wakeup(kept) PROVE StreamInv'
    <2>1. Phases'
      BY <1>4 DEF Wakeup, StreamInv, Phases, Faults, TypeOK, CoreType, StreamType, DebtType,
            runVars, countVars, debtVars, faultVars, shipVars, streamVars
    <2>2. Faults'
      BY <1>4 DEF Wakeup, StreamInv, Faults, TypeOK, FaultType, CoreType, runVars, countVars,
            debtVars, faultVars, shipVars
    <2>3. Clears'
      BY <1>4 DEF Wakeup, StreamInv, Clears, Phases, Doubt, Playing, TypeOK, StreamType, ShipType,
            KernelType, FaultType, RunType, CountType, runVars, countVars, debtVars, faultVars,
            shipVars
    <2>4. Base'
      BY <1>4 DEF Wakeup, StreamInv, Base, Clears, Phases, NotPlayed, Doubt, Playing, TypeOK,
            CountType, ShipType, KernelType, FaultType, RunType, runVars, countVars, debtVars,
            faultVars, shipVars
    <2>5. Position'
      BY <1>4 DEF Wakeup, StreamInv, Position, Phases, Clears, Base, Faults, NotPlayed, Doubt,
            Accounted, InFlight, Playing, TypeOK, CoreType, StreamType, CountType, DebtType,
            ShipType, KernelType, FaultType, RunType, runVars, countVars, debtVars, faultVars,
            shipVars
    <2> QED BY <2>1, <2>2, <2>3, <2>4, <2>5 DEF StreamInv
  <1>5. ASSUME NEW s \in 0 .. 1, Callback(s) PROVE StreamInv'
    <2>1. Phases'
      BY <1>5 DEF Callback, Pulsed, StreamInv, Phases, TypeOK, CoreType, StreamType, DebtType,
            runVars, countVars, debtVars, faultVars, shipVars, kernelVars
    <2>2. Faults'
      BY <1>5 DEF Callback, Pulsed, StreamInv, Faults, TypeOK, FaultType, CoreType, runVars,
            countVars, debtVars, faultVars, shipVars, kernelVars
    <2>3. Clears'
      BY <1>5 DEF Callback, Pulsed, StreamInv, Clears, Phases, Doubt, Playing, TypeOK, StreamType,
            ShipType, KernelType, FaultType, RunType, CountType, runVars, countVars, debtVars,
            faultVars, shipVars, kernelVars
    <2>4. Base'
      BY <1>5 DEF Callback, Pulsed, StreamInv, Base, Clears, Phases, NotPlayed, Doubt, Playing,
            TypeOK, CountType, ShipType, KernelType, FaultType, RunType, runVars, countVars,
            debtVars, faultVars, shipVars, kernelVars
    <2>5. Position'
      BY <1>5 DEF Callback, Pulsed, StreamInv, Position, Phases, Clears, Base, Faults, NotPlayed,
            Doubt, Accounted, InFlight, Playing, TypeOK, CoreType, StreamType, CountType,
            DebtType, ShipType, KernelType, FaultType, RunType, runVars, countVars, debtVars,
            faultVars, shipVars, kernelVars
    <2> QED BY <2>1, <2>2, <2>3, <2>4, <2>5 DEF StreamInv
  <1>6. ASSUME NEW late \in BOOLEAN, PulseFault(late) PROVE StreamInv'
    <2>1. Phases'
      BY <1>6 DEF PulseFault, StopAnswers, Playing, StreamInv, Phases, TypeOK, CoreType,
            StreamType, DebtType, streamVars, runVars, countVars, debtVars, shipVars
    <2>2. Faults'
      BY <1>6 DEF PulseFault, StopAnswers, Playing, StreamInv, Faults, TypeOK, FaultType,
            CoreType, streamVars, runVars, countVars, debtVars, shipVars
    <2>3. Clears'
      BY <1>6 DEF PulseFault, StopAnswers, Playing, StreamInv, Clears, Phases, Doubt, TypeOK,
            StreamType, ShipType, KernelType, FaultType, RunType, CountType, streamVars, runVars,
            countVars, debtVars, shipVars
    <2>4. Base'
      BY <1>6 DEF PulseFault, StopAnswers, Playing, StreamInv, Base, Clears, Phases, NotPlayed,
            Doubt, TypeOK, CountType, ShipType, KernelType, FaultType, RunType, streamVars,
            runVars, countVars, debtVars, shipVars
    <2>5. Position'
      BY <1>6 DEF PulseFault, StopAnswers, Playing, StreamInv, Position, Phases, Clears, Base,
            Faults, NotPlayed, Doubt, Accounted, InFlight, TypeOK, CoreType, StreamType,
            CountType, DebtType, ShipType, KernelType, FaultType, RunType, streamVars, runVars,
            countVars, debtVars, shipVars
    <2> QED BY <2>1, <2>2, <2>3, <2>4, <2>5 DEF StreamInv
  <1>7. ASSUME NEW ok \in BOOLEAN, ClearPosition(ok) PROVE StreamInv'
    <2>1. Phases'
      BY <1>7 DEF ClearPosition, StreamInv, Phases, TypeOK, CoreType, StreamType, DebtType,
            streamVars, runVars, debtVars, faultVars, shipVars
    <2>2. Faults'
      BY <1>7 DEF ClearPosition, StreamInv, Faults, TypeOK, FaultType, CoreType, streamVars,
            runVars, debtVars, faultVars, shipVars
    <2>3. Clears'
      BY <1>7 DEF ClearPosition, StreamInv, Clears, Phases, Doubt, Playing, TypeOK, StreamType,
            ShipType, KernelType, FaultType, RunType, CountType, streamVars, runVars, debtVars,
            faultVars, shipVars
    <2>4. Base'
      BY <1>7 DEF ClearPosition, StreamInv, Base, Clears, Phases, NotPlayed, Doubt, Playing,
            TypeOK, CountType, ShipType, KernelType, FaultType, RunType, streamVars, runVars,
            debtVars, faultVars, shipVars
    <2>5. Position'
      BY <1>7 DEF ClearPosition, StreamInv, Position, Phases, Clears, Base, Faults, NotPlayed,
            Doubt, Accounted, InFlight, Playing, TypeOK, CoreType, StreamType, CountType,
            DebtType, ShipType, KernelType, FaultType, RunType, streamVars, runVars, debtVars,
            faultVars, shipVars
    <2> QED BY <2>1, <2>2, <2>3, <2>4, <2>5 DEF StreamInv
  <1> QED BY <1>1, <1>2, <1>3, <1>4, <1>5, <1>6, <1>7 DEF Core

LEMMA ResetInv == ASSUME TypeOK, StreamInv, Reset PROVE StreamInv'
  <1>1. CASE ResetRaised
    <2>1. Phases'
      BY <1>1 DEF ResetRaised, StreamInv, Phases, TypeOK, CoreType, StreamType, DebtType,
            streamVars, runVars, countVars, debtVars, faultVars, shipVars, kernelVars
    <2>2. Faults'
      BY <1>1 DEF ResetRaised, StreamInv, Faults, TypeOK, FaultType, CoreType, streamVars,
            runVars, countVars, debtVars, faultVars, shipVars, kernelVars
    <2>3. Clears'
      BY <1>1 DEF ResetRaised, StreamInv, Clears, Phases, Doubt, Playing, TypeOK, StreamType,
            ShipType, KernelType, FaultType, RunType, CountType, streamVars, runVars, countVars,
            debtVars, faultVars, shipVars, kernelVars
    <2>4. Base'
      BY <1>1 DEF ResetRaised, StreamInv, Base, Clears, Phases, NotPlayed, Doubt, Playing, TypeOK,
            CountType, ShipType, KernelType, FaultType, RunType, streamVars, runVars, countVars,
            debtVars, faultVars, shipVars, kernelVars
    <2>5. Position'
      BY <1>1 DEF ResetRaised, StreamInv, Position, Phases, Clears, Base, Faults, NotPlayed,
            Doubt, Accounted, InFlight, Playing, TypeOK, CoreType, StreamType, CountType,
            DebtType, ShipType, KernelType, FaultType, RunType, streamVars, runVars, countVars,
            debtVars, faultVars, shipVars, kernelVars
    <2> QED BY <2>1, <2>2, <2>3, <2>4, <2>5 DEF StreamInv
  <1>2. CASE ResetKill
    <2>1. Phases'
      BY <1>2 DEF ResetKill, GoIdle, StreamInv, Phases, TypeOK, CoreType, StreamType, DebtType,
            runVars, countVars, debtVars, faultVars, shipVars, kernelVars
    <2>2. Faults'
      BY <1>2 DEF ResetKill, GoIdle, StreamInv, Faults, TypeOK, FaultType, CoreType, runVars,
            countVars, debtVars, faultVars, shipVars, kernelVars
    <2>3. Clears'
      BY <1>2 DEF ResetKill, GoIdle, StreamInv, Clears, Phases, Doubt, Playing, TypeOK,
            StreamType, ShipType, KernelType, FaultType, RunType, CountType, runVars, countVars,
            debtVars, faultVars, shipVars, kernelVars
    <2>4. Base'
      BY <1>2 DEF ResetKill, GoIdle, StreamInv, Base, Clears, Phases, NotPlayed, Doubt, Playing,
            TypeOK, CountType, ShipType, KernelType, FaultType, RunType, runVars, countVars,
            debtVars, faultVars, shipVars, kernelVars
    <2>5. Position'
      BY <1>2 DEF ResetKill, GoIdle, StreamInv, Position, Phases, Clears, Base, Faults, NotPlayed,
            Doubt, Accounted, InFlight, Playing, TypeOK, CoreType, StreamType, CountType,
            DebtType, ShipType, KernelType, FaultType, RunType, runVars, countVars, debtVars,
            faultVars, shipVars, kernelVars
    <2> QED BY <2>1, <2>2, <2>3, <2>4, <2>5 DEF StreamInv
  <1>3. CASE StreamReset
    <2>1. Phases'
      BY <1>3 DEF StreamReset, OwedAtReset, StreamInv, Phases, TypeOK, CoreType, StreamType,
            DebtType, countVars, shipVars, kernelVars
    <2>2. Faults'
      BY <1>3 DEF StreamReset, OwedAtReset, StreamInv, Faults, TypeOK, FaultType, CoreType,
            countVars, shipVars, kernelVars
    <2>3. Clears'
      BY <1>3 DEF StreamReset, OwedAtReset, StreamInv, Clears, Phases, Faults, Doubt, Playing,
            TypeOK, StreamType, ShipType, KernelType, FaultType, RunType, CountType, countVars,
            shipVars, kernelVars
    <2>4. Base'
      BY <1>3 DEF StreamReset, OwedAtReset, StreamInv, Base, Clears, Phases, Faults, NotPlayed,
            Doubt, Playing, TypeOK, CountType, ShipType, KernelType, FaultType, RunType,
            countVars, shipVars, kernelVars
    <2>5. Position'
      BY <1>3 DEF StreamReset, OwedAtReset, StreamInv, Position, Phases, Clears, Base, Faults,
            NotPlayed, Doubt, Accounted, InFlight, Playing, TypeOK, CoreType, StreamType,
            CountType, DebtType, ShipType, KernelType, FaultType, RunType, countVars, shipVars,
            kernelVars
    <2> QED BY <2>1, <2>2, <2>3, <2>4, <2>5 DEF StreamInv
  <1>4. CASE StreamResetStop
    <2>1. Phases'
      BY <1>4 DEF StreamResetStop, StopAnswers, Playing, StreamInv, Phases, TypeOK, CoreType,
            StreamType, DebtType, streamVars, runVars, countVars, debtVars, faultVars, shipVars
    <2>2. Faults'
      BY <1>4 DEF StreamResetStop, StopAnswers, Playing, StreamInv, Faults, TypeOK, FaultType,
            CoreType, streamVars, runVars, countVars, debtVars, faultVars, shipVars
    <2>3. Clears'
      BY <1>4 DEF StreamResetStop, StopAnswers, Playing, StreamInv, Clears, Phases, Doubt, TypeOK,
            StreamType, ShipType, KernelType, FaultType, RunType, CountType, streamVars, runVars,
            countVars, debtVars, faultVars, shipVars
    <2>4. Base'
      BY <1>4 DEF StreamResetStop, StopAnswers, Playing, StreamInv, Base, Clears, Phases,
            NotPlayed, Doubt, TypeOK, CountType, ShipType, KernelType, FaultType, RunType,
            streamVars, runVars, countVars, debtVars, faultVars, shipVars
    <2>5. Position'
      BY <1>4 DEF StreamResetStop, StopAnswers, Playing, StreamInv, Position, Phases, Clears,
            Base, Faults, NotPlayed, Doubt, Accounted, InFlight, TypeOK, CoreType, StreamType,
            CountType, DebtType, ShipType, KernelType, FaultType, RunType, streamVars, runVars,
            countVars, debtVars, faultVars, shipVars
    <2> QED BY <2>1, <2>2, <2>3, <2>4, <2>5 DEF StreamInv
  <1>5. ASSUME NEW late \in BOOLEAN, Readback(late) PROVE StreamInv'
    <2>1. Phases'
      BY <1>5 DEF Readback, ReferenceHolds, StreamInv, Phases, TypeOK, CoreType, StreamType,
            DebtType, streamVars, runVars, countVars, faultVars, shipVars, kernelVars
    <2>2. Faults'
      BY <1>5 DEF Readback, ReferenceHolds, StreamInv, Faults, TypeOK, FaultType, CoreType,
            streamVars, runVars, countVars, faultVars, shipVars, kernelVars
    <2>3. Clears'
      BY <1>5 DEF Readback, ReferenceHolds, StreamInv, Clears, Phases, Doubt, Playing, TypeOK,
            StreamType, ShipType, KernelType, FaultType, RunType, CountType, streamVars, runVars,
            countVars, faultVars, shipVars, kernelVars
    <2>4. Base'
      BY <1>5 DEF Readback, ReferenceHolds, StreamInv, Base, Clears, Phases, NotPlayed, Doubt,
            Playing, TypeOK, CountType, ShipType, KernelType, FaultType, RunType, streamVars,
            runVars, countVars, faultVars, shipVars, kernelVars
    <2>5. Position'
      BY <1>5 DEF Readback, ReferenceHolds, StreamInv, Position, Phases, Clears, Base, Faults,
            NotPlayed, Doubt, Accounted, InFlight, Playing, TypeOK, CoreType, StreamType,
            CountType, DebtType, ShipType, KernelType, FaultType, RunType, streamVars, runVars,
            countVars, faultVars, shipVars, kernelVars
    <2> QED BY <2>1, <2>2, <2>3, <2>4, <2>5 DEF StreamInv
  <1> QED BY <1>1, <1>2, <1>3, <1>4, <1>5 DEF Reset

LEMMA ShipperInv == ASSUME TypeOK, StreamInv, Shipper PROVE StreamInv'
  <1>1. CASE ClearApply
    <2>1. Phases'
      BY <1>1 DEF ClearApply, CountsFresh, ClearDone, StreamInv, Phases, TypeOK, CoreType,
            StreamType, DebtType, coreVars, streamVars, faultVars, kernelVars, debtVars
    <2>2. Faults'
      BY <1>1 DEF ClearApply, CountsFresh, ClearDone, StreamInv, Faults, TypeOK, FaultType,
            CoreType, coreVars, streamVars, faultVars, kernelVars
    <2>3. Clears'
      BY <1>1 DEF ClearApply, CountsFresh, ClearDone, StreamInv, Clears, Phases, Doubt, Playing,
            TypeOK, StreamType, ShipType, KernelType, FaultType, RunType, CountType, coreVars,
            streamVars, faultVars, kernelVars, debtVars
    <2>4. Base'
      BY <1>1 DEF ClearApply, CountsFresh, ClearDone, StreamInv, Base, Clears, Phases, NotPlayed,
            Doubt, Playing, TypeOK, CountType, ShipType, KernelType, FaultType, RunType, coreVars,
            streamVars, faultVars, kernelVars, debtVars
    <2>5. Position'
      <3>1. CASE got = -1 /\ readback = "wait"
        BY <1>1, <3>1 DEF ClearApply, CountsFresh, ClearDone, StreamInv, Position, Phases,
              Clears, Base, Faults, NotPlayed, Doubt, Accounted, InFlight, Playing, TypeOK,
              CoreType, StreamType, CountType, DebtType, ShipType, KernelType, FaultType, RunType,
              coreVars, streamVars, faultVars, kernelVars, debtVars
      <3>2. CASE got = -1 /\ readback # "wait"
        BY <1>1, <3>2 DEF ClearApply, CountsFresh, ClearDone, StreamInv, Position, Phases,
              Clears, Base, Faults, NotPlayed, Doubt, Accounted, InFlight, Playing, TypeOK,
              CoreType, StreamType, CountType, DebtType, ShipType, KernelType, FaultType, RunType,
              coreVars, streamVars, faultVars, kernelVars, debtVars
      <3>3. CASE got # -1 /\ zeros /\ readback = "wait"
        BY <1>1, <3>3 DEF ClearApply, CountsFresh, ClearDone, StreamInv, Position, Phases,
              Clears, Base, Faults, NotPlayed, Doubt, Accounted, InFlight, Playing, TypeOK,
              CoreType, StreamType, CountType, DebtType, ShipType, KernelType, FaultType, RunType,
              coreVars, streamVars, faultVars, kernelVars, debtVars
      <3>4. CASE got # -1 /\ zeros /\ readback # "wait"
        BY <1>1, <3>4 DEF ClearApply, CountsFresh, ClearDone, StreamInv, Position, Phases,
              Clears, Base, Faults, NotPlayed, Doubt, Accounted, InFlight, Playing, TypeOK,
              CoreType, StreamType, CountType, DebtType, ShipType, KernelType, FaultType, RunType,
              coreVars, streamVars, faultVars, kernelVars, debtVars
      <3>5. CASE got # -1 /\ ~zeros /\ readback = "wait"
        BY <1>1, <3>5 DEF ClearApply, CountsFresh, ClearDone, StreamInv, Position, Phases,
              Clears, Base, Faults, NotPlayed, Doubt, Accounted, InFlight, Playing, TypeOK,
              CoreType, StreamType, CountType, DebtType, ShipType, KernelType, FaultType, RunType,
              coreVars, streamVars, faultVars, kernelVars, debtVars
      <3>6. CASE got # -1 /\ ~zeros /\ readback # "wait"
        BY <1>1, <3>6 DEF ClearApply, CountsFresh, ClearDone, StreamInv, Position, Phases,
              Clears, Base, Faults, NotPlayed, Doubt, Accounted, InFlight, Playing, TypeOK,
              CoreType, StreamType, CountType, DebtType, ShipType, KernelType, FaultType, RunType,
              coreVars, streamVars, faultVars, kernelVars, debtVars
      <3> QED BY <3>1, <3>2, <3>3, <3>4, <3>5, <3>6
    <2> QED BY <2>1, <2>2, <2>3, <2>4, <2>5 DEF StreamInv
  <1>2. CASE PendingRun
    <2>1. Phases'
      BY <1>2 DEF PendingRun, Playing, StreamInv, Phases, TypeOK, CoreType, StreamType, DebtType,
            coreVars, streamVars, countVars, debtVars, kernelVars
    <2>2. Faults'
      BY <1>2 DEF PendingRun, Playing, StreamInv, Faults, TypeOK, FaultType, CoreType, coreVars,
            streamVars, countVars, debtVars, kernelVars
    <2>3. Clears'
      BY <1>2 DEF PendingRun, Playing, StreamInv, Clears, Phases, Doubt, TypeOK, StreamType,
            ShipType, KernelType, FaultType, RunType, CountType, coreVars, streamVars, countVars,
            debtVars, kernelVars
    <2>4. Base'
      BY <1>2 DEF PendingRun, Playing, StreamInv, Base, Clears, Phases, NotPlayed, Doubt, TypeOK,
            CountType, ShipType, KernelType, FaultType, RunType, coreVars, streamVars, countVars,
            debtVars, kernelVars
    <2>5. Position'
      BY <1>2 DEF PendingRun, Playing, StreamInv, Position, Phases, Clears, Base, Faults,
            NotPlayed, Doubt, Accounted, InFlight, TypeOK, CoreType, StreamType, CountType,
            DebtType, ShipType, KernelType, FaultType, RunType, coreVars, streamVars, countVars,
            debtVars, kernelVars
    <2> QED BY <2>1, <2>2, <2>3, <2>4, <2>5 DEF StreamInv
  <1>3. CASE StreamEnd
    <2>1. Phases'
      BY <1>3 DEF StreamEnd, StreamInv, Phases, TypeOK, CoreType, StreamType, DebtType, coreVars,
            streamVars, countVars, debtVars, faultVars
    <2>2. Faults'
      BY <1>3 DEF StreamEnd, StreamInv, Faults, TypeOK, FaultType, CoreType, coreVars, streamVars,
            countVars, debtVars, faultVars
    <2>3. Clears'
      BY <1>3 DEF StreamEnd, StreamInv, Clears, Phases, Doubt, Playing, TypeOK, StreamType,
            ShipType, KernelType, FaultType, RunType, CountType, coreVars, streamVars, countVars,
            debtVars, faultVars
    <2>4. Base'
      BY <1>3 DEF StreamEnd, StreamInv, Base, Clears, Phases, NotPlayed, Doubt, Playing, TypeOK,
            CountType, ShipType, KernelType, FaultType, RunType, coreVars, streamVars, countVars,
            debtVars, faultVars
    <2>5. Position'
      BY <1>3 DEF StreamEnd, StreamInv, Position, Phases, Clears, Base, Faults, NotPlayed, Doubt,
            Accounted, InFlight, Playing, TypeOK, CoreType, StreamType, CountType, DebtType,
            ShipType, KernelType, FaultType, RunType, coreVars, streamVars, countVars, debtVars,
            faultVars
    <2> QED BY <2>1, <2>2, <2>3, <2>4, <2>5 DEF StreamInv
  <1>4. CASE ShipCount
    <2>1. Phases'
      BY <1>4 DEF ShipCount, StreamInv, Phases, TypeOK, CoreType, StreamType, DebtType, coreVars,
            streamVars, debtVars, faultVars, kernelVars
    <2>2. Faults'
      BY <1>4 DEF ShipCount, StreamInv, Faults, TypeOK, FaultType, CoreType, coreVars, streamVars,
            debtVars, faultVars, kernelVars
    <2>3. Clears'
      BY <1>4 DEF ShipCount, StreamInv, Clears, Phases, Doubt, Playing, TypeOK, StreamType,
            ShipType, KernelType, FaultType, RunType, CountType, coreVars, streamVars, debtVars,
            faultVars, kernelVars
    <2>4. Base'
      BY <1>4 DEF ShipCount, StreamInv, Base, Clears, Phases, NotPlayed, Doubt, Playing, TypeOK,
            CountType, ShipType, KernelType, FaultType, RunType, coreVars, streamVars, debtVars,
            faultVars, kernelVars
    <2>5. Position'
      BY <1>4 DEF ShipCount, StreamInv, Position, Phases, Clears, Base, Faults, NotPlayed, Doubt,
            Accounted, InFlight, Playing, TypeOK, CoreType, StreamType, CountType, DebtType,
            ShipType, KernelType, FaultType, RunType, coreVars, streamVars, debtVars, faultVars,
            kernelVars
    <2> QED BY <2>1, <2>2, <2>3, <2>4, <2>5 DEF StreamInv
  <1>5. CASE ShipFailed
    <2>1. Phases'
      BY <1>5 DEF ShipFailed, StreamInv, Phases, TypeOK, CoreType, StreamType, DebtType, coreVars,
            streamVars, runVars, kernelVars
    <2>2. Faults'
      BY <1>5 DEF ShipFailed, StreamInv, Faults, TypeOK, FaultType, CoreType, coreVars,
            streamVars, runVars, kernelVars
    <2>3. Clears'
      BY <1>5 DEF ShipFailed, StreamInv, Clears, Phases, Doubt, Playing, TypeOK, StreamType,
            ShipType, KernelType, FaultType, RunType, CountType, coreVars, streamVars, runVars,
            kernelVars
    <2>4. Base'
      BY <1>5 DEF ShipFailed, StreamInv, Base, Clears, Phases, NotPlayed, Doubt, Playing, TypeOK,
            CountType, ShipType, KernelType, FaultType, RunType, coreVars, streamVars, runVars,
            kernelVars
    <2>5. Position'
      BY <1>5 DEF ShipFailed, StreamInv, Position, Phases, Clears, Base, Faults, NotPlayed, Doubt,
            Accounted, InFlight, Playing, TypeOK, CoreType, StreamType, CountType, DebtType,
            ShipType, KernelType, FaultType, RunType, coreVars, streamVars, runVars, kernelVars
    <2> QED BY <2>1, <2>2, <2>3, <2>4, <2>5 DEF StreamInv
  <1>6. CASE RunStarts
    <2>1. Phases'
      BY <1>6 DEF RunStarts, StreamInv, Phases, TypeOK, CoreType, StreamType, DebtType, coreVars,
            streamVars, runVars, countVars, debtVars, faultVars
    <2>2. Faults'
      BY <1>6 DEF RunStarts, StreamInv, Faults, TypeOK, FaultType, CoreType, coreVars, streamVars,
            runVars, countVars, debtVars, faultVars
    <2>3. Clears'
      BY <1>6 DEF RunStarts, StreamInv, Clears, Phases, Doubt, Playing, TypeOK, StreamType,
            ShipType, KernelType, FaultType, RunType, CountType, coreVars, streamVars, runVars,
            countVars, debtVars, faultVars
    <2>4. Base'
      BY <1>6 DEF RunStarts, StreamInv, Base, Clears, Phases, NotPlayed, Doubt, Playing, TypeOK,
            CountType, ShipType, KernelType, FaultType, RunType, coreVars, streamVars, runVars,
            countVars, debtVars, faultVars
    <2>5. Position'
      BY <1>6 DEF RunStarts, StreamInv, Position, Phases, Clears, Base, Faults, NotPlayed, Doubt,
            Accounted, InFlight, Playing, TypeOK, CoreType, StreamType, CountType, DebtType,
            ShipType, KernelType, FaultType, RunType, coreVars, streamVars, runVars, countVars,
            debtVars, faultVars
    <2> QED BY <2>1, <2>2, <2>3, <2>4, <2>5 DEF StreamInv
  <1>7. CASE RunRetry
    <2>1. Phases'
      BY <1>7 DEF RunRetry, StreamInv, Phases, TypeOK, CoreType, StreamType, DebtType, streamVars,
            runVars, countVars, debtVars, faultVars, shipVars
    <2>2. Faults'
      BY <1>7 DEF RunRetry, StreamInv, Faults, TypeOK, FaultType, CoreType, streamVars, runVars,
            countVars, debtVars, faultVars, shipVars
    <2>3. Clears'
      BY <1>7 DEF RunRetry, StreamInv, Clears, Phases, Doubt, Playing, TypeOK, StreamType,
            ShipType, KernelType, FaultType, RunType, CountType, streamVars, runVars, countVars,
            debtVars, faultVars, shipVars
    <2>4. Base'
      BY <1>7 DEF RunRetry, StreamInv, Base, Clears, Phases, NotPlayed, Doubt, Playing, TypeOK,
            CountType, ShipType, KernelType, FaultType, RunType, streamVars, runVars, countVars,
            debtVars, faultVars, shipVars
    <2>5. Position'
      BY <1>7 DEF RunRetry, StreamInv, Position, Phases, Clears, Base, Faults, NotPlayed, Doubt,
            Accounted, InFlight, Playing, TypeOK, CoreType, StreamType, CountType, DebtType,
            ShipType, KernelType, FaultType, RunType, streamVars, runVars, countVars, debtVars,
            faultVars, shipVars
    <2> QED BY <2>1, <2>2, <2>3, <2>4, <2>5 DEF StreamInv
  <1>8. CASE RunRefused
    <2>1. Phases'
      BY <1>8 DEF RunRefused, StreamInv, Phases, TypeOK, CoreType, StreamType, DebtType, coreVars,
            streamVars, runVars, countVars, debtVars
    <2>2. Faults'
      BY <1>8 DEF RunRefused, StreamInv, Faults, TypeOK, FaultType, CoreType, coreVars,
            streamVars, runVars, countVars, debtVars
    <2>3. Clears'
      BY <1>8 DEF RunRefused, StreamInv, Clears, Phases, Doubt, Playing, TypeOK, StreamType,
            ShipType, KernelType, FaultType, RunType, CountType, coreVars, streamVars, runVars,
            countVars, debtVars
    <2>4. Base'
      BY <1>8 DEF RunRefused, StreamInv, Base, Clears, Phases, NotPlayed, Doubt, Playing, TypeOK,
            CountType, ShipType, KernelType, FaultType, RunType, coreVars, streamVars, runVars,
            countVars, debtVars
    <2>5. Position'
      BY <1>8 DEF RunRefused, StreamInv, Position, Phases, Clears, Base, Faults, NotPlayed, Doubt,
            Accounted, InFlight, Playing, TypeOK, CoreType, StreamType, CountType, DebtType,
            ShipType, KernelType, FaultType, RunType, coreVars, streamVars, runVars, countVars,
            debtVars
    <2> QED BY <2>1, <2>2, <2>3, <2>4, <2>5 DEF StreamInv
  <1>9. CASE CheckSnapshot
    <2>1. Phases'
      BY <1>9 DEF CheckSnapshot, StreamInv, Phases, TypeOK, CoreType, StreamType, DebtType,
            coreVars, streamVars, runVars, countVars, debtVars, faultVars, kernelVars
    <2>2. Faults'
      BY <1>9 DEF CheckSnapshot, StreamInv, Faults, TypeOK, FaultType, CoreType, coreVars,
            streamVars, runVars, countVars, debtVars, faultVars, kernelVars
    <2>3. Clears'
      BY <1>9 DEF CheckSnapshot, StreamInv, Clears, Phases, Doubt, Playing, TypeOK, StreamType,
            ShipType, KernelType, FaultType, RunType, CountType, coreVars, streamVars, runVars,
            countVars, debtVars, faultVars, kernelVars
    <2>4. Base'
      BY <1>9 DEF CheckSnapshot, StreamInv, Base, Clears, Phases, NotPlayed, Doubt, Playing,
            TypeOK, CountType, ShipType, KernelType, FaultType, RunType, coreVars, streamVars,
            runVars, countVars, debtVars, faultVars, kernelVars
    <2>5. Position'
      BY <1>9 DEF CheckSnapshot, StreamInv, Position, Phases, Clears, Base, Faults, NotPlayed,
            Doubt, Accounted, InFlight, Playing, TypeOK, CoreType, StreamType, CountType,
            DebtType, ShipType, KernelType, FaultType, RunType, coreVars, streamVars, runVars,
            countVars, debtVars, faultVars, kernelVars
    <2> QED BY <2>1, <2>2, <2>3, <2>4, <2>5 DEF StreamInv
  <1>10. CASE CheckRead
    <2>1. Phases'
      BY <1>10 DEF CheckRead, Playing, StreamInv, Phases, TypeOK, CoreType, StreamType, DebtType,
            coreVars, streamVars, runVars, countVars, debtVars, kernelVars
    <2>2. Faults'
      BY <1>10 DEF CheckRead, Playing, StreamInv, Faults, TypeOK, FaultType, CoreType, coreVars,
            streamVars, runVars, countVars, debtVars, kernelVars
    <2>3. Clears'
      BY <1>10 DEF CheckRead, Playing, StreamInv, Clears, Phases, Doubt, TypeOK, StreamType,
            ShipType, KernelType, FaultType, RunType, CountType, coreVars, streamVars, runVars,
            countVars, debtVars, kernelVars
    <2>4. Base'
      BY <1>10 DEF CheckRead, Playing, StreamInv, Base, Clears, Phases, NotPlayed, Doubt, TypeOK,
            CountType, ShipType, KernelType, FaultType, RunType, coreVars, streamVars, runVars,
            countVars, debtVars, kernelVars
    <2>5. Position'
      BY <1>10 DEF CheckRead, Playing, StreamInv, Position, Phases, Clears, Base, Faults,
            NotPlayed, Doubt, Accounted, InFlight, TypeOK, CoreType, StreamType, CountType,
            DebtType, ShipType, KernelType, FaultType, RunType, coreVars, streamVars, runVars,
            countVars, debtVars, kernelVars
    <2> QED BY <2>1, <2>2, <2>3, <2>4, <2>5 DEF StreamInv
  <1>11. CASE Report
    <2>1. Phases'
      BY <1>11 DEF Report, StreamInv, Phases, TypeOK, CoreType, StreamType, DebtType, coreVars,
            streamVars, runVars, countVars, debtVars, kernelVars
    <2>2. Faults'
      BY <1>11 DEF Report, StreamInv, Faults, TypeOK, FaultType, CoreType, coreVars, streamVars,
            runVars, countVars, debtVars, kernelVars
    <2>3. Clears'
      BY <1>11 DEF Report, StreamInv, Clears, Phases, Doubt, Playing, TypeOK, StreamType,
            ShipType, KernelType, FaultType, RunType, CountType, coreVars, streamVars, runVars,
            countVars, debtVars, kernelVars
    <2>4. Base'
      BY <1>11 DEF Report, StreamInv, Base, Clears, Phases, NotPlayed, Doubt, Playing, TypeOK,
            CountType, ShipType, KernelType, FaultType, RunType, coreVars, streamVars, runVars,
            countVars, debtVars, kernelVars
    <2>5. Position'
      BY <1>11 DEF Report, StreamInv, Position, Phases, Clears, Base, Faults, NotPlayed, Doubt,
            Accounted, InFlight, Playing, TypeOK, CoreType, StreamType, CountType, DebtType,
            ShipType, KernelType, FaultType, RunType, coreVars, streamVars, runVars, countVars,
            debtVars, kernelVars
    <2> QED BY <2>1, <2>2, <2>3, <2>4, <2>5 DEF StreamInv
  <1>12. ASSUME NEW ok \in BOOLEAN, NEW read \in BOOLEAN, ClearSeek(ok, read) PROVE StreamInv'
    <2>1. Phases'
      BY <1>12 DEF ClearSeek, Playing, StreamInv, Phases, TypeOK, CoreType, StreamType, DebtType,
            coreVars, streamVars, runVars, debtVars, faultVars
    <2>2. Faults'
      BY <1>12 DEF ClearSeek, Playing, StreamInv, Faults, TypeOK, FaultType, CoreType, coreVars,
            streamVars, runVars, debtVars, faultVars
    <2>3. Clears'
      BY <1>12 DEF ClearSeek, Playing, StreamInv, Clears, Phases, Doubt, TypeOK, StreamType,
            ShipType, KernelType, FaultType, RunType, CountType, coreVars, streamVars, runVars,
            debtVars, faultVars
    <2>4. Base'
      BY <1>12 DEF ClearSeek, Playing, StreamInv, Base, Clears, Phases, NotPlayed, Doubt, TypeOK,
            CountType, ShipType, KernelType, FaultType, RunType, coreVars, streamVars, runVars,
            debtVars, faultVars
    <2>5. Position'
      BY <1>12 DEF ClearSeek, Playing, StreamInv, Position, Phases, Clears, Base, Faults,
            NotPlayed, Doubt, Accounted, InFlight, TypeOK, CoreType, StreamType, CountType,
            DebtType, ShipType, KernelType, FaultType, RunType, coreVars, streamVars, runVars,
            debtVars, faultVars
    <2> QED BY <2>1, <2>2, <2>3, <2>4, <2>5 DEF StreamInv
  <1>13. ASSUME NEW s \in 0 .. MaxSteps, NEW pad \in 0 .. 1, Ship(s, pad) PROVE StreamInv'
    <2>1. Phases'
      BY <1>13 DEF Ship, Shippable, StreamInv, Phases, TypeOK, CoreType, StreamType, DebtType,
            coreVars, countVars, debtVars, faultVars, kernelVars
    <2>2. Faults'
      BY <1>13 DEF Ship, Shippable, StreamInv, Faults, TypeOK, FaultType, CoreType, coreVars,
            countVars, debtVars, faultVars, kernelVars
    <2>3. Clears'
      BY <1>13 DEF Ship, Shippable, StreamInv, Clears, Phases, Doubt, Playing, TypeOK, StreamType,
            ShipType, KernelType, FaultType, RunType, CountType, coreVars, countVars, debtVars,
            faultVars, kernelVars
    <2>4. Base'
      BY <1>13 DEF Ship, Shippable, StreamInv, Base, Clears, Phases, NotPlayed, Doubt, Playing,
            TypeOK, CountType, ShipType, KernelType, FaultType, RunType, coreVars, countVars,
            debtVars, faultVars, kernelVars
    <2>5. Position'
      BY <1>13 DEF Ship, Shippable, StreamInv, Position, Phases, Clears, Base, Faults, NotPlayed,
            Doubt, Accounted, InFlight, Playing, TypeOK, CoreType, StreamType, CountType,
            DebtType, ShipType, KernelType, FaultType, RunType, coreVars, countVars, debtVars,
            faultVars, kernelVars
    <2> QED BY <2>1, <2>2, <2>3, <2>4, <2>5 DEF StreamInv
  <1>14. ASSUME NEW b \in 0 .. MaxBytes, NEW s \in 0 .. MaxSteps, ShipWrite(b, s) PROVE StreamInv'
    <2>1. Phases'
      BY <1>14 DEF ShipWrite, StreamInv, Phases, TypeOK, CoreType, StreamType, DebtType, coreVars,
            streamVars, runVars, countVars, debtVars, faultVars
    <2>2. Faults'
      BY <1>14 DEF ShipWrite, StreamInv, Faults, TypeOK, FaultType, CoreType, coreVars,
            streamVars, runVars, countVars, debtVars, faultVars
    <2>3. Clears'
      BY <1>14 DEF ShipWrite, StreamInv, Clears, Phases, Doubt, Playing, TypeOK, StreamType,
            ShipType, KernelType, FaultType, RunType, CountType, coreVars, streamVars, runVars,
            countVars, debtVars, faultVars
    <2>4. Base'
      BY <1>14 DEF ShipWrite, StreamInv, Base, Clears, Phases, NotPlayed, Doubt, Playing, TypeOK,
            CountType, ShipType, KernelType, FaultType, RunType, coreVars, streamVars, runVars,
            countVars, debtVars, faultVars
    <2>5. Position'
      BY <1>14 DEF ShipWrite, StreamInv, Position, Phases, Clears, Base, Faults, NotPlayed, Doubt,
            Accounted, InFlight, Playing, TypeOK, CoreType, StreamType, CountType, DebtType,
            ShipType, KernelType, FaultType, RunType, coreVars, streamVars, runVars, countVars,
            debtVars, faultVars
    <2> QED BY <2>1, <2>2, <2>3, <2>4, <2>5 DEF StreamInv
  <1>15. ASSUME NEW read \in BOOLEAN, RunGate(read) PROVE StreamInv'
    <2>1. Phases'
      BY <1>15 DEF RunGate, RingIsOwn, Playing, StreamInv, Phases, TypeOK, CoreType, StreamType,
            DebtType, coreVars, streamVars, countVars, debtVars, kernelVars
    <2>2. Faults'
      BY <1>15 DEF RunGate, RingIsOwn, Playing, StreamInv, Faults, TypeOK, FaultType, CoreType,
            coreVars, streamVars, countVars, debtVars, kernelVars
    <2>3. Clears'
      BY <1>15 DEF RunGate, RingIsOwn, Playing, StreamInv, Clears, Phases, Doubt, TypeOK,
            StreamType, ShipType, KernelType, FaultType, RunType, CountType, coreVars, streamVars,
            countVars, debtVars, kernelVars
    <2>4. Base'
      BY <1>15 DEF RunGate, RingIsOwn, Playing, StreamInv, Base, Clears, Phases, NotPlayed, Doubt,
            TypeOK, CountType, ShipType, KernelType, FaultType, RunType, coreVars, streamVars,
            countVars, debtVars, kernelVars
    <2>5. Position'
      BY <1>15 DEF RunGate, RingIsOwn, Playing, StreamInv, Position, Phases, Clears, Base, Faults,
            NotPlayed, Doubt, Accounted, InFlight, TypeOK, CoreType, StreamType, CountType,
            DebtType, ShipType, KernelType, FaultType, RunType, coreVars, streamVars, countVars,
            debtVars, kernelVars
    <2> QED BY <2>1, <2>2, <2>3, <2>4, <2>5 DEF StreamInv
  <1> QED BY <1>1, <1>2, <1>3, <1>4, <1>5, <1>6, <1>7, <1>8, <1>9, <1>10, <1>11, <1>12, <1>13,
             <1>14, <1>15 DEF Shipper

LEMMA StreamInvInit == Init => StreamInv
BY PulseStreamAssumption DEF Init, StreamInv, Phases, Faults, Clears, Base, Position, Doubt,
      InFlight, Accounted, NotPlayed, Playing

LEMMA StreamInvStutter == ASSUME StreamInv, UNCHANGED vars PROVE StreamInv'
BY DEF StreamInv, Phases, Faults, Clears, Base, Position, Doubt, InFlight, Accounted, NotPlayed,
      Playing, vars, coreVars, streamVars, runVars, countVars, debtVars, faultVars, shipVars,
      kernelVars, boundVars

\* The invariant holds throughout.
LEMMA StreamInvariant == Spec => [](TypeOK /\ StreamInv)
  <1>1. TypeOK /\ StreamInv /\ [Next]_vars => StreamInv'
    <2> SUFFICES ASSUME TypeOK, StreamInv, [Next]_vars PROVE StreamInv'
      OBVIOUS
    <2>1. CASE Kernel
      BY <2>1, KernelInv
    <2>2. CASE Core
      BY <2>2, CoreInv
    <2>3. CASE Reset
      BY <2>3, ResetInv
    <2>4. CASE Shipper
      BY <2>4, ShipperInv
    <2>5. CASE UNCHANGED vars
      BY <2>5, StreamInvStutter
    <2> QED BY <2>1, <2>2, <2>3, <2>4, <2>5 DEF Next
  <1> QED BY <1>1, StreamInvInit, TypeCorrect, PTL DEF Spec

\* gf_stream_wakeup to driverReset: no step the core has counted goes missing
\* while the homing reference holds, over any number of streams, resets,
\* faults, failed writes and homes, but for the steps gf_stream_wakeup's fresh
\* index space began over, and by those the position is wrong exactly.
THEOREM PositionIsKept == Spec => []PositionKept
  <1>1. TypeOK /\ StreamInv => PositionKept
    BY DEF StreamInv, Position, Doubt, Accounted, InFlight, PositionKept, Quiet, TypeOK, CoreType,
          FaultType, ShipType
  <1> QED BY <1>1, StreamInvariant, PTL

\* gf_stream_reset and pending_pass: a read-back that succeeds subtracts the
\* steps that never played, exactly: only the steps a fresh stream began over
\* stay in the position.
THEOREM ReadbackIsExact == Spec => []ReadbackExact
  <1>1. TypeOK /\ StreamInv => ReadbackExact
    BY DEF StreamInv, Position, Faults, Clears, Phases, Doubt, ReadbackExact, TypeOK, CoreType,
          FaultType, ShipType, KernelType, DebtType
  <1> QED BY <1>1, StreamInvariant, PTL

\* rebase_locked: a valid base and the counters since it say what is in the
\* kernel's ring, over every interleaving of streams, clears, homes and faults,
\* and of streams begun back to back.
THEOREM BaseIsSound == Spec => []BaseSound
  <1>1. TypeOK /\ StreamInv => BaseSound
    BY DEF StreamInv, Base, NotPlayed, BaseSound, TypeOK, CountType, ShipType, KernelType
  <1> QED BY <1>1, StreamInvariant, PTL

-----------------------------------------------------------------------------
(* A run and the ring it starts over.                                      *)

\* Where the shipper holds a chunk, or a run it is about to ask for.
Passing == {"write", "landed", "torn", "gate", "issue"}

\* A reset between its change under gf.lock and its stop, and a clear that is
\* owed: the stream has nothing to ship, and the shipper's pass is an old one.
ResetOrder ==
    /\ ppc = "stop" => ~streaming /\ backlog = 0
    /\ (ppc = "stop" /\ ~clear_pending) => spc \notin Passing
    /\ (clear_pending /\ ppc # "stop" /\ kstate \in {"running", "underrun"}) => spc \notin Passing
    /\ spc \in Passing => kernel_running \/ clear_pending
    /\ spc = "report" => failed \/ clear_pending

\* A kernel in an underrun has an empty ring, but for what the running stream
\* has written since, which the next look at the kernel fails, and for what a
\* reset's stop is on its way to acknowledge.
UnderrunDry ==
    (kstate = "underrun" /\ ppc # "stop" /\ ringB # 0) =>
        /\ ~clear_pending
        /\ spc \in {"top", "after", "check", "report", "clear"} =>
              failed \/ (kernel_running /\ spc \in {"after", "check"})

\* The first chunk of a run, from its write to the request of the run.
FirstOwn ==
    /\ (first /\ spc \in {"write", "landed"}) => run_base = written
    /\ spc = "issue" => ~Playing
    /\ (~failed /\ ~clear_pending /\ ringB # 0) =>
          /\ (first /\ kstate = "underrun") => spc # "write" /\ (spc = "landed" => ringB = chunk.b)
          /\ (spc = "gate" /\ kstate = "underrun") => ringB = written - run_base
          /\ (spc = "issue" /\ kstate # "fault") => ringB = written - run_base

OwnInv == ResetOrder /\ UnderrunDry /\ FirstOwn

\* The kernel reaches an underrun only with an empty ring.
LEMMA KernelOwn == ASSUME TypeOK, OwnInv, Kernel PROVE OwnInv'
  <1>1. CASE KernelRunOut
    BY <1>1 DEF KernelRunOut, OwnInv, ResetOrder, UnderrunDry, FirstOwn, Playing, coreVars,
       streamVars, runVars, faultVars, shipVars
  <1>2. CASE KernelRampEnd
    BY <1>2 DEF KernelRampEnd, OwnInv, ResetOrder, UnderrunDry, FirstOwn, Playing, coreVars,
       streamVars, runVars, faultVars, shipVars
  <1>3. CASE KernelStopped
    BY <1>3 DEF KernelStopped, OwnInv, ResetOrder, UnderrunDry, FirstOwn, Playing, coreVars,
       streamVars, runVars, faultVars, shipVars
  <1>4. ASSUME NEW s \in 0 .. 1, KernelPlay(s) PROVE OwnInv'
    BY <1>4 DEF KernelPlay, OwnInv, ResetOrder, UnderrunDry, FirstOwn, Playing, coreVars,
       streamVars, runVars, faultVars, shipVars
  <1> QED BY <1>1, <1>2, <1>3, <1>4 DEF Kernel

\* The core and the producer do not touch the ring; a late step's stop comes
\* with the fault.
LEMMA CoreOwn == ASSUME TypeOK, OwnInv, Core PROVE OwnInv'
  <1>1. CASE CallbackIdle
    BY <1>1 DEF CallbackIdle, GoIdle, Pulsed, OwnInv, ResetOrder, UnderrunDry, FirstOwn,
       Playing, runVars, faultVars, shipVars, kernelVars
  <1>2. CASE CycleComplete
    BY <1>2 DEF CycleComplete, OwnInv, ResetOrder, UnderrunDry, FirstOwn, Playing, runVars,
       faultVars, shipVars, kernelVars
  <1>3. CASE FaultTake
    BY <1>3 DEF FaultTake, OwnInv, ResetOrder, UnderrunDry, FirstOwn, Playing, runVars,
       shipVars, kernelVars
  <1>4. ASSUME NEW kept \in 0 .. MaxSteps, Wakeup(kept) PROVE OwnInv'
    BY <1>4 DEF Wakeup, OwnInv, ResetOrder, UnderrunDry, FirstOwn, Playing, runVars, faultVars,
       shipVars
  <1>5. ASSUME NEW s \in 0 .. 1, Callback(s) PROVE OwnInv'
    BY <1>5 DEF Callback, Pulsed, OwnInv, ResetOrder, UnderrunDry, FirstOwn, Playing, runVars,
       faultVars, shipVars, kernelVars
  <1>6. ASSUME NEW late \in BOOLEAN, PulseFault(late) PROVE OwnInv'
    BY <1>6 DEF PulseFault, StopAnswers, OwnInv, ResetOrder, UnderrunDry, FirstOwn, Playing,
       runVars, shipVars
  <1>7. ASSUME NEW ok \in BOOLEAN, ClearPosition(ok) PROVE OwnInv'
    BY <1>7 DEF ClearPosition, OwnInv, ResetOrder, UnderrunDry, FirstOwn, Playing, runVars,
       shipVars
  <1> QED BY <1>1, <1>2, <1>3, <1>4, <1>5, <1>6, <1>7 DEF Core

\* A reset that owes a clear writes its stop, which acknowledges an underrun.
LEMMA ResetOwn == ASSUME TypeOK, OwnInv, Reset PROVE OwnInv'
  <1>1. CASE ResetRaised
    BY <1>1 DEF ResetRaised, OwnInv, ResetOrder, UnderrunDry, FirstOwn, Playing, runVars,
       faultVars, shipVars, kernelVars
  <1>2. CASE ResetKill
    BY <1>2 DEF ResetKill, OwnInv, ResetOrder, UnderrunDry, FirstOwn, Playing, runVars,
       faultVars, shipVars, kernelVars
  <1>3. CASE StreamReset
    BY <1>3 DEF StreamReset, OwnInv, ResetOrder, UnderrunDry, FirstOwn, Playing, shipVars,
       kernelVars
  <1>4. CASE StreamResetStop
    BY <1>4 DEF StreamResetStop, StopAnswers, OwnInv, ResetOrder, UnderrunDry, FirstOwn,
       Passing, Playing, runVars, faultVars, shipVars
  <1>5. ASSUME NEW late \in BOOLEAN, Readback(late) PROVE OwnInv'
    BY <1>5 DEF Readback, OwnInv, ResetOrder, UnderrunDry, FirstOwn, Playing, runVars,
       faultVars, shipVars, kernelVars
  <1> QED BY <1>1, <1>2, <1>3, <1>4, <1>5 DEF Reset

\* The shipper: a first chunk is written over an empty ring or a counted one,
\* and the gate compares the counts.
LEMMA ShipperOwn == ASSUME TypeOK, OwnInv, Shipper PROVE OwnInv'
  <1>1. CASE ClearApply
    BY <1>1 DEF ClearApply, ClearDone, OwnInv, ResetOrder, UnderrunDry, FirstOwn, Passing,
       coreVars, streamVars, faultVars, kernelVars
  <1>2. CASE PendingRun
    BY <1>2 DEF PendingRun, OwnInv, ResetOrder, UnderrunDry, FirstOwn, Passing, coreVars,
       streamVars, kernelVars
  <1>3. CASE StreamEnd
    BY <1>3 DEF StreamEnd, OwnInv, ResetOrder, UnderrunDry, FirstOwn, Passing, coreVars,
       streamVars
  <1>4. CASE ShipCount
    BY <1>4 DEF ShipCount, OwnInv, ResetOrder, UnderrunDry, FirstOwn, Passing, TypeOK, RunType,
       KernelType, coreVars, streamVars, kernelVars
  <1>5. CASE ShipFailed
    BY <1>5 DEF ShipFailed, OwnInv, ResetOrder, UnderrunDry, FirstOwn, Passing, coreVars,
       streamVars, runVars, kernelVars
  <1>6. CASE RunStarts
    BY <1>6 DEF RunStarts, OwnInv, ResetOrder, UnderrunDry, FirstOwn, Passing, coreVars,
       streamVars
  <1>7. CASE RunRetry
    BY <1>7 DEF RunRetry, OwnInv, ResetOrder, UnderrunDry, FirstOwn, Playing, streamVars,
       runVars, faultVars, shipVars
  <1>8. CASE RunRefused
    BY <1>8 DEF RunRefused, OwnInv, ResetOrder, UnderrunDry, FirstOwn, Passing, coreVars,
       streamVars
  <1>9. CASE CheckSnapshot
    BY <1>9 DEF CheckSnapshot, OwnInv, ResetOrder, UnderrunDry, FirstOwn, Passing, coreVars,
       streamVars, runVars, faultVars, kernelVars
  <1>10. CASE CheckRead
    BY <1>10 DEF CheckRead, OwnInv, ResetOrder, UnderrunDry, FirstOwn, Passing, Playing,
       coreVars, streamVars, runVars, kernelVars
  <1>11. CASE Report
    BY <1>11 DEF Report, OwnInv, ResetOrder, UnderrunDry, FirstOwn, Passing, coreVars,
       streamVars, runVars, kernelVars
  <1>12. ASSUME NEW ok \in BOOLEAN, NEW read \in BOOLEAN, ClearSeek(ok, read) PROVE OwnInv'
    BY <1>12 DEF ClearSeek, OwnInv, ResetOrder, UnderrunDry, FirstOwn, Passing, coreVars,
       streamVars
  <1>13. ASSUME NEW s \in 0 .. MaxSteps, NEW pad \in 0 .. 1, Ship(s, pad) PROVE OwnInv'
    BY <1>13 DEF Ship, OwnInv, ResetOrder, UnderrunDry, FirstOwn, TypeOK, FaultType, coreVars,
       kernelVars
  <1>14. ASSUME NEW b \in 0 .. MaxBytes, NEW s \in 0 .. MaxSteps, ShipWrite(b, s) PROVE OwnInv'
    <2>1. ResetOrder'
      BY <1>14 DEF ShipWrite, OwnInv, ResetOrder, Passing, coreVars, streamVars, runVars
    <2>2. UnderrunDry'
      BY <1>14 DEF ShipWrite, OwnInv, ResetOrder, UnderrunDry, Passing, coreVars, runVars
    <2>3. FirstOwn'
      <3>1. (first /\ kstate = "underrun" /\ ~failed /\ ~clear_pending) => ringB = 0
        BY <1>14 DEF ShipWrite, OwnInv, FirstOwn
      <3>2. spc' = "landed" => b = chunk.b
        BY <1>14 DEF ShipWrite
      <3>3. ringB' = ringB + b /\ spc' \in {"landed", "torn"}
        BY <1>14 DEF ShipWrite
      <3>4. UNCHANGED <<first, failed, clear_pending, kstate, chunk, run_base, written>>
        BY <1>14 DEF ShipWrite, runVars, faultVars
      <3>5. first => run_base = written
        BY <1>14 DEF ShipWrite, OwnInv, FirstOwn
      <3>6. ringB \in Nat /\ b \in Nat /\ chunk.b \in Nat
        BY <1>14 DEF TypeOK, KernelType, ShipType
      <3> QED BY <3>1, <3>2, <3>3, <3>4, <3>5, <3>6 DEF FirstOwn, Playing
    <2> QED BY <2>1, <2>2, <2>3 DEF OwnInv
  <1>15. ASSUME NEW read \in BOOLEAN, RunGate(read) PROVE OwnInv'
    BY <1>15 DEF RunGate, RingIsOwn, OwnInv, ResetOrder, UnderrunDry, FirstOwn, Passing,
       Playing, TypeOK, RunType, KernelType, coreVars, streamVars, kernelVars
  <1> QED BY <1>1, <1>2, <1>3, <1>4, <1>5, <1>6, <1>7, <1>8, <1>9,
             <1>10, <1>11, <1>12, <1>13, <1>14, <1>15 DEF Shipper

LEMMA OwnInvariant == Spec => [](TypeOK /\ OwnInv)
  <1>1. Init => OwnInv
    BY DEF Init, OwnInv, ResetOrder, UnderrunDry, FirstOwn, Passing, Playing
  <1>2. TypeOK /\ OwnInv /\ [Next]_vars => OwnInv'
    <2> SUFFICES ASSUME TypeOK, OwnInv, [Next]_vars PROVE OwnInv'
      OBVIOUS
    <2>1. CASE UNCHANGED vars
      BY <2>1 DEF OwnInv, ResetOrder, UnderrunDry, FirstOwn, Playing, vars, coreVars, streamVars,
                  runVars, faultVars, shipVars, kernelVars
    <2> QED BY KernelOwn, CoreOwn, ResetOwn, ShipperOwn, <2>1 DEF Next
  <1> QED BY <1>1, <1>2, TypeCorrect, PTL DEF Spec

\* A run of a stream that no fault and no reset has ended starts only over the
\* bytes that stream wrote for it: run_gate's two counts decide it when the
\* kernel is idle, and an underrun it lets through has an empty ring or holds
\* the new stream's bytes only.
THEOREM RunStartsOwn == Spec => RunIsOwn
  <1>1. ASSUME TypeOK, OwnInv, [Next]_vars, kstate = "idle", kstate' = "running",
               ~failed, ~clear_pending
        PROVE  ringB = written - run_base
    <2>1. RunStarts
      <3>1. CASE Kernel
        BY <1>1, <3>1 DEF Kernel, KernelRunOut, KernelRampEnd, KernelStopped, KernelPlay, Playing
      <3>2. CASE Core
        BY <1>1, <3>2 DEF Core, CallbackIdle, CycleComplete, FaultTake, Wakeup, Callback,
             PulseFault, StopAnswers, Playing, ClearPosition, kernelVars
      <3>3. CASE Reset
        BY <1>1, <3>3 DEF Reset, ResetRaised, ResetKill, StreamReset, StreamResetStop, Readback,
             StopAnswers, Playing, kernelVars
      <3>4. CASE Shipper
        BY <1>1, <3>4 DEF Shipper, ClearApply, PendingRun, StreamEnd, ShipCount, ShipFailed,
             RunRetry, RunRefused, CheckSnapshot, CheckRead, Report, ClearSeek, Ship, ShipWrite,
             RunGate, kernelVars
      <3>5. CASE UNCHANGED vars
        BY <1>1, <3>5 DEF vars, kernelVars
      <3> QED BY <1>1, <3>1, <3>2, <3>3, <3>4, <3>5 DEF Next
    <2> QED BY <1>1, <2>1 DEF RunStarts, OwnInv, FirstOwn, TypeOK, KernelType
  <1>2. TypeOK /\ OwnInv /\ [Next]_vars
          => [(kstate = "idle" /\ kstate' = "running" /\ ~failed /\ ~clear_pending)
                => ringB = written - run_base]_vars
    BY <1>1
  <1> QED BY <1>2, OwnInvariant, PTL DEF Spec, RunIsOwn

=============================================================================
