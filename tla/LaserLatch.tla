----------------------------- MODULE LaserLatch -----------------------------
(***************************************************************************)
(* Who holds the laser latch shut, and when.                               *)
(*                                                                         *)
(* Three parties write cnc/laser_latch: the protocol thread (arming,       *)
(* refusing and disarming, glowforge_laser.c), the SCHED_FIFO shipper      *)
(* thread (the relight at a run start, issue_run in stepper_stream.c), and *)
(* the cooling engine, another process, which only ever locks.  The        *)
(* controller keeps a record of its own last write, latch_locked_by_us,    *)
(* and decides from the record, never from the hardware.                   *)
(*                                                                         *)
(* A step is what one thread does between two points where another thread  *)
(* can be seen: the shipper holds latch_mx from RunBegin to RunRecheck,    *)
(* the protocol thread takes it for one write at a time, and laser_armed   *)
(* and fire_gate are atomics that either thread reads at any time.  A      *)
(* write with its retries is one step that takes or fails.                 *)
(***************************************************************************)
EXTENDS Naturals

CONSTANTS
    MaxStuck,        (* bound: re-arm activations stuck in the suspend loop   *)
    MaxFailedWrites, (* bound: latch writes that fail after all their retries *)
    EmissionSensed   (* whether the emission witness may read a lit beam      *)

ASSUME LaserLatchAssumption ==
    /\ MaxStuck \in Nat
    /\ MaxFailedWrites \in Nat
    /\ EmissionSensed \in BOOLEAN

VARIABLES
    hw,                   \* the latch itself: "locked" or "unlocked" (external)
    latch_locked_by_us,   \* the record of this process's last write
    latch_fail_reported,  \* a failed write has been reported this episode
    failedWrites,         \* failed writes so far (bounded)
    laser_ok,             \* the armed window, protocol thread's copy
    laser_armed,          \* the armed window, the stream engine's atomic
    fire_gate,            \* the per-tick fire gate, atomic
    failed,               \* gf.failed: the stream has faulted
    fault_flag,           \* the fault the realtime hook has still to take
    stream,               \* motion whose bytes the shipper has still to ship
    st,                   \* the core's state
    waiting,              \* the button wait in progress: none, arm or rearm
    frames,               \* arm_complete activations waiting for the engine
    aborting,             \* a reset has unwound to an arm still on the stack
    pc,                   \* where the protocol thread is in a latch sequence
    unlocked,             \* gflaser_disarm's local of that name
    why,                  \* what called gflaser_disarm
    kind,                 \* which path entered the activations in frames
    locks,                \* latch_lock(true) calls a refusal has still to make
    spc,                  \* where the shipper is in issue_run
    relight, retried      \* issue_run's locals of those names

latchVars == <<hw, latch_locked_by_us, latch_fail_reported, failedWrites>>
windowVars == <<laser_ok, laser_armed, fire_gate>>
streamVars == <<failed, fault_flag, stream>>
armVars == <<waiting, frames, kind, aborting>>
protoVars == <<pc, unlocked, why, locks>>
shipVars == <<spc, relight, retried>>
vars == <<latchVars, windowVars, streamVars, st, armVars, protoVars, shipVars>>

States == {"idle", "cycle", "hold", "alarm"}
Waits == {"none", "arm", "rearm"}
ProtoSteps == {"poll", "close", "gate", "lock", "lockFault", "return",
               "refuse", "refuseFault"}
Callers == {"poll", "fault", "reset"}
ShipSteps == {"idle", "unlock", "unlockFault", "ask", "recheck"}

-----------------------------------------------------------------------------
(* The serialized writer.                                                  *)

\* latch_mx: only the shipper holds it over more than one step.
MutexFree == spc \notin {"unlock", "ask", "recheck"}

\* A write that takes: hardware, record and the end of a failure episode.
WriteTakes(lock) ==
    /\ hw' = IF lock THEN "locked" ELSE "unlocked"
    /\ latch_locked_by_us' = lock
    /\ latch_fail_reported' = FALSE
    /\ UNCHANGED failedWrites

\* A write that still fails after its retries leaves the record alone.
WriteFails ==
    /\ failedWrites < MaxFailedWrites
    /\ failedWrites' = failedWrites + 1
    /\ UNCHANGED <<hw, latch_locked_by_us, latch_fail_reported>>

\* Mutants: the record written whether or not the write took; an unlock that
\* does not look at the record.
Bug_RecordFirst(lock, ok) ==
    IF ~lock /\ ~latch_locked_by_us
    THEN ok /\ UNCHANGED latchVars
    ELSE IF ok THEN WriteTakes(lock)
         ELSE /\ failedWrites < MaxFailedWrites /\ failedWrites' = failedWrites + 1
              /\ latch_locked_by_us' = lock
              /\ UNCHANGED <<hw, latch_fail_reported>>

Bug_UnlockAlways(lock, ok) == IF ok THEN WriteTakes(lock) ELSE WriteFails

\* latch_write_locked: an unlock of a latch believed unlocked writes nothing.
LatchWrite(lock, ok) ==
    IF ~lock /\ ~latch_locked_by_us
    THEN ok /\ UNCHANGED latchVars
    ELSE IF ok THEN WriteTakes(lock) ELSE WriteFails

\* latch_fault: once per episode the stream faults and the hook is told.
LatchFault ==
    /\ latch_fail_reported' = TRUE
    /\ failed' = (failed \/ ~latch_fail_reported)
    /\ fault_flag' = (fault_flag \/ ~latch_fail_reported)
    /\ UNCHANGED <<hw, latch_locked_by_us, failedWrites, stream>>

-----------------------------------------------------------------------------
(* The shipper: issue_run.                                                 *)

\* Mutant: the relight decided from the record alone.
Bug_RelightUnchecked ==
    /\ spc = "idle" /\ stream /\ ~failed
    /\ relight' = latch_locked_by_us
    /\ retried' = FALSE
    /\ spc' = IF relight' THEN "unlock" ELSE "ask"
    /\ UNCHANGED <<latchVars, windowVars, streamVars, st, armVars, protoVars>>

RunBegin ==
    /\ spc = "idle" /\ stream /\ ~failed
    /\ relight' = (laser_armed /\ fire_gate /\ latch_locked_by_us)
    /\ retried' = FALSE
    /\ spc' = IF relight' THEN "unlock" ELSE "ask"
    /\ UNCHANGED <<latchVars, windowVars, streamVars, st, armVars, protoVars>>

RunUnlock(ok) ==
    /\ spc = "unlock"
    /\ LatchWrite(FALSE, ok)
    /\ spc' = IF ok THEN "ask" ELSE "unlockFault"
    /\ UNCHANGED <<windowVars, streamVars, st, armVars, protoVars, relight, retried>>

RunUnlockFault ==
    /\ spc = "unlockFault"
    /\ LatchFault
    /\ spc' = "idle"
    /\ UNCHANGED <<windowVars, st, armVars, protoVars, relight, retried>>

\* cnc/run answered: started, busy or nothing queued.
RunAnswered ==
    /\ spc = "ask"
    /\ spc' = "recheck"
    /\ UNCHANGED <<latchVars, windowVars, streamVars, st, armVars, protoVars, relight, retried>>

\* An underrun outside the window is acknowledged and the run asked for once more.
RunRetry ==
    /\ spc = "ask" /\ ~laser_armed /\ ~retried
    /\ retried' = TRUE
    /\ UNCHANGED <<latchVars, windowVars, streamVars, st, armVars, protoVars, spc, relight>>

\* Any other refusal, and an underrun inside the window or at the retry, fails safe.
RunRefused ==
    /\ spc = "ask"
    /\ failed' = TRUE
    /\ fault_flag' = (fault_flag \/ ~failed)
    /\ spc' = "recheck"
    /\ UNCHANGED <<latchVars, windowVars, stream, st, armVars, protoVars, relight, retried>>

\* Disarmed while the run was asked for: lock again, and let latch_mx go.
RunRecheck(ok) ==
    /\ spc = "recheck"
    /\ IF relight /\ ~laser_armed THEN LatchWrite(TRUE, ok) ELSE ok /\ UNCHANGED latchVars
    /\ spc' = "idle"
    /\ UNCHANGED <<windowVars, streamVars, st, armVars, protoVars, relight, retried>>

\* Every other stream fault: underrun, kernel fault, write error, late event.
StreamFault ==
    /\ ~failed
    /\ failed' = TRUE /\ fault_flag' = TRUE
    /\ UNCHANGED <<latchVars, windowVars, stream, st, armVars, protoVars, shipVars>>

\* The core is idle and the backlog shipped: the shipper ends the stream.
StreamEnd ==
    /\ spc = "idle" /\ stream /\ st # "cycle"
    /\ stream' = FALSE
    /\ UNCHANGED <<latchVars, windowVars, failed, fault_flag, st, armVars, protoVars, shipVars>>

-----------------------------------------------------------------------------
(* The protocol thread: arming.                                            *)

\* The hook and the poll run before the core takes its next line or command:
\* a fault flag older than the last reset is taken, an alarm has disarmed.
Polled == (fault_flag => failed) /\ ~(laser_ok /\ st = "alarm")

\* The operator's press comes after the previous motion's tail: the shipper
\* lags the core by milliseconds, the press is a release and a push.
TailShipped == ~stream

\* gflaser_arm past its gates: the latch is unlocked, the button wait begins.
ArmUnlock(ok) ==
    /\ pc = "poll" /\ MutexFree /\ Polled
    /\ st = "idle" /\ waiting = "none" /\ frames = 0 /\ ~laser_ok
    /\ LatchWrite(FALSE, ok)
    /\ waiting' = IF ok THEN "arm" ELSE "none"
    /\ st' = IF ok THEN st ELSE "alarm"
    /\ UNCHANGED <<windowVars, streamVars, frames, kind, aborting, protoVars, shipVars>>

\* A resume asked for against a held job whose window has closed.
ResumeGate(ok) ==
    /\ pc = "poll" /\ MutexFree /\ Polled
    /\ st = "hold" /\ waiting = "none" /\ ~laser_ok
    /\ LatchWrite(FALSE, ok)
    /\ waiting' = IF ok THEN "rearm" ELSE "none"
    /\ st' = IF ok THEN st ELSE "alarm"
    /\ UNCHANGED <<windowVars, streamVars, frames, kind, aborting, protoVars, shipVars>>

\* The press that ends the button wait: arm_complete is entered.
ArmPress ==
    /\ pc = "poll" /\ waiting = "arm" /\ st = "idle" /\ ~aborting /\ TailShipped
    /\ waiting' = "none" /\ frames' = 1 /\ kind' = "arm"
    /\ UNCHANGED <<latchVars, windowVars, streamVars, st, aborting, protoVars, shipVars>>

\* The window opens: laser_ok, the stream's copy, and the gate from the verdict.
OpenWindow(verdict) ==
    /\ laser_ok' = TRUE
    /\ laser_armed' = TRUE
    /\ fire_gate' = verdict

\* A re-arm press with the engine's acknowledgment on file opens at once ...
RearmPressAcked(verdict) ==
    /\ pc = "poll" /\ waiting = "rearm" /\ st = "hold" /\ TailShipped
    /\ OpenWindow(verdict)
    /\ waiting' = "none"
    /\ UNCHANGED <<latchVars, streamVars, st, frames, kind, aborting, protoVars, shipVars>>

\* ... and without it waits: the pump enters the core's suspend loop, which
\* runs the poll again, and the activation is stuck until the hold ends.
RearmPressWaits ==
    /\ pc = "poll" /\ waiting = "rearm" /\ st = "hold" /\ TailShipped /\ frames < MaxStuck
    /\ frames' = frames + 1 /\ kind' = "rearm"
    /\ UNCHANGED <<latchVars, windowVars, streamVars, st, waiting, aborting, protoVars, shipVars>>

\* arm_complete after its pump returned: acknowledged and allowed to fire.
FrameOpen(verdict) ==
    /\ pc = "poll" /\ frames > 0 /\ st # "hold" /\ ~aborting
    /\ OpenWindow(verdict)
    /\ frames' = frames - 1
    /\ waiting' = "none"
    /\ UNCHANGED <<latchVars, streamVars, st, kind, aborting, protoVars, shipVars>>

\* Mutant: a wait that ends without consent leaves the latch as it is.
Bug_AbortKeepsLatch ==
    /\ pc = "poll" /\ waiting = "arm"
    /\ waiting' = "none" /\ aborting' = FALSE
    /\ st' = IF aborting THEN st ELSE "alarm"
    /\ UNCHANGED <<latchVars, windowVars, streamVars, frames, kind, protoVars, shipVars>>

\* The button wait ends without consent: timeout, sender, alarm, switches, reset.
ArmAbort ==
    /\ pc = "poll" /\ waiting = "arm"
    /\ waiting' = "none" /\ aborting' = FALSE
    /\ st' = IF aborting THEN st ELSE "alarm"
    /\ pc' = "refuse" /\ locks' = 1
    /\ UNCHANGED <<latchVars, windowVars, streamVars, frames, kind, unlocked, why, shipVars>>

\* The re-arm ends without consent: the hold is over, timeout, lid, sender, switches.
RearmCancel ==
    /\ pc = "poll" /\ waiting = "rearm"
    /\ waiting' = "none"
    /\ st' \in {st, "alarm"}
    /\ pc' = "refuse" /\ locks' = 1
    /\ UNCHANGED <<latchVars, windowVars, streamVars, frames, kind, aborting, unlocked, why, shipVars>>

\* arm_complete refuses (reset, deadline, verdict, head); a re-arm's rearm_end
\* then locks a second time.
FrameRefuse ==
    /\ pc = "poll" /\ frames > 0 /\ st # "hold"
    /\ frames' = frames - 1
    /\ waiting' = "none" /\ aborting' = (aborting /\ frames > 1)
    /\ st' = IF aborting THEN st ELSE "alarm"
    /\ pc' = "refuse" /\ locks' = IF kind = "rearm" THEN 2 ELSE 1
    /\ UNCHANGED <<latchVars, windowVars, streamVars, kind, unlocked, why, shipVars>>

\* The emission witness: a lit beam outside the window locks and alarms.
EmissionWitness ==
    /\ EmissionSensed /\ pc = "poll" /\ ~laser_ok
    /\ st' = "alarm"
    /\ pc' = "refuse" /\ locks' = 1
    /\ UNCHANGED <<latchVars, windowVars, streamVars, armVars, unlocked, why, shipVars>>

\* gf_stream_laser_latch(true) of a refusal, and its fault when it fails.
RefuseLock(ok) ==
    /\ pc = "refuse" /\ MutexFree
    /\ LatchWrite(TRUE, ok)
    /\ pc' = IF ~ok THEN "refuseFault" ELSE IF locks > 1 THEN "refuse" ELSE "poll"
    /\ locks' = locks - 1
    /\ UNCHANGED <<windowVars, streamVars, st, armVars, unlocked, why, shipVars>>

RefuseFault ==
    /\ pc = "refuseFault" /\ MutexFree
    /\ LatchFault
    /\ pc' = IF locks > 0 THEN "refuse" ELSE "poll"
    /\ UNCHANGED <<windowVars, st, armVars, unlocked, why, locks, shipVars>>

\* fire_gate_publish, on every poll, from the verdict of the moment.
FireGatePublish(verdict) ==
    /\ pc = "poll"
    /\ fire_gate' = (laser_ok /\ verdict)
    /\ UNCHANGED <<latchVars, laser_ok, laser_armed, streamVars, st, armVars, protoVars, shipVars>>

-----------------------------------------------------------------------------
(* The protocol thread: gflaser_disarm and its callers.                    *)

\* Mutant: the hook drops the fault without a disarm.
Bug_FaultIgnored(caller) ==
    \/ caller = "poll" /\ laser_ok
    \/ caller = "reset" /\ ~aborting

\* The poll closes an open window; the hook takes a stream fault; a reset.
DisarmCalled(caller) ==
    \/ caller = "poll" /\ laser_ok
    \/ caller = "fault" /\ fault_flag
    \/ caller = "reset" /\ ~aborting

\* gflaser_disarm reads the record first ...
DisarmRead(caller) ==
    /\ pc = "poll" /\ MutexFree
    /\ DisarmCalled(caller)
    /\ fault_flag' = (fault_flag /\ caller # "fault")
    /\ unlocked' = ~latch_locked_by_us
    /\ why' = caller
    /\ pc' = "close"
    /\ UNCHANGED <<latchVars, windowVars, failed, stream, st, armVars, locks, shipVars>>

\* ... then closes the window ...
DisarmClose ==
    /\ pc = "close"
    /\ laser_ok' = FALSE /\ laser_armed' = FALSE
    /\ pc' = "gate"
    /\ UNCHANGED <<latchVars, fire_gate, streamVars, st, armVars, unlocked, why, locks, shipVars>>

DisarmGate ==
    /\ pc = "gate"
    /\ fire_gate' = FALSE
    /\ pc' = IF unlocked THEN "lock" ELSE "return"
    /\ UNCHANGED <<latchVars, laser_ok, laser_armed, streamVars, st, armVars, unlocked, why, locks, shipVars>>

\* ... and locks, when the record it read said unlocked.
DisarmLock(ok) ==
    /\ pc = "lock" /\ MutexFree
    /\ LatchWrite(TRUE, ok)
    /\ pc' = IF ok THEN "return" ELSE "lockFault"
    /\ UNCHANGED <<windowVars, streamVars, st, armVars, unlocked, why, locks, shipVars>>

DisarmLockFault ==
    /\ pc = "lockFault" /\ MutexFree
    /\ LatchFault
    /\ pc' = "return"
    /\ UNCHANGED <<windowVars, st, armVars, unlocked, why, locks, shipVars>>

\* Back in the poll, or in the hook, which alarms on the fault it took.
DisarmReturn ==
    /\ pc = "return" /\ why # "reset"
    /\ st' = IF why = "fault" THEN "alarm" ELSE st
    /\ pc' = "poll"
    /\ UNCHANGED <<latchVars, windowVars, streamVars, armVars, unlocked, why, locks, shipVars>>

\* Back in driverReset: gf_stream_reset acknowledges a fault and its episode,
\* and the abort unwinds through whatever arm is on the stack.
StreamReset ==
    /\ pc = "return" /\ why = "reset" /\ MutexFree
    /\ failed' = FALSE /\ stream' = FALSE
    /\ latch_fail_reported' = (latch_fail_reported /\ ~failed)
    /\ aborting' = (waiting = "arm" \/ frames > 0)
    /\ st' \in {"idle", "alarm"}
    /\ pc' = "poll"
    /\ UNCHANGED <<hw, latch_locked_by_us, failedWrites, windowVars, fault_flag,
                    waiting, frames, kind, unlocked, why, locks, shipVars>>

-----------------------------------------------------------------------------
(* The core's own state changes and the cooling engine.                    *)

\* A held job whose window is closed resumes only through the resume gate.
CoreStep(to) ==
    /\ pc = "poll" /\ ~aborting /\ Polled
    /\ \/ st = "idle" /\ to = "cycle" /\ waiting = "none" /\ frames = 0
       \/ st = "cycle" /\ to \in {"idle", "hold"}
       \/ st = "hold" /\ to = "cycle" /\ waiting = "none" /\ (laser_ok \/ frames = 0)
       \/ st = "alarm" /\ to = "idle" /\ waiting # "arm" /\ frames = 0
       \/ st # "alarm" /\ to = "alarm"
    /\ st' = to
    /\ stream' = (stream \/ to = "cycle")
    /\ UNCHANGED <<latchVars, windowVars, failed, fault_flag, armVars, protoVars, shipVars>>

\* The cooling engine locks the latch without asking anyone.
EngineLock ==
    /\ hw' = "locked"
    /\ UNCHANGED <<latch_locked_by_us, latch_fail_reported, failedWrites, windowVars,
                    streamVars, st, armVars, protoVars, shipVars>>

-----------------------------------------------------------------------------
Init ==
    /\ hw = "locked" /\ latch_locked_by_us = TRUE
    /\ latch_fail_reported = FALSE /\ failedWrites = 0
    /\ laser_ok = FALSE /\ laser_armed = FALSE /\ fire_gate = FALSE
    /\ failed = FALSE /\ fault_flag = FALSE /\ stream = FALSE
    /\ st = "idle" /\ waiting = "none" /\ frames = 0 /\ kind = "arm" /\ aborting = FALSE
    /\ pc = "poll" /\ unlocked = FALSE /\ why = "poll" /\ locks = 0
    /\ spc = "idle" /\ relight = FALSE /\ retried = FALSE

Shipper ==
    \/ RunBegin \/ RunUnlockFault \/ RunAnswered \/ RunRetry \/ RunRefused
    \/ StreamFault \/ StreamEnd
    \/ \E ok \in BOOLEAN : RunUnlock(ok) \/ RunRecheck(ok)

Arming ==
    \/ ArmPress \/ RearmPressWaits \/ ArmAbort \/ RearmCancel \/ FrameRefuse
    \/ EmissionWitness \/ RefuseFault
    \/ \E ok \in BOOLEAN : ArmUnlock(ok) \/ ResumeGate(ok) \/ RefuseLock(ok)
    \/ \E verdict \in BOOLEAN :
          RearmPressAcked(verdict) \/ FrameOpen(verdict) \/ FireGatePublish(verdict)

Disarming ==
    \/ DisarmClose \/ DisarmGate \/ DisarmLockFault \/ DisarmReturn \/ StreamReset
    \/ \E caller \in Callers : DisarmRead(caller)
    \/ \E ok \in BOOLEAN : DisarmLock(ok)

Next ==
    \/ Shipper \/ Arming \/ Disarming \/ EngineLock
    \/ \E to \in States : CoreStep(to)

Spec == Init /\ [][Next]_vars

\* What the protocol thread does next inside a disarm or a refused arm, and the
\* shipper inside issue_run.
DisarmStep ==
    \/ DisarmClose \/ DisarmGate \/ DisarmLockFault \/ DisarmReturn \/ StreamReset
    \/ RefuseFault
    \/ \E ok \in BOOLEAN : DisarmLock(ok) \/ RefuseLock(ok)

RunStep ==
    \/ RunAnswered \/ RunRefused \/ RunUnlockFault
    \/ \E ok \in BOOLEAN : RunUnlock(ok) \/ RunRecheck(ok)

\* The protocol thread gets through a disarm it has begun and runs its hook
\* and its poll again and again; the shipper, SCHED_FIFO and asleep between
\* passes, gets through issue_run and lets latch_mx go.
Fairness ==
    /\ SF_vars(DisarmStep) /\ WF_vars(RunStep)
    /\ SF_vars(DisarmRead("fault"))
    /\ SF_vars(st = "alarm" /\ DisarmRead("poll"))

FairSpec == Spec /\ Fairness

-----------------------------------------------------------------------------
(* Properties.                                                             *)

LatchType ==
    /\ hw \in {"locked", "unlocked"}
    /\ latch_locked_by_us \in BOOLEAN /\ latch_fail_reported \in BOOLEAN
    /\ failedWrites \in 0 .. MaxFailedWrites

WindowType == laser_ok \in BOOLEAN /\ laser_armed \in BOOLEAN /\ fire_gate \in BOOLEAN

StreamType == failed \in BOOLEAN /\ fault_flag \in BOOLEAN /\ stream \in BOOLEAN

ArmType ==
    /\ waiting \in Waits /\ frames \in 0 .. MaxStuck + 1
    /\ kind \in {"arm", "rearm"} /\ aborting \in BOOLEAN

ProtoType ==
    /\ pc \in ProtoSteps /\ unlocked \in BOOLEAN /\ why \in Callers
    /\ locks \in 0 .. 2 /\ (pc = "refuse" => locks > 0)

ShipType == spc \in ShipSteps /\ relight \in BOOLEAN /\ retried \in BOOLEAN

\* Every variable of either thread has its type; in particular the activations
\* of arm_complete on the stack and the locks a refusal owes never go negative.
TypeOK ==
    /\ LatchType /\ WindowType /\ StreamType /\ st \in States
    /\ ArmType /\ ProtoType /\ ShipType

\* A record of "locked" is true of the hardware in every state, whichever
\* writes failed and whoever else wrote: gflaser_disarm, which skips its lock
\* on that record, never skips a lock the latch needs at that moment.
RecordSound == latch_locked_by_us => hw = "locked"

\* The comment on latch_locked_by_us: a lock the hardware holds and the record
\* does not was made by someone else, and nothing here undoes it.
ForeignLockKept == [][hw = "locked" /\ ~latch_locked_by_us => hw' = "locked"]_vars

\* A disarm that found the latch unlocked returns with it locked, or with the
\* failure reported, however a run start was interleaved with it: the relight
\* of issue_run cannot re-open a latch the disarm has closed.
DisarmSeals ==
    (pc = "return" /\ unlocked) => (hw = "locked" \/ latch_fail_reported)

\* README, Safety: the latch relocks on disarm, alarm and reset.  With the
\* window closed and nothing arming, it is locked or the stream has faulted, with
\* two ways out.  Three failed writes: a lock, the hook's lock behind the report,
\* and the lock of the reset that then acknowledges the fault.  And a re-arm that
\* had to wait: its refusal locks the latch of an open window, a run start relights
\* between a disarm's read of the record and its close, and that disarm skips its
\* lock; a disarm that found the latch unlocked is no such way out.
AtRest == pc = "poll" /\ waiting = "none" /\ frames = 0 /\ ~laser_ok /\ spc = "idle"
LockSkipped == kind = "rearm" /\ ~unlocked
SealedAtRest ==
    AtRest => (hw = "locked" \/ failed \/ fault_flag \/ failedWrites > 2 \/ LockSkipped)

\* A stream fault inside the window closes the window and the gate.
FaultClosesWindow == (fault_flag /\ laser_ok) ~> (~laser_ok /\ ~fire_gate)
=============================================================================
