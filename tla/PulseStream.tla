----------------------------- MODULE PulseStream -----------------------------
(***************************************************************************)
(* The step stream and what it owes the core (stepper_stream.c, driver.c). *)
(*                                                                         *)
(* The core counts a step one interrupt callback before the pulse start    *)
(* that outputs it; the producer thread maps it onto a ring slot (backlog),*)
(* the shipper thread moves slots to the kernel's ring, and the kernel     *)
(* plays them.  A reset, a fault, a failed write or a stop another process *)
(* makes can land between any two of those.  After a reset during motion   *)
(* the engine reads back the steps that never played, and the core's       *)
(* position drops them.                                                    *)
(*                                                                         *)
(* One axis, one direction: a byte carries a step or it is a pad.  The     *)
(* wall-clock pacing is left to chance: a pass ships any part of the       *)
(* backlog, with a pad or without.  A pass ships one chunk.  The           *)
(* differences of 32-bit counters the code takes are exact while a ring    *)
(* holds fewer than 2^31 steps, so the counters are plain integers here.   *)
(***************************************************************************)
EXTENDS Integers

CONSTANTS
    MaxSteps,    \* bound: steps the core counts
    MaxBytes,    \* bound: bytes the kernel ring takes between two clears
    MaxResets,   \* bound: resets
    MaxTroubles, \* bound: stops, faults, failed writes and reads, waits that time out
    Homes        \* whether a home may zero the counters

ASSUME PulseStreamAssumption ==
    /\ MaxSteps \in Nat /\ MaxBytes \in Nat /\ MaxResets \in Nat /\ MaxTroubles \in Nat
    /\ Homes \in BOOLEAN

VARIABLES
    pos,            \* sys.position: the steps the core has counted
    pend,           \* the counted step whose pulse start is still to come
    cycle,          \* the core is in a motion state
    position_lost,  \* sys.position_lost
    trusted,        \* the homing reference holds (gfhome_invalidate drops it)
    ppc,            \* where the protocol thread is in a reset
    armed,          \* the producer runs
    streaming, backlog, killed, kill_step,
    kernel_running, run_pending, clear_pending,
    written, run_base,
    steps, base_steps, base_counts, base_valid, zeros,
    readback, unplayed,
    overtaken,      \* history: unshipped steps fresh streams began over since the last home
    failed, fault_flag,
    spc,            \* where the shipper is in its pass
    chunk,          \* the bytes it is writing: [b |-> bytes, s |-> steps]
    first,          \* ship_pass: this chunk begins a kernel run
    got,            \* pending_pass's counts, -1 when they could not be read
    kstate, live, ringB, ringS, counts, took,
    resets, troubles  \* so far (bounded)

coreVars == <<pos, pend, cycle, position_lost, trusted, ppc, armed>>
streamVars == <<streaming, backlog, killed, kill_step>>
runVars == <<kernel_running, run_pending, clear_pending, written, run_base>>
countVars == <<steps, base_steps, base_counts, base_valid, zeros>>
debtVars == <<readback, unplayed, overtaken>>
faultVars == <<failed, fault_flag>>
shipVars == <<spc, chunk, first, got>>
kernelVars == <<kstate, live, ringB, ringS, counts, took>>
boundVars == <<resets, troubles>>
vars == <<coreVars, streamVars, runVars, countVars, debtVars, faultVars, shipVars, kernelVars,
          boundVars>>

\* A trouble happens, or none does.
Trouble(happens) ==
    /\ happens => troubles < MaxTroubles
    /\ troubles' = troubles + (IF happens THEN 1 ELSE 0)
    /\ UNCHANGED resets

Playing == kstate \in {"running", "ramping"}

-----------------------------------------------------------------------------
(* The kernel pulse module (external): a byte at a time while it plays.    *)

KernelPlay(s) ==
    /\ Playing /\ ringB > 0
    /\ s <= ringS /\ ringB - 1 >= ringS - s
    /\ ringB' = ringB - 1 /\ ringS' = ringS - s /\ counts' = counts + s
    /\ UNCHANGED <<coreVars, streamVars, runVars, countVars, debtVars, faultVars, shipVars,
                    kstate, live, took, boundVars>>

\* Out of bytes: an underrun under the live flag, else the normal end.
KernelRunOut ==
    /\ kstate = "running" /\ ringB = 0
    /\ kstate' = IF live THEN "underrun" ELSE "idle"
    /\ UNCHANGED <<coreVars, streamVars, runVars, countVars, debtVars, faultVars, shipVars,
                    live, ringB, ringS, counts, took, boundVars>>

\* A stop's ramp ends, wherever it has got to.
KernelRampEnd ==
    /\ kstate = "ramping"
    /\ kstate' = "idle"
    /\ UNCHANGED <<coreVars, streamVars, runVars, countVars, debtVars, faultVars, shipVars,
                    live, ringB, ringS, counts, took, boundVars>>

\* The cooling engine's safing stop or a halt, and a stepper driver's fault.
KernelStopped ==
    /\ kstate = "running"
    /\ kstate' \in {"ramping", "fault"}
    /\ Trouble(TRUE)
    /\ UNCHANGED <<coreVars, streamVars, runVars, countVars, debtVars, faultVars, shipVars,
                    live, ringB, ringS, counts, took>>

\* A write of cnc/stop: a ramp from a run, an acknowledgment of an underrun; a
\* driver's fault may stand.
StopAnswers ==
    CASE Playing -> {"ramping"} [] kstate = "fault" -> {"fault", "idle"} [] OTHER -> {"idle"}

-----------------------------------------------------------------------------
(* The core and the producer.                                              *)

\* gf_stream_wakeup.  A fresh stream restarts the index space: slots that were
\* not shipped are kept only where no event of the new stream lands on them.
Wakeup(kept) ==
    /\ ppc = "run" /\ ~cycle
    /\ IF kernel_running THEN kept = backlog ELSE kept \in 0 .. backlog
    /\ cycle' = TRUE
    /\ IF failed
       THEN UNCHANGED <<armed, streamVars, overtaken, live>>
       ELSE /\ killed' = FALSE /\ kill_step' = 0
            /\ streaming' = TRUE /\ backlog' = kept
            /\ overtaken' = overtaken + (backlog - kept)
            /\ live' = TRUE /\ armed' = TRUE
    /\ UNCHANGED <<pos, pend, position_lost, trusted, ppc, runVars, countVars, readback, unplayed,
                    faultVars, shipVars, kstate, ringB, ringS, counts, took, boundVars>>

\* gf_stream_pulse: a failed stream drops the step.
Pulsed == IF pend = 1 /\ ~failed /\ streaming THEN backlog + 1 ELSE backlog

\* An interrupt callback that goes on: it outputs the step counted before it
\* and counts the next one, or none.
Callback(s) ==
    /\ armed
    /\ s = 0 \/ (pos < MaxSteps /\ steps + chunk.s + backlog + pend < MaxSteps)
    /\ backlog' = Pulsed
    /\ pos' = pos + s /\ pend' = s
    /\ UNCHANGED <<cycle, position_lost, trusted, ppc, armed, streaming, killed, kill_step, runVars,
                    countVars, debtVars, faultVars, shipVars, kernelVars, boundVars>>

\* gf_stream_go_idle, with the step still to be output.
GoIdle(reset, step) ==
    /\ armed' = FALSE
    /\ streaming' = FALSE
    /\ killed' = (killed \/ reset)
    /\ kill_step' = IF ~reset THEN kill_step
                    ELSE IF streaming THEN step
                    ELSE IF killed THEN kill_step ELSE 0

\* The callback that finds the buffer empty goes idle itself, its step output.
CallbackIdle ==
    /\ armed
    /\ GoIdle(ppc = "kill", 0)
    /\ backlog' = Pulsed /\ pend' = 0
    /\ UNCHANGED <<pos, cycle, position_lost, trusted, ppc, runVars, countVars, debtVars, faultVars,
                    shipVars, kernelVars, boundVars>>

\* An event late against the ship cursor inside an armed window, and a ring
\* overflow: the step is dropped and the stream fails.
PulseFault(late) ==
    /\ armed /\ pend = 1 /\ streaming /\ ~failed
    /\ failed' = TRUE /\ fault_flag' = TRUE
    /\ kstate' \in IF late THEN StopAnswers ELSE {kstate}
    /\ pend' = 0
    /\ Trouble(TRUE)
    /\ UNCHANGED <<pos, cycle, position_lost, trusted, ppc, armed, streamVars, runVars, countVars,
                    debtVars, shipVars, live, ringB, ringS, counts, took>>

\* The protocol thread takes the cycle complete.
CycleComplete ==
    /\ ppc = "run" /\ cycle /\ ~armed
    /\ cycle' = FALSE
    /\ UNCHANGED <<pos, pend, position_lost, trusted, ppc, armed, streamVars, runVars, countVars,
                    debtVars, faultVars, shipVars, kernelVars, boundVars>>

\* The realtime hook takes a stream fault: the reference goes.
FaultTake ==
    /\ ppc = "run" /\ fault_flag
    /\ fault_flag' = FALSE /\ trusted' = FALSE
    /\ UNCHANGED <<pos, pend, cycle, position_lost, ppc, armed, streamVars, runVars, countVars,
                    debtVars, failed, shipVars, kernelVars, boundVars>>

\* A home: the counters are zeroed at an idle kernel with nothing unplayed,
\* and the position is the machine's again.
ClearPosition(ok) ==
    /\ Homes /\ ppc = "run" /\ ~cycle /\ ~streaming /\ ~failed /\ ~fault_flag
    /\ backlog = 0 /\ kstate = "idle" /\ ringB = 0 /\ spc \notin {"write", "landed", "torn", "report"}
    /\ counts' = IF ok THEN 0 ELSE counts
    /\ pos' = counts' /\ trusted' = TRUE /\ overtaken' = 0
    /\ zeros' = TRUE
    /\ base_valid' = ok
    /\ base_steps' = IF ok THEN steps ELSE base_steps
    /\ base_counts' = IF ok THEN 0 ELSE base_counts
    /\ Trouble(~ok)
    /\ UNCHANGED <<pend, cycle, position_lost, ppc, armed, streamVars, runVars, steps, readback,
                    unplayed, faultVars, shipVars, kstate, live, ringB, ringS, took>>

-----------------------------------------------------------------------------
(* The reset: mc_reset, then driverReset.                                  *)

\* mc_reset raises EXEC_RESET; in a motion state it kills the steppers next.
ResetRaised ==
    /\ ppc = "run" /\ resets < MaxResets
    /\ resets' = resets + 1
    /\ ppc' = IF cycle THEN "kill" ELSE "reset"
    /\ position_lost' = cycle
    /\ UNCHANGED <<pos, pend, cycle, trusted, armed, streamVars, runVars, countVars, debtVars,
                    faultVars, shipVars, kernelVars, troubles>>

\* stepperGoIdle under the reset: the step counted and never output is owed.
ResetKill ==
    /\ ppc = "kill"
    /\ GoIdle(TRUE, pend)
    /\ pend' = 0 /\ cycle' = FALSE
    /\ ppc' = "reset"
    /\ UNCHANGED <<pos, position_lost, trusted, backlog, runVars, countVars, debtVars, faultVars,
                    shipVars, kernelVars, boundVars>>

\* Mutant: the step counted and never output is not owed.
Bug_KillStepForgotten == backlog

\* The steps a killed stream owes: the one never output and the backlog.
OwedAtReset == kill_step + backlog

\* gf_stream_reset under gf.lock.
StreamReset ==
    /\ ppc = "reset"
    /\ LET ended == streaming \/ killed
           owns == killed \/ kernel_running IN
       /\ killed' = FALSE
       /\ backlog' = IF ended \/ failed THEN 0 ELSE backlog
       /\ streaming' = FALSE
       /\ kernel_running' = (kernel_running /\ ~ended /\ ~failed)
       /\ run_pending' = (run_pending /\ ~(ended /\ owns) /\ ~failed)
       /\ clear_pending' = (clear_pending \/ (ended /\ owns) \/ failed)
       /\ unplayed' = IF killed /\ ~failed THEN OwedAtReset ELSE unplayed
       /\ readback' = IF ~killed \/ failed THEN "none"
                      ELSE IF base_valid THEN "wait" ELSE "lost"
       /\ failed' = FALSE
       /\ ppc' = IF (ended /\ owns) \/ failed THEN "stop" ELSE "readback"
    /\ UNCHANGED <<pos, pend, cycle, position_lost, trusted, armed, kill_step, written, run_base,
                    countVars, overtaken, fault_flag, shipVars, kernelVars, boundVars>>

\* The stop goes to the kernel after the lock is dropped.
StreamResetStop ==
    /\ ppc = "stop"
    /\ kstate' \in StopAnswers
    /\ live' = FALSE
    /\ ppc' = "readback"
    /\ UNCHANGED <<pos, pend, cycle, position_lost, trusted, armed, streamVars, runVars, countVars,
                    debtVars, faultVars, shipVars, ringB, ringS, counts, took, boundVars>>

\* Mutant: a position that cannot be read back keeps its reference.
Bug_LostKept == TRUE

\* A position that stays lost drops the reference.
ReferenceHolds == readback = "done" \/ ~position_lost

\* readback_position and the rest of driverReset; the wait may time out.
Readback(late) ==
    /\ ppc = "readback"
    /\ readback # "wait" \/ late
    /\ pos' = IF readback = "done" THEN pos - unplayed ELSE pos
    /\ trusted' = (trusted /\ ReferenceHolds)
    /\ position_lost' = FALSE
    /\ readback' = "none"
    /\ ppc' = "run"
    /\ Trouble(late /\ readback = "wait")
    /\ UNCHANGED <<pend, cycle, armed, streamVars, runVars, countVars, unplayed, overtaken,
                    faultVars, shipVars, kernelVars>>

-----------------------------------------------------------------------------
(* The shipper: pending_pass.                                              *)

\* The clear, once the kernel no longer plays: drop the residue and read the
\* step counters, without gf.lock.
ClearSeek(ok, read) ==
    /\ spc = "top" /\ clear_pending /\ ~Playing
    /\ spc' = "clear"
    /\ zeros' = FALSE
    /\ got' = IF ok /\ read THEN counts ELSE -1
    /\ first' = ok
    /\ ringB' = IF ok THEN 0 ELSE ringB
    /\ ringS' = IF ok THEN 0 ELSE ringS
    /\ took' = IF ok THEN 0 ELSE took
    /\ Trouble(~(ok /\ read))
    /\ UNCHANGED <<coreVars, streamVars, runVars, steps, base_steps, base_counts, base_valid,
                    debtVars, faultVars, chunk, kstate, live, counts>>

\* Mutant: a counter zero since the snapshot goes unnoticed.
Bug_StaleCounts == got # -1

\* The counts read are the counters' still: no zero has landed since.
CountsFresh == got # -1 /\ ~zeros

\* Mutant: the clear stays owed.
Bug_ClearStaysOwed == run_pending' = FALSE /\ kernel_running' = FALSE /\ UNCHANGED clear_pending

ClearDone == clear_pending' = FALSE /\ run_pending' = FALSE /\ kernel_running' = FALSE

\* Under gf.lock again: the read-back a reset owes, and a new base.
ClearApply ==
    /\ spc = "clear"
    /\ LET counted == CountsFresh IN
       /\ written' = IF first THEN 0 ELSE written
       /\ IF readback = "wait"
          THEN /\ readback' = IF counted /\ base_valid THEN "done" ELSE "lost"
               /\ unplayed' = IF counted /\ base_valid
                              THEN unplayed + (steps - base_steps) - (got - base_counts)
                              ELSE unplayed
          ELSE UNCHANGED <<readback, unplayed>>
       /\ base_steps' = IF counted THEN steps ELSE base_steps
       /\ base_counts' = IF counted THEN got ELSE base_counts
       /\ base_valid' = IF zeros THEN base_valid ELSE counted
    /\ ClearDone
    /\ got' = -1 /\ first' = FALSE
    /\ spc' = "top"
    /\ UNCHANGED <<coreVars, streamVars, run_base, steps, zeros, overtaken, faultVars, chunk,
                    kernelVars, boundVars>>

\* A failed stream's run request goes with the fault; the kernel that stopped
\* under a live stream's request fails the stream.
PendingRun ==
    /\ spc = "top" /\ run_pending /\ ~clear_pending
    /\ failed \/ ~kernel_running \/ ~Playing
    /\ run_pending' = FALSE
    /\ failed' = (failed \/ kernel_running)
    /\ spc' = IF kernel_running /\ ~failed THEN "report" ELSE "top"
    /\ UNCHANGED <<coreVars, streamVars, kernel_running, clear_pending, written, run_base,
                    countVars, debtVars, fault_flag, chunk, first, got, kernelVars, boundVars>>

-----------------------------------------------------------------------------
(* The shipper: ship_pass.                                                 *)

\* The stream has ended and its backlog is shipped.
StreamEnd ==
    /\ spc = "top" /\ ~clear_pending /\ ~failed
    /\ ~streaming /\ backlog = 0 /\ kernel_running
    /\ kernel_running' = FALSE /\ run_pending' = FALSE
    /\ live' = FALSE
    /\ spc' = "after"
    /\ UNCHANGED <<coreVars, streamVars, clear_pending, written, run_base, countVars, debtVars,
                    faultVars, chunk, first, got, kstate, ringB, ringS, counts, took, boundVars>>

Shippable == 0 .. backlog

\* A chunk of s steps and at most one pad leaves the backlog.
Ship(s, pad) ==
    /\ spc = "top" /\ ~clear_pending /\ ~failed
    /\ streaming \/ backlog > 0
    /\ s \in Shippable /\ s + pad > 0
    /\ took + s + pad <= MaxBytes
    /\ backlog' = backlog - s
    /\ chunk' = [b |-> s + pad, s |-> s]
    /\ first' = ~kernel_running
    /\ run_base' = IF kernel_running THEN run_base ELSE written
    /\ kernel_running' = TRUE
    /\ spc' = "write"
    /\ UNCHANGED <<coreVars, streaming, killed, kill_step, run_pending, clear_pending, written,
                    countVars, debtVars, faultVars, got, kernelVars, boundVars>>

\* The write, without gf.lock: all of it lands, or part of it and it fails.
ShipWrite(b, s) ==
    /\ spc = "write"
    /\ b \in 0 .. chunk.b /\ s \in 0 .. chunk.s /\ s <= b /\ chunk.b - b >= chunk.s - s
    /\ ringB' = ringB + b /\ ringS' = ringS + s /\ took' = took + b
    /\ spc' = IF b = chunk.b THEN "landed" ELSE "torn"
    /\ Trouble(b # chunk.b)
    /\ UNCHANGED <<coreVars, streamVars, runVars, countVars, debtVars, faultVars, chunk, first,
                    got, kstate, live, counts>>

\* Under gf.lock again: the chunk is counted, and begins a run if it is the
\* first one and no fault or reset landed under the write.
ShipCount ==
    /\ spc = "landed"
    /\ written' = written + chunk.b
    /\ steps' = steps + chunk.s
    /\ chunk' = [b |-> 0, s |-> 0]
    /\ spc' = IF first /\ ~failed /\ ~clear_pending THEN "gate" ELSE "after"
    /\ first' = FALSE
    /\ UNCHANGED <<coreVars, streamVars, kernel_running, run_pending, clear_pending, run_base,
                    base_steps, base_counts, base_valid, zeros, debtVars, faultVars, got,
                    kernelVars, boundVars>>

\* A write that failed: what the ring holds is no longer known.
ShipFailed ==
    /\ spc = "torn"
    /\ failed' = TRUE /\ fault_flag' = TRUE
    /\ base_valid' = FALSE
    /\ readback' = IF readback = "wait" THEN "lost" ELSE readback
    /\ chunk' = [b |-> 0, s |-> 0] /\ first' = FALSE
    /\ spc' = "after"
    /\ UNCHANGED <<coreVars, streamVars, runVars, steps, base_steps, base_counts, zeros, unplayed,
                    overtaken, got, kernelVars, boundVars>>

\* Mutant: the gate does not ask what the kernel has processed.
Bug_GateUncounted == took = written

\* The kernel has processed what it took before the run, and nothing after.
RingIsOwn == took - ringB = run_base /\ took = written

\* run_gate: a run starts only over the bytes the stream wrote for it.
RunGate(read) ==
    /\ spc = "gate"
    /\ LET go == read /\ (kstate \in {"underrun", "fault"} \/ RingIsOwn)
           waits == read /\ Playing IN
       /\ run_pending' = (run_pending \/ waits)
       /\ failed' = (failed \/ ~(go \/ waits))
       /\ spc' = IF waits THEN "after" ELSE IF go THEN "issue"
                 ELSE IF failed THEN "after" ELSE "report"
    /\ Trouble(~read)
    /\ UNCHANGED <<coreVars, streamVars, kernel_running, clear_pending, written, run_base,
                    countVars, debtVars, fault_flag, chunk, first, got, kernelVars>>

\* issue_run: the kernel starts (a busy kernel does not get this far: the gate
\* let it wait, and only this process starts runs), ...
RunStarts ==
    /\ spc = "issue" /\ kstate = "idle" /\ ringB > 0
    /\ kstate' = "running"
    /\ spc' = "after"
    /\ UNCHANGED <<coreVars, streamVars, runVars, countVars, debtVars, faultVars, chunk, first, got,
                    live, ringB, ringS, counts, took, boundVars>>

\* ... has an underrun to acknowledge, outside the armed window, ...
RunRetry ==
    /\ spc = "issue" /\ kstate = "underrun"
    /\ trusted' = FALSE
    /\ kstate' = "idle"
    /\ UNCHANGED <<pos, pend, cycle, position_lost, ppc, armed, streamVars, runVars, countVars,
                    debtVars, faultVars, shipVars, live, ringB, ringS, counts, took, boundVars>>

\* ... or refuses: a fault, an underrun in the window, nothing queued.
RunRefused ==
    /\ spc = "issue"
    /\ kstate \in {"underrun", "fault"} \/ (kstate = "idle" /\ ringB = 0)
    /\ kstate' = IF kstate = "underrun" THEN "idle" ELSE kstate
    /\ failed' = TRUE
    /\ spc' = IF failed THEN "after" ELSE "report"
    /\ UNCHANGED <<coreVars, streamVars, runVars, countVars, debtVars, fault_flag, chunk, first,
                    got,
                    live, ringB, ringS, counts, took, boundVars>>

\* check_kernel_state, after every pass: its snapshot, then the state it reads.
CheckSnapshot ==
    /\ spc = "after" \/ (spc = "top" /\ ~clear_pending)
    /\ spc' = IF kernel_running /\ ~failed THEN "check" ELSE "top"
    /\ UNCHANGED <<coreVars, streamVars, runVars, countVars, debtVars, faultVars, chunk, first, got,
                    kernelVars, boundVars>>

CheckRead ==
    /\ spc = "check"
    /\ failed' = (failed \/ ~Playing)
    /\ spc' = IF ~failed /\ ~Playing THEN "report" ELSE "top"
    /\ UNCHANGED <<coreVars, streamVars, runVars, countVars, debtVars, fault_flag, chunk, first,
                    got,
                    kernelVars, boundVars>>

\* The fault flag goes up after gf.lock is dropped.
Report ==
    /\ spc = "report"
    /\ fault_flag' = TRUE
    /\ spc' = "top"
    /\ UNCHANGED <<coreVars, streamVars, runVars, countVars, debtVars, failed, chunk, first, got,
                    kernelVars, boundVars>>

-----------------------------------------------------------------------------
Init ==
    /\ pos = 0 /\ pend = 0 /\ cycle = FALSE /\ position_lost = FALSE /\ trusted = TRUE
    /\ ppc = "run" /\ armed = FALSE
    /\ streaming = FALSE /\ backlog = 0 /\ killed = FALSE /\ kill_step = 0
    /\ kernel_running = FALSE /\ run_pending = FALSE /\ clear_pending = FALSE
    /\ written = 0 /\ run_base = 0
    /\ steps = 0 /\ base_steps = 0 /\ base_counts = 0 /\ base_valid = TRUE /\ zeros = FALSE
    /\ readback = "none" /\ unplayed = 0 /\ overtaken = 0
    /\ failed = FALSE /\ fault_flag = FALSE
    /\ spc = "top" /\ chunk = [b |-> 0, s |-> 0] /\ first = FALSE /\ got = -1
    /\ kstate = "idle" /\ live = FALSE /\ ringB = 0 /\ ringS = 0 /\ counts = 0 /\ took = 0
    /\ resets = 0 /\ troubles = 0

Kernel ==
    \/ KernelRunOut \/ KernelRampEnd \/ KernelStopped
    \/ \E s \in 0 .. 1 : KernelPlay(s)

Core ==
    \/ CallbackIdle \/ CycleComplete \/ FaultTake
    \/ \E kept \in 0 .. MaxSteps : Wakeup(kept)
    \/ \E s \in 0 .. 1 : Callback(s)
    \/ \E late \in BOOLEAN : PulseFault(late)
    \/ \E ok \in BOOLEAN : ClearPosition(ok)

Reset ==
    \/ ResetRaised \/ ResetKill \/ StreamReset \/ StreamResetStop
    \/ \E late \in BOOLEAN : Readback(late)

Shipper ==
    \/ ClearApply \/ PendingRun \/ StreamEnd \/ ShipCount \/ ShipFailed
    \/ RunStarts \/ RunRetry \/ RunRefused \/ CheckSnapshot \/ CheckRead \/ Report
    \/ \E ok, read \in BOOLEAN : ClearSeek(ok, read)
    \/ \E s \in 0 .. MaxSteps, pad \in 0 .. 1 : Ship(s, pad)
    \/ \E b \in 0 .. MaxBytes, s \in 0 .. MaxSteps : ShipWrite(b, s)
    \/ \E read \in BOOLEAN : RunGate(read)

Next == Kernel \/ Core \/ Reset \/ Shipper

Spec == Init /\ [][Next]_vars

\* The shipper comes back every 10 ms and is never blocked for good, and the
\* kernel plays what it holds or ends its ramp.
Fairness ==
    /\ WF_vars(Shipper)
    /\ WF_vars(KernelRunOut \/ KernelRampEnd \/ \E s \in 0 .. 1 : KernelPlay(s))

FairSpec == Spec /\ Fairness

-----------------------------------------------------------------------------
(* Properties.                                                             *)

CoreType ==
    /\ pos \in Int /\ pend \in 0 .. 1
    /\ cycle \in BOOLEAN /\ position_lost \in BOOLEAN /\ trusted \in BOOLEAN /\ armed \in BOOLEAN
    /\ ppc \in {"run", "kill", "reset", "stop", "readback"}

StreamType ==
    /\ streaming \in BOOLEAN /\ killed \in BOOLEAN
    /\ backlog \in Nat /\ kill_step \in 0 .. 1

RunType ==
    /\ kernel_running \in BOOLEAN /\ run_pending \in BOOLEAN /\ clear_pending \in BOOLEAN
    /\ written \in Nat /\ run_base \in Nat

CountType ==
    /\ steps \in Nat /\ base_steps \in Nat /\ base_counts \in Nat
    /\ base_valid \in BOOLEAN /\ zeros \in BOOLEAN

FaultType == failed \in BOOLEAN /\ fault_flag \in BOOLEAN

BoundType == resets \in 0 .. MaxResets /\ troubles \in 0 .. MaxTroubles

DebtType ==
    readback \in {"none", "wait", "done", "lost"} /\ unplayed \in Int /\ overtaken \in Nat

ShipType ==
    /\ spc \in {"top", "clear", "write", "landed", "torn", "gate", "issue", "after", "check",
                    "report"}
    /\ chunk \in [b : Nat, s : Nat] /\ chunk.s <= chunk.b
    /\ first \in BOOLEAN /\ got \in Nat \cup {-1}

KernelType ==
    /\ kstate \in {"idle", "running", "ramping", "underrun", "fault"} /\ live \in BOOLEAN
    /\ ringB \in Nat /\ ringS \in Nat /\ ringS <= ringB
    /\ counts \in Nat /\ took \in Nat /\ ringB <= took

\* Every variable has its type: no count of steps or bytes goes negative, and
\* what the kernel's ring holds is part of what it took.
TypeOK ==
    /\ CoreType /\ StreamType /\ RunType /\ CountType /\ DebtType
    /\ FaultType /\ ShipType /\ KernelType /\ BoundType

\* A reset, a fault or a report on its way says that position and machine differ.
Quiet == ppc = "run" /\ ~failed /\ ~fault_flag /\ spc # "report" /\ spc # "torn"

\* Every step the core has counted while its reference holds has been played,
\* waits in the kernel's ring, in the chunk being written or in the backlog, or
\* is the one whose pulse start is still to come.  The one way to lose a step is
\* gf_stream_wakeup's fresh index space: the position is wrong by exactly the
\* unshipped steps that a stream of its own began over.
PositionKept ==
    (Quiet /\ trusted) =>
        pos = counts + ringS + backlog + pend + (IF spc = "write" THEN chunk.s ELSE 0)
                + overtaken

\* Position read-back: what it says never played is exactly what did not, but
\* for the steps a fresh stream began over: those it does not see.
ReadbackExact ==
    (readback = "done" /\ trusted /\ ~fault_flag) => pos - unplayed = counts + overtaken

\* With a base, the steps counted since it and not played since are the steps
\* in the kernel's ring.
BaseSound ==
    (base_valid /\ spc \notin {"torn", "clear"}) =>
        (steps - base_steps) - (counts - base_counts) =
            ringS - (IF spc = "landed" THEN chunk.s ELSE 0)

\* A run of a stream that no fault and no reset has ended starts only over
\* the bytes that stream wrote for it, none of them played.
RunIsOwn ==
    [][(kstate = "idle" /\ kstate' = "running" /\ ~failed /\ ~clear_pending)
         => ringB = written - run_base]_vars

\* "whatever the ramp did not reach is stale motion (and stale fire bits) that
\* must never replay": no run starts once a reset has written its stop and
\* owes the clear.
StopHolds ==
    [][(clear_pending /\ ppc # "stop" /\ kstate = "idle") => kstate' # "running"]_vars

\* The residue of a stopped stream is dropped in the end, whatever state the
\* kernel came to rest in: shipping is held until then.
ClearLands == clear_pending ~> ~clear_pending
=============================================================================
