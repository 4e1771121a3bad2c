# A TLA+ model of the grblHAL driver for the Glowforge

This directory holds a formal model of the driver in `src/`: TLA+ modules, the
TLC configurations that check them on small instances, and TLAPS proofs of the
properties that matter most. `PROJECT.json` lists the parts of the system, the
runs, the source lines behind every definition, the hazards and the theorems.

## The system

The driver runs the grblHAL core (an external submodule) as a Linux process
and turns its step events into a byte stream for a kernel pulse module.

| Part | State | Operations | Talks to |
|---|---|---|---|
| Stream engine (`stepper_stream.c`) | the step ring between producer and shipper, the run, clear and fault flags, the counts behind the position read-back, the laser transition queue | wakeup, go_idle, pulse, laser, ship, reset, readback, clear_position, suspend, resume | the core's stepper callbacks, the kernel's `cnc/*` attributes and pulse device |
| Laser (`glowforge_laser.c`) | the armed window, the pending re-arm, the disarm grace, the dose model | arm, re-arm, disarm, poll, spindle set and update | the latch through the stream engine, the cooling client, the switches, the sender |
| Cooling client (`glowforge_cooling.c`) | the last verdict and its age, the hold it made, the reported mode | report, poll, fire_ok, run_ack | the cooling engine (another process) by files and a socket |
| Switches (`glowforge_switches.c`) | debounced lid, interlock and button bits, the cancel machine | poll, button edge, cancel | the core's realtime commands, the laser |
| Serial (`serial.c`) and control port (`ctlport.c`) | RX and TX rings, the sender's generation, injected lines | poll, takeover, cancel, drain | TCP senders, the core's line reader |
| Homing, release, tray (`glowforge_homing.c`, `glowforge_release.c`, `glowforge_tray.c`) | the anchor, the homed mask, the lens pin, the released motors | home, invalidate, release, shift | the stream's counters, the core's limits |
| Driver glue (`driver.c`), start-up (`main.c`), settings (`eeprom.c`), status, M-codes, I/O, logging | little of their own | registration, the realtime hook, the reset chain | everything above |

Four threads meet in it: the protocol thread (the core's main loop, its
realtime hook and everything it polls), the producer (one stepper callback at
a time, under the core lock), the shipper (SCHED_FIFO, every 10 ms) and the
cooling reporter. The kernel module, the cooling engine, the operator and the
sender act on their own.

What is hard in it: the latch has three writers and one record; the shipper
writes the pulse device and asks for runs without its lock, while a reset may
land; the core counts a step before it is output, so a reset has to find out
where every counted step went; a wait nested in the core's suspend loop can be
entered a second time; faults raised on one thread are taken on another.

What makes each part correct:

- latch: it is locked whenever the window is closed and nothing is arming; a
  lock of the cooling engine is never undone; the record never claims a lock
  the hardware lacks;
- stream: every counted step is played, queued, or given back; a run plays
  only the bytes its stream wrote; nothing a reset stopped plays again; a clear
  is not owed for ever;
- fire stream: no fire outside the gate, none in pads, a power byte before the
  first fire of each run, a dark last byte;
- arming: a press is consent for one sender and one job;
- cooling: no fire on a stale verdict; a hold it made is the only hold it ends;
- switches, serial, homing: every edge is acted on once; no line lost silently;
  a position that cannot be trusted says so.

## Modules

| Module | What it models |
|---|---|
| `LaserLatch` | the latch, its record, the armed window, the arm and re-arm, the disarm and the reset, against `issue_run` on the shipper and the cooling engine |
| `MCLaserLatch` | the instance TLC checks |
| `LaserLatchProofs` | types, `RecordSound`, `ForeignLockKept`, `DisarmSeals`, `SealedAtRest` |
| `PulseStream` | core, producer, shipper, kernel ring, run gate, faults, reset, residue clear and read-back |
| `MCPulseStream` | the instance TLC checks |
| `PulseStreamProofs` | types, where every counted step is in every phase of a reset, and whose bytes a run starts over |
| `FireStream` | the queue of laser transitions, the fire gate, the jog mask, the leading power byte and the dark pads, on the ship cursor |
| `MCFireStream` | the instance TLC checks |
| `FireStreamProofs` | types, `LitCommanded`, `RunLed`, `FirstCycleLit`, `EndsDark`, and what the queue's operators do |
| `Dither` | the density model of the dose: burst, carried debt, rescaling |
| `MCDither` | the instance TLC checks |
| `DoseCoolingProofs` | types of `Dither` and of `Cooling`, `DoseConserved`, `DebtBounded`, `BurstStrikes`, `EndLevels`, `LossCovered` |
| `PortMux` | the RX ring, its senders and overruns, the control port's injected lines, jogs, read gate and envelope |
| `Consent` | the operator's press, the arm and the re-arm, what closes the armed window, the button as pause and resume |
| `LidCancel` | the lid and the interlock as a safety door, the cancel machine and the return to the job's start |
| `Cooling` | the engine's verdict, the hold, the resume and the fallback, and the thread that reports to the engine |
| `Datum` | abstract: what a set of coordinates promises its reader |
| `HomeTrust` | homing, the lens reference, the anchor, release, tray, and every path that drops the reference; implements `Datum` twice |
| `MCPortMux`, `MCConsent`, `MCLidCancel`, `MCCooling`, `MCHomeTrust` | the instances TLC checks |
| `PortMuxProofs`, `ConsentProofs`, `LidCancelProofs`, `HomeTrustProofs` | types and every safety property of the module, the two refinements of `Datum` among them |

### LaserLatch

`latch_write_locked` is `LatchWrite`: the record follows only a write that
took, and an unlock of a latch believed unlocked writes nothing.
`issue_run` is `RunBegin`, `RunUnlock`, `RunAnswered` / `RunRetry` /
`RunRefused`, `RunRecheck`, with `latch_mx` held from the first to the last
(`MutexFree`). `gflaser_disarm` is `DisarmRead`, `DisarmClose`, `DisarmGate`,
`DisarmLock`, `DisarmReturn`: the record is read first and the lock comes last,
and the shipper moves between any two of them. Its callers are the poll (for
one of the reasons of `gflaser_poll`, any of which may hold), the hook that
takes a fault, and the reset. `gflaser_arm`, `gflaser_resume_gate`,
`rearm_poll` and `arm_complete` are `ArmUnlock`, `ResumeGate`, `ArmPress`,
`RearmPressAcked`, `RearmPressWaits`, `FrameOpen`, `FrameRefuse`, `ArmAbort`
and `RearmCancel`. `frames` counts the activations of `arm_complete` that wait
for the cooling engine: the pump of a re-arm enters the core's suspend loop,
which runs the poll again, so a second press can enter it a second time.

Abstractions: the reasons for a refusal are one choice; the cooling verdict is
a Boolean chosen at each publication; a write and its retries are one step.
Two facts about the surroundings are guards: the hook and the poll run before
the core takes its next line (`Polled`), and the tail of the previous motion,
milliseconds long, has been shipped when the operator has released and pressed
the button (`TailShipped`).

### PulseStream

`pend` is the step the core has counted and not yet output. `Callback` is one
turn of `producer_thread`; `GoIdle` is `gf_stream_go_idle`, taken by the
callback that finds the buffer empty and by `mc_reset`'s kill. `StreamReset`
is `gf_stream_reset` under its lock, `StreamResetStop` the `cnc/stop` after it,
`Readback` is `readback_position` with the rest of `driverReset`. The shipper's
pass is `ClearSeek` and `ClearApply` (`pending_pass`: the counters are read
without the lock), `PendingRun`, `StreamEnd`, `Ship`, `ShipWrite` (without the
lock), `ShipCount` or `ShipFailed`, `RunGate`, `RunStarts` / `RunRetry` /
`RunRefused`, `CheckSnapshot` and `CheckRead`; `Report` is the
fault flag that goes up after the lock is dropped.

The busy answer of `issue_run` is left out: `run_gate` has let a playing kernel
wait just before, and nothing else starts a run.

Abstractions: one axis and one direction (the code treats the three axes alike
and in the same statements); the wall-clock pacing is any choice of how much a
pass ships; a pass ships one chunk with at most one pad; differences of 32-bit
counters are exact while a ring holds fewer than 2^31 steps, so counters are
integers. The kernel module is external: a byte ring that plays, runs out,
ramps down at a stop and may be stopped by another writer. A home is taken at
an idle kernel with nothing unplayed, as the code's callers arrange.
A stream may begin before the last one was shipped (`Wakeup`): slots that were
not shipped are kept only where no event of the new stream lands on them.
`overtaken` is history: how many counted steps such streams have begun over.
The laser bytes (power bytes, dark pads) are FireStream's; the hand-over of the
device is left to a later module.

### FireStream

`lev` is the queue, `Queued` its merging, `LaserEvent` is
`laser_event_locked`: a late transition is pushed forward, or faults the stream
inside the window, and one that a full queue merges away raises
`lev_overflow_warned`, the only case in which `LitCommanded` lets a transition
move. `Laser` and `Jog` are `gf_stream_laser` and
`gf_stream_jog`, `Wakeup` and `GoIdle` the ends of a cycle with the fire each
records, `StreamReset` is `gf_stream_reset` in its three cases (a stream ended
under the reset, a fault acknowledged, a reset outside motion, which any run
includes). A pass of the
shipper samples the gate at its first slot (`PassFirst`, with `LevGated` for
the falling edge) and keeps it for the rest (`PassNext`); `StreamEnd`,
`FaultPad` and `ResetPad` are the three places a dark pad is written, `Clear`
the end of `pending_pass`. Five variables are the model's own: `cmd` is what
the core has commanded at each index (go_idle commands dark where virtual time
stands, a gate fall takes every command back), `tail` whether the last byte in
the kernel is lit, `forgotten` whether a reset outside motion took `last_lit` from
that byte, `led` whether the run has had its power byte, `crowded`
whether a full queue has merged a transition of this stream, go_idle's
laser-off (`OffMoves`) included, which no warning reports.

Abstractions: indices advance in any order the locks allow, whatever the wall
clock; gf.lock may be let go after every tick, a chunk being several; a power
level counts only as different from the last; every write lands; the dose model
is left to `Dither`, which only withholds ticks. The core's transitions are its
segments', and each segment steps before the core goes idle (`owed`): without
that, transitions past the last step would survive `go_idle`, which darkens
only the newest. `Events` says which of jogs and kernel faults a run includes.

### Dither

`DitherTick` is `dither_tick` on a tick that fire and gate let through,
`OnTicks` and `Carried` the burst and the debt of a period that begins,
`LaserModel` is `gf_stream_laser_model` with `ref_ticks_to_stream`, `Restart`
every caller of `dither_reset`, `Power` a transition that leaves fire on.
`debt` is the model's own: what the periods begun have asked for, less what was
lit. Unsigned arithmetic is over the integers, with `DoseType` showing that
nothing goes below zero; the largest value, a period at full level and a debt,
is far below 2^32 for the code's bounds.

### PortMux

Everything here runs on the protocol thread, so the model is one loop: the
realtime hook (`HookTop`, which turns an overrun into a reset), one
`serial_poll` (`RxAccept`, `RxHangup`, `RxByte`, `RxReset`, `RxJogCancel` or
`RxQuiet`), the three blocks of `ctlport_poll` (`PortGate`; `PortAccept`;
`PortDeferred` and the `Request...` actions), and then a step of the core
(`ReadBody`, `ReadEol`, `ReadCancel`, `LineEnds`, `MotionEnds`, `TakeCancel`,
`TakeReset`, `Restart`), or none: a hook may come between any two bytes the core
reads. `Inject` is `serial_inject_line`, `CanInject` its
refusals, `Overrun` the drop and the unwriting of the line in the ring,
`Passes` the read gate at the byte the core asks for, `StatusMessage` the hook
that takes the status of an injected line, `LineDone` the answer to the port,
whose failure drops a client that has hung up. `DropClient` and `RxFlush` empty
the ring and the driver's own flags and leave `buffered`, the core's line buffer,
as it is: nothing in `serial.c` reaches it but the ASCII_CAN of `serialRxCancel`
(`RxJogCancel`, `ReadCancel`) and the core's own restart behind a reset
(`Restart`).

Abstractions: a line is one body byte and one end-of-line byte; the socket
gives at most one byte a poll; the quiet times and the end of a deferral are
open choices. `hole`, `orphan`, `spoiled` and `torn` are
history: whether bytes of the session were dropped, whether the line buffer holds
what a flushed line left in it, and whether the line that runs was read behind
the one, or behind the other. The TX ring,
the saving of the last error and the banner are left out.

### Consent

The hook's polls run in the code's order, and `pc` walks through them: the
alarm that is owed (`PollOwed`), the re-arm (`Rearm...`), the window
(`PollWindow`, whose disjuncts are the closing rules of `gflaser_poll`), the
button and the door (`PollSwitch`, `PollDoor`), then at most one line.
`LaserOnOpen`, `LaserOnAsks` and `LaserOnRefused` are `spindleSetState` and the
entry of `gflaser_arm`; `ArmAbort`, `ArmLid`, `ArmReleased`, `ArmPress`,
`ArmComplete` and `ArmRefused` are its wait, which runs the same hooks;
`GateAsks` and `GateRefuses` are `gflaser_resume_gate`, `GatePasses` when it
lets a resume through. `gen` is the sender's generation. It changes where
`serial_poll` runs (`AtSerial`, `SenderSwap`): at the end of the hook, behind the
polls of the window and ahead of the line, and inside both waits of an arm.

Abstractions: the latch is left to `LaserLatch`, and with it a re-arm that
waits for its acknowledgment inside the suspend loop: here the engine has
acknowledged when that press is read. The grace of a spindle-off, the timeout
of the wait and the count of unreadable polls may end at any time. `effect`,
`fresh`, `consent`, `outlived` and `turned` are history: what the press in
progress has done, whether it began inside the wait, whether the press that the
arm took did, whether a program has ended in this window, and whether the sender
has changed behind the polls of the last hook.

### LidCancel

`Visible` is the rule that hides the door at idle, in a jog, in homing and
during a cancel, `NewlyOn` the edge that is delivered, `PollNone`,
`PollWaitDrain`, `PollResetSent` and `PollParkQueued` the states of the cancel
machine, `PollFails` the poll whose device does not answer, `OnStateChange` and
`OnResume` the job's start. `late` is each of the bounds that run from
`park_at`; `Tick` lets it pass. A planned block carries where its own job began,
so that the park can be compared with it. The switch device may
stop answering and answer again at any time; `missed` is history: a failed read
has kept `delivered` while the core was in a state that shows no door.

### Cooling

A verdict is one of clean, settling (fire, but no resume yet), nofire, hold and
fail; stale stands for a cache whose time has passed. `PollAt` is `gfcool_poll`
whole: `Takes` and its repetition, `Resumes`, `Forgets`, `StillLit` (the
deceleration that stays lit), `Fails`, `FallbackKept`, `Refreshes`. `ReportNow` is
the deposit for the reporter thread, `ReporterTakes`, `ReportLands`, `ReportFails`
its turn; a report given up on may still arrive (`StrayLands`). The engine
computes `v_armed` from what it last heard, so a verdict may be of an earlier
report.

Abstractions: of a report the armed bit is kept; its mode and the messages to
the sender are left out; the cache is read and written in one step, so the
order of its atomic stores is not modelled. What the core does with a cycle
start while it still decelerates is decided outside the repository; `TakeFlags`
drops it.

### Datum and HomeTrust

`Datum` is the promise: the axes offered as known are right, except while a
loss is on notice, and a notice ends only with nothing offered. `HomeTrust`
implements it twice: as the controller's coordinates (`sys.position` with
`sys.homed` and the lens reference; the notice is a stream fault the hook has
not taken) and as the anchor file with the kernel's counters, which other
processes read (the notice is that fault, or no controller up to look after the
file). `phys` is where the machine stands.

`HomeBegins`, `HomeGivesUp`, `HandedOver`, `RunnerMoves`, `Homed` and `HomeFails`
are a `gfcloud` session, `ManualHome` the other provider, `LensDue` and
`EdgeFrame` the lens reference at start, `gfhome_invalidate` the drop with its
callers: `ResetInMotion` (read back, or `PositionLost`), `StreamFault` and the
hook, `Marked`. Two commands are two steps each, because a crash or an outside
reader can find them half done: `release_cmd` takes the currents (release.c 129)
and `Marked` writes the marker (137), drops the reference and raises the alarm;
`Completed` clears the counters (homing.c 348) and `AnchorWritten` writes the
anchor (349). The marker's file may fail to open, and its unlink may fail
(`Energized`). `unmarked` is history: the release in force has no marker, because
the file could not be opened or the controller died before it. `AnchorShifted` is the tray's frame, `Unlock` the guarded
`$X`, `Crash` and `Start` the end of a controller and the next one over the same
files, `Adopted` the release marker it finds. `HandMoves` is the operator at a
released gantry.

Abstractions: X and Y are one axis, since they are homed, released and lost
together. The daemon that leaves `lens.home` is external and taken to be right
at each start. A manual home trusts the operator's placement (the head at the
origin); its jog to the origin and its offsets are left out. A tray
switch with its marker is one step. A failed seek, an anchor whose file cannot be
opened, and a device that cannot be taken back are not modelled: the anchor is
taken to be written whenever the code writes it.

## Runs

| Run | Bounds | Shows |
|---|---|---|
| `LatchOwnership` | 2 stuck activations, 3 failed writes, emission sensed, fair | `RecordSound`, `DisarmSeals`, `SealedAtRest`, `ForeignLockKept`, `FaultClosesWindow` |
| `StreamPosition` | 2 steps, 2 bytes, 1 reset, 1 trouble, homes, fair | `PositionKept`, `BaseSound`, `ReadbackExact`, `RunIsOwn`, `ClearLands` |
| `StreamResetRace` | 1 step, 2 bytes, 1 reset | violates `StopHolds` |
| `FireCommanded` | 5 slots, 1 pad, a queue of 4, jogs, faults, resets in and outside motion | types, `EndsDark`, `LitCommanded`, `RunLed`, `FirstCycleLit` |
| `DoseDither` | a scale of 5, periods up to 5 ticks, rate 4 to 3 | `DoseConserved`, `DebtBounded`, `BurstStrikes` |
| `PortShared` | a ring of one line, every request of the port, fair | types, `GateExact`, `InjectedWhole`, `DeadMan`, `SpoiledNeverRun`, `SenderServed` |
| `ArmConsent` | 2 changes of the sender | `AirflowCovers`, `LinesMeet`, `PressOnce`, `PressConsents` |
| `ConsentSpent` | one sender | violates `OneJobPerPress` |
| `ConsentHandedOver` | 1 change of the sender | violates `AskerConsents` |
| `LidCancel` | 2 places, 2 blocks, 3 lines, a device that fails and returns, fair | types, `ParkToOwnStart`, `LidTold`, `CancelEnds` |
| `CoolingHold` | none, fair | types, `LossCovered`, `HeldWhileBlocked`, `EngineLearns` |
| `HomeTrust` | a travel of 1 step, a tray shift of 1 | types, `CoordinatesImplement`, `AnchorImplements`, `ReleaseHolds` |

Why the bounds are enough. Latch: two stuck activations give one that opens the
window and one that outlives it; two failed writes give a failed lock and a
failed lock after it was reported, and with a third a reset acknowledges a fault
although the latch never locked, one of the exceptions `SealedAtRest` names.
The same activations and writes are what can stand between a fault's flag and the
hook that must close the window.
Stream: two steps put one in the kernel's ring while another is in the
backlog or pending, one reset and one trouble meet in every order, and a home
in between zeroes the counters. Fire: five slots hold a lead pad, two steps with
a transition each, an idle gap and a continuation behind it; a queue of four
holds all transitions of a first cycle and overflows in a continuation. Dose: a
scale that does not divide the periods leaves remainders, and the rates make the
conversion round up, round down and saturate. Port: a ring of exactly one line is
the smallest into which an injected line fits, so the sender overruns it behind
every fragment and behind every injected line. Consent: two changes give a
sender who asks, one who displaces it and one after that; one is enough to hand a
press over. Lid: two blocks are a
running one and a planned one, three lines a job, a resume and a second job.
Homing: one step of travel already tells a counted step from a played one and a
tray shift from none; every difference the properties look at is a difference of
one. The cooling model is finite as it is. The proofs remove the bounds for the
properties they cover.

Fairness. `LatchOwnership`: the protocol thread gets through a disarm it has begun
and comes back to its hook and its poll, and the shipper gets through
`issue_run`. Strong fairness is used where the step needs `latch_mx` (the
shipper takes it again and again but is asleep most of its period) or the poll
(which the core leaves and comes back to). `StreamPosition`: the shipper runs
every 10 ms, and the kernel plays what it holds or ends its ramp. `PortShared`:
the protocol thread never stops, and its loop comes back to the core's own work
between two hooks (`SF(CoreStep)`: a line it can read is read, a motion ends).
`LidCancel`: the loop and the clock go on, and a motion that runs ends, a planned
one starts, a queued line is read. `CoolingHold`: the loop, the clock and the
reporter go on, the refresh period comes round, and not every report is lost.

## What the checks found

Three runs end in a violation.

- `StreamResetRace`: after the shipper's last look under `gf.lock`, a reset
  writes its stop to a kernel that is still idle; the run starts after it.
- `ConsentSpent`: the end of a program only asks for the disarm, which waits
  until the kernel is idle. A sender that streams the next program right behind
  `M2` has its `M3` and its first motion taken inside the window that is still
  open, and the second job runs lit on the first job's press.
- `ConsentHandedOver`: the arm's loop looks at the sender's generation up to the
  press; the wait for the cooling engine's acknowledgment behind it does not, and
  the window takes the generation of its end (laser.c 729). A sender that comes
  during that wait has the window that another asked for, where the comment at
  785 says that a sender change during the wait ends the arm. `PressConsents`
  says what is kept: the press itself is read while the asking sender is there,
  and a re-armed window is the asking sender's.

The modules state more than the code keeps; each of the following is reproduced
by the property and the constants named.

- `SealedAtRest` without `LockSkipped`, with `MaxStuck = 1`: `gflaser_disarm` reads
  the record before it clears `laser_armed`. When a refused second re-arm has
  locked the latch of an open window, a run start can relight between the read
  and the clear, finish, and leave the latch unlocked with the window closed. The
  property names this case: a re-arm, and a disarm that found the latch locked.
- `PositionKept` and `ReadbackExact` without `overtaken`: a stream shorter than the
  shipper's period can end unshipped; the next `gf_stream_wakeup` (833) restarts
  the index space over it, where its comment (831) says that the previous stream
  shipped out completely. The two properties say that nothing else is lost: the
  position is wrong by exactly the steps begun over.
- `TailLit` of `FireStream`: a wakeup past the end of the last cycle clears the
  fire in force while that cycle's last slots, up to a shipper period, have not
  shipped.
- `FirstCycleLit` with `lev_overflow_warned` for `crowded` and `LevN = 1`: a laser-off
  that finds the queue full goes into its newest transition (`gf_stream_go_idle`),
  and the slots between that and the end of the cycle leave dark; unlike the
  overflow in `laser_event_locked`, this one is not reported.
- `EndsDark` without `forgotten`: `gf_stream_reset` overwrites `last_lit` (1797)
  also when it leaves the stream alone, and the dark pad behind the last byte is
  not written; the kernel's end-of-data backstop is what is left.
- `JogMask` of `FireStream`: `gf_stream_jog` drops a transition on a failed
  stream, so a fault in a jog leaves the mask on and the next job dark.
- `ResumeMovesDark` of `Cooling`: the header comment says that a resume under the
  standing verdict moves dark. When the hold was not the client's own (the
  operator paused before the verdict turned), the resume starts a cycle the
  client then holds for the first time, and decelerates lit.
- `LidTold` without `missed`: an open door told in an alarm, and a switch device
  that does not answer while the machine passes through idle and answers again in
  the next job, leave `delivered` up (switches.c 471), and that job is not told.
- `NeverTorn` of `PortMux`, with `Ops = {"command"}`: a sender is dropped when the
  core has read the first bytes of its line. `drop_client` says (108) that the
  next sender's first line must never be glued to a fragment of the last, and
  `serialRxFlush` (204) that the core flushes its line buffer on the same
  occasions, but nothing tells the core: the next line read, a sender's or the
  port's, is run behind the fragment, with no overrun and no reset.
  `SpoiledNeverRun` names this one exception (`torn`).
- `LinesMeet` without `turned`: the sender changes in `serial_poll`, behind the
  hook's look at the window, so one line of the new sender's can meet the window
  of the displaced one; the next hook closes it.
- `ReleaseHolds` without `unmarked`: the header of `glowforge_release.c` (17-19,
  28-30) says that nothing but `$ME` or a manual `$H` energizes the motors, and
  that the marker carries the release across a restart. The currents go to 0 at
  129 and the marker is written at 137, and `marker_set` (85-89) says nothing of
  a file it could not open: a crash between the two, or the failed open, lets the
  next controller energize the motors.
- `AnchorImplements` with the anchor offered at `pc = "anchor"` too: between the cleared
  counters and the written anchor of a repeated manual home (homing.c 348, 349)
  another process adds zeroed counters to the anchor before.
- `EnvelopeIsPorts` of `PortMux`: a sender's line that is in the ring when the
  envelope opens is read before the next poll, which would have closed it.
- `StatusToItsSource` of `PortMux`: when the sender hangs up while an injected line
  runs, the flush forgets the injection, and the line's status is the next
  sender's.

Smaller ones were met while modelling. A failed latch write is reported once an
episode; when the lock, the hook's lock after it and the reset's lock all fail,
the reset acknowledges the fault and clears the report, and the latch is open
with nothing said (`SealedAtRest` without `failedWrites > 2`, three failed
writes).
`gflaser_arm` unlocks the latch before the button wait, and says so in a comment,
where the repository's README says it stays locked until the press. A wakeup
compares the wanted fire with the fire at the ship cursor while the last cycle's
laser-off is still queued ahead of it, so fire is not re-asserted and the run
begins dark until the core's next power update. A sync in the middle of a
program passes through idle, and the next motion counts as a job's start; lines
a sender has queued right behind a cancel's reset run while the door is hidden.
After a fast disarm and re-arm the engine's acknowledgment may still be the
earlier window's. `hold_ours` outlives a stale period, so a clean verdict after
it resumes a hold of before.

## Proofs

Every theorem holds for every value of the constants the named assumptions
admit (`LaserLatchAssumption`, `PulseStreamAssumption`, `FireStreamAssumption`,
`DitherAssumption`, `PortMuxAssumption`, `ConsentAssumption`, `LidAssumption`,
`HomeAssumption`: bounds are natural numbers, positive where the code needs one,
switches are Booleans, the ring takes at least one injected line, the edge lies
within the travel; `Cooling` has no constants). No theorem assumes more. Where the
code has a gap the property itself names it, by a history variable that only the
step at fault can raise (`overtaken`, `forgotten`, `missed`, `torn`, `turned`,
`unmarked`), so that the theorem says that there is no other; TLC's
counterexamples above show that none of them can be dropped. The invariants were
checked with TLC before they were proved.

`LaserLatchProofs`: type correctness, `RecordSound` (inductive as it stands with
the types), `ForeignLockKept` (an unlock writes only where the record says
locked) and `DisarmSeals`, which needs `DisarmOrder`, what is already true at each
step of a disarm: once `laser_armed` is down no relight begins, and one that had
begun is behind `latch_mx` until its recheck. `SealedAtRest` is proved for any
number of failed writes and of stuck activations. Its invariant, `RestInv`, is
about the record and not the hardware. It tells a single arm from a window that a
re-arm press has waited in (`SingleArm`): behind a single arm an open window has
an open latch or stands in an alarm with nothing to ship, so no run start
relights (`Relights`); behind a re-arm a relight may fall between a disarm's read
and its close, and what is left is that such a disarm found the latch locked
(`LockSkipped`). An arm on its way still owns its latch (`Arms`); a disarm that
returns over an open latch has reported (`Reports`); and `Failures` counts how many
writes have failed once the report was taken: two outside a disarm, three when a
reset is about to forget it.

`PulseStreamProofs`: type correctness, and `StreamInv` for every number of steps,
resets, troubles and homes. It has five parts:
`Phases` (which flags stand together in a cycle and in a reset), `Faults` (a
failed stream whose reference still holds has a report on its way), `Clears`
(what a clear finds and leaves in the ring), `Base` (what the base says of the
ring, also while a clear is under way) and `Position` (the sum that gives the
position, phase by phase, with the steps begun over). `PositionKept` alone is not inductive: during a reset
the position is made up of the backlog, the killed step and the unplayed count
in turn. `BaseIsSound` follows from the first four, so streams that begin over an
unshipped one cannot make the base lie about the ring; `PositionIsKept` and
`ReadbackIsExact` need the last. `RunStartsOwn` has an invariant of its own.
`run_gate` compares counts only at an idle kernel and lets an underrun pass, so
`UnderrunDry` says whose bytes can lie in the ring of a kernel in an underrun:
none, the new stream's, or those of a stream the next look fails; `ResetOrder`
says that the shipper's pass is an old one while a reset's stop is on its way.

`FireStreamProofs`: type correctness, `LitCommanded`, `RunLed`, `FirstCycleLit` and
`EndsDark`, the last from `DarkInv`: a lit last byte is known to the shipper unless
a reset outside motion has overwritten `last_lit`. `AppendForm`, `MergeForm`, `DueForm`, `RestForm` and
`GatedForm` say element by element what the queue's operators return, so that no
step of the proof looks inside them. `FireInv` then says that the queue is in the order of
the stream (`Sorted`), that its newest transition lies at or before the producer
(`Placed`), that between two streams it ends dark (`IdleDark`), and that a slot
lit by the queue is one the core commanded lit (`Commanded`): the last is what
`LitCommanded` says of a shipped tick, carried back to the moment of the command.
`FirstCycleLit` needs the converse (`Obeyed`: a slot the queue leaves dark is one
commanded dark), up to the last slot that will leave, since go_idle's laser-off
darkens what lies behind it; and `Stepped`, that a cycle ends only behind a step,
so that no continuation begins at a fresh stream's base.

`DoseCoolingProofs`: the five properties of the dose model for every scale, tick
rate and setup. `PeriodBegins` is the heart: the burst a period begins with fits in
it, is none or a shortest pulse, and what it leaves is below one. The invariant
needs the burst to fit in what is left of its period (in `DoseType`), or a period
would begin over a burst still owed and lose it, and `BurstGrows`, that a burst
begun will reach the shortest pulse. For the cooling client, type correctness and
`LossCovered`: a poll that finds a fallback on record writes none, so `LossKnown`
says that the record means the fans run on it, that it does not outlive the loss
it was made for, and that a loss on record is a stale verdict, over which no
window opens.

`PortMuxProofs`: type correctness, `GateExact`, `InjectedWhole`, `DeadMan` and
`SpoiledNeverRun`, for every ring and every set of requests. `PortInv` adds to the
properties where the injected line's bytes stand in the ring (`InjectedFront`),
whose work the core is doing (`PortWork`, `PortJogs`), and what the ring holds
behind a line cut short (`Fragments`: its rest is in the ring or to come, or bytes
were dropped, or a flush took it) and behind an overrun (`Overruns`): a spoiled line
is not carried out because the hook's flag is up before the core can read it.

`ConsentProofs`: type correctness, `AirflowCovers`, `LinesMeet`, `PressOnce` and
`PressConsents`, for any number of senders. `ConsentInv` says at which stage of
the loop which wait may stand (`Stages`, `Waits`), whose request a re-arm serves
(`Rearms`), what an open window implies (`Windows`: behind the window's poll its
sender is there, or has just changed), what a fail-tier verdict owes
(`Owed`) and which press is still unspent (`Presses`).

`LidCancelProofs`: type correctness, `ParkToOwnStart` for every planner and every
set of places, and `LidTold`. `Blocks` (all planned blocks come from one job) and `Jobs` (which
state the core was in, whether a job is active and whether the planner is empty
go together) carry `Starts`, the recorded start of the job that is planned;
`Hidden` says that the door is hidden exactly through a cancel; `ToldInv` says what
`delivered` means in each state of the core, when no failed read was `missed`.

`HomeTrustProofs`: type correctness, `ReleaseHolds`, and the two refinements of
`Datum`, by the controller's coordinates and by the anchor file with the kernel's
counters. Every step of `HomeTrust` is shown to be a step of `Datum` or a
stutter under `TrustInv`: its parts say that the counters and the head agree
where an axis is known (`CoordinatesRight`, `AnchorRight`), and where the producer,
the session, the release and the first hook of a new controller stand
(`Control`), without which a crash between two of them would break it. `Midway` and
`Released` say what holds inside a release and inside the end of a home, where
the two refinements offer nothing of the axes concerned.

Only model-checked is liveness (`FaultClosesWindow`, `ClearLands`, `SenderServed`,
`CancelEnds`, `HeldWhileBlocked`, `EngineLearns`): the prover used here handles neither
fairness nor ENABLED. Every other property of a passing run is a theorem.

The type correctness of `LaserLatch`, `PulseStream`, `Dither` and `Consent` is in
no run's list: the proofs have it for every instance (`EndLevels` of the dose
model as well).

## Plan

1. The hand-over of the device in the stream: suspend, resume, shutdown, with
   the shipper's chunk outside the lock.
2. The settings store: what a crash between two steps of a save leaves.

## Not modelled

Status reports, M-code argument checks, start-up, logging, address binding and
the attribute wrappers: formatting and I/O with no protocol of their own. The
TX ring and its drain. The settings store is a byte array in a file. The power
curve is floating-point arithmetic. A controller that starts in alarm and is
sent `$H` with the `gfcloud` provider would take the lens reference of its
start inside the session; the model's start is not in alarm.
