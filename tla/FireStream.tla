----------------------------- MODULE FireStream -----------------------------
(***************************************************************************)
(* Fire on the step stream (stepper_stream.c): the laser transitions the   *)
(* core makes are queued with the stream index they take effect at, and    *)
(* the shipper applies them as it emits ticks, masked by the fire gate it  *)
(* samples once a pass.  A run is led by a power byte, because a run start *)
(* resets the duty to full, and a stream's last byte is dark.              *)
(*                                                                         *)
(* Indices are the code's stream-relative ones.  The wall clock is left to *)
(* chance: virtual time and the ship cursor advance a tick at a time, in   *)
(* any order, and a pass ships as many ticks as it likes, with gf.lock let *)
(* go after each.  A write always lands; power levels are left out but for *)
(* whether one differs from the last.  The dose model only withholds ticks *)
(* of what is lit here.                                                    *)
(***************************************************************************)
EXTENDS Integers, Sequences, FiniteSetsExt

CONSTANTS
    MaxIdx,   \* bound: stream indices
    Depth,    \* gf.depth: the pads a fresh stream begins with
    LevN,     \* LEV_N: the length of the transition queue
    Events    \* what may happen besides cycles, resets and the gate: see Kinds

\* A jog, and a fault of the kernel.
Kinds == {"jog", "fault"}

ASSUME FireStreamAssumption ==
    /\ Depth \in Nat \ {0} /\ MaxIdx \in Nat /\ MaxIdx >= Depth
    /\ LevN \in Nat \ {0}
    /\ Events \subseteq Kinds

VARIABLES
    laser_armed,   \* the armed window
    fire_gate,     \* the window and the verdict, as last published
    core_jog,      \* the core is in STATE_JOG (glowforge_laser.c's jogging)
    jogging,       \* gf.jogging
    streaming, killed, failed,
    vt,            \* base + vticks / VTICKS_PER_BYTE: the index of virtual time
    base, produced, shipped,
    lev,           \* the queued transitions: a sequence of [idx, fire]
    lev_overflow_warned,
    want_fire, cur_fire,
    gate_seen, last_lit, power_sent,
    kernel_running, clear_pending,
    spc,           \* the shipper: between passes, or inside one
    owed,          \* the segment that set the power, or began the stream, has not stepped
    cmd,           \* the fire the core has commanded at each index, less what a gate fall took
    crowded,       \* a full queue has moved a transition of this stream
    tail,          \* the last byte in the kernel's ring is lit
    led,           \* a power byte has been sent since the run's first byte
    forgotten      \* history: a reset outside motion took last_lit from that byte

windowVars == <<laser_armed, fire_gate>>
jogVars == <<core_jog, jogging, owed>>
streamVars == <<streaming, killed, failed, lev_overflow_warned, crowded>>
indexVars == <<vt, base, produced, shipped>>
fireVars == <<lev, want_fire, cur_fire, cmd>>
shipVars == <<gate_seen, last_lit, power_sent, kernel_running, spc, tail, led, forgotten>>
vars == <<windowVars, jogVars, streamVars, indexVars, fireVars, shipVars, clear_pending>>

Larger(a, b) == IF a >= b THEN a ELSE b

-----------------------------------------------------------------------------
(* The queue of transitions.                                               *)

Newest == lev[Len(lev)]

\* Mutant: the merge keeps the older state.
Bug_OldestWins(i, f) ==
    IF lev # <<>> /\ (Newest.idx = i \/ Len(lev) >= LevN)
    THEN lev
    ELSE Append(lev, [idx |-> i, fire |-> f])

\* Mutant: a full queue takes another transition.
Bug_NoLimit(i, f) ==
    IF lev # <<>> /\ Newest.idx = i
    THEN [lev EXCEPT ![Len(lev)].fire = f]
    ELSE Append(lev, [idx |-> i, fire |-> f])

\* laser_event_locked: one transition per tick, and a full queue merges into
\* its newest.
Queued(i, f) ==
    IF lev # <<>> /\ (Newest.idx = i \/ Len(lev) >= LevN)
    THEN [lev EXCEPT ![Len(lev)].fire = f]
    ELSE Append(lev, [idx |-> i, fire |-> f])

\* A transition of a later tick found the queue full.
Overflows(i) == Len(lev) >= LevN /\ Newest.idx # i

\* The core's command holds from its index on.
Command(i, f) == [k \in 0 .. MaxIdx |-> IF k >= i THEN f ELSE cmd[k]]

\* laser_event_locked: a late event is pushed forward, or faults the stream
\* inside the window.
LaserEvent(f) ==
    \/ /\ ~streaming
       /\ UNCHANGED <<lev, cmd, failed, lev_overflow_warned, crowded>>
    \/ /\ streaming /\ (vt >= shipped \/ ~laser_armed)
       /\ lev' = Queued(Larger(vt, shipped), f)
       /\ cmd' = Command(Larger(vt, shipped), f)
       /\ lev_overflow_warned' = (lev_overflow_warned \/ Overflows(Larger(vt, shipped)))
       /\ crowded' = (crowded \/ Overflows(Larger(vt, shipped)))
       /\ UNCHANGED failed
    \/ /\ streaming /\ vt < shipped /\ laser_armed
       /\ failed' = TRUE
       /\ UNCHANGED <<lev, cmd, lev_overflow_warned, crowded>>

-----------------------------------------------------------------------------
(* The core.                                                               *)

\* The window opens, closes, and the gate follows the verdict meanwhile.
Arm(verdict) ==
    /\ ~laser_armed
    /\ laser_armed' = TRUE /\ fire_gate' = verdict
    /\ UNCHANGED <<jogVars, streamVars, indexVars, fireVars, shipVars, clear_pending>>

Disarm ==
    /\ laser_armed
    /\ laser_armed' = FALSE
    /\ UNCHANGED <<fire_gate, jogVars, streamVars, indexVars, fireVars, shipVars, clear_pending>>

FireGate(verdict) ==
    /\ fire_gate' = (laser_armed /\ verdict)
    /\ fire_gate' # fire_gate
    /\ UNCHANGED <<laser_armed, jogVars, streamVars, indexVars, fireVars, shipVars, clear_pending>>

\* gf_stream_laser, from spindleUpdatePWM: no fire outside the window.  The
\* segment that sets the power steps before the core goes idle.
Laser(f) ==
    /\ ~failed /\ ~killed
    /\ f => laser_armed
    /\ want_fire' = f
    /\ LaserEvent(f /\ laser_armed /\ ~jogging)
    /\ owed' = (owed \/ streaming)
    /\ UNCHANGED <<windowVars, core_jog, jogging, streaming, killed, indexVars, cur_fire, shipVars,
                    clear_pending>>

\* onStateChange and gf_stream_jog: the core enters STATE_JOG before the jog's
\* stream begins and leaves it after, or on the alarm a fault raises; a failed
\* stream does not see the transition.
Jog(jog) ==
    /\ "jog" \in Events
    /\ core_jog # jog
    /\ ~streaming \/ (~jog /\ failed)
    /\ jog => ~failed /\ ~killed
    /\ core_jog' = jog
    /\ IF failed
       THEN UNCHANGED <<jogging, lev, cmd>>
       ELSE /\ jogging' = jog
            /\ LaserEvent(want_fire /\ laser_armed /\ ~jog)
    /\ UNCHANGED <<windowVars, owed, streamVars, indexVars, want_fire, cur_fire, shipVars,
                    clear_pending>>

\* gf_stream_wakeup: a fresh stream begins dark, and so does one whose gap
\* reached past its end.
FireAtWakeup(fresh, due) == cur_fire /\ ~fresh /\ due <= produced

\* gf_stream_wakeup; due is the ship cursor's position by the wall clock, and
\* level says whether the wanted power differs from the current one.
Wakeup(due, level) ==
    /\ ~streaming /\ ~killed /\ ~failed /\ due >= shipped
    /\ LET fresh == ~kernel_running
           queue == IF fresh THEN <<>> ELSE lev
           want == want_fire /\ laser_armed /\ ~jogging IN
       /\ shipped' = IF fresh THEN 0 ELSE shipped
       /\ produced' = IF fresh THEN Depth ELSE Larger(produced, due)
       /\ base' = produced' /\ vt' = produced'
       /\ cur_fire' = FireAtWakeup(fresh, due)
       /\ lev' = IF (level \/ want # cur_fire') /\ Len(queue) < LevN
                 THEN Append(queue, [idx |-> base', fire |-> want])
                 ELSE queue
       /\ cmd' = [k \in 0 .. MaxIdx |-> IF k >= base' THEN want ELSE (~fresh /\ cmd[k])]
       /\ crowded' = (crowded /\ ~fresh)
    /\ streaming' = TRUE /\ owed' = TRUE
    /\ UNCHANGED <<windowVars, core_jog, jogging, killed, failed, lev_overflow_warned, want_fire,
                    shipVars, clear_pending>>

\* The producer: virtual time advances a tick ...
Tick ==
    /\ streaming /\ vt < MaxIdx
    /\ vt' = vt + 1
    /\ UNCHANGED <<windowVars, jogVars, streamVars, base, produced, shipped, fireVars, shipVars,
                    clear_pending>>

\* ... and gf_stream_pulse maps a step on it.
Pulse ==
    /\ streaming /\ ~failed
    /\ LET i == Larger(Larger(vt, shipped), produced) IN
       IF vt < shipped /\ laser_armed
       THEN failed' = TRUE /\ UNCHANGED produced
       ELSE i < MaxIdx /\ produced' = i + 1 /\ UNCHANGED failed
    /\ owed' = FALSE
    /\ UNCHANGED <<windowVars, core_jog, jogging, streaming, killed, lev_overflow_warned, crowded,
                    vt, base, shipped, fireVars, shipVars, clear_pending>>

\* Mutant: the cycle's laser-off is not recorded.
Bug_NoLaserOff(i) == lev

\* gf_stream_go_idle: the laser-off behind the last slot, or in the newest
\* transition when that is not before it.
LaserOff(i) ==
    IF ~cur_fire /\ lev = <<>> THEN lev
    ELSE IF lev # <<>> /\ (Newest.idx >= i \/ Len(lev) >= LevN)
         THEN [lev EXCEPT ![Len(lev)].fire = FALSE]
         ELSE Append(lev, [idx |-> i, fire |-> FALSE])

\* A full queue takes it in a transition before the cycle's end.
OffMoves(i) == lev # <<>> /\ Newest.idx < i /\ Len(lev) >= LevN

\* gf_stream_go_idle, under a reset or not.
GoIdle(reset) ==
    /\ reset \/ (streaming /\ (failed \/ ~owed))
    /\ ~killed
    /\ owed' = FALSE
    /\ killed' = reset
    /\ LET i == Larger(produced, shipped) IN
       IF streaming
       THEN /\ lev' = LaserOff(i) /\ cmd' = Command(Larger(i, vt), FALSE)
            /\ crowded' = (crowded \/ OffMoves(i))
       ELSE UNCHANGED <<lev, cmd, crowded>>
    /\ streaming' = FALSE
    /\ UNCHANGED <<windowVars, core_jog, jogging, failed, lev_overflow_warned, indexVars, want_fire,
                    cur_fire, shipVars, clear_pending>>

\* gf_stream_reset, behind driverReset's disarm; a reset in motion has killed the
\* stream first, and one outside motion finds a backlog, or nothing.
StreamReset ==
    /\ killed \/ failed \/ ~streaming
    /\ ~laser_armed /\ ~fire_gate
    /\ LET ended == streaming \/ killed
           owns == killed \/ kernel_running
           dies == ended \/ failed IN
       /\ produced' = IF dies THEN shipped ELSE produced
       /\ lev' = IF dies THEN <<>> ELSE lev
       /\ cur_fire' = (cur_fire /\ ~dies)
       /\ want_fire' = (want_fire /\ ~dies)
       /\ power_sent' = (power_sent /\ ~dies)
       /\ kernel_running' = (kernel_running /\ ~dies)
       /\ clear_pending' = (clear_pending \/ (ended /\ owns) \/ failed)
       /\ last_lit' = (last_lit /\ ended /\ owns)
       /\ forgotten' = (forgotten \/ (last_lit /\ ~dies))
    /\ killed' = FALSE /\ failed' = FALSE /\ streaming' = FALSE /\ owed' = FALSE
    /\ UNCHANGED <<windowVars, core_jog, jogging, lev_overflow_warned, crowded, vt, base, shipped,
                    cmd, gate_seen, spc, tail, led>>

\* The kernel stops under the stream, or refuses its run.
StreamFault ==
    /\ "fault" \in Events
    /\ kernel_running /\ ~failed
    /\ failed' = TRUE
    /\ UNCHANGED <<windowVars, jogVars, streaming, killed, lev_overflow_warned, crowded, indexVars,
                    fireVars, shipVars, clear_pending>>

-----------------------------------------------------------------------------
(* The shipper.                                                            *)

\* The gate's falling edge, as the pass sees it.
GateFalls == gate_seen /\ ~fire_gate

\* The queue, every fire-on in it cleared at the edge.
LevGated ==
    IF GateFalls THEN [k \in DOMAIN lev |-> [lev[k] EXCEPT !.fire = FALSE]] ELSE lev

CmdGated == IF GateFalls THEN [k \in 0 .. MaxIdx |-> FALSE] ELSE cmd

\* The transitions at the head of q that the cursor has reached.
Due(q) == Max({k \in 0 .. Len(q) : \A j \in 1 .. k : q[j].idx <= shipped})

\* A slot leaves: the transitions it reaches, a power byte if the run has had
\* none, and the tick, lit if fire is wanted and the gate is open.
ShipTick(q, fire, gate) ==
    /\ streaming \/ shipped < produced
    /\ shipped < MaxIdx
    /\ cur_fire' = IF Due(q) = 0 THEN fire ELSE q[Due(q)].fire
    /\ lev' = SubSeq(q, Due(q) + 1, Len(q))
    /\ last_lit' = (cur_fire' /\ gate)
    /\ tail' = last_lit' /\ forgotten' = FALSE
    /\ led' = (~power_sent \/ (led /\ kernel_running))
    /\ power_sent' = TRUE
    /\ kernel_running' = TRUE
    /\ shipped' = shipped + 1
    /\ gate_seen' = gate
    /\ spc' = "pass"
    /\ UNCHANGED <<windowVars, jogVars, streamVars, vt, base, produced, want_fire, clear_pending>>

\* ship_pass past its preload: the gate is sampled, the first slot leaves ...
PassFirst ==
    /\ spc = "top" /\ ~clear_pending /\ ~failed
    /\ (shipped = 0 \/ ~kernel_running) => produced - shipped >= IF streaming THEN Depth ELSE 1
    /\ ShipTick(LevGated, cur_fire /\ ~GateFalls, fire_gate)
    /\ cmd' = CmdGated

\* ... and the next ones under the gate it sampled.
PassNext ==
    /\ spc = "pass" /\ ~clear_pending /\ ~failed
    /\ ShipTick(lev, cur_fire, gate_seen)
    /\ UNCHANGED cmd

PassEnd ==
    /\ spc = "pass"
    /\ spc' = "top"
    /\ UNCHANGED <<windowVars, jogVars, streamVars, indexVars, fireVars, gate_seen, last_lit,
                    power_sent, kernel_running, tail, led, forgotten, clear_pending>>

\* Mutant: the next stream does not lead with a power byte.
Bug_PowerKept == power_sent

\* The next run resets the duty.
PowerAtEnd == FALSE

\* Mutant: the end of a stream does not look at the last byte.
Bug_NoPad == FALSE

\* A stream's last byte carries FIRE clear: a lit one is owed a dark pad.
PadOwed == last_lit

\* ship_pass with nothing to ship: the gate, and the stream's end.
StreamEnd ==
    /\ spc = "top" /\ ~clear_pending /\ ~failed
    /\ ~streaming /\ shipped >= produced
    /\ kernel_running \/ gate_seen # fire_gate
    /\ gate_seen' = fire_gate
    /\ lev' = LevGated /\ cmd' = CmdGated
    /\ IF kernel_running
       THEN /\ shipped' = IF PadOwed THEN shipped + 1 ELSE shipped
            /\ shipped' <= MaxIdx
            /\ produced' = IF PadOwed THEN shipped' ELSE produced
            /\ cur_fire' = (cur_fire /\ ~PadOwed /\ ~GateFalls)
            /\ tail' = (tail /\ ~PadOwed)
            /\ last_lit' = (last_lit /\ ~PadOwed)
            /\ power_sent' = PowerAtEnd
       ELSE /\ cur_fire' = (cur_fire /\ ~GateFalls)
            /\ UNCHANGED <<shipped, produced, tail, last_lit, power_sent>>
    /\ kernel_running' = FALSE
    /\ UNCHANGED <<windowVars, jogVars, streamVars, vt, base, want_fire, spc, led, forgotten,
                    clear_pending>>

\* A faulted stream's dark pad.
FaultPad ==
    /\ spc = "top" /\ ~clear_pending /\ failed /\ last_lit
    /\ last_lit' = FALSE /\ cur_fire' = FALSE /\ tail' = FALSE
    /\ UNCHANGED <<windowVars, jogVars, streamVars, indexVars, lev, want_fire, cmd, gate_seen,
                    power_sent, kernel_running, spc, led, forgotten, clear_pending>>

\* pending_pass: the dark pad a reset owes ...
ResetPad ==
    /\ spc = "top" /\ clear_pending /\ last_lit
    /\ last_lit' = FALSE /\ tail' = FALSE
    /\ UNCHANGED <<windowVars, jogVars, streamVars, indexVars, fireVars, gate_seen, power_sent,
                    kernel_running, spc, led, forgotten, clear_pending>>

\* ... and the clear, once the kernel's ramp has ended.
Clear ==
    /\ spc = "top" /\ clear_pending /\ ~last_lit
    /\ clear_pending' = FALSE
    /\ kernel_running' = FALSE /\ power_sent' = FALSE
    /\ tail' = FALSE /\ forgotten' = FALSE
    /\ UNCHANGED <<windowVars, jogVars, streamVars, indexVars, fireVars, gate_seen, last_lit, spc,
                    led>>

-----------------------------------------------------------------------------
Init ==
    /\ laser_armed = FALSE /\ fire_gate = FALSE /\ core_jog = FALSE /\ jogging = FALSE
    /\ owed = FALSE
    /\ streaming = FALSE /\ killed = FALSE /\ failed = FALSE
    /\ lev_overflow_warned = FALSE /\ crowded = FALSE
    /\ vt = 0 /\ base = 0 /\ produced = 0 /\ shipped = 0
    /\ lev = <<>> /\ want_fire = FALSE /\ cur_fire = FALSE
    /\ gate_seen = FALSE /\ last_lit = FALSE /\ power_sent = FALSE
    /\ kernel_running = FALSE /\ clear_pending = FALSE
    /\ spc = "top"
    /\ cmd = [k \in 0 .. MaxIdx |-> FALSE]
    /\ tail = FALSE /\ led = FALSE /\ forgotten = FALSE

Core ==
    \/ Disarm \/ Tick \/ Pulse \/ StreamReset
    \/ \E b \in BOOLEAN : Arm(b) \/ FireGate(b) \/ Laser(b) \/ Jog(b) \/ GoIdle(b)
    \/ \E due \in 0 .. MaxIdx, level \in BOOLEAN : Wakeup(due, level)

Shipper ==
    \/ PassFirst \/ PassNext \/ PassEnd \/ StreamEnd \/ FaultPad \/ ResetPad \/ Clear
    \/ StreamFault

Next == Core \/ Shipper

Spec == Init /\ [][Next]_vars

-----------------------------------------------------------------------------
(* Properties.                                                             *)

\* Every variable has its type; the transition queue never grows past LEV_N,
\* and no queued index is past the grid.
TypeOK ==
    /\ laser_armed \in BOOLEAN /\ fire_gate \in BOOLEAN
    /\ core_jog \in BOOLEAN /\ jogging \in BOOLEAN /\ owed \in BOOLEAN
    /\ streaming \in BOOLEAN /\ killed \in BOOLEAN /\ failed \in BOOLEAN
    /\ lev_overflow_warned \in BOOLEAN /\ crowded \in BOOLEAN
    /\ {vt, base, produced, shipped} \subseteq 0 .. MaxIdx
    /\ lev \in Seq([idx : 0 .. MaxIdx, fire : BOOLEAN]) /\ Len(lev) <= LevN
    /\ want_fire \in BOOLEAN /\ cur_fire \in BOOLEAN
    /\ gate_seen \in BOOLEAN /\ last_lit \in BOOLEAN /\ power_sent \in BOOLEAN
    /\ kernel_running \in BOOLEAN /\ clear_pending \in BOOLEAN
    /\ spc \in {"top", "pass"}
    /\ cmd \in [0 .. MaxIdx -> BOOLEAN]
    /\ tail \in BOOLEAN /\ led \in BOOLEAN /\ forgotten \in BOOLEAN

\* A tick leaves the shipper, lit.
ShipsLit == shipped' > shipped /\ last_lit'

\* "Emission stays exactly where the core commanded it": a lit tick is one the
\* core commanded lit at its index, in the window, outside a jog, and not
\* before the last fall of the gate; pads and idle gaps are dark.  Only a queue
\* that overflowed, and said so, may have moved a transition.
LitCommanded == [][ShipsLit => cmd[shipped] \/ lev_overflow_warned]_vars

\* A power byte leads every run: no lit tick before it, whatever ended the run
\* before.
RunLed == [][ShipsLit => led']_vars

\* A stream that is no longer the kernel's ended dark, or a reset outside motion
\* came between its lit last byte and the pad: gf_stream_reset then overwrites
\* last_lit, and nothing else may lose it.
EndsDark ==
    (spc = "top" /\ ~kernel_running /\ ~clear_pending /\ ~failed) => (tail => forgotten)

\* The other way: in the first cycle of a fresh stream a tick the core commanded
\* lit leaves lit while the gate is open.  Only a full queue may darken it: it
\* merges a transition, or the laser-off of go_idle, into one made before.
FirstCycleLit ==
    [][(shipped' = shipped + 1 /\ spc' = "pass" /\ base = Depth /\ gate_seen' /\ cmd'[shipped])
         => last_lit' \/ crowded]_vars

\* "Emission stays exactly where the core commanded it", the other way: a slot
\* of motion that ended before the current stream began is lit as commanded.
TailLit ==
    [][(shipped' = shipped + 1 /\ shipped < base /\ spc' = "pass" /\ gate_seen' /\ cmd'[shipped])
         => last_lit']_vars

\* "the mask holds fire off from the transition into STATE_JOG until the
\* transition out": outside a fault the mask is the core's state.
JogMask == ~failed => jogging = core_jog
=============================================================================
