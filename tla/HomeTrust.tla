----------------------------- MODULE HomeTrust -----------------------------
(***************************************************************************)
(* Which coordinates are trusted, and when they stop being: the homing     *)
(* providers, the lens reference and the anchor file (glowforge_homing.c), *)
(* the motor release (glowforge_release.c), the tray frame                 *)
(* (glowforge_tray.c), and the reset and fault paths of driver.c that drop *)
(* the reference.                                                          *)
(*                                                                         *)
(* X and Y are one axis here (they are homed, released and lost together), *)
(* the lens is the other.  phys is where the machine really stands.  The   *)
(* protocol thread alternates between the realtime hook (pc = "poll") and  *)
(* at most one command or line (pc = "line"); a homing session blocks the  *)
(* lines and keeps the hook.  A command is one step, but for the two that  *)
(* a crash or an outside reader can find half done: the release between    *)
(* the currents and the marker (pc = "freed"), the home between the        *)
(* counters and the anchor (pc = "anchor").  The core's state machine, the *)
(* kernel's counters, the homing runner and the operator's hands are       *)
(* external.                                                               *)
(***************************************************************************)
EXTENDS Integers

CONSTANTS
    Reach,      (* bound: the travel of an axis, in steps                    *)
    Edge,       (* the step of the lens's hall edge                          *)
    Park,       (* half-steps from the edge to the park of a home            *)
    Shift       (* half-steps between the two tray frames                    *)

Places == 0 .. Reach
Axes == {"xy", "z"}
Still == [a \in Axes |-> 0]

ASSUME HomeAssumption ==
    /\ Reach \in Nat \ {0}
    /\ Edge \in Places /\ Edge + Park \in Places
    /\ Shift \in Nat \ {0}

VARIABLES
    \* the machine, the kernel and the files (they survive the controller)
    phys,           \* where each axis stands
    counter,        \* the kernel's step counters
    inflight,       \* steps counted by the core that the kernel has not played
    free,           \* the X and Y step currents are 0
    anchor,         \* HOMED_ANCHOR: the axes it carries, and their coordinates
    marker,         \* motors.released stands
    out,            \* tray.out stands: the mode in force
    lens_home,      \* lens.home: the daemon left the lens on its edge
    \* the controller
    up, pc,
    st,             \* idle, cycle, homing or alarm
    position,       \* sys.position
    homed,          \* X and Y are in sys.homed
    z_referenced,
    lens_referenced,
    armed,          \* the core's step producer runs
    failed, fault,  \* gf.failed and the flag the hook takes
    released, alarm_before,
    session,        \* of gfcloud_home: none, wait, runner or aborted
    entry_state,
    \* history
    unmarked        \* the marker of the release in force was not written

fileVars == <<anchor, marker, out, lens_home>>
kernVars == <<phys, counter, inflight>>
coreVars == <<st, pc, position, armed>>
refVars == <<homed, z_referenced, lens_referenced>>
strVars == <<failed, fault>>
relVars == <<released, alarm_before, unmarked>>
sesVars == <<session, entry_state>>
vars == <<fileVars, kernVars, free, up, coreVars, refVars, strVars, relVars, sesVars>>

Frame == [a \in Axes |-> IF a = "z" /\ out THEN Shift ELSE 0]
Sum(f, g) == [a \in Axes |-> f[a] + g[a]]
Less(f, g) == [a \in Axes |-> f[a] - g[a]]
On(S, f) == [a \in Axes |-> IF a \in S THEN f[a] ELSE 0]

Unanchored == [axes |-> {}, at |-> Still]
Anchor(S, f) == [axes |-> S, at |-> On(S, f)]

Init ==
    /\ phys \in [Axes -> Places] /\ counter = Still /\ inflight = Still
    /\ free = FALSE /\ anchor = Unanchored /\ marker = FALSE
    /\ out \in BOOLEAN /\ lens_home = FALSE
    /\ up = FALSE /\ pc = "poll" /\ st = "idle" /\ position = Still
    /\ homed = FALSE /\ z_referenced = FALSE /\ lens_referenced = FALSE
    /\ armed = FALSE /\ failed = FALSE /\ fault = FALSE
    /\ released = FALSE /\ alarm_before = FALSE
    /\ session = "none" /\ entry_state = "idle" /\ unmarked = FALSE

-----------------------------------------------------------------------------
(* The reference *)

gfhome_invalidate == anchor' = Unanchored /\ z_referenced' = FALSE /\ homed' = FALSE

Bug_ReleaseKeepsAnchor == anchor

(* The lens is not released: the anchor keeps carrying it, if it did. *)
AnchorOfZ ==
    IF "z" \in anchor.axes THEN Anchor({"z"}, anchor.at) ELSE Unanchored

gfhome_invalidate_xy ==
    /\ anchor' = AnchorOfZ /\ homed' = FALSE /\ UNCHANGED z_referenced

-----------------------------------------------------------------------------
(* Steps: produced by the core, played by the kernel *)

Idle == pc = "line" /\ st = "idle" /\ session = "none"
CommandAllowed == pc = "line" /\ st \in {"idle", "alarm"} /\ session = "none"
KernelIdle == inflight = Still

(* A failed stream does not wake: the cycle starts and nothing moves. *)
Line ==
    /\ up /\ Idle
    /\ st' = "cycle" /\ armed' = ~failed /\ pc' = "poll"
    /\ UNCHANGED <<fileVars, kernVars, free, up, position, refVars, strVars, relVars, sesVars>>

(* An unreferenced lens is pinned where it reads (gfhome_apply_z_limit).
   A stream that fails under the producer drops what is counted after. *)
Step(a, d) ==
    /\ up /\ armed /\ inflight[a] = 0
    /\ a = "z" => z_referenced
    /\ phys[a] + d \in Places
    /\ position[a] + d \in -Reach .. 2 * Reach + Shift
    /\ counter[a] + d \in -Reach .. Reach
    /\ position' = [position EXCEPT ![a] = @ + d]
    /\ inflight' = IF failed THEN inflight ELSE [inflight EXCEPT ![a] = d]
    /\ UNCHANGED <<fileVars, phys, counter, free, up, st, pc, armed, refVars, strVars,
                   relVars, sesVars>>

Played(a) ==
    /\ inflight[a] # 0
    /\ phys' = [phys EXCEPT ![a] = @ + inflight[a]]
    /\ counter' = [counter EXCEPT ![a] = @ + inflight[a]]
    /\ inflight' = [inflight EXCEPT ![a] = 0]
    /\ UNCHANGED <<fileVars, free, up, coreVars, refVars, strVars, relVars, sesVars>>

(* The core is done: the tail may still be playing. *)
CycleEnds ==
    /\ up /\ st = "cycle" /\ armed
    /\ st' = "idle" /\ armed' = FALSE
    /\ UNCHANGED <<fileVars, kernVars, free, up, pc, position, refVars, strVars, relVars,
                   sesVars>>

(* An underrun, a kernel fault, a write error: what was in flight is lost,
   and a machine stopped at speed may stand where nothing counted it. *)
StreamFault ==
    /\ up /\ ~failed /\ session # "runner" /\ session # "aborted"
    /\ failed' = TRUE /\ fault' = TRUE
    /\ inflight' = Still
    /\ phys' \in {p \in [Axes -> Places] : \A a \in Axes : inflight[a] = 0 => p[a] = phys[a]}
    /\ \E S \in SUBSET Axes : counter' = Sum(counter, On(S, inflight))
    /\ UNCHANGED <<fileVars, free, up, coreVars, refVars, relVars, sesVars>>

-----------------------------------------------------------------------------
(* The realtime hook *)

(* gfhome_startup_reference: the daemon stepped the lens over GPIO, so the
   counters are zeroed and the anchor carries Z alone. *)
LensDue == ~lens_referenced /\ st # "alarm" /\ lens_home

EdgeFrame == [position EXCEPT !["z"] = Edge + Frame["z"]]

(* gfrelease_poll: nothing else may hold a released machine unlocked. *)
ReleasePoll == released /\ st = "idle"

Hook ==
    /\ up /\ (pc = "poll" \/ session # "none")
    /\ pc' = IF session = "none" THEN "line" ELSE pc
    /\ lens_referenced' = (lens_referenced \/ st # "alarm")
    /\ position' = IF LensDue THEN EdgeFrame ELSE position
    /\ counter' = IF LensDue THEN Still ELSE counter
    /\ fault' = FALSE
    /\ \/ fault /\ gfhome_invalidate /\ st' = "alarm"
       \/ /\ ~fault
          /\ \/ LensDue /\ z_referenced' = TRUE /\ anchor' = Anchor({"z"}, EdgeFrame)
             \/ ~LensDue /\ UNCHANGED <<z_referenced, anchor>>
          /\ homed' = homed
          /\ st' = IF ReleasePoll THEN "alarm" ELSE st
    /\ armed' = (armed /\ st' # "alarm")
    /\ UNCHANGED <<phys, inflight, free, marker, out, lens_home, up, failed, relVars, sesVars>>

(* Nothing to do between two hooks. *)
NoLine ==
    /\ up /\ pc = "line" /\ pc' = "poll"
    /\ UNCHANGED <<fileVars, kernVars, free, up, st, position, armed, refVars, strVars,
                   relVars, sesVars>>


-----------------------------------------------------------------------------
(* Homing *)

(* home_cmd: a runner would energize the motors. *)
RunnerAllowed == ~released

(* gfcloud_home: the session moves the machine, so nothing is known from
   its first line on.  It waits for the kernel before it hands over. *)
HomeBegins ==
    /\ up /\ CommandAllowed /\ RunnerAllowed
    /\ st' = "homing" /\ entry_state' = st /\ session' = "wait" /\ pc' = "poll"
    /\ gfhome_invalidate
    /\ UNCHANGED <<kernVars, free, marker, out, lens_home, up, position, armed,
                   lens_referenced, strVars, relVars>>

(* The kernel did not come to rest in time, or the runner could not start. *)
HomeGivesUp ==
    /\ up /\ session = "wait"
    /\ st' = entry_state /\ session' = "none"
    /\ UNCHANGED <<fileVars, kernVars, free, up, pc, position, armed, refVars, strVars,
                   relVars, entry_state>>

(* The runner takes the device, and energizes the motors. *)
HandedOver ==
    /\ up /\ session = "wait" /\ KernelIdle
    /\ session' = "runner" /\ free' = FALSE
    /\ UNCHANGED <<fileVars, kernVars, up, coreVars, refVars, strVars, relVars,
                   entry_state>>

(* The runner steps the machine and clears the counters as it likes. *)
RunnerMoves ==
    /\ up /\ session \in {"runner", "aborted"}
    /\ phys' \in [Axes -> Places] /\ counter' \in {counter, Still}
    /\ UNCHANGED <<fileVars, inflight, free, up, coreVars, refVars, strVars, relVars,
                   sesVars>>

(* home_completed, as far as the counters. *)
Completed == counter' = Still /\ pc' = "anchor" /\ UNCHANGED <<anchor, st>>

(* The runner succeeded: the head in its corner, the lens parked. *)
Homed ==
    /\ up /\ session = "runner"
    /\ phys' = [a \in Axes |-> IF a = "z" THEN Edge + Park ELSE 0]
    /\ position' = Sum(phys', Frame)
    /\ homed' = TRUE /\ z_referenced' = TRUE
    /\ Completed
    /\ session' = "none" /\ failed' = FALSE
    /\ UNCHANGED <<inflight, free, marker, out, lens_home, up, armed, lens_referenced,
                   fault, relVars, entry_state>>

(* It failed, ran out of time or was aborted; the reset owns the state of
   an aborted session. *)
HomeFails ==
    /\ up /\ session \in {"runner", "aborted"}
    /\ st' = IF session = "runner" THEN "alarm" ELSE st
    /\ session' = "none" /\ failed' = FALSE
    /\ UNCHANGED <<fileVars, kernVars, free, up, pc, position, armed, refVars, fault,
                   relVars, entry_state>>

Bug_AnchorsAllAxes == Axes

(* The counters are cleared for every axis, so the anchor carries the lens
   where it stands, if that is known: after a session of the runner it is. *)
HomeAnchored == {"xy"} \cup (IF z_referenced THEN {"z"} ELSE {})

(* The rest of home_completed: the anchor, and the state. *)
AnchorWritten ==
    /\ up /\ pc = "anchor"
    /\ anchor' = Anchor(HomeAnchored, position)
    /\ st' = "idle" /\ pc' = "poll"
    /\ UNCHANGED <<kernVars, free, marker, out, lens_home, up, position, armed, refVars,
                   strVars, relVars, sesVars>>

(* gfrelease_energize: an unlink that fails leaves the marker standing. *)
Energized ==
    /\ released' = FALSE /\ free' = FALSE /\ unmarked' = FALSE
    /\ marker' \in {FALSE, marker}

(* manual_home: the operator put the head against the stops. *)
ManualHome ==
    /\ up /\ CommandAllowed /\ KernelIdle
    /\ phys["xy"] = 0
    /\ Energized
    /\ position' = [position EXCEPT !["xy"] = 0]
    /\ homed' = TRUE
    /\ Completed
    /\ UNCHANGED <<phys, inflight, out, lens_home, up, armed, z_referenced,
                   lens_referenced, strVars, alarm_before, sesVars>>

-----------------------------------------------------------------------------
(* The motor release *)

(* release_cmd, as far as the currents. *)
release_cmd ==
    /\ up /\ CommandAllowed /\ ~released /\ KernelIdle
    /\ released' = TRUE /\ free' = TRUE
    /\ alarm_before' = (st = "alarm") /\ unmarked' = FALSE
    /\ pc' = "freed"
    /\ UNCHANGED <<fileVars, kernVars, up, st, position, armed, refVars, strVars, sesVars>>

(* The rest of it: the marker (marker_set says nothing of a file that could
   not be opened), the reference and the alarm. *)
Marked ==
    /\ up /\ pc = "freed"
    /\ \E opened \in BOOLEAN : marker' = (marker \/ opened) /\ unmarked' = ~opened
    /\ gfhome_invalidate_xy
    /\ st' = "alarm" /\ pc' = "poll"
    /\ UNCHANGED <<kernVars, free, out, lens_home, up, position, armed, lens_referenced,
                   strVars, released, alarm_before, sesVars>>

energize_cmd ==
    /\ up /\ pc = "line" /\ session = "none" /\ released
    /\ Energized
    /\ st' = IF alarm_before THEN st ELSE "idle"
    /\ pc' = "poll"
    /\ UNCHANGED <<kernVars, anchor, out, lens_home, up, position, armed, refVars, strVars,
                   alarm_before, sesVars>>

(* unlock_guard: $X would free a released machine to move. *)
UnlockAllowed == ~released

Unlock ==
    /\ up /\ pc = "line" /\ session = "none" /\ st = "alarm" /\ UnlockAllowed
    /\ st' = "idle" /\ pc' = "poll"
    /\ UNCHANGED <<fileVars, kernVars, free, up, position, armed, refVars, strVars, relVars,
                   sesVars>>

(* The operator's hands, while nothing holds the gantry. *)
HandMoves ==
    /\ free
    /\ \E p \in Places : phys' = [phys EXCEPT !["xy"] = p]
    /\ UNCHANGED <<fileVars, counter, inflight, free, up, coreVars, refVars, strVars,
                   relVars, sesVars>>

-----------------------------------------------------------------------------
(* The tray *)

(* The anchor's Z is where the lens stood when the counters were zeroed:
   it moves with the frame. *)
AnchorShifted(delta) ==
    IF "z" \in anchor.axes THEN [anchor EXCEPT !.at["z"] = @ + delta] ELSE anchor

(* M103: after the planner and the kernel are empty.  The marker first: a
   mode that could not be saved did not change, and the job is held. *)
tray_set ==
    /\ up /\ Idle /\ KernelIdle
    /\ LET delta == IF out THEN -Shift ELSE Shift IN
       /\ out' = ~out
       /\ position' = [position EXCEPT !["z"] = @ + delta]
       /\ anchor' = AnchorShifted(delta)
    /\ pc' = "poll"
    /\ UNCHANGED <<kernVars, free, marker, lens_home, up, st, armed, refVars, strVars,
                   relVars, sesVars>>

-----------------------------------------------------------------------------
(* Resets, crashes and restarts *)

Motion == st \in {"cycle", "homing"}

(* The protocol thread takes a reset between two commands. *)
BetweenCommands == up /\ pc \in {"poll", "line"}

(* What the kernel's ramp reaches of what is in flight. *)
RampPlays(S) ==
    /\ phys' = Sum(phys, On(S, inflight))
    /\ counter' = Sum(counter, On(S, inflight))
    /\ inflight' = Still

Bug_LostKeepsReference == UNCHANGED <<anchor, homed, z_referenced, position>>

(* The position could not be read back (or the device is the session's). *)
PositionLost == gfhome_invalidate /\ UNCHANGED position

ReadBack(S) == Less(position, On(Axes \ S, inflight))

(* A soft reset in a motion state: the kernel ramps down, and the core's
   count of what never played is taken back, unless it cannot be read. *)
ResetInMotion ==
    /\ BetweenCommands /\ Motion
    /\ \E S \in SUBSET Axes :
        /\ RampPlays(S)
        /\ \/ PositionLost
           \/ /\ ~failed /\ session \in {"none", "wait"}
              /\ position' = ReadBack(S) /\ UNCHANGED <<anchor, homed, z_referenced>>
    /\ st' = "alarm" /\ armed' = FALSE /\ failed' = FALSE /\ pc' = "poll"
    /\ session' = IF session \in {"runner", "aborted"} THEN "aborted" ELSE "none"
    /\ UNCHANGED <<free, marker, out, lens_home, up, lens_referenced, fault, relVars,
                   entry_state>>

(* Outside motion the tail is left to play, and the core may or may not
   leave an alarm standing. *)
ResetAtRest ==
    /\ BetweenCommands /\ ~Motion
    /\ st' \in {st, "idle"} /\ failed' = FALSE /\ pc' = "poll"
    /\ session' = IF session \in {"runner", "aborted"} THEN "aborted" ELSE "none"
    /\ UNCHANGED <<fileVars, kernVars, free, up, position, armed, refVars, fault, relVars,
                   entry_state>>

(* The controller dies or exits; an unplayed queue may be lost. *)
Crash ==
    /\ up /\ up' = FALSE
    /\ \E S \in SUBSET Axes : RampPlays(S)
    /\ st' = "idle" /\ pc' = "poll" /\ position' = Still /\ armed' = FALSE
    /\ homed' = FALSE /\ z_referenced' = FALSE /\ lens_referenced' = FALSE
    /\ failed' = FALSE /\ fault' = FALSE
    /\ released' = FALSE /\ alarm_before' = FALSE
    /\ unmarked' = (unmarked \/ pc = "freed")
    /\ session' = "none" /\ entry_state' = "idle"
    /\ UNCHANGED <<fileVars, free>>

Bug_NoAdopt == FALSE

(* gfrelease_adopt, before the first hold current is written. *)
Adopted == marker

(* driver_init.  The daemon may have moved the lens to its edge and said
   so in lens.home; the files of the controller before are taken over. *)
Start ==
    /\ ~up /\ up' = TRUE
    /\ released' = Adopted /\ free' = Adopted /\ unmarked' = FALSE
    /\ lens_home' \in BOOLEAN
    /\ phys' \in {p \in [Axes -> Places] :
           /\ free \/ p["xy"] = phys["xy"]
           /\ IF lens_home' THEN p["z"] = Edge ELSE p["z"] = phys["z"]}
    /\ gfhome_invalidate
    /\ UNCHANGED <<counter, inflight, marker, out, coreVars, lens_referenced, strVars,
                   alarm_before, sesVars>>

-----------------------------------------------------------------------------
Next ==
    \/ Line \/ (\E a \in Axes, d \in {-1, 1} : Step(a, d)) \/ (\E a \in Axes : Played(a))
    \/ CycleEnds \/ StreamFault \/ Hook \/ NoLine
    \/ HomeBegins \/ HomeGivesUp \/ HandedOver \/ RunnerMoves \/ Homed \/ HomeFails
    \/ ManualHome \/ AnchorWritten
    \/ release_cmd \/ Marked \/ energize_cmd \/ Unlock \/ HandMoves \/ tray_set
    \/ ResetInMotion \/ ResetAtRest \/ Crash \/ Start

Spec == Init /\ [][Next]_vars

-----------------------------------------------------------------------------
(* The axes the controller calls known. *)
ControllerKnows == (IF homed THEN {"xy"} ELSE {}) \cup (IF z_referenced THEN {"z"} ELSE {})

(* Every variable has its type; the flag and the currents of a release agree
   while a controller is up, the marker stands beside them unless it could
   not be written, and the anchor never carries an axis the controller
   itself does not call known. *)
TypeOK ==
    /\ phys \in [Axes -> Places] /\ counter \in [Axes -> Int]
    /\ inflight \in [Axes -> {-1, 0, 1}] /\ free \in BOOLEAN
    /\ anchor.axes \in SUBSET Axes /\ anchor.at \in [Axes -> Int]
    /\ {marker, out, lens_home, up, homed, z_referenced, lens_referenced, armed, failed,
        fault, released, alarm_before, unmarked} \subseteq BOOLEAN
    /\ pc \in {"poll", "line", "freed", "anchor"}
    /\ st \in {"idle", "cycle", "homing", "alarm"}
    /\ position \in [Axes -> Int]
    /\ session \in {"none", "wait", "runner", "aborted"} /\ entry_state \in {"idle", "alarm"}
    /\ up => /\ free = released /\ (released => marker \/ unmarked \/ pc = "freed")
             /\ anchor.axes \subseteq ControllerKnows

(* The head may move by hand from the moment the currents are 0; the release
   takes the reference of X and Y behind its marker. *)
Loose == IF pc = "freed" THEN {"xy"} ELSE {}

(* The controller's own coordinates (sys.position, sys.homed and the lens
   reference) keep the promise of Datum: an axis called known stands where
   the position says, counting what is still to be played, except between
   a stream fault and the hook that takes it, and inside a release.  Homes,
   resets with and without a read-back, faults, releases, hand moves, tray
   switches and restarts all go through it. *)
ControllerOffers == ControllerKnows \ Loose
ControllerWrong == {a \in Axes : position[a] # phys[a] + inflight[a] + Frame[a]}
C == INSTANCE Datum WITH known <- ControllerOffers, wrong <- ControllerWrong,
                         notice <- fault
CoordinatesImplement == C!Spec

(* The anchor file keeps the same promise to the processes that read it:
   what it carries plus the kernel's counters is where the machine stands,
   except between a fault and its hook, inside a release, while no
   controller is up to look after the file, and between the two writes of
   a home: a reader that falls between them adds the zeroed counters to the
   anchor before. *)
AnchorOffers == IF up /\ pc # "anchor" THEN anchor.axes \ Loose ELSE {}
AnchorWrong == {a \in Axes : anchor.at[a] + counter[a] # phys[a] + Frame[a]}
A == INSTANCE Datum WITH known <- AnchorOffers, wrong <- AnchorWrong, notice <- fault
AnchorImplements == A!Spec

(* Hands may be on a released gantry: nothing is in flight for as long as
   the currents are 0, and only the operator's $ME or manual $H brings the
   currents back, through resets, unlocks, homes, crashes and restarts; or
   a start of the controller over a release whose marker was not written,
   because its file could not be opened or the controller before died
   between the currents and the marker. *)
ReleaseHolds ==
    [][free => /\ inflight' = Still
               /\ free' \/ energize_cmd \/ ManualHome \/ (Start /\ unmarked)]_vars

=============================================================================
