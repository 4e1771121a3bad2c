------------------------------ MODULE Consent ------------------------------
(***************************************************************************)
(* The operator's consent to a laser job: the button wait of the arm, the  *)
(* re-arm of a held job, the armed window and what closes it               *)
(* (glowforge_laser.c), with the button as pause and resume                *)
(* (glowforge_switches.c).                                                 *)
(*                                                                         *)
(* One protocol thread.  The realtime hook runs its polls in the order of  *)
(* the code: the alarm that is owed, the re-arm, the window, the switches  *)
(* (pc); the core reads lines and takes realtime flags between two hooks.  *)
(* The blocking wait of gflaser_arm (wait) runs the same hooks.  The       *)
(* operator, the sender and the cooling engine act on their own.           *)
(*                                                                         *)
(* The two threads of the latch, and a re-arm press that has to wait for   *)
(* the engine's acknowledgment inside the suspend loop, are LaserLatch's;  *)
(* here the acknowledgment is there when the press is read.  The cooling   *)
(* client's tiers are Cooling's.  Clocks are left open.                    *)
(***************************************************************************)
EXTENDS Naturals

CONSTANTS
    MaxSwaps    (* bound: changes of the sender                              *)

ASSUME ConsentAssumption == MaxSwaps \in Nat

VARIABLES
    pc,                 \* core, owed, rearm, window, switch, door or line
    \* the core (external)
    st,                 \* idle, cycle, hold, door or alarm
    work, modal,        \* planner not empty; the program's spindle word is on
    playing,            \* the kernel plays, or its tail
    rt,                 \* realtime flags not yet taken
    \* glowforge_laser.c
    cur_on,             \* cur_state_value.on
    laser_ok, armed_client_gen, disarm_request,
    grace,              \* disarm_at: the spindle-off grace is running
    arming, wait,       \* the blocking wait: none, button or ack
    released, ask_gen,  \* of the wait, or of the re-arm
    rearm_pending,
    fail_alarm_pending,
    \* glowforge_switches.c
    button_prev,
    \* the cooling client
    laser_on_window, run_ack, fire_ok,
    \* the surroundings
    gen, button, lid,
    \* history
    effect,             \* what the press in progress has done
    fresh,              \* that press began inside the wait in force
    consent,            \* the press that the arm took was fresh
    outlived,           \* a program has ended inside this window
    turned              \* the sender has changed behind the polls of this hook

coreVars == <<st, work, modal, playing, cur_on>>
windowVars == <<laser_ok, armed_client_gen, disarm_request, grace, outlived>>
waitVars == <<arming, wait, released, ask_gen, rearm_pending>>
coolVars == <<laser_on_window, run_ack, fire_ok>>
handVars == <<button, lid, fresh>>
genVars == <<gen, turned>>
vars == <<pc, rt, coreVars, windowVars, waitVars, fail_alarm_pending, button_prev,
          coolVars, genVars, handVars, effect, consent>>

Init ==
    /\ pc = "core" /\ st = "idle" /\ work = FALSE /\ modal = FALSE /\ playing = FALSE
    /\ rt = {} /\ cur_on = FALSE
    /\ laser_ok = FALSE /\ armed_client_gen = 0 /\ disarm_request = FALSE /\ grace = FALSE
    /\ arming = FALSE /\ wait = "none" /\ released = FALSE /\ ask_gen = 0
    /\ rearm_pending = FALSE /\ fail_alarm_pending = FALSE
    /\ button \in BOOLEAN /\ button_prev = button /\ lid \in BOOLEAN
    /\ laser_on_window = FALSE /\ run_ack = FALSE /\ fire_ok = TRUE
    /\ gen = 0 /\ effect = "none" /\ fresh = FALSE /\ consent = FALSE /\ outlived = FALSE
    /\ turned = FALSE

Held == st \in {"hold", "door"}

-----------------------------------------------------------------------------
(* The operator and the engine.                                            *)

\* A press is fresh when a wait is in force as the button goes down.
Press ==
    /\ pc \in {"core", "switch"} /\ ~button
    /\ button' = TRUE
    /\ fresh' = (wait = "button" \/ rearm_pending)
    /\ effect' = "none"
    /\ UNCHANGED <<pc, rt, coreVars, windowVars, waitVars, fail_alarm_pending, button_prev,
                   coolVars, genVars, lid, consent>>

Release ==
    /\ pc \in {"core", "switch"} /\ button
    /\ button' = FALSE
    /\ UNCHANGED <<pc, rt, coreVars, windowVars, waitVars, fail_alarm_pending, button_prev,
                   coolVars, genVars, lid, fresh, effect, consent>>

\* The lid, or the interlock loop.
LidMoves ==
    /\ pc \in {"core", "switch"}
    /\ lid' = ~lid
    /\ UNCHANGED <<pc, rt, coreVars, windowVars, waitVars, fail_alarm_pending, button_prev,
                   coolVars, genVars, button, fresh, effect, consent>>

\* The engine's verdict: it answers the armed bit, and it blocks fire or not.
Engine ==
    /\ pc = "core"
    /\ \/ run_ack # laser_on_window /\ run_ack' = laser_on_window /\ UNCHANGED fire_ok
       \/ fire_ok' = ~fire_ok /\ UNCHANGED run_ack
    /\ UNCHANGED <<pc, rt, coreVars, windowVars, waitVars, fail_alarm_pending, button_prev,
                   laser_on_window, genVars, handVars, effect, consent>>

-----------------------------------------------------------------------------
(* The window.                                                             *)

\* gflaser_disarm.
Disarm ==
    /\ laser_ok' = FALSE /\ disarm_request' = FALSE /\ grace' = FALSE /\ outlived' = FALSE
    /\ laser_on_window' = FALSE
    /\ UNCHANGED armed_client_gen

\* The end of arm_complete.
Open ==
    /\ laser_ok' = TRUE /\ disarm_request' = FALSE /\ grace' = FALSE /\ outlived' = FALSE
    /\ armed_client_gen' = gen
    /\ UNCHANGED laser_on_window

\* Mutant: an arm that is given up leaves the run airflow reported.
Bug_RefuseKeepsAir == UNCHANGED <<laser_on_window, windowVars>>

\* The refusals of arm_complete, and an arm that is given up.
Refuse == laser_on_window' = FALSE /\ UNCHANGED windowVars

\* system_raise_alarm: the core drops the job.
Alarm == st' = "alarm" /\ work' = FALSE /\ cur_on' = FALSE /\ UNCHANGED <<modal, playing>>

\* The first poll of the hook that has something to do.
Stage(owed, rearm, ok) ==
    IF owed THEN "owed" ELSE IF rearm THEN "rearm" ELSE IF ok THEN "window" ELSE "switch"

-----------------------------------------------------------------------------
(* Arming at a laser-on.                                                   *)

\* The core executes a line right behind a hook: not inside a wait or a hold,
\* nor under an abort.
Reads == pc = "line" /\ "reset" \notin rt /\ st \in {"idle", "cycle"}

\* A change of the spindle is synchronized: the planner is empty.
Synced == Reads /\ st = "idle" /\ ~work

\* spindleSetState on, with the window open: nothing is asked.
LaserOnOpen ==
    /\ Synced /\ laser_ok
    /\ pc' = "core"
    /\ modal' = TRUE /\ cur_on' = TRUE
    /\ UNCHANGED <<rt, st, work, playing, windowVars, waitVars, fail_alarm_pending,
                   button_prev, coolVars, genVars, handVars, effect, consent>>

\* spindleSetState on, with it closed: gflaser_arm as far as the wait.
LaserOnAsks ==
    /\ Synced /\ ~laser_ok /\ fire_ok
    /\ pc' = "core"
    /\ modal' = TRUE
    /\ laser_on_window' = TRUE
    /\ wait' = "button" /\ arming' = TRUE /\ released' = FALSE /\ ask_gen' = gen
    /\ fresh' = FALSE /\ consent' = FALSE
    /\ UNCHANGED <<rt, st, work, playing, cur_on, windowVars, rearm_pending,
                   fail_alarm_pending, button_prev, run_ack, fire_ok, genVars, button, lid,
                   effect>>

\* arm_gates: the verdict, no head or no switches.
LaserOnRefused ==
    /\ Synced /\ ~laser_ok
    /\ pc' = "core"
    /\ st' = "alarm" /\ modal' = TRUE /\ cur_on' = FALSE
    /\ UNCHANGED <<rt, work, playing, windowVars, waitVars, fail_alarm_pending,
                   button_prev, coolVars, genVars, handVars, effect, consent>>

\* The wait's loop, at its top.
Waiting == pc = "core" /\ wait = "button" /\ rt = {}

\* The sender has changed, the core is in alarm, the switches cannot be read
\* three times over, or the deadline has passed.
ArmAbort ==
    /\ Waiting
    /\ Alarm /\ Refuse
    /\ wait' = "none" /\ arming' = FALSE
    /\ UNCHANGED <<pc, rt, released, ask_gen, rearm_pending, fail_alarm_pending,
                   button_prev, run_ack, fire_ok, genVars, handVars, effect, consent>>

\* The lid or the loop is open: the job is cancelled by a reset.
ArmLid ==
    /\ Waiting /\ gen = ask_gen /\ st # "alarm" /\ lid
    /\ rt' = {"reset"}
    /\ UNCHANGED <<pc, coreVars, windowVars, waitVars, fail_alarm_pending, button_prev,
                   coolVars, genVars, handVars, effect, consent>>

\* The button is seen up.
ArmReleased ==
    /\ Waiting /\ gen = ask_gen /\ st # "alarm" /\ ~lid /\ ~button /\ ~released
    /\ released' = TRUE
    /\ UNCHANGED <<pc, rt, coreVars, windowVars, arming, wait, ask_gen, rearm_pending,
                   fail_alarm_pending, button_prev, coolVars, genVars, handVars, effect, consent>>

\* Mutant: a press that the sender's change does not stop.
Bug_AnySender == Waiting /\ st # "alarm" /\ ~lid /\ button /\ released

\* The press counts once the button has been seen up.
PressCounts == Waiting /\ gen = ask_gen /\ st # "alarm" /\ ~lid /\ button /\ released

ArmPress ==
    /\ PressCounts
    /\ wait' = "ack" /\ arming' = FALSE
    /\ button_prev' = TRUE
    /\ effect' = "consent" /\ consent' = fresh
    /\ UNCHANGED <<pc, rt, coreVars, windowVars, released, ask_gen, rearm_pending,
                   fail_alarm_pending, coolVars, genVars, handVars>>

\* arm_complete, behind the blocking wait.
ArmComplete ==
    /\ pc = "core" /\ wait = "ack" /\ rt = {}
    /\ run_ack /\ fire_ok
    /\ Open /\ wait' = "none" /\ cur_on' = TRUE
    /\ UNCHANGED <<pc, rt, st, work, modal, playing, arming, released, ask_gen,
                   rearm_pending, fail_alarm_pending, button_prev, run_ack, fire_ok,
                   genVars, handVars, effect, consent>>

\* No acknowledgment in time, the verdict gone bad, or the head lifted.
ArmRefused ==
    /\ pc = "core" /\ wait = "ack" /\ rt = {}
    /\ Alarm /\ Refuse /\ wait' = "none"
    /\ UNCHANGED <<pc, rt, arming, released, ask_gen, rearm_pending,
                   fail_alarm_pending, button_prev, run_ack, fire_ok, genVars, handVars,
                   effect, consent>>

-----------------------------------------------------------------------------
(* The resume gate and the re-arm.                                         *)

\* gflaser_resume_gate returns false: the resume goes to the core.
GatePasses == ~Held \/ (~rearm_pending /\ (laser_ok \/ ~modal))

\* It starts the re-arm.
GateAsks ==
    /\ Held /\ ~rearm_pending /\ ~laser_ok /\ modal /\ fire_ok
    /\ (laser_on_window => run_ack)
    /\ laser_on_window' = TRUE
    /\ rearm_pending' = TRUE /\ released' = FALSE /\ ask_gen' = gen /\ arming' = TRUE
    /\ fresh' = FALSE /\ consent' = FALSE
    /\ UNCHANGED <<rt, coreVars, windowVars, wait>>

\* arm_gates or the unlock refuses it.
GateRefuses ==
    /\ Held /\ ~rearm_pending /\ ~laser_ok /\ modal
    /\ Alarm
    /\ UNCHANGED <<rt, windowVars, waitVars, laser_on_window, fresh, consent>>

\* A resume that the button, a ~ or the cooling client asks for.
Resume ==
    \/ GatePasses /\ rt' = rt \cup {"start"}
       /\ UNCHANGED <<coreVars, windowVars, waitVars, laser_on_window, fresh, consent>>
    \/ Held /\ rearm_pending
       /\ UNCHANGED <<rt, coreVars, windowVars, waitVars, laser_on_window, fresh, consent>>
    \/ GateAsks
    \/ GateRefuses

\* rearm_end, around what the window's part of the step does.
RearmEnd == rearm_pending' = FALSE /\ arming' = FALSE /\ UNCHANGED <<wait, released, ask_gen>>

\* The re-arm ends without consent: the hold is over, the sender has changed,
\* the lid opened, the deadline passed.
RearmCancel ==
    /\ pc = "rearm"
    /\ RearmEnd /\ Refuse
    /\ pc' = Stage(FALSE, FALSE, laser_ok)
    /\ UNCHANGED <<rt, coreVars, fail_alarm_pending, button_prev, run_ack, fire_ok,
                   genVars, handVars, effect, consent>>

\* Three unreadable reads, or a refusal of arm_complete, raise the alarm.
RearmAlarm ==
    /\ pc = "rearm" /\ Held /\ gen = ask_gen
    /\ RearmEnd /\ Refuse /\ Alarm
    /\ pc' = Stage(FALSE, FALSE, laser_ok)
    /\ UNCHANGED <<rt, fail_alarm_pending, button_prev, run_ack, fire_ok, genVars,
                   handVars, effect, consent>>

RearmReleased ==
    /\ pc = "rearm" /\ Held /\ gen = ask_gen /\ ~lid /\ ~button
    /\ released' = TRUE
    /\ pc' = Stage(FALSE, FALSE, laser_ok)
    /\ UNCHANGED <<rt, coreVars, windowVars, arming, wait, ask_gen, rearm_pending,
                   fail_alarm_pending, button_prev, coolVars, genVars, handVars, effect, consent>>

\* The press that asked for the re-arm is still down.
RearmStillDown ==
    /\ pc = "rearm" /\ Held /\ gen = ask_gen /\ ~lid /\ button /\ ~released
    /\ pc' = Stage(FALSE, FALSE, laser_ok)
    /\ UNCHANGED <<rt, coreVars, windowVars, waitVars, fail_alarm_pending, button_prev,
                   coolVars, genVars, handVars, effect, consent>>

\* Mutant: the press is not told to the pause toggle.
Bug_NotConsumed == UNCHANGED button_prev

\* gfsw_button_consumed.
Consumed == button_prev' = TRUE

\* The press, with the acknowledgment there: the window opens and the cycle
\* start is issued.
RearmPress ==
    /\ pc = "rearm" /\ Held /\ gen = ask_gen /\ ~lid /\ button /\ released
    /\ run_ack /\ fire_ok
    /\ Consumed
    /\ effect' = "consent" /\ consent' = fresh
    /\ Open /\ RearmEnd
    /\ rt' = rt \cup {"start"}
    /\ pc' = "window"
    /\ UNCHANGED <<coreVars, fail_alarm_pending, run_ack, fire_ok, genVars, handVars>>

-----------------------------------------------------------------------------
(* The polls of the hook.                                                  *)

Hook ==
    /\ pc = "core" /\ rt = {}
    /\ pc' = Stage(fail_alarm_pending, rearm_pending, laser_ok) /\ turned' = FALSE
    /\ UNCHANGED <<rt, coreVars, windowVars, waitVars, fail_alarm_pending, button_prev,
                   coolVars, gen, handVars, effect, consent>>

\* gfcool_poll finds the verdict in the fail tier: gflaser_verdict_fail.
HookVerdictFail ==
    /\ pc = "core" /\ rt = {} /\ laser_ok /\ ~fire_ok
    /\ Disarm
    /\ rt' = {"reset"} /\ fail_alarm_pending' = TRUE
    /\ pc' = "owed" /\ turned' = FALSE
    /\ UNCHANGED <<coreVars, waitVars, button_prev, run_ack, fire_ok, gen, handVars, effect,
                   consent>>

\* The hook finds the stream faulted.
HookStreamFault ==
    /\ pc = "core" /\ rt = {} /\ st # "alarm"
    /\ Alarm /\ Disarm
    /\ pc' = Stage(fail_alarm_pending, rearm_pending, FALSE) /\ turned' = FALSE
    /\ UNCHANGED <<rt, waitVars, fail_alarm_pending, button_prev, run_ack, fire_ok, gen,
                   handVars, effect, consent>>

\* A reset from a standstill has landed and raised no alarm of its own.
OwedIdle == st = "idle" /\ "reset" \notin rt

PollOwed ==
    /\ pc = "owed"
    /\ fail_alarm_pending' = ~(st = "alarm" \/ OwedIdle)
    /\ IF OwedIdle THEN Alarm ELSE UNCHANGED coreVars
    /\ pc' = Stage(FALSE, rearm_pending, laser_ok)
    /\ UNCHANGED <<rt, windowVars, waitVars, button_prev, coolVars, genVars, handVars, effect,
                   consent>>

\* Mutant: a sender change is looked for in a running job only.
Bug_SwappedInCycle == st = "cycle" /\ gen # armed_client_gen

Swapped == gen # armed_client_gen

\* The window's part of gflaser_poll: an alarm, another sender, the end of the
\* program behind its tail, or the grace of a spindle that is off.
PollWindow ==
    LET closes == st = "alarm" \/ Swapped \/ (disarm_request /\ ~playing)
        off == ~cur_on /\ st # "cycle"
    IN  /\ pc = "window" /\ pc' = "switch"
        /\ \/ closes /\ Disarm
           \/ ~closes /\ off /\ grace /\ ~playing /\ Disarm
           \/ /\ ~closes /\ grace' = off
              /\ UNCHANGED <<laser_ok, armed_client_gen, disarm_request, outlived,
                             laser_on_window>>
        /\ rt' = IF st = "cycle" /\ Swapped THEN rt \cup {"hold"} ELSE rt
        /\ UNCHANGED <<coreVars, waitVars, fail_alarm_pending, button_prev, run_ack, fire_ok,
                       genVars, handVars, effect, consent>>

\* Behind the hook, a line, or back to a wait.
AfterHook == IF wait = "none" THEN "line" ELSE "core"

\* gfsw_poll: an edge of the button is a pause or a resume, outside a wait.
PollSwitch ==
    /\ pc = "switch"
    /\ button_prev' = button
    /\ IF button /\ ~button_prev /\ ~arming /\ st = "hold"
       THEN Resume /\ effect' = "resume"
       ELSE /\ IF button /\ ~button_prev /\ ~arming /\ st = "cycle"
               THEN rt' = rt \cup {"hold"} /\ effect' = "pause"
               ELSE UNCHANGED <<rt, effect>>
            /\ UNCHANGED <<coreVars, windowVars, waitVars, laser_on_window, fresh, consent>>
    /\ pc' = IF lid /\ st' \in {"cycle", "hold"} THEN "door" ELSE AfterHook
    /\ UNCHANGED <<fail_alarm_pending, run_ack, fire_ok, genVars, button, lid>>

\* Behind the button, the door is delivered to a job that runs or is held.
PollDoor ==
    /\ pc = "door" /\ pc' = AfterHook
    /\ st' = "door" /\ cur_on' = FALSE
    /\ UNCHANGED <<rt, work, modal, playing, windowVars, waitVars, fail_alarm_pending,
                   button_prev, coolVars, genVars, handVars, effect, consent>>

\* A read that fails keeps the previous state.
PollUnreadable ==
    /\ pc = "switch" /\ pc' = AfterHook
    /\ UNCHANGED <<rt, coreVars, windowVars, waitVars, fail_alarm_pending, button_prev,
                   coolVars, genVars, handVars, effect, consent>>

\* cancel_job, and the reset it leads to: the lid policy takes a parked job.
LidCancels ==
    /\ pc = "core" /\ rt = {} /\ st = "door"
    /\ Disarm /\ rt' = {"reset"}
    /\ UNCHANGED <<pc, coreVars, waitVars, fail_alarm_pending, button_prev, run_ack, fire_ok,
                   genVars, handVars, effect, consent>>

-----------------------------------------------------------------------------
(* The sender, and the core (external).                                    *)

\* serial_poll, the last thing the hook does: behind the polls and ahead of the
\* line, or of the wait's next look.
AtSerial == pc = AfterHook

\* A sender is displaced, connects or goes (drop_client, rx_poll).
SenderSwap ==
    /\ AtSerial /\ gen < MaxSwaps
    /\ gen' = gen + 1 /\ turned' = TRUE
    /\ UNCHANGED <<pc, rt, coreVars, windowVars, waitVars, fail_alarm_pending, button_prev,
                   coolVars, handVars, effect, consent>>

\* ! and ^X.
SenderFlag(f) ==
    /\ AtSerial
    /\ rt' = rt \cup {f}
    /\ UNCHANGED <<pc, coreVars, windowVars, waitVars, fail_alarm_pending, button_prev,
                   coolVars, genVars, handVars, effect, consent>>

\* ~ passes rx_byte's gate.
SenderResume ==
    /\ AtSerial /\ Resume
    /\ UNCHANGED <<pc, fail_alarm_pending, button_prev, run_ack, fire_ok, genVars, button, lid,
                   effect>>

ReadMotion ==
    /\ Reads
    /\ pc' = "core"
    /\ work' = TRUE /\ st' = "cycle" /\ playing' = TRUE
    /\ UNCHANGED <<rt, modal, cur_on, windowVars, waitVars, fail_alarm_pending,
                   button_prev, coolVars, genVars, handVars, effect, consent>>

\* M5.
LaserOff ==
    /\ Synced
    /\ pc' = "core"
    /\ modal' = FALSE /\ cur_on' = FALSE
    /\ UNCHANGED <<rt, st, work, playing, windowVars, waitVars, fail_alarm_pending,
                   button_prev, coolVars, genVars, handVars, effect, consent>>

\* M2: the spindle goes off and onProgramCompleted asks for the disarm.
ProgramEnd ==
    /\ Reads /\ st = "idle" /\ ~work
    /\ pc' = "core"
    /\ modal' = FALSE /\ cur_on' = FALSE
    /\ disarm_request' = (disarm_request \/ laser_ok) /\ outlived' = (outlived \/ laser_ok)
    /\ UNCHANGED <<rt, st, work, playing, laser_ok, armed_client_gen, grace, waitVars,
                   fail_alarm_pending, button_prev, coolVars, genVars, handVars, effect, consent>>

\* The planner runs empty; the kernel's ring does so later.
MotionEnds ==
    /\ pc = "core" /\ rt = {} /\ st = "cycle"
    /\ st' = "idle" /\ work' = FALSE
    /\ UNCHANGED <<pc, rt, modal, playing, cur_on, windowVars, waitVars, fail_alarm_pending,
                   button_prev, coolVars, genVars, handVars, effect, consent>>

KernelIdles ==
    /\ pc = "core" /\ playing /\ st # "cycle"
    /\ playing' = FALSE
    /\ UNCHANGED <<pc, rt, st, work, modal, cur_on, windowVars, waitVars, fail_alarm_pending,
                   button_prev, coolVars, genVars, handVars, effect, consent>>

\* $X.
Unlock ==
    /\ pc = "line" /\ "reset" \notin rt /\ st = "alarm"
    /\ pc' = "core"
    /\ st' = "idle"
    /\ UNCHANGED <<rt, work, modal, playing, cur_on, windowVars, waitVars,
                   fail_alarm_pending, button_prev, coolVars, genVars, handVars, effect, consent>>

\* EXEC_RESET: driverReset disarms, a wait is given up.
TakeReset ==
    /\ pc = "core" /\ "reset" \in rt
    /\ rt' = {}
    /\ st' \in IF st = "idle" THEN {"idle"} ELSE IF st = "cycle" THEN {"alarm"}
               ELSE {"idle", "alarm"}
    /\ work' = FALSE /\ modal' = FALSE /\ cur_on' = FALSE /\ UNCHANGED playing
    /\ Disarm
    /\ wait' = "none" /\ arming' = rearm_pending
    /\ UNCHANGED <<pc, released, ask_gen, rearm_pending, fail_alarm_pending, button_prev, run_ack, fire_ok, genVars,
                   handVars, effect, consent>>

\* A hold stops a cycle with the beam off; a resume restores the spindle
\* inside the held state, dark when the window is closed (spindleSetState).
TakeFlag ==
    /\ pc = "core" /\ rt # {} /\ "reset" \notin rt
    /\ rt' = {}
    /\ IF "hold" \in rt /\ st = "cycle"
       THEN st' = "hold" /\ cur_on' = FALSE
       ELSE IF "start" \in rt /\ (st = "hold" \/ (st = "door" /\ ~lid))
       THEN st' = (IF work THEN "cycle" ELSE "idle") /\ cur_on' = (modal /\ laser_ok)
       ELSE UNCHANGED <<st, cur_on>>
    /\ playing' = (playing \/ st' = "cycle")
    /\ UNCHANGED <<pc, work, modal, windowVars, waitVars, fail_alarm_pending, button_prev,
                   coolVars, genVars, handVars, effect, consent>>

NoLine ==
    /\ pc = "line" /\ pc' = "core"
    /\ UNCHANGED <<rt, coreVars, windowVars, waitVars, fail_alarm_pending, button_prev,
                   coolVars, genVars, handVars, effect, consent>>

-----------------------------------------------------------------------------
ArmStep ==
    \/ LaserOnOpen \/ LaserOnAsks \/ LaserOnRefused
    \/ ArmAbort \/ ArmLid \/ ArmReleased \/ ArmPress \/ ArmComplete \/ ArmRefused

RearmStep ==
    \/ RearmCancel \/ RearmAlarm \/ RearmReleased \/ RearmStillDown \/ RearmPress

Polls ==
    \/ Hook \/ HookVerdictFail \/ HookStreamFault
    \/ PollOwed \/ PollWindow \/ PollSwitch \/ PollDoor \/ PollUnreadable \/ LidCancels

CoreStep ==
    \/ ReadMotion \/ LaserOff \/ ProgramEnd \/ MotionEnds \/ Unlock \/ NoLine
    \/ TakeReset \/ TakeFlag

Outside ==
    \/ Press \/ Release \/ LidMoves \/ Engine \/ KernelIdles
    \/ SenderSwap \/ SenderResume \/ \E f \in {"hold", "reset"} : SenderFlag(f)

Next == ArmStep \/ RearmStep \/ Polls \/ CoreStep \/ Outside

Spec == Init /\ [][Next]_vars

-----------------------------------------------------------------------------
(* Properties.                                                             *)

\* Every variable has its type, and a wait is one thing at a time: the
\* blocking wait never runs beside a re-arm.
TypeOK ==
    /\ pc \in {"core", "owed", "rearm", "window", "switch", "door", "line"}
    /\ st \in {"idle", "cycle", "hold", "door", "alarm"}
    /\ rt \subseteq {"hold", "start", "reset"}
    /\ wait \in {"none", "button", "ack"}
    /\ wait # "none" => ~rearm_pending
    /\ {armed_client_gen, ask_gen, gen} \subseteq 0 .. MaxSwaps
    /\ effect \in {"none", "pause", "resume", "consent"}
    /\ {work, modal, playing, cur_on, laser_ok, disarm_request, grace, arming, released,
        rearm_pending, fail_alarm_pending, button_prev, laser_on_window, run_ack,
        fire_ok, button, lid, fresh, consent, outlived, turned} \subseteq BOOLEAN

\* One press, one meaning: a press that was a pause, a resume or a consent is
\* never taken for another of them (gfsw_button_consumed, gflaser_arming, the
\* rule that the button is seen up first).
PressOnce == [][effect # "none" /\ effect' # effect => effect' = "none"]_vars

\* The run airflow is reported for as long as the window is open, and for no
\* longer than something is armed or arming (gfcool_laser_armed's callers).
AirflowCovers ==
    /\ laser_ok /\ st # "alarm" => laser_on_window
    /\ laser_on_window => laser_ok \/ wait # "none" \/ rearm_pending

\* A window opens only behind a press that began inside its own wait and that
\* was read while the sender whose request is waiting was still there: a stuck
\* button, the press that paused the job and the press that asked for the
\* re-arm are no consent.  A re-armed window belongs to the sender that asked;
\* one that the blocking arm opens belongs to the sender of that moment, who
\* may have come during the wait for the engine's acknowledgment (released,
\* rearm_released, the generation checks of gflaser_arm and rearm_poll).
PressConsents ==
    [][/\ ~laser_ok /\ laser_ok' =>
              consent' /\ armed_client_gen' = IF wait = "ack" THEN gen ELSE ask_gen
       /\ effect # "consent" /\ effect' = "consent" => gen = ask_gen]_vars

\* glowforge_laser.c: "The consent belongs to the sender that asked for it: a
\* sender change during the wait ends the arm, so a press never lands on another
\* session's lines": a window opens for the sender that asked.
AskerConsents == [][~laser_ok /\ laser_ok' => armed_client_gen' = ask_gen]_vars

\* What a line of g-code meets: the window of a displaced sender is closed by
\* the next hook's poll, so that only a line read as the sender changes, behind
\* the polls of the same hook, still finds it; and between a verdict of the fail
\* tier and its alarm no line runs, also where the reset lands on a machine that
\* stands still and raises none (armed_client_gen, fail_alarm_pending).
LinesMeet ==
    pc = "line" =>
        /\ laser_ok => gen = armed_client_gen \/ turned
        /\ fail_alarm_pending => "reset" \in rt

\* glowforge_laser.c: "Program end closes the window too - the consent is spent
\* with the job": no motion of a later program runs lit in it.
OneJobPerPress == ~(laser_ok /\ outlived /\ st = "cycle" /\ cur_on)
=============================================================================
