----------------------------- MODULE LidCancel -----------------------------
(***************************************************************************)
(* The lid and the interlock loop as the core's safety door, and what an   *)
(* open door does to a job: the cancel, its reset and the return to the    *)
(* job's start (glowforge_switches.c, glowforge_switch_map.h).             *)
(*                                                                         *)
(* The protocol thread alternates: the realtime hook polls (pc = "poll"),  *)
(* then the core takes one step (pc = "core").  The core, its planner and  *)
(* its command queue are external.  A planned block carries where it goes  *)
(* and where the job it belongs to began, so that the park can be compared *)
(* with the job it ends.  The button is Consent's.                         *)
(***************************************************************************)
EXTENDS Naturals, Sequences

CONSTANTS
    Places,     (* positions of the head                                     *)
    MaxBlocks,  (* bound: blocks in the planner                              *)
    MaxLines    (* bound: motion lines of the senders                        *)

ASSUME LidAssumption ==
    Places # {} /\ MaxBlocks \in Nat \ {0} /\ MaxLines \in Nat

VARIABLES
    pc,
    \* the core (external)
    st,             \* idle, cycle, jog, hold, door or alarm
    parked,         \* of a door: parking_state is DoorAjar or DoorClosed
    todo,           \* planned blocks, the one that runs first
    pos, rt,
    xcommand,       \* the line of enqueue_gcode that has not run: <<>> or <<target>>
    playing,        \* the kernel plays, or its tail
    lines,
    \* the surroundings
    lid, answers,
    \* glowforge_switches.c
    state, delivered,
    missed,         \* history: a failed read kept delivered where no door is shown
    cancel_state, door_hidden, hold_seen,
    late,           \* the bound that runs from park_at has passed
    park_saw_cycle,
    job_start,      \* <<>> until have_job_start
    job_active, prev_state

coreVars == <<st, parked, todo, pos, xcommand, playing, lines>>
outVars == <<lid, answers>>
readVars == <<state, delivered, missed>>
jobVars == <<job_start, job_active, prev_state>>
cancelVars == <<cancel_state, door_hidden, hold_seen, park_saw_cycle>>
vars == <<pc, rt, coreVars, outVars, readVars, cancelVars, late, jobVars>>

Init ==
    /\ pc = "poll" /\ st = "idle" /\ parked = FALSE /\ todo = <<>> /\ pos \in Places
    /\ rt = {} /\ xcommand = <<>> /\ playing = FALSE /\ lines = 0
    /\ lid \in BOOLEAN /\ answers = TRUE
    /\ state = lid /\ delivered = FALSE /\ missed = FALSE
    /\ cancel_state = "None" /\ door_hidden = FALSE /\ hold_seen = FALSE
    /\ late = FALSE /\ park_saw_cycle = FALSE
    /\ job_start = <<>> /\ job_active = FALSE /\ prev_state = "idle"

-----------------------------------------------------------------------------
(* The surroundings.                                                       *)

\* The lid, or the loop; the switch device, which may stop answering and return.
Surroundings ==
    /\ \/ lid' = ~lid /\ UNCHANGED answers
       \/ answers' = ~answers /\ UNCHANGED lid
    /\ UNCHANGED <<pc, rt, coreVars, readVars, cancelVars, late, jobVars>>

\* The clock that park_at started.
Tick ==
    /\ cancel_state # "None" /\ ~late /\ late' = TRUE
    /\ UNCHANGED <<pc, rt, coreVars, outVars, readVars, cancelVars, jobVars>>

KernelIdles ==
    /\ playing /\ st \notin {"cycle", "jog"} /\ (st = "door" => parked)
    /\ playing' = FALSE
    /\ UNCHANGED <<pc, rt, st, parked, todo, pos, xcommand, lines, outVars, readVars,
                   cancelVars, late, jobVars>>

-----------------------------------------------------------------------------
(* The poll.                                                               *)

\* gfsw_visible, and the cancel's own hiding.
Visible(open, s, hidden) == open /\ s \notin {"idle", "jog", "homing"} /\ ~hidden

\* gfsw_edges: what is newly asserted reaches the core.
NewlyOn(want) == IF want /\ ~delivered THEN {"door"} ELSE {}

\* Mutant: the reading is remembered, not what the core was shown of it.
Bug_ReadIsTold(want) == lid

\* gfsw_edges: what the core has been told from here on.
Told(want) == want

\* What the poll's cancel machine leaves alone.
Stay == UNCHANGED <<cancelVars, late, xcommand>>

\* Mutant: the alarm's exit leaves the door hidden.
Bug_EndHidden(exit) == cancel_state' = "None" /\ door_hidden' = (exit = "alarm")

\* The cancel is over.
CancelEnd(exit) == cancel_state' = "None" /\ door_hidden' = FALSE

\* Cancel_None: the policy is read once, when the job has just parked.  The
\* config file says either (lid_cancels).
PollNone ==
    /\ cancel_state = "None"
    /\ IF st = "door" /\ parked
       THEN \/ /\ ~hold_seen
               /\ door_hidden' = TRUE /\ cancel_state' = "WaitDrain" /\ late' = FALSE
               /\ UNCHANGED <<hold_seen, park_saw_cycle>>
            \/ /\ hold_seen' = TRUE
               /\ UNCHANGED <<cancel_state, door_hidden, park_saw_cycle, late>>
       ELSE hold_seen' = FALSE
            /\ UNCHANGED <<cancel_state, door_hidden, park_saw_cycle, late>>
    /\ UNCHANGED <<xcommand>>

\* Cancel_WaitDrain, and send_reset: TRUE when it sends.
Drained == ~playing \/ st # "door" \/ late

PollWaitDrain ==
    /\ cancel_state = "WaitDrain"
    /\ IF Drained
       THEN cancel_state' = "ResetSent" /\ late' = FALSE
            /\ UNCHANGED <<door_hidden, hold_seen, park_saw_cycle, xcommand>>
       ELSE Stay

\* grbl.enqueue_gcode takes the park, or fails until the bound has passed.
ParkQueue ==
    \/ /\ xcommand = <<>> /\ xcommand' = job_start
       /\ cancel_state' = "ParkQueued" /\ late' = FALSE /\ park_saw_cycle' = FALSE
       /\ UNCHANGED <<door_hidden, hold_seen>>
    \/ /\ IF late THEN CancelEnd("queue") ELSE UNCHANGED <<cancel_state, door_hidden>>
       /\ UNCHANGED <<hold_seen, park_saw_cycle, late, xcommand>>

\* Cancel_ResetSent.
PollResetSent ==
    /\ cancel_state = "ResetSent"
    /\ IF "reset" \in rt \/ st # "idle"
       THEN IF st = "alarm"
            THEN CancelEnd("alarm") /\ UNCHANGED <<hold_seen, park_saw_cycle, late, xcommand>>
            ELSE Stay
       ELSE IF job_start = <<>>
            THEN CancelEnd("idle") /\ UNCHANGED <<hold_seen, park_saw_cycle, late, xcommand>>
            ELSE ParkQueue

\* The park has run, or had no way to go.
ParkOver == st = "idle" /\ (park_saw_cycle \/ late)

\* Cancel_ParkQueued.
PollParkQueued ==
    /\ cancel_state = "ParkQueued"
    /\ IF st = "alarm" THEN CancelEnd("alarm") /\ UNCHANGED park_saw_cycle
       ELSE IF ParkOver THEN CancelEnd("idle") /\ UNCHANGED park_saw_cycle
       ELSE park_saw_cycle' = (park_saw_cycle \/ st = "cycle")
            /\ UNCHANGED <<cancel_state, door_hidden>>
    /\ UNCHANGED <<hold_seen, late, xcommand>>

CancelPoll == PollNone \/ PollWaitDrain \/ PollResetSent \/ PollParkQueued

\* The reset that the poll sends.
ResetOf == IF cancel_state = "WaitDrain" /\ Drained THEN {"reset"} ELSE {}

PollFrame ==
    /\ pc = "poll" /\ pc' = "core"
    /\ UNCHANGED <<st, parked, todo, pos, playing, lines, outVars, jobVars>>

\* gfsw_poll: the reading, the edges, then the cancel.
PollReads ==
    LET want == Visible(lid, st, door_hidden)
    IN  /\ answers
        /\ state' = lid /\ delivered' = Told(want) /\ missed' = (missed /\ want)
        /\ rt' = rt \cup NewlyOn(want) \cup ResetOf
        /\ CancelPoll
        /\ PollFrame

\* Mutant: a failed read ends the poll.
Bug_FailedReadReturns == Stay /\ UNCHANGED rt

\* A read that fails keeps the reading; a cancel in flight goes on.
FailedRead == CancelPoll /\ rt' = rt \cup ResetOf

PollFails ==
    /\ ~answers
    /\ missed' = (missed \/ (delivered /\ ~Visible(TRUE, st, door_hidden)))
    /\ UNCHANGED <<state, delivered>>
    /\ FailedRead
    /\ PollFrame

-----------------------------------------------------------------------------
(* onStateChange.                                                          *)

\* Mutant: every cycle begins a job.
Bug_ResumeIsStart(prev, active) == prev = "idle"

\* An Idle -> Cycle transition with no job under way.
Begins(prev, active) == prev = "idle" /\ ~active

\* The state becomes s, the planner holds plan then.
OnStateChange(s, plan) ==
    /\ prev_state' = s
    /\ job_active' = CASE s = "idle" -> job_active /\ plan # <<>>
                       [] s = "alarm" -> FALSE
                       [] s = "cycle" /\ prev_state = "idle" -> TRUE
                       [] OTHER -> job_active
    /\ job_start' = IF s = "cycle" /\ Begins(prev_state, job_active) /\ cancel_state = "None"
                    THEN <<pos>> ELSE job_start

\* The core restarts a held cycle through Idle, the planner still loaded.
OnResume ==
    /\ prev_state' = "cycle" /\ job_active' = TRUE
    /\ job_start' = IF Begins("idle", job_active) /\ cancel_state = "None"
                    THEN <<pos>> ELSE job_start

-----------------------------------------------------------------------------
(* The core (external).  One step between two hooks.                       *)

CoreFrame ==
    /\ pc = "core" /\ pc' = "poll"
    /\ UNCHANGED <<outVars, readVars, cancelVars, late>>

Quiet == pc = "core" /\ rt = {}

CoreIdles ==
    /\ Quiet /\ CoreFrame
    /\ UNCHANGED <<rt, coreVars, jobVars>>

\* A motion line; the planner's first block is where a job begins.
Plan(t) ==
    todo' = Append(todo, [to |-> t, from |-> IF todo = <<>> THEN pos ELSE todo[1].from])

SenderLine(t) ==
    /\ Quiet /\ CoreFrame
    /\ st \in {"idle", "cycle"} /\ Len(todo) < MaxBlocks /\ lines < MaxLines
    /\ Plan(t) /\ lines' = lines + 1
    /\ UNCHANGED <<rt, st, parked, pos, xcommand, playing, jobVars>>

\* The queued line runs, or is refused.
RunXcommand ==
    /\ Quiet /\ CoreFrame
    /\ xcommand # <<>> /\ Len(todo) < MaxBlocks /\ st \in {"idle", "cycle", "alarm", "jog"}
    /\ IF st \in {"alarm", "jog"} \/ (todo = <<>> /\ pos = xcommand[1])
       THEN UNCHANGED todo ELSE Plan(xcommand[1])
    /\ xcommand' = <<>>
    /\ UNCHANGED <<rt, st, parked, pos, playing, lines, jobVars>>

AutoStart ==
    /\ Quiet /\ CoreFrame
    /\ st = "idle" /\ todo # <<>>
    /\ st' = "cycle" /\ playing' = TRUE
    /\ OnStateChange("cycle", todo)
    /\ UNCHANGED <<rt, parked, todo, pos, xcommand, lines>>

BlockEnds ==
    /\ Quiet /\ CoreFrame
    /\ st = "cycle" /\ todo # <<>>
    /\ pos' = todo[1].to /\ todo' = Tail(todo)
    /\ IF todo' = <<>> THEN st' = "idle" /\ OnStateChange("idle", todo')
                       ELSE UNCHANGED <<st, jobVars>>
    /\ UNCHANGED <<rt, parked, xcommand, playing, lines>>

JogStarts ==
    /\ Quiet /\ CoreFrame
    /\ st = "idle" /\ todo = <<>>
    /\ st' = "jog" /\ playing' = TRUE /\ OnStateChange("jog", todo)
    /\ UNCHANGED <<rt, parked, todo, pos, xcommand, lines>>

JogEnds ==
    /\ Quiet /\ CoreFrame
    /\ st = "jog"
    /\ pos' \in Places /\ st' = "idle" /\ OnStateChange("idle", todo)
    /\ UNCHANGED <<rt, parked, todo, xcommand, playing, lines>>

\* The deceleration into the door state has ended.
DoorParks ==
    /\ Quiet /\ CoreFrame
    /\ st = "door" /\ ~parked /\ parked' = TRUE
    /\ UNCHANGED <<rt, st, todo, pos, xcommand, playing, lines, jobVars>>

Alarms ==
    /\ Quiet /\ CoreFrame
    /\ st # "alarm"
    /\ st' = "alarm" /\ todo' = <<>> /\ parked' = FALSE
    /\ OnStateChange("alarm", todo')
    /\ UNCHANGED <<rt, pos, xcommand, playing, lines>>

Unlock ==
    /\ Quiet /\ CoreFrame
    /\ st = "alarm" /\ st' = "idle" /\ OnStateChange("idle", todo)
    /\ UNCHANGED <<rt, parked, todo, pos, xcommand, playing, lines>>

\* !, ~ and ^X, or the button's: one between two hooks.
Flag(f) ==
    /\ pc = "core" /\ rt \subseteq {"door"} /\ rt' = rt \cup {f}
    /\ UNCHANGED <<pc, coreVars, outVars, readVars, cancelVars, late, jobVars>>

\* A reset out of motion alarms; a parked machine keeps its position.
TakeReset ==
    /\ pc = "core" /\ "reset" \in rt /\ CoreFrame
    /\ rt' = {} /\ todo' = <<>> /\ xcommand' = <<>> /\ parked' = FALSE
    /\ st' = IF st \in {"cycle", "jog", "alarm"} \/ (st = "door" /\ ~parked)
             THEN "alarm" ELSE "idle"
    /\ OnStateChange(st', todo')
    /\ UNCHANGED <<pos, playing, lines>>

\* The door outranks the hold, and the hold the resume.
DoorTaken == "door" \in rt /\ st # "alarm"
HoldTaken == ~DoorTaken /\ "hold" \in rt /\ st = "cycle"
StartTaken ==
    /\ ~DoorTaken /\ ~HoldTaken /\ "start" \in rt
    /\ st = "hold" \/ (st = "door" /\ parked /\ ~Visible(state, st, door_hidden))

\* A position mid-block is any.
TakeFlag ==
    /\ pc = "core" /\ rt # {} /\ "reset" \notin rt /\ CoreFrame
    /\ rt' = {}
    /\ \/ /\ DoorTaken
          /\ st' = "door" /\ parked' = (parked \/ st \in {"idle", "hold"})
          /\ IF st = "cycle" THEN pos' \in Places ELSE UNCHANGED pos
          /\ OnStateChange("door", todo) /\ UNCHANGED playing
       \/ /\ HoldTaken
          /\ st' = "hold" /\ pos' \in Places
          /\ OnStateChange("hold", todo) /\ UNCHANGED <<parked, playing>>
       \/ /\ StartTaken
          /\ parked' = FALSE
          /\ IF todo # <<>>
             THEN st' = "cycle" /\ playing' = TRUE /\ OnResume
             ELSE st' = "idle" /\ UNCHANGED playing /\ OnStateChange("idle", todo)
          /\ UNCHANGED pos
       \/ /\ ~DoorTaken /\ ~HoldTaken /\ ~StartTaken
          /\ UNCHANGED <<st, parked, pos, playing, jobVars>>
    /\ UNCHANGED <<todo, xcommand, lines>>

-----------------------------------------------------------------------------
Poll == PollReads \/ PollFails

CoreStep ==
    \/ CoreIdles \/ RunXcommand \/ AutoStart \/ BlockEnds \/ JogStarts \/ JogEnds
    \/ DoorParks \/ Alarms \/ Unlock \/ TakeReset \/ TakeFlag
    \/ \E t \in Places : SenderLine(t)

Outside ==
    \/ Surroundings \/ Tick \/ KernelIdles
    \/ \E f \in {"hold", "start", "reset"} : Flag(f)

Next == Poll \/ CoreStep \/ Outside

Spec == Init /\ [][Next]_vars

\* What the core has to do in its loop: a motion that runs ends, a planned one
\* starts, a queued line is read.
Progress == AutoStart \/ BlockEnds \/ JogEnds \/ DoorParks \/ RunXcommand

FairSpec ==
    /\ Spec
    /\ WF_vars(Poll \/ CoreStep) /\ WF_vars(Tick) /\ SF_vars(Progress)

-----------------------------------------------------------------------------
(* Properties.                                                             *)

Block == [to : Places, from : Places]

\* Every variable has its type, and the door is hidden through a cancel and
\* at no other time.
TypeOK ==
    /\ pc \in {"poll", "core"}
    /\ st \in {"idle", "cycle", "jog", "hold", "door", "alarm"}
    /\ prev_state \in {"idle", "cycle", "jog", "hold", "door", "alarm"}
    /\ {parked, playing, lid, answers, state, delivered, missed, door_hidden, hold_seen, late,
        park_saw_cycle, job_active} \subseteq BOOLEAN
    /\ todo \in UNION {[1 .. n -> Block] : n \in 0 .. MaxBlocks}
    /\ pos \in Places /\ rt \subseteq {"door", "hold", "start", "reset"}
    /\ {xcommand, job_start} \subseteq {<<>>} \cup {<<p>> : p \in Places}
    /\ cancel_state \in {"None", "WaitDrain", "ResetSent", "ParkQueued"}
    /\ door_hidden <=> cancel_state # "None"

\* A job that runs with the lid open is told to park by the poll that reads
\* it, whatever came before: a door of the last job, a cancel that an alarm
\* cut short, a resume, reads that failed (delivered, door_hidden).  The one
\* gap is missed: the device was silent while the core was in a state that
\* shows no door, so delivered is the last job's still when it answers again.
LidTold ==
    [][PollReads /\ lid /\ st = "cycle" /\ cancel_state = "None"
         => "door" \in rt' \/ missed]_vars

\* The park goes to where the cancelled job began: not to where it was paused
\* and resumed, nor to the start of a job before it (onStateChange).
ParkToOwnStart ==
    cancel_state = "WaitDrain" /\ todo # <<>> => job_start = <<todo[1].from>>

\* A cancel ends, with the switch device answering or not: the drain, the
\* queue and the park are each bounded.  Only a hold of the operator's, or the
\* sender's, can keep it.
CancelEnds == cancel_state # "None" ~> (cancel_state = "None" \/ st = "hold")
=============================================================================
