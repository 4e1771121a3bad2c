--------------------------- MODULE LidCancelProofs ---------------------------
(***************************************************************************)
(* Proofs about LidCancel, for any places, planner and number of lines:    *)
(* types, the park of a cancelled job, and the lid that a running job is   *)
(* told of.                                                                *)
(***************************************************************************)
EXTENDS LidCancel, TLAPS

-----------------------------------------------------------------------------
(* The inductive invariant.                                                *)

\* The types, the flags apart from the rest.
Flags ==
    /\ parked \in BOOLEAN /\ playing \in BOOLEAN /\ lid \in BOOLEAN /\ answers \in BOOLEAN
    /\ state \in BOOLEAN /\ delivered \in BOOLEAN /\ missed \in BOOLEAN
    /\ door_hidden \in BOOLEAN
    /\ hold_seen \in BOOLEAN /\ late \in BOOLEAN /\ park_saw_cycle \in BOOLEAN
    /\ job_active \in BOOLEAN

States == {"idle", "cycle", "jog", "hold", "door", "alarm"}

Kinds ==
    /\ pc \in {"poll", "core"} /\ st \in States
    /\ rt \subseteq {"door", "hold", "start", "reset"}
    /\ cancel_state \in {"None", "WaitDrain", "ResetSent", "ParkQueued"}

\* A line's target, or none.
Targets == {<<>>} \cup {<<p>> : p \in Places}

\* The planner: every block in it belongs to the job of the first.
Blocks ==
    /\ todo \in Seq(Block) /\ Len(todo) <= MaxBlocks
    /\ \A i \in 1 .. Len(todo) : todo[i].from = todo[1].from

Lines == pos \in Places /\ xcommand \in Targets /\ job_start \in Targets

\* The door is hidden through a cancel and at no other time.
Hidden == door_hidden = (cancel_state # "None")

\* The core has taken every flag when the hook polls; a door flag is for a
\* state that shows the door.
FlagsTaken ==
    /\ pc = "poll" => rt = {}
    /\ "door" \in rt => st \in {"cycle", "hold", "door", "alarm"}

\* A job is under way from its first cycle to the idle or the alarm that ends
\* it.
UnderWay == st \in {"cycle", "hold", "door"}

Jobs ==
    /\ prev_state = st /\ (job_active <=> UnderWay)
    /\ st \in {"jog", "alarm"} => todo = <<>>
    /\ st = "cycle" => todo # <<>>

\* The start on record is the one of the blocks that are planned: in idle they
\* begin where the head stands, and outside a reset's own motion their start
\* is the recorded one.
Starts ==
    /\ st = "idle" /\ todo # <<>> => todo[1].from = pos
    /\ UnderWay /\ todo # <<>> /\ cancel_state \in {"None", "WaitDrain"} =>
          job_start = <<todo[1].from>>

\* The drain ends with the door state: the next poll leaves it.
Drains ==
    cancel_state = "WaitDrain" =>
        /\ pc = "core" => st = "door"
        /\ ~UnderWay => todo = <<>>

LidInv ==
    Flags /\ Kinds /\ Blocks /\ Lines /\ Hidden /\ FlagsTaken /\ Jobs /\ Starts /\ Drains

\* What the core has been told, by a switch device that was not silent where it
\* mattered: nothing where the door is not shown, and a job that runs or is
\* held is about to take it.
ToldInv ==
    delivered =>
        /\ state
        /\ pc = "core" /\ st \in {"idle", "jog"} => missed
        /\ st \in {"cycle", "hold"} /\ cancel_state = "None" =>
              missed \/ (pc = "core" /\ "door" \in rt)

USE LidAssumption DEF LidAssumption, coreVars, outVars, readVars, jobVars, cancelVars

-----------------------------------------------------------------------------
(* The cancel machine and the operators.                                   *)

\* A cancel begins in a parked door state, drains in the door state only, and
\* ends in idle or in an alarm.
LEMMA CancelForm ==
    ASSUME LidInv, CancelPoll
    PROVE  /\ cancel_state' \in {"None", "WaitDrain", "ResetSent", "ParkQueued"}
           /\ door_hidden' = (cancel_state' # "None")
           /\ xcommand' \in Targets
           /\ cancel_state # "None" /\ cancel_state' = "None" => st \in {"idle", "alarm"}
           /\ cancel_state' = "WaitDrain" =>
                 st = "door" /\ cancel_state \in {"None", "WaitDrain"}
           /\ cancel_state = "None" => cancel_state' \in {"None", "WaitDrain"}
  <1>1. CASE PollNone
    BY <1>1 DEF PollNone, LidInv, Kinds, Hidden, Lines
  <1>2. CASE PollWaitDrain
    BY <1>2 DEF PollWaitDrain, Stay, Drained, LidInv, Kinds, Hidden, Lines
  <1>3. CASE PollResetSent
    BY <1>3 DEF PollResetSent, Stay, CancelEnd, ParkQueue, LidInv, Kinds, Hidden, Lines
  <1>4. CASE PollParkQueued
    BY <1>4 DEF PollParkQueued, ParkOver, CancelEnd, LidInv, Kinds, Hidden, Lines
  <1> QED BY <1>1, <1>2, <1>3, <1>4 DEF CancelPoll

\* Every flag of the cancel machine stays one.
LEMMA CancelFlags ==
    ASSUME LidInv, CancelPoll
    PROVE  /\ hold_seen' \in BOOLEAN /\ late' \in BOOLEAN /\ park_saw_cycle' \in BOOLEAN
           /\ door_hidden' \in BOOLEAN
  <1>1. CASE PollNone
    BY <1>1 DEF PollNone, LidInv, Flags
  <1>2. CASE PollWaitDrain
    BY <1>2 DEF PollWaitDrain, Stay, LidInv, Flags
  <1>3. CASE PollResetSent
    BY <1>3 DEF PollResetSent, Stay, CancelEnd, ParkQueue, LidInv, Flags
  <1>4. CASE PollParkQueued
    BY <1>4 DEF PollParkQueued, CancelEnd, LidInv, Flags
  <1> QED BY <1>1, <1>2, <1>3, <1>4 DEF CancelPoll

\* A planned block keeps the planner's job.
LEMMA PlanForm ==
    ASSUME LidInv, NEW t \in Places, Plan(t), Len(todo) < MaxBlocks
    PROVE  /\ Blocks' /\ todo' # <<>>
           /\ todo'[1].from = IF todo = <<>> THEN pos ELSE todo[1].from
  <1> DEFINE b == [to |-> t, from |-> IF todo = <<>> THEN pos ELSE todo[1].from]
  <1>1. todo \in Seq(Block) /\ Len(todo) \in Nat /\ pos \in Places
    BY DEF LidInv, Blocks, Lines
  <1>2. todo # <<>> => Len(todo) >= 1 /\ todo[1] \in Block
    BY <1>1
  <1>3. b \in Block /\ todo' = Append(todo, b)
    BY <1>1, <1>2 DEF Plan, Block
  <1>4. todo' \in Seq(Block) /\ Len(todo') = Len(todo) + 1 /\ todo' # <<>>
    BY <1>1, <1>3
  <1>5. \A i \in 1 .. Len(todo) : todo'[i] = todo[i]
    BY <1>1, <1>3
  <1>6. todo'[Len(todo) + 1] = b
    BY <1>1, <1>3
  <1>7. CASE todo = <<>>
    <2>1. Len(todo) = 0
      BY <1>7
    <2>2. todo'[1].from = pos
      BY <1>6, <1>7, <2>1
    <2> QED BY <1>1, <1>4, <1>7, <2>1, <2>2 DEF Blocks
  <1>8. CASE todo # <<>>
    <2>1. todo'[1] = todo[1]
      BY <1>1, <1>2, <1>5, <1>8
    <2>2. b.from = todo[1].from
      BY <1>8
    <2>3. \A i \in 1 .. Len(todo) : todo[i].from = todo[1].from
      BY DEF LidInv, Blocks
    <2>4. \A i \in 1 .. Len(todo') : i \in 1 .. Len(todo) \/ i = Len(todo) + 1
      BY <1>1, <1>4
    <2>5. \A i \in 1 .. Len(todo') : todo'[i].from = todo'[1].from
      BY <1>5, <1>6, <2>1, <2>2, <2>3, <2>4
    <2> QED BY <1>1, <1>4, <1>8, <2>1, <2>5 DEF Blocks
  <1> QED BY <1>7, <1>8

\* The blocks behind the first are the same job's.
LEMMA TailForm ==
    ASSUME LidInv, todo # <<>>, todo' = Tail(todo)
    PROVE  /\ Blocks' /\ todo[1].to \in Places
           /\ todo' # <<>> => todo'[1].from = todo[1].from
  <1>1. todo \in Seq(Block) /\ Len(todo) \in Nat /\ Len(todo) >= 1 /\ todo[1] \in Block
    BY DEF LidInv, Blocks
  <1>2. /\ todo' \in Seq(Block) /\ Len(todo') = Len(todo) - 1
        /\ \A i \in 1 .. Len(todo') : todo'[i] = todo[i + 1] /\ i + 1 \in 1 .. Len(todo)
    BY <1>1
  <1>3. \A i \in 1 .. Len(todo') : todo'[i].from = todo[1].from
    BY <1>2 DEF LidInv, Blocks
  <1>4. todo' # <<>> => 1 \in 1 .. Len(todo')
    BY <1>1, <1>2
  <1>5. \A i \in 1 .. Len(todo') : 1 \in 1 .. Len(todo')
    BY <1>1, <1>2
  <1>6. \A i \in 1 .. Len(todo') : todo'[i].from = todo'[1].from
    BY <1>3, <1>5
  <1>7. Len(todo') <= MaxBlocks
    BY <1>1, <1>2 DEF LidInv, Blocks
  <1>8. todo[1].to \in Places
    BY <1>1 DEF Block
  <1> QED BY <1>2, <1>3, <1>4, <1>6, <1>7, <1>8 DEF Blocks

\* What a realtime flag does, the reset apart: the job goes on, or ends with
\* nothing planned, and its start stays.
LEMMA FlagForm ==
    ASSUME LidInv, TakeFlag
    PROVE  /\ UNCHANGED <<todo, xcommand, cancel_state>> /\ pc' = "poll" /\ rt' = {}
           /\ prev_state' = st' /\ job_start' = job_start
           /\ \/ UnderWay /\ st' = "door" /\ job_active'
              \/ st = "cycle" /\ st' = "hold" /\ job_active' /\ "door" \notin rt
              \/ /\ UnderWay /\ st' = "cycle" /\ job_active' /\ todo # <<>>
                 /\ StartTaken
              \/ UnderWay /\ st' = "idle" /\ ~job_active' /\ todo = <<>>
              \/ UNCHANGED <<st, pos, job_active>> /\ (st = "alarm" \/ "door" \notin rt)
  <1>1. /\ UNCHANGED <<todo, xcommand, cancel_state>> /\ pc' = "poll" /\ rt' = {}
    BY DEF TakeFlag, CoreFrame
  <1>2. prev_state = st /\ (job_active <=> UnderWay)
    BY DEF LidInv, Jobs
  <1>3. CASE DoorTaken /\ st' = "door" /\ OnStateChange("door", todo)
    <2>1. UnderWay
      BY <1>3 DEF DoorTaken, LidInv, FlagsTaken, UnderWay
    <2>2. prev_state' = "door" /\ job_active' = job_active /\ job_start' = job_start
      BY <1>3 DEF OnStateChange
    <2> QED BY <1>1, <1>2, <1>3, <2>1, <2>2
  <1>4. CASE HoldTaken /\ st' = "hold" /\ OnStateChange("hold", todo)
    <2>1. st = "cycle" /\ "door" \notin rt /\ UnderWay
      BY <1>4 DEF HoldTaken, DoorTaken, UnderWay
    <2>2. prev_state' = "hold" /\ job_active' = job_active /\ job_start' = job_start
      BY <1>4 DEF OnStateChange
    <2> QED BY <1>1, <1>2, <1>4, <2>1, <2>2
  <1>5. CASE StartTaken /\ todo # <<>> /\ st' = "cycle" /\ OnResume
    <2>1. UnderWay
      BY <1>5 DEF StartTaken, UnderWay
    <2>2. prev_state' = "cycle" /\ job_active' /\ job_start' = job_start
      BY <1>2, <1>5, <2>1 DEF OnResume, Begins
    <2> QED BY <1>1, <1>5, <2>1, <2>2
  <1>6. CASE StartTaken /\ todo = <<>> /\ st' = "idle" /\ OnStateChange("idle", todo)
    <2>1. UnderWay
      BY <1>6 DEF StartTaken, UnderWay
    <2>2. prev_state' = "idle" /\ ~job_active' /\ job_start' = job_start
      BY <1>6 DEF OnStateChange
    <2> QED BY <1>1, <1>6, <2>1, <2>2
  <1>7. CASE ~DoorTaken /\ UNCHANGED <<st, parked, pos, playing, jobVars>>
    BY <1>1, <1>2, <1>7 DEF DoorTaken
  <1> QED BY <1>3, <1>4, <1>5, <1>6, <1>7 DEF TakeFlag

\* An empty planner.
LEMMA NoBlocks == ASSUME todo' = <<>> PROVE Blocks'
  <1>1. <<>> \in Seq(Block) /\ Len(<<>>) = 0
    OBVIOUS
  <1> QED BY <1>1 DEF Blocks

-----------------------------------------------------------------------------
(* The parts of the invariant, step by step.                               *)

\* The flags of the core, and the job.
LEMMA CoreFlags ==
    ASSUME LidInv, [Next]_vars
    PROVE  parked' \in BOOLEAN /\ playing' \in BOOLEAN /\ job_active' \in BOOLEAN
  <1>1. CASE \/ UNCHANGED vars
             \/ PollReads \/ PollFails \/ CoreIdles \/ RunXcommand
             \/ (\E t \in Places : SenderLine(t)) \/ Surroundings \/ Tick
             \/ (\E f \in {"hold", "start", "reset"} : Flag(f))
    <2>1. UNCHANGED <<parked, playing, job_active>>
      BY <1>1 DEF PollReads, PollFails, CoreIdles, RunXcommand, SenderLine, Surroundings,
         Tick, Flag, vars, CoreFrame, PollFrame
    <2> QED BY <2>1 DEF LidInv, Flags
  <1>2. CASE AutoStart
    BY <1>2 DEF AutoStart, CoreFrame, Quiet, OnStateChange, LidInv, Flags
  <1>3. CASE BlockEnds
    BY <1>3 DEF BlockEnds, CoreFrame, Quiet, OnStateChange, LidInv, Flags
  <1>4. CASE JogStarts
    BY <1>4 DEF JogStarts, CoreFrame, Quiet, OnStateChange, LidInv, Flags
  <1>5. CASE JogEnds
    BY <1>5 DEF JogEnds, CoreFrame, Quiet, OnStateChange, LidInv, Flags
  <1>6. CASE DoorParks
    BY <1>6 DEF DoorParks, CoreFrame, Quiet, LidInv, Flags
  <1>7. CASE Alarms
    BY <1>7 DEF Alarms, CoreFrame, Quiet, OnStateChange, LidInv, Flags
  <1>8. CASE Unlock
    BY <1>8 DEF Unlock, CoreFrame, Quiet, OnStateChange, LidInv, Flags
  <1>9. CASE TakeReset
    BY <1>9 DEF TakeReset, CoreFrame, Quiet, OnStateChange, LidInv, Flags
  <1>10. CASE TakeFlag
    BY <1>10 DEF TakeFlag, CoreFrame, Quiet, OnStateChange, OnResume, DoorTaken,
       HoldTaken, StartTaken, LidInv, Flags
  <1>11. CASE KernelIdles
    BY <1>11 DEF KernelIdles, LidInv, Flags
  <1> QED
    BY <1>1, <1>2, <1>3, <1>4, <1>5, <1>6, <1>7, <1>8, <1>9, <1>10, <1>11 DEF Next, Poll,
       CoreStep, Outside

\* The switches and their reading.
LEMMA OutFlags ==
    ASSUME LidInv, [Next]_vars
    PROVE  /\ lid' \in BOOLEAN /\ answers' \in BOOLEAN /\ state' \in BOOLEAN
           /\ delivered' \in BOOLEAN /\ missed' \in BOOLEAN
  <1>1. CASE \/ UNCHANGED vars
             \/ CoreIdles \/ RunXcommand \/ AutoStart \/ BlockEnds
             \/ JogStarts \/ JogEnds \/ DoorParks \/ Alarms \/ Unlock \/ TakeReset
             \/ TakeFlag \/ (\E t \in Places : SenderLine(t)) \/ Tick \/ KernelIdles
             \/ (\E f \in {"hold", "start", "reset"} : Flag(f))
    <2>1. UNCHANGED <<lid, answers, state, delivered, missed>>
      BY <1>1 DEF CoreIdles, RunXcommand, AutoStart, BlockEnds, JogStarts,
         JogEnds, DoorParks, Alarms, Unlock, TakeReset, TakeFlag, SenderLine, Tick,
         KernelIdles, Flag, vars, CoreFrame, PollFrame
    <2> QED BY <2>1 DEF LidInv, Flags
  <1>2. CASE PollReads
    BY <1>2 DEF PollReads, PollFrame, NewlyOn, Visible, Told, ResetOf, LidInv, Flags
  <1>3. CASE Surroundings
    BY <1>3 DEF Surroundings, LidInv, Flags
  <1>4. CASE PollFails
    BY <1>4 DEF PollFails, PollFrame, LidInv, Flags
  <1> QED
    BY <1>1, <1>2, <1>3, <1>4 DEF Next, Poll, CoreStep, Outside

\* The flags of the cancel.
LEMMA HideFlags ==
    ASSUME LidInv, [Next]_vars
    PROVE  /\ hold_seen' \in BOOLEAN /\ late' \in BOOLEAN /\ park_saw_cycle' \in BOOLEAN
           /\ door_hidden' \in BOOLEAN
  <1>1. CASE \/ UNCHANGED vars
             \/ CoreIdles \/ RunXcommand \/ AutoStart \/ BlockEnds \/ JogStarts \/ JogEnds
             \/ DoorParks \/ Alarms \/ Unlock \/ TakeReset \/ TakeFlag
             \/ (\E t \in Places : SenderLine(t)) \/ Surroundings \/ KernelIdles
             \/ (\E f \in {"hold", "start", "reset"} : Flag(f))
    <2>1. UNCHANGED <<hold_seen, late, park_saw_cycle, door_hidden>>
      BY <1>1 DEF CoreIdles, RunXcommand, AutoStart, BlockEnds, JogStarts, JogEnds,
         DoorParks, Alarms, Unlock, TakeReset, TakeFlag, SenderLine, Surroundings,
         KernelIdles, Flag, vars, CoreFrame, PollFrame
    <2> QED BY <2>1 DEF LidInv, Flags
  <1>2. CASE PollReads
    BY <1>2, CancelFlags DEF PollReads, PollFrame, NewlyOn, Visible, Told, ResetOf,
       LidInv, Flags
  <1>3. CASE PollFails
    BY <1>3, CancelFlags DEF PollFails, PollFrame, FailedRead, ResetOf, LidInv, Flags
  <1>4. CASE Tick
    BY <1>4 DEF Tick, LidInv, Flags
  <1> QED
    BY <1>1, <1>2, <1>3, <1>4 DEF Next, Poll, CoreStep, Outside

\* States and stages.
LEMMA StateKinds == ASSUME LidInv, [Next]_vars PROVE pc' \in {"poll", "core"} /\ st' \in States
  <1>1. CASE \/ UNCHANGED vars
             \/ Surroundings \/ Tick \/ KernelIdles
             \/ (\E f \in {"hold", "start", "reset"} : Flag(f))
    <2>1. UNCHANGED <<pc, st>>
      BY <1>1 DEF Surroundings, Tick, KernelIdles, Flag, vars, CoreFrame, PollFrame
    <2> QED BY <2>1 DEF LidInv, Kinds, States
  <1>2. CASE PollReads
    BY <1>2 DEF PollReads, PollFrame, NewlyOn, Visible, Told, ResetOf, LidInv, Kinds,
       States
  <1>3. CASE PollFails
    BY <1>3 DEF PollFails, PollFrame, FailedRead, ResetOf, LidInv, Kinds, States
  <1>4. CASE CoreIdles
    BY <1>4 DEF CoreIdles, CoreFrame, Quiet, LidInv, Kinds, States
  <1>5. CASE RunXcommand
    BY <1>5 DEF RunXcommand, CoreFrame, Quiet, Plan, LidInv, Kinds, States
  <1>6. CASE AutoStart
    BY <1>6 DEF AutoStart, CoreFrame, Quiet, OnStateChange, LidInv, Kinds, States
  <1>7. CASE BlockEnds
    BY <1>7 DEF BlockEnds, CoreFrame, Quiet, OnStateChange, LidInv, Kinds, States
  <1>8. CASE JogStarts
    BY <1>8 DEF JogStarts, CoreFrame, Quiet, OnStateChange, LidInv, Kinds, States
  <1>9. CASE JogEnds
    BY <1>9 DEF JogEnds, CoreFrame, Quiet, OnStateChange, LidInv, Kinds, States
  <1>10. CASE DoorParks
    BY <1>10 DEF DoorParks, CoreFrame, Quiet, LidInv, Kinds, States
  <1>11. CASE Alarms
    BY <1>11 DEF Alarms, CoreFrame, Quiet, OnStateChange, LidInv, Kinds, States
  <1>12. CASE Unlock
    BY <1>12 DEF Unlock, CoreFrame, Quiet, OnStateChange, LidInv, Kinds, States
  <1>13. CASE TakeReset
    BY <1>13 DEF TakeReset, CoreFrame, Quiet, OnStateChange, LidInv, Kinds, States
  <1>14. CASE TakeFlag
    BY <1>14 DEF TakeFlag, CoreFrame, Quiet, OnStateChange, OnResume, DoorTaken,
       HoldTaken, StartTaken, LidInv, Kinds, States
  <1>15. CASE \E t \in Places : SenderLine(t)
    BY <1>15 DEF SenderLine, CoreFrame, Quiet, Plan, LidInv, Kinds, States
  <1> QED
    BY <1>1, <1>2, <1>3, <1>4, <1>5, <1>6, <1>7, <1>8, <1>9, <1>10, <1>11, <1>12, <1>13,
       <1>14, <1>15 DEF Next, Poll, CoreStep, Outside

\* The realtime flags and the cancel's state.
LEMMA CancelKinds ==
    ASSUME LidInv, [Next]_vars
    PROVE  /\ rt' \subseteq {"door", "hold", "start", "reset"}
           /\ cancel_state' \in {"None", "WaitDrain", "ResetSent", "ParkQueued"}
  <1>1. CASE \/ UNCHANGED vars
             \/ CoreIdles \/ RunXcommand \/ AutoStart \/ BlockEnds \/ JogStarts \/ JogEnds
             \/ DoorParks \/ Alarms \/ Unlock \/ (\E t \in Places : SenderLine(t))
             \/ Surroundings \/ Tick \/ KernelIdles
    <2>1. UNCHANGED <<rt, cancel_state>>
      BY <1>1 DEF CoreIdles, RunXcommand, AutoStart, BlockEnds, JogStarts, JogEnds,
         DoorParks, Alarms, Unlock, SenderLine, Surroundings, Tick, KernelIdles, vars,
         CoreFrame, PollFrame
    <2> QED BY <2>1 DEF LidInv, Kinds
  <1>2. CASE PollReads
    BY <1>2, CancelForm DEF PollReads, PollFrame, NewlyOn, Visible, Told, ResetOf, LidInv,
       Kinds
  <1>3. CASE PollFails
    BY <1>3, CancelForm DEF PollFails, PollFrame, FailedRead, ResetOf, LidInv, Kinds
  <1>4. CASE TakeReset
    BY <1>4 DEF TakeReset, CoreFrame, Quiet, OnStateChange, LidInv, Kinds
  <1>5. CASE TakeFlag
    BY <1>5 DEF TakeFlag, CoreFrame, Quiet, OnStateChange, OnResume, DoorTaken, HoldTaken,
       StartTaken, LidInv, Kinds
  <1>6. CASE \E f \in {"hold", "start", "reset"} : Flag(f)
    BY <1>6 DEF Flag, LidInv, Kinds
  <1> QED
    BY <1>1, <1>2, <1>3, <1>4, <1>5, <1>6 DEF Next, Poll, CoreStep, Outside

\* The planner.
LEMMA BlocksStep == ASSUME LidInv, [Next]_vars PROVE Blocks'
  <1>1. CASE \/ UNCHANGED vars
             \/ PollReads \/ PollFails \/ CoreIdles \/ AutoStart \/ JogStarts \/ JogEnds
             \/ DoorParks \/ Unlock \/ TakeFlag \/ Surroundings \/ Tick \/ KernelIdles
             \/ (\E f \in {"hold", "start", "reset"} : Flag(f))
    <2>1. todo' = todo
      BY <1>1 DEF PollReads, PollFails, CoreIdles, AutoStart, JogStarts, JogEnds,
         DoorParks, Unlock, TakeFlag, Surroundings, Tick, KernelIdles, Flag, vars,
         CoreFrame, PollFrame
    <2> QED BY <2>1 DEF LidInv, Blocks
  <1>2. CASE RunXcommand
    <2>1. CASE UNCHANGED todo
      BY <2>1 DEF LidInv, Blocks
    <2>2. CASE Plan(xcommand[1])
      <3>1. xcommand[1] \in Places
        BY <1>2 DEF RunXcommand, LidInv, Lines, Targets
      <3> QED BY <1>2, <2>2, <3>1, PlanForm DEF RunXcommand
    <2> QED BY <1>2, <2>1, <2>2 DEF RunXcommand
  <1>3. CASE BlockEnds
    BY <1>3, TailForm DEF BlockEnds
  <1>4. CASE Alarms
    BY <1>4, NoBlocks DEF Alarms
  <1>5. CASE TakeReset
    BY <1>5, NoBlocks DEF TakeReset
  <1>6. CASE \E t \in Places : SenderLine(t)
    BY <1>6, PlanForm DEF SenderLine
  <1> QED
    BY <1>1, <1>2, <1>3, <1>4, <1>5, <1>6 DEF Next, Poll, CoreStep, Outside

\* The head and the lines.
LEMMA LinesStep == ASSUME LidInv, [Next]_vars PROVE Lines'
  <1>1. CASE \/ UNCHANGED vars
             \/ CoreIdles \/ DoorParks \/ (\E t \in Places : SenderLine(t)) \/ Surroundings
             \/ Tick \/ KernelIdles \/ (\E f \in {"hold", "start", "reset"} : Flag(f))
    <2>1. UNCHANGED <<pos, xcommand, job_start>>
      BY <1>1 DEF CoreIdles, DoorParks, SenderLine, Surroundings, Tick, KernelIdles, Flag,
         vars, CoreFrame, PollFrame
    <2> QED BY <2>1 DEF LidInv, Lines, Targets
  <1>2. CASE PollReads
    BY <1>2, CancelForm DEF PollReads, PollFrame, NewlyOn, Visible, Told, ResetOf, LidInv,
       Lines, Targets
  <1>3. CASE PollFails
    BY <1>3, CancelForm DEF PollFails, PollFrame, FailedRead, ResetOf, LidInv, Lines,
       Targets
  <1>4. CASE RunXcommand
    BY <1>4 DEF RunXcommand, CoreFrame, Quiet, Plan, LidInv, Lines, Targets
  <1>5. CASE AutoStart
    BY <1>5 DEF AutoStart, CoreFrame, Quiet, OnStateChange, LidInv, Lines, Targets
  <1>6. CASE BlockEnds
    BY <1>6, TailForm DEF BlockEnds, CoreFrame, Quiet, OnStateChange, LidInv, Lines,
       Targets
  <1>7. CASE JogStarts
    BY <1>7 DEF JogStarts, CoreFrame, Quiet, OnStateChange, LidInv, Lines, Targets
  <1>8. CASE JogEnds
    BY <1>8 DEF JogEnds, CoreFrame, Quiet, OnStateChange, LidInv, Lines, Targets
  <1>9. CASE Alarms
    BY <1>9 DEF Alarms, CoreFrame, Quiet, OnStateChange, LidInv, Lines, Targets
  <1>10. CASE Unlock
    BY <1>10 DEF Unlock, CoreFrame, Quiet, OnStateChange, LidInv, Lines, Targets
  <1>11. CASE TakeReset
    BY <1>11 DEF TakeReset, CoreFrame, Quiet, OnStateChange, LidInv, Lines, Targets
  <1>12. CASE TakeFlag
    BY <1>12 DEF TakeFlag, CoreFrame, Quiet, OnStateChange, OnResume, DoorTaken,
       HoldTaken, StartTaken, LidInv, Lines, Targets
  <1> QED
    BY <1>1, <1>2, <1>3, <1>4, <1>5, <1>6, <1>7, <1>8, <1>9, <1>10, <1>11, <1>12 DEF Next,
       Poll, CoreStep, Outside

\* What the cancel hides.
LEMMA HiddenStep == ASSUME LidInv, [Next]_vars PROVE Hidden'
  <1>1. CASE \/ UNCHANGED vars
             \/ CoreIdles \/ RunXcommand \/ AutoStart \/ BlockEnds \/ JogStarts \/ JogEnds
             \/ DoorParks \/ Alarms \/ Unlock \/ TakeReset \/ TakeFlag
             \/ (\E t \in Places : SenderLine(t)) \/ Surroundings \/ Tick \/ KernelIdles
             \/ (\E f \in {"hold", "start", "reset"} : Flag(f))
    <2>1. UNCHANGED <<door_hidden, cancel_state>>
      BY <1>1 DEF CoreIdles, RunXcommand, AutoStart, BlockEnds, JogStarts, JogEnds,
         DoorParks, Alarms, Unlock, TakeReset, TakeFlag, SenderLine, Surroundings, Tick,
         KernelIdles, Flag, vars, CoreFrame, PollFrame
    <2> QED BY <2>1 DEF LidInv, Hidden
  <1>2. CASE PollReads
    BY <1>2, CancelForm DEF PollReads, PollFrame, NewlyOn, Visible, Told, ResetOf, LidInv,
       Hidden
  <1>3. CASE PollFails
    BY <1>3, CancelForm DEF PollFails, PollFrame, FailedRead, ResetOf, LidInv, Hidden
  <1> QED
    BY <1>1, <1>2, <1>3 DEF Next, Poll, CoreStep, Outside

\* The flags behind a hook.
LEMMA FlagsTakenStep == ASSUME LidInv, [Next]_vars PROVE FlagsTaken'
  <1>1. CASE \/ UNCHANGED vars
             \/ Surroundings \/ Tick \/ KernelIdles
    <2>1. UNCHANGED <<pc, rt, st>>
      BY <1>1 DEF Surroundings, Tick, KernelIdles, vars, CoreFrame, PollFrame
    <2> QED BY <2>1 DEF LidInv, Kinds, FlagsTaken
  <1>2. CASE PollReads
    <2>1. rt = {} /\ pc' = "core" /\ st' = st
      BY <1>2 DEF PollReads, PollFrame, LidInv, FlagsTaken
    <2>2. "door" \in rt' => Visible(lid, st, door_hidden)
      BY <1>2, <2>1 DEF PollReads, NewlyOn, ResetOf
    <2> QED BY <2>1, <2>2 DEF Visible, LidInv, Kinds, States, FlagsTaken
  <1>3. CASE PollFails
    BY <1>3 DEF PollFails, PollFrame, FailedRead, ResetOf, LidInv, Kinds, FlagsTaken
  <1>4. CASE CoreIdles
    BY <1>4 DEF CoreIdles, CoreFrame, Quiet, LidInv, Kinds, FlagsTaken
  <1>5. CASE RunXcommand
    BY <1>5 DEF RunXcommand, CoreFrame, Quiet, Plan, LidInv, Kinds, FlagsTaken
  <1>6. CASE AutoStart
    BY <1>6 DEF AutoStart, CoreFrame, Quiet, OnStateChange, LidInv, Kinds, FlagsTaken
  <1>7. CASE BlockEnds
    BY <1>7 DEF BlockEnds, CoreFrame, Quiet, OnStateChange, LidInv, Kinds, FlagsTaken
  <1>8. CASE JogStarts
    BY <1>8 DEF JogStarts, CoreFrame, Quiet, OnStateChange, LidInv, Kinds, FlagsTaken
  <1>9. CASE JogEnds
    BY <1>9 DEF JogEnds, CoreFrame, Quiet, OnStateChange, LidInv, Kinds, FlagsTaken
  <1>10. CASE DoorParks
    BY <1>10 DEF DoorParks, CoreFrame, Quiet, LidInv, Kinds, FlagsTaken
  <1>11. CASE Alarms
    BY <1>11 DEF Alarms, CoreFrame, Quiet, OnStateChange, LidInv, Kinds, FlagsTaken
  <1>12. CASE Unlock
    BY <1>12 DEF Unlock, CoreFrame, Quiet, OnStateChange, LidInv, Kinds, FlagsTaken
  <1>13. CASE TakeReset
    BY <1>13 DEF TakeReset, CoreFrame, Quiet, OnStateChange, LidInv, Kinds, FlagsTaken
  <1>14. CASE TakeFlag
    BY <1>14 DEF TakeFlag, CoreFrame, Quiet, OnStateChange, OnResume, DoorTaken,
       HoldTaken, StartTaken, LidInv, Kinds, FlagsTaken
  <1>15. CASE \E t \in Places : SenderLine(t)
    BY <1>15 DEF SenderLine, CoreFrame, Quiet, Plan, LidInv, Kinds, FlagsTaken
  <1>16. CASE \E f \in {"hold", "start", "reset"} : Flag(f)
    BY <1>16 DEF Flag, LidInv, Kinds, FlagsTaken
  <1> QED
    BY <1>1, <1>2, <1>3, <1>4, <1>5, <1>6, <1>7, <1>8, <1>9, <1>10, <1>11, <1>12, <1>13,
       <1>14, <1>15, <1>16 DEF Next, Poll, CoreStep, Outside

\* The job under way.
LEMMA JobsStep == ASSUME LidInv, [Next]_vars PROVE Jobs'
  <1>1. CASE \/ UNCHANGED vars
             \/ PollReads \/ PollFails \/ CoreIdles \/ DoorParks \/ Surroundings \/ Tick
             \/ KernelIdles \/ (\E f \in {"hold", "start", "reset"} : Flag(f))
    <2>1. UNCHANGED <<st, todo, prev_state, job_active>>
      BY <1>1 DEF PollReads, PollFails, CoreIdles, DoorParks, Surroundings, Tick,
         KernelIdles, Flag, vars, CoreFrame, PollFrame
    <2> QED BY <2>1 DEF LidInv, Jobs, UnderWay
  <1>2. CASE RunXcommand
    <2>1. CASE UNCHANGED todo
      BY <1>2, <2>1 DEF RunXcommand, LidInv, Jobs, UnderWay
    <2>2. CASE Plan(xcommand[1]) /\ st \notin {"alarm", "jog"}
      <3>1. xcommand[1] \in Places
        BY <1>2 DEF RunXcommand, LidInv, Lines, Targets
      <3>2. todo' # <<>>
        BY <1>2, <2>2, <3>1, PlanForm DEF RunXcommand
      <3> QED BY <1>2, <2>2, <3>2 DEF RunXcommand, LidInv, Jobs, UnderWay
    <2> QED BY <1>2, <2>1, <2>2 DEF RunXcommand
  <1>3. CASE AutoStart
    BY <1>3 DEF AutoStart, CoreFrame, Quiet, OnStateChange, LidInv, Kinds, States,
       FlagsTaken, Jobs, UnderWay
  <1>4. CASE BlockEnds
    BY <1>4 DEF BlockEnds, CoreFrame, Quiet, OnStateChange, LidInv, Kinds, States,
       FlagsTaken, Jobs, UnderWay
  <1>5. CASE JogStarts
    BY <1>5 DEF JogStarts, CoreFrame, Quiet, OnStateChange, LidInv, Kinds, States,
       FlagsTaken, Jobs, UnderWay
  <1>6. CASE JogEnds
    BY <1>6 DEF JogEnds, CoreFrame, Quiet, OnStateChange, LidInv, Kinds, States,
       FlagsTaken, Jobs, UnderWay
  <1>7. CASE Alarms
    BY <1>7 DEF Alarms, CoreFrame, Quiet, OnStateChange, LidInv, Kinds, States,
       FlagsTaken, Jobs, UnderWay
  <1>8. CASE Unlock
    BY <1>8 DEF Unlock, CoreFrame, Quiet, OnStateChange, LidInv, Kinds, States,
       FlagsTaken, Jobs, UnderWay
  <1>9. CASE TakeReset
    BY <1>9 DEF TakeReset, CoreFrame, Quiet, OnStateChange, LidInv, Kinds, States,
       FlagsTaken, Jobs, UnderWay
  <1>10. CASE TakeFlag
    BY <1>10, FlagForm DEF LidInv, Kinds, States, Jobs, UnderWay
  <1>11. CASE \E t \in Places : SenderLine(t)
    <2>1. todo' # <<>>
      BY <1>11, PlanForm DEF SenderLine
    <2> QED BY <1>11, <2>1 DEF SenderLine, LidInv, Jobs, UnderWay
  <1> QED
    BY <1>1, <1>2, <1>3, <1>4, <1>5, <1>6, <1>7, <1>8, <1>9, <1>10, <1>11 DEF Next, Poll,
       CoreStep, Outside

\* Where the planned blocks' job began.
LEMMA StartsStep == ASSUME LidInv, [Next]_vars PROVE Starts'
  <1>1. CASE \/ UNCHANGED vars
             \/ CoreIdles \/ DoorParks \/ Surroundings \/ Tick \/ KernelIdles
             \/ (\E f \in {"hold", "start", "reset"} : Flag(f))
    <2>1. UNCHANGED <<st, todo, pos, job_start, cancel_state>>
      BY <1>1 DEF CoreIdles, DoorParks, Surroundings, Tick, KernelIdles, Flag, vars,
         CoreFrame, PollFrame
    <2> QED BY <2>1 DEF LidInv, Starts, UnderWay
  <1>2. CASE PollReads
    BY <1>2, CancelForm DEF PollReads, PollFrame, LidInv, Kinds, States, Jobs, Starts, UnderWay
  <1>3. CASE PollFails
    BY <1>3, CancelForm DEF PollFails, FailedRead, PollFrame, LidInv, Kinds, States,
       Jobs, Starts, UnderWay
  <1>4. CASE RunXcommand
    <2>1. CASE UNCHANGED todo
      BY <1>4, <2>1 DEF RunXcommand, CoreFrame, LidInv, Starts, UnderWay
    <2>2. CASE Plan(xcommand[1]) /\ st \notin {"alarm", "jog"}
      <3>1. xcommand[1] \in Places
        BY <1>4 DEF RunXcommand, LidInv, Lines, Targets
      <3>2. todo'[1].from = IF todo = <<>> THEN pos ELSE todo[1].from
        BY <1>4, <2>2, <3>1, PlanForm DEF RunXcommand
      <3> QED BY <1>4, <2>2, <3>2 DEF RunXcommand, CoreFrame, LidInv, Jobs, Starts, UnderWay
    <2> QED BY <1>4, <2>1, <2>2 DEF RunXcommand
  <1>5. CASE AutoStart
    BY <1>5 DEF AutoStart, CoreFrame, Quiet, OnStateChange, Begins, LidInv, Kinds, States,
       Jobs, Starts, Drains, UnderWay
  <1>6. CASE BlockEnds
    <2>1. todo' # <<>> => todo'[1].from = todo[1].from
      BY <1>6, TailForm DEF BlockEnds
    <2> QED BY <1>6, <2>1 DEF BlockEnds, CoreFrame, OnStateChange, LidInv, Jobs, Starts,
       UnderWay
  <1>7. CASE JogStarts
    BY <1>7 DEF JogStarts, CoreFrame, Quiet, OnStateChange, LidInv, Kinds, States,
       FlagsTaken, Jobs, UnderWay, Starts, Drains
  <1>8. CASE JogEnds
    BY <1>8 DEF JogEnds, CoreFrame, Quiet, OnStateChange, LidInv, Kinds, States,
       FlagsTaken, Jobs, UnderWay, Starts, Drains
  <1>9. CASE Alarms
    BY <1>9 DEF Alarms, CoreFrame, Quiet, OnStateChange, LidInv, Kinds, States,
       FlagsTaken, Jobs, UnderWay, Starts, Drains
  <1>10. CASE Unlock
    BY <1>10 DEF Unlock, CoreFrame, Quiet, OnStateChange, LidInv, Kinds, States,
       FlagsTaken, Jobs, UnderWay, Starts, Drains
  <1>11. CASE TakeReset
    BY <1>11 DEF TakeReset, CoreFrame, Quiet, OnStateChange, LidInv, Kinds, States,
       FlagsTaken, Jobs, UnderWay, Starts, Drains
  <1>12. CASE TakeFlag
    BY <1>12, FlagForm DEF LidInv, Kinds, States, Jobs, Starts, UnderWay
  <1>13. CASE \E t \in Places : SenderLine(t)
    <2>1. todo'[1].from = IF todo = <<>> THEN pos ELSE todo[1].from
      BY <1>13, PlanForm DEF SenderLine
    <2> QED BY <1>13, <2>1 DEF SenderLine, CoreFrame, LidInv, Jobs, Starts, UnderWay
  <1> QED
    BY <1>1, <1>2, <1>3, <1>4, <1>5, <1>6, <1>7, <1>8, <1>9, <1>10, <1>11, <1>12, <1>13
       DEF Next, Poll, CoreStep, Outside

\* The drain.
LEMMA DrainsStep == ASSUME LidInv, [Next]_vars PROVE Drains'
  <1>1. CASE \/ UNCHANGED vars
             \/ Surroundings \/ Tick \/ KernelIdles
             \/ (\E f \in {"hold", "start", "reset"} : Flag(f))
    <2>1. UNCHANGED <<pc, st, todo, cancel_state>>
      BY <1>1 DEF Surroundings, Tick, KernelIdles, Flag, vars, CoreFrame, PollFrame
    <2> QED BY <2>1 DEF LidInv, Drains, UnderWay
  <1>2. CASE PollReads
    BY <1>2, CancelForm DEF PollReads, PollFrame, NewlyOn, Visible, Told, ResetOf, LidInv,
       Kinds, States, FlagsTaken, Jobs, UnderWay, Drains
  <1>3. CASE PollFails
    BY <1>3, CancelForm DEF PollFails, PollFrame, FailedRead, ResetOf, LidInv, Kinds,
       States, FlagsTaken, Jobs, UnderWay, Drains
  <1>4. CASE CoreIdles
    BY <1>4 DEF CoreIdles, CoreFrame, Quiet, LidInv, Kinds, States, FlagsTaken, Jobs,
       UnderWay, Drains
  <1>5. CASE RunXcommand
    BY <1>5 DEF RunXcommand, CoreFrame, Quiet, Plan, LidInv, Kinds, States, FlagsTaken,
       Jobs, UnderWay, Drains
  <1>6. CASE AutoStart
    BY <1>6 DEF AutoStart, CoreFrame, Quiet, OnStateChange, LidInv, Kinds, States,
       FlagsTaken, Jobs, UnderWay, Drains
  <1>7. CASE BlockEnds
    BY <1>7 DEF BlockEnds, CoreFrame, Quiet, OnStateChange, LidInv, Kinds, States,
       FlagsTaken, Jobs, UnderWay, Drains
  <1>8. CASE JogStarts
    BY <1>8 DEF JogStarts, CoreFrame, Quiet, OnStateChange, LidInv, Kinds, States,
       FlagsTaken, Jobs, UnderWay, Drains
  <1>9. CASE JogEnds
    BY <1>9 DEF JogEnds, CoreFrame, Quiet, OnStateChange, LidInv, Kinds, States,
       FlagsTaken, Jobs, UnderWay, Drains
  <1>10. CASE DoorParks
    BY <1>10 DEF DoorParks, CoreFrame, Quiet, LidInv, Kinds, States, FlagsTaken, Jobs,
       UnderWay, Drains
  <1>11. CASE Alarms
    BY <1>11 DEF Alarms, CoreFrame, Quiet, OnStateChange, LidInv, Kinds, States,
       FlagsTaken, Jobs, UnderWay, Drains
  <1>12. CASE Unlock
    BY <1>12 DEF Unlock, CoreFrame, Quiet, OnStateChange, LidInv, Kinds, States,
       FlagsTaken, Jobs, UnderWay, Drains
  <1>13. CASE TakeReset
    BY <1>13 DEF TakeReset, CoreFrame, Quiet, OnStateChange, LidInv, Kinds, States,
       FlagsTaken, Jobs, UnderWay, Drains
  <1>14. CASE TakeFlag
    BY <1>14 DEF TakeFlag, CoreFrame, Quiet, OnStateChange, OnResume, DoorTaken,
       HoldTaken, StartTaken, LidInv, Kinds, States, FlagsTaken, Jobs, UnderWay, Drains
  <1>15. CASE \E t \in Places : SenderLine(t)
    BY <1>15 DEF SenderLine, CoreFrame, Quiet, Plan, LidInv, Kinds, States, FlagsTaken,
       Jobs, UnderWay, Drains
  <1> QED
    BY <1>1, <1>2, <1>3, <1>4, <1>5, <1>6, <1>7, <1>8, <1>9, <1>10, <1>11, <1>12, <1>13,
       <1>14, <1>15 DEF Next, Poll, CoreStep, Outside

\* The initial states.
LEMMA LidInit == ASSUME Init PROVE LidInv
  <1>1. Flags
    BY DEF Init, Flags
  <1>2. Kinds
    BY DEF Init, Kinds, States
  <1>3. Blocks
    <2>1. <<>> \in Seq(Block) /\ Len(<<>>) = 0
      OBVIOUS
    <2> QED BY <2>1 DEF Init, Blocks
  <1>4. Lines /\ Hidden
    BY DEF Init, Lines, Targets, Hidden
  <1>5. FlagsTaken /\ Drains
    BY DEF Init, FlagsTaken, Drains
  <1>6. Jobs /\ Starts
    BY DEF Init, Jobs, Starts, UnderWay
  <1> QED BY <1>1, <1>2, <1>3, <1>4, <1>5, <1>6 DEF LidInv

-----------------------------------------------------------------------------
(* The theorems.                                                           *)

\* The inductive invariant holds in every reachable state: the job that the
\* callback of the core's states has on record is the one that is planned.
THEOREM LidInvariant == Spec => []LidInv
  <1>1. ASSUME LidInv, [Next]_vars PROVE Flags'
    BY <1>1, CoreFlags, OutFlags, HideFlags DEF Flags
  <1>2. ASSUME LidInv, [Next]_vars PROVE Kinds'
    BY <1>2, StateKinds, CancelKinds DEF Kinds
  <1>3. ASSUME LidInv, [Next]_vars PROVE LidInv'
    BY <1>1, <1>2, <1>3, BlocksStep, LinesStep, HiddenStep, FlagsTakenStep, JobsStep,
       StartsStep, DrainsStep DEF LidInv
  <1> QED BY <1>3, LidInit, PTL DEF Spec

\* Every variable has its type, the planner keeps its bound, and the door is
\* hidden exactly through a cancel: no exit of the cancel leaves it hidden.
THEOREM TypeCorrect == Spec => []TypeOK
  <1>1. ASSUME LidInv PROVE TypeOK
    <2>1. todo \in UNION {[1 .. n -> Block] : n \in 0 .. MaxBlocks}
      <3>1. todo \in [1 .. Len(todo) -> Block] /\ Len(todo) \in 0 .. MaxBlocks
        BY <1>1 DEF LidInv, Blocks
      <3> QED BY <3>1
    <2>2. {xcommand, job_start} \subseteq {<<>>} \cup {<<p>> : p \in Places} /\ pos \in Places
      BY <1>1 DEF LidInv, Lines, Targets
    <2>3. {parked, playing, lid, answers, state, delivered, missed, door_hidden, hold_seen, late,
           park_saw_cycle, job_active} \subseteq BOOLEAN
      BY <1>1 DEF LidInv, Flags
    <2>4. /\ pc \in {"poll", "core"}
          /\ st \in {"idle", "cycle", "jog", "hold", "door", "alarm"}
          /\ prev_state \in {"idle", "cycle", "jog", "hold", "door", "alarm"}
          /\ rt \subseteq {"door", "hold", "start", "reset"}
          /\ cancel_state \in {"None", "WaitDrain", "ResetSent", "ParkQueued"}
      BY <1>1 DEF LidInv, Kinds, States, Jobs
    <2>5. door_hidden <=> cancel_state # "None"
      BY <1>1 DEF LidInv, Hidden
    <2> QED BY <2>1, <2>2, <2>3, <2>4, <2>5 DEF TypeOK
  <1> QED BY <1>1, LidInvariant, PTL

\* The park of a cancel goes to where the cancelled job began, through any
\* number of pauses, resumes, cancels and alarms before it (onStateChange).
THEOREM ParkIsToOwnStart == Spec => []ParkToOwnStart
  <1>1. ASSUME LidInv PROVE ParkToOwnStart
    BY <1>1 DEF LidInv, Starts, Drains, UnderWay, ParkToOwnStart
  <1> QED BY <1>1, LidInvariant, PTL

\* What the core has been told, step by step.
LEMMA ToldStep == ASSUME LidInv, ToldInv, [Next]_vars PROVE ToldInv'
  <1>1. CASE \/ UNCHANGED vars
             \/ Tick \/ KernelIdles
    <2>1. UNCHANGED <<pc, st, rt, state, delivered, missed, cancel_state>>
      BY <1>1 DEF Tick, KernelIdles, vars, CoreFrame, PollFrame
    <2> QED BY <2>1 DEF ToldInv
  <1>2. CASE PollReads
    <2>1. /\ state' = lid
          /\ delivered' = (lid /\ st \notin {"idle", "jog", "homing"} /\ ~door_hidden)
          /\ missed' = (missed /\ delivered')
          /\ st' = st /\ pc = "poll" /\ pc' = "core"
      BY <1>2 DEF PollReads, PollFrame, Told, Visible
    <2>2. delivered' /\ ~delivered => "door" \in rt'
      BY <1>2 DEF PollReads, NewlyOn, Told
    <2>3. cancel_state' = "None" /\ st \in {"cycle", "hold"} => cancel_state = "None"
      BY <1>2, CancelForm DEF PollReads
    <2> QED BY <2>1, <2>2, <2>3 DEF ToldInv, LidInv, Flags
  <1>3. CASE PollFails
    <2>1. /\ UNCHANGED <<state, delivered, st>> /\ pc = "poll" /\ pc' = "core"
          /\ missed' = (missed \/ (delivered /\ (st \in {"idle", "jog", "homing"} \/ door_hidden)))
      BY <1>3 DEF PollFails, PollFrame, Visible
    <2>2. cancel_state # "None" => door_hidden
      BY DEF LidInv, Hidden
    <2> QED BY <2>1, <2>2 DEF ToldInv
  <1>4. CASE CoreIdles
    BY <1>4 DEF CoreIdles, CoreFrame, Quiet, LidInv, Kinds, States, Flags, Hidden,
       FlagsTaken, ToldInv
  <1>5. CASE RunXcommand
    BY <1>5 DEF RunXcommand, CoreFrame, Quiet, Plan, LidInv, Kinds, States, Flags, Hidden,
       FlagsTaken, ToldInv
  <1>6. CASE AutoStart
    BY <1>6 DEF AutoStart, CoreFrame, Quiet, OnStateChange, LidInv, Kinds, States, Flags,
       Hidden, FlagsTaken, ToldInv
  <1>7. CASE BlockEnds
    BY <1>7 DEF BlockEnds, CoreFrame, Quiet, OnStateChange, LidInv, Kinds, States, Flags,
       Hidden, FlagsTaken, ToldInv
  <1>8. CASE JogStarts
    BY <1>8 DEF JogStarts, CoreFrame, Quiet, OnStateChange, LidInv, Kinds, States, Flags,
       Hidden, FlagsTaken, ToldInv
  <1>9. CASE JogEnds
    BY <1>9 DEF JogEnds, CoreFrame, Quiet, OnStateChange, LidInv, Kinds, States, Flags,
       Hidden, FlagsTaken, ToldInv
  <1>10. CASE DoorParks
    BY <1>10 DEF DoorParks, CoreFrame, Quiet, LidInv, Kinds, States, Flags, Hidden,
       FlagsTaken, ToldInv
  <1>11. CASE Alarms
    BY <1>11 DEF Alarms, CoreFrame, Quiet, OnStateChange, LidInv, Kinds, States, Flags,
       Hidden, FlagsTaken, ToldInv
  <1>12. CASE Unlock
    BY <1>12 DEF Unlock, CoreFrame, Quiet, OnStateChange, LidInv, Kinds, States, Flags,
       Hidden, FlagsTaken, ToldInv
  <1>13. CASE TakeReset
    BY <1>13 DEF TakeReset, CoreFrame, Quiet, OnStateChange, LidInv, Kinds, States, Flags,
       Hidden, FlagsTaken, ToldInv
  <1>14. CASE TakeFlag
    <2>1. UNCHANGED <<state, delivered, missed>> /\ pc = "core"
      BY <1>14 DEF TakeFlag, CoreFrame
    <2>2. CASE st' \notin {"cycle", "hold"}
      BY <1>14, <2>1, <2>2, FlagForm DEF ToldInv
    <2>3. CASE st \in {"cycle", "hold"} /\ "door" \notin rt
      BY <1>14, <2>1, <2>3, FlagForm DEF ToldInv
    <2>4. CASE StartTaken /\ st = "door" /\ st' = "cycle"
      BY <1>14, <2>1, <2>4, FlagForm DEF StartTaken, Visible, ToldInv, LidInv, Hidden
    <2>5. StartTaken => st = "door" \/ (st = "hold" /\ "door" \notin rt)
      BY DEF StartTaken, DoorTaken
    <2> QED BY <1>14, <2>2, <2>3, <2>4, <2>5, FlagForm DEF UnderWay
  <1>15. CASE \E t \in Places : SenderLine(t)
    BY <1>15 DEF SenderLine, CoreFrame, Quiet, Plan, LidInv, Kinds, States, Flags, Hidden,
       FlagsTaken, ToldInv
  <1>16. CASE Surroundings
    BY <1>16 DEF Surroundings, LidInv, Kinds, States, Flags, Hidden, FlagsTaken, ToldInv
  <1>17. CASE \E f \in {"hold", "start", "reset"} : Flag(f)
    BY <1>17 DEF Flag, LidInv, Kinds, States, Flags, Hidden, FlagsTaken, ToldInv
  <1> QED
    BY <1>1, <1>2, <1>3, <1>4, <1>5, <1>6, <1>7, <1>8, <1>9, <1>10, <1>11, <1>12, <1>13,
       <1>14, <1>15, <1>16, <1>17 DEF Next, Poll, CoreStep, Outside

\* A job that runs with the lid open is told to park by the poll that reads it,
\* whatever came before it (gfsw_edges, gfsw_visible), but for one sequence: a
\* device that was silent while the core passed a state that shows no door.
THEOREM LidIsTold == Spec => LidTold
  <1>1. ASSUME Init PROVE ToldInv
    BY <1>1 DEF Init, ToldInv
  <1>2. ASSUME LidInv, ToldInv, [Next]_vars
        PROVE  [PollReads /\ lid /\ st = "cycle" /\ cancel_state = "None"
                  => "door" \in rt' \/ missed]_vars
    <2>1. ASSUME PollReads, lid, st = "cycle", cancel_state = "None", ~missed
          PROVE  "door" \in rt'
      <3>1. ~door_hidden /\ ~delivered
        BY <2>1, <1>2 DEF PollReads, PollFrame, LidInv, Flags, Hidden, ToldInv
      <3> QED BY <2>1, <3>1 DEF PollReads, NewlyOn, Visible
    <2> QED BY <2>1
  <1> QED BY <1>1, <1>2, ToldStep, LidInvariant, PTL DEF Spec, LidTold

=============================================================================
