--------------------------- MODULE ConsentProofs ---------------------------
(***************************************************************************)
(* Proofs about Consent, for any number of changes of the sender: types,   *)
(* the run airflow around the window, what a line of g-code meets, and the *)
(* two properties of the operator's press.                                 *)
(***************************************************************************)
EXTENDS Consent, TLAPS

-----------------------------------------------------------------------------
(* The inductive invariant.                                                *)

\* The types, the flags apart from the rest.
Flags ==
    /\ work \in BOOLEAN /\ modal \in BOOLEAN /\ playing \in BOOLEAN /\ cur_on \in BOOLEAN
    /\ laser_ok \in BOOLEAN /\ disarm_request \in BOOLEAN /\ grace \in BOOLEAN
    /\ outlived \in BOOLEAN
    /\ arming \in BOOLEAN /\ released \in BOOLEAN /\ rearm_pending \in BOOLEAN
    /\ fail_alarm_pending \in BOOLEAN /\ button_prev \in BOOLEAN
    /\ laser_on_window \in BOOLEAN /\ run_ack \in BOOLEAN /\ fire_ok \in BOOLEAN
    /\ button \in BOOLEAN /\ lid \in BOOLEAN /\ fresh \in BOOLEAN /\ consent \in BOOLEAN
    /\ turned \in BOOLEAN

\* States, stages and generations.
Kinds ==
    /\ pc \in {"core", "owed", "rearm", "window", "switch", "door", "line"}
    /\ st \in {"idle", "cycle", "hold", "door", "alarm"}
    /\ rt \subseteq {"hold", "start", "reset"}
    /\ wait \in {"none", "button", "ack"}
    /\ armed_client_gen \in 0 .. MaxSwaps /\ ask_gen \in 0 .. MaxSwaps /\ gen \in 0 .. MaxSwaps
    /\ effect \in {"none", "pause", "resume", "consent"}

\* A poll runs only where it has something to do.
Stages ==
    /\ pc = "window" => laser_ok
    /\ pc = "rearm" => rearm_pending
    /\ pc = "owed" => fail_alarm_pending
    /\ pc = "door" => st \in {"cycle", "hold"}

\* Past the window's poll.
Behind == pc \in {"switch", "door", "line"}

\* The blocking wait: on a machine that stands still, with the window shut and
\* the airflow reported; no line is read in it.
Waits ==
    /\ arming = (wait = "button" \/ rearm_pending)
    /\ wait # "none" => /\ ~rearm_pending /\ ~laser_ok /\ st \in {"idle", "alarm"}
                        /\ pc # "line" /\ pc # "door"
                        /\ st # "alarm" => laser_on_window
    /\ wait = "ack" => consent

\* The re-arm: over before the next line, if the hold is over; as long as the
\* job is there, the airflow is reported or a reset is on its way.
Rearms ==
    rearm_pending =>
        /\ ~laser_ok
        /\ Behind => st \in {"hold", "door", "alarm"}
        /\ st \in {"hold", "door", "cycle"} =>
               laser_on_window \/ (pc = "core" /\ "reset" \in rt)

\* The window: open in an alarm only until its poll; behind it, for the sender
\* that opened it, or one that came since.
Windows ==
    /\ laser_ok /\ st # "alarm" => laser_on_window
    /\ laser_ok /\ Behind => st # "alarm" /\ (gen = armed_client_gen \/ turned)
    /\ laser_on_window => laser_ok \/ wait # "none" \/ rearm_pending

\* The alarm that is owed: the reset is on its way, or has landed on a machine
\* that stands still.
Owed ==
    fail_alarm_pending =>
        "reset" \in rt \/ (pc \in {"core", "owed"} /\ st \in {"idle", "alarm"})

\* The press in progress: what it did is known to the pause toggle, and one
\* that a wait may take began inside it and has done nothing.
Presses ==
    /\ button /\ effect # "none" => button_prev
    /\ button /\ released /\ (wait = "button" \/ rearm_pending) => effect = "none" /\ fresh

ConsentInv ==
    Flags /\ Kinds /\ Stages /\ Waits /\ Rearms /\ Windows /\ Owed /\ Presses

USE ConsentAssumption DEF ConsentAssumption, coreVars, windowVars, waitVars, coolVars,
    handVars, genVars

-----------------------------------------------------------------------------
(* The parts of the invariant, step by step.                               *)

\* The flags of the core.
LEMMA CoreFlags ==
    ASSUME ConsentInv, [Next]_vars
    PROVE  /\ work' \in BOOLEAN /\ modal' \in BOOLEAN
           /\ playing' \in BOOLEAN /\ cur_on' \in BOOLEAN
  <1>1. CASE \/ UNCHANGED vars
             \/ ArmLid \/ ArmReleased \/ ArmPress \/ RearmCancel \/ RearmReleased
             \/ RearmStillDown \/ RearmPress \/ Hook \/ HookVerdictFail \/ PollWindow
             \/ PollUnreadable \/ LidCancels \/ Unlock \/ NoLine \/ Press \/ Release
             \/ LidMoves \/ Engine \/ SenderSwap
             \/ (\E f \in {"hold", "reset"} : SenderFlag(f))
    <2>1. UNCHANGED <<work, modal, playing, cur_on>>
      BY <1>1 DEF ArmLid, ArmReleased, ArmPress, RearmCancel, RearmReleased,
         RearmStillDown, RearmPress, Hook, HookVerdictFail, PollWindow, PollUnreadable,
         LidCancels, Unlock, NoLine, Press, Release, LidMoves, Engine, SenderSwap,
         SenderFlag, vars
    <2> QED BY <2>1 DEF ConsentInv, Flags
  <1>2. CASE LaserOnOpen
    BY <1>2 DEF LaserOnOpen, Synced, Reads, ConsentInv, Flags
  <1>3. CASE LaserOnAsks
    BY <1>3 DEF LaserOnAsks, Synced, Reads, ConsentInv, Flags
  <1>4. CASE LaserOnRefused
    BY <1>4 DEF LaserOnRefused, Synced, Reads, ConsentInv, Flags
  <1>5. CASE ArmAbort
    BY <1>5 DEF ArmAbort, Waiting, Alarm, Refuse, ConsentInv, Flags
  <1>6. CASE ArmComplete
    BY <1>6 DEF ArmComplete, Open, ConsentInv, Flags
  <1>7. CASE ArmRefused
    BY <1>7 DEF ArmRefused, Alarm, Refuse, ConsentInv, Flags
  <1>8. CASE RearmAlarm
    BY <1>8 DEF RearmAlarm, RearmEnd, Refuse, Alarm, Stage, Held, ConsentInv, Flags
  <1>9. CASE HookStreamFault
    BY <1>9 DEF HookStreamFault, Alarm, Disarm, Stage, ConsentInv, Flags
  <1>10. CASE PollOwed
    BY <1>10 DEF PollOwed, OwedIdle, Alarm, Stage, ConsentInv, Flags
  <1>11. CASE PollSwitch
    BY <1>11 DEF PollSwitch, Resume, GatePasses, GateAsks, GateRefuses, Held, Alarm,
       AfterHook, ConsentInv, Flags
  <1>12. CASE PollDoor
    BY <1>12 DEF PollDoor, AfterHook, ConsentInv, Flags
  <1>13. CASE ReadMotion
    BY <1>13 DEF ReadMotion, Reads, ConsentInv, Flags
  <1>14. CASE LaserOff
    BY <1>14 DEF LaserOff, Synced, Reads, ConsentInv, Flags
  <1>15. CASE ProgramEnd
    BY <1>15 DEF ProgramEnd, Reads, ConsentInv, Flags
  <1>16. CASE MotionEnds
    BY <1>16 DEF MotionEnds, ConsentInv, Flags
  <1>17. CASE TakeReset
    BY <1>17 DEF TakeReset, Disarm, ConsentInv, Flags
  <1>18. CASE TakeFlag
    BY <1>18 DEF TakeFlag, ConsentInv, Flags
  <1>19. CASE KernelIdles
    BY <1>19 DEF KernelIdles, ConsentInv, Flags
  <1>20. CASE SenderResume
    BY <1>20 DEF SenderResume, AtSerial, AfterHook, Resume, GatePasses, GateAsks,
       GateRefuses, Held, Alarm, ConsentInv, Flags
  <1> QED
    BY <1>1, <1>2, <1>3, <1>4, <1>5, <1>6, <1>7, <1>8, <1>9, <1>10, <1>11, <1>12, <1>13,
       <1>14, <1>15, <1>16, <1>17, <1>18, <1>19, <1>20 DEF Next, ArmStep, RearmStep,
       Polls, CoreStep, Outside

\* The flags of the window.
LEMMA WindowFlags ==
    ASSUME ConsentInv, [Next]_vars
    PROVE  /\ laser_ok' \in BOOLEAN /\ disarm_request' \in BOOLEAN
           /\ grace' \in BOOLEAN /\ outlived' \in BOOLEAN
  <1>1. CASE \/ UNCHANGED vars
             \/ LaserOnOpen \/ LaserOnAsks \/ LaserOnRefused \/ ArmLid \/ ArmReleased
             \/ ArmPress \/ RearmReleased \/ RearmStillDown \/ Hook \/ PollOwed \/ PollDoor
             \/ PollUnreadable \/ ReadMotion \/ LaserOff \/ MotionEnds \/ Unlock \/ NoLine
             \/ TakeFlag \/ Press \/ Release \/ LidMoves \/ Engine \/ KernelIdles
             \/ SenderSwap \/ (\E f \in {"hold", "reset"} : SenderFlag(f))
    <2>1. UNCHANGED <<laser_ok, disarm_request, grace, outlived>>
      BY <1>1 DEF LaserOnOpen, LaserOnAsks, LaserOnRefused, ArmLid, ArmReleased, ArmPress,
         RearmReleased, RearmStillDown, Hook, PollOwed, PollDoor, PollUnreadable,
         ReadMotion, LaserOff, MotionEnds, Unlock, NoLine, TakeFlag, Press, Release,
         LidMoves, Engine, KernelIdles, SenderSwap, SenderFlag, vars
    <2> QED BY <2>1 DEF ConsentInv, Flags
  <1>2. CASE ArmAbort
    BY <1>2 DEF ArmAbort, Waiting, Alarm, Refuse, ConsentInv, Flags
  <1>3. CASE ArmComplete
    BY <1>3 DEF ArmComplete, Open, ConsentInv, Flags
  <1>4. CASE ArmRefused
    BY <1>4 DEF ArmRefused, Alarm, Refuse, ConsentInv, Flags
  <1>5. CASE RearmCancel
    BY <1>5 DEF RearmCancel, RearmEnd, Refuse, Stage, ConsentInv, Flags
  <1>6. CASE RearmAlarm
    BY <1>6 DEF RearmAlarm, RearmEnd, Refuse, Alarm, Stage, Held, ConsentInv, Flags
  <1>7. CASE RearmPress
    BY <1>7 DEF RearmPress, Consumed, Open, RearmEnd, Held, ConsentInv, Flags
  <1>8. CASE HookVerdictFail
    BY <1>8 DEF HookVerdictFail, Disarm, ConsentInv, Flags
  <1>9. CASE HookStreamFault
    BY <1>9 DEF HookStreamFault, Alarm, Disarm, Stage, ConsentInv, Flags
  <1>10. CASE PollWindow
    BY <1>10 DEF PollWindow, Swapped, Disarm, ConsentInv, Flags
  <1>11. CASE PollSwitch
    BY <1>11 DEF PollSwitch, Resume, GatePasses, GateAsks, GateRefuses, Held, Alarm,
       AfterHook, ConsentInv, Flags
  <1>12. CASE LidCancels
    BY <1>12 DEF LidCancels, Disarm, ConsentInv, Flags
  <1>13. CASE ProgramEnd
    BY <1>13 DEF ProgramEnd, Reads, ConsentInv, Flags
  <1>14. CASE TakeReset
    BY <1>14 DEF TakeReset, Disarm, ConsentInv, Flags
  <1>15. CASE SenderResume
    BY <1>15 DEF SenderResume, AtSerial, AfterHook, Resume, GatePasses, GateAsks,
       GateRefuses, Held, Alarm, ConsentInv, Flags
  <1> QED
    BY <1>1, <1>2, <1>3, <1>4, <1>5, <1>6, <1>7, <1>8, <1>9, <1>10, <1>11, <1>12, <1>13,
       <1>14, <1>15 DEF Next, ArmStep, RearmStep, Polls, CoreStep, Outside

\* The flags of the wait and the re-arm.
LEMMA WaitFlags ==
    ASSUME ConsentInv, [Next]_vars
    PROVE  /\ arming' \in BOOLEAN /\ released' \in BOOLEAN
           /\ rearm_pending' \in BOOLEAN
  <1>1. CASE \/ UNCHANGED vars
             \/ LaserOnOpen \/ LaserOnRefused \/ ArmLid \/ ArmComplete \/ ArmRefused
             \/ RearmStillDown \/ Hook \/ HookVerdictFail \/ HookStreamFault \/ PollOwed
             \/ PollWindow \/ PollDoor \/ PollUnreadable \/ LidCancels \/ ReadMotion
             \/ LaserOff \/ ProgramEnd \/ MotionEnds \/ Unlock \/ NoLine \/ TakeFlag
             \/ Press \/ Release \/ LidMoves \/ Engine \/ KernelIdles \/ SenderSwap
             \/ (\E f \in {"hold", "reset"} : SenderFlag(f))
    <2>1. UNCHANGED <<arming, released, rearm_pending>>
      BY <1>1 DEF LaserOnOpen, LaserOnRefused, ArmLid, ArmComplete, ArmRefused,
         RearmStillDown, Hook, HookVerdictFail, HookStreamFault, PollOwed, PollWindow,
         PollDoor, PollUnreadable, LidCancels, ReadMotion, LaserOff, ProgramEnd,
         MotionEnds, Unlock, NoLine, TakeFlag, Press, Release, LidMoves, Engine,
         KernelIdles, SenderSwap, SenderFlag, vars
    <2> QED BY <2>1 DEF ConsentInv, Flags
  <1>2. CASE LaserOnAsks
    BY <1>2 DEF LaserOnAsks, Synced, Reads, ConsentInv, Flags
  <1>3. CASE ArmAbort
    BY <1>3 DEF ArmAbort, Waiting, Alarm, Refuse, ConsentInv, Flags
  <1>4. CASE ArmReleased
    BY <1>4 DEF ArmReleased, Waiting, ConsentInv, Flags
  <1>5. CASE ArmPress
    BY <1>5 DEF ArmPress, PressCounts, Waiting, ConsentInv, Flags
  <1>6. CASE RearmCancel
    BY <1>6 DEF RearmCancel, RearmEnd, Refuse, Stage, ConsentInv, Flags
  <1>7. CASE RearmAlarm
    BY <1>7 DEF RearmAlarm, RearmEnd, Refuse, Alarm, Stage, Held, ConsentInv, Flags
  <1>8. CASE RearmReleased
    BY <1>8 DEF RearmReleased, Stage, Held, ConsentInv, Flags
  <1>9. CASE RearmPress
    BY <1>9 DEF RearmPress, Consumed, Open, RearmEnd, Held, ConsentInv, Flags
  <1>10. CASE PollSwitch
    BY <1>10 DEF PollSwitch, Resume, GatePasses, GateAsks, GateRefuses, Held, Alarm,
       AfterHook, ConsentInv, Flags
  <1>11. CASE TakeReset
    BY <1>11 DEF TakeReset, Disarm, ConsentInv, Flags
  <1>12. CASE SenderResume
    BY <1>12 DEF SenderResume, AtSerial, AfterHook, Resume, GatePasses, GateAsks,
       GateRefuses, Held, Alarm, ConsentInv, Flags
  <1> QED
    BY <1>1, <1>2, <1>3, <1>4, <1>5, <1>6, <1>7, <1>8, <1>9, <1>10, <1>11, <1>12 DEF Next,
       ArmStep, RearmStep, Polls, CoreStep, Outside

\* The flags of the cooling client.
LEMMA CoolFlags ==
    ASSUME ConsentInv, [Next]_vars
    PROVE  /\ laser_on_window' \in BOOLEAN /\ run_ack' \in BOOLEAN
           /\ fire_ok' \in BOOLEAN
  <1>1. CASE \/ UNCHANGED vars
             \/ LaserOnOpen \/ LaserOnRefused \/ ArmLid \/ ArmReleased \/ ArmPress
             \/ RearmReleased \/ RearmStillDown \/ Hook \/ PollOwed \/ PollDoor
             \/ PollUnreadable \/ ReadMotion \/ LaserOff \/ ProgramEnd \/ MotionEnds
             \/ Unlock \/ NoLine \/ TakeFlag \/ Press \/ Release \/ LidMoves \/ KernelIdles
             \/ SenderSwap \/ (\E f \in {"hold", "reset"} : SenderFlag(f))
    <2>1. UNCHANGED <<laser_on_window, run_ack, fire_ok>>
      BY <1>1 DEF LaserOnOpen, LaserOnRefused, ArmLid, ArmReleased, ArmPress,
         RearmReleased, RearmStillDown, Hook, PollOwed, PollDoor, PollUnreadable,
         ReadMotion, LaserOff, ProgramEnd, MotionEnds, Unlock, NoLine, TakeFlag, Press,
         Release, LidMoves, KernelIdles, SenderSwap, SenderFlag, vars
    <2> QED BY <2>1 DEF ConsentInv, Flags
  <1>2. CASE LaserOnAsks
    BY <1>2 DEF LaserOnAsks, Synced, Reads, ConsentInv, Flags
  <1>3. CASE ArmAbort
    BY <1>3 DEF ArmAbort, Waiting, Alarm, Refuse, ConsentInv, Flags
  <1>4. CASE ArmComplete
    BY <1>4 DEF ArmComplete, Open, ConsentInv, Flags
  <1>5. CASE ArmRefused
    BY <1>5 DEF ArmRefused, Alarm, Refuse, ConsentInv, Flags
  <1>6. CASE RearmCancel
    BY <1>6 DEF RearmCancel, RearmEnd, Refuse, Stage, ConsentInv, Flags
  <1>7. CASE RearmAlarm
    BY <1>7 DEF RearmAlarm, RearmEnd, Refuse, Alarm, Stage, Held, ConsentInv, Flags
  <1>8. CASE RearmPress
    BY <1>8 DEF RearmPress, Consumed, Open, RearmEnd, Held, ConsentInv, Flags
  <1>9. CASE HookVerdictFail
    BY <1>9 DEF HookVerdictFail, Disarm, ConsentInv, Flags
  <1>10. CASE HookStreamFault
    BY <1>10 DEF HookStreamFault, Alarm, Disarm, Stage, ConsentInv, Flags
  <1>11. CASE PollWindow
    BY <1>11 DEF PollWindow, Swapped, Disarm, ConsentInv, Flags
  <1>12. CASE PollSwitch
    BY <1>12 DEF PollSwitch, Resume, GatePasses, GateAsks, GateRefuses, Held, Alarm,
       AfterHook, ConsentInv, Flags
  <1>13. CASE LidCancels
    BY <1>13 DEF LidCancels, Disarm, ConsentInv, Flags
  <1>14. CASE TakeReset
    BY <1>14 DEF TakeReset, Disarm, ConsentInv, Flags
  <1>15. CASE Engine
    BY <1>15 DEF Engine, ConsentInv, Flags
  <1>16. CASE SenderResume
    BY <1>16 DEF SenderResume, AtSerial, AfterHook, Resume, GatePasses, GateAsks,
       GateRefuses, Held, Alarm, ConsentInv, Flags
  <1> QED
    BY <1>1, <1>2, <1>3, <1>4, <1>5, <1>6, <1>7, <1>8, <1>9, <1>10, <1>11, <1>12, <1>13,
       <1>14, <1>15, <1>16 DEF Next, ArmStep, RearmStep, Polls, CoreStep, Outside

\* The flags of the operator's side, and the alarm that is owed.
LEMMA HandFlags ==
    ASSUME ConsentInv, [Next]_vars
    PROVE  /\ button' \in BOOLEAN /\ lid' \in BOOLEAN
           /\ fresh' \in BOOLEAN /\ consent' \in BOOLEAN
           /\ button_prev' \in BOOLEAN /\ fail_alarm_pending' \in BOOLEAN
           /\ turned' \in BOOLEAN
  <1>1. CASE \/ UNCHANGED vars
             \/ LaserOnOpen \/ LaserOnRefused \/ ArmAbort \/ ArmLid \/ ArmReleased
             \/ ArmComplete \/ ArmRefused \/ RearmCancel \/ RearmAlarm \/ RearmReleased
             \/ RearmStillDown \/ Hook \/ HookStreamFault \/ PollWindow \/ PollDoor
             \/ PollUnreadable \/ LidCancels \/ ReadMotion \/ LaserOff \/ ProgramEnd
             \/ MotionEnds \/ Unlock \/ NoLine \/ TakeReset \/ TakeFlag \/ Engine
             \/ KernelIdles \/ SenderSwap \/ (\E f \in {"hold", "reset"} : SenderFlag(f))
    <2>1. UNCHANGED <<button, lid, fresh, consent, button_prev, fail_alarm_pending>>
      BY <1>1 DEF LaserOnOpen, LaserOnRefused, ArmAbort, ArmLid, ArmReleased, ArmComplete,
         ArmRefused, RearmCancel, RearmAlarm, RearmReleased, RearmStillDown, Hook,
         HookStreamFault, PollWindow, PollDoor, PollUnreadable, LidCancels, ReadMotion,
         LaserOff, ProgramEnd, MotionEnds, Unlock, NoLine, TakeReset, TakeFlag, Engine,
         KernelIdles, SenderSwap, SenderFlag, vars
    <2>2. turned' = turned \/ turned' \in {TRUE, FALSE}
      BY <1>1 DEF LaserOnOpen, LaserOnRefused, ArmAbort, ArmLid, ArmReleased, ArmComplete,
         ArmRefused, RearmCancel, RearmAlarm, RearmReleased, RearmStillDown, Hook,
         HookStreamFault, PollWindow, PollDoor, PollUnreadable, LidCancels, ReadMotion,
         LaserOff, ProgramEnd, MotionEnds, Unlock, NoLine, TakeReset, TakeFlag, Engine,
         KernelIdles, SenderSwap, SenderFlag, vars
    <2> QED BY <2>1, <2>2 DEF ConsentInv, Flags
  <1>2. CASE LaserOnAsks
    BY <1>2 DEF LaserOnAsks, Synced, Reads, ConsentInv, Flags
  <1>3. CASE ArmPress
    BY <1>3 DEF ArmPress, PressCounts, Waiting, ConsentInv, Flags
  <1>4. CASE RearmPress
    BY <1>4 DEF RearmPress, Consumed, Open, RearmEnd, Held, ConsentInv, Flags
  <1>5. CASE HookVerdictFail
    BY <1>5 DEF HookVerdictFail, Disarm, ConsentInv, Flags
  <1>6. CASE PollOwed
    BY <1>6 DEF PollOwed, OwedIdle, Alarm, Stage, ConsentInv, Flags
  <1>7. CASE PollSwitch
    BY <1>7 DEF PollSwitch, Resume, GatePasses, GateAsks, GateRefuses, Held, Alarm,
       AfterHook, ConsentInv, Flags
  <1>8. CASE Press
    BY <1>8 DEF Press, ConsentInv, Flags
  <1>9. CASE Release
    BY <1>9 DEF Release, ConsentInv, Flags
  <1>10. CASE LidMoves
    BY <1>10 DEF LidMoves, ConsentInv, Flags
  <1>11. CASE SenderResume
    BY <1>11 DEF SenderResume, AtSerial, AfterHook, Resume, GatePasses, GateAsks,
       GateRefuses, Held, Alarm, ConsentInv, Flags
  <1> QED
    BY <1>1, <1>2, <1>3, <1>4, <1>5, <1>6, <1>7, <1>8, <1>9, <1>10, <1>11 DEF Next,
       ArmStep, RearmStep, Polls, CoreStep, Outside

\* The stage and the state.
LEMMA StepKinds ==
    ASSUME ConsentInv, [Next]_vars
    PROVE  /\ st' \in {"idle", "cycle", "hold", "door", "alarm"}
           /\ pc' \in {"core", "owed", "rearm", "window", "switch", "door", "line"}
  <1>1. CASE \/ UNCHANGED vars
             \/ ArmLid \/ ArmReleased \/ ArmPress \/ ArmComplete \/ LidCancels \/ Press
             \/ Release \/ LidMoves \/ Engine \/ KernelIdles \/ SenderSwap
             \/ (\E f \in {"hold", "reset"} : SenderFlag(f))
    <2>1. UNCHANGED <<pc, st>>
      BY <1>1 DEF ArmLid, ArmReleased, ArmPress, ArmComplete, LidCancels, Press, Release,
         LidMoves, Engine, KernelIdles, SenderSwap, SenderFlag, vars
    <2> QED BY <2>1 DEF ConsentInv, Kinds
  <1>2. CASE LaserOnOpen
    BY <1>2 DEF LaserOnOpen, Synced, Reads, ConsentInv, Kinds
  <1>3. CASE LaserOnAsks
    BY <1>3 DEF LaserOnAsks, Synced, Reads, ConsentInv, Kinds
  <1>4. CASE LaserOnRefused
    BY <1>4 DEF LaserOnRefused, Synced, Reads, ConsentInv, Kinds
  <1>5. CASE ArmAbort
    BY <1>5 DEF ArmAbort, Waiting, Alarm, Refuse, ConsentInv, Kinds
  <1>6. CASE ArmRefused
    BY <1>6 DEF ArmRefused, Alarm, Refuse, ConsentInv, Kinds
  <1>7. CASE RearmCancel
    BY <1>7 DEF RearmCancel, RearmEnd, Refuse, Stage, ConsentInv, Kinds
  <1>8. CASE RearmAlarm
    BY <1>8 DEF RearmAlarm, RearmEnd, Refuse, Alarm, Stage, Held, ConsentInv, Kinds
  <1>9. CASE RearmReleased
    BY <1>9 DEF RearmReleased, Stage, Held, ConsentInv, Kinds
  <1>10. CASE RearmStillDown
    BY <1>10 DEF RearmStillDown, Stage, Held, ConsentInv, Kinds
  <1>11. CASE RearmPress
    BY <1>11 DEF RearmPress, Consumed, Open, RearmEnd, Held, ConsentInv, Kinds
  <1>12. CASE Hook
    BY <1>12 DEF Hook, Stage, ConsentInv, Kinds
  <1>13. CASE HookVerdictFail
    BY <1>13 DEF HookVerdictFail, Disarm, ConsentInv, Kinds
  <1>14. CASE HookStreamFault
    BY <1>14 DEF HookStreamFault, Alarm, Disarm, Stage, ConsentInv, Kinds
  <1>15. CASE PollOwed
    BY <1>15 DEF PollOwed, OwedIdle, Alarm, Stage, ConsentInv, Kinds
  <1>16. CASE PollWindow
    BY <1>16 DEF PollWindow, Swapped, Disarm, ConsentInv, Kinds
  <1>17. CASE PollSwitch
    BY <1>17 DEF PollSwitch, Resume, GatePasses, GateAsks, GateRefuses, Held, Alarm,
       AfterHook, ConsentInv, Kinds
  <1>18. CASE PollDoor
    BY <1>18 DEF PollDoor, AfterHook, ConsentInv, Kinds
  <1>19. CASE PollUnreadable
    BY <1>19 DEF PollUnreadable, AfterHook, ConsentInv, Kinds
  <1>20. CASE ReadMotion
    BY <1>20 DEF ReadMotion, Reads, ConsentInv, Kinds
  <1>21. CASE LaserOff
    BY <1>21 DEF LaserOff, Synced, Reads, ConsentInv, Kinds
  <1>22. CASE ProgramEnd
    BY <1>22 DEF ProgramEnd, Reads, ConsentInv, Kinds
  <1>23. CASE MotionEnds
    BY <1>23 DEF MotionEnds, ConsentInv, Kinds
  <1>24. CASE Unlock
    BY <1>24 DEF Unlock, ConsentInv, Kinds
  <1>25. CASE NoLine
    BY <1>25 DEF NoLine, ConsentInv, Kinds
  <1>26. CASE TakeReset
    BY <1>26 DEF TakeReset, Disarm, ConsentInv, Kinds
  <1>27. CASE TakeFlag
    BY <1>27 DEF TakeFlag, ConsentInv, Kinds
  <1>28. CASE SenderResume
    BY <1>28 DEF SenderResume, AtSerial, AfterHook, Resume, GatePasses, GateAsks,
       GateRefuses, Held, Alarm, ConsentInv, Kinds
  <1> QED
    BY <1>1, <1>2, <1>3, <1>4, <1>5, <1>6, <1>7, <1>8, <1>9, <1>10, <1>11, <1>12, <1>13,
       <1>14, <1>15, <1>16, <1>17, <1>18, <1>19, <1>20, <1>21, <1>22, <1>23, <1>24, <1>25,
       <1>26, <1>27, <1>28 DEF Next, ArmStep, RearmStep, Polls, CoreStep, Outside

\* The realtime flags, the wait and the press.
LEMMA FlagKinds ==
    ASSUME ConsentInv, [Next]_vars
    PROVE  /\ rt' \subseteq {"hold", "start", "reset"} /\ wait' \in {"none", "button", "ack"}
           /\ effect' \in {"none", "pause", "resume", "consent"}
  <1>1. CASE \/ UNCHANGED vars
             \/ LaserOnOpen \/ LaserOnRefused \/ ArmReleased \/ RearmReleased
             \/ RearmStillDown \/ Hook \/ HookStreamFault \/ PollOwed \/ PollDoor
             \/ PollUnreadable \/ ReadMotion \/ LaserOff \/ ProgramEnd \/ MotionEnds
             \/ Unlock \/ NoLine \/ Release \/ LidMoves \/ Engine \/ KernelIdles
             \/ SenderSwap
    <2>1. UNCHANGED <<rt, wait, effect>>
      BY <1>1 DEF LaserOnOpen, LaserOnRefused, ArmReleased, RearmReleased, RearmStillDown,
         Hook, HookStreamFault, PollOwed, PollDoor, PollUnreadable, ReadMotion, LaserOff,
         ProgramEnd, MotionEnds, Unlock, NoLine, Release, LidMoves, Engine, KernelIdles,
         SenderSwap, vars
    <2> QED BY <2>1 DEF ConsentInv, Kinds
  <1>2. CASE LaserOnAsks
    BY <1>2 DEF LaserOnAsks, Synced, Reads, ConsentInv, Kinds
  <1>3. CASE ArmAbort
    BY <1>3 DEF ArmAbort, Waiting, Alarm, Refuse, ConsentInv, Kinds
  <1>4. CASE ArmLid
    BY <1>4 DEF ArmLid, Waiting, ConsentInv, Kinds
  <1>5. CASE ArmPress
    BY <1>5 DEF ArmPress, PressCounts, Waiting, ConsentInv, Kinds
  <1>6. CASE ArmComplete
    BY <1>6 DEF ArmComplete, Open, ConsentInv, Kinds
  <1>7. CASE ArmRefused
    BY <1>7 DEF ArmRefused, Alarm, Refuse, ConsentInv, Kinds
  <1>8. CASE RearmCancel
    BY <1>8 DEF RearmCancel, RearmEnd, Refuse, Stage, ConsentInv, Kinds
  <1>9. CASE RearmAlarm
    BY <1>9 DEF RearmAlarm, RearmEnd, Refuse, Alarm, Stage, Held, ConsentInv, Kinds
  <1>10. CASE RearmPress
    BY <1>10 DEF RearmPress, Consumed, Open, RearmEnd, Held, ConsentInv, Kinds
  <1>11. CASE HookVerdictFail
    BY <1>11 DEF HookVerdictFail, Disarm, ConsentInv, Kinds
  <1>12. CASE PollWindow
    BY <1>12 DEF PollWindow, Swapped, Disarm, ConsentInv, Kinds
  <1>13. CASE PollSwitch
    BY <1>13 DEF PollSwitch, Resume, GatePasses, GateAsks, GateRefuses, Held, Alarm,
       AfterHook, ConsentInv, Kinds
  <1>14. CASE LidCancels
    BY <1>14 DEF LidCancels, Disarm, ConsentInv, Kinds
  <1>15. CASE TakeReset
    BY <1>15 DEF TakeReset, Disarm, ConsentInv, Kinds
  <1>16. CASE TakeFlag
    BY <1>16 DEF TakeFlag, ConsentInv, Kinds
  <1>17. CASE Press
    BY <1>17 DEF Press, ConsentInv, Kinds
  <1>18. CASE SenderResume
    BY <1>18 DEF SenderResume, AtSerial, AfterHook, Resume, GatePasses, GateAsks,
       GateRefuses, Held, Alarm, ConsentInv, Kinds
  <1>19. CASE \E f \in {"hold", "reset"} : SenderFlag(f)
    BY <1>19 DEF SenderFlag, AtSerial, AfterHook, ConsentInv, Kinds
  <1> QED
    BY <1>1, <1>2, <1>3, <1>4, <1>5, <1>6, <1>7, <1>8, <1>9, <1>10, <1>11, <1>12, <1>13,
       <1>14, <1>15, <1>16, <1>17, <1>18, <1>19 DEF Next, ArmStep, RearmStep, Polls,
       CoreStep, Outside

\* The generations of the sender.
LEMMA GenKinds ==
    ASSUME ConsentInv, [Next]_vars
    PROVE  /\ armed_client_gen' \in 0 .. MaxSwaps /\ ask_gen' \in 0 .. MaxSwaps
           /\ gen' \in 0 .. MaxSwaps
  <1>1. CASE \/ UNCHANGED vars
             \/ LaserOnOpen \/ LaserOnRefused \/ ArmLid \/ ArmReleased \/ ArmPress
             \/ RearmReleased \/ RearmStillDown \/ Hook \/ PollOwed \/ PollDoor
             \/ PollUnreadable \/ ReadMotion \/ LaserOff \/ ProgramEnd \/ MotionEnds
             \/ Unlock \/ NoLine \/ TakeFlag \/ Press \/ Release \/ LidMoves \/ Engine
             \/ KernelIdles \/ (\E f \in {"hold", "reset"} : SenderFlag(f))
    <2>1. UNCHANGED <<armed_client_gen, ask_gen, gen>>
      BY <1>1 DEF LaserOnOpen, LaserOnRefused, ArmLid, ArmReleased, ArmPress,
         RearmReleased, RearmStillDown, Hook, PollOwed, PollDoor, PollUnreadable,
         ReadMotion, LaserOff, ProgramEnd, MotionEnds, Unlock, NoLine, TakeFlag, Press,
         Release, LidMoves, Engine, KernelIdles, SenderFlag, vars
    <2> QED BY <2>1 DEF ConsentInv, Kinds
  <1>2. CASE LaserOnAsks
    BY <1>2 DEF LaserOnAsks, Synced, Reads, ConsentInv, Kinds
  <1>3. CASE ArmAbort
    BY <1>3 DEF ArmAbort, Waiting, Alarm, Refuse, ConsentInv, Kinds
  <1>4. CASE ArmComplete
    BY <1>4 DEF ArmComplete, Open, ConsentInv, Kinds
  <1>5. CASE ArmRefused
    BY <1>5 DEF ArmRefused, Alarm, Refuse, ConsentInv, Kinds
  <1>6. CASE RearmCancel
    BY <1>6 DEF RearmCancel, RearmEnd, Refuse, Stage, ConsentInv, Kinds
  <1>7. CASE RearmAlarm
    BY <1>7 DEF RearmAlarm, RearmEnd, Refuse, Alarm, Stage, Held, ConsentInv, Kinds
  <1>8. CASE RearmPress
    BY <1>8 DEF RearmPress, Consumed, Open, RearmEnd, Held, ConsentInv, Kinds
  <1>9. CASE HookVerdictFail
    BY <1>9 DEF HookVerdictFail, Disarm, ConsentInv, Kinds
  <1>10. CASE HookStreamFault
    BY <1>10 DEF HookStreamFault, Alarm, Disarm, Stage, ConsentInv, Kinds
  <1>11. CASE PollWindow
    BY <1>11 DEF PollWindow, Swapped, Disarm, ConsentInv, Kinds
  <1>12. CASE PollSwitch
    BY <1>12 DEF PollSwitch, Resume, GatePasses, GateAsks, GateRefuses, Held, Alarm,
       AfterHook, ConsentInv, Kinds
  <1>13. CASE LidCancels
    BY <1>13 DEF LidCancels, Disarm, ConsentInv, Kinds
  <1>14. CASE TakeReset
    BY <1>14 DEF TakeReset, Disarm, ConsentInv, Kinds
  <1>15. CASE SenderSwap
    BY <1>15 DEF SenderSwap, AtSerial, AfterHook, ConsentInv, Kinds
  <1>16. CASE SenderResume
    BY <1>16 DEF SenderResume, AtSerial, AfterHook, Resume, GatePasses, GateAsks,
       GateRefuses, Held, Alarm, ConsentInv, Kinds
  <1> QED
    BY <1>1, <1>2, <1>3, <1>4, <1>5, <1>6, <1>7, <1>8, <1>9, <1>10, <1>11, <1>12, <1>13,
       <1>14, <1>15, <1>16 DEF Next, ArmStep, RearmStep, Polls, CoreStep, Outside

\* A poll runs only where it has something to do.
LEMMA StagesStep == ASSUME ConsentInv, [Next]_vars PROVE Stages'
  <1>1. CASE \/ UNCHANGED vars
             \/ ArmLid \/ ArmReleased \/ ArmPress \/ Press \/ Release \/ LidMoves \/ Engine
             \/ KernelIdles \/ SenderSwap \/ (\E f \in {"hold", "reset"} : SenderFlag(f))
    <2>1. UNCHANGED <<pc, st, laser_ok, rearm_pending, fail_alarm_pending>>
      BY <1>1 DEF ArmLid, ArmReleased, ArmPress, Press, Release, LidMoves, Engine,
         KernelIdles, SenderSwap, SenderFlag, vars
    <2> QED BY <2>1 DEF ConsentInv, Flags, Kinds, Stages
  <1>2. CASE LaserOnOpen
    BY <1>2 DEF LaserOnOpen, Synced, Reads, ConsentInv, Flags, Kinds, Stages
  <1>3. CASE LaserOnAsks
    BY <1>3 DEF LaserOnAsks, Synced, Reads, ConsentInv, Flags, Kinds, Stages
  <1>4. CASE LaserOnRefused
    BY <1>4 DEF LaserOnRefused, Synced, Reads, ConsentInv, Flags, Kinds, Stages
  <1>5. CASE ArmAbort
    BY <1>5 DEF ArmAbort, Waiting, Alarm, Refuse, ConsentInv, Flags, Kinds, Stages
  <1>6. CASE ArmComplete
    BY <1>6 DEF ArmComplete, Open, ConsentInv, Flags, Kinds, Stages
  <1>7. CASE ArmRefused
    BY <1>7 DEF ArmRefused, Alarm, Refuse, ConsentInv, Flags, Kinds, Stages
  <1>8. CASE RearmCancel
    BY <1>8 DEF RearmCancel, RearmEnd, Refuse, Stage, ConsentInv, Flags, Kinds, Stages
  <1>9. CASE RearmAlarm
    BY <1>9 DEF RearmAlarm, RearmEnd, Refuse, Alarm, Stage, Held, ConsentInv, Flags,
       Kinds, Stages
  <1>10. CASE RearmReleased
    BY <1>10 DEF RearmReleased, Stage, Held, ConsentInv, Flags, Kinds, Stages
  <1>11. CASE RearmStillDown
    BY <1>11 DEF RearmStillDown, Stage, Held, ConsentInv, Flags, Kinds, Stages
  <1>12. CASE RearmPress
    BY <1>12 DEF RearmPress, Consumed, Open, RearmEnd, Held, ConsentInv, Flags, Kinds,
       Stages
  <1>13. CASE Hook
    BY <1>13 DEF Hook, Stage, ConsentInv, Flags, Kinds, Stages
  <1>14. CASE HookVerdictFail
    BY <1>14 DEF HookVerdictFail, Disarm, ConsentInv, Flags, Kinds, Stages
  <1>15. CASE HookStreamFault
    BY <1>15 DEF HookStreamFault, Alarm, Disarm, Stage, ConsentInv, Flags, Kinds, Stages
  <1>16. CASE PollOwed
    BY <1>16 DEF PollOwed, OwedIdle, Alarm, Stage, ConsentInv, Flags, Kinds, Stages
  <1>17. CASE PollWindow
    BY <1>17 DEF PollWindow, Swapped, Disarm, ConsentInv, Flags, Kinds, Stages
  <1>18. CASE PollSwitch
    BY <1>18 DEF PollSwitch, Resume, GatePasses, GateAsks, GateRefuses, Held, Alarm,
       AfterHook, ConsentInv, Flags, Kinds, Stages
  <1>19. CASE PollDoor
    BY <1>19 DEF PollDoor, AfterHook, ConsentInv, Flags, Kinds, Stages
  <1>20. CASE PollUnreadable
    BY <1>20 DEF PollUnreadable, AfterHook, ConsentInv, Flags, Kinds, Stages
  <1>21. CASE LidCancels
    BY <1>21 DEF LidCancels, Disarm, ConsentInv, Flags, Kinds, Stages
  <1>22. CASE ReadMotion
    BY <1>22 DEF ReadMotion, Reads, ConsentInv, Flags, Kinds, Stages
  <1>23. CASE LaserOff
    BY <1>23 DEF LaserOff, Synced, Reads, ConsentInv, Flags, Kinds, Stages
  <1>24. CASE ProgramEnd
    BY <1>24 DEF ProgramEnd, Reads, ConsentInv, Flags, Kinds, Stages
  <1>25. CASE MotionEnds
    BY <1>25 DEF MotionEnds, ConsentInv, Flags, Kinds, Stages
  <1>26. CASE Unlock
    BY <1>26 DEF Unlock, ConsentInv, Flags, Kinds, Stages
  <1>27. CASE NoLine
    BY <1>27 DEF NoLine, ConsentInv, Flags, Kinds, Stages
  <1>28. CASE TakeReset
    BY <1>28 DEF TakeReset, Disarm, ConsentInv, Flags, Kinds, Stages
  <1>29. CASE TakeFlag
    BY <1>29 DEF TakeFlag, ConsentInv, Flags, Kinds, Stages
  <1>30. CASE SenderResume
    BY <1>30 DEF SenderResume, AtSerial, AfterHook, Resume, GatePasses, GateAsks,
       GateRefuses, Held, Alarm, ConsentInv, Flags, Kinds, Stages
  <1> QED
    BY <1>1, <1>2, <1>3, <1>4, <1>5, <1>6, <1>7, <1>8, <1>9, <1>10, <1>11, <1>12, <1>13,
       <1>14, <1>15, <1>16, <1>17, <1>18, <1>19, <1>20, <1>21, <1>22, <1>23, <1>24, <1>25,
       <1>26, <1>27, <1>28, <1>29, <1>30 DEF Next, ArmStep, RearmStep, Polls, CoreStep,
       Outside

\* The blocking wait.
LEMMA WaitsStep == ASSUME ConsentInv, [Next]_vars PROVE Waits'
  <1>1. CASE \/ UNCHANGED vars
             \/ ArmLid \/ ArmReleased \/ Press \/ Release \/ LidMoves \/ Engine
             \/ KernelIdles \/ SenderSwap \/ (\E f \in {"hold", "reset"} : SenderFlag(f))
    <2>1. UNCHANGED <<pc, arming, wait, rearm_pending, laser_ok, st, laser_on_window,
                consent>>
      BY <1>1 DEF ArmLid, ArmReleased, Press, Release, LidMoves, Engine, KernelIdles,
         SenderSwap, SenderFlag, vars
    <2> QED BY <2>1 DEF ConsentInv, Waits
  <1>2. CASE LaserOnOpen
    BY <1>2 DEF LaserOnOpen, Synced, Reads, ConsentInv, Flags, Kinds, Stages, Behind,
       Waits, Rearms, Windows, Presses
  <1>3. CASE LaserOnAsks
    BY <1>3 DEF LaserOnAsks, Synced, Reads, ConsentInv, Flags, Kinds, Stages, Behind,
       Waits, Rearms, Windows, Presses
  <1>4. CASE LaserOnRefused
    BY <1>4 DEF LaserOnRefused, Synced, Reads, ConsentInv, Flags, Kinds, Stages, Behind,
       Waits, Rearms, Windows, Presses
  <1>5. CASE ArmAbort
    BY <1>5 DEF ArmAbort, Waiting, Alarm, Refuse, ConsentInv, Flags, Kinds, Stages,
       Behind, Waits, Rearms, Windows, Presses
  <1>6. CASE ArmPress
    BY <1>6 DEF ArmPress, PressCounts, Waiting, ConsentInv, Flags, Kinds, Stages, Behind,
       Waits, Rearms, Windows, Presses
  <1>7. CASE ArmComplete
    BY <1>7 DEF ArmComplete, Open, ConsentInv, Flags, Kinds, Stages, Behind, Waits,
       Rearms, Windows, Presses
  <1>8. CASE ArmRefused
    BY <1>8 DEF ArmRefused, Alarm, Refuse, ConsentInv, Flags, Kinds, Stages, Behind,
       Waits, Rearms, Windows, Presses
  <1>9. CASE RearmCancel
    BY <1>9 DEF RearmCancel, RearmEnd, Refuse, Stage, ConsentInv, Flags, Kinds, Stages,
       Behind, Waits, Rearms, Windows, Presses
  <1>10. CASE RearmAlarm
    BY <1>10 DEF RearmAlarm, RearmEnd, Refuse, Alarm, Stage, Held, ConsentInv, Flags,
       Kinds, Stages, Behind, Waits, Rearms, Windows, Presses
  <1>11. CASE RearmReleased
    BY <1>11 DEF RearmReleased, Stage, Held, ConsentInv, Flags, Kinds, Stages, Behind,
       Waits, Rearms, Windows, Presses
  <1>12. CASE RearmStillDown
    BY <1>12 DEF RearmStillDown, Stage, Held, ConsentInv, Flags, Kinds, Stages, Behind,
       Waits, Rearms, Windows, Presses
  <1>13. CASE RearmPress
    BY <1>13 DEF RearmPress, Consumed, Open, RearmEnd, Held, ConsentInv, Flags, Kinds,
       Stages, Behind, Waits, Rearms, Windows, Presses
  <1>14. CASE Hook
    BY <1>14 DEF Hook, Stage, ConsentInv, Flags, Kinds, Stages, Behind, Waits, Rearms,
       Windows, Presses
  <1>15. CASE HookVerdictFail
    BY <1>15 DEF HookVerdictFail, Disarm, ConsentInv, Flags, Kinds, Stages, Behind, Waits,
       Rearms, Windows, Presses
  <1>16. CASE HookStreamFault
    BY <1>16 DEF HookStreamFault, Alarm, Disarm, Stage, ConsentInv, Flags, Kinds, Stages,
       Behind, Waits, Rearms, Windows, Presses
  <1>17. CASE PollOwed
    BY <1>17 DEF PollOwed, OwedIdle, Alarm, Stage, ConsentInv, Flags, Kinds, Stages,
       Behind, Waits, Rearms, Windows, Presses
  <1>18. CASE PollWindow
    BY <1>18 DEF PollWindow, Swapped, Disarm, ConsentInv, Flags, Kinds, Stages, Behind,
       Waits, Rearms, Windows, Presses
  <1>19. CASE PollSwitch
    BY <1>19 DEF PollSwitch, Resume, GatePasses, GateAsks, GateRefuses, Held, Alarm,
       AfterHook, ConsentInv, Flags, Kinds, Stages, Behind, Waits, Rearms, Windows,
       Presses
  <1>20. CASE PollDoor
    BY <1>20 DEF PollDoor, AfterHook, ConsentInv, Flags, Kinds, Stages, Behind, Waits,
       Rearms, Windows, Presses
  <1>21. CASE PollUnreadable
    BY <1>21 DEF PollUnreadable, AfterHook, ConsentInv, Flags, Kinds, Stages, Behind,
       Waits, Rearms, Windows, Presses
  <1>22. CASE LidCancels
    BY <1>22 DEF LidCancels, Disarm, ConsentInv, Flags, Kinds, Stages, Behind, Waits,
       Rearms, Windows, Presses
  <1>23. CASE ReadMotion
    BY <1>23 DEF ReadMotion, Reads, ConsentInv, Flags, Kinds, Stages, Behind, Waits,
       Rearms, Windows, Presses
  <1>24. CASE LaserOff
    BY <1>24 DEF LaserOff, Synced, Reads, ConsentInv, Flags, Kinds, Stages, Behind, Waits,
       Rearms, Windows, Presses
  <1>25. CASE ProgramEnd
    BY <1>25 DEF ProgramEnd, Reads, ConsentInv, Flags, Kinds, Stages, Behind, Waits,
       Rearms, Windows, Presses
  <1>26. CASE MotionEnds
    BY <1>26 DEF MotionEnds, ConsentInv, Flags, Kinds, Stages, Behind, Waits, Rearms,
       Windows, Presses
  <1>27. CASE Unlock
    BY <1>27 DEF Unlock, ConsentInv, Flags, Kinds, Stages, Behind, Waits, Rearms, Windows,
       Presses
  <1>28. CASE NoLine
    BY <1>28 DEF NoLine, ConsentInv, Flags, Kinds, Stages, Behind, Waits, Rearms, Windows,
       Presses
  <1>29. CASE TakeReset
    BY <1>29 DEF TakeReset, Disarm, ConsentInv, Flags, Kinds, Stages, Behind, Waits,
       Rearms, Windows, Presses
  <1>30. CASE TakeFlag
    BY <1>30 DEF TakeFlag, ConsentInv, Flags, Kinds, Stages, Behind, Waits, Rearms,
       Windows, Presses
  <1>31. CASE SenderResume
    <2>1. CASE UNCHANGED <<arming, wait, rearm_pending, laser_ok, laser_on_window, consent, pc>>
      BY <1>31, <2>1 DEF SenderResume, AtSerial, AfterHook, Resume, GateAsks, GateRefuses, Held, Alarm, ConsentInv, Waits
    <2>2. CASE GateAsks
      <3>1. wait = "none" /\ wait' = "none" /\ rearm_pending' /\ arming'
        BY <1>31, <2>2 DEF GateAsks, Held, ConsentInv, Kinds, Waits
      <3>2. arming' = TRUE /\ rearm_pending' = TRUE
        BY <2>2 DEF GateAsks
      <3> QED BY <3>1, <3>2 DEF Waits
    <2> QED BY <1>31, <2>1, <2>2 DEF SenderResume, AtSerial, AfterHook, Resume, GateRefuses
  <1> QED
    BY <1>1, <1>2, <1>3, <1>4, <1>5, <1>6, <1>7, <1>8, <1>9, <1>10, <1>11, <1>12, <1>13,
       <1>14, <1>15, <1>16, <1>17, <1>18, <1>19, <1>20, <1>21, <1>22, <1>23, <1>24, <1>25,
       <1>26, <1>27, <1>28, <1>29, <1>30, <1>31 DEF Next, ArmStep, RearmStep, Polls,
       CoreStep, Outside

\* The re-arm.
LEMMA RearmsStep == ASSUME ConsentInv, [Next]_vars PROVE Rearms'
  <1>1. CASE \/ UNCHANGED vars
             \/ ArmReleased \/ ArmPress \/ Press \/ Release \/ LidMoves \/ Engine
             \/ KernelIdles \/ SenderSwap
    <2>1. UNCHANGED <<pc, rearm_pending, laser_ok, st, laser_on_window, rt>>
      BY <1>1 DEF ArmReleased, ArmPress, Press, Release, LidMoves, Engine, KernelIdles,
         SenderSwap, vars
    <2> QED BY <2>1 DEF ConsentInv, Rearms, Behind
  <1>2. CASE LaserOnOpen
    BY <1>2 DEF LaserOnOpen, Synced, Reads, ConsentInv, Flags, Kinds, Stages, Behind,
       Waits, Rearms, Windows
  <1>3. CASE LaserOnAsks
    BY <1>3 DEF LaserOnAsks, Synced, Reads, ConsentInv, Flags, Kinds, Stages, Behind,
       Waits, Rearms, Windows
  <1>4. CASE LaserOnRefused
    BY <1>4 DEF LaserOnRefused, Synced, Reads, ConsentInv, Flags, Kinds, Stages, Behind,
       Waits, Rearms, Windows
  <1>5. CASE ArmAbort
    BY <1>5 DEF ArmAbort, Waiting, Alarm, Refuse, ConsentInv, Flags, Kinds, Stages,
       Behind, Waits, Rearms, Windows
  <1>6. CASE ArmLid
    BY <1>6 DEF ArmLid, Waiting, ConsentInv, Flags, Kinds, Stages, Behind, Waits, Rearms,
       Windows
  <1>7. CASE ArmComplete
    BY <1>7 DEF ArmComplete, Open, ConsentInv, Flags, Kinds, Stages, Behind, Waits,
       Rearms, Windows
  <1>8. CASE ArmRefused
    BY <1>8 DEF ArmRefused, Alarm, Refuse, ConsentInv, Flags, Kinds, Stages, Behind,
       Waits, Rearms, Windows
  <1>9. CASE RearmCancel
    BY <1>9 DEF RearmCancel, RearmEnd, Refuse, Stage, ConsentInv, Flags, Kinds, Stages,
       Behind, Waits, Rearms, Windows
  <1>10. CASE RearmAlarm
    BY <1>10 DEF RearmAlarm, RearmEnd, Refuse, Alarm, Stage, Held, ConsentInv, Flags,
       Kinds, Stages, Behind, Waits, Rearms, Windows
  <1>11. CASE RearmReleased
    BY <1>11 DEF RearmReleased, Stage, Held, ConsentInv, Flags, Kinds, Stages, Behind,
       Waits, Rearms, Windows
  <1>12. CASE RearmStillDown
    BY <1>12 DEF RearmStillDown, Stage, Held, ConsentInv, Flags, Kinds, Stages, Behind,
       Waits, Rearms, Windows
  <1>13. CASE RearmPress
    BY <1>13 DEF RearmPress, Consumed, Open, RearmEnd, Held, ConsentInv, Flags, Kinds,
       Stages, Behind, Waits, Rearms, Windows
  <1>14. CASE Hook
    BY <1>14 DEF Hook, Stage, ConsentInv, Flags, Kinds, Stages, Behind, Waits, Rearms,
       Windows
  <1>15. CASE HookVerdictFail
    BY <1>15 DEF HookVerdictFail, Disarm, ConsentInv, Flags, Kinds, Stages, Behind, Waits,
       Rearms, Windows
  <1>16. CASE HookStreamFault
    BY <1>16 DEF HookStreamFault, Alarm, Disarm, Stage, ConsentInv, Flags, Kinds, Stages,
       Behind, Waits, Rearms, Windows
  <1>17. CASE PollOwed
    BY <1>17 DEF PollOwed, OwedIdle, Alarm, Stage, ConsentInv, Flags, Kinds, Stages,
       Behind, Waits, Rearms, Windows
  <1>18. CASE PollWindow
    BY <1>18 DEF PollWindow, Swapped, Disarm, ConsentInv, Flags, Kinds, Stages, Behind,
       Waits, Rearms, Windows
  <1>19. CASE PollSwitch
    BY <1>19 DEF PollSwitch, Resume, GatePasses, GateAsks, GateRefuses, Held, Alarm,
       AfterHook, ConsentInv, Flags, Kinds, Stages, Behind, Waits, Rearms, Windows
  <1>20. CASE PollDoor
    BY <1>20 DEF PollDoor, AfterHook, ConsentInv, Flags, Kinds, Stages, Behind, Waits,
       Rearms, Windows
  <1>21. CASE PollUnreadable
    BY <1>21 DEF PollUnreadable, AfterHook, ConsentInv, Flags, Kinds, Stages, Behind,
       Waits, Rearms, Windows
  <1>22. CASE LidCancels
    BY <1>22 DEF LidCancels, Disarm, ConsentInv, Flags, Kinds, Stages, Behind, Waits,
       Rearms, Windows
  <1>23. CASE ReadMotion
    BY <1>23 DEF ReadMotion, Reads, ConsentInv, Flags, Kinds, Stages, Behind, Waits,
       Rearms, Windows
  <1>24. CASE LaserOff
    BY <1>24 DEF LaserOff, Synced, Reads, ConsentInv, Flags, Kinds, Stages, Behind, Waits,
       Rearms, Windows
  <1>25. CASE ProgramEnd
    BY <1>25 DEF ProgramEnd, Reads, ConsentInv, Flags, Kinds, Stages, Behind, Waits,
       Rearms, Windows
  <1>26. CASE MotionEnds
    BY <1>26 DEF MotionEnds, ConsentInv, Flags, Kinds, Stages, Behind, Waits, Rearms,
       Windows
  <1>27. CASE Unlock
    BY <1>27 DEF Unlock, ConsentInv, Flags, Kinds, Stages, Behind, Waits, Rearms, Windows
  <1>28. CASE NoLine
    BY <1>28 DEF NoLine, ConsentInv, Flags, Kinds, Stages, Behind, Waits, Rearms, Windows
  <1>29. CASE TakeReset
    BY <1>29 DEF TakeReset, Disarm, ConsentInv, Flags, Kinds, Stages, Behind, Waits,
       Rearms, Windows
  <1>30. CASE TakeFlag
    BY <1>30 DEF TakeFlag, ConsentInv, Flags, Kinds, Stages, Behind, Waits, Rearms,
       Windows
  <1>31. CASE SenderResume
    BY <1>31 DEF SenderResume, AtSerial, AfterHook, Resume, GatePasses, GateAsks,
       GateRefuses, Held, Alarm, ConsentInv, Flags, Kinds, Stages, Behind, Waits, Rearms, Windows
  <1>32. CASE \E f \in {"hold", "reset"} : SenderFlag(f)
    BY <1>32 DEF SenderFlag, AtSerial, AfterHook, ConsentInv, Flags, Kinds, Stages, Behind, Waits, Rearms,
       Windows
  <1> QED
    BY <1>1, <1>2, <1>3, <1>4, <1>5, <1>6, <1>7, <1>8, <1>9, <1>10, <1>11, <1>12, <1>13,
       <1>14, <1>15, <1>16, <1>17, <1>18, <1>19, <1>20, <1>21, <1>22, <1>23, <1>24, <1>25,
       <1>26, <1>27, <1>28, <1>29, <1>30, <1>31, <1>32 DEF Next, ArmStep, RearmStep,
       Polls, CoreStep, Outside

\* The window.
LEMMA WindowsStep == ASSUME ConsentInv, [Next]_vars PROVE Windows'
  <1>1. CASE \/ UNCHANGED vars
             \/ ArmLid \/ ArmReleased \/ Press \/ Release \/ LidMoves \/ Engine
             \/ KernelIdles \/ (\E f \in {"hold", "reset"} : SenderFlag(f))
    <2>1. UNCHANGED <<pc, laser_ok, st, laser_on_window, gen, armed_client_gen, wait,
                rearm_pending, turned>>
      BY <1>1 DEF ArmLid, ArmReleased, Press, Release, LidMoves, Engine, KernelIdles,
         SenderFlag, vars
    <2> QED BY <2>1 DEF ConsentInv, Windows, Behind
  <1>2. CASE LaserOnOpen
    BY <1>2 DEF LaserOnOpen, Synced, Reads, ConsentInv, Flags, Kinds, Stages, Behind,
       Waits, Rearms, Windows
  <1>3. CASE LaserOnAsks
    BY <1>3 DEF LaserOnAsks, Synced, Reads, ConsentInv, Flags, Kinds, Stages, Behind,
       Waits, Rearms, Windows
  <1>4. CASE LaserOnRefused
    BY <1>4 DEF LaserOnRefused, Synced, Reads, ConsentInv, Flags, Kinds, Stages, Behind,
       Waits, Rearms, Windows
  <1>5. CASE ArmAbort
    BY <1>5 DEF ArmAbort, Waiting, Alarm, Refuse, ConsentInv, Flags, Kinds, Stages,
       Behind, Waits, Rearms, Windows
  <1>6. CASE ArmPress
    BY <1>6 DEF ArmPress, PressCounts, Waiting, ConsentInv, Flags, Kinds, Stages, Behind,
       Waits, Rearms, Windows
  <1>7. CASE ArmComplete
    BY <1>7 DEF ArmComplete, Open, ConsentInv, Flags, Kinds, Stages, Behind, Waits,
       Rearms, Windows
  <1>8. CASE ArmRefused
    BY <1>8 DEF ArmRefused, Alarm, Refuse, ConsentInv, Flags, Kinds, Stages, Behind,
       Waits, Rearms, Windows
  <1>9. CASE RearmCancel
    BY <1>9 DEF RearmCancel, RearmEnd, Refuse, Stage, ConsentInv, Flags, Kinds, Stages,
       Behind, Waits, Rearms, Windows
  <1>10. CASE RearmAlarm
    BY <1>10 DEF RearmAlarm, RearmEnd, Refuse, Alarm, Stage, Held, ConsentInv, Flags,
       Kinds, Stages, Behind, Waits, Rearms, Windows
  <1>11. CASE RearmReleased
    BY <1>11 DEF RearmReleased, Stage, Held, ConsentInv, Flags, Kinds, Stages, Behind,
       Waits, Rearms, Windows
  <1>12. CASE RearmStillDown
    BY <1>12 DEF RearmStillDown, Stage, Held, ConsentInv, Flags, Kinds, Stages, Behind,
       Waits, Rearms, Windows
  <1>13. CASE RearmPress
    BY <1>13 DEF RearmPress, Consumed, Open, RearmEnd, Held, ConsentInv, Flags, Kinds,
       Stages, Behind, Waits, Rearms, Windows
  <1>14. CASE Hook
    BY <1>14 DEF Hook, Stage, ConsentInv, Flags, Kinds, Stages, Behind, Waits, Rearms,
       Windows
  <1>15. CASE HookVerdictFail
    BY <1>15 DEF HookVerdictFail, Disarm, ConsentInv, Flags, Kinds, Stages, Behind, Waits,
       Rearms, Windows
  <1>16. CASE HookStreamFault
    BY <1>16 DEF HookStreamFault, Alarm, Disarm, Stage, ConsentInv, Flags, Kinds, Stages,
       Behind, Waits, Rearms, Windows
  <1>17. CASE PollOwed
    BY <1>17 DEF PollOwed, OwedIdle, Alarm, Stage, ConsentInv, Flags, Kinds, Stages,
       Behind, Waits, Rearms, Windows
  <1>18. CASE PollWindow
    BY <1>18 DEF PollWindow, Swapped, Disarm, ConsentInv, Flags, Kinds, Stages, Behind,
       Waits, Rearms, Windows
  <1>19. CASE PollSwitch
    BY <1>19 DEF PollSwitch, Resume, GatePasses, GateAsks, GateRefuses, Held, Alarm,
       AfterHook, ConsentInv, Flags, Kinds, Stages, Behind, Waits, Rearms, Windows
  <1>20. CASE PollDoor
    BY <1>20 DEF PollDoor, AfterHook, ConsentInv, Flags, Kinds, Stages, Behind, Waits,
       Rearms, Windows
  <1>21. CASE PollUnreadable
    BY <1>21 DEF PollUnreadable, AfterHook, ConsentInv, Flags, Kinds, Stages, Behind,
       Waits, Rearms, Windows
  <1>22. CASE LidCancels
    BY <1>22 DEF LidCancels, Disarm, ConsentInv, Flags, Kinds, Stages, Behind, Waits,
       Rearms, Windows
  <1>23. CASE ReadMotion
    BY <1>23 DEF ReadMotion, Reads, ConsentInv, Flags, Kinds, Stages, Behind, Waits,
       Rearms, Windows
  <1>24. CASE LaserOff
    BY <1>24 DEF LaserOff, Synced, Reads, ConsentInv, Flags, Kinds, Stages, Behind, Waits,
       Rearms, Windows
  <1>25. CASE ProgramEnd
    BY <1>25 DEF ProgramEnd, Reads, ConsentInv, Flags, Kinds, Stages, Behind, Waits,
       Rearms, Windows
  <1>26. CASE MotionEnds
    BY <1>26 DEF MotionEnds, ConsentInv, Flags, Kinds, Stages, Behind, Waits, Rearms,
       Windows
  <1>27. CASE Unlock
    BY <1>27 DEF Unlock, ConsentInv, Flags, Kinds, Stages, Behind, Waits, Rearms, Windows
  <1>28. CASE NoLine
    BY <1>28 DEF NoLine, ConsentInv, Flags, Kinds, Stages, Behind, Waits, Rearms, Windows
  <1>29. CASE TakeReset
    BY <1>29 DEF TakeReset, Disarm, ConsentInv, Flags, Kinds, Stages, Behind, Waits,
       Rearms, Windows
  <1>30. CASE TakeFlag
    BY <1>30 DEF TakeFlag, ConsentInv, Flags, Kinds, Stages, Behind, Waits, Rearms,
       Windows
  <1>31. CASE SenderSwap
    BY <1>31 DEF SenderSwap, AtSerial, AfterHook, ConsentInv, Flags, Kinds, Stages, Behind, Waits, Rearms,
       Windows
  <1>32. CASE SenderResume
    BY <1>32 DEF SenderResume, AtSerial, AfterHook, Resume, GatePasses, GateAsks,
       GateRefuses, Held, Alarm, ConsentInv, Flags, Kinds, Stages, Behind, Waits, Rearms, Windows
  <1> QED
    BY <1>1, <1>2, <1>3, <1>4, <1>5, <1>6, <1>7, <1>8, <1>9, <1>10, <1>11, <1>12, <1>13,
       <1>14, <1>15, <1>16, <1>17, <1>18, <1>19, <1>20, <1>21, <1>22, <1>23, <1>24, <1>25,
       <1>26, <1>27, <1>28, <1>29, <1>30, <1>31, <1>32 DEF Next, ArmStep, RearmStep,
       Polls, CoreStep, Outside

\* The alarm that is owed.
LEMMA OwedStep == ASSUME ConsentInv, [Next]_vars PROVE Owed'
  <1>1. CASE \/ UNCHANGED vars
             \/ ArmReleased \/ ArmPress \/ ArmComplete \/ Press \/ Release \/ LidMoves
             \/ Engine \/ KernelIdles \/ SenderSwap
    <2>1. UNCHANGED <<pc, fail_alarm_pending, rt, st>>
      BY <1>1 DEF ArmReleased, ArmPress, ArmComplete, Press, Release, LidMoves, Engine,
         KernelIdles, SenderSwap, vars
    <2> QED BY <2>1 DEF ConsentInv, Owed
  <1>2. CASE LaserOnOpen
    BY <1>2 DEF LaserOnOpen, Synced, Reads, ConsentInv, Flags, Kinds, Stages, Waits,
       Rearms, Owed
  <1>3. CASE LaserOnAsks
    BY <1>3 DEF LaserOnAsks, Synced, Reads, ConsentInv, Flags, Kinds, Stages, Waits,
       Rearms, Owed
  <1>4. CASE LaserOnRefused
    BY <1>4 DEF LaserOnRefused, Synced, Reads, ConsentInv, Flags, Kinds, Stages, Waits,
       Rearms, Owed
  <1>5. CASE ArmAbort
    BY <1>5 DEF ArmAbort, Waiting, Alarm, Refuse, ConsentInv, Flags, Kinds, Stages, Waits,
       Rearms, Owed
  <1>6. CASE ArmLid
    BY <1>6 DEF ArmLid, Waiting, ConsentInv, Flags, Kinds, Stages, Waits, Rearms, Owed
  <1>7. CASE ArmRefused
    BY <1>7 DEF ArmRefused, Alarm, Refuse, ConsentInv, Flags, Kinds, Stages, Waits,
       Rearms, Owed
  <1>8. CASE RearmCancel
    BY <1>8 DEF RearmCancel, RearmEnd, Refuse, Stage, ConsentInv, Flags, Kinds, Stages,
       Waits, Rearms, Owed
  <1>9. CASE RearmAlarm
    BY <1>9 DEF RearmAlarm, RearmEnd, Refuse, Alarm, Stage, Held, ConsentInv, Flags,
       Kinds, Stages, Waits, Rearms, Owed
  <1>10. CASE RearmReleased
    BY <1>10 DEF RearmReleased, Stage, Held, ConsentInv, Flags, Kinds, Stages, Waits,
       Rearms, Owed
  <1>11. CASE RearmStillDown
    BY <1>11 DEF RearmStillDown, Stage, Held, ConsentInv, Flags, Kinds, Stages, Waits,
       Rearms, Owed
  <1>12. CASE RearmPress
    BY <1>12 DEF RearmPress, Consumed, Open, RearmEnd, Held, ConsentInv, Flags, Kinds,
       Stages, Waits, Rearms, Owed
  <1>13. CASE Hook
    BY <1>13 DEF Hook, Stage, ConsentInv, Flags, Kinds, Stages, Waits, Rearms, Owed
  <1>14. CASE HookVerdictFail
    BY <1>14 DEF HookVerdictFail, Disarm, ConsentInv, Flags, Kinds, Stages, Waits, Rearms,
       Owed
  <1>15. CASE HookStreamFault
    BY <1>15 DEF HookStreamFault, Alarm, Disarm, Stage, ConsentInv, Flags, Kinds, Stages,
       Waits, Rearms, Owed
  <1>16. CASE PollOwed
    BY <1>16 DEF PollOwed, OwedIdle, Alarm, Stage, ConsentInv, Flags, Kinds, Stages,
       Waits, Rearms, Owed
  <1>17. CASE PollWindow
    BY <1>17 DEF PollWindow, Swapped, Disarm, ConsentInv, Flags, Kinds, Stages, Waits,
       Rearms, Owed
  <1>18. CASE PollSwitch
    BY <1>18 DEF PollSwitch, Resume, GatePasses, GateAsks, GateRefuses, Held, Alarm,
       AfterHook, ConsentInv, Flags, Kinds, Stages, Waits, Rearms, Owed
  <1>19. CASE PollDoor
    BY <1>19 DEF PollDoor, AfterHook, ConsentInv, Flags, Kinds, Stages, Waits, Rearms,
       Owed
  <1>20. CASE PollUnreadable
    BY <1>20 DEF PollUnreadable, AfterHook, ConsentInv, Flags, Kinds, Stages, Waits,
       Rearms, Owed
  <1>21. CASE LidCancels
    BY <1>21 DEF LidCancels, Disarm, ConsentInv, Flags, Kinds, Stages, Waits, Rearms, Owed
  <1>22. CASE ReadMotion
    BY <1>22 DEF ReadMotion, Reads, ConsentInv, Flags, Kinds, Stages, Waits, Rearms, Owed
  <1>23. CASE LaserOff
    BY <1>23 DEF LaserOff, Synced, Reads, ConsentInv, Flags, Kinds, Stages, Waits, Rearms,
       Owed
  <1>24. CASE ProgramEnd
    BY <1>24 DEF ProgramEnd, Reads, ConsentInv, Flags, Kinds, Stages, Waits, Rearms, Owed
  <1>25. CASE MotionEnds
    BY <1>25 DEF MotionEnds, ConsentInv, Flags, Kinds, Stages, Waits, Rearms, Owed
  <1>26. CASE Unlock
    BY <1>26 DEF Unlock, ConsentInv, Flags, Kinds, Stages, Waits, Rearms, Owed
  <1>27. CASE NoLine
    BY <1>27 DEF NoLine, ConsentInv, Flags, Kinds, Stages, Waits, Rearms, Owed
  <1>28. CASE TakeReset
    BY <1>28 DEF TakeReset, Disarm, ConsentInv, Flags, Kinds, Stages, Waits, Rearms, Owed
  <1>29. CASE TakeFlag
    BY <1>29 DEF TakeFlag, ConsentInv, Flags, Kinds, Stages, Waits, Rearms, Owed
  <1>30. CASE SenderResume
    BY <1>30 DEF SenderResume, AtSerial, AfterHook, Resume, GatePasses, GateAsks,
       GateRefuses, Held, Alarm, ConsentInv, Flags, Kinds, Stages, Waits, Rearms, Owed
  <1>31. CASE \E f \in {"hold", "reset"} : SenderFlag(f)
    BY <1>31 DEF SenderFlag, AtSerial, AfterHook, ConsentInv, Flags, Kinds, Stages, Waits, Rearms, Owed
  <1> QED
    BY <1>1, <1>2, <1>3, <1>4, <1>5, <1>6, <1>7, <1>8, <1>9, <1>10, <1>11, <1>12, <1>13,
       <1>14, <1>15, <1>16, <1>17, <1>18, <1>19, <1>20, <1>21, <1>22, <1>23, <1>24, <1>25,
       <1>26, <1>27, <1>28, <1>29, <1>30, <1>31 DEF Next, ArmStep, RearmStep, Polls,
       CoreStep, Outside

\* The press in progress.
LEMMA PressesStep == ASSUME ConsentInv, [Next]_vars PROVE Presses'
  <1>1. CASE \/ UNCHANGED vars
             \/ LaserOnOpen \/ LaserOnRefused \/ ArmLid \/ RearmStillDown \/ Hook
             \/ HookVerdictFail \/ HookStreamFault \/ PollOwed \/ PollWindow \/ PollDoor
             \/ PollUnreadable \/ LidCancels \/ ReadMotion \/ LaserOff \/ ProgramEnd
             \/ MotionEnds \/ Unlock \/ NoLine \/ TakeFlag \/ LidMoves \/ Engine
             \/ KernelIdles \/ SenderSwap \/ (\E f \in {"hold", "reset"} : SenderFlag(f))
    <2>1. UNCHANGED <<button, effect, button_prev, released, wait, rearm_pending, fresh>>
      BY <1>1 DEF LaserOnOpen, LaserOnRefused, ArmLid, RearmStillDown, Hook,
         HookVerdictFail, HookStreamFault, PollOwed, PollWindow, PollDoor, PollUnreadable,
         LidCancels, ReadMotion, LaserOff, ProgramEnd, MotionEnds, Unlock, NoLine,
         TakeFlag, LidMoves, Engine, KernelIdles, SenderSwap, SenderFlag, vars
    <2> QED BY <2>1 DEF ConsentInv, Presses
  <1>2. CASE LaserOnAsks
    BY <1>2 DEF LaserOnAsks, Synced, Reads, ConsentInv, Flags, Kinds, Stages, Waits,
       Presses
  <1>3. CASE ArmAbort
    BY <1>3 DEF ArmAbort, Waiting, Alarm, Refuse, ConsentInv, Flags, Kinds, Stages, Waits,
       Presses
  <1>4. CASE ArmReleased
    BY <1>4 DEF ArmReleased, Waiting, ConsentInv, Flags, Kinds, Stages, Waits, Presses
  <1>5. CASE ArmPress
    BY <1>5 DEF ArmPress, PressCounts, Waiting, ConsentInv, Flags, Kinds, Stages, Waits,
       Presses
  <1>6. CASE ArmComplete
    BY <1>6 DEF ArmComplete, Open, ConsentInv, Flags, Kinds, Stages, Waits, Presses
  <1>7. CASE ArmRefused
    BY <1>7 DEF ArmRefused, Alarm, Refuse, ConsentInv, Flags, Kinds, Stages, Waits,
       Presses
  <1>8. CASE RearmCancel
    BY <1>8 DEF RearmCancel, RearmEnd, Refuse, Stage, ConsentInv, Flags, Kinds, Stages,
       Waits, Presses
  <1>9. CASE RearmAlarm
    BY <1>9 DEF RearmAlarm, RearmEnd, Refuse, Alarm, Stage, Held, ConsentInv, Flags,
       Kinds, Stages, Waits, Presses
  <1>10. CASE RearmReleased
    BY <1>10 DEF RearmReleased, Stage, Held, ConsentInv, Flags, Kinds, Stages, Waits,
       Presses
  <1>11. CASE RearmPress
    BY <1>11 DEF RearmPress, Consumed, Open, RearmEnd, Held, ConsentInv, Flags, Kinds,
       Stages, Waits, Presses
  <1>12. CASE PollSwitch
    BY <1>12 DEF PollSwitch, Resume, GatePasses, GateAsks, GateRefuses, Held, Alarm,
       AfterHook, ConsentInv, Flags, Kinds, Stages, Waits, Presses
  <1>13. CASE TakeReset
    BY <1>13 DEF TakeReset, Disarm, ConsentInv, Flags, Kinds, Stages, Waits, Presses
  <1>14. CASE Press
    BY <1>14 DEF Press, ConsentInv, Flags, Kinds, Stages, Waits, Presses
  <1>15. CASE Release
    BY <1>15 DEF Release, ConsentInv, Flags, Kinds, Stages, Waits, Presses
  <1>16. CASE SenderResume
    BY <1>16 DEF SenderResume, AtSerial, AfterHook, Resume, GatePasses, GateAsks,
       GateRefuses, Held, Alarm, ConsentInv, Flags, Kinds, Stages, Waits, Presses
  <1> QED
    BY <1>1, <1>2, <1>3, <1>4, <1>5, <1>6, <1>7, <1>8, <1>9, <1>10, <1>11, <1>12, <1>13,
       <1>14, <1>15, <1>16 DEF Next, ArmStep, RearmStep, Polls, CoreStep, Outside

\* Nothing is armed or asked for; the button may be down.
LEMMA ConsentInit == ASSUME Init PROVE ConsentInv
  <1>1. Flags
    BY DEF Init, Flags
  <1>2. Kinds
    BY DEF Init, Kinds
  <1>3. Stages /\ Waits
    BY DEF Init, Stages, Waits
  <1>4. Rearms /\ Windows /\ Owed /\ Presses
    BY DEF Init, Rearms, Windows, Owed, Presses, Behind
  <1> QED BY <1>1, <1>2, <1>3, <1>4 DEF ConsentInv

-----------------------------------------------------------------------------
(* The theorems.                                                           *)

\* The invariant the other theorems rest on.
THEOREM ConsentInvariant == Spec => []ConsentInv
  <1>1. ASSUME ConsentInv, [Next]_vars PROVE Flags'
    BY <1>1, CoreFlags, WindowFlags, WaitFlags, CoolFlags, HandFlags DEF Flags
  <1>2. ASSUME ConsentInv, [Next]_vars PROVE Kinds'
    BY <1>2, StepKinds, FlagKinds, GenKinds DEF Kinds
  <1>3. ASSUME ConsentInv, [Next]_vars PROVE ConsentInv'
    BY <1>1, <1>2, <1>3, StagesStep, WaitsStep, RearmsStep, WindowsStep, OwedStep, PressesStep
       DEF ConsentInv
  <1> QED BY <1>3, ConsentInit, PTL DEF Spec

\* Every variable has its type, and the blocking wait of gflaser_arm never runs
\* beside a re-arm.
THEOREM TypeCorrect == Spec => []TypeOK
  <1>1. ASSUME ConsentInv PROVE TypeOK
    BY <1>1 DEF ConsentInv, Flags, Kinds, Waits, TypeOK
  <1> QED BY <1>1, ConsentInvariant, PTL

\* The run airflow is reported for as long as the window is open, and no longer
\* than something is armed or arming (gfcool_laser_armed's callers).
THEOREM AirflowIsCovering == Spec => []AirflowCovers
  <1>1. ASSUME ConsentInv PROVE AirflowCovers
    BY <1>1 DEF ConsentInv, Windows, AirflowCovers
  <1> QED BY <1>1, ConsentInvariant, PTL

\* No line of g-code runs in the window of a sender displaced before the last
\* look at the window, nor between a verdict of the fail tier and its alarm
\* (gflaser_poll, ahead of serial_poll in the hook).
THEOREM WhatLinesMeet == Spec => []LinesMeet
  <1>1. ASSUME ConsentInv PROVE LinesMeet
    BY <1>1 DEF ConsentInv, Windows, Behind, Owed, LinesMeet
  <1> QED BY <1>1, ConsentInvariant, PTL

\* A press that has done something does nothing else.
LEMMA PressOnceStep == ASSUME ConsentInv, [Next]_vars PROVE [effect # "none" /\ effect' # effect => effect' = "none"]_vars
  <1>1. CASE \/ UNCHANGED vars
             \/ LaserOnOpen \/ LaserOnAsks \/ LaserOnRefused \/ ArmAbort \/ ArmLid
             \/ ArmReleased \/ ArmComplete \/ ArmRefused \/ RearmCancel \/ RearmAlarm
             \/ RearmReleased \/ RearmStillDown \/ Hook \/ HookVerdictFail
             \/ HookStreamFault \/ PollOwed \/ PollWindow \/ PollDoor \/ PollUnreadable
             \/ LidCancels \/ ReadMotion \/ LaserOff \/ ProgramEnd \/ MotionEnds \/ Unlock
             \/ NoLine \/ TakeReset \/ TakeFlag \/ Release \/ LidMoves \/ Engine
             \/ KernelIdles \/ SenderSwap \/ SenderResume
             \/ (\E f \in {"hold", "reset"} : SenderFlag(f))
    <2>1. effect' = effect
      BY <1>1 DEF LaserOnOpen, LaserOnAsks, LaserOnRefused, ArmAbort, ArmLid, ArmReleased,
         ArmComplete, ArmRefused, RearmCancel, RearmAlarm, RearmReleased, RearmStillDown,
         Hook, HookVerdictFail, HookStreamFault, PollOwed, PollWindow, PollDoor,
         PollUnreadable, LidCancels, ReadMotion, LaserOff, ProgramEnd, MotionEnds, Unlock,
         NoLine, TakeReset, TakeFlag, Release, LidMoves, Engine, KernelIdles, SenderSwap,
         SenderResume, SenderFlag, vars
    <2> QED BY <2>1 DEF ConsentInv, Flags, Kinds, Stages, Waits, Presses
  <1>2. CASE ArmPress
    BY <1>2 DEF ArmPress, PressCounts, Waiting, ConsentInv, Flags, Kinds, Stages, Waits,
       Presses
  <1>3. CASE RearmPress
    BY <1>3 DEF RearmPress, Consumed, Open, RearmEnd, Held, ConsentInv, Flags, Kinds,
       Stages, Waits, Presses
  <1>4. CASE PollSwitch
    BY <1>4 DEF PollSwitch, Resume, GatePasses, GateAsks, GateRefuses, Held, Alarm,
       AfterHook, ConsentInv, Flags, Kinds, Stages, Waits, Presses
  <1>5. CASE Press
    BY <1>5 DEF Press, ConsentInv, Flags, Kinds, Stages, Waits, Presses
  <1> QED
    BY <1>1, <1>2, <1>3, <1>4, <1>5 DEF Next, ArmStep, RearmStep, Polls, CoreStep, Outside

\* A window opens behind a fresh press, read for the sender that asked, and
\* belongs to it unless it opens behind the wait for the acknowledgment.
LEMMA PressConsentsStep ==
    ASSUME ConsentInv, [Next]_vars
    PROVE  [/\ ~laser_ok /\ laser_ok' =>
                   consent' /\ armed_client_gen' = IF wait = "ack" THEN gen ELSE ask_gen
            /\ effect # "consent" /\ effect' = "consent" => gen = ask_gen]_vars
  <1>1. CASE \/ UNCHANGED vars
             \/ LaserOnOpen \/ LaserOnAsks \/ LaserOnRefused \/ ArmLid \/ ArmReleased
             \/ RearmReleased \/ RearmStillDown \/ Hook \/ PollOwed \/ PollDoor
             \/ PollUnreadable \/ ReadMotion \/ LaserOff \/ ProgramEnd \/ MotionEnds
             \/ Unlock \/ NoLine \/ TakeFlag \/ Release \/ LidMoves \/ Engine
             \/ KernelIdles \/ SenderSwap \/ (\E f \in {"hold", "reset"} : SenderFlag(f))
    <2>1. UNCHANGED <<effect, laser_ok>>
      BY <1>1 DEF LaserOnOpen, LaserOnAsks, LaserOnRefused, ArmLid, ArmReleased,
         RearmReleased, RearmStillDown, Hook, PollOwed, PollDoor, PollUnreadable,
         ReadMotion, LaserOff, ProgramEnd, MotionEnds, Unlock, NoLine, TakeFlag, Release,
         LidMoves, Engine, KernelIdles, SenderSwap, SenderFlag, vars
    <2> QED BY <2>1 DEF ConsentInv, Flags, Kinds, Stages, Waits, Presses
  <1>2. CASE ArmAbort
    BY <1>2 DEF ArmAbort, Waiting, Alarm, Refuse, ConsentInv, Flags, Kinds, Stages, Waits,
       Presses
  <1>3. CASE ArmPress
    BY <1>3 DEF ArmPress, PressCounts, Waiting, ConsentInv, Flags, Kinds, Stages, Waits,
       Presses
  <1>4. CASE ArmComplete
    BY <1>4 DEF ArmComplete, Open, ConsentInv, Flags, Kinds, Stages, Waits, Presses
  <1>5. CASE ArmRefused
    BY <1>5 DEF ArmRefused, Alarm, Refuse, ConsentInv, Flags, Kinds, Stages, Waits,
       Presses
  <1>6. CASE RearmCancel
    BY <1>6 DEF RearmCancel, RearmEnd, Refuse, Stage, ConsentInv, Flags, Kinds, Stages,
       Waits, Presses
  <1>7. CASE RearmAlarm
    BY <1>7 DEF RearmAlarm, RearmEnd, Refuse, Alarm, Stage, Held, ConsentInv, Flags,
       Kinds, Stages, Waits, Presses
  <1>8. CASE RearmPress
    BY <1>8 DEF RearmPress, Consumed, Open, RearmEnd, Held, ConsentInv, Flags, Kinds,
       Stages, Waits, Presses
  <1>9. CASE HookVerdictFail
    BY <1>9 DEF HookVerdictFail, Disarm, ConsentInv, Flags, Kinds, Stages, Waits, Presses
  <1>10. CASE HookStreamFault
    BY <1>10 DEF HookStreamFault, Alarm, Disarm, Stage, ConsentInv, Flags, Kinds, Stages,
       Waits, Presses
  <1>11. CASE PollWindow
    BY <1>11 DEF PollWindow, Swapped, Disarm, ConsentInv, Flags, Kinds, Stages, Waits,
       Presses
  <1>12. CASE PollSwitch
    BY <1>12 DEF PollSwitch, Resume, GatePasses, GateAsks, GateRefuses, Held, Alarm,
       AfterHook, ConsentInv, Flags, Kinds, Stages, Waits, Presses
  <1>13. CASE LidCancels
    BY <1>13 DEF LidCancels, Disarm, ConsentInv, Flags, Kinds, Stages, Waits, Presses
  <1>14. CASE TakeReset
    BY <1>14 DEF TakeReset, Disarm, ConsentInv, Flags, Kinds, Stages, Waits, Presses
  <1>15. CASE Press
    BY <1>15 DEF Press, ConsentInv, Flags, Kinds, Stages, Waits, Presses
  <1>16. CASE SenderResume
    BY <1>16 DEF SenderResume, AtSerial, AfterHook, Resume, GatePasses, GateAsks,
       GateRefuses, Held, Alarm, ConsentInv, Flags, Kinds, Stages, Waits, Presses
  <1> QED
    BY <1>1, <1>2, <1>3, <1>4, <1>5, <1>6, <1>7, <1>8, <1>9, <1>10, <1>11, <1>12, <1>13,
       <1>14, <1>15, <1>16 DEF Next, ArmStep, RearmStep, Polls, CoreStep, Outside

\* One press, one meaning: a pause, a resume or a consent
\* (gfsw_button_consumed, gflaser_arming).
THEOREM PressCountsOnce == Spec => PressOnce
  BY ConsentInvariant, PressOnceStep, PTL DEF Spec, PressOnce

\* Every window opens behind a press that began inside its own wait, read for
\* the sender whose request is waiting; a re-armed window belongs to that sender,
\* one the blocking arm opens to the sender of that moment (gflaser_arm,
\* arm_complete, rearm_poll).
THEOREM PressIsConsent == Spec => PressConsents
  BY ConsentInvariant, PressConsentsStep, PTL DEF Spec, PressConsents
=============================================================================
