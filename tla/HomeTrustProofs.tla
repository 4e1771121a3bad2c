-------------------------- MODULE HomeTrustProofs --------------------------
(***************************************************************************)
(* Proofs about HomeTrust, for every travel, edge, park and tray shift:    *)
(* types, that the controller's coordinates and the anchor file with the   *)
(* kernel's counters both implement Datum, and that a release holds.       *)
(***************************************************************************)
EXTENDS HomeTrust, TLAPS

USE HomeAssumption DEF HomeAssumption, Axes, Places, fileVars, kernVars, coreVars, refVars,
    strVars, relVars, sesVars

-----------------------------------------------------------------------------
(* The inductive invariant.                                                *)

Anchors == [axes : SUBSET Axes, at : [Axes -> Int]]

MachineType ==
    /\ phys \in [Axes -> Places] /\ counter \in [Axes -> Int]
    /\ inflight \in [Axes -> {-1, 0, 1}] /\ position \in [Axes -> Int]

FlagType ==
    /\ free \in BOOLEAN /\ marker \in BOOLEAN /\ out \in BOOLEAN /\ lens_home \in BOOLEAN
    /\ up \in BOOLEAN /\ homed \in BOOLEAN /\ z_referenced \in BOOLEAN
    /\ lens_referenced \in BOOLEAN /\ armed \in BOOLEAN /\ failed \in BOOLEAN
    /\ fault \in BOOLEAN /\ released \in BOOLEAN /\ alarm_before \in BOOLEAN
    /\ unmarked \in BOOLEAN

ControlType ==
    /\ FlagType
    /\ pc \in {"poll", "line", "freed", "anchor"}
    /\ st \in {"idle", "cycle", "homing", "alarm"}
    /\ session \in {"none", "wait", "runner", "aborted"} /\ entry_state \in {"idle",
       "alarm"}

Types == MachineType /\ ControlType /\ anchor \in Anchors

\* What is in flight ends inside the travel.
InReach == \A a \in Axes : phys[a] + inflight[a] \in Places

\* Between two controllers.
Down == ~up => ~lens_referenced /\ ~fault /\ ~failed /\ ~released

\* Before the first hook of a controller: nothing moves, nothing is known, and
\* a lens that the daemon left on its edge is there.
Fresh ==
    ~lens_referenced =>
        /\ pc = "poll" /\ st = "idle" /\ session = "none" /\ ~armed /\ inflight = Still
        /\ ~homed /\ ~z_referenced
        /\ up => anchor.axes = {} /\ (lens_home => phys["z"] = Edge)

\* The producer runs in a cycle, and on a failed stream only until the hook.
Producer == armed => st = "cycle" /\ (failed => fault)

\* A session knows nothing; from the hand-over on nothing is in flight.
InSession ==
    session # "none" =>
        /\ ~homed /\ ~z_referenced /\ ~armed /\ ~released
        /\ session # "wait" => inflight = Still

\* A released gantry: the marker says so unless it could not be written, nothing
\* is known of it behind the release, and no line reaches it.
Released ==
    /\ free => marker \/ unmarked \/ pc = "freed"
    /\ up => free = released
    /\ free => inflight = Still /\ (homed => pc = "freed")
    /\ released => st = "alarm" \/ (st = "idle" /\ pc \in {"poll", "freed"})

\* Inside a release and inside the end of a home.
Midway ==
    /\ pc = "freed" => up /\ released /\ session = "none"
    /\ pc = "anchor" => /\ up /\ session = "none" /\ homed /\ ~armed /\ ~released
                        /\ inflight = Still /\ counter = Still

\* The anchor never carries more than the controller knows.
AnchorWithin == up => anchor.axes \subseteq ControllerKnows

Right(a) == position[a] = phys[a] + inflight[a] + Frame[a]
CoordinatesRight ==
    ~fault => (homed /\ pc # "freed" => Right("xy")) /\ (z_referenced => Right("z"))

Anchored(a) == anchor.at[a] + counter[a] = phys[a] + Frame[a]
AnchorRight == ~fault => \A a \in AnchorOffers : Anchored(a)

Control == Down /\ Fresh /\ Producer /\ InSession /\ Released /\ Midway /\ AnchorWithin

TrustInv == Types /\ InReach /\ Control /\ CoordinatesRight /\ AnchorRight

-----------------------------------------------------------------------------
(* Lemmas about the operators.                                             *)

\* The two forms the anchor is written in.
LEMMA AnchorForms ==
    /\ Unanchored \in Anchors /\ Unanchored.axes = {}
    /\ \A S \in SUBSET Axes, f \in [Axes -> Int] :
          /\ Anchor(S, f) \in Anchors /\ Anchor(S, f).axes = S
          /\ \A a \in S : Anchor(S, f).at[a] = f[a]
  BY DEF Unanchored, Anchor, Anchors, On, Still

\* The frame is an offset of the lens alone.
LEMMA FrameForm ==
    Frame \in [Axes -> Int] /\ Frame["xy"] = 0 /\ Frame["z"] = (IF out THEN Shift ELSE 0)
  BY DEF Frame

\* A ramp moves the machine and the counters alike, and stays inside the travel.
LEMMA RampForm ==
    ASSUME MachineType, InReach, NEW S \in SUBSET Axes, RampPlays(S)
    PROVE  /\ phys' \in [Axes -> Places] /\ counter' \in [Axes -> Int]
           /\ inflight' = Still /\ inflight' \in [Axes -> {-1, 0, 1}]
           /\ InReach'
           /\ \A a \in Axes : phys'[a] - phys[a] = counter'[a] - counter[a]
  <1>1. \A a \in Axes : /\ phys'[a] = phys[a] + (IF a \in S THEN inflight[a] ELSE 0)
                         /\ counter'[a] = counter[a] + (IF a \in S THEN inflight[a] ELSE 0)
    BY DEF RampPlays, Sum, On
  <1>2. \A a \in Axes : /\ phys[a] \in Places /\ counter[a] \in Int
                         /\ inflight[a] \in {-1, 0, 1} /\ phys[a] + inflight[a] \in Places
    BY DEF MachineType, InReach
  <1>3. \A a \in Axes : /\ phys'[a] \in Places /\ counter'[a] \in Int
                         /\ phys'[a] - phys[a] = counter'[a] - counter[a]
    BY <1>1, <1>2
  <1>4. phys' \in [Axes -> Places] /\ counter' \in [Axes -> Int]
    BY <1>3 DEF RampPlays, Sum
  <1>5. inflight' = Still /\ inflight' \in [Axes -> {-1, 0, 1}]
    BY DEF RampPlays, Still
  <1> QED BY <1>3, <1>4, <1>5 DEF InReach, Still

\* What moves neither the machine nor the counters nor the frame keeps the
\* anchor right, as long as it keeps the anchor and leaves a notice standing.
LEMMA AnchorKept ==
    ASSUME AnchorRight, up' => up, fault => fault', pc = "anchor" => pc' = "anchor",
           pc = "freed" => pc' = "freed", UNCHANGED <<anchor, counter, phys, out>>
    PROVE  AnchorRight'
  BY DEF AnchorRight, AnchorOffers, Loose, Anchored, Frame

\* No anchor is never wrong.
LEMMA UnanchoredRight == ASSUME anchor' = Unanchored PROVE AnchorRight'
  BY AnchorForms DEF AnchorRight, AnchorOffers


\* A release leaves the anchor of the lens, if there was one.
LEMMA ReleasedAnchor ==
    ASSUME anchor \in Anchors, gfhome_invalidate_xy
    PROVE  /\ anchor' \in Anchors /\ anchor'.axes = {"z"} \cap anchor.axes
           /\ "z" \in anchor'.axes => anchor'.at["z"] = anchor.at["z"]
  <1>1. anchor.axes \in SUBSET Axes /\ anchor.at \in [Axes -> Int]
    BY DEF Anchors
  <1>2. CASE "z" \in anchor.axes
    <2>1. anchor' = Anchor({"z"}, anchor.at)
      BY <1>2 DEF gfhome_invalidate_xy, AnchorOfZ
    <2> QED BY <1>1, <1>2, <2>1, AnchorForms
  <1>3. CASE "z" \notin anchor.axes
    <2>1. anchor' = Unanchored
      BY <1>3 DEF gfhome_invalidate_xy, AnchorOfZ
    <2> QED BY <1>1, <1>3, <2>1, AnchorForms
  <1> QED BY <1>2, <1>3

\* Types, and the reach of what is in flight.
LEMMA TypesStep == ASSUME TrustInv, [Next]_vars PROVE Types' /\ InReach'
  <1>1. CASE Line
    BY <1>1 DEF Line, TrustInv, Types, MachineType, InReach, ControlType, FlagType, Control, Down,
       Fresh, Producer, InSession, Released, Midway, Still
  <1>2. CASE \E a \in Axes, d \in {-1, 1} : Step(a, d)
    BY <1>2 DEF Step, TrustInv, Types, MachineType, InReach, ControlType, FlagType, Control, Down,
       Fresh, Producer, InSession, Released, Midway, Still
  <1>3. CASE \E a \in Axes : Played(a)
    BY <1>3 DEF Played, TrustInv, Types, MachineType, ControlType, FlagType, Control, Down, Fresh,
       Producer, InSession, Released, Midway, InReach
  <1>4. CASE CycleEnds
    <2>1. MachineType' /\ InReach' /\ anchor' \in Anchors
      BY <1>4 DEF CycleEnds, TrustInv, Types, MachineType, InReach
    <2>2. FlagType'
      BY <1>4 DEF CycleEnds, TrustInv, Types, ControlType, FlagType
    <2>3. ControlType'
      BY <1>4, <2>2 DEF CycleEnds, TrustInv, Types, ControlType
    <2> QED BY <2>1, <2>3 DEF Types
  <1>5. CASE StreamFault
    <2>1. MachineType' /\ InReach'
      BY <1>5 DEF StreamFault, Sum, On, Still, TrustInv, Types, MachineType, InReach
    <2> QED BY <1>5, <2>1 DEF StreamFault, TrustInv, Types, ControlType, FlagType, Control, Down,
       Fresh, Producer, InSession, Released, Midway
  <1>6. CASE Hook
    <2>1. EdgeFrame \in [Axes -> Int]
      BY FrameForm DEF EdgeFrame, TrustInv, Types, MachineType
    <2>2. anchor' \in Anchors
      BY <1>6, <2>1, AnchorForms DEF Hook, gfhome_invalidate, TrustInv, Types
    <2>3. MachineType' /\ InReach'
      BY <1>6, <2>1 DEF Hook, Still, TrustInv, Types, MachineType, InReach
    <2>4. ControlType'
      <3>1. /\ homed' \in BOOLEAN /\ z_referenced' \in BOOLEAN 
            /\ lens_referenced' \in BOOLEAN /\ armed' \in BOOLEAN /\ fault' \in BOOLEAN
        BY <1>6 DEF Hook, gfhome_invalidate, TrustInv, Types, ControlType, FlagType, Control, Down,
           Fresh, Producer, InSession, Released, Midway
      <3>2. pc' \in {"poll", "line", "freed", "anchor"} /\ st' \in {"idle", "cycle", "homing", "alarm"}
        BY <1>6 DEF Hook, TrustInv, Types, ControlType, FlagType, Control, Down, Fresh, Producer,
           InSession, Released, Midway
      <3> QED BY <1>6, <3>1, <3>2 DEF Hook, TrustInv, Types, ControlType, FlagType, Control, Down,
         Fresh, Producer, InSession, Released, Midway
    <2> QED BY <2>2, <2>3, <2>4 DEF Types
  <1>7. CASE NoLine
    BY <1>7 DEF NoLine, TrustInv, Types, MachineType, InReach, ControlType, FlagType, Control,
       Down, Fresh, Producer, InSession, Released, Midway, Still
  <1>8. CASE HomeBegins
    BY <1>8, AnchorForms DEF HomeBegins, CommandAllowed, gfhome_invalidate, TrustInv, Types,
       MachineType, ControlType, FlagType, Control, Down, Fresh, Producer, InSession, Released, Midway,
          InReach
  <1>9. CASE HomeGivesUp
    BY <1>9 DEF HomeGivesUp, TrustInv, Types, MachineType, InReach, ControlType, FlagType,
       Control, Down, Fresh, Producer, InSession, Released, Midway, Still
  <1>10. CASE HandedOver
    BY <1>10 DEF HandedOver, TrustInv, Types, MachineType, InReach, ControlType, FlagType,
       Control, Down, Fresh, Producer, InSession, Released, Midway, Still
  <1>11. CASE RunnerMoves
    BY <1>11 DEF RunnerMoves, InSession, Control, Still, TrustInv, Types, MachineType,
       ControlType, FlagType, Control, Down, Fresh, Producer, InSession, Released, Midway, InReach
  <1>12. CASE Homed
    <2>1. phys' \in [Axes -> Places] /\ position' \in [Axes -> Int] /\ counter' \in [Axes
       -> Int]
      BY <1>12, FrameForm DEF Homed, Completed, Sum, Still
    <2>2. anchor' \in Anchors
      BY <1>12 DEF Homed, Completed, TrustInv, Types
    <2>3. InReach' /\ inflight' \in [Axes -> {-1, 0, 1}]
      BY <1>12, <2>1 DEF Homed, InSession, Control, Still, TrustInv, InReach
    <2>4. ControlType'
      BY <1>12 DEF Homed, Completed, TrustInv, Types, ControlType, FlagType, Control, Down, Fresh,
         Producer, InSession, Released, Midway
    <2> QED BY <2>1, <2>2, <2>3, <2>4 DEF Types, MachineType
  <1>13. CASE HomeFails
    BY <1>13 DEF HomeFails, TrustInv, Types, MachineType, InReach, ControlType, FlagType, Control,
       Down, Fresh, Producer, InSession, Released, Midway, Still
  <1>14. CASE ManualHome
    <2>1. position' \in [Axes -> Int] /\ counter' \in [Axes -> Int]
      BY <1>14 DEF ManualHome, Completed, Still, TrustInv, Types, MachineType
    <2>2. anchor' \in Anchors
      BY <1>14 DEF ManualHome, Completed, TrustInv, Types
    <2>3. MachineType' /\ InReach'
      BY <1>14, <2>1 DEF ManualHome, TrustInv, Types, MachineType, InReach
    <2>4. marker' \in BOOLEAN
      BY <1>14 DEF ManualHome, Energized, TrustInv, Types, ControlType, FlagType
    <2>6. FlagType'
      BY <1>14, <2>4 DEF ManualHome, Energized, Completed, TrustInv, Types, ControlType,
         FlagType
    <2>5. ControlType'
      BY <1>14, <2>6 DEF ManualHome, Completed, TrustInv, Types, ControlType
    <2> QED BY <2>2, <2>3, <2>5 DEF Types
  <1>15. CASE release_cmd
    <2>1. MachineType' /\ InReach' /\ anchor' \in Anchors
      BY <1>15 DEF release_cmd, TrustInv, Types, MachineType, InReach
    <2>2. FlagType'
      BY <1>15 DEF release_cmd, TrustInv, Types, ControlType, FlagType
    <2>3. ControlType'
      BY <1>15, <2>2 DEF release_cmd, TrustInv, Types, ControlType
    <2> QED BY <2>1, <2>3 DEF Types
  <1>16. CASE Marked
    <2>1. anchor' \in Anchors
      BY <1>16, ReleasedAnchor DEF Marked, TrustInv, Types
    <2>2. marker' \in BOOLEAN /\ unmarked' \in BOOLEAN
      BY <1>16 DEF Marked
    <2> QED BY <1>16, <2>1, <2>2 DEF Marked, gfhome_invalidate_xy, TrustInv, Types,
       MachineType, ControlType, FlagType, Control, Down, Fresh, Producer, InSession, Released, Midway,
       InReach
  <1>17. CASE AnchorWritten
    <2>1. anchor' \in Anchors
      BY <1>17, AnchorForms DEF AnchorWritten, HomeAnchored, TrustInv, Types, MachineType
    <2> QED BY <1>17, <2>1 DEF AnchorWritten, TrustInv, Types, MachineType, ControlType, FlagType,
       InReach
  <1>18. CASE energize_cmd
    BY <1>18 DEF energize_cmd, Energized, TrustInv, Types, MachineType, InReach, ControlType, FlagType,
       Control, Down, Fresh, Producer, InSession, Released, Midway, Still
  <1>19. CASE Unlock
    BY <1>19 DEF Unlock, TrustInv, Types, MachineType, InReach, ControlType, FlagType, Control,
       Down, Fresh, Producer, InSession, Released, Midway, Still
  <1>20. CASE HandMoves
    BY <1>20 DEF HandMoves, TrustInv, Types, MachineType, InReach, ControlType, FlagType, Control,
       Down, Fresh, Producer, InSession, Released, Midway, Still
  <1>21. CASE tray_set
    <2>1. anchor' \in Anchors
      BY <1>21 DEF tray_set, AnchorShifted, Anchors, TrustInv, Types
    <2>2. position' \in [Axes -> Int]
      BY <1>21 DEF tray_set, TrustInv, Types, MachineType
    <2> QED BY <1>21, <2>1, <2>2 DEF tray_set, TrustInv, Types, MachineType, ControlType, FlagType,
       Control, Down, Fresh, Producer, InSession, Released, Midway, InReach
  <1>22. CASE ResetInMotion
    <2>1. PICK S \in SUBSET Axes :
              /\ RampPlays(S)
              /\ PositionLost \/ (position' = ReadBack(S) /\ UNCHANGED <<anchor, homed,
                 z_referenced>>)
      BY <1>22 DEF ResetInMotion
    <2>2. /\ phys' \in [Axes -> Places] /\ counter' \in [Axes -> Int]
          /\ inflight' \in [Axes -> {-1, 0, 1}] /\ InReach'
      BY <2>1, RampForm DEF TrustInv, Types
    <2>3. ReadBack(S) \in [Axes -> Int]
      BY DEF ReadBack, Less, On, TrustInv, Types, MachineType
    <2>4. anchor' \in Anchors /\ position' \in [Axes -> Int]
      BY <2>1, <2>3, AnchorForms DEF PositionLost, gfhome_invalidate, TrustInv, Types,
         MachineType
    <2>6. FlagType'
      BY <1>22, <2>1 DEF ResetInMotion, BetweenCommands, PositionLost, gfhome_invalidate,
         TrustInv, Types, ControlType, FlagType
    <2>5. ControlType'
      BY <1>22, <2>6 DEF ResetInMotion, TrustInv, Types, ControlType
    <2> QED BY <2>2, <2>4, <2>5 DEF Types, MachineType
  <1>23. CASE ResetAtRest
    <2>1. MachineType' /\ InReach' /\ anchor' \in Anchors
      BY <1>23 DEF ResetAtRest, TrustInv, Types, MachineType, InReach
    <2>2. FlagType'
      BY <1>23 DEF ResetAtRest, BetweenCommands, TrustInv, Types, ControlType, FlagType
    <2>3. ControlType'
      BY <1>23, <2>2 DEF ResetAtRest, TrustInv, Types, ControlType
    <2> QED BY <2>1, <2>3 DEF Types
  <1>24. CASE Crash
    <2>1. PICK S \in SUBSET Axes : RampPlays(S)
      BY <1>24 DEF Crash
    <2>2. /\ phys' \in [Axes -> Places] /\ counter' \in [Axes -> Int]
          /\ inflight' \in [Axes -> {-1, 0, 1}] /\ InReach'
      BY <2>1, RampForm DEF TrustInv, Types
    <2>3. position' \in [Axes -> Int] /\ anchor' \in Anchors
      BY <1>24 DEF Crash, Still, TrustInv, Types
    <2>4. ControlType'
      BY <1>24 DEF Crash, TrustInv, Types, ControlType, FlagType, Control, Down, Fresh, Producer,
         InSession, Released, Midway
    <2> QED BY <2>2, <2>3, <2>4 DEF Types, MachineType
  <1>25. CASE Start
    <2>1. inflight = Still /\ phys' \in [Axes -> Places]
      BY <1>25 DEF Start, TrustInv, Control, Down, Fresh
    <2>2. MachineType' /\ InReach'
      BY <1>25, <2>1 DEF Start, Still, TrustInv, Types, MachineType, InReach
    <2>3. ControlType' /\ anchor' \in Anchors
      BY <1>25, AnchorForms DEF Start, Adopted, gfhome_invalidate, TrustInv, Types,
         ControlType, FlagType, Control, Down, Fresh, Producer, InSession, Released, Midway
    <2> QED BY <2>2, <2>3 DEF Types
  <1>26. CASE UNCHANGED vars
    BY <1>26 DEF vars, TrustInv, Types, MachineType, InReach, ControlType, FlagType, Control,
       Down, Fresh, Producer, InSession, Released, Midway, Still
  <1> QED
    BY <1>1, <1>2, <1>3, <1>4, <1>5, <1>6, <1>7, <1>8, <1>9, <1>10, <1>11, <1>12, <1>13,
       <1>14, <1>15, <1>16, <1>17, <1>18, <1>19, <1>20, <1>21, <1>22, <1>23, <1>24,
       <1>25, <1>26 DEF Next

\* Where the producer, the session, the release and the first hook stand.
LEMMA ControlStep == ASSUME TrustInv, [Next]_vars PROVE Control'
  <1>1. CASE Line
    BY <1>1 DEF Line, Idle, TrustInv, Types, ControlType, FlagType, Control, Down, Fresh,
       Producer, InSession, Released, Midway, AnchorWithin, ControllerKnows
  <1>2. CASE \E a \in Axes, d \in {-1, 1} : Step(a, d)
    BY <1>2 DEF Step, TrustInv, Types, ControlType, FlagType, Control, Down, Fresh, Producer,
       InSession, Released, Midway, AnchorWithin, ControllerKnows, MachineType, Still
  <1>3. CASE \E a \in Axes : Played(a)
    BY <1>3 DEF Played, TrustInv, Types, ControlType, FlagType, Control, Down, Fresh, Producer,
       InSession, Released, Midway, AnchorWithin, ControllerKnows, MachineType, Still
  <1>4. CASE CycleEnds
    BY <1>4 DEF CycleEnds, TrustInv, Types, ControlType, FlagType, Control, Down, Fresh, Producer,
       InSession, Released, Midway, AnchorWithin, ControllerKnows
  <1>5. CASE StreamFault
    <2>1. pc = "anchor" => counter' = Still
      BY <1>5 DEF StreamFault, TrustInv, Control, Midway, Sum, On, Still
    <2>2. Midway'
      BY <1>5, <2>1 DEF StreamFault, TrustInv, Control, Midway
    <2> QED BY <1>5, <2>2 DEF StreamFault, TrustInv, Types, MachineType, ControlType, FlagType,
       Control, Down, Fresh, Producer, InSession, Released, AnchorWithin, ControllerKnows,
       Still
  <1>6. CASE Hook
    <2>1. Down' /\ Producer'
      BY <1>6 DEF Hook, gfhome_invalidate, LensDue, ReleasePoll, TrustInv, Types,
         ControlType, FlagType,
         Control, Down, Producer
    <2>2. Fresh'
      BY <1>6, AnchorForms DEF Hook, gfhome_invalidate, LensDue, TrustInv, Types,
         ControlType, FlagType, Control, Down, Fresh
    <2>3. InSession'
      BY <1>6 DEF Hook, gfhome_invalidate, LensDue, TrustInv, Types, ControlType, FlagType, Control,
         Fresh, InSession
    <2>4. Released'
      BY <1>6 DEF Hook, gfhome_invalidate, ReleasePoll, TrustInv, Types, ControlType, FlagType,
         Control, Down, Fresh, InSession, Released, Midway
    <2>5. EdgeFrame \in [Axes -> Int]
      BY FrameForm DEF EdgeFrame, TrustInv, Types, MachineType
    <2>6. AnchorWithin'
      BY <1>6, <2>5, AnchorForms DEF Hook, gfhome_invalidate, TrustInv, Types, ControlType, FlagType,
         Control,
         AnchorWithin, ControllerKnows
    <2>7. Midway'
      BY <1>6 DEF Hook, TrustInv, Types, ControlType, FlagType, Control, Midway
    <2> QED BY <2>1, <2>2, <2>3, <2>4, <2>6, <2>7 DEF Control
  <1>7. CASE NoLine
    BY <1>7 DEF NoLine, TrustInv, Types, ControlType, FlagType, Control, Down, Fresh, Producer,
       InSession, Released, Midway, AnchorWithin, ControllerKnows
  <1>8. CASE HomeBegins
    BY <1>8, AnchorForms DEF HomeBegins, CommandAllowed, RunnerAllowed, gfhome_invalidate,
       TrustInv, Types, ControlType, FlagType, Control, Down, Fresh, Producer, InSession,
       Released, Midway, AnchorWithin, ControllerKnows
  <1>9. CASE HomeGivesUp
    BY <1>9 DEF HomeGivesUp, TrustInv, Types, ControlType, FlagType, Control, Down, Fresh,
       Producer, InSession, Released, Midway, AnchorWithin, ControllerKnows
  <1>10. CASE HandedOver
    BY <1>10 DEF HandedOver, KernelIdle, TrustInv, Types, ControlType, FlagType, Control, Down,
       Fresh, Producer, InSession, Released, Midway, AnchorWithin, ControllerKnows
  <1>11. CASE RunnerMoves
    BY <1>11 DEF RunnerMoves, TrustInv, Types, ControlType, FlagType, Control, Down, Fresh,
       Producer, InSession, Released, Midway, AnchorWithin, ControllerKnows
  <1>12. CASE Homed
    BY <1>12 DEF Homed, Completed, TrustInv, Types, ControlType, FlagType, Control, Down, Fresh,
       Producer, InSession, Released, Midway, AnchorWithin, ControllerKnows
  <1>13. CASE HomeFails
    BY <1>13 DEF HomeFails, TrustInv, Types, ControlType, FlagType, Control, Down, Fresh,
       Producer, InSession, Released, Midway, AnchorWithin, ControllerKnows
  <1>14. CASE ManualHome
    BY <1>14 DEF ManualHome, Energized, Completed, CommandAllowed, KernelIdle, TrustInv,
       Types, ControlType, FlagType, Control, Down, Fresh, Producer, InSession, Released, Midway,
       AnchorWithin, ControllerKnows
  <1>15. CASE release_cmd
    BY <1>15 DEF release_cmd, CommandAllowed, KernelIdle, TrustInv, Types, ControlType, FlagType,
       Control, Down, Fresh, Producer, InSession, Released, Midway, AnchorWithin,
       ControllerKnows
  <1>16. CASE Marked
    <2>1. anchor'.axes \subseteq {"z"} \cap anchor.axes
      BY <1>16, ReleasedAnchor DEF Marked, TrustInv, Types
    <2>2. free' => marker' \/ unmarked' \/ pc' = "freed"
      BY <1>16 DEF Marked
    <2> QED BY <1>16, <2>1, <2>2 DEF Marked, gfhome_invalidate_xy, TrustInv, Types,
       ControlType, FlagType, Control, Down, Fresh, Producer, InSession, Released, Midway,
       AnchorWithin, ControllerKnows
  <1>17. CASE AnchorWritten
    <2>1. anchor'.axes = HomeAnchored
      BY <1>17, AnchorForms DEF AnchorWritten, HomeAnchored, TrustInv, Types, MachineType
    <2> QED BY <1>17, <2>1 DEF AnchorWritten, HomeAnchored, TrustInv, Types, ControlType, FlagType,
       Control, Down, Fresh, Producer, InSession, Released, Midway, AnchorWithin,
       ControllerKnows
  <1>18. CASE energize_cmd
    BY <1>18 DEF energize_cmd, Energized, TrustInv, Types, ControlType, FlagType, Control, Down, Fresh,
       Producer, InSession, Released, Midway, AnchorWithin, ControllerKnows
  <1>19. CASE Unlock
    BY <1>19 DEF Unlock, UnlockAllowed, TrustInv, Types, ControlType, FlagType, Control, Down,
       Fresh, Producer, InSession, Released, Midway, AnchorWithin, ControllerKnows
  <1>20. CASE HandMoves
    BY <1>20 DEF HandMoves, TrustInv, Types, ControlType, FlagType, Control, Down, Fresh, Producer,
       InSession, Released, Midway, AnchorWithin, ControllerKnows, MachineType
  <1>21. CASE tray_set
    <2>1. anchor'.axes = anchor.axes
      BY <1>21 DEF tray_set, AnchorShifted, Anchors, TrustInv, Types
    <2> QED BY <1>21, <2>1 DEF tray_set, Idle, KernelIdle, TrustInv, Types, ControlType, FlagType,
       Control, Down, Fresh, Producer, InSession, Released, Midway, AnchorWithin, ControllerKnows
  <1>22. CASE ResetInMotion
    BY <1>22, AnchorForms DEF ResetInMotion, BetweenCommands, Motion, RampPlays, PositionLost,
       gfhome_invalidate, TrustInv, Types, ControlType, FlagType, Control, Down, Fresh, Producer,
       InSession, Released, Midway, AnchorWithin, ControllerKnows
  <1>23. CASE ResetAtRest
    BY <1>23 DEF ResetAtRest, BetweenCommands, Motion, TrustInv, Types, ControlType, FlagType, Control, Down,
       Fresh, Producer, InSession, Released, Midway, AnchorWithin, ControllerKnows
  <1>24. CASE Crash
    BY <1>24 DEF Crash, RampPlays, TrustInv, Types, ControlType, FlagType, Control, Down, Fresh,
       Producer, InSession, Released, Midway, AnchorWithin, ControllerKnows
  <1>25. CASE Start
    BY <1>25, AnchorForms DEF Start, Adopted, gfhome_invalidate, TrustInv, Types,
       ControlType, FlagType, Control, Down, Fresh, Producer, InSession, Released, Midway, AnchorWithin,
       ControllerKnows
  <1>26. CASE UNCHANGED vars
    BY <1>26 DEF vars, TrustInv, Types, ControlType, FlagType, Control, Down, Fresh, Producer,
       InSession, Released, Midway, AnchorWithin, ControllerKnows
  <1> QED
    BY <1>1, <1>2, <1>3, <1>4, <1>5, <1>6, <1>7, <1>8, <1>9, <1>10, <1>11, <1>12, <1>13,
       <1>14, <1>15, <1>16, <1>17, <1>18, <1>19, <1>20, <1>21, <1>22, <1>23, <1>24,
       <1>25, <1>26 DEF Next

\* The controller's coordinates stay right.
LEMMA CoordinatesStep == ASSUME TrustInv, [Next]_vars PROVE CoordinatesRight'
  <1>1. CASE Line
    BY <1>1 DEF Line, Idle, TrustInv, Types, MachineType, ControlType, FlagType, Control, Fresh,
       Producer, InSession, Released, Midway, CoordinatesRight, Right, Frame, Still
  <1>2. CASE \E a \in Axes, d \in {-1, 1} : Step(a, d)
    BY <1>2 DEF Step, TrustInv, Types, MachineType, ControlType, FlagType, Control, Fresh,
       Producer, InSession, Released, Midway, CoordinatesRight, Right, Frame, Still
  <1>3. CASE \E a \in Axes : Played(a)
    BY <1>3 DEF Played, TrustInv, Types, MachineType, ControlType, FlagType, Control, Fresh,
       Producer, InSession, Released, Midway, CoordinatesRight, Right, Frame, Still
  <1>4. CASE CycleEnds
    BY <1>4 DEF CycleEnds, TrustInv, Types, MachineType, ControlType, FlagType, Control, Fresh,
       Producer, InSession, Released, Midway, CoordinatesRight, Right, Frame, Still
  <1>5. CASE StreamFault
    BY <1>5 DEF StreamFault, TrustInv, Types, MachineType, ControlType, FlagType, Control, Fresh,
       Producer, InSession, Released, Midway, CoordinatesRight, Right, Frame, Still
  <1>6. CASE Hook
    BY <1>6 DEF Hook, LensDue, EdgeFrame, ReleasePoll, gfhome_invalidate, TrustInv,
       Types, MachineType, ControlType, FlagType, Control, Fresh, Producer, InSession, Released, Midway,
       CoordinatesRight, Right, Frame, Still
  <1>7. CASE NoLine
    BY <1>7 DEF NoLine, TrustInv, Types, MachineType, ControlType, FlagType, Control, Fresh,
       Producer, InSession, Released, Midway, CoordinatesRight, Right, Frame, Still
  <1>8. CASE HomeBegins
    BY <1>8 DEF HomeBegins, gfhome_invalidate, TrustInv, Types, MachineType,
       ControlType, FlagType, Control, Fresh, Producer, InSession, Released, Midway, CoordinatesRight,
       Right, Frame, Still
  <1>9. CASE HomeGivesUp
    BY <1>9 DEF HomeGivesUp, TrustInv, Types, MachineType, ControlType, FlagType, Control, Fresh,
       Producer, InSession, Released, Midway, CoordinatesRight, Right, Frame, Still
  <1>10. CASE HandedOver
    BY <1>10 DEF HandedOver, TrustInv, Types, MachineType, ControlType, FlagType, Control, Fresh,
       Producer, InSession, Released, Midway, CoordinatesRight, Right, Frame, Still
  <1>11. CASE RunnerMoves
    BY <1>11 DEF RunnerMoves, TrustInv, Types, MachineType, ControlType, FlagType, Control, Fresh,
       Producer, InSession, Released, Midway, CoordinatesRight, Right, Frame, Still
  <1>12. CASE Homed
    BY <1>12 DEF Homed, Completed, Sum, TrustInv, Types, MachineType, ControlType, FlagType,
       Control, Fresh, Producer, InSession, Released, Midway, CoordinatesRight, Right, Frame,
       Still
  <1>13. CASE HomeFails
    BY <1>13 DEF HomeFails, TrustInv, Types, MachineType, ControlType, FlagType, Control, Fresh,
       Producer, InSession, Released, Midway, CoordinatesRight, Right, Frame, Still
  <1>14. CASE ManualHome
    BY <1>14 DEF ManualHome, Energized, CommandAllowed, KernelIdle, Completed, TrustInv,
       Types, MachineType, ControlType, FlagType, Control, Fresh, Producer, InSession, Released, Midway,
       CoordinatesRight, Right, Frame, Still
  <1>15. CASE release_cmd
    BY <1>15 DEF release_cmd, CommandAllowed, KernelIdle, TrustInv, Types, MachineType,
       ControlType, FlagType, Control, Fresh, Producer, InSession, Released, Midway,
       CoordinatesRight, Right, Frame, Still
  <1>16. CASE Marked
    BY <1>16 DEF Marked, gfhome_invalidate_xy, TrustInv, Types, MachineType, ControlType, FlagType,
       CoordinatesRight, Right, Frame
  <1>17. CASE AnchorWritten
    BY <1>17 DEF AnchorWritten, TrustInv, CoordinatesRight, Right, Frame
  <1>18. CASE energize_cmd
    BY <1>18 DEF energize_cmd, TrustInv, Types, MachineType, ControlType, FlagType, Control,
       Fresh, Producer, InSession, Released, Midway, CoordinatesRight, Right, Frame, Still
  <1>19. CASE Unlock
    BY <1>19 DEF Unlock, TrustInv, Types, MachineType, ControlType, FlagType, Control, Fresh,
       Producer, InSession, Released, Midway, CoordinatesRight, Right, Frame, Still
  <1>20. CASE HandMoves
    BY <1>20 DEF HandMoves, TrustInv, Types, MachineType, ControlType, FlagType, Control, Fresh,
       Producer, InSession, Released, Midway, CoordinatesRight, Right, Frame, Still
  <1>21. CASE tray_set
    BY <1>21 DEF tray_set, Idle, KernelIdle, TrustInv, Types, MachineType, ControlType, FlagType,
       Control, Fresh, Producer, InSession, Released, Midway, CoordinatesRight, Right, Frame,
       Still
  <1>22. CASE ResetInMotion
    BY <1>22 DEF ResetInMotion, BetweenCommands, Motion, RampPlays, PositionLost, ReadBack, Sum, Less,
       On, gfhome_invalidate, TrustInv, Types, MachineType, ControlType, FlagType, Control, Fresh,
       Producer, InSession, Released, Midway, CoordinatesRight, Right, Frame, Still
  <1>23. CASE ResetAtRest
    BY <1>23 DEF ResetAtRest, BetweenCommands, TrustInv, Types, MachineType, ControlType, FlagType,
       Control, Fresh, Producer, InSession, Released, Midway, CoordinatesRight, Right, Frame, Still
  <1>24. CASE Crash
    BY <1>24 DEF Crash, TrustInv, Types, MachineType, ControlType, FlagType, Control, Fresh,
       Producer, InSession, Released, Midway, CoordinatesRight, Right, Frame, Still
  <1>25. CASE Start
    BY <1>25 DEF Start, Adopted, gfhome_invalidate, TrustInv, Types, MachineType,
       ControlType, FlagType, Control, Fresh, Producer, InSession, Released, Midway, CoordinatesRight,
       Right, Frame, Still
  <1>26. CASE UNCHANGED vars
    BY <1>26 DEF vars, TrustInv, Types, MachineType, ControlType, FlagType, Control, Fresh,
       Producer, InSession, Released, Midway, CoordinatesRight, Right, Frame, Still
  <1> QED
    BY <1>1, <1>2, <1>3, <1>4, <1>5, <1>6, <1>7, <1>8, <1>9, <1>10, <1>11, <1>12, <1>13,
       <1>14, <1>15, <1>16, <1>17, <1>18, <1>19, <1>20, <1>21, <1>22, <1>23, <1>24,
       <1>25, <1>26 DEF Next

\* The anchor stays right.
LEMMA AnchorStep == ASSUME TrustInv, [Next]_vars PROVE AnchorRight'
  <1>1. CASE Line
    BY <1>1, AnchorKept DEF Line, Idle, TrustInv, Control, Midway
  <1>2. CASE \E a \in Axes, d \in {-1, 1} : Step(a, d)
    BY <1>2, AnchorKept DEF Step, TrustInv, Control, Midway
  <1>3. CASE \E a \in Axes : Played(a)
    <2>1. PICK a \in Axes : Played(a)
      BY <1>3
    <2> SUFFICES ASSUME ~fault, NEW b \in AnchorOffers PROVE Anchored(b)'
      BY <2>1 DEF AnchorRight, AnchorOffers, Loose, Played
    <2>2. b \in Axes /\ Anchored(b)
      BY DEF TrustInv, Types, Anchors, AnchorRight, AnchorOffers
    <2>3. /\ counter'[b] = IF b = a THEN counter[b] + inflight[b] ELSE counter[b]
          /\ phys'[b] = IF b = a THEN phys[b] + inflight[b] ELSE phys[b]
          /\ anchor' = anchor /\ Frame' = Frame
      BY <2>1, <2>2 DEF Played, TrustInv, Types, MachineType, Frame
    <2>4. /\ anchor.at[b] \in Int /\ counter[b] \in Int /\ phys[b] \in Int
          /\ inflight[b] \in Int /\ Frame[b] \in Int
      BY <2>2, FrameForm DEF TrustInv, Types, MachineType, Anchors
    <2> QED BY <2>2, <2>3, <2>4 DEF Anchored
  <1>4. CASE CycleEnds
    BY <1>4, AnchorKept DEF CycleEnds, TrustInv, Control, Midway
  <1>5. CASE StreamFault
    BY <1>5 DEF StreamFault, AnchorRight
  <1>6. CASE Hook
    <2>1. EdgeFrame \in [Axes -> Int] /\ EdgeFrame["z"] = Edge + Frame["z"] /\ Frame' =
       Frame
      BY <1>6, FrameForm DEF EdgeFrame, Frame, Hook, TrustInv, Types, MachineType
    <2>2. CASE fault
      BY <1>6, <2>2, UnanchoredRight DEF Hook, gfhome_invalidate
    <2>3. CASE ~fault /\ LensDue
      <3>1. /\ phys["z"] = Edge /\ anchor' = Anchor({"z"}, EdgeFrame)
            /\ counter' = Still /\ phys' = phys
        BY <1>6, <2>3 DEF Hook, LensDue, TrustInv, Control, Fresh
      <3>2. anchor'.axes = {"z"} /\ anchor'.at["z"] = Edge + Frame["z"]
        BY <2>1, <3>1, AnchorForms
      <3> QED BY <2>1, <3>1, <3>2, FrameForm DEF AnchorRight, AnchorOffers, Anchored, Still
    <2>4. CASE ~fault /\ ~LensDue
      BY <1>6, <2>1, <2>4 DEF Hook, AnchorRight, AnchorOffers, Loose, Anchored, TrustInv,
         Control, Midway
    <2> QED BY <2>2, <2>3, <2>4
  <1>7. CASE NoLine
    BY <1>7, AnchorKept DEF NoLine, TrustInv, Control, Midway
  <1>8. CASE HomeBegins
    BY <1>8, UnanchoredRight DEF HomeBegins, gfhome_invalidate
  <1>9. CASE HomeGivesUp
    BY <1>9, AnchorKept DEF HomeGivesUp, TrustInv, Control, Midway
  <1>10. CASE HandedOver
    BY <1>10, AnchorKept DEF HandedOver, TrustInv, Control, Midway
  <1>11. CASE RunnerMoves
    <2>1. anchor.axes = {} /\ anchor' = anchor /\ up
      BY <1>11 DEF RunnerMoves, TrustInv, Types, Anchors, Control, InSession, AnchorWithin,
         ControllerKnows
    <2> QED BY <1>11, <2>1 DEF RunnerMoves, AnchorRight, AnchorOffers
  <1>12. CASE Homed
    BY <1>12 DEF Homed, Completed, AnchorRight, AnchorOffers
  <1>13. CASE HomeFails
    BY <1>13, AnchorKept DEF HomeFails, TrustInv, Control, Midway
  <1>14. CASE ManualHome
    BY <1>14 DEF ManualHome, Completed, AnchorRight, AnchorOffers
  <1>15. CASE release_cmd
    BY <1>15 DEF release_cmd, CommandAllowed, AnchorRight, AnchorOffers, Loose, Anchored,
       Frame, TrustInv
  <1>16. CASE Marked
    <2>1. /\ anchor'.axes \subseteq {"z"} \cap anchor.axes
          /\ "z" \in anchor'.axes => anchor'.at["z"] = anchor.at["z"]
      BY <1>16, ReleasedAnchor DEF Marked, TrustInv, Types
    <2> QED BY <1>16, <2>1 DEF Marked, AnchorRight, AnchorOffers, Loose, Anchored, Frame,
               TrustInv
  <1>17. CASE AnchorWritten
    <2>1. /\ anchor'.axes = HomeAnchored
          /\ \A a \in HomeAnchored : anchor'.at[a] = position[a]
      <3>1. HomeAnchored \in SUBSET Axes
        BY DEF HomeAnchored
      <3> QED BY <1>17, <3>1, AnchorForms DEF AnchorWritten, TrustInv, Types, MachineType
    <2>2. /\ Frame' = Frame /\ counter = Still /\ inflight = Still /\ homed
          /\ pc # "freed" /\ UNCHANGED <<phys, counter, fault>>
      BY <1>17 DEF AnchorWritten, Frame, TrustInv, Control, Midway
    <2>3. ~fault => \A a \in HomeAnchored : position[a] = phys[a] + Frame[a]
      BY <2>2, FrameForm DEF TrustInv, Types, MachineType, CoordinatesRight, Right, Still,
         HomeAnchored
    <2>4. \A a \in HomeAnchored : counter'[a] = 0 /\ position[a] \in Int
      BY <2>2 DEF Still, HomeAnchored, TrustInv, Types, MachineType
    <2>5. AnchorOffers' \subseteq HomeAnchored
      BY <2>1 DEF AnchorOffers
    <2> QED BY <2>1, <2>2, <2>3, <2>4, <2>5 DEF AnchorRight, Anchored
  <1>18. CASE energize_cmd
    BY <1>18, AnchorKept DEF energize_cmd, TrustInv, Control, Midway
  <1>19. CASE Unlock
    BY <1>19, AnchorKept DEF Unlock, TrustInv, Control, Midway
  <1>20. CASE HandMoves
    <2>1. AnchorOffers \subseteq {"z"}
      BY <1>20 DEF HandMoves, AnchorOffers, Loose, TrustInv, Control, Released, AnchorWithin,
         ControllerKnows
    <2>2. /\ phys'["z"] = phys["z"] /\ UNCHANGED <<anchor, counter, fault>>
          /\ Frame' = Frame /\ AnchorOffers' = AnchorOffers
      BY <1>20 DEF HandMoves, Frame, AnchorOffers, Loose, TrustInv, Types, MachineType
    <2> QED BY <2>1, <2>2 DEF AnchorRight, Anchored, TrustInv
  <1>21. CASE tray_set
    <2> DEFINE delta == IF out THEN -Shift ELSE Shift
    <2>1. delta \in Int /\ Frame["xy"] = Frame'["xy"] /\ Frame'["z"] = Frame["z"] + delta
      <3>1. out \in BOOLEAN /\ out' = ~out
        BY <1>21 DEF tray_set, TrustInv, Types, ControlType, FlagType
      <3>2. /\ Frame["xy"] = 0 /\ Frame'["xy"] = 0
            /\ Frame["z"] = (IF out THEN Shift ELSE 0)
            /\ Frame'["z"] = (IF out THEN 0 ELSE Shift)
        BY <3>1 DEF Frame
      <3> QED BY <3>1, <3>2
    <2>2. /\ anchor \in Anchors /\ anchor' = AnchorShifted(delta)
          /\ UNCHANGED <<counter, phys, up, fault>>
      BY <1>21 DEF tray_set, TrustInv, Types
    <2> HIDE DEF delta
    <2>3. anchor.axes \subseteq Axes /\ anchor.at \in [Axes -> Int]
      BY <2>2 DEF Anchors
    <2>4. anchor'.axes = anchor.axes /\ anchor'.at["xy"] = anchor.at["xy"]
      BY <2>2 DEF AnchorShifted, Anchors
    <2>5. "z" \in anchor.axes => anchor'.at["z"] = anchor.at["z"] + delta
      BY <2>2 DEF AnchorShifted, Anchors
    <2> SUFFICES ASSUME ~fault, NEW a \in AnchorOffers PROVE Anchored(a)'
      BY <1>21, <2>2, <2>4 DEF AnchorRight, AnchorOffers, Loose, tray_set, Idle
    <2>9. a \in anchor.axes
      BY DEF AnchorOffers
    <2>6. /\ Anchored(a) /\ anchor.at[a] \in Int /\ counter[a] \in Int /\ phys[a] \in Int
          /\ Frame[a] \in Int
      BY <2>3, <2>9, FrameForm DEF AnchorRight, TrustInv, Types, MachineType
    <2>7. CASE a = "xy"
      BY <2>1, <2>2, <2>4, <2>6, <2>7 DEF Anchored
    <2>8. CASE a = "z"
      BY <2>1, <2>2, <2>5, <2>6, <2>8, <2>9 DEF Anchored
    <2> QED BY <2>3, <2>7, <2>8, <2>9
  <1>22. CASE ResetInMotion
    <2>1. PICK S \in SUBSET Axes : RampPlays(S) /\ (PositionLost \/ anchor' = anchor)
      BY <1>22 DEF ResetInMotion
    <2>2. CASE PositionLost
      BY <2>2, UnanchoredRight DEF PositionLost, gfhome_invalidate
    <2>3. CASE anchor' = anchor
      <3> SUFFICES ASSUME ~fault, NEW b \in AnchorOffers PROVE Anchored(b)'
        BY <1>22, <2>3 DEF AnchorRight, AnchorOffers, Loose, ResetInMotion, BetweenCommands
      <3>1. b \in Axes /\ Anchored(b)
        BY DEF TrustInv, Types, Anchors, AnchorRight, AnchorOffers
      <3>2. /\ phys' \in [Axes -> Places] /\ counter' \in [Axes -> Int]
            /\ phys'[b] - phys[b] = counter'[b] - counter[b] /\ Frame' = Frame
        BY <1>22, <2>1, <3>1, RampForm DEF ResetInMotion, Frame, TrustInv, Types
      <3>3. /\ anchor.at[b] \in Int /\ counter[b] \in Int /\ phys[b] \in Int
            /\ counter'[b] \in Int /\ phys'[b] \in Int /\ Frame[b] \in Int
        BY <3>1, <3>2, FrameForm DEF TrustInv, Types, MachineType, Anchors
      <3>4. anchor'.at[b] = anchor.at[b] /\ Frame'[b] = Frame[b]
        BY <2>3, <3>2
      <3> QED BY <3>1, <3>2, <3>3, <3>4 DEF Anchored
    <2> QED BY <2>1, <2>2, <2>3
  <1>23. CASE ResetAtRest
    BY <1>23, AnchorKept DEF ResetAtRest, BetweenCommands, TrustInv, Control, Midway
  <1>24. CASE Crash
    BY <1>24 DEF Crash, AnchorRight, AnchorOffers
  <1>25. CASE Start
    BY <1>25, UnanchoredRight DEF Start, gfhome_invalidate
  <1>26. CASE UNCHANGED vars
    BY <1>26 DEF vars, AnchorRight, AnchorOffers, Loose, Anchored, Frame, TrustInv
  <1> QED
    BY <1>1, <1>2, <1>3, <1>4, <1>5, <1>6, <1>7, <1>8, <1>9, <1>10, <1>11, <1>12, <1>13,
       <1>14, <1>15, <1>16, <1>17, <1>18, <1>19, <1>20, <1>21, <1>22, <1>23, <1>24,
       <1>25, <1>26 DEF Next

\* A machine before its first controller.
LEMMA TrustInit == ASSUME Init PROVE TrustInv
  <1>1. MachineType /\ InReach /\ anchor \in Anchors
    BY AnchorForms DEF Init, MachineType, InReach, Still
  <1>2. Control
    BY AnchorForms DEF Init, Control, Down, Fresh, Producer, InSession, Released, Midway,
       AnchorWithin
  <1>3. ControlType
    BY DEF Init, ControlType, FlagType
  <1> QED BY <1>1, <1>2, <1>3 DEF Init, Types, TrustInv, CoordinatesRight, AnchorRight,
          AnchorOffers

\* The invariant the other theorems rest on: the coordinates and the anchor are
\* right because of where the producer, the session, the release and the first
\* hook stand (driver.c, glowforge_homing.c, glowforge_release.c).
THEOREM TrustInvariant == Spec => []TrustInv
  <1>1. ASSUME TrustInv, [Next]_vars PROVE TrustInv'
    BY <1>1, TypesStep, ControlStep, CoordinatesStep, AnchorStep DEF TrustInv
  <1> QED BY <1>1, TrustInit, PTL DEF Spec

\* Every variable has its type; the flag and the currents of a release agree
\* while a controller is up (gfrelease_adopt), with the marker beside them unless
\* it could not be written, and the anchor carries no axis the controller does
\* not call known.
THEOREM TypeCorrect == Spec => []TypeOK
  <1>1. ASSUME TrustInv PROVE TypeOK
    BY <1>1 DEF TrustInv, Types, MachineType, ControlType, FlagType, Anchors, Control, Released,
       AnchorWithin, TypeOK
  <1> QED BY <1>1, TrustInvariant, PTL

-----------------------------------------------------------------------------
(* The refinements of Datum.                                               *)

\* X and Y are offered outside a release.
OffersXY == homed /\ pc # "freed"

\* What each step does to what the controller offers: it leaves the notice and
\* adds or takes away, raises the notice alone, or answers it with nothing.
LEMMA ControllerMoves ==
    ASSUME TrustInv, [Next]_vars
    PROVE  \/ fault' = fault /\ (OffersXY => OffersXY') /\ (z_referenced => z_referenced')
           \/ fault' = fault /\ (OffersXY' => OffersXY) /\ (z_referenced' => z_referenced)
           \/ ~fault /\ fault' /\ (OffersXY' <=> OffersXY) /\ z_referenced' = z_referenced
           \/ fault /\ ~fault' /\ ~OffersXY' /\ ~z_referenced'
  <1>1. CASE Line
    BY <1>1 DEF Line, Idle, OffersXY
  <1>2. CASE \E a \in Axes, d \in {-1, 1} : Step(a, d)
    BY <1>2 DEF Step, OffersXY
  <1>3. CASE \E a \in Axes : Played(a)
    BY <1>3 DEF Played, OffersXY
  <1>4. CASE CycleEnds
    BY <1>4 DEF CycleEnds, OffersXY
  <1>5. CASE StreamFault
    BY <1>5 DEF StreamFault, TrustInv, Types, ControlType, FlagType, OffersXY
  <1>6. CASE Hook
    BY <1>6 DEF Hook, gfhome_invalidate, TrustInv, Types, ControlType, FlagType, Control, Midway, OffersXY
  <1>7. CASE NoLine
    BY <1>7 DEF NoLine, OffersXY
  <1>8. CASE HomeBegins
    BY <1>8 DEF HomeBegins, CommandAllowed, gfhome_invalidate, OffersXY
  <1>9. CASE HomeGivesUp
    BY <1>9 DEF HomeGivesUp, OffersXY
  <1>10. CASE HandedOver
    BY <1>10 DEF HandedOver, OffersXY
  <1>11. CASE RunnerMoves
    BY <1>11 DEF RunnerMoves, OffersXY
  <1>12. CASE Homed
    BY <1>12 DEF Homed, Completed, TrustInv, Control, Midway, OffersXY
  <1>13. CASE HomeFails
    BY <1>13 DEF HomeFails, OffersXY
  <1>14. CASE ManualHome
    BY <1>14 DEF ManualHome, Completed, CommandAllowed, OffersXY
  <1>15. CASE release_cmd
    BY <1>15 DEF release_cmd, CommandAllowed, OffersXY
  <1>16. CASE Marked
    BY <1>16 DEF Marked, gfhome_invalidate_xy, OffersXY
  <1>17. CASE AnchorWritten
    BY <1>17 DEF AnchorWritten, OffersXY
  <1>18. CASE energize_cmd
    BY <1>18 DEF energize_cmd, OffersXY
  <1>19. CASE Unlock
    BY <1>19 DEF Unlock, OffersXY
  <1>20. CASE HandMoves
    BY <1>20 DEF HandMoves, OffersXY
  <1>21. CASE tray_set
    BY <1>21 DEF tray_set, Idle, OffersXY
  <1>22. CASE ResetInMotion
    BY <1>22 DEF ResetInMotion, BetweenCommands, PositionLost, gfhome_invalidate, OffersXY
  <1>23. CASE ResetAtRest
    BY <1>23 DEF ResetAtRest, BetweenCommands, OffersXY
  <1>24. CASE Crash
    BY <1>24 DEF Crash, TrustInv, Types, ControlType, FlagType, OffersXY
  <1>25. CASE Start
    BY <1>25 DEF Start, TrustInv, Control, Midway, gfhome_invalidate, OffersXY
  <1>26. CASE UNCHANGED vars
    BY <1>26 DEF vars, OffersXY
  <1> QED
    BY <1>1, <1>2, <1>3, <1>4, <1>5, <1>6, <1>7, <1>8, <1>9, <1>10, <1>11, <1>12, <1>13,
       <1>14, <1>15, <1>16, <1>17, <1>18, <1>19, <1>20, <1>21, <1>22, <1>23, <1>24,
       <1>25, <1>26 DEF Next

\* The same for the axes the anchor offers.
LEMMA AnchorMoves ==
    ASSUME TrustInv, [Next]_vars
    PROVE  \/ fault' = fault /\ AnchorOffers \subseteq AnchorOffers'
           \/ fault' = fault /\ AnchorOffers' \subseteq AnchorOffers
           \/ ~fault /\ fault' /\ AnchorOffers' = AnchorOffers
           \/ fault /\ ~fault' /\ AnchorOffers' = {}
  <1> USE DEF AnchorOffers, Loose
  <1>1. CASE Line
    BY <1>1 DEF Line, Idle
  <1>2. CASE \E a \in Axes, d \in {-1, 1} : Step(a, d)
    BY <1>2 DEF Step
  <1>3. CASE \E a \in Axes : Played(a)
    BY <1>3 DEF Played
  <1>4. CASE CycleEnds
    BY <1>4 DEF CycleEnds
  <1>5. CASE StreamFault
    BY <1>5 DEF StreamFault, TrustInv, Types, ControlType, FlagType
  <1>6. CASE Hook
    <2>1. CASE fault
      BY <1>6, <2>1, AnchorForms DEF Hook, gfhome_invalidate
    <2>2. CASE ~fault /\ LensDue
      BY <1>6, <2>2 DEF Hook, LensDue, TrustInv, Types, ControlType, FlagType, Control, Fresh
    <2>3. CASE ~fault /\ ~LensDue
      BY <1>6, <2>3 DEF Hook, TrustInv, Types, ControlType, FlagType, Control, Midway
    <2> QED BY <2>1, <2>2, <2>3
  <1>7. CASE NoLine
    BY <1>7 DEF NoLine
  <1>8. CASE HomeBegins
    BY <1>8, AnchorForms DEF HomeBegins, gfhome_invalidate
  <1>9. CASE HomeGivesUp
    BY <1>9 DEF HomeGivesUp
  <1>10. CASE HandedOver
    BY <1>10 DEF HandedOver
  <1>11. CASE RunnerMoves
    BY <1>11 DEF RunnerMoves
  <1>12. CASE Homed
    BY <1>12 DEF Homed, Completed
  <1>13. CASE HomeFails
    BY <1>13 DEF HomeFails
  <1>14. CASE ManualHome
    BY <1>14 DEF ManualHome, Completed
  <1>15. CASE release_cmd
    BY <1>15 DEF release_cmd, CommandAllowed
  <1>16. CASE Marked
    <2>1. anchor'.axes = {"z"} \cap anchor.axes
      BY <1>16, ReleasedAnchor DEF Marked, TrustInv, Types
    <2> QED BY <1>16, <2>1 DEF Marked
  <1>17. CASE AnchorWritten
    BY <1>17 DEF AnchorWritten
  <1>18. CASE energize_cmd
    BY <1>18 DEF energize_cmd
  <1>19. CASE Unlock
    BY <1>19 DEF Unlock
  <1>20. CASE HandMoves
    BY <1>20 DEF HandMoves
  <1>21. CASE tray_set
    <2>1. anchor'.axes = anchor.axes
      BY <1>21 DEF tray_set, AnchorShifted, Anchors, TrustInv, Types
    <2> QED BY <1>21, <2>1 DEF tray_set, Idle
  <1>22. CASE ResetInMotion
    BY <1>22, AnchorForms DEF ResetInMotion, BetweenCommands, PositionLost,
       gfhome_invalidate
  <1>23. CASE ResetAtRest
    BY <1>23 DEF ResetAtRest, BetweenCommands
  <1>24. CASE Crash
    BY <1>24 DEF Crash, TrustInv, Types, ControlType, FlagType
  <1>25. CASE Start
    BY <1>25, AnchorForms DEF Start, gfhome_invalidate
  <1>26. CASE UNCHANGED vars
    BY <1>26 DEF vars
  <1> QED
    BY <1>1, <1>2, <1>3, <1>4, <1>5, <1>6, <1>7, <1>8, <1>9, <1>10, <1>11, <1>12, <1>13,
       <1>14, <1>15, <1>16, <1>17, <1>18, <1>19, <1>20, <1>21, <1>22, <1>23, <1>24,
       <1>25, <1>26 DEF Next

\* Every step is a step of Datum for the controller's coordinates.
LEMMA CoordinatesStepImplements ==
    ASSUME TrustInv, TrustInv', [Next]_vars
    PROVE  [C!Next]_<<ControllerOffers, ControllerWrong, fault>>
  <1>1. ControllerOffers' \in SUBSET Axes /\ ControllerWrong' \in SUBSET Axes
    BY DEF ControllerOffers, ControllerKnows, Loose, ControllerWrong
  <1>2. C!Kept
    BY DEF C!Kept, ControllerOffers, ControllerKnows, Loose, ControllerWrong, TrustInv, CoordinatesRight, Right
  <1>3. \/ fault' = fault /\ ControllerOffers \subseteq ControllerOffers'
        \/ fault' = fault /\ ControllerOffers' \subseteq ControllerOffers
        \/ ~fault /\ fault' /\ ControllerOffers' = ControllerOffers
        \/ fault /\ ~fault' /\ ControllerOffers' = {}
    BY ControllerMoves DEF ControllerOffers, ControllerKnows, Loose, OffersXY
  <1>4. CASE fault' = fault /\ ControllerOffers \subseteq ControllerOffers'
    <2>1. C!Establish(ControllerOffers')
      BY <1>1, <1>4 DEF C!Establish
    <2> QED BY <1>1, <1>2, <2>1 DEF C!Next
  <1>5. CASE fault' = fault /\ ControllerOffers' \subseteq ControllerOffers
    <2>1. ControllerOffers \ ControllerOffers' \in SUBSET Axes
      BY DEF ControllerOffers, ControllerKnows
    <2>2. C!Forget(ControllerOffers \ ControllerOffers')
      BY <1>1, <1>5 DEF C!Forget
    <2> QED BY <1>2, <2>1, <2>2 DEF C!Next
  <1>6. CASE ~fault /\ fault' /\ ControllerOffers' = ControllerOffers
    BY <1>1, <1>2, <1>6 DEF C!Next, C!Loss
  <1>7. CASE fault /\ ~fault' /\ ControllerOffers' = {}
    BY <1>1, <1>2, <1>7 DEF C!Next, C!Answer
  <1> QED BY <1>3, <1>4, <1>5, <1>6, <1>7

\* Every step is a step of Datum for the anchor.
LEMMA AnchorStepImplements ==
    ASSUME TrustInv, TrustInv', [Next]_vars
    PROVE  [A!Next]_<<AnchorOffers, AnchorWrong, fault>>
  <1>1. /\ AnchorOffers \in SUBSET Axes
        /\ AnchorOffers' \in SUBSET Axes /\ AnchorWrong' \in SUBSET Axes
    BY DEF AnchorOffers, AnchorWrong, TrustInv, Types, Anchors
  <1>2. A!Kept
    BY DEF A!Kept, AnchorWrong, TrustInv, AnchorRight, Anchored
  <1>4. CASE fault' = fault /\ AnchorOffers \subseteq AnchorOffers'
    <2>1. A!Establish(AnchorOffers')
      BY <1>1, <1>4 DEF A!Establish
    <2> QED BY <1>1, <1>2, <2>1 DEF A!Next
  <1>5. CASE fault' = fault /\ AnchorOffers' \subseteq AnchorOffers
    <2>1. A!Forget(AnchorOffers \ AnchorOffers')
      BY <1>1, <1>5 DEF A!Forget
    <2> QED BY <1>1, <1>2, <2>1 DEF A!Next
  <1>6. CASE ~fault /\ fault' /\ AnchorOffers' = AnchorOffers
    BY <1>1, <1>2, <1>6 DEF A!Next, A!Loss
  <1>7. CASE fault /\ ~fault' /\ AnchorOffers' = {}
    BY <1>1, <1>2, <1>7 DEF A!Next, A!Answer
  <1> QED BY AnchorMoves, <1>4, <1>5, <1>6, <1>7

\* The controller's own coordinates implement Datum: homes, read-backs, faults,
\* releases, tray switches and restarts never leave an axis called known whose
\* position is wrong, except on notice of a stream fault.
THEOREM Coordinates == Spec => CoordinatesImplement
  <1>1. ASSUME Init PROVE C!Init
    BY <1>1 DEF Init, C!Init, ControllerOffers, ControllerKnows, ControllerWrong
  <1> QED
    BY <1>1, TrustInvariant, CoordinatesStepImplements, PTL DEF Spec, CoordinatesImplement,
       C!Spec

\* The anchor file, read with the kernel's counters, implements Datum as well.
THEOREM AnchorFile == Spec => AnchorImplements
  <1>1. ASSUME Init PROVE A!Init
    BY <1>1, AnchorForms DEF Init, A!Init, AnchorOffers, AnchorWrong
  <1> QED
    BY <1>1, TrustInvariant, AnchorStepImplements, PTL DEF Spec, AnchorImplements, A!Spec

-----------------------------------------------------------------------------
(* The release.                                                            *)

\* No step of a released machine moves it, and three bring the currents back.
LEMMA ReleaseStep ==
    ASSUME TrustInv, TrustInv', [Next]_vars
    PROVE  [free => /\ inflight' = Still
                    /\ free' \/ energize_cmd \/ ManualHome \/ (Start /\ unmarked)]_vars
  <1> SUFFICES ASSUME free, Next
               PROVE  /\ inflight' = Still
                      /\ free' \/ energize_cmd \/ ManualHome \/ (Start /\ unmarked)
    OBVIOUS
  <1>1. /\ inflight = Still /\ (up => released /\ session = "none")
        /\ ~(\E a \in Axes, d \in {-1, 1} : Step(a, d)) /\ ~(\E a \in Axes : Played(a))
    BY DEF TrustInv, Types, ControlType, FlagType, Control, Released, Producer, InSession, Step, Played,
       Still
  <1>2. CASE \/ Line \/ CycleEnds \/ NoLine \/ HomeBegins \/ HomeGivesUp \/ RunnerMoves
             \/ HomeFails \/ release_cmd \/ Unlock \/ HandMoves \/ tray_set \/ ResetAtRest
             \/ AnchorWritten \/ Marked
    BY <1>1, <1>2 DEF Line, CycleEnds, NoLine, HomeBegins, HomeGivesUp, RunnerMoves, HomeFails,
       release_cmd, Unlock, HandMoves, tray_set, ResetAtRest, AnchorWritten, Marked
  <1>3. CASE Hook \/ StreamFault \/ ResetInMotion \/ Crash \/ Homed
    BY <1>1, <1>3 DEF Hook, StreamFault, ResetInMotion, Crash, Homed, RampPlays
  <1>4. CASE energize_cmd \/ ManualHome
    BY <1>1, <1>4 DEF energize_cmd, ManualHome
  <1>5. CASE HandedOver
    BY <1>1, <1>5 DEF HandedOver
  <1>6. CASE Start
    <2>1. marker \/ unmarked
      BY <1>6 DEF Start, TrustInv, Control, Released, Midway
    <2> QED BY <1>1, <1>6, <2>1 DEF Start, Adopted
  <1> QED BY <1>1, <1>2, <1>3, <1>4, <1>5, <1>6 DEF Next

\* A released gantry stays free and still until the operator's $ME or manual $H,
\* through crashes and restarts, unless its marker could not be written or its
\* controller died before it was (release_cmd, marker_set, gfrelease_adopt,
\* gfrelease_poll, unlock_guard, home_cmd).
THEOREM Release == Spec => ReleaseHolds
  BY TrustInvariant, ReleaseStep, PTL DEF Spec, ReleaseHolds
=============================================================================
