------------------------------ MODULE Cooling ------------------------------
(***************************************************************************)
(* The cooling client (glowforge_cooling.c): the engine's verdict and the  *)
(* hold, the resume and the fallback that follow from it on every poll of  *)
(* the realtime hook, and the job reports that a thread of its own sends   *)
(* back to the engine.                                                     *)
(*                                                                         *)
(* The engine (external) computes a verdict from the armed bit last        *)
(* reported to it; reading its file may find a fresh verdict, or nothing   *)
(* (no file, a torn one, a stale one).  A report is delivered, lost, or    *)
(* lands after the sender has given up on it.  Of a report the armed bit   *)
(* is kept; its mode and the messages to the sender are left out.          *)
(***************************************************************************)


VARIABLES
    pc,                 \* poll or core
    \* the core (external); decel and hold are STATE_HOLD, pending and complete
    st, rt,
    \* glowforge_laser.c
    laser_ok,
    \* the verdict cache
    v, v_armed,         \* v: the verdict, or stale when v_fresh_until_ms has passed
    \* the client
    laser_on_window, flood,
    decel_lit, hold_ours, stale_warned, fallback_done,
    \* the reporter thread
    rep_armed, kicked,  \* kicked: rep_seq # seen
    sending,            \* the report on its way, a set of at most one
    \* the engine and the machine
    eng_armed, stray, fans,
    \* history
    stood               \* the head has stood still under this blocking verdict

coreVars == <<st, laser_ok>>
cacheVars == <<v, v_armed>>
clientVars == <<decel_lit, hold_ours, stale_warned, fallback_done>>
depositVars == <<rep_armed, kicked>>
wireVars == <<sending, eng_armed, stray>>
vars == <<pc, rt, coreVars, cacheVars, laser_on_window, flood, clientVars, depositVars,
          wireVars, fans, stood>>

\* What a verdict says: fire_ok, hold and resume_ok, and whether its name is
\* one a job cannot continue from (verdict_fail_tier).
Verdicts == {"clean", "settling", "nofire", "hold", "fail"}
FireOk(k) == k \in {"clean", "settling"}
AsksHold(k) == k \in {"hold", "fail"}
ResumeOk(k) == k = "clean"
FailTier(k) == k = "fail"

Init ==
    /\ pc = "poll" /\ st = "idle" /\ rt = {} /\ laser_ok = FALSE
    /\ v = "stale" /\ v_armed = FALSE
    /\ laser_on_window = FALSE /\ flood = FALSE
    /\ decel_lit = FALSE /\ hold_ours = FALSE /\ stale_warned = FALSE /\ fallback_done = FALSE
    /\ rep_armed = FALSE /\ kicked = FALSE /\ sending = {}
    /\ eng_armed = FALSE /\ stray = {} /\ fans = "engine"
    /\ stood = FALSE

-----------------------------------------------------------------------------
(* The reports.                                                            *)

\* report_now.
ReportNow(armed) == rep_armed' = armed /\ kicked' = TRUE

\* gfcool_laser_armed: every change of the armed bit is reported at once.
LaserArmed(armed) ==
    /\ laser_on_window' = armed
    /\ IF laser_on_window = armed THEN UNCHANGED depositVars ELSE ReportNow(armed)

\* reporter_thread takes the newest deposit.
ReporterTakes ==
    /\ kicked /\ sending = {}
    /\ kicked' = FALSE /\ sending' = {rep_armed}
    /\ UNCHANGED <<pc, rt, coreVars, cacheVars, laser_on_window, flood, clientVars, rep_armed,
                   eng_armed, stray, fans, stood>>

\* report_send: the engine has it.
ReportLands ==
    /\ sending # {}
    /\ eng_armed' = (TRUE \in sending) /\ sending' = {}
    /\ UNCHANGED <<pc, rt, coreVars, cacheVars, laser_on_window, flood, clientVars,
                   depositVars, stray, fans, stood>>

\* It is lost, or the engine reads it after the timeout.
ReportFails ==
    /\ sending # {}
    /\ sending' = {}
    /\ \/ UNCHANGED stray
       \/ stray = {} /\ stray' = sending
    /\ UNCHANGED <<pc, rt, coreVars, cacheVars, laser_on_window, flood, clientVars,
                   depositVars, eng_armed, fans, stood>>

StrayLands ==
    /\ stray # {}
    /\ eng_armed' = (TRUE \in stray) /\ stray' = {}
    /\ UNCHANGED <<pc, rt, coreVars, cacheVars, laser_on_window, flood, clientVars,
                   depositVars, sending, fans, stood>>

-----------------------------------------------------------------------------
(* The engine, and the clock of the cache.                                 *)

\* v_fresh_until_ms passes.
Expire ==
    /\ v # "stale" /\ v' = "stale" /\ v_armed' = FALSE
    /\ UNCHANGED <<pc, rt, coreVars, laser_on_window, flood, clientVars, depositVars,
                   wireVars, fans, stood>>

\* gfcool_verdict_fire_ok.
VerdictFireOk == FireOk(v)

\* gfcool_fire_ok, gfcool_run_ack.
GateFireOk == VerdictFireOk /\ (laser_on_window => v_armed)
RunAck == v_armed

-----------------------------------------------------------------------------
(* gfcool_poll.                                                            *)

\* verdict_read.
VerdictRead ==
    \/ /\ v' \in Verdicts /\ v_armed' = eng_armed
    \/ UNCHANGED cacheVars

InHold == st \in {"decel", "hold"}

\* The verdict holds a job: it is stale inside the window or with coolant on,
\* it asks for it, or it blocks fire inside the window.
HoldDue(k) ==
    IF k = "stale" THEN laser_on_window \/ flood
                   ELSE AsksHold(k) \/ (laser_ok /\ ~FireOk(k))

\* Mutant: the hold is taken once.
Bug_HoldOnce(k) == HoldDue(k) /\ st = "cycle" /\ ~hold_ours

\* hold_take is called, also for a job that was resumed under the verdict.
Takes(k) == HoldDue(k) /\ st = "cycle"

\* The verdict is clean: fresh, and nothing to hold for.
Clean(k) == k # "stale" /\ ~HoldDue(k)

\* The operator has resumed, or reset.
Forgets(k) == Clean(k) /\ hold_ours /\ ~InHold

\* The client resumes its own hold.
Resumes(k) == Clean(k) /\ hold_ours /\ InHold /\ ResumeOk(k)

\* Mutant: a deceleration stays lit outside the pause.
Bug_StaysLit(blocked) == decel_lit /\ st # "hold"

\* decel_lit behind the tiers and decel_track.
StillLit(blocked) == decel_lit /\ laser_ok /\ blocked /\ st \in {"cycle", "decel"}

\* Mutant: a fallback is written once for the life of the process.
Bug_FallbackStays(k) == fallback_done

\* fallback_done, behind a service that is restored.
FallbackKept(k) == fallback_done /\ ~(k # "stale" /\ stale_warned)

\* gflaser_verdict_fail: the window closes and the job is reset.
Fails(k) == laser_ok /\ FailTier(k)

\* Mutant: only a change is reported.
Bug_NoRefresh(period) == period /\ st # "homing" /\ rep_armed # laser_on_window

\* The level-triggered refresh; the homing runner reports in this client's place.
Refreshes(period) == period /\ st # "homing"

\* gflaser_resume_gate, behind a resume of the client's: a job whose window has
\* closed is asked for its press instead.
ResumeFlags == IF laser_ok THEN {{"start"}} ELSE {{"start"}, {}}

\* One pass, with the report's period over or not.
PollAt(period) ==
    /\ pc = "poll" /\ pc' = "core"
    /\ VerdictRead
    /\ LET blocked == ~FireOk(v')
           fail == Fails(v')
           takes == Takes(v')
           lost == v' = "stale" /\ (laser_on_window \/ flood)
       IN  /\ laser_ok' = (laser_ok /\ ~fail)
           /\ IF fail THEN LaserArmed(FALSE)
              ELSE IF Refreshes(period) THEN ReportNow(laser_on_window) /\ UNCHANGED laser_on_window
              ELSE UNCHANGED <<depositVars, laser_on_window>>
           /\ decel_lit' = (StillLit(blocked) \/ (takes /\ ~hold_ours))
           /\ hold_ours' = (takes \/ (hold_ours /\ ~Forgets(v') /\ ~Resumes(v')))
           /\ stale_warned' = (lost \/ (stale_warned /\ v' = "stale"))
           /\ fallback_done' = (FallbackKept(v') \/ (lost /\ laser_on_window))
           /\ fans' = IF lost /\ laser_on_window /\ ~fallback_done THEN "fallback"
                      ELSE IF v' # "stale" THEN "engine" ELSE fans
           /\ \E resume \in IF Resumes(v') THEN ResumeFlags ELSE {{}} :
                 rt' = rt \cup resume \cup (IF fail THEN {"reset"} ELSE {})
                          \cup (IF takes THEN {"hold"} ELSE {})
                          \cup (IF v' # "stale" /\ HoldDue(v') /\ st = "jog"
                                THEN {"cancel"} ELSE {})
           /\ stood' = (laser_ok' /\ blocked /\ (stood \/ st = "hold"))
    /\ UNCHANGED <<st, flood, wireVars>>

Poll == \E period \in BOOLEAN : PollAt(period)

-----------------------------------------------------------------------------
(* The core, the arm and the disarm (external here: Consent, LaserLatch).  *)

Quiet == pc = "core" /\ rt = {}

CoreFrame ==
    /\ pc' = "poll"
    /\ UNCHANGED <<cacheVars, clientVars, wireVars, fans, stood>>

\* The core's state moves between two hooks, or nothing happens.
CoreRuns ==
    /\ Quiet /\ CoreFrame
    /\ \/ st' = st
       \/ st = "idle" /\ st' \in {"cycle", "jog"}
       \/ st = "idle" /\ ~laser_on_window /\ st' = "homing"
       \/ st \in {"cycle", "jog", "homing"} /\ st' = "idle"
       \/ st = "decel" /\ st' = "hold"
    /\ UNCHANGED <<rt, laser_ok, laser_on_window, flood, depositVars>>

\* M8 and M9: gfcool_coolant_set.
Coolant ==
    /\ Quiet /\ CoreFrame /\ st = "idle"
    /\ flood' = ~flood
    /\ IF laser_on_window THEN UNCHANGED depositVars ELSE ReportNow(laser_on_window)
    /\ UNCHANGED <<rt, st, laser_ok, laser_on_window>>

\* An arm or a re-arm begins behind its gates, and opens behind the engine's
\* acknowledgment, or is given up.
ArmAsks ==
    /\ Quiet /\ CoreFrame
    /\ st \in {"idle", "hold"} /\ ~laser_on_window /\ GateFireOk
    /\ LaserArmed(TRUE)
    /\ UNCHANGED <<rt, st, laser_ok, flood>>

ArmOpens ==
    /\ Quiet /\ CoreFrame
    /\ st \in {"idle", "hold"} /\ laser_on_window /\ ~laser_ok /\ RunAck /\ GateFireOk
    /\ laser_ok' = TRUE
    /\ rt' = IF st = "hold" THEN {"start"} ELSE {}
    /\ UNCHANGED <<st, laser_on_window, flood, depositVars>>

\* An arm is given up, or a window closes.
Disarms ==
    /\ Quiet /\ CoreFrame
    /\ laser_on_window /\ st # "cycle"
    /\ laser_ok' = FALSE /\ LaserArmed(FALSE)
    /\ UNCHANGED <<rt, st, flood>>

\* The operator or the sender: a pause, a resume past the gate, ^X.
Asked(f) ==
    /\ pc = "core" /\ rt \subseteq {"hold"}
    /\ f = "start" => st = "hold"
    /\ rt' = rt \cup {f}
    /\ UNCHANGED <<pc, coreVars, cacheVars, laser_on_window, flood, clientVars, depositVars,
                   wireVars, fans, stood>>

\* Realtime flags; a reset disarms.
TakeFlags ==
    /\ pc = "core" /\ rt # {} /\ CoreFrame
    /\ rt' = {}
    /\ IF "reset" \in rt
       THEN st' = "idle" /\ laser_ok' = FALSE /\ LaserArmed(FALSE)
       ELSE /\ st' = CASE "hold" \in rt /\ st = "cycle" -> "decel"
                       [] "start" \in rt /\ st = "hold" -> "cycle"
                       [] "cancel" \in rt /\ st = "jog" -> "idle"
                       [] OTHER -> st
            /\ UNCHANGED <<laser_ok, laser_on_window, depositVars>>
    /\ UNCHANGED flood

-----------------------------------------------------------------------------
CoreStep == CoreRuns \/ Coolant \/ ArmAsks \/ ArmOpens \/ Disarms \/ TakeFlags

Reporter == ReporterTakes \/ ReportLands \/ ReportFails

Next ==
    \/ Poll \/ CoreStep \/ Reporter
    \/ StrayLands \/ Expire
    \/ \E f \in {"hold", "start", "reset"} : Asked(f)

Spec == Init /\ [][Next]_vars

\* The protocol loop, the reporter and the clock go on; not every report is
\* lost.
FairSpec ==
    /\ Spec
    /\ WF_vars(Poll \/ CoreStep) /\ WF_vars(Reporter)
    /\ SF_vars(PollAt(TRUE)) /\ SF_vars(ReportLands)

-----------------------------------------------------------------------------
(* Properties.                                                             *)

\* Every variable has its type, and a lit deceleration is one into a hold of
\* the client's own.
TypeOK ==
    /\ pc \in {"poll", "core"}
    /\ st \in {"idle", "cycle", "decel", "hold", "jog", "homing"}
    /\ rt \subseteq {"hold", "start", "reset", "cancel"}
    /\ v \in Verdicts \cup {"stale"} /\ fans \in {"engine", "fallback"}
    /\ sending \subseteq BOOLEAN /\ stray \subseteq BOOLEAN
    /\ {laser_ok, v_armed, laser_on_window, flood, decel_lit, hold_ours, stale_warned,
        fallback_done, rep_armed, kicked, eng_armed, stood} \subseteq BOOLEAN
    /\ decel_lit => hold_ours

\* A job whose beam the verdict blocks does not run dark to its end: it is
\* held, and held again whenever somebody resumes it (hold_take).
HeldWhileBlocked ==
    (st = "cycle" /\ laser_ok /\ ~VerdictFireOk)
        ~> (st # "cycle" \/ ~laser_ok \/ VerdictFireOk)

\* With the service lost inside the window, the fans run on the fallback's
\* duties, at every loss of it and not only at the first.
LossCovered == stale_warned /\ laser_on_window => fans = "fallback"

\* What the engine believes of the armed bit follows it, over reports that are
\* lost or land late (the refresh, level-triggered).
EngineLearns ==
    /\ laser_on_window ~> (eng_armed \/ ~laser_on_window)
    /\ ~laser_on_window ~> (~eng_armed \/ laser_on_window \/ st = "homing")

\* glowforge_cooling.c: "A resume under the standing verdict moves dark and is
\* held again": once the head has stood still under a verdict that blocks fire,
\* no deceleration is lit until it is gone.
ResumeMovesDark == ~(stood /\ decel_lit)
=============================================================================
