------------------------------- MODULE Dither -------------------------------
(***************************************************************************)
(* The density model of the laser's dose (stepper_stream.c): the duty is   *)
(* pinned at full and a level is rendered as one burst of lit ticks at the *)
(* head of each base period.  What a period cannot express, or is too      *)
(* short to strike the tube, is carried to the next.                       *)
(*                                                                         *)
(* The level is in 1/Full of a tick.  A step is one call that changes the  *)
(* dose state: a tick of fire the gate lets through, a transition of the   *)
(* power, a restart of the dose, a change of the model.                    *)
(***************************************************************************)
EXTENDS Integers

CONSTANTS
    Full,        \* GF_PWM_PERIOD
    Rate,        \* gf.rate: the stream's tick rate
    RefRate,     \* GF_TICK_X8_HZ: the reference tick of the setup's keys
    PeriodMax,   \* DITH_PERIOD_MAX
    Periods,     \* the base periods the setup asks for, in reference ticks
    Mins         \* the shortest pulses it asks for

ASSUME DitherAssumption ==
    /\ Full \in Nat \ {0} /\ Rate \in Nat /\ RefRate \in Nat \ {0}
    /\ PeriodMax \in Nat \ {0}
    /\ Periods \subseteq Nat /\ Mins \subseteq Nat

VARIABLES
    dith_period, dith_min,   \* the model in force; a period of 0 is the analog duty
    dith_left,               \* ticks left of the base period
    dith_on,                 \* lit ticks left of its burst
    dith_acc,                \* the carried debt
    cur_power,
    debt,                    \* the dose asked for by the periods begun, less the dose lit
    burst                    \* the lit ticks just behind, counted up to dith_min

modelVars == <<dith_period, dith_min>>
doseVars == <<dith_left, dith_on, dith_acc>>
ditherVars == <<modelVars, doseVars, cur_power, debt, burst>>

AtMost(n, limit) == IF n > limit THEN limit ELSE n
AtLeast(n, limit) == IF n < limit THEN limit ELSE n

\* ref_ticks_to_stream: rounded to the nearest, never below one.
RefTicksToStream(t) == AtLeast((t * Rate + RefRate \div 2) \div RefRate, 1)

\* dither_reset, with what it restarts.
DitherReset ==
    /\ dith_left' = 0 /\ dith_on' = 0 /\ dith_acc' = 0
    /\ debt' = 0 /\ burst' = 0

\* gf_stream_laser_model: between runs; a switch of the model leads dark.
LaserModel(period, min) ==
    LET p == IF period = 0 THEN 0 ELSE RefTicksToStream(AtMost(period, PeriodMax))
        m == IF period = 0 THEN 0 ELSE AtMost(RefTicksToStream(AtLeast(min, 1)), p) IN
    /\ dith_period' = p /\ dith_min' = m
    /\ cur_power' = IF (dith_period = 0) # (p = 0) THEN 0 ELSE cur_power
    /\ DitherReset

\* ship_pass: a transition that leaves fire on sets the level of the periods
\* to come, and keeps the dose.
Power(level) ==
    /\ cur_power # level
    /\ cur_power' = level
    /\ UNCHANGED <<modelVars, doseVars, debt, burst>>

\* Fire going off, the gate's fall, a run boundary, a reset.
Restart ==
    /\ DitherReset
    /\ UNCHANGED <<modelVars, cur_power>>

\* The dose a period is to deliver.
Want == cur_power * dith_period + dith_acc

\* Mutant: a burst too short to strike is lit all the same.
Bug_Stubs == AtMost(Want \div Full, dith_period)

\* Mutant: a burst of exactly the shortest pulse is skipped.
Bug_SkipsEqual ==
    IF Want \div Full <= dith_min THEN 0 ELSE AtMost(Want \div Full, dith_period)

\* The burst of a period: none when it is too short to strike, and at most the
\* period.
OnTicks ==
    IF Want \div Full < dith_min THEN 0 ELSE AtMost(Want \div Full, dith_period)

\* Mutant: a skipped period drops its debt.
Bug_DebtDropped == Want % Full

\* What the burst leaves is carried.
Carried == Want - OnTicks * Full

\* dither_tick, on a lit tick's account: the burst leads the period.
DitherTick ==
    /\ dith_period # 0
    /\ LET begins == dith_left = 0
           on == IF begins THEN OnTicks ELSE dith_on
           left == IF begins THEN dith_period ELSE dith_left
           asked == IF begins THEN cur_power * dith_period ELSE 0 IN
       /\ dith_acc' = IF begins THEN Carried ELSE dith_acc
       /\ dith_left' = left - 1
       /\ dith_on' = IF on > 0 THEN on - 1 ELSE on
       /\ debt' = debt + asked - IF on > 0 THEN Full ELSE 0
       /\ burst' = IF on > 0 THEN AtMost(burst + 1, dith_min) ELSE 0
    /\ UNCHANGED <<modelVars, cur_power>>

DoseInit ==
    /\ dith_period = 0 /\ dith_min = 0
    /\ dith_left = 0 /\ dith_on = 0 /\ dith_acc = 0
    /\ cur_power = 0 /\ debt = 0 /\ burst = 0

DoseNext ==
    \/ DitherTick
    \/ Restart
    \/ \E level \in 0 .. Full : Power(level)
    \/ \E period \in Periods, min \in Mins : LaserModel(period, min)

DoseSpec == DoseInit /\ [][DoseNext]_ditherVars

-----------------------------------------------------------------------------
(* Properties.                                                             *)

\* Every count of the dose model is a natural number (they are unsigned in the
\* code), the burst fits in what is left of its period, and the shortest pulse
\* in a period.
DoseType ==
    /\ dith_period \in Nat /\ dith_min \in Nat
    /\ dith_left \in Nat /\ dith_on \in Nat /\ dith_acc \in Nat
    /\ cur_power \in 0 .. Full
    /\ debt \in Int /\ burst \in Nat
    /\ dith_left <= dith_period /\ dith_on <= dith_left
    /\ dith_min <= dith_period /\ (dith_period > 0 => dith_min >= 1)

\* "The debt is conserved, so the average density is unchanged": what has been
\* asked for and not lit is exactly the burst still to come and the debt
\* carried, over any number of periods and levels.
DoseConserved == debt = Full * dith_on + dith_acc

\* The debt carried stays below one shortest pulse, whatever levels it was run
\* up by: with DoseConserved, the dose lit is never a period and a pulse behind.
DebtBounded == dith_period > 0 => dith_acc < Full * dith_min

\* "fewer full-width pulses rather than stubs the supply cannot strike": a burst
\* that ends by itself is at least the shortest pulse, across periods too.
BurstStrikes ==
    [][(DitherTick /\ burst > 0 /\ burst' = 0) => burst = dith_min]_ditherVars

\* The ends of the scale: a period that begins at level 0 is dark whatever it
\* carries, one that begins at full is lit throughout.
EndLevels ==
    [][(DitherTick /\ dith_left = 0)
         => /\ cur_power = 0 => burst' = 0 /\ dith_on' = 0
            /\ cur_power = Full => burst' > 0 /\ dith_on' = dith_period - 1]_ditherVars
=============================================================================
