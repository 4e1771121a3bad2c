-------------------------- MODULE DoseCoolingProofs --------------------------
(* Two components whose proofs are short.                                   *)
(*                                                                          *)
(* Dither: the dose is conserved, the debt bounded, the bursts long enough, *)
(* for every tick rate, period, shortest pulse and level.                   *)
(*                                                                          *)
(* Cooling: a loss of the service inside the window is covered by the       *)
(* fallback, over any interleaving of the poll, the core, the reporter and  *)
(* the engine.                                                              *)
EXTENDS Dither, Cooling, TLAPS

-----------------------------------------------------------------------------
(* The dose model.                                                         *)

\* The burst in progress will have the length of a shortest pulse, and what is
\* left of it follows a lit tick.
BurstGrows ==
    /\ burst > 0 => burst + dith_on >= dith_min
    /\ dith_on > 0 => burst > 0

\* The inductive invariant: DoseType has the burst fit in its period, without
\* which a period would begin over a burst still owed.
DoseInv ==
    /\ DoseType /\ DoseConserved /\ DebtBounded
    /\ BurstGrows /\ burst <= dith_min

\* Multiplication by a natural number is monotonic.
LEMMA TimesMonotonic ==
    ASSUME NEW a \in Nat, NEW b \in Nat, NEW c \in Nat, a <= b
    PROVE  c * a <= c * b
  BY SMT

\* What the division of a period's dose by Full gives.
LEMMA DivFacts ==
    ASSUME NEW w \in Nat
    PROVE  /\ w \div Full \in Nat /\ w % Full \in 0 .. Full - 1
           /\ w = Full * (w \div Full) + (w % Full)
  BY DitherAssumption, SMT

\* A converted tick count is a positive number.
LEMMA ToStreamPositive ==
    ASSUME NEW t \in Nat
    PROVE  RefTicksToStream(t) \in Nat /\ RefTicksToStream(t) >= 1
  <1>1. t * Rate \in Nat
    BY DitherAssumption
  <1>2. RefRate \div 2 \in Nat
    BY DitherAssumption
  <1>3. (t * Rate + RefRate \div 2) \div RefRate \in Int
    BY <1>1, <1>2, DitherAssumption
  <1> QED BY <1>3 DEF RefTicksToStream, AtLeast

\* The heart of the argument: the burst a period begins with fits in it, is
\* none or a shortest pulse, leaves exactly what is carried, and what is
\* carried stays below a shortest pulse.
LEMMA PeriodBegins ==
    ASSUME DoseType, DebtBounded, dith_period > 0
    PROVE  /\ Want \in Nat /\ OnTicks \in 0 .. dith_period
           /\ OnTicks > 0 => OnTicks >= dith_min
           /\ Carried \in Nat /\ Carried < Full * dith_min
           /\ cur_power * dith_period + dith_acc = Full * OnTicks + Carried
  <1> DEFINE q == Want \div Full
  <1>1. Want \in Nat
    BY DEF Want, DoseType
  <1>2. /\ q \in Nat /\ Want % Full \in 0 .. Full - 1
        /\ Want = Full * q + (Want % Full)
    BY <1>1, DivFacts
  <1>3. cur_power * dith_period \in Nat /\ cur_power * dith_period <= Full * dith_period
    <2>1. cur_power \in Nat /\ dith_period \in Nat /\ cur_power <= Full /\ Full \in Nat
      BY DitherAssumption DEF DoseType
    <2>2. dith_period * cur_power <= dith_period * Full
      BY <2>1, TimesMonotonic
    <2> QED BY <2>1, <2>2
  <1>4. Full * dith_min >= Full
    <2>1. Full * 1 <= Full * dith_min
      BY TimesMonotonic, DitherAssumption DEF DoseType
    <2> QED BY <2>1, DitherAssumption
  <1> HIDE DEF q
  <1>5. CASE q < dith_min
    <2>1. OnTicks = 0 /\ Carried = Want
      BY <1>1, <1>5, DitherAssumption DEF OnTicks, Carried, q
    <2>2. Full * (q + 1) <= Full * dith_min
      BY <1>2, <1>5, TimesMonotonic, DitherAssumption DEF DoseType
    <2>3. Full * (q + 1) = Full * q + Full /\ Full * q \in Nat
      BY <1>2, DitherAssumption
    <2>4. Want < Full * dith_min
      BY <1>2, <2>2, <2>3, DitherAssumption DEF DoseType
    <2> QED BY <1>1, <2>1, <2>4, DitherAssumption DEF Want, DoseType
  <1>6. CASE q >= dith_min /\ q <= dith_period
    <2>1. OnTicks = q /\ Carried = Want - q * Full
      BY <1>2, <1>6 DEF OnTicks, Carried, AtMost, q, DoseType
    <2>2. q * Full = Full * q /\ Full * q \in Nat
      BY <1>2, DitherAssumption
    <2>3. Carried = Want % Full
      BY <1>1, <1>2, <2>1, <2>2
    <2>4. Full * dith_min \in Nat
      BY DitherAssumption DEF DoseType
    <2> QED BY <1>1, <1>2, <1>4, <1>6, <2>1, <2>2, <2>3, <2>4, DitherAssumption DEF Want, DoseType
  <1>7. CASE q >= dith_min /\ q > dith_period
    <2>1. OnTicks = dith_period /\ Carried = Want - dith_period * Full
      BY <1>2, <1>7 DEF OnTicks, Carried, AtMost, q, DoseType
    <2>2. Full * dith_period <= Full * q
      BY <1>2, <1>7, TimesMonotonic, DitherAssumption DEF DoseType
    <2>3. dith_period * Full = Full * dith_period /\ Full * dith_period \in Nat /\ Full * q \in Nat
      BY <1>2, DitherAssumption DEF DoseType
    <2>4. Carried \in Nat
      BY <1>1, <1>2, <2>1, <2>2, <2>3
    <2>5. Carried <= dith_acc
      BY <1>3, <2>1, <2>3 DEF Want, DoseType
    <2>6. Full * dith_min \in Nat
      BY DitherAssumption DEF DoseType
    <2>7. Carried < Full * dith_min
      BY <2>4, <2>5, <2>6 DEF DebtBounded, DoseType
    <2> QED BY <1>1, <1>3, <2>1, <2>3, <2>4, <2>7 DEF Want, DoseType
  <1> QED BY <1>2, <1>5, <1>6, <1>7 DEF DoseType

\* At the ends of the scale: no burst at level 0, the whole period at full.
LEMMA PeriodEnds ==
    ASSUME DoseType, DebtBounded, dith_period > 0
    PROVE  /\ cur_power = 0 => OnTicks = 0
           /\ cur_power = Full => OnTicks = dith_period
  <1> DEFINE q == Want \div Full
  <1>1. Want \in Nat
    BY DEF Want, DoseType
  <1>2. /\ q \in Nat /\ Want % Full \in 0 .. Full - 1
        /\ Want = Full * q + (Want % Full)
    BY <1>1, DivFacts
  <1> HIDE DEF q
  <1>3. ASSUME cur_power = 0 PROVE OnTicks = 0
    <2>1. Want = dith_acc
      BY <1>3 DEF Want, DoseType
    <2>2. SUFFICES ASSUME q >= dith_min PROVE FALSE
      BY <1>2 DEF OnTicks, q, DoseType
    <2>3. Full * dith_min <= Full * q
      BY <1>2, <2>2, TimesMonotonic, DitherAssumption DEF DoseType
    <2>4. Full * q \in Nat /\ Full * dith_min \in Nat
      BY <1>2, DitherAssumption DEF DoseType
    <2> QED BY <1>2, <2>1, <2>3, <2>4, DitherAssumption DEF DebtBounded, DoseType
  <1>4. ASSUME cur_power = Full PROVE OnTicks = dith_period
    <2>1. Want = Full * dith_period + dith_acc
      BY <1>4 DEF Want
    <2>2. SUFFICES ASSUME q < dith_period PROVE FALSE
      BY <1>2 DEF OnTicks, AtMost, q, DoseType
    <2>3. Full * (q + 1) <= Full * dith_period
      BY <1>2, <2>2, TimesMonotonic, DitherAssumption DEF DoseType
    <2>4. /\ Full * (q + 1) = Full * q + Full
          /\ Full * q \in Nat /\ Full * dith_period \in Nat
      BY <1>2, DitherAssumption DEF DoseType
    <2> QED BY <1>2, <2>1, <2>3, <2>4, DitherAssumption DEF DoseType
  <1> QED BY <1>3, <1>4

\* A tick preserves the invariant.
LEMMA TickKeeps ==
    ASSUME DoseInv, DitherTick
    PROVE  DoseInv'
  <1> USE DEF DoseInv
  <1>0. dith_period > 0
    BY DEF DitherTick, DoseType
  <1>1. CASE dith_left = 0
    <2> DEFINE on == OnTicks
    <2>1. /\ on \in 0 .. dith_period /\ (on > 0 => on >= dith_min)
          /\ Carried \in Nat /\ Carried < Full * dith_min
          /\ cur_power * dith_period + dith_acc = Full * on + Carried
      BY <1>0, PeriodBegins
    <2>2. dith_on = 0 /\ debt = dith_acc
      BY <1>1, DitherAssumption DEF DoseType, DoseConserved
    <2>3. /\ dith_acc' = Carried /\ dith_left' = dith_period - 1
          /\ dith_on' = IF on > 0 THEN on - 1 ELSE on
          /\ debt' = debt + cur_power * dith_period - IF on > 0 THEN Full ELSE 0
          /\ burst' = IF on > 0 THEN AtMost(burst + 1, dith_min) ELSE 0
          /\ dith_period' = dith_period /\ dith_min' = dith_min /\ cur_power' = cur_power
      BY <1>1 DEF DitherTick, modelVars
    <2>4. cur_power * dith_period \in Nat
      BY DitherAssumption DEF DoseType
    <2> HIDE DEF on
    <2>5. DoseType'
      BY <1>0, <2>1, <2>3, <2>4, DitherAssumption DEF DoseType, AtMost
    <2>6. DoseConserved'
      <3>1. CASE on > 0
        <4>1. Full * (on - 1) = Full * on - Full /\ Full * on \in Nat
          BY <2>1, <3>1, DitherAssumption
        <4> QED BY <2>1, <2>2, <2>3, <2>4, <3>1, <4>1, DitherAssumption DEF DoseConserved, DoseType
      <3>2. CASE on = 0
        BY <2>1, <2>2, <2>3, <2>4, <3>2, DitherAssumption DEF DoseConserved, DoseType
      <3> QED BY <2>1, <3>1, <3>2
    <2>7. DebtBounded'
      BY <2>1, <2>3 DEF DebtBounded
    <2>8. (BurstGrows /\ burst <= dith_min)'
      BY <1>0, <2>1, <2>2, <2>3 DEF BurstGrows, AtMost, DoseType
    <2> QED BY <2>5, <2>6, <2>7, <2>8
  <1>2. CASE dith_left # 0
    <2>1. /\ dith_acc' = dith_acc /\ dith_left' = dith_left - 1
          /\ dith_on' = IF dith_on > 0 THEN dith_on - 1 ELSE dith_on
          /\ debt' = debt + 0 - IF dith_on > 0 THEN Full ELSE 0
          /\ burst' = IF dith_on > 0 THEN AtMost(burst + 1, dith_min) ELSE 0
          /\ dith_period' = dith_period /\ dith_min' = dith_min /\ cur_power' = cur_power
      BY <1>2 DEF DitherTick, modelVars
    <2>2. DoseType'
      BY <1>2, <2>1, DitherAssumption DEF DoseType, AtMost
    <2>3. DoseConserved'
      <3>1. CASE dith_on > 0
        <4>1. Full * (dith_on - 1) = Full * dith_on - Full /\ Full * dith_on \in Nat
          BY <3>1, DitherAssumption DEF DoseType
        <4> QED BY <2>1, <3>1, <4>1, DitherAssumption DEF DoseConserved, DoseType
      <3>2. CASE dith_on = 0
        BY <2>1, <3>2, DitherAssumption DEF DoseConserved, DoseType
      <3> QED BY <3>1, <3>2 DEF DoseType
    <2>4. DebtBounded'
      BY <2>1 DEF DebtBounded
    <2>5. (BurstGrows /\ burst <= dith_min)'
      BY <1>0, <2>1 DEF BurstGrows, AtMost, DoseType
    <2> QED BY <2>2, <2>3, <2>4, <2>5
  <1> QED BY <1>1, <1>2

\* So does a change of the model, which restarts the dose.
LEMMA ModelKeeps ==
    ASSUME DoseInv, NEW period \in Periods, NEW min \in Mins, LaserModel(period, min)
    PROVE  DoseInv'
  <1>1. period \in Nat /\ min \in Nat
    BY DitherAssumption
  <1>2. AtMost(period, PeriodMax) \in Nat /\ AtLeast(min, 1) \in Nat
    BY <1>1, DitherAssumption DEF AtMost, AtLeast
  <1>3. /\ RefTicksToStream(AtMost(period, PeriodMax)) \in Nat \ {0}
        /\ RefTicksToStream(AtLeast(min, 1)) \in Nat \ {0}
    BY <1>2, ToStreamPositive
  <1>4. /\ dith_period' \in Nat /\ dith_min' \in Nat /\ dith_min' <= dith_period'
        /\ dith_period' > 0 => dith_min' >= 1
    <2>1. CASE period = 0
      BY <2>1 DEF LaserModel
    <2>2. CASE period # 0
      <3>1. /\ dith_period' = RefTicksToStream(AtMost(period, PeriodMax))
            /\ dith_min' = AtMost(RefTicksToStream(AtLeast(min, 1)), dith_period')
        BY <2>2 DEF LaserModel
      <3>2. \A a, b \in Nat \ {0} : AtMost(a, b) \in Nat /\ AtMost(a, b) <= b /\ AtMost(a, b) >= 1
        BY DEF AtMost
      <3> QED BY <1>3, <3>1, <3>2
    <2> QED BY <2>1, <2>2
  <1>5. /\ dith_left' = 0 /\ dith_on' = 0 /\ dith_acc' = 0 /\ debt' = 0 /\ burst' = 0
        /\ cur_power' = 0 \/ cur_power' = cur_power
    BY DEF LaserModel, DitherReset
  <1>6. DoseType'
    BY <1>4, <1>5, DitherAssumption DEF DoseInv, DoseType
  <1>7. DoseConserved'
    BY <1>5, DitherAssumption DEF DoseConserved
  <1>8. DebtBounded'
    <2>1. SUFFICES ASSUME dith_period' > 0 PROVE 0 < Full * dith_min'
      BY <1>5 DEF DebtBounded
    <2>2. \A n \in Nat : n >= 1 => 0 < Full * n
      <3> SUFFICES ASSUME NEW n \in Nat, n >= 1 PROVE 0 < Full * n
        OBVIOUS
      <3>1. Full * 1 <= Full * n
        BY TimesMonotonic, DitherAssumption
      <3> QED BY <3>1, DitherAssumption
    <2> QED BY <1>4, <2>1, <2>2
  <1> QED BY <1>4, <1>5, <1>6, <1>7, <1>8 DEF DoseInv, BurstGrows

\* Every step preserves the invariant.
LEMMA DoseStepKeeps ==
    ASSUME DoseInv, [DoseNext]_ditherVars
    PROVE  DoseInv'
  <1>1. CASE DitherTick
    BY <1>1, TickKeeps
  <1>2. CASE Restart
    <2>1. /\ dith_left' = 0 /\ dith_on' = 0 /\ dith_acc' = 0 /\ debt' = 0 /\ burst' = 0
          /\ dith_period' = dith_period /\ dith_min' = dith_min /\ cur_power' = cur_power
      BY <1>2 DEF Restart, DitherReset, modelVars
    <2>2. (DoseType /\ BurstGrows /\ burst <= dith_min)'
      BY <2>1 DEF DoseInv, DoseType, BurstGrows
    <2>3. DoseConserved'
      BY <2>1, DitherAssumption DEF DoseConserved
    <2>4. DebtBounded'
      <3>1. Full * dith_min \in Nat
        BY DitherAssumption DEF DoseInv, DoseType
      <3> QED BY <2>1, <3>1 DEF DoseInv, DebtBounded, DoseType
    <2> QED BY <2>2, <2>3, <2>4 DEF DoseInv
  <1>3. CASE \E level \in 0 .. Full : Power(level)
    BY <1>3 DEF Power, modelVars, doseVars, DoseInv, DoseType, DoseConserved, DebtBounded, BurstGrows
  <1>4. CASE \E period \in Periods, min \in Mins : LaserModel(period, min)
    BY <1>4, ModelKeeps
  <1>5. CASE UNCHANGED ditherVars
    BY <1>5 DEF ditherVars, modelVars, doseVars, DoseInv, DoseType, DoseConserved, DebtBounded, BurstGrows
  <1> QED BY <1>1, <1>2, <1>3, <1>4, <1>5 DEF DoseNext

\* The invariant holds in every reachable state.
LEMMA DoseInvariant == DoseSpec => []DoseInv
  <1>1. DoseInit => DoseInv
    BY DitherAssumption DEF DoseInit, DoseInv, DoseType, DoseConserved, DebtBounded, BurstGrows
  <1>2. DoseInv /\ [DoseNext]_ditherVars => DoseInv'
    BY DoseStepKeeps
  <1> QED BY <1>1, <1>2, PTL DEF DoseSpec

\* No count of the dose model goes negative or outgrows its period, for every
\* model the setup can ask for (gf_stream_laser_model, dither_tick).
THEOREM DoseTypeCorrect == DoseSpec => []DoseType
  <1>1. DoseInv => DoseType
    BY DEF DoseInv
  <1> QED BY <1>1, DoseInvariant, PTL

\* dither_tick conserves the dose: nothing asked for is lost or lit twice.
THEOREM DoseIsConserved == DoseSpec => []DoseConserved
  <1>1. DoseInv => DoseConserved
    BY DEF DoseInv
  <1> QED BY <1>1, DoseInvariant, PTL

\* The carried debt stays below one shortest pulse for ever.
THEOREM DebtIsBounded == DoseSpec => []DebtBounded
  <1>1. DoseInv => DebtBounded
    BY DEF DoseInv
  <1> QED BY <1>1, DoseInvariant, PTL

\* No burst that ends by itself is a stub.
THEOREM BurstsStrike == DoseSpec => BurstStrikes
  <1>1. DoseInv /\ [DoseNext]_ditherVars
          => [(DitherTick /\ burst > 0 /\ burst' = 0) => burst = dith_min]_ditherVars
    <2> SUFFICES ASSUME DoseInv, DitherTick, burst > 0, burst' = 0 PROVE burst = dith_min
      OBVIOUS
    <2>1. dith_period > 0 /\ dith_min >= 1
      BY DEF DitherTick, DoseInv, DoseType
    <2>2. dith_on = 0
      <3>1. SUFFICES ASSUME dith_on > 0 PROVE FALSE
        BY DEF DoseInv, DoseType
      <3>2. dith_left # 0
        BY <3>1 DEF DoseInv, DoseType
      <3>3. burst' = AtMost(burst + 1, dith_min)
        BY <3>1, <3>2 DEF DitherTick
      <3> QED BY <2>1, <3>3 DEF AtMost, DoseInv, DoseType
    <2> QED BY <2>2 DEF DoseInv, BurstGrows, DoseType
  <1> QED BY <1>1, DoseInvariant, PTL DEF DoseSpec, BurstStrikes

\* Level 0 is dark and full is solid from the next period on, whatever debt
\* the levels before left.
THEOREM EndLevelsHold == DoseSpec => EndLevels
  <1>1. DoseInv /\ [DoseNext]_ditherVars
          => [(DitherTick /\ dith_left = 0)
                => /\ cur_power = 0 => burst' = 0 /\ dith_on' = 0
                   /\ cur_power = Full => burst' > 0 /\ dith_on' = dith_period - 1]_ditherVars
    <2> SUFFICES ASSUME DoseInv, DitherTick, dith_left = 0
                 PROVE  /\ cur_power = 0 => burst' = 0 /\ dith_on' = 0
                        /\ cur_power = Full => burst' > 0 /\ dith_on' = dith_period - 1
      OBVIOUS
    <2>1. dith_period > 0 /\ dith_period \in Nat /\ dith_min \in Nat /\ dith_min >= 1 /\ burst \in Nat
      BY DEF DitherTick, DoseInv, DoseType
    <2>2. /\ cur_power = 0 => OnTicks = 0
          /\ cur_power = Full => OnTicks = dith_period
      BY <2>1, PeriodEnds DEF DoseInv
    <2>3. /\ dith_on' = IF OnTicks > 0 THEN OnTicks - 1 ELSE OnTicks
          /\ burst' = IF OnTicks > 0 THEN AtMost(burst + 1, dith_min) ELSE 0
      BY DEF DitherTick
    <2> QED BY <2>1, <2>2, <2>3 DEF AtMost
  <1> QED BY <1>1, DoseInvariant, PTL DEF DoseSpec, EndLevels

-----------------------------------------------------------------------------
(* The cooling client.                                                     *)

\* The parts of TypeOK: what is not a flag, the flags of the core, the cache
\* and the reports, and those of the client.
CoolSets ==
    /\ pc \in {"poll", "core"}
    /\ st \in {"idle", "cycle", "decel", "hold", "jog", "homing"}
    /\ rt \subseteq {"hold", "start", "reset", "cancel"}
    /\ v \in Verdicts \cup {"stale"} /\ fans \in {"engine", "fallback"}
    /\ sending \subseteq BOOLEAN /\ stray \subseteq BOOLEAN

CoolFlags ==
    /\ laser_ok \in BOOLEAN /\ v_armed \in BOOLEAN /\ laser_on_window \in BOOLEAN
    /\ flood \in BOOLEAN /\ rep_armed \in BOOLEAN /\ kicked \in BOOLEAN
    /\ eng_armed \in BOOLEAN /\ stood \in BOOLEAN

HoldFlags ==
    /\ decel_lit \in BOOLEAN /\ hold_ours \in BOOLEAN
    /\ stale_warned \in BOOLEAN /\ fallback_done \in BOOLEAN
    /\ decel_lit => hold_ours

\* A loss is on record only while the verdict is stale, and the fallback stays
\* written for as long as the loss that wrote it.
LossKnown ==
    /\ LossCovered
    /\ stale_warned => v = "stale"
    /\ fallback_done => stale_warned /\ fans = "fallback"

\* The inductive invariant.  LossCovered alone is not preserved: a poll that
\* finds the fallback on record writes nothing, so the record must mean that
\* the fans run on it, and must not outlive the loss it was made for; and an
\* arm must not open a window over a loss still on record.
LossInv == CoolSets /\ CoolFlags /\ HoldFlags /\ LossKnown

\* They are TypeOK.
LEMMA CoolTypeParts == TypeOK <=> CoolSets /\ CoolFlags /\ HoldFlags
  BY DEF TypeOK, CoolSets, CoolFlags, HoldFlags

\* A poll keeps it, whatever it reads from the engine's file (gfcool_poll).
LEMMA PollKeeps ==
    ASSUME LossInv, NEW period \in BOOLEAN, PollAt(period)
    PROVE  LossInv'
  <1>1. v' \in Verdicts \cup {"stale"} /\ v_armed' \in BOOLEAN
    BY DEF LossInv, CoolSets, CoolFlags, PollAt, VerdictRead, cacheVars
  <1>2. CoolSets'
    <2>1. rt' \subseteq {"hold", "start", "reset", "cancel"}
      BY DEF LossInv, CoolSets, PollAt, ResumeFlags
    <2>2. fans' \in {"engine", "fallback"}
      BY DEF LossInv, CoolSets, PollAt
    <2> QED BY <1>1, <2>1, <2>2 DEF LossInv, CoolSets, PollAt, wireVars
  <1>3. CoolFlags'
    <2>1. laser_ok' \in BOOLEAN /\ stood' \in BOOLEAN
      BY DEF LossInv, CoolFlags, PollAt
    <2>2. rep_armed' \in BOOLEAN /\ kicked' \in BOOLEAN /\ laser_on_window' \in BOOLEAN
      BY DEF LossInv, CoolFlags, PollAt, LaserArmed, ReportNow, depositVars
    <2> QED BY <1>1, <2>1, <2>2 DEF LossInv, CoolFlags, PollAt, wireVars
  <1>4. HoldFlags'
    BY DEF LossInv, HoldFlags, PollAt, StillLit, Forgets, Resumes, Clean,
       Takes, HoldDue, InHold, FallbackKept
  <1>5. LossKnown'
    <2>1. laser_on_window' => laser_on_window
      BY DEF LossInv, CoolFlags, PollAt, LaserArmed, ReportNow
    <2>2. CASE v' = "stale"
      BY <2>1, <2>2 DEF LossInv, CoolSets, HoldFlags, LossKnown, LossCovered,
         PollAt, FallbackKept
    <2>3. CASE v' # "stale"
      BY <2>3 DEF LossInv, HoldFlags, LossKnown, LossCovered, PollAt, FallbackKept
    <2> QED BY <2>2, <2>3
  <1> QED BY <1>2, <1>3, <1>4, <1>5 DEF LossInv

\* So does whatever the core, an arm, a disarm or a reset does between two polls.
LEMMA CoreKeeps ==
    ASSUME LossInv, CoreStep
    PROVE  LossInv'
  <1> USE DEF LossInv, CoolSets, CoolFlags, HoldFlags, LossKnown, LossCovered,
          CoreFrame, cacheVars, clientVars, wireVars, depositVars
  <1>1. CASE CoreRuns
    BY <1>1 DEF CoreRuns
  <1>2. CASE Coolant
    BY <1>2 DEF Coolant, ReportNow
  <1>3. CASE ArmAsks
    BY <1>3 DEF ArmAsks, LaserArmed, ReportNow, GateFireOk, VerdictFireOk, FireOk
  <1>4. CASE ArmOpens
    BY <1>4 DEF ArmOpens
  <1>5. CASE Disarms
    BY <1>5 DEF Disarms, LaserArmed, ReportNow
  <1>6. CASE TakeFlags
    <2>1. CASE "reset" \in rt
      BY <1>6, <2>1 DEF TakeFlags, LaserArmed, ReportNow
    <2>2. CASE "reset" \notin rt
      <3>1. st' \in {"decel", "cycle", "idle", st} /\ laser_on_window' = laser_on_window
        BY <1>6, <2>2 DEF TakeFlags
      <3> QED BY <1>6, <2>2, <3>1 DEF TakeFlags
    <2> QED BY <2>1, <2>2
  <1> QED BY <1>1, <1>2, <1>3, <1>4, <1>5, <1>6 DEF CoreStep

\* So do the reporter thread, the engine, the clock and the operator.
LEMMA WireKeeps ==
    ASSUME LossInv,
           \/ Reporter \/ StrayLands \/ Expire
           \/ \E f \in {"hold", "start", "reset"} : Asked(f)
           \/ UNCHANGED vars
    PROVE  LossInv'
  <1> USE DEF LossInv, CoolSets, CoolFlags, HoldFlags, LossKnown, LossCovered,
          coreVars, cacheVars, clientVars, wireVars, depositVars
  <1>1. CASE ReporterTakes
    <2>1. sending' \subseteq BOOLEAN /\ kicked' = FALSE
      BY <1>1 DEF ReporterTakes
    <2>2. CoolSets' /\ HoldFlags' /\ LossKnown'
      BY <1>1, <2>1 DEF ReporterTakes
    <2>3. CoolFlags'
      BY <1>1, <2>1 DEF ReporterTakes
    <2> QED BY <2>2, <2>3
  <1>2. CASE ReportLands
    BY <1>2 DEF ReportLands
  <1>3. CASE ReportFails
    BY <1>3 DEF ReportFails
  <1>4. CASE StrayLands
    BY <1>4 DEF StrayLands
  <1>5. CASE Expire
    <2>1. stale_warned = FALSE /\ fallback_done = FALSE
      BY <1>5 DEF Expire
    <2>2. v' = "stale" /\ v_armed' \in BOOLEAN
      BY <1>5 DEF Expire
    <2> QED BY <1>5, <2>1, <2>2 DEF Expire
  <1>6. CASE \E f \in {"hold", "start", "reset"} : Asked(f)
    BY <1>6 DEF Asked
  <1>7. CASE UNCHANGED vars
    BY <1>7 DEF vars
  <1> QED BY <1>1, <1>2, <1>3, <1>4, <1>5, <1>6, <1>7 DEF Reporter

\* The invariant holds in every reachable state.
LEMMA LossInvariant == Spec => []LossInv
  <1>1. Init => LossInv
    BY DEF Init, LossInv, CoolSets, CoolFlags, HoldFlags, LossKnown, LossCovered
  <1>2. LossInv /\ [Next]_vars => LossInv'
    BY PollKeeps, CoreKeeps, WireKeeps DEF Next, Poll
  <1> QED BY <1>1, <1>2, PTL DEF Spec

\* Every variable of the cooling client has its type, and a lit deceleration is
\* always one into a hold of the client's own (hold_take, decel_track).
THEOREM TypeCorrect == Spec => []TypeOK
  <1>1. LossInv => TypeOK
    BY CoolTypeParts DEF LossInv
  <1> QED BY <1>1, LossInvariant, PTL

\* With the service lost inside the window the fans run on the fallback, at
\* every loss and not only at the first (fallback_fans behind gfcool_poll).
THEOREM LossIsCovered == Spec => []LossCovered
  <1>1. LossInv => LossCovered
    BY DEF LossInv, LossKnown
  <1> QED BY <1>1, LossInvariant, PTL
=============================================================================
