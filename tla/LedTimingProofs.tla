-------------------------- MODULE LedTimingProofs --------------------------
(***************************************************************************)
(* The planes of LedTiming, for any configuration that is sound, any       *)
(* latency of the interrupt and any periods it loses: what is lit is       *)
(* always the plane whose times the timers run with, and never one that is *)
(* still being sent.  The invariant says what each period's interrupt has  *)
(* left in the registers, and what the matches have left in the drivers.   *)
(* With the times that run() computes, the high driver lights each plane   *)
(* twice as long as the next finer one, and the low driver does so once in *)
(* every lit period, a repeated one included.                              *)
(***************************************************************************)
EXTENDS LedTiming, TLAPS

BlankRegs ==
    <<cfg.blank_period, cfg.blank_period - cfg.front_porch, 0, cfg.low_strobe_allowance>>
PlaneRegs(b) ==
    <<cfg.unblank_period_high[b], cfg.unblank_width_high[b], cfg.unblank_period_low[b], 0>>

\* Before the first plane all is dark.
Starting ==
    stage # "Run" =>
        /\ shiftHigh = None /\ shiftLow = None /\ outHigh = None /\ outLow = None
        /\ active[3] = 0
        /\ isBlank = (stage = "Dark")

\* In a blank period the high driver is empty, and the low one may hold any plane.
Blanking ==
    stage = "Run" /\ isBlank =>
        /\ regs = BlankRegs /\ active = BlankRegs
        /\ shiftHigh = None /\ outHigh = None
        /\ shiftLow \in Bits \cup {None} /\ outLow \in Bits \cup {None}

\* In a lit one both hold its plane, or none.
Lighting ==
    stage = "Run" /\ ~isBlank =>
        /\ regs = PlaneRegs(bitPos) /\ active = PlaneRegs(bitPos)
        /\ shiftHigh \in {bitPos, None} /\ outHigh \in {bitPos, None}
        /\ shiftLow \in {bitPos, None} /\ outLow \in {bitPos, None}

TimingInv ==
    /\ Sound(cfg)
    /\ bitPos \in Bits /\ isBlank \in BOOLEAN /\ stage \in {"Start", "Dark", "Run"}
    /\ Starting /\ Blanking /\ Lighting

-----------------------------------------------------------------------------
\* The width as a number of which only the type matters.
LEMMA WordType == Word \in Nat
BY DEF Word

\* A number below the modulus is its own remainder.
LEMMA Remainder == ASSUME NEW n \in Int, NEW w \in Int, 0 <= n, n < w PROVE n % w = n
OBVIOUS

\* A register that has room for a value takes it as it is.
LEMMA Fits == ASSUME NEW n \in 0..Word - 1 PROVE Written(n) = n
BY WordType, Remainder DEF Written

\* So it does with all the times of a sound configuration.
LEMMA RegistersHold ==
    ASSUME Sound(cfg)
    PROVE  /\ Written(cfg.blank_period) = cfg.blank_period
           /\ Written(cfg.blank_period - cfg.front_porch) = cfg.blank_period - cfg.front_porch
           /\ Written(cfg.low_strobe_allowance) = cfg.low_strobe_allowance
           /\ \A b \in Bits :
                /\ Written(cfg.unblank_period_high[b]) = cfg.unblank_period_high[b]
                /\ Written(cfg.unblank_width_high[b]) = cfg.unblank_width_high[b]
                /\ Written(cfg.unblank_period_low[b]) = cfg.unblank_period_low[b]
<1>1. /\ cfg.blank_period \in 0..Word - 1
      /\ cfg.blank_period - cfg.front_porch \in 0..Word - 1
      /\ cfg.low_strobe_allowance \in 0..Word - 1
  <2>1. /\ cfg.blank_period \in 0..Word - 1 /\ cfg.front_porch \in 0..cfg.blank_period
        /\ cfg.low_strobe_allowance \in 1..cfg.blank_period
    BY DEF Sound
  <2> QED  BY <2>1, WordType
<1>2. \A b \in Bits :
            /\ cfg.unblank_period_high[b] \in 0..Word - 1
            /\ cfg.unblank_width_high[b] \in 0..Word - 1
            /\ cfg.unblank_period_low[b] \in 0..Word - 1
  <2> SUFFICES ASSUME NEW b \in Bits
               PROVE  /\ cfg.unblank_period_high[b] \in 0..Word - 1
                      /\ cfg.unblank_width_high[b] \in 0..Word - 1
                      /\ cfg.unblank_period_low[b] \in 0..Word - 1
    OBVIOUS
  <2>1. /\ cfg.unblank_period_high[b] \in 0..Word - 1
        /\ cfg.unblank_width_high[b] \in 0..cfg.unblank_period_high[b]
        /\ cfg.unblank_period_low[b] \in 1..Word - 1
    BY DEF Sound, Bits
  <2> QED  BY <2>1, WordType
<1> QED  BY <1>1, <1>2, Fits

\* What a sound configuration gives for one plane.
LEMMA PlaneSound ==
    ASSUME Sound(cfg), NEW b \in Bits
    PROVE  /\ b \in Nat
           /\ cfg.unblank_period_high[b] \in Nat
           /\ cfg.unblank_width_high[b] \in Nat
           /\ cfg.unblank_width_high[b] < cfg.unblank_period_high[b] + 1
           /\ cfg.unblank_period_low[b] \in Nat /\ cfg.unblank_period_low[b] > 0
<1>1. /\ cfg.bit_depth \in 1..10 /\ b \in 0..cfg.bit_depth - 1
      /\ cfg.unblank_period_high[b] \in 0..Word - 1
      /\ cfg.unblank_width_high[b] \in 0..cfg.unblank_period_high[b]
      /\ cfg.unblank_period_low[b] \in 1..Word - 1
  BY DEF Sound, Bits
<1> QED  BY <1>1, WordType

\* The next plane is one of the planes.
LEMMA NextBitType == ASSUME Sound(cfg), bitPos \in Bits PROVE NextBit \in Bits
BY DEF Sound, Bits, NextBit

LEMMA TimingInit == Init => TimingInv
<1> SUFFICES ASSUME Init PROVE TimingInv
  OBVIOUS
<1>1. PICK c \in Configs : cfg = Configured(c)
  BY DEF Init
<1>2. Sound(cfg)
  BY <1>1, ConfigsAssumption
<1>3. 0 \in Bits
  BY <1>2 DEF Sound, Bits
<1>4. /\ bitPos = 0 /\ isBlank = FALSE /\ stage = "Start" /\ active = <<24, 0, 0, 24>>
      /\ shiftHigh = None /\ shiftLow = None /\ outHigh = None /\ outLow = None
  BY DEF Init
<1> QED  BY <1>2, <1>3, <1>4 DEF TimingInv, Starting, Blanking, Lighting

\* The first interrupt changes the timers only.
LEMMA FirstStep == TimingInv /\ FirstInterrupt => TimingInv'
<1> SUFFICES ASSUME TimingInv, FirstInterrupt PROVE TimingInv'
  OBVIOUS
<1>1. /\ stage = "Start" /\ stage' = "Dark" /\ isBlank' = TRUE /\ ccr3' = 0
      /\ UNCHANGED <<cfg, bitPos, shiftHigh, shiftLow, outHigh, outLow>>
  BY DEF FirstInterrupt, WriteBlank, out
<1>2. active'[3] = 0
  <2>1. PICK n \in 1..4 : active' = [i \in 1..4 |-> IF i <= n THEN <<arr', ccr1', ccr3', strobe'>>[i]
                                                   ELSE active[i]]
    BY DEF FirstInterrupt
  <2>2. active[3] = 0
    BY <1>1 DEF TimingInv, Starting
  <2> QED  BY <1>1, <2>1, <2>2
<1> QED  BY <1>1, <1>2 DEF TimingInv, Starting, Blanking, Lighting, Bits

-----------------------------------------------------------------------------
\* A lit period ends with an empty high driver.
LEMMA LitPeriod ==
    ASSUME TimingInv, stage = "Run", ~isBlank, Period(None, 0)
    PROVE  /\ shiftHigh' = None /\ outHigh' = None
           /\ shiftLow' = shiftLow /\ outLow' = outLow
<1>1. active = PlaneRegs(bitPos) /\ Sound(cfg) /\ bitPos \in Bits
  BY DEF TimingInv, Lighting
<1>2. active[3] > 0 /\ active[2] < active[1] + 1 /\ active[4] = 0 /\ active[1] \in Nat
  BY <1>1, PlaneSound DEF PlaneRegs
<1>3. active[4] \notin 1..(active[1] + 1) - 1
  BY <1>2
<1> QED  BY <1>2, <1>3 DEF Period

\* So does a blank one in which nothing is sent, which shows the low driver's plane again.
LEMMA BlankPeriod ==
    ASSUME TimingInv, stage = "Run", isBlank, Period(None, 0)
    PROVE  /\ shiftHigh' = None /\ outHigh' = None
           /\ shiftLow' = shiftLow /\ outLow' \in {outLow, shiftLow}
<1>1. active = BlankRegs /\ Sound(cfg) /\ shiftHigh = None /\ outHigh = None
  BY DEF TimingInv, Blanking
<1> QED  BY <1>1 DEF Period, BlankRegs

\* One in which a plane is sent passes it on whole.
LEMMA SendPeriod ==
    ASSUME TimingInv, stage = "Run", isBlank, NEW b \in Bits, NEW late \in Latencies,
           Period(b, late)
    PROVE  shiftHigh' = b /\ outHigh' = b /\ shiftLow' = b /\ outLow' = b
<1>1. active = BlankRegs /\ Sound(cfg)
  BY DEF TimingInv, Blanking
<1>2. late \in Nat /\ Transfer \in Nat /\ b # None
  BY <1>1, TransferAssumption, PlaneSound DEF None
<1>3. /\ active[1] = cfg.blank_period /\ active[2] = cfg.blank_period - cfg.front_porch
      /\ active[4] = cfg.low_strobe_allowance
  BY <1>1 DEF BlankRegs
<1>4. /\ active[1] \in Nat /\ active[2] \in Nat /\ active[2] < active[1] + 1
      /\ active[4] \in 1..(active[1] + 1) - 1
      /\ late + Transfer <= active[2] /\ late + Transfer <= active[4]
  BY <1>1, <1>3 DEF Sound
<1>5. /\ ~(active[2] < late) /\ ~(active[2] < late + Transfer) /\ ~(active[4] < late)
      /\ ~(active[4] < late + Transfer)
  BY <1>2, <1>4
<1> QED  BY <1>2, <1>4, <1>5 DEF Period

\* Before the first plane nothing is passed on.
LEMMA DarkPeriod ==
    ASSUME TimingInv, stage = "Dark", NEW late, Period(None, late)
    PROVE  shiftHigh' = None /\ outHigh' = None /\ shiftLow' = None /\ outLow' = None
BY DEF TimingInv, Starting, Period

-----------------------------------------------------------------------------
\* The step at the end of a lit period.
LEMMA LitStep == TimingInv /\ Lit => TimingInv'
<1> SUFFICES ASSUME TimingInv, Lit PROVE TimingInv'
  OBVIOUS
<1>1. /\ stage = "Run" /\ ~isBlank /\ stage' = "Run" /\ isBlank' = TRUE /\ Period(None, 0)
      /\ UNCHANGED <<cfg, bitPos>>
  BY DEF Lit, WriteBlank, TimingInv, Starting
<1>2. regs' = BlankRegs' /\ active' = BlankRegs'
  BY <1>1, RegistersHold DEF Lit, WriteBlank, regs, BlankRegs, TimingInv
<1>3. shiftHigh' = None /\ outHigh' = None /\ shiftLow' = shiftLow /\ outLow' = outLow
  BY <1>1, LitPeriod
<1>4. shiftLow \in Bits \cup {None} /\ outLow \in Bits \cup {None}
  BY <1>1 DEF TimingInv, Lighting
<1> QED  BY <1>1, <1>2, <1>3, <1>4 DEF TimingInv, Starting, Blanking, Lighting, Bits

\* The step at the end of a blank one, in which the interrupt has sent a plane.
LEMMA DarkStep == TimingInv /\ Dark => TimingInv'
<1> SUFFICES ASSUME TimingInv, Dark PROVE TimingInv'
  OBVIOUS
<1>1. /\ stage \in {"Dark", "Run"} /\ isBlank /\ stage' = "Run" /\ isBlank' = FALSE
      /\ bitPos' = NextBit /\ cfg' = cfg
  BY DEF Dark, WritePlane, TimingInv
<1>2. bitPos' \in Bits
  BY <1>1, NextBitType DEF TimingInv
<1>3. regs' = PlaneRegs(bitPos)' /\ active' = PlaneRegs(bitPos)'
  BY <1>1, <1>2, RegistersHold DEF Dark, WritePlane, regs, PlaneRegs, TimingInv
<1>4. PICK late \in Latencies : Period(IF stage = "Dark" THEN None ELSE bitPos', late)
  BY DEF Dark
<1>5. /\ shiftHigh' \in {bitPos', None} /\ outHigh' \in {bitPos', None}
      /\ shiftLow' \in {bitPos', None} /\ outLow' \in {bitPos', None}
  <2>1. CASE stage = "Dark"
    BY <1>4, <2>1, DarkPeriod
  <2>2. CASE stage = "Run"
    BY <1>1, <1>2, <1>4, <2>2, SendPeriod
  <2> QED  BY <1>1, <2>1, <2>2
<1> QED  BY <1>1, <1>2, <1>3, <1>5 DEF TimingInv, Starting, Blanking, Lighting, Bits

\* A period whose interrupt is lost.
LEMMA MissStep == TimingInv /\ Miss => TimingInv'
<1> SUFFICES ASSUME TimingInv, Miss PROVE TimingInv'
  OBVIOUS
<1>1. /\ stage = "Run" /\ Period(None, 0) /\ active' = regs
      /\ UNCHANGED <<cfg, arr, ccr1, ccr3, strobe, isBlank, bitPos, stage>>
  BY DEF Miss, regs
<1>2. regs' = regs /\ BlankRegs' = BlankRegs /\ PlaneRegs(bitPos)' = PlaneRegs(bitPos)
  BY <1>1 DEF regs, BlankRegs, PlaneRegs
<1>3. CASE isBlank
  <2>1. /\ shiftHigh' = None /\ outHigh' = None
        /\ shiftLow' = shiftLow /\ outLow' \in {outLow, shiftLow}
    BY <1>1, <1>3, BlankPeriod
  <2> QED  BY <1>1, <1>2, <1>3, <2>1 DEF TimingInv, Starting, Blanking, Lighting, Bits
<1>4. CASE ~isBlank
  <2>1. /\ shiftHigh' = None /\ outHigh' = None /\ shiftLow' = shiftLow /\ outLow' = outLow
    BY <1>1, <1>4, LitPeriod
  <2> QED  BY <1>1, <1>2, <1>4, <2>1 DEF TimingInv, Starting, Blanking, Lighting, Bits
<1> QED  BY <1>3, <1>4

LEMMA TimingCorrect == Spec => []TimingInv
<1>1. TimingInv /\ UNCHANGED vars => TimingInv'
  BY DEF TimingInv, Starting, Blanking, Lighting, vars, regs, out, BlankRegs, PlaneRegs, Bits
<1>2. TimingInv /\ [Next]_vars => TimingInv'
  BY <1>1, FirstStep, LitStep, DarkStep, MissStep DEF Next
<1> QED  BY <1>2, TimingInit, PTL DEF Spec

-----------------------------------------------------------------------------
\* No plane is passed on while it is being sent (high_current_modulation.c:337-344), for
\* any sound configuration and any latency it allows for.
THEOREM TransfersCorrect == Spec => []NeverTorn
<1>1. TimingInv => NeverTorn
  <2> SUFFICES ASSUME TimingInv PROVE NeverTorn
    OBVIOUS
  <2>1. bitPos # Torn /\ None # Torn /\ \A b \in Bits : b # Torn
    BY PlaneSound DEF TimingInv, None, Torn
  <2> QED  BY <2>1 DEF TimingInv, Starting, Blanking, Lighting, NeverTorn
<1> QED  BY <1>1, TimingCorrect, PTL

\* What is lit is the plane whose times the timers run with, although the times were
\* written a period and the plane sent a blanking earlier, and whatever interrupts are
\* lost (high_current_modulation.c:318-347).
THEOREM TimesCorrect == Spec => []PlaneHasItsTimes
<1>1. TimingInv => PlaneHasItsTimes
  <2> SUFFICES ASSUME TimingInv PROVE PlaneHasItsTimes
    OBVIOUS
  <2>1. CASE stage # "Run"
    BY <2>1 DEF TimingInv, Starting, PlaneHasItsTimes
  <2>2. CASE stage = "Run" /\ isBlank
    BY <2>2 DEF TimingInv, Blanking, PlaneHasItsTimes, BlankRegs
  <2>3. CASE stage = "Run" /\ ~isBlank
    <3>1. /\ active = PlaneRegs(bitPos) /\ outHigh \in {bitPos, None} /\ outLow \in {bitPos, None}
          /\ Sound(cfg) /\ bitPos \in Bits
      BY <2>3 DEF TimingInv, Lighting
    <3>2. active[3] > 0
      BY <3>1, PlaneSound DEF PlaneRegs
    <3>3. active[3] # 0
      BY <3>1, <3>2 DEF PlaneRegs, Sound, Bits
    <3> QED  BY <3>1, <3>2, <3>3 DEF PlaneRegs, PlaneHasItsTimes
  <2> QED  BY <2>1, <2>2, <2>3 DEF TimingInv
<1> QED  BY <1>1, TimingCorrect, PTL

-----------------------------------------------------------------------------
\* For how long a plane is lit: by the high driver from the match at the end of the blank
\* period to the one of the lit period, by the low driver from the beginning of the lit
\* period to its third match, or to the end of the period.
LitHigh(b) == cfg.front_porch + 1 + cfg.unblank_width_high[b]
LitLow(b)  == IF cfg.unblank_period_low[b] < cfg.unblank_period_high[b] + 1
              THEN cfg.unblank_period_low[b] ELSE cfg.unblank_period_high[b] + 1

\* The high driver has had its time for every plane it has shown, and one that it lights has
\* been lit since the match at the end of the blank period.  The low driver has had its time
\* of the plane it holds as often as a lit period has ended since it was passed on.
Measured ==
    /\ \E c \in Configs : cfg = Configured(c)
    /\ outHigh # None => litHigh = cfg.front_porch + 1
    /\ DOMAIN onHigh = Bits /\ \A b \in Bits : onHigh[b] \in {None, LitHigh(b)}
    /\ litPeriods \in Nat
    /\ outLow \in Bits => litLow = litPeriods * LitLow(outLow)

\* run() leaves what it does not fill in.
LEMMA ConfiguredKeeps ==
    ASSUME NEW c \in Configs
    PROVE  LET g == Configured(c)
           IN  /\ g.bit_depth = c.bit_depth /\ g.front_porch = c.front_porch
               /\ g.base_divider = c.base_divider
               /\ g.low_offset_correction = c.low_offset_correction
BY StructAssumption DEF Configured, Struct

\* Before the first plane no time has been measured.
LEMMA MeasuredInit == Init => Measured
<1> SUFFICES ASSUME Init PROVE Measured
  OBVIOUS
<1>1. PICK c \in Configs : /\ cfg = Configured(c)
                           /\ onHigh = [b \in 0..c.bit_depth - 1 |-> None]
  BY DEF Init
<1>2. cfg.bit_depth = c.bit_depth
  BY <1>1, ConfiguredKeeps
<1>3. outHigh = None /\ outLow = None /\ litPeriods = 0
  BY DEF Init
<1>4. None \notin Bits
  BY TimingInit, PlaneSound DEF TimingInv, None
<1> QED  BY <1>1, <1>2, <1>3, <1>4 DEF Measured, Bits

\* A lit period ends the light of the high driver, and adds the low driver's time once more.
LEMMA LitMeasured ==
    ASSUME TimingInv, Measured, stage = "Run", ~isBlank, Period(None, 0), cfg' = cfg,
           litPeriods' = litPeriods + 1
    PROVE  Measured'
<1>1. active = PlaneRegs(bitPos) /\ Sound(cfg) /\ bitPos \in Bits /\ bitPos # None
      /\ outHigh \in {bitPos, None} /\ outLow \in {bitPos, None}
  BY PlaneSound DEF TimingInv, Lighting, None
<1>2. /\ active[1] = cfg.unblank_period_high[bitPos] /\ active[2] = cfg.unblank_width_high[bitPos]
      /\ active[3] = cfg.unblank_period_low[bitPos]
      /\ active[3] > 0 /\ active[2] < active[1] + 1 /\ active[1] \in Nat /\ active[2] \in Nat
      /\ active[4] = 0
  BY <1>1, PlaneSound DEF PlaneRegs
<1>3. outHigh' = None /\ outLow' = outLow
  BY LitPeriod
<1>4. onHigh' = IF outHigh \in Bits THEN [onHigh EXCEPT ![outHigh] = litHigh + active[2]]
                ELSE onHigh
  <2>1. None \notin Bits
    BY <1>1, PlaneSound DEF None
  <2> QED  BY <1>2, <2>1 DEF Period
<1>5. litLow' = litLow + LitLow(bitPos)
  <2>1. active[4] \notin 1..(active[1] + 1) - 1
    BY <1>2
  <2> QED  BY <1>2, <2>1 DEF Period, LitLow
<1>6. outHigh \in Bits => outHigh = bitPos /\ litHigh + active[2] = LitHigh(bitPos)
  <2>1. None \notin Bits
    BY <1>1, PlaneSound DEF None
  <2> QED  BY <1>1, <1>2, <2>1 DEF Measured, LitHigh
<1>7. outLow \in Bits => outLow = bitPos
  BY <1>1, PlaneSound DEF None
<1>8. LitLow(bitPos) \in Int
  BY <1>1, PlaneSound DEF LitLow
<1>9. Bits' = Bits /\ \A b \in Bits : LitHigh(b)' = LitHigh(b) /\ LitLow(b)' = LitLow(b)
  BY DEF Bits, LitHigh, LitLow
<1> HIDE DEF Bits, LitHigh, LitLow
<1>10. DOMAIN onHigh' = Bits /\ \A b \in Bits : onHigh'[b] \in {None, LitHigh(b)}
  BY <1>4, <1>6 DEF Measured
<1>11. outLow' \in Bits => litLow' = litPeriods' * LitLow(outLow')
  <2> SUFFICES ASSUME outLow' \in Bits PROVE litLow' = litPeriods' * LitLow(outLow')
    OBVIOUS
  <2>1. outLow' = bitPos /\ outLow = bitPos
    BY <1>3, <1>7
  <2> DEFINE L == LitLow(bitPos)
  <2>2. litLow = litPeriods * L /\ litPeriods \in Nat /\ L \in Int
    BY <1>1, <1>8, <2>1 DEF Measured
  <2> HIDE DEF L
  <2>3. litPeriods * L + L = (litPeriods + 1) * L
    BY <2>2
  <2>4. litLow' = litPeriods * L + L
    BY <1>5, <2>2 DEF L
  <2> QED  BY <2>1, <2>3, <2>4 DEF L
<1>12. litPeriods' \in Nat /\ LitLow(outLow)' = LitLow(outLow')
  BY DEF Measured, LitLow
<1> QED  BY <1>3, <1>9, <1>10, <1>11, <1>12 DEF Measured

\* A blank period ends no light; it passes a plane on to the low driver afresh.
LEMMA BlankMeasured ==
    ASSUME TimingInv, Measured, stage \in {"Dark", "Run"}, isBlank, cfg' = cfg, litPeriods' = 0,
           NEW plane, NEW late, Period(plane, late), stage = "Dark" => outLow' = None,
           outHigh' # None => litHigh' = cfg.front_porch + 1
    PROVE  Measured'
<1>1. outHigh = None /\ Sound(cfg)
  BY DEF TimingInv, Starting, Blanking
<1>2. None \notin Bits
  BY <1>1, PlaneSound DEF None
<1>3. onHigh' = onHigh
  BY <1>1, <1>2 DEF Period
<1>4. Bits' = Bits /\ \A b \in Bits : LitHigh(b)' = LitHigh(b) /\ LitLow(b)' = LitLow(b)
  BY DEF Bits, LitHigh, LitLow
<1>5. outLow' \in Bits => litLow' = 0
  <2>1. CASE stage = "Dark"
    BY <1>2, <2>1
  <2>2. CASE stage = "Run"
    <3>1. active[4] \in 1..(active[1] + 1) - 1
      <4>1. /\ active[1] = cfg.blank_period /\ active[4] = cfg.low_strobe_allowance
            /\ cfg.blank_period \in 0..Word - 1 /\ cfg.low_strobe_allowance \in 1..cfg.blank_period
        BY <2>2, <1>1 DEF TimingInv, Blanking, BlankRegs, Sound
      <4> QED  BY <4>1, WordType
    <3> QED  BY <3>1 DEF Period
  <2> QED  BY <2>1, <2>2
<1>6. outLow' \in Bits => litLow' = litPeriods' * LitLow(outLow)'
  <2> SUFFICES ASSUME outLow' \in Bits PROVE 0 = 0 * LitLow(outLow)'
    BY <1>5
  <2>1. \A b \in Bits : LitLow(b) \in Int
    BY <1>1, PlaneSound DEF LitLow
  <2>2. LitLow(outLow)' \in Int
    BY <1>4, <2>1 DEF LitLow
  <2> DEFINE L == LitLow(outLow)'
  <2>3. L \in Int
    BY <2>2
  <2> HIDE DEF L
  <2>4. 0 = 0 * L
    BY <2>3
  <2> QED  BY <2>4 DEF L
<1> QED  BY <1>3, <1>4, <1>6 DEF Measured

\* A plane sent in a blank period is lit from the match on, the front porch and one tick
\* before the period ends.
LEMMA SendLights ==
    ASSUME TimingInv, stage = "Run", isBlank, NEW b \in Bits, NEW late \in Latencies,
           Period(b, late)
    PROVE  litHigh' = cfg.front_porch + 1
<1>1. active = BlankRegs /\ Sound(cfg) /\ outHigh = None
  BY DEF TimingInv, Blanking
<1>2. /\ active[1] = cfg.blank_period /\ active[2] = cfg.blank_period - cfg.front_porch
      /\ cfg.blank_period \in Nat /\ cfg.front_porch \in Nat
      /\ late + Transfer <= active[2] /\ late \in Nat /\ Transfer \in Nat
      /\ active[2] < active[1] + 1
  BY <1>1, TransferAssumption DEF BlankRegs, Sound
<1>3. b # None
  BY <1>1, PlaneSound DEF None
<1>4. outHigh' = b
  BY SendPeriod
<1>5. ~(active[2] < late) /\ ~(active[2] < late + Transfer)
  BY <1>2
<1>6. litHigh' = active[1] + 1 - active[2]
  BY <1>1, <1>2, <1>3, <1>4, <1>5 DEF Period
<1> QED  BY <1>2, <1>6

LEMMA MeasuredStep == TimingInv /\ Measured /\ [Next]_vars => Measured'
<1> SUFFICES ASSUME TimingInv, Measured, [Next]_vars PROVE Measured'
  OBVIOUS
<1>1. CASE FirstInterrupt
  BY <1>1 DEF FirstInterrupt, WriteBlank, out, Measured, Bits, LitHigh, LitLow
<1>2. CASE Lit
  <2>1. stage = "Run" /\ ~isBlank /\ Period(None, 0) /\ cfg' = cfg
    BY <1>2 DEF Lit, WriteBlank, TimingInv, Starting
  <2>2. litPeriods' = litPeriods + 1
    BY <1>2 DEF Lit
  <2> QED  BY <2>1, <2>2, LitMeasured
<1>3. CASE Dark
  <2>1. /\ stage \in {"Dark", "Run"} /\ isBlank /\ bitPos' = NextBit /\ cfg' = cfg
        /\ litPeriods' = 0
    BY <1>3 DEF Dark, WritePlane, TimingInv
  <2>2. bitPos' \in Bits
    BY <2>1, NextBitType DEF TimingInv
  <2>3. PICK late \in Latencies : Period(IF stage = "Dark" THEN None ELSE bitPos', late)
    BY <1>3 DEF Dark
  <2>4. CASE stage = "Dark"
    BY <2>1, <2>3, <2>4, DarkPeriod, BlankMeasured
  <2>5. CASE stage = "Run"
    BY <2>1, <2>2, <2>3, <2>5, SendLights, BlankMeasured
  <2> QED  BY <2>1, <2>4, <2>5
<1>4. CASE Miss
  <2>1. /\ stage = "Run" /\ Period(None, 0) /\ cfg' = cfg
        /\ litPeriods' = IF isBlank THEN 0 ELSE litPeriods + 1
    BY <1>4 DEF Miss
  <2>2. CASE isBlank
    BY <2>1, <2>2, BlankPeriod, BlankMeasured
  <2>3. CASE ~isBlank
    BY <2>1, <2>3, LitMeasured
  <2> QED  BY <2>2, <2>3
<1>5. CASE UNCHANGED vars
  BY <1>5 DEF vars, out, Measured, Bits, LitHigh, LitLow
<1> QED  BY <1>1, <1>2, <1>3, <1>4, <1>5 DEF Next

LEMMA MeasuredCorrect == Spec => []Measured
<1>1. TimingInv /\ Measured /\ [Next]_vars => Measured'
  BY MeasuredStep
<1> QED  BY <1>1, MeasuredInit, TimingCorrect, PTL DEF Spec

-----------------------------------------------------------------------------
\* A configuration whose times run() computes, and whose low driver, with its correction,
\* ends its light before the period ends.
Computed(c) == ~Given(c) /\ c.low_offset_correction <= c.front_porch

\* The arithmetic of the two parts of a plane's light: the front porch, which is lit in
\* the blank period, cancels out, and the least period does not lengthen the light.
LEMMA LightOf ==
    ASSUME NEW c \in Configs, Computed(c), cfg = Configured(c), NEW b \in Bits
    PROVE  /\ cfg.base_divider \in Int /\ 2^b \in Int
           /\ LitHigh(b) = 2 * 2^b * cfg.base_divider + c.high_offset_correction + 1
           /\ LitLow(b) = 2 * 2^b * cfg.base_divider + cfg.low_offset_correction
<1>1. /\ cfg.bit_depth = c.bit_depth /\ cfg.front_porch = c.front_porch
      /\ cfg.base_divider = c.base_divider
      /\ cfg.low_offset_correction = c.low_offset_correction
  BY ConfiguredKeeps
<1>2. /\ c.front_porch \in Int /\ c.base_divider \in Int /\ c.min_unblank_period \in Int
      /\ c.high_offset_correction \in Int /\ c.low_offset_correction \in Int
  BY StructAssumption DEF Struct
<1>3. b \in 0..c.bit_depth - 1 /\ b \in Nat /\ 2^b \in Int
  BY <1>1, StructAssumption DEF Bits, Struct
<1>4. Power(c, b) = 2 * 2^b * c.base_divider /\ Power(c, b) \in Int
  BY <1>2, <1>3 DEF Power
<1>5. /\ cfg.unblank_period_high[b] = PeriodHigh(c, b) + c.front_porch
      /\ cfg.unblank_width_high[b] = WidthHigh(c, b)
      /\ cfg.unblank_period_low[b] = PeriodLow(c, b)
  BY <1>3, StructAssumption DEF Configured, Struct
<1>6. /\ WidthHigh(c, b) = Power(c, b) + c.high_offset_correction - c.front_porch
      /\ PeriodLow(c, b) = Power(c, b) + c.low_offset_correction
      /\ PeriodHigh(c, b) \in Int /\ PeriodHigh(c, b) >= Power(c, b)
  BY <1>2, <1>4 DEF Computed, WidthHigh, PeriodLow, PeriodHigh
<1>7. LitHigh(b) = Power(c, b) + c.high_offset_correction + 1
  BY <1>1, <1>2, <1>4, <1>5, <1>6 DEF LitHigh
<1>8. LitLow(b) = Power(c, b) + c.low_offset_correction
  <2>1. cfg.unblank_period_low[b] < cfg.unblank_period_high[b] + 1
    BY <1>2, <1>4, <1>5, <1>6 DEF Computed
  <2> QED  BY <2>1, <1>5, <1>6 DEF LitLow
<1> QED  BY <1>1, <1>2, <1>3, <1>4, <1>7, <1>8

\* For any configuration of which run() computes the times, and whatever interrupts are late
\* or lost, the high driver lights each plane for twice the time of the next finer one, up
\* to the same constant for all of them.  The low driver lights it for its time in every
\* lit period, so only once if none is repeated (high_current_modulation.c:422-437, 337-344).
THEOREM ProportionCorrect ==
    ASSUME \A c \in Configs : Computed(c)
    PROVE  Spec => []InProportion
<1>1. Measured => InProportion
  <2> SUFFICES ASSUME Measured PROVE InProportion
    OBVIOUS
  <2>1. PICK c \in Configs : cfg = Configured(c)
    BY DEF Measured
  <2>2. c.high_offset_correction \in Int
    BY StructAssumption DEF Struct
  <2>3. \A b \in Bits :
            /\ cfg.base_divider \in Int /\ 2^b \in Int
            /\ LitHigh(b) = 2 * 2^b * cfg.base_divider + c.high_offset_correction + 1
            /\ LitLow(b) = 2 * 2^b * cfg.base_divider + cfg.low_offset_correction
    BY <2>1, LightOf
  <2>4. ASSUME NEW p \in Bits, NEW q \in Bits, onHigh[p] # None, onHigh[q] # None
        PROVE  onHigh[p] - onHigh[q] = (2 * 2^p - 2 * 2^q) * cfg.base_divider
    <3> DEFINE d == cfg.base_divider
               x == 2^p
               y == 2^q
    <3>1. onHigh[p] = LitHigh(p) /\ onHigh[q] = LitHigh(q)
      BY <2>4 DEF Measured
    <3>2. /\ d \in Int /\ x \in Int /\ y \in Int
          /\ LitHigh(p) = 2 * x * d + c.high_offset_correction + 1
          /\ LitHigh(q) = 2 * y * d + c.high_offset_correction + 1
      BY <2>3
    <3> HIDE DEF d, x, y
    <3>3. LitHigh(p) - LitHigh(q) = (2 * x - 2 * y) * d
      BY <3>2, <2>2
    <3> QED  BY <3>1, <3>3 DEF d, x, y
  <2>5. outLow \in Bits =>
            litLow = litPeriods * (2 * 2^outLow * cfg.base_divider + cfg.low_offset_correction)
    BY <2>3 DEF Measured
  <2> QED  BY <2>4, <2>5 DEF InProportion
<1> QED  BY <1>1, MeasuredCorrect, PTL

=============================================================================
