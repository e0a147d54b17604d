------------------------------ MODULE LedTiming ------------------------------
(***************************************************************************)
(* src/high_current_modulation.c: for how long a plane is lit.  Timer 15   *)
(* makes the periods, one of blanking before each plane, and resets timer  *)
(* 1 with every one of them.  Its interrupt writes the registers of the    *)
(* NEXT period, for both timers reload at an update only, and sends the    *)
(* plane's bits to the drivers.  The outputs are not lit by the interrupt  *)
(* but by compare matches: that of timer 15 passes the high driver's shift *)
(* register on to its outputs, the first of timer 1 does so for the low    *)
(* driver, and the third of timer 1 ends the light of the low driver and   *)
(* the clearing of the high driver's shift register, which so is empty     *)
(* when the match of a lit period comes.  Times are ticks of the timers.   *)
(***************************************************************************)
EXTENDS Integers

CONSTANTS
    Configs,     \* the struct high_current_modulation_cfg's it is run with
    Transfer,    \* how long the SPI takes for a plane: 4 bytes at 1/16 of the clock
    Latencies,   \* how long an interrupt may be held off by others
    MaxLost      \* bound: interrupts lost in a row while a plane is lit

None == -1       \* no output lit
Torn == -2       \* a plane passed on while it is being sent

VARIABLES
    cfg,               \* the configuration, with the tables run() fills in
    arr, ccr1,         \* TIM15->ARR, CCR1 as written
    ccr3, strobe,      \* TIM1->CCR3, CCR1 as written
    active,            \* the values of the four the timers work with in this period
    isBlank, bitPos,   \* cfg->p.is_blank, cfg->p.bit_pos
    shiftHigh,         \* the plane in the high driver's shift register
    shiftLow,          \* ... in the low driver's
    outHigh, outLow,   \* the planes at their outputs
    stage,             \* "Start" before the first interrupt, "Dark" before the second, "Run"
    litHigh,           \* ghost: for how long outHigh has been lit
    onHigh,            \* ghost: for how long the high driver last lit each plane
    litLow,            \* ghost: for how long outLow has been lit since it was passed on
    litPeriods         \* ghost: how many lit periods have ended since then

regs  == <<arr, ccr1, ccr3, strobe>>
out   == <<shiftHigh, shiftLow, outHigh, outLow, litHigh, onHigh, litLow, litPeriods>>
vars  == <<cfg, regs, active, isBlank, bitPos, out, stage>>

Bits == 0..cfg.bit_depth - 1

-----------------------------------------------------------------------------
\* The members of struct high_current_modulation_cfg that the timers' registers are made
\* from, all of them ints, bit_depth a size_t.
Struct ==
    [bit_depth : Nat, base_divider : Int, front_porch : Int, min_unblank_period : Int,
     high_offset_correction : Int, low_offset_correction : Int,
     blank_period : Int, low_strobe_allowance : Int,
     unblank_period_high : [0..9 -> Int], unblank_width_high : [0..9 -> Int],
     unblank_period_low : [0..9 -> Int]]

\* run() fills in what the configuration leaves at zero.
Power(c, i) == 2 * 2^i * c.base_divider

Given(c) == c.unblank_period_high[0] # 0

PeriodHigh(c, i) ==
    CASE Given(c)                          -> c.unblank_period_high[i]
      [] ~Given(c) /\ Power(c, i) < c.min_unblank_period -> c.min_unblank_period
      [] OTHER                             -> Power(c, i)

\* Mutant: the time the plane is lit before its period begins is not taken off.
WidthHighFull(c, i) ==
    IF Given(c) THEN c.unblank_width_high[i]
    ELSE (IF Power(c, i) < c.min_unblank_period THEN c.min_unblank_period ELSE Power(c, i))
         + c.high_offset_correction - c.front_porch
WidthHigh(c, i) ==
    IF Given(c) THEN c.unblank_width_high[i]
    ELSE Power(c, i) + c.high_offset_correction - c.front_porch

PeriodLow(c, i) ==
    IF Given(c) THEN c.unblank_period_low[i] ELSE Power(c, i) + c.low_offset_correction

Strobe(c) == IF c.low_strobe_allowance = 0 THEN 2000 ELSE c.low_strobe_allowance

Configured(c) ==
    LET bits == 0..c.bit_depth - 1
    IN  [c EXCEPT
            !.blank_period         = IF @ = 0 THEN 100 * c.base_divider ELSE @,
            !.low_strobe_allowance = Strobe(c),
            !.unblank_period_high  = [i \in bits |-> PeriodHigh(c, i) + c.front_porch],
            !.unblank_width_high   = [i \in bits |-> WidthHigh(c, i)],
            !.unblank_period_low   = [i \in bits |-> PeriodLow(c, i)]]

\* ARR and the CCRs of both timers have 16 bits.
Word       == 65536
Written(n) == n % Word

\* What a configuration needs: the registers hold its times; in a blank period a plane has
\* arrived before the matches that pass it on, all of which come within the period; in a
\* lit one the high driver's match does, and the low driver is lit at all.
Sound(g) ==
    /\ g.bit_depth \in 1..10
    /\ g.blank_period \in 0..Word - 1 /\ g.front_porch \in 0..g.blank_period
    /\ g.low_strobe_allowance \in 1..g.blank_period
    /\ \A late \in Latencies :
        /\ late + Transfer <= g.blank_period - g.front_porch
        /\ late + Transfer <= g.low_strobe_allowance
    /\ \A i \in 0..g.bit_depth - 1 :
        /\ g.unblank_period_high[i] \in 0..Word - 1
        /\ g.unblank_width_high[i] \in 0..g.unblank_period_high[i]
        /\ g.unblank_period_low[i] \in 1..Word - 1

ASSUME TransferAssumption == Transfer \in Nat /\ Latencies \subseteq Nat
ASSUME BoundAssumption    == MaxLost \in Nat
ASSUME StructAssumption   == Configs \subseteq Struct
ASSUME ConfigsAssumption  == \A c \in Configs : Sound(Configured(c))

\* Timer 15 starts with periods of 25 ticks, shorter than an interrupt takes.
Init ==
    \E c \in Configs :
        /\ cfg = Configured(c)
        /\ arr = 24 /\ ccr1 = 0 /\ ccr3 = 0 /\ strobe = 24
        /\ active = <<24, 0, 0, 24>>
        /\ isBlank = FALSE /\ bitPos = 0
        /\ shiftHigh = None /\ shiftLow = None /\ outHigh = None /\ outLow = None
        /\ litHigh = 0 /\ litLow = 0 /\ litPeriods = 0
        /\ onHigh = [b \in 0..c.bit_depth - 1 |-> None]
        /\ stage = "Start"

-----------------------------------------------------------------------------
\* What the drivers do in one period, when `plane` is sent to them from tick `late` on.
Period(plane, late) ==
    LET length   == active[1] + 1
        matchH   == active[2]
        cleared  == active[3]
        matchL   == active[4]
        \* What a shift register passes on at tick t, that held `old` before.
        Passed(old, t) == CASE plane = None \/ t < late -> old
                            [] plane # None /\ t \in late..late + Transfer - 1 -> Torn
                            [] OTHER -> plane
        emptied  == IF cleared > 0 THEN None ELSE shiftHigh
        next     == Passed(emptied, matchH)
        lit      == litHigh + (IF matchH < length THEN matchH ELSE length)
    IN  /\ shiftHigh' = IF plane # None THEN plane ELSE emptied
        /\ shiftLow' = IF plane # None THEN plane ELSE shiftLow
        /\ outHigh' = IF matchH < length THEN next ELSE outHigh
        /\ litHigh' = IF outHigh' = None THEN 0
                      ELSE CASE matchH >= length                    -> lit
                             [] matchH < length /\ next = outHigh -> litHigh + length
                             [] OTHER                               -> length - matchH
        /\ onHigh' = IF matchH < length /\ next # outHigh /\ outHigh \in Bits
                     THEN [onHigh EXCEPT ![outHigh] = lit] ELSE onHigh
        /\ outLow' = IF matchL \in 1..length - 1 THEN Passed(shiftLow, matchL) ELSE outLow
        /\ litLow' = IF matchL \in 1..length - 1 THEN 0
                     ELSE litLow + (IF cleared < length THEN cleared ELSE length)

\* The interrupt in a lit period: the next one is blank.
\* Mutant: the front porch is at the beginning of it, not at its end.
WriteBlankEarly ==
    /\ isBlank' = TRUE
    /\ arr' = Written(cfg.blank_period)
    /\ ccr1' = Written(cfg.front_porch)
    /\ ccr3' = 0
    /\ strobe' = Written(cfg.low_strobe_allowance)
    /\ UNCHANGED <<cfg, bitPos>>
WriteBlank ==
    /\ isBlank' = TRUE
    /\ arr' = Written(cfg.blank_period)
    /\ ccr1' = Written(cfg.blank_period - cfg.front_porch)
    /\ ccr3' = 0
    /\ strobe' = Written(cfg.low_strobe_allowance)
    /\ UNCHANGED <<cfg, bitPos>>

NextBit == IF bitPos + 1 = cfg.bit_depth THEN 0 ELSE bitPos + 1

\* The interrupt in a blank period: the next one shows the next plane.
\* Mutant: it writes the times of the plane before.
WriteLastPlane ==
    /\ isBlank' = FALSE
    /\ bitPos' = NextBit
    /\ arr' = Written(cfg.unblank_period_high[bitPos])
    /\ ccr1' = Written(cfg.unblank_width_high[bitPos])
    /\ ccr3' = Written(cfg.unblank_period_low[bitPos])
    /\ strobe' = 0
    /\ UNCHANGED cfg
WritePlane ==
    /\ isBlank' = FALSE
    /\ bitPos' = NextBit
    /\ arr' = Written(cfg.unblank_period_high[bitPos'])
    /\ ccr1' = Written(cfg.unblank_width_high[bitPos'])
    /\ ccr3' = Written(cfg.unblank_period_low[bitPos'])
    /\ strobe' = 0
    /\ UNCHANGED cfg

\* The first interrupt takes longer than a period: the timers reload with the first n of
\* its registers written, the others follow with the next period.
FirstInterrupt ==
    /\ stage = "Start"
    /\ stage' = "Dark"
    /\ WriteBlank
    /\ \E n \in 1..4 : active' = [i \in 1..4 |-> IF i <= n THEN <<arr', ccr1', ccr3', strobe'>>[i]
                                                 ELSE active[i]]
    /\ UNCHANGED out

\* A lit period, and the update at its end.
Lit ==
    /\ stage # "Start" /\ ~isBlank
    /\ WriteBlank
    /\ Period(None, 0)
    /\ litPeriods' = litPeriods + 1
    /\ active' = <<arr', ccr1', ccr3', strobe'>>
    /\ UNCHANGED stage

\* A blank one.  The planes sent by the second interrupt are dark, the thread that fills
\* them has not been created yet.
Dark ==
    /\ stage # "Start" /\ isBlank
    /\ WritePlane
    /\ \E late \in Latencies : Period(IF stage = "Dark" THEN None ELSE bitPos', late)
    /\ litPeriods' = 0
    /\ active' = <<arr', ccr1', ccr3', strobe'>>
    /\ stage' = "Run"

\* The interrupt is held off for a whole period: the period repeats itself.  A blank one
\* passes the low driver's plane on again, a lit one lights it again.
Miss ==
    /\ stage = "Run"
    /\ ~isBlank => litPeriods < MaxLost
    /\ Period(None, 0)
    /\ litPeriods' = IF isBlank THEN 0 ELSE litPeriods + 1
    /\ active' = regs
    /\ UNCHANGED <<cfg, regs, isBlank, bitPos, stage>>

Next == FirstInterrupt \/ Lit \/ Dark \/ Miss

Spec == Init /\ [][Next]_vars

-----------------------------------------------------------------------------
\* In a lit period the plane at the outputs is the one whose times the timers run with,
\* although the times are written a period, and the plane is sent a blanking, earlier; in
\* a blank period the high driver, which nothing blanks, is dark
\* (high_current_modulation.c:318-347).
PlaneHasItsTimes ==
    /\ active[3] > 0 /\ outHigh # None =>
            /\ active[2] = cfg.unblank_width_high[outHigh]
            /\ active[1] = cfg.unblank_period_high[outHigh]
    /\ active[3] > 0 /\ outLow # None => active[3] = cfg.unblank_period_low[outLow]
    /\ stage = "Run" /\ active[3] = 0 => outHigh = None

\* No plane is passed on to the outputs while it is being sent (low_strobe_allowance and
\* front_porch against the latency of the interrupt).
NeverTorn == outHigh # Torn /\ outLow # Torn

\* Each plane is lit for twice the time of the next finer one, up to the same constant
\* for all.  The high driver's time is put together from the end of the blank period and
\* the beginning of the lit one, and is the same if that one is repeated; the low driver's
\* comes again with every repetition, so that it is the plane's time only if no interrupt
\* was lost in its lit period (high_current_modulation.c:422-437, 337-344).
InProportion ==
    /\ \A p, q \in Bits : onHigh[p] # None /\ onHigh[q] # None =>
            onHigh[p] - onHigh[q] = (2 * 2^p - 2 * 2^q) * cfg.base_divider
    /\ outLow \in Bits =>
            litLow = litPeriods * (2 * 2^outLow * cfg.base_divider + cfg.low_offset_correction)

=============================================================================
