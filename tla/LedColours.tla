----------------------------- MODULE LedColours -----------------------------
(***************************************************************************)
(* src/high_current_modulation.c: what the modulation thread shows.  Every *)
(* 10 ms it takes the next hue, after a round of hues the next brightness, *)
(* and hands the colour to nine RGB LEDs.  precalc_modulation splits each  *)
(* of their 27 channels between the outputs of a high and a low current    *)
(* driver, through the channel maps of src/main.c.  When the planes are    *)
(* shown is HighCurrentModulation's matter, for how long LedTiming's.      *)
(***************************************************************************)
EXTENDS Integers, FiniteSetsExt

CONSTANTS
    BitDepth,       \* cfg->bit_depth, of 1..10
    RangeScale,     \* cfg->range_scale, which does not divide 2^31
    Hues,           \* the hues of a round, 360
    Brightnesses    \* the brightnesses, 8: the colour is shifted by 0..7 bits

VARIABLES
    k, j,        \* the thread's hue and brightness
    val          \* cfg->val

vars == <<k, j, val>>

ChannelCount == 32
Channels     == 0..ChannelCount - 1
Leds         == 0..8
Outputs      == 0..31    \* the bit i % 8 of the register i / 8 of a driver

\* The channel maps: what a driver's output shows.  The channels from 27 on are for
\* debugging and share one output.
\* Mutant: three entries of the table are one too high.
highChannelMapSlip ==
    [i \in Channels |->
        CASE i = 0 -> 0 [] i = 1 -> 7 [] i = 2 -> 8
          [] i \in 3..5   -> i + 9
          [] i \in 6..8   -> i + 3
          [] i \in 9..11  -> i + 11
          [] i \in 12..14 -> i + 6
          [] i \in 15..20 -> i - 14
          [] i \in 21..26 -> i + 4
          [] OTHER        -> 31]
highChannelMap ==
    [i \in Channels |->
        CASE i = 0 -> 0 [] i = 1 -> 7 [] i = 2 -> 8
          [] i \in 3..5   -> i + 9
          [] i \in 6..8   -> i + 3
          [] i \in 9..11  -> i + 11
          [] i \in 12..14 -> i + 5
          [] i \in 15..20 -> i - 14
          [] i \in 21..26 -> i + 4
          [] OTHER        -> 31]

lowChannelMap ==
    [i \in Channels |->
        CASE i = 0 -> 8 [] i \in 1..2 -> i - 1
          [] i \in 3..5   -> i + 10
          [] i \in 6..8   -> i + 4
          [] i \in 9..11  -> i + 10
          [] i \in 12..14 -> i + 4
          [] i \in 15..20 -> i - 13
          [] i \in 21..26 -> i + 5
          [] OTHER        -> 9]

-----------------------------------------------------------------------------
\* HSV2RGB at full saturation.  The hue is stored in a uint8_t; six segments make the
\* circle, and in each of them one component ramps up or down.
Ramp(rf) == 255 - rf

Within(hue) == (6 * hue) % 256

HSV2RGB(h) ==
    LET hue  == h % 256
        up   == (255 * 255 * Within(hue)) \div 65536
        down == Ramp(up)
    IN  CASE (6 * hue) \div 256 = 0 -> <<255, up, 0>>
          [] (6 * hue) \div 256 = 1 -> <<down, 255, 0>>
          [] (6 * hue) \div 256 = 2 -> <<0, 255, up>>
          [] (6 * hue) \div 256 = 3 -> <<0, down, 255>>
          [] (6 * hue) \div 256 = 4 -> <<up, 0, 255>>
          [] (6 * hue) \div 256 = 5 -> <<255, 0, down>>

\* The components shifted to the brightness, as the uint16_t of cfg->val.
Value(component, brightness) == (component * 2^brightness) % 65536

-----------------------------------------------------------------------------
Init ==
    /\ k = 0 /\ j = 0
    /\ val = [i \in Channels |-> 0]

NextBrightness == IF j + 1 >= Brightnesses THEN 0 ELSE j + 1

\* Another 10 ms have passed.
Wake ==
    /\ k' = IF k + 1 >= Hues THEN 0 ELSE k + 1
    /\ j' = IF k + 1 >= Hues THEN NextBrightness ELSE j
    /\ val' = [i \in Channels |-> IF i \div 3 \in Leds THEN Value(HSV2RGB(k')[(i % 3) + 1], j') ELSE 0]

Next == Wake

Spec == Init /\ [][Next]_vars

-----------------------------------------------------------------------------
\* precalc_modulation's planes: greedily, from the heaviest weight down, the planes in
\* which a driver's output is lit for a value, and what is left of the value.
Bits == 0..BitDepth - 1

\* 2^31 \div RangeScale, for which TLC's integers are too small.
Heaviest == [high |-> 32768, low |-> 2147483647 \div RangeScale]
Weight(driver, b) == Heaviest[driver] \div 2^b

Left(driver, value) ==
    LET left[b \in 0..BitDepth] ==
            IF b = 0 THEN value
            ELSE LET rest == left[b - 1]
                     w    == Weight(driver, b - 1)
                 IN  IF rest > w THEN rest - w ELSE rest
    IN  left

PlanesOf(driver, value) ==
    LET left == Left(driver, value)
    IN  {BitDepth - 1 - b : b \in {c \in Bits : left[c] # left[c + 1]}}

\* The planes an output of a driver is lit in: those of all the channels mapped to it.
LitHigh(o) == UNION {PlanesOf("high", val[i]) : i \in {c \in Channels : highChannelMap[c] = o}}
LitLow(o)  == UNION {PlanesOf("low", Left("high", val[i])[BitDepth] * 65536)
                        : i \in {c \in Channels : lowChannelMap[c] = o}}

Sum(driver, planes) == MapThenSumSet(LAMBDA p : Weight(driver, BitDepth - 1 - p), planes)

-----------------------------------------------------------------------------
\* A value stays below 2^15: value << 16 is an int, and a larger one would overflow it
\* and be taken for a huge unsigned one (high_current_modulation.c:112,
\* HighCurrentModulation's Brightness).
ValuesFit == \A i \in Channels : val[i] \in 0..32767

\* What the two outputs of a channel emit together is the channel's value, to within the
\* finest planes, whatever its neighbours show: no channel lights another one's output,
\* and an output no channel uses stays dark (high_current_modulation.c:115-138 with
\* main.c:77-156).
NoCrosstalk ==
    /\ \A i \in 0..26 :
        LET over == val[i] - Sum("high", LitHigh(highChannelMap[i]))
        IN  /\ over \in 0..2^(16 - BitDepth)
            /\ over * 65536 - Sum("low", LitLow(lowChannelMap[i]))
                    \in 0..2 * Weight("low", BitDepth - 1)
    /\ \A o \in Outputs :
        /\ o \notin {highChannelMap[i] : i \in 0..26} => LitHigh(o) = {}
        /\ o \notin {lowChannelMap[i] : i \in 0..26} => LitLow(o) = {}

\* Every LED shows a pure hue of the present brightness: one component is at its most,
\* one is off (high_current_modulation.c:150-168).
PureHue ==
    val # [i \in Channels |-> 0] =>
        \A l \in Leds : {0, 255 * 2^j} \subseteq {val[3 * l], val[3 * l + 1], val[3 * l + 2]}

\* Each LED shows its own colour: the outputs its channels are mapped to emit, in planes,
\* a pure hue of the present brightness, and nothing else lights them, for every hue and
\* brightness of the thread's round (high_current_modulation.c:88-215, main.c:77-156).
EachLedItsColour == ValuesFit /\ NoCrosstalk /\ PureHue

=============================================================================
