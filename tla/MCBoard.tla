------------------------------ MODULE MCBoard ------------------------------
(***************************************************************************)
(* The application on the board, on small instances for TLC: how it starts *)
(* (Startup), which colours its thread shows (LedColours), and the timers  *)
(* that light the planes (LedTiming).  The three share no variable, so a   *)
(* step of one means the same at any state of the others: each is explored *)
(* while the other two are where they start.                               *)
(***************************************************************************)
EXTENDS LedTiming

CONSTANTS Lines, Levels,                                  \* as in Startup
          BitDepth, RangeScale, Hues, Brightnesses        \* as in LedColours

VARIABLES at, port, remapped, started, pool, created, ran, chip, cc1, cc2, newPower, buck, mode,
          line, level,
          k, j, val

startVars  == <<at, port, remapped, started, pool, created, ran, chip, cc1, cc2, newPower, buck,
                mode, line, level>>
colourVars == <<k, j, val>>

Start   == INSTANCE Startup
Colours == INSTANCE LedColours

-----------------------------------------------------------------------------
Zeros == [i \in 0..9 |-> 0]

\* dazzle_cfg of main.c:54-76.
DazzleCfg ==
    [bit_depth |-> 10, base_divider |-> 48, front_porch |-> 24, min_unblank_period |-> 200,
     high_offset_correction |-> -10, low_offset_correction |-> 0,
     blank_period |-> 0, low_strobe_allowance |-> 0,
     unblank_period_high |-> Zeros, unblank_width_high |-> Zeros, unblank_period_low |-> Zeros]

\* Fewer planes, longer ones, and offsets of either sign.
Dazzles ==
    {DazzleCfg,
     [DazzleCfg EXCEPT !.bit_depth = 9, !.base_divider = 60, !.high_offset_correction = 10],
     [DazzleCfg EXCEPT !.bit_depth = 8, !.base_divider = 100, !.low_offset_correction = -20]}

\* At most so long that a plane arrives before the low driver's match, 2000 - 256.
UpToStrobe == {0, 30, 900, 1744}

-----------------------------------------------------------------------------
\* One start of each is enough for the others: with dazzle_cfg, and with a fresh chip.
TimingWaits  == Init /\ cfg = Configured(DazzleCfg)
StartWaits   == Start!Init /\ chip = Start!ChipReset /\ <<line, level>> = <<1, 1>>
ColoursWait  == Colours!Init

AllInit == /\ Init /\ Start!Init /\ Colours!Init
           /\ TimingWaits \/ StartWaits

AllNext ==
    \/ StartWaits /\ ColoursWait /\ Next /\ UNCHANGED <<startVars, colourVars>>
    \/ TimingWaits /\ ColoursWait /\ Start!Next /\ UNCHANGED <<vars, colourVars>>
    \/ TimingWaits /\ StartWaits /\ Colours!Next /\ UNCHANGED <<vars, startVars>>

AllSpec == AllInit /\ [][AllNext]_<<vars, startVars, colourVars>>

-----------------------------------------------------------------------------
\* No pin ever drives what it is not for, not for a moment (Startup).
NoGlitch == Start!NoGlitch

\* A driver that has been started is connected (Startup).
Connected == Start!Connected

\* What a thread uses when it first runs is ready for it (Startup).
ReadyWhenUsed == Start!ReadyWhenUsed

\* Each LED shows its own colour, and nothing else lights it (LedColours).
EachLedItsColour == Colours!EachLedItsColour
=============================================================================
