----------------------- MODULE HighCurrentModulation -----------------------
(***************************************************************************)
(* src/high_current_modulation.c: the LED modulation.  A thread turns each *)
(* brightness value into bit planes; the interrupt of timer 15 sends one   *)
(* plane after the other to the LED drivers.  They share three buffers:    *)
(* the thread fills the writer's, the interrupt reads the reader's, and a  *)
(* finished one waits as ready while update is set.  The interrupt may     *)
(* strike between any two steps of the thread, and runs to its end.        *)
(* One channel stands for all of them.  The colours and channel maps are   *)
(* in LedColours, the registers of the timers in LedTiming, the current of *)
(* each LED in DotCorrection.                                              *)
(***************************************************************************)
EXTENDS Integers, Sequences

CONSTANTS
    Program,     \* the brightness values the thread asks for one after the other
    BitDepth,    \* cfg->bit_depth
    RangeScale   \* cfg->range_scale

\* A byte shifted by at most 7: a uint16_t of 2^15 or more would overflow val << 16.
Brightness == 0..2^15 - 1

ASSUME ProgramAssumption  == Program \in Seq(Brightness) /\ Program # <<>>
ASSUME BitDepthAssumption == BitDepth \in 1..10
\* It does not divide 2^31, so 2^31 / RangeScale is (2^31 - 1) \div RangeScale.
ASSUME RangeAssumption    == RangeScale \in Nat \ {0} /\ 2147483647 % RangeScale # RangeScale - 1

VARIABLES
    reader, ready, writer,   \* cfg->p: who owns which buffer
    update,                  \* cfg->p.update: the ready buffer is newer than the reader's
    isBlank, bitPos,         \* cfg->p.is_blank, cfg->p.bit_pos
    planes,                  \* cfg->p.data_high and data_low: the planes lit in each buffer
    val,                     \* cfg->val: which value of Program the thread works on
    act, bit, rest,          \* precalc_modulation's act, bit and value_ui
    pc,                      \* where the thread is
    frame                    \* ghost: which value of Program each buffer was last filled with

vars    == <<reader, ready, writer, update, isBlank, bitPos, planes, val, act, bit, rest, pc,
             frame>>
isrVars == <<reader, isBlank, bitPos>>

Buffers == 0..2
Bits    == 0..BitDepth - 1

-----------------------------------------------------------------------------
\* The weights of the high planes in units of 2^16, of the low ones in units of 1:
\* 0x80000000 >> b, and 0x80000000 / range_scale >> b.
HighWeight == [b \in Bits |-> 2^(15 - b)]
LowWeight  == [b \in Bits |-> (2147483647 \div RangeScale) \div 2^b]
Weight     == [high |-> HighWeight, low |-> LowWeight]

-----------------------------------------------------------------------------
Init ==
    /\ reader = 0 /\ ready = 1 /\ writer = 2
    /\ update = FALSE
    /\ isBlank = FALSE /\ bitPos = 0
    /\ planes = [b \in Buffers |-> {}]
    /\ val = 0 /\ act = 0 /\ bit = 0 /\ rest = 0
    /\ pc = "Sleep"
    /\ frame = [b \in Buffers |-> 0]

\* The thread wakes up every 10 ms with the next value; after the last it stays there.
NextValue == IF val < Len(Program) THEN val + 1 ELSE val

Wake ==
    /\ pc = "Sleep"
    /\ val' = NextValue
    /\ act' = writer
    /\ pc' = "Clear"
    /\ UNCHANGED <<isrVars, ready, writer, update, planes, bit, rest, frame>>

\* precalc_modulation: the thread clears its buffer ...
\* Mutant: the old planes stay lit.
ClearNothing ==
    /\ pc = "Clear"
    /\ frame' = [frame EXCEPT ![act] = val]
    /\ bit' = 0 /\ rest' = Program[val]
    /\ pc' = "high"
    /\ UNCHANGED <<isrVars, ready, writer, update, planes, val, act>>
Clear ==
    /\ pc = "Clear"
    /\ planes' = [planes EXCEPT ![act] = {}]
    /\ frame' = [frame EXCEPT ![act] = val]
    /\ bit' = 0 /\ rest' = Program[val]
    /\ pc' = "high"
    /\ UNCHANGED <<isrVars, ready, writer, update, val, act>>

\* ... goes through the weights of the high driver and then of the low one, lights the
\* plane of each weight the rest of the value exceeds, and takes the weight off ...
FillBit(driver, to, scale) ==
    /\ pc = driver
    /\ LET lit  == rest > Weight[driver][bit]
           left == IF lit THEN rest - Weight[driver][bit] ELSE rest
           last == bit = BitDepth - 1
       IN  /\ planes' = IF lit THEN [planes EXCEPT ![act] = @ \cup {<<driver, BitDepth - 1 - bit>>}]
                              ELSE planes
           /\ bit' = IF last THEN 0 ELSE bit + 1
           /\ rest' = IF last THEN left * scale ELSE left
           /\ pc' = IF last THEN to ELSE pc
    /\ UNCHANGED <<isrVars, ready, writer, update, val, act, frame>>
FillHigh == FillBit("high", "low", 65536)
FillLow  == FillBit("low", "Test", 0)

\* ... and publishes it, if the interrupt has taken the one before.
\* Mutant: it publishes in any case.
TestNothing ==
    /\ pc = "Test"
    /\ pc' = "SetWriter"
    /\ UNCHANGED <<isrVars, ready, writer, update, planes, val, act, bit, rest, frame>>
\* Mutant: update is set before the indices are in place.
TestAndSet ==
    /\ pc = "Test"
    /\ pc' = IF update THEN "Sleep" ELSE "SetWriter"
    /\ update' = TRUE
    /\ UNCHANGED <<isrVars, ready, writer, planes, val, act, bit, rest, frame>>
Test ==
    /\ pc = "Test"
    /\ pc' = IF update THEN "Sleep" ELSE "SetWriter"
    /\ UNCHANGED <<isrVars, ready, writer, update, planes, val, act, bit, rest, frame>>

SetWriter ==
    /\ pc = "SetWriter"
    /\ writer' = ready
    /\ pc' = "SetReady"
    /\ UNCHANGED <<isrVars, ready, update, planes, val, act, bit, rest, frame>>

SetReady ==
    /\ pc = "SetReady"
    /\ ready' = act
    /\ pc' = "SetUpdate"
    /\ UNCHANGED <<isrVars, writer, update, planes, val, act, bit, rest, frame>>

\* Mutant: it never says that there is one.
SetNothing ==
    /\ pc = "SetUpdate"
    /\ pc' = "Sleep"
    /\ UNCHANGED <<isrVars, ready, writer, update, planes, val, act, bit, rest, frame>>
SetUpdate ==
    /\ pc = "SetUpdate"
    /\ update' = TRUE
    /\ pc' = "Sleep"
    /\ UNCHANGED <<isrVars, ready, writer, planes, val, act, bit, rest, frame>>

Thread == Wake \/ Clear \/ FillHigh \/ FillLow \/ Test \/ SetWriter \/ SetReady \/ SetUpdate

\* The interrupt at the end of a plane: it blanks the LEDs.
Blank ==
    /\ ~isBlank
    /\ isBlank' = TRUE
    /\ UNCHANGED <<reader, bitPos, ready, writer, update, planes, val, act, bit, rest, pc, frame>>

NextBit == IF bitPos + 1 = BitDepth THEN 0 ELSE bitPos + 1

\* The interrupt at the end of a blank: it takes a newer buffer, if there is one, and
\* sends the next plane of the reader's.
Take == update' = FALSE

Unblank ==
    /\ isBlank
    /\ isBlank' = FALSE
    /\ bitPos' = NextBit
    /\ IF update THEN reader' = ready /\ ready' = reader /\ Take
                 ELSE UNCHANGED <<reader, ready, update>>
    /\ UNCHANGED <<writer, planes, val, act, bit, rest, pc, frame>>

Interrupt == Blank \/ Unblank

Next == Thread \/ Interrupt

Spec == Init /\ [][Next]_vars

-----------------------------------------------------------------------------
\* The thread never fills the buffer the interrupt sends from, nor the one that waits
\* to be sent, whenever the interrupt swaps them (high_current_modulation.c:141-145
\* against 329-336).
Filling == pc \in {"Clear", "high", "low"}
NeverTorn == Filling => act # reader /\ (update => act # ready)

\* The three buffers always have three owners, apart from the moment between the two
\* assignments of a publication, when no newer buffer waits.
Owners == IF pc = "SetReady" THEN {reader, writer, act} ELSE {reader, ready, writer}
ThreeOwners == Owners = Buffers /\ (pc \in {"SetWriter", "SetReady", "SetUpdate"} => ~update)

\* The LEDs never go back to an older value.
NeverBackwards == [][frame'[reader'] >= frame[reader]]_vars

\* What the heaviest n planes of a driver add up to, of those that are lit.
Shine(driver, lit) ==
    LET heaviest[n \in 0..BitDepth] ==
            IF n = 0 THEN 0
            ELSE heaviest[n - 1]
                 + (IF <<driver, BitDepth - n>> \in lit THEN Weight[driver][n - 1] ELSE 0)
    IN  heaviest

\* The planes of the buffer being sent add up to the value it was filled with, to within
\* twice the weight of the low driver's finest plane (high_current_modulation.c:112-138).
ShownIsValue ==
    LET v    == IF frame[reader] = 0 THEN 0 ELSE Program[frame[reader]]
        over == v - Shine("high", planes[reader])[BitDepth]
    IN  /\ over \in 0..2^(16 - BitDepth)
        /\ over * 65536 - Shine("low", planes[reader])[BitDepth] \in 0..2 * LowWeight[BitDepth - 1]

\* The triple buffer implements a mailbox for one value: each of its steps puts the
\* newest value there, whole, or shows the one that waits, or changes nothing that can be
\* seen (high_current_modulation.c:141-145, 329-336).
Mailbox == INSTANCE LatestValue WITH
    None    <- -1,
    made    <- val,
    waiting <- IF update THEN frame[ready] ELSE -1,
    shown   <- frame[reader]
MailboxSpec == Mailbox!Spec

\* The thread sleeps for a bounded time and the timer goes on: the last value is shown
\* in the end, although the thread drops what it has computed while update is set.
FairSpec == Spec /\ WF_vars(Thread) /\ WF_vars(Interrupt)
LastShown == <>[](frame[reader] = Len(Program))

=============================================================================
