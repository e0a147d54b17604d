------------------------------- MODULE Startup -------------------------------
(***************************************************************************)
(* From reset to the running system: __early_init of board.c writes the    *)
(* ports' registers, main() of main.c starts the drivers, the USB-PD       *)
(* library (pdb_init, fusb_setup) and the two threads of its own.  Every   *)
(* thread has a lower priority than main, so it first runs when main waits *)
(* for an I2C transfer or sleeps, long after it was created.               *)
(***************************************************************************)
EXTENDS Board, SequencesExt

CONSTANTS Lines,    \* the CC lines the source may be on, of {1, 2}
          Levels    \* what BC_LVL may read on it, of 1..3; the other line reads 0

VARIABLES
    at,                  \* the step main() comes to next
    port,                \* the registers of the ports
    remapped,            \* SYSCFG_CFGR1_SPI2_DMA_RMP
    started,             \* the drivers main() has started
    pool,                \* pdb_msg_pool_init has run
    created, ran,        \* the threads, in order of creation, and those that have run
    chip,                \* the FUSB302B's registers
    cc1, cc2,            \* fusb_setup's measurements
    newPower,            \* PDB_EVT_PE_NEW_POWER has been signalled
    buck, mode,          \* the levels of LINE_BIGBUCK_EN and LINE_TLC_MODE
    line, level          \* the source's CC line, and its BC_LVL

setup == <<port, remapped, started, pool>>
fusb  == <<chip, cc1, cc2>>
env   == <<line, level>>
vars  == <<at, setup, created, ran, fusb, newPower, buck, mode, env>>

Threads == {"PE", "RX", "TX", "HR", "INT_N", "PGOV", "HCM"}

\* priorities.h and dazzle.h, with main at NORMALPRIO = 0.
Priority(t) ==
    CASE t \in {"PE", "PGOV", "HCM"} -> -1 [] t \in {"RX", "TX", "HR"} -> -2 [] t = "INT_N" -> -3

-----------------------------------------------------------------------------
(* The program of main() up to its endless loop, one step after the other.  *)

Step(do, x, v) == [do |-> do, x |-> x, v |-> v]

\* gpio_init; the speed of the outputs is left out.
\* Mutant: the pins are switched before they know to what.
GpioInitModeFirst(p) ==
    <<Step("port", p, "moder"), Step("port", p, "otyper"), Step("port", p, "pupdr"),
      Step("port", p, "odr"), Step("port", p, "afrl"), Step("port", p, "afrh")>>
GpioInit(p) ==
    <<Step("port", p, "otyper"), Step("port", p, "pupdr"), Step("port", p, "odr"),
      Step("port", p, "afrl"), Step("port", p, "afrh"), Step("port", p, "moder")>>

Write(register, bits) == Step("write", register, bits)

FusbSetup ==
    <<Write("RESET", {"SW_RES"}), Write("POWER", {"PWR0", "PWR1", "PWR2", "PWR3"}),
      Write("MASK1", {}), Write("MASKA", {}), Write("MASKB", {}), Write("CONTROL0", {"HOST_CUR0"}),
      Write("CONTROL3", {"AUTO_RETRY", "N_RETRIES0", "N_RETRIES1"}),
      Write("CONTROL1", {"RX_FLUSH"}),
      Write("SWITCHES0", {"PDWN_1", "PDWN_2", "MEAS_CC1"}), Step("measure", 1, {}),
      Write("SWITCHES0", {"PDWN_1", "PDWN_2", "MEAS_CC2"}), Step("measure", 2, {}),
      Step("select1", 0, {}), Step("select0", 0, {}),
      Write("RESET", {"PD_RESET"})>>

Create(t) == Step("create", t, {})

\* Mutant: the threads come before the chip, whose set-up lets them run.
PdbInitThreadsFirst ==
    <<Step("pool", 0, {}), Create("PE"), Create("RX"), Create("TX"), Create("HR"), Create("INT_N")>>
        \o FusbSetup
PdbInit ==
    <<Step("pool", 0, {})>> \o FusbSetup
        \o <<Create("PE"), Create("RX"), Create("TX"), Create("HR"), Create("INT_N")>>

\* dazzle_high_current_modulation_run: tlc_mode is set while the dot correction is loaded.
HcmRun ==
    <<Step("start", "SPI2", {}), Step("start", "SPI1", {}), Step("start", "TIM15", {}),
      Step("start", "TIM1", {}), Step("mode", TRUE, {}), Step("sleep", 5, {}),
      Step("mode", FALSE, {}), Create("HCM")>>

\* Mutant: the remap is forgotten.
SysConfigNothing == <<>>
SysConfig        == <<Step("remap", 0, {})>>

Program ==
    GpioInit("A") \o GpioInit("B") \o GpioInit("C") \o SysConfig
    \o <<Step("start", "I2C2", {}), Step("sleep", 100, {})>>
    \o PdbInit
    \o <<Step("sleep", 100, {}), Step("signal", "PE", {}), Create("PGOV")>>
    \o HcmRun

-----------------------------------------------------------------------------
\* Out of reset all pins are inputs but the debugger's, and outputs are low.
PortReset(p) ==
    [moder |-> [n \in Pins |-> IF p = "A" /\ n \in {Pin.SWDIO, Pin.SWCLK} THEN "alternate"
                               ELSE "input"],
     pupdr |-> [n \in Pins |-> CASE p = "A" /\ n = Pin.SWDIO -> "up"
                                 [] p = "A" /\ n = Pin.SWCLK -> "down" [] OTHER -> "floating"],
     odr   |-> {}, otyper |-> {}, afrl |-> [n \in 0..7 |-> 0], afrh |-> [n \in 0..7 |-> 0]]

\* The chip is not reset with the microcontroller: it still has what an earlier run wrote.
Registers == {"POWER", "MASK1", "MASKA", "MASKB", "CONTROL0", "CONTROL1", "CONTROL3",
              "SWITCHES0", "SWITCHES1"}
ChipReset ==
    [r \in Registers |-> CASE r = "POWER" -> {"PWR0"} [] r = "CONTROL0" -> {"INT_MASK", "HOST_CUR0"}
                           [] r = "CONTROL3" -> {"N_RETRIES0", "N_RETRIES1"}
                           [] r = "SWITCHES0" -> {"PDWN_1", "PDWN_2"}
                           [] r = "SWITCHES1" -> {"SPECREV0"} [] OTHER -> {}]
Selected(l) == IF l = 1 THEN {"TXCC1", "AUTO_CRC", "SPECREV0"} ELSE {"TXCC2", "AUTO_CRC", "SPECREV0"}
Measuring(l) == {"PDWN_1", "PDWN_2"} \cup (IF l = 1 THEN {"MEAS_CC1"} ELSE {"MEAS_CC2"})

Init ==
    /\ at = 1
    /\ port = [p \in Ports |-> PortReset(p)]
    /\ remapped = FALSE /\ started = {} /\ pool = FALSE
    /\ created = <<>> /\ ran = {}
    /\ \E l \in {1, 2} :
        chip \in {ChipReset, [ChipReset EXCEPT !.SWITCHES0 = Measuring(l), !.SWITCHES1 = Selected(l),
                                               !.CONTROL0 = {"HOST_CUR0"}]}
    /\ cc1 = 0 /\ cc2 = 0
    /\ newPower = FALSE /\ buck = FALSE /\ mode = FALSE
    /\ line \in Lines /\ level \in Levels

Here  == Program[at]
Does(do) == at <= Len(Program) /\ Here.do = do

\* Threads that go before main run to their first wait as soon as they are created.
Ahead == \E t \in ToSet(created) \ ran : Priority(t) > 0
Done  == ~Ahead /\ at' = at + 1

\* One register of a port.
SetPort ==
    /\ Does("port") /\ Done
    /\ LET p == Here.x
           value == CASE Here.v = "otyper" -> {} [] Here.v = "pupdr" -> PullsOf(p)
                      [] Here.v = "odr" -> OutputsOf(p) [] Here.v = "afrl" -> AFRL(p)
                      [] Here.v = "afrh" -> AFRH(p) [] Here.v = "moder" -> ModeOf(p)
       IN  port' = [port EXCEPT ![p][Here.v] = value]
    /\ UNCHANGED <<remapped, started, pool, created, ran, fusb, newPower, buck, mode, env>>

Remap ==
    /\ Does("remap") /\ Done
    /\ remapped' = TRUE
    /\ UNCHANGED <<port, started, pool, created, ran, fusb, newPower, buck, mode, env>>

Start ==
    /\ Does("start") /\ Done
    /\ started' = started \cup {Here.x}
    /\ UNCHANGED <<port, remapped, pool, created, ran, fusb, newPower, buck, mode, env>>

InitPool ==
    /\ Does("pool") /\ Done
    /\ pool' = TRUE
    /\ UNCHANGED <<port, remapped, started, created, ran, fusb, newPower, buck, mode, env>>

CreateThread ==
    /\ Does("create") /\ Done
    /\ created' = Append(created, Here.x)
    /\ UNCHANGED <<setup, ran, fusb, newPower, buck, mode, env>>

Sleep ==
    /\ Does("sleep") /\ Done
    /\ UNCHANGED <<setup, created, ran, fusb, newPower, buck, mode, env>>

Signal ==
    /\ Does("signal") /\ Done
    /\ newPower' = TRUE
    /\ UNCHANGED <<setup, created, ran, fusb, buck, mode, env>>

SetMode ==
    /\ Does("mode") /\ Done
    /\ mode' = Here.x
    /\ UNCHANGED <<setup, created, ran, fusb, newPower, buck, env>>

\* A register of the chip; SW_RES resets them all, PD_RESET none.
WriteChip ==
    /\ Does("write") /\ Done
    /\ chip' = CASE Here.x # "RESET" -> [chip EXCEPT ![Here.x] = Here.v]
                 [] Here.x = "RESET" /\ "SW_RES" \in Here.v -> ChipReset
                 [] OTHER -> chip
    /\ UNCHANGED <<setup, created, ran, cc1, cc2, newPower, buck, mode, env>>

\* BC_LVL of the line that is being measured.
Measured == IF chip.SWITCHES0 = Measuring(line) THEN level ELSE 0

Measure ==
    /\ Does("measure") /\ Done
    /\ cc1' = IF Here.x = 1 THEN Measured ELSE cc1
    /\ cc2' = IF Here.x = 2 THEN Measured ELSE cc2
    /\ UNCHANGED <<setup, created, ran, chip, newPower, buck, mode, env>>

Better == IF cc1 > cc2 THEN 1 ELSE 2

Select ==
    /\ Does("select1") \/ Does("select0")
    /\ Done
    /\ chip' = IF Here.do = "select1" THEN [chip EXCEPT !.SWITCHES1 = Selected(Better)]
               ELSE [chip EXCEPT !.SWITCHES0 = Measuring(Better)]
    /\ UNCHANGED <<setup, created, ran, cc1, cc2, newPower, buck, mode, env>>

\* A thread runs for the first time: while main waits, or at once if it goes before main,
\* after those of higher priority and those of its own that were created earlier.
MainWaits ==
    at <= Len(Program) => Here.do \in {"write", "measure", "select1", "select0", "sleep"}

Run(t) ==
    /\ t \in ToSet(created) \ ran
    /\ MainWaits \/ Priority(t) > 0
    /\ \A u \in ToSet(created) \ ran :
        \/ Priority(u) < Priority(t)
        \/ Priority(u) = Priority(t) /\ \A i, k \in DOMAIN created :
                created[i] = u /\ created[k] = t => i >= k
    /\ ran' = ran \cup {t}
    /\ UNCHANGED <<at, setup, created, fusb, newPower, buck, mode, env>>

\* The power governor: every two seconds it switches the big buck converter.
Switch ==
    /\ "PGOV" \in ran /\ MainWaits
    /\ buck' = ~buck
    /\ UNCHANGED <<at, setup, created, ran, fusb, newPower, mode, env>>

Main == \/ SetPort \/ Remap \/ Start \/ InitPool \/ CreateThread \/ Sleep \/ Signal \/ SetMode
        \/ WriteChip \/ Measure \/ Select

Next == Main \/ Switch \/ \E t \in Threads : Run(t)

Spec == Init /\ [][Next]_vars

-----------------------------------------------------------------------------
\* What a port drives its pin n with: an alternate function, a level, or nothing.
Drives(p, n) ==
    LET r == port[p]
    IN  CASE r.moder[n] = "alternate" ->
                <<"alternate", IF n < 8 THEN r.afrl[n] ELSE r.afrh[n - 8]>>
          [] r.moder[n] = "output" -> <<"level", n \in r.odr>>
          [] OTHER -> <<"nothing", 0>>

\* No pin ever drives what it is not for, not for the moment between two writes to its
\* port: once it drives anything it is its own function, with its own pull, and
\* outputs start low (board.c:144-152 with board.h:174-275).
NoGlitch ==
    \A p \in Ports, n \in Pins :
        Drives(p, n)[1] # "nothing" =>
            /\ Drives(p, n) = IF n \in Outputs[p] THEN <<"level", FALSE>>
                              ELSE <<"alternate", AlternateOf(p, n)>>
            /\ port[p].pupdr[n] = PullsOf(p)[n]

\* A driver that has been started is connected: its signals are at pins that have been
\* switched to them, the DMA streams it has allocated are those its requests reach, and
\* no two drivers have one in common (mcuconf.h:131-204, main.c:210-212, board.h).
Connected ==
    \A d \in started :
        /\ \A s \in Signals[d] : Drives(s[1], s[2]) = <<"alternate", s[3]>>
        /\ d \in DOMAIN Streams =>
            /\ Streams[d] = Requests(d, remapped)
            /\ \A e \in (started \cap DOMAIN Streams) \ {d} : Range(Streams[d]) \cap Range(Streams[e]) = {}

\* The chip as the engine and the poller expect it.
ChipReady ==
    /\ chip.CONTROL3 = {"AUTO_RETRY", "N_RETRIES0", "N_RETRIES1"}
    /\ chip.POWER = {"PWR0", "PWR1", "PWR2", "PWR3"} /\ chip.CONTROL0 = {"HOST_CUR0"}
    /\ chip.MASK1 \cup chip.MASKA \cup chip.MASKB = {}
    /\ chip.SWITCHES1 = Selected(line) /\ chip.SWITCHES0 = Measuring(line)

PdThreads == {"PE", "RX", "TX", "HR", "INT_N"}
Needs(t) ==
    CASE t = "INT_N" -> {"PE", "RX", "TX", "HR"}
      [] t = "HR" -> {"PE", "RX", "TX"} [] t \in {"RX", "TX"} -> {"PE"} [] OTHER -> {}

\* What a thread uses when it first runs is ready for it: the bus, the pool, the chip on
\* the source's CC line whatever an earlier run left in it, all the threads of the stack,
\* and of these those it sends messages and events to have set up their mailboxes and wait
\* (pdb.c:28-46, priorities.h:24-30, fusb302b.c:166-211, main.c:213-223).
ReadyWhenUsed ==
    /\ \A t \in ran \cap PdThreads :
        /\ pool /\ "I2C2" \in started /\ ChipReady
        /\ PdThreads \subseteq ToSet(created) /\ Needs(t) \subseteq ran
    /\ newPower => "PE" \in ToSet(created)
=============================================================================
