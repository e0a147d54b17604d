-------------------------------- MODULE Board --------------------------------
(***************************************************************************)
(* boards/PD_BUDDY_SINK/board.h and mcuconf.h: the pins of the board and   *)
(* the DMA streams of the drivers, as the code sets them up, and as the    *)
(* microcontroller's data sheet connects them with its peripherals.        *)
(***************************************************************************)
EXTENDS Integers

Ports == {"A", "B", "C"}
Pins  == 0..15

Pin == [ENC_SW |-> 0, SR_STROBE |-> 1, SR_CLEAR |-> 2, BIGBUCK_EN |-> 3, ENC_A |-> 6,
        ENC_B |-> 7, TLC_STROBE |-> 8, TLC_MODE |-> 9, TLC_BLANK |-> 10, SWDIO |-> 13,
        SWCLK |-> 14, PA15 |-> 15,
        PUSB_VBUS_SENSE |-> 0, DUSB_VBUS_SENSE |-> 1, MATRIX_ROW1 |-> 2, TLC_SCK |-> 3,
        MATRIX_ROW0 |-> 4, TLC_DIN |-> 5, MATRIX_COL0 |-> 6, MATRIX_COL3 |-> 9,
        SCL |-> 10, SDA |-> 11, INT_N |-> 12, SR_SCK |-> 13, SR_DIN |-> 15,
        PC13 |-> 13, PC14 |-> 14, PC15 |-> 15]

\* The MODER words: what is in none of the sets is an input.
Outputs    == [A |-> {Pin.BIGBUCK_EN, Pin.TLC_MODE, Pin.PA15},
               B |-> {Pin.MATRIX_ROW1, Pin.MATRIX_ROW0}, C |-> {}]
Alternates == [A |-> {Pin.SR_STROBE, Pin.ENC_A, Pin.ENC_B, Pin.TLC_STROBE, Pin.TLC_BLANK,
                      Pin.SWDIO, Pin.SWCLK},
               B |-> {Pin.TLC_SCK, Pin.TLC_DIN, Pin.SCL, Pin.SDA, Pin.SR_SCK, Pin.SR_DIN},
               C |-> {}]
Analogs    == [A |-> {}, B |-> {Pin.PUSB_VBUS_SENSE, Pin.DUSB_VBUS_SENSE}, C |-> {}]

ModeOf(port) ==
    [n \in Pins |-> CASE n \in Outputs[port]    -> "output"
                      [] n \in Alternates[port] -> "alternate"
                      [] n \in Analogs[port]    -> "analog"
                      [] OTHER                  -> "input"]

\* The PUPDR words ...
PullsOfA ==
    [n \in Pins |-> CASE n \in {Pin.ENC_SW, Pin.ENC_A, Pin.ENC_B, Pin.SWDIO} -> "up"
                      [] n = Pin.SWCLK -> "down" [] OTHER -> "floating"]
PullsOfB ==
    [n \in Pins |-> IF n \in Pin.MATRIX_COL0..Pin.MATRIX_COL3 \cup {Pin.INT_N} THEN "up"
                    ELSE "floating"]
PullsOfC ==
    [n \in Pins |-> CASE n = Pin.PC13 -> "down" [] n \in {Pin.PC14, Pin.PC15} -> "up"
                      [] OTHER -> "floating"]
PullsOf(port) == CASE port = "A" -> PullsOfA [] port = "B" -> PullsOfB [] port = "C" -> PullsOfC

\* ... and the ODR words.  The OTYPER words are zero for all ports: push-pull.
OutputsOf(port) == IF port = "C" THEN {Pin.PC13, Pin.PC14, Pin.PC15} ELSE {}

\* The AFRL and AFRH words, 4 bits for each of eight pins.
AlternateOfA(n) ==
    CASE n = Pin.SR_STROBE -> 5
      [] n \in {Pin.ENC_A, Pin.ENC_B} -> 1
      [] n \in {Pin.TLC_STROBE, Pin.TLC_BLANK, Pin.TLC_MODE} -> 2
      [] OTHER -> 0
AlternateOfB(n) == IF n \in {Pin.SCL, Pin.SDA} THEN 1 ELSE 0
AlternateOf(port, n) ==
    CASE port = "A" -> AlternateOfA(n) [] port = "B" -> AlternateOfB(n) [] port = "C" -> 0

AFRL(port) == [n \in 0..7 |-> AlternateOf(port, n)]
AFRH(port) == [n \in 0..7 |-> AlternateOf(port, n + 8)]

-----------------------------------------------------------------------------
\* The drivers that are started, and what the data sheet says they need: the pin and the
\* alternate function of each of their signals.
Peripherals == {"I2C2", "SPI1", "SPI2", "TIM1", "TIM15"}

Signals ==
    [I2C2  |-> {<<"B", 10, 1>>, <<"B", 11, 1>>},
     SPI1  |-> {<<"B", 3, 0>>, <<"B", 5, 0>>},
     SPI2  |-> {<<"B", 13, 0>>, <<"B", 15, 0>>},
     TIM1  |-> {<<"A", 8, 2>>, <<"A", 10, 2>>},
     TIM15 |-> {<<"A", 1, 5>>}]

\* The streams of DMA controller 1 each driver allocates, as <<receive, transmit>> ...
I2C2Streams == <<5, 4>>
Streams == [I2C2 |-> I2C2Streams, SPI1 |-> <<2, 3>>, SPI2 |-> <<6, 7>>]

\* ... and those its requests reach: SPI2's bit of SYSCFG_CFGR1 moves them.
Requests(p, remapped) ==
    CASE p = "I2C2" -> <<5, 4>>
      [] p = "SPI1" -> <<2, 3>>
      [] p = "SPI2" /\ remapped  -> <<6, 7>>
      [] p = "SPI2" /\ ~remapped -> <<4, 5>>

=============================================================================
