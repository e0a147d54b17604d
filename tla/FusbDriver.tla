----------------------------- MODULE FusbDriver -----------------------------
(***************************************************************************)
(* lib/src/fusb302b.c, one I2C transfer after the other.  Fusb302b takes   *)
(* each of the driver's functions as one step; here they are what they     *)
(* are: sequences of transfers under the bus mutex, each of which suspends *)
(* the caller, while other threads call in and the chip goes on.  The      *)
(* chip's FIFOs are sequences of bytes and know nothing of messages.       *)
(***************************************************************************)
EXTENDS Integers, Sequences, FiniteSets

CONSTANTS
    Thread,       \* the threads that call the driver
    Message,
    GoodCRC,      \* the one the partner answers with
    NumObj,       \* PD_NUMOBJ_GET of each message
    NULL,
    MaxCalls,     \* bound: calls to the driver
    MaxReceived   \* bound: messages the partner sends

ASSUME MessageAssumption ==
    /\ GoodCRC \in Message /\ NULL \notin Message /\ NULL \notin Thread
    /\ NumObj \in [Message -> 0..7]
ASSUME BoundAssumption == MaxCalls \in Nat /\ MaxReceived \in Nat

VARIABLES
    owner,        \* the thread that holds the I2C mutex, or NULL
    pc,           \* the transfer each thread comes to next
    job,          \* the function it is in, and fusb_send_message's argument
    buf,          \* the bytes of the message it reads into
    told,         \* the flags in its union fusb_status
    sopLen,       \* the length in sop_seq[4], which is static
    txFifo, rxFifo, phyTx, phyHardReset, intr,     \* the chip
    callsLeft, receivesLeft

chipVars == <<txFifo, rxFifo, phyTx, phyHardReset, intr>>
vars == <<owner, pc, job, buf, told, sopLen, chipVars, callsLeft, receivesLeft>>

\* A byte is <<message, position>>, or a token of the chip.
SOP1    == <<"SOP1", 0>>
SOP2    == <<"SOP2", 0>>
JAM_CRC == <<"JAM_CRC", 0>>
EOP     == <<"EOP", 0>>
TXOFF   == <<"TXOFF", 0>>
SOP     == <<"SOP", 0>>
CRC     == <<"CRC", 0>>
Zero    == <<"Zero", 0>>
PACKSYM(n) == <<"PACKSYM", n>>

MsgLen(m) == 2 + 4 * NumObj[m]
Bytes(m)  == [i \in 1..MsgLen(m) |-> <<m, i>>]

ASSUME NullAssumption == \A m \in Message : NULL # Bytes(m)

\* The bits of PD_HDR_NUMOBJ are in a header's second byte.
PD_NUMOBJ_GET(bytes) ==
    IF bytes[2][1] \in Message /\ bytes[2][2] = 2 THEN NumObj[bytes[2][1]] ELSE 0

\* Where a thread can be in the driver.
Place == {"out", "acquire", "length", "sop", "body", "eop", "token", "header", "objects", "crc",
          "txflush", "rxflush", "pdreset", "hardrst", "status", "typec"}

First == [send |-> "length", read |-> "token", reset |-> "txflush", hardrst |-> "hardrst",
          status |-> "status", typec |-> "typec"]

Init ==
    /\ owner = NULL
    /\ pc = [t \in Thread |-> "out"]
    /\ job = [t \in Thread |-> [fn |-> "read", msg |-> NULL]]
    /\ buf = [t \in Thread |-> <<>>] /\ told = [t \in Thread |-> {}]
    /\ sopLen = 0
    /\ txFifo = <<>> /\ rxFifo = <<>> /\ phyTx = NULL /\ phyHardReset = FALSE /\ intr = {}
    /\ callsLeft = MaxCalls /\ receivesLeft = MaxReceived

-----------------------------------------------------------------------------
Call(t) ==
    /\ pc[t] = "out" /\ callsLeft > 0
    /\ callsLeft' = callsLeft - 1
    /\ pc' = [pc EXCEPT ![t] = "acquire"]
    /\ \/ \E m \in Message : job' = [job EXCEPT ![t] = [fn |-> "send", msg |-> m]]
       \/ \E f \in {"read", "reset", "hardrst", "status", "typec"} :
            job' = [job EXCEPT ![t] = [fn |-> f, msg |-> NULL]]
    /\ UNCHANGED <<owner, buf, told, sopLen, chipVars, receivesLeft>>

\* i2cAcquireBus
Acquire(t) ==
    /\ pc[t] = "acquire" /\ owner = NULL
    /\ owner' = t /\ pc' = [pc EXCEPT ![t] = First[job[t].fn]]
    /\ UNCHANGED <<job, buf, told, sopLen, chipVars, callsLeft, receivesLeft>>

\* From one transfer to the next, or to i2cReleaseBus and out of the function.
From(t, here)     == pc[t] = here
To(t, there)      == pc' = [pc EXCEPT ![t] = there] /\ UNCHANGED <<owner, job>>
ReleaseBus(t)     == pc' = [pc EXCEPT ![t] = "out"] /\ owner' = NULL /\ UNCHANGED job
BoundsKeep        == UNCHANGED <<callsLeft, receivesLeft>>

\* fusb_send_message: the chip sends what is between the tokens when TXON is written.
\* Mutant: the header is not counted.
SetLengthOfObjects(t) ==
    /\ From(t, "length") /\ To(t, "sop")
    /\ sopLen' = 4 * NumObj[job[t].msg]
    /\ BoundsKeep /\ UNCHANGED <<buf, told, chipVars>>
SetLength(t) ==
    /\ From(t, "length") /\ To(t, "sop")
    /\ sopLen' = MsgLen(job[t].msg)
    /\ BoundsKeep /\ UNCHANGED <<buf, told, chipVars>>

WriteSop(t) ==
    /\ From(t, "sop") /\ To(t, "body")
    /\ txFifo' = txFifo \o <<SOP1, SOP1, SOP1, SOP2, PACKSYM(sopLen)>>
    /\ BoundsKeep /\ UNCHANGED <<buf, told, sopLen, rxFifo, phyTx, phyHardReset, intr>>

WriteBody(t) ==
    /\ From(t, "body") /\ To(t, "eop")
    /\ txFifo' = txFifo \o Bytes(job[t].msg)
    /\ BoundsKeep /\ UNCHANGED <<buf, told, sopLen, rxFifo, phyTx, phyHardReset, intr>>

\* What the chip makes of its FIFO: the bytes PACKSYM counts, if they end where they should.
Packet(f) ==
    IF \E n \in 0..(Len(f) - 8) : f = <<SOP1, SOP1, SOP1, SOP2, PACKSYM(n)>>
                                \o SubSeq(f, 6, 5 + n) \o <<JAM_CRC, EOP, TXOFF>>
    THEN SubSeq(f, 6, Len(f) - 3) ELSE <<Zero>>

WriteEop(t) ==
    /\ From(t, "eop") /\ ReleaseBus(t)
    /\ phyTx' = Packet(txFifo \o <<JAM_CRC, EOP, TXOFF>>)
    /\ txFifo' = <<>>
    /\ BoundsKeep /\ UNCHANGED <<buf, told, sopLen, rxFifo, phyHardReset, intr>>

\* fusb_read_message: an empty FIFO reads as zeros.
Taken(n) == [i \in 1..n |-> IF i <= Len(rxFifo) THEN rxFifo[i] ELSE Zero]
Take(n)  == rxFifo' = SubSeq(rxFifo, n + 1, Len(rxFifo))

\* Mutant: what follows is read whatever the token.
ReadAnyToken(t) ==
    /\ From(t, "token") /\ Take(1) /\ To(t, "header")
    /\ BoundsKeep /\ UNCHANGED <<buf, told, sopLen, txFifo, phyTx, phyHardReset, intr>>
ReadToken(t) ==
    /\ From(t, "token") /\ Take(1)
    /\ IF Taken(1)[1] = SOP THEN To(t, "header") ELSE ReleaseBus(t)
    /\ BoundsKeep /\ UNCHANGED <<buf, told, sopLen, txFifo, phyTx, phyHardReset, intr>>

ReadHeader(t) ==
    /\ From(t, "header") /\ Take(2)
    /\ buf' = [buf EXCEPT ![t] = Taken(2)]
    /\ To(t, IF PD_NUMOBJ_GET(Taken(2)) > 0 THEN "objects" ELSE "crc")
    /\ BoundsKeep /\ UNCHANGED <<told, sopLen, txFifo, phyTx, phyHardReset, intr>>

ReadObjects(t) ==
    /\ From(t, "objects") /\ To(t, "crc")
    /\ LET n == PD_NUMOBJ_GET(buf[t]) * 4
       IN  Take(n) /\ buf' = [buf EXCEPT ![t] = @ \o Taken(n)]
    /\ BoundsKeep /\ UNCHANGED <<told, sopLen, txFifo, phyTx, phyHardReset, intr>>

ReadCrc(t) ==
    /\ From(t, "crc") /\ Take(4) /\ ReleaseBus(t)
    /\ BoundsKeep /\ UNCHANGED <<buf, told, sopLen, txFifo, phyTx, phyHardReset, intr>>

\* fusb_reset: three registers, one after the other.
FlushTx(t) ==
    /\ From(t, "txflush") /\ To(t, "rxflush")
    /\ txFifo' = <<>>
    /\ BoundsKeep /\ UNCHANGED <<buf, told, sopLen, rxFifo, phyTx, phyHardReset, intr>>

FlushRx(t) ==
    /\ From(t, "rxflush") /\ To(t, "pdreset")
    /\ rxFifo' = <<>>
    /\ BoundsKeep /\ UNCHANGED <<buf, told, sopLen, txFifo, phyTx, phyHardReset, intr>>

ResetPd(t) ==
    /\ From(t, "pdreset") /\ ReleaseBus(t)
    /\ phyTx' = NULL
    /\ BoundsKeep /\ UNCHANGED <<buf, told, sopLen, txFifo, rxFifo, phyHardReset, intr>>

\* fusb_send_hardrst, fusb_get_status (reading clears the flags) and fusb_get_typec_current.
SendHardrst(t) ==
    /\ From(t, "hardrst") /\ ReleaseBus(t)
    /\ phyHardReset' = TRUE
    /\ BoundsKeep /\ UNCHANGED <<buf, told, sopLen, txFifo, rxFifo, phyTx, intr>>

GetStatus(t) ==
    /\ From(t, "status") /\ ReleaseBus(t)
    /\ told' = [told EXCEPT ![t] = intr] /\ intr' = {}
    /\ BoundsKeep /\ UNCHANGED <<buf, sopLen, txFifo, rxFifo, phyTx, phyHardReset>>

GetTypecCurrent(t) ==
    /\ From(t, "typec") /\ ReleaseBus(t)
    /\ BoundsKeep /\ UNCHANGED <<buf, told, sopLen, chipVars>>

Driver(t) ==
    \/ Call(t) \/ Acquire(t)
    \/ SetLength(t) \/ WriteSop(t) \/ WriteBody(t) \/ WriteEop(t)
    \/ ReadToken(t) \/ ReadHeader(t) \/ ReadObjects(t) \/ ReadCrc(t)
    \/ FlushTx(t) \/ FlushRx(t) \/ ResetPd(t)
    \/ SendHardrst(t) \/ GetStatus(t) \/ GetTypecCurrent(t)

-----------------------------------------------------------------------------
\* The chip: a message arrives, ours has been answered, our Hard Reset has been signalled.
Arrives(m, flag) ==
    /\ rxFifo' = rxFifo \o <<SOP>> \o Bytes(m) \o <<CRC, CRC, CRC, CRC>>
    /\ intr' = intr \cup {flag}
    /\ UNCHANGED <<owner, pc, job, buf, told, sopLen, txFifo, phyHardReset, callsLeft>>

Receive ==
    /\ receivesLeft > 0 /\ receivesLeft' = receivesLeft - 1
    /\ \E m \in Message : Arrives(m, "I_GCRCSENT")
    /\ UNCHANGED phyTx

TransmitSucceeds ==
    /\ phyTx # NULL /\ phyTx' = NULL
    /\ Arrives(GoodCRC, "I_TXSENT")
    /\ UNCHANGED receivesLeft

HardResetSignalled ==
    /\ phyHardReset /\ phyHardReset' = FALSE
    /\ intr' = intr \cup {"I_HARDSENT"}
    /\ UNCHANGED <<owner, pc, job, buf, told, sopLen, txFifo, rxFifo, phyTx, callsLeft,
                   receivesLeft>>

Next == (\E t \in Thread : Driver(t)) \/ Receive \/ TransmitSucceeds \/ HardResetSignalled

Spec == Init /\ [][Next]_vars

-----------------------------------------------------------------------------
\* The length fusb_send_message writes is its own message's, although sop_seq is one for
\* all callers (fusb302b.c:94-116).
LengthIsOurs == \A t \in Thread : pc[t] = "sop" => sopLen = MsgLen(job[t].msg)

\* What the chip sends is the message fusb_send_message was called with, the whole of it
\* and nothing else (fusb302b.c:111-121).
SendsWhole ==
    [][\A t \in Thread : pc[t] = "eop" /\ pc'[t] # "eop" => phyTx' = Bytes(job[t].msg)]_vars

\* The message a sequence of bytes is, <<>> if it is none, which no thread ever meets.
MessageOf(bytes) ==
    IF \E m \in Message : bytes = Bytes(m) THEN bytes[1][1] ELSE <<>>

\* The messages that have their first byte in a FIFO, the oldest first.
Firsts(f)   == {i \in DOMAIN f : f[i][1] \in Message /\ f[i][2] = 1}
Nth(S, k)   == CHOOSE i \in S : Cardinality({j \in S : j <= i}) = k
Received(f) == [k \in 1..Cardinality(Firsts(f)) |-> f[Nth(Firsts(f), k)][1]]

\* How far into its call a thread is, the message its buffer holds, and the one on air.
Where(place) == CASE place = "out" -> "out" [] place = "pdreset" -> "half"
                  [] place \in {"objects", "crc"} -> "done" [] OTHER -> "called"
Held(place, bytes) == IF bytes = <<>> THEN NULL
                      ELSE IF place \in {"objects", "crc"} THEN bytes[1][1] ELSE MessageOf(bytes)
OnAir(bytes) == IF bytes = NULL THEN NULL ELSE MessageOf(bytes)

Chip == INSTANCE Transceiver WITH
    at <- [t \in Thread |-> Where(pc[t])], got <- [t \in Thread |-> Held(pc[t], buf[t])],
    inbox <- Received(rxFifo), sending <- OnAir(phyTx),
    hardReset <- phyHardReset, flags <- intr

\* Each function of the driver acts at one moment, with whole messages: what is sent is
\* the caller's message, what is read is the oldest that was received
\* (fusb302b.c:91-154, 213-248).
ChipSpec == Chip!Spec

=============================================================================
