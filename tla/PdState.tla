------------------------------ MODULE PdState ------------------------------
(***************************************************************************)
(* The state the USB Power Delivery threads of the firmware share, and the *)
(* part of the ChibiOS kernel they lean on.                                *)
(*                                                                         *)
(* Five threads run the stack (lib/src/priorities.h): the policy engine    *)
(* PE above the three protocol layer threads TX, RX and HR, and those      *)
(* above the INT_N poller.  Scheduling is strictly by priority and there   *)
(* is no time slice, so a thread runs until it blocks, yields or wakes a   *)
(* thread of higher priority.  An action of this model is such a run.      *)
(***************************************************************************)
EXTENDS Integers, Sequences, FiniteSets

CONSTANTS
    Buf,            \* the buffers of pdb_msg_pool
    NULL,           \* the null pointer
    Scripts,        \* message sequences, one of which the port partner sends
    SourceRev,      \* the specification revision in the partner's headers
    FreedHeaders,   \* <<type, id>> a freed buffer's first two bytes may decode to
    DpmFrees,       \* does the device policy manager free Source_Capabilities?
    DpmPps,         \* answers the DPM may give to "request the PPS APDO?"
    GiveBack,       \* does the DPM enable GiveBack?
    MaxRepeats,     \* bound: the partner's retransmissions after a lost GoodCRC
    MaxResets,      \* bound: Hard Resets the partner signals
    MaxOverTemps,   \* bound: over-temperature interrupts
    UserEvents,     \* events user code sends to the policy engine, once each
    MaxTxFails,     \* bound: transmissions that run out of retries
    MaxRushes       \* bound: outside events that strike while the stack is busy

Prl    == {"TX", "RX", "HR"}
Thread == Prl \cup {"PE"}

\* What the headers the policy engine tests distinguish.  "Ignored" stands for
\* Ping and vendor-defined messages, "Unsupported" for the six requests answered
\* with Not_Supported, "Chunk" for multi-chunk extended messages, "Unknown" for
\* every other header.
RxType == {"SourceCaps", "SourceCapsPps", "Accept", "Reject", "Wait", "PS_RDY",
           "SoftReset", "GetSinkCap", "GotoMin", "Ignored", "Unsupported",
           "Chunk", "NotSupported", "Unknown", "GoodCRC"}
TxType == {"Request", "GetSourceCap", "SinkCaps", "Accept", "SoftReset",
           "Reject", "NotSupported"}
Ids    == 0..7

\* A message: its class, its MessageID and, as a ghost, the serial number of the
\* partner's message it is a copy of (0 for anything the partner did not say).
Message == [type : RxType \cup TxType \cup {"Freed"}, id : Ids, n : Nat]
Freed   == [type |-> "Freed", id |-> 0, n |-> 0]

Event == {"MSG_RX", "TX_DONE", "TX_ERR", "HARD_SENT", "I_OVRTEMP", "PPS_REQUEST",
          "GET_SOURCE_CAP", "NEW_POWER",
          "RESET", "DISCARD", "MSG_TX", "I_TXSENT", "I_RETRYFAIL", "START_AMS",
          "I_GCRCSENT", "I_HARDRST", "I_HARDSENT", "DONE"}

Interrupt == {"I_GCRCSENT", "I_TXSENT", "I_RETRYFAIL", "I_HARDRST", "I_HARDSENT",
              "I_OVRTEMP"}

ASSUME BufAssumption  == NULL \notin Buf /\ IsFiniteSet(Buf)
ASSUME NullAssumption == NULL \notin Message
ASSUME TypeAssumption ==
    /\ Scripts \subseteq Seq(RxType \ {"GoodCRC"})
    /\ SourceRev \in {"2.0", "3.0"}
    /\ FreedHeaders \subseteq RxType \X Ids
    /\ FreedHeaders # {}
ASSUME DpmAssumption  ==
    /\ DpmFrees \in BOOLEAN
    /\ GiveBack \in BOOLEAN
    /\ DpmPps \subseteq BOOLEAN
    /\ DpmPps # {}
ASSUME BoundAssumption ==
    /\ {MaxRepeats, MaxResets, MaxOverTemps, MaxTxFails, MaxRushes} \subseteq Nat
    /\ UserEvents \subseteq {"NEW_POWER", "GET_SOURCE_CAP"}

VARIABLES
    pc,         \* where each thread is: a wait, an I2C transfer, a state's entry
    ev,         \* pending event flags of each thread
    ready,      \* runnable protocol layer threads, the running one first
    bus,        \* threads queueing for the I2C bus, its owner first
    fault,      \* a HardFault or a damaged free list: nothing after it is modelled
    pool,       \* free buffers of pdb_msg_pool
    content,    \* what each buffer holds
    peMsg, peMail, req, sent, contract, minPower, hardResets, rev,
    supply, reqPps, lastPps, ppsTimer, tcc,          \* the policy engine
    txMsg, txMail, txId,                             \* protocol_tx.c
    rxMsg, rxId, lastSeen,                           \* protocol_rx.c
    hrByPe,                                          \* hard_reset.c
    status,                                          \* int_n.c
    fifo, intr, phyTx, phyHardReset,                 \* the FUSB302B
    script, srcId, srcN, srcLast, repeatsLeft,       \* the port partner
    resetsLeft, overTempsLeft, txFailsLeft, userLeft,
    rushLeft

kernelVars == <<pc, ev, ready, bus, fault>>
poolVars   == <<pool, content>>
dpmVars    == <<supply, tcc>>
ppsVars    == <<reqPps, lastPps, ppsTimer>>
peVars     == <<peMsg, peMail, req, sent, contract, minPower, hardResets, rev,
                dpmVars, ppsVars>>
txVars     == <<txMsg, txMail, txId>>
rxVars     == <<rxMsg, rxId, lastSeen>>
prlVars    == <<txVars, rxVars, hrByPe>>
chipVars   == <<fifo, intr, phyTx, phyHardReset>>
srcVars    == <<script, srcId, srcN, srcLast, repeatsLeft, resetsLeft,
                overTempsLeft, txFailsLeft, userLeft>>
worldVars  == <<status, chipVars, srcVars>>
vars       == <<kernelVars, poolVars, peVars, prlVars, worldVars, rushLeft>>

-----------------------------------------------------------------------------
(* Where the threads can be.  Mask[s] is what the wait at s waits for.     *)

TxWaits == {"SelectCap.tx", "GetSourceCap.tx", "GiveSinkCap.tx", "SoftReset.tx",
            "SendSoftReset.tx", "SendNotSupported.tx"}

PeWaits == TxWaits \cup {"WaitCap", "SelectCap.rsp", "TransitionSink", "Ready",
                         "HardReset.sent", "SendSoftReset.rsp", "ChunkReceived"}

PeEntries == {"Startup", "Discovery", "EvalCap", "SelectCap", "GetSourceCap",
              "GiveSinkCap", "HardReset", "TransitionDefault", "SoftReset",
              "SendSoftReset", "SendNotSupported", "NotSupportedReceived"}

PePc == PeWaits \cup PeEntries \cup {"SourceUnresponsive"}
TxPc == {"PHYReset", "WaitMessage", "Construct", "AmsWait", "Send",
         "WaitResponse", "MatchMessageID"}
RxPc == {"WaitPHY", "Read", "Reset.yielded", "CheckMessageID", "Store.yielded"}
HrPc == {"ResetLayer", "ResetLayer.rx", "ResetLayer.tx", "Request",
         "HardWaitPHY", "HardResetRequested", "WaitPE"}

PrlWaits == {"WaitMessage", "WaitResponse", "WaitPHY", "ResetLayer",
             "HardWaitPHY", "WaitPE"}

\* The outcomes of a transmission the policy engine waits for.
TxOutcome == {"TX_DONE", "TX_ERR", "RESET"}

\* What the TX thread waits for after it has given the chip a message.  (Here and below,
\* a comment "Mutant:" introduces a broken variant of the next definition, with which
\* the properties are tried; the specification does not use it.)
\* Mutant: running out of retries is forgotten.
TxResponseNoRetryFail == {"RESET", "DISCARD", "I_TXSENT"}
TxResponse == {"RESET", "DISCARD", "I_TXSENT", "I_RETRYFAIL"}

Mask == [s \in PeWaits \cup PrlWaits |->
    CASE s \in TxWaits -> TxOutcome
      [] s = "WaitCap" -> {"MSG_RX", "I_OVRTEMP", "RESET"}
      [] s \in {"SelectCap.rsp", "TransitionSink", "SendSoftReset.rsp"} ->
             {"MSG_RX", "RESET"}
      [] s = "Ready" -> {"MSG_RX", "RESET", "I_OVRTEMP", "GET_SOURCE_CAP",
                         "NEW_POWER", "PPS_REQUEST"}
      [] s = "HardReset.sent" -> {"HARD_SENT"}
      [] s = "ChunkReceived"  -> {"RESET"}
      [] s = "WaitMessage"    -> {"RESET", "DISCARD", "MSG_TX"}
      [] s = "WaitResponse"   -> TxResponse
      [] s = "WaitPHY"        -> Event
      [] s = "ResetLayer"     -> {"RESET", "I_HARDRST"}
      [] s = "HardWaitPHY"    -> {"I_HARDSENT"}
      [] s = "WaitPE"         -> {"DONE"}]

\* What a wait returns, and chEvtWaitAny clears: the flags that are both pending
\* and waited for.
Pending(t) == ev[t] \cap Mask[pc[t]]

-----------------------------------------------------------------------------
(* The kernel.                                                             *)

Queued(t) == \E i \in 1..Len(ready) : ready[i] = t

\* chEvtSignal(t, e) makes a blocked thread of the protocol layer ready when it
\* waits for e.
Wake(t, e) == IF pc[t] \in PrlWaits /\ ~Queued(t) /\ e \in Mask[pc[t]]
              THEN Append(ready, t)
              ELSE ready

\* The policy engine has the processor whenever it is not blocked.
PeRuns == \/ pc["PE"] \in PeEntries
          \/ pc["PE"] \in PeWaits /\ Pending("PE") # {}

\* A thread of the protocol layer runs when the policy engine does not and it is
\* first among its equals.
Runs(t) == ~fault /\ ~PeRuns /\ Len(ready) > 0 /\ ready[1] = t

\* Neither PE nor any protocol layer thread wants the processor.
Idle == ~fault /\ ~PeRuns /\ ready = <<>>

\* A thread that finds nothing pending at its wait gives the processor up.
Block(t) ==
    /\ Runs(t)
    /\ pc[t] \in PrlWaits
    /\ Pending(t) = {}
    /\ ready' = Tail(ready)
    /\ UNCHANGED <<pc, ev, bus, fault, poolVars, peVars, prlVars, worldVars>>

\* An I2C transfer blocks the running thread t; it resumes at s once the transfers
\* queued before it are over.
StartI2C(t, s) ==
    /\ pc' = [pc EXCEPT ![t] = s]
    /\ bus' = Append(bus, t)
    /\ ready' = Tail(ready)

\* The owner's transfer ends: the owner is ready, the next in line starts.
BusDone ==
    /\ ~fault
    /\ Len(bus) > 0
    /\ bus' = Tail(bus)
    /\ ready' = Append(ready, bus[1])
    /\ UNCHANGED <<pc, ev, fault, poolVars, peVars, prlVars, worldVars>>

\* chPoolFree of b: the pool's link overwrites the header.
Free(b) ==
    /\ pool' = pool \cup {b}
    /\ content' = [content EXCEPT ![b] = Freed]

\* chMBPostTimeout(..., TIME_IMMEDIATE): a full mailbox drops the message.
Post(mail, b) == IF Len(mail) < Cardinality(Buf) THEN Append(mail, b) ELSE mail

=============================================================================
