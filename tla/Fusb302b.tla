------------------------------ MODULE Fusb302b ------------------------------
(***************************************************************************)
(* lib/src/fusb302b.c, the driver of the FUSB302B USB-PD transceiver, and  *)
(* behind it the chip itself and the port partner, which the code reaches  *)
(* only through that driver.  The chip keeps one FIFO of received messages *)
(* (the GoodCRCs that answer our own transmissions land in it as well), a  *)
(* set of interrupt flags, and at most one transmission in progress.       *)
(***************************************************************************)
EXTENDS PdState

\* fusb_reset: flush both FIFOs and reset the PD logic.  A transmission may end between
\* the two (FusbDriver): its GoodCRC then stays in the FIFO.  (A Soft_Reset, whose GoodCRC
\* also restarts the partner's MessageIDs, is left out of this.)
FusbReset ==
    /\ \/ fifo' = <<>> /\ UNCHANGED intr
       \/ /\ phyTx # NULL /\ phyTx.type # "SoftReset"
          /\ fifo' = <<[type |-> "GoodCRC", id |-> phyTx.id, n |-> 0]>>
          /\ intr' = intr \cup {"I_TXSENT"}
    /\ phyTx' = NULL
    /\ UNCHANGED phyHardReset

\* fusb_send_message: hand the chip a message to transmit, with retries.
FusbSendMessage(m) ==
    /\ phyTx' = m
    /\ UNCHANGED <<fifo, intr, phyHardReset>>

\* fusb_read_message: take the oldest message.  With an empty FIFO it returns an
\* error, which neither caller looks at, and leaves the caller's buffer alone.
FusbReadMessage ==
    /\ fifo' = IF fifo = <<>> THEN <<>> ELSE Tail(fifo)
    /\ UNCHANGED <<intr, phyTx, phyHardReset>>

\* fusb_send_hardrst
FusbSendHardrst ==
    /\ phyHardReset' = TRUE
    /\ UNCHANGED <<fifo, intr, phyTx>>

\* fusb_get_status: the interrupt registers are cleared by reading them.
\* Mutant: they are not.
FusbPeekStatus == status' = intr /\ UNCHANGED chipVars
FusbGetStatus ==
    /\ status' = intr
    /\ intr' = {}
    /\ UNCHANGED <<fifo, phyTx, phyHardReset>>

-----------------------------------------------------------------------------
(* The chip and the port partner.                                          *)

SoftwareStays == UNCHANGED <<pc, ready, bus, poolVars, peVars, prlVars, fault, status>>

\* The chip receives a message, answers it with a GoodCRC and says so.
Receive(m) ==
    /\ fifo' = Append(fifo, m)
    /\ intr' = intr \cup {"I_GCRCSENT"}
    /\ UNCHANGED <<phyTx, phyHardReset>>

\* The partner sends the next message of its script, whenever it likes.  MessageIDs
\* count up from 0; a Soft_Reset starts them again.
PartnerSends ==
    /\ ~fault
    /\ srcN < Len(script)
    /\ srcN' = srcN + 1
    /\ LET m == [type |-> script[srcN'],
                 id   |-> IF script[srcN'] = "SoftReset" THEN 0 ELSE srcId,
                 n    |-> srcN']
       IN  /\ Receive(m)
           /\ srcId' = (m.id + 1) % 8
           /\ srcLast' = IF repeatsLeft > 0 THEN m ELSE NULL
    /\ UNCHANGED <<script, repeatsLeft, resetsLeft, overTempsLeft, txFailsLeft, userLeft, ev>>
    /\ SoftwareStays

\* The GoodCRC was lost, so the partner sends its last message once more.
PartnerRepeats ==
    /\ ~fault
    /\ srcLast # NULL
    /\ repeatsLeft > 0
    /\ Receive(srcLast)
    /\ repeatsLeft' = repeatsLeft - 1
    /\ UNCHANGED <<script, srcId, srcN, srcLast, resetsLeft, overTempsLeft, txFailsLeft,
                   userLeft, ev>>
    /\ SoftwareStays

\* A transmission ends with the partner's GoodCRC in the FIFO, or without one.  A
\* Soft_Reset makes the partner start its MessageIDs again.
TransmitSucceeds ==
    /\ ~fault
    /\ phyTx # NULL
    /\ fifo' = Append(fifo, [type |-> "GoodCRC", id |-> phyTx.id, n |-> 0])
    /\ intr' = intr \cup {"I_TXSENT"}
    /\ phyTx' = NULL
    /\ srcId' = IF phyTx.type = "SoftReset" THEN 0 ELSE srcId
    /\ srcLast' = NULL
    /\ UNCHANGED <<phyHardReset, script, srcN, repeatsLeft, resetsLeft, overTempsLeft,
                   txFailsLeft, userLeft, ev>>
    /\ SoftwareStays

TransmitFails ==
    /\ ~fault
    /\ phyTx # NULL
    /\ txFailsLeft > 0
    /\ intr' = intr \cup {"I_RETRYFAIL"}
    /\ phyTx' = NULL
    /\ txFailsLeft' = txFailsLeft - 1
    /\ UNCHANGED <<fifo, phyHardReset, script, srcId, srcN, srcLast, repeatsLeft,
                   resetsLeft, overTempsLeft, userLeft, ev>>
    /\ SoftwareStays

\* The chip has signalled our Hard Reset.
HardResetSignalled ==
    /\ ~fault
    /\ phyHardReset
    /\ phyHardReset' = FALSE
    /\ intr' = intr \cup {"I_HARDSENT"}
    /\ srcId' = 0
    /\ srcLast' = NULL
    /\ UNCHANGED <<fifo, phyTx, script, srcN, repeatsLeft, resetsLeft, overTempsLeft,
                   txFailsLeft, userLeft, ev>>
    /\ SoftwareStays

\* The partner signals a Hard Reset.
PartnerHardResets ==
    /\ ~fault
    /\ resetsLeft > 0
    /\ resetsLeft' = resetsLeft - 1
    /\ intr' = intr \cup {"I_HARDRST"}
    /\ srcId' = 0
    /\ srcLast' = NULL
    /\ UNCHANGED <<fifo, phyTx, phyHardReset, script, srcN, repeatsLeft, overTempsLeft,
                   txFailsLeft, userLeft, ev>>
    /\ SoftwareStays

OverTemp ==
    /\ ~fault
    /\ overTempsLeft > 0
    /\ overTempsLeft' = overTempsLeft - 1
    /\ intr' = intr \cup {"I_OVRTEMP"}
    /\ UNCHANGED <<fifo, phyTx, phyHardReset, script, srcId, srcN, srcLast, repeatsLeft,
                   resetsLeft, txFailsLeft, userLeft, ev>>
    /\ SoftwareStays

\* main.c signals NEW_POWER once; GET_SOURCE_CAP is the library's other user event.
UserSignals ==
    /\ ~fault
    /\ \E e \in userLeft :
        /\ userLeft' = userLeft \ {e}
        /\ ev' = [ev EXCEPT !["PE"] = @ \cup {e}]
    /\ UNCHANGED <<chipVars, script, srcId, srcN, srcLast, repeatsLeft, resetsLeft,
                   overTempsLeft, txFailsLeft>>
    /\ SoftwareStays

\* Nothing the policy engine does while it runs touches the chip or the partner, nor
\* the other way round, so these take their turn when it is blocked; user code may
\* signal it at any time.
Chip    == ~PeRuns /\ (TransmitSucceeds \/ TransmitFails \/ HardResetSignalled)
Outside == \/ ~PeRuns /\ (PartnerSends \/ PartnerRepeats \/ PartnerHardResets \/ OverTemp)
           \/ UserSignals

=============================================================================
