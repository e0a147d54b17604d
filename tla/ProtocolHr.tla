---------------------------- MODULE ProtocolHr -----------------------------
(***************************************************************************)
(* lib/src/hard_reset.c: the thread that carries a Hard Reset out, whether *)
(* the policy engine asked for it or the port partner signalled it, and    *)
(* waits for the policy engine to be done with it.                         *)
(***************************************************************************)
EXTENDS Fusb302b

HrRuns(s) == Runs("HR") /\ pc["HR"] = s
HrGoto(s) == pc' = [pc EXCEPT !["HR"] = s]

HrFrame == UNCHANGED <<fault, poolVars, peVars, txMsg, txMail, rxMsg, lastSeen, status,
                       srcVars>>

\* A request of the policy engine wins over a reset the partner signalled at the
\* same time.
HrResetLayer ==
    /\ HrRuns("ResetLayer")
    /\ Pending("HR") # {}
    /\ hrByPe' = ("RESET" \in Pending("HR"))
    /\ rxId' = 0
    /\ txId' = 0
    /\ ev' = [ev EXCEPT !["HR"] = @ \ Mask["ResetLayer"], !["RX"] = @ \cup {"RESET"}]
    /\ ready' = Append(Tail(Wake("RX", "RESET")), "HR")
    /\ HrGoto("ResetLayer.rx")
    /\ UNCHANGED <<bus, chipVars>>
    /\ HrFrame

HrResetTx ==
    /\ HrRuns("ResetLayer.rx")
    /\ ev' = [ev EXCEPT !["TX"] = @ \cup {"RESET"}]
    /\ ready' = Append(Tail(Wake("TX", "RESET")), "HR")
    /\ HrGoto("ResetLayer.tx")
    /\ UNCHANGED <<bus, hrByPe, rxId, txId, chipVars>>
    /\ HrFrame

\* The partner's reset is reported to the policy engine ...
HrIndicate ==
    /\ HrRuns("ResetLayer.tx")
    /\ ~hrByPe
    /\ ev' = [ev EXCEPT !["PE"] = @ \cup {"RESET"}]
    /\ HrGoto("WaitPE")
    /\ UNCHANGED <<ready, bus, hrByPe, rxId, txId, chipVars>>
    /\ HrFrame

\* ... our own is handed to the chip.
HrRequest ==
    /\ HrRuns("ResetLayer.tx")
    /\ hrByPe
    /\ StartI2C("HR", "Request")
    /\ UNCHANGED <<ev, hrByPe, rxId, txId, chipVars>>
    /\ HrFrame

HrRequested ==
    /\ HrRuns("Request")
    /\ FusbSendHardrst
    /\ HrGoto("HardWaitPHY")
    /\ UNCHANGED <<ev, ready, bus, hrByPe, rxId, txId>>
    /\ HrFrame

\* The wait for the chip ends with I_HARDSENT or after tHardResetComplete.
HrWaitPHY ==
    \/ /\ HrRuns("HardWaitPHY")
       /\ Pending("HR") # {}
       /\ ev' = [ev EXCEPT !["HR"] = @ \ {"I_HARDSENT"}]
       /\ HrGoto("HardResetRequested")
       /\ UNCHANGED <<ready, bus, hrByPe, rxId, txId, chipVars>>
       /\ HrFrame
    \/ /\ ~fault
       /\ pc["HR"] = "HardWaitPHY"
       /\ ~Queued("HR")
       /\ HrGoto("HardResetRequested")
       /\ ready' = Append(ready, "HR")
       /\ UNCHANGED <<ev, bus, hrByPe, rxId, txId, chipVars>>
       /\ HrFrame

HrHardResetRequested ==
    /\ HrRuns("HardResetRequested")
    /\ ev' = [ev EXCEPT !["PE"] = @ \cup {"HARD_SENT"}]
    /\ HrGoto("WaitPE")
    /\ UNCHANGED <<ready, bus, hrByPe, rxId, txId, chipVars>>
    /\ HrFrame

HrWaitPE ==
    /\ HrRuns("WaitPE")
    /\ Pending("HR") # {}
    /\ ev' = [ev EXCEPT !["HR"] = @ \ {"DONE"}]
    /\ HrGoto("ResetLayer")
    /\ UNCHANGED <<ready, bus, hrByPe, rxId, txId, chipVars>>
    /\ HrFrame

HrNext == \/ HrResetLayer \/ HrResetTx \/ HrIndicate \/ HrRequest \/ HrRequested
          \/ HrWaitPHY \/ HrHardResetRequested \/ HrWaitPE \/ Block("HR")

=============================================================================
