---------------------------- MODULE PolicyEngine ----------------------------
(***************************************************************************)
(* lib/src/policy_engine.c: the sink's policy engine, the thread that      *)
(* negotiates power.  It has the highest priority of the stack, so each    *)
(* state function runs without interruption up to its next wait.  A wait   *)
(* is a place of its own ("SelectCap.tx" is the wait for the Request to be *)
(* transmitted, "SelectCap.rsp" the one for its answer); every other place *)
(* is the entry of a state function.                                       *)
(***************************************************************************)
EXTENDS PdState

PD_N_HARD_RESET_COUNT == 2

At(s)   == ~fault /\ pc["PE"] = s
Goto(s) == pc' = [pc EXCEPT !["PE"] = s]
Got(e)  == e \in Pending("PE")

\* Mutants: the flags stay pending; flags the wait does not name are cleared too.
WokenKeepingFlags(s) == At(s) /\ Pending("PE") # {} /\ UNCHANGED ev
WokenClearingAll(s)  == At(s) /\ Pending("PE") # {} /\ ev' = [ev EXCEPT !["PE"] = {}]

\* chEvtWaitAny returns the pending flags waited for and clears them.
Woken(s) == /\ At(s)
            /\ Pending("PE") # {}
            /\ ev' = [ev EXCEPT !["PE"] = @ \ Mask[s]]

\* chEvtWaitAnyTimeout returns 0.
TimedOut(s) == /\ At(s)
               /\ Pending("PE") = {}
               /\ UNCHANGED ev

SignalTx(e) == ev' = [ev EXCEPT !["PE"] = @ \ Mask["Ready"], !["TX"] = @ \cup {e}]
SignalHr(e) == /\ ev' = [ev EXCEPT !["HR"] = @ \cup {e}]
               /\ ready' = Wake("HR", e)

\* What the mailbox would give, and the usual way of dealing with it: fetch the
\* message, look at its header, free it and forget it.
Received == IF peMail = <<>> THEN "none" ELSE content[peMail[1]].type
\* Mutants: the pointer to the freed message is kept; the message is not freed.
FetchFreeAndKeep ==
    IF peMail = <<>>
    THEN UNCHANGED <<peMail, peMsg, poolVars>>
    ELSE peMail' = Tail(peMail) /\ peMsg' = peMail[1] /\ Free(peMail[1])
FetchAndLeak ==
    IF peMail = <<>>
    THEN UNCHANGED <<peMail, peMsg, poolVars>>
    ELSE peMail' = Tail(peMail) /\ peMsg' = NULL /\ UNCHANGED poolVars
FetchAndFree ==
    IF peMail = <<>>
    THEN UNCHANGED <<peMail, peMsg, poolVars>>
    ELSE /\ peMail' = Tail(peMail)
         /\ peMsg' = NULL
         /\ Free(peMail[1])

\* A step that only leaves for another state.
Leave == UNCHANGED <<ready, bus, fault, poolVars, peVars, prlVars, worldVars>>

\* The two outcomes that most waits share; the timers are listed at the end.
\* Mutant: the transition to default is skipped.
OnResetRestart(s) == Woken(s) /\ Got("RESET") /\ Goto("Startup") /\ Leave
OnReset(s)   == Woken(s) /\ Got("RESET") /\ Goto("TransitionDefault") /\ Leave
OnTimeout(s) == TimedOut(s) /\ Goto("HardReset") /\ Leave

-----------------------------------------------------------------------------
Startup ==
    /\ At("Startup")
    /\ contract' = FALSE
    /\ Goto("Discovery")
    /\ UNCHANGED <<ev, ready, bus, fault, poolVars, peMsg, peMail, req, sent, minPower,
                   hardResets, rev, dpmVars, ppsVars, prlVars, worldVars>>

Discovery == At("Discovery") /\ Goto("WaitCap") /\ UNCHANGED ev /\ Leave

\* The revision is only ever chosen once: hdr_template starts at 1.0.
AgreedRev == IF rev = "1.0" THEN SourceRev ELSE rev

WaitCap ==
    \/ OnReset("WaitCap")
    \/ Woken("WaitCap") /\ ~Got("RESET") /\ Got("I_OVRTEMP") /\ Goto("WaitCap") /\ Leave
    \/ /\ Woken("WaitCap")
       /\ Pending("PE") = {"MSG_RX"}
       /\ Received \in {"SourceCaps", "SourceCapsPps"}
       /\ peMail' = Tail(peMail)
       /\ peMsg' = peMail[1]
       /\ rev' = AgreedRev
       /\ Goto("EvalCap")
       /\ UNCHANGED <<ready, bus, fault, poolVars, req, sent, contract, minPower,
                      hardResets, dpmVars, ppsVars, prlVars, worldVars>>
    \/ /\ Woken("WaitCap")
       /\ Pending("PE") = {"MSG_RX"}
       /\ Received = "SoftReset"
       /\ FetchAndFree
       /\ Goto("SoftReset")
       /\ UNCHANGED <<ready, bus, fault, req, sent, contract, minPower, hardResets,
                      rev, dpmVars, ppsVars, prlVars, worldVars>>
    \/ \* Anything else is freed, but the engine keeps its pointer to it.
       /\ Woken("WaitCap")
       /\ Pending("PE") = {"MSG_RX"}
       /\ Received \notin {"none", "SourceCaps", "SourceCapsPps", "SoftReset"}
       /\ peMail' = Tail(peMail)
       /\ peMsg' = peMail[1]
       /\ Free(peMail[1])
       /\ Goto("HardReset")
       /\ UNCHANGED <<ready, bus, fault, req, sent, contract, minPower, hardResets,
                      rev, dpmVars, ppsVars, prlVars, worldVars>>

\* With capabilities the device policy manager builds a new Request, and may free
\* them; without, it leaves the last Request as it is.  reqPps says whether the
\* Request names a PPS APDO of the capabilities in force, lastPps whether _last_pps is
\* the position it names.  The engine takes _last_pps from the old Request and the index
\* of the PPS APDO from the new capabilities, so new ones leave it either way.
EvalCap ==
    /\ At("EvalCap")
    /\ \E b \in (IF req = NULL THEN pool ELSE {req}) :
        /\ req' = b
        /\ IF peMsg = NULL
           THEN /\ lastPps' = (req # NULL /\ reqPps)
                /\ pool' = pool \ {b}
                /\ UNCHANGED <<content, reqPps>>
           ELSE /\ \E wantsPps \in DpmPps :
                       reqPps' = (wantsPps /\ content[peMsg].type = "SourceCapsPps")
                /\ lastPps' \in IF req # NULL /\ reqPps' THEN BOOLEAN ELSE {FALSE}
                /\ pool' = (pool \ {b}) \cup (IF DpmFrees THEN {peMsg} ELSE {})
                /\ content' = [c \in Buf |->
                       IF c = b THEN [type |-> "Request", id |-> 0, n |-> 0]
                       ELSE IF c = peMsg /\ DpmFrees THEN Freed ELSE content[c]]
    /\ peMsg' = NULL
    /\ Goto("SelectCap")
    /\ UNCHANGED <<ev, ready, bus, fault, peMail, sent, contract, minPower, hardResets,
                   rev, dpmVars, ppsTimer, prlVars, worldVars>>

\* Hand a message to the TX thread.
Submit(b) ==
    /\ txMail' = Post(txMail, b)
    /\ ev' = [ev EXCEPT !["TX"] = @ \cup {"MSG_TX"}]
    /\ ready' = Wake("TX", "MSG_TX")

SelectCap ==
    /\ At("SelectCap")
    /\ Submit(req)
    /\ Goto("SelectCap.tx")
    /\ UNCHANGED <<bus, fault, poolVars, peVars, txMsg, txId, rxVars, hrByPe, worldVars>>

\* Sending a Request for the PPS APDO starts SinkPPSPeriodicTimer, sending any other
\* stops it.
\* Mutant: only the first contract starts it.
PpsPeriodicOnce == IF rev = "3.0" THEN reqPps /\ ~contract ELSE ppsTimer
PpsPeriodic == IF rev = "3.0" THEN reqPps ELSE ppsTimer

SelectCapSent ==
    \/ OnReset("SelectCap.tx")
    \/ /\ Woken("SelectCap.tx")
       /\ Pending("PE") = {"TX_ERR"}
       /\ Goto("HardReset")
       /\ Leave
    \/ /\ Woken("SelectCap.tx")
       /\ ~Got("RESET") /\ Got("TX_DONE")
       /\ ppsTimer' = PpsPeriodic
       /\ Goto("SelectCap.rsp")
       /\ UNCHANGED <<ready, bus, fault, poolVars, peMsg, peMail, req, sent, contract,
                      minPower, hardResets, rev, dpmVars, reqPps, lastPps, prlVars,
                      worldVars>>

AfterReply(type) ==
    CASE type = "none"                -> "HardReset"
      [] type = "Accept"              -> "TransitionSink"
      [] type = "SoftReset"           -> "SoftReset"
      [] type \in {"Reject", "Wait"}  -> IF contract THEN "Ready" ELSE "WaitCap"
      [] OTHER                        -> "SendSoftReset"

SelectCapReply ==
    \/ OnReset("SelectCap.rsp")
    \/ /\ Woken("SelectCap.rsp")
       /\ ~Got("RESET")
       /\ FetchAndFree
       /\ supply' = IF Received = "Accept" /\ ~(reqPps /\ lastPps)
                    THEN "standby" ELSE supply
       /\ minPower' = IF Received \in {"Reject", "Wait"} /\ contract
                      THEN Received = "Wait"
                      ELSE minPower /\ Received # "Accept"
       /\ Goto(AfterReply(Received))
       /\ UNCHANGED <<ready, bus, fault, req, sent, contract, hardResets, rev, tcc,
                      ppsVars, prlVars, worldVars>>

TransitionSink ==
    \/ OnReset("TransitionSink")
    \/ /\ Woken("TransitionSink")
       /\ ~Got("RESET")
       /\ FetchAndFree
       /\ contract' = (contract \/ Received = "PS_RDY")
       /\ supply' = IF Received = "none" \/ (Received = "PS_RDY" /\ minPower)
                    THEN supply
                    ELSE IF Received = "PS_RDY" THEN "requested" ELSE "default"
       /\ Goto(IF Received = "PS_RDY" THEN "Ready" ELSE "HardReset")
       /\ UNCHANGED <<ready, bus, fault, req, sent, minPower, hardResets, rev, tcc,
                      ppsVars, prlVars, worldVars>>

-----------------------------------------------------------------------------
\* Where a message takes the engine from PE_SNK_Ready.
AfterReady(type) ==
    CASE type \in {"none", "Ignored"}            -> "Ready"
      [] type = "Unsupported"                    -> "SendNotSupported"
      [] type = "GotoMin"                        -> IF GiveBack THEN "TransitionSink"
                                                    ELSE "SendNotSupported"
      [] type \in {"SourceCaps", "SourceCapsPps"} -> "EvalCap"
      [] type = "GetSinkCap"                     -> "GiveSinkCap"
      [] type = "SoftReset"                      -> "SoftReset"
      [] type = "Chunk" /\ rev = "3.0"           -> "ChunkReceived"
      [] type = "NotSupported" /\ rev = "3.0"    -> "NotSupportedReceived"
      [] OTHER                                   -> "SendSoftReset"

ReadyStay == UNCHANGED <<ready, bus, fault, prlVars, worldVars>>

\* One of three requests to start an atomic message sequence.  The flags it was
\* returned together with are dropped.
ReadyStartAms ==
    /\ At("Ready")
    /\ Got("GET_SOURCE_CAP") \/ Got("NEW_POWER") \/ Got("PPS_REQUEST")
    /\ ~Got("RESET") /\ ~Got("I_OVRTEMP")
    /\ SignalTx("START_AMS")
    /\ IF ~Got("GET_SOURCE_CAP") /\ Got("NEW_POWER") /\ peMsg # NULL
       THEN Free(peMsg) /\ peMsg' = NULL
       ELSE UNCHANGED <<poolVars, peMsg>>
    /\ Goto(IF Got("GET_SOURCE_CAP") THEN "GetSourceCap"
            ELSE IF Got("NEW_POWER") THEN "EvalCap" ELSE "SelectCap")
    /\ UNCHANGED <<peMail, req, sent, contract, minPower, hardResets, rev, dpmVars, ppsVars>>
    /\ ReadyStay

ReadyMessage ==
    /\ Woken("Ready")
    /\ Pending("PE") = {"MSG_RX"}
    /\ IF Received \in {"SourceCaps", "SourceCapsPps"}
       THEN /\ peMail' = Tail(peMail)
            /\ peMsg' = peMail[1]
            /\ UNCHANGED poolVars
       ELSE FetchAndFree
    /\ IF Received = "GotoMin" /\ GiveBack
       THEN supply' = "min" /\ minPower' = TRUE
       ELSE UNCHANGED <<supply, minPower>>
    /\ Goto(AfterReady(Received))
    /\ UNCHANGED <<req, sent, contract, hardResets, rev, tcc, ppsVars>>
    /\ ReadyStay

Ready ==
    \/ OnReset("Ready")
    \/ Woken("Ready") /\ ~Got("RESET") /\ Got("I_OVRTEMP") /\ Goto("HardReset") /\ Leave
    \/ ReadyStartAms
    \/ ReadyMessage

-----------------------------------------------------------------------------
\* The states that allocate a message, transmit it and free it.
\* Mutant: they free it as soon as it is posted.
TransmitAndFree(s, type, wait) ==
    /\ At(s)
    /\ \E b \in pool : Submit(b) /\ sent' = b
    /\ Goto(wait)
    /\ UNCHANGED <<bus, fault, poolVars, peMsg, peMail, req, contract, minPower, hardResets,
                   rev, dpmVars, ppsVars, txMsg, txId, rxVars, hrByPe, worldVars>>
Transmit(s, type, wait) ==
    /\ At(s)
    /\ \E b \in pool :
        /\ pool' = pool \ {b}
        /\ content' = [content EXCEPT ![b] = [type |-> type, id |-> 0, n |-> 0]]
        /\ sent' = b
        /\ Submit(b)
    /\ Goto(wait)
    /\ UNCHANGED <<bus, fault, peMsg, peMail, req, contract, minPower, hardResets, rev,
                   dpmVars, ppsVars, txMsg, txId, rxVars, hrByPe, worldVars>>

AfterTransmit(s, done, failed) ==
    /\ Woken(s)
    /\ Free(sent)
    /\ sent' = NULL
    /\ Goto(IF Got("RESET") THEN "TransitionDefault"
            ELSE IF Got("TX_DONE") THEN done ELSE failed)
    /\ UNCHANGED <<ready, bus, fault, peMsg, peMail, req, contract, minPower, hardResets,
                   rev, dpmVars, ppsVars, prlVars, worldVars>>

GetSourceCap == \/ Transmit("GetSourceCap", "GetSourceCap", "GetSourceCap.tx")
                \/ AfterTransmit("GetSourceCap.tx", "Ready", "HardReset")

GiveSinkCap == \/ Transmit("GiveSinkCap", "SinkCaps", "GiveSinkCap.tx")
               \/ AfterTransmit("GiveSinkCap.tx", "Ready", "HardReset")

SoftReset == \/ Transmit("SoftReset", "Accept", "SoftReset.tx")
             \/ AfterTransmit("SoftReset.tx", "WaitCap", "HardReset")

AfterSoftReset(type) == CASE type = "Accept"    -> "WaitCap"
                          [] type = "SoftReset" -> "SoftReset"
                          [] OTHER              -> "HardReset"

SendSoftReset ==
    \/ Transmit("SendSoftReset", "SoftReset", "SendSoftReset.tx")
    \/ AfterTransmit("SendSoftReset.tx", "SendSoftReset.rsp", "HardReset")
    \/ OnReset("SendSoftReset.rsp")
    \/ /\ Woken("SendSoftReset.rsp")
       /\ ~Got("RESET")
       /\ FetchAndFree
       /\ Goto(AfterSoftReset(Received))
       /\ UNCHANGED <<ready, bus, fault, req, sent, contract, minPower, hardResets, rev,
                      dpmVars, ppsVars, prlVars, worldVars>>

SendNotSupported ==
    \/ Transmit("SendNotSupported", IF rev = "3.0" THEN "NotSupported" ELSE "Reject",
                "SendNotSupported.tx")
    \/ AfterTransmit("SendNotSupported.tx", "Ready", "SendSoftReset")

ChunkReceived == OnReset("ChunkReceived")

NotSupportedReceived ==
    At("NotSupportedReceived") /\ Goto("Ready") /\ UNCHANGED ev /\ Leave

\* chPoolAlloc returns NULL, and the header is written through it.
PeAllocFails ==
    /\ ~fault
    /\ \/ pc["PE"] \in {"GetSourceCap", "GiveSinkCap", "SoftReset", "SendSoftReset",
                        "SendNotSupported"}
       \/ pc["PE"] = "EvalCap" /\ req = NULL
    /\ pool = {}
    /\ fault' = TRUE
    /\ UNCHANGED <<pc, ev, ready, bus, poolVars, peVars, prlVars, worldVars>>

-----------------------------------------------------------------------------
\* Mutants: the engine never gives the partner up; it does not wait for HARD_SENT.
HardResetForEver ==
    /\ At("HardReset")
    /\ SignalHr("RESET")
    /\ Goto("HardReset.sent")
    /\ UNCHANGED <<bus, fault, poolVars, peVars, prlVars, worldVars>>
HardResetNoWait ==
    /\ At("HardReset")
    /\ SignalHr("RESET")
    /\ Goto("TransitionDefault")
    /\ UNCHANGED <<bus, fault, poolVars, peVars, prlVars, worldVars>>
HardReset ==
    \/ /\ At("HardReset")
       /\ hardResets > PD_N_HARD_RESET_COUNT
       /\ Goto("SourceUnresponsive")
       /\ UNCHANGED ev
       /\ Leave
    \/ /\ At("HardReset")
       /\ hardResets <= PD_N_HARD_RESET_COUNT
       /\ SignalHr("RESET")
       /\ Goto("HardReset.sent")
       /\ UNCHANGED <<bus, fault, poolVars, peVars, prlVars, worldVars>>

HardResetSent ==
    /\ Woken("HardReset.sent")
    /\ hardResets' = hardResets + 1
    /\ Goto("TransitionDefault")
    /\ UNCHANGED <<ready, bus, fault, poolVars, peMsg, peMail, req, sent, contract,
                   minPower, rev, dpmVars, ppsVars, prlVars, worldVars>>

\* Mutants: the output keeps its power; DONE is not signalled.
TransitionPowered ==
    /\ At("TransitionDefault")
    /\ contract' = FALSE
    /\ SignalHr("DONE")
    /\ Goto("Startup")
    /\ UNCHANGED <<bus, fault, poolVars, peMsg, peMail, req, sent, minPower, hardResets,
                   rev, dpmVars, ppsVars, prlVars, worldVars>>
TransitionNotDone ==
    /\ At("TransitionDefault")
    /\ contract' = FALSE
    /\ supply' = "default"
    /\ Goto("Startup")
    /\ UNCHANGED <<ev, ready, bus, fault, poolVars, peMsg, peMail, req, sent, minPower,
                   hardResets, rev, tcc, ppsVars, prlVars, worldVars>>
TransitionDefault ==
    /\ At("TransitionDefault")
    /\ contract' = FALSE
    /\ supply' = "default"
    /\ SignalHr("DONE")
    /\ Goto("Startup")
    /\ UNCHANGED <<bus, fault, poolVars, peMsg, peMail, req, sent, minPower, hardResets,
                   rev, tcc, ppsVars, prlVars, worldVars>>

\* The DPM of this firmware answers "no" to evaluate_typec_current; two equal
\* answers in a row make the output follow the Type-C current.
SourceUnresponsive ==
    /\ At("SourceUnresponsive")
    /\ supply' = IF tcc = 0 THEN "typec" ELSE supply
    /\ tcc' = 0
    /\ UNCHANGED <<pc, ev, ready, bus, fault, poolVars, peMsg, peMail, req, sent,
                   contract, minPower, hardResets, rev, ppsVars, prlVars, worldVars>>

-----------------------------------------------------------------------------
(* The engine's timers.                                                    *)

NoCapabilities == OnTimeout("WaitCap")
NoReply        == OnTimeout("SelectCap.rsp")
NoPsRdy        == OnTimeout("TransitionSink")
NoAccept       == OnTimeout("SendSoftReset.rsp")

\* SinkRequestTimer, which only runs after a Wait or a GotoMin.
RequestAgain == TimedOut("Ready") /\ minPower /\ Goto("SelectCap") /\ Leave

ChunkingNotSupported == TimedOut("ChunkReceived") /\ Goto("SendNotSupported") /\ Leave

\* SinkPPSPeriodicTimer is a virtual timer: it fires from an interrupt.
PpsTimerFires ==
    /\ ~fault
    /\ ppsTimer
    /\ ppsTimer' = FALSE
    /\ ev' = [ev EXCEPT !["PE"] = @ \cup {"PPS_REQUEST"}]
    /\ UNCHANGED <<pc, ready, bus, fault, poolVars, peMsg, peMail, req, sent, contract,
                   minPower, hardResets, rev, dpmVars, reqPps, lastPps, prlVars, worldVars>>

PeTimer == NoCapabilities \/ NoReply \/ NoPsRdy \/ NoAccept \/ RequestAgain
           \/ ChunkingNotSupported \/ PpsTimerFires

PeNext ==
    \/ Startup \/ Discovery \/ WaitCap \/ EvalCap \/ SelectCap \/ SelectCapSent
    \/ SelectCapReply \/ TransitionSink \/ Ready \/ GetSourceCap \/ GiveSinkCap
    \/ SoftReset \/ SendSoftReset \/ SendNotSupported \/ ChunkReceived
    \/ NotSupportedReceived \/ HardReset \/ HardResetSent \/ TransitionDefault
    \/ SourceUnresponsive \/ PeAllocFails

=============================================================================
