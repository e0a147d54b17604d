----------------------------- MODULE ProtocolRx -----------------------------
(***************************************************************************)
(* lib/src/protocol_rx.c: the thread that reads each received message into *)
(* a buffer of the pool, drops retransmissions by their MessageID and      *)
(* posts the rest to the policy engine.                                    *)
(***************************************************************************)
EXTENDS Fusb302b

RxRuns(s) == Runs("RX") /\ pc["RX"] = s
RxGoto(s) == pc' = [pc EXCEPT !["RX"] = s]

RxFrame == UNCHANGED <<txMsg, txMail, hrByPe, status, srcVars>>

\* Wake TX with e and let it, and whoever else is ready, run first.
\* Mutant: it does not yield.
TellTx(e, s) ==
    /\ ev' = [ev EXCEPT !["TX"] = @ \cup {e}]
    /\ ready' = Wake("TX", e)
    /\ RxGoto(s)
TellTxAndYield(e, s) ==
    /\ ev' = [ev EXCEPT !["TX"] = @ \cup {e}]
    /\ ready' = Append(Tail(Wake("TX", e)), "RX")
    /\ RxGoto(s)

\* A reset event throws away every other event that came with it.
RxWaitPHY ==
    /\ RxRuns("WaitPHY")
    /\ ev["RX"] # {}
    /\ ev' = [ev EXCEPT !["RX"] = {}]
    /\ \/ /\ "RESET" \in ev["RX"]
          /\ UNCHANGED <<pc, ready, bus, pool, rxMsg>>
       \/ /\ ev["RX"] = {"I_GCRCSENT"}
          /\ \E b \in pool : pool' = pool \ {b} /\ rxMsg' = b
          /\ StartI2C("RX", "Read")
    /\ UNCHANGED <<fault, content, peVars, txId, rxId, lastSeen, chipVars>>
    /\ RxFrame

\* chPoolAlloc returns NULL, and the message is read to address 0.
RxAllocFails ==
    /\ RxRuns("WaitPHY")
    /\ ev["RX"] = {"I_GCRCSENT"}
    /\ pool = {}
    /\ fault' = TRUE
    /\ UNCHANGED <<pc, ev, ready, bus, poolVars, peVars, prlVars, worldVars>>

\* What the buffer holds after the read: the oldest message of the FIFO, or, when
\* there is none, what the free list left in it.
ReadResults == IF fifo = <<>> THEN {[type |-> h[1], id |-> h[2], n |-> 0] : h \in FreedHeaders}
               ELSE {fifo[1]}

RxRead ==
    /\ RxRuns("Read")
    /\ FusbReadMessage
    /\ \E m \in ReadResults :
        /\ content' = [content EXCEPT ![rxMsg] = m]
        /\ IF m.type = "SoftReset"
           THEN /\ txId' = 0
                /\ rxId' = -1
                /\ TellTxAndYield("RESET", "Reset.yielded")
           ELSE RxGoto("CheckMessageID") /\ UNCHANGED <<txId, rxId, ev, ready>>
    /\ UNCHANGED <<bus, fault, pool, peVars, rxMsg, lastSeen>>
    /\ RxFrame

\* A RESET that came while RX was busy makes it drop its message.
RxDrop ==
    /\ Free(rxMsg)
    /\ rxMsg' = NULL
    /\ RxGoto("WaitPHY")
    /\ ev' = [ev EXCEPT !["RX"] = @ \ {"RESET"}]
    /\ UNCHANGED <<ready, bus, fault, peVars, txId, rxId, lastSeen, chipVars>>
    /\ RxFrame

RxReset ==
    /\ RxRuns("Reset.yielded")
    /\ \/ "RESET" \in ev["RX"] /\ RxDrop
       \/ /\ "RESET" \notin ev["RX"]
          /\ RxGoto("CheckMessageID")
          /\ UNCHANGED <<ev, ready, bus, fault, poolVars, peVars, txId, rxVars, chipVars>>
          /\ RxFrame

\* Mutants: every message is new; a later MessageID is taken for a repeat.
NeverSeen(b) == FALSE
SeenLater(b) == content[b].id >= rxId
Seen(b) == content[b].id = rxId

RxCheckMessageID ==
    /\ RxRuns("CheckMessageID")
    /\ \/ /\ "RESET" \in ev["RX"] \/ Seen(rxMsg)
          /\ RxDrop
       \/ /\ "RESET" \notin ev["RX"]
          /\ ~Seen(rxMsg)
          /\ TellTxAndYield("DISCARD", "Store.yielded")
          /\ UNCHANGED <<bus, fault, poolVars, peVars, txId, rxVars, chipVars>>
          /\ RxFrame

\* lastSeen is a ghost: the serial number of the partner's last message handed over.
RxStoreMessageID ==
    /\ RxRuns("Store.yielded")
    /\ rxId' = content[rxMsg].id
    /\ lastSeen' = IF content[rxMsg].n # 0 THEN content[rxMsg].n ELSE lastSeen
    /\ peMail' = Post(peMail, rxMsg)
    /\ ev' = [ev EXCEPT !["PE"] = @ \cup {"MSG_RX"}]
    /\ RxGoto("WaitPHY")
    /\ UNCHANGED <<ready, bus, fault, poolVars, peMsg, req, sent, contract, minPower,
                   hardResets, rev, dpmVars, ppsVars, txId, rxMsg, chipVars>>
    /\ RxFrame

RxNext == \/ RxWaitPHY \/ RxAllocFails \/ RxRead \/ RxReset \/ RxCheckMessageID
          \/ RxStoreMessageID \/ Block("RX")

=============================================================================
