----------------------------- MODULE ProtocolTx -----------------------------
(***************************************************************************)
(* lib/src/protocol_tx.c: the thread that transmits one message at a time  *)
(* for the policy engine and reports TX_DONE or TX_ERR.  "PHYReset",       *)
(* "Send" and "MatchMessageID" are places where it waits for its I2C       *)
(* transfer, so their actions are what it does once that is over.          *)
(***************************************************************************)
EXTENDS Fusb302b

TxRuns(s) == Runs("TX") /\ pc["TX"] = s

TxGoto(s) == pc' = [pc EXCEPT !["TX"] = s]
TxClear(E) == ev' = [ev EXCEPT !["TX"] = @ \ E]

\* What the TX thread leaves alone wherever it goes.
TxFrame == UNCHANGED <<fault, pool, peVars, rxVars, hrByPe, status, srcVars>>

\* Clear the flags E, report e to the policy engine and forget the message.
\* Mutant: the message is not forgotten.
ReportAndKeep(e, E) ==
    /\ ev' = [ev EXCEPT !["TX"] = @ \ E, !["PE"] = @ \cup {e}]
    /\ TxGoto("WaitMessage")
    /\ UNCHANGED txMsg
Report(e, E) ==
    /\ ev' = [ev EXCEPT !["TX"] = @ \ E, !["PE"] = @ \cup {e}]
    /\ txMsg' = NULL
    /\ TxGoto("WaitMessage")

PHYReset ==
    /\ TxRuns("PHYReset")
    /\ FusbReset
    /\ IF txMsg # NULL
       THEN Report("TX_ERR", {})
       ELSE TxGoto("WaitMessage") /\ UNCHANGED <<ev, txMsg>>
    /\ UNCHANGED <<ready, bus, content, txMail, txId>>
    /\ TxFrame

\* PRL_Tx_Discard_Message: a message being worked on uses up its MessageID.
DiscardMessage ==
    /\ txId' = IF txMsg # NULL THEN (txId + 1) % 8 ELSE txId
    /\ StartI2C("TX", "PHYReset")

\* RESET and DISCARD are looked at in this order before anything else.  The flags
\* that come with them are cleared too.
GiveUp(evt, cleared) ==
    /\ evt \cap {"RESET", "DISCARD"} # {}
    /\ TxClear(cleared)
    /\ IF "RESET" \in evt THEN StartI2C("TX", "PHYReset") /\ UNCHANGED txId
                          ELSE DiscardMessage
    /\ UNCHANGED <<content, txMsg, txMail, chipVars>>
    /\ TxFrame

\* The oldest message of the mailbox becomes the one worked on.
\* Mutant: it stays in the mailbox.
PeekMessage  == txMail' = txMail /\ txMsg' = txMail[1]
FetchMessage == txMail' = Tail(txMail) /\ txMsg' = txMail[1]

WaitMessage ==
    /\ TxRuns("WaitMessage")
    /\ \/ GiveUp(Pending("TX"), Mask["WaitMessage"])
       \/ \* A Soft_Reset first resets the message counter and the RX thread, and
          \* lets the RX thread run.
          /\ Pending("TX") = {"MSG_TX"}
          /\ Len(txMail) > 0
          /\ FetchMessage
          /\ IF content[txMail[1]].type = "SoftReset"
             THEN /\ txId' = 0
                  /\ ev' = [ev EXCEPT !["TX"] = @ \ {"MSG_TX"}, !["RX"] = @ \cup {"RESET"}]
                  /\ ready' = Append(Tail(Wake("RX", "RESET")), "TX")
             ELSE TxClear({"MSG_TX"}) /\ UNCHANGED <<txId, ready>>
          /\ TxGoto("Construct")
          /\ UNCHANGED <<bus, content, chipVars>>
          /\ TxFrame

\* Writing the MessageID into a buffer that was freed meanwhile writes into the
\* pool's free list, which may or may not change it.
NumberMessage ==
    IF txMsg \in pool
    THEN fault' \in BOOLEAN /\ UNCHANGED content
    ELSE content' = [content EXCEPT ![txMsg].id = txId] /\ UNCHANGED fault

ConstructMessage ==
    /\ TxRuns("Construct")
    /\ \/ GiveUp(ev["TX"] \cap {"RESET", "DISCARD"}, {"RESET", "DISCARD"})
       \/ /\ ev["TX"] \cap {"RESET", "DISCARD"} = {}
          /\ NumberMessage
          /\ IF rev = "3.0" /\ "START_AMS" \in ev["TX"]
             THEN TxGoto("AmsWait") /\ ready' = Tail(ready) /\ UNCHANGED bus
             ELSE StartI2C("TX", "Send")
          /\ IF rev = "3.0" THEN TxClear({"START_AMS"}) ELSE UNCHANGED ev
          /\ UNCHANGED <<pool, peVars, txVars, rxVars, hrByPe, worldVars>>

\* Collision avoidance: the thread polls, sleeping in between, until the partner
\* advertises SinkTxOk, and looks at nothing else meanwhile.
AmsGranted ==
    /\ ~fault
    /\ pc["TX"] = "AmsWait"
    /\ TxGoto("Send")
    /\ bus' = Append(bus, "TX")
    /\ UNCHANGED <<ev, ready, fault, poolVars, peVars, prlVars, worldVars>>

SendMessage ==
    /\ TxRuns("Send")
    /\ FusbSendMessage(content[txMsg])
    /\ TxGoto("WaitResponse")
    /\ UNCHANGED <<ev, ready, bus, content, txVars>>
    /\ TxFrame

WaitResponse ==
    /\ TxRuns("WaitResponse")
    /\ \/ GiveUp(Pending("TX"), Mask["WaitResponse"])
       \/ /\ Pending("TX") \cap {"RESET", "DISCARD"} = {}
          /\ "I_TXSENT" \in Pending("TX")
          /\ TxClear(Mask["WaitResponse"])
          /\ StartI2C("TX", "MatchMessageID")
          /\ UNCHANGED <<content, txVars, chipVars>>
          /\ TxFrame
       \/ /\ Pending("TX") = {"I_RETRYFAIL"}
          /\ Report("TX_ERR", {"I_RETRYFAIL"})
          /\ txId' = (txId + 1) % 8
          /\ UNCHANGED <<ready, bus, content, txMail, chipVars>>
          /\ TxFrame

\* With nothing to read, the comparison looks at whatever the stack held.
Matches == IF fifo = <<>> THEN BOOLEAN
           ELSE {fifo[1].type = "GoodCRC" /\ fifo[1].id = txId}

MatchMessageID ==
    /\ TxRuns("MatchMessageID")
    /\ FusbReadMessage
    /\ \E match \in Matches : Report(IF match THEN "TX_DONE" ELSE "TX_ERR", {})
    /\ txId' = (txId + 1) % 8
    /\ UNCHANGED <<ready, bus, content, txMail>>
    /\ TxFrame

TxNext == \/ PHYReset \/ WaitMessage \/ ConstructMessage \/ AmsGranted \/ SendMessage
          \/ WaitResponse \/ MatchMessageID \/ Block("TX")

=============================================================================
