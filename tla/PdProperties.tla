---------------------------- MODULE PdProperties ----------------------------
(***************************************************************************)
(* What the stack of PdStack should do.                                    *)
(***************************************************************************)
EXTENDS PdStack

-----------------------------------------------------------------------------
(* Hard Reset: the hand-over between hard_reset.c and policy_engine.c.     *)

\* Where a Hard Reset that the HR thread waits for can be.
Holds(h) == CASE h = "indicated" -> "RESET" \in ev["PE"]
              [] h = "sent"      -> "HARD_SENT" \in ev["PE"]
              [] h = "handling"  -> pc["PE"] = "TransitionDefault"
              [] h = "done"      -> "DONE" \in ev["HR"]
Holders == {h \in {"indicated", "sent", "handling", "done"} : Holds(h)}

\* While the HR thread waits for the policy engine (PRLHRWaitPE), exactly one of them
\* has the reset in hand: it is signalled to the engine, or the engine is making the
\* transition to default, or DONE is on its way back.  At any other time nobody has.
\* So no reset is answered twice, and a DONE never ends a later reset's wait.
ResetHandshake ==
    IF pc["HR"] = "WaitPE" THEN \E h \in Holders : Holders = {h} ELSE Holders = {}

\* Once the policy engine has asked for a Hard Reset it stays in PE_SNK_Hard_Reset
\* until the HR thread reports that reset sent; no HARD_SENT finds it anywhere else.
ResetAwaited ==
    \/ "RESET" \in ev["HR"]
    \/ hrByPe /\ pc["HR"] \in {"ResetLayer.rx", "ResetLayer.tx", "Request",
                               "HardWaitPHY", "HardResetRequested"}
    \/ "HARD_SENT" \in ev["PE"]
    => pc["PE"] = "HardReset.sent"

\* Where the Hard Reset under way is, from its start by the HR thread to the end of its wait.
Reset ==
    CASE pc["HR"] = "ResetLayer" /\ Holders = {} -> "none"
      [] pc["HR"] \notin {"ResetLayer", "WaitPE"} /\ Holders = {} ->
            IF hrByPe THEN "ours" ELSE "theirs"
      [] pc["HR"] = "WaitPE" /\ \E h \in Holders : Holders = {h} -> CHOOSE h \in Holders : TRUE
      [] OTHER -> "confused"

\* The engine waits for a Hard Reset that has not been started.
ResetAsked == pc["PE"] = "HardReset.sent" /\ Reset \notin {"ours", "sent"}

Handover == INSTANCE ResetHandover WITH reset <- Reset, asked <- ResetAsked

\* The HR thread and the engine take every Hard Reset through the same steps, one at a
\* time: a request of the engine is started on once, and while the engine waits for it
\* nothing else takes it out of its wait (hard_reset.c:44-152, policy_engine.c:565-598).
HandoverSpec == Handover!Spec

-----------------------------------------------------------------------------
(* Buffers.                                                                *)

Elements(s) == {s[i] : i \in 1..Len(s)}

\* The buffers each party may free or hand on: the pool, the RX thread's message, the
\* engine's mailbox, the message it works on, its Request and the message it sends.
Owned == [pool |-> pool,
          rx   |-> IF pc["RX"] = "WaitPHY" THEN {} ELSE {rxMsg},
          mail |-> Elements(peMail),
          msg  |-> IF pc["PE"] \in {"EvalCap", "Ready"} THEN {peMsg} \ {NULL} ELSE {},
          req  |-> {req} \ {NULL},
          sent |-> {sent} \ {NULL}]

\* No buffer has two owners, so none is freed twice or handed to two threads.
NoSharing ==
    /\ LET owned == Owned
       IN  \A i, j \in DOMAIN owned : i # j => owned[i] \cap owned[j] = {}
    /\ \A i, j \in 1..Len(peMail) : i # j => peMail[i] # peMail[j]

\* With a device policy manager that frees the capabilities it is given, as
\* policy_engine.c asks of it, no buffer is ever lost to the pool.
NoLeak == DpmFrees => LET owned == Owned
                      IN  \A b \in Buf : \E i \in DOMAIN owned : b \in owned[i]

\* A message flag is never raised over an empty mailbox, so neither the engine nor the
\* TX thread works on a message it failed to fetch.
FlagsHaveMessages ==
    /\ "MSG_RX" \in ev["PE"] => peMail # <<>>
    /\ "MSG_TX" \in ev["TX"] => txMail # <<>>

\* The partner has not signalled a Hard Reset.
Unreset == resetsLeft = MaxResets

\* Until the partner signals a Hard Reset, for which the engine frees a message without
\* waiting for the TX thread to let go of it, the TX thread never numbers or transmits a
\* message that the engine has freed.
TxKeepsItsMessage ==
    Unreset /\ pc["TX"] \in {"Construct", "AmsWait", "Send"} => txMsg \notin pool

\* The RX thread finds a buffer for every message the chip has acknowledged.
RxFindsBuffer == pc["RX"] = "WaitPHY" /\ ev["RX"] = {"I_GCRCSENT"} => pool # {}

\* At most two buffers, the Request and the message the engine works on or sends, are
\* neither in the pool nor in the RX thread's hands or the engine's mailbox.  So RX only
\* runs out of buffers when all the others hold messages the engine has yet to fetch.
FewBuffersOut ==
    DpmFrees => Cardinality(pool) + Len(peMail) + (IF pc["RX"] = "WaitPHY" THEN 0 ELSE 1)
                   >= Cardinality(Buf) - 2

-----------------------------------------------------------------------------
(* Power.                                                                  *)

\* The output carries the requested power only under an explicit contract.
PowerUnderContract == supply = "requested" => contract

-----------------------------------------------------------------------------
(* Messages.                                                               *)

Hands(b) == Len(peMail') = Len(peMail) + 1 /\ peMail'[Len(peMail')] = b

\* Neither side has signalled a Hard Reset yet, or is about to.
NoHardReset == hardResets = 0 /\ resetsLeft = MaxResets /\ pc["PE"] # "HardReset.sent"

\* Until the first Hard Reset, which forgets the MessageIDs, the policy engine is
\* handed the partner's messages in the order they were sent and none of them twice,
\* except that a repeated Soft_Reset always gets through.
InOrderOnce ==
    [][\A b \in Buf : Hands(b) /\ NoHardReset /\ content[b].type # "SoftReset"
           => content[b].n = 0 \/ content[b].n > lastSeen]_vars

\* RX drops a message for its MessageID, and the engine has not been handed it.
DropsUnseen == /\ pc["RX"] = "CheckMessageID" /\ pc'["RX"] = "WaitPHY"
               /\ "RESET" \notin ev["RX"]
               /\ content[rxMsg].n > lastSeen

\* The partner has numbered its messages through since the first one.
NumberedThrough == NoHardReset /\ content[rxMsg].id = (content[rxMsg].n - 1) % 8

\* What RX drops for its MessageID is a repeat of a message the engine has been handed,
\* as long as neither a Soft_Reset nor a Hard Reset has renumbered the messages.
DropsOnlyRepeats == [][DropsUnseen => ~NumberedThrough]_vars

\* The same without that condition: protocol_rx.c:113 says that a message with the
\* stored MessageID is one "we've seen ... before".
DroppedWasSeen == [][~DropsUnseen]_vars

\* When the chip has acknowledged a message, RX reads one: neither a flushed FIFO nor
\* the GoodCRC meant for the TX thread, as long as nothing has struck a busy stack.
RxReadsAMessage ==
    [][rushLeft = MaxRushes /\ pc["RX"] = "Read" /\ pc'["RX"] # "Read"
           => fifo # <<>> /\ fifo[1].type # "GoodCRC"]_vars

\* The engine has a message that no flag tells it of.
Unnoticed == peMail # <<>> /\ "MSG_RX" \notin ev["PE"]

\* A message only becomes unnoticed at a wait that took MSG_RX, and there only if a second
\* message shared that flag or another event was taken in its stead.
MessagesNoticed ==
    [][~Unnoticed /\ Unnoticed' => /\ "MSG_RX" \in Pending("PE")
                                   /\ Len(peMail) >= 2 \/ Pending("PE") # {"MSG_RX"}]_vars

\* In PE_SNK_Ready with a PPS Request in force, the periodic timer that repeats the
\* Request is running, or has just run out, until a user event takes its turn.
PpsKept == pc["PE"] = "Ready" /\ contract /\ reqPps /\ rev = "3.0" /\ userLeft = UserEvents
               => ppsTimer \/ "PPS_REQUEST" \in ev["PE"]

\* When the engine gives a transmission up as failed, the TX thread is done with it, until
\* the partner signals a Hard Reset.
FailureIsOurs ==
    [][Unreset /\ pc["PE"] \in TxWaits /\ pc'["PE"] \in {"HardReset", "SendSoftReset"}
           => txMsg = NULL /\ txMail = <<>> /\ "MSG_TX" \notin ev["TX"]]_vars

\* The message the engine has handed over and waits for.
ToSend == IF sent # NULL THEN sent ELSE req

\* Until then the TX thread takes up exactly the message the engine waits for, and no other
\* is queued behind it.
SendsWhatWasAsked ==
    [][Unreset /\ pc["TX"] = "WaitMessage" /\ pc'["TX"] = "Construct"
           => pc["PE"] \in TxWaits /\ txMail = <<ToSend>>]_vars

-----------------------------------------------------------------------------
(* Progress.  The scheduler gives every runnable thread the processor once  *)
(* those above it block, transfers end, and the chip reports an outcome.   *)

Go(A) == A /\ UNCHANGED rushLeft

Fairness == /\ WF_vars(Go(PeNext))
            /\ WF_vars(Go(TxNext))
            /\ WF_vars(Go(RxNext))
            /\ WF_vars(Go(HrNext))
            /\ WF_vars(Go(IntNNext))
            /\ WF_vars(Go(BusDone))
            /\ WF_vars(Go(Chip))

FairSpec == Spec /\ Fairness

\* Every transmission the engine hands over is reported back to it.
TransmissionAnswered == \A s \in TxWaits : pc["PE"] = s ~> (pc["PE"] # s \/ fault)

\* Every Hard Reset the HR thread waits for the engine to deal with is finished, unless
\* the engine has given the partner up: it never leaves PE_SNK_Source_Unresponsive.
ResetFinished ==
    pc["HR"] = "WaitPE" ~> (pc["HR"] # "WaitPE" \/ pc["PE"] = "SourceUnresponsive" \/ fault)

\* The TX thread never keeps a message for ever.
TxLetsGo == txMsg # NULL ~> (txMsg = NULL \/ fault)

=============================================================================
