---------------------------- MODULE ThreadProofs ----------------------------
(***************************************************************************)
(* What the threads of the stack hand to one another, proved for every     *)
(* value of the constants.  First the Hard Resets that pass between        *)
(* hard_reset.c and policy_engine.c: the two threads' part in the hand-    *)
(* over, and that together they implement ResetHandover.  Then the         *)
(* scheduler, which forgets no thread of the protocol layer.  Last, until  *)
(* something strikes a busy stack, that it does one thing at a time, which *)
(* lets RX read the message that the chip has acknowledged.                *)
(***************************************************************************)
EXTENDS PdStackProofs

USE DEF kernelVars, poolVars, dpmVars, ppsVars, peVars, txVars, rxVars, prlVars,
        chipVars, srcVars, worldVars, vars

\* The policy engine's side: a reset is signalled to it, HARD_SENT is, it makes the
\* transition to default, it waits for the Hard Reset it has asked for.
Indicated == "RESET" \in ev["PE"]
Reported  == "HARD_SENT" \in ev["PE"]
Handling  == pc["PE"] = "TransitionDefault"
Awaiting  == pc["PE"] = "HardReset.sent"

\* The HR thread's side: it is asked for a Hard Reset, it carries that one out, it
\* waits for the engine, the engine has told it that it is done.
Carrying  == {"ResetLayer.rx", "ResetLayer.tx", "Request", "HardWaitPHY",
              "HardResetRequested"}
Asked     == "RESET" \in ev["HR"]
Carried   == hrByPe /\ pc["HR"] \in Carrying
Waiting   == pc["HR"] = "WaitPE"
Done      == "DONE" \in ev["HR"]

\* The chip is only given Hard Resets that the engine asked for.
OursOnly  == pc["HR"] \in {"Request", "HardWaitPHY", "HardResetRequested"} => hrByPe

AtMostOne(a, b, c, d) == /\ ~(a /\ b) /\ ~(a /\ c) /\ ~(a /\ d)
                         /\ ~(b /\ c) /\ ~(b /\ d) /\ ~(c /\ d)

\* The inductive invariant.  Beyond the two properties it says that the engine's
\* request is in one place at a time, and somewhere as long as the engine waits for it,
\* and where hrByPe is known to be set.
HandshakeInv ==
    /\ Waiting <=> Indicated \/ Reported \/ Handling \/ Done
    /\ AtMostOne(Indicated, Reported, Handling, Done)
    /\ Awaiting <=> Asked \/ Carried \/ Reported
    /\ ~(Asked /\ Carried) /\ ~(Asked /\ Reported)
    /\ OursOnly
    /\ pc["HR"] \in {"ResetLayer", "WaitPE"} \cup Carrying

-----------------------------------------------------------------------------
(* The two properties follow from the invariant.                           *)

\* What it means for each party to hold the reset.
LEMMA HoldsDef ==
    /\ Holds("indicated") <=> Indicated
    /\ Holds("sent") <=> Reported
    /\ Holds("handling") <=> Handling
    /\ Holds("done") <=> Done
  BY Zenon DEF Holds, Indicated, Reported, Handling, Done

\* The inductive invariant is as strong as the two properties.
LEMMA InvImplies == HandshakeInv => ResetHandshake /\ ResetAwaited
  <1>. SUFFICES ASSUME HandshakeInv PROVE ResetHandshake /\ ResetAwaited
    OBVIOUS
  <1>1. ResetAwaited
    BY DEF HandshakeInv, ResetAwaited, Asked, Carried, Reported, Awaiting, Carrying
  <1>2. /\ Waiting <=> \E h \in Holders : TRUE
        /\ \A g, h \in Holders : g = h
    BY HoldsDef DEF HandshakeInv, AtMostOne, Holders
  <1>3. ResetHandshake
    BY <1>2 DEF ResetHandshake, Waiting
  <1>. QED
    BY <1>1, <1>3

-----------------------------------------------------------------------------
(* The steps of the hand-over.                                             *)

\* A step keeps the invariant, and is one of the abstract hand-over's or none.
Kept == HandshakeInv' /\ [Handover!Next]_(Handover!vars)

\* Where the reset is, by what the two parties show.
ResetSeen ==
    /\ pc["HR"] = "ResetLayer" => Reset = "none"
    /\ pc["HR"] \in Carrying => Reset = IF hrByPe THEN "ours" ELSE "theirs"
    /\ Indicated => Reset = "indicated"
    /\ Reported => Reset = "sent"
    /\ Handling => Reset = "handling"
    /\ Done => Reset = "done"
    /\ ResetAsked <=> Asked

\* The invariant leaves no doubt about it,
LEMMA ResetPlace == HandshakeInv => ResetSeen
  <1>. SUFFICES ASSUME HandshakeInv PROVE ResetSeen
    OBVIOUS
  <1>1. ASSUME NEW h \in {"indicated", "sent", "handling", "done"}, Holds(h)
        PROVE  Reset = h
    <2>1. Holders = {h}
      BY <1>1, HoldsDef DEF HandshakeInv, AtMostOne, Holders
    <2>2. pc["HR"] = "WaitPE"
      BY <1>1, HoldsDef DEF HandshakeInv, Waiting
    <2>3. (CHOOSE g \in Holders : TRUE) = h
      BY <2>1
    <2>. QED
      BY <2>1, <2>2, <2>3 DEF Reset
  <1>2. ASSUME pc["HR"] # "WaitPE" PROVE Holders = {}
    BY <1>2, HoldsDef DEF HandshakeInv, Waiting, Holders
  <1>3. pc["HR"] = "ResetLayer" => Reset = "none"
    BY <1>2 DEF Reset
  <1>4. pc["HR"] \in Carrying => Reset = IF hrByPe THEN "ours" ELSE "theirs"
    <2>1. ASSUME pc["HR"] \in Carrying PROVE pc["HR"] \notin {"ResetLayer", "WaitPE"}
      BY <2>1 DEF Carrying
    <2>. QED
      BY <1>2, <2>1 DEF Reset
  <1>5. /\ Indicated => Reset = "indicated"
        /\ Reported => Reset = "sent"
        /\ Handling => Reset = "handling"
        /\ Done => Reset = "done"
    BY <1>1, HoldsDef
  <1>6. ResetAsked <=> Asked
    <2>1. Awaiting <=> Asked \/ Carried \/ Reported
      BY DEF HandshakeInv
    <2>2. Carried \/ Reported => Reset \in {"ours", "sent"}
      BY <1>4, <1>5 DEF Carried
    <2>3. Asked => Reset \notin {"ours", "sent"}
      <3>1. CASE pc["HR"] \in Carrying
        BY <1>4, <3>1 DEF HandshakeInv, Carried
      <3>2. CASE pc["HR"] = "ResetLayer"
        BY <1>3, <3>2
      <3>3. CASE pc["HR"] = "WaitPE"
        BY <1>5, <3>3 DEF HandshakeInv, Waiting
      <3>. QED
        BY <3>1, <3>2, <3>3 DEF HandshakeInv
    <2>. QED
      BY <2>1, <2>2, <2>3 DEF ResetAsked, Awaiting
  <1>. QED
    BY <1>3, <1>4, <1>5, <1>6 DEF ResetSeen

\* nor after a step that keeps it.
LEMMA ResetPlaceNext == HandshakeInv' => ResetSeen'
  BY ResetPlace, PTL

\* What a step has to show to be one of the hand-over's.
LEMMA HandoverSteps ==
    ASSUME HandshakeInv, HandshakeInv'
    PROVE  /\ Reset' = Reset /\ (Asked' <=> Asked) => Kept
           /\ ~Asked /\ Asked' /\ Reset' = Reset /\ Reset \notin {"ours", "sent", "handling"}
                  => Kept
           /\ Reset = "none" /\ Reset' = (IF Asked THEN "ours" ELSE "theirs") /\ ~Asked' => Kept
           /\ (Asked' <=> Asked) /\ <<Reset, Reset'>> \in {<<"theirs", "indicated">>,
                  <<"ours", "sent">>, <<"sent", "handling">>, <<"handling", "done">>,
                  <<"done", "none">>} => Kept
           /\ ~Asked /\ ~Asked' /\ Reset = "indicated" /\ Reset' = "handling" => Kept
  <1>1. (ResetAsked <=> Asked) /\ (ResetAsked' <=> Asked')
    BY ResetPlace, ResetPlaceNext DEF ResetSeen
  <1>2. ResetAsked \in BOOLEAN /\ ResetAsked' \in BOOLEAN
    BY DEF ResetAsked
  <1>. USE <1>1, <1>2 DEF Kept, Handover!Next, Handover!vars
  <1>3. Reset' = Reset /\ (Asked' <=> Asked) => Kept
    OBVIOUS
  <1>4. ~Asked /\ Asked' /\ Reset' = Reset /\ Reset \notin {"ours", "sent", "handling"} => Kept
    BY DEF Handover!Ask
  <1>5. Reset = "none" /\ Reset' = (IF Asked THEN "ours" ELSE "theirs") /\ ~Asked' => Kept
    BY DEF Handover!Start
  <1>6. (Asked' <=> Asked) /\ <<Reset, Reset'>> \in {<<"theirs", "indicated">>,
            <<"ours", "sent">>, <<"sent", "handling">>, <<"handling", "done">>,
            <<"done", "none">>} => Kept
    BY DEF Handover!Indicate, Handover!Report, Handover!TakeUp, Handover!Finish, Handover!End
  <1>7. ~Asked /\ ~Asked' /\ Reset = "indicated" /\ Reset' = "handling" => Kept
    BY DEF Handover!TakeUp
  <1>. QED
    BY <1>3, <1>4, <1>5, <1>6, <1>7

-----------------------------------------------------------------------------
(* The kinds of step that the hand-over sees.                              *)

\* Nothing it is about changes.
LEMMA SameView ==
    ASSUME HandshakeInv, Indicated' <=> Indicated, Reported' <=> Reported,
           Handling' <=> Handling, Awaiting' <=> Awaiting, Done' <=> Done,
           Asked' <=> Asked, pc'["HR"] = pc["HR"], hrByPe' = hrByPe
    PROVE  Kept
  <1>1. HandshakeInv'
    BY DEF HandshakeInv, AtMostOne, Waiting, Carried, OursOnly
  <1>2. ResetSeen /\ ResetSeen'
    BY <1>1, ResetPlace, ResetPlaceNext
  <1>3. Reset' = Reset
    <2>1. CASE pc["HR"] \in {"ResetLayer"} \cup Carrying
      BY <1>2, <2>1 DEF ResetSeen
    <2>2. CASE Indicated \/ Reported \/ Handling \/ Done
      BY <1>2, <2>2 DEF ResetSeen
    <2>. QED
      BY <2>1, <2>2 DEF HandshakeInv, Waiting
  <1>. QED
    BY <1>1, <1>3, HandoverSteps

\* Some thread's own business: flags of other kinds, moves elsewhere.
Bystanding ==
    /\ UNCHANGED hrByPe
    /\ pc'["PE"] = pc["PE"] /\ pc'["HR"] = pc["HR"]
    /\ \A e \in {"RESET", "HARD_SENT"} : e \in ev'["PE"] <=> e \in ev["PE"]
    /\ \A e \in {"RESET", "DONE"} : e \in ev'["HR"] <=> e \in ev["HR"]

\* A step that moves neither HR nor the engine among the places that matter, and
\* signals none of the flags that matter, keeps the invariant.
LEMMA BystandingStep == HandshakeInv /\ Bystanding => Kept
  <1>. SUFFICES ASSUME HandshakeInv, Bystanding PROVE Kept
    OBVIOUS
  <1>1. /\ Indicated' <=> Indicated
        /\ Reported' <=> Reported
        /\ Done' <=> Done
        /\ Asked' <=> Asked
    BY DEF Bystanding, Indicated, Reported, Done, Asked
  <1>2. (Handling' <=> Handling) /\ (Awaiting' <=> Awaiting)
    BY DEF Bystanding, Handling, Awaiting
  <1>. QED
    BY <1>1, <1>2, SameView DEF Bystanding

\* The flags that each wait of the policy engine takes: RESET everywhere but in
\* PE_SNK_Hard_Reset, HARD_SENT only there.
LEMMA PeMasks ==
    /\ \A s \in PeWaits \ {"HardReset.sent"} :
           "RESET" \in Mask[s] /\ "HARD_SENT" \notin Mask[s]
    /\ Mask["HardReset.sent"] = {"HARD_SENT"}
  BY EngineMasks DEF PeWaits, TxOutcome

-----------------------------------------------------------------------------
(* The policy engine.                                                      *)

Elsewhere == PePc \ {"HardReset.sent", "TransitionDefault"}

SignalsKept ==
    /\ \A e \in {"RESET", "HARD_SENT"} : e \in ev'["PE"] <=> e \in ev["PE"]
    /\ \A e \in {"RESET", "DONE"} : e \in ev'["HR"] <=> e \in ev["HR"]

\* After Goto(s) the engine is at s and everyone else where they were.
LEMMA GotoPlace ==
    ASSUME TypeInv, NEW s, Goto(s)
    PROVE  pc'["PE"] = s /\ pc'["HR"] = pc["HR"]
  BY DEF TypeInv, TypeOK, KernelOK, PcOK, Goto, Thread, Prl

\* The engine goes from one of its other states to another.
LEMMA MovesOn ==
    ASSUME TypeInv, HandshakeInv, NEW s \in Elsewhere, NEW r \in Elsewhere,
           At(s), Goto(r), SignalsKept, UNCHANGED hrByPe
    PROVE  Kept
  <1>1. /\ ~Handling /\ ~Handling' /\ ~Awaiting /\ ~Awaiting'
        /\ pc'["HR"] = pc["HR"]
    BY GotoPlace DEF At, Elsewhere, Handling, Awaiting
  <1>2. /\ Indicated' <=> Indicated
        /\ Reported' <=> Reported
        /\ Done' <=> Done
        /\ Asked' <=> Asked
    BY DEF SignalsKept, Indicated, Reported, Done, Asked
  <1>. QED
    BY <1>1, <1>2, SameView

\* A wait clears its own flags and those of nobody else.
LEMMA WokenKeeps ==
    ASSUME TypeInv, NEW s \in PeWaits \ {"HardReset.sent"}, Woken(s), ~Got("RESET")
    PROVE  SignalsKept
  <1>1. /\ pc["PE"] = s
        /\ ev'["PE"] = ev["PE"] \ Mask[s] /\ ev'["HR"] = ev["HR"]
    BY DEF Woken, At, TypeInv, TypeOK, KernelOK, Thread, Prl
  <1>2. "RESET" \notin ev["PE"]
    BY <1>1, PeMasks DEF Got, Pending
  <1>. QED
    BY <1>1, <1>2, PeMasks DEF SignalsKept

\* It takes the reset that was signalled to it.
LEMMA TakesReset ==
    ASSUME TypeInv, HandshakeInv, NEW s \in PeWaits \ {"HardReset.sent"}, Woken(s),
           Got("RESET"), Goto("TransitionDefault"), UNCHANGED hrByPe
    PROVE  Kept
  <1>1. /\ pc["PE"] = s
        /\ ev'["PE"] = ev["PE"] \ Mask[s] /\ ev'["HR"] = ev["HR"]
    BY DEF Woken, At, TypeInv, TypeOK, KernelOK, Thread, Prl
  <1>2. /\ Indicated /\ ~Indicated' /\ (Reported' <=> Reported)
        /\ (Done' <=> Done) /\ (Asked' <=> Asked)
    BY <1>1, PeMasks DEF Got, Pending, Indicated, Reported, Done, Asked
  <1>3. Handling' /\ pc'["HR"] = pc["HR"]
    BY GotoPlace DEF Handling
  <1>4. ~Awaiting /\ ~Awaiting'
    BY <1>1, GotoPlace DEF Awaiting
  <1>5. /\ Waiting' <=> Waiting
        /\ Carried' <=> Carried
        /\ OursOnly' <=> OursOnly
    BY <1>3 DEF Waiting, Carried, OursOnly
  <1>6. HandshakeInv' /\ ~Asked /\ ~Asked'
    BY <1>2, <1>3, <1>4, <1>5 DEF HandshakeInv, AtMostOne
  <1>7. Reset = "indicated" /\ Reset' = "handling"
    BY <1>2, <1>3, <1>6, ResetPlace, ResetPlaceNext DEF ResetSeen
  <1>. QED
    BY <1>6, <1>7, HandoverSteps

\* Handing a message over to be transmitted keeps the invariant,
LEMMA TransmitHandshake ==
    ASSUME TypeInv, HandshakeInv, NEW s \in Elsewhere, NEW type, NEW wait \in Elsewhere,
           Transmit(s, type, wait)
    PROVE  Kept
  <1>1. SignalsKept
    BY DEF Transmit, Submit, SignalsKept, TypeInv, TypeOK, KernelOK, Thread, Prl
  <1>. QED
    BY <1>1, MovesOn DEF Transmit

\* and so does the outcome, a reset included.
LEMMA AfterTransmitHandshake ==
    ASSUME TypeInv, HandshakeInv, NEW s \in TxWaits, NEW done \in Elsewhere,
           NEW failed \in Elsewhere, AfterTransmit(s, done, failed)
    PROVE  Kept
  <1>1. s \in PeWaits \ {"HardReset.sent"} /\ s \in Elsewhere
    BY DEF PeWaits, TxWaits, Elsewhere, PePc
  <1>2. CASE Got("RESET")
    BY <1>1, <1>2, TakesReset DEF AfterTransmit
  <1>3. CASE ~Got("RESET")
    BY <1>1, <1>3, WokenKeeps, MovesOn DEF AfterTransmit, Woken
  <1>. QED
    BY <1>2, <1>3

\* No message takes the engine into or out of the hand-over.
LEMMA AfterElsewhere ==
    /\ \A type : AfterReply(type) \in Elsewhere
    /\ \A type : AfterReady(type) \in Elsewhere
    /\ \A type : AfterSoftReset(type) \in Elsewhere
  <1>. USE DEF Elsewhere, PePc, PeEntries, PeWaits
  <1>1. ASSUME NEW type PROVE AfterReply(type) \in Elsewhere
    BY Zenon DEF AfterReply
  <1>2. ASSUME NEW type PROVE AfterReady(type) \in Elsewhere
    BY Zenon DEF AfterReady
  <1>3. ASSUME NEW type PROVE AfterSoftReset(type) \in Elsewhere
    BY Zenon DEF AfterSoftReset
  <1>. QED
    BY <1>1, <1>2, <1>3

\* Every step of the engine keeps the invariant.
LEMMA PeHandshake ==
    ASSUME TypeInv, HandshakeInv, PeNext
    PROVE  Kept
  <1>k. ASSUME UNCHANGED ev PROVE SignalsKept
    BY <1>k DEF SignalsKept
  <1>e. ASSUME NEW s, s \in {"Startup", "Discovery", "EvalCap", "SelectCap", "GetSourceCap",
                             "GiveSinkCap", "HardReset", "SoftReset", "SendSoftReset",
                             "SendNotSupported", "NotSupportedReceived",
                             "SourceUnresponsive"}
        PROVE  s \in Elsewhere
    BY <1>e DEF Elsewhere, PePc, PeEntries
  <1>w. ASSUME NEW s, s \in TxWaits \cup {"WaitCap", "SelectCap.rsp", "TransitionSink", "Ready",
                                          "SendSoftReset.rsp", "ChunkReceived"}
        PROVE  s \in Elsewhere /\ s \in PeWaits \ {"HardReset.sent"}
    BY <1>w DEF Elsewhere, PePc, PeWaits, TxWaits
  <1>. USE DEF Leave
  <1>r. ASSUME NEW s \in PeWaits \ {"HardReset.sent"}, OnReset(s) PROVE Kept
    BY <1>r, TakesReset DEF OnReset
  <1>m. ASSUME NEW s \in Elsewhere, s \in PeWaits \ {"HardReset.sent"}, NEW r \in Elsewhere,
               Woken(s), ~Got("RESET"), Goto(r), UNCHANGED hrByPe
        PROVE  Kept
    BY <1>m, WokenKeeps, MovesOn DEF Woken
  <1>1. CASE Startup \/ Discovery \/ EvalCap \/ NotSupportedReceived
    BY <1>1, <1>e, <1>w, <1>k, MovesOn DEF Startup, Discovery, EvalCap, NotSupportedReceived
  <1>2. CASE WaitCap
    <2>1. CASE OnReset("WaitCap")
      BY <2>1, <1>w, <1>r
    <2>2. ASSUME Woken("WaitCap"), ~Got("RESET"), UNCHANGED hrByPe,
                 Goto("WaitCap") \/ Goto("EvalCap") \/ Goto("SoftReset") \/ Goto("HardReset")
          PROVE  Kept
      BY <2>2, <1>e, <1>w, <1>m
    <2>. QED
      BY <1>2, <2>1, <2>2 DEF WaitCap, Got
  <1>3. CASE SelectCap
    <2>1. SignalsKept
      BY <1>3 DEF SelectCap, Submit, SignalsKept, TypeInv, TypeOK, KernelOK, Thread, Prl
    <2>. QED
      BY <1>3, <2>1, <1>e, <1>w, MovesOn DEF SelectCap, TxWaits
  <1>4. CASE SelectCapSent
    BY <1>4, <1>e, <1>w, <1>r, <1>m DEF SelectCapSent, Got, TxWaits
  <1>5. CASE SelectCapReply
    BY <1>5, <1>w, <1>r, <1>m, AfterElsewhere DEF SelectCapReply
  <1>6. CASE TransitionSink
    BY <1>6, <1>e, <1>w, <1>r, <1>m DEF TransitionSink
  <1>7. CASE Ready
    <2>1. CASE ReadyStartAms
      <3>1. /\ ev'["PE"] = ev["PE"] \ Mask["Ready"] /\ ev'["HR"] = ev["HR"]
            /\ pc["PE"] = "Ready" /\ "RESET" \notin ev["PE"]
        BY <2>1, <1>w, PeMasks
        DEF ReadyStartAms, SignalTx, At, Got, Pending, TypeInv, TypeOK, KernelOK, Thread, Prl
      <3>2. SignalsKept
        BY <3>1, <1>w, PeMasks DEF SignalsKept
      <3>. QED
        BY <2>1, <3>2, <1>e, <1>w, MovesOn DEF ReadyStartAms, ReadyStay
    <2>2. CASE ReadyMessage
      BY <2>2, <1>w, <1>m, AfterElsewhere DEF ReadyMessage, ReadyStay, Got
    <2>. QED
      BY <1>7, <2>1, <2>2, <1>e, <1>w, <1>r, <1>m DEF Ready
  <1>8. CASE GetSourceCap \/ GiveSinkCap \/ SoftReset \/ SendNotSupported
    BY <1>8, <1>e, <1>w, TransmitHandshake, AfterTransmitHandshake
    DEF GetSourceCap, GiveSinkCap, SoftReset, SendNotSupported, TxWaits
  <1>9. CASE SendSoftReset
    BY <1>9, <1>e, <1>w, <1>r, <1>m, TransmitHandshake, AfterTransmitHandshake, AfterElsewhere
    DEF SendSoftReset, TxWaits
  <1>10. CASE ChunkReceived
    BY <1>10, <1>w, <1>r DEF ChunkReceived
  <1>11. CASE HardReset
    <2>1. CASE Goto("SourceUnresponsive") /\ UNCHANGED <<ev, hrByPe>>
      BY <1>11, <2>1, <1>e, <1>k, MovesOn DEF HardReset
    <2>2. CASE SignalHr("RESET") /\ Goto("HardReset.sent") /\ UNCHANGED hrByPe
      <3>1. ev'["PE"] = ev["PE"] /\ ev'["HR"] = ev["HR"] \cup {"RESET"}
        BY <2>2 DEF SignalHr, TypeInv, TypeOK, KernelOK, Thread, Prl
      <3>2. pc["PE"] = "HardReset" /\ pc'["PE"] = "HardReset.sent" /\ pc'["HR"] = pc["HR"]
        BY <1>11, <2>2, GotoPlace DEF HardReset, At
      <3>3. /\ Indicated' <=> Indicated
            /\ Reported' <=> Reported
            /\ Done' <=> Done
            /\ Asked'
        BY <3>1 DEF Indicated, Reported, Done, Asked
      <3>4. ~Handling /\ ~Handling' /\ ~Awaiting /\ Awaiting'
        BY <3>2 DEF Handling, Awaiting
      <3>5. /\ Waiting' <=> Waiting
            /\ Carried' <=> Carried
            /\ OursOnly' <=> OursOnly
        BY <2>2, <3>2 DEF Waiting, Carried, OursOnly
      <3>6. HandshakeInv'
        BY <3>2, <3>3, <3>4, <3>5 DEF HandshakeInv, AtMostOne
      <3>7. ~Asked /\ Asked' /\ Reset' = Reset /\ Reset \notin {"ours", "sent", "handling"}
        <4>1. ResetSeen /\ ResetSeen' /\ ~Asked /\ ~Carried /\ ~Reported
          BY <3>4, <3>6, ResetPlace, ResetPlaceNext DEF HandshakeInv
        <4>2. CASE pc["HR"] = "ResetLayer"
          BY <3>2, <3>3, <4>1, <4>2 DEF ResetSeen
        <4>3. CASE pc["HR"] \in Carrying
          BY <2>2, <3>2, <3>3, <4>1, <4>3 DEF ResetSeen, Carried
        <4>4. CASE Indicated \/ Done
          BY <3>3, <4>1, <4>4 DEF ResetSeen
        <4>. QED
          BY <3>4, <4>1, <4>2, <4>3, <4>4 DEF HandshakeInv, Waiting
      <3>. QED
        BY <3>6, <3>7, HandoverSteps
    <2>. QED
      BY <1>11, <2>1, <2>2 DEF HardReset
  <1>12. CASE HardResetSent
    <2>1. /\ ev'["PE"] = ev["PE"] \ {"HARD_SENT"} /\ ev'["HR"] = ev["HR"]
          /\ pc["PE"] = "HardReset.sent" /\ "HARD_SENT" \in ev["PE"]
      BY <1>12, PeMasks
      DEF HardResetSent, Woken, At, Pending, TypeInv, TypeOK, KernelOK, Thread, Prl
    <2>2. pc'["PE"] = "TransitionDefault" /\ pc'["HR"] = pc["HR"] /\ hrByPe' = hrByPe
      BY <1>12, GotoPlace DEF HardResetSent
    <2>3. /\ Indicated' <=> Indicated
          /\ Reported /\ ~Reported'
          /\ Done' <=> Done
          /\ Asked' <=> Asked
      BY <2>1 DEF Indicated, Reported, Done, Asked
    <2>4. Handling' /\ ~Awaiting'
      BY <2>2 DEF Handling, Awaiting
    <2>5. ~Carried
      BY <2>3 DEF HandshakeInv, Carried, Waiting, Carrying
    <2>6. /\ Waiting' <=> Waiting
          /\ Carried' <=> Carried
          /\ OursOnly' <=> OursOnly
      BY <2>2 DEF Waiting, Carried, OursOnly
    <2>7. HandshakeInv'
      BY <2>2, <2>3, <2>4, <2>5, <2>6 DEF HandshakeInv, AtMostOne
    <2>8. Reset = "sent" /\ Reset' = "handling"
      BY <2>3, <2>4, <2>7, ResetPlace, ResetPlaceNext DEF ResetSeen
    <2>. QED
      BY <2>3, <2>7, <2>8, HandoverSteps
  <1>13. CASE TransitionDefault
    <2>1. /\ ev'["PE"] = ev["PE"] /\ ev'["HR"] = ev["HR"] \cup {"DONE"}
          /\ pc["PE"] = "TransitionDefault"
      BY <1>13 DEF TransitionDefault, At, SignalHr, TypeInv, TypeOK, KernelOK, Thread, Prl
    <2>2. pc'["PE"] = "Startup" /\ pc'["HR"] = pc["HR"] /\ hrByPe' = hrByPe
      BY <1>13, GotoPlace DEF TransitionDefault
    <2>3. /\ Indicated' <=> Indicated
          /\ Reported' <=> Reported
          /\ Done'
          /\ Asked' <=> Asked
      BY <2>1 DEF Indicated, Reported, Done, Asked
    <2>4. Handling /\ ~Handling' /\ ~Awaiting /\ ~Awaiting'
      BY <2>1, <2>2 DEF Handling, Awaiting
    <2>5. /\ Waiting' <=> Waiting
          /\ Carried' <=> Carried
          /\ OursOnly' <=> OursOnly
      BY <2>2 DEF Waiting, Carried, OursOnly
    <2>6. HandshakeInv'
      BY <2>2, <2>3, <2>4, <2>5 DEF HandshakeInv, AtMostOne
    <2>7. Reset = "handling" /\ Reset' = "done"
      BY <2>3, <2>4, <2>6, ResetPlace, ResetPlaceNext DEF ResetSeen
    <2>. QED
      BY <2>3, <2>6, <2>7, HandoverSteps
  <1>14. CASE SourceUnresponsive \/ PeAllocFails
    BY <1>14, BystandingStep DEF SourceUnresponsive, PeAllocFails, Bystanding
  <1>. QED
    BY <1>1, <1>2, <1>3, <1>4, <1>5, <1>6, <1>7, <1>8, <1>9, <1>10, <1>11, <1>12, <1>13, <1>14
    DEF PeNext

\* A timeout leads away from any state but the two that matter here.
LEMMA TimerHandshake ==
    ASSUME TypeInv, HandshakeInv, PeTimer
    PROVE  Kept
  <1>e. ASSUME NEW s, s \in {"WaitCap", "SelectCap.rsp", "TransitionSink", "SendSoftReset.rsp",
                             "Ready", "ChunkReceived", "HardReset", "SelectCap",
                             "SendNotSupported"}
        PROVE  s \in Elsewhere
    BY <1>e DEF Elsewhere, PePc, PeEntries, PeWaits
  <1>1. ASSUME NEW s \in Elsewhere, NEW r \in Elsewhere, TimedOut(s), Goto(r), Leave
        PROVE  Kept
    <2>1. SignalsKept /\ UNCHANGED hrByPe
      BY <1>1 DEF TimedOut, SignalsKept, Leave
    <2>. QED
      BY <1>1, <2>1, MovesOn DEF TimedOut
  <1>2. CASE NoCapabilities \/ NoReply \/ NoPsRdy \/ NoAccept
    BY <1>2, <1>1, <1>e DEF NoCapabilities, NoReply, NoPsRdy, NoAccept, OnTimeout
  <1>3. CASE RequestAgain \/ ChunkingNotSupported
    BY <1>3, <1>1, <1>e DEF RequestAgain, ChunkingNotSupported
  <1>4. CASE PpsTimerFires
    <2>1. Bystanding
      BY <1>4 DEF PpsTimerFires, Bystanding, TypeInv, TypeOK, KernelOK, Thread, Prl
    <2>. QED
      BY <2>1, BystandingStep
  <1>. QED
    BY <1>2, <1>3, <1>4 DEF PeTimer

-----------------------------------------------------------------------------
(* The other threads.                                                      *)

\* TX and RX signal other events, and go their own ways.
LEMMA PlaceOfOthers ==
    ASSUME PcOK, NEW t \in {"TX", "RX"}, NEW s, pc' = [pc EXCEPT ![t] = s]
    PROVE  pc'["PE"] = pc["PE"] /\ pc'["HR"] = pc["HR"]
  BY DEF PcOK, Thread, Prl

\* Every step of TX keeps the invariant.
LEMMA TxHandshake ==
    ASSUME TypeInv, HandshakeInv, TxNext
    PROVE  Kept
  <1>1. PcOK /\ ev \in [Thread -> SUBSET Event]
    BY DEF TypeInv, TypeOK, KernelOK
  <1>. USE DEF TxFrame
  <1>c. ASSUME NEW E, TxClear(E) PROVE ev'["PE"] = ev["PE"] /\ ev'["HR"] = ev["HR"]
    BY <1>1, <1>c DEF TxClear, Thread, Prl
  <1>r. ASSUME NEW e \in {"TX_DONE", "TX_ERR"}, NEW E, Report(e, E)
        PROVE  ev'["PE"] = ev["PE"] \cup {e} /\ ev'["HR"] = ev["HR"]
    BY <1>1, <1>r DEF Report, Thread, Prl
  <1>i. ASSUME NEW s, StartI2C("TX", s) PROVE pc' = [pc EXCEPT !["TX"] = s]
    BY <1>i DEF StartI2C
  <1>k. ASSUME UNCHANGED hrByPe, NEW s, UNCHANGED pc \/ pc' = [pc EXCEPT !["TX"] = s],
               NEW e \in {"TX_DONE", "TX_ERR"},
               ev'["PE"] \in {ev["PE"], ev["PE"] \cup {e}}, ev'["HR"] = ev["HR"]
        PROVE  Kept
    <2>1. pc'["PE"] = pc["PE"] /\ pc'["HR"] = pc["HR"]
      BY <1>1, <1>k, PlaceOfOthers
    <2>2. Bystanding
      BY <1>k, <2>1 DEF Bystanding
    <2>. QED
      BY <2>2, BystandingStep
  <1>g. ASSUME NEW evt, NEW cleared, GiveUp(evt, cleared) PROVE Kept
    BY <1>g, <1>c, <1>i, <1>k DEF GiveUp, DiscardMessage
  <1>2. CASE PHYReset
    BY <1>2, <1>r, <1>k DEF PHYReset, TxGoto, Report
  <1>3. CASE WaitMessage
    <2>1. ASSUME ev' = [ev EXCEPT !["TX"] = @ \ {"MSG_TX"}, !["RX"] = @ \cup {"RESET"}]
          PROVE  ev'["PE"] = ev["PE"] /\ ev'["HR"] = ev["HR"]
      BY <1>1, <2>1 DEF Thread, Prl
    <2>. QED
      BY <1>3, <2>1, <1>c, <1>g, <1>k DEF WaitMessage, TxGoto
  <1>4. CASE ConstructMessage
    BY <1>4, <1>c, <1>g, <1>i, <1>k DEF ConstructMessage, TxGoto
  <1>5. CASE AmsGranted \/ SendMessage
    BY <1>5, <1>k DEF AmsGranted, SendMessage, TxGoto
  <1>6. CASE WaitResponse
    BY <1>6, <1>c, <1>g, <1>i, <1>r, <1>k DEF WaitResponse, Report, TxGoto
  <1>7. CASE MatchMessageID
    BY <1>7, <1>r, <1>k DEF MatchMessageID, Report, TxGoto
  <1>8. CASE Block("TX")
    BY <1>8, <1>k DEF Block
  <1>. QED
    BY <1>2, <1>3, <1>4, <1>5, <1>6, <1>7, <1>8 DEF TxNext

\* Every step of RX keeps the invariant.
LEMMA RxHandshake ==
    ASSUME TypeInv, HandshakeInv, RxNext
    PROVE  Kept
  <1>1. PcOK /\ ev \in [Thread -> SUBSET Event]
    BY DEF TypeInv, TypeOK, KernelOK
  <1>. USE DEF RxFrame, RxGoto
  <1>t. ASSUME NEW e, NEW s, TellTxAndYield(e, s)
        PROVE  ev'["PE"] = ev["PE"] /\ ev'["HR"] = ev["HR"]
    BY <1>1, <1>t DEF TellTxAndYield, Thread, Prl
  <1>x. ASSUME NEW E, ev' = [ev EXCEPT !["RX"] = E]
        PROVE  ev'["PE"] = ev["PE"] /\ ev'["HR"] = ev["HR"]
    BY <1>1, <1>x DEF Thread, Prl
  <1>k. ASSUME UNCHANGED hrByPe, NEW s, UNCHANGED pc \/ pc' = [pc EXCEPT !["RX"] = s],
               ev'["PE"] \in {ev["PE"], ev["PE"] \cup {"MSG_RX"}}, ev'["HR"] = ev["HR"]
        PROVE  Kept
    <2>1. pc'["PE"] = pc["PE"] /\ pc'["HR"] = pc["HR"]
      BY <1>1, <1>k, PlaceOfOthers
    <2>2. Bystanding
      BY <1>k, <2>1 DEF Bystanding
    <2>. QED
      BY <2>2, BystandingStep
  <1>d. ASSUME RxDrop PROVE Kept
    BY <1>d, <1>x, <1>k DEF RxDrop
  <1>2. CASE RxWaitPHY
    BY <1>2, <1>x, <1>k DEF RxWaitPHY, StartI2C
  <1>3. CASE RxAllocFails
    BY <1>3, <1>k DEF RxAllocFails
  <1>4. CASE RxRead
    BY <1>4, <1>t, <1>k DEF RxRead, TellTxAndYield
  <1>5. CASE RxReset
    BY <1>5, <1>d, <1>k DEF RxReset
  <1>6. CASE RxCheckMessageID
    BY <1>6, <1>d, <1>t, <1>k DEF RxCheckMessageID, TellTxAndYield
  <1>7. CASE RxStoreMessageID
    <2>1. ev'["PE"] = ev["PE"] \cup {"MSG_RX"} /\ ev'["HR"] = ev["HR"]
      BY <1>1, <1>7 DEF RxStoreMessageID, Thread, Prl
    <2>. QED
      BY <1>7, <2>1, <1>k DEF RxStoreMessageID
  <1>8. CASE Block("RX")
    BY <1>8, <1>k DEF Block
  <1>. QED
    BY <1>2, <1>3, <1>4, <1>5, <1>6, <1>7, <1>8 DEF RxNext

\* What the threads of the protocol layer wait for.
LEMMA PrlMasks ==
    /\ Mask["WaitMessage"] = {"RESET", "DISCARD", "MSG_TX"}
    /\ Mask["WaitResponse"] = TxResponse
    /\ Mask["WaitPHY"] = Event
    /\ Mask["ResetLayer"] = {"RESET", "I_HARDRST"}
    /\ Mask["HardWaitPHY"] = {"I_HARDSENT"}
    /\ Mask["WaitPE"] = {"DONE"}
  BY Zenon DEF Mask, PrlWaits, TxWaits

\* HR goes on with the reset it carries out.
LEMMA MovesWithin ==
    ASSUME HandshakeInv, HandshakeInv', pc["HR"] \in Carrying, pc'["HR"] \in Carrying,
           hrByPe' = hrByPe, Asked' <=> Asked
    PROVE  Kept
  <1>1. Reset' = Reset
    BY ResetPlace, ResetPlaceNext DEF ResetSeen
  <1>. QED
    BY <1>1, HandoverSteps

\* Every step of HR keeps the invariant.
LEMMA HrHandshake ==
    ASSUME TypeInv, HandshakeInv, HrNext
    PROVE  Kept
  <1>1. ev \in [Thread -> SUBSET Event]
    BY DEF TypeInv, TypeOK, KernelOK
  <1>g. ASSUME NEW s, pc' = [pc EXCEPT !["HR"] = s]
        PROVE  pc'["HR"] = s /\ pc'["PE"] = pc["PE"] /\ (Handling' <=> Handling)
               /\ (Awaiting' <=> Awaiting)
    BY <1>g DEF TypeInv, TypeOK, KernelOK, PcOK, Thread, Prl, Handling, Awaiting
  <1>k. ASSUME ev'["PE"] = ev["PE"] PROVE (Indicated' <=> Indicated) /\ (Reported' <=> Reported)
    BY <1>k DEF Indicated, Reported
  <1>h. ASSUME ev'["HR"] = ev["HR"] PROVE (Asked' <=> Asked) /\ (Done' <=> Done)
    BY <1>h DEF Asked, Done
  <1>2. CASE HrResetLayer
    <2>1. /\ pc["HR"] = "ResetLayer" /\ pc'["HR"] = "ResetLayer.rx"
      BY <1>2, <1>g DEF HrResetLayer, HrRuns, HrGoto
    <2>4. ev' = [ev EXCEPT !["HR"] = @ \ {"RESET", "I_HARDRST"}, !["RX"] = @ \cup {"RESET"}]
      BY <1>2, PrlMasks, Zenon DEF HrResetLayer
    <2>5. ev'["PE"] = ev["PE"] /\ ev'["HR"] = ev["HR"] \ {"RESET", "I_HARDRST"}
      BY <1>1, <2>4 DEF Thread, Prl
    <2>6. hrByPe' <=> "RESET" \in ev["HR"]
      <3>1. Pending("HR") = ev["HR"] \cap {"RESET", "I_HARDRST"}
        BY <2>1, PrlMasks DEF Pending
      <3>2. hrByPe' = ("RESET" \in Pending("HR"))
        BY <1>2, Zenon DEF HrResetLayer
      <3>. QED
        BY <3>1, <3>2
    <2>2. /\ hrByPe' <=> Asked
          /\ ~Asked' /\ (Done' <=> Done)
      BY <2>5, <2>6 DEF Asked, Done
    <2>3. /\ ~Waiting /\ ~Waiting'
          /\ ~Carried /\ (Carried' <=> hrByPe')
          /\ OursOnly'
      BY <2>1 DEF Waiting, Carried, Carrying, OursOnly
    <2>7. HandshakeInv'
      BY <1>2, <2>1, <2>2, <2>3, <2>5, <1>g, <1>k
      DEF HrResetLayer, HrGoto, HandshakeInv, AtMostOne, Carrying
    <2>8. /\ Reset = "none" /\ Reset' = IF Asked THEN "ours" ELSE "theirs"
      BY <2>1, <2>2, <2>7, ResetPlace, ResetPlaceNext DEF ResetSeen, Carrying
    <2>. QED
      BY <2>2, <2>7, <2>8, HandoverSteps
  <1>3. CASE HrResetTx
    <2>1. /\ ev'["PE"] = ev["PE"] /\ ev'["HR"] = ev["HR"] /\ hrByPe' = hrByPe
          /\ pc["HR"] = "ResetLayer.rx" /\ pc'["HR"] = "ResetLayer.tx"
      BY <1>1, <1>3, <1>g DEF HrResetTx, HrRuns, HrGoto, Thread, Prl
    <2>2. /\ ~Waiting /\ ~Waiting'
          /\ Carried' <=> Carried
          /\ OursOnly'
      BY <2>1 DEF Waiting, Carried, Carrying, OursOnly
    <2>3. HandshakeInv'
      BY <1>3, <2>1, <2>2, <1>g, <1>k, <1>h DEF HrResetTx, HrGoto, HandshakeInv, AtMostOne, Carrying
    <2>. QED
      BY <2>1, <2>3, <1>h, MovesWithin DEF Carrying
  <1>4. CASE HrIndicate
    <2>1. /\ ev'["PE"] = ev["PE"] \cup {"RESET"} /\ ev'["HR"] = ev["HR"]
          /\ hrByPe' = hrByPe /\ ~hrByPe
          /\ pc["HR"] = "ResetLayer.tx" /\ pc'["HR"] = "WaitPE"
      BY <1>1, <1>4, <1>g DEF HrIndicate, HrRuns, HrGoto, Thread, Prl
    <2>2. /\ ~Waiting /\ Waiting'
          /\ ~Carried /\ ~Carried' /\ OursOnly'
      BY <2>1 DEF Waiting, Carried, Carrying, OursOnly
    <2>3. Indicated' /\ (Reported' <=> Reported)
      BY <2>1 DEF Indicated, Reported
    <2>4. HandshakeInv'
      BY <1>4, <2>1, <2>2, <2>3, <1>g, <1>h DEF HrIndicate, HrGoto, HandshakeInv, AtMostOne
    <2>5. Reset = "theirs" /\ Reset' = "indicated"
      BY <2>1, <2>3, <2>4, ResetPlace, ResetPlaceNext DEF ResetSeen, Carrying
    <2>. QED
      BY <2>1, <2>4, <2>5, <1>h, HandoverSteps
  <1>5. CASE HrRequest
    <2>1. /\ ev'["PE"] = ev["PE"] /\ ev'["HR"] = ev["HR"]
          /\ hrByPe' = hrByPe /\ hrByPe
          /\ pc["HR"] = "ResetLayer.tx" /\ pc'["HR"] = "Request"
      BY <1>5, <1>g DEF HrRequest, HrRuns, StartI2C
    <2>2. /\ ~Waiting /\ ~Waiting'
          /\ Carried' <=> Carried
          /\ OursOnly'
      BY <2>1 DEF Waiting, Carried, Carrying, OursOnly
    <2>3. HandshakeInv'
      BY <1>5, <2>1, <2>2, <1>g, <1>k, <1>h
         DEF HrRequest, StartI2C, HandshakeInv, AtMostOne, Carrying
    <2>. QED
      BY <2>1, <2>3, <1>h, MovesWithin DEF Carrying
  <1>6. CASE HrRequested
    <2>1. /\ ev'["PE"] = ev["PE"] /\ ev'["HR"] = ev["HR"] /\ hrByPe' = hrByPe
          /\ pc["HR"] = "Request" /\ pc'["HR"] = "HardWaitPHY"
      BY <1>6, <1>g DEF HrRequested, HrRuns, HrGoto
    <2>2. /\ ~Waiting /\ ~Waiting'
          /\ Carried' <=> Carried
          /\ OursOnly' <=> OursOnly
      BY <2>1 DEF Waiting, Carried, Carrying, OursOnly
    <2>3. HandshakeInv'
      BY <1>6, <2>1, <2>2, <1>g, <1>k, <1>h
         DEF HrRequested, HrGoto, HandshakeInv, AtMostOne, Carrying
    <2>. QED
      BY <2>1, <2>3, <1>h, MovesWithin DEF Carrying
  <1>7. CASE HrWaitPHY
    <2>1. /\ ev'["PE"] = ev["PE"] /\ hrByPe' = hrByPe
          /\ ev'["HR"] \in {ev["HR"], ev["HR"] \ {"I_HARDSENT"}}
          /\ pc["HR"] = "HardWaitPHY" /\ pc'["HR"] = "HardResetRequested"
      BY <1>1, <1>7, <1>g DEF HrWaitPHY, HrRuns, HrGoto, Thread, Prl
    <2>2. /\ ~Waiting /\ ~Waiting'
          /\ Carried' <=> Carried
          /\ OursOnly' <=> OursOnly
      BY <2>1 DEF Waiting, Carried, Carrying, OursOnly
    <2>3. (Asked' <=> Asked) /\ (Done' <=> Done)
      BY <2>1 DEF Asked, Done
    <2>4. HandshakeInv'
      BY <1>7, <2>1, <2>2, <2>3, <1>g, <1>k
      DEF HrWaitPHY, HrGoto, HandshakeInv, AtMostOne, Carrying
    <2>. QED
      BY <2>1, <2>3, <2>4, MovesWithin DEF Carrying
  <1>8. CASE HrHardResetRequested
    <2>1. /\ ev'["PE"] = ev["PE"] \cup {"HARD_SENT"} /\ ev'["HR"] = ev["HR"]
          /\ pc["HR"] = "HardResetRequested" /\ pc'["HR"] = "WaitPE"
      BY <1>1, <1>8, <1>g DEF HrHardResetRequested, HrRuns, HrGoto, Thread, Prl
    <2>2. /\ ~Waiting /\ Waiting'
          /\ Carried /\ ~Carried' /\ OursOnly'
      BY <2>1 DEF Waiting, Carried, Carrying, OursOnly, HandshakeInv
    <2>3. Reported' /\ (Indicated' <=> Indicated)
      BY <2>1 DEF Indicated, Reported
    <2>4. HandshakeInv'
      BY <1>8, <2>1, <2>2, <2>3, <1>g, <1>h
      DEF HrHardResetRequested, HrGoto, HandshakeInv, AtMostOne
    <2>5. Reset = "ours" /\ Reset' = "sent"
      BY <2>1, <2>2, <2>3, <2>4, ResetPlace, ResetPlaceNext DEF ResetSeen, Carried
    <2>. QED
      BY <2>1, <2>4, <2>5, <1>h, HandoverSteps
  <1>9. CASE HrWaitPE
    <2>1. pc["HR"] = "WaitPE" /\ pc'["HR"] = "ResetLayer"
      BY <1>9, <1>g DEF HrWaitPE, HrRuns, HrGoto
    <2>4. ev'["PE"] = ev["PE"] /\ ev'["HR"] = ev["HR"] \ {"DONE"}
      BY <1>1, <1>9 DEF HrWaitPE, Thread, Prl
    <2>5. "DONE" \in ev["HR"]
      BY <1>9, <2>1, PrlMasks DEF HrWaitPE, Pending
    <2>2. /\ Waiting /\ ~Waiting'
          /\ ~Carried /\ ~Carried' /\ OursOnly'
      BY <2>1 DEF Waiting, Carried, Carrying, OursOnly
    <2>3. Done /\ ~Done' /\ (Asked' <=> Asked)
      BY <2>4, <2>5 DEF Done, Asked
    <2>6. HandshakeInv'
      BY <1>9, <2>1, <2>2, <2>3, <2>4, <1>g, <1>k DEF HrWaitPE, HrGoto, HandshakeInv, AtMostOne
    <2>7. Reset = "done" /\ Reset' = "none"
      BY <2>1, <2>3, <2>6, ResetPlace, ResetPlaceNext DEF ResetSeen
    <2>. QED
      BY <2>3, <2>6, <2>7, HandoverSteps
  <1>10. CASE Block("HR")
    BY <1>10, BystandingStep DEF Block, Bystanding
  <1>. QED
    BY <1>2, <1>3, <1>4, <1>5, <1>6, <1>7, <1>8, <1>9, <1>10 DEF HrNext

\* The poller passes on the chip's interrupts, none of which is part of the hand-over;
\* nor is anything the chip, the bus, the partner or the user does.
LEMMA OthersHandshake ==
    ASSUME TypeInv, HandshakeInv, IntNNext \/ BusDone \/ Chip \/ Outside
    PROVE  Kept
  <1>1. ev \in [Thread -> SUBSET Event]
    BY DEF TypeInv, TypeOK, KernelOK
  <1>2. CASE IntNPoll \/ BusDone
    BY <1>2, BystandingStep DEF IntNPoll, BusDone, Bystanding
  <1>3. ASSUME NEW t \in Thread, IntNTell(t) PROVE Kept
    <2>1. status \subseteq Interrupt
      BY DEF TypeInv, TypeOK, WorldOK
    <2>2. Bystanding
      BY <1>1, <1>3, <2>1 DEF IntNTell, Bystanding, Interrupt, Thread, Prl
    <2>. QED
      BY <2>2, BystandingStep
  <1>4. ASSUME SoftwareStays, UNCHANGED ev PROVE Kept
    BY <1>4, BystandingStep DEF SoftwareStays, Bystanding
  <1>5. CASE UserSignals
    <2>1. PICK e \in userLeft : ev' = [ev EXCEPT !["PE"] = @ \cup {e}]
      BY <1>5 DEF UserSignals
    <2>2. e \in {"NEW_POWER", "GET_SOURCE_CAP"}
      BY BoundAssumption DEF TypeInv, TypeOK, WorldOK
    <2>3. Bystanding
      BY <1>1, <1>5, <2>1, <2>2 DEF UserSignals, SoftwareStays, Bystanding, Thread, Prl
    <2>. QED
      BY <2>3, BystandingStep
  <1>6. CASE Chip
    BY <1>6, <1>4 DEF Chip, TransmitSucceeds, TransmitFails, HardResetSignalled
  <1>7. CASE PartnerSends \/ PartnerRepeats \/ PartnerHardResets \/ OverTemp
    BY <1>7, <1>4 DEF PartnerSends, PartnerRepeats, PartnerHardResets, OverTemp
  <1>. QED
    BY <1>2, <1>3, <1>5, <1>6, <1>7 DEF IntNNext, Outside

-----------------------------------------------------------------------------
(* The theorems about the hand-over.                                       *)

\* The invariant holds at first,
LEMMA InitHandshake == Init => HandshakeInv
  <1>. SUFFICES ASSUME Init PROVE HandshakeInv
    OBVIOUS
  <1>1. /\ pc["PE"] = "Startup" /\ pc["HR"] = "ResetLayer"
        /\ ev["PE"] = {} /\ ev["HR"] = {}
    BY DEF Init, Thread, Prl
  <1>. QED
    BY <1>1 DEF HandshakeInv, AtMostOne, Indicated, Reported, Handling, Awaiting, Asked,
                Carried, Carrying, Waiting, Done, OursOnly

\* and every step keeps it.
LEMMA NextHandshake == TypeInv /\ HandshakeInv /\ [Next]_vars => Kept
  <1>. SUFFICES ASSUME TypeInv, HandshakeInv, [Next]_vars PROVE Kept
    OBVIOUS
  <1>1. CASE Stack
    BY <1>1, PeHandshake, TxHandshake, RxHandshake, HrHandshake, OthersHandshake DEF Stack
  <1>2. CASE Strike
    BY <1>2, TimerHandshake, OthersHandshake DEF Strike
  <1>3. CASE UNCHANGED vars
    BY <1>3, BystandingStep DEF Bystanding
  <1>. QED
    BY <1>1, <1>2, <1>3 DEF Next

\* So it is an invariant.
LEMMA HandshakeInvariant == Spec => [](TypeInv /\ HandshakeInv)
  <1>1. HandshakeInv /\ TypeInv /\ [Next]_vars => HandshakeInv'
    BY NextHandshake DEF Kept
  <1>. QED
    BY InitType, NextType, InitHandshake, <1>1, PTL DEF Spec

\* While the HR thread waits for the policy engine exactly one of them has the reset
\* in hand, and at any other time nobody has: no Hard Reset is answered twice, and no
\* DONE is left over to end the wait of a later one.
THEOREM HandshakeCorrect == Spec => []ResetHandshake
  <1>1. HandshakeInv => ResetHandshake
    BY InvImplies
  <1>. QED
    BY HandshakeInvariant, <1>1, PTL

\* Between the policy engine's request for a Hard Reset and the report that it was
\* sent, the engine stays in PE_SNK_Hard_Reset.
THEOREM AwaitedCorrect == Spec => []ResetAwaited
  <1>1. HandshakeInv => ResetAwaited
    BY InvImplies
  <1>. QED
    BY HandshakeInvariant, <1>1, PTL

\* The HR thread and the policy engine implement ResetHandover: each of their steps is one of
\* its steps, or changes nothing it shows.
THEOREM HandoverCorrect == Spec => HandoverSpec
  <1>1. Init => Handover!Init
    <2>1. ASSUME Init PROVE HandshakeInv /\ pc["HR"] = "ResetLayer" /\ ~Asked
      BY <2>1, InitHandshake DEF Init, Asked, Thread, Prl
    <2>2. ASSUME Init PROVE Reset = "none" /\ ResetAsked = FALSE
      <3>1. ~ResetAsked /\ Reset = "none"
        BY <2>1, <2>2, ResetPlace DEF ResetSeen
      <3>. QED
        BY <3>1
    <2>. QED
      BY <2>2 DEF Handover!Init
  <1>2. TypeInv /\ HandshakeInv /\ [Next]_vars => [Handover!Next]_(Handover!vars)
    BY NextHandshake DEF Kept
  <1>. QED
    BY HandshakeInvariant, <1>1, <1>2, PTL DEF Spec, HandoverSpec, Handover!Spec

-----------------------------------------------------------------------------
(* The scheduler forgets nobody.                                           *)

In(s, x) == \E i \in 1..Len(s) : s[i] = x
OnBus(t) == In(bus, t)

\* A thread of the protocol layer for which something it waits for is pending is runnable; at
\* any other place it is runnable or its transfer is queued, unless it polls for SinkTxOk.
QueueInv ==
    \A t \in Prl :
        /\ pc[t] \in PrlWaits /\ Pending(t) # {} => Queued(t)
        /\ pc[t] \notin PrlWaits \cup {"AmsWait"} => Queued(t) \/ OnBus(t)

\* To be runnable is to be in that queue.
LEMMA QueuedIn ==
    /\ \A t : Queued(t) <=> In(ready, t)
    /\ \A t : Queued(t)' <=> In(ready', t)
  BY DEF Queued, In

\* A queue without its first element has all the others.
LEMMA InTail ==
    ASSUME NEW S, NEW s \in Seq(S), s # <<>>, NEW x, x # s[1], In(s, x)
    PROVE  In(Tail(s), x)
  <1>1. PICK i \in 1..Len(s) : s[i] = x
    BY DEF In
  <1>2. i - 1 \in 1..Len(Tail(s)) /\ Tail(s)[i - 1] = s[i]
    BY <1>1
  <1>. QED
    BY <1>1, <1>2 DEF In

\* A queue that something is appended to has that and what it had before.
LEMMA InAppend ==
    ASSUME NEW S, NEW s \in Seq(S), NEW y \in S, NEW x
    PROVE  In(Append(s, y), x) <=> x = y \/ In(s, x)
  <1>1. /\ Len(Append(s, y)) = Len(s) + 1 /\ Append(s, y)[Len(s) + 1] = y
        /\ \A i \in 1..Len(s) : Append(s, y)[i] = s[i]
    OBVIOUS
  <1>. QED
    BY <1>1 DEF In

\* When its first element goes to the end, a queue has the same elements.
LEMMA InTurn ==
    ASSUME NEW S, NEW s \in Seq(S), s # <<>>, NEW x, In(s, x)
    PROVE  In(Append(Tail(s), s[1]), x)
  <1>1. Tail(s) \in Seq(S) /\ s[1] \in S
    OBVIOUS
  <1>2. x = s[1] \/ In(Tail(s), x)
    BY InTail
  <1>. QED
    BY <1>1, <1>2, InAppend

\* Waking a thread leaves it runnable if it waits for that, and the others as they were.
LEMMA WakeQueues ==
    ASSUME KernelOK, NEW t \in Prl, NEW e \in Event
    PROVE  /\ Wake(t, e) \in Seq(Prl)
           /\ ready # <<>> => Wake(t, e) # <<>> /\ Wake(t, e)[1] = ready[1]
           /\ \A u : Queued(u) => In(Wake(t, e), u)
           /\ pc[t] \in PrlWaits /\ e \in Mask[pc[t]] => In(Wake(t, e), t)
  <1>1. CASE pc[t] \in PrlWaits /\ ~Queued(t) /\ e \in Mask[pc[t]]
    <2>1. Wake(t, e) = Append(ready, t) /\ ready \in Seq(Prl)
      BY <1>1 DEF Wake, KernelOK
    <2>2. ready # <<>> => Append(ready, t)[1] = ready[1]
      BY <2>1
    <2>. QED
      BY <2>1, <2>2, InAppend, QueuedIn
  <1>2. CASE ~(pc[t] \in PrlWaits /\ ~Queued(t) /\ e \in Mask[pc[t]])
    <2>1. Wake(t, e) = ready /\ ready \in Seq(Prl)
      BY <1>2 DEF Wake, KernelOK
    <2>. QED
      BY <1>2, <2>1, QueuedIn
  <1>. QED
    BY <1>1, <1>2

\* Signalling e to t, with or without giving the processor up afterwards, forgets nobody.
Unforgotten(u) == \A t \in Prl \ {u} :
    /\ pc'[t] = pc[t]
    /\ (Queued(t) => Queued(t)') /\ (OnBus(t) => OnBus(t)')
    /\ \A e \in ev'[t] \ ev[t] : pc[t] \in PrlWaits /\ e \in Mask[pc[t]] => Queued(t)'

\* Thread u keeps the invariant if the others do not suffer from what it does.
LEMMA QueueKept ==
    ASSUME QueueInv, NEW u, Unforgotten(u),
           u \in Prl => /\ pc'[u] \in PrlWaits /\ Pending(u)' # {} => Queued(u)'
                        /\ pc'[u] \notin PrlWaits \cup {"AmsWait"} => Queued(u)' \/ OnBus(u)'
    PROVE  QueueInv'
  <1>1. ASSUME NEW t \in Prl, t # u
        PROVE  /\ pc'[t] \in PrlWaits /\ Pending(t)' # {} => Queued(t)'
               /\ pc'[t] \notin PrlWaits \cup {"AmsWait"} => Queued(t)' \/ OnBus(t)'
    <2>1. /\ pc'[t] = pc[t]
          /\ (Queued(t) => Queued(t)') /\ (OnBus(t) => OnBus(t)')
          /\ \A e \in ev'[t] \ ev[t] : pc[t] \in PrlWaits /\ e \in Mask[pc[t]] => Queued(t)'
      BY <1>1 DEF Unforgotten
    <2>2. /\ pc[t] \in PrlWaits /\ Pending(t) # {} => Queued(t)
          /\ pc[t] \notin PrlWaits \cup {"AmsWait"} => Queued(t) \/ OnBus(t)
      BY DEF QueueInv
    <2>3. ASSUME pc'[t] \in PrlWaits, Pending(t)' # {} PROVE Queued(t)'
      <3>1. PICK e : e \in ev'[t] /\ e \in Mask[pc'[t]]
        BY <2>3 DEF Pending
      <3>2. CASE e \in ev[t]
        BY <2>1, <2>2, <2>3, <3>1, <3>2 DEF Pending
      <3>3. CASE e \notin ev[t]
        BY <2>1, <2>3, <3>1, <3>3
      <3>. QED
        BY <3>2, <3>3
    <2>. QED
      BY <2>1, <2>2, <2>3
  <1>. QED
    BY <1>1 DEF QueueInv

\* u runs, signals e to t, gives the processor up and is runnable again behind all others.
LEMMA QueueYield ==
    ASSUME KernelOK, NEW u \in Prl, Runs(u), NEW t \in Prl, NEW e \in Event,
           ready' = Append(Tail(Wake(t, e)), u)
    PROVE  /\ \A v : Queued(v) => Queued(v)'
           /\ pc[t] \in PrlWaits /\ e \in Mask[pc[t]] => Queued(t)'
           /\ Queued(u)'
  <1>. DEFINE w == Wake(t, e)
  <1>1. ready # <<>> /\ ready[1] = u
    BY DEF Runs
  <1>2. /\ w \in Seq(Prl) /\ w # <<>> /\ w[1] = u
        /\ \A v : Queued(v) => In(w, v)
        /\ pc[t] \in PrlWaits /\ e \in Mask[pc[t]] => In(w, t)
    BY <1>1, WakeQueues
  <1>. HIDE DEF w
  <1>3. ready' = Append(Tail(w), w[1])
    BY <1>2 DEF w
  <1>4. \A v : In(w, v) => Queued(v)'
    <2>1. \A v : In(w, v) => In(ready', v)
      BY <1>2, <1>3, InTurn
    <2>. QED
      BY <2>1, QueuedIn
  <1>5. Queued(u)
    BY <1>1 DEF Queued, Runs
  <1>6. In(w, u)
    BY <1>2, <1>5
  <1>. QED
    BY <1>2, <1>4, <1>6

\* u starts a transfer.
LEMMA QueueTransfer ==
    ASSUME KernelOK, NEW u \in Prl, Runs(u), NEW s, StartI2C(u, s)
    PROVE  /\ \A t \in Prl : t # u => pc'[t] = pc[t] /\ (Queued(t) => Queued(t)')
           /\ \A t : OnBus(t) => OnBus(t)'
           /\ OnBus(u)' /\ pc'[u] = s
  <1>1. /\ ready' = Tail(ready) /\ bus' = Append(bus, u) /\ bus \in Seq(Prl)
        /\ pc' = [pc EXCEPT ![u] = s]
    BY DEF StartI2C, KernelOK
  <1>2. \A t : t # u /\ Queued(t) => Queued(t)'
    BY <1>1, InTail, QueuedIn DEF Runs, KernelOK
  <1>3. \A t : OnBus(t)' <=> t = u \/ OnBus(t)
    BY <1>1, InAppend DEF OnBus
  <1>4. u \in DOMAIN pc
    BY DEF KernelOK, PcOK, Thread
  <1>. QED
    BY <1>1, <1>2, <1>3, <1>4

-----------------------------------------------------------------------------
(* The kinds of step that the scheduler sees.                              *)

\* The policy engine goes on from a wait or from the entry of a state, hands a message to TX,
\* starts an atomic message sequence, asks HR for a Hard Reset or tells it that it is done with
\* one, or only sees to the output.
PeKinds ==
    /\ UNCHANGED <<bus, txMsg, rxMsg, hrByPe, worldVars>>
    /\ \/ UNCHANGED <<pc, ev, ready>>
       \/ \E s \in PeWaits, r \in PePc : Woken(s) /\ Goto(r) /\ UNCHANGED ready
       \/ \E s \in PeEntries, r \in PePc : At(s) /\ Goto(r) /\ UNCHANGED <<ev, ready>>
       \/ \E r \in PePc : At("Ready") /\ Pending("PE") # {} /\ SignalTx("START_AMS") /\ Goto(r)
                          /\ UNCHANGED ready
       \/ \E b : \E s \in PeEntries, r \in TxWaits : At(s) /\ Submit(b) /\ Goto(r)
       \/ At("HardReset") /\ SignalHr("RESET") /\ Goto("HardReset.sent")
       \/ At("TransitionDefault") /\ SignalHr("DONE") /\ Goto("Startup")

\* Every step of the engine is of one of these kinds.
LEMMA PeOfAKind ==
    ASSUME PeNext
    PROVE  PeKinds
  <1>. USE DEF Leave, PeKinds
  <1>p. PeWaits \subseteq PePc /\ PeEntries \subseteq PePc
    BY DEF PePc
  <1>w. {"WaitCap", "SelectCap.rsp", "TransitionSink", "Ready", "SendSoftReset.rsp",
         "ChunkReceived", "HardReset.sent"} \cup TxWaits \subseteq PeWaits
    BY DEF PeWaits
  <1>e. {"Startup", "Discovery", "EvalCap", "SelectCap", "GetSourceCap", "GiveSinkCap",
         "HardReset", "TransitionDefault", "SoftReset", "SendSoftReset", "SendNotSupported",
         "NotSupportedReceived"} \subseteq PeEntries
    BY DEF PeEntries
  <1>x. {"SelectCap.tx", "GetSourceCap.tx", "GiveSinkCap.tx", "SoftReset.tx",
         "SendSoftReset.tx", "SendNotSupported.tx"} \subseteq TxWaits
    BY DEF TxWaits
  <1>u. "SourceUnresponsive" \in PePc
    BY DEF PePc
  <1>r. ASSUME NEW s \in PeWaits, OnReset(s) PROVE PeKinds
    BY <1>r, <1>e, <1>p DEF OnReset
  <1>t. ASSUME NEW s \in PeEntries, NEW type, NEW wait \in TxWaits, Transmit(s, type, wait)
        PROVE  PeKinds
    BY <1>t DEF Transmit
  <1>a. ASSUME NEW s \in TxWaits, NEW done \in PePc, NEW failed \in PePc,
               AfterTransmit(s, done, failed)
        PROVE  PeKinds
    BY <1>a, <1>p, <1>w, <1>e DEF AfterTransmit
  <1>1. CASE \/ Startup \/ Discovery \/ EvalCap \/ NotSupportedReceived
    BY <1>1, <1>e, <1>w, <1>p DEF Startup, Discovery, EvalCap, NotSupportedReceived
  <1>2. CASE SourceUnresponsive \/ PeAllocFails
    BY <1>2 DEF SourceUnresponsive, PeAllocFails
  <1>3. CASE WaitCap
    BY <1>3, <1>e, <1>w, <1>p, <1>r DEF WaitCap
  <1>4. CASE SelectCapSent
    BY <1>4, <1>e, <1>w, <1>p, <1>x, <1>r DEF SelectCapSent
  <1>5. CASE SelectCapReply \/ TransitionSink \/ ChunkReceived \/ HardResetSent
    BY <1>5, <1>e, <1>w, <1>p, <1>r, AfterType
    DEF SelectCapReply, TransitionSink, ChunkReceived, HardResetSent
  <1>6. CASE Ready
    <2>1. CASE ReadyStartAms
      <3>1. Pending("PE") # {}
        BY <2>1 DEF ReadyStartAms, Got
      <3>2. PICK r \in PePc : Goto(r)
        BY <2>1, <1>e, <1>p DEF ReadyStartAms
      <3>. QED
        BY <2>1, <3>1, <3>2 DEF ReadyStartAms, ReadyStay
    <2>2. CASE ReadyMessage
      BY <2>2, <1>w, <1>p, AfterType DEF ReadyMessage, ReadyStay
    <2>. QED
      BY <1>6, <2>1, <2>2, <1>e, <1>w, <1>p, <1>r DEF Ready
  <1>7. CASE SelectCap
    BY <1>7, <1>e, <1>x DEF SelectCap
  <1>8. CASE GetSourceCap \/ GiveSinkCap \/ SoftReset \/ SendNotSupported
    BY <1>8, <1>e, <1>w, <1>p, <1>x, <1>t, <1>a
    DEF GetSourceCap, GiveSinkCap, SoftReset, SendNotSupported
  <1>9. CASE SendSoftReset
    BY <1>9, <1>e, <1>w, <1>p, <1>x, <1>r, <1>t, <1>a, AfterType DEF SendSoftReset
  <1>10. CASE HardReset
    BY <1>10, <1>e, <1>u DEF HardReset
  <1>11. CASE TransitionDefault
    BY <1>11 DEF TransitionDefault
  <1>. QED
    BY <1>1, <1>2, <1>3, <1>4, <1>5, <1>6, <1>7, <1>8, <1>9, <1>10, <1>11 DEF PeNext

\* A thread that blocks has nothing to run for.
LEMMA BlockQueue ==
    ASSUME KernelOK, QueueInv, NEW u \in Prl, Block(u)
    PROVE  QueueInv'
  <1>1. \A t : t # u /\ Queued(t) => Queued(t)'
    BY InTail, QueuedIn DEF Block, Runs, KernelOK
  <1>2. Unforgotten(u) /\ Pending(u)' = {} /\ pc'[u] \in PrlWaits
    BY <1>1 DEF Block, Unforgotten, OnBus, Pending
  <1>. QED
    BY <1>2, QueueKept

\* The engine forgets no thread that waits for what it signals,
LEMMA PeQueue ==
    ASSUME TypeInv, QueueInv, PeKinds
    PROVE  QueueInv'
  <1>1. KernelOK /\ ev \in [Thread -> SUBSET Event] /\ "PE" \notin Prl
        /\ Prl \subseteq Thread /\ "PE" \in Thread
    BY DEF TypeInv, TypeOK, KernelOK, Prl, Thread
  <1>2. \A t \in Prl : pc'[t] = pc[t]
    BY <1>1 DEF PeKinds, Goto, KernelOK, PcOK
  <1>3. \A t : OnBus(t) => OnBus(t)'
    BY DEF PeKinds, OnBus
  <1>4. ASSUME NEW u \in Prl, NEW e \in Event,
               ev' = [ev EXCEPT ![u] = @ \cup {e}], ready' = Wake(u, e)
        PROVE  QueueInv'
    <2>1. /\ \A t \in Prl : Queued(t) => Queued(t)'
          /\ pc[u] \in PrlWaits /\ e \in Mask[pc[u]] => Queued(u)'
      BY <1>1, <1>4, WakeQueues, QueuedIn
    <2>2. \A t \in Prl : ev'[t] = IF t = u THEN ev[u] \cup {e} ELSE ev[t]
      BY <1>1, <1>4
    <2>3. Unforgotten("PE")
      BY <1>2, <1>3, <2>1, <2>2 DEF Unforgotten
    <2>. QED
      BY <1>1, <2>3, QueueKept
  <1>5. ASSUME UNCHANGED ready, ev'["TX"] \subseteq ev["TX"] \cup {"START_AMS"},
               \A t \in {"RX", "HR"} : ev'[t] = ev[t]
        PROVE  QueueInv'
    <2>1. \A t \in Prl : Queued(t) => Queued(t)'
      BY <1>5, QueuedIn
    <2>2. ASSUME NEW t \in Prl, NEW e \in ev'[t] \ ev[t], pc[t] \in PrlWaits, e \in Mask[pc[t]]
          PROVE  FALSE
      <3>1. t = "TX" /\ e = "START_AMS"
        BY <1>5, <2>2 DEF Prl
      <3>2. pc["TX"] \in {"WaitMessage", "WaitResponse"}
        BY <1>1, <2>2, <3>1 DEF KernelOK, PcOK, TxPc, PrlWaits
      <3>. QED
        BY <2>2, <3>1, <3>2, PrlMasks DEF TxResponse
    <2>3. Unforgotten("PE")
      BY <1>2, <1>3, <2>1, <2>2 DEF Unforgotten
    <2>. QED
      BY <1>1, <2>3, QueueKept
  <1>6. CASE UNCHANGED <<pc, ev, ready>>
    BY <1>5, <1>6
  <1>7. ASSUME NEW s, Woken(s), UNCHANGED ready PROVE QueueInv'
    <2>1. \A t \in Prl : ev'[t] = ev[t]
      BY <1>1, <1>7 DEF Woken
    <2>. QED
      BY <1>5, <1>7, <2>1 DEF Prl
  <1>8. CASE UNCHANGED <<ev, ready>>
    BY <1>5, <1>8
  <1>9. ASSUME SignalTx("START_AMS"), UNCHANGED ready PROVE QueueInv'
    <2>1. /\ ev'["TX"] = ev["TX"] \cup {"START_AMS"}
          /\ \A t \in {"RX", "HR"} : ev'[t] = ev[t]
      BY <1>1, <1>9 DEF SignalTx, Prl
    <2>. QED
      BY <1>5, <1>9, <2>1
  <1>10. ASSUME NEW b, Submit(b) PROVE QueueInv'
    BY <1>4, <1>10 DEF Submit, Prl, Event
  <1>11. ASSUME NEW e \in {"RESET", "DONE"}, SignalHr(e) PROVE QueueInv'
    BY <1>4, <1>11 DEF SignalHr, Prl, Event
  <1>. QED
    BY <1>6, <1>7, <1>8, <1>9, <1>10, <1>11 DEF PeKinds

\* nor do the TX thread,
LEMMA TxQueue ==
    ASSUME TypeInv, QueueInv, TxNext
    PROVE  QueueInv'
  <1>1. KernelOK /\ ev \in [Thread -> SUBSET Event] /\ "TX" \in Prl
        /\ Prl = {"TX", "RX", "HR"} /\ Thread = {"TX", "RX", "HR", "PE"}
    BY DEF TypeInv, TypeOK, KernelOK, Prl, Thread
  <1>2. /\ ready \in Seq(Prl) /\ bus \in Seq(Prl)
        /\ pc \in [Thread -> PePc \cup TxPc \cup RxPc \cup HrPc]
    BY <1>1 DEF KernelOK, PcOK
  <1>g. ASSUME NEW s, pc' = [pc EXCEPT !["TX"] = s]
        PROVE  pc'["TX"] = s /\ \A t \in Prl : t # "TX" => pc'[t] = pc[t]
    BY <1>1, <1>2, <1>g
  <1>i. ASSUME NEW s, Runs("TX"), StartI2C("TX", s), s \notin PrlWaits,
               \A t \in Prl : t # "TX" => ev'[t] = ev[t]
        PROVE  QueueInv'
    <2>1. Unforgotten("TX") /\ OnBus("TX")' /\ pc'["TX"] = s
      BY <1>1, <1>i, QueueTransfer DEF Unforgotten
    <2>. QED
      BY <1>i, <2>1, QueueKept
  <1>s. ASSUME NEW s, Runs("TX"), pc' = [pc EXCEPT !["TX"] = s], UNCHANGED <<ready, bus>>,
               \A t \in Prl : t # "TX" => ev'[t] = ev[t]
        PROVE  QueueInv'
    <2>1. Queued("TX")' /\ \A t \in Prl : Queued(t) => Queued(t)'
      BY <1>s DEF Queued, Runs
    <2>2. Unforgotten("TX")
      BY <1>s, <1>g, <2>1 DEF Unforgotten, OnBus
    <2>. QED
      BY <1>g, <1>s, <2>1, <2>2, QueueKept
  <1>c. ASSUME NEW E, TxClear(E) PROVE \A t \in Prl : t # "TX" => ev'[t] = ev[t]
    BY <1>1, <1>c DEF TxClear
  <1>r. ASSUME NEW e, NEW E, Report(e, E)
        PROVE  /\ pc' = [pc EXCEPT !["TX"] = "WaitMessage"]
               /\ \A t \in Prl : t # "TX" => ev'[t] = ev[t]
    BY <1>1, <1>r DEF Report, TxGoto
  <1>v. ASSUME NEW evt, NEW E, Runs("TX"), GiveUp(evt, E) PROVE QueueInv'
    BY <1>c, <1>i, <1>v DEF GiveUp, DiscardMessage, PrlWaits
  <1>3. CASE PHYReset
    BY <1>3, <1>r, <1>s DEF PHYReset, TxRuns, TxGoto
  <1>4. CASE WaitMessage
    <2>1. CASE GiveUp(Pending("TX"), Mask["WaitMessage"])
      BY <1>4, <1>v, <2>1 DEF WaitMessage, TxRuns
    <2>2. CASE TxClear({"MSG_TX"}) /\ UNCHANGED <<ready, bus>> /\ TxGoto("Construct")
      BY <1>4, <1>c, <1>s, <2>2 DEF WaitMessage, TxRuns, TxGoto
    <2>3. CASE /\ ev' = [ev EXCEPT !["TX"] = @ \ {"MSG_TX"}, !["RX"] = @ \cup {"RESET"}]
               /\ ready' = Append(Tail(Wake("RX", "RESET")), "TX")
               /\ UNCHANGED bus /\ TxGoto("Construct")
      <3>1. /\ \A t : Queued(t) => Queued(t)'
            /\ pc["RX"] \in PrlWaits /\ "RESET" \in Mask[pc["RX"]] => Queued("RX")'
            /\ Queued("TX")'
        BY <1>1, <1>4, <2>3, QueueYield DEF WaitMessage, TxRuns, Event
      <3>2. ev'["RX"] = ev["RX"] \cup {"RESET"} /\ ev'["HR"] = ev["HR"]
        BY <1>1, <2>3
      <3>3. Unforgotten("TX")
        BY <1>1, <1>g, <2>3, <3>1, <3>2 DEF Unforgotten, TxGoto, OnBus
      <3>. QED
        BY <3>1, <3>3, QueueKept
    <2>. QED
      BY <1>4, <2>1, <2>2, <2>3 DEF WaitMessage
  <1>5. CASE ConstructMessage
    <2>1. CASE GiveUp(ev["TX"] \cap {"RESET", "DISCARD"}, {"RESET", "DISCARD"})
      BY <1>5, <1>v, <2>1 DEF ConstructMessage, TxRuns
    <2>2. CASE ~GiveUp(ev["TX"] \cap {"RESET", "DISCARD"}, {"RESET", "DISCARD"})
      <3>1. \A t \in Prl : t # "TX" => ev'[t] = ev[t]
        BY <1>5, <1>c, <2>2 DEF ConstructMessage
      <3>2. CASE StartI2C("TX", "Send")
        BY <1>5, <1>i, <3>1, <3>2 DEF ConstructMessage, TxRuns, PrlWaits
      <3>3. CASE TxGoto("AmsWait") /\ ready' = Tail(ready) /\ UNCHANGED bus
        <4>1. \A t \in Prl : t # "TX" /\ Queued(t) => Queued(t)'
          BY <1>2, <1>5, <3>3, InTail, QueuedIn DEF ConstructMessage, TxRuns, Runs
        <4>2. Unforgotten("TX") /\ pc'["TX"] = "AmsWait"
          BY <1>g, <3>1, <3>3, <4>1 DEF Unforgotten, TxGoto, OnBus
        <4>. QED
          BY <4>2, QueueKept DEF PrlWaits
      <3>. QED
        BY <1>5, <2>2, <3>2, <3>3 DEF ConstructMessage
    <2>. QED
      BY <2>1, <2>2
  <1>6. CASE AmsGranted
    <2>1. \A t : OnBus(t)' <=> t = "TX" \/ OnBus(t)
      BY <1>1, <1>2, <1>6, InAppend DEF AmsGranted, OnBus
    <2>2. \A t : Queued(t) => Queued(t)'
      BY <1>6, QueuedIn DEF AmsGranted
    <2>3. Unforgotten("TX") /\ pc'["TX"] = "Send"
      BY <1>6, <1>g, <2>1, <2>2 DEF AmsGranted, TxGoto, Unforgotten
    <2>. QED
      BY <2>1, <2>3, QueueKept DEF PrlWaits
  <1>7. CASE SendMessage
    BY <1>7, <1>s DEF SendMessage, TxRuns, TxGoto
  <1>8. CASE WaitResponse
    BY <1>8, <1>c, <1>i, <1>r, <1>s, <1>v DEF WaitResponse, TxRuns, PrlWaits
  <1>9. CASE MatchMessageID
    BY <1>9, <1>r, <1>s DEF MatchMessageID, TxRuns
  <1>10. CASE Block("TX")
    BY <1>1, <1>10, BlockQueue
  <1>. QED
    BY <1>3, <1>4, <1>5, <1>6, <1>7, <1>8, <1>9, <1>10 DEF TxNext

\* nor the RX thread,
LEMMA RxQueue ==
    ASSUME TypeInv, QueueInv, RxNext
    PROVE  QueueInv'
  <1>1. KernelOK /\ ev \in [Thread -> SUBSET Event] /\ "RX" \in Prl
        /\ Prl = {"TX", "RX", "HR"} /\ Thread = {"TX", "RX", "HR", "PE"}
    BY DEF TypeInv, TypeOK, KernelOK, Prl, Thread
  <1>2. /\ ready \in Seq(Prl) /\ bus \in Seq(Prl)
        /\ pc \in [Thread -> PePc \cup TxPc \cup RxPc \cup HrPc]
    BY <1>1 DEF KernelOK, PcOK
  <1>. USE DEF RxGoto
  <1>g. ASSUME NEW s, pc' = [pc EXCEPT !["RX"] = s]
        PROVE  pc'["RX"] = s /\ \A t \in Prl : t # "RX" => pc'[t] = pc[t]
    BY <1>1, <1>2, <1>g
  <1>s. ASSUME UNCHANGED pc \/ \E s : pc' = [pc EXCEPT !["RX"] = s], Runs("RX"),
               UNCHANGED <<ready, bus>>, \A t \in Prl : t # "RX" => ev'[t] = ev[t]
        PROVE  QueueInv'
    <2>1. Queued("RX")' /\ \A t \in Prl : Queued(t) => Queued(t)'
      BY <1>s DEF Queued, Runs
    <2>2. Unforgotten("RX")
      BY <1>s, <1>g, <2>1 DEF Unforgotten, OnBus
    <2>. QED
      BY <2>1, <2>2, QueueKept
  <1>y. ASSUME NEW e \in Event, NEW s, Runs("RX"), TellTxAndYield(e, s), UNCHANGED bus
        PROVE  QueueInv'
    <2>1. /\ \A t : Queued(t) => Queued(t)'
          /\ pc["TX"] \in PrlWaits /\ e \in Mask[pc["TX"]] => Queued("TX")'
          /\ Queued("RX")'
      BY <1>1, <1>y, QueueYield DEF TellTxAndYield
    <2>2. ev'["TX"] = ev["TX"] \cup {e} /\ ev'["HR"] = ev["HR"]
      BY <1>1, <1>y DEF TellTxAndYield
    <2>3. Unforgotten("RX")
      BY <1>1, <1>g, <1>y, <2>1, <2>2 DEF TellTxAndYield, Unforgotten, OnBus
    <2>. QED
      BY <2>1, <2>3, QueueKept
  <1>d. ASSUME RxDrop, Runs("RX") PROVE QueueInv'
    <2>1. \A t \in Prl : t # "RX" => ev'[t] = ev[t]
      BY <1>1, <1>d DEF RxDrop
    <2>. QED
      BY <1>d, <1>s, <2>1 DEF RxDrop
  <1>3. CASE RxWaitPHY
    <2>1. \A t \in Prl : t # "RX" => ev'[t] = ev[t]
      BY <1>1, <1>3 DEF RxWaitPHY
    <2>2. CASE StartI2C("RX", "Read")
      <3>1. Unforgotten("RX") /\ OnBus("RX")' /\ pc'["RX"] = "Read"
        BY <1>1, <1>3, <2>1, <2>2, QueueTransfer DEF RxWaitPHY, RxRuns, Unforgotten
      <3>. QED
        BY <3>1, QueueKept DEF PrlWaits
    <2>. QED
      BY <1>3, <1>s, <2>1, <2>2 DEF RxWaitPHY, RxRuns
  <1>4. CASE RxAllocFails
    BY <1>4, <1>s DEF RxAllocFails, RxRuns
  <1>5. CASE RxRead
    BY <1>5, <1>s, <1>y DEF RxRead, RxRuns, Event
  <1>6. CASE RxReset
    BY <1>6, <1>s, <1>d DEF RxReset, RxRuns
  <1>7. CASE RxCheckMessageID
    BY <1>7, <1>y, <1>d DEF RxCheckMessageID, RxRuns, Event
  <1>8. CASE RxStoreMessageID
    <2>1. \A t \in Prl : t # "RX" => ev'[t] = ev[t]
      BY <1>1, <1>8 DEF RxStoreMessageID
    <2>. QED
      BY <1>8, <1>s, <2>1 DEF RxStoreMessageID, RxRuns
  <1>9. CASE Block("RX")
    BY <1>1, <1>9, BlockQueue
  <1>. QED
    BY <1>3, <1>4, <1>5, <1>6, <1>7, <1>8, <1>9 DEF RxNext

\* nor the HR thread, which wakes itself when tHardResetComplete is over,
LEMMA HrQueue ==
    ASSUME TypeInv, QueueInv, HrNext
    PROVE  QueueInv'
  <1>1. KernelOK /\ ev \in [Thread -> SUBSET Event] /\ "HR" \in Prl
        /\ Prl = {"TX", "RX", "HR"} /\ Thread = {"TX", "RX", "HR", "PE"}
    BY DEF TypeInv, TypeOK, KernelOK, Prl, Thread
  <1>2. /\ ready \in Seq(Prl) /\ bus \in Seq(Prl)
        /\ pc \in [Thread -> PePc \cup TxPc \cup RxPc \cup HrPc]
    BY <1>1 DEF KernelOK, PcOK
  <1>. USE DEF HrGoto
  <1>g. ASSUME NEW s, pc' = [pc EXCEPT !["HR"] = s]
        PROVE  pc'["HR"] = s /\ \A t \in Prl : t # "HR" => pc'[t] = pc[t]
    BY <1>1, <1>2, <1>g
  <1>s. ASSUME NEW s, pc' = [pc EXCEPT !["HR"] = s], Runs("HR"),
               UNCHANGED <<ready, bus>>, \A t \in Prl : t # "HR" => ev'[t] = ev[t]
        PROVE  QueueInv'
    <2>1. Queued("HR")' /\ \A t \in Prl : Queued(t) => Queued(t)'
      BY <1>s DEF Queued, Runs
    <2>2. Unforgotten("HR")
      BY <1>s, <1>g, <2>1 DEF Unforgotten, OnBus
    <2>. QED
      BY <2>1, <2>2, QueueKept
  <1>y. ASSUME NEW u \in {"TX", "RX"}, NEW s, pc' = [pc EXCEPT !["HR"] = s], Runs("HR"),
               ready' = Append(Tail(Wake(u, "RESET")), "HR"), UNCHANGED bus,
               \A t \in Prl : t # "HR" => ev'[t] = IF t = u THEN ev[t] \cup {"RESET"} ELSE ev[t]
        PROVE  QueueInv'
    <2>1. /\ \A t : Queued(t) => Queued(t)'
          /\ pc[u] \in PrlWaits /\ "RESET" \in Mask[pc[u]] => Queued(u)'
          /\ Queued("HR")'
      BY <1>1, <1>y, QueueYield DEF Event
    <2>2. Unforgotten("HR")
      BY <1>1, <1>g, <1>y, <2>1 DEF Unforgotten, OnBus
    <2>. QED
      BY <2>1, <2>2, QueueKept
  <1>3. CASE HrResetLayer
    <2>1. \A t \in Prl : t # "HR" => ev'[t] = IF t = "RX" THEN ev[t] \cup {"RESET"} ELSE ev[t]
      BY <1>1, <1>3 DEF HrResetLayer
    <2>. QED
      BY <1>3, <1>y, <2>1 DEF HrResetLayer, HrRuns
  <1>4. CASE HrResetTx
    <2>1. \A t \in Prl : t # "HR" => ev'[t] = IF t = "TX" THEN ev[t] \cup {"RESET"} ELSE ev[t]
      BY <1>1, <1>4 DEF HrResetTx
    <2>. QED
      BY <1>4, <1>y, <2>1 DEF HrResetTx, HrRuns
  <1>5. CASE HrIndicate \/ HrHardResetRequested \/ HrWaitPE
    <2>1. \A t \in Prl : t # "HR" => ev'[t] = ev[t]
      BY <1>1, <1>5 DEF HrIndicate, HrHardResetRequested, HrWaitPE
    <2>. QED
      BY <1>5, <1>s, <2>1 DEF HrIndicate, HrHardResetRequested, HrWaitPE, HrRuns
  <1>6. CASE HrRequest
    <2>1. Unforgotten("HR") /\ OnBus("HR")' /\ pc'["HR"] = "Request"
      BY <1>1, <1>6, QueueTransfer DEF HrRequest, HrRuns, Unforgotten
    <2>. QED
      BY <2>1, QueueKept DEF PrlWaits
  <1>7. CASE HrRequested
    BY <1>7, <1>s DEF HrRequested, HrRuns
  <1>8. CASE HrWaitPHY
    <2>1. \A t \in Prl : t # "HR" => ev'[t] = ev[t]
      BY <1>1, <1>8 DEF HrWaitPHY
    <2>2. CASE HrRuns("HardWaitPHY") /\ UNCHANGED <<ready, bus>>
      BY <1>8, <1>s, <2>1, <2>2 DEF HrWaitPHY, HrRuns
    <2>3. CASE ready' = Append(ready, "HR") /\ UNCHANGED bus
      <3>1. Queued("HR")' /\ \A t : Queued(t) => Queued(t)'
        BY <1>1, <1>2, <2>3, InAppend, QueuedIn
      <3>2. Unforgotten("HR")
        BY <1>8, <1>g, <2>1, <2>3, <3>1 DEF HrWaitPHY, Unforgotten, OnBus
      <3>. QED
        BY <3>1, <3>2, QueueKept
    <2>. QED
      BY <1>8, <2>2, <2>3 DEF HrWaitPHY
  <1>9. CASE Block("HR")
    BY <1>1, <1>9, BlockQueue
  <1>. QED
    BY <1>3, <1>4, <1>5, <1>6, <1>7, <1>8, <1>9 DEF HrNext

\* nor the poller, the bus, the chip, the partner and the engine's timers.
LEMMA OthersQueue ==
    ASSUME TypeInv, QueueInv, IntNNext \/ BusDone \/ Chip \/ Outside \/ PeTimer \/ UNCHANGED vars
    PROVE  QueueInv'
  <1>1. KernelOK /\ ev \in [Thread -> SUBSET Event]
        /\ Prl = {"TX", "RX", "HR"} /\ Thread = {"TX", "RX", "HR", "PE"}
    BY DEF TypeInv, TypeOK, KernelOK, Prl, Thread
  <1>2. /\ ready \in Seq(Prl) /\ bus \in Seq(Prl)
        /\ pc \in [Thread -> PePc \cup TxPc \cup RxPc \cup HrPc]
    BY <1>1 DEF KernelOK, PcOK
  <1>k. ASSUME UNCHANGED <<ready, bus>>, \A t \in Prl : pc'[t] = pc[t] /\ ev'[t] = ev[t]
        PROVE  QueueInv'
    BY <1>1, <1>k, QueueKept, QueuedIn DEF Unforgotten, OnBus
  <1>3. CASE IntNPoll \/ UNCHANGED vars
    BY <1>3, <1>k DEF IntNPoll
  <1>4. ASSUME NEW t \in Thread, IntNTell(t) PROVE QueueInv'
    <2>1. \A u \in Prl : ev'[u] = IF u = t THEN ev[u] \cup (status \cap For[t]) ELSE ev[u]
      BY <1>1, <1>4 DEF IntNTell
    <2>2. ready' \in {ready, Append(ready, t)} /\ UNCHANGED <<pc, bus>>
      BY <1>4 DEF IntNTell
    <2>3. CASE t = "PE"
      <3>1. pc["PE"] \notin PrlWaits
        BY <1>1 DEF KernelOK, PcOK, PePc, PeWaits, PeEntries, TxWaits, PrlWaits
      <3>2. \A e : Wake("PE", e) = ready
        BY <3>1 DEF Wake
      <3>3. ready' = ready
        BY <1>4, <2>3, <3>2 DEF IntNTell
      <3>4. "PE" \notin Prl
        BY DEF Prl
      <3>5. \A u \in Prl : ev'[u] = ev[u]
        BY <2>1, <2>3, <3>4
      <3>6. UNCHANGED <<ready, bus>> /\ \A u \in Prl : pc'[u] = pc[u]
        BY <2>2, <3>3
      <3>. QED
        BY <1>k, <3>5, <3>6
    <2>4. CASE t \in Prl
      <3>1. \A u : Queued(u) => Queued(u)'
        <4>1. \A u : In(ready, u) => In(Append(ready, t), u)
          BY <1>2, <2>4, InAppend
        <4>2. \A u : In(ready, u) => In(ready', u)
          BY <2>2, <4>1
        <4>. QED
          BY <4>2, QueuedIn
      <3>2. ASSUME NEW e \in status \cap For[t], pc[t] \in PrlWaits, e \in Mask[pc[t]]
            PROVE  Queued(t)'
        <4>1. CASE Queued(t)
          BY <3>1, <4>1
        <4>2. CASE ~Queued(t)
          <5>1. Wake(t, e) = Append(ready, t) /\ Append(ready, t) # ready
            BY <1>2, <2>4, <3>2, <4>2 DEF Wake
          <5>2. ready' = Append(ready, t)
            BY <1>4, <3>2, <5>1 DEF IntNTell
          <5>. QED
            BY <1>2, <2>4, <5>2, InAppend, QueuedIn
        <4>. QED
          BY <4>1, <4>2
      <3>3. Unforgotten("PE")
        BY <2>1, <2>2, <3>1, <3>2 DEF Unforgotten, OnBus
      <3>. QED
        BY <1>1, <3>3, QueueKept
    <2>. QED
      BY <1>1, <2>3, <2>4
  <1>5. CASE BusDone
    <2>1. PICK u \in Prl : bus # <<>> /\ bus[1] = u /\ bus' = Tail(bus) /\ ready' = Append(ready, u)
      BY <1>2, <1>5 DEF BusDone
    <2>2. Queued(u)' /\ \A t : Queued(t) => Queued(t)'
      BY <1>2, <2>1, InAppend, QueuedIn
    <2>3. \A t : t # u /\ OnBus(t) => OnBus(t)'
      BY <1>2, <2>1, InTail DEF OnBus
    <2>4. Unforgotten(u)
      BY <1>5, <2>2, <2>3 DEF BusDone, Unforgotten
    <2>. QED
      BY <2>2, <2>4, QueueKept
  <1>6. ASSUME SoftwareStays, \A t \in Prl : ev'[t] = ev[t] PROVE QueueInv'
    BY <1>6, <1>k DEF SoftwareStays
  <1>7. CASE Chip
    BY <1>6, <1>7 DEF Chip, TransmitSucceeds, TransmitFails, HardResetSignalled
  <1>8. CASE PartnerSends \/ PartnerRepeats \/ PartnerHardResets \/ OverTemp
    BY <1>6, <1>8 DEF PartnerSends, PartnerRepeats, PartnerHardResets, OverTemp
  <1>9. CASE UserSignals
    <2>1. \A t \in Prl : ev'[t] = ev[t]
      BY <1>1, <1>9 DEF UserSignals
    <2>. QED
      BY <1>6, <1>9, <2>1 DEF UserSignals
  <1>10. CASE PeTimer
    <2>1. UNCHANGED <<ready, bus>> /\ \A t \in Prl : ev'[t] = ev[t]
      BY <1>1, <1>10
      DEF PeTimer, NoCapabilities, NoReply, NoPsRdy, NoAccept, RequestAgain,
          ChunkingNotSupported, PpsTimerFires, OnTimeout, TimedOut, Leave
    <2>2. UNCHANGED pc \/ \E r : Goto(r)
      BY <1>10
      DEF PeTimer, NoCapabilities, NoReply, NoPsRdy, NoAccept, RequestAgain,
          ChunkingNotSupported, PpsTimerFires, OnTimeout
    <2>3. \A t \in Prl : pc'[t] = pc[t]
      BY <1>1, <1>2, <2>2 DEF Goto
    <2>. QED
      BY <1>k, <2>1, <2>3
  <1>. QED
    BY <1>3, <1>4, <1>5, <1>7, <1>8, <1>9, <1>10 DEF IntNNext, Outside

\* At first only the TX thread has something to do, which is in its transfer.
LEMMA InitQueue == Init => QueueInv
  <1>. SUFFICES ASSUME Init PROVE QueueInv
    OBVIOUS
  <1>1. /\ pc["TX"] = "PHYReset" /\ pc["RX"] = "WaitPHY" /\ pc["HR"] = "ResetLayer"
        /\ \A t \in Prl : ev[t] = {}
        /\ bus = <<"TX">>
    BY DEF Init, Thread, Prl
  <1>2. OnBus("TX")
    BY <1>1 DEF OnBus, In
  <1>. QED
    BY <1>1, <1>2 DEF QueueInv, Pending, Prl, PrlWaits

\* So no step forgets a thread.
LEMMA NextQueue == TypeInv /\ QueueInv /\ [Next]_vars => QueueInv'
  <1>. SUFFICES ASSUME TypeInv, QueueInv, [Next]_vars PROVE QueueInv'
    OBVIOUS
  <1>1. CASE PeNext
    BY <1>1, PeOfAKind, PeQueue
  <1>2. CASE ~PeNext
    BY <1>2, TxQueue, RxQueue, HrQueue, OthersQueue DEF Next, Stack, Strike
  <1>. QED
    BY <1>1, <1>2

-----------------------------------------------------------------------------
(* One thing at a time.                                                    *)

\* What the stack can be dealing with: a message that the chip has received, until RX has read
\* it; that message in RX's hands; a Hard Reset; a transmission; a step of the engine; heat.
Incoming     == \/ "I_GCRCSENT" \in intr \cup status \cup ev["RX"]
                \/ pc["RX"] = "Read"
Handing      == pc["RX"] \in {"Reset.yielded", "CheckMessageID", "Store.yielded"}
AtHr         == \/ Asked
                \/ "I_HARDRST" \in ev["HR"] /\ pc["HR"] # "WaitPE"
Resetting    == \/ "I_HARDRST" \in intr \cup status
                \/ AtHr \/ pc["HR"] \in Carrying
Transmitting == "MSG_TX" \in ev["TX"] \/ pc["TX"] \in TxPc \ {"PHYReset", "WaitMessage"}
Heated       == "I_OVRTEMP" \in intr \cup status

Alone ==
    /\ Incoming     => ~Handing /\ ~Resetting /\ ~Transmitting /\ ~PeRuns /\ ~Heated
    /\ Handing      => ~Resetting /\ ~Transmitting /\ ~PeRuns /\ ~Heated
    /\ Resetting    => ~Transmitting /\ ~PeRuns /\ ~Heated
    /\ Transmitting => ~PeRuns /\ ~Heated
    /\ PeRuns       => ~Heated
    /\ "I_OVRTEMP" \notin intr \cap status

\* A message that comes in is at one place, alone in the FIFO, and meets a TX thread with nothing
\* to do.  Otherwise the FIFO holds at most the GoodCRC that TX is waiting for.
ReceptionOK ==
    /\ AtMostOne("I_GCRCSENT" \in intr, "I_GCRCSENT" \in status, "I_GCRCSENT" \in ev["RX"],
                 pc["RX"] = "Read")
    /\ Incoming => /\ Len(fifo) = 1 /\ fifo[1].type # "GoodCRC"
                   /\ "RESET" \notin ev["RX"]
                   /\ pc["TX"] = "WaitMessage"
                   /\ ev["TX"] \cap {"RESET", "DISCARD", "MSG_TX"} = {}
    /\ fifo # <<>> => Incoming \/ pc["TX"] \in {"WaitResponse", "MatchMessageID"}
    /\ srcLast # NULL => srcLast.type # "GoodCRC"

Ends == {"I_TXSENT", "I_RETRYFAIL"}

\* While TX works on a message nothing interrupts it, the engine waits for the outcome, and that
\* comes once: from the chip, by the poller, to TX.
TransmissionOK ==
    /\ pc["TX"] \notin {"PHYReset", "WaitMessage"}
           => ev["TX"] \cap {"RESET", "DISCARD", "MSG_TX"} = {}
    /\ pc["TX"] \in {"PHYReset", "WaitMessage"} => txMsg = NULL
    /\ Transmitting => pc["PE"] \in TxWaits
    /\ ev["PE"] \cap {"TX_DONE", "TX_ERR"} # {} => pc["PE"] \in TxWaits
    /\ AtMostOne(phyTx # NULL, intr \cap Ends # {}, status \cap Ends # {}, ev["TX"] \cap Ends # {})
    /\ pc["TX"] = "WaitResponse" <=> \/ phyTx # NULL
                                     \/ (intr \cup status \cup ev["TX"]) \cap Ends # {}
    /\ pc["TX"] = "WaitResponse"
           => fifo = <<>> \/ (Len(fifo) = 1 /\ "I_TXSENT" \in intr \cup status \cup ev["TX"])
    /\ pc["TX"] = "MatchMessageID" => Len(fifo) <= 1

\* A Hard Reset is at one place, and not signalled to the engine while it runs.  Only an engine
\* that has given the partner up leaves one for ever, and HR with it.
ResetOK ==
    /\ AtMostOne("I_HARDRST" \in intr, "I_HARDRST" \in status, AtHr, pc["HR"] \in Carrying)
    /\ Indicated => pc["PE"] \in PeWaits \cup {"SourceUnresponsive"}
    /\ ~(Asked /\ Indicated)
    /\ Waiting /\ "I_HARDRST" \in ev["HR"] => Indicated /\ pc["PE"] = "SourceUnresponsive"
    /\ pc["HR"] = "HardWaitPHY" => phyHardReset \/ "I_HARDSENT" \in intr \cup status \cup ev["HR"]

OneThing == Alone /\ ReceptionOK /\ TransmissionOK /\ ResetOK

-----------------------------------------------------------------------------
(* The policy engine does one thing.                                       *)

\* The engine runs on, or stays blocked, when neither its place nor its flags change.
LEMMA PeStill ==
    ASSUME pc'["PE"] = pc["PE"], ev'["PE"] = ev["PE"]
    PROVE  PeRuns' <=> PeRuns
  BY DEF PeRuns, Pending

\* What OneThing is about.
LEMMA SameThing ==
    ASSUME OneThing,
           UNCHANGED <<pc, ev, intr, status, fifo, phyTx, phyHardReset, txMsg, srcLast>>
    PROVE  OneThing'
  <1>1. /\ Asked' <=> Asked
        /\ Indicated' <=> Indicated
        /\ Waiting' <=> Waiting
        /\ PeRuns' <=> PeRuns
    BY PeStill DEF Asked, Indicated, Waiting
  <1>2. Alone'
    BY <1>1 DEF OneThing, Alone, Incoming, Handing, AtHr, Resetting, Transmitting, Heated
  <1>3. ReceptionOK'
    BY DEF OneThing, ReceptionOK, Incoming, AtMostOne
  <1>4. TransmissionOK'
    BY DEF OneThing, TransmissionOK, Transmitting, AtMostOne
  <1>5. ResetOK'
    BY <1>1 DEF OneThing, ResetOK, AtHr, AtMostOne
  <1>. QED
    BY <1>2, <1>3, <1>4, <1>5 DEF OneThing

\* A step of the engine while it runs: its own flags of a transmission or a reset are cleared,
\* and it leaves the chip alone.
PeActs ==
    /\ PeRuns
    /\ \A t \in Prl : pc'[t] = pc[t]
    /\ ev'["PE"] \subseteq ev["PE"] /\ ev'["PE"] \cap {"RESET", "TX_DONE", "TX_ERR"} = {}
    /\ ev'["RX"] = ev["RX"]
    /\ UNCHANGED <<intr, status, fifo, phyTx, phyHardReset, txMsg, srcLast>>

\* Such a step leaves the stack with one thing to do.
LEMMA PeActsAlone ==
    ASSUME TypeInv, OneThing, PeActs,
           \/ /\ ev'["TX"] \in {ev["TX"], ev["TX"] \cup {"START_AMS"}}
              /\ ev'["HR"] \in {ev["HR"], ev["HR"] \cup {"DONE"}}
           \/ /\ ev'["TX"] = ev["TX"] \cup {"MSG_TX"} /\ ev'["HR"] = ev["HR"]
              /\ pc'["PE"] \in TxWaits
           \/ /\ ev'["TX"] = ev["TX"] /\ ev'["HR"] = ev["HR"] \cup {"RESET"}
              /\ pc'["PE"] = "HardReset.sent" /\ "HARD_SENT" \notin ev["PE"]
    PROVE  OneThing'
  <1>1. ~Incoming /\ ~Handing /\ ~Resetting /\ ~Transmitting /\ ~Heated
    BY DEF OneThing, Alone, PeActs
  <1>2. /\ pc'["TX"] = pc["TX"] /\ pc'["RX"] = pc["RX"] /\ pc'["HR"] = pc["HR"]
        /\ UNCHANGED <<intr, status, fifo, phyTx, phyHardReset, txMsg, srcLast>>
        /\ ev'["PE"] \cap {"RESET", "TX_DONE", "TX_ERR"} = {} /\ ev'["RX"] = ev["RX"]
        /\ ev'["TX"] \cap Ends = ev["TX"] \cap Ends
        /\ "I_HARDRST" \in ev'["HR"] <=> "I_HARDRST" \in ev["HR"]
    BY DEF PeActs, Prl, Ends
  <1>3. /\ pc["TX"] \in {"PHYReset", "WaitMessage"} /\ pc["HR"] \notin Carrying
        /\ pc["HR"] # "HardWaitPHY" /\ ~Asked /\ "MSG_TX" \notin ev["TX"]
        /\ "I_HARDRST" \notin intr \cup status
        /\ "I_HARDRST" \notin ev["HR"]
    <2>1. "I_HARDRST" \in ev["HR"] => pc["HR"] = "WaitPE"
      BY <1>1 DEF Resetting, AtHr
    <2>2. pc["PE"] # "SourceUnresponsive"
      BY DEF PeActs, PeRuns, PeEntries, PeWaits, TxWaits
    <2>3. "I_HARDRST" \notin ev["HR"]
      BY <2>1, <2>2 DEF OneThing, ResetOK, Waiting
    <2>4. pc["TX"] \in TxPc
      BY DEF TypeInv, TypeOK, KernelOK, PcOK
    <2>. QED
      BY <1>1, <2>3, <2>4 DEF Resetting, AtHr, Transmitting, Carrying
  <1>4. ~Incoming' /\ ~Handing' /\ ~Heated' /\ ~("I_HARDRST" \in intr' \cup status')
    BY <1>1, <1>2, <1>3 DEF Incoming, Handing, Heated
  <1>5. ReceptionOK'
    BY <1>2, <1>4 DEF OneThing, ReceptionOK, AtMostOne, Incoming
  <1>6. /\ (Resetting' <=> Asked') /\ (AtHr' <=> Asked')
        /\ (Transmitting' <=> "MSG_TX" \in ev'["TX"])
    BY <1>2, <1>3, <1>4 DEF Resetting, AtHr, Transmitting, Asked
  <1>7. ResetOK'
    BY <1>2, <1>3, <1>4, <1>6 DEF ResetOK, AtMostOne, Indicated, Waiting, Asked
  <1>8. TransmissionOK'
    <2>1. Transmitting' => pc'["PE"] \in TxWaits
      BY <1>3, <1>6
    <2>. QED
      BY <1>2, <1>3, <2>1 DEF OneThing, TransmissionOK, AtMostOne
  <1>9. Alone'
    <2>1. CASE /\ ev'["TX"] \in {ev["TX"], ev["TX"] \cup {"START_AMS"}}
               /\ ev'["HR"] \in {ev["HR"], ev["HR"] \cup {"DONE"}}
      BY <1>3, <1>4, <1>6, <2>1 DEF Alone, Asked, Heated
    <2>2. CASE /\ ev'["TX"] = ev["TX"] \cup {"MSG_TX"} /\ ev'["HR"] = ev["HR"]
               /\ pc'["PE"] \in TxWaits
      <3>1. Mask[pc'["PE"]] = TxOutcome
        BY <2>2, EngineMasks
      <3>2. ~PeRuns'
        BY <1>2, <2>2, <3>1 DEF PeRuns, Pending, TxOutcome, TxWaits, PeEntries
      <3>. QED
        BY <1>3, <1>4, <1>6, <2>2, <3>2 DEF Alone, Asked, Heated
    <2>3. CASE /\ ev'["TX"] = ev["TX"] /\ ev'["HR"] = ev["HR"] \cup {"RESET"}
               /\ pc'["PE"] = "HardReset.sent" /\ "HARD_SENT" \notin ev["PE"]
      <3>1. ~PeRuns'
        BY <2>3, PeMasks DEF PeActs, PeRuns, Pending, PeEntries
      <3>. QED
        BY <1>3, <1>4, <1>6, <2>3, <3>1 DEF Alone, Asked, Heated
    <2>. QED
      BY <2>1, <2>2, <2>3
  <1>. QED
    BY <1>5, <1>7, <1>8, <1>9 DEF OneThing

\* A step of the engine keeps to one thing at a time.
LEMMA PeAlone ==
    ASSUME TypeInv, HandshakeInv, OneThing, PeKinds
    PROVE  OneThing'
  <1>1. /\ ev \in [Thread -> SUBSET Event] /\ pc["PE"] \in PePc
        /\ Prl = {"TX", "RX", "HR"} /\ Thread = {"TX", "RX", "HR", "PE"}
    BY DEF TypeInv, TypeOK, KernelOK, PcOK, Prl, Thread
  <1>2. UNCHANGED <<intr, status, fifo, phyTx, phyHardReset, txMsg, srcLast>>
    BY DEF PeKinds
  <1>w. \A s \in PeWaits : s \notin PeEntries
    BY DEF PeWaits, TxWaits, PeEntries
  <1>3. ASSUME NEW s \in PeWaits, At(s), Pending("PE") # {}
        PROVE  PeRuns /\ (ev["PE"] \ Mask[s]) \cap {"RESET", "TX_DONE", "TX_ERR"} = {}
    <2>1. PeRuns /\ pc["PE"] = s
      BY <1>3 DEF At, PeRuns
    <2>2. CASE s \in TxWaits
      BY <2>1, <2>2, EngineMasks DEF TxOutcome
    <2>3. CASE s \notin TxWaits
      <3>1. ev["PE"] \cap {"TX_DONE", "TX_ERR"} = {}
        BY <2>1, <2>3 DEF OneThing, TransmissionOK
      <3>2. CASE s = "HardReset.sent"
        <4>1. Reported
          BY <1>3, <2>1, <3>2, PeMasks DEF Pending, Reported
        <4>. QED
          BY <2>1, <3>1, <4>1 DEF HandshakeInv, AtMostOne, Indicated
      <3>. QED
        BY <2>1, <3>1, <3>2, PeMasks
    <2>. QED
      BY <2>1, <2>2, <2>3
  <1>4. ASSUME NEW s \in PeEntries, At(s)
        PROVE  PeRuns /\ ev["PE"] \cap {"RESET", "TX_DONE", "TX_ERR"} = {}
    <2>1. PeRuns /\ pc["PE"] = s
      BY <1>4 DEF At, PeRuns
    <2>2. pc["PE"] \notin TxWaits /\ pc["PE"] \notin PeWaits \cup {"SourceUnresponsive"}
      BY <2>1 DEF PeEntries, PeWaits, TxWaits
    <2>. QED
      BY <2>1, <2>2 DEF OneThing, TransmissionOK, ResetOK, Indicated
  <1>5. ASSUME NEW r, Goto(r)
        PROVE  pc'["PE"] = r /\ \A t \in Prl : pc'[t] = pc[t]
    BY <1>1, <1>5 DEF Goto, TypeInv, TypeOK, KernelOK, PcOK
  <1>6. CASE UNCHANGED <<pc, ev, ready>>
    BY <1>2, <1>6, SameThing
  <1>7. CASE \E s \in PeWaits, r \in PePc : Woken(s) /\ Goto(r) /\ UNCHANGED ready
    <2>1. PICK s \in PeWaits, r \in PePc : Woken(s) /\ Goto(r)
      BY <1>7
    <2>2. /\ ev'["PE"] = ev["PE"] \ Mask[s] /\ ev'["RX"] = ev["RX"]
          /\ ev'["TX"] = ev["TX"] /\ ev'["HR"] = ev["HR"]
      BY <1>1, <2>1 DEF Woken
    <2>3. PeActs
      BY <1>2, <1>3, <1>5, <2>1, <2>2 DEF PeActs, Woken
    <2>. QED
      BY <2>2, <2>3, PeActsAlone
  <1>8. CASE \E s \in PeEntries, r \in PePc : At(s) /\ Goto(r) /\ UNCHANGED <<ev, ready>>
    <2>1. PeActs
      BY <1>2, <1>4, <1>5, <1>8 DEF PeActs
    <2>. QED
      BY <1>8, <2>1, PeActsAlone
  <1>9. CASE \E r \in PePc : At("Ready") /\ Pending("PE") # {} /\ SignalTx("START_AMS") /\ Goto(r)
                             /\ UNCHANGED ready
    <2>1. /\ ev'["PE"] = ev["PE"] \ Mask["Ready"] /\ ev'["RX"] = ev["RX"]
          /\ ev'["TX"] = ev["TX"] \cup {"START_AMS"} /\ ev'["HR"] = ev["HR"]
      BY <1>1, <1>9 DEF SignalTx
    <2>2. "Ready" \in PeWaits
      BY DEF PeWaits
    <2>3. PeActs
      BY <1>2, <1>3, <1>5, <1>9, <2>1, <2>2 DEF PeActs
    <2>. QED
      BY <2>1, <2>3, PeActsAlone
  <1>10. CASE \E b : \E s \in PeEntries, r \in TxWaits : At(s) /\ Submit(b) /\ Goto(r)
    <2>1. PICK b : \E s \in PeEntries, r \in TxWaits : At(s) /\ Submit(b) /\ Goto(r)
      BY <1>10
    <2>2. PICK s \in PeEntries, r \in TxWaits : At(s) /\ Submit(b) /\ Goto(r)
      BY <2>1
    <2>3. /\ ev'["PE"] = ev["PE"] /\ ev'["RX"] = ev["RX"]
          /\ ev'["TX"] = ev["TX"] \cup {"MSG_TX"} /\ ev'["HR"] = ev["HR"]
      BY <1>1, <2>2 DEF Submit
    <2>4. PeActs /\ pc'["PE"] \in TxWaits
      BY <1>2, <1>4, <1>5, <2>2, <2>3 DEF PeActs
    <2>. QED
      BY <2>3, <2>4, PeActsAlone
  <1>11. CASE At("HardReset") /\ SignalHr("RESET") /\ Goto("HardReset.sent")
    <2>1. /\ ev'["PE"] = ev["PE"] /\ ev'["RX"] = ev["RX"]
          /\ ev'["TX"] = ev["TX"] /\ ev'["HR"] = ev["HR"] \cup {"RESET"}
      BY <1>1, <1>11 DEF SignalHr
    <2>2. "HARD_SENT" \notin ev["PE"]
      BY <1>11 DEF At, HandshakeInv, Reported, Awaiting
    <2>3. PeActs /\ pc'["PE"] = "HardReset.sent"
      BY <1>2, <1>4, <1>5, <1>11, <2>1 DEF PeActs, PeEntries
    <2>. QED
      BY <2>1, <2>2, <2>3, PeActsAlone
  <1>12. CASE At("TransitionDefault") /\ SignalHr("DONE") /\ Goto("Startup")
    <2>1. /\ ev'["PE"] = ev["PE"] /\ ev'["RX"] = ev["RX"]
          /\ ev'["TX"] = ev["TX"] /\ ev'["HR"] = ev["HR"] \cup {"DONE"}
      BY <1>1, <1>12 DEF SignalHr
    <2>2. PeActs
      BY <1>2, <1>4, <1>5, <1>12, <2>1 DEF PeActs, PeEntries
    <2>. QED
      BY <2>1, <2>2, PeActsAlone
  <1>. QED
    BY <1>6, <1>7, <1>8, <1>9, <1>10, <1>11, <1>12 DEF PeKinds

-----------------------------------------------------------------------------
(* TX does one thing.                                                      *)

\* A step of TX: it may tell the engine of an outcome, and RX of a Soft_Reset.
TxActs ==
    /\ \A t \in {"PE", "RX", "HR"} : pc'[t] = pc[t]
    /\ ev'["HR"] = ev["HR"]
    /\ "RESET" \in ev'["PE"] <=> "RESET" \in ev["PE"]
    /\ "I_GCRCSENT" \in ev'["RX"] <=> "I_GCRCSENT" \in ev["RX"]
    /\ UNCHANGED <<intr, status, phyHardReset, srcLast>>

\* It works on one thing if it begins none, and wakes the engine only when it is done.
LEMMA TxActsAlone ==
    ASSUME OneThing, TxActs, ~Incoming, TransmissionOK',
           fifo' # <<>> => pc'["TX"] \in {"WaitResponse", "MatchMessageID"},
           Transmitting' => Transmitting,
           PeRuns' => \/ PeRuns
                      \/ Transmitting /\ ~Transmitting'
    PROVE  OneThing'
  <1>1. /\ ~Incoming' /\ (Handing' <=> Handing) /\ (Heated' <=> Heated)
        /\ (Resetting' <=> Resetting) /\ (AtHr' <=> AtHr)
        /\ (Asked' <=> Asked) /\ (Indicated' <=> Indicated) /\ (Waiting' <=> Waiting)
    BY DEF TxActs, Incoming, Handing, Heated, Resetting, AtHr, Asked, Indicated, Waiting
  <1>2. Alone'
    BY <1>1 DEF OneThing, Alone, TxActs
  <1>3. ReceptionOK'
    BY <1>1 DEF OneThing, ReceptionOK, AtMostOne, Incoming, TxActs
  <1>4. ResetOK'
    BY <1>1 DEF OneThing, ResetOK, AtMostOne, TxActs
  <1>. QED
    BY <1>2, <1>3, <1>4 DEF OneThing

\* TX keeps to one thing at a time.
LEMMA TxAlone ==
    ASSUME TypeInv, OneThing, TxNext
    PROVE  OneThing'
  <1>1. /\ ev \in [Thread -> SUBSET Event] /\ pc["TX"] \in TxPc
        /\ pc \in [Thread -> PePc \cup TxPc \cup RxPc \cup HrPc]
        /\ Thread = {"TX", "RX", "HR", "PE"} /\ fifo \in Seq(Message)
    BY DEF TypeInv, TypeOK, KernelOK, PcOK, WorldOK, Prl, Thread
  <1>. USE DEF TxFrame
  <1>g. ASSUME NEW s, pc' = [pc EXCEPT !["TX"] = s]
        PROVE  pc'["TX"] = s /\ \A t \in {"PE", "RX", "HR"} : pc'[t] = pc[t]
    BY <1>1, <1>g
  <1>c. ASSUME NEW E, TxClear(E)
        PROVE  ev'["TX"] = ev["TX"] \ E /\ \A t \in {"PE", "RX", "HR"} : ev'[t] = ev[t]
    BY <1>1, <1>c DEF TxClear
  <1>r. ASSUME NEW e, NEW E, Report(e, E)
        PROVE  /\ pc' = [pc EXCEPT !["TX"] = "WaitMessage"] /\ txMsg' = NULL
               /\ ev'["TX"] = ev["TX"] \ E /\ ev'["PE"] = ev["PE"] \cup {e}
               /\ \A t \in {"RX", "HR"} : ev'[t] = ev[t]
    BY <1>1, <1>r DEF Report, TxGoto
  <1>p. ASSUME pc["TX"] \notin {"PHYReset", "WaitMessage"} \/ "MSG_TX" \in ev["TX"]
        PROVE  Transmitting /\ ~Incoming /\ pc["PE"] \in TxWaits /\ ~PeRuns
    BY <1>1, <1>p DEF Transmitting, OneThing, Alone, TransmissionOK
  <1>o. ASSUME ~Incoming, pc["TX"] \notin {"WaitResponse", "MatchMessageID"}
        PROVE  fifo = <<>>
    BY <1>o DEF OneThing, ReceptionOK
  <1>n. ASSUME pc["TX"] # "WaitResponse"
        PROVE  phyTx = NULL /\ (intr \cup status \cup ev["TX"]) \cap Ends = {}
    BY <1>n DEF OneThing, TransmissionOK
  <1>d. PeRuns' => PeRuns \/ ev'["PE"] # ev["PE"] \/ pc'["PE"] # pc["PE"]
    BY PeStill
  <1>3. CASE PHYReset
    <2>1. pc["TX"] = "PHYReset" /\ txMsg = NULL /\ ~Incoming /\ fifo = <<>> /\ phyTx = NULL
      <3>1. pc["TX"] = "PHYReset"
        BY <1>3 DEF PHYReset, TxRuns
      <3>2. ~Incoming /\ txMsg = NULL
        BY <3>1 DEF OneThing, ReceptionOK, TransmissionOK
      <3>. QED
        BY <1>n, <1>o, <3>1, <3>2
    <2>2. /\ pc' = [pc EXCEPT !["TX"] = "WaitMessage"]
          /\ UNCHANGED <<ev, txMsg, fifo, intr, phyTx, phyHardReset, status, srcLast>>
      BY <1>3, <2>1 DEF PHYReset, FusbReset, TxGoto
    <2>3. pc'["TX"] = "WaitMessage" /\ \A t \in {"PE", "RX", "HR"} : pc'[t] = pc[t]
      BY <1>g, <2>2
    <2>4. Transmitting' <=> Transmitting
      BY <2>1, <2>2, <2>3 DEF Transmitting
    <2>5. TransmissionOK'
      BY <2>1, <2>2, <2>3, <2>4 DEF OneThing, TransmissionOK, AtMostOne
    <2>6. TxActs /\ ~PeRuns'
      BY <1>3, <1>d, <2>2, <2>3 DEF TxActs, PHYReset, TxRuns, Runs
    <2>. QED
      BY <2>1, <2>2, <2>4, <2>5, <2>6, TxActsAlone
  <1>4. CASE WaitMessage
    <2>1. pc["TX"] = "WaitMessage" /\ Mask["WaitMessage"] = {"RESET", "DISCARD", "MSG_TX"}
          /\ ~PeRuns
      BY <1>4, PrlMasks DEF WaitMessage, TxRuns, Runs
    <2>2. CASE GiveUp(Pending("TX"), Mask["WaitMessage"])
      <3>1. ev["TX"] \cap {"RESET", "DISCARD"} # {}
        BY <2>1, <2>2 DEF GiveUp, Pending
      <3>2. ~Incoming /\ fifo = <<>>
        BY <1>o, <2>1, <3>1 DEF OneThing, ReceptionOK
      <3>3. /\ pc'["TX"] = "PHYReset" /\ \A t \in {"PE", "RX", "HR"} : pc'[t] = pc[t]
            /\ ev'["TX"] = ev["TX"] \ {"RESET", "DISCARD", "MSG_TX"}
            /\ \A t \in {"PE", "RX", "HR"} : ev'[t] = ev[t]
            /\ UNCHANGED <<txMsg, fifo, intr, phyTx, phyHardReset, status, srcLast>>
        BY <1>c, <1>g, <2>1, <2>2 DEF GiveUp, StartI2C, DiscardMessage
      <3>4. ~Transmitting'
        BY <3>3 DEF Transmitting
      <3>5. TransmissionOK'
        BY <2>1, <3>3, <3>4 DEF OneThing, TransmissionOK, AtMostOne, Ends
      <3>6. TxActs /\ ~PeRuns'
        BY <1>d, <2>1, <3>3 DEF TxActs
      <3>. QED
        BY <3>2, <3>3, <3>4, <3>5, <3>6, TxActsAlone
    <2>3. CASE ~GiveUp(Pending("TX"), Mask["WaitMessage"])
      <3>1. /\ "MSG_TX" \in ev["TX"] /\ ev["TX"] \cap {"RESET", "DISCARD"} = {}
            /\ TxGoto("Construct") /\ UNCHANGED chipVars
            /\ ev'["TX"] = ev["TX"] \ {"MSG_TX"} /\ ev'["PE"] = ev["PE"] /\ ev'["HR"] = ev["HR"]
            /\ ev'["RX"] \in {ev["RX"], ev["RX"] \cup {"RESET"}}
        BY <1>1, <1>4, <1>c, <2>1, <2>3 DEF WaitMessage, Pending
      <3>2. pc'["TX"] = "Construct" /\ \A t \in {"PE", "RX", "HR"} : pc'[t] = pc[t]
        BY <1>g, <3>1 DEF TxGoto
      <3>3. UNCHANGED <<fifo, intr, phyTx, phyHardReset, status, srcLast>>
        BY <1>4, <2>3, <3>1 DEF WaitMessage
      <3>4. Transmitting /\ ~Incoming /\ pc["PE"] \in TxWaits /\ fifo = <<>> /\ ~PeRuns
        BY <1>o, <1>p, <2>1, <3>1
      <3>5. Transmitting'
        BY <3>2 DEF Transmitting, TxPc
      <3>6. TransmissionOK'
        BY <1>n, <2>1, <3>1, <3>2, <3>3, <3>4 DEF OneThing, TransmissionOK, AtMostOne, Ends
      <3>7. TxActs /\ ~PeRuns'
        BY <1>d, <3>1, <3>2, <3>3, <3>4 DEF TxActs
      <3>. QED
        BY <3>3, <3>4, <3>6, <3>7, TxActsAlone
    <2>. QED
      BY <2>2, <2>3
  <1>5. CASE ConstructMessage \/ AmsGranted \/ SendMessage
    <2>1. pc["TX"] \in {"Construct", "AmsWait", "Send"}
      BY <1>5 DEF ConstructMessage, AmsGranted, SendMessage, TxRuns
    <2>2. ev["TX"] \cap {"RESET", "DISCARD", "MSG_TX"} = {}
      BY <2>1 DEF OneThing, TransmissionOK
    <2>3. Transmitting /\ ~Incoming /\ pc["PE"] \in TxWaits /\ fifo = <<>> /\ ~PeRuns
      BY <1>o, <1>p, <2>1
    <2>4. phyTx = NULL /\ (intr \cup status \cup ev["TX"]) \cap Ends = {}
      BY <1>n, <2>1
    <2>5. ~GiveUp(ev["TX"] \cap {"RESET", "DISCARD"}, {"RESET", "DISCARD"})
      BY <2>2 DEF GiveUp
    <2>6. /\ ev'["TX"] \subseteq ev["TX"] /\ \A t \in {"PE", "RX", "HR"} : ev'[t] = ev[t]
          /\ UNCHANGED <<fifo, intr, phyHardReset, status, srcLast>>
      <3>1. CASE ConstructMessage
        BY <1>c, <2>5, <3>1 DEF ConstructMessage
      <3>2. CASE AmsGranted \/ SendMessage
        BY <3>2 DEF AmsGranted, SendMessage, FusbSendMessage
      <3>. QED
        BY <1>5, <3>1, <3>2
    <2>7. /\ \A t \in {"PE", "RX", "HR"} : pc'[t] = pc[t]
          /\ \/ pc'["TX"] \in {"AmsWait", "Send"} /\ phyTx' = NULL
             \/ pc'["TX"] = "WaitResponse" /\ phyTx' # NULL
      <3>1. CASE ConstructMessage
        BY <1>g, <2>4, <2>5, <3>1 DEF ConstructMessage, StartI2C, TxGoto
      <3>2. CASE AmsGranted
        BY <1>g, <2>4, <3>2 DEF AmsGranted, TxGoto
      <3>3. CASE SendMessage
        <4>1. pc["TX"] = "Send" /\ phyTx' = content[txMsg]
          BY <3>3 DEF SendMessage, TxRuns, FusbSendMessage
        <4>2. txMsg \in Buf
          BY <4>1 DEF TypeInv, TypeOK, PrlOK, PointersOK
        <4>3. phyTx' # NULL
          BY <4>1, <4>2, NullAssumption DEF TypeInv, TypeOK, PoolOK
        <4>. QED
          BY <1>g, <3>3, <4>3 DEF SendMessage, TxGoto
      <3>. QED
        BY <1>5, <3>1, <3>2, <3>3
    <2>8. Transmitting'
      BY <2>7 DEF Transmitting, TxPc
    <2>9. TransmissionOK'
      BY <2>2, <2>3, <2>4, <2>6, <2>7 DEF OneThing, TransmissionOK, AtMostOne
    <2>10. TxActs /\ ~PeRuns'
      BY <1>d, <2>3, <2>6, <2>7 DEF TxActs
    <2>. QED
      BY <2>3, <2>6, <2>9, <2>10, TxActsAlone
  <1>6. CASE WaitResponse \/ MatchMessageID
    <2>1. pc["TX"] \in {"WaitResponse", "MatchMessageID"}
      BY <1>6 DEF WaitResponse, MatchMessageID, TxRuns
    <2>2. ev["TX"] \cap {"RESET", "DISCARD", "MSG_TX"} = {}
      BY <2>1 DEF OneThing, TransmissionOK
    <2>3. Transmitting /\ ~Incoming /\ pc["PE"] \in TxWaits /\ ~PeRuns
      BY <1>p, <2>1
    <2>4. pc["TX"] = "WaitResponse" => Mask["WaitResponse"] = TxResponse
      BY PrlMasks
    <2>5. CASE WaitResponse /\ "I_TXSENT" \in Pending("TX")
      <3>1. pc["TX"] = "WaitResponse" /\ "I_TXSENT" \in ev["TX"]
        BY <2>5 DEF WaitResponse, TxRuns, Pending
      <3>2. phyTx = NULL /\ intr \cap Ends = {} /\ status \cap Ends = {} /\ Len(fifo) <= 1
        <4>1. ev["TX"] \cap Ends # {}
          BY <3>1 DEF Ends
        <4>2. phyTx = NULL /\ intr \cap Ends = {} /\ status \cap Ends = {}
          BY <4>1 DEF OneThing, TransmissionOK, AtMostOne
        <4>3. fifo = <<>> \/ Len(fifo) = 1
          BY <3>1 DEF OneThing, TransmissionOK
        <4>. QED
          BY <4>2, <4>3
      <3>3. ~GiveUp(Pending("TX"), Mask["WaitResponse"])
        BY <2>2 DEF GiveUp, Pending
      <3>4. TxClear(Mask["WaitResponse"]) /\ StartI2C("TX", "MatchMessageID")
            /\ UNCHANGED <<txMsg, fifo, intr, phyTx, phyHardReset, status, srcLast>>
        BY <2>5, <3>3 DEF WaitResponse
      <3>5. /\ pc'["TX"] = "MatchMessageID" /\ \A t \in {"PE", "RX", "HR"} : pc'[t] = pc[t]
            /\ ev'["TX"] = ev["TX"] \ TxResponse /\ \A t \in {"PE", "RX", "HR"} : ev'[t] = ev[t]
        BY <1>c, <1>g, <2>4, <3>1, <3>4 DEF StartI2C
      <3>6. TransmissionOK'
        BY <2>2, <2>3, <3>2, <3>4, <3>5 DEF OneThing, TransmissionOK, AtMostOne, Ends, TxResponse
      <3>7. TxActs /\ ~PeRuns'
        BY <1>d, <2>3, <3>4, <3>5 DEF TxActs
      <3>. QED
        BY <2>3, <3>5, <3>6, <3>7, TxActsAlone
    <2>6. CASE ~(WaitResponse /\ "I_TXSENT" \in Pending("TX"))
      <3>1. \E e \in {"TX_DONE", "TX_ERR"}, E \in {{}, {"I_RETRYFAIL"}} :
               /\ Report(e, E)
               /\ pc["TX"] = "WaitResponse" => /\ Pending("TX") = {"I_RETRYFAIL"}
                                               /\ E = {"I_RETRYFAIL"} /\ UNCHANGED chipVars
               /\ pc["TX"] = "MatchMessageID" => FusbReadMessage
        <4>1. CASE WaitResponse
          <5>1. ~GiveUp(Pending("TX"), Mask["WaitResponse"])
            BY <2>2 DEF GiveUp, Pending
          <5>. QED
            BY <2>6, <4>1, <5>1 DEF WaitResponse, TxRuns
        <4>2. CASE MatchMessageID
          BY <4>2 DEF MatchMessageID, TxRuns
        <4>. QED
          BY <1>6, <4>1, <4>2
      <3>2. PICK e \in {"TX_DONE", "TX_ERR"}, E \in {{}, {"I_RETRYFAIL"}} :
               /\ Report(e, E)
               /\ pc["TX"] = "WaitResponse" => /\ Pending("TX") = {"I_RETRYFAIL"}
                                               /\ E = {"I_RETRYFAIL"} /\ UNCHANGED chipVars
               /\ pc["TX"] = "MatchMessageID" => FusbReadMessage
        BY <3>1
      <3>3. fifo' = <<>> /\ UNCHANGED <<intr, phyTx, phyHardReset, status, srcLast>>
            /\ phyTx = NULL /\ (intr \cup status \cup ev'["TX"]) \cap Ends = {}
        <4>1. CASE pc["TX"] = "WaitResponse"
          <5>1. "I_RETRYFAIL" \in ev["TX"] /\ "I_TXSENT" \notin ev["TX"] /\ E = {"I_RETRYFAIL"}
            BY <2>4, <3>2, <4>1 DEF Pending, TxResponse
          <5>2. phyTx = NULL /\ intr \cap Ends = {} /\ status \cap Ends = {} /\ fifo = <<>>
            BY <4>1, <5>1 DEF OneThing, TransmissionOK, AtMostOne, Ends
          <5>3. ev'["TX"] \cap Ends = {}
            BY <1>r, <3>2, <5>1 DEF Ends
          <5>4. UNCHANGED <<status, srcLast, fifo, intr, phyTx, phyHardReset>>
            BY <1>6, <3>2, <4>1 DEF WaitResponse, MatchMessageID, TxRuns, GiveUp
          <5>. QED
            BY <5>2, <5>3, <5>4
        <4>2. CASE pc["TX"] = "MatchMessageID"
          <5>1. phyTx = NULL /\ (intr \cup status \cup ev["TX"]) \cap Ends = {} /\ Len(fifo) <= 1
            BY <1>n, <4>2 DEF OneThing, TransmissionOK
          <5>2. ev'["TX"] \subseteq ev["TX"]
            BY <1>r, <3>2
          <5>3. fifo' = <<>>
            BY <1>1, <3>2, <4>2, <5>1 DEF FusbReadMessage
          <5>. QED
            BY <1>6, <3>2, <4>2, <5>1, <5>2, <5>3
            DEF WaitResponse, MatchMessageID, TxRuns, FusbReadMessage
        <4>. QED
          BY <2>1, <4>1, <4>2
      <3>4. /\ pc'["TX"] = "WaitMessage" /\ \A t \in {"PE", "RX", "HR"} : pc'[t] = pc[t]
            /\ txMsg' = NULL /\ ev'["TX"] \subseteq ev["TX"] /\ ev'["PE"] = ev["PE"] \cup {e}
            /\ \A t \in {"RX", "HR"} : ev'[t] = ev[t]
        BY <1>r, <1>g, <3>2
      <3>5. ~Transmitting'
        BY <2>2, <3>4 DEF Transmitting
      <3>6. TransmissionOK'
        BY <2>3, <3>3, <3>4, <3>5 DEF TransmissionOK, AtMostOne
      <3>7. TxActs
        BY <3>3, <3>4 DEF TxActs
      <3>. QED
        BY <2>3, <3>3, <3>5, <3>6, <3>7, TxActsAlone
    <2>. QED
      BY <2>5, <2>6
  <1>7. CASE Block("TX")
    BY <1>7, SameThing DEF Block
  <1>. QED
    BY <1>3, <1>4, <1>5, <1>6, <1>7 DEF TxNext

-----------------------------------------------------------------------------
(* RX does one thing.                                                      *)

\* A step of RX: it may reset TX or make it drop its message, and hand a message to the engine.
RxActs ==
    /\ \A t \in {"PE", "TX", "HR"} : pc'[t] = pc[t]
    /\ ev'["HR"] = ev["HR"]
    /\ ev'["TX"] \in {ev["TX"], ev["TX"] \cup {"RESET"}, ev["TX"] \cup {"DISCARD"}}
    /\ ev'["PE"] \in {ev["PE"], ev["PE"] \cup {"MSG_RX"}}
    /\ UNCHANGED <<intr, status, phyTx, phyHardReset, txMsg, srcLast>>

\* While it has a message it meets no transmission, and the engine runs when it is rid of it.
LEMMA RxActsAlone ==
    ASSUME TypeInv, OneThing, RxActs, Incoming \/ Handing, ReceptionOK',
           Incoming' => ~Handing' /\ ~PeRuns', Handing' => ~PeRuns'
    PROVE  OneThing'
  <1>1. ~Resetting /\ ~Transmitting /\ ~Heated
    BY DEF OneThing, Alone
  <1>2. pc["TX"] \in {"PHYReset", "WaitMessage"} /\ "MSG_TX" \notin ev["TX"]
    BY <1>1 DEF Transmitting, TypeInv, TypeOK, KernelOK, PcOK
  <1>3. /\ ~Heated' /\ ~Transmitting' /\ ~Resetting' /\ (AtHr' <=> AtHr)
        /\ (Asked' <=> Asked) /\ (Indicated' <=> Indicated) /\ (Waiting' <=> Waiting)
    BY <1>1, <1>2
    DEF RxActs, Heated, Transmitting, Resetting, AtHr, Asked, Indicated, Waiting
  <1>4. Alone'
    BY <1>3 DEF Alone, Heated
  <1>5. TransmissionOK'
    BY <1>2, <1>3 DEF RxActs, OneThing, TransmissionOK, AtMostOne, Ends
  <1>6. ResetOK'
    BY <1>3 DEF RxActs, OneThing, ResetOK, AtMostOne
  <1>. QED
    BY <1>4, <1>5, <1>6 DEF OneThing

\* RX keeps to one thing at a time.
LEMMA RxAlone ==
    ASSUME TypeInv, OneThing, RxNext
    PROVE  OneThing'
  <1>1. /\ ev \in [Thread -> SUBSET Event]
        /\ pc \in [Thread -> PePc \cup TxPc \cup RxPc \cup HrPc]
        /\ Thread = {"TX", "RX", "HR", "PE"} /\ fifo \in Seq(Message)
    BY DEF TypeInv, TypeOK, KernelOK, PcOK, WorldOK, Prl, Thread
  <1>. USE DEF RxFrame, RxGoto
  <1>g. ASSUME NEW s, pc' = [pc EXCEPT !["RX"] = s]
        PROVE  pc'["RX"] = s /\ \A t \in {"PE", "TX", "HR"} : pc'[t] = pc[t]
    BY <1>1, <1>g
  <1>i. ASSUME Incoming
        PROVE  ~Handing /\ ~PeRuns /\ Len(fifo) = 1
    BY <1>i DEF OneThing, Alone, ReceptionOK
  <1>h. ASSUME Handing
        PROVE  ~Incoming /\ ~PeRuns /\ "I_GCRCSENT" \notin intr \cup status \cup ev["RX"]
    BY <1>h DEF OneThing, Alone, Incoming
  <1>d. PeRuns' => PeRuns \/ ev'["PE"] # ev["PE"] \/ pc'["PE"] # pc["PE"]
    BY PeStill
  <1>e. ASSUME NEW e \in {"RESET", "DISCARD"}, NEW s, TellTxAndYield(e, s)
        PROVE  /\ pc'["RX"] = s /\ \A t \in {"PE", "TX", "HR"} : pc'[t] = pc[t]
               /\ ev'["TX"] = ev["TX"] \cup {e} /\ \A t \in {"PE", "RX", "HR"} : ev'[t] = ev[t]
    BY <1>1, <1>e, <1>g DEF TellTxAndYield
  <1>x. ASSUME NEW E, ev' = [ev EXCEPT !["RX"] = E]
        PROVE  ev'["RX"] = E /\ \A t \in {"PE", "TX", "HR"} : ev'[t] = ev[t]
    BY <1>1, <1>x
  <1>3. CASE RxWaitPHY
    <2>1. /\ pc["RX"] = "WaitPHY" /\ ~PeRuns /\ ev'["RX"] = {}
          /\ \A t \in {"PE", "TX", "HR"} : ev'[t] = ev[t]
          /\ UNCHANGED <<intr, status, fifo, phyTx, phyHardReset, txMsg, srcLast>>
      BY <1>3, <1>x DEF RxWaitPHY, RxRuns, Runs
    <2>2. CASE "RESET" \in ev["RX"] /\ UNCHANGED pc
      <3>1. ~Incoming /\ ~Incoming'
        BY <2>1, <2>2 DEF OneThing, ReceptionOK, Incoming
      <3>2. /\ (Handing' <=> Handing) /\ (Heated' <=> Heated) /\ (Transmitting' <=> Transmitting)
            /\ (Resetting' <=> Resetting) /\ (AtHr' <=> AtHr) /\ ~PeRuns'
            /\ (Asked' <=> Asked) /\ (Indicated' <=> Indicated) /\ (Waiting' <=> Waiting)
        BY <1>d, <2>1, <2>2
        DEF Handing, Heated, Transmitting, Resetting, AtHr, Asked, Indicated, Waiting
      <3>3. Alone'
        BY <2>1, <3>1, <3>2 DEF OneThing, Alone
      <3>4. ReceptionOK'
        BY <2>1, <2>2, <3>1 DEF OneThing, ReceptionOK, Incoming, AtMostOne
      <3>5. TransmissionOK' /\ ResetOK'
        BY <2>1, <2>2, <3>2 DEF OneThing, TransmissionOK, ResetOK, AtMostOne
      <3>. QED
        BY <3>3, <3>4, <3>5 DEF OneThing
    <2>3. CASE "I_GCRCSENT" \in ev["RX"] /\ StartI2C("RX", "Read")
      <3>1. pc'["RX"] = "Read" /\ \A t \in {"PE", "TX", "HR"} : pc'[t] = pc[t]
        BY <1>g, <2>3 DEF StartI2C
      <3>2. Incoming /\ Incoming' /\ ~Handing' /\ ~PeRuns'
        BY <1>d, <2>1, <2>3, <3>1 DEF Incoming, Handing
      <3>3. ReceptionOK'
        BY <2>1, <2>3, <3>1, <3>2 DEF OneThing, ReceptionOK, AtMostOne
      <3>4. RxActs
        BY <2>1, <3>1 DEF RxActs
      <3>. QED
        BY <3>2, <3>3, <3>4, RxActsAlone
    <2>. QED
      BY <1>3, <2>2, <2>3 DEF RxWaitPHY
  <1>4. CASE RxAllocFails
    BY <1>4, SameThing DEF RxAllocFails
  <1>5. CASE RxRead
    <2>1. pc["RX"] = "Read" /\ ~PeRuns
      BY <1>5 DEF RxRead, RxRuns, Runs
    <2>2. Incoming /\ "I_GCRCSENT" \notin intr \cup status \cup ev["RX"] /\ Len(fifo) = 1
      BY <2>1 DEF OneThing, ReceptionOK, Incoming, AtMostOne
    <2>3. fifo' = <<>> /\ UNCHANGED <<intr, status, phyTx, phyHardReset, txMsg, srcLast>>
      <3>1. fifo \in Seq(Message) /\ Len(fifo) <= 1
        BY <1>1, <2>2
      <3>2. fifo' = IF fifo = <<>> THEN <<>> ELSE Tail(fifo)
        BY <1>5 DEF RxRead, FusbReadMessage
      <3>3. fifo' = <<>>
        BY <3>1, <3>2
      <3>. QED
        BY <1>5, <3>3 DEF RxRead, FusbReadMessage
    <2>4. /\ pc'["RX"] \in {"Reset.yielded", "CheckMessageID"}
          /\ \A t \in {"PE", "TX", "HR"} : pc'[t] = pc[t]
          /\ ev'["TX"] \in {ev["TX"], ev["TX"] \cup {"RESET"}}
          /\ \A t \in {"PE", "RX", "HR"} : ev'[t] = ev[t]
      <3>1. PICK m \in ReadResults :
                IF m.type = "SoftReset"
                THEN TellTxAndYield("RESET", "Reset.yielded")
                ELSE RxGoto("CheckMessageID") /\ UNCHANGED ev
        BY <1>5 DEF RxRead
      <3>2. CASE m.type = "SoftReset"
        BY <1>e, <3>1, <3>2
      <3>3. CASE m.type # "SoftReset"
        BY <1>g, <3>1, <3>3
      <3>. QED
        BY <3>2, <3>3
    <2>5. ~Incoming' /\ ~PeRuns'
      BY <1>d, <2>1, <2>2, <2>3, <2>4 DEF Incoming
    <2>6. ReceptionOK'
      BY <2>2, <2>3, <2>4, <2>5 DEF OneThing, ReceptionOK, AtMostOne
    <2>7. RxActs
      BY <2>3, <2>4 DEF RxActs
    <2>. QED
      BY <2>2, <2>5, <2>6, <2>7, RxActsAlone
  <1>6. CASE RxReset \/ RxCheckMessageID \/ RxStoreMessageID
    <2>1. Handing /\ ~PeRuns
      BY <1>6 DEF RxReset, RxCheckMessageID, RxStoreMessageID, RxRuns, Runs, Handing
    <2>2. ~Incoming /\ "I_GCRCSENT" \notin intr \cup status \cup ev["RX"]
      BY <1>h, <2>1
    <2>3. /\ pc'["RX"] \in {"WaitPHY", "CheckMessageID", "Store.yielded"}
          /\ pc'["RX"] # "WaitPHY" => ev'["PE"] = ev["PE"]
          /\ ev'["RX"] \subseteq ev["RX"]
          /\ UNCHANGED fifo
          /\ RxActs
      <3>1. CASE RxDrop
        <4>1. /\ ev'["RX"] = ev["RX"] \ {"RESET"} /\ \A t \in {"PE", "TX", "HR"} : ev'[t] = ev[t]
          BY <1>x, <3>1 DEF RxDrop
        <4>2. pc'["RX"] = "WaitPHY" /\ \A t \in {"PE", "TX", "HR"} : pc'[t] = pc[t]
          BY <1>g, <3>1 DEF RxDrop
        <4>. QED
          BY <3>1, <4>1, <4>2 DEF RxDrop, RxActs
      <3>2. CASE RxReset /\ ~RxDrop
        <4>1. RxGoto("CheckMessageID") /\ UNCHANGED <<ev, chipVars>> /\ RxFrame
          BY <3>2 DEF RxReset
        <4>. QED
          BY <1>g, <4>1 DEF RxActs
      <3>3. CASE RxCheckMessageID /\ ~RxDrop
        <4>1. TellTxAndYield("DISCARD", "Store.yielded") /\ UNCHANGED chipVars /\ RxFrame
          BY <3>3 DEF RxCheckMessageID
        <4>. QED
          BY <1>e, <4>1 DEF RxActs
      <3>4. CASE RxStoreMessageID
        <4>1. /\ ev'["PE"] = ev["PE"] \cup {"MSG_RX"}
              /\ \A t \in {"RX", "TX", "HR"} : ev'[t] = ev[t]
          BY <1>1, <3>4 DEF RxStoreMessageID
        <4>2. pc'["RX"] = "WaitPHY" /\ \A t \in {"PE", "TX", "HR"} : pc'[t] = pc[t]
          BY <1>g, <3>4 DEF RxStoreMessageID
        <4>. QED
          BY <3>4, <4>1, <4>2 DEF RxStoreMessageID, RxActs
      <3>. QED
        BY <1>6, <3>1, <3>2, <3>3, <3>4
    <2>4. ~Incoming' /\ (Handing' => ~PeRuns')
      BY <1>d, <2>1, <2>2, <2>3 DEF Incoming, Handing, RxActs
    <2>5. ReceptionOK'
      BY <2>2, <2>3, <2>4 DEF OneThing, ReceptionOK, AtMostOne, RxActs
    <2>. QED
      BY <2>1, <2>3, <2>4, <2>5, RxActsAlone
  <1>7. CASE Block("RX")
    BY <1>7, SameThing DEF Block
  <1>. QED
    BY <1>3, <1>4, <1>5, <1>6, <1>7 DEF RxNext

-----------------------------------------------------------------------------
(* The HR thread does one thing.                                           *)

\* A step of HR: it may reset RX or TX and report to the engine.
HrActs ==
    /\ \A t \in {"PE", "TX", "RX"} : pc'[t] = pc[t]
    /\ \A t \in {"TX", "RX"} : ev'[t] \in {ev[t], ev[t] \cup {"RESET"}}
    /\ ev'["PE"] \in {ev["PE"], ev["PE"] \cup {"RESET"}, ev["PE"] \cup {"HARD_SENT"}}
    /\ UNCHANGED <<intr, status, fifo, phyTx, txMsg, srcLast>>

\* While it carries a Hard Reset out nothing else goes on, and the engine runs when it is out
\* of HR's hands.
LEMMA HrActsAlone ==
    ASSUME TypeInv, OneThing, HrActs, Resetting, ResetOK', Resetting' => ~PeRuns'
    PROVE  OneThing'
  <1>1. ~Incoming /\ ~Handing /\ ~Transmitting /\ ~Heated
    BY DEF OneThing, Alone
  <1>2. pc["TX"] \in {"PHYReset", "WaitMessage"} /\ "MSG_TX" \notin ev["TX"]
    BY <1>1 DEF Transmitting, TypeInv, TypeOK, KernelOK, PcOK
  <1>3. ~Incoming' /\ ~Handing' /\ ~Heated' /\ ~Transmitting'
    BY <1>1, <1>2 DEF HrActs, Incoming, Handing, Heated, Transmitting
  <1>4. Alone'
    BY <1>3 DEF Alone, Heated
  <1>5. ReceptionOK'
    BY <1>1, <1>3 DEF HrActs, OneThing, ReceptionOK, AtMostOne, Incoming
  <1>6. TransmissionOK'
    BY <1>2, <1>3 DEF HrActs, OneThing, TransmissionOK, AtMostOne, Ends
  <1>. QED
    BY <1>4, <1>5, <1>6 DEF OneThing

\* HR keeps to one thing at a time.
LEMMA HrAlone ==
    ASSUME TypeInv, HandshakeInv, OneThing, HrNext
    PROVE  OneThing'
  <1>1. /\ ev \in [Thread -> SUBSET Event] /\ pc["PE"] \in PePc
        /\ pc \in [Thread -> PePc \cup TxPc \cup RxPc \cup HrPc]
        /\ Thread = {"TX", "RX", "HR", "PE"}
    BY DEF TypeInv, TypeOK, KernelOK, PcOK, Prl, Thread
  <1>. USE DEF HrFrame
  <1>g. ASSUME NEW s, pc' = [pc EXCEPT !["HR"] = s]
        PROVE  pc'["HR"] = s /\ \A t \in {"PE", "TX", "RX"} : pc'[t] = pc[t]
    BY <1>1, <1>g
  <1>d. PeRuns' => PeRuns \/ ev'["PE"] # ev["PE"] \/ pc'["PE"] # pc["PE"]
    BY PeStill
  <1>r. ASSUME pc["HR"] \in Carrying
        PROVE  /\ Resetting /\ ~PeRuns /\ ~Asked /\ "I_HARDRST" \notin ev["HR"]
               /\ "I_HARDRST" \notin intr \cup status
    <2>1. Resetting /\ ~PeRuns
      BY <1>r DEF Resetting, OneThing, Alone
    <2>2. ~AtHr /\ "I_HARDRST" \notin intr \cup status
      BY <1>r DEF OneThing, ResetOK, AtMostOne
    <2>. QED
      BY <1>r, <2>1, <2>2 DEF AtHr, Carrying
  <1>w. ~PeRuns => pc["PE"] \in PeWaits \cup {"SourceUnresponsive"}
    BY <1>1 DEF PeRuns, PePc
  <1>k. ASSUME pc["HR"] \in Carrying \/ (pc["HR"] = "ResetLayer" /\ AtHr),
               pc'["HR"] \in Carrying, ev'["HR"] \subseteq ev["HR"],
               pc["HR"] = "ResetLayer" => ev'["HR"] \cap {"RESET", "I_HARDRST"} = {},
               pc'["HR"] = "HardWaitPHY" => phyHardReset', ev'["PE"] = ev["PE"], HrActs
        PROVE  OneThing'
    <2>1. Resetting /\ ~PeRuns /\ "I_HARDRST" \notin intr \cup status
      <3>1. CASE AtHr
        BY <3>1 DEF Resetting, OneThing, Alone, ResetOK, AtMostOne
      <3>. QED
        BY <1>k, <1>r, <3>1
    <2>2. ~Asked' /\ "I_HARDRST" \notin ev'["HR"] /\ ~AtHr'
      BY <1>k, <1>r DEF Asked, AtHr
    <2>3. ~PeRuns'
      BY <1>d, <1>k, <2>1 DEF HrActs
    <2>4. ResetOK'
      BY <1>k, <2>1, <2>2 DEF OneThing, ResetOK, AtMostOne, HrActs, Indicated, Waiting, Carrying
    <2>. QED
      BY <1>k, <2>1, <2>3, <2>4, HrActsAlone
  <1>o. ASSUME pc["HR"] \in Carrying, pc'["HR"] = "WaitPE", ev'["HR"] = ev["HR"], HrActs
        PROVE  OneThing'
    <2>1. ~Asked' /\ "I_HARDRST" \notin ev'["HR"] /\ ~AtHr' /\ ~Resetting'
      BY <1>o, <1>r DEF Asked, AtHr, Resetting, HrActs, Carrying
    <2>2. pc["PE"] \in PeWaits \cup {"SourceUnresponsive"}
      BY <1>o, <1>r, <1>w
    <2>3. ResetOK'
      BY <1>o, <1>r, <2>1, <2>2
      DEF ResetOK, AtMostOne, HrActs, Indicated, Waiting, Carrying
    <2>. QED
      BY <1>o, <1>r, <2>1, <2>3, HrActsAlone
  <1>2. CASE HrResetLayer
    <2>1. pc["HR"] = "ResetLayer" /\ AtHr
      BY <1>2, PrlMasks DEF HrResetLayer, HrRuns, Pending, AtHr, Asked
    <2>2. /\ ev'["HR"] = ev["HR"] \ {"RESET", "I_HARDRST"} /\ ev'["RX"] = ev["RX"] \cup {"RESET"}
          /\ ev'["TX"] = ev["TX"] /\ ev'["PE"] = ev["PE"]
      BY <1>1, <1>2, PrlMasks DEF HrResetLayer
    <2>3. pc'["HR"] = "ResetLayer.rx" /\ \A t \in {"PE", "TX", "RX"} : pc'[t] = pc[t]
      BY <1>2, <1>g DEF HrResetLayer, HrGoto
    <2>4. HrActs
      BY <1>2, <2>2, <2>3 DEF HrResetLayer, HrActs
    <2>. QED
      BY <1>k, <2>1, <2>2, <2>3, <2>4 DEF Carrying
  <1>3. CASE HrResetTx
    <2>1. pc["HR"] = "ResetLayer.rx" /\ UNCHANGED chipVars
      BY <1>3 DEF HrResetTx, HrRuns
    <2>2. /\ ev'["TX"] = ev["TX"] \cup {"RESET"}
          /\ \A t \in {"PE", "RX", "HR"} : ev'[t] = ev[t]
      BY <1>1, <1>3 DEF HrResetTx
    <2>3. pc'["HR"] = "ResetLayer.tx" /\ \A t \in {"PE", "TX", "RX"} : pc'[t] = pc[t]
      BY <1>3, <1>g DEF HrResetTx, HrGoto
    <2>4. HrActs
      BY <1>3, <2>2, <2>3 DEF HrResetTx, HrActs
    <2>. QED
      BY <1>k, <2>1, <2>2, <2>3, <2>4 DEF Carrying
  <1>4. CASE HrRequest \/ HrRequested \/ HrWaitPHY
    <2>1. /\ pc["HR"] \in {"ResetLayer.tx", "Request", "HardWaitPHY"}
          /\ UNCHANGED <<intr, status, fifo, phyTx, txMsg, srcLast>>
      BY <1>4 DEF HrRequest, HrRequested, HrWaitPHY, HrRuns, FusbSendHardrst
    <2>2. /\ ev'["HR"] \subseteq ev["HR"] /\ \A t \in {"PE", "RX", "TX"} : ev'[t] = ev[t]
      BY <1>1, <1>4 DEF HrRequest, HrRequested, HrWaitPHY
    <2>3. /\ pc'["HR"] \in {"Request", "HardWaitPHY", "HardResetRequested"}
          /\ pc'["HR"] = "HardWaitPHY" => phyHardReset'
          /\ \A t \in {"PE", "TX", "RX"} : pc'[t] = pc[t]
      <3>1. CASE HrRequest
        <4>1. pc' = [pc EXCEPT !["HR"] = "Request"]
          BY <3>1 DEF HrRequest, StartI2C
        <4>2. pc'["HR"] = "Request" /\ \A t \in {"PE", "TX", "RX"} : pc'[t] = pc[t]
          BY <1>g, <4>1
        <4>. QED
          BY <4>2
      <3>2. CASE HrRequested
        BY <1>g, <3>2 DEF HrRequested, HrGoto, FusbSendHardrst
      <3>3. CASE HrWaitPHY
        BY <1>g, <3>3 DEF HrWaitPHY, HrGoto
      <3>. QED
        BY <1>4, <3>1, <3>2, <3>3
    <2>4. HrActs
      BY <2>1, <2>2, <2>3 DEF HrActs
    <2>. QED
      BY <1>k, <2>1, <2>2, <2>3, <2>4 DEF Carrying
  <1>5. CASE HrIndicate \/ HrHardResetRequested
    <2>1. /\ pc["HR"] \in {"ResetLayer.tx", "HardResetRequested"}
          /\ UNCHANGED <<intr, status, fifo, phyTx, txMsg, srcLast>>
      BY <1>5 DEF HrIndicate, HrHardResetRequested, HrRuns
    <2>2. /\ ev'["PE"] \in {ev["PE"] \cup {"RESET"}, ev["PE"] \cup {"HARD_SENT"}}
          /\ \A t \in {"HR", "RX", "TX"} : ev'[t] = ev[t]
      BY <1>1, <1>5 DEF HrIndicate, HrHardResetRequested
    <2>3. pc'["HR"] = "WaitPE" /\ \A t \in {"PE", "TX", "RX"} : pc'[t] = pc[t]
      BY <1>5, <1>g DEF HrIndicate, HrHardResetRequested, HrGoto
    <2>4. HrActs
      BY <2>1, <2>2, <2>3 DEF HrActs
    <2>. QED
      BY <1>o, <2>1, <2>2, <2>3, <2>4 DEF Carrying
  <1>6. CASE HrWaitPE
    <2>1. /\ pc["HR"] = "WaitPE" /\ Done
          /\ UNCHANGED <<intr, status, fifo, phyTx, phyHardReset, txMsg, srcLast>>
      BY <1>6, PrlMasks DEF HrWaitPE, HrRuns, Pending, Done
    <2>2. /\ ev'["HR"] = ev["HR"] \ {"DONE"} /\ \A t \in {"PE", "RX", "TX"} : ev'[t] = ev[t]
      BY <1>1, <1>6 DEF HrWaitPE
    <2>3. pc'["HR"] = "ResetLayer" /\ \A t \in {"PE", "TX", "RX"} : pc'[t] = pc[t]
      BY <1>6, <1>g DEF HrWaitPE, HrGoto
    <2>4. "I_HARDRST" \notin ev["HR"]
      BY <2>1 DEF HandshakeInv, AtMostOne, OneThing, ResetOK, Waiting
    <2>5. /\ (Incoming' <=> Incoming) /\ (Handing' <=> Handing) /\ (Heated' <=> Heated)
          /\ (Transmitting' <=> Transmitting) /\ (PeRuns' <=> PeRuns)
          /\ (Asked' <=> Asked) /\ (AtHr' <=> AtHr) /\ (Resetting' <=> Resetting)
          /\ (Indicated' <=> Indicated)
      BY <2>1, <2>2, <2>3, <2>4, PeStill
      DEF Incoming, Handing, Heated, Transmitting, Asked, AtHr, Resetting, Indicated, Carrying
    <2>6. Alone' /\ ReceptionOK' /\ TransmissionOK'
      BY <2>1, <2>2, <2>3, <2>5
      DEF OneThing, Alone, ReceptionOK, TransmissionOK, AtMostOne
    <2>7. ResetOK'
      BY <2>1, <2>2, <2>3, <2>4, <2>5 DEF OneThing, ResetOK, AtMostOne, Waiting, Carrying
    <2>. QED
      BY <2>6, <2>7 DEF OneThing
  <1>7. CASE Block("HR")
    BY <1>7, SameThing DEF Block
  <1>. QED
    BY <1>2, <1>3, <1>4, <1>5, <1>6, <1>7 DEF HrNext

-----------------------------------------------------------------------------
(* The poller and the chip do one thing.                                   *)

\* A Hard Reset that the poller reports to an HR thread which waits for the engine meets an
\* engine that has been told of an earlier one and will never answer.
LEMMA GivenUp ==
    ASSUME TypeInv, QueueInv, HandshakeInv, OneThing, Idle, Waiting, ~Asked
    PROVE  Indicated /\ pc["PE"] = "SourceUnresponsive"
  <1>1. /\ ~PeRuns /\ ready = <<>> /\ pc["PE"] \in PePc
        /\ "HR" \in Prl /\ pc["HR"] = "WaitPE" /\ "WaitPE" \in PrlWaits
    BY DEF Idle, TypeInv, TypeOK, KernelOK, PcOK, Waiting, Prl, PrlWaits
  <1>2. ~Done
    <2>1. ~Queued("HR")
      BY <1>1 DEF Queued
    <2>2. Pending("HR") = {}
      BY <1>1, <2>1 DEF QueueInv
    <2>. QED
      BY <1>1, <2>2, PrlMasks DEF Pending, Done
  <1>3. ~Handling
    BY <1>1 DEF Handling, PeRuns, PeEntries
  <1>4. ~Reported
    <2>1. SUFFICES ASSUME Reported PROVE FALSE
      OBVIOUS
    <2>2. pc["PE"] = "HardReset.sent"
      BY <2>1 DEF HandshakeInv, Awaiting
    <2>3. "HARD_SENT" \in Pending("PE")
      BY <2>1, <2>2, PeMasks DEF Pending, Reported
    <2>. QED
      BY <1>1, <2>2, <2>3 DEF PeRuns, PeWaits
  <1>5. Indicated
    BY <1>2, <1>3, <1>4 DEF HandshakeInv
  <1>6. pc["PE"] # "HardReset.sent"
    BY <1>1, <1>4 DEF HandshakeInv, Awaiting, Carried, Carrying
  <1>7. pc["PE"] \notin PeWaits \ {"HardReset.sent"}
    BY <1>1, <1>5, PeMasks DEF Indicated, PeRuns, Pending
  <1>. QED
    BY <1>5, <1>6, <1>7 DEF OneThing, ResetOK

\* The poller keeps to one thing at a time.
LEMMA IntNAlone ==
    ASSUME TypeInv, QueueInv, HandshakeInv, OneThing, IntNNext
    PROVE  OneThing'
  <1>1. /\ ev \in [Thread -> SUBSET Event] /\ status \subseteq Interrupt
        /\ Thread = {"TX", "RX", "HR", "PE"}
    BY DEF TypeInv, TypeOK, KernelOK, WorldOK, Prl, Thread
  <1>2. ~PeRuns /\ Idle
    BY DEF IntNNext, IntNPoll, IntNTell, Idle
  <1>3. CASE IntNPoll
    <2>1. /\ status = {} /\ status' = intr /\ intr' = {}
          /\ UNCHANGED <<pc, ev, fifo, phyTx, phyHardReset, txMsg, srcLast>>
      BY <1>3 DEF IntNPoll, FusbGetStatus
    <2>2. /\ (Incoming' <=> Incoming) /\ (Handing' <=> Handing) /\ (Heated' <=> Heated)
          /\ (Transmitting' <=> Transmitting) /\ (PeRuns' <=> PeRuns)
          /\ (Asked' <=> Asked) /\ (AtHr' <=> AtHr) /\ (Resetting' <=> Resetting)
          /\ (Indicated' <=> Indicated) /\ (Waiting' <=> Waiting)
      BY <2>1, PeStill
      DEF Incoming, Handing, Heated, Transmitting, Asked, AtHr, Resetting, Indicated, Waiting
    <2>3. Alone'
      BY <2>1, <2>2 DEF OneThing, Alone
    <2>4. ReceptionOK'
      BY <2>1, <2>2 DEF OneThing, ReceptionOK, AtMostOne
    <2>5. TransmissionOK'
      BY <2>1, <2>2 DEF OneThing, TransmissionOK, AtMostOne
    <2>6. ResetOK'
      BY <2>1, <2>2 DEF OneThing, ResetOK, AtMostOne
    <2>. QED
      BY <2>3, <2>4, <2>5, <2>6 DEF OneThing
  <1>4. ASSUME NEW t \in Thread, IntNTell(t)
        PROVE  /\ status \cap For[t] # {} /\ status' = status \ For[t]
               /\ ev'[t] = ev[t] \cup (status \cap For[t])
               /\ \A u \in Thread \ {t} : ev'[u] = ev[u]
               /\ UNCHANGED <<pc, intr, fifo, phyTx, phyHardReset, txMsg, srcLast>>
    BY <1>1, <1>4 DEF IntNTell
  <1>5. CASE IntNTell("RX")
    <2>1. /\ "I_GCRCSENT" \in status /\ status' = status \ {"I_GCRCSENT"}
          /\ ev'["RX"] = ev["RX"] \cup {"I_GCRCSENT"}
          /\ ev'["TX"] = ev["TX"] /\ ev'["HR"] = ev["HR"] /\ ev'["PE"] = ev["PE"]
          /\ UNCHANGED <<pc, intr, fifo, phyTx, phyHardReset, txMsg, srcLast>>
      BY <1>1, <1>4, <1>5 DEF For
    <2>2. /\ Incoming /\ Incoming' /\ (Handing' <=> Handing) /\ (Heated' <=> Heated)
          /\ (Transmitting' <=> Transmitting) /\ (PeRuns' <=> PeRuns)
          /\ (Asked' <=> Asked) /\ (AtHr' <=> AtHr) /\ (Resetting' <=> Resetting)
          /\ (Indicated' <=> Indicated) /\ (Waiting' <=> Waiting)
      BY <2>1, PeStill
      DEF Incoming, Handing, Heated, Transmitting, Asked, AtHr, Resetting, Indicated, Waiting
    <2>3. Alone'
      BY <2>1, <2>2 DEF OneThing, Alone
    <2>4. ReceptionOK'
      BY <2>1, <2>2 DEF OneThing, ReceptionOK, AtMostOne
    <2>5. TransmissionOK'
      BY <2>1, <2>2 DEF OneThing, TransmissionOK, AtMostOne, Ends
    <2>6. ResetOK'
      BY <2>1, <2>2 DEF OneThing, ResetOK, AtMostOne
    <2>. QED
      BY <2>3, <2>4, <2>5, <2>6 DEF OneThing
  <1>6. CASE IntNTell("TX")
    <2>1. /\ status \cap Ends # {} /\ status' = status \ Ends
          /\ ev'["TX"] = ev["TX"] \cup (status \cap Ends)
          /\ ev'["RX"] = ev["RX"] /\ ev'["HR"] = ev["HR"] /\ ev'["PE"] = ev["PE"]
          /\ UNCHANGED <<pc, intr, fifo, phyTx, phyHardReset, txMsg, srcLast>>
      <3>1. For["TX"] = Ends
        BY DEF For, Ends
      <3>. QED
        BY <1>1, <1>4, <1>6, <3>1
    <2>2. /\ (Incoming' <=> Incoming) /\ (Handing' <=> Handing) /\ (Heated' <=> Heated)
          /\ (Transmitting' <=> Transmitting) /\ (PeRuns' <=> PeRuns)
          /\ (Asked' <=> Asked) /\ (AtHr' <=> AtHr) /\ (Resetting' <=> Resetting)
          /\ (Indicated' <=> Indicated) /\ (Waiting' <=> Waiting)
      BY <2>1, PeStill
      DEF Incoming, Handing, Heated, Transmitting, Asked, AtHr, Resetting, Indicated, Waiting, Ends
    <2>3. Alone'
      BY <2>1, <2>2 DEF OneThing, Alone
    <2>4. ReceptionOK'
      BY <2>1, <2>2 DEF OneThing, ReceptionOK, AtMostOne, Ends
    <2>5. TransmissionOK'
      <3>1. /\ ~(phyTx # NULL) /\ intr \cap Ends = {} /\ ev["TX"] \cap Ends = {}
        BY <2>1 DEF OneThing, TransmissionOK, AtMostOne
      <3>2. /\ status' \cap Ends = {} /\ ev'["TX"] \cap Ends # {}
            /\ "I_TXSENT" \in intr \cup status \cup ev["TX"]
                   => "I_TXSENT" \in intr' \cup status' \cup ev'["TX"]
            /\ \A e \in {"RESET", "DISCARD", "MSG_TX"} : e \in ev'["TX"] <=> e \in ev["TX"]
        BY <2>1 DEF Ends
      <3>3. pc["TX"] = "WaitResponse"
        BY <2>1 DEF OneThing, TransmissionOK
      <3>4. ev'["TX"] \cap {"RESET", "DISCARD", "MSG_TX"} = {}
        BY <3>2, <3>3 DEF OneThing, TransmissionOK
      <3>. QED
        BY <2>1, <2>2, <3>1, <3>2, <3>3, <3>4 DEF OneThing, TransmissionOK, AtMostOne
    <2>6. ResetOK'
      BY <2>1, <2>2 DEF OneThing, ResetOK, AtMostOne, Ends
    <2>. QED
      BY <2>3, <2>4, <2>5, <2>6 DEF OneThing
  <1>7. CASE IntNTell("HR")
    <2>1. /\ status' = status \ {"I_HARDRST", "I_HARDSENT"}
          /\ ev'["HR"] = ev["HR"] \cup (status \cap {"I_HARDRST", "I_HARDSENT"})
          /\ ev'["RX"] = ev["RX"] /\ ev'["TX"] = ev["TX"] /\ ev'["PE"] = ev["PE"]
          /\ UNCHANGED <<pc, intr, fifo, phyTx, phyHardReset, txMsg, srcLast>>
      <3>1. For["HR"] = {"I_HARDRST", "I_HARDSENT"}
        BY DEF For
      <3>. QED
        BY <1>1, <1>4, <1>7, <3>1
    <2>2. /\ (Incoming' <=> Incoming) /\ (Handing' <=> Handing) /\ (Heated' <=> Heated)
          /\ (Transmitting' <=> Transmitting) /\ (PeRuns' <=> PeRuns)
          /\ (Asked' <=> Asked) /\ (Indicated' <=> Indicated) /\ (Waiting' <=> Waiting)
          /\ (Resetting' => Resetting)
      BY <2>1, PeStill
      DEF Incoming, Handing, Heated, Transmitting, Asked, AtHr, Resetting, Indicated, Waiting
    <2>3. Alone'
      BY <2>1, <2>2 DEF OneThing, Alone
    <2>4. ReceptionOK'
      BY <2>1, <2>2 DEF OneThing, ReceptionOK, AtMostOne
    <2>5. TransmissionOK'
      BY <2>1, <2>2 DEF OneThing, TransmissionOK, AtMostOne, Ends
    <2>6. ResetOK'
      <3>1. pc["HR"] = "HardWaitPHY"
                => phyHardReset \/ "I_HARDSENT" \in intr' \cup status' \cup ev'["HR"]
        BY <2>1 DEF OneThing, ResetOK
      <3>2. CASE "I_HARDRST" \notin status
        <4>1. (AtHr' <=> AtHr) /\ "I_HARDRST" \notin status'
              /\ ("I_HARDRST" \in ev'["HR"] <=> "I_HARDRST" \in ev["HR"])
          BY <2>1, <2>2, <3>2 DEF AtHr
        <4>. QED
          BY <2>1, <2>2, <3>1, <4>1 DEF OneThing, ResetOK, AtMostOne
      <3>3. CASE "I_HARDRST" \in status
        <4>1. ~AtHr /\ "I_HARDRST" \notin intr /\ pc["HR"] \notin Carrying
          BY <3>3 DEF OneThing, ResetOK, AtMostOne
        <4>2. ~Asked
          BY <4>1 DEF AtHr
        <4>3. Waiting => Indicated /\ pc["PE"] = "SourceUnresponsive"
          BY <1>2, <4>2, GivenUp
        <4>4. "I_HARDRST" \notin status' /\ "I_HARDRST" \notin intr' /\ pc'["HR"] \notin Carrying
          BY <2>1, <4>1
        <4>. QED
          BY <2>1, <2>2, <3>1, <4>2, <4>3, <4>4 DEF OneThing, ResetOK, AtMostOne
      <3>. QED
        BY <3>2, <3>3
    <2>. QED
      BY <2>3, <2>4, <2>5, <2>6 DEF OneThing
  <1>8. CASE IntNTell("PE")
    <2>1. /\ "I_OVRTEMP" \in status /\ status' = status \ {"I_OVRTEMP"}
          /\ ev'["PE"] = ev["PE"] \cup {"I_OVRTEMP"}
          /\ ev'["RX"] = ev["RX"] /\ ev'["TX"] = ev["TX"] /\ ev'["HR"] = ev["HR"]
          /\ UNCHANGED <<pc, intr, fifo, phyTx, phyHardReset, txMsg, srcLast>>
      BY <1>1, <1>4, <1>8 DEF For
    <2>2. Heated /\ ~Incoming /\ ~Handing /\ ~Resetting /\ ~Transmitting
      BY <2>1 DEF OneThing, Alone, Heated
    <2>3. ~Heated'
      BY <2>1 DEF OneThing, Alone, Heated
    <2>4. /\ ~Incoming' /\ ~Handing' /\ ~Resetting' /\ ~Transmitting'
          /\ (AtHr' <=> AtHr) /\ (Asked' <=> Asked)
          /\ (Indicated' <=> Indicated) /\ (Waiting' <=> Waiting)
      BY <2>1, <2>2
      DEF Incoming, Handing, Transmitting, Asked, AtHr, Resetting, Indicated, Waiting
    <2>5. Alone'
      BY <2>3, <2>4 DEF Alone, Heated
    <2>6. ReceptionOK'
      BY <2>1, <2>2, <2>4 DEF OneThing, ReceptionOK, AtMostOne
    <2>7. TransmissionOK'
      BY <2>1, <2>4 DEF OneThing, TransmissionOK, AtMostOne, Ends
    <2>8. ResetOK'
      BY <2>1, <2>4 DEF OneThing, ResetOK, AtMostOne
    <2>. QED
      BY <2>5, <2>6, <2>7, <2>8 DEF OneThing
  <1>. QED
    BY <1>1, <1>3, <1>5, <1>6, <1>7, <1>8 DEF IntNNext

\* The chip keeps to one thing at a time: what it finishes was under way.
LEMMA ChipAlone ==
    ASSUME TypeInv, OneThing, Chip
    PROVE  OneThing'
  <1>1. UNCHANGED <<pc, ev, status, txMsg>> /\ fifo \in Seq(Message)
    BY DEF Chip, TransmitSucceeds, TransmitFails, HardResetSignalled, SoftwareStays,
           TypeInv, TypeOK, WorldOK
  <1>2. CASE TransmitSucceeds \/ TransmitFails
    <2>1. phyTx # NULL /\ phyTx' = NULL /\ UNCHANGED phyHardReset
      BY <1>2 DEF TransmitSucceeds, TransmitFails
    <2>2. pc["TX"] = "WaitResponse"
      BY <2>1 DEF OneThing, TransmissionOK
    <2>3. (intr \cup status \cup ev["TX"]) \cap Ends = {}
      BY <2>1 DEF OneThing, TransmissionOK, AtMostOne
    <2>4. Transmitting /\ ~Incoming
      BY <2>2 DEF OneThing, Alone, Transmitting, TxPc
    <2>5. fifo = <<>>
      BY <2>2, <2>3 DEF OneThing, TransmissionOK, Ends
    <2>6. /\ \/ intr' = intr \cup {"I_TXSENT"} /\ Len(fifo') = 1
             \/ intr' = intr \cup {"I_RETRYFAIL"} /\ fifo' = <<>>
          /\ srcLast' \in {srcLast, NULL}
      BY <1>1, <1>2, <2>5 DEF TransmitSucceeds, TransmitFails
    <2>7. /\ (Incoming' <=> Incoming) /\ (Handing' <=> Handing) /\ (Heated' <=> Heated)
          /\ (Transmitting' <=> Transmitting) /\ (PeRuns' <=> PeRuns)
          /\ (Asked' <=> Asked) /\ (AtHr' <=> AtHr) /\ (Resetting' <=> Resetting)
          /\ (Indicated' <=> Indicated) /\ (Waiting' <=> Waiting)
      BY <1>1, <2>6, PeStill
      DEF Incoming, Handing, Heated, Transmitting, Asked, AtHr, Resetting, Indicated, Waiting
    <2>8. Alone'
      BY <1>1, <2>6, <2>7 DEF OneThing, Alone
    <2>9. ReceptionOK'
      BY <1>1, <2>2, <2>4, <2>6, <2>7 DEF OneThing, ReceptionOK, AtMostOne, Incoming
    <2>10. TransmissionOK'
      <3>1. /\ intr' \cap Ends # {} /\ status' \cap Ends = {} /\ ev'["TX"] \cap Ends = {}
            /\ fifo' = <<>> \/ (Len(fifo') = 1 /\ "I_TXSENT" \in intr')
        BY <1>1, <2>3, <2>6 DEF Ends
      <3>. QED
        BY <1>1, <2>1, <2>2, <2>7, <3>1 DEF OneThing, TransmissionOK, AtMostOne
    <2>11. ResetOK'
      BY <1>1, <2>1, <2>6, <2>7 DEF OneThing, ResetOK, AtMostOne
    <2>. QED
      BY <2>8, <2>9, <2>10, <2>11 DEF OneThing
  <1>3. CASE HardResetSignalled
    <2>1. /\ intr' = intr \cup {"I_HARDSENT"} /\ srcLast' = NULL /\ UNCHANGED <<fifo, phyTx>>
      BY <1>3 DEF HardResetSignalled
    <2>2. /\ (Incoming' <=> Incoming) /\ (Handing' <=> Handing) /\ (Heated' <=> Heated)
          /\ (Transmitting' <=> Transmitting) /\ (PeRuns' <=> PeRuns)
          /\ (Asked' <=> Asked) /\ (AtHr' <=> AtHr) /\ (Resetting' <=> Resetting)
          /\ (Indicated' <=> Indicated) /\ (Waiting' <=> Waiting)
      BY <1>1, <2>1, PeStill
      DEF Incoming, Handing, Heated, Transmitting, Asked, AtHr, Resetting, Indicated, Waiting
    <2>3. Alone'
      BY <1>1, <2>1, <2>2 DEF OneThing, Alone
    <2>4. ReceptionOK'
      BY <1>1, <2>1, <2>2 DEF OneThing, ReceptionOK, AtMostOne
    <2>5. TransmissionOK'
      BY <1>1, <2>1, <2>2 DEF OneThing, TransmissionOK, AtMostOne, Ends
    <2>6. ResetOK'
      BY <1>1, <2>1, <2>2 DEF OneThing, ResetOK, AtMostOne
    <2>. QED
      BY <2>3, <2>4, <2>5, <2>6 DEF OneThing
  <1>. QED
    BY <1>2, <1>3 DEF Chip

\* When everything has been dealt with the threads wait, each where it has nothing to do.
LEMMA QuietIs ==
    ASSUME TypeInv, QueueInv, HandshakeInv, OneThing, Quiet
    PROVE  /\ ~PeRuns /\ intr = {} /\ status = {} /\ fifo = <<>> /\ phyTx = NULL
           /\ ~phyHardReset
           /\ pc["RX"] = "WaitPHY" /\ ev["RX"] = {}
           /\ pc["TX"] = "WaitMessage"
           /\ ev["TX"] \cap ({"RESET", "DISCARD", "MSG_TX"} \cup Ends) = {}
           /\ pc["HR"] \in {"ResetLayer", "WaitPE"} /\ ~AtHr
  <1>1. /\ ~PeRuns /\ ready = <<>> /\ bus = <<>> /\ intr = {} /\ status = {} /\ phyTx = NULL
        /\ ~phyHardReset /\ pc["TX"] # "AmsWait" /\ Idle
        /\ \A t \in Thread : ev[t] \subseteq Event
        /\ pc["TX"] \in TxPc /\ pc["RX"] \in RxPc /\ pc["HR"] \in HrPc
        /\ Prl = {"TX", "RX", "HR"} /\ Thread = {"TX", "RX", "HR", "PE"}
    BY DEF Quiet, Idle, TypeInv, TypeOK, KernelOK, PcOK, Prl, Thread
  <1>2. ASSUME NEW t \in Prl
        PROVE  pc[t] \in PrlWaits \cup {"AmsWait"} /\ (pc[t] \in PrlWaits => Pending(t) = {})
    <2>1. ~Queued(t) /\ ~OnBus(t)
      BY <1>1 DEF Queued, OnBus, In
    <2>. QED
      BY <2>1 DEF QueueInv
  <1>3. pc["RX"] = "WaitPHY" /\ ev["RX"] = {}
    <2>1. pc["RX"] = "WaitPHY"
      BY <1>1, <1>2 DEF RxPc, PrlWaits
    <2>2. ev["RX"] \cap Event = {}
      BY <1>1, <1>2, <2>1, PrlMasks DEF Pending, PrlWaits
    <2>. QED
      BY <1>1, <2>1, <2>2
  <1>4. pc["TX"] = "WaitMessage" /\ ev["TX"] \cap {"RESET", "DISCARD", "MSG_TX"} = {}
    <2>1. pc["TX"] \in {"WaitMessage", "WaitResponse"}
      BY <1>1, <1>2 DEF TxPc, PrlWaits
    <2>2. pc["TX"] # "WaitResponse"
      <3>1. SUFFICES ASSUME pc["TX"] = "WaitResponse" PROVE FALSE
        OBVIOUS
      <3>2. ev["TX"] \cap Ends # {}
        BY <1>1, <3>1 DEF OneThing, TransmissionOK
      <3>3. Pending("TX") = {} /\ Mask["WaitResponse"] = TxResponse
        BY <1>1, <1>2, <3>1, PrlMasks DEF PrlWaits
      <3>. QED
        BY <3>1, <3>2, <3>3 DEF Pending, Ends, TxResponse
    <2>3. Pending("TX") = {}
      BY <1>1, <1>2, <2>1 DEF PrlWaits
    <2>. QED
      BY <2>1, <2>2, <2>3, PrlMasks DEF Pending
  <1>5. ev["TX"] \cap Ends = {}
    BY <1>4 DEF OneThing, TransmissionOK
  <1>6. fifo = <<>>
    BY <1>1, <1>3, <1>4 DEF OneThing, ReceptionOK, Incoming
  <1>7. pc["HR"] \in {"ResetLayer", "WaitPE"} /\ ~AtHr
    <2>1. pc["HR"] \in {"ResetLayer", "HardWaitPHY", "WaitPE"} /\ Pending("HR") = {}
      BY <1>1, <1>2 DEF HrPc, PrlWaits
    <2>2. pc["HR"] # "HardWaitPHY"
      BY <1>1, <2>1, PrlMasks DEF Pending, OneThing, ResetOK
    <2>3. CASE pc["HR"] = "ResetLayer"
      BY <2>1, <2>3, PrlMasks DEF Pending, AtHr, Asked
    <2>4. CASE pc["HR"] = "WaitPE"
      <3>1. ~Asked
        <4>1. SUFFICES ASSUME Asked PROVE FALSE
          OBVIOUS
        <4>2. Awaiting /\ ~Reported /\ ~Indicated /\ ~Handling
          BY <4>1 DEF HandshakeInv, OneThing, ResetOK, Awaiting, Handling
        <4>3. ~Done
          BY <2>1, <2>4, PrlMasks DEF Pending, Done
        <4>. QED
          BY <2>4, <4>2, <4>3 DEF HandshakeInv, Waiting
      <3>. QED
        BY <2>4, <3>1 DEF AtHr
    <2>. QED
      BY <2>1, <2>2, <2>3, <2>4
  <1>. QED
    BY <1>1, <1>3, <1>4, <1>5, <1>6, <1>7

\* What strikes a quiet stack is the one thing it then deals with.
LEMMA StrikeAlone ==
    ASSUME TypeInv, QueueInv, HandshakeInv, OneThing, Quiet, PeTimer \/ Outside
    PROVE  OneThing'
  <1>1. /\ ~PeRuns /\ intr = {} /\ status = {} /\ fifo = <<>> /\ phyTx = NULL
        /\ ~phyHardReset /\ pc["RX"] = "WaitPHY" /\ ev["RX"] = {}
        /\ pc["TX"] = "WaitMessage"
        /\ ev["TX"] \cap ({"RESET", "DISCARD", "MSG_TX"} \cup Ends) = {}
        /\ pc["HR"] \in {"ResetLayer", "WaitPE"} /\ ~AtHr
    BY QuietIs
  <1>2. /\ ev \in [Thread -> SUBSET Event] /\ script \in Scripts /\ srcN \in Nat
        /\ pc \in [Thread -> PePc \cup TxPc \cup RxPc \cup HrPc]
        /\ userLeft \subseteq UserEvents /\ Thread = {"TX", "RX", "HR", "PE"}
    BY DEF TypeInv, TypeOK, KernelOK, PcOK, WorldOK, Prl, Thread
  <1>3. ASSUME UNCHANGED <<pc, ev, status, phyTx, phyHardReset, txMsg>>,
               \/ fifo' = <<>> /\ intr' \in {{"I_HARDRST"}, {"I_OVRTEMP"}}
               \/ intr' = {"I_GCRCSENT"} /\ Len(fifo') = 1 /\ fifo'[1].type # "GoodCRC",
               srcLast' # NULL => srcLast'.type # "GoodCRC"
        PROVE  OneThing'
    <2>1. /\ ~Handing' /\ ~Transmitting' /\ ~PeRuns' /\ ~AtHr'
          /\ (Asked' <=> Asked) /\ (Indicated' <=> Indicated) /\ (Waiting' <=> Waiting)
          /\ (Incoming' <=> intr' = {"I_GCRCSENT"})
          /\ (Resetting' <=> intr' = {"I_HARDRST"})
          /\ (Heated' <=> intr' = {"I_OVRTEMP"})
      BY <1>1, <1>3, PeStill
      DEF Handing, Transmitting, AtHr, Asked, Indicated, Waiting, Incoming, Resetting, Heated,
          Carrying, TxPc
    <2>2. Alone'
      BY <1>1, <1>3, <2>1 DEF Alone
    <2>3. ReceptionOK'
      BY <1>1, <1>3, <2>1 DEF ReceptionOK, AtMostOne
    <2>4. TransmissionOK'
      BY <1>1, <1>3, <2>1 DEF OneThing, TransmissionOK, AtMostOne, Ends
    <2>5. ResetOK'
      BY <1>1, <1>3, <2>1 DEF OneThing, ResetOK, AtMostOne, Carrying
    <2>. QED
      BY <2>2, <2>3, <2>4, <2>5 DEF OneThing
  <1>4. ASSUME UNCHANGED <<intr, status, fifo, phyTx, phyHardReset, txMsg, srcLast>>,
               \A t \in {"TX", "RX", "HR"} : pc'[t] = pc[t] /\ ev'[t] = ev[t],
               \/ pc'["PE"] = pc["PE"]
               \/ /\ ev["PE"] \cap {"RESET", "TX_DONE", "TX_ERR"} = {}
                  /\ pc["PE"] # "SourceUnresponsive",
               ev'["PE"] \cap {"RESET", "TX_DONE", "TX_ERR"}
                   = ev["PE"] \cap {"RESET", "TX_DONE", "TX_ERR"}
        PROVE  OneThing'
    <2>1. /\ ~Handing' /\ ~Transmitting' /\ ~AtHr' /\ ~Incoming' /\ ~Resetting' /\ ~Heated'
          /\ (Asked' <=> Asked) /\ (Indicated' <=> Indicated) /\ (Waiting' <=> Waiting)
      BY <1>1, <1>4
      DEF Handing, Transmitting, AtHr, Asked, Indicated, Waiting, Incoming, Resetting, Heated,
          Carrying, TxPc
    <2>2. Alone'
      BY <2>1 DEF Alone, Heated
    <2>3. ReceptionOK'
      BY <1>1, <1>4, <2>1 DEF OneThing, ReceptionOK, AtMostOne
    <2>4. TransmissionOK'
      BY <1>1, <1>4, <2>1 DEF OneThing, TransmissionOK, AtMostOne, Ends
    <2>5. ResetOK'
      BY <1>1, <1>4, <2>1 DEF OneThing, ResetOK, AtMostOne, Carrying, Indicated
    <2>. QED
      BY <2>2, <2>3, <2>4, <2>5 DEF OneThing
  <1>5. CASE PartnerSends
    <2>. DEFINE m == [type |-> script[srcN'],
                      id   |-> IF script[srcN'] = "SoftReset" THEN 0 ELSE srcId,
                      n    |-> srcN']
    <2>1. /\ srcN < Len(script) /\ srcN' = srcN + 1
          /\ fifo' = Append(fifo, m) /\ intr' = intr \cup {"I_GCRCSENT"}
          /\ srcLast' \in {m, NULL}
          /\ UNCHANGED <<pc, ev, status, phyTx, phyHardReset, txMsg>>
      BY <1>5 DEF PartnerSends, Receive, SoftwareStays
    <2>2. script \in Seq(RxType \ {"GoodCRC"})
      BY <1>2, TypeAssumption
    <2>3. srcN' \in 1..Len(script)
      BY <1>2, <2>1, <2>2
    <2>4. script[srcN'] # "GoodCRC"
      BY <2>2, <2>3
    <2>5. m.type # "GoodCRC"
      BY <2>4
    <2>. HIDE DEF m
    <2>6. Len(fifo') = 1 /\ fifo'[1] = m
      BY <1>1, <2>1
    <2>. QED
      BY <1>1, <1>3, <2>1, <2>5, <2>6
  <1>6. CASE PartnerRepeats
    <2>1. /\ srcLast # NULL /\ UNCHANGED <<srcLast, pc, ev, status, phyTx, phyHardReset, txMsg>>
          /\ fifo' = Append(fifo, srcLast) /\ intr' = intr \cup {"I_GCRCSENT"}
      BY <1>6 DEF PartnerRepeats, Receive, SoftwareStays
    <2>2. srcLast.type # "GoodCRC"
      BY <2>1 DEF OneThing, ReceptionOK
    <2>3. Len(fifo') = 1 /\ fifo'[1] = srcLast
      BY <1>1, <2>1
    <2>. QED
      BY <1>1, <1>3, <2>1, <2>2, <2>3
  <1>7. CASE PartnerHardResets \/ OverTemp
    <2>1. /\ UNCHANGED <<fifo, pc, ev, status, phyTx, phyHardReset, txMsg>>
          /\ srcLast' \in {srcLast, NULL}
          /\ intr' \in {intr \cup {"I_HARDRST"}, intr \cup {"I_OVRTEMP"}}
      BY <1>7 DEF PartnerHardResets, OverTemp, SoftwareStays
    <2>. QED
      BY <1>1, <1>3, <2>1 DEF OneThing, ReceptionOK
  <1>8. CASE UserSignals
    <2>1. PICK e \in userLeft : ev' = [ev EXCEPT !["PE"] = @ \cup {e}]
      BY <1>8 DEF UserSignals
    <2>2. e \in {"NEW_POWER", "GET_SOURCE_CAP"}
      BY <1>2, BoundAssumption
    <2>3. ev'["PE"] = ev["PE"] \cup {e} /\ \A t \in {"TX", "RX", "HR"} : ev'[t] = ev[t]
      BY <1>2, <2>1
    <2>. QED
      BY <1>4, <1>8, <2>2, <2>3 DEF UserSignals, SoftwareStays
  <1>9. CASE PeTimer
    <2>1. CASE PpsTimerFires
      <3>1. ev'["PE"] = ev["PE"] \cup {"PPS_REQUEST"}
            /\ \A t \in {"TX", "RX", "HR"} : ev'[t] = ev[t]
        BY <1>2, <2>1 DEF PpsTimerFires
      <3>. QED
        BY <1>4, <2>1, <3>1 DEF PpsTimerFires
    <2>2. CASE ~PpsTimerFires
      <3>1. PICK s \in {"WaitCap", "SelectCap.rsp", "TransitionSink", "SendSoftReset.rsp", "Ready",
                        "ChunkReceived"},
                 r \in {"HardReset", "SelectCap", "SendNotSupported"} :
              TimedOut(s) /\ Goto(r) /\ Leave
        BY <1>9, <2>2
        DEF PeTimer, NoCapabilities, NoReply, NoPsRdy, NoAccept, RequestAgain,
            ChunkingNotSupported, OnTimeout
      <3>2. pc["PE"] = s /\ s \notin TxWaits /\ s \in PeWaits \ {"HardReset.sent"}
            /\ s # "SourceUnresponsive" /\ Pending("PE") = {} /\ UNCHANGED ev
        BY <3>1 DEF TimedOut, At, TxWaits, PeWaits
      <3>3. "RESET" \notin ev["PE"]
        BY <3>2, PeMasks DEF Pending
      <3>4. ev["PE"] \cap {"TX_DONE", "TX_ERR"} = {}
        BY <3>2 DEF OneThing, TransmissionOK
      <3>5. \A t \in {"TX", "RX", "HR"} : pc'[t] = pc[t]
        BY <1>2, <3>1 DEF Goto
      <3>6. UNCHANGED <<intr, status, fifo, phyTx, phyHardReset, txMsg, srcLast>>
        BY <3>1 DEF Leave
      <3>. QED
        BY <1>4, <3>2, <3>3, <3>4, <3>5, <3>6
    <2>. QED
      BY <2>1, <2>2
  <1>. QED
    BY <1>5, <1>6, <1>7, <1>8, <1>9 DEF Outside

-----------------------------------------------------------------------------
(* The theorems about a calm stack.                                        *)

\* Every step of the stack keeps to one thing at a time.
LEMMA StackAlone ==
    ASSUME TypeInv, QueueInv, HandshakeInv, OneThing, Stack
    PROVE  OneThing'
  <1>1. CASE BusDone
    BY <1>1, SameThing DEF BusDone
  <1>. QED
    BY <1>1, PeOfAKind, PeAlone, TxAlone, RxAlone, HrAlone, IntNAlone, ChipAlone DEF Stack

\* The inductive invariant: the stack has been struck while busy, or does one thing at a time.
CalmInv ==
    /\ rushLeft <= MaxRushes
    /\ rushLeft = MaxRushes => OneThing

\* At first the engine runs, and TX is in its first transfer.
LEMMA InitCalm == Init => CalmInv
  <1>. SUFFICES ASSUME Init PROVE CalmInv
    OBVIOUS
  <1>1. /\ pc["PE"] = "Startup" /\ pc["TX"] = "PHYReset" /\ pc["RX"] = "WaitPHY"
        /\ pc["HR"] = "ResetLayer"
        /\ \A t \in Thread : ev[t] = {}
        /\ intr = {} /\ status = {} /\ fifo = <<>> /\ phyTx = NULL /\ txMsg = NULL
        /\ srcLast = NULL
    BY DEF Init
  <1>2. Thread = {"TX", "RX", "HR", "PE"}
    BY DEF Thread, Prl
  <1>3. ~Incoming /\ ~Handing /\ ~Resetting /\ ~AtHr /\ ~Transmitting /\ ~Heated
    BY <1>1, <1>2
    DEF Incoming, Handing, Resetting, AtHr, Asked, Carrying, Transmitting, Heated
  <1>4. Alone
    BY <1>3 DEF Alone, Heated
  <1>5. ReceptionOK
    BY <1>1, <1>2, <1>3 DEF ReceptionOK, AtMostOne
  <1>6. TransmissionOK
    BY <1>1, <1>2, <1>3 DEF TransmissionOK, AtMostOne, Ends
  <1>7. ResetOK
    BY <1>1, <1>2, <1>3 DEF ResetOK, AtMostOne, Indicated, Waiting, Asked, Carrying
  <1>8. rushLeft = MaxRushes /\ MaxRushes \in Nat
    BY BoundAssumption DEF Init
  <1>. QED
    BY <1>4, <1>5, <1>6, <1>7, <1>8 DEF CalmInv, OneThing

\* A calm stack stays calm unless something strikes it while it is busy.
LEMMA NextCalm == TypeInv /\ QueueInv /\ HandshakeInv /\ CalmInv /\ [Next]_vars => CalmInv'
  <1>. SUFFICES ASSUME TypeInv, QueueInv, HandshakeInv, CalmInv, [Next]_vars PROVE CalmInv'
    OBVIOUS
  <1>1. rushLeft \in Nat /\ MaxRushes \in Nat
    BY BoundAssumption DEF TypeInv, TypeOK, WorldOK
  <1>2. CASE Stack /\ UNCHANGED rushLeft
    BY <1>2, StackAlone DEF CalmInv
  <1>3. CASE Strike
    <2>1. CASE Quiet
      BY <1>3, <2>1, StrikeAlone DEF Strike, CalmInv
    <2>2. CASE ~Quiet
      BY <1>1, <1>3, <2>2 DEF Strike, CalmInv
    <2>. QED
      BY <2>1, <2>2
  <1>4. CASE UNCHANGED vars
    BY <1>4, SameThing DEF CalmInv
  <1>. QED
    BY <1>2, <1>3, <1>4 DEF Next

\* So these are invariants.
LEMMA CalmInvariant == Spec => [](TypeInv /\ QueueInv /\ HandshakeInv /\ CalmInv)
  <1>1. QueueInv /\ TypeInv /\ [Next]_vars => QueueInv'
    BY NextQueue
  <1>. QED
    BY HandshakeInvariant, InitType, NextType, InitQueue, <1>1, InitCalm, NextCalm, PTL DEF Spec

\* The scheduler forgets nobody: a thread of the protocol layer whose wait is over is runnable.
THEOREM QueueCorrect == Spec => []QueueInv
  BY CalmInvariant, PTL

\* As long as nothing has struck a busy stack, a message that comes in, the handing over of one, a
\* Hard Reset, a transmission and a step of the engine exclude each other.
THEOREM OneAtATime == Spec => [](rushLeft = MaxRushes => Alone)
  <1>1. CalmInv => (rushLeft = MaxRushes => Alone)
    BY DEF CalmInv, OneThing
  <1>. QED
    BY CalmInvariant, <1>1, PTL

\* When the chip has acknowledged a message, RX reads that one: it meets neither a flushed FIFO
\* nor the GoodCRC meant for TX, as long as nothing has struck a busy stack.
THEOREM RxReadsCorrect == Spec => RxReadsAMessage
  <1>1. ASSUME TypeInv, CalmInv, rushLeft = MaxRushes, pc["RX"] = "Read"
        PROVE  fifo # <<>> /\ fifo[1].type # "GoodCRC"
    <2>1. Incoming /\ ReceptionOK
      BY <1>1 DEF CalmInv, OneThing, Incoming
    <2>2. Len(fifo) = 1 /\ fifo[1].type # "GoodCRC"
      BY <2>1 DEF ReceptionOK
    <2>3. fifo # <<>>
      <3>1. Len(fifo) # Len(<<>>)
        BY <2>2
      <3>. QED
        BY <3>1
    <2>. QED
      BY <2>2, <2>3
  <1>2. TypeInv /\ CalmInv /\ [Next]_vars
        => [rushLeft = MaxRushes /\ pc["RX"] = "Read" /\ pc'["RX"] # "Read"
                => fifo # <<>> /\ fifo[1].type # "GoodCRC"]_vars
    BY <1>1
  <1>. QED
    BY CalmInvariant, <1>2, PTL DEF Spec, RxReadsAMessage

=============================================================================
