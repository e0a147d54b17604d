--------------------------- MODULE PdStackProofs ----------------------------
(***************************************************************************)
(* Theorems about the stack of PdStack, for every value of its constants.  *)
(***************************************************************************)
EXTENDS PdProperties, TLAPS

\* The places in which the policy engine has a Request to send, or has sent one.
Requesting == {"SelectCap", "SelectCap.tx", "SelectCap.rsp", "TransitionSink", "Ready",
               "GetSourceCap", "GetSourceCap.tx", "GiveSinkCap", "GiveSinkCap.tx",
               "SendSoftReset", "SendSoftReset.tx", "SendSoftReset.rsp",
               "SendNotSupported", "SendNotSupported.tx", "ChunkReceived",
               "NotSupportedReceived"}

\* No thread works on a null pointer, and the engine asks for at most
\* PD_N_HARD_RESET_COUNT + 1 Hard Resets.
PointersOK ==
    /\ pc["PE"] \in Requesting => req # NULL
    /\ pc["PE"] \in TxWaits \ {"SelectCap.tx"} => sent # NULL
    /\ pc["TX"] \in {"Construct", "AmsWait", "Send"} => txMsg # NULL
    /\ pc["RX"] # "WaitPHY" => rxMsg # NULL
    /\ pc["PE"] = "HardReset.sent" => hardResets <= PD_N_HARD_RESET_COUNT

TypeInv == TypeOK /\ PointersOK

USE DEF kernelVars, poolVars, dpmVars, ppsVars, peVars, txVars, rxVars, prlVars,
        chipVars, srcVars, worldVars, vars

\* Waking a thread keeps the ready queue a queue of protocol layer threads.
LEMMA WakeType ==
    ASSUME KernelOK, NEW t \in Prl, NEW e \in Event
    PROVE  Wake(t, e) \in Seq(Prl)
  BY DEF KernelOK, Wake

\* Posting a buffer keeps a mailbox a queue of buffers.
LEMMA PostType ==
    ASSUME NEW mail \in Seq(Buf), NEW b \in Buf
    PROVE  Post(mail, b) \in Seq(Buf)
  BY DEF Post

\* Where a message takes the engine is always one of its states.
LEMMA AfterType ==
    /\ \A type : AfterReply(type) \in PePc
    /\ \A type : AfterReady(type) \in PePc
    /\ \A type : AfterSoftReset(type) \in PePc
  <1>1. ASSUME NEW type PROVE AfterReply(type) \in PePc
    BY Zenon DEF AfterReply, PePc, PeEntries, PeWaits
  <1>2. ASSUME NEW type PROVE AfterReady(type) \in PePc
    BY Zenon DEF AfterReady, PePc, PeEntries, PeWaits
  <1>3. ASSUME NEW type PROVE AfterSoftReset(type) \in PePc
    BY Zenon DEF AfterSoftReset, PePc, PeEntries, PeWaits
  <1>. QED
    BY <1>1, <1>2, <1>3

\* Being woken only clears flags.
LEMMA WokenType ==
    ASSUME ev \in [Thread -> SUBSET Event], NEW s, Woken(s)
    PROVE  ev' \in [Thread -> SUBSET Event]
  BY DEF Woken, Thread

\* Going to one of the engine's places keeps every thread at one of its own.
LEMMA PeGotoType ==
    ASSUME PcOK, NEW s \in PePc, Goto(s)
    PROVE  PcOK'
  BY DEF PcOK, Goto, Thread, Prl

\* So does going nowhere.
LEMMA PcUnchanged == PcOK /\ UNCHANGED pc => PcOK'
  BY DEF PcOK

\* The outcomes that most waits share keep the kernel's state well typed.
LEMMA OnResetKernel ==
    ASSUME KernelOK, NEW s, OnReset(s)
    PROVE  KernelOK'
  <1>. "TransitionDefault" \in PePc
    BY DEF PePc, PeEntries
  <1>. QED
    BY WokenType, PeGotoType DEF KernelOK, OnReset, Leave

\* So does handing a message over to be transmitted,
LEMMA TransmitKernel ==
    ASSUME KernelOK, NEW s, NEW type, NEW wait \in PePc, Transmit(s, type, wait)
    PROVE  KernelOK'
  BY WakeType, PeGotoType DEF KernelOK, Transmit, Submit, Thread, Prl, Event

\* and so does freeing it afterwards.
LEMMA AfterTransmitKernel ==
    ASSUME KernelOK, NEW s, NEW done \in PePc, NEW failed \in PePc,
           AfterTransmit(s, done, failed)
    PROVE  KernelOK'
  <1>. "TransitionDefault" \in PePc
    BY DEF PePc, PeEntries
  <1>. QED
    BY WokenType, PeGotoType DEF KernelOK, AfterTransmit

\* Every step of the engine keeps the kernel's state well typed.
LEMMA PeKernel ==
    ASSUME KernelOK, PeNext
    PROVE  KernelOK'
  <1>. USE DEF KernelOK, Leave, PePc, PeWaits, TxWaits, PeEntries, Thread, Prl
  <1>1. CASE Startup
    BY <1>1, PeGotoType DEF Startup
  <1>2. CASE Discovery
    BY <1>2, PeGotoType DEF Discovery
  <1>3. CASE WaitCap
    BY <1>3, OnResetKernel, WokenType, PeGotoType DEF WaitCap
  <1>4. CASE EvalCap
    BY <1>4, PeGotoType DEF EvalCap
  <1>5. CASE SelectCap
    BY <1>5, PeGotoType, WakeType DEF SelectCap, Submit, Event
  <1>6. CASE SelectCapSent
    BY <1>6, OnResetKernel, WokenType, PeGotoType DEF SelectCapSent
  <1>7. CASE SelectCapReply
    BY <1>7, OnResetKernel, WokenType, PeGotoType, AfterType DEF SelectCapReply
  <1>8. CASE TransitionSink
    BY <1>8, OnResetKernel, WokenType, PeGotoType DEF TransitionSink
  <1>9. CASE Ready
    BY <1>9, OnResetKernel, WokenType, PeGotoType, AfterType DEF Ready, ReadyStartAms, ReadyMessage, ReadyStay, SignalTx, Event
  <1>10. CASE GetSourceCap
    BY <1>10, TransmitKernel, AfterTransmitKernel DEF GetSourceCap
  <1>11. CASE GiveSinkCap
    BY <1>11, TransmitKernel, AfterTransmitKernel DEF GiveSinkCap
  <1>12. CASE SoftReset
    BY <1>12, TransmitKernel, AfterTransmitKernel DEF SoftReset
  <1>13. CASE SendSoftReset
    BY <1>13, TransmitKernel, AfterTransmitKernel, OnResetKernel, WokenType, PeGotoType, AfterType DEF SendSoftReset
  <1>14. CASE SendNotSupported
    BY <1>14, TransmitKernel, AfterTransmitKernel DEF SendNotSupported
  <1>15. CASE ChunkReceived
    BY <1>15, OnResetKernel DEF ChunkReceived
  <1>16. CASE NotSupportedReceived
    BY <1>16, PeGotoType DEF NotSupportedReceived
  <1>17. CASE HardReset
    BY <1>17, PeGotoType, WakeType DEF HardReset, SignalHr, Event
  <1>18. CASE HardResetSent
    BY <1>18, WokenType, PeGotoType DEF HardResetSent
  <1>19. CASE TransitionDefault
    BY <1>19, PeGotoType, WakeType DEF TransitionDefault, SignalHr, Event
  <1>20. CASE SourceUnresponsive
    BY <1>20, PcUnchanged DEF SourceUnresponsive
  <1>21. CASE PeAllocFails
    BY <1>21, PcUnchanged DEF PeAllocFails
  <1>. QED
    BY <1>1, <1>2, <1>3, <1>4, <1>5, <1>6, <1>7, <1>8, <1>9, <1>10, <1>11, <1>12, <1>13, <1>14, <1>15, <1>16, <1>17, <1>18, <1>19, <1>20, <1>21 DEF PeNext

\* Freeing a buffer keeps the pool well typed.
LEMMA FreeType ==
    ASSUME PoolOK, NEW b \in Buf, Free(b)
    PROVE  PoolOK'
  BY DEF PoolOK, Free, Freed, Message, Ids

\* So does fetching a message and freeing it, which leaves no pointer to it.
LEMMA FetchAndFreeType ==
    ASSUME PoolOK, PeOK, FetchAndFree
    PROVE  PoolOK' /\ peMail' \in Seq(Buf) /\ peMsg' \in Buf \cup {NULL}
  <1>1. CASE peMail = <<>>
    BY <1>1 DEF PoolOK, PeOK, FetchAndFree
  <1>2. CASE peMail # <<>>
    <2>1. peMail[1] \in Buf /\ Tail(peMail) \in Seq(Buf)
      BY <1>2 DEF PeOK
    <2>. QED
      BY <1>2, <2>1, FreeType DEF FetchAndFree
  <1>. QED
    BY <1>1, <1>2

\* Allocating a message to transmit keeps the pool well typed.
LEMMA TransmitPool ==
    ASSUME PoolOK, NEW s, NEW type \in TxType, NEW wait, Transmit(s, type, wait)
    PROVE  PoolOK' /\ sent' \in Buf
  BY DEF PoolOK, Transmit, Message, Ids

\* Every step of the engine keeps the pool well typed.
LEMMA PePool ==
    ASSUME TypeInv, PeNext
    PROVE  PoolOK'
  <1>. USE DEF TypeInv, TypeOK
  <1>. USE PoolOK DEF Leave
  <1>u. ASSUME UNCHANGED poolVars PROVE PoolOK'
    BY <1>u DEF PoolOK
  <1>1. CASE Startup \/ Discovery \/ SelectCap \/ SelectCapSent \/ ChunkReceived
    BY <1>1, <1>u DEF Startup, Discovery, SelectCap, SelectCapSent, OnReset, ChunkReceived
  <1>2. CASE \/ NotSupportedReceived \/ HardReset \/ HardResetSent \/ TransitionDefault
             \/ SourceUnresponsive \/ PeAllocFails
    BY <1>2, <1>u DEF NotSupportedReceived, HardReset, HardResetSent, TransitionDefault,
                      SourceUnresponsive, PeAllocFails
  <1>3. CASE WaitCap
    <2>1. ASSUME Received # "none" PROVE peMail[1] \in Buf
      BY <2>1 DEF Received, PeOK
    <2>. QED
      BY <1>3, <1>u, <2>1, FreeType, FetchAndFreeType DEF WaitCap, OnReset
  <1>4. CASE EvalCap
    <2>1. PICK b \in Buf :
             \/ pool' = pool \ {b} /\ UNCHANGED content
             \/ /\ pool' = (pool \ {b}) \cup (IF DpmFrees THEN {peMsg} ELSE {})
                /\ content' = [c \in Buf |->
                       IF c = b THEN [type |-> "Request", id |-> 0, n |-> 0]
                       ELSE IF c = peMsg /\ DpmFrees THEN Freed ELSE content[c]]
                /\ peMsg # NULL
      BY <1>4 DEF EvalCap, PoolOK, PeOK
    <2>2. [type |-> "Request", id |-> 0, n |-> 0] \in Message /\ Freed \in Message
      BY DEF Message, TxType, Ids, Freed
    <2>. QED
      BY <2>1, <2>2 DEF PoolOK, PeOK
  <1>5. CASE SelectCapReply
    BY <1>5, <1>u, FetchAndFreeType DEF SelectCapReply, OnReset
  <1>6. CASE TransitionSink
    BY <1>6, <1>u, FetchAndFreeType DEF TransitionSink, OnReset
  <1>7. CASE Ready
    <2>1. CASE ReadyStartAms
      BY <2>1, <1>u, FreeType DEF ReadyStartAms, PeOK
    <2>2. CASE ReadyMessage
      BY <2>2, <1>u, FetchAndFreeType DEF ReadyMessage
    <2>. QED
      BY <1>7, <1>u, <2>1, <2>2 DEF Ready, OnReset
  <1>8. ASSUME NEW s, NEW done, NEW failed, s \in TxWaits \ {"SelectCap.tx"},
               AfterTransmit(s, done, failed)
        PROVE  PoolOK'
    <2>1. sent \in Buf
      BY <1>8 DEF AfterTransmit, Woken, At, PointersOK, PeOK
    <2>. QED
      BY <1>8, <2>1, FreeType DEF AfterTransmit
  <1>9. CASE GetSourceCap \/ GiveSinkCap \/ SoftReset \/ SendNotSupported
    <2>. USE DEF TxWaits, TxType
    <2>. QED
      BY <1>9, <1>8, TransmitPool DEF GetSourceCap, GiveSinkCap, SoftReset, SendNotSupported
  <1>10. CASE SendSoftReset
    BY <1>10, <1>8, <1>u, TransmitPool, FetchAndFreeType
    DEF SendSoftReset, TxWaits, TxType, OnReset
  <1>. QED
    BY <1>1, <1>2, <1>3, <1>4, <1>5, <1>6, <1>7, <1>9, <1>10 DEF PeNext

\* Submitting a buffer keeps TX's mailbox well typed.
LEMMA SubmitType ==
    ASSUME PrlOK, NEW b \in Buf, Submit(b), UNCHANGED <<txMsg, txId, rxVars, hrByPe>>
    PROVE  PrlOK'
  BY PostType DEF PrlOK, Submit

\* Every step of the engine keeps the protocol layer's state well typed.
LEMMA PePrl ==
    ASSUME TypeInv, PeNext
    PROVE  PrlOK'
  <1>. USE DEF TypeInv, TypeOK
  <1>. USE PrlOK DEF Leave
  <1>u. ASSUME UNCHANGED prlVars PROVE PrlOK'
    BY <1>u DEF PrlOK
  <1>1. CASE Startup \/ Discovery \/ WaitCap \/ EvalCap \/ SelectCapSent \/ SelectCapReply
    BY <1>1, <1>u DEF Startup, Discovery, WaitCap, EvalCap, SelectCapSent, SelectCapReply,
                      OnReset
  <1>2. CASE \/ TransitionSink \/ Ready \/ ChunkReceived \/ NotSupportedReceived
    BY <1>2, <1>u DEF TransitionSink, Ready, ReadyStartAms, ReadyMessage, ReadyStay, OnReset,
                      ChunkReceived, NotSupportedReceived
  <1>3. CASE \/ HardReset \/ HardResetSent \/ TransitionDefault \/ SourceUnresponsive
             \/ PeAllocFails
    BY <1>3, <1>u DEF HardReset, HardResetSent, TransitionDefault, SourceUnresponsive,
                      PeAllocFails
  <1>4. CASE SelectCap
    <2>1. req \in Buf
      BY <1>4 DEF SelectCap, At, PointersOK, Requesting, PeOK
    <2>. QED
      BY <1>4, <2>1, SubmitType DEF SelectCap
  <1>5. ASSUME NEW s, NEW type, NEW wait, Transmit(s, type, wait) PROVE PrlOK'
    BY <1>5, SubmitType DEF Transmit, PoolOK
  <1>6. CASE GetSourceCap \/ GiveSinkCap \/ SoftReset \/ SendSoftReset \/ SendNotSupported
    BY <1>6, <1>5, <1>u DEF GetSourceCap, GiveSinkCap, SoftReset, SendSoftReset,
                            SendNotSupported, AfterTransmit, OnReset
  <1>. QED
    BY <1>1, <1>2, <1>3, <1>4, <1>6 DEF PeNext

\* Every step of the engine keeps the engine's own state well typed.
LEMMA PePe ==
    ASSUME TypeInv, PeNext
    PROVE  PeOK'
  <1>. USE DEF TypeInv, TypeOK
  <1>. USE PeOK DEF Leave
  <1>u. ASSUME UNCHANGED peVars PROVE PeOK'
    BY <1>u DEF PeOK
  <1>f. ASSUME FetchAndFree
        PROVE  peMail' \in Seq(Buf) /\ peMsg' \in Buf \cup {NULL}
    BY <1>f, FetchAndFreeType
  <1>h. ASSUME Received # "none" PROVE peMail[1] \in Buf /\ Tail(peMail) \in Seq(Buf)
    BY <1>h DEF Received, PeOK
  <1>1. CASE Startup
    BY <1>1, ZenonT(40) DEF Startup, PeOK
  <1>2. CASE \/ Discovery \/ SelectCap \/ ChunkReceived \/ NotSupportedReceived
             \/ HardReset \/ PeAllocFails
    BY <1>2, <1>u DEF Discovery, SelectCap, ChunkReceived, NotSupportedReceived, HardReset,
                      PeAllocFails, OnReset
  <1>3. CASE WaitCap
    <2>1. ASSUME SourceRev \in {"2.0", "3.0"} PROVE AgreedRev \in {"1.0", "2.0", "3.0"}
      BY <2>1 DEF AgreedRev, PeOK
    <2>2. CASE UNCHANGED peVars
      BY <2>2, <1>u
    <2>3. CASE /\ Received # "none"
               /\ peMail' = Tail(peMail) /\ peMsg' = peMail[1] /\ rev' \in {rev, AgreedRev}
               /\ UNCHANGED <<req, sent, contract, minPower, hardResets, dpmVars, ppsVars>>
      BY <2>1, <2>3, <1>h, TypeAssumption DEF PeOK
    <2>4. CASE /\ FetchAndFree
               /\ UNCHANGED <<req, sent, contract, minPower, hardResets, rev, dpmVars, ppsVars>>
      BY <2>4, <1>f DEF PeOK
    <2>. QED
      BY <1>3, <2>2, <2>3, <2>4 DEF WaitCap, OnReset
  <1>4. CASE EvalCap
    BY <1>4, ZenonT(40) DEF EvalCap, PeOK, PoolOK
  <1>5. CASE SelectCapSent
    BY <1>5, <1>u DEF SelectCapSent, OnReset, PpsPeriodic, PeOK
  <1>6. CASE SelectCapReply
    <2>1. CASE OnReset("SelectCap.rsp")
      BY <2>1, <1>u DEF OnReset
    <2>2. CASE /\ FetchAndFree
               /\ supply' = (IF Received = "Accept" /\ ~(reqPps /\ lastPps) THEN "standby" ELSE supply)
               /\ minPower' = (IF Received \in {"Reject", "Wait"} /\ contract
                               THEN Received = "Wait"
                               ELSE minPower /\ Received # "Accept")
               /\ UNCHANGED <<req, sent, contract, hardResets, rev, tcc, ppsVars>>
      <3>1. supply' \in {supply, "standby"} /\ minPower' \in BOOLEAN
        BY <2>2 DEF PeOK
      <3>. QED
        BY <2>2, <3>1, <1>f DEF PeOK
    <2>. QED
      BY <1>6, <2>1, <2>2 DEF SelectCapReply
  <1>7. CASE TransitionSink
    <2>1. CASE OnReset("TransitionSink")
      BY <2>1, <1>u DEF OnReset
    <2>2. CASE /\ FetchAndFree
               /\ contract' = (contract \/ Received = "PS_RDY")
               /\ supply' \in {supply, "requested", "default"}
               /\ UNCHANGED <<req, sent, minPower, hardResets, rev, tcc, ppsVars>>
      BY <2>2, <1>f DEF PeOK
    <2>. QED
      BY <1>7, <2>1, <2>2 DEF TransitionSink
  <1>8. CASE Ready
    <2>1. CASE ReadyStartAms
      BY <2>1 DEF ReadyStartAms, PeOK
    <2>2. CASE ReadyMessage
      <3>1. peMail' \in Seq(Buf) /\ peMsg' \in Buf \cup {NULL}
        BY <2>2, <1>f, <1>h DEF ReadyMessage
      <3>2. /\ supply' \in {supply, "min"} /\ minPower' \in BOOLEAN
            /\ UNCHANGED <<req, sent, contract, hardResets, rev, tcc, ppsVars>>
        BY <2>2 DEF ReadyMessage, PeOK
      <3>. QED
        BY <3>1, <3>2 DEF PeOK
    <2>. QED
      BY <1>8, <1>u, <2>1, <2>2 DEF Ready, OnReset
  <1>9. ASSUME NEW s, NEW type, NEW wait, Transmit(s, type, wait) PROVE PeOK'
    BY <1>9 DEF Transmit, PeOK, PoolOK
  <1>10. ASSUME NEW s, NEW done, NEW failed, AfterTransmit(s, done, failed) PROVE PeOK'
    BY <1>10 DEF AfterTransmit, PeOK
  <1>11. CASE GetSourceCap \/ GiveSinkCap \/ SoftReset \/ SendNotSupported
    BY <1>11, <1>9, <1>10 DEF GetSourceCap, GiveSinkCap, SoftReset, SendNotSupported
  <1>12. CASE SendSoftReset
    BY <1>12, <1>9, <1>10, <1>u, <1>f DEF SendSoftReset, OnReset, PeOK
  <1>13. CASE HardResetSent
    BY <1>13 DEF HardResetSent, Woken, At, PointersOK, PD_N_HARD_RESET_COUNT, PeOK
  <1>14. CASE TransitionDefault
    BY <1>14 DEF TransitionDefault, PeOK
  <1>15. CASE SourceUnresponsive
    BY <1>15 DEF SourceUnresponsive, PeOK
  <1>. QED
    BY <1>1, <1>2, <1>3, <1>4, <1>5, <1>6, <1>7, <1>8, <1>11, <1>12, <1>13, <1>14, <1>15
    DEF PeNext

\* Going anywhere keeps the pointers if what that place asks for is there.
LEMMA PeGotoPointers ==
    ASSUME PcOK, PointersOK, NEW s \in PePc, Goto(s), UNCHANGED <<txMsg, rxMsg>>,
           s \in Requesting => req' # NULL,
           s \in TxWaits \ {"SelectCap.tx"} => sent' # NULL,
           s = "HardReset.sent" => hardResets' <= PD_N_HARD_RESET_COUNT
    PROVE  PointersOK'
  BY DEF PcOK, PointersOK, Goto, Thread, Prl

\* The entries of state functions that ask nothing of the engine's pointers.
Entrances == {"Startup", "Discovery", "WaitCap", "EvalCap", "HardReset",
              "TransitionDefault", "SoftReset", "SourceUnresponsive"}

\* Going to an entrance keeps the pointers, whatever they are.
LEMMA PeEntrances ==
    ASSUME PcOK, PointersOK, NEW s \in Entrances, Goto(s), UNCHANGED <<txMsg, rxMsg>>
    PROVE  PointersOK'
  BY PeGotoPointers DEF Entrances, Requesting, TxWaits, PePc, PeWaits, PeEntries

\* The places of a Request that wait for no message of their own and no Hard Reset.
Standing == Requesting \ (TxWaits \ {"SelectCap.tx"})

\* Going to one of those keeps the pointers if there is a Request.
LEMMA PeStanding ==
    ASSUME PcOK, PointersOK, NEW s \in Standing, Goto(s), req' # NULL,
           UNCHANGED <<txMsg, rxMsg>>
    PROVE  PointersOK'
  BY PeGotoPointers DEF Standing, Requesting, TxWaits, PePc, PeWaits, PeEntries

\* Where a message takes the engine asks for a Request at most.
LEMMA AfterStanding ==
    /\ \A type : AfterReply(type) \in Entrances \cup Standing
    /\ \A type : AfterReady(type) \in Entrances \cup Standing
    /\ \A type : AfterSoftReset(type) \in Entrances \cup Standing
  <1>. USE DEF Entrances, Standing, Requesting, TxWaits
  <1>1. ASSUME NEW type PROVE AfterReply(type) \in Entrances \cup Standing
    BY Zenon DEF AfterReply
  <1>2. ASSUME NEW type PROVE AfterReady(type) \in Entrances \cup Standing
    BY Zenon DEF AfterReady
  <1>3. ASSUME NEW type PROVE AfterSoftReset(type) \in Entrances \cup Standing
    BY Zenon DEF AfterSoftReset
  <1>. QED
    BY <1>1, <1>2, <1>3

\* Every step of the engine keeps the pointers that the next one follows.
LEMMA PePointers ==
    ASSUME TypeInv, PeNext
    PROVE  PointersOK'
  <1>. USE DEF TypeInv, TypeOK, KernelOK
  <1>. USE PcOK, PointersOK DEF Leave
  <1>e. ASSUME NEW s \in Entrances, Goto(s), UNCHANGED <<txMsg, rxMsg>> PROVE PointersOK'
    BY <1>e, PeEntrances
  <1>s. ASSUME NEW s \in Standing, Goto(s), req' # NULL, UNCHANGED <<txMsg, rxMsg>>
        PROVE  PointersOK'
    BY <1>s, PeStanding
  <1>a. ASSUME NEW s \in Requesting, At(s) PROVE req # NULL
    BY <1>a DEF At, PointersOK
  <1>r. ASSUME NEW s, OnReset(s) PROVE PointersOK'
    BY <1>r, <1>e DEF OnReset, Entrances
  <1>1. CASE \/ Startup \/ Discovery \/ HardResetSent \/ TransitionDefault \/ ChunkReceived
    BY <1>1, <1>e, <1>r DEF Startup, Discovery, HardResetSent, TransitionDefault,
                            ChunkReceived, Entrances
  <1>2. CASE WaitCap
    BY <1>2, <1>e, <1>r DEF WaitCap, Entrances
  <1>3. CASE EvalCap
    <2>1. req' # NULL
      BY <1>3, BufAssumption DEF EvalCap, PoolOK, PeOK
    <2>. QED
      BY <1>3, <2>1, <1>s DEF EvalCap, Standing, Requesting, TxWaits
  <1>4. CASE SelectCap
    <2>1. req' # NULL
      BY <1>4, <1>a DEF SelectCap, Requesting
    <2>. QED
      BY <1>4, <2>1, <1>s DEF SelectCap, Standing, Requesting, TxWaits
  <1>5. CASE SelectCapSent
    <2>1. ASSUME Woken("SelectCap.tx") PROVE req # NULL
      BY <2>1, <1>a DEF Woken, Requesting
    <2>. QED
      BY <1>5, <2>1, <1>s, <1>e, <1>r
      DEF SelectCapSent, Standing, Requesting, TxWaits, Entrances
  <1>6. CASE SelectCapReply
    <2>1. ASSUME Woken("SelectCap.rsp") PROVE req # NULL
      BY <2>1, <1>a DEF Woken, Requesting
    <2>. QED
      BY <1>6, <2>1, <1>s, <1>e, <1>r, AfterStanding DEF SelectCapReply
  <1>7. CASE TransitionSink
    <2>1. ASSUME Woken("TransitionSink") PROVE req # NULL
      BY <2>1, <1>a DEF Woken, Requesting
    <2>. QED
      BY <1>7, <2>1, <1>s, <1>e, <1>r
      DEF TransitionSink, Standing, Requesting, TxWaits, Entrances
  <1>8. CASE Ready
    <2>1. ASSUME At("Ready") PROVE req # NULL
      BY <2>1, <1>a DEF Requesting
    <2>2. CASE ReadyStartAms
      BY <2>1, <2>2, <1>s, <1>e
      DEF ReadyStartAms, ReadyStay, Standing, Requesting, TxWaits, Entrances
    <2>3. CASE ReadyMessage
      BY <2>1, <2>3, <1>s, <1>e, AfterStanding DEF ReadyMessage, ReadyStay, Woken
    <2>. QED
      BY <1>8, <1>e, <1>r, <2>2, <2>3 DEF Ready, Entrances
  <1>9. ASSUME NEW s, NEW type, NEW wait \in TxWaits, Transmit(s, type, wait),
               wait \in Requesting => req # NULL
        PROVE  PointersOK'
    <2>1. sent' # NULL
      BY <1>9, BufAssumption DEF Transmit, PoolOK
    <2>. QED
      BY <1>9, <2>1, PeGotoPointers DEF Transmit, PePc, PeWaits, TxWaits
  <1>10. ASSUME NEW s, NEW done \in Entrances \cup Standing,
                NEW failed \in Entrances \cup Standing, AfterTransmit(s, done, failed),
                {done, failed} \cap Standing # {} => req # NULL
         PROVE  PointersOK'
    <2>1. "TransitionDefault" \in Entrances
      BY DEF Entrances
    <2>. QED
      BY <1>10, <2>1, <1>s, <1>e DEF AfterTransmit
  <1>11. CASE GetSourceCap
    <2>1. ASSUME NEW s \in {"GetSourceCap", "GetSourceCap.tx"}, At(s) PROVE req # NULL
      BY <2>1, <1>a DEF Requesting
    <2>. QED
      BY <1>11, <2>1, <1>9, <1>10
      DEF GetSourceCap, Transmit, AfterTransmit, Woken, TxWaits, Entrances, Standing, Requesting
  <1>12. CASE GiveSinkCap
    <2>1. ASSUME NEW s \in {"GiveSinkCap", "GiveSinkCap.tx"}, At(s) PROVE req # NULL
      BY <2>1, <1>a DEF Requesting
    <2>. QED
      BY <1>12, <2>1, <1>9, <1>10
      DEF GiveSinkCap, Transmit, AfterTransmit, Woken, TxWaits, Entrances, Standing, Requesting
  <1>13. CASE SoftReset
    BY <1>13, <1>9, <1>10 DEF SoftReset, TxWaits, Entrances, Standing, Requesting
  <1>14. CASE SendSoftReset
    <2>1. ASSUME NEW s \in {"SendSoftReset", "SendSoftReset.tx", "SendSoftReset.rsp"}, At(s)
          PROVE  req # NULL
      BY <2>1, <1>a DEF Requesting
    <2>2. CASE Transmit("SendSoftReset", "SoftReset", "SendSoftReset.tx")
      BY <2>1, <2>2, <1>9 DEF Transmit, TxWaits
    <2>3. CASE AfterTransmit("SendSoftReset.tx", "SendSoftReset.rsp", "HardReset")
      BY <2>1, <2>3, <1>10 DEF AfterTransmit, Woken, TxWaits, Entrances, Standing, Requesting
    <2>. QED
      BY <1>14, <2>1, <2>2, <2>3, <1>r, <1>s, <1>e, AfterStanding DEF SendSoftReset, Woken
  <1>15. CASE SendNotSupported
    <2>1. ASSUME NEW s \in {"SendNotSupported", "SendNotSupported.tx"}, At(s) PROVE req # NULL
      BY <2>1, <1>a DEF Requesting
    <2>. QED
      BY <1>15, <2>1, <1>9, <1>10
      DEF SendNotSupported, Transmit, AfterTransmit, Woken, TxWaits, Entrances, Standing,
          Requesting
  <1>16. CASE NotSupportedReceived
    <2>1. req' # NULL
      BY <1>16, <1>a DEF NotSupportedReceived, Requesting
    <2>. QED
      BY <1>16, <2>1, <1>s DEF NotSupportedReceived, Standing, Requesting, TxWaits
  <1>17. CASE HardReset
    <2>1. CASE hardResets > PD_N_HARD_RESET_COUNT
      BY <1>17, <2>1, <1>e DEF HardReset, Entrances, PeOK, PD_N_HARD_RESET_COUNT
    <2>2. CASE hardResets <= PD_N_HARD_RESET_COUNT
      BY <1>17, <2>2, PeGotoPointers
      DEF HardReset, PeOK, PD_N_HARD_RESET_COUNT, PePc, PeWaits, Requesting, TxWaits
    <2>. QED
      BY <2>1, <2>2 DEF PeOK, PD_N_HARD_RESET_COUNT
  <1>18. CASE SourceUnresponsive \/ PeAllocFails
    BY <1>18 DEF SourceUnresponsive, PeAllocFails, PointersOK
  <1>. QED
    BY <1>1, <1>2, <1>3, <1>4, <1>5, <1>6, <1>7, <1>8, <1>11, <1>12, <1>13, <1>14, <1>15,
       <1>16, <1>17, <1>18
    DEF PeNext

\* What lies outside the stack is well typed when only the count of rushes changes.
LEMMA WorldUnchanged == WorldOK /\ UNCHANGED worldVars /\ rushLeft' \in Nat => WorldOK'
  BY DEF WorldOK

\* Every step of the engine leaves what lies outside the stack alone.
LEMMA PeWorld ==
    ASSUME PeNext \/ PeTimer
    PROVE  UNCHANGED worldVars
  <1>. USE DEF Leave, OnReset, OnTimeout, Transmit, AfterTransmit
  <1>1. CASE \/ Startup \/ Discovery \/ WaitCap \/ EvalCap \/ SelectCap \/ SelectCapSent
             \/ SelectCapReply \/ TransitionSink \/ Ready
    BY <1>1 DEF Startup, Discovery, WaitCap, EvalCap, SelectCap, SelectCapSent,
                SelectCapReply, TransitionSink, Ready, ReadyStartAms, ReadyMessage, ReadyStay
  <1>2. CASE \/ GetSourceCap \/ GiveSinkCap \/ SoftReset \/ SendSoftReset
             \/ SendNotSupported \/ ChunkReceived \/ NotSupportedReceived
    BY <1>2 DEF GetSourceCap, GiveSinkCap, SoftReset, SendSoftReset, SendNotSupported,
                ChunkReceived, NotSupportedReceived
  <1>3. CASE \/ HardReset \/ HardResetSent \/ TransitionDefault \/ SourceUnresponsive
             \/ PeAllocFails
    BY <1>3 DEF HardReset, HardResetSent, TransitionDefault, SourceUnresponsive, PeAllocFails
  <1>4. CASE PeTimer
    BY <1>4 DEF PeTimer, NoCapabilities, NoReply, NoPsRdy, NoAccept, RequestAgain,
                ChunkingNotSupported, PpsTimerFires
  <1>. QED
    BY <1>1, <1>2, <1>3, <1>4 DEF PeNext

\* Every step of the engine keeps the whole type invariant.
LEMMA PeType ==
    ASSUME TypeInv, PeNext, rushLeft' \in Nat
    PROVE  TypeInv'
  BY PeKernel, PePool, PePe, PePrl, PeWorld, WorldUnchanged, PePointers DEF TypeInv, TypeOK

\* So does every timer.
LEMMA TimerType ==
    ASSUME TypeInv, PeTimer, rushLeft' \in Nat
    PROVE  TypeInv'
  <1>. USE DEF TypeInv, TypeOK
  <1>1. WorldOK'
    BY PeWorld, WorldUnchanged
  <1>2. ASSUME NEW s \in PePc, s \in Entrances \cup Standing, Goto(s), UNCHANGED ev, Leave,
               s \in Standing => req # NULL
        PROVE  TypeInv'
    <2>1. KernelOK'
      BY <1>2, PeGotoType DEF KernelOK, Leave
    <2>2. PoolOK' /\ PeOK' /\ PrlOK'
      BY <1>2 DEF Leave, PoolOK, PeOK, PrlOK
    <2>3. PointersOK'
      BY <1>2, PeEntrances, PeStanding DEF KernelOK, Leave
    <2>. QED
      BY <1>1, <2>1, <2>2, <2>3
  <1>3. CASE NoCapabilities \/ NoReply \/ NoPsRdy \/ NoAccept
    BY <1>3, <1>2 DEF NoCapabilities, NoReply, NoPsRdy, NoAccept, OnTimeout, TimedOut,
                      Entrances, Standing, Requesting, TxWaits, PePc, PeEntries
  <1>4. CASE RequestAgain \/ ChunkingNotSupported
    <2>1. req # NULL
      BY <1>4 DEF RequestAgain, ChunkingNotSupported, TimedOut, At, PointersOK, Requesting
    <2>. QED
      BY <1>4, <2>1, <1>2 DEF RequestAgain, ChunkingNotSupported, TimedOut, Standing,
                              Requesting, TxWaits, PePc, PeEntries
  <1>5. CASE PpsTimerFires
    <2>1. KernelOK'
      BY <1>5 DEF PpsTimerFires, KernelOK, PcOK, Thread, Event
    <2>2. PoolOK' /\ PrlOK'
      BY <1>5 DEF PpsTimerFires, PoolOK, PrlOK
    <2>4. PeOK'
      BY <1>5, ZenonT(40) DEF PpsTimerFires, PeOK
    <2>3. PointersOK'
      BY <1>5 DEF PpsTimerFires, PointersOK
    <2>. QED
      BY <1>1, <2>1, <2>2, <2>3, <2>4
  <1>. QED
    BY <1>3, <1>4, <1>5 DEF PeTimer

-----------------------------------------------------------------------------
(* The threads of the protocol layer.                                      *)

\* Going to one of TX's places keeps every thread at one of its own.
LEMMA TxGotoType ==
    ASSUME PcOK, NEW s \in TxPc, pc' = [pc EXCEPT !["TX"] = s]
    PROVE  PcOK' /\ pc'["TX"] = s /\ pc'["PE"] = pc["PE"] /\ pc'["RX"] = pc["RX"]
  BY DEF PcOK, Thread, Prl

\* The tail of a queue is a queue of the same elements.
LEMMA TailType ==
    ASSUME ready \in Seq(Prl), NEW t, Runs(t)
    PROVE  Tail(ready) \in Seq(Prl)
  BY DEF Runs

\* Starting a transfer keeps the kernel's state well typed.
LEMMA StartI2CType ==
    ASSUME KernelOK, NEW t \in Prl, NEW s, Runs(t), StartI2C(t, s)
    PROVE  /\ pc' = [pc EXCEPT ![t] = s]
           /\ ready' \in Seq(Prl) /\ bus' \in Seq(Prl)
  BY TailType DEF KernelOK, StartI2C

\* A thread that blocks keeps the whole type invariant.
LEMMA BlockType ==
    ASSUME TypeInv, NEW t, Block(t), rushLeft' \in Nat
    PROVE  TypeInv'
  <1>. USE DEF TypeInv, TypeOK
  <1>1. KernelOK'
    BY TailType, PcUnchanged DEF Block, KernelOK
  <1>2. WorldOK'
    BY WorldUnchanged DEF Block
  <1>3. PoolOK' /\ PrlOK'
    BY DEF Block, PoolOK, PrlOK
  <1>4. PeOK'
    BY DEF Block, PeOK
  <1>5. PointersOK'
    BY DEF Block, PointersOK
  <1>. QED
    BY <1>1, <1>2, <1>3, <1>4, <1>5

\* How a step of the TX thread can change the kernel's state.
LEMMA TxKernel ==
    ASSUME KernelOK, NEW s \in TxPc, pc' = [pc EXCEPT !["TX"] = s],
           ev' \in [Thread -> SUBSET Event], ready' \in Seq(Prl), bus' \in Seq(Prl),
           fault' \in BOOLEAN
    PROVE  KernelOK'
  BY TxGotoType DEF KernelOK

\* The rest of the type invariant only sees the TX thread's own variables.
LEMMA TxPointers ==
    ASSUME KernelOK, PointersOK, NEW s \in TxPc, pc' = [pc EXCEPT !["TX"] = s],
           UNCHANGED <<req, sent, rxMsg, hardResets>>,
           s \in {"Construct", "AmsWait", "Send"} => txMsg' # NULL
    PROVE  PointersOK'
  BY TxGotoType DEF KernelOK, PointersOK

\* Clearing flags keeps them flags.
LEMMA ClearType ==
    ASSUME ev \in [Thread -> SUBSET Event], NEW E
    PROVE  [ev EXCEPT !["TX"] = @ \ E] \in [Thread -> SUBSET Event]
  BY DEF Thread

\* A step of the TX thread, conjunct by conjunct.
TxStepOK(s) ==
    /\ pc' = [pc EXCEPT !["TX"] = s]
    /\ ev' \in [Thread -> SUBSET Event] /\ ready' \in Seq(Prl) /\ bus' \in Seq(Prl)
    /\ fault' \in BOOLEAN
    /\ PoolOK'
    /\ txMsg' \in Buf \cup {NULL} /\ txMail' \in Seq(Buf) /\ txId' \in Ids
    /\ s \in {"Construct", "AmsWait", "Send"} => txMsg' # NULL
    /\ fifo' \in Seq(Message) /\ phyTx' \in Message \cup {NULL} /\ intr' \subseteq Interrupt
    /\ UNCHANGED <<peVars, rxVars, hrByPe, status, phyHardReset, srcVars>>

\* A step of TX keeps the type invariant if it keeps these parts of it.
LEMMA TxStepType ==
    ASSUME TypeInv, NEW s \in TxPc, TxStepOK(s), rushLeft' \in Nat
    PROVE  TypeInv'
  <1>. USE DEF TypeInv, TypeOK
  <1>1. KernelOK'
    BY TxKernel DEF TxStepOK
  <1>2. PointersOK'
    BY TxPointers DEF TxStepOK
  <1>3. PeOK'
    BY DEF TxStepOK, PeOK
  <1>4. PrlOK'
    BY DEF TxStepOK, PrlOK
  <1>5. WorldOK'
    BY DEF TxStepOK, WorldOK
  <1>. QED
    BY <1>1, <1>2, <1>3, <1>4, <1>5 DEF TxStepOK

\* MessageIDs come round to MessageIDs.
LEMMA NextIdType == \A i \in Ids : (i + 1) % 8 \in Ids
  BY DEF Ids

\* Reporting an outcome keeps the kernel's state and TX's message well typed.
LEMMA ReportType ==
    ASSUME ev \in [Thread -> SUBSET Event], NEW e \in Event, NEW E, Report(e, E)
    PROVE  /\ ev' \in [Thread -> SUBSET Event] /\ txMsg' = NULL
           /\ pc' = [pc EXCEPT !["TX"] = "WaitMessage"]
  BY DEF Report, TxGoto, Thread, Prl

\* Every step of TX keeps the type invariant.
LEMMA TxThreadType ==
    ASSUME TypeInv, TxNext, rushLeft' \in Nat
    PROVE  TypeInv'
  <1>. USE DEF TypeInv, TypeOK, KernelOK, PrlOK
  <1>p. ASSUME UNCHANGED poolVars PROVE PoolOK'
    BY <1>p DEF PoolOK
  <1>w. /\ fifo \in Seq(Message) /\ phyTx \in Message \cup {NULL}
        /\ Tail(fifo) \in Seq(Message) \/ fifo = <<>>
        /\ intr \subseteq Interrupt
    BY DEF WorldOK
  <1>g. ASSUME NEW evt, NEW cleared, GiveUp(evt, cleared), Runs("TX")
        PROVE  TxStepOK("PHYReset")
    <2>1. StartI2C("TX", "PHYReset") /\ txId' \in Ids
      BY <1>g, NextIdType DEF GiveUp, DiscardMessage
    <2>2. ev' \in [Thread -> SUBSET Event]
      BY <1>g, ClearType DEF GiveUp, TxClear
    <2>. QED
      BY <1>g, <1>p, <1>w, <2>1, <2>2, StartI2CType DEF GiveUp, TxFrame, TxStepOK, Prl
  <1>1. CASE PHYReset
    <2>0. fifo' \in Seq(Message) /\ phyTx' \in Message \cup {NULL} /\ intr' \subseteq Interrupt
      <3>1. CASE fifo' = <<>> /\ UNCHANGED intr
        BY <1>1, <1>w, <3>1 DEF PHYReset, FusbReset
      <3>2. CASE /\ phyTx # NULL
                 /\ fifo' = <<[type |-> "GoodCRC", id |-> phyTx.id, n |-> 0]>>
                 /\ intr' = intr \cup {"I_TXSENT"}
        <4>1. [type |-> "GoodCRC", id |-> phyTx.id, n |-> 0] \in Message
          BY <1>w, <3>2 DEF Message, RxType
        <4>. QED
          BY <1>1, <1>w, <3>2, <4>1 DEF PHYReset, FusbReset, Interrupt
      <3>. QED
        BY <1>1, <3>1, <3>2 DEF PHYReset, FusbReset
    <2>1. TxStepOK("WaitMessage")
      BY <1>1, <1>p, <2>0, ReportType
      DEF PHYReset, FusbReset, TxGoto, TxFrame, TxStepOK, Event
    <2>. QED
      BY <2>1, TxStepType DEF TxPc
  <1>2. CASE WaitMessage
    <2>1. ASSUME GiveUp(Pending("TX"), Mask["WaitMessage"]) PROVE TypeInv'
      BY <1>2, <2>1, <1>g, TxStepType DEF WaitMessage, TxRuns, TxPc
    <2>2. ASSUME Len(txMail) > 0, FetchMessage, TxGoto("Construct"),
                 txId' \in Ids, UNCHANGED <<bus, content, chipVars>>, TxFrame,
                 ev' \in [Thread -> SUBSET Event], ready' \in Seq(Prl)
          PROVE  TypeInv'
      <3>1. txMsg' \in Buf /\ txMail' \in Seq(Buf)
        BY <2>2 DEF FetchMessage
      <3>2. TxStepOK("Construct")
        BY <2>2, <3>1, <1>p, <1>w, BufAssumption DEF TxGoto, TxFrame, TxStepOK
      <3>. QED
        BY <3>2, TxStepType DEF TxPc
    <2>3. /\ TxClear({"MSG_TX"}) => ev' \in [Thread -> SUBSET Event]
          /\ ev' = [ev EXCEPT !["TX"] = @ \ {"MSG_TX"}, !["RX"] = @ \cup {"RESET"}]
                => ev' \in [Thread -> SUBSET Event]
      BY DEF TxClear, Thread, Prl, Event
    <2>4. ASSUME ready' = Append(Tail(Wake("RX", "RESET")), "TX")
          PROVE  ready' \in Seq(Prl)
      <3>1. Wake("RX", "RESET") \in Seq(Prl)
        BY WakeType DEF Prl, Event
      <3>2. Wake("RX", "RESET") # <<>>
        BY <1>2 DEF WaitMessage, TxRuns, Runs, Wake
      <3>. QED
        BY <2>4, <3>1, <3>2 DEF Prl
    <2>5. ready \in Seq(Prl) /\ txId \in Ids /\ 0 \in Ids
      BY DEF Ids
    <2>. HIDE DEF TypeInv, TypeOK, KernelOK, PrlOK
    <2>6. ASSUME Len(txMail) > 0, FetchMessage, TxGoto("Construct"),
                 UNCHANGED <<bus, content, chipVars>>, TxFrame
          PROVE  \/ /\ txId' = 0
                    /\ ev' = [ev EXCEPT !["TX"] = @ \ {"MSG_TX"}, !["RX"] = @ \cup {"RESET"}]
                    /\ ready' = Append(Tail(Wake("RX", "RESET")), "TX")
                 \/ TxClear({"MSG_TX"}) /\ UNCHANGED <<txId, ready>>
                 => TypeInv'
      <3>1. ASSUME txId' = 0,
                   ev' = [ev EXCEPT !["TX"] = @ \ {"MSG_TX"}, !["RX"] = @ \cup {"RESET"}],
                   ready' = Append(Tail(Wake("RX", "RESET")), "TX")
            PROVE  TypeInv'
        <4>1. txId' \in Ids
          BY <3>1, <2>5
        <4>. QED
          BY <2>6, <2>2, <2>3, <2>4, <3>1, <4>1
      <3>2. ASSUME TxClear({"MSG_TX"}), UNCHANGED <<txId, ready>>
            PROVE  TypeInv'
        <4>1. txId' \in Ids /\ ready' \in Seq(Prl)
          BY <3>2, <2>5
        <4>. QED
          BY <2>6, <2>2, <2>3, <3>2, <4>1
      <3>. QED
        BY <3>1, <3>2
    <2>. QED
      BY <1>2, <2>1, <2>6 DEF WaitMessage
  <1>3. CASE ConstructMessage
    <2>1. ASSUME GiveUp(ev["TX"] \cap {"RESET", "DISCARD"}, {"RESET", "DISCARD"})
          PROVE  TypeInv'
      BY <1>3, <2>1, <1>g, TxStepType DEF ConstructMessage, TxRuns, TxPc
    <2>2. ASSUME NumberMessage, ev' \in [Thread -> SUBSET Event], NEW s \in {"AmsWait", "Send"},
                 (TxGoto(s) /\ ready' = Tail(ready) /\ UNCHANGED bus) \/ StartI2C("TX", s),
                 UNCHANGED <<pool, peVars, txVars, rxVars, hrByPe, worldVars>>
          PROVE  TypeInv'
      <3>1. txMsg # NULL
        BY <1>3 DEF ConstructMessage, TxRuns, PointersOK
      <3>2. fault' \in BOOLEAN
        BY <2>2 DEF NumberMessage
      <3>3. PoolOK'
        <4>1. content' \in [Buf -> Message]
          BY <2>2, <3>1, ZenonT(40) DEF NumberMessage, PoolOK, Message
        <4>. QED
          BY <2>2, <4>1 DEF PoolOK
      <3>4. /\ pc' = [pc EXCEPT !["TX"] = s]
            /\ ready' \in Seq(Prl) /\ bus' \in Seq(Prl)
        BY <1>3, <2>2, TailType, StartI2CType DEF ConstructMessage, TxRuns, TxGoto, Prl
      <3>5. TxStepOK(s)
        BY <2>2, <3>1, <3>2, <3>3, <3>4, <1>w DEF TxStepOK
      <3>. QED
        BY <3>5, TxStepType DEF TxPc
    <2>3. ev' \in [Thread -> SUBSET Event]
      BY <1>3, ClearType DEF ConstructMessage, GiveUp, TxClear
    <2>. QED
      BY <1>3, <2>1, <2>2, <2>3 DEF ConstructMessage
  <1>4. CASE AmsGranted
    <2>1. txMsg # NULL
      BY <1>4 DEF AmsGranted, PointersOK
    <2>2. TxStepOK("Send")
      BY <1>4, <2>1, <1>p, <1>w DEF AmsGranted, TxGoto, TxStepOK, Prl
    <2>. QED
      BY <2>2, TxStepType DEF TxPc
  <1>5. CASE SendMessage
    <2>1. txMsg \in Buf
      BY <1>5 DEF SendMessage, TxRuns, PointersOK
    <2>2. TxStepOK("WaitResponse")
      BY <1>5, <2>1, <1>p, <1>w DEF SendMessage, FusbSendMessage, TxGoto, TxFrame, TxStepOK,
                                     PoolOK
    <2>. QED
      BY <2>2, TxStepType DEF TxPc
  <1>6. CASE WaitResponse
    <2>1. ASSUME GiveUp(Pending("TX"), Mask["WaitResponse"]) PROVE TypeInv'
      BY <1>6, <2>1, <1>g, TxStepType DEF WaitResponse, TxRuns, TxPc
    <2>2. ASSUME TxClear(Mask["WaitResponse"]), StartI2C("TX", "MatchMessageID"),
                 UNCHANGED <<content, txVars, chipVars>>, TxFrame
          PROVE  TypeInv'
      <3>1. ev' \in [Thread -> SUBSET Event]
        BY <2>2, ClearType DEF TxClear
      <3>2. TxStepOK("MatchMessageID")
        BY <1>6, <2>2, <3>1, <1>p, <1>w, StartI2CType
        DEF WaitResponse, TxRuns, TxFrame, TxStepOK, Prl
      <3>. QED
        BY <3>2, TxStepType DEF TxPc
    <2>3. ASSUME Report("TX_ERR", {"I_RETRYFAIL"}), txId' = (txId + 1) % 8,
                 UNCHANGED <<ready, bus, content, txMail, chipVars>>, TxFrame
          PROVE  TypeInv'
      <3>1. TxStepOK("WaitMessage")
        BY <2>3, <1>p, <1>w, ReportType, NextIdType DEF TxFrame, TxStepOK, Event
      <3>. QED
        BY <3>1, TxStepType DEF TxPc
    <2>. QED
      BY <1>6, <2>1, <2>2, <2>3 DEF WaitResponse
  <1>7. CASE MatchMessageID
    <2>1. fifo' \in Seq(Message)
      BY <1>7, <1>w DEF MatchMessageID, FusbReadMessage
    <2>2. PICK e \in {"TX_DONE", "TX_ERR"} : Report(e, {})
      BY <1>7 DEF MatchMessageID
    <2>3. TxStepOK("WaitMessage")
      BY <1>7, <2>1, <2>2, <1>p, <1>w, ReportType, NextIdType
      DEF MatchMessageID, FusbReadMessage, TxFrame, TxStepOK, Event
    <2>. QED
      BY <2>3, TxStepType DEF TxPc
  <1>8. CASE Block("TX")
    BY <1>8, BlockType
  <1>. QED
    BY <1>1, <1>2, <1>3, <1>4, <1>5, <1>6, <1>7, <1>8 DEF TxNext

\* Going to one of RX's places keeps every thread at one of its own.
LEMMA RxGotoType ==
    ASSUME PcOK, NEW s \in RxPc, pc' = [pc EXCEPT !["RX"] = s]
    PROVE  PcOK' /\ pc'["RX"] = s /\ pc'["PE"] = pc["PE"] /\ pc'["TX"] = pc["TX"]
  BY DEF PcOK, Thread, Prl

\* A step of the RX thread, conjunct by conjunct.
RxStepOK(s) ==
    /\ pc' = [pc EXCEPT !["RX"] = s]
    /\ ev' \in [Thread -> SUBSET Event] /\ ready' \in Seq(Prl) /\ bus' \in Seq(Prl)
    /\ PoolOK'
    /\ peMail' \in Seq(Buf)
    /\ txId' \in Ids /\ rxMsg' \in Buf \cup {NULL} /\ rxId' \in Ids \cup {-1}
    /\ lastSeen' \in Nat
    /\ s # "WaitPHY" => rxMsg' # NULL
    /\ fifo' \in Seq(Message)
    /\ UNCHANGED <<fault, peMsg, req, sent, contract, minPower, hardResets, rev, dpmVars,
                   ppsVars, txMsg, txMail, hrByPe, status, intr, phyTx, phyHardReset,
                   srcVars>>

\* A step of RX keeps the type invariant if it keeps these parts of it.
LEMMA RxStepType ==
    ASSUME TypeInv, NEW s \in RxPc, RxStepOK(s), rushLeft' \in Nat
    PROVE  TypeInv'
  <1>. USE DEF TypeInv, TypeOK
  <1>1. KernelOK'
    BY RxGotoType DEF RxStepOK, KernelOK
  <1>2. PointersOK'
    BY RxGotoType DEF RxStepOK, KernelOK, PointersOK
  <1>3. PeOK'
    BY DEF RxStepOK, PeOK
  <1>4. PrlOK'
    BY DEF RxStepOK, PrlOK
  <1>5. WorldOK'
    BY DEF RxStepOK, WorldOK
  <1>. QED
    BY <1>1, <1>2, <1>3, <1>4, <1>5 DEF RxStepOK

\* Telling TX and yielding keeps the kernel's state well typed.
LEMMA TellTxType ==
    ASSUME KernelOK, NEW e \in Event, NEW s, Runs("RX"), TellTxAndYield(e, s)
    PROVE  /\ pc' = [pc EXCEPT !["RX"] = s]
           /\ ev' \in [Thread -> SUBSET Event] /\ ready' \in Seq(Prl)
  <1>1. Wake("TX", e) \in Seq(Prl)
    BY WakeType DEF Prl
  <1>2. Wake("TX", e) # <<>>
    BY DEF Runs, Wake
  <1>. QED
    BY <1>1, <1>2 DEF TellTxAndYield, RxGoto, KernelOK, Thread, Prl

\* Every step of RX keeps the type invariant.
LEMMA RxThreadType ==
    ASSUME TypeInv, RxNext, rushLeft' \in Nat
    PROVE  TypeInv'
  <1>. USE DEF TypeInv, TypeOK, KernelOK, PrlOK
  <1>p. ASSUME UNCHANGED poolVars PROVE PoolOK'
    BY <1>p DEF PoolOK
  <1>w. fifo \in Seq(Message) /\ (fifo # <<>> => fifo[1] \in Message /\ Tail(fifo) \in Seq(Message))
    BY DEF WorldOK
  <1>m. peMail \in Seq(Buf)
    BY DEF PeOK
  <1>b. ASSUME pc["RX"] # "WaitPHY" PROVE rxMsg \in Buf
    BY <1>b DEF PointersOK
  <1>d. ASSUME RxDrop, rxMsg \in Buf PROVE TypeInv'
    <2>1. ev' \in [Thread -> SUBSET Event]
      BY <1>d DEF RxDrop, Thread
    <2>2. RxStepOK("WaitPHY")
      BY <1>d, <2>1, <1>w, <1>m, FreeType DEF RxDrop, RxFrame, RxGoto, RxStepOK
    <2>. QED
      BY <2>2, RxStepType DEF RxPc
  <1>1. CASE RxWaitPHY
    <2>1. ev' \in [Thread -> SUBSET Event]
      BY <1>1 DEF RxWaitPHY, Thread
    <2>2. CASE UNCHANGED <<pc, ready, bus, pool, rxMsg>>
      <3>1. pc' = [pc EXCEPT !["RX"] = "WaitPHY"]
        BY <1>1, <2>2 DEF RxWaitPHY, RxRuns, PcOK
      <3>2. RxStepOK("WaitPHY")
        BY <1>1, <2>1, <2>2, <3>1, <1>p, <1>w, <1>m DEF RxWaitPHY, RxFrame, RxStepOK
      <3>. QED
        BY <3>2, RxStepType DEF RxPc
    <2>3. CASE \E b \in pool : pool' = pool \ {b} /\ rxMsg' = b /\ StartI2C("RX", "Read")
      <3>1. PoolOK' /\ rxMsg' \in Buf /\ rxMsg' # NULL
        BY <1>1, <2>3, BufAssumption DEF RxWaitPHY, PoolOK
      <3>2. RxStepOK("Read")
        BY <1>1, <2>1, <2>3, <3>1, <1>w, <1>m, StartI2CType
        DEF RxWaitPHY, RxRuns, RxFrame, RxStepOK, Prl
      <3>. QED
        BY <3>2, RxStepType DEF RxPc
    <2>. QED
      BY <1>1, <2>2, <2>3 DEF RxWaitPHY
  <1>2. CASE RxAllocFails
    <2>1. KernelOK'
      BY <1>2, PcUnchanged DEF RxAllocFails
    <2>2. WorldOK'
      BY <1>2, WorldUnchanged DEF RxAllocFails
    <2>3. PoolOK' /\ PrlOK'
      BY <1>2, <1>p DEF RxAllocFails
    <2>4. PeOK'
      BY <1>2 DEF RxAllocFails, PeOK
    <2>5. PointersOK'
      BY <1>2 DEF RxAllocFails, PointersOK
    <2>. QED
      BY <2>1, <2>2, <2>3, <2>4, <2>5
  <1>3. CASE RxRead
    <2>1. PICK m \in ReadResults : content' = [content EXCEPT ![rxMsg] = m]
      BY <1>3 DEF RxRead
    <2>2. m \in Message
      BY <2>1, <1>w, TypeAssumption DEF ReadResults, Message
    <2>3. rxMsg \in Buf
      BY <1>3, <1>b DEF RxRead, RxRuns
    <2>4. PoolOK'
      BY <1>3, <2>1, <2>2, <2>3 DEF RxRead, PoolOK
    <2>5. fifo' \in Seq(Message)
      BY <1>3, <1>w DEF RxRead, FusbReadMessage
    <2>6. ASSUME NEW s \in {"Reset.yielded", "CheckMessageID"}, pc' = [pc EXCEPT !["RX"] = s],
                 ev' \in [Thread -> SUBSET Event], ready' \in Seq(Prl),
                 txId' \in Ids, rxId' \in Ids \cup {-1}
          PROVE  TypeInv'
      <3>1. RxStepOK(s)
        BY <1>3, <2>3, <2>4, <2>5, <2>6, <1>m, BufAssumption
        DEF RxRead, FusbReadMessage, RxFrame, RxStepOK, PrlOK
      <3>. QED
        BY <3>1, RxStepType DEF RxPc
    <2>7. CASE TellTxAndYield("RESET", "Reset.yielded") /\ txId' = 0 /\ rxId' = -1
      BY <1>3, <2>6, <2>7, TellTxType DEF RxRead, RxRuns, Event, Ids
    <2>8. CASE RxGoto("CheckMessageID") /\ UNCHANGED <<txId, rxId, ev, ready>>
      BY <2>6, <2>8 DEF RxGoto
    <2>. QED
      BY <1>3, <2>7, <2>8 DEF RxRead
  <1>4. CASE RxReset
    <2>1. rxMsg \in Buf
      BY <1>4, <1>b DEF RxReset, RxRuns
    <2>2. CASE RxDrop
      BY <2>1, <2>2, <1>d
    <2>3. CASE /\ RxGoto("CheckMessageID")
               /\ UNCHANGED <<ev, ready, bus, fault, poolVars, peVars, txId, rxVars, chipVars>>
               /\ RxFrame
      <3>1. RxStepOK("CheckMessageID")
        BY <2>1, <2>3, <1>p, <1>w, <1>m, BufAssumption DEF RxGoto, RxFrame, RxStepOK
      <3>. QED
        BY <3>1, RxStepType DEF RxPc
    <2>. QED
      BY <1>4, <2>2, <2>3 DEF RxReset
  <1>5. CASE RxCheckMessageID
    <2>1. rxMsg \in Buf
      BY <1>5, <1>b DEF RxCheckMessageID, RxRuns
    <2>2. CASE RxDrop
      BY <2>1, <2>2, <1>d
    <2>3. CASE /\ TellTxAndYield("DISCARD", "Store.yielded")
               /\ UNCHANGED <<bus, fault, poolVars, peVars, txId, rxVars, chipVars>>
               /\ RxFrame
      <3>1. RxStepOK("Store.yielded")
        BY <1>5, <2>1, <2>3, <1>p, <1>w, <1>m, BufAssumption, TellTxType
        DEF RxCheckMessageID, RxRuns, RxFrame, RxStepOK, Event
      <3>. QED
        BY <3>1, RxStepType DEF RxPc
    <2>. QED
      BY <1>5, <2>2, <2>3 DEF RxCheckMessageID
  <1>6. CASE RxStoreMessageID
    <2>1. rxMsg \in Buf /\ content[rxMsg] \in Message
      BY <1>6, <1>b DEF RxStoreMessageID, RxRuns, PoolOK
    <2>2. content[rxMsg].id \in Ids /\ content[rxMsg].n \in Nat
      BY <2>1 DEF Message
    <2>3. ev' \in [Thread -> SUBSET Event]
      BY <1>6 DEF RxStoreMessageID, Thread, Event
    <2>4. RxStepOK("WaitPHY")
      BY <1>6, <2>1, <2>2, <2>3, <1>p, <1>w, <1>m, PostType
      DEF RxStoreMessageID, RxGoto, RxFrame, RxStepOK
    <2>. QED
      BY <2>4, RxStepType DEF RxPc
  <1>7. CASE Block("RX")
    BY <1>7, BlockType
  <1>. QED
    BY <1>1, <1>2, <1>3, <1>4, <1>5, <1>6, <1>7 DEF RxNext

\* A step of the HR thread, conjunct by conjunct.
HrStepOK(s) ==
    /\ pc' = [pc EXCEPT !["HR"] = s]
    /\ ev' \in [Thread -> SUBSET Event] /\ ready' \in Seq(Prl) /\ bus' \in Seq(Prl)
    /\ hrByPe' \in BOOLEAN
    /\ txId' \in Ids /\ rxId' \in Ids \cup {-1}
    /\ phyHardReset' \in BOOLEAN
    /\ UNCHANGED <<fifo, intr, phyTx>>
    /\ HrFrame

\* A step of HR keeps the type invariant if it keeps these parts of it.
LEMMA HrStepType ==
    ASSUME TypeInv, NEW s \in HrPc, HrStepOK(s), rushLeft' \in Nat
    PROVE  TypeInv'
  <1>. USE DEF TypeInv, TypeOK
  <1>1. /\ PcOK'
        /\ pc'["PE"] = pc["PE"] /\ pc'["TX"] = pc["TX"] /\ pc'["RX"] = pc["RX"]
    BY DEF HrStepOK, KernelOK, PcOK, Thread, Prl
  <1>2. KernelOK'
    BY <1>1 DEF HrStepOK, HrFrame, KernelOK
  <1>3. PointersOK'
    BY <1>1 DEF HrStepOK, HrFrame, PointersOK
  <1>4. PoolOK' /\ PrlOK'
    BY DEF HrStepOK, HrFrame, PoolOK, PrlOK
  <1>5. PeOK'
    BY DEF HrStepOK, HrFrame, PeOK
  <1>6. WorldOK'
    BY DEF HrStepOK, HrFrame, WorldOK
  <1>. QED
    BY <1>2, <1>3, <1>4, <1>5, <1>6

\* Every step of HR keeps the type invariant.
LEMMA HrThreadType ==
    ASSUME TypeInv, HrNext, rushLeft' \in Nat
    PROVE  TypeInv'
  <1>. USE DEF TypeInv, TypeOK, KernelOK, PrlOK
  <1>w. phyHardReset \in BOOLEAN
    BY DEF WorldOK
  <1>y. ASSUME NEW t \in {"RX", "TX"}, Runs("HR"), ready' = Append(Tail(Wake(t, "RESET")), "HR")
        PROVE  ready' \in Seq(Prl)
    <2>1. Wake(t, "RESET") \in Seq(Prl)
      BY WakeType DEF Prl, Event
    <2>2. Wake(t, "RESET") # <<>>
      BY <1>y DEF Runs, Wake
    <2>. QED
      BY <1>y, <2>1, <2>2 DEF Prl
  <1>1. CASE HrResetLayer
    <2>1. ev' \in [Thread -> SUBSET Event]
      BY <1>1 DEF HrResetLayer, Thread, Prl, Event
    <2>2. hrByPe' \in BOOLEAN
      BY <1>1 DEF HrResetLayer
    <2>3. ready' \in Seq(Prl)
      BY <1>1, <1>y DEF HrResetLayer, HrRuns
    <2>4. HrStepOK("ResetLayer.rx")
      BY <1>1, <2>1, <2>2, <2>3, <1>w DEF HrResetLayer, HrGoto, HrStepOK, Ids
    <2>. QED
      BY <2>4, HrStepType DEF HrPc
  <1>2. CASE HrResetTx
    <2>1. ev' \in [Thread -> SUBSET Event]
      BY <1>2 DEF HrResetTx, Thread, Prl, Event
    <2>2. ready' \in Seq(Prl)
      BY <1>2, <1>y DEF HrResetTx, HrRuns
    <2>3. HrStepOK("ResetLayer.tx")
      BY <1>2, <2>1, <2>2, <1>w DEF HrResetTx, HrGoto, HrStepOK
    <2>. QED
      BY <2>3, HrStepType DEF HrPc
  <1>3. CASE HrIndicate
    <2>1. ev' \in [Thread -> SUBSET Event]
      BY <1>3 DEF HrIndicate, Thread, Prl, Event
    <2>2. HrStepOK("WaitPE")
      BY <1>3, <2>1, <1>w DEF HrIndicate, HrGoto, HrStepOK
    <2>. QED
      BY <2>2, HrStepType DEF HrPc
  <1>4. CASE HrRequest
    <2>1. HrStepOK("Request")
      BY <1>4, <1>w, StartI2CType DEF HrRequest, HrRuns, HrStepOK, Prl
    <2>. QED
      BY <2>1, HrStepType DEF HrPc
  <1>5. CASE HrRequested
    <2>1. HrStepOK("HardWaitPHY")
      BY <1>5, <1>w DEF HrRequested, FusbSendHardrst, HrGoto, HrStepOK
    <2>. QED
      BY <2>1, HrStepType DEF HrPc
  <1>6. CASE HrWaitPHY
    <2>1. ev' \in [Thread -> SUBSET Event]
      BY <1>6 DEF HrWaitPHY, Thread
    <2>2. ready' \in Seq(Prl)
      <3>1. ready' = ready \/ ready' = Append(ready, "HR")
        BY <1>6 DEF HrWaitPHY
      <3>2. ready \in Seq(Prl)
        OBVIOUS
      <3>3. "HR" \in Prl
        BY DEF Prl
      <3>. HIDE DEF KernelOK, PrlOK, TypeInv, TypeOK
      <3>. QED
        BY <3>1, <3>2, <3>3
    <2>3. HrStepOK("HardResetRequested")
      BY <1>6, <2>1, <2>2, <1>w DEF HrWaitPHY, HrGoto, HrStepOK
    <2>. QED
      BY <2>3, HrStepType DEF HrPc
  <1>7. CASE HrHardResetRequested
    <2>1. ev' \in [Thread -> SUBSET Event]
      BY <1>7 DEF HrHardResetRequested, Thread, Prl, Event
    <2>2. HrStepOK("WaitPE")
      BY <1>7, <2>1, <1>w DEF HrHardResetRequested, HrGoto, HrStepOK
    <2>. QED
      BY <2>2, HrStepType DEF HrPc
  <1>8. CASE HrWaitPE
    <2>1. ev' \in [Thread -> SUBSET Event]
      BY <1>8 DEF HrWaitPE, Thread
    <2>2. HrStepOK("ResetLayer")
      BY <1>8, <2>1, <1>w DEF HrWaitPE, HrGoto, HrStepOK
    <2>. QED
      BY <2>2, HrStepType DEF HrPc
  <1>9. CASE Block("HR")
    BY <1>9, BlockType
  <1>. QED
    BY <1>1, <1>2, <1>3, <1>4, <1>5, <1>6, <1>7, <1>8, <1>9 DEF HrNext

-----------------------------------------------------------------------------
(* The poller, the bus, the chip and the outside world.                    *)

\* A step that moves no thread, conjunct by conjunct.
StillOK ==
    /\ UNCHANGED <<pc, fault, poolVars, peVars, prlVars>>
    /\ ev' \in [Thread -> SUBSET Event] /\ ready' \in Seq(Prl) /\ bus' \in Seq(Prl)
    /\ WorldOK'

\* A step that moves no thread and touches no message keeps the type invariant.
LEMMA StillType ==
    ASSUME TypeInv, StillOK
    PROVE  TypeInv'
  <1>. USE DEF TypeInv, TypeOK
  <1>1. KernelOK'
    BY PcUnchanged DEF StillOK, KernelOK
  <1>2. PointersOK'
    BY DEF StillOK, PointersOK
  <1>3. PoolOK' /\ PrlOK'
    BY DEF StillOK, PoolOK, PrlOK
  <1>4. PeOK'
    BY DEF StillOK, PeOK
  <1>. QED
    BY <1>1, <1>2, <1>3, <1>4 DEF StillOK

\* Every step of the INT_N poller keeps the type invariant.
LEMMA IntNType ==
    ASSUME TypeInv, IntNNext, rushLeft' \in Nat
    PROVE  TypeInv'
  <1>. USE DEF TypeInv, TypeOK, KernelOK
  <1>1. CASE IntNPoll
    <2>1. WorldOK'
      BY <1>1 DEF IntNPoll, FusbGetStatus, WorldOK
    <2>. QED
      BY <1>1, <2>1, StillType DEF IntNPoll, StillOK
  <1>2. ASSUME NEW t \in Thread, IntNTell(t) PROVE TypeInv'
    <2>1. status \subseteq Event
      BY DEF WorldOK, Interrupt, Event
    <2>2. ev' \in [Thread -> SUBSET Event]
      BY <1>2, <2>1 DEF IntNTell
    <2>3. ASSUME t = "PE", NEW e PROVE Wake(t, e) = ready
      BY <2>3 DEF Wake, PcOK, PePc, PeWaits, TxWaits, PeEntries, PrlWaits
    <2>4. ready' \in Seq(Prl)
      BY <1>2, <2>3 DEF IntNTell, Thread
    <2>5. WorldOK'
      BY <1>2 DEF IntNTell, WorldOK
    <2>. QED
      BY <1>2, <2>2, <2>4, <2>5, StillType DEF IntNTell, StillOK
  <1>. QED
    BY <1>1, <1>2 DEF IntNNext

\* The end of a transfer keeps the type invariant.
LEMMA BusDoneType ==
    ASSUME TypeInv, BusDone, rushLeft' \in Nat
    PROVE  TypeInv'
  <1>. USE DEF TypeInv, TypeOK, KernelOK
  <1>1. bus' \in Seq(Prl) /\ ready' \in Seq(Prl)
    BY DEF BusDone
  <1>2. WorldOK'
    BY WorldUnchanged DEF BusDone
  <1>. QED
    BY <1>1, <1>2, StillType DEF BusDone, StillOK

\* A step of the chip, the partner or the user.
LEMMA ChipStepType ==
    ASSUME TypeInv, SoftwareStays, ev' \in [Thread -> SUBSET Event], WorldOK'
    PROVE  TypeInv'
  BY StillType DEF TypeInv, TypeOK, KernelOK, SoftwareStays, StillOK

\* Every step of the chip, the partner or the user keeps the type invariant.
LEMMA ChipType ==
    ASSUME TypeInv, Chip \/ Outside, rushLeft' \in Nat
    PROVE  TypeInv'
  <1>. USE DEF TypeInv, TypeOK
  <1>e. ev \in [Thread -> SUBSET Event]
    BY DEF KernelOK
  <1>w. ASSUME NEW i \in Interrupt PROVE intr \cup {i} \subseteq Interrupt
    BY <1>w DEF WorldOK
  <1>. USE DEF Interrupt
  <1>1. CASE PartnerSends
    <2>1. script \in Seq(RxType) /\ srcN + 1 \in 1..Len(script)
      BY <1>1, TypeAssumption DEF PartnerSends, WorldOK
    <2>2. script[srcN + 1] \in RxType
      BY <2>1
    <2> DEFINE m == [type |-> script[srcN'],
                     id   |-> IF script[srcN'] = "SoftReset" THEN 0 ELSE srcId,
                     n    |-> srcN']
    <2>3. m \in Message
      <3>1. srcN' = srcN + 1 /\ srcN \in Nat /\ srcId \in Ids
        BY <1>1 DEF PartnerSends, WorldOK
      <3>. QED
        BY <2>2, <3>1 DEF Message, Ids
    <2>4. /\ srcId' = (m.id + 1) % 8 /\ srcLast' \in {m, NULL} /\ fifo' = Append(fifo, m)
          /\ srcN' \in Nat
      BY <1>1 DEF PartnerSends, Receive, WorldOK
    <2>. HIDE DEF m
    <2>6. m.id \in Ids
      BY <2>3 DEF Message
    <2>7. /\ srcId' \in Ids /\ srcLast' \in Message \cup {NULL}
          /\ fifo' \in Seq(Message)
      BY <2>3, <2>4, <2>6, NextIdType DEF WorldOK
    <2>5. WorldOK'
      BY <1>1, <2>4, <2>7, <1>w DEF PartnerSends, Receive, SoftwareStays, WorldOK
    <2>. QED
      BY <1>1, <2>5, <1>e, ChipStepType DEF PartnerSends
  <1>2. CASE PartnerRepeats
    <2>1. fifo' \in Seq(Message) /\ intr' \subseteq Interrupt
      BY <1>2, <1>w DEF PartnerRepeats, Receive, WorldOK
    <2>2. WorldOK'
      BY <1>2, <2>1 DEF PartnerRepeats, Receive, SoftwareStays, WorldOK
    <2>. QED
      BY <1>2, <2>2, <1>e, ChipStepType DEF PartnerRepeats
  <1>3. CASE TransmitSucceeds
    <2>1. phyTx.id \in Ids
      BY <1>3 DEF TransmitSucceeds, WorldOK, Message
    <2>2. [type |-> "GoodCRC", id |-> phyTx.id, n |-> 0] \in Message
      BY <2>1 DEF Message, RxType
    <2>3. fifo' \in Seq(Message) /\ srcId' \in Ids
      BY <1>3, <2>2 DEF TransmitSucceeds, WorldOK, Ids
    <2>4. WorldOK'
      BY <1>3, <2>3, <1>w DEF TransmitSucceeds, SoftwareStays, WorldOK
    <2>. QED
      BY <1>3, <2>4, <1>e, ChipStepType DEF TransmitSucceeds
  <1>4. CASE TransmitFails
    <2>1. WorldOK'
      BY <1>4, <1>w DEF TransmitFails, SoftwareStays, WorldOK
    <2>. QED
      BY <1>4, <2>1, <1>e, ChipStepType DEF TransmitFails
  <1>5. CASE HardResetSignalled
    <2>1. intr' \subseteq Interrupt /\ srcId' \in Ids
      BY <1>5, <1>w DEF HardResetSignalled, Ids
    <2>2. phyHardReset' \in BOOLEAN
      BY <1>5 DEF HardResetSignalled
    <2>3. WorldOK'
      BY <1>5, <2>1, <2>2 DEF HardResetSignalled, SoftwareStays, WorldOK
    <2>. QED
      BY <1>5, <2>3, <1>e, ChipStepType DEF HardResetSignalled
  <1>6. CASE PartnerHardResets
    <2>1. WorldOK'
      BY <1>6, <1>w DEF PartnerHardResets, SoftwareStays, WorldOK, Ids
    <2>. QED
      BY <1>6, <2>1, <1>e, ChipStepType DEF PartnerHardResets
  <1>7. CASE OverTemp
    <2>1. WorldOK'
      BY <1>7, <1>w DEF OverTemp, SoftwareStays, WorldOK
    <2>. QED
      BY <1>7, <2>1, <1>e, ChipStepType DEF OverTemp
  <1>8. CASE UserSignals
    <2>1. PICK e \in userLeft : /\ userLeft' = userLeft \ {e}
                                /\ ev' = [ev EXCEPT !["PE"] = @ \cup {e}]
      BY <1>8 DEF UserSignals
    <2>2. e \in Event
      BY <2>1, BoundAssumption DEF WorldOK, Event
    <2>3. ev' \in [Thread -> SUBSET Event]
      BY <2>1, <2>2, <1>e DEF Thread
    <2>4. WorldOK'
      BY <1>8, <2>1 DEF UserSignals, SoftwareStays, WorldOK
    <2>. QED
      BY <1>8, <2>3, <2>4, ChipStepType DEF UserSignals
  <1>. QED
    BY <1>1, <1>2, <1>3, <1>4, <1>5, <1>6, <1>7, <1>8 DEF Chip, Outside

-----------------------------------------------------------------------------
(* Type correctness.                                                       *)

\* The type invariant holds at first,
LEMMA InitType == Init => TypeInv
  <1>. SUFFICES ASSUME Init PROVE TypeInv
    OBVIOUS
  <1>n. \A S : <<>> \in Seq(S)
    OBVIOUS
  <1>b. TRUE \in BOOLEAN /\ FALSE \in BOOLEAN
    OBVIOUS
  <1>1. KernelOK
    <2>1. pc = [PE |-> "Startup", TX |-> "PHYReset", RX |-> "WaitPHY", HR |-> "ResetLayer"]
      BY DEF Init
    <2>2. PcOK
      BY <2>1 DEF PcOK, PePc, PeEntries, TxPc, RxPc, HrPc, Thread, Prl
    <2>3. ev \in [Thread -> SUBSET Event] /\ fault \in BOOLEAN
      BY Zenon DEF Init
    <2>4. ready \in Seq(Prl)
      BY <1>n, Zenon DEF Init
    <2>5. bus = <<"TX">>
      BY DEF Init
    <2>6. bus \in Seq(Prl)
      BY <2>5 DEF Prl
    <2>. QED
      BY <2>2, <2>3, <2>4, <2>6 DEF KernelOK
  <1>2. PoolOK
    <2>1. pool = Buf /\ content = [b \in Buf |-> Freed]
      BY DEF Init
    <2>. QED
      BY <2>1 DEF PoolOK, Freed, Message, Ids
  <1>3. PeOK
    <2>1. peMsg \in Buf \cup {NULL} /\ req \in Buf \cup {NULL} /\ sent \in Buf \cup {NULL}
      BY Zenon DEF Init
    <2>2. peMail \in Seq(Buf)
      BY <1>n, Zenon DEF Init
    <2>3. contract \in BOOLEAN /\ minPower \in BOOLEAN
      BY Zenon DEF Init
    <2>4. hardResets = 0 /\ rev = "1.0" /\ supply = "default" /\ tcc = -1
      BY Zenon DEF Init
    <2>5. hardResets \in 0..(PD_N_HARD_RESET_COUNT + 1)
      BY <2>4 DEF PD_N_HARD_RESET_COUNT
    <2>6. reqPps \in BOOLEAN /\ lastPps \in BOOLEAN /\ ppsTimer \in BOOLEAN
      BY Zenon DEF Init
    <2>. QED
      BY <2>1, <2>2, <2>3, <2>4, <2>5, <2>6, Zenon DEF PeOK
  <1>4. PrlOK
    <2>1. /\ txMsg \in Buf \cup {NULL} /\ rxMsg \in Buf \cup {NULL} /\ hrByPe \in BOOLEAN
          /\ txMail \in Seq(Buf)
      BY <1>n, Zenon DEF Init
    <2>2. txId = 0 /\ rxId = -1 /\ lastSeen = 0
      BY Zenon DEF Init
    <2>3. txId \in Ids /\ rxId \in Ids \cup {-1} /\ lastSeen \in Nat
      BY <2>2 DEF Ids
    <2>. QED
      BY <2>1, <2>3, Zenon DEF PrlOK
  <1>5. WorldOK
    <2>1. /\ status \subseteq Interrupt /\ intr \subseteq Interrupt
          /\ phyTx \in Message \cup {NULL} /\ phyHardReset \in BOOLEAN
          /\ script \in Scripts /\ srcLast \in Message \cup {NULL}
          /\ userLeft \subseteq UserEvents
      BY Zenon DEF Init
    <2>2. fifo \in Seq(Message)
      BY <1>n, Zenon DEF Init
    <2>3. srcId = 0 /\ srcN = 0
      BY Zenon DEF Init
    <2>4. srcId \in Ids /\ srcN \in Nat
      BY <2>3 DEF Ids
    <2>5. /\ repeatsLeft = MaxRepeats /\ resetsLeft = MaxResets /\ rushLeft = MaxRushes
          /\ overTempsLeft = MaxOverTemps /\ txFailsLeft = MaxTxFails
      BY Zenon DEF Init
    <2>6. {repeatsLeft, resetsLeft, overTempsLeft, txFailsLeft, rushLeft} \subseteq Nat
      BY <2>5, BoundAssumption
    <2>. QED
      BY <2>1, <2>2, <2>4, <2>6, Zenon DEF WorldOK
  <1>6. PointersOK
    <2>1. pc["PE"] = "Startup" /\ pc["TX"] = "PHYReset" /\ pc["RX"] = "WaitPHY"
      BY DEF Init
    <2>. QED
      BY <2>1 DEF PointersOK, Requesting, TxWaits
  <1>. QED
    BY <1>1, <1>2, <1>3, <1>4, <1>5, <1>6 DEF TypeInv, TypeOK

\* and every step keeps it.
LEMMA NextType == TypeInv /\ [Next]_vars => TypeInv'
  <1>. SUFFICES ASSUME TypeInv, [Next]_vars PROVE TypeInv'
    OBVIOUS
  <1>1. CASE Stack /\ UNCHANGED rushLeft
    <2>1. rushLeft' \in Nat
      BY <1>1 DEF TypeInv, TypeOK, WorldOK
    <2>. QED
      BY <1>1, <2>1, PeType, TxThreadType, RxThreadType, HrThreadType, IntNType, BusDoneType,
         ChipType
      DEF Stack
  <1>2. CASE Strike
    <2>1. rushLeft' \in Nat
      BY <1>2 DEF Strike, TypeInv, TypeOK, WorldOK
    <2>. QED
      BY <1>2, <2>1, TimerType, ChipType DEF Strike
  <1>3. CASE UNCHANGED vars
    <2>1. StillOK
      BY <1>3, WorldUnchanged DEF StillOK, TypeInv, TypeOK, KernelOK, WorldOK
    <2>. QED
      BY <2>1, StillType
  <1>. QED
    BY <1>1, <1>2, <1>3 DEF Next

\* Every variable of the stack keeps its type, however the threads, the chip and the
\* partner interleave; in particular no state function, and no thread of the protocol
\* layer, runs with a null pointer where it reads a message.
THEOREM TypeCorrect == Spec => []TypeOK
  <1>1. TypeInv => TypeOK
    BY DEF TypeInv
  <1>. QED
    BY InitType, NextType, <1>1, PTL DEF Spec

-----------------------------------------------------------------------------
\* What the engine's waits wait for, one by one.
LEMMA EngineMasks ==
    /\ \A s \in TxWaits : Mask[s] = TxOutcome
    /\ Mask["WaitCap"] = {"MSG_RX", "I_OVRTEMP", "RESET"}
    /\ Mask["SelectCap.rsp"] = {"MSG_RX", "RESET"}
    /\ Mask["TransitionSink"] = {"MSG_RX", "RESET"}
    /\ Mask["SendSoftReset.rsp"] = {"MSG_RX", "RESET"}
    /\ Mask["Ready"] = {"MSG_RX", "RESET", "I_OVRTEMP", "GET_SOURCE_CAP", "NEW_POWER",
                        "PPS_REQUEST"}
    /\ Mask["ChunkReceived"] = {"RESET"}
    /\ Mask["HardReset.sent"] = {"HARD_SENT"}
  <1>1. /\ Mask["SelectCap.tx"] = TxOutcome /\ Mask["GetSourceCap.tx"] = TxOutcome
        /\ Mask["GiveSinkCap.tx"] = TxOutcome /\ Mask["SoftReset.tx"] = TxOutcome
        /\ Mask["SendSoftReset.tx"] = TxOutcome
        /\ Mask["SendNotSupported.tx"] = TxOutcome
    BY Zenon DEF Mask, PeWaits, TxWaits
  <1>2. /\ Mask["WaitCap"] = {"MSG_RX", "I_OVRTEMP", "RESET"}
        /\ Mask["SelectCap.rsp"] = {"MSG_RX", "RESET"}
        /\ Mask["TransitionSink"] = {"MSG_RX", "RESET"}
        /\ Mask["SendSoftReset.rsp"] = {"MSG_RX", "RESET"}
    BY Zenon DEF Mask, PeWaits, TxWaits
  <1>3. /\ Mask["Ready"] = {"MSG_RX", "RESET", "I_OVRTEMP", "GET_SOURCE_CAP", "NEW_POWER",
                            "PPS_REQUEST"}
        /\ Mask["ChunkReceived"] = {"RESET"}
        /\ Mask["HardReset.sent"] = {"HARD_SENT"}
    BY Zenon DEF Mask, PeWaits, TxWaits
  <1>. QED
    BY <1>1, <1>2, <1>3 DEF TxWaits

=============================================================================
