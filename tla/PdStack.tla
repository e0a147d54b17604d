------------------------------ MODULE PdStack -------------------------------
(***************************************************************************)
(* The USB Power Delivery stack: the five threads of lib/src composed over *)
(* the state of PdState, with the FUSB302B and the port partner.           *)
(***************************************************************************)
EXTENDS PolicyEngine, ProtocolTx, ProtocolRx, ProtocolHr, IntN

Init ==
    /\ pc = [PE |-> "Startup", TX |-> "PHYReset", RX |-> "WaitPHY", HR |-> "ResetLayer"]
    /\ ev = [t \in Thread |-> {}]
    /\ ready = <<>>
    /\ bus = <<"TX">>
    /\ fault = FALSE
    /\ pool = Buf
    /\ content = [b \in Buf |-> Freed]
    /\ peMsg = NULL /\ peMail = <<>> /\ req = NULL /\ sent = NULL
    /\ contract = FALSE /\ minPower = FALSE /\ hardResets = 0 /\ rev = "1.0"
    /\ supply = "default" /\ tcc = -1
    /\ reqPps = FALSE /\ lastPps = FALSE /\ ppsTimer = FALSE
    /\ txMsg = NULL /\ txMail = <<>> /\ txId = 0
    /\ rxMsg = NULL /\ rxId = -1 /\ lastSeen = 0
    /\ hrByPe = FALSE
    /\ status = {} /\ fifo = <<>> /\ intr = {} /\ phyTx = NULL /\ phyHardReset = FALSE
    /\ srcId = 0 /\ srcN = 0 /\ srcLast = NULL
    /\ script \in Scripts
    /\ repeatsLeft = MaxRepeats /\ resetsLeft = MaxResets
    /\ overTempsLeft = MaxOverTemps /\ txFailsLeft = MaxTxFails /\ userLeft = UserEvents
    /\ rushLeft = MaxRushes

\* What goes on by itself once something has happened: the threads, the I2C bus, the
\* chip.
Stack == PeNext \/ TxNext \/ RxNext \/ HrNext \/ IntNNext \/ BusDone \/ Chip

\* Everything that happened has been dealt with.
Quiet == /\ Idle
         /\ bus = <<>> /\ status = {} /\ intr = {}
         /\ phyTx = NULL /\ ~phyHardReset
         /\ pc["TX"] # "AmsWait"

\* A timer, the partner, the temperature and the user strike at any time, but only
\* MaxRushes times while the stack is busy.
Strike ==
    /\ PeTimer \/ Outside
    /\ Quiet \/ rushLeft > 0
    /\ rushLeft' = IF Quiet THEN rushLeft ELSE rushLeft - 1

Next == (Stack /\ UNCHANGED rushLeft) \/ Strike

Spec == Init /\ [][Next]_vars

-----------------------------------------------------------------------------
\* Type invariant of the stack's variables (pdb_pe.h, pdb_prl.h, pdb_msg.h and the
\* kernel objects the threads use), in parts.
PcOK ==
    /\ pc \in [Thread -> PePc \cup TxPc \cup RxPc \cup HrPc]
    /\ pc["PE"] \in PePc /\ pc["TX"] \in TxPc /\ pc["RX"] \in RxPc /\ pc["HR"] \in HrPc

KernelOK ==
    /\ PcOK
    /\ ev \in [Thread -> SUBSET Event]
    /\ ready \in Seq(Prl) /\ bus \in Seq(Prl)
    /\ fault \in BOOLEAN

PoolOK == pool \subseteq Buf /\ content \in [Buf -> Message]

PeOK ==
    /\ peMsg \in Buf \cup {NULL} /\ req \in Buf \cup {NULL} /\ sent \in Buf \cup {NULL}
    /\ peMail \in Seq(Buf)
    /\ contract \in BOOLEAN /\ minPower \in BOOLEAN
    /\ hardResets \in 0..(PD_N_HARD_RESET_COUNT + 1)
    /\ rev \in {"1.0", "2.0", "3.0"}
    /\ supply \in {"default", "standby", "requested", "min", "typec"} /\ tcc \in {-1, 0}
    /\ reqPps \in BOOLEAN /\ lastPps \in BOOLEAN /\ ppsTimer \in BOOLEAN

PrlOK ==
    /\ txMsg \in Buf \cup {NULL} /\ txMail \in Seq(Buf) /\ txId \in Ids
    /\ rxMsg \in Buf \cup {NULL} /\ rxId \in Ids \cup {-1} /\ lastSeen \in Nat
    /\ hrByPe \in BOOLEAN

WorldOK ==
    /\ status \subseteq Interrupt /\ intr \subseteq Interrupt
    /\ fifo \in Seq(Message)
    /\ phyTx \in Message \cup {NULL} /\ phyHardReset \in BOOLEAN
    /\ script \in Scripts /\ srcId \in Ids /\ srcN \in Nat /\ srcLast \in Message \cup {NULL}
    /\ {repeatsLeft, resetsLeft, overTempsLeft, txFailsLeft, rushLeft} \subseteq Nat
    /\ userLeft \subseteq UserEvents

TypeOK == KernelOK /\ PoolOK /\ PeOK /\ PrlOK /\ WorldOK

=============================================================================
