-------------------------- MODULE FusbDriverProofs --------------------------
(***************************************************************************)
(* The driver of FusbDriver, for any threads, messages and numbers of      *)
(* calls: the bus mutex makes the static sop_seq safe; what is in the      *)
(* chip's transmit FIFO is at each step the part of one message that its   *)
(* sender has written so far; and what is in the receive FIFO is a row of  *)
(* whole messages, of the first of which a reader has taken the beginning. *)
(* So the driver implements Transceiver.                                   *)
(***************************************************************************)
EXTENDS FusbDriver, SequenceTheorems, FiniteSetTheorems, TLAPS

Inside == Place \ {"out", "acquire"}

\* A thread between i2cAcquireBus and i2cReleaseBus owns the bus.
Locked ==
    /\ owner \in Thread \cup {NULL}
    /\ pc \in [Thread -> Place]
    /\ \A t \in Thread : pc[t] \in Inside => owner = t

\* Each place belongs to one function.
JobOf ==
    /\ job \in [Thread -> [fn : DOMAIN First, msg : Message \cup {NULL}]]
    /\ \A t \in Thread : pc[t] \in {"length", "sop", "body", "eop"} => job[t].fn = "send"

DriverInv == Locked /\ JobOf /\ LengthIsOurs

\* The invariant holds at the start.
LEMMA DriverInit == Init => DriverInv
BY DEF Init, DriverInv, Locked, JobOf, LengthIsOurs, Place, Inside, First

\* The function called decides where the thread that gets the bus goes.
LEMMA FirstPlace ==
    /\ \A f \in DOMAIN First : First[f] \in Inside \ {"sop", "body", "eop"}
    /\ \A f \in DOMAIN First : First[f] = "length" => f = "send"
BY DEF First, Inside, Place

\* Calling and waiting for the bus.
LEMMA DriverEnter == ASSUME DriverInv, NEW t \in Thread, Call(t) \/ Acquire(t) PROVE DriverInv'
<1> USE DEF DriverInv, Locked, JobOf, LengthIsOurs
<1>1. CASE Call(t)
  <2>1. pc' = [pc EXCEPT ![t] = "acquire"] /\ UNCHANGED <<owner, sopLen>> /\ pc[t] = "out"
    BY <1>1 DEF Call
  <2>2. /\ \A u \in Thread : u # t => job'[u] = job[u]
        /\ job' \in [Thread -> [fn : DOMAIN First, msg : Message \cup {NULL}]]
    <3>1. PICK j \in [fn : DOMAIN First, msg : Message \cup {NULL}] : job' = [job EXCEPT ![t] = j]
      BY <1>1 DEF Call, First
    <3> QED  BY <3>1
  <2>3. /\ \A u \in Thread : u # t => pc'[u] = pc[u]
        /\ pc'[t] = "acquire" /\ pc' \in [Thread -> Place]
    BY <2>1 DEF Place
  <2> QED  BY <2>1, <2>2, <2>3 DEF Inside, Place
<1>2. CASE Acquire(t)
  <2>1. /\ pc' = [pc EXCEPT ![t] = First[job[t].fn]] /\ owner = NULL /\ owner' = t
        /\ UNCHANGED <<job, sopLen>>
    BY <1>2 DEF Acquire
  <2>2. \A u \in Thread : pc[u] \notin Inside
    BY <2>1, MessageAssumption
  <2>3. /\ pc'[t] \in Inside \ {"sop", "body", "eop"} /\ (pc'[t] = "length" => job[t].fn = "send")
        /\ \A u \in Thread : u # t => pc'[u] = pc[u]
    BY <2>1, FirstPlace
  <2>4. pc' \in [Thread -> Place]
    BY <2>1, <2>3 DEF Inside
  <2> QED  BY <2>1, <2>2, <2>3, <2>4 DEF Inside, Place
<1> QED  BY <1>1, <1>2

\* A thread inside that goes on inside, or releases the bus, and leaves the length alone.
LEMMA DriverGoesOn ==
    ASSUME DriverInv, NEW t \in Thread, pc[t] \in Inside, UNCHANGED <<job, sopLen>>,
           \/ \E s \in Inside \ {"length", "sop"} :
                /\ pc' = [pc EXCEPT ![t] = s] /\ owner' = owner
                /\ s \in {"body", "eop"} => pc[t] \in {"sop", "body"}
           \/ pc' = [pc EXCEPT ![t] = "out"] /\ owner' = NULL
    PROVE  DriverInv'
<1> USE DEF DriverInv, Locked, JobOf, LengthIsOurs
<1>1. owner = t /\ \A u \in Thread : u # t => pc[u] \notin Inside
  BY MessageAssumption
<1>2. ASSUME NEW s \in Inside \ {"length", "sop"},
             pc' = [pc EXCEPT ![t] = s], owner' = owner,
             s \in {"body", "eop"} => pc[t] \in {"sop", "body"}
      PROVE  DriverInv'
  <2>1. pc' \in [Thread -> Place] /\ pc'[t] = s /\ \A u \in Thread : u # t => pc'[u] = pc[u]
    BY <1>2 DEF Inside
  <2> QED  BY <1>1, <1>2, <2>1 DEF Inside, Place
<1>3. CASE pc' = [pc EXCEPT ![t] = "out"] /\ owner' = NULL
  BY <1>1, <1>3 DEF Inside, Place
<1> QED  BY <1>2, <1>3

\* The two cases, one transfer on and out of the function.
LEMMA DriverMoves ==
    ASSUME DriverInv, NEW t \in Thread, NEW s \in Inside \ {"length", "sop", "body", "eop"},
           pc[t] \in Inside, To(t, s), UNCHANGED sopLen
    PROVE  DriverInv'
BY DriverGoesOn DEF To

LEMMA DriverLeaves ==
    ASSUME DriverInv, NEW t \in Thread, pc[t] \in Inside, ReleaseBus(t), UNCHANGED sopLen
    PROVE  DriverInv'
BY DriverGoesOn DEF ReleaseBus

\* Every step of a thread keeps the invariant.
LEMMA DriverStep == ASSUME DriverInv, NEW t \in Thread, Driver(t) PROVE DriverInv'
<1>1. CASE Call(t) \/ Acquire(t)
  BY <1>1, DriverEnter
<1>2. CASE SetLength(t)
  <2>1. /\ pc[t] = "length" /\ pc' = [pc EXCEPT ![t] = "sop"] /\ UNCHANGED <<owner, job>>
        /\ sopLen' = MsgLen(job[t].msg)
    BY <1>2 DEF SetLength, From, To
  <2>2. \A u \in Thread : u # t => pc[u] \notin Inside
    BY <2>1, MessageAssumption DEF DriverInv, Locked, Inside, Place
  <2>3. pc' \in [Thread -> Place] /\ pc'[t] = "sop" /\ \A u \in Thread : u # t => pc'[u] = pc[u]
    BY <2>1 DEF DriverInv, Locked, Place
  <2> QED
    BY <2>1, <2>2, <2>3 DEF DriverInv, Locked, JobOf, LengthIsOurs, Inside, Place, MsgLen
<1>3. /\ {"objects", "crc", "header", "rxflush", "pdreset"} \subseteq Inside \ {"length", "sop", "body", "eop"}
      /\ {"sop", "body", "eop", "token", "txflush", "hardrst", "status", "typec"} \subseteq Inside
  BY DEF Inside, Place
<1>4. CASE WriteSop(t)
  BY <1>3, <1>4, DriverGoesOn DEF WriteSop, From, To
<1>5. CASE WriteBody(t)
  BY <1>3, <1>5, DriverGoesOn DEF WriteBody, From, To
<1>6. CASE WriteEop(t)
  <2>1. pc[t] = "eop" /\ ReleaseBus(t) /\ UNCHANGED sopLen
    BY <1>6 DEF WriteEop, From
  <2> QED  BY <1>3, <2>1, DriverLeaves
<1>7. CASE ReadToken(t)
  <2>1. pc[t] = "token" /\ (To(t, "header") \/ ReleaseBus(t)) /\ UNCHANGED sopLen
    BY <1>7 DEF ReadToken, From
  <2> QED  BY <1>3, <2>1, DriverMoves, DriverLeaves
<1>8. CASE ReadHeader(t)
  <2>1. pc[t] = "header" /\ (To(t, "objects") \/ To(t, "crc")) /\ UNCHANGED sopLen
    BY <1>8 DEF ReadHeader, From
  <2> QED  BY <1>3, <2>1, DriverMoves
<1>9. CASE ReadObjects(t)
  <2>1. pc[t] = "objects" /\ To(t, "crc") /\ UNCHANGED sopLen
    BY <1>9 DEF ReadObjects, From
  <2> QED  BY <1>3, <2>1, DriverMoves
<1>10. CASE ReadCrc(t)
  <2>1. pc[t] = "crc" /\ ReleaseBus(t) /\ UNCHANGED sopLen
    BY <1>10 DEF ReadCrc, From
  <2> QED  BY <1>3, <2>1, DriverLeaves
<1>11. CASE FlushTx(t)
  <2>1. pc[t] = "txflush" /\ To(t, "rxflush") /\ UNCHANGED sopLen
    BY <1>11 DEF FlushTx, From
  <2> QED  BY <1>3, <2>1, DriverMoves
<1>12. CASE FlushRx(t)
  <2>1. pc[t] = "rxflush" /\ To(t, "pdreset") /\ UNCHANGED sopLen
    BY <1>12 DEF FlushRx, From
  <2> QED  BY <1>3, <2>1, DriverMoves
<1>13. CASE ResetPd(t)
  <2>1. pc[t] = "pdreset" /\ ReleaseBus(t) /\ UNCHANGED sopLen
    BY <1>13 DEF ResetPd, From
  <2> QED  BY <1>3, <2>1, DriverLeaves
<1>14. CASE SendHardrst(t)
  <2>1. pc[t] = "hardrst" /\ ReleaseBus(t) /\ UNCHANGED sopLen
    BY <1>14 DEF SendHardrst, From
  <2> QED  BY <1>3, <2>1, DriverLeaves
<1>15. CASE GetStatus(t)
  <2>1. pc[t] = "status" /\ ReleaseBus(t) /\ UNCHANGED sopLen
    BY <1>15 DEF GetStatus, From
  <2> QED  BY <1>3, <2>1, DriverLeaves
<1>16. CASE GetTypecCurrent(t)
  <2>1. pc[t] = "typec" /\ ReleaseBus(t) /\ UNCHANGED sopLen
    BY <1>16 DEF GetTypecCurrent, From
  <2> QED  BY <1>3, <2>1, DriverLeaves
<1> QED
  BY <1>1, <1>2, <1>4, <1>5, <1>6, <1>7, <1>8, <1>9, <1>10, <1>11, <1>12, <1>13, <1>14, <1>15, <1>16
  DEF Driver

\* So it always holds; the chip touches none of it.
LEMMA DriverCorrect == Spec => []DriverInv
<1>1. DriverInv /\ [Next]_vars => DriverInv'
  <2> SUFFICES ASSUME DriverInv, UNCHANGED <<owner, pc, job, sopLen>> PROVE DriverInv'
    BY DriverStep DEF Next, vars, Receive, TransmitSucceeds, HardResetSignalled, Arrives
  <2> QED  BY DEF DriverInv, Locked, JobOf, LengthIsOurs, MsgLen
<1> QED  BY <1>1, DriverInit, PTL DEF Spec

\* The length fusb_send_message writes is its own message's, although sop_seq is one for
\* all callers (fusb302b.c:94-116), for any number of threads.
THEOREM LengthCorrect == Spec => []LengthIsOurs
BY DriverCorrect, PTL DEF DriverInv
-----------------------------------------------------------------------------
Preamble(m) == <<SOP1, SOP1, SOP1, SOP2, PACKSYM(MsgLen(m))>>
Trailer     == <<JAM_CRC, EOP, TXOFF>>

Symbol == ({"SOP1", "SOP2", "PACKSYM", "JAM_CRC", "EOP", "TXOFF"} \X Nat) \cup (Message \X Nat)

\* The chip finds the message between the tokens.
LEMMA PacketOf ==
    ASSUME NEW m \in Message
    PROVE  Packet(Preamble(m) \o Bytes(m) \o Trailer) = Bytes(m)
<1> DEFINE a == Preamble(m)
           b == Bytes(m)
           c == Trailer
           n == MsgLen(m)
<1>1. n \in Nat
  BY MessageAssumption DEF MsgLen
<1>2. Len(b) = n /\ b \in Seq(Symbol)
  BY <1>1 DEF Bytes, Symbol
<1>3. a \in Seq(Symbol) /\ c \in Seq(Symbol) /\ Len(a) = 5 /\ Len(c) = 3
  BY <1>1 DEF Preamble, Trailer, SOP1, SOP2, PACKSYM, JAM_CRC, EOP, TXOFF, Symbol
<1>4. a = <<SOP1, SOP1, SOP1, SOP2, PACKSYM(n)>> /\ c = <<JAM_CRC, EOP, TXOFF>>
  BY DEF Preamble, Trailer
<1> HIDE DEF a, b, c, n
<1> DEFINE ab == a \o b
           f  == ab \o c
           g  == SubSeq(f, 6, 5 + n)
<1>5. /\ ab \in Seq(Symbol) /\ Len(ab) = 5 + n
      /\ \A i \in 1..n : ab[5 + i] = b[i]
  <2>1. /\ a \o b \in Seq(Symbol) /\ Len(a \o b) = Len(a) + Len(b)
        /\ \A i \in 1..Len(a) + Len(b) : (a \o b)[i] = IF i <= Len(a) THEN a[i] ELSE b[i - Len(a)]
    BY <1>2, <1>3, ConcatProperties
  <2>2. ASSUME NEW i \in 1..n PROVE (a \o b)[5 + i] = b[i]
    BY <1>1, <1>2, <1>3, <2>1
  <2> QED  BY <1>1, <1>2, <1>3, <2>1, <2>2
<1> HIDE DEF ab
<1>6. /\ f \in Seq(Symbol) /\ Len(f) = 8 + n
      /\ \A i \in 1..5 + n : f[i] = ab[i]
  <2>1. /\ ab \o c \in Seq(Symbol) /\ Len(ab \o c) = Len(ab) + Len(c)
        /\ \A i \in 1..Len(ab) + Len(c) : (ab \o c)[i] = IF i <= Len(ab) THEN ab[i] ELSE c[i - Len(ab)]
    BY <1>3, <1>5, ConcatProperties
  <2> QED  BY <1>1, <1>3, <1>5, <2>1
<1> HIDE DEF f
<1>7. \A i \in 1..n : f[5 + i] = b[i]
  BY <1>1, <1>5, <1>6
<1>8. \A i \in 6..5 + n : f[i] \in Symbol
  BY <1>1, <1>6, ElementOfSeq
<1>9. g \in Seq(Symbol) /\ Len(g) = n /\ \A i \in 1..n : g[i] = f[5 + i]
  BY <1>1, <1>6, <1>8, SubSeqProperties
<1> HIDE DEF g
<1>10. g = b
  BY <1>1, <1>2, <1>7, <1>9, SeqEqual
<1>11. n \in 0..(Len(f) - 8) /\ Len(f) - 3 = 5 + n
  BY <1>1, <1>6
<1>12. f = <<SOP1, SOP1, SOP1, SOP2, PACKSYM(n)>> \o g \o <<JAM_CRC, EOP, TXOFF>>
  BY <1>4, <1>10 DEF f, ab
<1>13. Packet(f) = SubSeq(f, 6, Len(f) - 3)
  BY <1>11, <1>12, Zenon DEF Packet, g
<1>14. Packet(f) = b
  BY <1>10, <1>11, <1>13 DEF g
<1> QED  BY <1>14 DEF f, ab, a, b, c

Writing == {"body", "eop"}

\* What the sender has written into the FIFO so far.
Sent ==
    /\ \A t \in Thread : pc[t] = "body" => txFifo = Preamble(job[t].msg)
    /\ \A t \in Thread : pc[t] = "eop" => txFifo = Preamble(job[t].msg) \o Bytes(job[t].msg)
    /\ (\A t \in Thread : pc[t] \notin Writing) => txFifo = <<>>
    /\ \A t \in Thread : job[t].fn = "send" => job[t].msg \in Message

\* A thread that is not writing, and does not come to it, leaves the FIFO as it was.
LEMMA SentKept ==
    ASSUME DriverInv, Sent, NEW t \in Thread, NEW s \in Place \ Writing, pc[t] \notin Writing,
           pc' = [pc EXCEPT ![t] = s], txFifo' = txFifo,
           \/ job' = job
           \/ \E j : job' = [job EXCEPT ![t] = j] /\ (j.fn = "send" => j.msg \in Message)
    PROVE  Sent'
<1>1. /\ pc'[t] = s /\ \A u \in Thread : u # t => pc'[u] = pc[u] /\ job'[u] = job[u]
      /\ \A u \in Thread : job'[u].fn = "send" => job'[u].msg \in Message
  BY DEF DriverInv, Locked, JobOf, Sent
<1>2. /\ \A u \in Thread : pc'[u] = "body" => txFifo' = Preamble(job'[u].msg)
      /\ \A u \in Thread : pc'[u] = "eop" => txFifo' = Preamble(job'[u].msg) \o Bytes(job'[u].msg)
  BY <1>1, Zenon DEF Sent, Writing
<1>3. (\A u \in Thread : pc'[u] \notin Writing) => txFifo' = <<>>
  BY <1>1, Zenon DEF Sent
<1> QED  BY <1>1, <1>2, <1>3 DEF Sent, Preamble, PACKSYM, MsgLen, Bytes

\* The thread inside is alone, so nobody is writing when it is not.
LEMMA Alone ==
    ASSUME DriverInv, Sent, NEW t \in Thread, pc[t] \in Inside
    PROVE  /\ \A u \in Thread : u # t => pc[u] \notin Writing
           /\ pc[t] \notin Writing => txFifo = <<>>
<1>1. \A u \in Thread : u # t => pc[u] \notin Inside
  BY MessageAssumption DEF DriverInv, Locked
<1> QED  BY <1>1 DEF Sent, Writing, Inside, Place

\* The steps by which a thread writes, or has written.
LEMMA SentWrite ==
    ASSUME DriverInv, Sent, NEW t \in Thread, WriteSop(t) \/ WriteBody(t) \/ WriteEop(t)
    PROVE  Sent'
<1>1. pc[t] \in Inside /\ UNCHANGED job
  BY DEF WriteSop, WriteBody, WriteEop, From, To, ReleaseBus, Inside, Place
<1>2. \A u \in Thread : u # t => pc[u] \notin Writing /\ pc'[u] = pc[u]
  BY <1>1, Alone DEF WriteSop, WriteBody, WriteEop, To, ReleaseBus, DriverInv, Locked
<1>3. \A u \in Thread : job'[u].fn = "send" => job'[u].msg \in Message
  BY <1>1 DEF Sent
<1>4. CASE WriteSop(t)
  <2>1. pc[t] = "sop" /\ pc'[t] = "body" /\ sopLen = MsgLen(job[t].msg)
    BY <1>4 DEF WriteSop, From, To, DriverInv, Locked, LengthIsOurs
  <2>2. txFifo = <<>>
    BY <1>1, <2>1, Alone DEF Writing
  <2>3. txFifo' = <<SOP1, SOP1, SOP1, SOP2, PACKSYM(sopLen)>>
    BY <1>4, <2>2 DEF WriteSop
  <2>4. txFifo' = Preamble(job'[t].msg)
    BY <1>1, <2>1, <2>3 DEF Preamble, PACKSYM
  <2> QED  BY <1>2, <1>3, <2>1, <2>4 DEF Sent, Writing, Preamble, PACKSYM, MsgLen, Bytes
<1>5. CASE WriteBody(t)
  <2>1. /\ pc[t] = "body" /\ pc'[t] = "eop" /\ txFifo = Preamble(job[t].msg)
        /\ txFifo' = txFifo \o Bytes(job[t].msg)
    BY <1>5 DEF WriteBody, From, To, DriverInv, Locked, Sent
  <2> QED  BY <1>1, <1>2, <1>3, <2>1 DEF Sent, Writing, Preamble, PACKSYM, MsgLen, Bytes
<1>6. CASE WriteEop(t)
  <2>1. pc'[t] = "out" /\ txFifo' = <<>>
    BY <1>6 DEF WriteEop, ReleaseBus, DriverInv, Locked
  <2> QED  BY <1>2, <1>3, <2>1 DEF Sent, Writing
<1> QED  BY <1>4, <1>5, <1>6

\* Every step of a thread keeps what is known of the FIFO.
LEMMA SentStep == ASSUME DriverInv, Sent, NEW t \in Thread, Driver(t) PROVE Sent'
<1> USE DEF From, To, ReleaseBus, Writing, Place
<1>1. CASE Call(t)
  <2>1. /\ pc[t] \notin Writing /\ pc' = [pc EXCEPT ![t] = "acquire"] /\ txFifo' = txFifo
        /\ "acquire" \in Place \ Writing
    BY <1>1 DEF Call, chipVars
  <2>2. \E j : job' = [job EXCEPT ![t] = j] /\ (j.fn = "send" => j.msg \in Message)
    <3>1. CASE \E m \in Message : job' = [job EXCEPT ![t] = [fn |-> "send", msg |-> m]]
      <4>1. PICK m \in Message : job' = [job EXCEPT ![t] = [fn |-> "send", msg |-> m]]
        BY <3>1
      <4>2. [fn |-> "send", msg |-> m].msg \in Message
        OBVIOUS
      <4> QED  BY <4>1, <4>2, Zenon
    <3>2. CASE \E f \in {"read", "reset", "hardrst", "status", "typec"} :
                 job' = [job EXCEPT ![t] = [fn |-> f, msg |-> NULL]]
      <4>1. PICK f \in {"read", "reset", "hardrst", "status", "typec"} :
                 job' = [job EXCEPT ![t] = [fn |-> f, msg |-> NULL]]
        BY <3>2
      <4>2. [fn |-> f, msg |-> NULL].fn # "send"
        BY <4>1
      <4> QED  BY <4>1, <4>2, Zenon
    <3> QED  BY <1>1, <3>1, <3>2 DEF Call
  <2> HIDE DEF Writing, Place
  <2> QED  BY <2>1, <2>2, SentKept, Zenon
<1>2. CASE Acquire(t)
  <2>1. First[job[t].fn] \in Place \ Writing
    BY FirstPlace DEF DriverInv, JobOf, Inside
  <2>2. /\ pc[t] \notin Writing /\ pc' = [pc EXCEPT ![t] = First[job[t].fn]]
        /\ txFifo' = txFifo /\ job' = job
    BY <1>2 DEF Acquire, chipVars
  <2> HIDE DEF Writing, Place
  <2> QED  BY <2>1, <2>2, SentKept, Zenon
<1>3. CASE WriteSop(t) \/ WriteBody(t) \/ WriteEop(t)
  BY <1>3, SentWrite
<1>4. CASE FlushTx(t)
  <2>1. txFifo' = txFifo
    BY <1>4, Alone DEF FlushTx, Inside
  <2> QED  BY <1>4, <2>1, SentKept DEF FlushTx
<1>5. CASE SetLength(t)
  BY <1>5, SentKept DEF SetLength, chipVars
<1>6. CASE ReadToken(t)
  BY <1>6, SentKept DEF ReadToken
<1>7. CASE ReadHeader(t)
  BY <1>7, SentKept DEF ReadHeader
<1>8. CASE ReadObjects(t)
  BY <1>8, SentKept DEF ReadObjects
<1>9. CASE ReadCrc(t)
  BY <1>9, SentKept DEF ReadCrc
<1>10. CASE FlushRx(t) \/ ResetPd(t)
  BY <1>10, SentKept DEF FlushRx, ResetPd
<1>11. CASE SendHardrst(t) \/ GetStatus(t) \/ GetTypecCurrent(t)
  BY <1>11, SentKept DEF SendHardrst, GetStatus, GetTypecCurrent, chipVars
<1> QED
  BY <1>1, <1>2, <1>3, <1>4, <1>5, <1>6, <1>7, <1>8, <1>9, <1>10, <1>11 DEF Driver

\* What the chip sends once the last byte is written.
LEMMA SendsIt ==
    ASSUME DriverInv, Sent, NEW t \in Thread, WriteEop(t)
    PROVE  job[t].msg \in Message /\ phyTx' = Bytes(job[t].msg)
<1>1. job[t].msg \in Message /\ txFifo = Preamble(job[t].msg) \o Bytes(job[t].msg)
  BY DEF WriteEop, From, DriverInv, JobOf, Sent
<1>2. phyTx' = Packet(txFifo \o Trailer)
  BY DEF WriteEop, Trailer
<1> QED  BY <1>1, <1>2, PacketOf

\* Only the thread itself gets past its last transfer, which sends what is in the FIFO.
LEMMA SentWhole ==
    ASSUME DriverInv, Sent, Next, NEW t \in Thread, pc[t] = "eop", pc'[t] # "eop"
    PROVE  phyTx' = Bytes(job[t].msg)
<1>1. PICK u \in Thread : Driver(u)
  BY DEF Next, Receive, TransmitSucceeds, HardResetSignalled, Arrives
<1>2. u = t
  <2> SUFFICES ASSUME u # t PROVE pc'[t] = pc[t]
    OBVIOUS
  <2>1. \E s : pc' = [pc EXCEPT ![u] = s]
    BY <1>1 DEF Driver, Call, Acquire, SetLength, WriteSop, WriteBody, WriteEop, ReadToken,
                ReadHeader, ReadObjects, ReadCrc, FlushTx, FlushRx, ResetPd, SendHardrst,
                GetStatus, GetTypecCurrent, To, ReleaseBus
  <2> QED  BY <2>1 DEF DriverInv, Locked
<1>3. WriteEop(t)
  BY <1>1, <1>2 DEF Driver, Call, Acquire, SetLength, WriteSop, WriteBody, ReadToken, ReadHeader,
                    ReadObjects, ReadCrc, FlushTx, FlushRx, ResetPd, SendHardrst, GetStatus,
                    GetTypecCurrent, From
<1> QED  BY <1>3, SendsIt

\* So the FIFO holds what its sender has written, always.
LEMMA SentCorrect == Spec => []Sent
<1>1. Init => Sent
  BY DEF Init, Sent, Writing
<1>2. DriverInv /\ Sent /\ [Next]_vars => Sent'
  <2> SUFFICES ASSUME DriverInv, Sent, UNCHANGED <<pc, job, txFifo>> PROVE Sent'
    BY SentStep DEF Next, vars, chipVars, Receive, TransmitSucceeds, HardResetSignalled, Arrives
  <2> QED  BY DEF Sent, Preamble, PACKSYM, MsgLen, Bytes
<1> QED  BY <1>1, <1>2, DriverCorrect, PTL DEF Spec

\* What the chip sends is the message fusb_send_message was called with, the whole of it
\* and nothing else (fusb302b.c:111-121), for any threads and any messages.
THEOREM SendsCorrect == Spec => SendsWhole
<1>1. DriverInv /\ Sent /\ [Next]_vars
        => [\A t \in Thread : pc[t] = "eop" /\ pc'[t] # "eop" => phyTx' = Bytes(job[t].msg)]_vars
  BY SentWhole
<1> QED  BY <1>1, DriverCorrect, SentCorrect, PTL DEF Spec, SendsWhole

-----------------------------------------------------------------------------
(* The receive FIFO.  It is a row of frames, of the first of which the     *)
(* first c bytes have been read already; pos says where each frame starts, *)
(* counted from the first byte that has not.                               *)

FrameLen(m)     == MsgLen(m) + 5
FrameByte(m, j) == IF j = 0 THEN SOP ELSE IF j <= MsgLen(m) THEN <<m, j>> ELSE CRC
Frame(m)        == <<SOP>> \o Bytes(m) \o <<CRC, CRC, CRC, CRC>>

RxSymbol == ({"SOP", "CRC"} \X Nat) \cup (Message \X Nat)

Framed(f, c, msgs, pos) ==
    /\ f \in Seq(RxSymbol) /\ c \in Nat /\ msgs \in Seq(Message)
    /\ pos \in [1..Len(msgs) + 1 -> Int]
    /\ pos[1] = 1 - c /\ pos[Len(msgs) + 1] = Len(f) + 1
    /\ \A k \in 1..Len(msgs) : pos[k + 1] = pos[k] + FrameLen(msgs[k])
    /\ \A k, l \in 1..Len(msgs) + 1 : k < l => pos[k] < pos[l]
    /\ \A k \in 1..Len(msgs) : \A i \in 1..Len(f) :
           pos[k] <= i /\ i < pos[k + 1] => f[i] = FrameByte(msgs[k], i - pos[k])
    /\ \A i \in 1..Len(f) : \E k \in 1..Len(msgs) : pos[k] <= i /\ i < pos[k + 1]

\* A message has a header at least.
LEMMA LengthType == \A m \in Message : MsgLen(m) \in Nat /\ MsgLen(m) >= 2
BY MessageAssumption DEF MsgLen

\* Where the elements of a concatenation are.
LEMMA ConcatAt ==
    ASSUME NEW S, NEW s \in Seq(S), NEW t \in Seq(S)
    PROVE  /\ Len(s) \in Nat /\ Len(t) \in Nat
           /\ s \o t \in Seq(S) /\ Len(s \o t) = Len(s) + Len(t)
           /\ \A i \in 1..Len(s) : (s \o t)[i] = s[i]
           /\ \A i \in 1..Len(t) : (s \o t)[Len(s) + i] = t[i]
<1>1. Len(s) \in Nat /\ Len(t) \in Nat
  OBVIOUS
<1>2. /\ s \o t \in Seq(S) /\ Len(s \o t) = Len(s) + Len(t)
      /\ \A i \in 1..Len(s) + Len(t) : (s \o t)[i] = IF i <= Len(s) THEN s[i] ELSE t[i - Len(s)]
  BY ConcatProperties
<1>3. ASSUME NEW i \in 1..Len(s) PROVE (s \o t)[i] = s[i]
  BY <1>1, <1>2
<1>4. ASSUME NEW i \in 1..Len(t) PROVE (s \o t)[Len(s) + i] = t[i]
  <2>1. Len(s) + i \in 1..Len(s) + Len(t) /\ ~(Len(s) + i <= Len(s)) /\ (Len(s) + i) - Len(s) = i
    BY <1>1
  <2> QED  BY <1>2, <2>1
<1> QED  BY <1>1, <1>2, <1>3, <1>4

\* A frame, byte by byte.
LEMMA FrameIs ==
    ASSUME NEW m \in Message
    PROVE  /\ Frame(m) \in Seq(RxSymbol) /\ Len(Frame(m)) = FrameLen(m)
           /\ \A j \in 0..FrameLen(m) - 1 : Frame(m)[j + 1] = FrameByte(m, j)
<1> DEFINE a == <<SOP>>
           b == Bytes(m)
           d == <<CRC, CRC, CRC, CRC>>
           n == MsgLen(m)
           ab == a \o b
           f == ab \o d
<1>1. n \in Nat /\ n >= 2
  BY LengthType
<1>2. b \in Seq(RxSymbol) /\ Len(b) = n /\ \A i \in 1..n : b[i] = <<m, i>>
  <2>1. b = [i \in 1..n |-> <<m, i>>] /\ \A i \in 1..n : <<m, i>> \in RxSymbol
    BY DEF Bytes, RxSymbol
  <2> HIDE DEF b, n
  <2> QED  BY <1>1, <2>1
<1>3. /\ a \in Seq(RxSymbol) /\ Len(a) = 1 /\ a[1] = SOP
      /\ d \in Seq(RxSymbol) /\ Len(d) = 4 /\ \A i \in 1..4 : d[i] = CRC
  BY DEF SOP, CRC, RxSymbol
<1> HIDE DEF a, b, d, n
<1>4. /\ ab \in Seq(RxSymbol) /\ Len(ab) = 1 + n /\ ab[1] = SOP
      /\ \A j \in 1..n : ab[1 + j] = <<m, j>>
  <2>1. /\ ab \in Seq(RxSymbol) /\ Len(ab) = Len(a) + Len(b)
        /\ \A i \in 1..Len(a) : ab[i] = a[i]
        /\ \A i \in 1..Len(b) : ab[Len(a) + i] = b[i]
    <3>1. a \in Seq(RxSymbol) /\ b \in Seq(RxSymbol)
      BY <1>2, <1>3
    <3> QED  BY <3>1, ConcatAt
  <2> HIDE DEF ab
  <2> QED  BY <1>1, <1>2, <1>3, <2>1
<1> HIDE DEF ab
<1>5. /\ f \in Seq(RxSymbol) /\ Len(f) = n + 5
      /\ \A i \in 1..1 + n : f[i] = ab[i]
      /\ \A i \in 1..4 : f[1 + n + i] = CRC
  <2>1. /\ f \in Seq(RxSymbol) /\ Len(f) = Len(ab) + Len(d)
        /\ \A i \in 1..Len(ab) : f[i] = ab[i]
        /\ \A i \in 1..Len(d) : f[Len(ab) + i] = d[i]
    <3>1. ab \in Seq(RxSymbol) /\ d \in Seq(RxSymbol)
      BY <1>3, <1>4
    <3> QED  BY <3>1, ConcatAt
  <2> HIDE DEF f
  <2> QED  BY <1>1, <1>3, <1>4, <2>1
<1> HIDE DEF f
<1>6. ASSUME NEW j \in 0..n + 4
      PROVE  f[j + 1] = IF j = 0 THEN SOP ELSE IF j <= n THEN <<m, j>> ELSE CRC
  <2>1. CASE j = 0
    BY <1>1, <1>4, <1>5, <2>1
  <2>2. CASE j \in 1..n
    <3>1. 1 + j \in 1..1 + n /\ j + 1 = 1 + j /\ j # 0 /\ j <= n
      BY <1>1, <2>2
    <3>2. f[1 + j] = ab[1 + j] /\ ab[1 + j] = <<m, j>>
      BY <1>4, <1>5, <2>2, <3>1
    <3> QED  BY <3>1, <3>2
  <2>3. CASE j > n
    <3>1. j - n \in 1..4 /\ 1 + n + (j - n) = j + 1
      BY <1>1, <2>3
    <3>2. f[1 + n + (j - n)] = CRC
      BY <1>5, <3>1
    <3> QED  BY <1>1, <2>3, <3>1, <3>2
  <2> QED  BY <1>1, <2>1, <2>2, <2>3
<1>7. FrameLen(m) = n + 5 /\ FrameLen(m) - 1 = n + 4 /\ Frame(m) = f
  BY <1>1 DEF FrameLen, Frame, n, f, ab, a, b, d
<1> QED  BY <1>5, <1>6, <1>7 DEF FrameByte, n

\* A frame that arrives is the last of the row.
LEMMA FramedArrive ==
    ASSUME NEW f, NEW c, NEW msgs, NEW pos, Framed(f, c, msgs, pos), NEW m \in Message
    PROVE  /\ Append(msgs, m) \in Seq(Message)
           /\ \E after : Framed(f \o Frame(m), c, Append(msgs, m), after)
<1> DEFINE n == Len(msgs)
           e == Len(f)
           z == FrameLen(m)
           g == f \o Frame(m)
           all == Append(msgs, m)
           after == [k \in 1..n + 2 |-> IF k <= n + 1 THEN pos[k] ELSE e + 1 + z]
<1>1. /\ f \in Seq(RxSymbol) /\ c \in Nat /\ msgs \in Seq(Message) /\ n \in Nat /\ e \in Nat
      /\ pos \in [1..n + 1 -> Int] /\ pos[1] = 1 - c /\ pos[n + 1] = e + 1
  BY DEF Framed
<1>2. z \in Nat /\ z >= 7
  BY LengthType DEF FrameLen
<1>3. /\ g \in Seq(RxSymbol) /\ Len(g) = e + z
      /\ \A i \in 1..e : g[i] = f[i]
      /\ \A i \in e + 1..e + z : g[i] = FrameByte(m, i - (e + 1))
  <2>1. /\ g \in Seq(RxSymbol) /\ Len(g) = Len(f) + Len(Frame(m))
        /\ \A i \in 1..Len(f) : g[i] = f[i]
        /\ \A i \in 1..Len(Frame(m)) : g[Len(f) + i] = Frame(m)[i]
    BY <1>1, FrameIs, ConcatAt
  <2>2. Len(Frame(m)) = z /\ \A j \in 0..z - 1 : Frame(m)[j + 1] = FrameByte(m, j)
    BY FrameIs
  <2> HIDE DEF g, z, e
  <2>3. ASSUME NEW i \in e + 1..e + z PROVE g[i] = FrameByte(m, i - (e + 1))
    <3>1. i - (e + 1) \in 0..z - 1 /\ i - e \in 1..z /\ (i - (e + 1)) + 1 = i - e /\ e + (i - e) = i
      BY <1>1, <1>2
    <3>2. g[e + (i - e)] = Frame(m)[i - e]
      BY <2>1, <2>2, <3>1 DEF e
    <3>3. Frame(m)[i - e] = FrameByte(m, i - (e + 1))
      BY <2>2, <3>1
    <3> QED  BY <3>1, <3>2, <3>3
  <2> QED  BY <2>1, <2>2, <2>3 DEF e
<1>4. /\ all \in Seq(Message) /\ Len(all) = n + 1 /\ all[n + 1] = m
      /\ \A k \in 1..n : all[k] = msgs[k]
  BY <1>1, AppendProperties
<1> HIDE DEF g, all, n, e, z
<1>5. /\ after \in [1..n + 2 -> Int] /\ after[n + 2] = Len(g) + 1
      /\ \A k \in 1..n + 1 : after[k] = pos[k]
  <2>1. /\ n + 2 \in 1..n + 2 /\ ~(n + 2 <= n + 1)
        /\ \A k \in 1..n + 1 : k \in 1..n + 2 /\ k <= n + 1
        /\ \A k \in 1..n + 2 : k <= n + 1 => k \in 1..n + 1
    BY <1>1
  <2>2. e + 1 + z \in Int /\ e + 1 + z = Len(g) + 1
    BY <1>1, <1>2, <1>3
  <2>3. ASSUME NEW k \in 1..n + 2 PROVE (IF k <= n + 1 THEN pos[k] ELSE e + 1 + z) \in Int
    BY <1>1, <2>1, <2>2
  <2> QED  BY <2>1, <2>2, <2>3
<1> HIDE DEF after
<1>6. ASSUME NEW k \in 1..n
      PROVE  /\ k \in 1..n + 1 /\ k + 1 \in 1..n + 1
             /\ after[k] = pos[k] /\ after[k + 1] = pos[k + 1] /\ all[k] = msgs[k]
             /\ pos[k] \in Int /\ pos[k + 1] \in Int /\ pos[k + 1] <= e + 1
  <2>1. k \in 1..n + 1 /\ k + 1 \in 1..n + 1 /\ n + 1 \in 1..n + 1 /\ (k + 1 < n + 1 \/ k + 1 = n + 1)
    BY <1>1
  <2>2. k + 1 < n + 1 => pos[k + 1] < pos[n + 1]
    BY <2>1 DEF Framed, n
  <2> QED  BY <1>1, <1>4, <1>5, <2>1, <2>2
<1>7. after[n + 1] = e + 1 /\ after[n + 1 + 1] = e + 1 + z /\ all[n + 1] = m /\ n + 1 + 1 = n + 2
  BY <1>1, <1>2, <1>3, <1>4, <1>5
<1>8. \A k \in 1..n + 1 : after[k + 1] = after[k] + FrameLen(all[k])
  <2> SUFFICES ASSUME NEW k \in 1..n + 1 PROVE after[k + 1] = after[k] + FrameLen(all[k])
    OBVIOUS
  <2>1. CASE k = n + 1
    BY <1>7, <2>1 DEF z
  <2>2. CASE k \in 1..n
    <3>1. pos[k + 1] = pos[k] + FrameLen(msgs[k])
      BY <2>2 DEF Framed, n
    <3> QED  BY <1>6, <2>2, <3>1
  <2> QED  BY <1>1, <2>1, <2>2
<1>9. \A k, l \in 1..n + 2 : k < l => after[k] < after[l]
  <2> SUFFICES ASSUME NEW k \in 1..n + 2, NEW l \in 1..n + 2, k < l PROVE after[k] < after[l]
    OBVIOUS
  <2>1. \A i, j \in 1..n + 1 : i < j => pos[i] < pos[j]
    BY DEF Framed, n
  <2>2. k \in 1..n + 1 /\ n + 1 \in 1..n + 1 /\ (k < n + 1 \/ k = n + 1)
    BY <1>1
  <2>3. pos[k] \in Int /\ pos[k] <= e + 1 /\ after[k] = pos[k]
    BY <1>1, <1>5, <2>1, <2>2
  <2>4. CASE l = n + 2
    BY <1>1, <1>2, <1>7, <2>3, <2>4
  <2>5. CASE l \in 1..n + 1
    BY <1>5, <2>1, <2>2, <2>5
  <2> QED  BY <1>1, <2>4, <2>5
<1>10. ASSUME NEW k \in 1..n + 1, NEW i \in 1..Len(g), after[k] <= i, i < after[k + 1]
      PROVE  g[i] = FrameByte(all[k], i - after[k])
  <2>1. CASE k = n + 1
    <3>1. i \in e + 1..e + z
      BY <1>1, <1>2, <1>3, <1>7, <1>10, <2>1
    <3> QED  BY <1>3, <1>7, <2>1, <3>1
  <2>2. CASE k \in 1..n
    <3>1. pos[k] <= i /\ i < pos[k + 1]
      BY <1>6, <1>10, <2>2
    <3>2. i \in 1..e
      <4>1. pos[k] \in Int /\ pos[k + 1] \in Int /\ pos[k + 1] <= e + 1
        BY <1>6, <2>2
      <4>2. Len(g) = e + z
        BY <1>3
      <4> QED  BY <1>1, <1>2, <3>1, <4>1, <4>2
    <3>3. f[i] = FrameByte(msgs[k], i - pos[k])
      BY <2>2, <3>1, <3>2 DEF Framed, n, e
    <3> QED  BY <1>3, <1>6, <2>2, <3>2, <3>3
  <2> QED  BY <1>1, <2>1, <2>2
<1>11. ASSUME NEW i \in 1..Len(g) PROVE \E k \in 1..n + 1 : after[k] <= i /\ i < after[k + 1]
  <2>1. CASE i \in 1..e
    <3>1. PICK k \in 1..n : pos[k] <= i /\ i < pos[k + 1]
      BY <2>1 DEF Framed, n, e
    <3> QED  BY <1>6, <3>1
  <2>2. CASE i \notin 1..e
    <3>1. after[n + 1] <= i /\ i < after[n + 1 + 1]
      <4>1. Len(g) = e + z
        BY <1>3
      <4>2. e + 1 <= i /\ i < e + 1 + z
        BY <1>1, <1>2, <2>2, <4>1
      <4> QED  BY <1>7, <4>2
    <3>2. n + 1 \in 1..n + 1
      BY <1>1
    <3> QED  BY <3>1, <3>2
  <2> QED  BY <2>1, <2>2
<1>12. after[1] = 1 - c
  BY <1>1, <1>5
<1>13. Len(all) + 1 = n + 2 /\ after[Len(all) + 1] = Len(g) + 1
  BY <1>1, <1>4, <1>5
<1>14. Framed(g, c, all, after)
  BY <1>1, <1>3, <1>4, <1>5, <1>8, <1>9, <1>10, <1>11, <1>12, <1>13 DEF Framed
<1> QED  BY <1>4, <1>14 DEF g, all

\* Where the frames are, as numbers.
LEMMA FramedBounds ==
    ASSUME NEW f, NEW c, NEW msgs, NEW pos, Framed(f, c, msgs, pos)
    PROVE  /\ Len(f) \in Nat /\ Len(msgs) \in Nat /\ c \in Nat
           /\ \A k \in 1..Len(msgs) + 1 : pos[k] \in Int /\ 1 - c <= pos[k] /\ pos[k] <= Len(f) + 1
           /\ \A k \in 1..Len(msgs) : /\ k \in 1..Len(msgs) + 1 /\ k + 1 \in 1..Len(msgs) + 1
                                      /\ msgs[k] \in Message /\ FrameLen(msgs[k]) \in Nat
                                      /\ FrameLen(msgs[k]) >= 7
<1> DEFINE n == Len(msgs)
           e == Len(f)
<1>1. /\ f \in Seq(RxSymbol) /\ c \in Nat /\ msgs \in Seq(Message) /\ n \in Nat /\ e \in Nat
      /\ pos \in [1..n + 1 -> Int] /\ pos[1] = 1 - c /\ pos[n + 1] = e + 1
      /\ \A k, l \in 1..n + 1 : k < l => pos[k] < pos[l]
  BY DEF Framed
<1>2. \A k \in 1..n : msgs[k] \in Message
  BY <1>1, ElementOfSeq
<1>3. \A m \in Message : FrameLen(m) \in Nat /\ FrameLen(m) >= 7
  BY LengthType DEF FrameLen
<1> HIDE DEF n, e
<1>4. ASSUME NEW k \in 1..n + 1
      PROVE  pos[k] \in Int /\ 1 - c <= pos[k] /\ pos[k] <= e + 1
  <2>1. /\ 1 \in 1..n + 1 /\ n + 1 \in 1..n + 1 /\ (k = 1 \/ 1 < k) /\ (k = n + 1 \/ k < n + 1)
    BY <1>1
  <2>2. pos[k] \in Int /\ pos[1] \in Int /\ pos[n + 1] \in Int
    BY <1>1, <2>1
  <2>3. pos[1] <= pos[k] /\ pos[k] <= pos[n + 1]
    BY <1>1, <2>1, <2>2
  <2> QED  BY <1>1, <2>2, <2>3
<1>5. ASSUME NEW k \in 1..n PROVE k \in 1..n + 1 /\ k + 1 \in 1..n + 1
  BY <1>1
<1> QED  BY <1>1, <1>2, <1>3, <1>4, <1>5 DEF n, e

\* What is left of the first frame is in the FIFO.
LEMMA FramedFirst ==
    ASSUME NEW f, NEW c, NEW msgs, NEW pos, Framed(f, c, msgs, pos), msgs # <<>>
    PROVE  /\ Len(msgs) \in Nat \ {0} /\ 1 \in 1..Len(msgs) /\ msgs[1] \in Message
           /\ FrameLen(msgs[1]) - c <= Len(f)
           /\ pos[2] = 1 - c + FrameLen(msgs[1])
           /\ \A i \in 1..Len(f) : i <= FrameLen(msgs[1]) - c
                                      => f[i] = FrameByte(msgs[1], c + i - 1)
<1>1. Len(msgs) \in Nat \ {0} /\ 1 \in 1..Len(msgs) /\ 1 + 1 = 2
  <2>1. msgs \in Seq(Message)
    BY DEF Framed
  <2>2. Len(msgs) \in Nat \ {0}
    BY <2>1, EmptySeq
  <2> QED  BY <2>2
<1>2. /\ Len(f) \in Nat /\ c \in Nat /\ msgs[1] \in Message /\ FrameLen(msgs[1]) \in Nat
      /\ 2 \in 1..Len(msgs) + 1 /\ pos[2] \in Int /\ pos[2] <= Len(f) + 1
  BY <1>1, FramedBounds
<1>3. pos[1] = 1 - c /\ pos[2] = pos[1] + FrameLen(msgs[1])
  BY <1>1 DEF Framed
<1>4. ASSUME NEW i \in 1..Len(f), i <= FrameLen(msgs[1]) - c
      PROVE  f[i] = FrameByte(msgs[1], c + i - 1)
  <2>1. pos[1] <= i /\ i < pos[2] /\ i - pos[1] = c + i - 1
    BY <1>2, <1>3, <1>4
  <2>2. f[i] = FrameByte(msgs[1], i - pos[1])
    BY <1>1, <2>1 DEF Framed
  <2> QED  BY <2>1, <2>2
<1> QED  BY <1>1, <1>2, <1>3, <1>4

\* Reading on in the first frame.
LEMMA FramedTake ==
    ASSUME NEW f, NEW c, NEW msgs, NEW pos, Framed(f, c, msgs, pos), msgs # <<>>,
           NEW n \in Nat, c + n <= FrameLen(msgs[1])
    PROVE  /\ n <= Len(f)
           /\ \E after : Framed(SubSeq(f, n + 1, Len(f)), c + n, msgs, after)
<1> DEFINE e == Len(f)
           z == Len(msgs)
           g == SubSeq(f, n + 1, e)
           after == [k \in 1..z + 1 |-> pos[k] - n]
<1>1. /\ e \in Nat /\ z \in Nat /\ c \in Nat /\ msgs[1] \in Message
      /\ FrameLen(msgs[1]) \in Nat /\ FrameLen(msgs[1]) - c <= e
  BY FramedBounds, FramedFirst
<1>2. /\ f \in Seq(RxSymbol) /\ msgs \in Seq(Message)
      /\ pos \in [1..z + 1 -> Int] /\ pos[1] = 1 - c /\ pos[z + 1] = e + 1
  BY DEF Framed
<1> HIDE DEF z
<1>3. n <= e /\ n + 1 \in Int /\ e \in Int /\ e - (n + 1) + 1 = e - n
  BY <1>1
<1>4. g \in Seq(RxSymbol) /\ Len(g) = e - n /\ \A i \in 1..e - n : g[i] = f[n + i]
  <2>1. \A i \in n + 1..e : f[i] \in RxSymbol
    <3>1. \A i \in n + 1..e : i \in 1..e
      BY <1>1
    <3> QED  BY <1>2, <3>1, ElementOfSeq
  <2>2. /\ g \in Seq(RxSymbol) /\ Len(g) = IF n + 1 <= e THEN e - (n + 1) + 1 ELSE 0
        /\ \A i \in 1..e - (n + 1) + 1 : g[i] = f[n + 1 + i - 1]
    BY <1>3, <2>1, SubSeqProperties
  <2> HIDE DEF g, e
  <2>3. \A i \in 1..e - n : n + 1 + i - 1 = n + i
    BY <1>1
  <2> QED  BY <1>1, <1>3, <2>2, <2>3
<1> HIDE DEF g, e
<1>5. after \in [1..z + 1 -> Int] /\ \A k \in 1..z + 1 : after[k] = pos[k] - n /\ pos[k] \in Int
  BY <1>2
<1> HIDE DEF after
<1>6. 1 \in 1..z + 1 /\ z + 1 \in 1..z + 1 /\ \A k \in 1..z : k \in 1..z + 1 /\ k + 1 \in 1..z + 1
  BY <1>1
<1>7. after[1] = 1 - (c + n) /\ after[z + 1] = Len(g) + 1 /\ c + n \in Nat
  BY <1>1, <1>2, <1>4, <1>5, <1>6
<1>8. ASSUME NEW k \in 1..z PROVE after[k + 1] = after[k] + FrameLen(msgs[k])
  <2>1. pos[k + 1] = pos[k] + FrameLen(msgs[k]) /\ FrameLen(msgs[k]) \in Nat
    BY FramedBounds DEF Framed, z
  <2> QED  BY <1>5, <1>6, <2>1
<1>9. ASSUME NEW k \in 1..z + 1, NEW l \in 1..z + 1, k < l PROVE after[k] < after[l]
  <2>1. pos[k] < pos[l]
    BY <1>9 DEF Framed, z
  <2> QED  BY <1>5, <2>1
<1>10. ASSUME NEW i \in 1..Len(g) PROVE n + i \in 1..e /\ g[i] = f[n + i]
  BY <1>1, <1>4
<1>11. ASSUME NEW k \in 1..z, NEW i \in 1..Len(g), after[k] <= i, i < after[k + 1]
       PROVE  g[i] = FrameByte(msgs[k], i - after[k])
  <2>1. PICK j \in 1..e : j = n + i /\ g[i] = f[j]
    BY <1>10
  <2>2. pos[k] <= j /\ j < pos[k + 1] /\ j - pos[k] = i - after[k]
    <3>1. /\ pos[k] \in Int /\ pos[k + 1] \in Int
          /\ after[k] = pos[k] - n /\ after[k + 1] = pos[k + 1] - n
      BY <1>5, <1>6
    <3>2. n \in Int /\ i \in Int
      BY <1>1, <1>4
    <3> QED  BY <1>11, <2>1, <3>1, <3>2
  <2>3. f[j] = FrameByte(msgs[k], j - pos[k])
    BY <2>2 DEF Framed, z, e
  <2> QED  BY <2>1, <2>2, <2>3
<1>12. ASSUME NEW i \in 1..Len(g) PROVE \E k \in 1..z : after[k] <= i /\ i < after[k + 1]
  <2>1. PICK j \in 1..e : j = n + i
    BY <1>10
  <2>2. PICK k \in 1..z : pos[k] <= j /\ j < pos[k + 1]
    BY DEF Framed, z, e
  <2>3. after[k] <= i /\ i < after[k + 1]
    BY <1>5, <1>6, <2>1, <2>2
  <2> QED  BY <2>3
<1>13. Framed(g, c + n, msgs, after)
  BY <1>2, <1>4, <1>5, <1>7, <1>8, <1>9, <1>11, <1>12 DEF Framed, z
<1> QED  BY <1>3, <1>13 DEF g, e

\* Once all of it has been read, the first frame is gone.
LEMMA FramedDrop ==
    ASSUME NEW f, NEW msgs, NEW pos, msgs # <<>>, Framed(f, FrameLen(msgs[1]), msgs, pos)
    PROVE  /\ Tail(msgs) \in Seq(Message)
           /\ \E after : Framed(f, 0, Tail(msgs), after)
<1> DEFINE e == Len(f)
           rest == Tail(msgs)
           z == Len(rest)
           after == [k \in 1..z + 1 |-> pos[k + 1]]
<1>1. /\ rest \in Seq(Message) /\ z = Len(msgs) - 1 /\ \A k \in 1..z : rest[k] = msgs[k + 1]
      /\ Len(msgs) \in Nat \ {0}
  <2>1. msgs \in Seq(Message)
    BY DEF Framed
  <2> QED  BY <2>1, HeadTailProperties, FramedFirst
<1>2. /\ f \in Seq(RxSymbol) /\ e \in Nat /\ pos \in [1..Len(msgs) + 1 -> Int]
      /\ pos[Len(msgs) + 1] = e + 1 /\ pos[2] = 1
  BY FramedFirst, FramedBounds DEF Framed
<1> HIDE DEF z, rest
<1>3. z \in Nat /\ z + 1 = Len(msgs) /\ z + 2 = Len(msgs) + 1
  BY <1>1
<1>4. ASSUME NEW k \in 1..z + 1 PROVE k + 1 \in 1..Len(msgs) + 1 /\ k + 1 \in Nat
  BY <1>3
<1>5. after \in [1..z + 1 -> Int] /\ \A k \in 1..z + 1 : after[k] = pos[k + 1]
  BY <1>2, <1>4
<1> HIDE DEF after, e
<1>6. after[1] = 1 - 0 /\ after[z + 1] = e + 1
  BY <1>2, <1>3, <1>5
<1>7. ASSUME NEW k \in 1..z
      PROVE  /\ k + 1 \in 1..Len(msgs) /\ rest[k] = msgs[k + 1]
             /\ after[k] = pos[k + 1] /\ after[k + 1] = pos[k + 1 + 1]
  <2>1. k \in 1..z + 1 /\ k + 1 \in 1..z + 1 /\ k + 1 \in 1..Len(msgs)
    BY <1>3
  <2> QED  BY <1>1, <1>5, <2>1
<1>8. ASSUME NEW k \in 1..z PROVE after[k + 1] = after[k] + FrameLen(rest[k])
  <2>1. pos[k + 1 + 1] = pos[k + 1] + FrameLen(msgs[k + 1])
    BY <1>7 DEF Framed
  <2> QED  BY <1>7, <2>1
<1>9. ASSUME NEW k \in 1..z + 1, NEW l \in 1..z + 1, k < l PROVE after[k] < after[l]
  <2>1. k + 1 < l + 1
    BY <1>3, <1>9
  <2>2. pos[k + 1] < pos[l + 1]
    BY <1>4, <2>1 DEF Framed
  <2> QED  BY <1>5, <2>2
<1>10. ASSUME NEW k \in 1..z, NEW i \in 1..e, after[k] <= i, i < after[k + 1]
       PROVE  f[i] = FrameByte(rest[k], i - after[k])
  <2>1. f[i] = FrameByte(msgs[k + 1], i - pos[k + 1])
    BY <1>7, <1>10 DEF Framed, e
  <2> QED  BY <1>7, <2>1
<1>11. ASSUME NEW i \in 1..e PROVE \E k \in 1..z : after[k] <= i /\ i < after[k + 1]
  <2>1. PICK k \in 1..Len(msgs) : pos[k] <= i /\ i < pos[k + 1]
    BY DEF Framed, e
  <2>2. k # 1
    BY <1>2, <2>1
  <2>3. k - 1 \in 1..z /\ k - 1 + 1 = k
    BY <1>3, <2>2
  <2>4. after[k - 1] = pos[k] /\ after[k - 1 + 1] = pos[k + 1]
    BY <1>7, <2>3
  <2> QED  BY <2>1, <2>3, <2>4
<1>12. Framed(f, 0, rest, after)
  BY <1>1, <1>2, <1>5, <1>6, <1>8, <1>9, <1>10, <1>11 DEF Framed, z, e
<1> QED  BY <1>1, <1>12 DEF rest

\* The elements of a row of growing numbers, counted.
LEMMA NthIs ==
    ASSUME NEW n \in Nat, NEW p \in [1..n -> Int], \A k, l \in 1..n : k < l => p[k] < p[l],
           NEW S, S = {p[k] : k \in 1..n}
    PROVE  Cardinality(S) = n /\ \A k \in 1..n : Nth(S, k) = p[k]
<1>1. \A k, l \in 1..n : p[k] = p[l] => k = l
  <2> SUFFICES ASSUME NEW k \in 1..n, NEW l \in 1..n, p[k] = p[l], k # l PROVE FALSE
    OBVIOUS
  <2> QED  BY k < l \/ l < k
<1>2. ASSUME NEW k \in 0..n, NEW T, T = {p[l] : l \in 1..k} PROVE Cardinality(T) = k
  <2> DEFINE q == [l \in 1..k |-> p[l]]
  <2>1. 1..k \subseteq 1..n /\ k \in Nat
    OBVIOUS
  <2>2. q \in [1..k -> T] /\ \A l \in 1..k : q[l] = p[l] /\ l \in 1..n
    BY <1>2, <2>1
  <2> HIDE DEF q
  <2>3. q \in Bijection(1..k, T)
    BY <1>1, <1>2, <2>2 DEF Bijection, Injection, Surjection, IsInjective
  <2> QED  BY <2>1, <2>3, FS_CountingElements DEF ExistsBijection
<1>3. ASSUME NEW k \in 1..n PROVE {j \in S : j <= p[k]} = {p[l] : l \in 1..k}
  <2>1. ASSUME NEW l \in 1..n PROVE p[l] <= p[k] <=> l \in 1..k
    <3>1. p[l] \in Int /\ p[k] \in Int /\ (l < k \/ l = k \/ k < l)
      OBVIOUS
    <3> QED  BY <3>1
  <2> QED  BY <2>1
<1>4. ASSUME NEW k \in 1..n PROVE Nth(S, k) = p[k]
  <2>1. \A l \in 1..n : Cardinality({j \in S : j <= p[l]}) = l
    BY <1>2, <1>3
  <2>2. p[k] \in S /\ Cardinality({j \in S : j <= p[k]}) = k
    BY <2>1
  <2>3. \A i \in S : Cardinality({j \in S : j <= i}) = k => i = p[k]
    BY <2>1
  <2> QED  BY <2>2, <2>3 DEF Nth
<1>5. Cardinality(S) = n
  BY <1>2
<1> QED  BY <1>4, <1>5

\* The position of a byte is its second part, and only a message's first byte is a first.
LEMMA FirstByte ==
    ASSUME NEW m \in Message, NEW j \in Nat
    PROVE  /\ j = 1 => FrameByte(m, j) = <<m, 1>>
           /\ j # 1 => FrameByte(m, j)[2] # 1
<1>1. 1 <= MsgLen(m)
  BY LengthType
<1> QED  BY <1>1 DEF FrameByte, SOP, CRC

\* The messages that are still in the FIFO with their first byte, in order: all of the
\* row, or all but the first, once its header is being or has been read.
LEMMA ReceivedFrom ==
    ASSUME NEW f, NEW c, NEW msgs, NEW pos, Framed(f, c, msgs, pos),
           NEW off \in {0, 1}, NEW rest \in Seq(Message), Len(rest) + off = Len(msgs),
           \A k \in 1..Len(rest) : rest[k] = msgs[k + off],
           off = 0 => c \in {0, 1},
           off = 1 => c >= 2 /\ c <= FrameLen(msgs[1])
    PROVE  Received(f) = rest
<1> DEFINE n == Len(rest)
           z == Len(msgs)
           e == Len(f)
           p == [k \in 1..n |-> pos[k + off] + 1]
<1>1. /\ z \in Nat /\ e \in Nat /\ c \in Nat /\ f \in Seq(RxSymbol)
      /\ \A k \in 1..z + 1 : pos[k] \in Int /\ 1 - c <= pos[k] /\ pos[k] <= e + 1
      /\ \A k \in 1..z : /\ k \in 1..z + 1 /\ k + 1 \in 1..z + 1
                         /\ msgs[k] \in Message /\ FrameLen(msgs[k]) \in Nat /\ FrameLen(msgs[k]) >= 7
                         /\ pos[k + 1] = pos[k] + FrameLen(msgs[k])
  BY FramedBounds DEF Framed
<1>2. \A k, l \in 1..z + 1 : k < l => pos[k] < pos[l]
  BY DEF Framed
<1>3. pos[1] = 1 - c /\ (off = 1 => pos[2] >= 1)
  <2>1. off = 1 => msgs # <<>>
    BY EmptySeq
  <2>2. pos[1] = 1 - c
    BY DEF Framed
  <2>3. ASSUME off = 1 PROVE pos[2] >= 1
    <3>1. pos[2] = 1 - c + FrameLen(msgs[1]) /\ 1 \in 1..z
      BY <2>1, <2>3, FramedFirst
    <3>2. FrameLen(msgs[1]) \in Nat
      BY <1>1, <3>1
    <3> QED  BY <1>1, <2>3, <3>1, <3>2
  <2> QED  BY <2>2, <2>3
<1>0. n \in Nat /\ n + off = z
  OBVIOUS
<1> HIDE DEF z, e, n
<1>4. ASSUME NEW k \in 1..n
      PROVE  k + off \in 1..z /\ k + off \in 1..z + 1 /\ pos[k + off] \in Int
  <2>1. k + off \in 1..z
    BY <1>0
  <2> QED  BY <1>1, <2>1
<1>5. p \in [1..n -> Int] /\ \A k \in 1..n : p[k] = pos[k + off] + 1
  <2>1. ASSUME NEW k \in 1..n PROVE pos[k + off] + 1 \in Int
    <3>1. pos[k + off] \in Int
      BY <1>4
    <3> QED  BY <3>1
  <2> QED  BY <2>1
<1> HIDE DEF p
<1>6. \A k, l \in 1..n : k < l => p[k] < p[l]
  <2> SUFFICES ASSUME NEW k \in 1..n, NEW l \in 1..n, k < l PROVE p[k] < p[l]
    OBVIOUS
  <2>1. k + off < l + off
    BY off \in Int
  <2>2. pos[k + off] < pos[l + off]
    BY <1>2, <1>4, <2>1
  <2> QED  BY <1>4, <1>5, <2>2
<1>7. ASSUME NEW k \in 1..n
      PROVE  p[k] \in 1..e /\ f[p[k]] = <<msgs[k + off], 1>> /\ msgs[k + off] \in Message
  <2>1. PICK l \in 1..z : l = k + off /\ p[k] = pos[l] + 1
    BY <1>4, <1>5
  <2>2. /\ pos[l] \in Int /\ pos[l + 1] \in Int /\ pos[l + 1] = pos[l] + FrameLen(msgs[l])
        /\ FrameLen(msgs[l]) \in Nat /\ FrameLen(msgs[l]) >= 7 /\ msgs[l] \in Message
        /\ pos[l + 1] <= e + 1
    BY <1>1
  <2>3. pos[l] >= 0
    <3>1. CASE off = 0
      <4>1. c \in {0, 1} /\ 1 - c <= pos[l]
        BY <1>1, <3>1
      <4> QED  BY <2>2, <4>1
    <3>2. CASE off = 1
      <4>1. l = 2 \/ 2 < l
        BY <2>1, <3>2
      <4>2. 2 \in 1..z + 1 /\ l \in 1..z + 1
        BY <1>1, <2>1, <4>1
      <4>3. pos[2] \in Int
        BY <1>1, <4>2
      <4>4. pos[2] <= pos[l]
        <5>1. CASE l = 2
          BY <4>3, <5>1
        <5>2. CASE 2 < l
          BY <1>2, <2>2, <4>2, <4>3, <5>2
        <5> QED  BY <4>1, <5>1, <5>2
      <4> QED  BY <1>3, <2>2, <3>2, <4>3, <4>4
    <3> QED  BY <3>1, <3>2
  <2>4. PICK i \in 1..e : i = pos[l] + 1
    <3>1. e \in Nat
      BY <1>1
    <3>2. pos[l] + 1 \in 1..e
      BY <2>2, <2>3, <3>1, SMTT(40)
    <3> QED  BY <3>2
  <2>5. pos[l] <= i /\ i < pos[l + 1] /\ i - pos[l] = 1
    BY <2>2, <2>4
  <2>6. f[i] = FrameByte(msgs[l], i - pos[l])
    BY <2>5 DEF Framed, z, e
  <2>7. f[i] = <<msgs[l], 1>>
    BY <2>2, <2>5, <2>6, FirstByte
  <2> QED  BY <2>1, <2>2, <2>4, <2>7
<1>8. ASSUME NEW i \in 1..e, f[i][2] = 1 PROVE \E k \in 1..n : i = p[k]
  <2>1. PICK l \in 1..z : pos[l] <= i /\ i < pos[l + 1]
    BY DEF Framed, z, e
  <2>2. f[i] = FrameByte(msgs[l], i - pos[l])
    BY <2>1 DEF Framed, z, e
  <2>3. i - pos[l] \in Nat /\ msgs[l] \in Message /\ pos[l] \in Int /\ i \in Int
    <3>1. msgs[l] \in Message /\ pos[l] \in Int
      BY <1>1
    <3>2. i \in Int
      BY <1>1
    <3> QED  BY <2>1, <3>1, <3>2
  <2>4. i - pos[l] = 1
    BY <1>8, <2>2, <2>3, FirstByte
  <2>5. i = pos[l] + 1
    BY <2>3, <2>4
  <2>6. ~(off = 1 /\ l = 1)
    <3>1. c \in Nat /\ 1 <= i
      <4>1. c \in Nat /\ e \in Nat
        BY <1>1
      <4> QED  BY <4>1
    <3>2. pos[1] = 1 - c /\ (off = 1 => c >= 2)
      BY <1>3
    <3>3. ASSUME off = 1, l = 1 PROVE FALSE
      <4>1. pos[l] = 1 - c /\ c >= 2
        BY <3>2, <3>3
      <4> QED  BY <2>5, <3>1, <4>1
    <3> QED  BY <3>3
  <2>7. PICK k \in 1..n : k + off = l
    <3>1. l - off \in 1..n /\ l - off + off = l
      BY <1>0, <1>1, <2>6
    <3> QED  BY <3>1
  <2> QED  BY <1>5, <2>5, <2>7
<1>9. Firsts(f) = {p[k] : k \in 1..n}
  <2>1. DOMAIN f = 1..e
    BY <1>1 DEF e
  <2>2. ASSUME NEW k \in 1..n PROVE p[k] \in Firsts(f)
    BY <1>7, <2>1 DEF Firsts
  <2>3. ASSUME NEW i \in Firsts(f) PROVE \E k \in 1..n : i = p[k]
    BY <1>8, <2>1 DEF Firsts
  <2> QED  BY <2>2, <2>3
<1>10. Cardinality(Firsts(f)) = n /\ \A k \in 1..n : Nth(Firsts(f), k) = p[k]
  BY <1>0, <1>5, <1>6, <1>9, NthIs, ZenonT(40)
<1>11. ASSUME NEW k \in 1..n PROVE f[Nth(Firsts(f), k)][1] = msgs[k + off]
  <2>1. Nth(Firsts(f), k) = p[k] /\ f[p[k]] = <<msgs[k + off], 1>>
    BY <1>7, <1>10
  <2> QED  BY <2>1
<1>12. rest = [k \in 1..n |-> rest[k]]
  BY DEF n
<1>13. \A k \in 1..n : rest[k] = msgs[k + off]
  BY DEF n
<1> QED  BY <1>10, <1>11, <1>12, <1>13 DEF Received

\* So it depends on how much of the first frame has been read.
LEMMA ReceivedIs ==
    ASSUME NEW f, NEW c, NEW msgs, NEW pos, Framed(f, c, msgs, pos)
    PROVE  /\ c \in {0, 1} => Received(f) = msgs
           /\ msgs # <<>> /\ c >= 2 /\ c <= FrameLen(msgs[1]) => Received(f) = Tail(msgs)
           /\ c # 0 => msgs # <<>>
<1>1. msgs \in Seq(Message) /\ Len(msgs) \in Nat /\ c \in Nat /\ Len(f) \in Nat
  BY FramedBounds DEF Framed
<1>2. ASSUME c \in {0, 1} PROVE Received(f) = msgs
  <2>1. Len(msgs) + 0 = Len(msgs) /\ \A k \in 1..Len(msgs) : msgs[k] = msgs[k + 0]
    BY <1>1
  <2> QED  BY <1>1, <1>2, <2>1, ReceivedFrom
<1>3. ASSUME msgs # <<>>, c >= 2, c <= FrameLen(msgs[1]) PROVE Received(f) = Tail(msgs)
  <2> DEFINE rest == Tail(msgs)
  <2>1. /\ rest \in Seq(Message) /\ Len(rest) + 1 = Len(msgs)
        /\ \A k \in 1..Len(rest) : rest[k] = msgs[k + 1]
    BY <1>1, <1>3, HeadTailProperties
  <2> HIDE DEF rest
  <2>2. PICK off \in {0, 1} : off = 1
    OBVIOUS
  <2>3. /\ Len(rest) + off = Len(msgs)
        /\ \A k \in 1..Len(rest) : rest[k] = msgs[k + off]
        /\ off = 0 => c \in {0, 1}
        /\ off = 1 => c >= 2 /\ c <= FrameLen(msgs[1])
    BY <1>3, <2>1, <2>2
  <2>4. Received(f) = rest
    BY <2>1, <2>3, ReceivedFrom
  <2> QED  BY <2>4 DEF rest
<1>4. ASSUME msgs = <<>> PROVE c = 0
  <2>1. pos[1] = 1 - c /\ pos[1] = Len(f) + 1
    BY <1>4 DEF Framed
  <2> QED  BY <1>1, <2>1
<1> QED  BY <1>2, <1>3, <1>4

\* An empty FIFO holds no frame.
LEMMA FramedEmpty == Received(<<>>) = <<>> /\ \E pos : Framed(<<>>, 0, <<>>, pos)
<1> DEFINE none == <<>>
           start == [k \in 1..1 |-> 1]
<1>1. none \in Seq(RxSymbol) /\ none \in Seq(Message) /\ Len(none) = 0
  OBVIOUS
<1> HIDE DEF none
<1>2. Framed(none, 0, none, start)
  BY <1>1 DEF Framed
<1> QED  BY <1>2, ReceivedIs DEF none

-----------------------------------------------------------------------------
\* The places at which the first frame has been read in part.
InFrame == {"header", "objects", "crc"}

\* The function each place belongs to.
Doing(place) ==
    CASE place \in {"length", "sop", "body", "eop"}      -> "send"
      [] place \in {"token"} \cup InFrame                -> "read"
      [] place \in {"txflush", "rxflush", "pdreset"}     -> "reset"
      [] OTHER                                           -> place

Working == \A t \in Thread : pc[t] \in Inside => job[t].fn = Doing(pc[t])

\* The thread in fusb_read_message has read as much of the first frame as its place says.
ReadTo(c, msgs) ==
    /\ (\A t \in Thread : pc[t] \notin InFrame) => c = 0
    /\ \A t \in Thread : pc[t] = "header" => c = 1
    /\ \A t \in Thread : pc[t] = "objects" =>
           /\ c = 3 /\ NumObj[msgs[1]] > 0
           /\ buf[t] = <<<<msgs[1], 1>>, <<msgs[1], 2>>>>
    /\ \A t \in Thread : pc[t] = "crc" =>
           msgs # <<>> /\ c = MsgLen(msgs[1]) + 1 /\ buf[t] = Bytes(msgs[1])

Reading == \E c, msgs, pos : Framed(rxFifo, c, msgs, pos) /\ ReadTo(c, msgs)

ChipInv ==
    /\ Working /\ Reading
    /\ phyTx \in {NULL} \cup {Bytes(m) : m \in Message}
    /\ buf = [t \in Thread |-> buf[t]]

\* Where the threads are and what they hold, as the transceiver sees them.
At  == [t \in Thread |-> Where(pc[t])]
Got == [t \in Thread |-> Held(pc[t], buf[t])]

\* The invariant holds at the start, and so does the transceiver's.
LEMMA ChipInit == Init => ChipInv /\ Chip!Init
<1> SUFFICES ASSUME Init PROVE ChipInv /\ Chip!Init
  OBVIOUS
<1>1. Received(<<>>) = <<>> /\ \E pos : Framed(<<>>, 0, <<>>, pos)
  BY FramedEmpty
<1>2. ReadTo(0, <<>>)
  BY DEF Init, ReadTo, InFrame
<1>3. ChipInv
  BY <1>1, <1>2 DEF Init, ChipInv, Working, Reading, Inside
<1>4. Chip!Init
  BY <1>1 DEF Init, Chip!Init, Chip!Job, Where, Held, OnAir
<1> QED  BY <1>3, <1>4

\* A message read back from its bytes.
LEMMA MessageOfBytes ==
    ASSUME NEW m \in Message
    PROVE  /\ Bytes(m) # <<>> /\ Bytes(m)[1][1] = m /\ MessageOf(Bytes(m)) = m
           /\ OnAir(Bytes(m)) = m
<1>1. 1 \in 1..MsgLen(m)
  BY LengthType
<1>2. Bytes(m)[1] = <<m, 1>> /\ DOMAIN Bytes(m) # {}
  BY <1>1 DEF Bytes
<1>3. Bytes(m) # <<>>
  BY <1>2
<1>4. MessageOf(Bytes(m)) = m
  BY <1>2 DEF MessageOf
<1> QED  BY <1>2, <1>3, <1>4, NullAssumption DEF OnAir

\* A thread's move, seen by the transceiver.
LEMMA Moves ==
    ASSUME DriverInv, ChipInv, NEW t \in Thread, NEW s \in Place, pc' = [pc EXCEPT ![t] = s]
    PROVE  /\ pc'[t] = s /\ \A u \in Thread : u # t => pc'[u] = pc[u]
           /\ At[t] = Where(pc[t]) /\ At' = [At EXCEPT ![t] = Where(s)]
           /\ Where(s) = Where(pc[t]) => At' = At
           /\ \A b : buf' = [buf EXCEPT ![t] = b] => Got' = [Got EXCEPT ![t] = Held(s, b)]
           /\ \A b : buf' = [buf EXCEPT ![t] = b] /\ Held(s, b) = Held(pc[t], buf[t])
                  => Got' = Got
           /\ buf' = buf /\ Held(s, buf[t]) = Held(pc[t], buf[t]) => Got' = Got
<1>1. pc'[t] = s /\ \A u \in Thread : u # t => pc'[u] = pc[u]
  BY DEF DriverInv, Locked
<1>2. At[t] = Where(pc[t]) /\ At' = [At EXCEPT ![t] = Where(s)]
  <2>1. \A u \in Thread : Where(pc'[u]) = IF u = t THEN Where(s) ELSE Where(pc[u])
    BY <1>1
  <2>2. At' = [u \in Thread |-> IF u = t THEN Where(s) ELSE Where(pc[u])]
    BY <2>1 DEF At
  <2> QED  BY <2>2 DEF At
<1>3. Where(s) = Where(pc[t]) => At' = At
  BY <1>1 DEF At
<1>4. ASSUME NEW b, buf' = [buf EXCEPT ![t] = b]
      PROVE  buf'[t] = b /\ \A u \in Thread : u # t => buf'[u] = buf[u]
  BY <1>4 DEF ChipInv
<1>5. ASSUME NEW b, buf' = [buf EXCEPT ![t] = b]
      PROVE  /\ Got' = [Got EXCEPT ![t] = Held(s, b)]
             /\ Held(s, b) = Held(pc[t], buf[t]) => Got' = Got
  <2>1. \A u \in Thread :
            Held(pc'[u], buf'[u]) = IF u = t THEN Held(s, b) ELSE Held(pc[u], buf[u])
    <3>1. buf'[t] = b /\ \A u \in Thread : u # t => buf'[u] = buf[u]
      BY <1>4, <1>5
    <3> QED  BY <1>1, <3>1
  <2>2. Got' = [u \in Thread |-> IF u = t THEN Held(s, b) ELSE Held(pc[u], buf[u])]
    BY <2>1 DEF Got
  <2>3. Got' = [Got EXCEPT ![t] = Held(s, b)]
    BY <2>2 DEF Got
  <2> QED  BY <2>2, <2>3 DEF Got
<1>6. buf' = buf /\ Held(s, buf[t]) = Held(pc[t], buf[t]) => Got' = Got
  BY <1>1 DEF Got
<1> QED  BY <1>1, <1>2, <1>3, <1>5, <1>6

\* A thread's move, when the function of its place stays its own.
LEMMA WorkingKept ==
    ASSUME DriverInv, Working, NEW t \in Thread, NEW s \in Place, pc' = [pc EXCEPT ![t] = s],
           \A u \in Thread : u # t => job'[u] = job[u],
           s \in Inside => job'[t].fn = Doing(s)
    PROVE  Working'
<1>1. pc'[t] = s /\ \A u \in Thread : u # t => pc'[u] = pc[u]
  BY DEF DriverInv, Locked
<1> QED  BY <1>1 DEF Working

\* A move outside the frames leaves what has been read of them as it was.
LEMMA ReadingKept ==
    ASSUME DriverInv, Reading, NEW t \in Thread, NEW s \in Place, pc' = [pc EXCEPT ![t] = s],
           pc[t] \notin InFrame, s \notin InFrame, UNCHANGED <<buf, rxFifo>>
    PROVE  Reading'
<1>1. pc'[t] = s /\ \A u \in Thread : u # t => pc'[u] = pc[u]
  BY DEF DriverInv, Locked
<1>2. PICK c, msgs, pos : Framed(rxFifo, c, msgs, pos) /\ ReadTo(c, msgs)
  BY DEF Reading
<1>3. \A u \in Thread : (pc'[u] \in InFrame \/ pc[u] \in InFrame) => pc'[u] = pc[u]
  BY <1>1
<1>4. ReadTo(c, msgs)'
  BY <1>2, <1>3 DEF ReadTo, InFrame, Bytes, MsgLen
<1> QED  BY <1>2, <1>4 DEF Reading

\* The two together: a step of a thread that does not touch the receive FIFO.
LEMMA Quiet ==
    ASSUME DriverInv, ChipInv, NEW t \in Thread, NEW s \in Place \ InFrame,
           pc' = [pc EXCEPT ![t] = s], pc[t] \notin InFrame, UNCHANGED <<buf, rxFifo>>,
           \A u \in Thread : u # t => job'[u] = job[u],
           s \in Inside => job'[t].fn = Doing(s),
           phyTx' \in {NULL} \cup {Bytes(m) : m \in Message}
    PROVE  /\ ChipInv' /\ Got' = Got /\ At[t] = Where(pc[t]) /\ At' = [At EXCEPT ![t] = Where(s)]
           /\ Where(s) = Where(pc[t]) => At' = At
<1>1. Held(s, buf[t]) = Held(pc[t], buf[t])
  BY DEF Held, InFrame
<1>2. Working' /\ Reading'
  BY WorkingKept, ReadingKept DEF ChipInv
<1>3. ChipInv'
  BY <1>2 DEF ChipInv, Bytes, MsgLen
<1> QED  BY <1>1, <1>3, Moves

\* The steps of a thread outside fusb_read_message and fusb_reset: it calls and gets the
\* bus, it sends a message, and the three functions of one transfer.
LEMMA ChipSends ==
    ASSUME DriverInv, Sent, ChipInv, NEW t \in Thread,
           \/ Call(t) \/ Acquire(t) \/ SetLength(t) \/ WriteSop(t) \/ WriteBody(t)
           \/ WriteEop(t) \/ SendHardrst(t) \/ GetStatus(t) \/ GetTypecCurrent(t)
    PROVE  ChipInv' /\ [Chip!Next]_Chip!vars
<1> USE DEF From, To, ReleaseBus, chipVars
<1>1. CASE Call(t)
  <2>1. /\ pc[t] = "out" /\ pc' = [pc EXCEPT ![t] = "acquire"]
        /\ UNCHANGED <<buf, told, rxFifo, phyTx, phyHardReset, intr>>
    BY <1>1 DEF Call
  <2>2. PICK j \in Chip!Job : job' = [job EXCEPT ![t] = j]
    BY <1>1 DEF Call, Chip!Job
  <2>3. \A u \in Thread : u # t => job'[u] = job[u]
    BY <2>2 DEF DriverInv, JobOf
  <2>4. "acquire" \in Place \ InFrame /\ "acquire" \notin Inside /\ pc[t] \notin InFrame
    BY <2>1 DEF Place, InFrame, Inside
  <2>5. phyTx' \in {NULL} \cup {Bytes(m) : m \in Message}
    BY <2>1 DEF ChipInv
  <2>6. /\ ChipInv' /\ Got' = Got /\ At[t] = Where(pc[t])
        /\ At' = [At EXCEPT ![t] = Where("acquire")]
    BY <2>1, <2>3, <2>4, <2>5, Quiet
  <2>7. Chip!Call(t)
    BY <2>1, <2>2, <2>6 DEF Chip!Call, Chip!To, At, Got, Where
  <2> QED  BY <2>6, <2>7 DEF Chip!Next
<1>2. CASE Acquire(t)
  <2>1. /\ pc[t] = "acquire" /\ pc' = [pc EXCEPT ![t] = First[job[t].fn]]
        /\ UNCHANGED <<job, buf, told, rxFifo, phyTx, phyHardReset, intr>>
    BY <1>2 DEF Acquire
  <2>2. /\ First[job[t].fn] \in Place \ InFrame /\ pc[t] \notin InFrame
        /\ job[t].fn = Doing(First[job[t].fn])
        /\ Where(First[job[t].fn]) = Where(pc[t])
    <3>1. job[t].fn \in DOMAIN First
      BY DEF DriverInv, JobOf
    <3> QED  BY <2>1, <3>1 DEF First, Place, InFrame, Doing, Where
  <2>3. phyTx' \in {NULL} \cup {Bytes(m) : m \in Message}
    BY <2>1 DEF ChipInv
  <2>4. ChipInv' /\ Got' = Got /\ At' = At
    BY <2>1, <2>2, <2>3, Quiet
  <2> QED  BY <2>1, <2>4 DEF Chip!vars, At, Got
<1>3. CASE SetLength(t) \/ WriteSop(t) \/ WriteBody(t)
  <2>1. PICK s \in {"sop", "body", "eop"} :
            /\ pc' = [pc EXCEPT ![t] = s] /\ pc[t] \in {"length", "sop", "body"}
            /\ UNCHANGED <<job, buf, told, rxFifo, phyTx, phyHardReset, intr>>
    BY <1>3 DEF SetLength, WriteSop, WriteBody
  <2>2. /\ s \in Place \ InFrame /\ pc[t] \notin InFrame /\ pc[t] \in Inside
        /\ Doing(s) = "send" /\ Doing(pc[t]) = "send" /\ Where(s) = Where(pc[t])
    BY <2>1 DEF Place, InFrame, Inside, Doing, Where
  <2>3. job[t].fn = Doing(s) /\ phyTx' \in {NULL} \cup {Bytes(m) : m \in Message}
    BY <2>1, <2>2 DEF ChipInv, Working
  <2>4. ChipInv' /\ Got' = Got /\ At' = At
    BY <2>1, <2>2, <2>3, Quiet
  <2> QED  BY <2>1, <2>4 DEF Chip!vars, At, Got
<1>4. CASE WriteEop(t)
  <2>1. /\ pc[t] = "eop" /\ pc' = [pc EXCEPT ![t] = "out"]
        /\ UNCHANGED <<job, buf, told, rxFifo, phyHardReset, intr>>
    BY <1>4 DEF WriteEop
  <2>2. /\ "out" \in Place \ InFrame /\ "out" \notin Inside /\ pc[t] \notin InFrame
        /\ job[t].fn = "send"
    BY <2>1 DEF Place, InFrame, Inside, ChipInv, Working, Doing
  <2>3. job[t].msg \in Message /\ phyTx' = Bytes(job[t].msg)
    BY <1>4, SendsIt
  <2>4. ChipInv' /\ Got' = Got /\ At[t] = Where("eop") /\ At' = [At EXCEPT ![t] = Where("out")]
    BY <2>1, <2>2, <2>3, Quiet
  <2>5. OnAir(phyTx') = job[t].msg
    BY <2>3, MessageOfBytes
  <2>6. Chip!Send(t)
    BY <2>1, <2>2, <2>4, <2>5 DEF Chip!Send, Chip!Called, Chip!To, At, Got, Where
  <2> QED  BY <2>4, <2>6 DEF Chip!Next
<1>5. CASE SendHardrst(t) \/ GetStatus(t) \/ GetTypecCurrent(t)
  <2>1. /\ pc[t] \in {"hardrst", "status", "typec"} /\ pc' = [pc EXCEPT ![t] = "out"]
        /\ UNCHANGED <<job, buf, rxFifo, phyTx>>
    BY <1>5 DEF SendHardrst, GetStatus, GetTypecCurrent
  <2>2. /\ "out" \in Place \ InFrame /\ "out" \notin Inside /\ pc[t] \notin InFrame
        /\ job[t].fn = pc[t] /\ Where(pc[t]) = "called" /\ Where("out") = "out"
    BY <2>1 DEF Place, InFrame, Inside, ChipInv, Working, Doing, Where
  <2>3. phyTx' \in {NULL} \cup {Bytes(m) : m \in Message}
    BY <2>1 DEF ChipInv
  <2>4. ChipInv' /\ Got' = Got /\ At[t] = "called" /\ At' = [At EXCEPT ![t] = "out"]
    BY <2>1, <2>2, <2>3, Quiet
  <2>5. Chip!SendHardReset(t) \/ Chip!GetStatus(t) \/ Chip!GetTypecCurrent(t)
    BY <1>5, <2>1, <2>2, <2>4
    DEF SendHardrst, GetStatus, GetTypecCurrent, Chip!SendHardReset, Chip!GetStatus,
        Chip!GetTypecCurrent, Chip!Called, Chip!To, At, Got
  <2> QED  BY <2>4, <2>5 DEF Chip!Next
<1> QED  BY <1>1, <1>2, <1>3, <1>4, <1>5

\* What the thread inside finds: nobody else is reading.
LEMMA Picks ==
    ASSUME DriverInv, ChipInv, NEW t \in Thread, pc[t] \in Inside
    PROVE  /\ \A u \in Thread : u # t => pc[u] \notin InFrame
           /\ \E c, msgs, pos : /\ Framed(rxFifo, c, msgs, pos) /\ ReadTo(c, msgs)
                                /\ pc[t] \notin InFrame => c = 0
<1>1. \A u \in Thread : u # t => pc[u] \notin InFrame
  BY MessageAssumption DEF DriverInv, Locked, InFrame, Inside, Place
<1>2. PICK c, msgs, pos : Framed(rxFifo, c, msgs, pos) /\ ReadTo(c, msgs)
  BY DEF ChipInv, Reading
<1>3. pc[t] \notin InFrame => c = 0
  BY <1>1, <1>2 DEF ReadTo
<1> QED  BY <1>1, <1>2, <1>3

\* The bytes the next n of the first frame are.
LEMMA TakenIs ==
    ASSUME NEW c, NEW msgs, NEW pos, Framed(rxFifo, c, msgs, pos), msgs # <<>>,
           NEW n \in Nat, c + n <= FrameLen(msgs[1])
    PROVE  Taken(n) = [i \in 1..n |-> FrameByte(msgs[1], c + i - 1)]
<1>1. /\ c \in Nat /\ FrameLen(msgs[1]) \in Nat /\ Len(rxFifo) \in Nat
      /\ FrameLen(msgs[1]) - c <= Len(rxFifo)
  BY FramedBounds, FramedFirst
<1>2. ASSUME NEW i \in 1..n
      PROVE  i \in 1..Len(rxFifo) /\ i <= FrameLen(msgs[1]) - c /\ i <= Len(rxFifo)
  BY <1>1
<1>3. \A i \in 1..n : rxFifo[i] = FrameByte(msgs[1], c + i - 1)
  BY <1>2, FramedFirst
<1> QED  BY <1>2, <1>3 DEF Taken

\* The step of a thread that reads, once it is known what it leaves.
LEMMA Reads ==
    ASSUME DriverInv, ChipInv, NEW t \in Thread, NEW s \in Place, NEW b, pc[t] \in Inside,
           pc' = [pc EXCEPT ![t] = s], buf' = [buf EXCEPT ![t] = b], UNCHANGED <<job, phyTx>>,
           s \in Inside => Doing(s) = Doing(pc[t]),
           NEW c, NEW msgs, NEW pos, Framed(rxFifo', c, msgs, pos),
           s \notin InFrame => c = 0,
           s = "header" => c = 1,
           s = "objects" => /\ c = 3 /\ NumObj[msgs[1]] > 0
                            /\ b = <<<<msgs[1], 1>>, <<msgs[1], 2>>>>,
           s = "crc" => msgs # <<>> /\ c = MsgLen(msgs[1]) + 1 /\ b = Bytes(msgs[1])
    PROVE  ChipInv'
<1>1. \A u \in Thread : u # t => pc[u] \notin InFrame
  BY Picks
<1>2. pc'[t] = s /\ \A u \in Thread : u # t => pc'[u] = pc[u]
  BY DEF DriverInv, Locked
<1>3. buf' = [u \in Thread |-> buf'[u]] /\ buf'[t] = b
  BY DEF ChipInv
<1>4. Working'
  BY WorkingKept DEF ChipInv, Working
<1>5. ReadTo(c, msgs)'
  <2>1. \A u \in Thread : pc'[u] \in InFrame => u = t
    BY <1>1, <1>2
  <2> QED  BY <1>2, <1>3, <2>1 DEF ReadTo, InFrame, Bytes, MsgLen
<1>6. Reading'
  BY <1>5 DEF Reading
<1> QED  BY <1>3, <1>4, <1>6 DEF ChipInv, Bytes, MsgLen

\* fusb_read_message begins: the token, if there is a message.
LEMMA ChipReadsToken ==
    ASSUME DriverInv, ChipInv, NEW t \in Thread, ReadToken(t)
    PROVE  ChipInv' /\ [Chip!Next]_Chip!vars
<1>1. /\ pc[t] = "token" /\ rxFifo' = SubSeq(rxFifo, 1 + 1, Len(rxFifo))
      /\ UNCHANGED <<job, buf, told, phyTx, phyHardReset, intr>>
      /\ IF Taken(1)[1] = SOP THEN pc' = [pc EXCEPT ![t] = "header"]
                              ELSE pc' = [pc EXCEPT ![t] = "out"]
  BY DEF ReadToken, From, To, ReleaseBus, Take
<1>2. /\ {"token", "header"} \subseteq Inside /\ "out" \notin Inside
      /\ {"out", "header"} \subseteq Place /\ Doing("header") = Doing("token")
      /\ "out" \notin InFrame /\ pc[t] \notin InFrame
      /\ Where("header") = Where("token") /\ Where("token") = "called" /\ Where("out") = "out"
  BY <1>1 DEF Inside, Place, InFrame, Doing, Where
<1>3. PICK msgs, pos : Framed(rxFifo, 0, msgs, pos)
  BY <1>1, <1>2, Picks
<1>4. Received(rxFifo) = msgs
  BY <1>3, ReceivedIs
<1>5. buf' = [buf EXCEPT ![t] = buf[t]] /\ job[t].fn = "read"
  <2>1. job[t].fn = Doing("token")
    BY <1>1, <1>2 DEF ChipInv, Working
  <2> QED  BY <1>1, <2>1 DEF ChipInv, Doing
<1>6. CASE msgs = <<>>
  <2>1. Len(rxFifo) = 0
    <3>1. pos[1] = 1 - 0 /\ pos[1] = Len(rxFifo) + 1 /\ Len(rxFifo) \in Nat
      BY <1>3, <1>6, FramedBounds DEF Framed
    <3> QED  BY <3>1
  <2>2. Taken(1)[1] # SOP
    BY <2>1 DEF Taken, SOP, Zero
  <2>3. rxFifo' = rxFifo
    <3>1. rxFifo = <<>>
      BY <1>3, <2>1, EmptySeq DEF Framed
    <3>2. rxFifo' = <<>>
      BY <1>1, <2>1, SubSeqEmpty
    <3> QED  BY <3>1, <3>2
  <2>4. pc' = [pc EXCEPT ![t] = "out"]
    BY <1>1, <2>2
  <2>5. phyTx' \in {NULL} \cup {Bytes(m) : m \in Message}
    BY <1>1 DEF ChipInv
  <2>6. ChipInv' /\ Got' = Got /\ At[t] = "called" /\ At' = [At EXCEPT ![t] = "out"]
    <3>1. "out" \in Place \ InFrame /\ \A u \in Thread : u # t => job'[u] = job[u]
      BY <1>1, <1>2
    <3>2. /\ ChipInv' /\ Got' = Got /\ At[t] = Where(pc[t])
          /\ At' = [At EXCEPT ![t] = Where("out")]
      BY <1>1, <1>2, <2>3, <2>4, <2>5, <3>1, Quiet
    <3> QED  BY <1>1, <1>2, <3>2
  <2>7. Chip!Read(t)
    BY <1>1, <1>4, <1>5, <1>6, <2>3, <2>6 DEF Chip!Read, Chip!Called, Chip!To, At, Got
  <2> QED  BY <2>6, <2>7 DEF Chip!Next
<1>7. CASE msgs # <<>>
  <2>1. msgs[1] \in Message /\ 0 + 1 <= FrameLen(msgs[1])
    BY <1>3, <1>7, FramedBounds, FramedFirst
  <2>2. Taken(1)[1] = SOP
    <3>1. Taken(1) = [i \in 1..1 |-> FrameByte(msgs[1], 0 + i - 1)]
      BY <1>3, <1>7, <2>1, TakenIs
    <3> QED  BY <3>1 DEF FrameByte
  <2>3. pc' = [pc EXCEPT ![t] = "header"]
    BY <1>1, <2>2
  <2>4. PICK after : Framed(rxFifo', 0 + 1, msgs, after)
    BY <1>1, <1>3, <1>7, <2>1, FramedTake
  <2>5. Framed(rxFifo', 1, msgs, after)
    BY <2>4
  <2>6. ChipInv'
    <3>1. pc[t] \in Inside /\ "header" \in Place /\ Doing("header") = Doing(pc[t])
      BY <1>1, <1>2
    <3>2. "header" \in InFrame
      BY DEF InFrame
    <3> QED  BY <1>1, <1>5, <2>3, <2>5, <3>1, <3>2, Reads
  <2>7. Received(rxFifo') = Received(rxFifo)
    BY <1>4, <2>5, ReceivedIs
  <2>8. At' = At /\ Got' = Got
    <3>1. Held("header", buf[t]) = Held(pc[t], buf[t])
      BY <1>1 DEF Held
    <3> QED  BY <1>1, <1>2, <2>3, <3>1, Moves
  <2> QED  BY <1>1, <2>6, <2>7, <2>8 DEF Chip!vars, At, Got
<1> QED  BY <1>6, <1>7

\* The header is the moment at which the message is the caller's.
LEMMA ChipReadsHeader ==
    ASSUME DriverInv, ChipInv, NEW t \in Thread, ReadHeader(t)
    PROVE  ChipInv' /\ [Chip!Next]_Chip!vars
<1>1. /\ pc[t] = "header" /\ rxFifo' = SubSeq(rxFifo, 2 + 1, Len(rxFifo))
      /\ UNCHANGED <<job, told, phyTx, phyHardReset, intr>>
      /\ buf' = [buf EXCEPT ![t] = Taken(2)]
      /\ pc' = [pc EXCEPT ![t] = IF PD_NUMOBJ_GET(Taken(2)) > 0 THEN "objects" ELSE "crc"]
  BY DEF ReadHeader, From, To, Take
<1>2. pc[t] \in Inside
  BY <1>1 DEF Inside, Place
<1>3. PICK msgs, pos : Framed(rxFifo, 1, msgs, pos)
  BY <1>1, <1>2, Picks DEF ReadTo
<1>4. msgs # <<>> /\ Received(rxFifo) = msgs
  BY <1>3, ReceivedIs
<1> DEFINE m == msgs[1]
           b == <<<<m, 1>>, <<m, 2>>>>
           s == IF NumObj[m] > 0 THEN "objects" ELSE "crc"
<1>5. /\ m \in Message /\ FrameLen(m) \in Nat /\ FrameLen(m) >= 7 /\ Head(msgs) = m
      /\ MsgLen(m) >= 2 /\ MsgLen(m) \in Nat
  BY <1>3, <1>4, FramedBounds, FramedFirst, LengthType
<1>6. Taken(2) = b
  <2>1. Taken(2) = [i \in 1..2 |-> FrameByte(m, 1 + i - 1)]
    <3>1. 1 + 2 <= FrameLen(msgs[1]) /\ 2 \in Nat
      BY <1>5
    <3> HIDE DEF m
    <3>2. \A n \in Nat : 1 + n <= FrameLen(msgs[1])
                => Taken(n) = [i \in 1..n |-> FrameByte(msgs[1], 1 + i - 1)]
      BY <1>3, <1>4, TakenIs
    <3> QED  BY <3>1, <3>2, Zenon DEF m
  <2>2. FrameByte(m, 1 + 1 - 1) = <<m, 1>> /\ FrameByte(m, 1 + 2 - 1) = <<m, 2>>
    BY <1>5 DEF FrameByte
  <2> QED  BY <2>1, <2>2
<1>7. PD_NUMOBJ_GET(b) = NumObj[m]
  BY <1>5 DEF PD_NUMOBJ_GET
<1> HIDE DEF m
<1>8. pc' = [pc EXCEPT ![t] = s] /\ buf' = [buf EXCEPT ![t] = b]
  BY <1>1, <1>6, <1>7
<1>9. PICK after : Framed(rxFifo', 1 + 2, msgs, after)
  BY <1>1, <1>3, <1>4, <1>5, FramedTake DEF m
<1>10. Framed(rxFifo', 3, msgs, after)
  BY <1>9
<1>11. Received(rxFifo') = Tail(msgs)
  BY <1>4, <1>5, <1>10, ReceivedIs DEF m
<1>12. s = "crc" => 3 = MsgLen(m) + 1 /\ b = Bytes(m)
  <2> SUFFICES ASSUME s = "crc" PROVE 3 = MsgLen(m) + 1 /\ b = Bytes(m)
    OBVIOUS
  <2>1. MsgLen(m) = 2
    BY <1>5, MessageAssumption DEF MsgLen
  <2> QED  BY <2>1 DEF Bytes
<1>13. /\ s \in Place /\ s \in InFrame /\ Doing(s) = Doing(pc[t]) /\ Where(s) = "done"
       /\ Where(pc[t]) = "called" /\ s # "header" /\ (s = "objects" => NumObj[m] > 0)
       /\ Doing(pc[t]) = "read" /\ Held(s, b) = m
  BY <1>1 DEF Place, InFrame, Doing, Where, Held
<1> HIDE DEF s, b
<1>14. ChipInv'
  <2>1. s = "objects" => b = <<<<m, 1>>, <<m, 2>>>>
    BY DEF b
  <2> QED  BY <1>1, <1>2, <1>4, <1>8, <1>10, <1>12, <1>13, <2>1, Reads, ZenonT(40) DEF m
<1>15. /\ At[t] = "called" /\ At' = [At EXCEPT ![t] = "done"] /\ Got' = [Got EXCEPT ![t] = m]
  <2>1. /\ At[t] = Where(pc[t]) /\ At' = [At EXCEPT ![t] = Where(s)]
        /\ Got' = [Got EXCEPT ![t] = Held(s, b)]
    BY <1>8, <1>13, Moves
  <2> QED  BY <1>13, <2>1
<1>16. job[t].fn = "read"
  BY <1>2, <1>13 DEF ChipInv, Working
<1>17. Chip!Read(t)
  BY <1>1, <1>4, <1>5, <1>11, <1>15, <1>16 DEF Chip!Read, Chip!Called, Chip!To, At, Got
<1> QED  BY <1>14, <1>17 DEF Chip!Next

\* The objects are the rest of the message the header began.
LEMMA ChipReadsObjects ==
    ASSUME DriverInv, ChipInv, NEW t \in Thread, ReadObjects(t)
    PROVE  ChipInv' /\ UNCHANGED Chip!vars
<1>1. /\ pc[t] = "objects" /\ pc' = [pc EXCEPT ![t] = "crc"]
      /\ rxFifo' = SubSeq(rxFifo, PD_NUMOBJ_GET(buf[t]) * 4 + 1, Len(rxFifo))
      /\ UNCHANGED <<job, told, phyTx, phyHardReset, intr>>
      /\ buf' = [buf EXCEPT ![t] = @ \o Taken(PD_NUMOBJ_GET(buf[t]) * 4)]
  BY DEF ReadObjects, From, To, Take
<1>2. /\ pc[t] \in Inside /\ "crc" \in Place /\ Doing("crc") = Doing(pc[t]) /\ "crc" \in InFrame
      /\ Where("crc") = Where(pc[t])
  BY <1>1 DEF Inside, Place, Doing, InFrame, Where
<1>3. PICK msgs, pos : /\ Framed(rxFifo, 3, msgs, pos) /\ NumObj[msgs[1]] > 0
                       /\ buf[t] = <<<<msgs[1], 1>>, <<msgs[1], 2>>>>
  BY <1>1, <1>2, Picks DEF ReadTo
<1>4. msgs # <<>>
  BY <1>3, ReceivedIs
<1> DEFINE m == msgs[1]
           n == 4 * NumObj[m]
           b == <<<<m, 1>>, <<m, 2>>>> \o Taken(n)
<1>5. /\ m \in Message /\ NumObj[m] \in Nat /\ n \in Nat /\ MsgLen(m) = 2 + n
      /\ FrameLen(m) = n + 7
  BY <1>3, <1>4, FramedFirst, MessageAssumption, SMTT(40) DEF MsgLen, FrameLen
<1>6. PD_NUMOBJ_GET(buf[t]) = NumObj[m] /\ PD_NUMOBJ_GET(buf[t]) * 4 = n
  BY <1>3, <1>5 DEF PD_NUMOBJ_GET
<1>7. Taken(n) = [i \in 1..n |-> FrameByte(m, 3 + i - 1)]
  <2>1. 3 + n <= FrameLen(msgs[1])
    BY <1>5
  <2> QED  BY <1>3, <1>4, <1>5, <2>1, TakenIs, ZenonT(40)
<1> HIDE DEF m, n
<1>8. b = Bytes(m)
  <2>1. \A i \in 1..n : FrameByte(m, 3 + i - 1) = <<m, 2 + i>>
    BY <1>5 DEF FrameByte
  <2>2. Taken(n) = [i \in 1..n |-> <<m, 2 + i>>]
    BY <1>7, <2>1
  <2>3. \A i \in 1..2 + n : <<m, i>> \in Message \X Nat
    BY <1>5
  <2>4. /\ Taken(n) \in Seq(Message \X Nat) /\ Len(Taken(n)) = n
        /\ \A i \in 1..n : Taken(n)[i] = <<m, 2 + i>>
    BY <1>5, <2>2
  <2> DEFINE a == <<<<m, 1>>, <<m, 2>>>>
  <2>5. a \in Seq(Message \X Nat) /\ Len(a) = 2 /\ a[1] = <<m, 1>> /\ a[2] = <<m, 2>>
    BY <1>5
  <2> HIDE DEF a
  <2>6. /\ b \in Seq(Message \X Nat) /\ Len(b) = 2 + n
        /\ \A i \in 1..2 : b[i] = a[i]
        /\ \A i \in 1..n : b[2 + i] = Taken(n)[i]
    <3> DEFINE d == Taken(n)
    <3>1. b = a \o d /\ d \in Seq(Message \X Nat) /\ Len(d) = n
      BY <2>4 DEF a
    <3> HIDE DEF b, d
    <3> DEFINE S == Message \X Nat
    <3>2. a \in Seq(S) /\ d \in Seq(S)
      BY <2>5, <3>1
    <3> HIDE DEF S
    <3>3. /\ a \o d \in Seq(S) /\ Len(a \o d) = Len(a) + Len(d)
          /\ \A i \in 1..Len(a) : (a \o d)[i] = a[i]
          /\ \A i \in 1..Len(d) : (a \o d)[Len(a) + i] = d[i]
      BY <3>2, ConcatAt
    <3> QED  BY <2>5, <3>1, <3>3 DEF d, S
  <2> HIDE DEF b
  <2>7. Bytes(m) \in Seq(Message \X Nat) /\ Len(Bytes(m)) = 2 + n
        /\ \A i \in 1..2 + n : Bytes(m)[i] = <<m, i>>
    BY <1>5, <2>3 DEF Bytes
  <2>8. ASSUME NEW i \in 1..2 + n PROVE b[i] = <<m, i>>
    <3>1. CASE i \in 1..2
      BY <2>5, <2>6, <3>1
    <3>2. CASE i \notin 1..2
      <4>1. PICK j \in 1..n : i = 2 + j
        <5>1. i - 2 \in 1..n /\ i = 2 + (i - 2)
          BY <1>5, <3>2
        <5> QED  BY <5>1
      <4> QED  BY <2>4, <2>6, <4>1
    <3> QED  BY <3>1, <3>2
  <2> QED  BY <2>6, <2>7, <2>8, SeqEqual
<1>9. buf' = [buf EXCEPT ![t] = b]
  BY <1>1, <1>3, <1>6 DEF m
<1> HIDE DEF b
<1>10. PICK after : Framed(rxFifo', 3 + n, msgs, after)
  <2>1. rxFifo' = SubSeq(rxFifo, n + 1, Len(rxFifo))
    BY <1>1, <1>6, Zenon
  <2>2. 3 + n <= FrameLen(msgs[1])
    BY <1>5 DEF m
  <2> QED  BY <1>3, <1>4, <1>5, <2>1, <2>2, FramedTake
<1>11. Framed(rxFifo', MsgLen(m) + 1, msgs, after)
  <2>1. MsgLen(m) + 1 = 3 + n
    BY <1>5
  <2> QED  BY <1>10, <2>1
<1>12. ChipInv'
  BY <1>1, <1>2, <1>4, <1>8, <1>9, <1>11, Reads DEF m
<1>13. Received(rxFifo') = Received(rxFifo)
  <2>1. Received(rxFifo) = Tail(msgs)
    BY <1>3, <1>4, <1>5, ReceivedIs DEF m
  <2>2. MsgLen(m) + 1 >= 2 /\ MsgLen(m) + 1 <= FrameLen(m)
    BY <1>5
  <2>3. Received(rxFifo') = Tail(msgs)
    BY <1>4, <1>11, <2>2, ReceivedIs DEF m
  <2> QED  BY <2>1, <2>3
<1>14. Held("crc", b) = Held(pc[t], buf[t])
  <2>1. Held("crc", b) = m
    BY <1>5, <1>8, MessageOfBytes DEF Held
  <2>2. Held(pc[t], buf[t]) = m
    BY <1>1, <1>3 DEF Held, m
  <2> QED  BY <2>1, <2>2
<1>15. At' = At /\ Got' = Got
  BY <1>1, <1>2, <1>9, <1>14, Moves
<1> QED  BY <1>1, <1>12, <1>13, <1>15 DEF Chip!vars, At, Got

\* With the CRC the message is out of the FIFO, and the function returns.
LEMMA ChipReadsCrc ==
    ASSUME DriverInv, ChipInv, NEW t \in Thread, ReadCrc(t)
    PROVE  ChipInv' /\ [Chip!Next]_Chip!vars
<1>1. /\ pc[t] = "crc" /\ pc' = [pc EXCEPT ![t] = "out"]
      /\ rxFifo' = SubSeq(rxFifo, 4 + 1, Len(rxFifo))
      /\ UNCHANGED <<job, buf, told, phyTx, phyHardReset, intr>>
  BY DEF ReadCrc, From, ReleaseBus, Take
<1>2. /\ pc[t] \in Inside /\ "out" \in Place /\ "out" \notin Inside /\ "out" \notin InFrame
      /\ Where("out") = "out" /\ Where(pc[t]) = "done"
  BY <1>1 DEF Inside, Place, InFrame, Where
<1>3. PICK msgs, pos : /\ msgs # <<>> /\ Framed(rxFifo, MsgLen(msgs[1]) + 1, msgs, pos)
                       /\ buf[t] = Bytes(msgs[1])
  BY <1>1, <1>2, Picks DEF ReadTo
<1> DEFINE m == msgs[1]
<1>4. /\ m \in Message /\ MsgLen(m) \in Nat /\ MsgLen(m) >= 2
      /\ FrameLen(m) \in Nat /\ MsgLen(m) + 1 + 4 = FrameLen(m)
  BY <1>3, FramedFirst, LengthType, SMTT(40) DEF FrameLen
<1>5. PICK read : Framed(rxFifo', FrameLen(m), msgs, read)
  <2>1. \E read : Framed(rxFifo', MsgLen(m) + 1 + 4, msgs, read)
    BY <1>1, <1>3, <1>4, FramedTake
  <2> QED  BY <1>4, <2>1
<1>6. PICK after : Framed(rxFifo', 0, Tail(msgs), after)
  BY <1>3, <1>5, FramedDrop
<1>7. Received(rxFifo') = Received(rxFifo)
  <2>1. Received(rxFifo) = Tail(msgs)
    BY <1>3, <1>4, ReceivedIs
  <2>2. Received(rxFifo') = Tail(msgs)
    BY <1>6, ReceivedIs
  <2> QED  BY <2>1, <2>2
<1>8. buf' = [buf EXCEPT ![t] = buf[t]]
  BY <1>1 DEF ChipInv
<1>9. ChipInv'
  BY <1>1, <1>2, <1>6, <1>8, Reads DEF InFrame
<1>10. Held("out", buf[t]) = Held(pc[t], buf[t])
  BY <1>1, <1>3, <1>4, MessageOfBytes DEF Held
<1>11. Got' = Got /\ At[t] = "done" /\ At' = [At EXCEPT ![t] = "out"]
  <2>1. Got' = Got /\ At[t] = Where(pc[t]) /\ At' = [At EXCEPT ![t] = Where("out")]
    BY <1>1, <1>2, <1>10, Moves
  <2> QED  BY <1>2, <2>1
<1>12. Chip!Return(t)
  BY <1>1, <1>7, <1>11 DEF Chip!Return, Chip!To, At, Got
<1> QED  BY <1>9, <1>12 DEF Chip!Next

\* fusb_reset, register by register.
LEMMA ChipResets ==
    ASSUME DriverInv, ChipInv, NEW t \in Thread, FlushTx(t) \/ FlushRx(t) \/ ResetPd(t)
    PROVE  ChipInv' /\ [Chip!Next]_Chip!vars
<1> USE DEF From, To, ReleaseBus
<1>1. CASE FlushTx(t)
  <2>1. /\ pc[t] = "txflush" /\ pc' = [pc EXCEPT ![t] = "rxflush"]
        /\ UNCHANGED <<job, buf, told, rxFifo, phyTx, phyHardReset, intr>>
    BY <1>1 DEF FlushTx
  <2>2. /\ "rxflush" \in Place \ InFrame /\ pc[t] \notin InFrame /\ pc[t] \in Inside
        /\ Doing("rxflush") = Doing(pc[t]) /\ Where("rxflush") = Where(pc[t])
    BY <2>1 DEF Place, InFrame, Inside, Doing, Where
  <2>3. job[t].fn = Doing("rxflush") /\ phyTx' \in {NULL} \cup {Bytes(m) : m \in Message}
    BY <2>1, <2>2 DEF ChipInv, Working
  <2>4. ChipInv' /\ Got' = Got /\ At' = At
    BY <2>1, <2>2, <2>3, Quiet
  <2> QED  BY <2>1, <2>4 DEF Chip!vars, At, Got
<1>2. CASE FlushRx(t)
  <2>1. /\ pc[t] = "rxflush" /\ pc' = [pc EXCEPT ![t] = "pdreset"] /\ rxFifo' = <<>>
        /\ UNCHANGED <<job, buf, told, phyTx, phyHardReset, intr>>
    BY <1>2 DEF FlushRx
  <2>2. /\ "pdreset" \in Place /\ "pdreset" \notin InFrame /\ pc[t] \in Inside
        /\ Doing("pdreset") = Doing(pc[t]) /\ Doing(pc[t]) = "reset"
        /\ Where(pc[t]) = "called" /\ Where("pdreset") = "half"
        /\ Held("pdreset", buf[t]) = Held(pc[t], buf[t])
    BY <2>1 DEF Place, InFrame, Inside, Doing, Where, Held
  <2>3. PICK pos : Framed(rxFifo', 0, <<>>, pos)
    BY <2>1, FramedEmpty
  <2>4. buf' = [buf EXCEPT ![t] = buf[t]] /\ job[t].fn = "reset"
    BY <2>1, <2>2 DEF ChipInv, Working
  <2>5. ChipInv'
    BY <2>1, <2>2, <2>3, <2>4, Reads DEF InFrame
  <2>6. Got' = Got /\ At[t] = "called" /\ At' = [At EXCEPT ![t] = "half"]
    <3>1. Got' = Got /\ At[t] = Where(pc[t]) /\ At' = [At EXCEPT ![t] = Where("pdreset")]
      BY <2>1, <2>2, Moves
    <3> QED  BY <2>2, <3>1
  <2>7. Chip!Forget(t)
    BY <2>1, <2>4, <2>6, FramedEmpty DEF Chip!Forget, Chip!Called, Chip!To, At, Got
  <2> QED  BY <2>5, <2>7 DEF Chip!Next
<1>3. CASE ResetPd(t)
  <2>1. /\ pc[t] = "pdreset" /\ pc' = [pc EXCEPT ![t] = "out"] /\ phyTx' = NULL
        /\ UNCHANGED <<job, buf, told, rxFifo, phyHardReset, intr>>
    BY <1>3 DEF ResetPd
  <2>2. /\ "out" \in Place \ InFrame /\ "out" \notin Inside /\ pc[t] \notin InFrame
        /\ Where(pc[t]) = "half" /\ Where("out") = "out"
    BY <2>1 DEF Place, InFrame, Inside, Where
  <2>3. ChipInv' /\ Got' = Got /\ At[t] = "half" /\ At' = [At EXCEPT ![t] = "out"]
    <3>1. /\ ChipInv' /\ Got' = Got /\ At[t] = Where(pc[t])
          /\ At' = [At EXCEPT ![t] = Where("out")]
      BY <2>1, <2>2, Quiet
    <3> QED  BY <2>2, <3>1
  <2>4. Chip!Abort(t)
    BY <2>1, <2>3 DEF Chip!Abort, Chip!To, At, Got, OnAir
  <2> QED  BY <2>3, <2>4 DEF Chip!Next
<1> QED  BY <1>1, <1>2, <1>3

\* A message arrives behind those that are there.
LEMMA ChipArrives ==
    ASSUME DriverInv, ChipInv, NEW m \in Message, NEW flag, Arrives(m, flag),
           phyTx' \in {NULL} \cup {Bytes(n) : n \in Message}
    PROVE  ChipInv' /\ Received(rxFifo') = Append(Received(rxFifo), m)
<1>1. /\ UNCHANGED <<pc, job, buf>>
      /\ rxFifo' = rxFifo \o <<SOP>> \o Bytes(m) \o <<CRC, CRC, CRC, CRC>>
  BY DEF Arrives
<1>2. PICK c, msgs, pos : Framed(rxFifo, c, msgs, pos) /\ ReadTo(c, msgs)
  BY DEF ChipInv, Reading
<1>3. rxFifo' = rxFifo \o Frame(m)
  <2> DEFINE a == <<SOP>>
             b == Bytes(m)
             d == <<CRC, CRC, CRC, CRC>>
  <2>1. a \in Seq(RxSymbol) /\ d \in Seq(RxSymbol)
    BY DEF SOP, CRC, RxSymbol
  <2>2. b \in Seq(RxSymbol)
    <3>1. MsgLen(m) \in Nat /\ \A i \in 1..MsgLen(m) : <<m, i>> \in RxSymbol
      BY LengthType DEF RxSymbol
    <3> QED  BY <3>1 DEF Bytes
  <2>3. rxFifo \in Seq(RxSymbol)
    BY <1>2 DEF Framed
  <2>4. rxFifo' = ((rxFifo \o a) \o b) \o d /\ Frame(m) = (a \o b) \o d
    BY <1>1 DEF Frame
  <2> HIDE DEF a, b, d
  <2>5. rxFifo \o a \in Seq(RxSymbol) /\ a \o b \in Seq(RxSymbol)
    BY <2>1, <2>2, <2>3, ConcatProperties
  <2> DEFINE ab == a \o b
  <2>6. (rxFifo \o a) \o b = rxFifo \o ab
    BY <2>1, <2>2, <2>3, ConcatAssociative, SMTT(40)
  <2>7. ab \in Seq(RxSymbol) /\ Frame(m) = ab \o d
    BY <2>4, <2>5
  <2> HIDE DEF ab
  <2>8. (rxFifo \o ab) \o d = rxFifo \o (ab \o d)
    BY <2>1, <2>3, <2>7, ConcatAssociative, SMTT(40)
  <2> QED  BY <2>4, <2>6, <2>7, <2>8
<1> DEFINE all == Append(msgs, m)
<1>4. PICK after : Framed(rxFifo', c, all, after)
  BY <1>2, <1>3, FramedArrive
<1>5. msgs \in Seq(Message) /\ (msgs # <<>> => all[1] = msgs[1]) /\ all # <<>> /\ c \in Nat
  <2>1. msgs \in Seq(Message) /\ c \in Nat
    BY <1>2 DEF Framed
  <2>2. msgs # <<>> => 1 \in 1..Len(msgs)
    BY <2>1, EmptySeq
  <2> QED  BY <2>1, <2>2, AppendProperties
<1>6. \A t \in Thread : pc[t] \in InFrame => msgs # <<>> /\ all[1] = msgs[1]
  BY <1>2, <1>5, ReceivedIs DEF ReadTo, InFrame
<1> HIDE DEF all
<1>7. ReadTo(c, all)'
  BY <1>1, <1>2, <1>5, <1>6 DEF ReadTo, InFrame, Bytes, MsgLen
<1>8. ChipInv'
  BY <1>1, <1>4, <1>7 DEF ChipInv, Working, Reading, Bytes, MsgLen
<1>9. Received(rxFifo') = Append(Received(rxFifo), m)
  <2>1. CASE c \in {0, 1}
    BY <1>2, <1>4, <2>1, ReceivedIs DEF all
  <2>2. CASE c \notin {0, 1}
    <3>1. msgs # <<>> /\ c >= 2 /\ c <= FrameLen(msgs[1]) /\ all[1] = msgs[1]
      <4>1. msgs # <<>>
        BY <1>2, <2>2, ReceivedIs
      <4>2. msgs[1] \in Message /\ MsgLen(msgs[1]) \in Nat /\ FrameLen(msgs[1]) = MsgLen(msgs[1]) + 5
            /\ MsgLen(msgs[1]) >= 2
        BY <1>2, <4>1, FramedFirst, LengthType DEF FrameLen
      <4>3. c = 3 \/ c = MsgLen(msgs[1]) + 1
        BY <1>2, <2>2 DEF ReadTo, InFrame
      <4> QED  BY <1>5, <4>1, <4>2, <4>3
    <3>2. Received(rxFifo) = Tail(msgs) /\ Received(rxFifo') = Tail(all)
      BY <1>2, <1>4, <1>5, <3>1, ReceivedIs
    <3>3. Tail(all) = Append(Tail(msgs), m)
      BY <1>5, <3>1, HeadTailAppend DEF all
    <3> QED  BY <3>2, <3>3
  <2> QED  BY <2>1, <2>2
<1> QED  BY <1>8, <1>9

\* The steps of the chip itself.
LEMMA ChipItself ==
    ASSUME DriverInv, ChipInv, Receive \/ TransmitSucceeds \/ HardResetSignalled
    PROVE  ChipInv' /\ Chip!Next
<1>1. CASE Receive
  <2>1. PICK m \in Message : Arrives(m, "I_GCRCSENT")
    BY <1>1 DEF Receive
  <2>2. phyTx' = phyTx /\ phyTx' \in {NULL} \cup {Bytes(n) : n \in Message}
    BY <1>1 DEF Receive, ChipInv
  <2>3. ChipInv' /\ Received(rxFifo') = Append(Received(rxFifo), m)
    BY <2>1, <2>2, ChipArrives
  <2>4. Chip!Receive
    BY <2>1, <2>2, <2>3 DEF Arrives, Chip!Receive, Chip!Arrive
  <2> QED  BY <2>3, <2>4 DEF Chip!Next
<1>2. CASE TransmitSucceeds
  <2>1. phyTx # NULL /\ phyTx' = NULL /\ Arrives(GoodCRC, "I_TXSENT") /\ GoodCRC \in Message
    BY <1>2, MessageAssumption DEF TransmitSucceeds
  <2>2. ChipInv' /\ Received(rxFifo') = Append(Received(rxFifo), GoodCRC)
    BY <2>1, ChipArrives
  <2>3. OnAir(phyTx) # NULL /\ OnAir(phyTx') = NULL
    <3>1. PICK m \in Message : phyTx = Bytes(m)
      BY <2>1 DEF ChipInv
    <3>2. OnAir(phyTx) = m /\ m # NULL
      BY <3>1, MessageOfBytes, MessageAssumption
    <3> QED  BY <2>1, <3>2 DEF OnAir
  <2>4. Chip!Transmitted
    BY <2>1, <2>2, <2>3 DEF Arrives, Chip!Transmitted, Chip!Arrive
  <2> QED  BY <2>2, <2>4 DEF Chip!Next
<1>3. CASE HardResetSignalled
  <2>1. ChipInv'
    BY <1>3 DEF HardResetSignalled, ChipInv, Working, Reading, ReadTo, Bytes, MsgLen
  <2>2. Chip!Signalled
    BY <1>3 DEF HardResetSignalled, Chip!Signalled
  <2> QED  BY <2>1, <2>2 DEF Chip!Next
<1> QED  BY <1>1, <1>2, <1>3

\* Every step of the driver and of the chip is one of the transceiver, or none.
LEMMA ChipStep ==
    ASSUME DriverInv, Sent, ChipInv, [Next]_vars
    PROVE  ChipInv' /\ [Chip!Next]_Chip!vars
<1>1. CASE UNCHANGED vars
  <2>1. ChipInv'
    BY <1>1 DEF vars, chipVars, ChipInv, Working, Reading, ReadTo, Bytes, MsgLen
  <2> QED  BY <1>1, <2>1 DEF vars, chipVars, Chip!vars
<1>2. ASSUME NEW t \in Thread, Driver(t) PROVE ChipInv' /\ [Chip!Next]_Chip!vars
  BY <1>2, ChipSends, ChipReadsToken, ChipReadsHeader, ChipReadsObjects, ChipReadsCrc,
     ChipResets
  DEF Driver
<1>3. CASE Receive \/ TransmitSucceeds \/ HardResetSignalled
  BY <1>3, ChipItself
<1> QED  BY <1>1, <1>2, <1>3 DEF Next

\* Each function of the driver acts at one moment, with whole messages: what is sent is
\* the caller's message, what is read is the oldest that was received
\* (fusb302b.c:91-154, 213-248), for any threads, messages and numbers of calls.
THEOREM ChipCorrect == Spec => ChipSpec
<1>1. DriverInv /\ Sent /\ ChipInv /\ [Next]_vars => ChipInv' /\ [Chip!Next]_Chip!vars
  BY ChipStep
<1> QED
  BY <1>1, ChipInit, DriverCorrect, SentCorrect, PTL DEF Spec, ChipSpec, Chip!Spec

=============================================================================
