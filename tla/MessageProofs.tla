--------------------------- MODULE MessageProofs ---------------------------
(***************************************************************************)
(* What the sink makes of the source's messages, and what it puts in its   *)
(* own.                                                                    *)
(*                                                                         *)
(* First the scan of DevicePolicyManager, for any offers of up to seven    *)
(* PDOs: the Request that stands names the best PDO of the last            *)
(* capabilities.  The invariant of the loop says that max_index is the     *)
(* best of the PDOs the scan has passed, and that max_power, min_voltage   *)
(* and max_current are its figures.                                        *)
(*                                                                         *)
(* Then the words of MessageFormat, for any partner and any choice of the  *)
(* DPM.  A number put into a field is read back from it, the fields of a   *)
(* header do not overlap, and every test of the engine asks for a name in  *)
(* pd.h's tables; the invariant of the steps says which revision           *)
(* hdr_template has and that _last_dpm_request is one of the DPM's, but    *)
(* for the MessageID it was last sent with.                                *)
(***************************************************************************)
EXTENDS DevicePolicyManager, MessageFormat, TLAPS

\* What the scan knows of the PDOs before the i-th.
Passed ==
    IF best.pos = 0
    THEN best = NoneYet /\ \A j \in 1..(i - 1) : ~Usable(caps[j])
    ELSE /\ BestOf(caps, i, best.pos)
         /\ best = [pos |-> best.pos, power |-> Power(caps[best.pos]),
                    mv |-> MilliVolts(caps[best.pos]), ma |-> MilliAmps(caps[best.pos])]

ScanInv ==
    /\ dpmPc \in {"idle", "scan"}
    /\ caps \in Offers \cup {NoCaps}
    /\ dpmPc = "scan" => caps \in Offers /\ i \in 1..(Len(caps) + 1) /\ Passed
    /\ RequestIsBest

-----------------------------------------------------------------------------
\* An offer is a sequence of PDOs, so its elements are.
LEMMA OfferType ==
    ASSUME NEW o \in Offers
    PROVE  Len(o) \in 1..7 /\ \A j \in 1..Len(o) : o[j] \in PDO
<1>1. o \in Seq(PDO) /\ Len(o) \in 1..7
  BY OffersAssumption DEF IsOffer
<1> QED  BY <1>1

\* The power of a PDO, in whole milliwatts, is a natural number.
LEMMA PowerType ==
    ASSUME NEW p \in PDO
    PROVE  Power(p) \in Nat /\ MilliVolts(p) \in Nat /\ MilliAmps(p) \in Nat
<1>1. p.v \in Nat /\ p.c \in Nat
  <2>1. p.v \in Nat
    BY DEF PDO, Types
  <2>2. p.c \in Nat
    BY DEF PDO, Types
  <2> QED  BY <2>1, <2>2
<1>2. MilliVolts(p) \in Nat /\ MilliAmps(p) \in Nat
  BY <1>1 DEF MilliVolts, MilliAmps
<1>3. ASSUME NEW m \in Nat, NEW n \in Nat PROVE (m * n + 500) \div 1000 \in Nat
  <2>1. m * n \in Nat
    OBVIOUS
  <2>2. ASSUME NEW k \in Nat PROVE (k + 500) \div 1000 \in Nat
    OBVIOUS
  <2> QED  BY <2>1, <2>2
<1> QED  BY <1>2, <1>3 DEF Power

\* Voltage and current fit fields of ten bits.
TenBits == 0..1023

\* The current of a PDO does.
LEMMA FieldType == ASSUME NEW p \in PDO PROVE p.c \in TenBits
BY DEF PDO, Types, TenBits

\* The current of a PDO comes through milliamperes unchanged.
LEMMA CurrentKept == ASSUME NEW p \in PDO PROVE PD_MA2PDI(MilliAmps(p)) = p.c
<1>1. p.c \in Nat
  BY DEF PDO, Types
<1>2. ASSUME NEW c \in Nat PROVE (c * 10 + 9) \div 10 = c
  OBVIOUS
<1> QED  BY <1>1, <1>2 DEF PD_MA2PDI, MilliAmps

\* One PDO more.
LEMMA ScanStep == ScanInv /\ Scan => ScanInv'
<1> SUFFICES ASSUME ScanInv, Scan PROVE ScanInv'
  OBVIOUS
<1> DEFINE p == caps[i]
<1>1. caps \in Offers /\ i \in 1..Len(caps) /\ Passed /\ dpmPc' = "scan" /\ caps' = caps /\ i' = i + 1
  BY OfferType DEF Scan, ScanInv
<1>2. p \in PDO /\ \A j \in 1..Len(caps) : caps[j] \in PDO /\ Len(caps) \in Nat
  BY <1>1, OfferType
<1>3. \A j \in 1..Len(caps) : /\ caps[j].v \in Nat /\ Power(caps[j]) \in Nat
                              /\ MilliVolts(caps[j]) = caps[j].v * 50
  <2>1. ASSUME NEW q \in PDO PROVE q.v \in Nat
    BY DEF PDO, Types
  <2> QED  BY <1>2, <2>1, PowerType DEF MilliVolts
<1>4. i' - 1 = i /\ 1..i = 1..(i - 1) \cup {i} /\ i \notin 1..(i - 1) /\ 1..i \subseteq 1..Len(caps)
  BY <1>1
<1>5. Passed'
  <2>1. CASE Skip(p) /\ best.pos = 0
    <3>1. best = NoneYet /\ best.power = 0 /\ best.mv = 20000 /\ best' = best
      BY <1>1, <2>1 DEF Passed, NoneYet, Scan
    <3>2. ~Usable(p)
      BY <1>1, <1>3, <2>1, <3>1 DEF Skip, Usable
    <3> QED  BY <1>1, <1>4, <2>1, <3>1, <3>2 DEF Passed
  <2>2. CASE Skip(p) /\ best.pos # 0
    <3>1. /\ BestOf(caps, i, best.pos) /\ best' = best
          /\ best.power = Power(caps[best.pos]) /\ best.mv = MilliVolts(caps[best.pos])
      BY <1>1, <2>2 DEF Passed, Scan
    <3>2. best.pos \in 1..(i - 1) /\ best.pos \in 1..i /\ best.pos \in 1..Len(caps)
      BY <1>1, <1>4, <3>1 DEF BestOf
    <3>3. Usable(p) => \/ Power(p) < Power(caps[best.pos])
                       \/ (Power(p) = Power(caps[best.pos]) /\ p.v >= caps[best.pos].v)
      BY <1>1, <1>3, <2>2, <3>1, <3>2 DEF Skip, Usable
    <3>4. BestOf(caps, i + 1, best.pos)
      BY <1>1, <1>4, <3>1, <3>2, <3>3 DEF BestOf
    <3> QED  BY <1>1, <2>2, <3>1, <3>4 DEF Passed
  <2>3. CASE ~Skip(p)
    <3>1. /\ best' = [pos |-> i, power |-> Power(p), mv |-> MilliVolts(p), ma |-> MilliAmps(p)]
          /\ best'.pos = i /\ i # 0
      BY <1>1, <2>3 DEF Scan
    <3>2. CASE best.pos = 0
      <4>1. best.power = 0 /\ best.mv = 20000 /\ \A j \in 1..(i - 1) : ~Usable(caps[j])
        BY <1>1, <3>2 DEF Passed, NoneYet
      <4>2. Usable(p)
        BY <1>1, <1>3, <2>3, <4>1 DEF Skip, Usable
      <4>3. BestOf(caps, i + 1, i)
        BY <1>1, <1>3, <1>4, <4>1, <4>2 DEF BestOf
      <4> QED  BY <1>1, <3>1, <4>3 DEF Passed
    <3>3. CASE best.pos # 0
      <4>1. /\ BestOf(caps, i, best.pos)
            /\ best.power = Power(caps[best.pos]) /\ best.mv = MilliVolts(caps[best.pos])
        BY <1>1, <3>3 DEF Passed
      <4>2. best.pos \in 1..(i - 1) /\ best.pos \in 1..Len(caps) /\ Usable(caps[best.pos])
        BY <1>1, <1>4, <4>1 DEF BestOf
      <4>3. p.type = "fixed" /\ (\/ Power(p) > best.power
                                \/ (Power(p) = best.power /\ p.v <= caps[best.pos].v))
        BY <1>1, <1>3, <2>3, <4>1, <4>2, SMTT(40) DEF Skip
      <4>4. Usable(p)
        BY <1>1, <1>3, <4>1, <4>2, <4>3 DEF Usable
      <4>5. ASSUME NEW j \in 1..i, Usable(caps[j])
            PROVE  Power(caps[j]) < Power(p) \/ (Power(caps[j]) = Power(p) /\ caps[j].v >= p.v)
        <5>1. CASE j = i
          BY <1>1, <1>3, <5>1
        <5>2. CASE j \in 1..(i - 1)
          <6>1. \/ Power(caps[j]) < Power(caps[best.pos])
                \/ (Power(caps[j]) = Power(caps[best.pos]) /\ caps[j].v >= caps[best.pos].v)
            BY <4>1, <4>5, <5>2 DEF BestOf
          <6>2. j \in 1..Len(caps)
            BY <1>4
          <6>3. /\ Power(caps[j]) \in Nat /\ Power(caps[best.pos]) \in Nat /\ Power(p) \in Nat
                /\ caps[j].v \in Nat /\ caps[best.pos].v \in Nat /\ p.v \in Nat
            BY <1>1, <1>3, <4>2, <6>2
          <6> HIDE DEF p
          <6> QED  BY <4>1, <4>3, <6>1, <6>3
        <5> QED  BY <1>4, <5>1, <5>2
      <4>6. BestOf(caps, i + 1, i)
        BY <1>1, <1>4, <4>4, <4>5 DEF BestOf
      <4> QED  BY <1>1, <3>1, <4>6 DEF Passed
    <3> QED  BY <3>2, <3>3
  <2> QED  BY <2>1, <2>2, <2>3
<1>6. i' \in 1..(Len(caps) + 1)
  BY <1>1, <1>2
<1> QED  BY <1>1, <1>5, <1>6 DEF ScanInv, RequestIsBest

\* The end of the scan: the loop has passed every PDO.
LEMMA FinishStep == ScanInv /\ Finish => ScanInv'
<1> SUFFICES ASSUME ScanInv, Finish PROVE ScanInv'
  OBVIOUS
<1>1. /\ caps \in Offers /\ Passed /\ dpmPc' = "idle" /\ caps' = caps
      /\ Len(caps) \in 1..7 /\ i = Len(caps) + 1 /\ i - 1 = Len(caps)
  BY OfferType DEF Finish, ScanInv
<1>2. CASE best.pos = 0
  <2>1. \A j \in 1..Len(caps) : ~Usable(caps[j])
    BY <1>1, <1>2 DEF Passed
  <2>2. request' = [pos |-> 1, c |-> PD_MA2PDI(DPM_MIN_CURRENT)]
    BY <1>2 DEF Finish
  <2> QED  BY <1>1, <2>1, <2>2 DEF ScanInv, RequestIsBest
<1>3. CASE best.pos # 0
  <2>1. /\ BestOf(caps, Len(caps) + 1, best.pos) /\ best.ma = MilliAmps(caps[best.pos])
        /\ best.pos \in 1..Len(caps) /\ Usable(caps[best.pos])
    BY <1>1, <1>3 DEF Passed, BestOf
  <2>2. request'.pos = best.pos /\ request'.c = caps[best.pos].c
    BY <1>1, <2>1, OfferType, CurrentKept DEF Finish
  <2> QED  BY <1>1, <2>1, <2>2 DEF ScanInv, RequestIsBest
<1> QED  BY <1>2, <1>3

\* Every step keeps the invariant.
LEMMA BestKept == ScanInv /\ [DpmNext]_dpmVars => ScanInv'
<1> SUFFICES ASSUME ScanInv, [DpmNext]_dpmVars PROVE ScanInv'
  OBVIOUS
<1>1. CASE Evaluate
  <2>1. caps' \in Offers /\ i' = 1 /\ best' = NoneYet /\ dpmPc' = "scan"
    BY <1>1 DEF Evaluate
  <2>2. i' \in 1..(Len(caps') + 1) /\ 1..(i' - 1) = {}
    BY <2>1, OfferType
  <2>3. Passed'
    BY <2>1, <2>2 DEF Passed, NoneYet
  <2> QED  BY <2>1, <2>2, <2>3 DEF ScanInv, RequestIsBest
<1>2. CASE EvaluateNothing
  BY <1>2 DEF EvaluateNothing, ScanInv, RequestIsBest
<1>3. CASE GetSinkCapability
  BY <1>3 DEF GetSinkCapability, ScanInv, RequestIsBest
<1>4. CASE UNCHANGED dpmVars
  BY <1>4 DEF dpmVars, ScanInv, RequestIsBest, Passed
<1> QED  BY <1>1, <1>2, <1>3, <1>4, ScanStep, FinishStep DEF DpmNext

\* The Request that stands names the most powerful fixed PDO, at the lowest voltage
\* (device_policy_manager.c:29-80), for any offers.
THEOREM BestCorrect == DpmSpec => []RequestIsBest
<1>1. DpmInit => ScanInv
  BY DEF DpmInit, ScanInv, RequestIsBest
<1>2. ScanInv => RequestIsBest
  BY DEF ScanInv
<1> QED  BY <1>1, <1>2, BestKept, PTL DEF DpmSpec

-----------------------------------------------------------------------------
\* A PDO fits its fields, and so does the Request for one.
LEMMA ScanType == ScanInv /\ DpmTypeOK /\ Scan => DpmTypeOK'
<1> SUFFICES ASSUME ScanInv, DpmTypeOK, Scan PROVE DpmTypeOK'
  OBVIOUS
<1>1. caps \in Offers /\ Len(caps) \in 1..7 /\ i \in 1..Len(caps) /\ caps[i] \in PDO
  BY OfferType DEF Scan, ScanInv
<1>2. Power(caps[i]) \in Nat /\ MilliVolts(caps[i]) \in Nat /\ MilliAmps(caps[i]) \in Nat
  BY <1>1, PowerType, Zenon
<1>3. best' \in [pos : 0..7, power : Nat, mv : Nat, ma : Nat]
  <2>1. CASE Skip(caps[i])
    BY <2>1 DEF Scan, DpmTypeOK
  <2>2. CASE ~Skip(caps[i])
    <3>1. best' = [pos |-> i, power |-> Power(caps[i]), mv |-> MilliVolts(caps[i]),
                   ma |-> MilliAmps(caps[i])]
      BY <2>2 DEF Scan
    <3>2. i \in 0..7
      BY <1>1
    <3> QED  BY <1>2, <3>1, <3>2
  <2> QED  BY <2>1, <2>2
<1>4. i' \in 0..8
  BY <1>1 DEF Scan
<1> QED  BY <1>3, <1>4 DEF Scan, DpmTypeOK

LEMMA FinishType == ScanInv /\ DpmTypeOK /\ Finish => DpmTypeOK'
<1> SUFFICES ASSUME ScanInv, DpmTypeOK, Finish PROVE DpmTypeOK'
  OBVIOUS
<1>1. /\ caps \in Offers /\ Passed /\ Len(caps) \in 1..7 /\ i = Len(caps) + 1
      /\ best.pos \in 0..7
  BY OfferType DEF Finish, ScanInv, DpmTypeOK
<1>2. request' \in [pos : 0..7, c : 0..1023]
  <2>1. CASE best.pos = 0
    <3>1. PD_MA2PDI(DPM_MIN_CURRENT) = 10
      BY DEF PD_MA2PDI, DPM_MIN_CURRENT
    <3> QED  BY <2>1, <3>1 DEF Finish
  <2>2. CASE best.pos # 0
    <3>1. best.pos \in 1..Len(caps) /\ best.ma = MilliAmps(caps[best.pos])
      BY <1>1, <2>2 DEF Passed, BestOf
    <3>2. caps[best.pos] \in PDO
      BY <1>1, <3>1, OfferType
    <3>3. PD_MA2PDI(best.ma) \in TenBits
      <4>1. PD_MA2PDI(MilliAmps(caps[best.pos])) = caps[best.pos].c
        BY <3>2, CurrentKept
      <4>2. caps[best.pos].c \in TenBits
        BY <3>2, FieldType
      <4> QED  BY <3>1, <4>1, <4>2
    <3>4. request' = [pos |-> best.pos, c |-> PD_MA2PDI(best.ma)]
      BY <1>1, <2>2 DEF Finish
    <3> QED  BY <1>1, <3>3, <3>4 DEF TenBits
  <2> QED  BY <2>1, <2>2
<1> QED  BY <1>2 DEF Finish, DpmTypeOK

LEMMA SinkType == DpmTypeOK /\ GetSinkCapability => DpmTypeOK'
<1> SUFFICES ASSUME DpmTypeOK, GetSinkCapability PROVE DpmTypeOK'
  OBVIOUS
<1>1. ASSUME NEW k \in 1..4 PROVE PD_MV2PDV(SinkMilliVolts[k]) \in TenBits
  <2>1. /\ SinkMilliVolts[1] = 20000 /\ SinkMilliVolts[2] = 15000
        /\ SinkMilliVolts[3] = 9000 /\ SinkMilliVolts[4] = 5000
    BY DEF SinkMilliVolts
  <2>2. k = 1 \/ k = 2 \/ k = 3 \/ k = 4
    OBVIOUS
  <2> QED  BY <2>1, <2>2 DEF PD_MV2PDV, TenBits
<1>2. PD_PDO_SNK_FIXED_CURRENT_SET(SinkMilliAmps) \in TenBits
  BY DEF PD_PDO_SNK_FIXED_CURRENT_SET, SinkMilliAmps, TenBits
<1>3. sinkCaps' \in [1..4 -> PDO]
  <2>1. ASSUME NEW v \in TenBits, NEW c \in TenBits
        PROVE  [type |-> "fixed", v |-> v, c |-> c] \in PDO
    <3>1. PDO = [type : Types, v : TenBits, c : TenBits] /\ "fixed" \in Types
      BY DEF PDO, TenBits, Types
    <3> QED  BY <3>1
  <2>2. sinkCaps' = [k \in 1..4 |->
                       [type |-> "fixed", v |-> PD_MV2PDV(SinkMilliVolts[k]),
                        c |-> PD_PDO_SNK_FIXED_CURRENT_SET(SinkMilliAmps)]]
    BY DEF GetSinkCapability
  <2> QED  BY <1>1, <1>2, <2>1, <2>2
<1> QED  BY <1>3 DEF GetSinkCapability, DpmTypeOK

\* The locals of the scan, the Request and the Sink_Capabilities have their types: every
\* value fits its field (device_policy_manager.c:29-107), for any offers.
THEOREM DpmTypeCorrect == DpmSpec => []DpmTypeOK
<1> DEFINE Inv == ScanInv /\ DpmTypeOK
<1>1. DpmInit => Inv
  BY DEF DpmInit, ScanInv, RequestIsBest, DpmTypeOK, NoneYet, NoRequest
<1>2. Inv /\ [DpmNext]_dpmVars => Inv'
  <2> SUFFICES ASSUME Inv, [DpmNext]_dpmVars PROVE DpmTypeOK'
    BY BestKept
  <2>1. CASE Evaluate
    BY <2>1 DEF Evaluate, DpmTypeOK, NoneYet
  <2>2. CASE EvaluateNothing
    BY <2>2 DEF EvaluateNothing, DpmTypeOK
  <2>3. CASE UNCHANGED dpmVars
    BY <2>3 DEF dpmVars, DpmTypeOK
  <2> QED  BY <2>1, <2>2, <2>3, ScanType, FinishType, SinkType DEF DpmNext
<1> QED  BY <1>1, <1>2, PTL DEF DpmSpec

-----------------------------------------------------------------------------
(* The words of pd.h.                                                      *)

\* The powers of two that the bits of a field weigh.
LEMMA FieldPowers ==
    /\ \A n : n = 0 => 2^n = 1
    /\ \A n : n = 1 => 2^n = 2
    /\ \A n : n = 2 => 2^n = 4
    /\ \A n : n = 3 => 2^n = 8
    /\ \A n : n = 4 => 2^n = 16
    /\ \A n : n = 5 => 2^n = 32
    /\ \A n : n = 6 => 2^n = 64
    /\ \A n : n = 7 => 2^n = 128
    /\ \A n : n = 8 => 2^n = 256
    /\ \A n : n = 9 => 2^n = 512
    /\ \A n : n = 10 => 2^n = 1024
<1>1. \A n : n = 0 => 2^n = 1
  OBVIOUS
<1>2. \A n : n = 1 => 2^n = 2
  OBVIOUS
<1>3. \A n : n = 2 => 2^n = 4
  OBVIOUS
<1>4. \A n : n = 3 => 2^n = 8
  OBVIOUS
<1>5. \A n : n = 4 => 2^n = 16
  OBVIOUS
<1>6. \A n : n = 5 => 2^n = 32
  OBVIOUS
<1>7. \A n : n = 6 => 2^n = 64
  OBVIOUS
<1>8. \A n : n = 7 => 2^n = 128
  OBVIOUS
<1>9. \A n : n = 8 => 2^n = 256
  OBVIOUS
<1>10. \A n : n = 9 => 2^n = 512
  OBVIOUS
<1>11. \A n : n = 10 => 2^n = 1024
  OBVIOUS
<1> QED  BY <1>1, <1>2, <1>3, <1>4, <1>5, <1>6, <1>7, <1>8, <1>9, <1>10, <1>11

\* A number shifted by one place more is half of it, without the bit that fell off; a
\* number below 2^(k + 1) has nothing above its bit k.
LEMMA ShiftedOnce ==
    ASSUME NEW v \in Nat
    PROVE  \A k \in 0..9 :
              /\ v \div 2^k \in Nat
              /\ k = 0 => v \div 2^k = v
              /\ v \div 2^k = (IF (v \div 2^k) % 2 = 1 THEN 1 ELSE 0) + 2 * (v \div 2^(k + 1))
              /\ v < 2^(k + 1) => v \div 2^(k + 1) = 0
<1> DEFINE Good(k, p, q) ==
              /\ v \div p \in Nat
              /\ k = 0 => v \div p = v
              /\ v \div p = (IF (v \div p) % 2 = 1 THEN 1 ELSE 0) + 2 * (v \div q)
              /\ v < q => v \div q = 0
<1>1. Good(0, 1, 2)
  OBVIOUS
<1>2. Good(1, 2, 4)
  OBVIOUS
<1>3. Good(2, 4, 8)
  OBVIOUS
<1>4. Good(3, 8, 16)
  OBVIOUS
<1>5. Good(4, 16, 32)
  OBVIOUS
<1>6. Good(5, 32, 64)
  OBVIOUS
<1>7. Good(6, 64, 128)
  OBVIOUS
<1>8. Good(7, 128, 256)
  OBVIOUS
<1>9. Good(8, 256, 512)
  OBVIOUS
<1>10. Good(9, 512, 1024)
  OBVIOUS
<1> HIDE DEF Good
<1>11. \A k \in {0, 1, 2, 3, 4, 5, 6, 7, 8, 9} : Good(k, 2^k, 2^(k + 1))
  BY <1>1, <1>2, <1>3, <1>4, <1>5, <1>6, <1>7, <1>8, <1>9, <1>10, FieldPowers
<1>12. \A k \in 0..9 : k \in {0, 1, 2, 3, 4, 5, 6, 7, 8, 9}
  OBVIOUS
<1>13. \A k \in 0..9 : Good(k, 2^k, 2^(k + 1))
  BY <1>11, <1>12
<1> USE DEF Good
<1> QED  BY <1>13, Zenon

\* What is put into a field is read back from it.
LEMMA ReadBack ==
    ASSUME NEW lo \in 0..31, NEW hi \in lo..31, hi <= lo + 9,
           NEW v \in Nat, v < 2^(hi - lo + 1),
           NEW w, w \cap (lo..hi) = Set(v, lo..hi)
    PROVE  Get(w, lo..hi) = v
<1> DEFINE f == lo..hi
           bits == w \cap f
           Bit(b) == IF b \in bits THEN 1 ELSE 0
           from == Number(bits, f)
           good == [b \in 0..32 |-> IF b \in f THEN v \div 2^(b - lo) ELSE 0]
<1>1. Shift(f) = lo
  <2>1. lo \in f /\ \A b \in f : lo <= b
    OBVIOUS
  <2>2. \A s \in f : (\A b \in f : s <= b) => s = lo
    BY <2>1
  <2> HIDE DEF f
  <2> QED  BY <2>1, <2>2 DEF Shift
<1>2. \A b \in f : b \in bits <=> (v \div 2^(b - lo)) % 2 = 1
  BY <1>1 DEF Set
<1>3. \A b \in f : good[b] = Bit(b) + 2 * good[b + 1] /\ good[b] \in Nat
  <2> SUFFICES ASSUME NEW b \in f PROVE good[b] = Bit(b) + 2 * good[b + 1] /\ good[b] \in Nat
    OBVIOUS
  <2>1. b \in 0..31 /\ b + 1 \in 0..32 /\ b - lo \in 0..9 /\ b \in 0..32 /\ (b + 1) - lo = (b - lo) + 1
    OBVIOUS
  <2>2. good[b] = v \div 2^(b - lo)
    BY <2>1
  <2> DEFINE k == b - lo
  <2>3. /\ v \div 2^k \in Nat
        /\ v \div 2^k = (IF (v \div 2^k) % 2 = 1 THEN 1 ELSE 0) + 2 * (v \div 2^(k + 1))
        /\ v < 2^(k + 1) => v \div 2^(k + 1) = 0
    <3>1. k \in 0..9
      BY <2>1
    <3> QED  BY <3>1, ShiftedOnce
  <2>4. good[b + 1] = v \div 2^(k + 1)
    <3>1. CASE b < hi
      <4>1. b + 1 \in f
        BY <3>1
      <4> QED  BY <2>1, <4>1
    <3>2. CASE b = hi
      <4>1. b + 1 \notin f
        BY <3>2
      <4>2. v < 2^(k + 1)
        BY <3>2
      <4> QED  BY <2>1, <2>3, <4>1, <4>2
    <3> QED  BY <3>1, <3>2
  <2>5. Bit(b) = IF (v \div 2^k) % 2 = 1 THEN 1 ELSE 0
    BY <1>2
  <2> HIDE DEF k, good, bits
  <2> QED  BY <2>2, <2>3, <2>4, <2>5 DEF k
<1>4. from = [b \in 0..32 |-> IF b \in f THEN Bit(b) + 2 * from[b + 1] ELSE 0]
  <2>1. from = CHOOSE g : g = [b \in 0..32 |-> IF b \in f THEN Bit(b) + 2 * g[b + 1] ELSE 0]
    BY DEF Number
  <2>2. good = [b \in 0..32 |-> IF b \in f THEN Bit(b) + 2 * good[b + 1] ELSE 0]
    <3>1. \A b \in 0..32 : good[b] = IF b \in f THEN Bit(b) + 2 * good[b + 1] ELSE 0
      BY <1>3
    <3>2. good = [b \in 0..32 |-> good[b]]
      OBVIOUS
    <3> HIDE DEF good, f, bits
    <3> QED  BY <3>1, <3>2
  <2> HIDE DEF good, from, f, bits, Bit
  <2> QED  BY <2>1, <2>2
<1>5. \A b \in 0..32 : from[b] = IF b \in f THEN Bit(b) + 2 * from[b + 1] ELSE 0
  <2> HIDE DEF from, f, bits, Bit
  <2> QED  BY <1>4
<1> DEFINE Same(j) == from[hi + 1 - j] = good[hi + 1 - j]
<1>6. Same(0)
  <2>1. hi + 1 - 0 = hi + 1 /\ hi + 1 \in 0..32 /\ hi + 1 \notin f
    OBVIOUS
  <2>2. from[hi + 1] = 0
    <3> HIDE DEF from, f, bits, Bit
    <3> QED  BY <1>5, <2>1
  <2>3. good[hi + 1] = 0
    BY <2>1
  <2> HIDE DEF from, good
  <2> QED  BY <2>1, <2>2, <2>3
<1>7. ASSUME NEW j \in 0..(hi - lo), Same(j) PROVE Same(j + 1)
  <2>1. /\ hi + 1 - (j + 1) \in f /\ hi + 1 - (j + 1) \in 0..32
        /\ hi + 1 - (j + 1) + 1 = hi + 1 - j
    OBVIOUS
  <2> HIDE DEF from, good, f, bits, Bit
  <2> QED  BY <1>3, <1>5, <1>7, <2>1
<1>8. Same(hi - lo + 1)
  <2>1. hi - lo \in {0, 1, 2, 3, 4, 5, 6, 7, 8, 9}
    OBVIOUS
  <2> HIDE DEF Same
  <2>2. \A j \in {0, 1, 2, 3, 4, 5, 6, 7, 8, 9} : j <= hi - lo /\ Same(j) => Same(j + 1)
    BY <1>7
  <2> QED  BY <1>6, <2>1, <2>2
<1>9. from[lo] = good[lo]
  <2>1. hi + 1 - (hi - lo + 1) = lo
    OBVIOUS
  <2> HIDE DEF from, good
  <2> QED  BY <1>8, <2>1
<1>10. good[lo] = v
  <2>1. lo \in f /\ lo \in 0..32 /\ lo - lo = 0
    OBVIOUS
  <2>2. v \div 2^0 = v
    BY ShiftedOnce
  <2> QED  BY <2>1, <2>2
<1> HIDE DEF good
<1> QED  BY <1>1, <1>9, <1>10 DEF Get

LEMMA SetInField == \A v, f : Set(v, f) \subseteq f
BY DEF Set

\* So it is for each field the code reads.
LEMMA FieldsRead ==
    /\ \A w, v : v \in 0..31 /\ w \cap MSGTYPE = Set(v, MSGTYPE) => Get(w, MSGTYPE) = v
    /\ \A w, v : v \in 0..3 /\ w \cap SPECREV = Set(v, SPECREV) => Get(w, SPECREV) = v
    /\ \A w, v : v \in 0..7 /\ w \cap MESSAGEID = Set(v, MESSAGEID) => Get(w, MESSAGEID) = v
    /\ \A w, v : v \in 0..7 /\ w \cap NUMOBJ = Set(v, NUMOBJ) => Get(w, NUMOBJ) = v
    /\ \A w, v : v \in 0..7 /\ w \cap OBJPOS = Set(v, OBJPOS) => Get(w, OBJPOS) = v
    /\ \A w, v : v \in 0..1023 /\ w \cap FV_CURRENT = Set(v, FV_CURRENT) => Get(w, FV_CURRENT) = v
    /\ \A w, v : v \in 0..1023 /\ w \cap FV_MAX_CURRENT = Set(v, FV_MAX_CURRENT)
                    => Get(w, FV_MAX_CURRENT) = v
<1>1. ASSUME NEW lo \in 0..31, NEW hi \in lo..31, hi <= lo + 9, NEW top,
             top = 2^(hi - lo + 1) - 1, top \in Nat, NEW w, NEW v \in 0..top,
             w \cap (lo..hi) = Set(v, lo..hi)
      PROVE  Get(w, lo..hi) = v
  <2>1. hi - lo \in {0, 1, 2, 3, 4, 5, 6, 7, 8, 9}
    BY <1>1
  <2>2. 2^(hi - lo + 1) \in Nat
    BY <2>1, FieldPowers
  <2>3. v \in Nat /\ v < 2^(hi - lo + 1)
    BY <1>1, <2>2
  <2> QED  BY <1>1, <2>3, ReadBack
<1>2. /\ \A n : n = 4 - 0 + 1 => 2^n = 32
      /\ \A n : n = 7 - 6 + 1 => 2^n = 4
      /\ \A n : n = 11 - 9 + 1 => 2^n = 8
      /\ \A n : n = 14 - 12 + 1 => 2^n = 8
      /\ \A n : n = 30 - 28 + 1 => 2^n = 8
      /\ \A n : n = 19 - 10 + 1 => 2^n = 1024
      /\ \A n : n = 9 - 0 + 1 => 2^n = 1024
  BY FieldPowers
<1>3. \A w, v : v \in 0..31 /\ w \cap MSGTYPE = Set(v, MSGTYPE) => Get(w, MSGTYPE) = v
  BY <1>1, <1>2 DEF MSGTYPE
<1>4. \A w, v : v \in 0..3 /\ w \cap SPECREV = Set(v, SPECREV) => Get(w, SPECREV) = v
  BY <1>1, <1>2 DEF SPECREV
<1>5. \A w, v : v \in 0..7 /\ w \cap MESSAGEID = Set(v, MESSAGEID) => Get(w, MESSAGEID) = v
  BY <1>1, <1>2 DEF MESSAGEID
<1>6. \A w, v : v \in 0..7 /\ w \cap NUMOBJ = Set(v, NUMOBJ) => Get(w, NUMOBJ) = v
  BY <1>1, <1>2 DEF NUMOBJ
<1>7. \A w, v : v \in 0..7 /\ w \cap OBJPOS = Set(v, OBJPOS) => Get(w, OBJPOS) = v
  BY <1>1, <1>2 DEF OBJPOS
<1>8. \A w, v : v \in 0..1023 /\ w \cap FV_CURRENT = Set(v, FV_CURRENT) => Get(w, FV_CURRENT) = v
  BY <1>1, <1>2 DEF FV_CURRENT
<1>9. \A w, v : v \in 0..1023 /\ w \cap FV_MAX_CURRENT = Set(v, FV_MAX_CURRENT)
                   => Get(w, FV_MAX_CURRENT) = v
  BY <1>1, <1>2 DEF FV_MAX_CURRENT
<1> QED  BY <1>3, <1>4, <1>5, <1>6, <1>7, <1>8, <1>9

\* The revisions 2.0 and 3.0 in a word, and none.
LEMMA Revisions ==
    \A w : /\ w \cap SPECREV = Set(R2, SPECREV) => Get(w, SPECREV) = R2
           /\ w \cap SPECREV = Set(R3, SPECREV) => Get(w, SPECREV) = R3
           /\ w \cap SPECREV = {} => Get(w, SPECREV) = R1
<1>1. Set(0, SPECREV) = {}
  <2>1. Shift(SPECREV) = 6
    <3>1. 6 \in SPECREV /\ \A b \in SPECREV : 6 <= b
      BY DEF SPECREV
    <3>2. \A s \in SPECREV : (\A b \in SPECREV : s <= b) => s = 6
      BY <3>1 DEF SPECREV
    <3> QED  BY <3>1, <3>2 DEF Shift
  <2>2. \A b \in SPECREV : b - 6 \in {0, 1}
    BY DEF SPECREV
  <2>3. \A b \in SPECREV : (0 \div 2^(b - 6)) % 2 = 0
    BY <2>2, FieldPowers
  <2> QED  BY <2>1, <2>3 DEF Set
<1> QED  BY <1>1, FieldsRead DEF R1, R2, R3

-----------------------------------------------------------------------------
(* Headers.                                                                *)

\* No two fields of a header share a bit.
LEMMA FieldsApart ==
    /\ SPECREV \cap MSGTYPE = {} /\ SPECREV \cap NUMOBJ = {} /\ SPECREV \cap MESSAGEID = {}
    /\ MSGTYPE \cap NUMOBJ = {} /\ MSGTYPE \cap MESSAGEID = {} /\ NUMOBJ \cap MESSAGEID = {}
    /\ \A f \in {SPECREV, MSGTYPE, NUMOBJ, MESSAGEID} : f \cap (DATAROLE \cup POWERROLE \cup EXT) = {}
<1>1. /\ SPECREV \cap MSGTYPE = {} /\ SPECREV \cap NUMOBJ = {} /\ SPECREV \cap MESSAGEID = {}
      /\ MSGTYPE \cap NUMOBJ = {} /\ MSGTYPE \cap MESSAGEID = {} /\ NUMOBJ \cap MESSAGEID = {}
  BY DEF MSGTYPE, SPECREV, MESSAGEID, NUMOBJ
<1>2. DATAROLE \cup POWERROLE \cup EXT = {5, 8, 15}
  BY DEF DATAROLE, POWERROLE, EXT
<1>3. /\ SPECREV \cap {5, 8, 15} = {} /\ MSGTYPE \cap {5, 8, 15} = {}
      /\ NUMOBJ \cap {5, 8, 15} = {} /\ MESSAGEID \cap {5, 8, 15} = {}
  BY DEF MSGTYPE, SPECREV, MESSAGEID, NUMOBJ
<1> QED  BY <1>1, <1>2, <1>3

\* But for its MessageID, hdr is made of the template, a type and a number of objects.
Carries(hdr, type, n) ==
    hdr \ MESSAGEID = template \cup Set(type, MSGTYPE) \cup Set(n, NUMOBJ)

\* The partner reads from a header of ours what was put in, however often it was numbered.
LEMMA HeaderReads ==
    ASSUME template \subseteq SPECREV, counter \in 0..7, NEW type \in 0..31, NEW n \in 0..7,
           NEW hdr, Carries(hdr, type, n)
    PROVE  /\ Get(Numbered(hdr), MSGTYPE) = type /\ Get(Numbered(hdr), NUMOBJ) = n
           /\ Get(Numbered(hdr), MESSAGEID) = counter
           /\ Numbered(hdr) \cap (DATAROLE \cup POWERROLE \cup EXT) = {}
           /\ Numbered(hdr) \cap SPECREV = template
           /\ Carries(Numbered(hdr), type, n)
<1>1. PICK a : a = Set(type, MSGTYPE) /\ a \subseteq MSGTYPE
  BY SetInField
<1>2. PICK b : b = Set(n, NUMOBJ) /\ b \subseteq NUMOBJ
  BY SetInField
<1>3. PICK c : c = Set(counter, MESSAGEID) /\ c \subseteq MESSAGEID
  BY SetInField
<1>4. PICK w : w = Numbered(hdr)
  OBVIOUS
<1>5. w = (hdr \ MESSAGEID) \cup c
  <2>1. counter % 8 = counter
    OBVIOUS
  <2> QED  BY <1>3, <1>4, <2>1 DEF Numbered
<1>6. hdr \ MESSAGEID = template \cup a \cup b
  BY <1>1, <1>2 DEF Carries
<1>7. w = template \cup a \cup b \cup c
  BY <1>5, <1>6
<1>8. w \cap MSGTYPE = a
  BY <1>1, <1>2, <1>3, <1>7, FieldsApart
<1>9. w \cap SPECREV = template
  BY <1>1, <1>2, <1>3, <1>7, FieldsApart
<1>10. w \cap MESSAGEID = c
  BY <1>1, <1>2, <1>3, <1>7, FieldsApart
<1>11. w \cap NUMOBJ = b
  BY <1>1, <1>2, <1>3, <1>7, FieldsApart
<1>12. w \cap (DATAROLE \cup POWERROLE \cup EXT) = {}
  BY <1>1, <1>2, <1>3, <1>7, FieldsApart
<1>13. Carries(w, type, n)
  BY <1>1, <1>2, <1>3, <1>5, <1>6 DEF Carries
<1>14. Get(w, MSGTYPE) = type /\ Get(w, NUMOBJ) = n /\ Get(w, MESSAGEID) = counter
  BY <1>1, <1>2, <1>3, <1>8, <1>10, <1>11, FieldsRead
<1> QED  BY <1>4, <1>9, <1>12, <1>13, <1>14

\* A header put together with hdr_template has nothing in the MessageID's place yet.
LEMMA BuiltParts ==
    ASSUME template \subseteq SPECREV, NEW table, NEW name, NEW n
    PROVE  Carries(Built(table, name, n), TypeOf(table, name), n)
<1>1. /\ Set(TypeOf(table, name), MSGTYPE) \subseteq MSGTYPE
      /\ Set(n, NUMOBJ) \subseteq NUMOBJ
  BY SetInField
<1>2. ASSUME NEW a, a \subseteq MSGTYPE, NEW c, c \subseteq NUMOBJ
      PROVE  (template \cup a \cup c) \ MESSAGEID = template \cup a \cup c
  BY <1>2 DEF MSGTYPE, SPECREV, MESSAGEID, NUMOBJ
<1> QED  BY <1>1, <1>2 DEF Built, Carries

\* The fields of a header of the partner.
LEMMA PartnerHeader ==
    ASSUME partnerRev \in PartnerRevs, NEW m \in Partner
    PROVE  Get(m.hdr, SPECREV) = partnerRev /\ Get(m.hdr, NUMOBJ) \in 0..7
<1>1. m.hdr \in Headers[FALSE][partnerRev] \/ m.hdr \in Headers[TRUE][partnerRev]
  BY DEF Partner
<1>2. \E ext \in BOOLEAN, t \in 0..31, n \in Counts : m.hdr = Header(partnerRev, t, n, ext)
  <2>1. \A ext \in BOOLEAN :
            Headers[ext][partnerRev] = {Header(partnerRev, t, n, ext) : t \in 0..31, n \in Counts}
    BY DEF Headers
  <2>2. ASSUME NEW ext \in BOOLEAN, m.hdr \in Headers[ext][partnerRev]
        PROVE  \E t \in 0..31, n \in Counts : m.hdr = Header(partnerRev, t, n, ext)
    <3>1. m.hdr \in {Header(partnerRev, t, n, ext) : t \in 0..31, n \in Counts}
      BY <2>1, <2>2
    <3> QED  BY <3>1
  <2> QED  BY <1>1, <2>2
<1>3. PICK ext \in BOOLEAN, t \in 0..31, n \in Counts : m.hdr = Header(partnerRev, t, n, ext)
  BY <1>2
<1>4. partnerRev \in 0..3 /\ n \in 0..7
  BY FormatAssumption
<1>5. ASSUME NEW a, a \subseteq MSGTYPE, NEW r, r \subseteq SPECREV, NEW c, c \subseteq NUMOBJ,
             NEW e, e \subseteq EXT
      PROVE  LET w == a \cup DATAROLE \cup r \cup POWERROLE \cup c \cup e
             IN  w \cap SPECREV = r /\ w \cap NUMOBJ = c
  BY <1>5, FieldsApart
<1>6. m.hdr \cap SPECREV = Set(partnerRev, SPECREV) /\ m.hdr \cap NUMOBJ = Set(n, NUMOBJ)
  BY <1>3, <1>5, SetInField DEF Header
<1> QED  BY <1>4, <1>6, FieldsRead

-----------------------------------------------------------------------------
(* Names.                                                                  *)

ControlNames == {"GoodCRC", "GotoMin", "Accept", "Reject", "Ping", "PS_RDY", "Get_Source_Cap",
                 "Get_Sink_Cap", "DR_Swap", "PR_Swap", "VCONN_Swap", "Wait", "Soft_Reset",
                 "Not_Supported", "Get_Source_Cap_Extended", "Get_Status", "FR_Swap",
                 "Get_PPS_Status", "Get_Country_Codes"}
DataNames    == {"Source_Capabilities", "Request", "BIST", "Sink_Capabilities", "Battery_Status",
                 "Alert", "Get_Country_Info", "Vendor_Defined"}

\* The tables name control messages and data messages, and none the same.
LEMMA Tables ==
    /\ DOMAIN Control = 1..21 /\ \A t \in 1..21 : Control[t] \in ControlNames \cup {"Reserved"}
    /\ DOMAIN Data = 1..15 /\ \A t \in 1..15 : Data[t] \in DataNames \cup {"Reserved"}
    /\ Control # Data
    /\ ControlNames \cap (DataNames \cup {"Reserved"}) = {} /\ "Reserved" \notin DataNames
<1>1. DOMAIN Control = 1..21 /\ DOMAIN Data = 1..15
  BY DEF Control, Data
<1>2. \A t \in 1..21 : Control[t] \in ControlNames \cup {"Reserved"}
  BY DEF Control, ControlNames
<1>3. \A t \in 1..15 : Data[t] \in DataNames \cup {"Reserved"}
  BY DEF Data, DataNames
<1>4. Control[1] = "GoodCRC" /\ Data[1] = "Source_Capabilities"
  BY DEF Control, Data
<1>5. Control # Data
  BY <1>4
<1>6. ControlNames \cap (DataNames \cup {"Reserved"}) = {} /\ "Reserved" \notin DataNames
  BY DEF ControlNames, DataNames
<1> QED  BY <1>1, <1>2, <1>3, <1>5, <1>6

\* Testing the type and the number of objects is testing the name.
LEMMA NameTested ==
    ASSUME NEW m, Get(m.hdr, NUMOBJ) \in Nat
    PROVE  /\ \A names : names \subseteq ControlNames => (Is(m, Control, names) <=> NameOf(m.hdr) \in names)
           /\ \A names : names \subseteq DataNames => (Is(m, Data, names) <=> NameOf(m.hdr) \in names)
<1>1. CASE Get(m.hdr, NUMOBJ) = 0
  <2>1. NameOf(m.hdr) = IF Get(m.hdr, MSGTYPE) \in DOMAIN Control THEN Control[Get(m.hdr, MSGTYPE)]
                        ELSE "Reserved"
    BY <1>1 DEF NameOf
  <2>2. NameOf(m.hdr) \in ControlNames \cup {"Reserved"}
    BY <2>1, Tables
  <2>3. ASSUME NEW names, names \subseteq ControlNames
        PROVE  Is(m, Control, names) <=> NameOf(m.hdr) \in names
    BY <1>1, <2>1, <2>3, Tables DEF Is
  <2>4. ASSUME NEW names, names \subseteq DataNames
        PROVE  Is(m, Data, names) <=> NameOf(m.hdr) \in names
    <3>1. ~Is(m, Data, names)
      BY <1>1 DEF Is
    <3>2. NameOf(m.hdr) \notin names
      BY <2>2, <2>4, Tables
    <3> QED  BY <3>1, <3>2
  <2> QED  BY <2>3, <2>4
<1>2. CASE Get(m.hdr, NUMOBJ) > 0
  <2>1. NameOf(m.hdr) = IF Get(m.hdr, MSGTYPE) \in DOMAIN Data THEN Data[Get(m.hdr, MSGTYPE)]
                        ELSE "Reserved"
    BY <1>2 DEF NameOf
  <2>2. NameOf(m.hdr) \in DataNames \cup {"Reserved"}
    BY <2>1, Tables
  <2>3. ASSUME NEW names, names \subseteq DataNames
        PROVE  Is(m, Data, names) <=> NameOf(m.hdr) \in names
    BY <1>2, <2>1, <2>3, Tables DEF Is
  <2>4. ASSUME NEW names, names \subseteq ControlNames
        PROVE  Is(m, Control, names) <=> NameOf(m.hdr) \in names
    <3>1. ~Is(m, Control, names)
      BY <1>2, Tables DEF Is
    <3>2. NameOf(m.hdr) \notin names
      BY <2>2, <2>4, Tables
    <3> QED  BY <3>1, <3>2
  <2> QED  BY <2>3, <2>4
<1> QED  BY <1>1, <1>2

\* The type of each message the sink sends.
LEMMA TypesSent ==
    /\ \A name \in {"Get_Source_Cap", "Accept", "Soft_Reset", "Reject", "Not_Supported"} :
          TypeOf(Control, name) \in 0..31 /\ Control[TypeOf(Control, name)] = name
    /\ \A name \in {"Request", "Sink_Capabilities"} :
          TypeOf(Data, name) \in 0..31 /\ Data[TypeOf(Data, name)] = name
<1>1. /\ Control[7] = "Get_Source_Cap" /\ Control[3] = "Accept" /\ Control[13] = "Soft_Reset"
      /\ Control[4] = "Reject" /\ Control[16] = "Not_Supported"
      /\ Data[2] = "Request" /\ Data[4] = "Sink_Capabilities"
  BY DEF Control, Data
<1>2. ASSUME NEW table, NEW name, \E t \in DOMAIN table : table[t] = name
      PROVE  TypeOf(table, name) \in DOMAIN table /\ table[TypeOf(table, name)] = name
  BY <1>2 DEF TypeOf
<1>3. 1..21 \subseteq 0..31 /\ 1..15 \subseteq 0..31
  OBVIOUS
<1>4. \A name \in {"Get_Source_Cap", "Accept", "Soft_Reset", "Reject", "Not_Supported"} :
          \E t \in DOMAIN Control : Control[t] = name
  BY <1>1, Tables
<1>5. \A name \in {"Request", "Sink_Capabilities"} : \E t \in DOMAIN Data : Data[t] = name
  BY <1>1, Tables
<1> QED  BY <1>2, <1>3, <1>4, <1>5, Tables

-----------------------------------------------------------------------------
(* Messages dealt with.                                                    *)

\* What a test of Is comes to in terms of the name.
LEMMA Tests ==
    ASSUME partnerRev \in PartnerRevs, NEW m \in Partner
    PROVE  LET n == NameOf(m.hdr)
           IN  /\ \A names : names \subseteq ControlNames => (Is(m, Control, names) <=> n \in names)
               /\ \A names : names \subseteq DataNames => (Is(m, Data, names) <=> n \in names)
BY PartnerHeader, NameTested

\* Every branch of the engine's states is the one for the message's name.
LEMMA Branches ==
    ASSUME partnerRev \in PartnerRevs, NEW m \in Partner
    PROVE  LET n == NameOf(m.hdr)
           IN  /\ AfterWaitCap(m) \in Dealt("WaitCap", n)
               /\ \A contract \in BOOLEAN : AfterSelectCap(m, contract) \in Dealt("SelectCap.rsp", n)
               /\ AfterTransitionSink(m) \in Dealt("TransitionSink", n)
               /\ ~(EXT \subseteq m.hdr) => AfterReady(m) \in Dealt("Ready", n)
               /\ AfterSoftReset(m) \in Dealt("SendSoftReset.rsp", n)
<1> DEFINE n == NameOf(m.hdr)
<1>1. /\ \A names : names \subseteq ControlNames => (Is(m, Control, names) <=> n \in names)
      /\ \A names : names \subseteq DataNames => (Is(m, Data, names) <=> n \in names)
  BY Tests
<1> HIDE DEF n
<1>2. /\ {"Soft_Reset"} \subseteq ControlNames /\ {"Accept"} \subseteq ControlNames
      /\ {"Reject", "Wait"} \subseteq ControlNames /\ {"PS_RDY"} \subseteq ControlNames
      /\ {"Ping"} \subseteq ControlNames /\ {"Get_Sink_Cap"} \subseteq ControlNames
      /\ {"DR_Swap", "Get_Source_Cap", "PR_Swap", "VCONN_Swap", "GotoMin"} \subseteq ControlNames
      /\ {"Not_Supported"} \subseteq ControlNames
  BY DEF ControlNames
<1>3. /\ {"Source_Capabilities"} \subseteq DataNames /\ {"Vendor_Defined"} \subseteq DataNames
      /\ {"Request", "Sink_Capabilities"} \subseteq DataNames
  BY DEF DataNames
<1>4. /\ Is(m, Control, {"Soft_Reset"}) <=> n = "Soft_Reset"
      /\ Is(m, Control, {"Accept"}) <=> n = "Accept"
      /\ Is(m, Control, {"Reject", "Wait"}) <=> n \in {"Reject", "Wait"}
      /\ Is(m, Control, {"PS_RDY"}) <=> n = "PS_RDY"
      /\ Is(m, Control, {"Ping"}) <=> n = "Ping"
      /\ Is(m, Control, {"Get_Sink_Cap"}) <=> n = "Get_Sink_Cap"
      /\ Is(m, Control, {"DR_Swap", "Get_Source_Cap", "PR_Swap", "VCONN_Swap", "GotoMin"})
             <=> n \in {"DR_Swap", "Get_Source_Cap", "PR_Swap", "VCONN_Swap", "GotoMin"}
      /\ Is(m, Control, {"Not_Supported"}) <=> n = "Not_Supported"
  BY <1>1, <1>2
<1>5. /\ Is(m, Data, {"Source_Capabilities"}) <=> n = "Source_Capabilities"
      /\ Is(m, Data, {"Vendor_Defined"}) <=> n = "Vendor_Defined"
      /\ Is(m, Data, {"Request", "Sink_Capabilities"}) <=> n \in {"Request", "Sink_Capabilities"}
  BY <1>1, <1>3
<1>6. AfterWaitCap(m) \in Dealt("WaitCap", n)
  BY <1>4, <1>5 DEF AfterWaitCap, Dealt
<1>7. ASSUME NEW contract \in BOOLEAN
      PROVE  AfterSelectCap(m, contract) \in Dealt("SelectCap.rsp", n)
  BY <1>4 DEF AfterSelectCap, Dealt
<1>8. AfterTransitionSink(m) \in Dealt("TransitionSink", n)
  BY <1>4 DEF AfterTransitionSink, Dealt
<1>9. ASSUME ~(EXT \subseteq m.hdr) PROVE AfterReady(m) \in Dealt("Ready", n)
  <2>1. ~IsChunk(m)
    BY <1>9 DEF IsChunk
  <2> QED  BY <1>4, <1>5, <2>1 DEF AfterReady, Dealt
<1>10. AfterSoftReset(m) \in Dealt("SendSoftReset.rsp", n)
  BY <1>4 DEF AfterSoftReset, Dealt
<1> QED  BY <1>6, <1>7, <1>8, <1>9, <1>10 DEF n

-----------------------------------------------------------------------------
(* The invariant.                                                          *)

\* The object of a Request for choice c.
RequestObject(c) ==
    Set(c[2], FV_MAX_CURRENT) \cup Set(c[2], FV_CURRENT) \cup NO_USB_SUSPEND \cup Set(c[1], OBJPOS)

\* _last_dpm_request is one of the DPM's, whatever MessageID it was sent with.
RequestKept ==
    /\ Carries(lastRequest.hdr, TypeOf(Data, "Request"), 1)
    /\ lastRequest.choice \in Requests /\ lastRequest.obj = RequestObject(lastRequest.choice)
    /\ lastRequest = [hdr |-> lastRequest.hdr, obj |-> lastRequest.obj, choice |-> lastRequest.choice]

\* The template has the revision both know, once capabilities have come; there is a Request in
\* every state the engine reaches after its first.
FormatInv ==
    /\ partnerRev \in PartnerRevs /\ counter \in 0..7
    /\ \/ template = Set(IF partnerRev >= R3 THEN R3 ELSE R2, SPECREV)
       \/ template = {} /\ lastRequest = None /\ phase \in {"WaitCap", "SoftReset", "HardReset"}
    /\ phase \in {"WaitCap", "SoftReset", "HardReset", "EvalCap"} \/ RequestKept

Messages == PartnerReads /\ RevisionAgreed /\ DealtAsNamed

\* The revision in a word that has the template's.
LEMMA RevisionRead ==
    ASSUME FormatInv, NEW w, w \cap SPECREV = template
    PROVE  Get(w, SPECREV) = IF template = {} THEN R1 ELSE IF partnerRev > R3 THEN R3 ELSE partnerRev
<1>1. partnerRev \in 1..3
  BY FormatAssumption DEF FormatInv
<1>2. CASE template = {}
  BY <1>2, Revisions
<1>3. CASE template # {}
  <2>1. Get(w, SPECREV) = IF partnerRev >= R3 THEN R3 ELSE R2
    BY <1>3, Revisions DEF FormatInv
  <2> QED  BY <1>1, <1>3, <2>1 DEF R2, R3
<1> QED  BY <1>2, <1>3

LEMMA TemplateType == ASSUME FormatInv PROVE template \subseteq SPECREV /\ template \cap SPECREV = template
<1>1. template \subseteq SPECREV
  BY SetInField DEF FormatInv
<1> QED  BY <1>1

\* A template the capabilities have set is not the empty one.
LEMMA TemplateSet ==
    ASSUME FormatInv, template = Set(IF partnerRev >= R3 THEN R3 ELSE R2, SPECREV)
    PROVE  template # {}
<1>1. template \cap SPECREV = template
  BY TemplateType
<1>2. Get(template, SPECREV) # R1
  BY <1>1, Revisions DEF R1, R2, R3
<1> QED  BY <1>2, Revisions

-----------------------------------------------------------------------------
(* The steps.                                                              *)

\* The partner reads the DPM's choice from a Request.
LEMMA ObjectReads ==
    ASSUME NEW c \in Requests
    PROVE  LET w == RequestObject(c)
           IN  /\ <<Get(w, OBJPOS), Get(w, FV_CURRENT)>> = c /\ Get(w, FV_MAX_CURRENT) = c[2]
               /\ w \ (OBJPOS \cup FV_CURRENT \cup FV_MAX_CURRENT) = NO_USB_SUSPEND
<1>1. c = <<c[1], c[2]>> /\ c[1] \in 0..7 /\ c[2] \in 0..1023
  BY FormatAssumption
<1>2. PICK a : a = Set(c[2], FV_MAX_CURRENT) /\ a \subseteq FV_MAX_CURRENT
  BY SetInField
<1>3. PICK b : b = Set(c[2], FV_CURRENT) /\ b \subseteq FV_CURRENT
  BY SetInField
<1>4. PICK d : d = Set(c[1], OBJPOS) /\ d \subseteq OBJPOS
  BY SetInField
<1>5. PICK w : w = RequestObject(c)
  OBVIOUS
<1>6. w = a \cup b \cup NO_USB_SUSPEND \cup d
  BY <1>2, <1>3, <1>4, <1>5 DEF RequestObject
<1>7. /\ FV_MAX_CURRENT \cap FV_CURRENT = {} /\ FV_MAX_CURRENT \cap OBJPOS = {}
      /\ FV_MAX_CURRENT \cap NO_USB_SUSPEND = {} /\ FV_CURRENT \cap OBJPOS = {}
      /\ FV_CURRENT \cap NO_USB_SUSPEND = {} /\ OBJPOS \cap NO_USB_SUSPEND = {}
  BY DEF FV_MAX_CURRENT, FV_CURRENT, OBJPOS, NO_USB_SUSPEND
<1>8. w \cap FV_MAX_CURRENT = a
  BY <1>2, <1>3, <1>4, <1>6, <1>7
<1>9. w \cap FV_CURRENT = b
  BY <1>2, <1>3, <1>4, <1>6, <1>7
<1>10. w \cap OBJPOS = d
  BY <1>2, <1>3, <1>4, <1>6, <1>7
<1>11. w \ (OBJPOS \cup FV_CURRENT \cup FV_MAX_CURRENT) = NO_USB_SUSPEND
  BY <1>2, <1>3, <1>4, <1>6, <1>7
<1>12. Get(w, FV_MAX_CURRENT) = c[2] /\ Get(w, FV_CURRENT) = c[2] /\ Get(w, OBJPOS) = c[1]
  BY <1>1, <1>2, <1>3, <1>4, <1>8, <1>9, <1>10, FieldsRead
<1> QED  BY <1>1, <1>5, <1>11, <1>12

\* A message put together with the template is read as it was meant, at the right revision.
LEMMA TransmitsWell ==
    ASSUME FormatInv, partnerRev' = partnerRev, NEW table, NEW name, NEW n \in 0..7, NEW choice,
           table = IF n = 0 THEN Control ELSE Data,
           TypeOf(table, name) \in 0..31, table[TypeOf(table, name)] = name,
           NEW hdr, NEW obj, NEW done, NEW failed,
           Carries(hdr, TypeOf(table, name), n),
           name = "Request" => choice \in Requests /\ obj = RequestObject(choice),
           template = {} => name = "Accept" /\ lastRequest' = None,
           Transmits(hdr, obj, [name |-> name, n |-> n, choice |-> choice], done, failed)
    PROVE  /\ Messages' /\ counter' \in 0..7
           /\ Carries(Numbered(hdr), TypeOf(table, name), n)
<1> DEFINE meant == [name |-> name, n |-> n, choice |-> choice]
<1>1. PICK type \in 0..31 : type = TypeOf(table, name)
  OBVIOUS
<1>2. PICK w : w = Numbered(hdr)
  OBVIOUS
<1>3. template \subseteq SPECREV /\ counter \in 0..7
  BY TemplateType DEF FormatInv
<1>4. /\ Get(w, MSGTYPE) = type /\ Get(w, NUMOBJ) = n /\ Get(w, MESSAGEID) = counter
      /\ w \cap (DATAROLE \cup POWERROLE \cup EXT) = {}
      /\ w \cap SPECREV = template /\ Carries(w, type, n)
  <2>1. Carries(hdr, type, n)
    BY <1>1
  <2>2. type \in 0..31 /\ n \in 0..7 /\ template \subseteq SPECREV /\ counter \in 0..7
    BY <1>1, <1>3
  <2>3. /\ Get(Numbered(hdr), MSGTYPE) = type /\ Get(Numbered(hdr), NUMOBJ) = n
        /\ Get(Numbered(hdr), MESSAGEID) = counter
        /\ Numbered(hdr) \cap (DATAROLE \cup POWERROLE \cup EXT) = {}
        /\ Numbered(hdr) \cap SPECREV = template
        /\ Carries(Numbered(hdr), type, n)
    BY <2>1, <2>2, HeaderReads
  <2> QED  BY <1>2, <2>3
<1>5. Get(w, SPECREV) = IF template = {} THEN R1 ELSE IF partnerRev > R3 THEN R3 ELSE partnerRev
  BY <1>4, RevisionRead
<1>6. table[Get(w, MSGTYPE)] = name
  BY <1>1, <1>4
<1>7. /\ wire' = [hdr |-> w, obj |-> obj, id |-> counter, meant |-> meant]
      /\ heard' = None /\ counter' = (counter + 1) % 8
  BY <1>2 DEF Transmits
<1>8. /\ wire'.hdr = w /\ wire'.obj = obj /\ wire'.id = counter /\ wire'.meant.name = name
      /\ wire'.meant.n = n /\ wire'.meant.choice = choice
  BY <1>7
<1>9. PartnerReads'
  <2>1. (IF wire'.meant.n = 0 THEN Control ELSE Data)[Get(wire'.hdr, MSGTYPE)] = wire'.meant.name
    BY <1>6, <1>8
  <2>2. name = "Request" =>
            /\ <<Get(obj, OBJPOS), Get(obj, FV_CURRENT)>> = choice
            /\ Get(obj, FV_MAX_CURRENT) = choice[2]
            /\ obj \ (OBJPOS \cup FV_CURRENT \cup FV_MAX_CURRENT) = NO_USB_SUSPEND
    BY ObjectReads
  <2> QED  BY <1>4, <1>8, <2>1, <2>2 DEF PartnerReads
<1>10. RevisionAgreed'
  BY <1>5, <1>8 DEF RevisionAgreed
<1>11. DealtAsNamed'
  BY <1>7 DEF DealtAsNamed
<1>12. counter' \in 0..7
  BY <1>3, <1>7
<1> QED  BY <1>1, <1>2, <1>4, <1>9, <1>10, <1>11, <1>12 DEF Messages

\* Steps that neither transmit nor deal with a message.
LEMMA Silent == wire' = None /\ heard' = None => Messages'
BY DEF Messages, PartnerReads, RevisionAgreed, DealtAsNamed

\* The engine deals with a message.
LEMMA HearsStep == FormatInv /\ Hears /\ partnerRev' = partnerRev => FormatInv' /\ Messages'
<1> SUFFICES ASSUME FormatInv, Hears, partnerRev' = partnerRev PROVE FormatInv' /\ Messages'
  OBVIOUS
<1>1. PICK m \in Partner :
          \/ Hear("WaitCap", m, AfterWaitCap(m))
          \/ \E contract \in BOOLEAN : Hear("SelectCap.rsp", m, AfterSelectCap(m, contract))
          \/ Hear("TransitionSink", m, AfterTransitionSink(m))
          \/ Hear("Ready", m, AfterReady(m))
          \/ Hear("SendSoftReset.rsp", m, AfterSoftReset(m))
  BY DEF Hears
<1>2. partnerRev \in PartnerRevs
  BY DEF FormatInv
<1>3. PICK here, next :
          /\ here \in Waiting
          /\ Hear(here, m, next)
          /\ ~(EXT \subseteq m.hdr) => next \in Dealt(here, NameOf(m.hdr))
          /\ here = "WaitCap" => next \in {"EvalCap", "SoftReset", "HardReset"}
  <2>1. AfterWaitCap(m) \in {"EvalCap", "SoftReset", "HardReset"}
    BY DEF AfterWaitCap
  <2> QED  BY <1>1, <1>2, <2>1, Branches DEF Waiting
<1>4. /\ phase = here /\ phase' = next /\ wire' = None /\ lastRequest' = lastRequest
      /\ heard' = [at |-> here, name |-> NameOf(m.hdr), ext |-> EXT \subseteq m.hdr]
      /\ counter' \in {0, counter}
      /\ template' = IF here = "WaitCap" /\ next = "EvalCap" THEN Chosen(m) ELSE template
  BY <1>3 DEF Hear
<1>5. Messages'
  <2>1. DealtAsNamed'
    <3> SUFFICES ASSUME ~heard'.ext PROVE phase' \in Dealt(heard.at, heard.name)'
      BY DEF DealtAsNamed
    <3>1. heard'.at = here /\ heard'.name = NameOf(m.hdr) /\ ~(EXT \subseteq m.hdr)
      BY <1>4
    <3>2. next \in Dealt(here, NameOf(m.hdr))
      BY <1>3, <3>1
    <3>3. CASE here = "WaitCap"
      BY <1>4, <3>1, <3>2, <3>3 DEF Dealt
    <3>4. CASE here # "WaitCap"
      <4>1. template' = template
        BY <1>4, <3>4
      <4> QED  BY <1>4, <3>1, <3>2, <4>1 DEF Dealt
    <3> QED  BY <3>3, <3>4
  <2> QED  BY <1>4, <2>1 DEF Messages, PartnerReads, RevisionAgreed
<1>6. \/ template' = template
      \/ /\ here = "WaitCap" /\ next = "EvalCap" /\ template = {}
         /\ template' = Set(IF partnerRev >= R3 THEN R3 ELSE R2, SPECREV)
  <2>1. CASE here = "WaitCap" /\ next = "EvalCap" /\ template = {}
    <3>1. Get(template, SPECREV) = R1
      BY <2>1, Revisions
    <3>2. Get(m.hdr, SPECREV) = partnerRev
      BY <1>2, PartnerHeader
    <3> QED  BY <1>4, <2>1, <3>1, <3>2 DEF Chosen
  <2>2. CASE here = "WaitCap" /\ next = "EvalCap" /\ template # {}
    <3>1. Get(template, SPECREV) # R1
      <4>1. partnerRev \in 1..3
        BY <1>2, FormatAssumption
      <4>2. template \cap SPECREV = template
        BY TemplateType
      <4> QED  BY <2>2, <4>1, <4>2, RevisionRead DEF R1, R3
    <3>2. template' = template
      BY <1>4, <2>2, <3>1 DEF Chosen
    <3> QED  BY <3>2
  <2>3. CASE ~(here = "WaitCap" /\ next = "EvalCap")
    <3>1. template' = template
      BY <1>4, <2>3
    <3> QED  BY <3>1
  <2> QED  BY <2>1, <2>2, <2>3
<1>7. counter' \in 0..7
  BY <1>4 DEF FormatInv
<1>8. /\ \/ template' = Set(IF partnerRev >= R3 THEN R3 ELSE R2, SPECREV)
         \/ template' = {} /\ lastRequest' = None /\ phase' \in {"WaitCap", "SoftReset", "HardReset"}
  <2>1. CASE template # {}
    BY <1>6, <2>1 DEF FormatInv
  <2>2. CASE template = {}
    <3>1. here = "WaitCap" \/ template = Set(IF partnerRev >= R3 THEN R3 ELSE R2, SPECREV)
      BY <1>3, <1>4 DEF FormatInv, Waiting
    <3>2. CASE here = "WaitCap"
      <4>1. CASE next = "EvalCap"
        <5>1. Get(template, SPECREV) = R1 /\ Get(m.hdr, SPECREV) = partnerRev
          BY <1>2, <2>2, PartnerHeader, Revisions
        <5> QED  BY <1>4, <2>2, <3>2, <4>1, <5>1 DEF Chosen
      <4>2. CASE next # "EvalCap"
        <5>1. template' = template /\ phase' \in {"SoftReset", "HardReset"}
          BY <1>3, <1>4, <3>2, <4>2
        <5> QED  BY <1>4, <5>1 DEF FormatInv
      <4> QED  BY <4>1, <4>2
    <3>3. CASE here # "WaitCap"
      BY <1>6, <3>1, <3>3
    <3> QED  BY <3>2, <3>3
  <2> QED  BY <2>1, <2>2
<1>9. phase' \in {"WaitCap", "SoftReset", "HardReset", "EvalCap"} \/ RequestKept'
  <2>1. CASE here = "WaitCap"
    BY <1>3, <1>4, <2>1
  <2>2. CASE here # "WaitCap"
    <3>1. template' = template
      BY <1>6, <2>2
    <3>2. RequestKept
      BY <1>3, <1>4, <2>2 DEF FormatInv, Waiting
    <3> QED  BY <1>4, <3>1, <3>2 DEF RequestKept, Carries, RequestObject
  <2> QED  BY <2>1, <2>2
<1> QED  BY <1>2, <1>5, <1>7, <1>8, <1>9 DEF FormatInv

\* evaluate_capability builds a Request.
LEMMA EvalCapStep == FormatInv /\ EvalCap /\ partnerRev' = partnerRev => FormatInv' /\ Messages'
<1> SUFFICES ASSUME FormatInv, EvalCap, partnerRev' = partnerRev PROVE FormatInv' /\ Messages'
  OBVIOUS
<1>1. /\ phase = "EvalCap" /\ phase' = "SelectCap" /\ heard' = None /\ wire' = None
      /\ template' = template /\ counter' = counter
  BY DEF EvalCap
<1>2. PICK c \in Requests :
          lastRequest' = [hdr |-> Built(Data, "Request", 1), obj |-> RequestObject(c), choice |-> c]
  BY DEF EvalCap, RequestObject
<1>3. template = Set(IF partnerRev >= R3 THEN R3 ELSE R2, SPECREV)
  BY <1>1 DEF FormatInv
<1>4. RequestKept'
  <2>1. Carries(lastRequest.hdr, TypeOf(Data, "Request"), 1)'
    BY <1>1, <1>2, TemplateType, BuiltParts DEF Carries
  <2>2. /\ lastRequest'.choice = c /\ lastRequest'.obj = RequestObject(c)
        /\ lastRequest' = [hdr |-> lastRequest'.hdr, obj |-> lastRequest'.obj,
                           choice |-> lastRequest'.choice]
    BY <1>2
  <2> QED  BY <2>1, <2>2 DEF RequestKept, RequestObject
<1> QED  BY <1>1, <1>3, <1>4, Silent DEF FormatInv

\* The Request is sent, for the first time or once more.
LEMMA SelectCapStep == FormatInv /\ SelectCap /\ partnerRev' = partnerRev => FormatInv' /\ Messages'
<1> SUFFICES ASSUME FormatInv, SelectCap, partnerRev' = partnerRev PROVE FormatInv' /\ Messages'
  OBVIOUS
<1> DEFINE hdr == lastRequest.hdr
           obj == lastRequest.obj
           choice == lastRequest.choice
<1>1. /\ phase = "SelectCap" /\ phase' \in {"SelectCap.rsp", "HardReset"} /\ template' = template
      /\ Transmits(hdr, obj, [name |-> "Request", n |-> 1, choice |-> choice], "SelectCap.rsp", "HardReset")
      /\ lastRequest' = [lastRequest EXCEPT !.hdr = Numbered(hdr)]
  BY DEF SelectCap, Transmits
<1>2. RequestKept /\ template = Set(IF partnerRev >= R3 THEN R3 ELSE R2, SPECREV)
  BY <1>1 DEF FormatInv
<1>3. template # {}
  BY <1>2, TemplateSet
<1>4. /\ Carries(hdr, TypeOf(Data, "Request"), 1)
      /\ choice \in Requests /\ obj = RequestObject(choice)
      /\ lastRequest = [hdr |-> hdr, obj |-> obj, choice |-> choice]
  BY <1>2 DEF RequestKept
<1>5. /\ lastRequest'.hdr = Numbered(hdr) /\ lastRequest'.obj = obj /\ lastRequest'.choice = choice
      /\ lastRequest' = [hdr |-> lastRequest'.hdr, obj |-> lastRequest'.obj,
                         choice |-> lastRequest'.choice]
  <2> HIDE DEF hdr, obj, choice
  <2> QED  BY <1>1, <1>4
<1>6. /\ Messages' /\ counter' \in 0..7
      /\ Carries(Numbered(hdr), TypeOf(Data, "Request"), 1)
  <2>1. PICK table : table = Data
    OBVIOUS
  <2>2. PICK name : name = "Request"
    OBVIOUS
  <2>3. PICK n \in 0..7 : n = 1
    OBVIOUS
  <2>4. TypeOf(table, name) \in 0..31 /\ table[TypeOf(table, name)] = name
    BY <2>1, <2>2, TypesSent
  <2>5. table = IF n = 0 THEN Control ELSE Data
    BY <2>1, <2>3
  <2> HIDE DEF hdr, obj, choice
  <2>6. Transmits(hdr, obj, [name |-> name, n |-> n, choice |-> choice],
                  "SelectCap.rsp", "HardReset")
    BY <1>1, <2>2, <2>3
  <2>7. Carries(hdr, TypeOf(table, name), n)
    BY <1>4, <2>1, <2>2, <2>3
  <2>8. /\ Messages' /\ counter' \in 0..7
        /\ Carries(Numbered(hdr), TypeOf(table, name), n)
    BY <1>3, <1>4, <2>4, <2>5, <2>6, <2>7, TransmitsWell
  <2> QED  BY <2>1, <2>2, <2>3, <2>8
<1>7. RequestKept'
  <2> HIDE DEF hdr, obj, choice
  <2> QED  BY <1>1, <1>4, <1>5, <1>6 DEF RequestKept, Carries, RequestObject
<1> QED  BY <1>1, <1>2, <1>6, <1>7 DEF FormatInv

\* A message without a Request's fields, from a state that comes after capabilities, or the
\* Accept of a Soft_Reset.
LEMMA AnswerStep ==
    ASSUME FormatInv, partnerRev' = partnerRev, NEW table, NEW name, NEW n \in 0..7,
           table = IF n = 0 THEN Control ELSE Data,
           \/ n = 0 /\ name \in {"Get_Source_Cap", "Accept", "Soft_Reset", "Reject", "Not_Supported"}
           \/ n > 0 /\ name = "Sink_Capabilities",
           NEW here, NEW done, NEW failed,
           here # "SoftReset" => done \notin {"EvalCap", "SelectCap"} /\ here \notin {"WaitCap", "HardReset", "EvalCap"},
           here = "SoftReset" => name = "Accept" /\ {done, failed} \subseteq {"WaitCap", "HardReset"},
           Answer(here, table, name, n, done, failed)
    PROVE  FormatInv' /\ Messages'
<1>1. /\ phase = here /\ phase' \in {done, failed} /\ template' = template
      /\ lastRequest' = lastRequest
      /\ Transmits(Built(table, name, n), {}, [name |-> name, n |-> n, choice |-> None], done, failed)
  BY DEF Answer, Transmits
<1>2. Carries(Built(table, name, n), TypeOf(table, name), n)
  BY TemplateType, BuiltParts
<1>3. TypeOf(table, name) \in 0..31 /\ table[TypeOf(table, name)] = name /\ name # "Request"
  BY TypesSent
<1>4. template = {} => name = "Accept" /\ lastRequest' = None
  <2>1. SUFFICES ASSUME template = {} PROVE name = "Accept" /\ lastRequest' = None
    OBVIOUS
  <2>2. lastRequest = None /\ phase \in {"WaitCap", "SoftReset", "HardReset"}
    BY <2>1, TemplateSet DEF FormatInv
  <2>3. here = "SoftReset"
    BY <1>1, <2>2
  <2> QED  BY <1>1, <2>2, <2>3
<1>5. Messages' /\ counter' \in 0..7
  BY <1>1, <1>2, <1>3, <1>4, TransmitsWell
<1>6. \/ template' = Set(IF partnerRev >= R3 THEN R3 ELSE R2, SPECREV)
      \/ template' = {} /\ lastRequest' = None /\ phase' \in {"WaitCap", "SoftReset", "HardReset"}
  BY <1>1 DEF FormatInv
<1>7. phase' \in {"WaitCap", "SoftReset", "HardReset", "EvalCap"} \/ RequestKept'
  <2>1. CASE here = "SoftReset"
    BY <1>1, <2>1
  <2>2. CASE here # "SoftReset"
    <3>1. RequestKept
      BY <1>1, <2>2 DEF FormatInv
    <3> QED  BY <1>1, <3>1 DEF RequestKept, Carries, RequestObject
  <2> QED  BY <2>1, <2>2
<1> QED  BY <1>5, <1>6, <1>7 DEF FormatInv

\* Steps in which the engine only moves on.
LEMMA QuietStep ==
    ASSUME FormatInv, partnerRev' = partnerRev, heard' = None, wire' = None,
           UNCHANGED <<template, lastRequest>>, counter' \in {0, counter},
           \/ phase' = "WaitCap"
           \/ phase \notin {"WaitCap", "SoftReset", "HardReset", "EvalCap"}
    PROVE  FormatInv' /\ Messages'
<1>1. Messages'
  BY Silent
<1>2. \/ template' = Set(IF partnerRev >= R3 THEN R3 ELSE R2, SPECREV)
      \/ template' = {} /\ lastRequest' = None /\ phase' \in {"WaitCap", "SoftReset", "HardReset"}
  BY DEF FormatInv
<1>3. phase' \in {"WaitCap", "SoftReset", "HardReset", "EvalCap"} \/ RequestKept'
  <2>1. RequestKept \/ phase' = "WaitCap"
    BY DEF FormatInv
  <2>2. RequestKept => RequestKept'
    BY DEF RequestKept, Carries, RequestObject
  <2> QED  BY <2>1, <2>2
<1>4. counter' \in 0..7
  BY DEF FormatInv
<1> QED  BY <1>1, <1>2, <1>3, <1>4 DEF FormatInv

\* Every step of the sink.
LEMMA FormatStep == FormatInv /\ FormatNext => FormatInv' /\ Messages'
<1> SUFFICES ASSUME FormatInv, FormatNext PROVE FormatInv' /\ Messages'
  OBVIOUS
<1>0. partnerRev' = partnerRev /\ Sink
  BY DEF FormatNext
<1>1. CASE Hears
  BY <1>0, <1>1, HearsStep
<1>2. CASE EvalCap
  BY <1>0, <1>2, EvalCapStep
<1>3. CASE SelectCap
  BY <1>0, <1>3, SelectCapStep
<1>4. CASE Repeat
  BY <1>0, <1>4, QuietStep DEF Repeat
<1>5. CASE GetSourceCap
  BY <1>0, <1>5, AnswerStep DEF GetSourceCap
<1>6. CASE GiveSinkCap
  BY <1>0, <1>6, AnswerStep DEF GiveSinkCap
<1>7. CASE SoftReset
  BY <1>0, <1>7, AnswerStep DEF SoftReset
<1>8. CASE ClearCounter
  BY <1>0, <1>8, QuietStep DEF ClearCounter
<1>9. CASE SendSoftReset
  BY <1>0, <1>9, AnswerStep DEF SendSoftReset
<1>10. CASE SendNotSupported
  <2>1. CASE Answer("SendNotSupported", Control, "Reject", 0, "Ready", "SendSoftReset")
    BY <1>0, <2>1, AnswerStep
  <2>2. CASE Answer("SendNotSupported", Control, "Not_Supported", 0, "Ready", "SendSoftReset")
    BY <1>0, <2>2, AnswerStep
  <2>3. ASSUME phase = "SendNotSupported", Get(template, SPECREV) \notin {R2, R3} PROVE FALSE
    <3>1. template = Set(IF partnerRev >= R3 THEN R3 ELSE R2, SPECREV)
      BY <2>3 DEF FormatInv
    <3>2. template \cap SPECREV = template
      BY TemplateType
    <3> QED  BY <2>3, <3>1, <3>2, Revisions
  <2> QED  BY <1>10, <2>1, <2>2, <2>3 DEF SendNotSupported
<1>11. CASE HardReset
  BY <1>0, <1>11, QuietStep DEF HardReset
<1>12. CASE MoveOn("ChunkReceived", "SendNotSupported") \/ MoveOn("NotSupportedReceived", "Ready")
  BY <1>0, <1>12, QuietStep DEF MoveOn
<1> QED  BY <1>0, <1>1, <1>2, <1>3, <1>4, <1>5, <1>6, <1>7, <1>8, <1>9, <1>10, <1>11, <1>12 DEF Sink

LEMMA FormatStart == FormatInit => FormatInv /\ Messages
BY DEF FormatInit, FormatInv, Messages, PartnerReads, RevisionAgreed, DealtAsNamed

LEMMA FormatStutter == FormatInv /\ Messages /\ UNCHANGED formatVars => FormatInv' /\ Messages'
BY DEF formatVars, FormatInv, Messages, PartnerReads, RevisionAgreed, DealtAsNamed, RequestKept,
       RequestObject, Carries, Dealt

LEMMA FormatInvariant == FormatSpec => [](FormatInv /\ Messages)
<1>1. FormatInv /\ Messages /\ [FormatNext]_formatVars => FormatInv' /\ Messages'
  BY FormatStep, FormatStutter
<1> QED  BY <1>1, FormatStart, PTL DEF FormatSpec

\* For any partner, any number of objects and any choice of the DPM, the partner reads from every
\* message what was meant.
THEOREM PartnerReadsCorrect == FormatSpec => []PartnerReads
<1>1. Messages => PartnerReads
  BY DEF Messages
<1> QED  BY <1>1, FormatInvariant, PTL

\* Every message names the revision both sides know.
THEOREM RevisionCorrect == FormatSpec => []RevisionAgreed
<1>1. Messages => RevisionAgreed
  BY DEF Messages
<1> QED  BY <1>1, FormatInvariant, PTL

\* Every message that is not extended is dealt with as what the tables call it.
THEOREM DealtCorrect == FormatSpec => []DealtAsNamed
<1>1. Messages => DealtAsNamed
  BY DEF Messages
<1> QED  BY <1>1, FormatInvariant, PTL

=============================================================================
