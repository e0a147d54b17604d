------------------------ MODULE DevicePolicyManager ------------------------
(***************************************************************************)
(* src/device_policy_manager.c: the firmware's device policy manager,      *)
(* which the policy engine calls back with the source's capabilities, or   *)
(* with none to repeat its Request.  It scans the PDOs for the fixed one   *)
(* with the most power and, among equals, the lowest voltage.  Voltages    *)
(* and currents are the 10-bit fields of pd.h, 50 mV and 10 mA each.  It   *)
(* also tells a source that asks what the sink can take.                   *)
(***************************************************************************)
EXTENDS Integers, Sequences

CONSTANT Offers   \* the Source_Capabilities the source may send: sequences of PDOs

Types == {"fixed", "battery", "variable", "augmented"}
PDO   == [type : Types, v : 0..1023, c : 0..1023]

\* A message carries up to seven of them.
IsOffer(o) == o \in Seq(PDO) /\ Len(o) \in 1..7

ASSUME OffersAssumption == \A o \in Offers : IsOffer(o)

NoCaps    == <<>>
NoRequest == [pos |-> 0, c |-> 0]

VARIABLES
    dpmPc,     \* idle, or scanning the PDOs
    caps, i,   \* the capabilities, and the PDO the scan has come to
    best,      \* max_index + 1, max_power, min_voltage and max_current
    request,   \* the Request the policy engine keeps: object position and current
    answer,    \* what evaluate_capability returned
    sinkCaps   \* the last Sink_Capabilities it built

dpmVars == <<dpmPc, caps, i, best, request, answer, sinkCaps>>

\* PD_PDV2MV, PD_PDI2MA, and this_power in mW, rounded.
MilliVolts(p)  == p.v * 50
MilliAmps(p)   == p.c * 10
Power(p)       == (MilliVolts(p) * MilliAmps(p) + 500) \div 1000

DPM_MIN_CURRENT == 100

PD_MA2PDI(ma) == (ma + 9) \div 10

NoneYet == [pos |-> 0, power |-> 0, mv |-> 20000, ma |-> 0]

DpmInit ==
    /\ dpmPc = "idle"
    /\ caps = NoCaps /\ i = 0
    /\ best = NoneYet
    /\ request = NoRequest
    /\ answer = TRUE
    /\ sinkCaps = NoCaps

\* evaluate_capability starts its scan of new capabilities.
Evaluate ==
    /\ dpmPc = "idle"
    /\ caps' \in Offers
    /\ i' = 1
    /\ best' = NoneYet
    /\ dpmPc' = "scan"
    /\ UNCHANGED <<request, answer, sinkCaps>>

\* Without capabilities it leaves the policy engine's Request as it is.
EvaluateNothing ==
    /\ dpmPc = "idle"
    /\ request # NoRequest
    /\ answer' = TRUE
    /\ UNCHANGED <<dpmPc, caps, i, best, request, sinkCaps>>

\* A PDO is skipped unless it is fixed and at least as good as the best so far.
\* Mutant: among equals the last one wins.
LastWins(p) == \/ p.type # "fixed"
               \/ Power(p) < best.power
Skip(p) == \/ p.type # "fixed"
           \/ Power(p) < best.power
           \/ Power(p) = best.power /\ MilliVolts(p) > best.mv

Scan ==
    /\ dpmPc = "scan"
    /\ i <= Len(caps)
    /\ LET p == caps[i]
       IN  best' = IF Skip(p) THEN best
                   ELSE [pos |-> i, power |-> Power(p), mv |-> MilliVolts(p),
                         ma |-> MilliAmps(p)]
    /\ i' = i + 1
    /\ UNCHANGED <<dpmPc, caps, request, answer, sinkCaps>>

\* The scan is over: a Request for the best PDO, or for the first one at 100 mA.
Finish ==
    /\ dpmPc = "scan"
    /\ i > Len(caps)
    /\ dpmPc' = "idle"
    /\ request' = IF best.pos > 0 THEN [pos |-> best.pos, c |-> PD_MA2PDI(best.ma)]
                  ELSE [pos |-> 1, c |-> PD_MA2PDI(DPM_MIN_CURRENT)]
    /\ answer' = (best.pos > 0)
    /\ UNCHANGED <<caps, i, best, sinkCaps>>

\* pdbs_dpm_get_sink_capability: four fixed PDOs, each with the argument 3000, of which
\* PD_PDO_SNK_FIXED_CURRENT_SET keeps the ten bits of its field.
SinkMilliVolts == <<20000, 15000, 9000, 5000>>
SinkMilliAmps  == 3000
PD_MV2PDV(mv)  == mv \div 50
PD_PDO_SNK_FIXED_CURRENT_SET(c) == c % 1024

GetSinkCapability ==
    /\ dpmPc = "idle"
    /\ sinkCaps' = [k \in 1..4 |->
                     [type |-> "fixed", v |-> PD_MV2PDV(SinkMilliVolts[k]),
                      c |-> PD_PDO_SNK_FIXED_CURRENT_SET(SinkMilliAmps)]]
    /\ UNCHANGED <<dpmPc, caps, i, best, request, answer>>

DpmNext == Evaluate \/ EvaluateNothing \/ Scan \/ Finish \/ GetSinkCapability

DpmSpec == DpmInit /\ [][DpmNext]_dpmVars

-----------------------------------------------------------------------------
\* Type invariant of pdbs_dpm_evaluate_capability's locals and of the Request.
DpmTypeOK ==
    /\ dpmPc \in {"idle", "scan"}
    /\ caps \in Offers \cup {NoCaps}
    /\ i \in 0..8
    /\ best \in [pos : 0..7, power : Nat, mv : Nat, ma : Nat]
    /\ request \in [pos : 0..7, c : 0..1023]
    /\ answer \in BOOLEAN
    /\ sinkCaps \in {NoCaps} \cup [1..4 -> PDO]

\* PDOs the scan can take: a PDO without power only up to the 20 V it starts from.
Usable(p) == p.type = "fixed" /\ (Power(p) > 0 \/ MilliVolts(p) <= 20000)

\* Among the PDOs of o before the n-th, the one at position k is the best choice
\* (device_policy_manager.c:45-46).
BestOf(o, n, k) ==
    /\ k \in 1..(n - 1) /\ Usable(o[k])
    /\ \A j \in 1..(n - 1) :
        Usable(o[j]) => \/ Power(o[j]) < Power(o[k])
                        \/ Power(o[j]) = Power(o[k]) /\ o[j].v >= o[k].v

\* The Request that stands names the most powerful fixed PDO of the last capabilities,
\* at the lowest voltage, and all of its current; a Request repeated for NEW_POWER too.
\* Only capabilities without a usable PDO are answered with 100 mA of the first.
RequestIsBest ==
    dpmPc = "idle" /\ caps # NoCaps =>
        IF \E j \in 1..Len(caps) : Usable(caps[j])
        THEN BestOf(caps, Len(caps) + 1, request.pos) /\ request.c = caps[request.pos].c
        ELSE request = [pos |-> 1, c |-> PD_MA2PDI(DPM_MIN_CURRENT)]

=============================================================================
