--------------------------- MODULE MessageFormat ---------------------------
(***************************************************************************)
(* The words of lib/include/pd.h: how the policy engine, the device policy *)
(* manager and the TX thread put headers and Requests together, and how    *)
(* the engine takes the partner's apart.  PolicyEngine knows messages by   *)
(* class; here are the tests that sort headers into classes.  A word is    *)
(* the set of the positions of its ones: | is \cup and & is \cap.          *)
(***************************************************************************)
EXTENDS Integers, Sequences

CONSTANTS
    PartnerRevs,   \* values of PD_HDR_SPECREV the partner may use in its headers, of 1..3
    Sizes,         \* data sizes of the partner's extended messages, of 0..260
    Counts,        \* numbers of objects in the partner's messages, of 0..7
    Requests,      \* <<object position, current>> the DPM may choose, of 1..7 and 0..1023
    None

ASSUME FormatAssumption ==
    /\ PartnerRevs \subseteq 1..3 /\ Sizes \subseteq 0..260 /\ Counts \subseteq 0..7
    /\ Requests \subseteq (1..7) \X (0..1023)

\* The fields of a header, of an extended header and of a Request.
MSGTYPE == 0..4
DATAROLE == {5}
SPECREV == 6..7
POWERROLE == {8}
MESSAGEID == 9..11
NUMOBJ == 12..14
EXT == {15}
DATA_SIZE == 0..8
OBJPOS == 28..30
NO_USB_SUSPEND == {24}
FV_CURRENT == 10..19
FV_MAX_CURRENT == 0..9

Shift(f) == CHOOSE s \in f : \A b \in f : s <= b

\* The number a field's bits stand for, read from bit b up.
Number(bits, f) ==
    LET from[b \in 0..32] ==
            IF b \in f THEN (IF b \in bits THEN 1 ELSE 0) + 2 * from[b + 1] ELSE 0
    IN  from

\* ((w & f) >> shift) and ((v << shift) & f).
Get(w, f) == Number(w \cap f, f)[Shift(f)]
Set(v, f) == {b \in f : (v \div 2^(b - Shift(f))) % 2 = 1}

\* Values of PD_HDR_SPECREV.
R1 == 0
R2 == 1
R3 == 2

\* The types from 1 up; there is no other.
Control == <<"GoodCRC", "GotoMin", "Accept", "Reject", "Ping", "PS_RDY", "Get_Source_Cap",
             "Get_Sink_Cap", "DR_Swap", "PR_Swap", "VCONN_Swap", "Wait", "Soft_Reset", "Reserved",
             "Reserved", "Not_Supported", "Get_Source_Cap_Extended", "Get_Status", "FR_Swap",
             "Get_PPS_Status", "Get_Country_Codes">>
Data    == <<"Source_Capabilities", "Request", "BIST", "Sink_Capabilities", "Battery_Status",
             "Alert", "Get_Country_Info", "Reserved", "Reserved", "Reserved", "Reserved",
             "Reserved", "Reserved", "Reserved", "Vendor_Defined">>

TypeOf(table, name) == CHOOSE t \in DOMAIN table : table[t] = name

VARIABLES
    partnerRev,  \* the partner's revision
    phase,       \* the state of the policy engine, by its name in PolicyEngine
    template,    \* hdr_template
    counter,     \* _tx_messageidcounter
    lastRequest, \* the header and the object of _last_dpm_request
    wire,        \* what the last step transmitted and, as ghosts, what was meant
    heard        \* a ghost: the message the last step dealt with, and where

formatVars == <<partnerRev, phase, template, counter, lastRequest, wire, heard>>

FormatInit ==
    /\ partnerRev \in PartnerRevs
    /\ phase = "WaitCap"
    /\ template = {}            \* PD_DATAROLE_UFP | PD_POWERROLE_SINK
    /\ counter = 0
    /\ lastRequest = None /\ wire = None /\ heard = None

-----------------------------------------------------------------------------
(* What the partner says.                                                  *)

Header(rev, type, n, ext) ==
    Set(type, MSGTYPE) \cup DATAROLE \cup Set(rev, SPECREV) \cup POWERROLE
        \cup Set(n, NUMOBJ) \cup (IF ext THEN EXT ELSE {})

Headers == [ext \in BOOLEAN |-> [rev \in PartnerRevs |->
                {Header(rev, t, n, ext) : t \in 0..31, n \in Counts}]]
Partner == [hdr : Headers[FALSE][partnerRev], exthdr : {{}}]
           \cup [hdr : Headers[TRUE][partnerRev], exthdr : {Set(s, DATA_SIZE) : s \in Sizes}]

\* What a header says by the tables of control and data messages in pd.h.
NameOf(hdr) ==
    LET table == IF Get(hdr, NUMOBJ) = 0 THEN Control ELSE Data
        type  == Get(hdr, MSGTYPE)
    IN  IF type \in DOMAIN table THEN table[type] ELSE "Reserved"

\* The tests of the engine: PD_MSGTYPE_GET and PD_NUMOBJ_GET, and nothing else.
\* Mutant: the number of objects is not looked at.
IsAny(m, table, names) ==
    Get(m.hdr, MSGTYPE) \in DOMAIN table /\ table[Get(m.hdr, MSGTYPE)] \in names
Is(m, table, names) ==
    /\ IF table = Data THEN Get(m.hdr, NUMOBJ) > 0 ELSE Get(m.hdr, NUMOBJ) = 0
    /\ Get(m.hdr, MSGTYPE) \in DOMAIN table /\ table[Get(m.hdr, MSGTYPE)] \in names

LEGACY_LEN == 26
IsChunk(m) == EXT \subseteq m.hdr /\ Get(m.exthdr, DATA_SIZE) > LEGACY_LEN

AfterWaitCap(m) ==
    IF Is(m, Data, {"Source_Capabilities"}) THEN "EvalCap"
    ELSE IF Is(m, Control, {"Soft_Reset"}) THEN "SoftReset" ELSE "HardReset"

AfterSelectCap(m, contract) ==
    IF Is(m, Control, {"Accept"}) THEN "TransitionSink"
    ELSE IF Is(m, Control, {"Soft_Reset"}) THEN "SoftReset"
    ELSE IF Is(m, Control, {"Reject", "Wait"}) THEN IF contract THEN "Ready" ELSE "WaitCap"
    ELSE "SendSoftReset"

AfterTransitionSink(m) == IF Is(m, Control, {"PS_RDY"}) THEN "Ready" ELSE "HardReset"

\* GotoMin is among the unsupported: the DPM has no GiveBack.
AfterReady(m) ==
    IF Is(m, Data, {"Vendor_Defined"}) \/ Is(m, Control, {"Ping"}) THEN "Ready"
    ELSE IF \/ Is(m, Control, {"DR_Swap", "Get_Source_Cap", "PR_Swap", "VCONN_Swap", "GotoMin"})
            \/ Is(m, Data, {"Request", "Sink_Capabilities"})
         THEN "SendNotSupported"
    ELSE IF Is(m, Data, {"Source_Capabilities"}) THEN "EvalCap"
    ELSE IF Is(m, Control, {"Get_Sink_Cap"}) THEN "GiveSinkCap"
    ELSE IF Is(m, Control, {"Soft_Reset"}) THEN "SoftReset"
    ELSE IF Get(template, SPECREV) = R3 /\ IsChunk(m) THEN "ChunkReceived"
    ELSE IF Get(template, SPECREV) = R3 /\ Is(m, Control, {"Not_Supported"})
         THEN "NotSupportedReceived"
    ELSE "SendSoftReset"

AfterSoftReset(m) ==
    IF Is(m, Control, {"Accept"}) THEN "WaitCap"
    ELSE IF Is(m, Control, {"Soft_Reset"}) THEN "SoftReset" ELSE "HardReset"

\* The revision is chosen with the first capabilities.
\* Mutant: 3.0 is not enough for 3.0.
ChosenAbove(m) ==
    IF Get(template, SPECREV) = R1
    THEN template \cup Set(IF Get(m.hdr, SPECREV) > R3 THEN R3 ELSE R2, SPECREV)
    ELSE template
Chosen(m) ==
    IF Get(template, SPECREV) = R1
    THEN template \cup Set(IF Get(m.hdr, SPECREV) >= R3 THEN R3 ELSE R2, SPECREV)
    ELSE template

\* The engine is handed m; the RX thread clears the counter when m is a Soft_Reset.
Hear(here, m, next) ==
    /\ phase = here /\ phase' = next
    /\ heard' = [at |-> here, name |-> NameOf(m.hdr), ext |-> EXT \subseteq m.hdr]
    /\ counter' = IF Is(m, Control, {"Soft_Reset"}) THEN 0 ELSE counter
    /\ template' = IF here = "WaitCap" /\ next = "EvalCap" THEN Chosen(m) ELSE template
    /\ wire' = None /\ UNCHANGED lastRequest

Waiting == {"WaitCap", "SelectCap.rsp", "TransitionSink", "Ready", "SendSoftReset.rsp"}
Hears == phase \in Waiting /\ \E m \in Partner :
    \/ Hear("WaitCap", m, AfterWaitCap(m))
    \/ \E contract \in BOOLEAN : Hear("SelectCap.rsp", m, AfterSelectCap(m, contract))
    \/ Hear("TransitionSink", m, AfterTransitionSink(m))
    \/ Hear("Ready", m, AfterReady(m))
    \/ Hear("SendSoftReset.rsp", m, AfterSoftReset(m))

-----------------------------------------------------------------------------
(* What the sink says.                                                     *)

\* hdr_template | type | PD_NUMOBJ(n)
Built(table, name, n) == template \cup Set(TypeOf(table, name), MSGTYPE) \cup Set(n, NUMOBJ)

\* PRL_Tx_Construct_Message.
\* Mutant: the old MessageID is not cleared.
NumberedOver(hdr) == hdr \cup Set(counter % 8, MESSAGEID)
Numbered(hdr) == (hdr \ MESSAGEID) \cup Set(counter % 8, MESSAGEID)

\* Sent or given up, the message has used its MessageID.
Transmits(hdr, obj, meant, done, failed) ==
    /\ wire' = [hdr |-> Numbered(hdr), obj |-> obj, id |-> counter, meant |-> meant]
    /\ counter' = (counter + 1) % 8
    /\ phase' \in {done, failed}
    /\ heard' = None /\ UNCHANGED template

\* evaluate_capability builds a Request.
EvalCap ==
    /\ phase = "EvalCap" /\ phase' = "SelectCap"
    /\ \E c \in Requests :
        lastRequest' = [hdr |-> Built(Data, "Request", 1),
                    obj |-> Set(c[2], FV_MAX_CURRENT) \cup Set(c[2], FV_CURRENT)
                            \cup NO_USB_SUSPEND \cup Set(c[1], OBJPOS),
                    choice |-> c]
    /\ heard' = None /\ wire' = None /\ UNCHANGED <<template, counter>>

\* The Request stays, MessageID and all, to be sent again.
SelectCap ==
    /\ phase = "SelectCap"
    /\ Transmits(lastRequest.hdr, lastRequest.obj, [name |-> "Request", n |-> 1, choice |-> lastRequest.choice],
                 "SelectCap.rsp", "HardReset")
    /\ lastRequest' = [lastRequest EXCEPT !.hdr = Numbered(@)]

\* The timers of PE_SNK_Ready, and NEW_POWER, for which the DPM changes nothing.
Repeat ==
    /\ phase = "Ready" /\ phase' = "SelectCap"
    /\ heard' = None /\ wire' = None /\ UNCHANGED <<template, counter, lastRequest>>

Answer(here, table, name, n, done, failed) ==
    /\ phase = here
    /\ Transmits(Built(table, name, n), {}, [name |-> name, n |-> n, choice |-> None], done, failed)
    /\ UNCHANGED lastRequest

GetSourceCap == Answer("Ready", Control, "Get_Source_Cap", 0, "Ready", "HardReset")
GiveSinkCap  == Answer("GiveSinkCap", Data, "Sink_Capabilities", 4, "Ready", "HardReset")
SoftReset    == Answer("SoftReset", Control, "Accept", 0, "WaitCap", "HardReset")

\* The TX thread clears the counter before it sends a Soft_Reset of ours.
ClearCounter ==
    /\ phase = "SendSoftReset" /\ phase' = "SendSoftReset.tx"
    /\ counter' = 0
    /\ heard' = None /\ wire' = None /\ UNCHANGED <<template, lastRequest>>
SendSoftReset ==
    Answer("SendSoftReset.tx", Control, "Soft_Reset", 0, "SendSoftReset.rsp", "HardReset")

\* At any revision but 2.0 and 3.0 the header is what the buffer last held.
SendNotSupported ==
    \/ /\ Get(template, SPECREV) = R2
       /\ Answer("SendNotSupported", Control, "Reject", 0, "Ready", "SendSoftReset")
    \/ /\ Get(template, SPECREV) = R3
       /\ Answer("SendNotSupported", Control, "Not_Supported", 0, "Ready", "SendSoftReset")
    \/ /\ phase = "SendNotSupported" /\ Get(template, SPECREV) \notin {R2, R3}
       /\ Transmits({}, {}, [name |-> "Not_Supported", n |-> 0, choice |-> None],
                    "Ready", "SendSoftReset")
       /\ UNCHANGED lastRequest

\* The timer of PE_SNK_Chunk_Received runs out; the DPM has no not_supported_received.
MoveOn(here, next) ==
    /\ phase = here /\ phase' = next
    /\ heard' = None /\ wire' = None /\ UNCHANGED <<template, counter, lastRequest>>

\* A Hard Reset forgets the MessageIDs and not the revision; PolicyEngine counts them.
HardReset ==
    /\ phase = "HardReset" /\ phase' = "WaitCap"
    /\ counter' = 0
    /\ heard' = None /\ wire' = None /\ UNCHANGED <<template, lastRequest>>

Sink ==
    \/ Hears \/ EvalCap \/ SelectCap \/ Repeat \/ GetSourceCap \/ GiveSinkCap \/ SoftReset
    \/ ClearCounter \/ SendSoftReset \/ SendNotSupported \/ HardReset
    \/ MoveOn("ChunkReceived", "SendNotSupported") \/ MoveOn("NotSupportedReceived", "Ready")

FormatNext == Sink /\ UNCHANGED partnerRev

FormatSpec == FormatInit /\ [][FormatNext]_formatVars

-----------------------------------------------------------------------------
\* The partner reads what was meant: the type, the number of objects, the MessageID,
\* the roles of a sink, and in a Request the PDO and the current the DPM chose, with no
\* flag it did not set; also in a Request sent again (policy_engine.c:187-204,
\* device_policy_manager.c:60-78, protocol_tx.c:129-131).
PartnerReads ==
    wire # None =>
        /\ LET table == IF wire.meant.n = 0 THEN Control ELSE Data
           IN  table[Get(wire.hdr, MSGTYPE)] = wire.meant.name
        /\ Get(wire.hdr, NUMOBJ) = wire.meant.n /\ Get(wire.hdr, MESSAGEID) = wire.id
        /\ wire.hdr \cap (DATAROLE \cup POWERROLE \cup EXT) = {}
        /\ wire.meant.name = "Request" =>
            /\ <<Get(wire.obj, OBJPOS), Get(wire.obj, FV_CURRENT)>> = wire.meant.choice
            /\ Get(wire.obj, FV_MAX_CURRENT) = wire.meant.choice[2]
            /\ wire.obj \ (OBJPOS \cup FV_CURRENT \cup FV_MAX_CURRENT) = NO_USB_SUSPEND

\* Every message names the revision both sides know, however often capabilities come,
\* except the Accept of a Soft_Reset before the first ones (policy_engine.c:112-122).
RevisionAgreed ==
    wire # None =>
        \/ Get(wire.hdr, SPECREV) = IF partnerRev > R3 THEN R3 ELSE partnerRev
        \/ Get(wire.hdr, SPECREV) = R1 /\ lastRequest = None /\ wire.meant.name = "Accept"

\* What the engine is to do with a message of each name, in each state that waits for one.
Dealt(at, name) ==
    CASE at = "WaitCap" ->
            (CASE name = "Source_Capabilities" -> {"EvalCap"}
               [] name = "Soft_Reset"          -> {"SoftReset"}
               [] OTHER                        -> {"HardReset"})
      [] at = "SelectCap.rsp" ->
            (CASE name = "Accept"              -> {"TransitionSink"}
               [] name = "Soft_Reset"          -> {"SoftReset"}
               [] name \in {"Reject", "Wait"}  -> {"Ready", "WaitCap"}
               [] OTHER                        -> {"SendSoftReset"})
      [] at = "TransitionSink" -> IF name = "PS_RDY" THEN {"Ready"} ELSE {"HardReset"}
      [] at = "SendSoftReset.rsp" ->
            (CASE name = "Accept"              -> {"WaitCap"}
               [] name = "Soft_Reset"          -> {"SoftReset"}
               [] OTHER                        -> {"HardReset"})
      [] at = "Ready" ->
            (CASE name \in {"Vendor_Defined", "Ping"} -> {"Ready"}
               [] name \in {"DR_Swap", "PR_Swap", "VCONN_Swap", "Get_Source_Cap", "GotoMin",
                            "Request", "Sink_Capabilities"} -> {"SendNotSupported"}
               [] name = "Source_Capabilities" -> {"EvalCap"}
               [] name = "Get_Sink_Cap"        -> {"GiveSinkCap"}
               [] name = "Soft_Reset"          -> {"SoftReset"}
               [] name = "Not_Supported" /\ Get(template, SPECREV) = R3 -> {"NotSupportedReceived"}
               [] OTHER                        -> {"SendSoftReset"})

\* A message that is not extended is dealt with as what the tables of control and data
\* messages call it, in every state that waits for one, and as unknown if the state does
\* not expect it (policy_engine.c:104-138, 231-276, 294-322, 387-503, 669-688).
DealtAsNamed ==
    heard # None /\ ~heard.ext =>
        phase \in Dealt(heard.at, heard.name)

=============================================================================
