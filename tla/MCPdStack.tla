----------------------------- MODULE MCPdStack ------------------------------
(***************************************************************************)
(* Small instances of PdStack for TLC.                                     *)
(***************************************************************************)
EXTENDS PdProperties, TLC

Symmetry == Permutations(Buf)

\* The header of a freed buffer is the upper half of the free list's link: 0x2000, an
\* SRAM address, or 0, the null pointer.  Neither decodes to a known message.
FreedUnknown == {<<"Unknown", 0>>}

\* The partner's scripts.  A negotiation ends in an explicit contract; what follows
\* meets the engine in PE_SNK_Ready.
OneOffer    == {<<"SourceCaps">>}
Contract    == <<"SourceCaps", "Accept", "PS_RDY">>
OneContract == {Contract}

\* A contract on the PPS APDO, a repeated Request that is declined, and an offer without
\* the APDO.
PpsScripts == {<<"SourceCapsPps", "Accept", "PS_RDY", "Reject", "SourceCaps", "Reject">>}

\* Every class of message in PE_SNK_Ready, where "Unknown" stands for all those it answers with
\* a Soft_Reset; PS_RDY after GotoMin, and a new offer that is put off.
Unexpected   == {"Accept", "Reject", "Wait", "PS_RDY"}
Once         == RxType \ (Unexpected \cup {"GoodCRC", "GotoMin"})
ReadyScripts == PpsScripts \cup {Contract \o <<t>> : t \in Once}
                           \cup {Contract \o s : s \in {<<"GotoMin", "PS_RDY">>,
                                                         <<"SourceCaps", "Wait">>}}

\* A message that the engine answers, and two that find it waiting for the rest of a chunked
\* message.
AnswerScripts == {Contract \o s : s \in {<<"Unknown">>, <<"Chunk", "GetSinkCap", "Ignored">>}}

\* An offer answered by a Soft_Reset, or by something the engine answers with one.
SoftResetScripts == {<<"SourceCaps", "Unknown">>, <<"SourceCaps", "SoftReset">>}

\* An offer without PS_RDY, declined, or answered by something the engine did not expect.
ResetScripts == {<<"SourceCaps", "Accept">>, <<"SourceCaps", "Reject">>,
                 <<"SourceCaps", "Unknown", "Accept">>}

\* An offer, and a message that the engine answers with a Soft_Reset.
LiveScripts == {<<"SourceCaps", "Unknown">>}

\* A partner that renews its offer twice, and a message more.
Renewals == {Contract \o Contract \o Contract \o <<"Ignored">>}

=============================================================================
