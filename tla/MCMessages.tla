----------------------------- MODULE MCMessages -----------------------------
(***************************************************************************)
(* A message of the sink on its way to the source, on small instances for  *)
(* TLC: the device policy manager chooses (DevicePolicyManager), the       *)
(* engine puts words together and takes the partner's apart                *)
(* (MessageFormat), the driver moves bytes to and from the chip            *)
(* (FusbDriver).  The three share no variable, so a step of one means the  *)
(* same at any state of the others: each is explored while the other two   *)
(* are where they start.                                                   *)
(***************************************************************************)
EXTENDS DevicePolicyManager, MessageFormat, FusbDriver

CONSTANT Full   \* a message of FusbDriver

-----------------------------------------------------------------------------
\* 5 V 3 A, 15 V 1 A and 7.5 V 2 A are all 15 W, 20 V 5 A is more; a PDO above the 20 V
\* the scan starts from, with power and without; one the DPM does not use.
Fixed(v, c) == [type |-> "fixed", v |-> v, c |-> c]
Choices == {Fixed(100, 300), Fixed(300, 100), Fixed(150, 200), Fixed(400, 500),
            Fixed(560, 10), Fixed(560, 0), [type |-> "augmented", v |-> 400, c |-> 500]}
UpToThree == UNION {[1..n -> Choices] : n \in 1..3}

\* Object positions and currents with fields of zeros, of ones and of both.
SomeRequests == {<<1, 0>>, <<7, 1023>>, <<4, 341>>}

\* A message without data objects, as GoodCRC is, and one with as many as fit.
Messages == {GoodCRC, Full}
Objects  == [m \in Messages |-> IF m = Full THEN 7 ELSE 0]

-----------------------------------------------------------------------------
AllInit == DpmInit /\ Init /\ FormatInit

\* One start of MessageFormat is enough for the others.
FormatWaits == FormatInit /\ \A r \in PartnerRevs : partnerRev <= r

AllNext ==
    \/ Init /\ FormatWaits /\ DpmNext /\ UNCHANGED <<vars, formatVars>>
    \/ DpmInit /\ FormatWaits /\ Next /\ UNCHANGED <<dpmVars, formatVars>>
    \/ DpmInit /\ Init /\ FormatNext /\ UNCHANGED <<dpmVars, vars>>

AllSpec == AllInit /\ [][AllNext]_<<dpmVars, vars, formatVars>>

=============================================================================
