--------------------------- MODULE DurableRegister ---------------------------
(***************************************************************************)
(* What the configuration flash of src/config.c promises to its callers: a *)
(* register that is updated or erased as a whole, and that keeps its value *)
(* when the power fails.  It is not atomic.  An update passes through a    *)
(* register that is blank and one that reads back torn, and a power loss   *)
(* leaves it there; after a power loss in an erasure nothing is promised   *)
(* until the whole of it has been erased.                                  *)
(***************************************************************************)
CONSTANTS
    Values,   \* what can be stored
    Blank, Torn, Unknown,
    None, Erasure

VARIABLES
    value,    \* what a read returns: a value, Blank, Torn or Unknown
    pending   \* the value being stored, Erasure or None

vars == <<value, pending>>

Init == value = Blank /\ pending = None

Begin ==
    /\ pending = None
    /\ pending' \in Values \cup {Erasure}
    /\ UNCHANGED value

\* The old value goes before the new one comes; an update may erase everything.
DropOld ==
    /\ pending \in Values
    /\ value' = Blank
    /\ UNCHANGED pending

StartNew ==
    /\ pending \in Values
    /\ value = Blank
    /\ value' = Torn
    /\ UNCHANGED pending

FinishNew ==
    /\ pending \in Values
    /\ value = Torn
    /\ value' = pending
    /\ UNCHANGED pending

\* The caller is answered when the new value is there.
End ==
    /\ pending \in Values
    /\ value \in {pending, Unknown}
    /\ pending' = None
    /\ UNCHANGED value

Erase ==
    /\ pending = Erasure
    /\ value' = Blank
    /\ pending' = None

PowerLoss ==
    /\ pending' = None
    /\ value' = IF pending = Erasure THEN Unknown ELSE value

Next == Begin \/ DropOld \/ StartNew \/ FinishNew \/ End \/ Erase \/ PowerLoss

Spec == Init /\ [][Next]_vars

=============================================================================
