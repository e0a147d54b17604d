--------------------------- MODULE ResetHandover ---------------------------
(***************************************************************************)
(* What hard_reset.c and policy_engine.c promise each other: one Hard      *)
(* Reset after the other goes through both of them, each from its start by *)
(* the HR thread to the end of the engine's part.  A request of the engine *)
(* is neither lost nor carried out twice, and while it stands the engine   *)
(* takes nothing up but the report that its reset has been sent, not even  *)
(* a reset of the partner's, which then stands for ever.                   *)
(***************************************************************************)
VARIABLES
    reset,   \* where the Hard Reset under way is, or "none"
    asked    \* the engine has asked for one that has not been started

vars == <<reset, asked>>

Init == reset = "none" /\ asked = FALSE

\* The engine asks for a Hard Reset, though not for a second one, nor while it has one in hand.
Ask ==
    /\ ~asked /\ reset \notin {"ours", "sent", "handling"}
    /\ asked' = TRUE
    /\ UNCHANGED reset

\* The HR thread starts on the one asked for, which goes before one of the partner's.
Start ==
    /\ reset = "none"
    /\ reset' = IF asked THEN "ours" ELSE "theirs"
    /\ asked' = FALSE

\* The engine is told of the partner's ...
Indicate ==
    /\ reset = "theirs"
    /\ reset' = "indicated"
    /\ UNCHANGED asked

\* ... and that its own has been sent.
Report ==
    /\ reset = "ours"
    /\ reset' = "sent"
    /\ UNCHANGED asked

TakeUp ==
    /\ \/ reset = "sent"
       \/ reset = "indicated" /\ ~asked
    /\ reset' = "handling"
    /\ UNCHANGED asked

\* The engine is done, and the HR thread notices.
Finish ==
    /\ reset = "handling"
    /\ reset' = "done"
    /\ UNCHANGED asked

End ==
    /\ reset = "done"
    /\ reset' = "none"
    /\ UNCHANGED asked

Next == Ask \/ Start \/ Indicate \/ Report \/ TakeUp \/ Finish \/ End

Spec == Init /\ [][Next]_vars

=============================================================================
