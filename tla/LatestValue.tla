---------------------------- MODULE LatestValue ----------------------------
(***************************************************************************)
(* What the triple buffer of src/high_current_modulation.c promises: a     *)
(* mailbox for one value between a thread that makes values and an         *)
(* interrupt that shows them.  A value is put into the empty mailbox or    *)
(* dropped; what is put there is the newest, whole; showing it empties the *)
(* mailbox.  Neither side waits for the other.                             *)
(***************************************************************************)
EXTENDS Naturals

CONSTANT None

VARIABLES
    made,      \* how many values have been made: each is known by its number
    waiting,   \* the one in the mailbox, or None
    shown      \* the one being shown, 0 before the first

vars == <<made, waiting, shown>>

Init == made = 0 /\ waiting = None /\ shown = 0

Make ==
    /\ made' = made + 1
    /\ UNCHANGED <<waiting, shown>>

Put ==
    /\ waiting = None
    /\ waiting' = made
    /\ UNCHANGED <<made, shown>>

Show ==
    /\ waiting # None
    /\ shown' = waiting
    /\ waiting' = None
    /\ UNCHANGED made

Next == Make \/ Put \/ Show

Spec == Init /\ [][Next]_vars

=============================================================================
