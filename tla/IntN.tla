-------------------------------- MODULE IntN --------------------------------
(***************************************************************************)
(* lib/src/int_n.c: the thread of lowest priority, which polls the chip's  *)
(* interrupt line every millisecond and hands the flags on, one thread at  *)
(* a time.  Each thread it wakes runs before it goes on.                   *)
(***************************************************************************)
EXTENDS Fusb302b

\* The poller gets the processor and the bus when nobody else wants them.
IntNPoll ==
    /\ Idle
    /\ bus = <<>>
    /\ status = {}
    /\ intr # {}
    /\ FusbGetStatus
    /\ UNCHANGED <<pc, ev, ready, bus, fault, poolVars, peVars, prlVars, srcVars>>

\* The flags for each thread, in the order in which the threads are told.
For == [RX |-> {"I_GCRCSENT"}, TX |-> {"I_RETRYFAIL", "I_TXSENT"},
        HR |-> {"I_HARDRST", "I_HARDSENT"}, PE |-> {"I_OVRTEMP"}]
Before == [RX |-> {}, TX |-> For.RX, HR |-> For.RX \cup For.TX,
           PE |-> For.RX \cup For.TX \cup For.HR]

IntNTell(t) ==
    /\ Idle
    /\ status \cap For[t] # {}
    /\ status \cap Before[t] = {}
    /\ ev' = [ev EXCEPT ![t] = @ \cup (status \cap For[t])]
    /\ ready' = IF \E e \in status \cap For[t] : Wake(t, e) # ready
                THEN Append(ready, t) ELSE ready
    /\ status' = status \ For[t]
    /\ UNCHANGED <<pc, bus, fault, poolVars, peVars, prlVars, chipVars, srcVars>>

IntNNext == IntNPoll \/ \E t \in Thread : IntNTell(t)

=============================================================================
