---------------------------- MODULE Transceiver ----------------------------
(***************************************************************************)
(* What lib/src/fusb302b.c promises to threads that call it at once: a     *)
(* transceiver each of its functions acts on at a single moment between    *)
(* call and return, with messages as units (fusb_reset at two moments: it  *)
(* forgets what was received, and then what is being sent).                *)
(***************************************************************************)
EXTENDS Sequences

CONSTANTS Thread, Message, GoodCRC, NULL

Job == [fn : {"send"}, msg : Message]
       \cup [fn : {"read", "hardrst", "status", "typec", "reset"}, msg : {NULL}]

VARIABLES
    at,         \* where each thread is in a call: "out", "called", "half" or "done"
    job,        \* what it has called
    got,        \* the message in its buffer
    told,       \* the interrupt flags it was last told of
    inbox,      \* received messages, the oldest first
    sending,    \* the message being sent, or NULL
    hardReset,  \* a Hard Reset is being signalled
    flags       \* the chip's interrupt flags

vars == <<at, job, got, told, inbox, sending, hardReset, flags>>

Init ==
    /\ at = [t \in Thread |-> "out"]
    /\ job \in [Thread -> Job] /\ got = [t \in Thread |-> NULL]
    /\ told = [t \in Thread |-> {}]
    /\ inbox = <<>> /\ sending = NULL /\ hardReset = FALSE /\ flags = {}

To(t, place) == at' = [at EXCEPT ![t] = place]
Called(t, fn) == at[t] = "called" /\ job[t].fn = fn

Call(t) ==
    /\ at[t] = "out" /\ To(t, "called")
    /\ \E j \in Job : job' = [job EXCEPT ![t] = j]
    /\ UNCHANGED <<got, told, inbox, sending, hardReset, flags>>

Send(t) ==
    /\ Called(t, "send") /\ To(t, "out")
    /\ sending' = job[t].msg
    /\ UNCHANGED <<job, got, told, inbox, hardReset, flags>>

\* An empty inbox leaves the caller's buffer alone.
Read(t) ==
    /\ Called(t, "read")
    /\ IF inbox = <<>> THEN To(t, "out") /\ UNCHANGED <<got, inbox>>
       ELSE To(t, "done") /\ got' = [got EXCEPT ![t] = Head(inbox)] /\ inbox' = Tail(inbox)
    /\ UNCHANGED <<job, told, sending, hardReset, flags>>

Forget(t) ==
    /\ Called(t, "reset") /\ To(t, "half")
    /\ inbox' = <<>>
    /\ UNCHANGED <<job, got, told, sending, hardReset, flags>>

Abort(t) ==
    /\ at[t] = "half" /\ To(t, "out")
    /\ sending' = NULL
    /\ UNCHANGED <<job, got, told, inbox, hardReset, flags>>

SendHardReset(t) ==
    /\ Called(t, "hardrst") /\ To(t, "out")
    /\ hardReset' = TRUE
    /\ UNCHANGED <<job, got, told, inbox, sending, flags>>

GetStatus(t) ==
    /\ Called(t, "status") /\ To(t, "out")
    /\ told' = [told EXCEPT ![t] = flags] /\ flags' = {}
    /\ UNCHANGED <<job, got, inbox, sending, hardReset>>

GetTypecCurrent(t) ==
    /\ Called(t, "typec") /\ To(t, "out")
    /\ UNCHANGED <<job, got, told, inbox, sending, hardReset, flags>>

Return(t) ==
    /\ at[t] = "done" /\ To(t, "out")
    /\ UNCHANGED <<job, got, told, inbox, sending, hardReset, flags>>

Arrive(m, flag) == inbox' = Append(inbox, m) /\ flags' = flags \cup {flag}

Receive ==
    /\ \E m \in Message : Arrive(m, "I_GCRCSENT")
    /\ UNCHANGED <<at, job, got, told, sending, hardReset>>

Transmitted ==
    /\ sending # NULL /\ sending' = NULL
    /\ Arrive(GoodCRC, "I_TXSENT")
    /\ UNCHANGED <<at, job, got, told, hardReset>>

Signalled ==
    /\ hardReset /\ hardReset' = FALSE
    /\ flags' = flags \cup {"I_HARDSENT"}
    /\ UNCHANGED <<at, job, got, told, inbox, sending>>

Next ==
    \/ \E t \in Thread :
        \/ Call(t) \/ Send(t) \/ Read(t) \/ Forget(t) \/ Abort(t) \/ SendHardReset(t)
        \/ GetStatus(t) \/ GetTypecCurrent(t) \/ Return(t)
    \/ Receive \/ Transmitted \/ Signalled

Spec == Init /\ [][Next]_vars

=============================================================================
