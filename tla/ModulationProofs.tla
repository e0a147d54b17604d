-------------------------- MODULE ModulationProofs --------------------------
(***************************************************************************)
(* The triple buffer of HighCurrentModulation, for any sequence of values: *)
(* its three buffers always have three owners, the thread never fills one  *)
(* the interrupt sends or is about to send, and the LEDs never go back to  *)
(* an older value.  The three follow from one inductive invariant, which   *)
(* says what the thread's local act stands for at each of its steps.       *)
(*                                                                         *)
(* And its planes: those of a frame that is shown add up to the value the  *)
(* frame was filled with.                                                  *)
(***************************************************************************)
EXTENDS HighCurrentModulation, SequenceTheorems, FiniteSetTheorems, TLAPS

Steps == {"Sleep", "Clear", "high", "low", "Test", "SetWriter", "SetReady", "SetUpdate"}

\* The part of the types the triple buffer needs.
Indices ==
    /\ reader \in Buffers /\ ready \in Buffers /\ writer \in Buffers /\ act \in Buffers
    /\ update \in BOOLEAN
    /\ val \in 0..Len(Program)
    /\ frame \in [Buffers -> 0..Len(Program)]
    /\ pc \in Steps

\* What act is until writer is overwritten, between the two assignments, and after them.
ActOwned ==
    /\ pc \in {"Clear", "high", "low", "Test", "SetWriter"} => act = writer
    /\ pc = "SetReady" => writer = ready /\ act # reader /\ act # writer
    /\ pc = "SetUpdate" => ready = act

\* The owners are pairwise distinct, apart from the moment writer and ready agree.
Apart == reader # writer /\ reader # ready /\ (pc # "SetReady" => ready # writer)

\* No newer buffer waits while the thread publishes one.
Unpublished == pc \in {"SetWriter", "SetReady", "SetUpdate"} => ~update

\* No buffer is newer than the thread's value, the waiting one not older than the one sent.
Ordered ==
    /\ \A b \in Buffers : frame[b] <= val
    /\ update => frame[reader] <= frame[ready]
    /\ pc \in {"high", "low", "Test", "SetWriter", "SetReady", "SetUpdate"} => frame[act] = val

TripleInv == Indices /\ ActOwned /\ Apart /\ Unpublished /\ Ordered

-----------------------------------------------------------------------------
\* The length of the program is a number.
LEMMA ProgramLength == Len(Program) \in Nat
BY ProgramAssumption, LenProperties

\* The invariant holds in the state dazzle_high_current_modulation_run sets up.
LEMMA TripleInit == Init => TripleInv
<1> SUFFICES ASSUME Init PROVE TripleInv
  OBVIOUS
<1> USE ProgramLength DEF Init, Buffers
<1>1. Indices
  BY DEF Indices, Steps
<1>2. Ordered
  BY DEF Ordered
<1> QED  BY <1>1, <1>2 DEF TripleInv, ActOwned, Apart, Unpublished

\* Each step of the thread keeps it.
LEMMA TripleThread == TripleInv /\ Thread => TripleInv'
<1> SUFFICES ASSUME TripleInv, Thread PROVE TripleInv'
  OBVIOUS
<1> USE ProgramLength DEF TripleInv, Indices, ActOwned, Apart, Unpublished, Ordered, Steps, isrVars
<1>1. CASE Wake
  <2>1. val' \in 0..Len(Program) /\ val <= val'
    BY <1>1 DEF Wake, NextValue
  <2> QED  BY <1>1, <2>1 DEF Wake
<1>2. CASE Clear
  BY <1>2 DEF Clear
<1>3. CASE FillHigh
  <2>1. pc = "high" /\ pc' \in {"high", "low"}
    BY <1>3 DEF FillHigh, FillBit
  <2>2. UNCHANGED <<reader, ready, writer, update, val, act, frame>>
    BY <1>3 DEF FillHigh, FillBit
  <2> QED  BY <2>1, <2>2
<1>4. CASE FillLow
  <2>1. pc = "low" /\ pc' \in {"low", "Test"}
    BY <1>4 DEF FillLow, FillBit
  <2>2. UNCHANGED <<reader, ready, writer, update, val, act, frame>>
    BY <1>4 DEF FillLow, FillBit
  <2> QED  BY <2>1, <2>2
<1>5. CASE Test
  BY <1>5 DEF Test
<1>6. CASE SetWriter
  BY <1>6 DEF SetWriter
<1>7. CASE SetReady
  BY <1>7 DEF SetReady
<1>8. CASE SetUpdate
  BY <1>8 DEF SetUpdate
<1> QED  BY <1>1, <1>2, <1>3, <1>4, <1>5, <1>6, <1>7, <1>8 DEF Thread

\* Each interrupt keeps it, whatever the thread is doing.
LEMMA TripleInterrupt == TripleInv /\ Interrupt => TripleInv'
<1> SUFFICES ASSUME TripleInv, Interrupt PROVE TripleInv'
  OBVIOUS
<1> USE DEF TripleInv, Indices, ActOwned, Apart, Unpublished, Ordered, Steps
<1>1. CASE Blank
  BY <1>1 DEF Blank
<1>2. CASE Unblank /\ update
  BY <1>2 DEF Unblank, Take
<1>3. CASE Unblank /\ ~update
  BY <1>3 DEF Unblank
<1> QED  BY <1>1, <1>2, <1>3 DEF Interrupt

\* So it always holds.
LEMMA TripleCorrect == Spec => []TripleInv
<1>1. TripleInv /\ [Next]_vars => TripleInv'
  <2> SUFFICES ASSUME TripleInv, UNCHANGED vars PROVE TripleInv'
    BY TripleThread, TripleInterrupt DEF Next
  <2> QED  BY DEF vars, TripleInv, Indices, ActOwned, Apart, Unpublished, Ordered
<1> QED  BY <1>1, TripleInit, PTL DEF Spec

-----------------------------------------------------------------------------
\* The thread never fills the buffer the interrupt sends from, nor the one that waits
\* (high_current_modulation.c:94-145 against 329-336).
THEOREM NeverTornCorrect == Spec => []NeverTorn
<1>1. TripleInv => NeverTorn
  BY DEF TripleInv, ActOwned, Apart, NeverTorn, Filling
<1> QED  BY <1>1, TripleCorrect, PTL

\* The three buffers always have three owners, and none waits during a publication.
THEOREM OwnersCorrect == Spec => []ThreeOwners
<1>1. ASSUME NEW a \in Buffers, NEW b \in Buffers, NEW c \in Buffers, a # b, a # c, b # c
      PROVE  {a, b, c} = Buffers
  BY <1>1 DEF Buffers
<1>2. TripleInv => ThreeOwners
  BY <1>1 DEF TripleInv, Indices, ActOwned, Apart, Unpublished, ThreeOwners, Owners
<1> QED  BY <1>2, TripleCorrect, PTL

\* No step makes the LEDs show an older value than before: neither the interrupt, which
\* takes only a newer buffer, nor the thread, which clears only its own.
THEOREM BackwardsCorrect == Spec => NeverBackwards
<1>1. TripleInv /\ [Next]_vars => [frame'[reader'] >= frame[reader]]_vars
  <2> SUFFICES ASSUME TripleInv, Next PROVE frame'[reader'] >= frame[reader]
    OBVIOUS
  <2> USE ProgramLength DEF TripleInv, Indices, ActOwned, Apart, Ordered, isrVars
  <2>1. CASE Clear
    BY <2>1 DEF Clear
  <2>2. CASE Unblank
    BY <2>2 DEF Unblank
  <2>3. CASE UNCHANGED <<reader, frame>>
    BY <2>3
  <2>4. Clear \/ Unblank \/ UNCHANGED <<reader, frame>>
    BY DEF Next, Thread, Interrupt, Wake, FillHigh, FillLow, FillBit, Test, SetWriter, SetReady,
           SetUpdate, Blank
  <2> QED  BY <2>1, <2>2, <2>3, <2>4
<1> QED  BY <1>1, TripleCorrect, PTL DEF Spec, NeverBackwards

\* The value that waits, as the substitution of Mailbox has it.
Waiting == IF update THEN frame[ready] ELSE -1

\* Every step of the thread and of the interrupt is one of the mailbox or leaves it alone.
LEMMA MailboxStep ==
    ASSUME TripleInv, [Next]_vars
    PROVE  \/ val' = val + 1 /\ Waiting' = Waiting /\ frame'[reader'] = frame[reader]
           \/ Waiting = -1 /\ Waiting' = val /\ val' = val /\ frame'[reader'] = frame[reader]
           \/ Waiting # -1 /\ frame'[reader'] = Waiting /\ Waiting' = -1 /\ val' = val
           \/ UNCHANGED <<val, Waiting, frame[reader]>>
<1>1. Indices /\ ActOwned /\ Apart /\ Unpublished /\ Ordered
  BY DEF TripleInv
<1>2. CASE Wake
  <2>1. val' = val \/ val' = val + 1
    BY <1>2 DEF Wake, NextValue
  <2>2. UNCHANGED <<reader, ready, update, frame>>
    BY <1>2 DEF Wake, isrVars
  <2> QED  BY <2>1, <2>2 DEF Waiting
<1>3. CASE Clear
  <2>1. act # reader /\ act # ready
    BY <1>1, <1>3 DEF Clear, ActOwned, Apart
  <2>2. frame' = [frame EXCEPT ![act] = val] /\ UNCHANGED <<reader, ready, update, val>>
    BY <1>3 DEF Clear, isrVars
  <2>3. frame'[reader] = frame[reader] /\ frame'[ready] = frame[ready]
    BY <1>1, <2>1, <2>2 DEF Indices
  <2> QED  BY <2>2, <2>3 DEF Waiting
<1>4. CASE SetReady
  <2>1. ~update /\ UNCHANGED <<reader, update, val, frame>>
    BY <1>1, <1>4 DEF SetReady, isrVars, Unpublished
  <2> QED  BY <2>1 DEF Waiting
<1>5. CASE SetUpdate
  <2>1. ~update /\ update' = TRUE /\ ready = act /\ frame[act] = val
    BY <1>1, <1>5 DEF SetUpdate, Unpublished, ActOwned, Ordered
  <2>2. UNCHANGED <<reader, ready, val, frame>>
    BY <1>5 DEF SetUpdate, isrVars
  <2> QED  BY <2>1, <2>2 DEF Waiting
<1>6. CASE Unblank /\ update
  <2>1. reader' = ready /\ update' = FALSE /\ UNCHANGED <<val, frame>>
    BY <1>6 DEF Unblank, Take
  <2>2. frame[ready] # -1
    BY <1>1, ProgramLength DEF Indices
  <2> QED  BY <1>6, <2>1, <2>2 DEF Waiting
<1>7. CASE UNCHANGED <<reader, ready, update, val, frame>>
  BY <1>7 DEF Waiting
<1>8. \/ Wake \/ Clear \/ SetReady \/ SetUpdate \/ (Unblank /\ update)
      \/ UNCHANGED <<reader, ready, update, val, frame>>
  BY DEF Next, Thread, Interrupt, FillHigh, FillLow, FillBit, Test, SetWriter, Blank, Unblank, vars,
         isrVars
<1> QED  BY <1>2, <1>3, <1>4, <1>5, <1>6, <1>7, <1>8

\* The triple buffer implements the mailbox of LatestValue, into which a value is put whole
\* while it is empty and dropped while it is full, for any sequence of values
\* (high_current_modulation.c:141-145 against 329-336).
THEOREM MailboxCorrect == Spec => MailboxSpec
<1>1. Init => Mailbox!Init
  BY DEF Init, Mailbox!Init, Buffers
<1>2. TripleInv /\ [Next]_vars => [Mailbox!Next]_Mailbox!vars
  BY MailboxStep DEF Mailbox!Next, Mailbox!Make, Mailbox!Put, Mailbox!Show, Mailbox!vars, Waiting
<1> QED  BY <1>1, <1>2, TripleCorrect, PTL DEF Spec, MailboxSpec, Mailbox!Spec

-----------------------------------------------------------------------------
\* Induction up to a number, as a statement about a set.
LEMMA Upto ==
    ASSUME NEW m \in Nat, NEW S, 0 \in S, \A n \in 0..m - 1 : n \in S => n + 1 \in S
    PROVE  0..m \subseteq S
<1> SUFFICES ASSUME (0..m) \ S # {} PROVE FALSE
  OBVIOUS
<1> DEFINE R == (0..m) \ S
           Below(x) == {t \in R : t <= x}
           T == {Below(x) : x \in R}
<1>1. IsFiniteSet(R)
  <2>1. R \in SUBSET Nat /\ \A s \in R : s <= m
    OBVIOUS
  <2> HIDE DEF R
  <2> QED  BY <2>1, FS_BoundedSetOfNaturals
<1>2. T \subseteq FiniteSubsetsOf(R) /\ T # {}
  <2>1. FiniteSubsetsOf(R) = SUBSET R
    BY <1>1, FS_FiniteSubsetsOfFinite
  <2>2. \A x \in R : Below(x) \in SUBSET R
    OBVIOUS
  <2>3. PICK x \in R : TRUE
    OBVIOUS
  <2>4. Below(x) \in T
    OBVIOUS
  <2> HIDE DEF Below, R
  <2> QED  BY <2>1, <2>2, <2>4
<1> HIDE DEF T
<1>3. PICK l \in T : \A n \in T : ~(<<n, l>> \in StrictSubsetOrdering(R))
  BY <1>2, FS_StrictSubsetOrderingWellFounded, WFMin, Zenon
<1>4. PICK x \in R : l = Below(x)
  BY <1>3 DEF T
<1>5. x \in 0..m /\ x # 0 /\ x - 1 \in 0..m - 1 /\ x - 1 \notin S
  <2>1. x \in 0..m /\ x \notin S
    BY DEF R
  <2>2. x # 0 /\ x - 1 \in 0..m - 1 /\ (x - 1) + 1 = x
    BY <2>1
  <2> QED  BY <2>1, <2>2
<1>6. x - 1 \in R
  BY <1>5 DEF R
<1>7. Below(x - 1) # l /\ Below(x - 1) \subseteq l
  <2>1. x \in Below(x) /\ x \notin Below(x - 1)
    BY <1>5
  <2>2. \A t \in R : t <= x - 1 => t <= x
    BY <1>5 DEF R
  <2> QED  BY <1>4, <2>1, <2>2
<1>8. Below(x - 1) \in T /\ Below(x - 1) \subseteq R /\ l \subseteq R
  BY <1>4, <1>6 DEF T
<1>9. <<Below(x - 1), l>> \in StrictSubsetOrdering(R)
  BY <1>7, <1>8 DEF StrictSubsetOrdering
<1> QED  BY <1>3, <1>8, <1>9

\* What the n-th heaviest plane adds.
Term(driver, lit, n) ==
    IF <<driver, BitDepth - n>> \in lit THEN Weight[driver][n - 1] ELSE 0

\* There is a function as the recursion of Shine asks for, for as many planes as one likes.
LEMMA ShineExists ==
    ASSUME NEW driver, NEW lit
    PROVE  \E f : f = [n \in 0..BitDepth |-> IF n = 0 THEN 0 ELSE f[n - 1] + Term(driver, lit, n)]
<1> DEFINE Is(f, m) == f = [n \in 0..m |-> IF n = 0 THEN 0 ELSE f[n - 1] + Term(driver, lit, n)]
           S == {m \in Nat : \E f : Is(f, m)}
<1>1. 0 \in S
  <2> DEFINE f == [n \in 0..0 |-> 0]
  <2>1. f = [n \in 0..0 |-> IF n = 0 THEN 0 ELSE f[n - 1] + Term(driver, lit, n)]
    OBVIOUS
  <2> HIDE DEF f
  <2> QED  BY <2>1
<1>2. ASSUME NEW m \in Nat, m \in S PROVE m + 1 \in S
  <2>1. PICK f : Is(f, m)
    BY <1>2
  <2> DEFINE g == [n \in 0..m + 1 |-> IF n <= m THEN f[n] ELSE f[m] + Term(driver, lit, m + 1)]
  <2>2. ASSUME NEW n \in 0..m + 1
        PROVE  g[n] = IF n = 0 THEN 0 ELSE g[n - 1] + Term(driver, lit, n)
    <3>1. CASE n <= m
      <4>1. f[n] = IF n = 0 THEN 0 ELSE f[n - 1] + Term(driver, lit, n)
        <5>1. n \in 0..m
          BY <3>1
        <5> HIDE DEF g
        <5> QED  BY <2>1, <5>1
      <4>2. n # 0 => n - 1 \in 0..m + 1 /\ n - 1 <= m
        BY <3>1
      <4> QED  BY <3>1, <4>1, <4>2
    <3>2. CASE ~(n <= m)
      <4>1. n = m + 1 /\ n # 0 /\ n - 1 = m /\ m \in 0..m + 1 /\ m <= m
        BY <3>2
      <4> QED  BY <3>2, <4>1
    <3> QED  BY <3>1, <3>2
  <2>3. g = [n \in 0..m + 1 |-> g[n]]
    OBVIOUS
  <2> HIDE DEF g
  <2>4. Is(g, m + 1)
    BY <2>2, <2>3
  <2> QED  BY <2>4
<1> HIDE DEF Is
<1>3. 0..BitDepth \subseteq S
  <2>1. BitDepth \in Nat /\ \A n \in 0..BitDepth - 1 : n \in S => n + 1 \in S
    BY <1>2, BitDepthAssumption
  <2> HIDE DEF S
  <2> QED  BY <1>1, <2>1, Upto
<1>4. BitDepth \in S
  <2>1. BitDepth \in 0..BitDepth
    BY BitDepthAssumption
  <2> QED  BY <1>3, <2>1
<1> QED  BY <1>4 DEF Is

\* So Shine is what it says.
LEMMA ShineSays ==
    ASSUME NEW driver, NEW lit
    PROVE  /\ Shine(driver, lit)[0] = 0
           /\ \A n \in 1..BitDepth :
                Shine(driver, lit)[n] = Shine(driver, lit)[n - 1] + Term(driver, lit, n)
<1> DEFINE f == Shine(driver, lit)
<1>1. f = CHOOSE g : g = [n \in 0..BitDepth |-> IF n = 0 THEN 0 ELSE g[n - 1] + Term(driver, lit, n)]
  BY DEF Shine, Term
<1> HIDE DEF f
<1>2. f = [n \in 0..BitDepth |-> IF n = 0 THEN 0 ELSE f[n - 1] + Term(driver, lit, n)]
  BY <1>1, ShineExists
<1>3. 0 \in 0..BitDepth /\ \A n \in 1..BitDepth : n \in 0..BitDepth /\ n # 0
  BY BitDepthAssumption
<1>4. f[0] = 0 /\ \A n \in 1..BitDepth : f[n] = f[n - 1] + Term(driver, lit, n)
  BY <1>2, <1>3
<1> QED  BY <1>4 DEF f

\* It depends on the planes it counts only.
LEMMA ShineFrame ==
    ASSUME NEW driver, NEW lit, NEW more, NEW m \in 0..BitDepth,
           \A n \in 1..m : <<driver, BitDepth - n>> \in lit <=> <<driver, BitDepth - n>> \in more
    PROVE  \A n \in 0..m : Shine(driver, lit)[n] = Shine(driver, more)[n]
<1> DEFINE f == Shine(driver, lit)
           g == Shine(driver, more)
           S == {n \in 0..m : f[n] = g[n]}
<1>1. f[0] = 0 /\ g[0] = 0 /\ BitDepth \in Nat
  BY ShineSays, BitDepthAssumption
<1>2. \A n \in 1..BitDepth : /\ f[n] = f[n - 1] + Term(driver, lit, n)
                             /\ g[n] = g[n - 1] + Term(driver, more, n)
  BY ShineSays
<1>3. \A n \in 1..m : Term(driver, lit, n) = Term(driver, more, n)
  BY DEF Term
<1> HIDE DEF f, g
<1>4. m \in Nat /\ 0 \in S /\ \A n \in 0..m - 1 : n \in S => n + 1 \in S
  <2>1. ASSUME NEW n \in 0..m - 1, f[n] = g[n] PROVE f[n + 1] = g[n + 1]
    <3>1. n + 1 \in 1..m /\ n + 1 \in 1..BitDepth /\ (n + 1) - 1 = n
      BY <1>1
    <3> QED  BY <1>2, <1>3, <2>1, <3>1
  <2>2. \A n \in 0..m - 1 : n + 1 \in 0..m
    BY <1>1
  <2> QED  BY <1>1, <2>1, <2>2
<1> HIDE DEF S
<1>5. 0..m \subseteq S
  BY <1>4, Upto
<1> QED  BY <1>5 DEF S, f, g

\* So the sum over all planes is the same for two sets that agree on the driver's.
LEMMA ShineSame ==
    ASSUME NEW driver, NEW lit, NEW more,
           \A n \in 1..BitDepth : <<driver, BitDepth - n>> \in lit <=> <<driver, BitDepth - n>> \in more
    PROVE  Shine(driver, lit)[BitDepth] = Shine(driver, more)[BitDepth]
<1>1. PICK m \in 0..BitDepth : m = BitDepth
  BY BitDepthAssumption
<1>2. \A n \in 1..m : <<driver, BitDepth - n>> \in lit <=> <<driver, BitDepth - n>> \in more
  BY <1>1
<1>3. \A n \in 0..m : Shine(driver, lit)[n] = Shine(driver, more)[n]
  BY <1>2, ShineFrame
<1>4. m \in 0..m
  BY BitDepthAssumption
<1> QED  BY <1>1, <1>3, <1>4

\* Dark planes add up to nothing.
LEMMA ShineDark == ASSUME NEW driver PROVE Shine(driver, {})[BitDepth] = 0 /\ Shine(driver, {})[0] = 0
<1> DEFINE f == Shine(driver, {})
           S == {n \in 0..BitDepth : f[n] = 0}
<1>1. f[0] = 0 /\ \A n \in 1..BitDepth : f[n] = f[n - 1] + 0
  <2>1. \A n : Term(driver, {}, n) = 0
    BY DEF Term
  <2> QED  BY <2>1, ShineSays
<1>2. BitDepth \in Nat /\ BitDepth \in 0..BitDepth
  BY BitDepthAssumption
<1> HIDE DEF f
<1>3. 0 \in S /\ \A n \in 0..BitDepth - 1 : n \in S => n + 1 \in S
  <2>1. ASSUME NEW n \in 0..BitDepth - 1, f[n] = 0 PROVE f[n + 1] = 0
    <3>1. n + 1 \in 1..BitDepth /\ (n + 1) - 1 = n
      BY <1>2
    <3> QED  BY <1>1, <2>1, <3>1
  <2>2. \A n \in 0..BitDepth - 1 : n + 1 \in 0..BitDepth
    BY <1>2
  <2> QED  BY <1>1, <1>2, <2>1, <2>2
<1> HIDE DEF S
<1>4. 0..BitDepth \subseteq S
  BY <1>2, <1>3, Upto
<1> QED  BY <1>2, <1>3, <1>4 DEF S, f

\* The powers of two the weights are made of.
LEMMA Powers ==
    /\ \A n : n = 0 => 2^n = 1
    /\ \A n : n = 1 => 2^n = 2
    /\ \A n : n = 2 => 2^n = 4
    /\ \A n : n = 3 => 2^n = 8
    /\ \A n : n = 4 => 2^n = 16
    /\ \A n : n = 5 => 2^n = 32
    /\ \A n : n = 6 => 2^n = 64
    /\ \A n : n = 7 => 2^n = 128
    /\ \A n : n = 8 => 2^n = 256
    /\ \A n : n = 9 => 2^n = 512
    /\ \A n : n = 10 => 2^n = 1024
    /\ \A n : n = 11 => 2^n = 2048
    /\ \A n : n = 12 => 2^n = 4096
    /\ \A n : n = 13 => 2^n = 8192
    /\ \A n : n = 14 => 2^n = 16384
    /\ \A n : n = 15 => 2^n = 32768
<1>1. \A n : n = 0 => 2^n = 1
  OBVIOUS
<1>2. \A n : n = 1 => 2^n = 2
  OBVIOUS
<1>3. \A n : n = 2 => 2^n = 4
  OBVIOUS
<1>4. \A n : n = 3 => 2^n = 8
  OBVIOUS
<1>5. \A n : n = 4 => 2^n = 16
  OBVIOUS
<1>6. \A n : n = 5 => 2^n = 32
  OBVIOUS
<1>7. \A n : n = 6 => 2^n = 64
  OBVIOUS
<1>8. \A n : n = 7 => 2^n = 128
  OBVIOUS
<1>9. \A n : n = 8 => 2^n = 256
  OBVIOUS
<1>10. \A n : n = 9 => 2^n = 512
  OBVIOUS
<1>11. \A n : n = 10 => 2^n = 1024
  OBVIOUS
<1>12. \A n : n = 11 => 2^n = 2048
  OBVIOUS
<1>13. \A n : n = 12 => 2^n = 4096
  OBVIOUS
<1>14. \A n : n = 13 => 2^n = 8192
  OBVIOUS
<1>15. \A n : n = 14 => 2^n = 16384
  OBVIOUS
<1>16. \A n : n = 15 => 2^n = 32768
  OBVIOUS
<1> QED
  BY <1>1, <1>2, <1>3, <1>4, <1>5, <1>6, <1>7, <1>8, <1>9, <1>10, <1>11, <1>12, <1>13, <1>14, <1>15, <1>16

\* Each weight of the high driver is twice the next, down to 2^(16 - BitDepth).
LEMMA HighWeights ==
    /\ \A b \in Bits : HighWeight[b] \in Nat
    /\ \A b \in Bits : b + 1 \in Bits => HighWeight[b] = 2 * HighWeight[b + 1]
    /\ 0 \in Bits /\ HighWeight[0] = 32768
    /\ BitDepth - 1 \in Bits /\ HighWeight[BitDepth - 1] = 2^(16 - BitDepth)
<1>1. \A b \in Bits : b \in {0, 1, 2, 3, 4, 5, 6, 7, 8, 9} /\ HighWeight[b] = 2^(15 - b)
  BY BitDepthAssumption DEF Bits, HighWeight
<1>2. 0 \in Bits /\ BitDepth - 1 \in Bits /\ 15 - (BitDepth - 1) = 16 - BitDepth /\ 15 - 0 = 15
  BY BitDepthAssumption DEF Bits
<1>3. \A b \in {0, 1, 2, 3, 4, 5, 6, 7, 8, 9} : 2^(15 - b) \in Nat
  BY Powers
<1>4. \A b \in {0, 1, 2, 3, 4, 5, 6, 7, 8} : 2^(15 - b) = 2 * 2^(15 - (b + 1))
  BY Powers
<1>5. ASSUME NEW b \in Bits, b + 1 \in Bits PROVE HighWeight[b] = 2 * HighWeight[b + 1]
  <2>1. b \in {0, 1, 2, 3, 4, 5, 6, 7, 8}
    BY <1>1, <1>5
  <2> QED  BY <1>1, <1>4, <1>5, <2>1
<1>6. HighWeight[0] = 32768
  <2>1. PICK n : n = 15 - 0
    OBVIOUS
  <2>2. HighWeight[0] = 2^n
    BY <1>1, <1>2, <2>1
  <2> QED  BY <1>2, <2>1, <2>2, Powers
<1>7. HighWeight[BitDepth - 1] = 2^(16 - BitDepth)
  <2>1. HighWeight[BitDepth - 1] = 2^(15 - (BitDepth - 1))
    BY <1>1, <1>2
  <2> QED  BY <1>2, <2>1
<1>8. \A b \in Bits : HighWeight[b] \in Nat
  BY <1>1, <1>3
<1> QED  BY <1>2, <1>5, <1>6, <1>7, <1>8

\* The weights of the low driver take up where those of the high driver end: what the high
\* driver leaves, in units of the low driver, is at most twice its heaviest plane.
LowFollows == 2^(16 - BitDepth) * 65536 <= 2 * LowWeight[0]

\* The quotients by powers of two that its weights are.
LEMMA Halves ==
    ASSUME NEW x \in Nat, NEW b \in 0..9
    PROVE  /\ x \div 2^b \in Nat
           /\ b = 0 => x \div 2^b = x
           /\ b < 9 => x \div 2^b <= 2 * (x \div 2^(b + 1)) + 1
           /\ \A n \in Nat : x >= n * 2^b => x \div 2^b >= n
<1>1. CASE b = 0
  <2>1. x \div 2^b = x \div 1 /\ 2^b = 1
    BY <1>1, Powers
  <2>2. x \div 2^(b + 1) = x \div 2
    BY <1>1, Powers
  <2> QED  BY <1>1, <2>1, <2>2
<1>2. CASE b = 1
  <2>1. x \div 2^b = x \div 2 /\ 2^b = 2
    BY <1>2, Powers
  <2>2. x \div 2^(b + 1) = x \div 4
    BY <1>2, Powers
  <2> QED  BY <1>2, <2>1, <2>2
<1>3. CASE b = 2
  <2>1. x \div 2^b = x \div 4 /\ 2^b = 4
    BY <1>3, Powers
  <2>2. x \div 2^(b + 1) = x \div 8
    BY <1>3, Powers
  <2> QED  BY <1>3, <2>1, <2>2
<1>4. CASE b = 3
  <2>1. x \div 2^b = x \div 8 /\ 2^b = 8
    BY <1>4, Powers
  <2>2. x \div 2^(b + 1) = x \div 16
    BY <1>4, Powers
  <2> QED  BY <1>4, <2>1, <2>2
<1>5. CASE b = 4
  <2>1. x \div 2^b = x \div 16 /\ 2^b = 16
    BY <1>5, Powers
  <2>2. x \div 2^(b + 1) = x \div 32
    BY <1>5, Powers
  <2> QED  BY <1>5, <2>1, <2>2
<1>6. CASE b = 5
  <2>1. x \div 2^b = x \div 32 /\ 2^b = 32
    BY <1>6, Powers
  <2>2. x \div 2^(b + 1) = x \div 64
    BY <1>6, Powers
  <2> QED  BY <1>6, <2>1, <2>2
<1>7. CASE b = 6
  <2>1. x \div 2^b = x \div 64 /\ 2^b = 64
    BY <1>7, Powers
  <2>2. x \div 2^(b + 1) = x \div 128
    BY <1>7, Powers
  <2> QED  BY <1>7, <2>1, <2>2
<1>8. CASE b = 7
  <2>1. x \div 2^b = x \div 128 /\ 2^b = 128
    BY <1>8, Powers
  <2>2. x \div 2^(b + 1) = x \div 256
    BY <1>8, Powers
  <2> QED  BY <1>8, <2>1, <2>2
<1>9. CASE b = 8
  <2>1. x \div 2^b = x \div 256 /\ 2^b = 256
    BY <1>9, Powers
  <2>2. x \div 2^(b + 1) = x \div 512
    BY <1>9, Powers
  <2> QED  BY <1>9, <2>1, <2>2
<1>10. CASE b = 9
  <2>1. x \div 2^b = x \div 512 /\ 2^b = 512
    BY <1>10, Powers
  <2> QED  BY <1>10, <2>1
<1> QED  BY <1>1, <1>2, <1>3, <1>4, <1>5, <1>6, <1>7, <1>8, <1>9, <1>10

\* Each weight of the low driver is at most half of the one before, rounded down, and even
\* the finest is worth more than all that is lost by rounding.
LEMMA LowWeights ==
    /\ \A b \in Bits : LowWeight[b] \in Nat
    /\ \A b \in Bits : b + 1 \in Bits => LowWeight[b] <= 2 * LowWeight[b + 1] + 1
    /\ LowFollows => LowWeight[BitDepth - 1] >= BitDepth - 1
<1> DEFINE x == 2147483647 \div RangeScale
<1>1. x \in Nat
  BY RangeAssumption
<1>2. \A b \in Bits : b \in 0..9 /\ LowWeight[b] = x \div 2^b
  BY BitDepthAssumption DEF Bits, LowWeight
<1> HIDE DEF x
<1>3. \A b \in Bits : LowWeight[b] \in Nat
  BY <1>1, <1>2, Halves
<1>4. ASSUME NEW b \in Bits, b + 1 \in Bits PROVE LowWeight[b] <= 2 * LowWeight[b + 1] + 1
  <2>1. b < 9
    BY <1>2, <1>4
  <2> QED  BY <1>1, <1>2, <1>4, <2>1, Halves
<1>5. ASSUME LowFollows PROVE LowWeight[BitDepth - 1] >= BitDepth - 1
  <2>1. 0 \in Bits /\ BitDepth - 1 \in Bits
    BY HighWeights
  <2>2. LowWeight[0] = x
    BY <1>1, <1>2, <2>1, Halves
  <2>3. PICK c \in Nat : c = BitDepth - 1 /\ c \in 0..9 /\ 16 - BitDepth = 15 - c
    BY BitDepthAssumption
  <2>4. c \in {0, 1, 2, 3, 4, 5, 6, 7, 8, 9}
    BY <2>3
  <2>5. 2^(15 - c) >= 64 /\ 2^(15 - c) \in Nat
    BY <2>4, Powers
  <2>6. 2^c \in Nat /\ 2^c <= 512
    BY <2>4, Powers
  <2>7. 2^(16 - BitDepth) = 2^(15 - c)
    BY <2>3
  <2>8. x >= 2097152
    BY <1>1, <1>5, <2>2, <2>5, <2>7 DEF LowFollows
  <2>9. c * 2^c <= 4608
    BY <2>4, Powers
  <2>10. x >= c * 2^c
    BY <1>1, <2>3, <2>6, <2>8, <2>9
  <2>11. x \div 2^c >= c
    <3>1. \A n \in Nat : x >= n * 2^c => x \div 2^c >= n
      BY <1>1, <2>3, Halves
    <3> QED  BY <2>10, <3>1
  <2> QED  BY <1>2, <2>1, <2>3, <2>11
<1> QED  BY <1>3, <1>4, <1>5

-----------------------------------------------------------------------------
\* One step of precalc_modulation's loops, on a set of planes.
LEMMA Greedy ==
    ASSUME NEW driver, NEW lit, NEW b \in Bits, NEW rest0 \in Int,
           Weight[driver][b] \in Nat, NEW more, NEW left,
           \A n \in b + 1..BitDepth : <<driver, BitDepth - n>> \notin lit,
           Shine(driver, lit)[b] \in Int,
           more = IF rest0 > Weight[driver][b] THEN lit \cup {<<driver, BitDepth - 1 - b>>} ELSE lit,
           left = IF rest0 > Weight[driver][b] THEN rest0 - Weight[driver][b] ELSE rest0
    PROVE  /\ Shine(driver, more)[b + 1] = Shine(driver, lit)[b] + rest0 - left
           /\ Shine(driver, more)[b + 1] \in Int
           /\ \A n \in b + 2..BitDepth : <<driver, BitDepth - n>> \notin more
<1> DEFINE w == Weight[driver][b]
<1>1. /\ BitDepth \in Nat /\ b \in Nat /\ b + 1 \in 1..BitDepth /\ b \in 0..BitDepth /\ (b + 1) - 1 = b
      /\ BitDepth - (b + 1) = BitDepth - 1 - b /\ b + 1 \in b + 1..BitDepth
  BY BitDepthAssumption DEF Bits
<1>2. \A n \in 1..BitDepth : n # b + 1 =>
          (<<driver, BitDepth - n>> \in more <=> <<driver, BitDepth - n>> \in lit)
  <2>1. ASSUME NEW n \in 1..BitDepth, n # b + 1
        PROVE  <<driver, BitDepth - n>> # <<driver, BitDepth - 1 - b>>
    <3>1. BitDepth - n # BitDepth - 1 - b
      BY <1>1, <2>1
    <3> QED  BY <3>1
  <2> QED  BY <2>1
<1>3. \A n \in b + 2..BitDepth : <<driver, BitDepth - n>> \notin more
  <2> SUFFICES ASSUME NEW n \in b + 2..BitDepth PROVE <<driver, BitDepth - n>> \notin more
    OBVIOUS
  <2>1. n \in 1..BitDepth /\ n # b + 1 /\ n \in b + 1..BitDepth
    BY <1>1
  <2> QED  BY <1>2, <2>1
<1>4. Shine(driver, more)[b] = Shine(driver, lit)[b]
  <2>1. \A n \in 1..b : n \in 1..BitDepth /\ n # b + 1
    BY <1>1
  <2>2. \A n \in 1..b : <<driver, BitDepth - n>> \in lit <=> <<driver, BitDepth - n>> \in more
    BY <1>2, <2>1
  <2>3. b \in 0..b
    BY <1>1
  <2> QED  BY <1>1, <2>2, <2>3, ShineFrame
<1>5. Term(driver, more, b + 1) = IF rest0 > w THEN w ELSE 0
  <2>1. <<driver, BitDepth - 1 - b>> \notin lit
    BY <1>1
  <2>2. <<driver, BitDepth - 1 - b>> \in more <=> rest0 > w
    BY <2>1
  <2> QED  BY <1>1, <2>2 DEF Term
<1>6. Shine(driver, more)[b + 1] = Shine(driver, more)[b] + Term(driver, more, b + 1)
  BY <1>1, ShineSays
<1>7. Shine(driver, more)[b + 1] = Shine(driver, lit)[b] + (IF rest0 > w THEN w ELSE 0)
  BY <1>4, <1>5, <1>6
<1> QED  BY <1>3, <1>7

-----------------------------------------------------------------------------
\* The value a buffer was filled with, and what the high driver leaves of it.
Value(b) == IF frame[b] = 0 THEN 0 ELSE Program[frame[b]]
Over(b)  == Value(b) - Shine("high", planes[b])[BitDepth]

\* A buffer shows its value to within twice the finest plane of the low driver.
Complete(b) ==
    /\ Over(b) \in 0..2^(16 - BitDepth)
    /\ Over(b) * 65536 - Shine("low", planes[b])[BitDepth] \in 0..2 * LowWeight[BitDepth - 1]

\* In the loop over the high driver's weights: rest is what the planes lit so far leave,
\* at most twice the next weight, and the planes to come are dark.
HighLoop ==
    pc = "high" =>
        /\ bit \in Bits /\ rest \in Nat /\ rest <= 2 * HighWeight[bit]
        /\ Shine("high", planes[act])[bit] \in Int
        /\ rest = Value(act) - Shine("high", planes[act])[bit]
        /\ \A n \in bit + 1..BitDepth : <<"high", BitDepth - n>> \notin planes[act]
        /\ \A n \in 1..BitDepth : <<"low", BitDepth - n>> \notin planes[act]

\* In the one over the low driver's weights the rounding of each adds at most one.
LowLoop ==
    pc = "low" =>
        /\ bit \in Bits /\ rest \in Nat /\ rest <= 2 * LowWeight[bit] + bit
        /\ Over(act) \in 0..2^(16 - BitDepth)
        /\ Shine("low", planes[act])[bit] \in Int
        /\ rest = Over(act) * 65536 - Shine("low", planes[act])[bit]
        /\ \A n \in bit + 1..BitDepth : <<"low", BitDepth - n>> \notin planes[act]

\* Every buffer is complete but the one that is being filled.
FillInv ==
    /\ DOMAIN planes = Buffers
    /\ pc # "Sleep" => val # 0
    /\ HighLoop /\ LowLoop
    /\ \A b \in Buffers : (pc \in {"high", "low"} /\ b = act) \/ Complete(b)

\* A dark buffer that was never filled shows nothing.
LEMMA FillInit == Init => FillInv
<1> SUFFICES ASSUME Init PROVE FillInv
  OBVIOUS
<1>1. /\ \A b \in Buffers : planes[b] = {} /\ frame[b] = 0
      /\ DOMAIN planes = Buffers /\ pc = "Sleep"
  BY DEF Init
<1>2. \A b \in Buffers : Value(b) = 0 /\ Over(b) = 0
  BY <1>1, ShineDark DEF Value, Over
<1>3. 0 \in 0..2^(16 - BitDepth) /\ 0 \in 0..2 * LowWeight[BitDepth - 1]
  BY HighWeights, LowWeights
<1>4. \A b \in Buffers : Complete(b)
  BY <1>1, <1>2, <1>3, ShineDark DEF Complete
<1> QED  BY <1>1, <1>4 DEF FillInv, HighLoop, LowLoop

\* What is said of a buffer depends on its planes and its frame.
LEMMA FillFrame ==
    ASSUME NEW b \in Buffers, planes'[b] = planes[b], frame'[b] = frame[b]
    PROVE  Value(b)' = Value(b) /\ Over(b)' = Over(b) /\ Complete(b)' = Complete(b)
BY DEF Value, Over, Complete

\* Every value fits the high driver's heaviest planes.
LEMMA ValueFits ==
    ASSUME NEW n \in 0..Len(Program), n # 0
    PROVE  Program[n] \in Nat /\ Program[n] <= 32767
<1>1. n \in 1..Len(Program)
  BY ProgramLength
<1>2. Program[n] \in Brightness
  BY <1>1, ProgramAssumption, ElementOfSeq
<1> QED  BY <1>2 DEF Brightness

\* Clearing a buffer begins the loop.
LEMMA FillClear ==
    ASSUME TripleInv, FillInv, Clear
    PROVE  FillInv'
<1> USE DEF Indices
<1>1. /\ pc = "Clear" /\ pc' = "high" /\ act' = act /\ act \in Buffers /\ val' = val /\ val # 0
      /\ planes' = [planes EXCEPT ![act] = {}] /\ frame' = [frame EXCEPT ![act] = val]
      /\ bit' = 0 /\ rest' = Program[val] /\ val \in 0..Len(Program)
      /\ DOMAIN planes = Buffers /\ DOMAIN frame = Buffers
  BY DEF Clear, TripleInv, FillInv
<1>2. planes'[act] = {} /\ frame'[act] = val /\ DOMAIN planes' = Buffers
  BY <1>1
<1>3. Value(act)' = Program[val]
  BY <1>1, <1>2 DEF Value
<1>4. Program[val] \in Nat /\ Program[val] <= 32767
  <2>1. val # 0 /\ val \in 0..Len(Program)
    BY <1>1
  <2> QED  BY <2>1, ValueFits
<1>5. ASSUME NEW b \in Buffers, b # act PROVE Complete(b)'
  <2>1. planes'[b] = planes[b] /\ frame'[b] = frame[b]
    BY <1>1, <1>5
  <2> QED  BY <1>1, <1>5, <2>1, FillFrame DEF FillInv
<1>6. HighLoop'
  <2>0. rest' = Program[val]
    BY <1>1
  <2>1. 0 \in Bits /\ rest' \in Nat /\ rest' <= 2 * HighWeight[0]
    BY <2>0, <1>4, HighWeights
  <2>2. Shine("high", planes'[act])[0] = 0 /\ rest' = Value(act)' - 0
    BY <2>0, <1>2, <1>3, <1>4, ShineDark
  <2> QED  BY <1>1, <1>2, <1>3, <2>1, <2>2 DEF HighLoop, Value, Bits
<1> QED  BY <1>1, <1>2, <1>5, <1>6 DEF FillInv, LowLoop

\* What one step of a loop does to the buffer, and that it leaves the others alone.
LEMMA FillOne ==
    ASSUME TripleInv, FillInv, NEW driver \in {"high", "low"}, NEW to, NEW scale,
           FillBit(driver, to, scale),
           NEW w, w = Weight[driver][bit], NEW left, left = IF rest > w THEN rest - w ELSE rest
    PROVE  /\ act \in Buffers /\ act' = act /\ val' = val /\ val # 0
           /\ planes'[act] = IF rest > w THEN planes[act] \cup {<<driver, BitDepth - 1 - bit>>}
                             ELSE planes[act]
           /\ DOMAIN planes' = Buffers /\ Value(act)' = Value(act) /\ frame' = frame
           /\ \A b \in Buffers : b # act => Complete(b)'
           /\ bit = BitDepth - 1 => bit' = 0 /\ rest' = left * scale /\ pc' = to
           /\ bit # BitDepth - 1 => bit' = bit + 1 /\ rest' = left /\ pc' = driver
<1>1. /\ pc = driver /\ act' = act /\ val' = val /\ frame' = frame
      /\ planes' = IF rest > w
                   THEN [planes EXCEPT ![act] = planes[act] \cup {<<driver, BitDepth - 1 - bit>>}]
                   ELSE planes
      /\ bit = BitDepth - 1 => bit' = 0 /\ rest' = left * scale /\ pc' = to
      /\ bit # BitDepth - 1 => bit' = bit + 1 /\ rest' = left /\ pc' = driver
  BY DEF FillBit
<1>2. act \in Buffers /\ DOMAIN planes = Buffers /\ val # 0
  BY <1>1 DEF TripleInv, Indices, FillInv
<1>3. ASSUME NEW b \in Buffers, b # act PROVE Complete(b)'
  <2>1. planes'[b] = planes[b] /\ frame'[b] = frame[b] /\ Complete(b)
    BY <1>1, <1>2, <1>3 DEF FillInv
  <2> QED  BY <2>1, FillFrame
<1>4. Value(act)' = Value(act)
  BY <1>1 DEF Value
<1> QED  BY <1>1, <1>2, <1>3, <1>4

\* The loop over the high driver's weights.
LEMMA FillHighStep ==
    ASSUME LowFollows, TripleInv, FillInv, FillHigh
    PROVE  FillInv'
<1> DEFINE w == Weight["high"][bit]
           left == IF rest > w THEN rest - w ELSE rest
           lit == planes[act]
           more == IF rest > w THEN lit \cup {<<"high", BitDepth - 1 - bit>>} ELSE lit
           v == Value(act)
<1>1. pc = "high" /\ FillBit("high", "low", 65536)
  BY DEF FillHigh, FillBit
<1>2. /\ act \in Buffers /\ act' = act /\ val' = val /\ val # 0
      /\ planes'[act] = more /\ DOMAIN planes' = Buffers /\ Value(act)' = v
      /\ \A b \in Buffers : b # act => Complete(b)'
      /\ bit = BitDepth - 1 => bit' = 0 /\ rest' = left * 65536 /\ pc' = "low"
      /\ bit # BitDepth - 1 => bit' = bit + 1 /\ rest' = left /\ pc' = "high"
  <2>1. /\ w = Weight["high"][bit] /\ left = IF rest > w THEN rest - w ELSE rest
        /\ more = IF rest > w THEN planes[act] \cup {<<"high", BitDepth - 1 - bit>>} ELSE planes[act]
    OBVIOUS
  <2> HIDE DEF w, left, more
  <2> QED  BY <1>1, <2>1, FillOne, SMTT(40)
<1>3. /\ bit \in Bits /\ rest \in Nat /\ rest <= 2 * HighWeight[bit]
      /\ Shine("high", lit)[bit] \in Int /\ rest = v - Shine("high", lit)[bit]
      /\ \A n \in bit + 1..BitDepth : <<"high", BitDepth - n>> \notin lit
      /\ \A n \in 1..BitDepth : <<"low", BitDepth - n>> \notin lit
  BY <1>1 DEF FillInv, HighLoop
<1>4. w = HighWeight[bit] /\ w \in Nat
  BY <1>3, HighWeights DEF Weight
<1>5. v \in Int
  <2>1. frame[act] \in 0..Len(Program)
    BY <1>2 DEF TripleInv, Indices
  <2> QED  BY <2>1, ValueFits DEF Value
<1>6. \A n \in 1..BitDepth : <<"low", BitDepth - n>> \notin more
  BY <1>3
<1>7. /\ left = v - Shine("high", more)[bit + 1] /\ Shine("high", more)[bit + 1] \in Int
      /\ \A n \in bit + 2..BitDepth : <<"high", BitDepth - n>> \notin more
  <2>1. rest \in Int /\ Weight["high"][bit] \in Nat
    BY <1>3, <1>4
  <2>2. /\ more = IF rest > Weight["high"][bit] THEN lit \cup {<<"high", BitDepth - 1 - bit>>} ELSE lit
        /\ left = IF rest > Weight["high"][bit] THEN rest - Weight["high"][bit] ELSE rest
    OBVIOUS
  <2>3. /\ Shine("high", lit)[bit] \in Int /\ bit \in Bits
        /\ \A n \in bit + 1..BitDepth : <<"high", BitDepth - n>> \notin lit
    BY <1>3
  <2> HIDE DEF left, lit, more, v
  <2>4. /\ Shine("high", more)[bit + 1] = Shine("high", lit)[bit] + rest - left
        /\ Shine("high", more)[bit + 1] \in Int
        /\ \A n \in bit + 2..BitDepth : <<"high", BitDepth - n>> \notin more
    BY <2>1, <2>2, <2>3, Greedy
  <2>5. left \in Int
    BY <2>1, <2>2
  <2>6. rest = v - Shine("high", lit)[bit]
    BY <1>3
  <2>7. left = v - Shine("high", more)[bit + 1]
    BY <1>5, <2>1, <2>3, <2>4, <2>5, <2>6
  <2> QED  BY <2>4, <2>7
<1>8. left \in Nat /\ left <= w
  BY <1>3, <1>4
<1> HIDE DEF w, left, lit, more, v
<1>9. bit \in Nat /\ BitDepth \in Nat /\ bit < BitDepth
  BY <1>3, BitDepthAssumption DEF Bits
<1>10. CASE bit = BitDepth - 1
  <2>1. bit' = 0 /\ rest' = left * 65536 /\ pc' = "low" /\ bit + 1 = BitDepth
    BY <1>2, <1>9, <1>10
  <2>2. Over(act)' = left
    BY <1>2, <1>5, <1>7, <2>1 DEF Over
  <2>3. left <= 2^(16 - BitDepth) /\ 2^(16 - BitDepth) \in Nat /\ 0 \in Bits /\ LowWeight[0] \in Nat
    BY <1>4, <1>8, <1>10, HighWeights, LowWeights
  <2>4. rest' \in Nat /\ rest' <= 2 * LowWeight[0] + 0
    BY <1>8, <2>1, <2>3 DEF LowFollows
  <2>5. Shine("low", more)[0] = 0
    BY ShineSays
  <2>6. LowLoop'
    <3>1. left \in 0..2^(16 - BitDepth)
      BY <1>8, <2>3
    <3>2. /\ Shine("low", planes'[act'])[bit'] = 0 /\ rest' = Over(act)' * 65536 - 0
          /\ \A n \in bit' + 1..BitDepth : <<"low", BitDepth - n>> \notin planes'[act']
      BY <1>2, <1>6, <1>8, <2>1, <2>2, <2>5
    <3> QED  BY <1>2, <2>1, <2>2, <2>3, <2>4, <3>1, <3>2 DEF LowLoop, Over, Value, Bits
  <2> QED  BY <1>2, <2>1, <2>6 DEF FillInv, HighLoop
<1>11. CASE bit # BitDepth - 1
  <2>1. bit' = bit + 1 /\ rest' = left /\ pc' = "high" /\ bit + 1 \in Bits /\ (bit + 1) + 1 = bit + 2
    BY <1>2, <1>9, <1>11 DEF Bits
  <2>2. w = 2 * HighWeight[bit + 1]
    BY <1>3, <1>4, <2>1, HighWeights
  <2>3. HighLoop'
    <3>1. /\ rest' = Value(act)' - Shine("high", planes'[act'])[bit']
          /\ Shine("high", planes'[act'])[bit'] \in Int
          /\ \A n \in bit' + 1..BitDepth : <<"high", BitDepth - n>> \notin planes'[act']
          /\ \A n \in 1..BitDepth : <<"low", BitDepth - n>> \notin planes'[act']
      BY <1>2, <1>6, <1>7, <2>1
    <3> QED  BY <1>2, <1>8, <2>1, <2>2, <3>1 DEF HighLoop, Value, Bits
  <2> QED  BY <1>2, <2>1, <2>3 DEF FillInv, LowLoop
<1> QED  BY <1>10, <1>11

\* The loop over the low driver's weights, which completes the buffer.
LEMMA FillLowStep ==
    ASSUME LowFollows, TripleInv, FillInv, FillLow
    PROVE  FillInv'
<1> DEFINE w == Weight["low"][bit]
           left == IF rest > w THEN rest - w ELSE rest
           lit == planes[act]
           more == IF rest > w THEN lit \cup {<<"low", BitDepth - 1 - bit>>} ELSE lit
           v == Over(act) * 65536
<1>1. pc = "low" /\ FillBit("low", "Test", 0)
  BY DEF FillLow, FillBit
<1>2. /\ act \in Buffers /\ act' = act /\ val' = val /\ val # 0
      /\ planes'[act] = more /\ DOMAIN planes' = Buffers /\ Value(act)' = Value(act)
      /\ \A b \in Buffers : b # act => Complete(b)'
      /\ bit = BitDepth - 1 => bit' = 0 /\ rest' = left * 0 /\ pc' = "Test"
      /\ bit # BitDepth - 1 => bit' = bit + 1 /\ rest' = left /\ pc' = "low"
  <2>1. /\ w = Weight["low"][bit] /\ left = IF rest > w THEN rest - w ELSE rest
        /\ more = IF rest > w THEN planes[act] \cup {<<"low", BitDepth - 1 - bit>>} ELSE planes[act]
    OBVIOUS
  <2> HIDE DEF w, left, more
  <2> QED  BY <1>1, <2>1, FillOne
<1>3. /\ bit \in Bits /\ rest \in Nat /\ rest <= 2 * LowWeight[bit] + bit
      /\ Over(act) \in 0..2^(16 - BitDepth)
      /\ Shine("low", lit)[bit] \in Int /\ rest = v - Shine("low", lit)[bit]
      /\ \A n \in bit + 1..BitDepth : <<"low", BitDepth - n>> \notin lit
  BY <1>1 DEF FillInv, LowLoop
<1>4. w = LowWeight[bit] /\ w \in Nat
  BY <1>3, LowWeights DEF Weight
<1>5. Over(act) \in Int /\ v \in Int
  BY <1>3, HighWeights
<1>6. Over(act)' = Over(act)
  <2>1. \A n \in 1..BitDepth : <<"high", BitDepth - n>> \in lit <=> <<"high", BitDepth - n>> \in more
    OBVIOUS
  <2> HIDE DEF lit, more
  <2>2. Shine("high", lit)[BitDepth] = Shine("high", more)[BitDepth]
    BY <2>1, ShineSame
  <2> QED  BY <1>2, <2>2 DEF Over, lit
<1>7. /\ left = v - Shine("low", more)[bit + 1] /\ Shine("low", more)[bit + 1] \in Int
      /\ \A n \in bit + 2..BitDepth : <<"low", BitDepth - n>> \notin more
  <2>1. rest \in Int /\ Weight["low"][bit] \in Nat
    BY <1>3, <1>4
  <2>2. /\ more = IF rest > Weight["low"][bit] THEN lit \cup {<<"low", BitDepth - 1 - bit>>} ELSE lit
        /\ left = IF rest > Weight["low"][bit] THEN rest - Weight["low"][bit] ELSE rest
    OBVIOUS
  <2>3. /\ Shine("low", lit)[bit] \in Int /\ bit \in Bits
        /\ \A n \in bit + 1..BitDepth : <<"low", BitDepth - n>> \notin lit
    BY <1>3
  <2> HIDE DEF left, lit, more, v
  <2>4. /\ Shine("low", more)[bit + 1] = Shine("low", lit)[bit] + rest - left
        /\ Shine("low", more)[bit + 1] \in Int
        /\ \A n \in bit + 2..BitDepth : <<"low", BitDepth - n>> \notin more
    BY <2>1, <2>2, <2>3, Greedy
  <2>5. left \in Int
    BY <2>1, <2>2
  <2>6. rest = v - Shine("low", lit)[bit]
    BY <1>3
  <2>7. left = v - Shine("low", more)[bit + 1]
    BY <1>5, <2>1, <2>3, <2>4, <2>5, <2>6
  <2> QED  BY <2>4, <2>7
<1>8. left \in Nat /\ left <= w + bit
  BY <1>3, <1>4 DEF Bits
<1>9. v = Over(act) * 65536
  OBVIOUS
<1> HIDE DEF w, left, lit, more, v
<1>10. bit \in Nat /\ BitDepth \in Nat /\ bit < BitDepth
  BY <1>3, BitDepthAssumption DEF Bits
<1>11. CASE bit = BitDepth - 1
  <2>1. pc' = "Test" /\ bit + 1 = BitDepth
    BY <1>2, <1>10, <1>11
  <2>2. left <= 2 * LowWeight[BitDepth - 1] /\ LowWeight[BitDepth - 1] \in Nat
    BY <1>3, <1>4, <1>8, <1>10, <1>11, LowWeights
  <2>3. left \in 0..2 * LowWeight[BitDepth - 1]
    BY <1>8, <2>2
  <2>4. Complete(act)'
    BY <1>2, <1>3, <1>6, <1>7, <1>9, <2>1, <2>3 DEF Complete
  <2> QED  BY <1>2, <2>1, <2>4 DEF FillInv, HighLoop, LowLoop
<1>12. CASE bit # BitDepth - 1
  <2>1. bit' = bit + 1 /\ rest' = left /\ pc' = "low" /\ bit + 1 \in Bits /\ (bit + 1) + 1 = bit + 2
    BY <1>2, <1>10, <1>12 DEF Bits
  <2>2. w <= 2 * LowWeight[bit + 1] + 1 /\ LowWeight[bit + 1] \in Nat
    BY <1>3, <1>4, <2>1, LowWeights
  <2>3. rest' <= 2 * LowWeight[bit + 1] + (bit + 1)
    BY <1>4, <1>8, <1>10, <2>1, <2>2
  <2>4. LowLoop'
    <3>1. /\ rest' = Over(act)' * 65536 - Shine("low", planes'[act'])[bit']
          /\ Shine("low", planes'[act'])[bit'] \in Int
          /\ \A n \in bit' + 1..BitDepth : <<"low", BitDepth - n>> \notin planes'[act']
      BY <1>2, <1>6, <1>7, <1>9, <2>1
    <3> QED  BY <1>2, <1>3, <1>6, <1>8, <2>1, <2>3, <3>1 DEF LowLoop, Bits
  <2> QED  BY <1>2, <2>1, <2>4 DEF FillInv, HighLoop
<1> QED  BY <1>11, <1>12

\* Every step keeps the invariant.
LEMMA FillStep ==
    ASSUME LowFollows
    PROVE  TripleInv /\ FillInv /\ [Next]_vars => FillInv'
<1> SUFFICES ASSUME TripleInv, FillInv, [Next]_vars PROVE FillInv'
  OBVIOUS
<1>1. CASE Clear
  BY <1>1, FillClear
<1>2. CASE FillHigh
  BY <1>2, FillHighStep
<1>3. CASE FillLow
  BY <1>3, FillLowStep
<1>4. CASE Wake
  <2>1. /\ pc = "Sleep" /\ pc' = "Clear" /\ planes' = planes /\ frame' = frame /\ val' = NextValue
    BY <1>4 DEF Wake
  <2>2. val' # 0
    <3>1. Len(Program) # 0
      BY ProgramAssumption, EmptySeq
    <3> QED  BY <2>1, <3>1, ProgramLength DEF NextValue, TripleInv, Indices
  <2> QED  BY <2>1, <2>2, FillFrame DEF FillInv, HighLoop, LowLoop
<1>5. CASE Test \/ SetWriter \/ SetReady \/ SetUpdate
  <2>1. /\ pc \in {"Test", "SetWriter", "SetReady", "SetUpdate"} /\ pc' \notin {"high", "low"}
        /\ planes' = planes /\ frame' = frame /\ val' = val
    BY <1>5 DEF Test, SetWriter, SetReady, SetUpdate
  <2> QED  BY <2>1, FillFrame DEF FillInv, HighLoop, LowLoop
<1>6. CASE Interrupt \/ UNCHANGED vars
  <2>1. /\ pc' = pc /\ planes' = planes /\ frame' = frame /\ val' = val /\ act' = act /\ bit' = bit
        /\ rest' = rest
    BY <1>6 DEF Interrupt, Blank, Unblank, vars
  <2> QED  BY <2>1 DEF FillInv, HighLoop, LowLoop, Complete, Over, Value
<1> QED  BY <1>1, <1>2, <1>3, <1>4, <1>5, <1>6 DEF Next, Thread

\* The planes of the buffer being sent add up to the value it was filled with, to within
\* twice the low driver's finest plane, for any values, any depth and any range the low
\* driver's planes take up where the high driver's end (high_current_modulation.c:112-138).
THEOREM ShownCorrect ==
    ASSUME LowFollows
    PROVE  Spec => []ShownIsValue
<1>1. TripleInv /\ FillInv => ShownIsValue
  <2> SUFFICES ASSUME TripleInv, FillInv PROVE ShownIsValue
    OBVIOUS
  <2>1. reader \in Buffers /\ (pc \in {"high", "low"} => act = writer) /\ reader # writer
    BY DEF TripleInv, Indices, ActOwned, Apart
  <2>2. Complete(reader)
    BY <2>1 DEF FillInv
  <2> QED  BY <2>2 DEF Complete, Over, Value, ShownIsValue
<1>2. TripleInv /\ FillInv /\ [Next]_vars => FillInv'
  BY FillStep
<1> QED  BY <1>1, <1>2, FillInit, TripleCorrect, PTL DEF Spec

=============================================================================
