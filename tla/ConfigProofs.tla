---------------------------- MODULE ConfigProofs ----------------------------
(***************************************************************************)
(* The configuration page of ConfigFlash, for a page of any length, any    *)
(* configurations and any number of power losses: the last configuration   *)
(* written is read back whole, at most one structure is valid, the cache   *)
(* agrees with the lookup, and only erased flash is written.  The key of   *)
(* the invariant is that nothing below a valid structure is empty, so that *)
(* the lookup, which gives up when the first structure is empty, misses    *)
(* none.                                                                   *)
(***************************************************************************)
EXTENDS ConfigFlash, FiniteSetTheorems, WellFoundedInduction, TLAPS

Statuses == {"EMPTY", "VALID", "INVALID"}
Slot     == [status : Statuses, fields : [Fields -> Configs \cup {Erased}]]

\* An empty structure has been erased as a whole.
EmptyIsErased == \A s \in Slots : page[s].status = "EMPTY" => page[s] = EmptySlot

\* Nothing below a valid structure is empty.
NoGap == ~cutShort =>
    \A s \in Slots : page[s].status = "VALID" => \A t \in 1..(s - 1) : page[t].status # "EMPTY"

\* An update has invalidated the old structure before it looks for an empty one.
NoneValid == pc \in {"find", "erase", "status"} /\ ~cutShort =>
    \A s \in Slots : page[s].status # "VALID"

\* The structure chosen for the status, for the fields, and the finished one.
Chosen == pc = "status" =>
    /\ empty \in Slots /\ page[empty] = EmptySlot
    /\ \A t \in 1..(empty - 1) : page[t].status # "EMPTY"
Begun == pc = "fields" =>
    /\ empty \in Slots /\ page[empty].status = "VALID"
    /\ \A f \in Fields : page[empty].fields[f] = IF f < field THEN cfg ELSE Erased
Written == pc = "done" => empty \in Slots /\ page[empty] = Whole(cfg)
Argument == pc \in {"find", "invalidate", "erase", "status", "fields", "done"} => cfg \in Configs

\* The cached structure is valid where it is used.
Cached ==
    /\ pc \in {"idle", "invalidate"} /\ config_cur # NULL /\ ~cutShort =>
        page[config_cur].status = "VALID"
    /\ pc = "invalidate" => config_cur # NULL

\* The last configuration written is somewhere in the page.
Stored == pc = "idle" /\ stored # Erased /\ ~cutShort =>
    \E s \in Slots : page[s] = Whole(stored)

Single == ~cutShort =>
    \A s, t \in Slots : page[s].status = "VALID" /\ page[t].status = "VALID" => s = t

PageInv ==
    /\ EmptyIsErased /\ NoGap /\ NoneValid /\ Single
    /\ Chosen /\ Begun /\ Written /\ Argument /\ Cached /\ Stored

-----------------------------------------------------------------------------
\* First finds the least element of a set of positions.  A set of positions is finite,
\* so of the sets {t \in S : t <= x} one is minimal for inclusion.
LEMMA FirstIsLeast ==
    ASSUME NEW S \in SUBSET Slots, S # {}
    PROVE  First(S) \in S /\ \A t \in S : First(S) <= t
<1> DEFINE Upto(x) == {t \in S : t <= x}
           T == {Upto(x) : x \in S}
<1>1. IsFiniteSet(S)
  <2>1. S \in SUBSET Nat /\ PDBS_CONFIG_ARRAY_LEN \in Nat /\ \A s \in S : s <= PDBS_CONFIG_ARRAY_LEN
    BY LenAssumption DEF Slots
  <2> QED  BY <2>1, FS_BoundedSetOfNaturals
<1>2. T \subseteq FiniteSubsetsOf(S) /\ T # {}
  <2>1. FiniteSubsetsOf(S) = SUBSET S
    BY <1>1, FS_FiniteSubsetsOfFinite
  <2>2. \A x \in S : Upto(x) \in SUBSET S
    OBVIOUS
  <2>3. PICK x \in S : TRUE
    OBVIOUS
  <2>4. Upto(x) \in T
    OBVIOUS
  <2> HIDE DEF Upto
  <2> QED  BY <2>1, <2>2, <2>4
<1> HIDE DEF T
<1>3. PICK m \in T : \A n \in T : ~(<<n, m>> \in StrictSubsetOrdering(S))
  BY <1>2, FS_StrictSubsetOrderingWellFounded, WFMin, Zenon
<1>4. PICK x \in S : m = Upto(x)
  BY <1>3 DEF T
<1>5. ASSUME NEW t \in S, t < x PROVE FALSE
  <2> S \subseteq Nat
    BY LenAssumption DEF Slots
  <2>1. Upto(t) \subseteq m /\ x \in m /\ x \notin Upto(t)
    <3>1. \A u \in S : u <= t => u <= x
      BY <1>5
    <3>2. x <= x /\ ~(x <= t)
      BY <1>5
    <3> QED  BY <1>4, <3>1, <3>2
  <2>2. Upto(t) \in T /\ Upto(t) \subseteq S /\ m \subseteq S
    BY <1>4 DEF T
  <2>3. <<Upto(t), m>> \in StrictSubsetOrdering(S)
    BY <2>1, <2>2 DEF StrictSubsetOrdering
  <2> QED  BY <1>3, <2>2, <2>3
<1>6. \A t \in S : x <= t
  BY <1>5, LenAssumption DEF Slots
<1> QED  BY <1>6 DEF First

\* The lookup finds the one valid structure, and NULL only if there is none.
LEMMA LookupFinds ==
    ASSUME TypeOK, NoGap, Single, ~cutShort
    PROVE  /\ \A s \in Slots : page[s].status = "VALID" => Lookup = s
           /\ Lookup # NULL => Lookup \in Slots /\ page[Lookup].status = "VALID"
<1>1. ASSUME NEW s \in Slots, page[s].status = "VALID" PROVE Lookup = s
  <2>1. page[1].status # "EMPTY"
    <3>1. CASE s = 1  BY <1>1, <3>1
    <3>2. CASE s # 1  BY <1>1, <3>2, LenAssumption DEF NoGap, Slots
    <3> QED  BY <3>1, <3>2
  <2>2. With("VALID") = {s}
    BY <1>1 DEF With, Single
  <2>3. First(With("VALID")) = s
    BY <2>2, FirstIsLeast
  <2> QED  BY <2>1, <2>2, <2>3 DEF Lookup
<1>2. ASSUME Lookup # NULL PROVE Lookup \in Slots /\ page[Lookup].status = "VALID"
  <2>1. With("VALID") # {} /\ With("VALID") \subseteq Slots /\ Lookup = First(With("VALID"))
    BY <1>2 DEF Lookup, With
  <2>2. Lookup \in With("VALID")
    BY <2>1, FirstIsLeast
  <2> QED  BY <2>2 DEF With
<1> QED  BY <1>1, <1>2

\* Whatever the invariant says, the lookup returns a position or NULL.
LEMMA LookupType == Lookup \in Slots \cup {NULL}
<1>1. CASE page[1].status = "EMPTY" \/ With("VALID") = {}
  BY <1>1 DEF Lookup
<1>2. CASE ~(page[1].status = "EMPTY" \/ With("VALID") = {})
  <2>1. With("VALID") \in SUBSET Slots /\ With("VALID") # {} /\ Lookup = First(With("VALID"))
    BY <1>2 DEF Lookup, With
  <2> QED  BY <2>1, FirstIsLeast
<1> QED  BY <1>1, <1>2

-----------------------------------------------------------------------------
\* What every step does to one structure keeps the page a page.
LEMMA ErasedIsSlot == EmptySlot \in Slot
BY DEF EmptySlot, Slot, Statuses

\* The first states are typed.
LEMMA TypeInit == Init => TypeOK
<1> SUFFICES ASSUME Init PROVE TypeOK
  OBVIOUS
<1>1. page \in [Slots -> Slot]
  BY ErasedIsSlot DEF Init
<1>2. lossesLeft \in 0..MaxLosses /\ field \in Fields
  BY LossesAssumption DEF Init, Fields
<1> QED  BY <1>1, <1>2 DEF Init, TypeOK, Slot, Statuses

\* Every step keeps the types.
LEMMA TypeStep == TypeOK /\ [Next]_vars => TypeOK'
<1> SUFFICES ASSUME TypeOK, [Next]_vars PROVE TypeOK'
  OBVIOUS
<1> USE DEF TypeOK
<1>1. Current \in Slots \cup {NULL}
  BY LookupType DEF Current
<1>2. CASE Read
  BY <1>1, <1>2 DEF Read
<1>3. ASSUME NEW c \in Configs, UpdateBegins(c) PROVE TypeOK'
  BY <1>1, <1>3 DEF UpdateBegins
<1>4. CASE Invalidate
  BY <1>4 DEF Invalidate
<1>5. CASE Find
  <2>1. With("EMPTY") \in SUBSET Slots
    BY DEF With
  <2>2. With("EMPTY") # {} => First(With("EMPTY")) \in Slots
    BY <2>1, FirstIsLeast
  <2> QED  BY <1>5, <2>2 DEF Find
<1>6. CASE EraseFullPage
  <2>1. page' \in [Slots -> Slot] /\ empty' \in Slots
    BY <1>6, ErasedIsSlot, LenAssumption DEF EraseFullPage, Slots
  <2> QED  BY <1>6, <2>1 DEF EraseFullPage, Slot, Statuses
<1>7. CASE WriteStatus
  <2>1. page' \in [Slots -> Slot]
    BY <1>7 DEF WriteStatus, Slot, Statuses
  <2>2. field' \in Fields
    BY <1>7 DEF WriteStatus, Fields
  <2> QED  BY <1>7, <2>1, <2>2 DEF WriteStatus, Slot, Statuses
<1>8. CASE WriteField
  <2>1. page' \in [Slots -> Slot]
    <3>1. CASE page' = page
      BY <3>1 DEF Slot, Statuses
    <3>2. CASE page' = [page EXCEPT ![empty].fields[field] = cfg]
      BY <3>2 DEF Slot, Statuses
    <3> QED  BY <1>8, <3>1, <3>2 DEF WriteField
  <2>2. field' \in Fields /\ pc' \in {"fields", "done"}
    BY <1>8 DEF WriteField, Fields, LastField
  <2> QED  BY <1>8, <2>1, <2>2 DEF WriteField, Slot, Statuses
<1>9. CASE UpdateEnds
  BY <1>9 DEF UpdateEnds
<1>10. CASE EraseBegins
  BY <1>10 DEF EraseBegins
<1>11. CASE EraseEnds
  BY <1>11, ErasedIsSlot DEF EraseEnds, Slot, Statuses
<1>12. CASE PowerFails
  <2>1. page' \in [Slots -> Slot]
    <3>1. CASE UNCHANGED page
      BY <3>1 DEF Slot, Statuses
    <3>2. ASSUME NEW S \in SUBSET Slots,
                 page' = [s \in Slots |-> IF s \in S THEN EmptySlot ELSE page[s]]
          PROVE  page' \in [Slots -> Slot]
      <4>1. page \in [Slots -> Slot]
        BY DEF Slot, Statuses
      <4> HIDE DEF TypeOK
      <4> QED  BY <3>2, <4>1, ErasedIsSlot
    <3> QED  BY <1>12, <3>1, <3>2 DEF PowerFails
  <2>2. lossesLeft' \in 0..MaxLosses
    <3>1. lossesLeft > 0 /\ lossesLeft' = lossesLeft - 1 /\ lossesLeft \in 0..MaxLosses
      BY <1>12 DEF PowerFails
    <3> HIDE DEF TypeOK
    <3> QED  BY <3>1, LossesAssumption
  <2>3. cutShort' \in BOOLEAN /\ stored' \in Configs \cup {Erased}
    BY <1>12 DEF PowerFails
  <2>4. field' \in Fields
    <3>1. field' = 1
      BY <1>12 DEF PowerFails
    <3>2. 1 \in Fields
      <4> HIDE DEF TypeOK
      <4> QED  BY DEF Fields
    <3> QED  BY <3>1, <3>2
  <2> QED  BY <1>12, <2>1, <2>2, <2>3, <2>4 DEF PowerFails, Slot, Statuses
<1>13. CASE UNCHANGED vars
  BY <1>13 DEF vars
<1> QED  BY <1>2, <1>3, <1>4, <1>5, <1>6, <1>7, <1>8, <1>9, <1>10, <1>11, <1>12, <1>13 DEF Next

\* Type correctness of the page, the cache and the update's locals.
THEOREM PageTypeCorrect == Spec => []TypeOK
BY TypeInit, TypeStep, PTL DEF Spec

-----------------------------------------------------------------------------
\* The erased page of the first start.
LEMMA PageInit == Init => PageInv
<1> SUFFICES ASSUME Init PROVE PageInv
  OBVIOUS
<1>1. \A s \in Slots : page[s] = EmptySlot /\ page[s].status = "EMPTY"
  BY DEF Init, EmptySlot
<1> QED  BY <1>1 DEF Init, PageInv, EmptyIsErased, NoGap, NoneValid, Single, Chosen, Begun, Written,
               Argument, Cached, Stored

\* Steps that leave the page and every location alone.
LEMMA PageReads == TypeOK /\ PageInv /\ (Read \/ \E c \in Configs : UpdateBegins(c)) => PageInv'
<1> SUFFICES ASSUME TypeOK, PageInv, Read \/ \E c \in Configs : UpdateBegins(c) PROVE PageInv'
  OBVIOUS
<1>1. ~cutShort => /\ Current # NULL => page[Current].status = "VALID"
                   /\ Current = NULL => \A s \in Slots : page[s].status # "VALID"
  <2>1. CASE config_cur # NULL /\ pc = "idle"
    BY <2>1 DEF Current, PageInv, Cached
  <2>2. CASE config_cur = NULL
    BY <2>2, LookupFinds DEF Current, PageInv, NULL, Slots
  <2> QED  BY <2>1, <2>2 DEF Read, UpdateBegins
<1>2. CASE Read
  BY <1>1, <1>2 DEF Read, PageInv, EmptyIsErased, NoGap, NoneValid, Single, Chosen, Begun, Written,
                    Argument, Cached, Stored, EmptySlot
<1>3. ASSUME NEW c \in Configs, UpdateBegins(c) PROVE PageInv'
  BY <1>1, <1>3 DEF UpdateBegins, PageInv, EmptyIsErased, NoGap, NoneValid, Single, Chosen, Begun,
                    Written, Argument, Cached, Stored, EmptySlot
<1> QED  BY <1>2, <1>3

\* The old structure becomes invalid: with it the last valid one is gone.
LEMMA PageInvalidate == TypeOK /\ PageInv /\ Invalidate => PageInv'
<1> SUFFICES ASSUME TypeOK, PageInv, Invalidate PROVE PageInv'
  OBVIOUS
<1>1. config_cur \in Slots
  BY DEF Invalidate, PageInv, Cached, TypeOK
<1>2. page \in [Slots -> Slot]
  BY DEF TypeOK, Slot, Statuses
<1>3. \A s \in Slots : s # config_cur => page'[s] = page[s]
  BY <1>2 DEF Invalidate
<1>4. page'[config_cur].status = "INVALID"
  BY <1>1, <1>2 DEF Invalidate, Slot
<1>5. EmptyIsErased'
  BY <1>3, <1>4 DEF EmptyIsErased, PageInv, EmptySlot
<1>6. ~cutShort => \A s \in Slots : page'[s].status # "VALID"
  BY <1>1, <1>3, <1>4 DEF Invalidate, PageInv, Single, Cached
<1> QED
  BY <1>5, <1>6 DEF Invalidate, PageInv, NoGap, NoneValid, Single, Chosen, Begun, Written, Argument,
                    Cached, Stored

\* The search leaves the page alone and finds the lowest empty structure.
LEMMA PageFind == TypeOK /\ PageInv /\ Find => PageInv'
<1> SUFFICES ASSUME TypeOK, PageInv, Find PROVE PageInv'
  OBVIOUS
<1>1. /\ EmptyIsErased' /\ NoGap' /\ NoneValid' /\ Single'
      /\ Begun' /\ Written' /\ Argument' /\ Cached' /\ Stored'
  BY DEF Find, PageInv, EmptyIsErased, EmptySlot, NoGap, NoneValid, Single, Begun, Written, Argument,
         Cached, Stored
<1>2. Chosen'
  <2>1. CASE With("EMPTY") # {}
    <3>1. With("EMPTY") \in SUBSET Slots
      BY DEF With
    <3>2. empty' \in With("EMPTY") /\ \A t \in With("EMPTY") : empty' <= t
      BY <2>1, <3>1, FirstIsLeast DEF Find
    <3>3. page[empty'] = EmptySlot
      BY <3>2 DEF With, PageInv, EmptyIsErased
    <3>4. ASSUME NEW t \in 1..(empty' - 1) PROVE page[t].status # "EMPTY"
      <4>1. t \in Slots /\ ~(empty' <= t)
        BY <3>1, <3>2, LenAssumption DEF Slots
      <4> QED  BY <3>2, <4>1 DEF With
    <3> QED  BY <3>1, <3>2, <3>3, <3>4 DEF Chosen, Find, EmptySlot
  <2>2. CASE With("EMPTY") = {}
    BY <2>2 DEF Find, Chosen
  <2> QED  BY <2>1, <2>2
<1> QED  BY <1>1, <1>2 DEF PageInv

\* The erased page.
LEMMA PageErase == TypeOK /\ PageInv /\ (EraseFullPage \/ EraseEnds) => PageInv'
<1> SUFFICES ASSUME TypeOK, PageInv, EraseFullPage \/ EraseEnds PROVE PageInv'
  OBVIOUS
<1>1. \A s \in Slots : page'[s] = EmptySlot /\ page'[s].status = "EMPTY"
  <2>1. page' = [s \in Slots |-> EmptySlot] /\ EmptySlot.status = "EMPTY"
    BY DEF EraseFullPage, EraseEnds, EmptySlot
  <2> QED  BY <2>1
<1>2. EmptyIsErased' /\ NoGap' /\ NoneValid' /\ Single'
  BY <1>1 DEF EmptyIsErased, NoGap, NoneValid, Single, EmptySlot
<1>3. CASE EraseFullPage
  <2>1. empty' = 1 /\ empty' \in Slots
    BY <1>3, LenAssumption DEF EraseFullPage, Slots
  <2>2. Chosen'
    BY <1>1, <2>1 DEF Chosen, EmptySlot
  <2> QED
    BY <1>2, <1>3, <2>2 DEF EraseFullPage, PageInv, Begun, Written, Argument, Cached, Stored
<1>4. CASE EraseEnds
  BY <1>2, <1>4 DEF EraseEnds, PageInv, Chosen, Begun, Written, Argument, Cached, Stored
<1> QED  BY <1>3, <1>4

\* The chosen structure becomes valid: it is the only one, and nothing below it is empty.
LEMMA PageStatus == TypeOK /\ PageInv /\ WriteStatus => PageInv'
<1> SUFFICES ASSUME TypeOK, PageInv, WriteStatus PROVE PageInv'
  OBVIOUS
<1>1. empty \in Slots /\ page[empty] = EmptySlot /\ page[empty].status = "EMPTY"
  BY DEF WriteStatus, PageInv, Chosen, EmptySlot
<1>2. page \in [Slots -> Slot]
  BY DEF TypeOK, Slot, Statuses
<1>3. \A s \in Slots : s # empty => page'[s] = page[s]
  BY <1>2 DEF WriteStatus
<1>4. page'[empty].status = "VALID" /\ page'[empty].fields = page[empty].fields
  BY <1>1, <1>2 DEF WriteStatus, Slot
<1>5. EmptyIsErased'
  BY <1>3, <1>4 DEF EmptyIsErased, PageInv, EmptySlot
<1>6. ~cutShort' => \A s \in Slots : page'[s].status = "VALID" => s = empty
  BY <1>3 DEF WriteStatus, PageInv, NoneValid
<1>7. NoGap'
  <2>1. \A t \in 1..(empty - 1) : t \in Slots /\ t # empty /\ page[t].status # "EMPTY"
    BY <1>1, LenAssumption DEF WriteStatus, PageInv, Chosen, Slots
  <2> QED  BY <1>3, <1>6, <2>1 DEF NoGap
<1>8. Single'
  BY <1>6 DEF Single
<1>9. Begun'
  <2>1. \A f \in Fields : page'[empty].fields[f] = Erased /\ ~(f < 1)
    BY <1>1, <1>4 DEF EmptySlot, Fields
  <2> QED  BY <1>1, <1>4, <2>1 DEF WriteStatus, Begun
<1> QED
  BY <1>5, <1>7, <1>8, <1>9 DEF WriteStatus, PageInv, NoneValid, Chosen, Written, Argument, Cached,
                                Stored

\* One more field; after the last the structure is whole.
LEMMA PageField == TypeOK /\ PageInv /\ WriteField => PageInv'
<1> SUFFICES ASSUME TypeOK, PageInv, WriteField PROVE PageInv'
  OBVIOUS
<1>1. /\ empty \in Slots /\ page[empty].status = "VALID" /\ field \in Fields
      /\ \A f \in Fields : page[empty].fields[f] = IF f < field THEN cfg ELSE Erased
  BY DEF WriteField, PageInv, Begun, TypeOK
<1>2. page \in [Slots -> Slot]
  BY DEF TypeOK, Slot, Statuses
<1>3. page' = [page EXCEPT ![empty].fields[field] = cfg]
  <2>1. page[empty].fields[field] = Erased
    BY <1>1 DEF Fields
  <2> QED  BY <2>1 DEF WriteField
<1>4. \A s \in Slots : s # empty => page'[s] = page[s]
  BY <1>2, <1>3
<1>5. page'[empty].status = "VALID" /\ page'[empty].fields = [page[empty].fields EXCEPT ![field] = cfg]
  BY <1>1, <1>2, <1>3 DEF Slot
<1>6. page'[empty] \in Slot
  BY <1>1, TypeStep DEF Next, TypeOK, Slot, Statuses
<1>7. \A s \in Slots : page'[s].status = page[s].status
  BY <1>1, <1>4, <1>5
<1>8. EmptyIsErased' /\ NoGap' /\ NoneValid' /\ Single'
  <2>1. EmptyIsErased'
    BY <1>1, <1>4, <1>7 DEF EmptyIsErased, PageInv, EmptySlot
  <2>2. NoGap'
    <3>1. \A s \in Slots : \A t \in 1..(s - 1) : t \in Slots
      BY LenAssumption DEF Slots
    <3> QED  BY <1>7, <3>1 DEF NoGap, PageInv, WriteField
  <2> QED  BY <1>7, <2>1, <2>2 DEF NoneValid, Single, PageInv, WriteField
<1>9. \A f \in Fields : page'[empty].fields[f] = IF f <= field THEN cfg ELSE Erased
  <2>1. \A f \in Fields : f # field => page'[empty].fields[f] = page[empty].fields[f]
    BY <1>1, <1>2, <1>5 DEF Slot
  <2>2. page'[empty].fields[field] = cfg
    BY <1>1, <1>2, <1>5 DEF Slot
  <2>3. \A f \in Fields : (f <= field <=> f < field \/ f = field)
    BY <1>1 DEF Fields
  <2> QED  BY <1>1, <2>1, <2>2, <2>3
<1>10. CASE field = LastField
  <2>1. \A f \in Fields : page'[empty].fields[f] = cfg
    BY <1>9, <1>10 DEF LastField, Fields
  <2>2. page'[empty] = Whole(cfg)
    BY <1>5, <1>6, <2>1 DEF Whole, Slot
  <2> QED
    BY <1>1, <1>8, <1>10, <2>2 DEF WriteField, PageInv, Chosen, Begun, Written, Argument, Cached, Stored
<1>11. CASE field # LastField
  <2>1. field' = field + 1 /\ \A f \in Fields : (f < field + 1 <=> f <= field)
    BY <1>1, <1>11 DEF WriteField, Fields
  <2>2. Begun'
    BY <1>1, <1>5, <1>9, <2>1 DEF WriteField, Begun
  <2> QED
    BY <1>8, <1>11, <2>2 DEF WriteField, PageInv, Chosen, Written, Argument, Cached, Stored
<1> QED  BY <1>10, <1>11

\* The update ends with a whole structure in the page.
LEMMA PageEnds == TypeOK /\ PageInv /\ (UpdateEnds \/ EraseBegins) => PageInv'
<1> SUFFICES ASSUME TypeOK, PageInv, UpdateEnds \/ EraseBegins PROVE PageInv'
  OBVIOUS
<1>1. EmptyIsErased' /\ NoGap' /\ NoneValid' /\ Single'
  BY DEF UpdateEnds, EraseBegins, PageInv, EmptyIsErased, EmptySlot, NoGap, NoneValid, Single
<1>2. CASE UpdateEnds
  <2>1. empty \in Slots /\ page[empty] = Whole(cfg) /\ page[empty].status = "VALID"
    BY <1>2 DEF UpdateEnds, PageInv, Written, Whole
  <2>2. Stored' /\ Cached'
    BY <1>2, <2>1 DEF UpdateEnds, Stored, Cached, Whole
  <2> QED  BY <1>1, <1>2, <2>2 DEF UpdateEnds, PageInv, Chosen, Begun, Written, Argument
<1>3. CASE EraseBegins
  BY <1>1, <1>3 DEF EraseBegins, PageInv, Chosen, Begun, Written, Argument, Cached, Stored
<1> QED  BY <1>2, <1>3

\* A loss of power keeps the page, or erases some structures of a page without a valid one.
LEMMA PagePower == TypeOK /\ PageInv /\ PowerFails => PageInv'
<1> SUFFICES ASSUME TypeOK, PageInv, PowerFails PROVE PageInv'
  OBVIOUS
<1>1. pc' = "idle" /\ config_cur' = NULL /\ (pc # "idle" => stored' = Erased) /\ (pc = "idle" => stored' = stored)
  BY DEF PowerFails
<1>2. Chosen' /\ Begun' /\ Written' /\ Argument' /\ Cached' /\ NoneValid'
  BY <1>1 DEF Chosen, Begun, Written, Argument, Cached, NoneValid
<1>3. CASE pc \in {"erase", "erase only"}
  <2>1. PICK S \in SUBSET Slots : page' = [s \in Slots |-> IF s \in S THEN EmptySlot ELSE page[s]]
    BY <1>3 DEF PowerFails
  <2>2. \A s \in Slots : page'[s] = EmptySlot \/ page'[s] = page[s]
    BY <2>1
  <2>3. EmptySlot.status = "EMPTY"
    BY DEF EmptySlot
  <2>4. EmptyIsErased'
    BY <2>2, <2>3 DEF EmptyIsErased, PageInv, EmptySlot
  <2>5. ~cutShort' => \A s \in Slots : page'[s].status # "VALID"
    <3>1. ~cutShort' => pc = "erase" /\ ~cutShort
      BY <1>3 DEF PowerFails
    <3> QED  BY <2>2, <2>3, <3>1 DEF PageInv, NoneValid
  <2> QED  BY <1>1, <1>2, <1>3, <2>4, <2>5 DEF PageInv, NoGap, Single, Stored
<1>4. CASE pc \notin {"erase", "erase only"}
  <2>1. page' = page /\ cutShort' = cutShort
    BY <1>4 DEF PowerFails
  <2> QED
    BY <1>1, <1>2, <2>1 DEF PageInv, EmptyIsErased, EmptySlot, NoGap, Single, Stored
<1> QED  BY <1>3, <1>4

\* So it always holds, with the types.
LEMMA PageCorrect == Spec => [](TypeOK /\ PageInv)
<1>1. TypeOK /\ PageInv /\ [Next]_vars => PageInv'
  <2> SUFFICES ASSUME TypeOK, PageInv, UNCHANGED vars PROVE PageInv'
    BY PageReads, PageInvalidate, PageFind, PageErase, PageStatus, PageField, PageEnds, PagePower DEF Next
  <2> QED
    BY DEF vars, PageInv, EmptyIsErased, EmptySlot, NoGap, NoneValid, Single, Chosen, Begun, Written,
           Argument, Cached, Stored
<1> QED  BY <1>1, TypeInit, TypeStep, PageInit, PTL DEF Spec

-----------------------------------------------------------------------------
\* At most one structure is valid, wherever in an update the power failed, as long as no
\* pdbs_config_flash_erase was cut short since the last complete erasure (config.c:206-210).
THEOREM OneValidCorrect == Spec => []OneValid
<1>1. PageInv => OneValid
  BY DEF PageInv, Single, OneValid, With
<1> QED  BY <1>1, PageCorrect, PTL

\* Between two calls the cached location is the one a lookup would find, as long as no
\* pdbs_config_flash_erase was cut short (config.c:247-250).
THEOREM CacheCorrect == Spec => []CacheIsFresh
<1>1. TypeOK /\ PageInv => CacheIsFresh
  BY LookupFinds DEF PageInv, Cached, CacheIsFresh, TypeOK
<1> QED  BY <1>1, PageCorrect, PTL

\* A structure is written only where all of it is erased (config.c:213-226).
THEOREM ErasedCorrect == Spec => []WritesErased
<1>1. PageInv => WritesErased
  BY DEF PageInv, Chosen, WritesErased
<1> QED  BY <1>1, PageCorrect, PTL

\* Between two calls the last configuration written is read back whole
\* (config.c:193-271), for a page of any length and any number of power losses, as long as
\* none cut a pdbs_config_flash_erase short.
THEOREM ReadsCorrect == Spec => []ReadsLastWritten
<1>1. TypeOK /\ PageInv => ReadsLastWritten
  <2> SUFFICES ASSUME TypeOK, PageInv, pc = "idle", stored # Erased, ~cutShort
               PROVE  Current # NULL /\ page[Current] = Whole(stored)
    BY DEF ReadsLastWritten
  <2>1. PICK s \in Slots : page[s] = Whole(stored)
    BY DEF PageInv, Stored
  <2>2. page[s].status = "VALID" /\ s # NULL
    BY <2>1, LenAssumption DEF Whole, Slots, NULL
  <2>3. CASE config_cur = NULL
    BY <2>1, <2>2, <2>3, LookupFinds DEF Current, PageInv
  <2>4. CASE config_cur # NULL
    BY <2>1, <2>2, <2>4 DEF Current, PageInv, Cached, Single, TypeOK
  <2> QED  BY <2>3, <2>4
<1> QED  BY <1>1, PageCorrect, PTL

-----------------------------------------------------------------------------
(***************************************************************************)
(* The page implements the register of DurableRegister.  Where no erasure  *)
(* was cut short, the cache and the lookup agree, and while a function     *)
(* runs the lookup finds the old structure, none, or the one being         *)
(* written.                                                                *)
(***************************************************************************)
LookupFact ==
    /\ \A s \in Slots : page[s].status = "VALID" => Lookup = s
    /\ (\A s \in Slots : page[s].status # "VALID") => Lookup = NULL
    /\ pc = "idle" => Current = Lookup

\* What the lookup finds where the invariant holds.
LEMMA LookupKnown == TypeOK /\ PageInv /\ ~cutShort => LookupFact
<1> SUFFICES ASSUME TypeOK, PageInv, ~cutShort PROVE LookupFact
  OBVIOUS
<1>1. NoGap /\ Single /\ Cached
  BY DEF PageInv
<1>2. /\ \A s \in Slots : page[s].status = "VALID" => Lookup = s
      /\ Lookup # NULL => Lookup \in Slots /\ page[Lookup].status = "VALID"
  BY <1>1, LookupFinds
<1>3. pc = "idle" => Current = Lookup
  BY <1>1, <1>2 DEF Current, Cached, TypeOK
<1> QED  BY <1>2, <1>3 DEF LookupFact

\* And after a step.
LEMMA LookupKnownNext == TypeOK' /\ PageInv' /\ ~cutShort' => LookupFact'
BY LookupKnown, PTL

\* A structure with an erased field is no configuration, a written one is its own.
LEMMA ReadingOf ==
    ASSUME NEW s \in Slots
    PROVE  /\ \A c \in Configs : page[s] = Whole(c) => Reading(s) = c
           /\ (\E f \in Fields : page[s].fields[f] = Erased) => Reading(s) = "torn"
<1>1. s # NULL
  BY LenAssumption DEF Slots, NULL
<1>2. ASSUME NEW c \in Configs, page[s] = Whole(c) PROVE Reading(s) = c
  <2>1. page[s].fields = [f \in Fields |-> c] /\ 1 \in Fields
    BY <1>2 DEF Whole, Fields
  <2> QED  BY <1>1, <1>2, <2>1 DEF Reading
<1>3. ASSUME NEW f \in Fields, page[s].fields[f] = Erased PROVE Reading(s) = "torn"
  <2>1. \A c \in Configs : page[s] # Whole(c)
    BY <1>3, ErasedAssumption DEF Whole
  <2> QED  BY <1>1, <2>1 DEF Reading
<1> QED  BY <1>2, <1>3

\* The names the substitution gives the two variables of the register.
Value   == IF cutShort THEN "unknown" ELSE Reading(IF pc = "idle" THEN Current ELSE Lookup)
Pending == IF pc = "idle" THEN "none" ELSE IF pc = "erase only" THEN "erasure" ELSE cfg

\* What the register reads, by the place of the function that runs.
ValueFact ==
    /\ cutShort => Value = "unknown"
    /\ ~cutShort => Value = Reading(Lookup)
    /\ ~cutShort /\ (\A s \in Slots : page[s].status # "VALID") => Value = Erased
    /\ ~cutShort /\ pc = "fields" => Value = "torn"
    /\ ~cutShort /\ pc = "done" => Value = cfg /\ Lookup = empty

\* It follows from the invariant.
LEMMA ValueKnown == TypeOK /\ PageInv => ValueFact
<1> SUFFICES ASSUME TypeOK, PageInv PROVE ValueFact
  OBVIOUS
<1>1. CASE cutShort
  BY <1>1 DEF ValueFact, Value
<1>2. CASE ~cutShort
  <2>1. LookupFact
    BY <1>2, LookupKnown
  <2>2. Value = Reading(Lookup)
    BY <1>2, <2>1 DEF Value, LookupFact
  <2>3. (\A s \in Slots : page[s].status # "VALID") => Value = Erased
    BY <2>1, <2>2 DEF LookupFact, Reading
  <2>4. ASSUME pc = "fields" PROVE Value = "torn"
    <3>1. empty \in Slots /\ page[empty].status = "VALID" /\ page[empty].fields[field] = Erased
          /\ field \in Fields
      BY <2>4 DEF PageInv, Begun, TypeOK, Fields
    <3>2. Lookup = empty
      BY <2>1, <3>1 DEF LookupFact
    <3> QED  BY <2>2, <3>1, <3>2, ReadingOf
  <2>5. ASSUME pc = "done" PROVE Value = cfg /\ Lookup = empty
    <3>1. empty \in Slots /\ page[empty] = Whole(cfg) /\ cfg \in Configs
          /\ page[empty].status = "VALID"
      BY <2>5 DEF PageInv, Written, Argument, Whole
    <3>2. Lookup = empty
      BY <2>1, <3>1 DEF LookupFact
    <3> QED  BY <2>2, <3>1, <3>2, ReadingOf
  <2> QED  BY <1>2, <2>2, <2>3, <2>4, <2>5 DEF ValueFact
<1> QED  BY <1>1, <1>2

\* And after a step.
LEMMA ValueKnownNext == TypeOK' /\ PageInv' => ValueFact'
BY ValueKnown, PTL

\* The first page is a blank register.
LEMMA RegisterInit == Init => Register!Init
<1> SUFFICES ASSUME Init PROVE Register!Init
  OBVIOUS
<1>1. Value = Erased
  <2>1. TypeOK /\ PageInv /\ \A s \in Slots : page[s].status # "VALID"
    BY TypeInit, PageInit DEF Init, EmptySlot
  <2>2. ~cutShort
    BY DEF Init
  <2> QED  BY <2>1, <2>2, ValueKnown DEF ValueFact
<1>2. Pending = "none"
  BY DEF Init, Pending
<1> QED  BY <1>1, <1>2 DEF Register!Init, Value, Pending

\* The reading of a structure is that of the page and of nothing else.
LEMMA ReadingKept == ASSUME NEW s, page' = page PROVE Reading(s)' = Reading(s)
BY DEF Reading, Whole

LEMMA LookupKept == page' = page => Lookup' = Lookup
BY DEF Lookup, With, First

\* Every step of the flash is one of the register or leaves it alone.
LEMMA RegisterStep ==
    ASSUME TypeOK, PageInv, TypeOK', PageInv', [Next]_vars
    PROVE  \/ Register!Next
           \/ Value' = Value /\ Pending' = Pending
<1> DEFINE Stutter == Value' = Value /\ Pending' = Pending
<1>1. ValueFact /\ ValueFact'
  BY ValueKnown, ValueKnownNext
<1>2. ASSUME page' = page, cutShort' = cutShort PROVE Value' = Value
  <2>1. Lookup' = Lookup /\ Reading(Lookup)' = Reading(Lookup')
    BY <1>2, LookupKept DEF Reading, Whole
  <2>2. Reading(Lookup)' = Reading(Lookup)
    BY <1>2, LookupKept, ReadingKept DEF Reading, Whole
  <2> QED  BY <1>1, <1>2, <2>2 DEF ValueFact
<1>3. /\ cfg \in Configs => cfg \notin {"none", "torn", "unknown", "erasure"}
      /\ Erased \notin {"none", "torn", "unknown", "erasure"}
  BY NamesAssumption
<1>4. Argument
  BY DEF PageInv
<1> USE DEF Register!Next
<1>5. CASE Read
  <2>1. Value' = Value /\ Pending' = Pending
    BY <1>2, <1>5 DEF Read, Pending
  <2> QED  BY <2>1
<1>6. ASSUME NEW c \in Configs, UpdateBegins(c) PROVE Register!Begin
  <2>1. Value' = Value
    BY <1>2, <1>6 DEF UpdateBegins
  <2>2. Pending = "none" /\ Pending' = c
    BY <1>6 DEF UpdateBegins, Pending
  <2> QED  BY <2>1, <2>2 DEF Register!Begin, Value, Pending
<1>7. CASE Invalidate
  <2>1. Pending \in Configs /\ Pending' = Pending
    BY <1>4, <1>7 DEF Invalidate, Pending, Argument
  <2>2. CASE cutShort
    BY <1>1, <1>7, <2>1, <2>2 DEF ValueFact, Invalidate
  <2>3. CASE ~cutShort
    <3>1. Value' = Erased
      BY <1>1, <1>7, <2>3 DEF ValueFact, Invalidate, PageInv, NoneValid
    <3>2. Register!DropOld
      BY <2>1, <3>1 DEF Register!DropOld, Value, Pending
    <3> QED  BY <3>2
  <2> QED  BY <2>2, <2>3
<1>8. CASE Find
  BY <1>2, <1>8 DEF Find, Pending
<1>9. CASE EraseFullPage
  <2>1. Pending \in Configs /\ Pending' = Pending
    BY <1>4, <1>9 DEF EraseFullPage, Pending, Argument
  <2>2. Value' = Erased
    BY <1>1, <1>9 DEF ValueFact, EraseFullPage, PageInv, NoneValid
  <2>3. Register!DropOld
    BY <2>1, <2>2 DEF Register!DropOld, Value, Pending
  <2> QED  BY <2>3
<1>10. CASE WriteStatus
  <2>1. Pending \in Configs /\ Pending' = Pending
    BY <1>4, <1>10 DEF WriteStatus, Pending, Argument
  <2>2. CASE cutShort
    BY <1>1, <1>10, <2>1, <2>2 DEF ValueFact, WriteStatus
  <2>3. CASE ~cutShort
    <3>1. Value = Erased
      BY <1>1, <1>10, <2>3 DEF ValueFact, WriteStatus, PageInv, NoneValid
    <3>2. Value' = "torn"
      BY <1>1, <1>10, <2>3 DEF ValueFact, WriteStatus
    <3>3. Register!StartNew
      BY <2>1, <3>1, <3>2 DEF Register!StartNew, Value, Pending
    <3> QED  BY <3>3
  <2> QED  BY <2>2, <2>3
<1>11. CASE WriteField
  <2>1. Pending \in Configs /\ Pending' = Pending /\ Pending = cfg
    BY <1>4, <1>11 DEF WriteField, Pending, Argument
  <2>2. CASE cutShort
    BY <1>1, <1>11, <2>1, <2>2 DEF ValueFact, WriteField
  <2>3. CASE ~cutShort
    <3>1. Value = "torn" /\ pc' \in {"fields", "done"} /\ ~cutShort' /\ cfg' = cfg
      BY <1>1, <1>11, <2>3 DEF ValueFact, WriteField
    <3>2. Value' = "torn" \/ Value' = cfg
      BY <1>1, <3>1 DEF ValueFact
    <3>3. Value' = cfg => Register!FinishNew
      BY <2>1, <3>1 DEF Register!FinishNew, Value, Pending
    <3> QED  BY <2>1, <3>1, <3>2, <3>3
  <2> QED  BY <2>2, <2>3
<1>12. CASE UpdateEnds
  <2>1. Value' = Value
    BY <1>2, <1>12 DEF UpdateEnds
  <2>2. Value \in {cfg, "unknown"} /\ Pending = cfg /\ Pending' = "none" /\ cfg \in Configs
    BY <1>1, <1>4, <1>12 DEF UpdateEnds, Pending, ValueFact, Argument
  <2>3. Register!End
    BY <2>1, <2>2 DEF Register!End, Value, Pending
  <2> QED  BY <2>3
<1>13. CASE EraseBegins
  <2>1. Value' = Value
    BY <1>2, <1>13 DEF EraseBegins
  <2>2. Pending = "none" /\ Pending' = "erasure"
    BY <1>13 DEF EraseBegins, Pending
  <2>3. Register!Begin
    BY <2>1, <2>2 DEF Register!Begin, Value, Pending
  <2> QED  BY <2>3
<1>14. CASE EraseEnds
  <2>1. Pending = "erasure" /\ Pending' = "none"
    BY <1>14 DEF EraseEnds, Pending
  <2>2. ~cutShort' /\ \A s \in Slots : page'[s].status # "VALID"
    BY <1>14 DEF EraseEnds, EmptySlot
  <2>3. Value' = Erased
    BY <1>1, <2>2 DEF ValueFact
  <2>4. Register!Erase
    BY <2>1, <2>3 DEF Register!Erase, Value, Pending
  <2> QED  BY <2>4
<1>15. CASE PowerFails
  <2>1. Pending' = "none" /\ (Pending = "erasure" <=> pc = "erase only")
    BY <1>3, <1>4, <1>15 DEF PowerFails, Pending, Argument, TypeOK
  <2>2. Value' = IF Pending = "erasure" THEN "unknown" ELSE Value
    <3>1. CASE pc = "erase only"
      BY <1>1, <1>15, <2>1, <3>1 DEF PowerFails, ValueFact
    <3>2. CASE pc = "erase"
      <4>1. cutShort' = cutShort
        BY <1>15, <3>2 DEF PowerFails, TypeOK
      <4>2. CASE cutShort
        BY <1>1, <2>1, <3>2, <4>1, <4>2 DEF ValueFact
      <4>3. CASE ~cutShort
        <5>1. \A s \in Slots : page[s].status # "VALID"
          BY <3>2, <4>3 DEF PageInv, NoneValid
        <5>2. PICK S \in SUBSET Slots : page' = [s \in Slots |-> IF s \in S THEN EmptySlot ELSE page[s]]
          BY <1>15, <3>2 DEF PowerFails
        <5>3. \A s \in Slots : page'[s].status # "VALID"
          BY <5>1, <5>2 DEF EmptySlot
        <5> QED  BY <1>1, <2>1, <3>2, <4>1, <4>3, <5>1, <5>3 DEF ValueFact
      <4> QED  BY <4>2, <4>3
    <3>3. CASE pc \notin {"erase", "erase only"}
      BY <1>2, <1>15, <2>1, <3>3 DEF PowerFails
    <3> QED  BY <3>1, <3>2, <3>3
  <2>3. Register!PowerLoss
    BY <2>1, <2>2 DEF Register!PowerLoss, Value, Pending
  <2> QED  BY <2>3
<1>16. CASE UNCHANGED vars
  BY <1>2, <1>16 DEF vars, Pending
<1> QED  BY <1>5, <1>6, <1>7, <1>8, <1>9, <1>10, <1>11, <1>12, <1>13, <1>14, <1>15, <1>16 DEF Next

\* The configuration page implements the durable register: what a caller or a restart
\* reads is the last configuration stored, none, or a torn one left by a power loss in
\* an update (config.c:180-271).
THEOREM RegisterCorrect == Spec => RegisterSpec
<1>1. TypeOK /\ PageInv /\ TypeOK' /\ PageInv' /\ [Next]_vars => [Register!Next]_Register!vars
  BY RegisterStep DEF Register!vars, Value, Pending
<1> QED  BY <1>1, RegisterInit, PageCorrect, PTL DEF Spec, RegisterSpec, Register!Spec

=============================================================================
