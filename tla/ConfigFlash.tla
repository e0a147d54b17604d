---------------------------- MODULE ConfigFlash ----------------------------
(***************************************************************************)
(* src/config.c: the configurations kept in one flash page.  The page is   *)
(* an array of structures; an update invalidates the one in force and      *)
(* writes the next empty one, halfword by halfword, and erases the page    *)
(* when none is empty.  Each of the functions runs in a critical zone, so  *)
(* only a loss of power can come between two of its steps.                 *)
(* A halfword is programmed or not when the power fails; a page whose      *)
(* erasure is cut short has some of its structures erased.                 *)
(***************************************************************************)
EXTENDS Integers, FiniteSets

CONSTANTS
    PDBS_CONFIG_ARRAY_LEN,
    Configs,     \* what a configuration can say
    Erased,      \* 0xFFFF
    MaxLosses    \* bound: how often the power fails

ASSUME LenAssumption    == PDBS_CONFIG_ARRAY_LEN \in Nat \ {0}
ASSUME ErasedAssumption == Erased \notin Configs
ASSUME LossesAssumption == MaxLosses \in Nat
ASSUME NamesAssumption ==
    {"none", "torn", "unknown", "erasure"} \cap (Configs \cup {Erased}) = {}

Slots  == 1..PDBS_CONFIG_ARRAY_LEN
NULL   == 0
Fields == 1..5      \* flags, v, i, vmin, vmax

LastField == 5

VARIABLES
    page,        \* pdbs_config_array: the status and the fields of each structure
    config_cur,  \* the cached location, NULL if not known
    pc,          \* where the function that runs is
    cfg, empty,  \* pdbs_config_flash_update's argument and local variable
    field,       \* the field it writes next
    stored,      \* ghost: the configuration of the last update, unless power failed in it
    cutShort,    \* ghost: the power failed in a pdbs_config_flash_erase and no erasure has
                 \* ended since
    lossesLeft

vars == <<page, config_cur, pc, cfg, empty, field, stored, cutShort, lossesLeft>>

EmptySlot    == [status |-> "EMPTY", fields |-> [f \in Fields |-> Erased]]
Whole(c)     == [status |-> "VALID", fields |-> [f \in Fields |-> c]]
First(S)     == CHOOSE s \in S : \A t \in S : s <= t
With(status) == {s \in Slots : page[s].status = status}

\* pdbs_config_flash_read's lookup, and what it returns.
Lookup  == IF page[1].status = "EMPTY" \/ With("VALID") = {} THEN NULL ELSE First(With("VALID"))
Current == IF config_cur # NULL THEN config_cur ELSE Lookup

Init ==
    /\ page = [s \in Slots |-> EmptySlot]
    /\ config_cur = NULL
    /\ pc = "idle"
    /\ cfg = Erased /\ empty = NULL /\ field = 1
    /\ stored = Erased
    /\ cutShort = FALSE
    /\ lossesLeft = MaxLosses

-----------------------------------------------------------------------------
Read ==
    /\ pc = "idle"
    /\ config_cur' = Current
    /\ UNCHANGED <<page, pc, cfg, empty, field, stored, cutShort, lossesLeft>>

\* pdbs_config_flash_update: look the old configuration up ...
UpdateBegins(c) ==
    /\ pc = "idle"
    /\ config_cur' = Current
    /\ cfg' = c
    /\ pc' = IF Current # NULL THEN "invalidate" ELSE "find"
    /\ UNCHANGED <<page, empty, field, stored, cutShort, lossesLeft>>

\* ... invalidate it ...
\* Mutant: it stays valid.
InvalidateNothing ==
    /\ pc = "invalidate"
    /\ pc' = "find"
    /\ UNCHANGED <<page, config_cur, cfg, empty, field, stored, cutShort, lossesLeft>>
Invalidate ==
    /\ pc = "invalidate"
    /\ page' = [page EXCEPT ![config_cur].status = "INVALID"]
    /\ pc' = "find"
    /\ UNCHANGED <<config_cur, cfg, empty, field, stored, cutShort, lossesLeft>>

\* ... find the first empty structure, or erase the page and take the first ...
\* Mutant: any structure that is not valid will do.
FindUnused ==
    /\ pc = "find"
    /\ LET unused == Slots \ With("VALID")
       IN  IF unused # {} THEN empty' = First(unused) /\ pc' = "status"
           ELSE UNCHANGED empty /\ pc' = "erase"
    /\ UNCHANGED <<page, config_cur, cfg, field, stored, cutShort, lossesLeft>>
Find ==
    /\ pc = "find"
    /\ IF With("EMPTY") # {} THEN empty' = First(With("EMPTY")) /\ pc' = "status"
       ELSE UNCHANGED empty /\ pc' = "erase"
    /\ UNCHANGED <<page, config_cur, cfg, field, stored, cutShort, lossesLeft>>

EraseFullPage ==
    /\ pc = "erase"
    /\ page' = [s \in Slots |-> EmptySlot]
    /\ empty' = 1
    /\ pc' = "status"
    /\ cutShort' = FALSE
    /\ UNCHANGED <<config_cur, cfg, field, stored, lossesLeft>>

\* ... write the status, and then the fields.  The flash programs only what is erased.
WriteStatus ==
    /\ pc = "status"
    /\ page' = IF page[empty].status = "EMPTY" THEN [page EXCEPT ![empty].status = "VALID"]
               ELSE page
    /\ field' = 1
    /\ pc' = "fields"
    /\ UNCHANGED <<config_cur, cfg, empty, stored, cutShort, lossesLeft>>

WriteField ==
    /\ pc = "fields"
    /\ page' = IF page[empty].fields[field] = Erased
               THEN [page EXCEPT ![empty].fields[field] = cfg] ELSE page
    /\ IF field = LastField THEN pc' = "done" /\ UNCHANGED field
                    ELSE field' = field + 1 /\ UNCHANGED pc
    /\ UNCHANGED <<config_cur, cfg, empty, stored, cutShort, lossesLeft>>

\* The location of the new configuration is cached.
\* Mutant: it is not.
UpdateForgets ==
    /\ pc = "done"
    /\ pc' = "idle"
    /\ stored' = cfg
    /\ UNCHANGED <<page, config_cur, cfg, empty, field, cutShort, lossesLeft>>
UpdateEnds ==
    /\ pc = "done"
    /\ config_cur' = empty
    /\ pc' = "idle"
    /\ stored' = cfg
    /\ UNCHANGED <<page, cfg, empty, field, cutShort, lossesLeft>>

\* pdbs_config_flash_erase
EraseBegins ==
    /\ pc = "idle"
    /\ pc' = "erase only"
    /\ UNCHANGED <<page, config_cur, cfg, empty, field, stored, cutShort, lossesLeft>>

\* Mutant: config_cur still says where the old configuration was.
EraseEndsCached ==
    /\ pc = "erase only"
    /\ page' = [s \in Slots |-> EmptySlot]
    /\ pc' = "idle"
    /\ stored' = Erased
    /\ cutShort' = FALSE
    /\ UNCHANGED <<config_cur, cfg, empty, field, lossesLeft>>
EraseEnds ==
    /\ pc = "erase only"
    /\ page' = [s \in Slots |-> EmptySlot]
    /\ config_cur' = NULL
    /\ pc' = "idle"
    /\ stored' = Erased
    /\ cutShort' = FALSE
    /\ UNCHANGED <<cfg, empty, field, lossesLeft>>

\* Only the page survives a loss of power.
PowerFails ==
    /\ lossesLeft > 0
    /\ lossesLeft' = lossesLeft - 1
    /\ config_cur' = NULL
    /\ pc' = "idle"
    /\ cfg' = Erased /\ empty' = NULL /\ field' = 1
    /\ stored' = IF pc = "idle" THEN stored ELSE Erased
    /\ IF pc \in {"erase", "erase only"}
       THEN /\ \E S \in SUBSET Slots :
                page' = [s \in Slots |-> IF s \in S THEN EmptySlot ELSE page[s]]
            /\ cutShort' = (cutShort \/ pc = "erase only")
       ELSE UNCHANGED <<page, cutShort>>

Next ==
    \/ Read
    \/ \E c \in Configs : UpdateBegins(c)
    \/ Invalidate \/ Find \/ EraseFullPage \/ WriteStatus \/ WriteField \/ UpdateEnds
    \/ EraseBegins \/ EraseEnds
    \/ PowerFails

Spec == Init /\ [][Next]_vars

-----------------------------------------------------------------------------
\* Type invariant of the page, the cache and the update's locals.
TypeOK ==
    /\ page \in [Slots -> [status : {"EMPTY", "VALID", "INVALID"},
                           fields : [Fields -> Configs \cup {Erased}]]]
    /\ config_cur \in Slots \cup {NULL} /\ empty \in Slots \cup {NULL}
    /\ pc \in {"idle", "invalidate", "find", "erase", "status", "fields", "done", "erase only"}
    /\ cfg \in Configs \cup {Erased} /\ stored \in Configs \cup {Erased}
    /\ field \in Fields
    /\ cutShort \in BOOLEAN
    /\ lossesLeft \in 0..MaxLosses

\* Between two calls the last configuration written is read back, the whole of it, from
\* the cache as after a loss of power (config.c:193-271), however often the power failed
\* in earlier updates, as long as it did not fail in a pdbs_config_flash_erase.
ReadsLastWritten ==
    pc = "idle" /\ stored # Erased /\ ~cutShort =>
        Current # NULL /\ page[Current] = Whole(stored)

\* At most one structure is valid, so the lookup never finds an old configuration, wherever
\* in an update the power failed (config.c:206-210).  A pdbs_config_flash_erase cut short can
\* hide the valid structure from the next update, which then makes a second.
OneValid == ~cutShort => \A s, t \in With("VALID") : s = t

\* The cached location is the one a lookup would find (config.c:247-250).
CacheIsFresh == pc = "idle" /\ config_cur # NULL /\ ~cutShort => config_cur = Lookup

\* A structure is written only where all of it is erased, whatever was cut short before:
\* the flash would not take the write (config.c:213-226).
WritesErased == pc = "status" => page[empty] = EmptySlot

-----------------------------------------------------------------------------
\* What a read of the structure at s says.
Reading(s) ==
    IF s = NULL THEN Erased
    ELSE IF \E c \in Configs : page[s] = Whole(c) THEN page[s].fields[1] ELSE "torn"

\* Between two calls a read uses the cache; what is in the page while a function runs is
\* what a lookup after a power loss finds.
Register == INSTANCE DurableRegister WITH
    Values  <- Configs,
    Blank   <- Erased, Torn <- "torn", Unknown <- "unknown",
    None    <- "none", Erasure <- "erasure",
    value   <- IF cutShort THEN "unknown"
               ELSE Reading(IF pc = "idle" THEN Current ELSE Lookup),
    pending <- IF pc = "idle" THEN "none" ELSE IF pc = "erase only" THEN "erasure" ELSE cfg

\* The page implements the register: a configuration changes only by a call, goes before
\* the new one comes, and is there when the call returns; a power loss changes nothing,
\* whatever the cache said, and one in an update leaves no configuration at all, or a
\* valid structure that is torn (config.c:199-271).
RegisterSpec == Register!Spec

=============================================================================
