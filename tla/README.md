# The dazzle firmware in TLA+

dazzle-fw is the firmware of a board that takes its power from a USB Power Delivery (PD)
source and drives LEDs with it. It runs on one STM32F072 core under ChibiOS. This
directory holds TLA+ models of its parts that have state worth arguing about, TLC
configurations that check them on small instances, and TLAPS proofs of what matters most.
Paths such as `policy_engine.c:575` are below `src/lib/src/` for the PD stack and below
`src/src/` for the application.

Contents: [the system](#the-system), [the modules](#the-modules),
[how the models correspond to the code](#how-the-models-correspond-to-the-code),
[runs](#runs), [fairness](#fairness), [what the runs found](#what-the-runs-found),
[proofs](#proofs), [what is only checked, and what is not modelled](#only-checked-and-not-modelled),
[plan](#plan).

## The system

### The PD stack (`src/lib/`)

Five threads. `priorities.h` puts the policy engine above the three threads of the protocol
layer, which are equals, and those above the poller. The kernel has no time slice
(`CH_CFG_TIME_QUANTUM` is 0), so equals run until they block or yield.

| component | state it keeps | operations | must be right |
|---|---|---|---|
| policy engine, `policy_engine.c` | state, message, mailbox, last Request, contract, `_min_power`, Hard Reset counter, specification revision, PPS indices | one function per state (17), the callback of the SinkPPSPeriodic timer | output power only under a contract; every message freed once; no wait that never ends; no event forgotten |
| transmitting protocol layer, `protocol_tx.c` | state, message, mailbox, MessageID | PHY reset, wait, construct, wait for SinkTxOk, await the chip, match the GoodCRC, discard | sends exactly the message the engine waits for, and reports the outcome |
| receiving protocol layer, `protocol_rx.c` | state, message, stored MessageID | wait for the chip, read, reset on Soft_Reset, check and store the MessageID | each message handed on once, in order; only repeats dropped |
| Hard Reset thread, `hard_reset.c` | state, who asked | reset the layer, indicate or request, wait for the chip, wait for the engine | a Hard Reset of either side is dealt with once, and finished |
| poller, `int_n.c` | the status it read | read and clear the chip's interrupts, tell the threads | no interrupt lost, the order of the flags |
| FUSB302B driver, `fusb302b.c` | the static `sop_seq`; the chip's FIFOs, interrupt flags, transmissions | set up, send, read, hard reset, reset, status; each a sequence of I2C transfers under the bus mutex | whole messages in and out; threads that call it at once see each function happen at one moment |
| message pool and start-up, `messages.c`, `pdb.c` | a pool of `PDB_MSG_POOL_SIZE` = 4 messages | allocate, free | no double free, no leak, never empty when a message arrives |
| message formats, `pd.h` | none (`hdr_template`, `_tx_messageidcounter` and `_last_dpm_request` of its users) | bit fields of headers and Requests, type tables | the partner reads what was meant; each message is dealt with as what it is |

They interact through event flags (`chEvtSignal`), which a wait returns and clears at once;
two mailboxes of pointers (to the engine and to TX); buffers whose ownership goes with the
pointer; fields of one shared `struct pdb_config`; and the I2C bus, whose transfers are
where other threads run. Hard behaviours: flags of an abandoned exchange that are still
pending, two flags returned by one wait, yields between two stores, messages freed by one
thread while another still has the pointer, a source that resets at any time, lost
GoodCRCs, timeouts that race the answer.

### The application (`src/src/`)

| component | state it keeps | operations | must be right |
|---|---|---|---|
| device policy manager, `device_policy_manager.c` | the Request, capability match | evaluate capabilities, callbacks that switch the output | the best offer is requested |
| LED modulation, `high_current_modulation.c` | hue and brightness; three buffers of bit planes, their owners, `update`; the interrupt's position; the registers of two timers | a thread computes colours and planes, the interrupt of timer 15 sends a plane and sets the times of the next period | never a half-written buffer, the newest value in the end, each LED its own colour, each plane lit for its own time |
| configuration flash, `config.c` | a flash page of structures, the cached location | update, read, erase | the last configuration survives, one valid structure, no write over unerased flash |
| start-up, `main.c`, `board.c`, `board.h`, `mcuconf.h`, `power_governor.c` | port registers, drivers started, threads created; a line that is toggled | from reset to the last thread, in one order | nothing used before it is ready; no pin ever drives what it is not for |

All hazards, each at its line with the properties about it, are listed under `hazards` in
`PROJECT.json`.

## The modules

```
PdState            shared variables, kernel primitives (events, run queue, I2C bus, pool)
 ├ PolicyEngine    one action per state and per wait of policy_engine.c
 ├ ProtocolTx      protocol_tx.c
 ├ ProtocolRx      protocol_rx.c
 ├ ProtocolHr      hard_reset.c
 ├ IntN            int_n.c
 └ Fusb302b        driver and chip; the port partner, user code, temperature
PdStack            their composition: Init, Next, Spec, TypeOK
PdProperties       what the stack promises; fairness
ResetHandover      what HR and the engine promise each other  <- PdProperties, ThreadProofs
MCPdStack          small instances: scripts of the partner, symmetry
PdStackProofs, ThreadProofs, EngineProofs                   theorems about PdStack

Transceiver        what the driver promises          <- FusbDriver, FusbDriverProofs
MessageFormat      headers and Requests bit by bit
DevicePolicyManager                                  the choice of a PDO
MessageProofs      theorems about the last two
MCMessages         instances of FusbDriver, MessageFormat and DevicePolicyManager

LatestValue        a mailbox of one value            <- HighCurrentModulation, ModulationProofs
MCHighCurrentModulation
LedColours         colours, channel maps, bit planes
LedTiming, LedTimingProofs                           periods of the timers
Board              pins and DMA streams
Startup            main(), from reset on; EXTENDS Board
MCBoard            instances of LedTiming, LedColours and Startup

DurableRegister    a register power losses spare     <- ConfigFlash, ConfigProofs
```

`A <- B` says that B implements the abstract specification A: B instantiates A with a
refinement mapping and states `A!Spec` as a property, which a run checks and a theorem states.

`MCMessages` and `MCBoard` put three specifications side by side that share no variable. A
step of one then means the same at any state of the others, so the others wait at one of
their initial states while one moves: the states are those of each of them alone, not
their product.

A comment `Mutant:` introduces a broken variant of the definition after it. The
specifications do not use these; `PROJECT.json` pairs each property with a variant that
breaks it, so that no property is true of every program.

## How the models correspond to the code

### PD stack

**Granularity.** An action is a run of one thread from where it is to its next wait, I2C
transfer or yield. Priorities and the single core justify it: no other thread can come
between. `PeRuns` says the engine wants the processor, and then nothing of lower priority
moves; `ready` is the run queue of the protocol layer threads, first in first out; `bus`
queues the threads that wait for the I2C bus, which hands over in order. A signal from a
thread to the engine lets the engine run before the thread goes on, which the places
`X.yielded`, `X.tx`, `X.rx` express: they are the points inside one C function where the
rest of the system moves.

**Waits.** `Mask[s]` is the set of flags the wait at `s` names. `Pending(t)` is what
`chEvtWaitAny` returns, and clears: that a state then acts on one of several returned flags
and forgets the others is in the model as in the code. Timeouts of the engine are `PeTimer`,
which may strike at a wait that has one; time is not modelled.

**Messages.** `content[b]` is what the first bytes of buffer `b` mean to the engine: a class
(`RxType`, `TxType`), the MessageID, and as a ghost the serial number the partner gave. The
pool is a set, so an allocation may return any free buffer (the code returns the one freed
last: fewer behaviours). A freed buffer reads as any of `FreedHeaders`, since the free
list's link overwrites its header; a write to a freed buffer corrupts the list, and the
outcome is either of `fault \in BOOLEAN`. `pdb_msg_pool`'s NULL is followed at once by a
dereference of address 0, which is `fault`; what happens after a fault is not modelled.
The uninitialised `goodcrc` of `protocol_tx.c` that is compared when the FIFO is empty is a
nondeterministic choice.

**The chip and the partner** (`Fusb302b`; external code) move only when the engine does not
run. The partner sends one of `Scripts` message by message, each acknowledged by the chip in
hardware; it repeats a message (bounded by `MaxRepeats`), signals Hard Resets (`MaxResets`),
and does not answer where the script ends. Our transmissions succeed or run out of retries
(`MaxTxFails`). It grants SinkTxOk in the end. `UserEvents` are signals of user code, each
at most once.

**The device policy manager** in the engine's module is a set of parameters: whether it
frees the capabilities (`DpmFrees`; this firmware's does not), whether the Request names the
PPS APDO (`DpmPps`), whether it enables GiveBack, and the state of the output, `supply`.
With several PPS APDOs the engine remembers the first, so one APDO stands for them. The
optional `evaluate_typec_current` answers FALSE.

**The hand-over of Hard Resets.** `ResetHandover` is the abstract view of two threads and four
events: where the Hard Reset under way is (`reset`), and whether the engine has asked for one
not started yet (`asked`). `Reset` reads the first from HR's place, `hrByPe` and who holds the
reset; a state where nobody or two parties hold it while HR waits, or one does while HR does not
wait, reads as "confused", which is no state of the abstract one, so `HandoverSpec` contains
`ResetHandshake`. `ResetAsked` reads the second from the engine's wait. The step `TakeUp`
has no case for a partner's reset while the engine asks for one of its own: it stands for
ever, which is the finding of `v_reset_stuck`, and safe but not live.

**Bounds.** Every outside event has its own bound above. `MaxRushes` bounds how often such an
event (or a timer) strikes while the stack is still busy; when it is quiet, events strike
freely. With one rush TLC still explores every place where one event may cross the handling
of another, which is where all the disagreements below were found.

### The driver

`FusbDriver` is `fusb302b.c` transfer by transfer: `Acquire` takes the bus mutex, each of the
actions below `Driver(t)` is one I2C transfer of the thread that holds it, and the last one of
a function gives the mutex back. Other threads call in between, messages arrive and ours
are sent or not. Bytes are pairs `<<message, position>>` and the tokens of the chip; its FIFOs
are sequences of them and know of no message boundaries, so that a transfer too few, or
one between two others, shows as a message read out of step. `sop_seq` is static: `sopLen`
is the length the last writer left in it.

`ChipSpec` says that this implements `Transceiver`, where each function acts at one moment
between call and return and messages are units; `fusb_reset` needs two moments, since it
empties the FIFOs before it stops the transmitter. The mapping cuts the receive FIFO where a
message's first byte stands; the message a reader has begun counts as taken, and the one on the
air as sent. `Fusb302b` of the PD stack takes each function
as one step, which is what `ChipSpec` justifies; of the window inside `fusb_reset` it keeps
both outcomes, with or without the answer that came in it (the flush after a Soft_Reset
of the partner is one step there).

### Message formats

`PolicyEngine` knows messages by class. `MessageFormat` has the words: a word is the set of
positions of its ones, `|` is union. `Hears` takes every header of the partner with any of 32
types, none or one object, extended or not, with its revision, in each state that waits for
a message, through the same chain of tests on type and number of objects; `Transmits` puts
ours together from `hdr_template`, the type, the number of objects and the MessageID, and the
Request from the DPM's choice. `PartnerReads` decodes what was sent with the fields of
`pd.h` and compares. Data sizes are 26 and 27, either side of `PD_MAX_EXT_MSG_LEGACY_LEN`. The Request
keeps its header between transmissions, MessageID included, which is why it has to be
cleared before it is numbered again. A Hard Reset clears the counter and not the revision.

### LED modulation

The thread's stores are one action each: clear a buffer, one plane per action for the high
and then the low driver, the test of `update`, the two index stores, `update`. The interrupt
is one action, as nothing interrupts it, and strikes between any two of them. The stores
are assumed to reach memory in source order (the fields are not volatile; this is what the
compiler has to be made to do), and the SPI transfer the interrupt starts to be over before
the next interrupt (`LedTiming`'s `NeverTorn` says so for sound settings). `frame` is the ghost number of
the value each buffer was last filled with. One channel stands for all of them here: they are
filled by the same loop and share nothing.

`MailboxSpec`: the triple buffer implements `LatestValue`, a mailbox for one value. The maker
puts the value it has just made there, whole, or drops it while the mailbox is full; the shower empties
it. So what is shown was the newest when it was put, is never torn and never goes back.

`LedColours` has the loop of the thread (hue and brightness every 10 ms), `HSV2RGB` with its
integer arithmetic, the two channel maps of `main.c` and the greedy split of a value into planes.
`EachLedItsColour` looks at it from the outputs: each of the 27 channels emits its value, on
its own outputs only, the three components of an LED are a pure hue of the present
brightness, and no value reaches 2^15, where `val << 16` would be undefined.

`LedTiming` has the periods of timer 15, in ticks. All four registers are preloaded: what the
interrupt writes works a period later, whereas the plane it sends is passed on by compare
matches of the period that has begun. `Period` is what the drivers do in one period, with the
interrupt held off for any of `Latencies`; `Miss` is one that was held off for a whole
period, which repeats itself: a lost lit period lights the low driver's plane again, as timer 1
starts again with the same registers (`MaxLost` bounds how often in a row). The first interrupt takes longer than the 25 ticks of the period it strikes in, so the
timers reload while only the first of its registers are written (`FirstInterrupt`). The registers keep 16 bits of
what is written (`Written`). `Sound(cfg)` is what the settings must satisfy, that they fit the
registers included; TLC evaluates it for `dazzle_cfg` of `main.c`, which does. The ghosts `onHigh`
and `litLow` measure the light: the high driver's of each plane when it ends, the low driver's as
it adds up over the `litPeriods` since its plane was passed on.

### Start-up

`Startup` is the program of `main()`, `__early_init`'s port set-up included, as a sequence of
steps, one store, register write, driver start or thread creation each (`Program`). Threads are of lower
priority than `main`, so they first run when `main` waits for an I2C transfer or sleeps, in
order of priority and of creation (`Run`); the sleeps of 100 ms are not assumed to be long
enough for anything. The chip is fresh or as an earlier run left it, since it is not reset
with the microcontroller. `Board` has the words of `board.h` and `mcuconf.h` as functions of
the pin, and beside them what the data sheet and the reference manual say each driver's signals and
DMA requests are connected to; `Connected` compares.

### Configuration flash

One action per flash operation: lookup, invalidate, find an empty structure, erase when there
is none, write the status, write the fields one by one. `PowerFails` strikes between any two
of them, forgets the RAM and keeps the page; one that strikes in an erasure leaves any subset
of the structures erased. A halfword is programmed or not. The functions run under
`chSysLock`, so nothing else comes between. At this commit no code of the firmware calls
these functions: the module models them for a caller that passes VALID configurations.

### Device policy manager

`evaluate_capability` scans the PDOs one action at a time with the code's running best,
power rounded to milliwatts and starting voltage of 20 V, and builds the Request. Between
offers the engine may ask for a Request again without capabilities (NEW_POWER).
`get_sink_capability` builds its four PDOs with the masks of `pd.h`. The other callbacks of
this firmware are empty.

## Runs

| run | instance | what it shows |
|---|---|---|
| `ready` | revision 3.0: a contract, then any one class of message the engine tells apart there, PS_RDY after GotoMin, or a new offer that is put off; or a programmable contract, a repeated Request that is declined, and an offer without PPS; GiveBack; a DPM that frees; one rush | every buffer has exactly one owner and none is lost (`NoSharing`, `NoLeak`); a message flag never outlives its message (`FlagsHaveMessages`); at most two buffers are neither free nor on their way to the engine (`FewBuffersOut`), so that RX runs out of them only when the engine fetches nothing; the periodic Request is never forgotten (`PpsKept`) |
| `resets` | a revision 2.0 partner; answers lost, declined or unexpected; a Hard Reset of the partner, a repeat; one rush | while HR waits, exactly one party has the reset in hand; HR and the engine implement `ResetHandover`: resets go one at a time through the same steps, and one the engine asks for is started once and reported while it waits; messages handed on once and in order, and dropped only as repeats |
| `polite` | a contract, then a message the engine answers with a Soft_Reset, or messages that come while the engine waits for chunks; two user events, an over-temperature, a failed transmission, a Hard Reset of the partner; no rush | power only under a contract; a message becomes unnoticed only where another event, or a second message, shared its flag; RX always reads a message; until the partner's Hard Reset a failure the engine acts on is of its own message, and TX takes just what was asked and never works on a freed message |
| `live` | a Hard Reset of each side, our Soft_Reset, a failed transmission; no rush; fair | every transmission is answered, every reset finished, TX lets go of every message |
| `messages` | all offers of up to three PDOs of seven; every header of 32 types × 0 or 1 object × extended or not × two revisions in every waiting state, three Requests of zeros, ones and both, every MessageID; two threads, three calls of any function, two received messages | the standing Request names a best PDO and all its current; the partner reads what was meant, at the revision both know; each message is dealt with as the tables name it; the driver implements `Transceiver` and sends whole messages only |
| `modulation` | twelve values at the edges of the planes, depth 10, the scale of the code | planes that add up to the value, no buffer filled while it may be shown, the last value shown in the end, the buffer implements `LatestValue` |
| `config` | three structures, two configurations, three power losses | the last update that completed is read back and one structure is valid, unless an erase was cut short; only erased flash is written; the page implements `DurableRegister` |
| `board` | three settings of the timers, interrupts late by 0, 30, 900 or 1744 ticks, lost in blank periods or up to twice in a row in lit ones; all eight rounds of 360 hues; start-up with the chip fresh or used, either CC line, three levels | each plane lit with its own times, by the high driver in proportion, by the low one once per lit period, never torn; each LED its own colour; pins, drivers and threads never used before they are ready |
| `v_pool`, `v_first_id`, `v_unanswered`, `v_reset_stuck` | see below | disagreements between comments and code |

**Why the bounds are enough to be of interest.** Four buffers is the real size of the pool.
Three slots are enough for a page with structures before, at and after the valid one and for
every transition from empty to full (the proofs cover any length; the real page has 128).
Three PDOs allow a tie between any two and a third before, between or after them. The twelve
values make the thread publish, skip a publication and wait while the interrupt is at every
position. Two threads with three calls let each function of the driver run into each
other, and one of them be called again; two received messages let one arrive behind another
(the proofs cover any number of threads and messages). 1744 ticks is the latency at which a plane
arrives just before the low driver's match, and two losses in a row (`MaxLost`) tell a plane lit once,
twice and three times apart (the proofs cover any number); other than the full set of headers, hues and
start-up steps there is nothing to bound in the rest. The PD runs that pass have between half a million
and two and a half million states, apart from `live`, whose liveness is checked without symmetry on 56
thousand; `messages` has 242, `modulation` 494, `config` 156 and `board` 4 thousand.

**Deadlock** is checked for `modulation`, `config` and `board`. The PD runs and `messages` say
`CHECK_DEADLOCK FALSE`, since the system may really stop: a sink whose partner is silent waits,
nothing follows a fault, and threads may have made all their calls. That nobody waits for nothing is what the liveness properties
say instead.

**Conditions of properties.** `PpsKept` holds until a user event takes its turn: the wait of
PE_SNK_Ready returns PPS_REQUEST together with it, and both are cleared. `MessagesNoticed`
names the two ways a message is left in the mailbox with no flag: that one, and two messages that
share MSG_RX. `TxKeepsItsMessage`, `FailureIsOurs` and `SendsWhatWasAsked` hold until the
partner signals a Hard Reset (`Unreset`): on RESET the engine frees its message at once, and TX may
be waiting for SinkTxOk, where it looks at nothing. `RxReadsAMessage` holds until an event
strikes a busy stack. `InOrderOnce` and `DropsOnlyRepeats` hold within the bounds of `resets`:
after garbage read from an empty FIFO two repeats get through, and after eight lost messages a new
one has the number of an old. `DropsOnlyRepeats` speaks of messages whose numbers run through since
the first one (see `v_first_id` for the others). `NoLeak` asks for a DPM that frees its
capabilities. `RevisionAgreed` leaves out the Accept of a Soft_Reset before the first
capabilities, and `DealtAsNamed` extended messages. `ReadsLastWritten` and `OneValid` exclude a
`pdbs_config_flash_erase` cut short (`cutShort`). `InProportion` gives the low driver its time once per
lit period: a plane has just its time only if the interrupt of its lit period is not lost.
`NeverTorn` of `LedTiming` holds for latencies that `Sound` allows.

## Fairness

`FairSpec` of the PD stack has weak fairness of each thread, of the I2C bus and of the chip.
The code's scheduling justifies it: a thread that can run keeps its place in the run queue
until it runs, threads above it block in bounded work, and I2C transfers and transmissions
end. No fairness is assumed of the partner, timers or user code, except that SinkTxOk, once
asked for, comes (part of TX's step). `FairSpec` of the modulation has weak fairness of the
thread and of the interrupt, a periodic timer's.

## What the runs found

Four disagreements between a comment of the code and what it does, each a run that TLC
refutes, with the trace as the argument:

- **`v_pool`**: the DPM of this firmware never frees the capabilities it is given
  (`policy_engine.c:179` says it is up to it), so a third offer leaves the pool dry and
  `protocol_rx.c:58` uses NULL, where the comment says the allocation cannot fail.
- **`v_first_id`**: a Hard Reset stores MessageID 0 (`hard_reset.c:51`), and not -1, so the
  partner's first message after it is dropped as a repeat.
- **`v_unanswered`**: MSG_TX and DISCARD returned by one wait (`protocol_tx.c:80`): the
  message stays in the mailbox, no TX_ERR follows, and the engine waits for ever.
- **`v_reset_stuck`**: our Hard Reset crosses the partner's; HR waits for DONE and the
  engine for HARD_SENT (`policy_engine.c:575`).

Seen while modelling; the model follows the code in each, and no run is spent on them:

- In PE_SNK_Source_Unresponsive the mailbox is never read (`policy_engine.c:755-776`), and a
  talkative partner empties the pool.
- A soft reset of ours keeps the stored MessageID (`protocol_rx.c:51` clears it only on RESET
  or a received Soft_Reset), so a partner that starts over at the same number is dropped once.
- After a Hard Reset of the partner a TX_ERR that is still pending is taken for the failure of a
  new message (`policy_engine.c:200`), and a message left in TX's mailbox goes out in place of a
  later one (`protocol_tx.c:77-86`); the engine can free a message that TX still numbers and sends
  (`policy_engine.c:615`).
- Under a rush, a flush for DISCARD (`protocol_rx.c:54`) can remove an acknowledged message
  or leave RX to read TX's GoodCRC.
- `policy_engine.c:168-173`: new capabilities set `_last_pps` to 8, "we can't be making a request
  from the same PPS APDO", and lines later back to the object position of the old Request if
  that is not below the index of the new PPS APDO.
- `policy_engine.c:455` tests type and number of objects but not PD_HDR_EXT: an extended
  message of type 1, Source_Capabilities_Extended by `pd.h:81`, is evaluated as
  Source_Capabilities. At a revision that is neither 2.0 nor 3.0,
  `pe_sink_send_not_supported` sends a buffer whose header it never wrote.
- `device_policy_manager.c:80` answers true for a Request repeated after an offer without a
  usable PDO, where `pdb_dpm.h:58` says false for insufficient power. The empty
  `transition_standby` does not do what `pdb_dpm.h` says of it.
- `pe_sink_ready` acts on the first of several returned flags: a user event makes it forget
  PPS_REQUEST or MSG_RX (`policy_engine.c:352-386`). Two messages that come while the engine waits
  in PE_SNK_Chunk_Received raise MSG_RX once, so PE_SNK_Ready fetches one of them and sleeps over
  the other.
- `device_policy_manager.c:90` puts 3000 (mA) into a 10-bit field of 10 mA units: 9.52 A. The
  capability mismatch set at line 70 is overwritten at line 73. A PDO above 20 V that
  carries no power is skipped.
- A power loss between the status and the fields of a configuration leaves a VALID structure
  with erased fields (`config.c:229`); one in `pdbs_config_flash_erase` can leave an old
  structure in force or the valid one hidden until the next update finds it.
- `high_current_modulation.c:179` counts the hue from 0 to 359, and `HSV2RGB` stores it in a
  `uint8_t`: hues 256 to 359 show the red to green part of the circle a second time.
- An interrupt that is held off for a whole lit period leaves both timers to repeat it: the low
  driver lights its plane again (`TIM1->CCR3` is unchanged, `high_current_modulation.c:325`), while the
  high driver, whose shift register was emptied, does not.
- `dazzle.h:53` says a table of times is calculated when an offset correction is given or its first
  element is zero; `high_current_modulation.c:422` looks at the first element only.
- The remainder of `usqrt` (line 78) overflows for large arguments; no code calls it.
- `board.h` leaves OTYPER 0, push-pull, for SCL and SDA; lines 115 and 116 build two LINE macros
  from names that do not exist (nothing uses them). `main.c:211` sets the same bit twice.

## Proofs

Every theorem is for all values of the constants under the named ASSUMEs of the modules,
which are types, finiteness and non-emptiness, that `NULL` and `NullMsg` are no messages, and
for `LedTiming` that the settings are sound; none bounds the number of events from above. Two theorems have a
hypothesis of their own, named in their statement: `Computed` and `LowFollows`, below.

- **`PdStackProofs!TypeCorrect`** (`Spec => []TypeOK`). The inductive invariant is
  `TypeInv == TypeOK /\ PointersOK`: an action that follows `peMsg`, `rxMsg`, `txMsg` or a
  mailbox entry is well typed only if the pointer is not NULL at that place, and that is
  what `PointersOK` adds. One lemma per thread, one step per action.
- **`ThreadProofs!HandshakeCorrect`, `AwaitedCorrect`**. `ResetHandshake` is not
  inductive: it does not say what of HR's state may coexist with a request of the engine.
  `HandshakeInv` names the places a reset can be: `Asked` and `Carried` for one the engine
  wants sent, `Indicated`, `Reported`, `Handling` and `Done` for one HR waits for. HR waits
  iff one of those four holds, and at most one does; a reset the engine asked for is in one
  place at a time, and the engine awaits it meanwhile; the chip sends none but the engine's
  (`OursOnly`). **`HandoverCorrect`** (`Spec => HandoverSpec`) is the refinement of `ResetHandover`:
  `ResetPlace` says what `Reset` and `ResetAsked` read wherever the invariant holds, and the
  lemma about each thread's steps says which step of the abstract one each is, or that it is none
  (`Kept`).
- **`ThreadProofs!QueueCorrect`** (`Spec => []QueueInv`): a thread of the protocol layer that has
  left its wait, or whose wait is over, stands in the ready queue or waits for the I2C bus. Every
  step of the stack either leaves a thread's place and flags alone, or wakes, yields or runs it, and
  none of these drops one that can still run.
- **`ThreadProofs!RxReadsCorrect`, `OneAtATime`**: until an event strikes a busy stack
  (`rushLeft = MaxRushes`) RX reads the message that the chip has acknowledged. What makes it so
  is that the stack then deals with one thing at a time, which none of its threads checks. `OneThing`
  says it in four parts: a reception, its handing over, a Hard Reset, a transmission, a step
  of the engine and heat exclude each other (`Alone`); an incoming message is at one place on its
  way and alone in the FIFO (`ReceptionOK`); a transmission has one outcome, on its way to a TX
  thread that waits for it (`TransmissionOK`); and a Hard Reset is at one place, left
  over for ever only by an engine that has given the partner up (`ResetOK`). `CalmInv` is `OneThing`
  under that condition; to be inductive it needs `HandshakeInv`, for what HR can meet, and
  `QueueInv`, because the stack counts as quiet (`Quiet`) when the queue is empty: then every thread
  waits where it has nothing to do (`QuietIs`), and what strikes is the next one thing. There is a
  lemma per thread, and one about what a step of it may leave behind.
- **`EngineProofs!SharingCorrect`, `LeakCorrect`**. `BufferInv` names six owners of buffers (`Owned`):
  the pool, RX, the engine's mailbox, the message it works on, the Request it keeps, the message it
  sends. They are disjoint, and complete if the DPM frees its capabilities; a mailbox holds
  no message twice; and where the engine keeps a pointer to a message it has freed
  (`Stale`), or a message of its own to send (`Sending`), is a matter of its place
  (`PlacesOK`). Every step moves at most one buffer from one owner to another
  (`MoveKeeps`), except EvalCap, which moves two. A mailbox never overflows, by the
  pigeonhole principle.
- **`EngineProofs!FlagsCorrect`**: per thread, a step that sets a message flag has just posted, and
  one that fetches has had the flag returned, and cleared, by its wait.
- **`EngineProofs!BuffersCorrect`** counts with `BufferInv`: all buffers are in the pool, with RX, in the
  mailbox, or one of the Request and the message the engine works on or sends, of which it never
  has both (`PlacesOK`).
- **`EngineProofs!NoticedCorrect`**: no step but a wait that returns MSG_RX lowers that flag, and none
  posts without raising it (`Notices`).
- **`EngineProofs!KeepsMessageCorrect`, `FailureCorrect`, `SendsAskedCorrect`**: what the engine and TX
  hold of a message agrees, however busy the stack is when an event strikes. `HandInv` has two parts.
  Until the partner's Hard Reset nothing on the way from the chip to the engine tells of one
  (`NoneSignalled`), so a wait for TX ends only with an outcome. And the message the engine waits
  for is in TX's mailbox or in its hands just as long as no outcome is pending, and at any other
  time TX has none and no outcome is left over (`InHand`). The first is needed for the second: a
  wait that ends with RESET leaves TX with a message that is no longer the engine's.
- **`EngineProofs!PpsCorrect`**. `PpsKept` needs the timer's whole way: which of the engine's places lie
  between the contract and the wait for the next event, that the timer runs or its event is
  pending there, and that a Request on its way will start it again.
- **`EngineProofs!PowerCorrect`**. `PowerInv` adds that the engine never is in Startup with
  the requested power on, since Startup is where `contract` is cleared.
- **`ModulationProofs!NeverTornCorrect`, `OwnersCorrect`, `BackwardsCorrect`**. `TripleInv`:
  where the thread is in its three stores decides how the indices may coincide
  (`Apart`), `act` is the thread's buffer while it fills it, nothing is announced between
  the stores (`Unpublished`), and frames are ordered reader, ready, thread (`Ordered`).
  **`MailboxCorrect`** (`Spec => MailboxSpec`) is the refinement of `LatestValue` from it.
- **`ModulationProofs!ShownCorrect`**: the planes a frame is made of light the LED for just its value.
  `FillInv` follows the thread through both loops: planes not yet reached are dark, and the
  value is what the lit ones weigh plus what is left, which is less than the next plane's
  weight (`HighLoop`, `LowLoop`). It rests on `TripleInv`: the frame shown is one that was filled
  to its end and not touched since. The hypothesis `LowFollows` is that the low current's
  heaviest plane weighs at least half of the high current's lightest; the weights are read
  from `dazzle.h`, and for a depth where it fails values would be lost between the two.
- **`ConfigProofs!ReadsCorrect`, `OneValidCorrect`, `CacheCorrect`, `ErasedCorrect`**. `PageInv`:
  an EMPTY structure is erased, no EMPTY one precedes a VALID one (unless an erasure was cut
  short), at most one is VALID, and what the running function has done so far is on the
  page. **`PageTypeCorrect`** is the type theorem they rest on, and **`RegisterCorrect`**
  (`Spec => RegisterSpec`) the refinement of `DurableRegister`, step by step: most flash
  operations change nothing a read returns, and the rest are its named steps. `FirstIsLeast` shows that the search from the front returns the least match, by
  well-foundedness of proper inclusion among finite sets.
- **`MessageProofs!BestCorrect`, `DpmTypeCorrect`**. `Passed` is the loop invariant: the running best is a best
  PDO of those scanned, or none had power.
- **`MessageProofs!PartnerReadsCorrect`, `RevisionCorrect`, `DealtCorrect`**, for any revision of the partner
  from 2.0 up, any numbers of objects and sizes, and any Request. Of the words: a number below
  2^width comes back from the field it was put into (`ReadBack`, bit by bit over the function
  `Number`), the fields of a header share no bit (`FieldsApart`), so a header made of the template, a
  type and a number of objects reads as they are whatever MessageID it had before (`HeaderReads`).
  Of the engine: each of its tests asks whether the name in the tables is among some
  (`NameTested`), so each chain of tests goes where `Dealt` says (`Branches`). `FormatInv`: the template
  has the revision both know as soon as capabilities have come, and no later ones change it; until
  then there is no Request, and the engine can only wait, accept a Soft_Reset or reset; and
  `_last_dpm_request` is one of the DPM's in every state the engine reaches later (`RequestKept`).
- **`FusbDriverProofs!LengthCorrect`, `SendsCorrect`**, for any threads and messages. `DriverInv`: who
  is inside a function holds the bus (`Locked`), its job is one of that function (`JobOf`), and
  after `SetLength` the length in `sop_seq` is its message's. `Sent` adds that the transmit FIFO
  holds the packet of the message as far as it has been written, and is empty when nobody writes.
- **`FusbDriverProofs!ChipCorrect`** (`Spec => ChipSpec`), the refinement of `Transceiver`. `ChipInv` adds what
  stands in the receive FIFO: whole messages behind one that its reader has read as far as its
  step says (`Framed`, `Reading`), and that each thread's place in a function agrees with what that
  function has done so far (`Working`). One lemma per transfer says which step of `Transceiver` it
  is, or that it is none.
- **`LedTimingProofs!TransfersCorrect`, `TimesCorrect`**, for any sound settings and any
  depth up to the tables' ten. `TimingInv`
  has one part per phase, `Starting`, `Blanking` and `Lighting`: which registers are written,
  which work, and which plane is in a driver, one period apart. **`ProportionCorrect`** adds
  `Measured`: a plane the high driver lights has been lit since the match before, and its time is
  complete when the lit period ends, repeated or not; the low driver's light is the time of one lit
  period times the number of those that have ended, for any `MaxLost`. That a register takes a time
  as it is (`RegistersHold`) is where the 16 bits of `Sound` come in. Its
  hypothesis `Computed` is that the tables of times are those `run` computes; tables a caller
  gives are used as they are.

## Only checked, and not modelled

With TLC only: the liveness properties (no ENABLED in the prover); `InOrderOnce` and
`DropsOnlyRepeats`, which are false for larger bounds (see above); and `EachLedItsColour`,
`NoGlitch`, `Connected` and `ReadyWhenUsed`, whose run takes the constants of the code and every
value of the rest, so that nothing is left for a theorem to say. `TypeOK`s that only proofs need
(of the flash page and the DPM) are proved and not run.

Not modelled:

- time in the PD stack: every timer may strike at any moment of its wait;
- the dot correction, which is packed and sent once, before the planes, with the same value
  for every output; `usqrt` and `xorshift32`, whose results nothing uses;
- the value of `fusb_get_typec_current` (the DPM of this firmware does not ask), and the fields of
  PDOs and of programmable Requests that no code reads or writes;
- the speed of the outputs and the words of ports D to F, all zero; `halInit` is assumed to
  leave SYSCFG alone; the clock set-up of ChibiOS, `HardFault_Handler`, and the jump to the boot
  loader, which is commented out;
- the settings of ChibiOS in `chconf.h`, `halconf.h` and most of `mcuconf.h`: the kernel and its drivers
  are not part of the repository, and the kernel primitives in `PdState` are modelled from how the
  code uses them;
- `test_table.c`, which prints a table, and `config.c`'s print-out.

## Plan

In order of importance; all but the last are done.

1. The PD stack, its composition, runs and the type theorem.
2. The Hard Reset hand-over and power under contract, proved.
3. The triple buffer of the modulation, checked and proved.
4. Configuration flash and the choice of a PDO, checked and proved.
5. Abstract specifications with refinement: a register that survives power losses, a mailbox of
   the latest value, a transceiver whose functions are atomic.
6. Theorems: one owner per buffer, none lost, no flag over an empty mailbox.
7. Message words, the driver's transfers, colours and channel maps, the timers, start-up.
8. The Hard Reset hand-over as an abstract specification, implemented by `PdStack`.
9. Theorems: the transceiver's refinement, the words of messages, the PPS timer, the lengths and
   the sums of planes.
10. Theorems: the message TX has in hand, the buffers that are out, the messages the engine
    notices.
11. To do: the dot correction.
