# Formal models of mcu_library

`mcu_library` is a collection of C libraries for bare-metal microcontrollers: queues, a
hierarchical state machine, active objects, a data model, filters and drivers for the STM32F4.
This directory holds TLA+ models of the parts that carry its logic, the TLC configurations
that model-check them and TLAPS proofs of the properties that matter most. Paths such as
`msgq.c` are relative to the component's directory under `src/src/`.

Every definition is translated from the C code. Where the code promises something it does not
do, the model does what the code does, and `PROJECT.json` lists the disagreement under
`findings`. Some files do not compile as they stand (`hsm.c` lacks a semicolon on line 10,
`queue.c` mixes two names for one parameter); there the evident meaning is modelled, and a
finding is reported only where the evident meaning is itself at odds with a promise. Where the code
compiles and does something odd (an address for a value, one variable for another), the models do the
same, and a finding says what follows from it; four of the findings are shown by runs of their own.

## 1. Inventory

| component | state it keeps | operations | what is hard | what makes it correct |
|---|---|---|---|---|
| **message queue** `utils/message_queue` | ring of bytes, `head`, `tail` | `Msgq_Init`, `Msgq_Push`, `Msgq_Pop`, `Msgq_Is_Msg_Available` | producers preempt each other and the consumer between reservation and commit; two-part copies at the wrap | blocks never overlap, committed bytes stay, FIFO of reservations, nothing stuck |
| **hierarchical state machine** `libs/state_machine` | `curr_state`, `target_state` | `Hsm_Init`, `Hsm_Dispatch`, `Hsm_Transition` | long sequences of signals, bubbling, nested initial transitions | entries and exits follow the hierarchy; `curr_state` is the innermost active state; every signal ends |
| **item queue** `utils/queue` | ring of items, `index`, `outdex`, overrun mode | `Queue_Init`, `Queue_Flush`, `Queue_Push`, `Queue_Pop` | no locking: one free slot separates producer and consumer | FIFO of `len - 1` items in both modes |
| **active objects** `libs/active_object` | one thread and event queue per object; table of time events | `Ao_Post_Event`, the event loop, `Ao_Timeevent_Arm/_Stop`, `Ao_TimeEvent_Service` | the tick interrupt posts and counts while objects arm and stop; expiries already queued when a timer is stopped | each expiry posts once and at its time; handlers are called for it |
| **UART driver** `hal/platform/stm32/f4/uart` | two FIFOs, interrupt enables | send, receive, the interrupt handler | handler against main loop on the enable bit; characters that arrive inside of the handler; full receive FIFO | no byte between caller and handler lost, duplicated or reordered; the handler never stops taking them |
| **one-wire master** `libs/owi_master` | state, `bits_done`, data in and out | reset, byte write, byte read, the callback | callback-driven state machine over the UART, failures in the middle of a byte | a byte is eight slots; an operation ends in `IDLE` or `FAIL` |
| **I2C slave driver** `hal/platform/stm32/f4/i2c` | state, buffer, index | event and error interrupts | order of the events of the bus; lengths at the boundary | bytes go out in order, never past the buffer; a stop is served before the next transfer |
| **data model** `libs/data_model` | value, lock, update count, observers | lock, get, set, notify | points used from several contexts | readers see whole values; counts follow updates |
| **data broker** `libs/data_broker` | value, sequence number | read, write | 16-bit sequence number | a change is seen |
| **PID controller** `libs/pid` | integral, mode, limits | update, override, resume | anti-windup, bumpless return | output inside its limits |
| **tick arithmetic** `utils/delay`, `utils/sleep` | a free-running timer | `Delay_Ticks_Since` | rollover | elapsed ticks are right at every difference |
| **digital filters** `libs/dsp` | past samples | one sample in, one out | ring of samples in the FIR filter | convolution with the last samples |
| **checksums, bit operations** `utils/checksum`, `utils/bit_twiddling` | none | pure functions | overflow at the width | the errors they are for do not pass |
| **interrupt control** `hal/platform/stm32/common/core` | PRIMASK, the NVIC | critical sections | nesting; handlers with sections of their own between reading and disabling | the interrupt stays out, and the state before the section is restored |
| **GPIO and timer drivers** `hal/platform/stm32/f4` | bits of the pins in the registers of a port | configure, set, toggle | contexts that share a port | no call changes the level of another pin, and none of the interrupt the configuration of the main loop's |
| **ADC driver** `hal/platform/stm32/f4/adc` | registers of the converter | initialise, calibrate, convert | commands that the converter ignores while it is busy; bits that it clears between load and store | it takes every command it is given |
| **assertions** `utils/assert` | none | `assert` | stops a context for good | not reached by legal use |

Without a module: the current loop and the complex numbers (floating point, sequential), the lists
and the stack (sequential, partly not compilable and used by nothing), the scheduler (a stub), and
the headers without implementation (persistent storage, protocols, bootloader, command line, the
other HAL interfaces). Section 5 says more.

How they interact:

- The message queue calls `Core_Interrupts_SaveAndDisable` and `..._Restore` of the interrupt
  control; a producer is any interrupt handler, task or the main loop.
- Active objects post through a queue to their own thread; `Ao_TimeEvent_Service` runs in the
  SysTick interrupt and posts to the objects, which arm and stop time events in their turn.
- The UART driver and the active objects use the critical section of the interrupt control.
- The one-wire master drives the UART driver and is called back from its transmit interrupt.
- The I2C slave driver calls its application back from its interrupt, which attaches buffers there.
- The data model notifies observers by callback while a point may be locked by its caller.
- The state machine has no concurrency: its user serialises `Hsm_Dispatch`.

`PROJECT.json` lists every hazard at its line, with the properties that would catch it.

## 2. Modules

```
MsgqFifo <- Msgq <- MsgqInv <- MCMsgq          QueueFifo <- Queue <- MCQueue
                       ^                                      ^
                   MsgqProofs                             QueueProofs

Core <- ActiveObject <- MCActiveObject         Core, UartChannel <- Uart <- UartProofs
              ^
      ActiveObjectProofs                       Core <- Sections

Hsm <- MCHsm, HsmProofs     I2cSlave <- MCI2cSlave, I2cProofs     OwiMaster <- MCOwiMaster, OwiProofs

Modelpoint, DataPoint, Pid, Filters, Checksums, Delay, Gpio, Adc, Sections <- Units <- MCUnits, UnitsProofs
```

An arrow leads from a module to what it extends or instantiates; `MsgqFifo`, `QueueFifo` and
`UartChannel` are abstract specifications, which `Msgq`, `Queue` and `Uart` are shown to refine.

### Msgq: the message queue

One step is one access to the shared memory, so that another context may come between any two
of them. A context is an element of `Producers` or the `Consumer`; `pc` says where it is in its
call. `CanRun(c)` models the critical section as `Msgq_Push` uses it: while a context has
interrupts disabled (`IrqOff`), no other context of the same core moves. Contexts of other
cores do: `CoreOf` decides. The runs and the theorems are about one core; on two, both producers
may find room before either moves `head` (finding `msgq.c:83`).

| step | code in `msgq.c` |
|---|---|
| `PushCheck`, `PushReject` | interrupts off, free space, the comparison (82-102) |
| `PushReserve` | `is_ready_pos = head`, `head` moves, past the end of the ring if need be (104-106) |
| `PushWrap` | `head` is masked (107-108) |
| `PushMark` | the ready byte is cleared, interrupts on (110-114) |
| `PushLen`, `PushData`, `PushCommit` | length, payload, ready byte (116-123) |
| `PopEmpty`, `PopNotEmpty`, `PopReady` | `Msgq_Is_Msg_Available`, two reads (174-181) |
| `PopLen`, `PopCopy`, `PopRelease` | length and its assertion, payload, `tail` moves (148-164) |
| `Reset` | `Msgq_Init` while no call is in progress (55-62) |

`buffer` is the array of bytes, so that what a producer overwrites is really overwritten.
`CopyToQueue` and `CopyFromQueue` are the two-part copies; the second part of a copy out of the
ring comes from outside of the queue, as in the code (finding `msgq.c:232`), and is any byte of
`Foreign`. The history variable `inflight` records which blocks were reserved and not yet
released; no guard reads it.

Between `PushReserve` and `PushWrap` `head` may lie outside of the ring. Interrupts are disabled, so on
one core no other context sees it; the properties read it as `Top`, masked. Abstracted: memory
accesses take effect in program order (the buffer is not `volatile`; see the hazard at `msgq.c:123`). The rejected push keeps
nothing, so it is one step.

`MsgqFifo` is what the header promises: producers reserve places in an order, fill them in,
commit them, and the consumer is handed the messages in the order of the reservations.
`Msgq!FifoSpec` is the refinement, with `slots` read off `inflight` (`SlotOf`).

### Hsm: the hierarchical state machine

`Hsm_Dispatch`, `Hsm_Init` and the helpers `Find_Lca`, `Build_Ancestor_List`, `Enter_Down_To` and
`Exit_Up_To`, one handler call or one loop iteration per step. State handlers are user code: a
handler of a signal may handle it, pass it to its parent, or ask for a transition to any state
of `Targets`; the INIT handler may ask for a transition to a descendant (the rules of the
library's README, 132-146). `Assertions` distinguishes the two builds: with assertions
`Hsm_Init` and the nested initial transitions call `Find_Lca` inside of an `assert`, without
them they do not. `active` is a history variable: the states entered and not exited since.

### Queue: the item queue

One step is a comparison, a `memcpy` or the move of an index. The queue has no locking of its
own, so a configuration says in which overrun modes (`Locked`) its callers serialise their
calls. `QueueFifo` is a FIFO of at most `Bound` items which, by its mode, drops the oldest item or
refuses the newest when it is full; the refinement reads its items off the ring. The history
variable `flushes` tells a flush from a step that happens to leave the indices equal, which would
otherwise look the same from outside.

### OwiMaster: the one-wire master

Two contexts: the caller, whose functions are one access per step, and the transmit-done callback,
an interrupt that may come between any two of them and is one step with one disjunct per branch
(`DoneReset`, `DoneWrite`, `DoneWriteLast`, `DoneRead`, `DoneReadLast`, `DoneUnheard`,
`DoneUnawaited`). The UART and the wire are external, modelled from how `owi_master.c` uses them:
`tx` are the characters on their way out, of which `Uart_Flush_Tx` leaves up to two, those in the
registers; each is heard as itself, as something else, or not at all, and the callback runs when
the last one is out. (`uart.c` has no callback; the interface is that of `uart.h`.) Baud rates are
left out: a character that is sent at the wrong one is heard as something else.

The caller requests, aborts and initialises at any moment. The history variable `op` keeps what the
last operation sent and heard as long as it has the UART to itself: nothing was on its way out when
it was requested, and the callback did not run before the operation was set up (from the request to
the assignment of `bits_done`, which takes less than the 87 us of a character unless the caller is
held up). `SendsAndReports` is about such operations, the others are findings;
`OperationsEnd` and `TypeOK` hold for all.

### Core and ActiveObject: the critical section and the active objects

`Core` is what `core.c` makes of a critical section: a context saves whether the interrupt is enabled,
disables it, and restores it at the end, each a step. The controller is external and is that of the
processor: an interrupt of the NVIC can be disabled, a system exception such as the tick
(`SystemExceptions`) cannot, is never found enabled and never enabled; `IRQ_ALL` stands for PRIMASK,
saved as the code does, with its meaning turned round. `Sections` nests critical sections, those of
functions that a block calls and those of handlers that come between any two accesses, and
`ActiveObject` and `Uart` interleave their contexts with those of `Core`.

In `ActiveObject` the main program registers time events and starts the objects, and each object has a
thread. A thread takes one access to shared memory per step (`DispatchInit`, `DispatchNext`, `Return`,
`PostEvent`; `Call`, `Enter`, `SetTimeout`, `SetPeriod`, `Leave` for arming and stopping a time event)
and runs while it is `running`; only the tick interrupt takes the processor from it, since the event loop
polls. The tick comes between any two steps of a thread, those inside of a critical section included,
because that section is against the tick and has no effect. The interrupt is `TickService`, one iteration
of the loop of `Ao_TimeEvent_Service` per step: `TickBegin` enters it, `ServeOne` treats the time event
at `entry` of the table (`CountDown`, `Expire`, or `ServeNull` for an empty entry), and `TickReturn` leaves
the handler for the thread that the scheduler chooses. While `entry` is not 0 the interrupt has the
processor. A full queue is an assertion, in a thread as in the interrupt: `halted` says which one has
failed, and nothing moves after it.

A queue holds what `Ao_Post_Event` pushes, the address of its parameter (`AddressOf`), and the loop hands
that to the handler. The parameter is gone by then, so what the handler finds there is open, and a
handler of the model may do anything whatever it is given.
`time_events[time_events_num++] = time_event` leaves the order of its two stores open: the model
has both, and halts on the empty entry that a tick then meets. The threads, the queues of the RTOS
(`Ringfifo`) and the choice of what a handler does are external. The history variable `since` keeps
what a time event was armed with, and how many ticks and expiries there have been, up to `Horizon`
ticks, where it is forgotten; the ticks themselves go on. It is forgotten as well when the time event
expires between the two stores of `Ao_Timeevent_Arm`, and is then reloaded with an old period (finding `active_object.c:75`).

### Uart and UartChannel: the UART driver

The caller takes one access per step; `CR1 |= ...` is a load and a store. The handler is two steps, `IrqRx`
(`HandleRx`) and `IrqTx` (`HandleTx`), which come before any step of the caller while its interrupt is pending
and not disabled; a character may arrive between them. `Mask` and `Unmask` are the PRIMASK sections of
other code. The character that the handler pops is stored at the address that the value of DR names
(`Transmit`): that reads DR, which takes a character that has just arrived from the receiver, and the store may
be a `fault`, after which the processor does nothing. Registers of the UART, the line and `Ringfifo` are external.
`CR1` has the two bits that the driver changes. `UartChannel` is what the driver promises between its callers and
its handler: two channels, of which a flush takes back what has not been taken. `Uart_Flush_All` is a `FlushRx`
followed by a `FlushTx`.

### I2cSlave: the I2C slave driver

The event handler serves one flag per interrupt and is one step, with one action per branch (`OnStop`,
`AddrWrite`, `AddrRead`, `OnNack`, `OnTx`, `OnRx`), each enabled when none of the flags that come before
it is set; `OnError` is the error handler. `Enable`, `Disable` (a load and a store of CR1) and
`BufferAttach` are the calls of the application. `state` and `status` are two variables as in the code: a write
sets the one and a read the other, and `DoneCallback` is the callback that a stop finds from them. Callbacks attach any buffer at an address match
and acknowledge any byte or not. Peripheral and bus master are external: the master reads and writes
as much as it likes, ends by a stop or goes on by a repeated start, and runs into bus errors; the
peripheral stretches the clock where the manual has it, and otherwise goes on between any two interrupts.
The history variable `xfer` keeps the bytes of the transfer, whether the driver was disabled in it (`cut`), whether
it began while the handler still owed a byte to the last one (`late`; a finding says what happens then) and which
transfer's end has still to be reported (`due`).

### The units

Small components that share nothing; `Units` puts them side by side, one of them per behaviour, and says
which of their properties the run checks. `MCUnits` gives it its values.

| module | code | contexts | abstraction |
|---|---|---|---|
| `Modelpoint` | `modelpoint.c` | main loop and interrupt, one access per step | the value is one word; the update count is small and wraps |
| `DataPoint` | `dp_uint32.c` | writer in the main loop, reader in an interrupt | the sequence number is small and wraps |
| `Pid` | `pid.c` | one | integers; a filter of the user returns any number of `Filtered`, with a derivative filter or none also what the low pass may |
| `Filters` | `fir_filter.c`, `iir_filter.c`, `iir_filter_fp.c` | one | integers; numbers of few bits in fixed point |
| `Checksums` | `koopman.c`, `fletcher.c`, `bit_twiddling.c` | one | data and two bytes of check in which bits are inverted on the way; the checksums are recursive functions of the bytes |
| `Delay` | `delay.c` | one, and the timer | a timer of few ticks |
| `Gpio` | `gpio.c` | main loop and interrupt on pins of one port, one register access per step | a register is a field per pin, a field the set of its bits that are 1; a write of BSRR changes only the bits it names; the stray store of `Gpio_Reg_Write` is a fault or nothing |
| `Adc` | `adc.c` | one, and the converter, which may clear bits between the load and the store of `CR \|= bit` | the bits by which command and answer are exchanged; that the converter needs time after ADEN and after the calibration is one bit, `settled` |
| `Sections` | `core.c`, `core.h` | functions and handlers, nested | depth of the nesting |

## 3. Runs

| run | question | instance | distinct states |
|---|---|---|---|
| `msgq` | Is the message queue a FIFO with intact messages, and does it always move on? | capacity 8, blocks of 3 and of 6 bytes, two producers and the consumer on one core | 56,756 |
| `msgq_full` | Does a full queue say that messages are available, as its test demands? | blocks of 4 bytes in a ring of 8 | violated |
| `hsm` | Do entries and exits follow the hierarchy, and does every signal end? | the eight states of `test_hsm.c`, any handler answers, no assertions | 2,766 |
| `hsm_asserts` | Do legal transitions stay clear of the assertions? | the same with assertions | violated |
| `queue` | Is the item queue a FIFO in both modes? | capacity 4, one producer, one consumer, three items | 24,102 up to symmetry of the items |
| `owi` | Does every operation end, and do those that have the UART to themselves send and report what they should? | bytes of 3 bits, any echo, requests and aborts at any moment | 440,279 |
| `owi_read` | Does a read return the byte that was read? | bytes of 8 bits | violated |
| `ao` | Do time events expire when they should and reach their objects, whatever the objects do meanwhile? | two objects with queues of two, one time event, one-shot and periodic | 86,482 |
| `uart` | Is the driver two byte channels, and does every call return? | two characters, FIFOs of two | 8,888 |
| `i2c` | Does a master read and write what the application has, and does no transfer hold the bus? | buffers of one and two bytes, transfers of up to two, both directions, errors | 196,929 |
| `i2c_done` | Is the end of a transfer reported? | the same | violated |
| `units` | Do the small libraries keep what they are for? | see below | 903,531 |

A run may stop where its system may: `units` alone does not check for deadlock, because filters and checksums end at the bound of their samples and errors, a refused configuration
of the converter and an assertion end it, and a fault ends the use of the port. Where `ActiveObject` is halted by an assertion
the model stutters (`Halted`), and its properties say so.

Why the bounds are enough:

- *Msgq.* With blocks of 3 and 6 in a ring of 8, reservations start at each of the eight
  offsets, so that header and payload cross the end of the buffer at every split, the ring holds
  up to two blocks at once, and a push meets every case of the free-space computation. Two
  producers suffice for one to be preempted by another inside of its push; a third could only
  be in the same places. The payloads `<<1>>`, `<<2>>` and `<<1, 2, 3, 1>>` include the value
  of a set ready byte, and lengths 1 and 4, so a stale or shifted byte may be mistaken for a
  mark or a length, which is the dangerous case. Sums of 3 and 6 are never a power of two: the
  passing run stays clear of the exact fill, which `msgq_full` shows.
- *Hsm.* The hierarchy has two branches of different depth, three siblings and a chain of four,
  so all relations of the two ends of a transition occur: self, parent, child, sibling, cousin,
  top. The depth stays below `HSM_MAX_DEPTH` = 16; beyond it the code truncates (finding).
- *Queue.* Four slots, one of them kept free: the indices go around, the queue gets full and
  empty, and three items make loss, duplication and reordering visible.

- *ActiveObject.* The time event belongs to one object and the other posts to it and preempts it, so
  that a call of Arm or Stop can be interrupted by ticks and by the other thread at every step. Timeout 1
  without a period and with period 2 tell the two apart, a queue of two gets full, and `Horizon` 5 sees
  the second and third expiry.
- *Uart.* FIFOs of two get full with one character in each of the registers behind them; two
  characters make loss, doubling and reordering visible.
- *I2cSlave.* One buffer is shorter than the longest transfer and one as long, so the filler, the byte
  without room and the exact end all occur, and what one transfer leaves behind meets the next one in
  each direction. Two bytes tell the places of a buffer apart.
- *MCUnits.* Two values are enough to tell an old one from a new one, and counters of three values
  come round; two subscribers are the first and the last. One pin of the main loop and one of the interrupt share
  every register, in two configurations that between them write all registers but EMR and FTSR, which are written
  like RTSR and IMR. Four sections inside of each other, of two interrupts and the tick, hold one
  twice with another between. A timer of six ticks rolls over at every distance. Seven samples go around the
  ring of a FIR filter of order five, and the fixed-point filter overflows its four bits. The checksums get
  every error of one and two bits, in the data and in the two bytes of check, in words of 12, 6 and 2 bytes in which
  any two bits have any two values (of three bits in those of 2 bytes, so that parity meets one). 12 and 6 bytes
  are the longest words in which the checksums of 8 bits are sure to see two errors; those of 16 bits are at 4092 and
  2046 bytes, for which TLC evaluates `Distinguishes`. The PID gets gains with all terms and for an
  integrating process, with limits on both sides of zero and from zero on, and filters that return numbers beyond
  all limits.
- *OwiMaster.* The number of bits of a byte is a constant, 8 in the code and in `owi_read`. The loop
  from bit to bit treats all of them alike except for the first and the last, and 3 bits have one in
  between, with two bytes that differ from their mirror images; at 4 bits the run holds as well
  (1.3 million states).

The properties, beyond one type invariant per module:

- `BlocksTileRing`, `SpaceIsExact`: the reserved blocks lie one behind the other from `tail` to
  `head`, never fill the ring, and what a push computes as free is what they leave.
- `CommittedIntact`: from commit to release nobody touches a byte of a block.
- `PopTakesOldest`: a pop between its check and its release works on the oldest reservation,
  committed, whatever is pushed meanwhile, and hands out what was pushed with it.
- `RingInv`: the inductive invariant of the proofs, checked before it is proved.
- `FifoSpec` (Msgq): the refinement of `MsgqFifo`, its fairness included.
- `TailMovesOn`: no message stays at the tail for ever, even when its producer was preempted.
- `ActiveIsPath`: at every moment the active states lead from top inwards, so no state is entered
  before its parent or left before its child.
- `CurrIsInnermost`: `curr_state` is the innermost active state between two signals. (That only handlers of
  active states are given one, `HandlersAreActive`, follows and is proved only.)
- `CommonAncestorsStay`: a transition leaves what is an ancestor of both of its ends alone.
- `SignalsEnd`: every signal is done with.
- `CopiesApart`, `FifoSpec` (Queue): the copies that overlap in time are of different slots; every
  interleaving is one of a FIFO.
- `SendsAndReports`, of the two parts `WriteSendsByte` and `OutcomeIsHeard`: an operation sends its slots in
  order and says of the wire what was heard.
- `OperationsEnd`: no operation hangs, not even one that is mixed up with another.

- `ExpiresOnTime`: the number of expiries is what timeout, period and ticks demand, however arming,
  stopping and the tick run into each other; a stopped time event is quiet.
- `ExpiryCallsHandler`: an armed time event makes the loop of its object call the handler with what was pushed
  for it, unless the object arms or stops it before or an assertion stops the program. It is
  not an event (finding `active_object.c:57`).
- `TxIsArmed`: what is in the transmit FIFO will be taken, although handler and caller both modify CR1.
- `ChannelSpec`: the refinement of `UartChannel`, its fairness included: nothing between caller and handler is lost,
  doubled or reordered, but for a character that arrives inside of the handler (`uart.c:95`).
- `CallsReturn`: a call returns unless the receive FIFO is full or a fault has stopped the processor, which are findings.
- `ReadsBuffer`, `AckedIsStored`, `StopComesFirst`, `TransfersEnd`: a master reads the buffer in order and
  filler after it; what is acknowledged is stored; a stop is handled before anything of the next
  transfer, whose interrupts and first byte it would take; the clock is not stretched for ever.
- `WithinLimits` (Pid): the integral and, unless the user's output filter has the last word (finding `pid.c:106`), the
  output stay within the limits in force, through every change of mode and limits.
- `ChangesAreSeen` (model point and data point), `FiltersFollowSamples`,
  `ErrorsAreDetected` (checksums and parity).
- `PinsAreKept` (`LevelsAreKept` and `ConfigIsKept` of Gpio): a pin has the level that its last call meant; the configuration of a pin of
  the main loop is not lost to an interrupt that configures its own pins in the same registers. The pins of
  the interrupt may lose theirs (finding `gpio.c:51`).
- `CommandsAreTaken` (Adc): the converter ignores no command of the driver, with two exceptions, which are
  findings: after a store has started a conversion again (`adc.c:26`) and before it is ready (`adc.c:128`).
- `DelaysAreKept` (Delay): from the first tick on no delay ends early or more than a tick late; before it every
  delay is over (finding `delay.c:29`).
- `SectionsExclude`, `SectionsRestore`: the interrupt of a section stays out of its block and is enabled afterwards if it
  was before, whatever other sections come in between; sections of all interrupts do not restore them
  (finding `core.c:7`), and sections of the tick exclude nobody (`core.c:11`).

Every property of a passing run has a mutant of the model, the way a plausible bug would change the code, that
violates it (`PROJECT.json`, `mutants`).

Fairness, and what in the code or the hardware justifies it:

- *Msgq*: weak fairness of every producer from its reservation on and of the consumer.
  `msgq.h` (14-16) describes preempted producers that run on; an interrupt handler always runs to
  its end, and the consumer polls. No producer is required to push.
- *Hsm*: weak fairness of `Proceed`, everything but the arrival of signals: it is one thread of plain
  loops.
- *OwiMaster*: weak fairness of a call that was made and of the UART, which sends what it is given;
  nobody has to request anything.
- *ActiveObject*: weak fairness of `Main`; strong fairness of the tick and of every thread, because a thread
  runs only in its turns and the tick is not served while it is being served. It stands for a scheduler
  that gives every thread its turns and for threads that get something done in one.
- *Uart*: weak fairness of the handler; strong fairness of a call that has begun (`GoOn`), which interrupts
  disable again and again, and of `Unmask`: the line is slow, so that there is time between two characters, and
  nobody masks interrupts for ever. Nothing is required of a receiver, nor that the FIFO is ever emptied.
- *I2cSlave*: strong fairness of the event handler, which errors keep out (the interrupt for errors comes
  first, weakly fair), of the peripheral, of a master that reads its last byte and of its stop: a
  master that neither restarts nor runs into errors for ever. It need not start a transfer.
- *Queue* and the units have no liveness properties.

## 4. Proofs

`MsgqProofs!TypeCorrect` (`Spec => []TypeOK`) holds for every capacity, every set of messages, any
number of contexts on one core (`SingleCore`), and also when the ring is filled exactly. It says that `head` lies outside
of the ring only while a producer that has interrupts disabled is about to mask it.

`RingCorrect` proves the inductive invariant `RingInv` under two assumptions:

- `SingleCore`: all contexts run on one core (with two it is false: finding `msgq.c:83`);
- `NoExactFill`: no sum of block sizes is the capacity (otherwise it is false: `msgq_full`). It is
  stated as the existence of a set of sums that is closed under adding a block and does not hold
  the capacity, which needs no recursion; block sizes with a common divisor above one that does
  not divide the capacity satisfy it, as the instance of the run does.

`BlocksTileRing` alone is not inductive. Why each part of `RingInv` is needed:

- `CriticalInv`: only one context has interrupts disabled, and the space a push found is still
  there when it reserves; otherwise a reservation could overlap another.
- `OwnerInv`: each block that is not ready belongs to exactly one producer in the middle of its
  push, with the position it remembers; otherwise a commit could mark another block.
- `BytesInv`: how much of a block has been written, and that it is there. It makes the ready
  byte of the block at the tail mean what it says, and the length that of the message.
- `SumsInv`: the blocks from any one to any later one take a sum of block sizes, so that the end
  of the last never reaches the tail again.
- `ConsumerInv`: what the consumer found still holds at its later steps.

`TilingCorrect`, `SpaceCorrect`, `CommittedCorrect` and `PopCorrect` follow from it. The proof
has one lemma per action; its arithmetic rests on lemmas about `Wrap` and `Off` for a capacity of
any value.

`MsgqIsFifo` is the safety half of `FifoSpec` under the same assumptions: the initial states are those of
`MsgqFifo`, and every step reserves, commits, delivers or resets there or changes nothing there. It needs of
`RingInv` that a release is of the oldest block and that what the consumer has copied is what a
FIFO may hand out for it (`CopyIsHanded`, byte by byte from `BytesInv`): all of it or, for a payload that was
cut in two, its first part followed by what lies behind the storage.

`QueueProofs` proves the type invariant for any use, and, under `Discipline` (unserialised calls
only in drop-new mode and only of one producer with one consumer) and a capacity above one,
`CopiesApart` and the refinement `Spec => FifoSpec`. The inductive invariant `QueueInv` says that
a serialised call is alone (`SerialInv`), that a producer past its check has a free slot to write
and its item is in it when it publishes (`ProducerInv`), and that a consumer past its check has
the oldest item (`ConsumerInv`).

`UartProofs` proves the type invariant, `TxIsArmed` and the safety half of `ChannelSpec`, for any set of
characters and any length of the FIFOs. `TxIsArmed` is inductive with the type invariant: its second
disjunct says where in `Uart_Char_Put` the interrupt may still be off, its first that a store of
CR1 in progress does not take the bit back. The refinement has one lemma per group of steps: those of the caller, of
the handler and of the line.

`ActiveObjectProofs` proves the type invariant and `ExpiresOnTime` for any objects, any number
of time events, any timeouts and periods and any `Horizon`, with the tick between any two accesses. The
inductive invariant `AoInv`:

- `ThreadInv`: no thread runs before all is set up.
- `RegistryInv`: the table of time events is filled from the front, without doubles; an entry is empty while
  counted, or filled while not counted yet, only between the two stores of a registration.
- `CallInv`: a call of Arm or Stop is about a time event of its own object.
- `TimingInv`: for each time event, what timeout, period, ticks and expiries have to do with each other; it
  depends on whether the loop of the interrupt has been at its entry, which is where `ExpiresOnTime` alone is not
  inductive, and on how far the call has got that is arming it:
  the tick may find the new timeout with the old period.

The step of an expiry needs that a periodic time event expires every `period` ticks, which is a lemma
about division.

`OwiProofs` proves the type invariant and `SendsAndReports`, one part after the other, for bytes of any number of bits.
`OwiInv` relates the progress of the driver to what was sent and heard: at bit `bits_done` of a write the bits
before it have been sent, in their order, and were heard as they were sent; the character on its way is the next
one; and of a reset the one character that was sent. It says nothing of an operation whose
UART was in use, for which these properties are false (findings).

`I2cProofs` proves the type invariant, `ReadsBuffer`, `AckedIsStored` and `StopComesFirst` for any buffers
and transfers of any length, from the inductive invariant `I2cInv`:

- `FlagsInv`: which flags can be set in which phase of the transfer, and that the clock is stretched
  while they are; otherwise the handler could answer a flag of the last transfer in this one. `StopComesFirst` is part of it.
- `ReadInv`: the bytes sent, the one in the shift register and the one in the data register are the first
  ones of the buffer and then the filler, and `index` is how many of the buffer were given away.
- `WriteInv`: the bytes acknowledged are the first ones of the buffer, `index` is their number until the
  handler has decided, and a byte it lets pass is in the buffer already.

`HsmProofs` proves the type invariant, `ActiveIsPath`, `CurrIsInnermost`, `HandlersAreActive` and
`CommonAncestorsStay` for every hierarchy and whatever the handlers answer, with and without
assertions, under one assumption, `Shallow`: every state has at most `MaxDepth` ancestors. Deeper ones are
truncated (a finding). The inductive invariant `HsmInv`:

- `PathInv`: the active states form a path from top, in which the place of a state is its depth;
- `WhereInv`: where that path ends at each point: `curr_state` between two signals, the cursor
  during exits, the common ancestor before the entries, the parent of the next one during them;
- `ListInv`: the list of ancestors leads from the target to just below the common ancestor, and
  is never longer than its places;
- `CommonInv`: what the search for the common ancestor has covered, so that what it finds is the closest one.

That a state is an ancestor of another is defined by closed sets (every set that holds the one and is
closed under parents holds the other), so that the proofs need no induction: to show something of
all ancestors of a state they name a closed set.

`UnitsProofs` proves what the run `units` checks. `UnitsInv` is the invariant of the unit that runs:

- *Pid* (`LimitsCorrect`), for all gains, limits, measurements, set points and derivative filters. `LimitsInv` adds the
  types and that the limits are in order; without the latter a clamp bounds nothing.
- *Modelpoint, DataPoint* (`ChangesCorrect`), for any values, subscribers and ranges of the counters. A
  subscriber that has not seen the value is going to be called by the main loop or the interrupt (`WillTell`); the
  sequence number is the one the reader saw plus the changes since, modulo its range.
- *Filters* (`FiltersCorrect`), for every odd order of at least three, all taps, coefficients, samples,
  scales and widths. The ring holds the last samples (`RingHolds`), from which the sums from both of its
  ends are the convolution: the pairs of a sum around its middle (`TotalFolds`). The IIR filters
  carry a solution of their difference equation on, and a solution is unique. The references are recursive
  functions. The provers cannot instantiate the induction theorems of the library, so `Induction`
  is about a set of numbers, and each use of it defines the set.
- *Delay* (`DelaysCorrect`), for a timer of any period: the timer is where the time that has passed has
  brought it.
- *Adc* (`CommandsCorrect`): which command bits can be set at each point of the driver (`CommandsWaited`), and what may have
  changed between a load of CR and its store (`LoadHolds`): only a conversion ends there.
- *Gpio* (`PinsCorrect`), for any pins, owners and configurations: what a toggle has read of its
  pin still holds when it writes, and what `Gpio_Init` has loaded of the pins of the main loop still holds
  when it stores, because an interrupt ends before the main loop goes on.
- *Sections* (`SectionsExcludeCorrect`, `SectionsRestoreCorrect`), for any interrupts of the NVIC, any depth, and
  sections of single interrupts and of the tick: each section has disabled its own interrupt and no other,
  which stays so until it ends, because every section inside of it gives back what it found.
- *Checksums* (`ErrorsCorrect`), for all data and errors. The inductive invariant is only that errors are bits of the
  data or of the check; the rest is about the operators. Each checksum of Koopman is linear: an inverted
  bit adds or takes the *weight* of its position, a power of two modulo the modulus. A weight is never 0, as the modulus
  is odd, so one error is seen. Two errors cancel only if their weights are equal or add up to the modulus, that
  is, if the power of two by which the positions differ is 1 or -1, which `Distinguishes` rules out. With
  parity, an error in the data inverts the lowest bit of the check, and one in the check changes what it
  stands for; that gives the cases of one error in each and of an odd number. An error changes the first
  sum of Fletcher's checksum, a swap the second one. `Parity32` is by induction on the number of ones.
  The loops are recursive functions of the index, and the lemmas use `Induction` like those of the filters.

The assumptions about the constants (`UnitsAssumption`, `FiltersAssumption`, `PidAssumption`, `ChecksumsAssumption`)
are types, nonzero ranges, limits in order, the odd order, without which the loop of the filter does not end, and
data of at least one byte, without which the code reads past them, and that no section is of all interrupts at once,
for which the theorems are false (finding `core.c:7`). `ChecksumsAssumption` also
demands that `Short` names lengths at which the modulus distinguishes the weights of all bits. That is a computation
with powers of two, which TLC does when it evaluates the assumption; the theorem is then about all data up to those lengths.

Only model-checked:

- The liveness properties `TailMovesOn`, `SignalsEnd`, `OperationsEnd`, `ExpiryCallsHandler`, `CallsReturn` and
  `TransfersEnd`, and the fairness of `FifoSpec` (Msgq) and `ChannelSpec`: the provers have neither fairness nor
  ENABLED.

## 5. Not modelled

- *Lists and stack*: sequential containers. The lists do not compile as written (undeclared names,
  arguments in the wrong order), nothing uses them, and what they were meant to do is not evident enough to model it.
- *Current loop*: one conversion in floating point, and a state that never leaves RESET (finding).
  *Complex numbers*: arithmetic in floating point.
- *Scheduler, `timer.c`, `io.c`*: a loop marked TODO, a constant, a load and a store. `sleep.c` counts
  with a variable that is not initialised.
- *Persistent storage, protocols, bootloader, command line, other HAL interfaces, `data_broker.h`*: declarations
  without implementation. `dm_registry.c` is a list of initialisations of model points.
- *Of the digital filters*: the FIR filter in form 1 and of even order, which read past their ring or do
  not end (finding). *Of the checksums*: the versions of 32 and 64 bits, whose intermediate values are
  beyond the integers of TLC, and `log2_u32` (finding).
- *Of the I2C driver*: master mode, which is empty in the code. *Of UART, ADC and I2C*: baud rates,
  sampling times and the like.
- `Msgq_Create`, `Queue_Create` and `Hsm_Create` beyond the state they leave (a finding describes what
  `Queue_Create` allocates); `Hsm_State_Set`, a hook of the tests; the report a failed assertion prints.
- The effects of compiler and memory reordering; what a fault of the processor does beyond ending the program.
  The critical section of `Msgq` is external, for the functions it names (`Core_Interrupts_SaveAndDisable`)
  are not defined anywhere, and has the meaning that its comment gives it; those of `ActiveObject` and `Uart` are
  the functions of `core.c` on the controller of the STM32.
- What is in the memory that a dead stack slot or a stray address names (`active_object.c:57`, `uart.c:95`,
  `gpio.c:185`): a handler may do anything, and a stray store changes nothing that is modelled or ends the program.

## 6. Plan

What is left, the most useful first:

1. The safety that the liveness properties rest on, as invariants: that something can always move (no deadlock)
   needs no ENABLED when the guards are spelled out.
2. The one-wire master on top of `Uart` instead of the external interface, when `uart.c` gets the
   callbacks of `uart.h`.
