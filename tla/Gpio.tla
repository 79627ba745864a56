-------------------------------- MODULE Gpio --------------------------------
(***************************************************************************)
(* The pins of one port, src/src/hal/platform/stm32/f4/gpio/gpio.c: each   *)
(* is used by the main loop or by an interrupt, which may come between any *)
(* two register accesses of the main loop and ends before it goes on. A    *)
(* write to BSRR or BRR changes the bits of ODR that it names and no other:*)
(* that is the hardware, external.                                         *)
(*                                                                         *)
(* Fields of registers, and config->mode, are the sets of their bits that  *)
(* are 1. The clocks are left out, and a port that is unknown is refused   *)
(* without effect.                                                         *)
(***************************************************************************)
EXTENDS Integers, Sequences

CONSTANTS
  Pin,            \* the pins of the port
  OwnerOf,        \* the context that uses the pin, "main" or "isr"
  Config,         \* records: mode, speed, pull and alt_function
  PortIndex       \* the number of the port

VARIABLES
  port,           \* ODR, and the fields that configure each pin
  ctx,            \* per context its program counter and local variables
  own,            \* history: the levels, and the configuration of the pins of the
                  \* main loop, as their calls meant them
  fault           \* whether a store to no register ended the program

vars == <<port, ctx, own, fault>>

Idle == [pc |-> "idle"]

Registers == {"OSPEEDR", "OTYPER", "PUPDR", "AFR", "MODER", "EXTICR", "RTSR", "FTSR", "EMR", "IMR"}

MainPins == {p \in Pin : OwnerOf[p] = "main"}

Init ==
  /\ port = [odr |-> [p \in Pin |-> 0], config |-> [r \in Registers |-> [p \in Pin |-> {}]]]
  /\ ctx = [c \in {"main", "isr"} |-> Idle]
  /\ own = [odr |-> port.odr, config |-> [r \in Registers |-> [p \in MainPins |-> {}]]]
  /\ fault = FALSE

Runs(c) == ~fault /\ (c = "isr" \/ ctx["isr"] = Idle)

At(c, l) == Runs(c) /\ ctx[c].pc = l

-----------------------------------------------------------------------------
(* Gpio_Init.                                                              *)

\* The mode of the pin: bit 0 output, 1 alternate function, both analog. Bit 4 is the type.
\* The places of the events are not defined anywhere: these stand for them.
Moder == {0, 1}
OpenDrain == 4
ExtiIt == 8
ExtiEvt == 9
TrigRise == 10
TrigFall == 11

\* The mask is shifted, the mode is not: the bits of the mode at the place of the pin,
\* whatever they mean.
ModerField(mode, p) == {b \in Moder : 2 * p + b \in mode}

\* CLEAR_MASK or SET_MASK on the field of the pin.
Clear(reg) == <<[reg |-> reg, keep |-> FALSE, bits |-> {}]>>
SetBits(reg, bits) == <<[reg |-> reg, keep |-> TRUE, bits |-> bits]>>
Replace(reg, bits) == Clear(reg) \o SetBits(reg, bits)

If(condition, accesses) == IF condition THEN accesses ELSE <<>>

\* The read-modify-writes of a call, in their order. The type is set and never cleared.
Accesses(p, config) ==
  LET driven == config.mode \cap Moder \in {{0}, {1}}
      events == config.mode \cap {ExtiIt, ExtiEvt}
  IN If(driven, Replace("OSPEEDR", config.speed) \o SetBits("OTYPER", config.mode \cap {OpenDrain}))
     \o If(config.mode # Moder, Replace("PUPDR", config.pull))
     \o If(config.mode \cap Moder = {1}, Replace("AFR", config.alt_function))
     \o Replace("MODER", ModerField(config.mode, p))
     \o If(events # {},
           Replace("EXTICR", PortIndex)
           \o If(TrigRise \in config.mode, SetBits("RTSR", {1})) \o If(TrigFall \in config.mode, SetBits("FTSR", {1}))
           \o If(events = {ExtiEvt}, SetBits("EMR", {1})) \o If(events = {ExtiIt}, SetBits("IMR", {1})))

Configure(c, p, config) ==
  /\ At(c, "idle") /\ OwnerOf[p] = c
  /\ ctx' = [ctx EXCEPT ![c] = [pc |-> "load", pin |-> p, todo |-> Accesses(p, config)]]
  /\ UNCHANGED <<port, own, fault>>

\* The field of the pin after the access.
Modified(field, access) == (IF access.keep THEN field ELSE {}) \cup access.bits

\* The whole register is read ...
Load(c) ==
  /\ At(c, "load")
  /\ ctx' = [ctx EXCEPT ![c] = [pc |-> "store", pin |-> @.pin, todo |-> @.todo,
                                loaded |-> port.config[Head(@.todo).reg]]]
  /\ UNCHANGED <<port, own, fault>>

\* What comes after a store. Gpio_Reg_Write is given the value of the register for its address
\* and stores the new value there as well, which is a fault unless there is memory.
Stored(c, p, access, rest) ==
  /\ own' = IF c = "main" THEN [own EXCEPT !.config[access.reg][p] = Modified(@, access)] ELSE own
  /\ ctx' = [ctx EXCEPT ![c] = IF rest = <<>> THEN Idle ELSE [pc |-> "load", pin |-> p, todo |-> rest]]
  /\ fault' \in BOOLEAN

\* Mutant of Store: the fields of the other pins become 0, = in place of |= and &=.
StoreOnly(c) ==
  /\ At(c, "store")
  /\ LET p == ctx[c].pin
         access == Head(ctx[c].todo)
     IN /\ port' = [port EXCEPT !.config[access.reg] =
                      [q \in Pin |-> IF q = p THEN Modified(ctx[c].loaded[p], access) ELSE {}]]
        /\ Stored(c, p, access, Tail(ctx[c].todo))

\* ... and stored with the field of the pin modified.
Store(c) ==
  /\ At(c, "store")
  /\ LET p == ctx[c].pin
         access == Head(ctx[c].todo)
     IN /\ port' = [port EXCEPT !.config[access.reg] =
                      [ctx[c].loaded EXCEPT ![p] = Modified(@, access)]]
        /\ Stored(c, p, access, Tail(ctx[c].todo))

-----------------------------------------------------------------------------
(* Levels.                                                                 *)

\* A write of ones to BSRR or BRR that sets or clears the pin.
Drive(p, level) ==
  /\ port' = [port EXCEPT !.odr[p] = level]
  /\ own' = [own EXCEPT !.odr[p] = level]

\* Gpio_Set: the reset bit is given the state and the set bit its inverse.
Set(c, p, state) ==
  /\ At(c, "idle") /\ OwnerOf[p] = c
  /\ Drive(p, 1 - state)
  /\ UNCHANGED <<ctx, fault>>

SetHigh(c, p) == At(c, "idle") /\ OwnerOf[p] = c /\ Drive(p, 1) /\ UNCHANGED <<ctx, fault>>

SetLow(c, p) == At(c, "idle") /\ OwnerOf[p] = c /\ Drive(p, 0) /\ UNCHANGED <<ctx, fault>>

\* Gpio_Toggle reads ODR twice, in either order, and writes BSRR.
ToggleRead(c, p) ==
  /\ At(c, "idle") /\ OwnerOf[p] = c
  /\ ctx' = [ctx EXCEPT ![c] = [pc |-> "again", pin |-> p, reset |-> port.odr]]
  /\ UNCHANGED <<port, own, fault>>

ToggleReadAgain(c) ==
  /\ At(c, "again")
  /\ ctx' = [ctx EXCEPT ![c] = [pc |-> "write", pin |-> @.pin, reset |-> @.reset,
                                set |-> [q \in Pin |-> 1 - port.odr[q]]]]
  /\ UNCHANGED <<port, own, fault>>

\* The mask leaves one bit of each value; the set bit has priority.
ToggleWrite(c) ==
  /\ At(c, "write")
  /\ LET p == ctx[c].pin
         level == IF ctx[c].set[p] = 1 THEN 1 ELSE IF ctx[c].reset[p] = 1 THEN 0 ELSE port.odr[p]
     IN /\ port' = [port EXCEPT !.odr[p] = level]
        /\ own' = [own EXCEPT !.odr[p] = 1 - @]
  /\ ctx' = [ctx EXCEPT ![c] = Idle]
  /\ UNCHANGED fault

Next ==
  \E c \in {"main", "isr"} :
    \/ \E p \in Pin :
         \/ \E config \in Config : Configure(c, p, config)
         \/ \E state \in 0 .. 1 : Set(c, p, state)
         \/ SetHigh(c, p) \/ SetLow(c, p) \/ ToggleRead(c, p)
    \/ Load(c) \/ Store(c) \/ ToggleReadAgain(c) \/ ToggleWrite(c)

(***************************************************************************)
(* Every pin has the level that its last call gave it: no call for another *)
(* pin, begun before or run in between, takes it back, and a toggle inverts*)
(* the level although it writes what it read before (gpio.c lines 118-182).*)
(***************************************************************************)
LevelsAreKept == port.odr = own.odr

(***************************************************************************)
(* The pins of the main loop are configured as its calls ask, although     *)
(* Gpio_Init reads and writes the fields of all pins in registers that an  *)
(* interrupt, between its accesses too, configures its own pins in         *)
(* (gpio.c lines 48-101). For the pins of the interrupt this is not so.    *)
(***************************************************************************)
ConfigIsKept == \A r \in Registers, p \in MainPins : port.config[r][p] = own.config[r][p]

=============================================================================
