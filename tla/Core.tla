-------------------------------- MODULE Core --------------------------------
(***************************************************************************)
(* The critical section of src/src/hal/core.h, as the two functions of     *)
(* src/src/hal/platform/stm32/common/core/core.c make it: a context asks   *)
(* whether the interrupt is enabled, disables it, and at the end enables   *)
(* it again if it was. Reading and disabling are two accesses to the       *)
(* controller, and a step each; saved is the local variable of each        *)
(* context in which it keeps what it read.                                 *)
(*                                                                         *)
(* The controller is external: the NVIC with its set of enabled            *)
(* interrupts, and PRIMASK, which masks all of them when it is set. A      *)
(* system exception as the tick has a negative number and no bit in the    *)
(* NVIC: __NVIC_GetEnableIRQ answers 0 for it, and __NVIC_DisableIRQ and   *)
(* __NVIC_EnableIRQ do nothing.                                            *)
(***************************************************************************)
CONSTANTS
  IRQ_ALL         \* the number that stands for all interrupts

SYSTICK == "SYSTICK_IRQ"

SystemExceptions == {SYSTICK}

VARIABLES
  enabled,        \* the interrupts enabled in the NVIC, never a system exception
  primask,        \* PRIMASK of the processor
  saved           \* per context, what it has saved

core == <<enabled, primask, saved>>

\* The interrupt can be taken.
Unmasked(irq) == irq \in enabled \cup SystemExceptions /\ ~primask

\* Mutant of SaveState: the interrupt is disabled before it is looked at.
SaveStateDisabled(c, irq) ==
  /\ saved' = [saved EXCEPT ![c] = FALSE]
  /\ UNCHANGED <<enabled, primask>>

\* state = __get_PRIMASK() or state = __NVIC_GetEnableIRQ()
SaveState(c, irq) ==
  /\ saved' = [saved EXCEPT ![c] = IF irq = IRQ_ALL THEN primask ELSE irq \in enabled]
  /\ UNCHANGED <<enabled, primask>>

\* __disable_irq() or __NVIC_DisableIRQ()
DisableInterrupt(irq) ==
  /\ IF irq = IRQ_ALL
       THEN primask' = TRUE /\ UNCHANGED enabled
       ELSE enabled' = enabled \ {irq} /\ UNCHANGED primask
  /\ UNCHANGED saved

\* Mutant of RestoreInterrupt: the interrupt is enabled whatever was saved.
RestoreInterruptAlways(c, irq) ==
  /\ enabled' = enabled \cup ({irq} \ SystemExceptions)
  /\ UNCHANGED <<primask, saved>>

\* "wasEnabled": what was saved of PRIMASK is the opposite (core.c:7, 21).
RestoreInterrupt(c, irq) ==
  /\ IF irq = IRQ_ALL
       THEN primask' = (primask /\ ~saved[c]) /\ UNCHANGED enabled
       ELSE /\ enabled' = IF saved[c] THEN enabled \cup ({irq} \ SystemExceptions) ELSE enabled
            /\ UNCHANGED primask
  /\ UNCHANGED saved

=============================================================================
