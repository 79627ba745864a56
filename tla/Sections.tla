------------------------------ MODULE Sections ------------------------------
(***************************************************************************)
(* Critical sections as src/src/hal/core.h offers them to all other code:  *)
(* CRITICAL_SECTION calls the two functions of Core before and after the   *)
(* block. A section is entered inside of another one, by a function that   *)
(* its block calls, or by the handler of an interrupt that comes between   *)
(* any two accesses; either ends before the outer one goes on.             *)
(***************************************************************************)
EXTENDS Core, Naturals

CONSTANTS
  Irq,            \* the interrupts of the NVIC that the program uses
  Numbers,        \* what its sections are given
  Nesting         \* how many sections may be inside of each other

VARIABLES
  depth,          \* how many sections have been begun and not left
  section         \* per section its number and where it is, and as a history
                  \* what was enabled when it began

vars == <<core, depth, section>>

None == [irq |-> IRQ_ALL, pc |-> "none", enabled |-> {}, primask |-> FALSE]

Init ==
  /\ enabled \in SUBSET Irq /\ primask = FALSE
  /\ saved = [d \in 1 .. Nesting |-> FALSE]
  /\ depth = 0 /\ section = [d \in 1 .. Nesting |-> None]

\* The block of the innermost section, or the handler of an interrupt that is not
\* masked, or the program outside of all sections.
CanBegin ==
  depth > 0 /\ section[depth].pc # "inside" => \E irq \in Irq \cup SystemExceptions : Unmasked(irq)

\* Core_Save_And_Disable_Interrupt looks at the interrupt ...
Begin(irq) ==
  /\ depth < Nesting /\ CanBegin
  /\ SaveState(depth + 1, irq)
  /\ depth' = depth + 1
  /\ section' = [section EXCEPT ![depth + 1] =
                   [irq |-> irq, pc |-> "saved", enabled |-> enabled, primask |-> primask]]

\* ... and disables it.
Disable ==
  /\ depth > 0 /\ section[depth].pc = "saved"
  /\ DisableInterrupt(section[depth].irq)
  /\ section' = [section EXCEPT ![depth].pc = "inside"]
  /\ UNCHANGED depth

\* Core_Restore_Interrupt.
Leave ==
  /\ depth > 0 /\ section[depth].pc = "inside"
  /\ RestoreInterrupt(depth, section[depth].irq)
  /\ depth' = depth - 1
  /\ section' = [section EXCEPT ![depth] = None]

Next == Disable \/ Leave \/ \E irq \in Numbers : Begin(irq)

Spec == Init /\ [][Next]_vars

-----------------------------------------------------------------------------
(* Properties.                                                             *)

\* "disables specified interrupt before running enclosed block" (core.h:13): no block
\* of a section is interrupted by its interrupt, whatever sections its calls and the
\* handlers of other interrupts enter and leave in the meantime. Interrupts of the NVIC only.
SectionsExclude ==
  \A d \in 1 .. depth :
    section[d].pc = "inside" /\ section[d].irq \in Irq => ~Unmasked(section[d].irq)

\* "then restore its original state after" (core.h:14): outside of all sections the
\* interrupts are as they were before, and inside of one as when the next one began.
Restored ==
  depth' < depth => enabled' = section[depth].enabled /\ primask' = section[depth].primask

=============================================================================
