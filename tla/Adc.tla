-------------------------------- MODULE Adc ---------------------------------
(***************************************************************************)
(* The converter driver of src/src/hal/platform/stm32/f4/adc/adc.c, called *)
(* from one context: Adc_Init at any time, conversions once it is done.    *)
(*                                                                         *)
(* The converter is external: it takes a command bit of CR or ignores it,  *)
(* as its state allows, and clears it when it has carried it out. For some *)
(* clocks after ADEN, until ADRDY, it ignores ADSTART, and for some after  *)
(* the end of the calibration ADEN. The flags of ISR are cleared by        *)
(* writing 1 to them, or EOC by reading DR. Channels, clock divider,       *)
(* resolution and sampling time are left out.                              *)
(***************************************************************************)
EXTENDS Naturals

VARIABLES
  regs,           \* the bits that are set in CR, ISR and CFGR1, whether the oscillator
                  \* is ready, and whether the converter has settled
  pc,             \* the program counter of the caller
  rmw,            \* CR |= bit after its load: what was loaded, the bit, and what follows
  lost            \* history: the commands ignored for what CR said, those ignored since
                  \* the converter had not settled, and whether a store has repeated a
                  \* command that ended after the load

vars == <<regs, pc, rmw, lost>>

None == [cr |-> {}, bit |-> "none", then |-> "none"]

Init ==
  /\ regs = [cr |-> {}, isr |-> {}, cfgr1 |-> {}, hsi14rdy |-> FALSE, settled |-> TRUE]
  /\ pc = "reset" /\ rmw = None
  /\ lost = [ignored |-> {}, early |-> {}, repeated |-> FALSE]

Step(from, to) == pc = from /\ pc' = to

-----------------------------------------------------------------------------
(* CR |= bit, a load and a store.                                          *)

\* What CR has to be for the converter to take the command.
Allows(cr, bit) ==
  CASE bit = "ADSTP" -> "ADSTART" \in cr
    [] bit = "ADDIS" -> "ADEN" \in cr /\ "ADSTART" \notin cr
    [] bit = "ADSTART" -> "ADEN" \in cr /\ "ADDIS" \notin cr
    [] bit \in {"ADEN", "ADCAL"} -> cr = {}

Settled(bit) == bit \in {"ADEN", "ADSTART"} => regs.settled

\* CR after the converter has looked at the bits.
Takes(cr, bits) == cr \cup {bit \in bits : Allows(cr, bit) /\ Settled(bit)}

Load(from, bit, then) ==
  /\ Step(from, "store")
  /\ rmw' = [cr |-> regs.cr, bit |-> bit, then |-> then]
  /\ UNCHANGED <<regs, lost>>

\* A conversion that ended after the load is started again: its bit is written with the
\* new one, and the converter may look at either first.
Store ==
  /\ Step("store", rmw.then) /\ rmw' = None
  /\ LET written == {rmw.bit} \cup (rmw.cr \ regs.cr)
         early == IF Allows(regs.cr, rmw.bit) /\ ~Settled(rmw.bit) THEN {rmw.bit} ELSE {}
     IN \E first \in written :
          LET cr == Takes(Takes(regs.cr, {first}), written)
          IN /\ regs' = [regs EXCEPT !.cr = cr, !.settled = @ /\ "ADEN" \notin cr \ regs.cr]
             /\ lost' = [ignored |-> lost.ignored \cup ({rmw.bit} \ (cr \cup early)),
                         early |-> lost.early \cup early,
                         repeated |-> lost.repeated \/ written # {rmw.bit}]

-----------------------------------------------------------------------------
(* Adc_Init: each wait is for the converter to clear the bit.              *)

InitStop == \E from \in {"reset", "ready"} : Load(from, "ADSTP", "stopping")

\* Mutant of InitDisable: the conversion may still be going on.
InitDisableEarly == "ADEN" \in regs.cr /\ Load("stopping", "ADDIS", "disabling")

InitDisable ==
  /\ "ADSTP" \notin regs.cr /\ "ADEN" \in regs.cr
  /\ Load("stopping", "ADDIS", "disabling")

\* The converter is off: CFGR1 is cleared.
InitClear ==
  /\ \/ "ADSTP" \notin regs.cr /\ "ADEN" \notin regs.cr /\ Step("stopping", "clock")
     \/ "ADDIS" \notin regs.cr /\ Step("disabling", "clock")
  /\ regs' = [regs EXCEPT !.cfgr1 = {}]
  /\ UNCHANGED <<rmw, lost>>

\* ERROR_NO_DEV and ERROR_INVALID_PARAM.
InitRefuse == Step("clock", "reset") /\ UNCHANGED <<regs, rmw, lost>>

\* The wait for the oscillator, or the clock of the bus.
InitClock(source) ==
  /\ source = "ADC_CLK_SRC_HSI" => regs.hsi14rdy
  /\ Step("clock", "configure")
  /\ UNCHANGED <<regs, rmw, lost>>

\* An unknown conversion mode is an assertion.
InitConfigure(mode) ==
  /\ Step("configure", IF mode = {"none"} THEN "refused" ELSE "calibrate")
  /\ regs' = [regs EXCEPT !.cfgr1 = mode \ {"none"}]
  /\ UNCHANGED <<rmw, lost>>

InitEnable == Load("enable", "ADEN", "ready")

(***************************************************************************)
(* Adc_Calibrate. No mode has a bit of the DMA, which it would save.       *)
(***************************************************************************)
CalibrateStart ==
  IF "ADEN" \in regs.cr
    THEN Step("calibrate", "asserted") /\ UNCHANGED <<regs, rmw, lost>>
    ELSE Load("calibrate", "ADCAL", "calibrating")

CalibrateDone ==
  /\ "ADCAL" \notin regs.cr
  /\ Step("calibrating", "enable")
  /\ UNCHANGED <<regs, rmw, lost>>

(***************************************************************************)
(* Conversions, started by a caller when none is going on.                 *)
(***************************************************************************)
\* CLEAR_MASK writes 0 to the flags of the list, which stay, and 1 to others.
ConversionStart(then) == "ADSTART" \notin regs.cr /\ Load("ready", "ADSTART", then)

\* The test of DISCEN looks into CR, where its bit is always 0.
IsConversionDone == "EOS" \in regs.isr

\* Adc_Channel_Read at the end of its wait: Adc_Reading_Get reads DR.
ChannelRead ==
  /\ IsConversionDone
  /\ Step("waiting", "ready")
  /\ regs' = [regs EXCEPT !.isr = @ \ {"EOC"}]
  /\ UNCHANGED <<rmw, lost>>

-----------------------------------------------------------------------------
(* The converter.                                                          *)

Clears(command, bits) ==
  /\ command \in regs.cr
  /\ regs' = [regs EXCEPT !.cr = @ \ bits, !.settled = @ /\ command # "ADCAL"]

Convert ==
  /\ "ADSTART" \in regs.cr
  /\ regs' = [regs EXCEPT !.isr = {"EOC", "EOS"},
                          !.cr = IF "CONT" \in regs.cfgr1 THEN @ ELSE @ \ {"ADSTART", "ADSTP"}]

Hardware ==
  /\ \/ Clears("ADSTP", {"ADSTP", "ADSTART"})
     \/ Clears("ADDIS", {"ADDIS", "ADEN"})
     \/ Clears("ADCAL", {"ADCAL"})
     \/ Convert
     \/ ~regs.settled /\ regs' = [regs EXCEPT !.settled = TRUE]
     \/ ~regs.hsi14rdy /\ regs' = [regs EXCEPT !.hsi14rdy = TRUE]
  /\ UNCHANGED <<pc, rmw, lost>>

Next ==
  \/ InitStop \/ InitDisable \/ InitClear \/ InitRefuse \/ InitEnable \/ Store
  \/ CalibrateStart \/ CalibrateDone
  \/ \E mode \in {{}, {"CONT"}, {"DISCEN"}, {"none"}} : InitConfigure(mode)
  \/ \E source \in {"ADC_CLK_SRC_HSI", "ADC_CLK_SRC_PCLK"} : InitClock(source)
  \/ \E then \in {"ready", "waiting"} : ConversionStart(then)
  \/ ChannelRead \/ Hardware

-----------------------------------------------------------------------------
(* Properties.                                                             *)

(***************************************************************************)
(* However the converter was left, in the middle of a conversion too, it   *)
(* takes every command of the initialisation and of the conversions after  *)
(* it (adc.c lines 22-200), but for the stop of a conversion that has      *)
(* ended or was none; and the calibration does not meet its assertion.     *)
(* Unless a store has started a conversion again, that is, or the          *)
(* converter got ADEN before it had settled: then the disable may be       *)
(* ignored in the first case and ADSTART in the second. The calibration is *)
(* never ignored.                                                          *)
(***************************************************************************)
CommandsAreTaken ==
  /\ lost.ignored \subseteq {"ADSTP", "ADDIS", "ADSTART"}
  /\ "ADDIS" \in lost.ignored \/ pc = "asserted" => lost.repeated
  /\ "ADSTART" \in lost.ignored => "ADEN" \in lost.early

=============================================================================
