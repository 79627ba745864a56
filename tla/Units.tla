-------------------------------- MODULE Units --------------------------------
(***************************************************************************)
(* The small components side by side: they share nothing, and in a         *)
(* behaviour one of them runs, that of unit. The variables of the others   *)
(* are off.                                                                *)
(***************************************************************************)
EXTENDS Pid, Sequences, FiniteSetsExt, TLC

CONSTANTS
  Value,                                          \* of the model point and the data point
  Subscriber, MP_MAX_SUBSCRIBERS, CountMod,       \* the model point
  SeqMod,                                         \* the data point
  Sample, Order, Taps, Coeffs, FpCoeffs,          \* the filters
  ScaleNum, ScaleDenum, FpBits, MaxSamples,
  Data, Short, MaxErrors,                         \* the checksums
  TIMER_TICK_MAX,                                 \* the timer
  Pin, OwnerOf, PinConfig, PortIndex,             \* the pins of a port
  Irq, IRQ_ALL, Numbers, Nesting                  \* critical sections

\* The counters have a range, the timer counts, every pin has an owner, and the sections are
\* for single interrupts, of the NVIC or of the processor.
ASSUME UnitsAssumption ==
  /\ CountMod \in Nat \ {0} /\ SeqMod \in Nat \ {0}
  /\ TIMER_TICK_MAX \in Nat \ {0}
  /\ Pin \subseteq Nat /\ OwnerOf \in [Pin -> {"main", "isr"}]
  /\ \A config \in PinConfig :
       /\ config.mode \in SUBSET Nat /\ config.speed \in SUBSET Nat
       /\ config.pull \in SUBSET Nat /\ config.alt_function \in SUBSET Nat
  /\ PortIndex \in SUBSET Nat
  /\ IRQ_ALL \notin Numbers /\ Nesting \in Nat

\* The FIR filter has a middle tap and two ends: its loop does not end for an even
\* order, and for a single tap it reads a second one. The filters compute with integers.
ASSUME FiltersAssumption ==
  /\ Order \in Nat /\ Order % 2 = 1 /\ Order >= 3
  /\ Taps \in [0 .. Order \div 2 -> Int] /\ Coeffs \in [0 .. 4 -> Int] /\ Sample \subseteq Int

VARIABLES
  unit,
  mp, mpCtx, seen,            \* the model point
  dp, wr, rd,                 \* the data point
  fir, iir, fp, x,            \* the filters
  data, flipped,              \* the checksums
  now, then, elapsed,         \* the measure of time
  port, gpioCtx, own, fault,  \* the pins of a port
  regs, pc, rmw, lost,        \* the converter
  enabled, primask, saved, depth, section         \* critical sections

modelpoint == <<mp, mpCtx, seen>>
datapoint == <<dp, wr, rd>>
filters == <<fir, iir, fp, x>>
checksums == <<data, flipped>>
delay == <<now, then, elapsed>>
gpio == <<port, gpioCtx, own, fault>>
adc == <<regs, pc, rmw, lost>>
sections == <<enabled, primask, saved, depth, section>>

vars == <<unit, pid, modelpoint, datapoint, filters, checksums, delay, gpio, adc, sections>>

M == INSTANCE Modelpoint WITH ctx <- mpCtx
D == INSTANCE DataPoint
F == INSTANCE Filters
C == INSTANCE Checksums
T == INSTANCE Delay
G == INSTANCE Gpio WITH Config <- PinConfig, ctx <- gpioCtx
A == INSTANCE Adc
CS == INSTANCE Sections

\* The data have a first byte, and the moduli distinguish the bits that are sent up to the
\* lengths of Short, with those of the checksum where no parity tells them from the data.
ASSUME ChecksumsAssumption ==
  /\ Data \subseteq Seq(C!Byte) \ {<<>>}
  /\ Short \in [{"koopman8", "koopman8p", "koopman16", "koopman16p"} -> Nat]
  /\ C!Distinguishes(253, 8 * Short.koopman8 + 8)
  /\ C!Distinguishes(125, 8 * Short.koopman8p)
  /\ C!Distinguishes(65519, 8 * Short.koopman16 + 16)
  /\ C!Distinguishes(32749, 8 * Short.koopman16p)

\* The tick is no interrupt of the NVIC.
ASSUME SectionsAssumption == Irq \cap CS!SystemExceptions = {}

Off == [output_filter |-> FALSE, min_output |-> 0, max_output |-> 0, last_output |-> 0, i_term |-> 0]

UnitsInit ==
  /\ unit \in {"pid", "modelpoint", "datapoint", "filters", "checksums", "delay", "gpio", "adc",
              "sections"}
  /\ IF unit = "pid" THEN Init ELSE pid = Off
  /\ IF unit = "modelpoint" THEN M!Init ELSE mp = 0 /\ mpCtx = 0 /\ seen = 0
  /\ IF unit = "datapoint" THEN D!Init ELSE dp = 0 /\ wr = 0 /\ rd = 0
  /\ IF unit = "filters" THEN F!Init ELSE fir = 0 /\ iir = 0 /\ fp = 0 /\ x = 0
  /\ IF unit = "checksums" THEN C!Init ELSE data = 0 /\ flipped = 0
  /\ IF unit = "delay" THEN T!Init ELSE now = 0 /\ then = 0 /\ elapsed = 0
  /\ IF unit = "gpio" THEN G!Init ELSE port = 0 /\ gpioCtx = 0 /\ own = 0 /\ fault = 0
  /\ IF unit = "adc" THEN A!Init ELSE regs = 0 /\ pc = 0 /\ rmw = 0 /\ lost = 0
  /\ IF unit = "sections" THEN CS!Init
       ELSE enabled = 0 /\ primask = 0 /\ saved = 0 /\ depth = 0 /\ section = 0

UnitsNext ==
  /\ UNCHANGED unit
  /\ \/ unit = "pid" /\ Next
        /\ UNCHANGED <<modelpoint, datapoint, filters, checksums, delay, gpio, adc, sections>>
     \/ unit = "modelpoint" /\ M!Next
        /\ UNCHANGED <<pid, datapoint, filters, checksums, delay, gpio, adc, sections>>
     \/ unit = "datapoint" /\ D!Next
        /\ UNCHANGED <<pid, modelpoint, filters, checksums, delay, gpio, adc, sections>>
     \/ unit = "filters" /\ F!Next
        /\ UNCHANGED <<pid, modelpoint, datapoint, checksums, delay, gpio, adc, sections>>
     \/ unit = "checksums" /\ C!Next
        /\ UNCHANGED <<pid, modelpoint, datapoint, filters, delay, gpio, adc, sections>>
     \/ unit = "delay" /\ T!Next
        /\ UNCHANGED <<pid, modelpoint, datapoint, filters, checksums, gpio, adc, sections>>
     \/ unit = "gpio" /\ G!Next
        /\ UNCHANGED <<pid, modelpoint, datapoint, filters, checksums, delay, adc, sections>>
     \/ unit = "adc" /\ A!Next
        /\ UNCHANGED <<pid, modelpoint, datapoint, filters, checksums, delay, gpio, sections>>
     \/ unit = "sections" /\ CS!Next
        /\ UNCHANGED <<pid, modelpoint, datapoint, filters, checksums, delay, gpio, adc>>

UnitsSpec == UnitsInit /\ [][UnitsNext]_vars

(***************************************************************************)
(* Whoever shares a value learns of its changes: the subscribers of a      *)
(* model point have seen the value it has, and an unchanged sequence       *)
(* number of a data point means an unchanged value.                        *)
(***************************************************************************)
ChangesAreSeen ==
  /\ unit = "modelpoint" => M!SubscribersInformed
  /\ unit = "datapoint" => D!SeqTellsChange

(***************************************************************************)
(* The filters compute what their definitions say over all samples.        *)
(***************************************************************************)
FiltersFollowSamples == unit = "filters" => F!FiltersFollowSamples

(***************************************************************************)
(* The checksums and the parity detect the errors they are for.            *)
(***************************************************************************)
ErrorsAreDetected == unit = "checksums" => C!ErrorsAreDetected

(***************************************************************************)
(* The pins of a port that two contexts use: the levels of all and the     *)
(* configuration of those of the main loop.                                *)
(***************************************************************************)
PinsAreKept == unit = "gpio" => G!LevelsAreKept /\ G!ConfigIsKept

(***************************************************************************)
(* The converter takes the commands it is given.                           *)
(***************************************************************************)
CommandsAreTaken == unit = "adc" => A!CommandsAreTaken

(***************************************************************************)
(* Delays are neither too short nor too long.                              *)
(***************************************************************************)
DelaysAreKept == unit = "delay" => T!DelaysAreKept

(***************************************************************************)
(* Critical sections exclude their interrupt and restore it.               *)
(***************************************************************************)
SectionsExclude == unit = "sections" => CS!SectionsExclude

SectionsRestore == [][unit = "sections" => CS!Restored]_vars

=============================================================================
