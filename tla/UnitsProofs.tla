----------------------------- MODULE UnitsProofs -----------------------------
(***************************************************************************)
(* Proofs about the small components, for all values of their constants:   *)
(* the limits of the PID controller, the subscribers of a model point, the *)
(* sequence number of a data point, the outputs of the filters, the errors *)
(* that the checksums detect, the measure of time, the pins of a port, the *)
(* commands of the converter and the critical sections.                    *)
(***************************************************************************)
EXTENDS Units, TLAPS, WellFoundedInduction, FiniteSetTheorems

Context == {"main", "isr"}

-----------------------------------------------------------------------------
(* The PID controller.                                                     *)

\* The members are numbers, and the limits, zero at first, are in order.
PidType ==
  pid \in [mode : Mode, action : Action, gains : Gains, setpoint : Int, output_filter : BOOLEAN, i_term : Int,
           last_error : Int, last_input : Int, last_d_term : Int, last_output : Int,
           min_output : Int, max_output : Int]

LimitsInv == PidType /\ pid.min_output <= pid.max_output /\ WithinLimits

\* Clamp returns a number of the interval, if there is one.
LEMMA ClampBounds ==
  ASSUME NEW v \in Int, NEW min \in Int, NEW max \in Int, min <= max
  PROVE  /\ Clamp(v, min, max) \in Int
         /\ min <= Clamp(v, min, max) /\ Clamp(v, min, max) <= max
  BY DEF Clamp

\* What a filter returns is a number.
LEMMA FilterType ==
  ASSUME NEW a \in Int, NEW b \in Int, NEW c \in Between(a, b) \cup Filtered
  PROVE  c \in Int
  BY PidAssumption DEF Between

\* The gains are numbers.
LEMMA GainTypes ==
  ASSUME LimitsInv
  PROVE  /\ pid.gains.p_gain \in Int /\ pid.gains.i_gain \in Int /\ pid.gains.d_gain \in Int
         /\ pid.gains.kaw \in Int /\ pid.gains.p_on_m_weight \in Int
         /\ pid.gains.i_gain \div 2 \in Int
<1>1. pid.gains \in Gains
  BY DEF LimitsInv, PidType
<1>2. pid.gains \in [p_gain : Nat, i_gain : {k \in Nat : k % 2 = 0}, d_gain : Nat,
                     kaw : Int, p_on_m_weight : {0, 1}]
  BY <1>1, PidAssumption
<1> QED
  BY <1>2

\* The sign of an error does not change its type.
LEMMA SignedType ==
  ASSUME NEW v \in Int
  PROVE  Signed(v) \in Int
  BY DEF Signed

\* The product of two numbers is a number, for the prover's sake.
LEMMA ProductType ==
  ASSUME NEW v \in Int, NEW w \in Int
  PROVE  v * w \in Int
  OBVIOUS

\* The fresh context, all zero, satisfies the invariant.
LEMMA InitInv == Init => LimitsInv
<1> SUFFICES ASSUME Init PROVE LimitsInv
  OBVIOUS
<1> PICK g \in Gains, a \in Action, m \in Mode, f \in BOOLEAN :
      pid = [mode |-> m, action |-> a, gains |-> g, setpoint |-> 0, output_filter |-> f,
             i_term |-> 0, last_error |-> 0, last_input |-> 0, last_d_term |-> 0,
             last_output |-> 0, min_output |-> 0, max_output |-> 0]
  BY DEF Init
<1> QED
  BY DEF LimitsInv, PidType, WithinLimits

\* What Pid_Update computes before the clamp is a number.
LEMMA DesiredType ==
  ASSUME LimitsInv, NEW input \in Int, NEW d_term \in Int
  PROVE  Desired(input, d_term) \in Int
<1>1. /\ pid.setpoint \in Int /\ pid.i_term \in Int
  BY DEF LimitsInv, PidType
<1>2. (1 - pid.gains.p_on_m_weight) * pid.setpoint \in Int
  BY <1>1, GainTypes, ProductType
<1>3. PError(input) \in Int
  BY <1>2 DEF PError
<1>4. pid.gains.p_gain * Signed(PError(input)) \in Int
  BY <1>3, GainTypes, SignedType, ProductType
<1> QED
  BY <1>1, <1>4 DEF Desired

\* The integral term ends inside the limits.
LEMMA IntegralBounds ==
  ASSUME LimitsInv, NEW error \in Int, NEW desired \in Int, NEW saturated \in Int
  PROVE  /\ Integral(error, desired, saturated) \in Int
         /\ pid.min_output <= Integral(error, desired, saturated)
         /\ Integral(error, desired, saturated) <= pid.max_output
<1>1. /\ pid.i_term \in Int /\ pid.last_error \in Int
      /\ pid.min_output \in Int /\ pid.max_output \in Int /\ pid.min_output <= pid.max_output
  BY DEF LimitsInv, PidType
<1>2. (pid.gains.i_gain \div 2) * (error + pid.last_error) \in Int
  BY <1>1, GainTypes, ProductType
<1>3. pid.gains.kaw * (saturated - desired) \in Int
  BY GainTypes, ProductType
<1> DEFINE sum == pid.i_term + (pid.gains.i_gain \div 2) * (error + pid.last_error)
                             + pid.gains.kaw * (saturated - desired)
<1>4. sum \in Int
  BY <1>1, <1>2, <1>3
<1> HIDE DEF sum
<1>5. /\ Clamp(sum, pid.min_output, pid.max_output) \in Int
      /\ pid.min_output <= Clamp(sum, pid.min_output, pid.max_output)
      /\ Clamp(sum, pid.min_output, pid.max_output) <= pid.max_output
  BY <1>1, <1>4, ClampBounds
<1> QED
  BY <1>5 DEF Integral, sum

\* Pid_Update of an active controller: the saturated output is inside, whatever a
\* filter of the output makes of it, and the integral term is clamped.
LEMMA UpdateInv ==
  ASSUME LimitsInv, NEW input \in Input, UpdateActive(input)
  PROVE  LimitsInv'
<1>1. input \in Int
  BY PidAssumption
<1>2. /\ pid.setpoint \in Int /\ pid.last_input \in Int /\ pid.last_d_term \in Int
      /\ pid.min_output \in Int /\ pid.max_output \in Int /\ pid.min_output <= pid.max_output
  BY DEF LimitsInv, PidType
<1> DEFINE error == Signed(pid.setpoint - input)
           raw == pid.gains.d_gain * Signed(input - pid.last_input)
           saturated(d) == Clamp(Desired(input, d), pid.min_output, pid.max_output)
<1>3. error \in Int
  BY <1>1, <1>2, SignedType
<1>4. raw \in Int
  BY <1>1, <1>2, GainTypes, SignedType, ProductType
<1>5. PICK d_term \in Between(pid.last_d_term, raw) \cup Filtered :
        \E output \in IF pid.output_filter THEN Filtered ELSE {saturated(d_term)} :
          pid' = [pid EXCEPT !.i_term = Integral(error, Desired(input, d_term), saturated(d_term)),
                             !.last_error = error, !.last_d_term = d_term,
                             !.last_output = output, !.last_input = input]
  BY DEF UpdateActive
<1>6. d_term \in Int
  BY <1>2, <1>4, <1>5, FilterType
<1>7. Desired(input, d_term) \in Int
  BY <1>1, <1>6, DesiredType
<1>8. /\ saturated(d_term) \in Int
      /\ pid.min_output <= saturated(d_term) /\ saturated(d_term) <= pid.max_output
  BY <1>2, <1>7, ClampBounds
<1> DEFINE integral == Integral(error, Desired(input, d_term), saturated(d_term))
<1>9. /\ integral \in Int /\ pid.min_output <= integral /\ integral <= pid.max_output
  BY <1>3, <1>7, <1>8, IntegralBounds
<1> HIDE DEF error, raw, saturated, integral
<1>10. PICK output \in IF pid.output_filter THEN Filtered ELSE {saturated(d_term)} :
         pid' = [pid EXCEPT !.i_term = integral, !.last_error = error, !.last_d_term = d_term,
                            !.last_output = output, !.last_input = input]
  BY <1>5 DEF integral
<1>11. CASE pid.output_filter
  <2>1. output \in Int
    BY <1>10, <1>11, PidAssumption
  <2>2. PidType'
    BY <1>1, <1>3, <1>6, <1>9, <1>10, <2>1 DEF LimitsInv, PidType
  <2>3. pid'.output_filter
    BY <1>10, <1>11 DEF LimitsInv, PidType
  <2> QED
    BY <1>2, <1>9, <1>10, <2>2, <2>3 DEF LimitsInv, PidType, WithinLimits
<1>12. CASE ~pid.output_filter
  <2>1. /\ output \in Int /\ pid.min_output <= output /\ output <= pid.max_output
    BY <1>8, <1>10, <1>12
  <2>2. PidType'
    BY <1>1, <1>3, <1>6, <1>9, <1>10, <2>1 DEF LimitsInv, PidType
  <2> QED
    BY <1>2, <1>9, <1>10, <2>1, <2>2 DEF LimitsInv, PidType, WithinLimits
<1> QED
  BY <1>11, <1>12

\* Changing the limits brings the output and the integral term inside them.
LEMMA LimitsSetInv ==
  ASSUME LimitsInv, NEW l \in Limits, OutputLimitsSet(l[1], l[2])
  PROVE  LimitsInv'
<1>1. l[1] \in Int /\ l[2] \in Int /\ l[1] <= l[2]
  BY PidAssumption
<1>2. pid.last_output \in Int /\ pid.i_term \in Int
  BY DEF LimitsInv, PidType
<1> DEFINE out == Clamp(pid.last_output, l[1], l[2])
           sum == Clamp(pid.i_term, l[1], l[2])
<1>3. /\ out \in Int /\ l[1] <= out /\ out <= l[2]
      /\ sum \in Int /\ l[1] <= sum /\ sum <= l[2]
  BY <1>1, <1>2, ClampBounds
<1>4. pid' = [pid EXCEPT !.min_output = l[1], !.max_output = l[2],
                         !.last_output = out, !.i_term = sum]
  BY DEF OutputLimitsSet
<1> HIDE DEF out, sum
<1> QED
  BY <1>1, <1>3, <1>4 DEF LimitsInv, PidType, WithinLimits

\* The preload of the integral term is clamped.
LEMMA ResumeInv ==
  ASSUME LimitsInv, Resume
  PROVE  LimitsInv'
<1>1. /\ pid.setpoint \in Int /\ pid.last_input \in Int /\ pid.last_output \in Int
      /\ pid.last_d_term \in Int /\ pid.i_term \in Int
      /\ pid.min_output \in Int /\ pid.max_output \in Int /\ pid.min_output <= pid.max_output
      /\ pid.min_output <= pid.i_term /\ pid.i_term <= pid.max_output
  BY DEF LimitsInv, PidType, WithinLimits
<1> DEFINE p_error == (1 - pid.gains.p_on_m_weight) - pid.setpoint - pid.last_input
           preload == pid.last_output - (pid.gains.p_gain * Signed(p_error) - pid.last_d_term)
           i_term == IF pid.mode = "PID_MODE_OVERRIDE"
                       THEN Clamp(preload, pid.min_output, pid.max_output) ELSE pid.i_term
<1>2. p_error \in Int
  BY <1>1, GainTypes
<1>3. preload \in Int
  BY <1>1, <1>2, GainTypes, SignedType, ProductType
<1>4. i_term \in Int /\ pid.min_output <= i_term /\ i_term <= pid.max_output
  <2> HIDE DEF preload
  <2> QED
    BY <1>1, <1>3, ClampBounds
<1>5. pid' = [pid EXCEPT !.mode = "PID_MODE_ACTIVE", !.i_term = i_term]
  BY DEF Resume
<1> HIDE DEF i_term
<1> QED
  BY <1>4, <1>5 DEF LimitsInv, PidType, WithinLimits, Mode

\* No call leads out of the invariant.
LEMMA NextInv == LimitsInv /\ [Next]_pid => LimitsInv'
<1> SUFFICES ASSUME LimitsInv, [Next]_pid PROVE LimitsInv'
  OBVIOUS
<1>1. ASSUME NEW input \in Input, UpdateInactive(input) PROVE LimitsInv'
  BY <1>1, PidAssumption DEF UpdateInactive, LimitsInv, PidType, WithinLimits
<1>2. ASSUME NEW input \in Input, UpdateActive(input) PROVE LimitsInv'
  BY <1>2, UpdateInv
<1>3. ASSUME NEW g \in Gains, GainSet(g) PROVE LimitsInv'
  BY <1>3 DEF GainSet, LimitsInv, PidType, WithinLimits
<1>4. ASSUME NEW s \in Input, SetpointSet(s) PROVE LimitsInv'
  BY <1>4, PidAssumption DEF SetpointSet, LimitsInv, PidType, WithinLimits
<1>5. ASSUME NEW a \in Action, ActionSet(a) PROVE LimitsInv'
  BY <1>5 DEF ActionSet, LimitsInv, PidType, WithinLimits
<1>6. ASSUME NEW l \in Limits, OutputLimitsSet(l[1], l[2]) PROVE LimitsInv'
  BY <1>6, LimitsSetInv
<1>7. ASSUME NEW output \in pid.min_output .. pid.max_output, Override(output) PROVE LimitsInv'
  <2>1. /\ output \in Int /\ pid.min_output <= output /\ output <= pid.max_output
        /\ pid' = [pid EXCEPT !.mode = "PID_MODE_OVERRIDE", !.last_output = output]
    BY <1>7 DEF Override, LimitsInv, PidType
  <2> QED
    BY <2>1 DEF LimitsInv, PidType, WithinLimits, Mode
<1>8. ASSUME Resume PROVE LimitsInv'
  BY <1>8, ResumeInv
<1>9. CASE UNCHANGED pid
  BY <1>9 DEF LimitsInv, PidType, WithinLimits
<1> QED
  BY <1>1, <1>2, <1>3, <1>4, <1>5, <1>6, <1>7, <1>8, <1>9 DEF Next

-----------------------------------------------------------------------------
(* The pins of a port.                                                     *)

Access == [reg : G!Registers, keep : BOOLEAN, bits : SUBSET Nat]

\* What a toggle has read of its pin still holds when it writes, since nobody but its context
\* drives the pin. What a call of Gpio_Init has loaded of the pins of the main loop still
\* holds when it stores, since an interrupt ends before the main loop goes on and leaves
\* their fields as they are.
GpioInv ==
  /\ port \in [odr : [Pin -> {0, 1}], config : [G!Registers -> [Pin -> SUBSET Nat]]]
  /\ own \in [odr : [Pin -> {0, 1}], config : [G!Registers -> [G!MainPins -> SUBSET Nat]]]
  /\ G!LevelsAreKept /\ G!ConfigIsKept
  /\ gpioCtx \in [Context -> {G!Idle}
                    \cup [pc : {"again"}, pin : Pin, reset : [Pin -> {0, 1}]]
                    \cup [pc : {"write"}, pin : Pin, reset : [Pin -> {0, 1}], set : [Pin -> {0, 1}]]
                    \cup [pc : {"load"}, pin : Pin, todo : Seq(Access) \ {<<>>}]
                    \cup [pc : {"store"}, pin : Pin, todo : Seq(Access) \ {<<>>},
                          loaded : [Pin -> SUBSET Nat]]]
  /\ \A c \in Context : gpioCtx[c] # G!Idle => OwnerOf[gpioCtx[c].pin] = c
  /\ \A c \in Context : gpioCtx[c].pc \in {"again", "write"} =>
       gpioCtx[c].reset[gpioCtx[c].pin] = port.odr[gpioCtx[c].pin]
  /\ \A c \in Context : gpioCtx[c].pc = "write" =>
       gpioCtx[c].set[gpioCtx[c].pin] = 1 - port.odr[gpioCtx[c].pin]
  /\ \A c \in Context : gpioCtx[c].pc = "store" =>
       \A p \in G!MainPins : gpioCtx[c].loaded[p] = port.config[Head(gpioCtx[c].todo).reg][p]

\* After the reset both contexts are idle.
LEMMA GpioInit == G!Init => GpioInv
<1>. SUFFICES ASSUME G!Init PROVE GpioInv
  OBVIOUS
<1>1. gpioCtx = [c \in Context |-> G!Idle]
  BY DEF G!Init, Context
<1>2. /\ port \in [odr : [Pin -> {0, 1}], config : [G!Registers -> [Pin -> SUBSET Nat]]]
      /\ own \in [odr : [Pin -> {0, 1}], config : [G!Registers -> [G!MainPins -> SUBSET Nat]]]
  BY DEF G!Init
<1>3. G!LevelsAreKept /\ G!ConfigIsKept
  BY DEF G!Init, G!LevelsAreKept, G!ConfigIsKept, G!MainPins
<1>. QED BY <1>1, <1>2, <1>3 DEF GpioInv, G!Idle

\* A call modifies fields of registers, at least that of the mode.
LEMMA AccessesType ==
  ASSUME NEW p \in Pin, NEW config \in PinConfig
  PROVE  G!Accesses(p, config) \in Seq(Access) \ {<<>>}
<1>1. /\ config.mode \in SUBSET Nat /\ config.speed \in SUBSET Nat /\ config.pull \in SUBSET Nat
      /\ config.alt_function \in SUBSET Nat /\ PortIndex \in SUBSET Nat
  BY UnitsAssumption
<1>4. ASSUME NEW t \in Seq(Access), NEW u \in Seq(Access)
      PROVE  t \o u \in Seq(Access) /\ Len(t \o u) = Len(t) + Len(u)
  OBVIOUS
<1>2. ASSUME NEW r \in G!Registers, NEW bits \in SUBSET Nat
      PROVE  /\ G!SetBits(r, bits) \in Seq(Access)
             /\ G!Replace(r, bits) \in Seq(Access) /\ Len(G!Replace(r, bits)) = 2
  <2>1. /\ [reg |-> r, keep |-> FALSE, bits |-> {}] \in Access
        /\ [reg |-> r, keep |-> TRUE, bits |-> bits] \in Access
    BY DEF Access
  <2>2. /\ G!Clear(r) \in Seq(Access) /\ Len(G!Clear(r)) = 1
        /\ G!SetBits(r, bits) \in Seq(Access) /\ Len(G!SetBits(r, bits)) = 1
    BY <2>1 DEF G!Clear, G!SetBits
  <2>. QED BY <1>4, <2>2 DEF G!Replace
<1>3. ASSUME NEW condition, NEW t \in Seq(Access)
      PROVE  G!If(condition, t) \in Seq(Access)
  BY DEF G!If
<1>. DEFINE driven == config.mode \cap G!Moder \in {{0}, {1}}
            events == config.mode \cap {G!ExtiIt, G!ExtiEvt}
            a == G!If(driven, G!Replace("OSPEEDR", config.speed)
                                \o G!SetBits("OTYPER", config.mode \cap {G!OpenDrain}))
            b == G!If(config.mode # G!Moder, G!Replace("PUPDR", config.pull))
            c == G!If(config.mode \cap G!Moder = {1}, G!Replace("AFR", config.alt_function))
            d == G!Replace("MODER", G!ModerField(config.mode, p))
            e1 == G!If(G!TrigRise \in config.mode, G!SetBits("RTSR", {1}))
            e2 == G!If(G!TrigFall \in config.mode, G!SetBits("FTSR", {1}))
            e3 == G!If(events = {G!ExtiEvt}, G!SetBits("EMR", {1}))
            e4 == G!If(events = {G!ExtiIt}, G!SetBits("IMR", {1}))
            e5 == G!Replace("EXTICR", PortIndex)
            e == G!If(events # {}, e5 \o e1 \o e2 \o e3 \o e4)
<1>. USE DEF G!Registers
<1>5. G!ModerField(config.mode, p) \in SUBSET Nat /\ config.mode \cap {G!OpenDrain} \in SUBSET Nat
  BY <1>1 DEF G!ModerField, G!Moder
<1>6. a \in Seq(Access)
  <2>1. /\ G!Replace("OSPEEDR", config.speed) \in Seq(Access)
        /\ G!SetBits("OTYPER", config.mode \cap {G!OpenDrain}) \in Seq(Access)
    BY <1>1, <1>2, <1>5
  <2>. QED BY <2>1, <1>3, <1>4
<1>7. b \in Seq(Access) /\ c \in Seq(Access)
  BY <1>1, <1>2, <1>3
<1>8. d \in Seq(Access) /\ Len(d) = 2
  BY <1>2, <1>5
<1>9. e \in Seq(Access)
  <2>1. /\ e1 \in Seq(Access) /\ e2 \in Seq(Access) /\ e3 \in Seq(Access) /\ e4 \in Seq(Access)
        /\ e5 \in Seq(Access)
    BY <1>1, <1>2, <1>3
  <2>. HIDE DEF e1, e2, e3, e4, e5
  <2>2. e5 \o e1 \o e2 \o e3 \o e4 \in Seq(Access)
    BY <2>1, <1>4
  <2>. QED BY <2>2, <1>3
<1>10. G!Accesses(p, config) = a \o b \o c \o d \o e
  BY DEF G!Accesses
<1>. HIDE DEF a, b, c, d, e
<1>. QED BY <1>4, <1>6, <1>7, <1>8, <1>9, <1>10

\* What is to be done is a register after the other.
LEMMA HeadAccess ==
  ASSUME NEW t \in Seq(Access) \ {<<>>}
  PROVE  Head(t) \in Access /\ Head(t).reg \in G!Registers /\ Tail(t) \in Seq(Access)
<1>1. Head(t) \in Access /\ Tail(t) \in Seq(Access)
  OBVIOUS
<1>. QED BY <1>1 DEF Access

\* A store leaves the fields of other pins of the main loop as they are.
LEMMA GpioStore ==
  ASSUME GpioInv, NEW c \in Context, G!Store(c)
  PROVE  GpioInv'
<1>. USE DEF Context, G!At, G!Runs
<1>. DEFINE p == gpioCtx[c].pin
            access == Head(gpioCtx[c].todo)
            r == access.reg
            rest == Tail(gpioCtx[c].todo)
            loaded == gpioCtx[c].loaded
            field == G!Modified(loaded[p], access)
            next == IF rest = <<>> THEN G!Idle ELSE [pc |-> "load", pin |-> p, todo |-> rest]
<1>1. /\ gpioCtx[c].pc = "store" /\ gpioCtx[c] # G!Idle
      /\ c = "main" => gpioCtx["isr"] = G!Idle
  BY DEF G!Store, G!Idle
<1>2. /\ p \in Pin /\ gpioCtx[c].todo \in Seq(Access) \ {<<>>} /\ loaded \in [Pin -> SUBSET Nat]
      /\ OwnerOf[p] = c
  BY <1>1 DEF GpioInv, G!Idle
<1>3. access \in Access /\ r \in G!Registers /\ rest \in Seq(Access)
  BY <1>2, HeadAccess
<1>4. \A q \in G!MainPins : loaded[q] = port.config[r][q]
  BY <1>1 DEF GpioInv
<1>5. /\ port' = [port EXCEPT !.config[r] = [loaded EXCEPT ![p] = field]]
      /\ own' = IF c = "main" THEN [own EXCEPT !.config[r][p] = G!Modified(@, access)] ELSE own
      /\ gpioCtx' = [gpioCtx EXCEPT ![c] = next]
  <2>1. /\ port' = [port EXCEPT !.config[r] = [loaded EXCEPT ![p] = G!Modified(@, access)]]
        /\ G!Stored(c, p, access, rest)
    BY Zenon DEF G!Store
  <2>. QED BY <2>1 DEF G!Stored
<1>6. field \in SUBSET Nat
  BY <1>2, <1>3 DEF G!Modified, Access
<1>7. next \in {G!Idle} \cup [pc : {"load"}, pin : Pin, todo : Seq(Access) \ {<<>>}]
  BY <1>2, <1>3
<1>8. next # G!Idle => next.pc = "load" /\ next.pin = p
  BY DEF G!Idle
<1>. HIDE DEF p, access, r, rest, loaded, field, next
<1>9. /\ port'.odr = port.odr /\ own'.odr = own.odr
      /\ port'.config = [port.config EXCEPT ![r] = [loaded EXCEPT ![p] = field]]
      /\ own'.config = IF c = "main" THEN [own.config EXCEPT ![r][p] = G!Modified(@, access)]
                                     ELSE own.config
  BY <1>5 DEF GpioInv
<1>10. p \in G!MainPins <=> c = "main"
  BY <1>2 DEF G!MainPins
<1>11. c = "main" => own.config[r][p] = loaded[p]
  BY <1>3, <1>4, <1>10 DEF GpioInv, G!ConfigIsKept
<1>12. \A q \in G!Registers, o \in G!MainPins :
         /\ port'.config[q][o] = IF q = r /\ o = p THEN field ELSE port.config[q][o]
         /\ own'.config[q][o] = IF q = r /\ o = p THEN field ELSE own.config[q][o]
  <2>. SUFFICES ASSUME NEW q \in G!Registers, NEW o \in G!MainPins
                PROVE  /\ port'.config[q][o] = IF q = r /\ o = p THEN field ELSE port.config[q][o]
                       /\ own'.config[q][o] = IF q = r /\ o = p THEN field ELSE own.config[q][o]
    OBVIOUS
  <2>1. port'.config[q] = IF q = r THEN [loaded EXCEPT ![p] = field] ELSE port.config[q]
    BY <1>3, <1>9 DEF GpioInv
  <2>2. o \in Pin
    BY DEF G!MainPins
  <2>3. port'.config[q][o] = IF q = r /\ o = p THEN field ELSE port.config[q][o]
    BY <1>2, <1>4, <2>1, <2>2
  <2>4. own'.config[q][o] = IF q = r /\ o = p THEN field ELSE own.config[q][o]
    <3>1. CASE c # "main"
      BY <1>9, <1>10, <3>1
    <3>2. CASE c = "main"
      <4>1. own'.config = [own.config EXCEPT ![r] = [own.config[r] EXCEPT ![p] = field]]
        BY <1>9, <1>11, <3>2 DEF field
      <4>. QED BY <1>3, <1>10, <3>2, <4>1 DEF GpioInv
    <3>. QED BY <3>1, <3>2
  <2>. QED BY <2>3, <2>4
<1>13. port' \in [odr : [Pin -> {0, 1}], config : [G!Registers -> [Pin -> SUBSET Nat]]]
  <2>1. [loaded EXCEPT ![p] = field] \in [Pin -> SUBSET Nat]
    BY <1>2, <1>6
  <2>. QED BY <1>5, <2>1 DEF GpioInv
<1>14. own' \in [odr : [Pin -> {0, 1}], config : [G!Registers -> [G!MainPins -> SUBSET Nat]]]
  <2>1. CASE c # "main"
    BY <1>5, <2>1 DEF GpioInv
  <2>2. CASE c = "main"
    <3>1. [own.config[r] EXCEPT ![p] = field] \in [G!MainPins -> SUBSET Nat]
      BY <1>3, <1>6 DEF GpioInv
    <3>2. own' = [own EXCEPT !.config[r] = [own.config[r] EXCEPT ![p] = field]]
      BY <1>5, <1>11, <2>2 DEF field
    <3>. QED BY <3>1, <3>2 DEF GpioInv
  <2>. QED BY <2>1, <2>2
<1>15. G!LevelsAreKept' /\ G!ConfigIsKept'
  BY <1>9, <1>12 DEF GpioInv, G!LevelsAreKept, G!ConfigIsKept
<1>16. gpioCtx'[c] = next /\ \A o \in Context : o # c => gpioCtx'[o] = gpioCtx[o]
  BY <1>5 DEF GpioInv
<1>17. \A o \in Context : o # c /\ gpioCtx[o].pc = "store" =>
         \A q \in G!MainPins : port'.config[Head(gpioCtx[o].todo).reg][q]
                                 = port.config[Head(gpioCtx[o].todo).reg][q]
  <2>. SUFFICES ASSUME NEW o \in Context, o # c, gpioCtx[o].pc = "store", NEW q \in G!MainPins
                PROVE  port'.config[Head(gpioCtx[o].todo).reg][q] = port.config[Head(gpioCtx[o].todo).reg][q]
    OBVIOUS
  <2>1. c = "isr"
    BY <1>1 DEF G!Idle
  <2>2. gpioCtx[o].todo \in Seq(Access) \ {<<>>}
    BY DEF GpioInv, G!Idle
  <2>. QED BY <1>10, <1>12, <2>1, <2>2, HeadAccess
<1>18. gpioCtx' \in [Context -> {G!Idle}
                    \cup [pc : {"again"}, pin : Pin, reset : [Pin -> {0, 1}]]
                    \cup [pc : {"write"}, pin : Pin, reset : [Pin -> {0, 1}], set : [Pin -> {0, 1}]]
                    \cup [pc : {"load"}, pin : Pin, todo : Seq(Access) \ {<<>>}]
                    \cup [pc : {"store"}, pin : Pin, todo : Seq(Access) \ {<<>>},
                          loaded : [Pin -> SUBSET Nat]]]
  BY <1>5, <1>7 DEF GpioInv
<1>19. next.pc \in {"idle", "load"}
  BY <1>7 DEF G!Idle
<1>20. \A o \in Context : gpioCtx'[o] # G!Idle => OwnerOf[gpioCtx'[o].pin] = o
  BY <1>2, <1>8, <1>16 DEF GpioInv
<1>21. \A o \in Context :
         /\ gpioCtx'[o].pc \in {"again", "write"} =>
              gpioCtx'[o].reset[gpioCtx'[o].pin] = port'.odr[gpioCtx'[o].pin]
         /\ gpioCtx'[o].pc = "write" =>
              gpioCtx'[o].set[gpioCtx'[o].pin] = 1 - port'.odr[gpioCtx'[o].pin]
  BY <1>9, <1>16, <1>19 DEF GpioInv
<1>22. \A o \in Context : gpioCtx'[o].pc = "store" =>
         \A q \in G!MainPins : gpioCtx'[o].loaded[q] = port'.config[Head(gpioCtx'[o].todo).reg][q]
  BY <1>16, <1>17, <1>19 DEF GpioInv
<1>. QED BY <1>13, <1>14, <1>15, <1>18, <1>20, <1>21, <1>22 DEF GpioInv

\* A write of BSRR changes only the pins whose bits are set.
LEMMA GpioDrive ==
  ASSUME GpioInv, NEW p \in Pin, NEW level \in {0, 1}, G!Drive(p, level)
  PROVE  /\ port' \in [odr : [Pin -> {0, 1}], config : [G!Registers -> [Pin -> SUBSET Nat]]]
         /\ own' \in [odr : [Pin -> {0, 1}], config : [G!Registers -> [G!MainPins -> SUBSET Nat]]]
         /\ G!LevelsAreKept' /\ G!ConfigIsKept'
         /\ port'.config = port.config
         /\ port'.odr = [port.odr EXCEPT ![p] = level]
<1>1. /\ port' = [port EXCEPT !.odr = [port.odr EXCEPT ![p] = level]]
      /\ own' = [own EXCEPT !.odr = [own.odr EXCEPT ![p] = level]]
  BY DEF G!Drive
<1>2. /\ port' \in [odr : [Pin -> {0, 1}], config : [G!Registers -> [Pin -> SUBSET Nat]]]
      /\ own' \in [odr : [Pin -> {0, 1}], config : [G!Registers -> [G!MainPins -> SUBSET Nat]]]
  BY <1>1 DEF GpioInv
<1>3. /\ port'.config = port.config /\ own'.config = own.config
      /\ port'.odr = [port.odr EXCEPT ![p] = level] /\ own'.odr = [own.odr EXCEPT ![p] = level]
  BY <1>1 DEF GpioInv
<1>. QED BY <1>2, <1>3 DEF GpioInv, G!LevelsAreKept, G!ConfigIsKept

\* A context that is idle or begins to work on one of its pins, when nothing of the port changes.
LEMMA GpioGoesOn ==
  ASSUME GpioInv, NEW c \in Context, NEW now1, UNCHANGED <<port, own>>,
         gpioCtx' = [gpioCtx EXCEPT ![c] = now1],
         now1 \in [pc : {"again"}, pin : Pin, reset : [Pin -> {0, 1}]]
                    \cup [pc : {"write"}, pin : Pin, reset : [Pin -> {0, 1}], set : [Pin -> {0, 1}]]
                    \cup [pc : {"load"}, pin : Pin, todo : Seq(Access) \ {<<>>}]
                    \cup [pc : {"store"}, pin : Pin, todo : Seq(Access) \ {<<>>},
                          loaded : [Pin -> SUBSET Nat]],
         OwnerOf[now1.pin] = c,
         now1.pc \in {"again", "write"} => now1.reset[now1.pin] = port.odr[now1.pin],
         now1.pc = "write" => now1.set[now1.pin] = 1 - port.odr[now1.pin],
         now1.pc = "store" =>
           \A p \in G!MainPins : now1.loaded[p] = port.config[Head(now1.todo).reg][p]
  PROVE  GpioInv'
<1>1. gpioCtx'[c] = now1 /\ \A o \in Context : o # c => gpioCtx'[o] = gpioCtx[o]
  BY DEF GpioInv
<1>2. gpioCtx' \in [Context -> {G!Idle}
                    \cup [pc : {"again"}, pin : Pin, reset : [Pin -> {0, 1}]]
                    \cup [pc : {"write"}, pin : Pin, reset : [Pin -> {0, 1}], set : [Pin -> {0, 1}]]
                    \cup [pc : {"load"}, pin : Pin, todo : Seq(Access) \ {<<>>}]
                    \cup [pc : {"store"}, pin : Pin, todo : Seq(Access) \ {<<>>},
                          loaded : [Pin -> SUBSET Nat]]]
  BY DEF GpioInv
<1>3. \A o \in Context : gpioCtx'[o] # G!Idle => OwnerOf[gpioCtx'[o].pin] = o
  BY <1>1 DEF GpioInv
<1>4. \A o \in Context : gpioCtx'[o].pc \in {"again", "write"} =>
        gpioCtx'[o].reset[gpioCtx'[o].pin] = port.odr[gpioCtx'[o].pin]
  BY <1>1 DEF GpioInv
<1>5. \A o \in Context : gpioCtx'[o].pc = "write" =>
        gpioCtx'[o].set[gpioCtx'[o].pin] = 1 - port.odr[gpioCtx'[o].pin]
  BY <1>1 DEF GpioInv
<1>6. \A o \in Context : gpioCtx'[o].pc = "store" =>
        \A p \in G!MainPins : gpioCtx'[o].loaded[p] = port.config[Head(gpioCtx'[o].todo).reg][p]
  BY <1>1 DEF GpioInv
<1>. QED BY <1>2, <1>3, <1>4, <1>5, <1>6 DEF GpioInv, G!LevelsAreKept, G!ConfigIsKept

\* No access of one context takes back what another has given a pin.
LEMMA GpioStep ==
  ASSUME GpioInv, G!Next
  PROVE  GpioInv'
<1>. USE DEF Context, G!At, G!Idle
<1>1. ASSUME NEW c \in Context, NEW p \in Pin, NEW config \in PinConfig, G!Configure(c, p, config)
      PROVE  GpioInv'
  <2>. DEFINE now1 == [pc |-> "load", pin |-> p, todo |-> G!Accesses(p, config)]
  <2>1. now1 \in [pc : {"load"}, pin : Pin, todo : Seq(Access) \ {<<>>}]
    BY AccessesType
  <2>2. OwnerOf[now1.pin] = c /\ now1.pc = "load" /\ gpioCtx' = [gpioCtx EXCEPT ![c] = now1]
        /\ UNCHANGED <<port, own>>
    BY <1>1 DEF G!Configure
  <2>. HIDE DEF now1
  <2>. QED BY <2>1, <2>2, GpioGoesOn
<1>2. ASSUME NEW c \in Context, NEW p \in Pin, NEW level \in {0, 1}, OwnerOf[p] = c,
             gpioCtx[c] = G!Idle, G!Drive(p, level), UNCHANGED gpioCtx
      PROVE  GpioInv'
  <2>1. \A o \in Context : gpioCtx[o] # G!Idle => gpioCtx[o].pin \in Pin /\ gpioCtx[o].pin # p
    BY <1>2 DEF GpioInv
  <2>2. /\ port' \in [odr : [Pin -> {0, 1}], config : [G!Registers -> [Pin -> SUBSET Nat]]]
        /\ own' \in [odr : [Pin -> {0, 1}], config : [G!Registers -> [G!MainPins -> SUBSET Nat]]]
        /\ G!LevelsAreKept' /\ G!ConfigIsKept'
        /\ port'.config = port.config /\ port'.odr = [port.odr EXCEPT ![p] = level]
    BY <1>2, GpioDrive
  <2>3. \A o \in Context : gpioCtx[o] # G!Idle => port'.odr[gpioCtx[o].pin] = port.odr[gpioCtx[o].pin]
    BY <2>1, <2>2 DEF GpioInv
  <2>4. gpioCtx' = gpioCtx /\ \A o \in Context : gpioCtx[o].pc # "idle" => gpioCtx[o] # G!Idle
    BY <1>2
  <2>. HIDE DEF G!Idle
  <2>. QED BY <2>2, <2>3, <2>4 DEF GpioInv
<1>3. ASSUME NEW c \in Context, G!At(c, "idle") PROVE gpioCtx[c] = G!Idle
  BY <1>3 DEF GpioInv
<1>4. ASSUME NEW c \in Context, NEW p \in Pin,
             (\E state \in 0 .. 1 : G!Set(c, p, state)) \/ G!SetHigh(c, p) \/ G!SetLow(c, p)
      PROVE  GpioInv'
  BY <1>2, <1>3, <1>4 DEF G!Set, G!SetHigh, G!SetLow
<1>5. ASSUME NEW c \in Context, NEW p \in Pin, G!ToggleRead(c, p) PROVE GpioInv'
  <2>. DEFINE now1 == [pc |-> "again", pin |-> p, reset |-> port.odr]
  <2>1. now1 \in [pc : {"again"}, pin : Pin, reset : [Pin -> {0, 1}]]
    BY DEF GpioInv
  <2>2. OwnerOf[now1.pin] = c /\ now1.pc = "again" /\ gpioCtx' = [gpioCtx EXCEPT ![c] = now1]
        /\ now1.reset[now1.pin] = port.odr[now1.pin] /\ UNCHANGED <<port, own>>
    BY <1>5 DEF G!ToggleRead
  <2>. HIDE DEF now1
  <2>. QED BY <2>1, <2>2, GpioGoesOn
<1>6. ASSUME NEW c \in Context, G!ToggleReadAgain(c) PROVE GpioInv'
  <2>. DEFINE now1 == [pc |-> "write", pin |-> gpioCtx[c].pin, reset |-> gpioCtx[c].reset,
                       set |-> [q \in Pin |-> 1 - port.odr[q]]]
  <2>1. /\ gpioCtx[c].pc = "again" /\ gpioCtx[c].pin \in Pin /\ gpioCtx[c].reset \in [Pin -> {0, 1}]
        /\ OwnerOf[gpioCtx[c].pin] = c
        /\ gpioCtx[c].reset[gpioCtx[c].pin] = port.odr[gpioCtx[c].pin]
    BY <1>6 DEF GpioInv, G!ToggleReadAgain
  <2>2. [q \in Pin |-> 1 - port.odr[q]] \in [Pin -> {0, 1}]
    BY DEF GpioInv
  <2>3. now1 \in [pc : {"write"}, pin : Pin, reset : [Pin -> {0, 1}], set : [Pin -> {0, 1}]]
    BY <2>1, <2>2
  <2>4. OwnerOf[now1.pin] = c /\ now1.pc = "write"
        /\ now1.reset[now1.pin] = port.odr[now1.pin] /\ now1.set[now1.pin] = 1 - port.odr[now1.pin]
    BY <2>1
  <2>5. gpioCtx' = [gpioCtx EXCEPT ![c] = now1] /\ UNCHANGED <<port, own>>
    BY <1>6 DEF G!ToggleReadAgain
  <2>. HIDE DEF now1
  <2>. QED BY <2>3, <2>4, <2>5, GpioGoesOn
<1>7. ASSUME NEW c \in Context, G!ToggleWrite(c) PROVE GpioInv'
  <2>1. PICK p \in Pin : p = gpioCtx[c].pin
    BY <1>7 DEF GpioInv, G!ToggleWrite
  <2>2. /\ gpioCtx[c].pc = "write" /\ OwnerOf[p] = c /\ port.odr[p] \in {0, 1}
        /\ gpioCtx[c].reset[p] = port.odr[p] /\ gpioCtx[c].set[p] = 1 - port.odr[p]
        /\ own.odr[p] = port.odr[p]
    BY <1>7, <2>1 DEF GpioInv, G!ToggleWrite, G!LevelsAreKept
  <2>. DEFINE level == IF gpioCtx[c].set[p] = 1 THEN 1
                       ELSE IF gpioCtx[c].reset[p] = 1 THEN 0 ELSE port.odr[p]
  <2>3. level = 1 - port.odr[p] /\ level \in {0, 1}
    BY <2>2
  <2>4. /\ port' = [port EXCEPT !.odr[p] = level]
        /\ own' = [own EXCEPT !.odr[p] = 1 - @]
        /\ gpioCtx' = [gpioCtx EXCEPT ![c] = G!Idle]
    BY <1>7, <2>1, Zenon DEF G!ToggleWrite
  <2>. HIDE DEF level
  <2>5. G!Drive(p, level)
    BY <2>2, <2>3, <2>4 DEF G!Drive
  <2>6. \A o \in Context : o # c /\ gpioCtx[o] # G!Idle => gpioCtx[o].pin \in Pin /\ gpioCtx[o].pin # p
    BY <2>2 DEF GpioInv
  <2>7. /\ port' \in [odr : [Pin -> {0, 1}], config : [G!Registers -> [Pin -> SUBSET Nat]]]
        /\ own' \in [odr : [Pin -> {0, 1}], config : [G!Registers -> [G!MainPins -> SUBSET Nat]]]
        /\ G!LevelsAreKept' /\ G!ConfigIsKept'
        /\ port'.config = port.config /\ port'.odr = [port.odr EXCEPT ![p] = level]
    BY <2>3, <2>5, GpioDrive
  <2>8. \A o \in Context : o # c /\ gpioCtx[o] # G!Idle =>
          port'.odr[gpioCtx[o].pin] = port.odr[gpioCtx[o].pin]
    BY <2>6, <2>7 DEF GpioInv
  <2>9. \A o \in Context : gpioCtx[o].pc # "idle" => gpioCtx[o] # G!Idle
    OBVIOUS
  <2>10. /\ gpioCtx'[c] = G!Idle /\ G!Idle.pc = "idle"
         /\ \A o \in Context : o # c => gpioCtx'[o] = gpioCtx[o]
    BY <2>4 DEF GpioInv
  <2>11. gpioCtx' \in [Context -> {G!Idle}
                    \cup [pc : {"again"}, pin : Pin, reset : [Pin -> {0, 1}]]
                    \cup [pc : {"write"}, pin : Pin, reset : [Pin -> {0, 1}], set : [Pin -> {0, 1}]]
                    \cup [pc : {"load"}, pin : Pin, todo : Seq(Access) \ {<<>>}]
                    \cup [pc : {"store"}, pin : Pin, todo : Seq(Access) \ {<<>>},
                          loaded : [Pin -> SUBSET Nat]]]
    <3>. HIDE DEF G!Idle, Context
    <3>. QED BY <2>4 DEF GpioInv
  <2>. HIDE DEF G!Idle
  <2>12. \A o \in Context : gpioCtx'[o] # G!Idle => o # c /\ gpioCtx'[o] = gpioCtx[o]
    BY <2>10
  <2>13. \A o \in Context : gpioCtx'[o].pc # "idle" => gpioCtx'[o] # G!Idle
    BY <2>10
  <2>. QED BY <2>7, <2>8, <2>11, <2>12, <2>13 DEF GpioInv
<1>8. ASSUME NEW c \in Context, G!Load(c) PROVE GpioInv'
  <2>. DEFINE r == Head(gpioCtx[c].todo).reg
              now1 == [pc |-> "store", pin |-> gpioCtx[c].pin, todo |-> gpioCtx[c].todo,
                       loaded |-> port.config[r]]
  <2>1. /\ gpioCtx[c].pc = "load" /\ gpioCtx[c].pin \in Pin /\ OwnerOf[gpioCtx[c].pin] = c
        /\ gpioCtx[c].todo \in Seq(Access) \ {<<>>}
    BY <1>8 DEF GpioInv, G!Load
  <2>2. port.config[r] \in [Pin -> SUBSET Nat]
    BY <2>1, HeadAccess DEF GpioInv
  <2>3. now1 \in [pc : {"store"}, pin : Pin, todo : Seq(Access) \ {<<>>}, loaded : [Pin -> SUBSET Nat]]
    BY <2>1, <2>2
  <2>4. /\ OwnerOf[now1.pin] = c /\ now1.pc = "store"
        /\ \A p \in G!MainPins : now1.loaded[p] = port.config[Head(now1.todo).reg][p]
    BY <2>1
  <2>5. gpioCtx' = [gpioCtx EXCEPT ![c] = now1] /\ UNCHANGED <<port, own>>
    BY <1>8 DEF G!Load
  <2>. HIDE DEF now1
  <2>. QED BY <2>3, <2>4, <2>5, GpioGoesOn
<1>. QED BY <1>1, <1>4, <1>5, <1>6, <1>7, <1>8, GpioStore DEF G!Next

-----------------------------------------------------------------------------
(* The model point.                                                        *)

\* Context c is going to call the subscriber at place i with the value of the point.
WillTell(c, i) ==
  \/ mpCtx[c].pc \in {"load", "store", "valid"}
  \/ mpCtx[c].pc = "touch" /\ mpCtx[c].i <= i /\ mp.isValid

\* A subscriber that has not seen the value is going to be called.
ModelpointInv ==
  /\ mp \in [data : Value, isValid : BOOLEAN, isLocked : BOOLEAN, updateCount : Nat,
             subscribers : Seq(Subscriber)]
  /\ seen \in [Subscriber -> Value]
  /\ mpCtx \in [Context -> {M!Idle} \cup [pc : {"copy"}, value : Value]
                  \cup [pc : {"load", "valid", "count"}] \cup [pc : {"store"}, count : Nat]
                  \cup [pc : {"touch"}, i : Nat \ {0}]]
  /\ \A i \in DOMAIN mp.subscribers :
       seen[mp.subscribers[i]] = mp.data \/ \E c \in Context : WillTell(c, i)

\* Nobody has subscribed yet.
LEMMA ModelpointInit == M!Init => ModelpointInv
<1>. SUFFICES ASSUME M!Init PROVE ModelpointInv
  OBVIOUS
<1>1. /\ mp \in [data : Value, isValid : BOOLEAN, isLocked : BOOLEAN, updateCount : Nat,
                 subscribers : Seq(Subscriber)]
      /\ mp.subscribers = <<>>
  <2>1. mp \in [data : Value, isValid : BOOLEAN, isLocked : {FALSE}, updateCount : {0},
                subscribers : {<<>>}]
    BY DEF M!Init
  <2>2. PICK d \in Value, v \in BOOLEAN :
          mp = [data |-> d, isValid |-> v, isLocked |-> FALSE, updateCount |-> 0, subscribers |-> <<>>]
    BY <2>1
  <2>3. <<>> \in Seq(Subscriber)
    OBVIOUS
  <2>. QED BY <2>2, <2>3
<1>2. seen = [s \in Subscriber |-> mp.data] /\ mpCtx = [c \in Context |-> M!Idle]
  BY DEF M!Init, Context
<1>. QED BY <1>1, <1>2 DEF ModelpointInv

\* Whoever changes the value is going to call every subscriber.
LEMMA ModelpointStep ==
  ASSUME ModelpointInv, M!Next
  PROVE  ModelpointInv'
<1>. USE DEF ModelpointInv, M!At, M!Goto, M!Idle
<1>1. ASSUME NEW c \in Context, NEW v \in Value, M!SetTest(c, v) PROVE ModelpointInv'
  BY <1>1 DEF M!SetTest, WillTell
<1>2. ASSUME NEW c \in Context, M!SetCopy(c) PROVE ModelpointInv'
  BY <1>2 DEF M!SetCopy, WillTell
<1>3. ASSUME NEW c \in Context, M!SetLoad(c) PROVE ModelpointInv'
  BY <1>3 DEF M!SetLoad, WillTell
<1>4. ASSUME NEW c \in Context, M!SetStore(c) PROVE ModelpointInv'
  <2>1. (mpCtx[c].count + 1) % CountMod \in Nat
    <3>1. mpCtx[c].count \in Nat
      BY <1>4 DEF M!SetStore
    <3>. HIDE DEF ModelpointInv
    <3>. QED BY <3>1, UnitsAssumption
  <2>2. mp' = [mp EXCEPT !.updateCount = (mpCtx[c].count + 1) % CountMod] /\ mpCtx[c].pc = "store"
        /\ mpCtx' = [mpCtx EXCEPT ![c] = [pc |-> "valid"]] /\ seen' = seen
    BY <1>4 DEF M!SetStore
  <2>. QED BY <2>1, <2>2 DEF WillTell
<1>5. ASSUME NEW c \in Context, M!SetValid(c) PROVE ModelpointInv'
  <2>1. mp' = [mp EXCEPT !.isValid = TRUE] /\ mpCtx' = [mpCtx EXCEPT ![c] = [pc |-> "touch", i |-> 1]]
        /\ seen' = seen
    BY <1>5 DEF M!SetValid
  <2>2. ASSUME NEW i \in DOMAIN mp.subscribers PROVE WillTell(c, i)'
    <3>1. i >= 1 /\ i \in Nat
      OBVIOUS
    <3>. QED BY <2>1, <3>1 DEF WillTell
  <2>3. mpCtx' \in [Context -> {M!Idle} \cup [pc : {"copy"}, value : Value]
                  \cup [pc : {"load", "valid", "count"}] \cup [pc : {"store"}, count : Nat]
                  \cup [pc : {"touch"}, i : Nat \ {0}]]
    BY <2>1
  <2>. QED BY <2>1, <2>2, <2>3
<1>6. ASSUME NEW c \in Context, M!TouchBegin(c) PROVE ModelpointInv'
  BY <1>6 DEF M!TouchBegin, WillTell
<1>7. ASSUME NEW c \in Context, M!TouchNext(c) PROVE ModelpointInv'
  BY <1>7 DEF M!TouchNext, WillTell
<1>8. ASSUME NEW c \in Context, M!TouchDone(c) PROVE ModelpointInv'
  BY <1>8 DEF M!TouchDone, WillTell
<1>9. ASSUME NEW c \in Context, M!Lock(c) \/ M!Unlock(c) PROVE ModelpointInv'
  BY <1>9 DEF M!Lock, M!Unlock, WillTell
<1>10. ASSUME NEW c \in Context, M!CountLock(c) PROVE ModelpointInv'
  BY <1>10 DEF M!CountLock, WillTell
<1>11. ASSUME NEW c \in Context, M!CountUnlock(c) PROVE ModelpointInv'
  BY <1>11 DEF M!CountUnlock, WillTell
<1>12. ASSUME NEW s \in Subscriber, M!Subscribe(s) PROVE ModelpointInv'
  <2>1. mp' = [mp EXCEPT !.subscribers = Append(mp.subscribers, s)] /\ mpCtx' = mpCtx
        /\ seen' = [seen EXCEPT ![s] = mp.data]
    BY <1>12 DEF M!Subscribe
  <2>2. PICK n \in Nat : n = Len(mp.subscribers) /\ DOMAIN mp.subscribers = 1 .. n
    OBVIOUS
  <2>3. /\ Append(mp.subscribers, s) \in Seq(Subscriber)
        /\ DOMAIN Append(mp.subscribers, s) = 1 .. n + 1
        /\ \A i \in 1 .. n : Append(mp.subscribers, s)[i] = mp.subscribers[i]
        /\ Append(mp.subscribers, s)[n + 1] = s
    BY <2>2
  <2>4. ASSUME NEW i \in 1 .. n + 1
        PROVE  seen'[mp'.subscribers[i]] = mp'.data \/ \E c \in Context : WillTell(c, i)'
    <3>1. CASE i = n + 1
      BY <2>1, <2>3, <3>1
    <3>2. CASE i \in 1 .. n
      BY <2>1, <2>2, <2>3, <3>2 DEF WillTell
    <3>. QED BY <2>2, <3>1, <3>2
  <2>5. DOMAIN mp'.subscribers = 1 .. n + 1
    BY <2>1, <2>3
  <2>. QED BY <2>1, <2>3, <2>4, <2>5
<1>. QED BY <1>1, <1>2, <1>3, <1>4, <1>5, <1>6, <1>7, <1>8, <1>9, <1>10, <1>11, <1>12
         DEF M!Next, M!Set, M!Touch, Context

\* When no call is under way nobody is going to be called.
LEMMA SubscribersTold == ModelpointInv => M!SubscribersInformed
  BY DEF ModelpointInv, M!SubscribersInformed, WillTell, M!Idle, Context

-----------------------------------------------------------------------------
(* The data point.                                                         *)

\* The sequence number counts the changes; one that the reader has not counted
\* yet is the one the writer is about to count.
DatapointInv ==
  /\ dp \in [value : Value, isValid : BOOLEAN, isLocked : BOOLEAN, seqNum : 0 .. SeqMod - 1]
  /\ wr \in {D!Idle} \cup [pc : {"value"}, value : Value] \cup [pc : {"valid", "seq"}]
  /\ rd \in [value : Value, seqNum : 0 .. SeqMod - 1, since : 0 .. SeqMod]
  /\ rd.since < SeqMod =>
       dp.seqNum = IF rd.seqNum + rd.since < SeqMod THEN rd.seqNum + rd.since
                   ELSE rd.seqNum + rd.since - SeqMod
  /\ rd.since = 0 /\ dp.isValid => rd.value = dp.value \/ wr.pc \in {"valid", "seq"}

\* The sequence number comes round after SeqMod changes.
LEMMA NextSeq ==
  ASSUME NEW n \in 0 .. SeqMod - 1
  PROVE  (n + 1) % SeqMod = IF n = SeqMod - 1 THEN 0 ELSE n + 1
  BY UnitsAssumption

\* The reader has seen what the point holds.
LEMMA DatapointInit == D!Init => DatapointInv
<1>. SUFFICES ASSUME D!Init PROVE DatapointInv
  OBVIOUS
<1>1. /\ dp \in [value : Value, isValid : BOOLEAN, isLocked : {FALSE}, seqNum : {0}]
      /\ wr = D!Idle /\ rd = [value |-> dp.value, seqNum |-> dp.seqNum, since |-> 0]
  BY DEF D!Init
<1>2. /\ 0 \in 0 .. SeqMod - 1 /\ 0 \in 0 .. SeqMod /\ 0 + 0 < SeqMod
  BY UnitsAssumption
<1>3. dp \in [value : Value, isValid : BOOLEAN, isLocked : BOOLEAN, seqNum : 0 .. SeqMod - 1]
  BY <1>1, <1>2
<1>. QED BY <1>1, <1>2, <1>3 DEF DatapointInv

\* Every change is counted once, and a reader counts from where it read.
LEMMA DatapointStep ==
  ASSUME DatapointInv, D!Next
  PROVE  DatapointInv'
<1>. USE UnitsAssumption DEF DatapointInv, D!Idle
<1>1. ASSUME NEW v \in Value, NEW request, D!WriteLock(v, request) PROVE DatapointInv'
  <2>1. \/ dp' = [dp EXCEPT !.isLocked = FALSE]
        \/ dp' = [dp EXCEPT !.isLocked = TRUE]
        \/ dp' = dp
    BY <1>1 DEF D!WriteLock, D!TestAndUpdateLock
  <2>2. /\ dp' \in [value : Value, isValid : BOOLEAN, isLocked : BOOLEAN, seqNum : 0 .. SeqMod - 1]
        /\ dp'.value = dp.value /\ dp'.isValid = dp.isValid /\ dp'.seqNum = dp.seqNum
    BY <2>1
  <2>3. /\ wr = D!Idle /\ rd' = rd
        /\ wr' \in {D!Idle} \cup [pc : {"value"}, value : Value]
    BY <1>1 DEF D!WriteLock
  <2>4. wr.pc = "idle"
    BY <2>3
  <2>. QED BY <2>2, <2>3, <2>4
<1>2. ASSUME D!WriteValue PROVE DatapointInv'
  BY <1>2 DEF D!WriteValue
<1>3. ASSUME D!WriteValid PROVE DatapointInv'
  BY <1>3 DEF D!WriteValid
<1>4. ASSUME D!WriteSeq PROVE DatapointInv'
  <2>1. PICK n \in 0 .. SeqMod - 1, r \in 0 .. SeqMod - 1, k \in 0 .. SeqMod :
          n = dp.seqNum /\ r = rd.seqNum /\ k = rd.since
    OBVIOUS
  <2>2. /\ dp' = [dp EXCEPT !.seqNum = IF n = SeqMod - 1 THEN 0 ELSE n + 1]
        /\ rd' = [rd EXCEPT !.since = IF k < SeqMod THEN k + 1 ELSE k]
        /\ wr' = D!Idle
    BY <1>4, <2>1, NextSeq DEF D!WriteSeq
  <2>3. k < SeqMod => n = IF r + k < SeqMod THEN r + k ELSE r + k - SeqMod
    BY <2>1
  <2>4. /\ dp'.seqNum = (IF n = SeqMod - 1 THEN 0 ELSE n + 1) /\ dp'.seqNum \in 0 .. SeqMod - 1
        /\ dp' \in [value : Value, isValid : BOOLEAN, isLocked : BOOLEAN, seqNum : 0 .. SeqMod - 1]
    BY <2>2
  <2>5. /\ rd'.seqNum = r /\ rd'.since = (IF k < SeqMod THEN k + 1 ELSE k) /\ rd'.since > 0
        /\ rd' \in [value : Value, seqNum : 0 .. SeqMod - 1, since : 0 .. SeqMod]
    BY <2>1, <2>2
  <2>6. rd'.since < SeqMod =>
          dp'.seqNum = IF r + rd'.since < SeqMod THEN r + rd'.since ELSE r + rd'.since - SeqMod
    BY <2>3, <2>4, <2>5
  <2>. QED BY <2>2, <2>4, <2>5, <2>6
<1>5. ASSUME D!Read PROVE DatapointInv'
  BY <1>5 DEF D!Read
<1>. QED BY <1>1, <1>2, <1>3, <1>4, <1>5 DEF D!Next

\* Fewer than SeqMod changes leave the same number only if they are none.
LEMMA ChangeTold == DatapointInv => D!SeqTellsChange
  BY UnitsAssumption DEF DatapointInv, D!SeqTellsChange, D!Idle

-----------------------------------------------------------------------------
(* The measure of time.                                                    *)

\* The timer is where the time that has passed has brought it.
DelayInv ==
  /\ now \in 0 .. TIMER_TICK_MAX /\ then \in 0 .. TIMER_TICK_MAX /\ elapsed \in 0 .. TIMER_TICK_MAX
  /\ now = IF then + elapsed <= TIMER_TICK_MAX THEN then + elapsed
           ELSE then + elapsed - (TIMER_TICK_MAX + 1)

\* No time has passed yet.
LEMMA DelayInit == T!Init => DelayInv
  BY UnitsAssumption DEF T!Init, DelayInv

\* The timer starts again from 0 after its last value.
LEMMA NextTick ==
  ASSUME NEW n \in 0 .. TIMER_TICK_MAX
  PROVE  (n + 1) % (TIMER_TICK_MAX + 1) = IF n = TIMER_TICK_MAX THEN 0 ELSE n + 1
  BY UnitsAssumption

\* The timer and the time that has passed go on together.
LEMMA DelayStep ==
  ASSUME DelayInv, T!Next
  PROVE  DelayInv'
<1>1. CASE T!Tick
  BY <1>1, NextTick, UnitsAssumption DEF DelayInv, T!Tick
<1>2. CASE T!Begin
  BY <1>2, UnitsAssumption DEF DelayInv, T!Begin
<1>. QED BY <1>1, <1>2 DEF T!Next

\* TicksSince is the time that has passed, or after the roll over one tick less.
LEMMA DelaysKept == DelayInv => T!DelaysAreKept
  BY UnitsAssumption DEF DelayInv, T!DelaysAreKept, T!IsElapsed, T!TicksSince

-----------------------------------------------------------------------------
(* The converter.                                                          *)

\* Where the driver is, or which bit it is about to store.
Where == IF pc = "store" THEN rmw.bit ELSE pc

CommandBits == {"ADSTP", "ADDIS", "ADSTART", "ADEN", "ADCAL"}

AdcType ==
  /\ regs \in [cr : SUBSET CommandBits, isr : SUBSET {"EOC", "EOS"}, cfgr1 : SUBSET {"CONT", "DISCEN"},
               hsi14rdy : BOOLEAN, settled : BOOLEAN]
  /\ Where \in CommandBits \cup {"reset", "stopping", "disabling", "clock", "configure", "refused",
                                "calibrate", "asserted", "calibrating", "enable", "ready", "waiting"}
  /\ Where \in CommandBits => pc = "store"
  /\ rmw \in [cr : SUBSET CommandBits, bit : CommandBits \cup {"none"},
              then : {"none", "stopping", "disabling", "calibrating", "ready", "waiting"}]
  /\ lost \in [ignored : SUBSET CommandBits, early : SUBSET {"ADEN", "ADSTART"}, repeated : BOOLEAN]

\* A stop, a disable and a calibration are only going on where the driver waits for them.
CommandsWaited ==
  /\ "ADSTP" \in regs.cr => "ADSTART" \in regs.cr /\ Where = "stopping"
  /\ "ADSTART" \in regs.cr => "ADEN" \in regs.cr
  /\ "ADDIS" \in regs.cr => "ADEN" \in regs.cr /\ "ADSTART" \notin regs.cr /\ Where = "disabling"
  /\ "ADCAL" \in regs.cr => regs.cr = {"ADCAL"} /\ Where = "calibrating"

\* The converter is off for its calibration, and on for conversions unless it ignored ADEN.
ConverterOff ==
  /\ Where \in {"ADCAL", "calibrating", "enable", "ADEN"} => "ADEN" \notin regs.cr
  /\ Where \in {"ready", "waiting", "ADSTART"} => "ADEN" \in regs.cr \/ "ADEN" \in lost.early
  /\ Where = "ADDIS" => "ADEN" \in regs.cr
  /\ Where = "ADSTART" => "ADSTART" \notin regs.cr

\* The same for the rest of the initialisation, unless a store has started a conversion again.
ConverterStopped ==
  ~lost.repeated =>
    /\ Where \in {"reset", "clock", "configure", "calibrate", "refused"} => "ADEN" \notin regs.cr
    /\ Where \in {"stopping", "ADDIS", "disabling"} => ("ADSTART" \in regs.cr => "ADSTP" \in regs.cr)
    /\ Where = "ADDIS" => "ADSTART" \notin regs.cr
    /\ Where = "disabling" => ("ADEN" \in regs.cr => "ADDIS" \in regs.cr)

\* Only a conversion ends between a load and its store.
LoadHolds ==
  pc = "store" =>
    /\ regs.cr \subseteq rmw.cr /\ rmw.cr \subseteq regs.cr \cup {"ADSTART"}
    /\ rmw.bit \in {"ADCAL", "ADEN", "ADSTART"} => rmw.cr = regs.cr
    /\ <<rmw.bit, rmw.then>> \in {<<"ADSTP", "stopping">>, <<"ADDIS", "disabling">>,
                                 <<"ADCAL", "calibrating">>, <<"ADEN", "ready">>,
                                 <<"ADSTART", "ready">>, <<"ADSTART", "waiting">>}

AdcInv ==
  AdcType /\ CommandsWaited /\ ConverterOff /\ ConverterStopped /\ LoadHolds /\ A!CommandsAreTaken


\* The converter is off after the reset.
LEMMA AdcInit == A!Init => AdcInv
  BY DEF A!Init, AdcInv, AdcType, CommandsWaited, ConverterOff, ConverterStopped, LoadHolds,
         A!CommandsAreTaken, Where, CommandBits, A!None

\* The load of a command that the driver may give.
LEMMA AdcLoad ==
  ASSUME AdcInv, NEW from, NEW bit \in CommandBits, NEW then1, from # "store", A!Load(from, bit, then1),
         <<bit, then1>> \in {<<"ADSTP", "stopping">>, <<"ADDIS", "disabling">>,
                             <<"ADCAL", "calibrating">>, <<"ADEN", "ready">>,
                             <<"ADSTART", "ready">>, <<"ADSTART", "waiting">>},
         <<from, bit>> \in {<<"reset", "ADSTP">>, <<"ready", "ADSTP">>, <<"stopping", "ADDIS">>,
                            <<"calibrate", "ADCAL">>, <<"enable", "ADEN">>, <<"ready", "ADSTART">>},
         bit = "ADSTP" => pc \in {"reset", "ready"},
         bit = "ADDIS" => "ADSTP" \notin regs.cr /\ "ADEN" \in regs.cr,
         bit = "ADCAL" => "ADEN" \notin regs.cr,
         bit = "ADSTART" => "ADSTART" \notin regs.cr
  PROVE  AdcInv'
<1>1. /\ pc = from /\ pc' = "store" /\ rmw' = [cr |-> regs.cr, bit |-> bit, then |-> then1]
      /\ regs' = regs /\ lost' = lost /\ Where = from /\ Where' = bit
  BY DEF A!Load, A!Step, Where
<1>2. AdcType'
  BY <1>1 DEF AdcInv, AdcType, CommandBits
<1>3. CommandsWaited'
  BY <1>1 DEF AdcInv, CommandsWaited
<1>4. ConverterOff'
  BY <1>1 DEF AdcInv, ConverterOff
<1>5. ConverterStopped'
  BY <1>1 DEF AdcInv, ConverterStopped
<1>6. LoadHolds'
  BY <1>1 DEF AdcInv, AdcType, LoadHolds
<1>7. A!CommandsAreTaken'
  BY <1>1 DEF AdcInv, A!CommandsAreTaken
<1>. QED BY <1>2, <1>3, <1>4, <1>5, <1>6, <1>7 DEF AdcInv

\* Which bits are set after the converter has looked at some.
LEMMA TakesMember ==
  ASSUME NEW cr \in SUBSET CommandBits, NEW bits \in SUBSET CommandBits
  PROVE  /\ A!Takes(cr, bits) \in SUBSET CommandBits
         /\ \A bit \in CommandBits :
              bit \in A!Takes(cr, bits) <=>
                bit \in cr \/ (bit \in bits /\ A!Allows(cr, bit) /\ A!Settled(bit))
  BY DEF A!Takes

\* What CR has to be for each command.
LEMMA AllowsIs ==
  ASSUME NEW cr \in SUBSET CommandBits
  PROVE  /\ A!Allows(cr, "ADSTP") <=> "ADSTART" \in cr
         /\ A!Allows(cr, "ADDIS") <=> "ADEN" \in cr /\ "ADSTART" \notin cr
         /\ A!Allows(cr, "ADSTART") <=> "ADEN" \in cr /\ "ADDIS" \notin cr
         /\ A!Allows(cr, "ADEN") <=> \A bit \in CommandBits : bit \notin cr
         /\ A!Allows(cr, "ADCAL") <=> \A bit \in CommandBits : bit \notin cr
  BY DEF A!Allows

\* What a store makes of CR, bit by bit: of the other bits it writes at most ADSTART again.
LEMMA StoreIs ==
  ASSUME AdcInv, A!Store
  PROVE  /\ pc = "store" /\ pc' = rmw.then /\ rmw' = A!None
         /\ regs' \in [cr : SUBSET CommandBits, isr : SUBSET {"EOC", "EOS"}, cfgr1 : SUBSET {"CONT", "DISCEN"},
                       hsi14rdy : BOOLEAN, settled : BOOLEAN]
         /\ \E written \in SUBSET CommandBits, first \in CommandBits, once \in SUBSET CommandBits :
              /\ \A bit \in CommandBits : bit \in written <=> bit = rmw.bit \/ (bit \in rmw.cr /\ bit \notin regs.cr)
              /\ first \in written
              /\ \A bit \in CommandBits : bit \in once <=>
                   bit \in regs.cr \/ (bit = first /\ A!Allows(regs.cr, bit) /\ A!Settled(bit))
              /\ \A bit \in CommandBits : bit \in regs'.cr <=>
                   bit \in once \/ (bit \in written /\ A!Allows(once, bit) /\ A!Settled(bit))
              /\ lost'.repeated <=> lost.repeated \/ written # {rmw.bit}
              /\ lost'.early = lost.early \cup IF A!Allows(regs.cr, rmw.bit) /\ ~A!Settled(rmw.bit) THEN {rmw.bit} ELSE {}
              /\ \A bit \in CommandBits : bit \in lost'.ignored <=>
                   \/ bit \in lost.ignored
                   \/ /\ bit = rmw.bit /\ bit \notin regs'.cr
                      /\ ~(A!Allows(regs.cr, bit) /\ ~A!Settled(bit))
         /\ lost' \in [ignored : SUBSET CommandBits, early : SUBSET {"ADEN", "ADSTART"}, repeated : BOOLEAN]
<1>. DEFINE written == {rmw.bit} \cup (rmw.cr \ regs.cr)
            early == IF A!Allows(regs.cr, rmw.bit) /\ ~A!Settled(rmw.bit) THEN {rmw.bit} ELSE {}
            once(first) == A!Takes(regs.cr, {first})
            cr(first) == A!Takes(once(first), written)
<1>1. /\ pc = "store" /\ pc' = rmw.then /\ rmw' = A!None
  BY DEF A!Store, A!Step
<1>2. PICK first \in written :
        /\ regs' = [regs EXCEPT !.cr = cr(first), !.settled = @ /\ "ADEN" \notin cr(first) \ regs.cr]
        /\ lost' = [ignored |-> lost.ignored \cup ({rmw.bit} \ (cr(first) \cup early)),
                    early |-> lost.early \cup early,
                    repeated |-> lost.repeated \/ written # {rmw.bit}]
  BY Zenon DEF A!Store
<1>3. /\ rmw.bit \in CommandBits /\ rmw.cr \in SUBSET CommandBits /\ regs.cr \in SUBSET CommandBits
  BY <1>1 DEF AdcInv, AdcType, LoadHolds, CommandBits
<1>4. written \in SUBSET CommandBits /\ first \in CommandBits
  BY <1>3
<1>5. \A bit \in CommandBits : bit \in written <=> bit = rmw.bit \/ (bit \in rmw.cr /\ bit \notin regs.cr)
  OBVIOUS
<1>6. /\ once(first) \in SUBSET CommandBits
      /\ \A bit \in CommandBits : bit \in once(first) <=>
           bit \in regs.cr \/ (bit = first /\ A!Allows(regs.cr, bit) /\ A!Settled(bit))
  BY <1>3, <1>4, TakesMember
<1>7. early \in SUBSET {"ADEN", "ADSTART"}
  BY DEF A!Settled
<1>8. /\ early = {} \/ early = {rmw.bit}
      /\ early = {rmw.bit} <=> (A!Allows(regs.cr, rmw.bit) /\ ~A!Settled(rmw.bit))
  OBVIOUS
<1>. HIDE DEF written, early, once
<1>9. /\ cr(first) \in SUBSET CommandBits
      /\ \A bit \in CommandBits : bit \in cr(first) <=>
           bit \in once(first) \/ (bit \in written /\ A!Allows(once(first), bit) /\ A!Settled(bit))
  BY <1>4, <1>6, TakesMember
<1>. HIDE DEF cr
<1>10. regs'.cr = cr(first)
  BY <1>2 DEF AdcInv, AdcType
<1>11. regs' \in [cr : SUBSET CommandBits, isr : SUBSET {"EOC", "EOS"}, cfgr1 : SUBSET {"CONT", "DISCEN"},
                  hsi14rdy : BOOLEAN, settled : BOOLEAN]
  BY <1>2, <1>9 DEF AdcInv, AdcType
<1>12. /\ lost'.repeated <=> lost.repeated \/ written # {rmw.bit}
       /\ lost'.early = lost.early \cup early
       /\ lost'.ignored = lost.ignored \cup ({rmw.bit} \ (cr(first) \cup early))
  BY <1>2
<1>13. \A bit \in CommandBits : bit \in lost'.ignored <=>
         bit \in lost.ignored \/ (bit = rmw.bit /\ bit \notin regs'.cr /\ ~(A!Allows(regs.cr, bit) /\ ~A!Settled(bit)))
  BY <1>8, <1>10, <1>12
<1>14. lost' \in [ignored : SUBSET CommandBits, early : SUBSET {"ADEN", "ADSTART"}, repeated : BOOLEAN]
  <2>1. (lost.repeated \/ written # {rmw.bit}) \in BOOLEAN
    OBVIOUS
  <2>. QED BY <1>2, <1>3, <1>7, <2>1 DEF AdcInv, AdcType
<1>. QED BY <1>1, <1>4, <1>5, <1>6, <1>9, <1>10, <1>11, <1>12, <1>13, <1>14 DEF early

\* The converter makes of the store of a command what the driver has waited for.
LEMMA AdcStore ==
  ASSUME AdcInv, A!Store
  PROVE  AdcInv'
<1>1. /\ pc = "store" /\ pc' = rmw.then /\ rmw' = A!None /\ Where = rmw.bit
  BY StoreIs DEF Where
<1>2. /\ rmw.bit \in CommandBits /\ rmw.cr \in SUBSET CommandBits /\ regs.cr \in SUBSET CommandBits
      /\ rmw.then \in {"stopping", "disabling", "calibrating", "ready", "waiting"}
  BY <1>1 DEF AdcInv, AdcType, LoadHolds, CommandBits
<1>3. Where' = rmw.then
  BY <1>1, <1>2 DEF Where
<1>4. AdcType' /\ LoadHolds'
  BY <1>1, <1>2, <1>3, StoreIs DEF AdcType, LoadHolds, CommandBits, A!None
<1>5. PICK written \in SUBSET CommandBits, first \in CommandBits, once \in SUBSET CommandBits :
        /\ \A bit \in CommandBits : bit \in written <=> bit = rmw.bit \/ (bit \in rmw.cr /\ bit \notin regs.cr)
        /\ first \in written
        /\ \A bit \in CommandBits : bit \in once <=>
             bit \in regs.cr \/ (bit = first /\ A!Allows(regs.cr, bit) /\ A!Settled(bit))
        /\ \A bit \in CommandBits : bit \in regs'.cr <=>
             bit \in once \/ (bit \in written /\ A!Allows(once, bit) /\ A!Settled(bit))
        /\ lost'.repeated <=> lost.repeated \/ written # {rmw.bit}
        /\ lost'.early = lost.early \cup IF A!Allows(regs.cr, rmw.bit) /\ ~A!Settled(rmw.bit) THEN {rmw.bit} ELSE {}
        /\ \A bit \in CommandBits : bit \in lost'.ignored <=>
             \/ bit \in lost.ignored
             \/ /\ bit = rmw.bit /\ bit \notin regs'.cr
                /\ ~(A!Allows(regs.cr, bit) /\ ~A!Settled(bit))
  BY StoreIs
<1>6. /\ regs'.cr \in SUBSET CommandBits /\ lost'.ignored \in SUBSET CommandBits
  BY StoreIs
<1>7. /\ A!Allows(regs.cr, "ADSTP") <=> "ADSTART" \in regs.cr
      /\ A!Allows(regs.cr, "ADDIS") <=> "ADEN" \in regs.cr /\ "ADSTART" \notin regs.cr
      /\ A!Allows(regs.cr, "ADSTART") <=> "ADEN" \in regs.cr /\ "ADDIS" \notin regs.cr
      /\ A!Allows(regs.cr, "ADEN") <=> \A bit \in CommandBits : bit \notin regs.cr
      /\ A!Allows(regs.cr, "ADCAL") <=> \A bit \in CommandBits : bit \notin regs.cr
  BY <1>2, AllowsIs
<1>8. /\ A!Allows(once, "ADSTP") <=> "ADSTART" \in once
      /\ A!Allows(once, "ADDIS") <=> "ADEN" \in once /\ "ADSTART" \notin once
      /\ A!Allows(once, "ADSTART") <=> "ADEN" \in once /\ "ADDIS" \notin once
      /\ A!Allows(once, "ADEN") <=> \A bit \in CommandBits : bit \notin once
      /\ A!Allows(once, "ADCAL") <=> \A bit \in CommandBits : bit \notin once
  BY AllowsIs
<1>9. /\ A!Settled("ADSTP") /\ A!Settled("ADDIS") /\ A!Settled("ADCAL")
  BY DEF A!Settled
<1>10. \A bit \in CommandBits : bit \in written => bit \in {rmw.bit, "ADSTART"}
  BY <1>1, <1>5 DEF AdcInv, LoadHolds
<1>11. written # {rmw.bit} <=> "ADSTART" \in written /\ rmw.bit # "ADSTART"
  BY <1>2, <1>5, <1>10
<1>12. \/ rmw.bit \in {"ADSTP", "ADDIS"}
       \/ rmw.bit \in {"ADCAL", "ADEN", "ADSTART"} /\ written = {rmw.bit} /\ first = rmw.bit
  <2>1. ASSUME rmw.bit \in {"ADCAL", "ADEN", "ADSTART"} PROVE written = {rmw.bit} /\ first = rmw.bit
    <3>1. rmw.cr = regs.cr
      BY <1>1, <2>1 DEF AdcInv, LoadHolds
    <3>2. \A bit \in CommandBits : bit \in written <=> bit = rmw.bit
      BY <1>5, <3>1
    <3>. QED BY <1>2, <1>5, <3>2
  <2>. QED BY <1>2, <2>1 DEF CommandBits
<1>13. CASE rmw.bit = "ADCAL"
  <2>1. \A bit \in CommandBits : bit \notin regs.cr
    BY <1>1, <1>13 DEF AdcInv, CommandsWaited, ConverterOff, CommandBits
  <2>2. /\ \A bit \in CommandBits : bit \in regs'.cr <=> bit = "ADCAL"
        /\ lost'.repeated <=> lost.repeated
        /\ lost'.early = lost.early
        /\ \A bit \in CommandBits : bit \in lost'.ignored <=> bit \in lost.ignored
    BY <1>5, <1>7, <1>9, <1>11, <1>12, <1>13, <2>1 DEF CommandBits
  <2>3. Where' = "calibrating" /\ pc' # "asserted"
    BY <1>1, <1>3, <1>13 DEF AdcInv, LoadHolds
  <2>4. CommandsWaited' /\ ConverterOff'
    BY <1>6, <2>2, <2>3 DEF CommandsWaited, ConverterOff, CommandBits
  <2>5. ConverterStopped' /\ A!CommandsAreTaken'
    BY <1>1, <1>6, <2>2, <2>3 DEF AdcInv, ConverterStopped, A!CommandsAreTaken, CommandBits
  <2>. QED BY <1>4, <2>4, <2>5 DEF AdcInv
<1>14. CASE rmw.bit = "ADEN"
  <2>1. \A bit \in CommandBits : bit \notin regs.cr
    BY <1>1, <1>14 DEF AdcInv, CommandsWaited, ConverterOff, CommandBits
  <2>2. /\ \A bit \in CommandBits : bit \in regs'.cr <=> bit = "ADEN" /\ A!Settled("ADEN")
        /\ lost'.repeated <=> lost.repeated
        /\ lost'.early = lost.early \cup IF A!Settled("ADEN") THEN {} ELSE {"ADEN"}
        /\ \A bit \in CommandBits : bit \in lost'.ignored <=> bit \in lost.ignored
    BY <1>5, <1>7, <1>8, <1>11, <1>12, <1>14, <2>1 DEF CommandBits
  <2>3. Where' = "ready" /\ pc' # "asserted"
    BY <1>1, <1>3, <1>14 DEF AdcInv, LoadHolds
  <2>4. CommandsWaited' /\ ConverterOff'
    BY <1>6, <2>2, <2>3 DEF CommandsWaited, ConverterOff, CommandBits
  <2>5. ConverterStopped' /\ A!CommandsAreTaken'
    BY <1>1, <1>6, <2>2, <2>3 DEF AdcInv, ConverterStopped, A!CommandsAreTaken, CommandBits
  <2>. QED BY <1>4, <2>4, <2>5 DEF AdcInv
<1>15. CASE rmw.bit = "ADSTART"
  <2>1. /\ "ADSTART" \notin regs.cr /\ "ADDIS" \notin regs.cr /\ "ADSTP" \notin regs.cr /\ "ADCAL" \notin regs.cr
        /\ "ADEN" \in regs.cr \/ "ADEN" \in lost.early
    BY <1>1, <1>15 DEF AdcInv, CommandsWaited, ConverterOff, CommandBits
  <2>2. /\ \A bit \in CommandBits : bit \in regs'.cr <=>
             bit \in regs.cr \/ (bit = "ADSTART" /\ "ADEN" \in regs.cr /\ A!Settled("ADSTART"))
        /\ lost'.repeated <=> lost.repeated
        /\ "ADEN" \in lost'.early <=> "ADEN" \in lost.early
        /\ \A bit \in CommandBits : bit \in lost'.ignored <=>
             bit \in lost.ignored \/ (bit = "ADSTART" /\ "ADEN" \notin regs.cr)
    BY <1>5, <1>7, <1>8, <1>11, <1>12, <1>15, <2>1 DEF CommandBits
  <2>3. Where' \in {"ready", "waiting"} /\ pc' # "asserted"
    BY <1>1, <1>3, <1>15 DEF AdcInv, LoadHolds
  <2>4. CommandsWaited' /\ ConverterOff'
    BY <1>6, <2>1, <2>2, <2>3 DEF CommandsWaited, ConverterOff, CommandBits
  <2>5. ConverterStopped' /\ A!CommandsAreTaken'
    BY <1>1, <1>6, <2>1, <2>2, <2>3 DEF AdcInv, ConverterStopped, A!CommandsAreTaken, CommandBits
  <2>. QED BY <1>4, <2>4, <2>5 DEF AdcInv
<1>16. CASE rmw.bit = "ADSTP"
  <2>1. "ADDIS" \notin regs.cr /\ "ADSTP" \notin regs.cr /\ "ADCAL" \notin regs.cr
    BY <1>1, <1>16 DEF AdcInv, CommandsWaited, CommandBits
  <2>2. /\ \A bit \in CommandBits : bit \in regs'.cr => bit \in regs.cr \/ bit \in {"ADSTART", "ADSTP"}
        /\ "ADEN" \in regs.cr <=> "ADEN" \in regs'.cr
        /\ "ADSTP" \in regs'.cr => "ADSTART" \in regs'.cr
        /\ "ADSTART" \in regs'.cr => "ADEN" \in regs'.cr
        /\ lost.repeated => lost'.repeated
        /\ ~lost'.repeated => ("ADSTART" \in regs'.cr => "ADSTP" \in regs'.cr)
        /\ lost'.early = lost.early
        /\ \A bit \in CommandBits : bit \in lost'.ignored => bit \in lost.ignored \/ bit = "ADSTP"
    BY <1>1, <1>5, <1>7, <1>8, <1>9, <1>10, <1>11, <1>16, <2>1 DEF AdcInv, CommandsWaited, CommandBits
  <2>3. Where' = "stopping" /\ pc' # "asserted"
    BY <1>1, <1>3, <1>16 DEF AdcInv, LoadHolds
  <2>4. CommandsWaited' /\ ConverterOff'
    BY <1>6, <2>1, <2>2, <2>3 DEF CommandsWaited, ConverterOff, CommandBits
  <2>5. ConverterStopped' /\ A!CommandsAreTaken'
    BY <1>1, <1>6, <2>1, <2>2, <2>3 DEF AdcInv, ConverterStopped, A!CommandsAreTaken, CommandBits
  <2>. QED BY <1>4, <2>4, <2>5 DEF AdcInv
<1>17. CASE rmw.bit = "ADDIS"
  <2>1. /\ "ADDIS" \notin regs.cr /\ "ADSTP" \notin regs.cr /\ "ADCAL" \notin regs.cr /\ "ADEN" \in regs.cr
        /\ ~lost.repeated => "ADSTART" \notin regs.cr
    BY <1>1, <1>17 DEF AdcInv, CommandsWaited, ConverterOff, ConverterStopped, CommandBits
  <2>2. /\ \A bit \in CommandBits : bit \in regs'.cr => bit \in regs.cr \/ bit \in {"ADSTART", "ADDIS"}
        /\ "ADEN" \in regs'.cr
        /\ "ADDIS" \in regs'.cr => "ADSTART" \notin regs'.cr
        /\ lost.repeated => lost'.repeated
        /\ ~lost'.repeated => "ADDIS" \in regs'.cr
        /\ lost'.early = lost.early
        /\ \A bit \in CommandBits : bit \in lost'.ignored => bit \in lost.ignored \/ (bit = "ADDIS" /\ lost'.repeated)
    BY <1>1, <1>5, <1>7, <1>8, <1>9, <1>10, <1>11, <1>17, <2>1 DEF CommandBits
  <2>3. Where' = "disabling" /\ pc' # "asserted"
    BY <1>1, <1>3, <1>17 DEF AdcInv, LoadHolds
  <2>4. CommandsWaited' /\ ConverterOff'
    BY <1>6, <2>1, <2>2, <2>3 DEF CommandsWaited, ConverterOff, CommandBits
  <2>5. ConverterStopped' /\ A!CommandsAreTaken'
    BY <1>1, <1>6, <2>1, <2>2, <2>3 DEF AdcInv, ConverterStopped, A!CommandsAreTaken, CommandBits
  <2>. QED BY <1>4, <2>4, <2>5 DEF AdcInv
<1>. QED BY <1>12, <1>13, <1>14, <1>15, <1>16, <1>17

\* A step that leaves CR and the driver as they are.
LEMMA AdcSame ==
  ASSUME AdcInv, UNCHANGED <<pc, rmw, lost>>, regs'.cr = regs.cr,
         regs' \in [cr : SUBSET CommandBits, isr : SUBSET {"EOC", "EOS"}, cfgr1 : SUBSET {"CONT", "DISCEN"},
                    hsi14rdy : BOOLEAN, settled : BOOLEAN]
  PROVE  AdcInv'
<1>1. Where' = Where
  BY DEF Where
<1>2. AdcType'
  BY <1>1 DEF AdcInv, AdcType
<1>3. CommandsWaited' /\ ConverterOff'
  BY <1>1 DEF AdcInv, CommandsWaited, ConverterOff
<1>4. ConverterStopped' /\ LoadHolds' /\ A!CommandsAreTaken'
  BY <1>1 DEF AdcInv, ConverterStopped, LoadHolds, A!CommandsAreTaken
<1>. QED BY <1>2, <1>3, <1>4 DEF AdcInv

\* The driver gives a command only where the bits allow it.
LEMMA AdcStep ==
  ASSUME AdcInv, A!Next
  PROVE  AdcInv'
<1>1. ASSUME A!InitStop PROVE AdcInv'
  <2>1. PICK from \in {"reset", "ready"} : A!Load(from, "ADSTP", "stopping")
    BY <1>1 DEF A!InitStop
  <2>2. pc = from
    BY <2>1 DEF A!Load, A!Step
  <2>. QED BY <2>1, <2>2, AdcLoad DEF CommandBits
<1>2. ASSUME A!InitDisable PROVE AdcInv'
  BY <1>2, AdcLoad DEF A!InitDisable, CommandBits
<1>3. ASSUME A!InitEnable PROVE AdcInv'
  BY <1>3, AdcLoad DEF A!InitEnable, CommandBits
<1>4. ASSUME A!CalibrateStart PROVE AdcInv'
  <2>1. CASE "ADEN" \notin regs.cr
    BY <1>4, <2>1, AdcLoad DEF A!CalibrateStart, CommandBits
  <2>2. CASE "ADEN" \in regs.cr
    <3>1. pc = "calibrate" /\ pc' = "asserted" /\ UNCHANGED <<regs, rmw, lost>>
      BY <1>4, <2>2 DEF A!CalibrateStart, A!Step
    <3>. QED BY <2>2, <3>1 DEF AdcInv, AdcType, CommandsWaited, ConverterOff, ConverterStopped, LoadHolds,
                  A!CommandsAreTaken, Where, CommandBits
  <2>. QED BY <2>1, <2>2
<1>5. ASSUME NEW then1 \in {"ready", "waiting"}, A!ConversionStart(then1) PROVE AdcInv'
  BY <1>5, AdcLoad DEF A!ConversionStart, CommandBits
<1>6. ASSUME A!Store PROVE AdcInv'
  BY <1>6, AdcStore
<1>. USE DEF AdcInv, AdcType, CommandsWaited, ConverterOff, ConverterStopped, LoadHolds, A!CommandsAreTaken,
             Where, CommandBits, A!Step
<1>7. ASSUME A!InitClear PROVE AdcInv'
  BY <1>7 DEF A!InitClear
<1>8. ASSUME A!InitRefuse PROVE AdcInv'
  BY <1>8 DEF A!InitRefuse
<1>9. ASSUME NEW source, A!InitClock(source) PROVE AdcInv'
  BY <1>9 DEF A!InitClock
<1>10. ASSUME NEW mode \in {{}, {"CONT"}, {"DISCEN"}, {"none"}}, A!InitConfigure(mode) PROVE AdcInv'
  BY <1>10 DEF A!InitConfigure
<1>11. ASSUME A!CalibrateDone PROVE AdcInv'
  BY <1>11 DEF A!CalibrateDone
<1>12. ASSUME A!ChannelRead PROVE AdcInv'
  BY <1>12 DEF A!ChannelRead
<1>13. ASSUME A!Hardware PROVE AdcInv'
  <2>1. ASSUME A!Clears("ADSTP", {"ADSTP", "ADSTART"}) PROVE AdcInv'
    BY <1>13, <2>1 DEF A!Hardware, A!Clears
  <2>2. ASSUME A!Clears("ADDIS", {"ADDIS", "ADEN"}) PROVE AdcInv'
    BY <1>13, <2>2 DEF A!Hardware, A!Clears
  <2>3. ASSUME A!Clears("ADCAL", {"ADCAL"}) PROVE AdcInv'
    BY <1>13, <2>3 DEF A!Hardware, A!Clears
  <2>4. ASSUME A!Convert PROVE AdcInv'
    <3>1. PICK cr \in {regs.cr, regs.cr \ {"ADSTART", "ADSTP"}} :
            regs' = [regs EXCEPT !.isr = {"EOC", "EOS"}, !.cr = cr]
      BY <2>4 DEF A!Convert
    <3>2. /\ regs' \in [cr : SUBSET CommandBits, isr : SUBSET {"EOC", "EOS"}, cfgr1 : SUBSET {"CONT", "DISCEN"},
                       hsi14rdy : BOOLEAN, settled : BOOLEAN]
          /\ regs'.cr = cr
      BY <3>1
    <3>3. "ADSTART" \in regs.cr /\ UNCHANGED <<pc, rmw, lost>>
      BY <1>13, <2>4 DEF A!Hardware, A!Convert
    <3>4. CASE cr = regs.cr
      BY <3>2, <3>3, <3>4, AdcSame DEF AdcInv
    <3>5. CASE cr = regs.cr \ {"ADSTART", "ADSTP"}
      <4>1. \A bit \in CommandBits : bit \in regs'.cr <=> bit \in regs.cr /\ bit \notin {"ADSTART", "ADSTP"}
        BY <3>2, <3>5
      <4>. QED BY <3>2, <3>3, <4>1
    <3>. QED BY <3>4, <3>5
  <2>5. ASSUME regs' = [regs EXCEPT !.settled = TRUE] PROVE AdcInv'
    BY <1>13, <2>5, AdcSame DEF A!Hardware
  <2>6. ASSUME regs' = [regs EXCEPT !.hsi14rdy = TRUE] PROVE AdcInv'
    BY <1>13, <2>6, AdcSame DEF A!Hardware
  <2>. HIDE DEF AdcInv
  <2>. QED BY <1>13, <2>1, <2>2, <2>3, <2>4, <2>5, <2>6 DEF A!Hardware
<1>. QED BY <1>1, <1>2, <1>3, <1>4, <1>5, <1>6, <1>7, <1>8, <1>9, <1>10, <1>11, <1>12, <1>13 DEF A!Next

-----------------------------------------------------------------------------
(* Critical sections.                                                      *)

\* What is enabled inside of section d: what was when the next one began.
EnabledIn(d) == IF d = depth THEN enabled ELSE section[d + 1].enabled

SectionsType ==
  /\ enabled \in SUBSET Irq /\ primask = FALSE
  /\ depth \in 0 .. Nesting
  /\ saved \in [1 .. Nesting -> BOOLEAN]
  /\ section \in [1 .. Nesting -> [irq : Numbers \cup {IRQ_ALL}, pc : {"none", "saved", "inside"},
                                   enabled : SUBSET Irq, primask : BOOLEAN]]

\* A section has saved whether its interrupt was enabled when it began, it has disabled no
\* other, and its interrupt stays disabled until it ends.
SectionsInv ==
  /\ SectionsType
  /\ \A d \in 1 .. depth :
       /\ section[d].irq \in Numbers /\ section[d].pc \in {"saved", "inside"}
       /\ section[d].primask = FALSE
       /\ saved[d] <=> section[d].irq \in section[d].enabled
       /\ EnabledIn(d) = section[d].enabled \ IF section[d].pc = "inside" THEN {section[d].irq} ELSE {}
  /\ \A d \in 1 .. depth : section[d].pc = "inside" =>
       \A e \in d .. depth : section[d].irq \notin EnabledIn(e)

\* No section has begun.
LEMMA SectionsInit == CS!Init => SectionsInv
  BY UnitsAssumption DEF CS!Init, CS!None, SectionsInv, SectionsType, EnabledIn

\* A section that begins changes nothing yet.
LEMMA SectionsBegin ==
  ASSUME SectionsInv, NEW irq \in Numbers, CS!Begin(irq)
  PROVE  SectionsInv'
<1>. DEFINE top == [irq |-> irq, pc |-> "saved", enabled |-> enabled, primask |-> primask]
            was == irq \in enabled
<1>1. /\ depth \in 0 .. Nesting /\ depth + 1 \in 1 .. Nesting /\ depth' = depth + 1 /\ Nesting \in Nat
      /\ primask = FALSE /\ irq # IRQ_ALL
  BY UnitsAssumption DEF SectionsInv, SectionsType, CS!Begin
<1>2. /\ enabled' = enabled /\ primask' = primask
      /\ saved' = [saved EXCEPT ![depth + 1] = IF irq = IRQ_ALL THEN primask ELSE was]
      /\ section' = [section EXCEPT ![depth + 1] = top]
  BY Zenon DEF CS!Begin, CS!SaveState
<1>3. was \in BOOLEAN
  OBVIOUS
<1>4. top \in [irq : Numbers \cup {IRQ_ALL}, pc : {"none", "saved", "inside"},
               enabled : SUBSET Irq, primask : BOOLEAN]
  BY DEF SectionsInv, SectionsType
<1>5. /\ top.irq = irq /\ top.pc = "saved" /\ top.enabled = enabled /\ top.primask = primask
      /\ was <=> irq \in enabled
  OBVIOUS
<1>. HIDE DEF top, was
<1>6. saved' = [saved EXCEPT ![depth + 1] = was]
  BY <1>1, <1>2
<1>7. SectionsType'
  BY <1>1, <1>2, <1>3, <1>4, <1>6 DEF SectionsInv, SectionsType
<1>8. /\ section'[depth + 1] = top
      /\ saved'[depth + 1] = was
      /\ \A d \in 1 .. depth : section'[d] = section[d] /\ saved'[d] = saved[d]
  BY <1>1, <1>2, <1>6 DEF SectionsInv, SectionsType
<1>9. /\ \A d \in 1 .. depth + 1 : d = depth + 1 => EnabledIn(d)' = enabled
      /\ \A d \in 1 .. depth : EnabledIn(d)' = EnabledIn(d)
  BY <1>1, <1>2, <1>5, <1>8 DEF EnabledIn
<1>10. \A d \in 1 .. depth' : d \in 1 .. depth \/ d = depth + 1
  BY <1>1
<1>11. \A d \in 1 .. depth' :
        /\ section'[d].irq \in Numbers /\ section'[d].pc \in {"saved", "inside"}
        /\ section'[d].primask = FALSE
        /\ saved'[d] <=> section'[d].irq \in section'[d].enabled
        /\ EnabledIn(d)' = section'[d].enabled \ IF section'[d].pc = "inside" THEN {section'[d].irq} ELSE {}
  BY <1>1, <1>5, <1>8, <1>9, <1>10 DEF SectionsInv
<1>12. \A d \in 1 .. depth' : section'[d].pc = "inside" =>
         \A e \in d .. depth' : section'[d].irq \notin EnabledIn(e)'
  <2>. SUFFICES ASSUME NEW d \in 1 .. depth', section'[d].pc = "inside", NEW e \in d .. depth'
                PROVE  section'[d].irq \notin EnabledIn(e)'
    OBVIOUS
  <2>1. d \in 1 .. depth /\ section'[d] = section[d] /\ depth \in d .. depth
    BY <1>1, <1>5, <1>8, <1>10
  <2>2. EnabledIn(depth) = enabled
    BY DEF EnabledIn
  <2>3. CASE e = depth + 1
    BY <1>9, <2>1, <2>2, <2>3 DEF SectionsInv
  <2>4. CASE e # depth + 1
    <3>1. e \in d .. depth /\ e \in 1 .. depth
      BY <1>1, <2>1, <2>4
    <3>. QED BY <1>9, <2>1, <3>1 DEF SectionsInv
  <2>. QED BY <2>3, <2>4
<1>. QED BY <1>7, <1>11, <1>12 DEF SectionsInv

\* A section disables its own interrupt.
LEMMA SectionsDisable ==
  ASSUME SectionsInv, CS!Disable
  PROVE  SectionsInv'
<1>1. /\ depth \in 1 .. Nesting /\ depth' = depth /\ Nesting \in Nat
      /\ section[depth].pc = "saved" /\ section[depth].irq # IRQ_ALL
      /\ enabled' = enabled \ {section[depth].irq} /\ primask' = primask /\ primask = FALSE
      /\ section' = [section EXCEPT ![depth].pc = "inside"] /\ saved' = saved
  BY UnitsAssumption DEF SectionsInv, SectionsType, CS!Disable, CS!DisableInterrupt
<1>2. SectionsType'
  BY <1>1 DEF SectionsInv, SectionsType
<1>3. /\ section'[depth] = [section[depth] EXCEPT !.pc = "inside"]
      /\ \A d \in 1 .. depth : d # depth => section'[d] = section[d]
      /\ \A d \in 1 .. depth : section'[d].irq = section[d].irq /\ section'[d].enabled = section[d].enabled
                               /\ section'[d].primask = section[d].primask
      /\ section'[depth].pc = "inside"
  BY <1>1 DEF SectionsInv, SectionsType
<1>4. /\ EnabledIn(depth)' = EnabledIn(depth) \ {section[depth].irq}
      /\ \A d \in 1 .. depth : d # depth => EnabledIn(d)' = EnabledIn(d)
  BY <1>1, <1>3 DEF EnabledIn
<1>. QED BY <1>1, <1>2, <1>3, <1>4 DEF SectionsInv

\* A section that ends leaves enabled what was when it began.
LEMMA LeaveRestores ==
  ASSUME SectionsInv, CS!Leave
  PROVE  /\ depth \in 1 .. Nesting /\ depth' = depth - 1
         /\ enabled' = section[depth].enabled /\ primask' = FALSE /\ primask = FALSE
         /\ saved' = saved /\ section' = [section EXCEPT ![depth] = CS!None]
<1>1. /\ depth \in 1 .. Nesting /\ section[depth].pc = "inside" /\ depth' = depth - 1
      /\ section' = [section EXCEPT ![depth] = CS!None]
      /\ primask = FALSE /\ CS!RestoreInterrupt(depth, section[depth].irq)
  BY UnitsAssumption DEF SectionsInv, SectionsType, CS!Leave
<1>2. /\ section[depth].irq \in Numbers /\ section[depth].irq # IRQ_ALL
      /\ saved[depth] <=> section[depth].irq \in section[depth].enabled
      /\ enabled = section[depth].enabled \ {section[depth].irq}
      /\ section[depth].enabled \in SUBSET Irq
  BY <1>1, UnitsAssumption DEF SectionsInv, SectionsType, EnabledIn
<1>3. /\ enabled' = IF saved[depth] THEN enabled \cup ({section[depth].irq} \ CS!SystemExceptions) ELSE enabled
      /\ primask' = primask /\ saved' = saved
  BY <1>1, <1>2 DEF CS!RestoreInterrupt
<1>4. enabled' = section[depth].enabled
  <2>1. CASE section[depth].irq \in section[depth].enabled
    <3>1. section[depth].irq \notin CS!SystemExceptions
      BY <1>2, <2>1, SectionsAssumption
    <3>. QED BY <1>2, <1>3, <2>1, <3>1
  <2>2. CASE section[depth].irq \notin section[depth].enabled
    BY <1>2, <1>3, <2>2
  <2>. QED BY <2>1, <2>2
<1>. QED BY <1>1, <1>3, <1>4

\* The section around it goes on as before.
LEMMA SectionsLeave ==
  ASSUME SectionsInv, CS!Leave
  PROVE  SectionsInv'
<1>1. /\ depth \in 1 .. Nesting /\ depth' = depth - 1 /\ Nesting \in Nat
      /\ enabled' = section[depth].enabled /\ primask' = FALSE /\ primask = FALSE
      /\ saved' = saved /\ section' = [section EXCEPT ![depth] = CS!None]
  BY LeaveRestores, UnitsAssumption
<1>2. SectionsType'
  BY <1>1 DEF SectionsInv, SectionsType, CS!None
<1>3. \A d \in 1 .. depth - 1 : d \in 1 .. depth /\ section'[d] = section[d] /\ saved'[d] = saved[d]
  BY <1>1 DEF SectionsInv, SectionsType
<1>4. \A d \in 1 .. depth - 1 : EnabledIn(d)' = EnabledIn(d)
  BY <1>1, <1>3 DEF EnabledIn
<1>5. \A d \in 1 .. depth - 1 : \A e \in d .. depth - 1 : e \in d .. depth /\ e \in 1 .. depth - 1
  BY <1>1
<1>. QED BY <1>1, <1>2, <1>3, <1>4, <1>5 DEF SectionsInv

\* No step of a section breaks what the others rely on.
LEMMA SectionsStep ==
  ASSUME SectionsInv, CS!Next
  PROVE  SectionsInv'
  BY SectionsBegin, SectionsDisable, SectionsLeave DEF CS!Next

\* The interrupt of a section does not come into its block.
LEMMA SectionsKeepOut ==
  ASSUME SectionsInv
  PROVE  CS!SectionsExclude
<1>. SUFFICES ASSUME NEW d \in 1 .. depth, section[d].pc = "inside", section[d].irq \in Irq
              PROVE  ~CS!Unmasked(section[d].irq)
  BY DEF CS!SectionsExclude
<1>1. depth \in d .. depth
  BY UnitsAssumption DEF SectionsInv, SectionsType
<1>2. section[d].irq \notin enabled
  BY <1>1 DEF SectionsInv, EnabledIn
<1>. QED BY <1>2, SectionsAssumption DEF CS!Unmasked

\* The state of the interrupts is restored.
LEMMA SectionsGiveBack ==
  ASSUME SectionsInv, CS!Next
  PROVE  CS!Restored
<1>1. ASSUME NEW irq \in Numbers, CS!Begin(irq) PROVE ~(depth' < depth)
  BY <1>1 DEF CS!Begin, SectionsInv, SectionsType
<1>2. ASSUME CS!Disable PROVE ~(depth' < depth)
  BY <1>2 DEF CS!Disable, SectionsInv, SectionsType
<1>3. ASSUME CS!Leave PROVE CS!Restored
  <2>1. /\ depth \in 1 .. Nesting /\ enabled' = section[depth].enabled /\ primask' = FALSE
    BY <1>3, LeaveRestores
  <2>2. section[depth].primask = FALSE
    BY <2>1, UnitsAssumption DEF SectionsInv, SectionsType
  <2>. QED BY <2>1, <2>2 DEF CS!Restored
<1>. QED BY <1>1, <1>2, <1>3 DEF CS!Next, CS!Restored

-----------------------------------------------------------------------------
(* The filters. What a recursive function returns is shown by induction    *)
(* over sets of natural numbers.                                           *)

\* A set of natural numbers that holds 0 and with each number the next holds them all.
LEMMA Induction ==
  ASSUME NEW Good, 0 \in Good, \A n \in Nat : n \in Good => n + 1 \in Good
  PROVE  Nat \subseteq Good
<1>. SUFFICES ASSUME Nat \ Good # {} PROVE FALSE
  OBVIOUS
<1>. DEFINE R == OpToRel(<, Nat)
<1>1. IsWellFoundedOn(R, Nat)
  BY NatLessThanWellFounded
<1>2. PICK m \in Nat \ Good : \A n \in Nat \ Good : <<n, m>> \notin R
  <2>1. Nat \ Good \subseteq Nat
    OBVIOUS
  <2>. HIDE DEF R
  <2>. QED BY <1>1, <2>1, WFMin, Zenon
<1>3. \A n \in Nat \ Good : ~ (n < m)
  BY <1>2 DEF OpToRel
<1>4. m # 0 /\ m - 1 \in Nat /\ m - 1 < m /\ (m - 1) + 1 = m
  OBVIOUS
<1>. QED BY <1>3, <1>4

\* sum is what Total computes.
IsTotal(f, n, sum) == sum = [k \in 0 .. n |-> IF k = 0 THEN 0 ELSE sum[k - 1] + f[k - 1]]

\* There is such a function.
LEMMA TotalExists ==
  ASSUME NEW f
  PROVE  \A n \in Nat : \E sum : IsTotal(f, n, sum)
<1>. DEFINE Good == {n \in Nat : \E sum : IsTotal(f, n, sum)}
<1>1. 0 \in Good
  <2>. IsTotal(f, 0, [k \in 0 .. 0 |-> 0])
    BY DEF IsTotal
  <2>. QED OBVIOUS
<1>2. ASSUME NEW n \in Nat, n \in Good PROVE n + 1 \in Good
  <2>1. PICK sum : IsTotal(f, n, sum)
    BY <1>2
  <2>. DEFINE next == [k \in 0 .. n + 1 |-> IF k = n + 1 THEN sum[n] + f[n] ELSE sum[k]]
  <2>2. \A k \in 0 .. n + 1 : next[k] = IF k = 0 THEN 0 ELSE next[k - 1] + f[k - 1]
    BY <2>1 DEF IsTotal
  <2>3. next = [k \in 0 .. n + 1 |-> next[k]]
    OBVIOUS
  <2>4. IsTotal(f, n + 1, next)
    <3>. HIDE DEF next
    <3>. QED BY <2>2, <2>3 DEF IsTotal
  <2>. QED BY <2>4
<1>. HIDE DEF Good
<1>3. Nat \subseteq Good
  BY <1>1, <1>2, Induction
<1>. QED BY <1>3 DEF Good

\* Two of them agree where both are defined.
LEMMA TotalUnique ==
  ASSUME NEW f, NEW n \in Nat, NEW m \in Nat, NEW s, NEW t, NEW l \in Nat, l <= n, l <= m,
         IsTotal(f, n, s), IsTotal(f, m, t)
  PROVE  s[l] = t[l]
<1>. DEFINE Good == {k \in Nat : k <= l => s[k] = t[k]}
<1>1. 0 \in Good
  BY DEF IsTotal
<1>2. ASSUME NEW k \in Nat, k \in Good PROVE k + 1 \in Good
  <2>. SUFFICES ASSUME k + 1 <= l PROVE s[k + 1] = t[k + 1]
    OBVIOUS
  <2>1. s[k] = t[k]
    BY <1>2
  <2>2. k + 1 \in 0 .. n /\ k + 1 \in 0 .. m /\ k + 1 # 0 /\ (k + 1) - 1 = k
    OBVIOUS
  <2>3. s[k + 1] = s[k] + f[k] /\ t[k + 1] = t[k] + f[k]
    BY <2>2 DEF IsTotal
  <2>. QED BY <2>1, <2>3
<1>. HIDE DEF Good
<1>3. Nat \subseteq Good
  BY <1>1, <1>2, Induction
<1>. QED BY <1>3 DEF Good

\* Total is the sum of f[0] .. f[n - 1], one after the other, and depends on nothing else.
LEMMA TotalProperties ==
  ASSUME NEW f
  PROVE  /\ F!Total(f, 0) = 0
         /\ \A n \in Nat : F!Total(f, n + 1) = F!Total(f, n) + f[n]
<1>1. \A n \in Nat : \E s : IsTotal(f, n, s) /\ s[n] = F!Total(f, n)
  BY TotalExists DEF F!Total, IsTotal
<1>2. F!Total(f, 0) = 0
  BY <1>1 DEF IsTotal
<1>3. ASSUME NEW n \in Nat PROVE F!Total(f, n + 1) = F!Total(f, n) + f[n]
  <2>1. PICK s : IsTotal(f, n, s) /\ s[n] = F!Total(f, n)
    BY <1>1
  <2>2. PICK t : IsTotal(f, n + 1, t) /\ t[n + 1] = F!Total(f, n + 1)
    BY <1>1
  <2>3. s[n] = t[n]
    <3>1. n + 1 \in Nat /\ n <= n /\ n <= n + 1
      OBVIOUS
    <3>. QED BY <2>1, <2>2, <3>1, TotalUnique
  <2>4. t[n + 1] = t[n] + f[n]
    BY <2>2 DEF IsTotal
  <2>. QED BY <2>1, <2>2, <2>3, <2>4
<1>. QED BY <1>2, <1>3

\* A sum of numbers is a number.
LEMMA TotalType ==
  ASSUME NEW n \in Nat, NEW f \in [0 .. n - 1 -> Int], NEW m \in 0 .. n
  PROVE  F!Total(f, m) \in Int
<1>. DEFINE Good == {k \in Nat : k <= n => F!Total(f, k) \in Int}
<1>1. 0 \in Good
  BY TotalProperties
<1>2. ASSUME NEW k \in Nat, k \in Good PROVE k + 1 \in Good
  <2>1. k + 1 <= n => F!Total(f, k) \in Int /\ f[k] \in Int
    BY <1>2
  <2>2. F!Total(f, k + 1) = F!Total(f, k) + f[k]
    BY TotalProperties
  <2>. QED BY <2>1, <2>2
<1>. HIDE DEF Good
<1>3. Nat \subseteq Good
  BY <1>1, <1>2, Induction
<1>. QED BY <1>3 DEF Good

\* The sum of the pairs around the middle, and the middle.
LEMMA TotalFolds ==
  ASSUME NEW h \in Nat, NEW f \in [0 .. 2 * h -> Int]
  PROVE  F!Total(f, 2 * h + 1) = F!Total([k \in 0 .. h - 1 |-> f[k] + f[2 * h - k]], h) + f[h]
<1>. DEFINE g == [k \in 0 .. h - 1 |-> f[k] + f[2 * h - k]]
<1>1. g \in [0 .. h - 1 -> Int]
  OBVIOUS
<1>2. \A k \in 0 .. h - 1 : g[k] = f[k] + f[2 * h - k]
  OBVIOUS
<1>. HIDE DEF g
<1>. DEFINE Good == {m \in Nat : m <= h =>
                    F!Total(f, h + 1 + m) - F!Total(f, h - m) + F!Total(g, h - m) = F!Total(g, h) + f[h]}
<1>3. /\ \A m \in 0 .. 2 * h + 1 : F!Total(f, m) \in Int
      /\ \A m \in 0 .. h : F!Total(g, m) \in Int
  <2>1. PICK n \in Nat : n = 2 * h + 1 /\ f \in [0 .. n - 1 -> Int]
    OBVIOUS
  <2>2. \A m \in 0 .. n : F!Total(f, m) \in Int
    BY <2>1, TotalType
  <2>3. \A m \in 0 .. h : F!Total(g, m) \in Int
    BY <1>1, TotalType
  <2>. QED BY <2>1, <2>2, <2>3
<1>4. 0 \in Good
  <2>1. F!Total(f, h + 1) = F!Total(f, h) + f[h] /\ f[h] \in Int
    <3>1. h \in 0 .. 2 * h
      OBVIOUS
    <3>. QED BY <3>1, TotalProperties
  <2>2. F!Total(f, h) \in Int /\ F!Total(g, h) \in Int
    BY <1>3
  <2>. QED BY <2>1, <2>2
<1>5. ASSUME NEW m \in Nat, m \in Good PROVE m + 1 \in Good
  <2>. SUFFICES ASSUME m + 1 <= h
                PROVE  F!Total(f, h + 1 + (m + 1)) - F!Total(f, h - (m + 1)) + F!Total(g, h - (m + 1))
                         = F!Total(g, h) + f[h]
    OBVIOUS
  <2>1. PICK a \in Nat, b \in Nat : a = h - (m + 1) /\ b = h + 1 + m /\ b <= 2 * h /\ a < h
    OBVIOUS
  <2>2. /\ h - m = a + 1 /\ h + 1 + (m + 1) = b + 1 /\ 2 * h - a = b
    BY <2>1
  <2>3. /\ F!Total(f, b + 1) = F!Total(f, b) + f[b]
        /\ F!Total(f, a + 1) = F!Total(f, a) + f[a]
        /\ F!Total(g, a + 1) = F!Total(g, a) + g[a]
    BY <2>1, TotalProperties
  <2>4. g[a] = f[a] + f[b]
    BY <1>2, <2>1, <2>2
  <2>5. F!Total(f, b) - F!Total(f, a + 1) + F!Total(g, a + 1) = F!Total(g, h) + f[h]
    BY <1>5, <2>1, <2>2
  <2>6. /\ f[a] \in Int /\ f[b] \in Int /\ f[h] \in Int
        /\ F!Total(f, a) \in Int /\ F!Total(f, b) \in Int /\ F!Total(g, a) \in Int /\ F!Total(g, h) \in Int
    BY <1>3, <2>1
  <2>7. F!Total(f, b + 1) - F!Total(f, a) + F!Total(g, a) = F!Total(g, h) + f[h]
    <3>1. PICK fa \in Int, fb \in Int, Fa \in Int, Fb \in Int, Ga \in Int, r \in Int :
            /\ fa = f[a] /\ fb = f[b] /\ Fa = F!Total(f, a) /\ Fb = F!Total(f, b) /\ Ga = F!Total(g, a)
            /\ r = F!Total(g, h) + f[h]
      <4>1. F!Total(g, h) + f[h] \in Int
        BY <2>6
      <4>. QED BY <2>6, <4>1, Zenon
    <3>2. Fb - (Fa + fa) + (Ga + (fa + fb)) = r
      BY <2>3, <2>4, <2>5, <3>1
    <3>3. (Fb + fb) - Fa + Ga = r
      BY <3>2
    <3>. QED BY <2>3, <3>1, <3>3
  <2>. QED BY <2>1, <2>2, <2>7
<1>. HIDE DEF Good
<1>6. Nat \subseteq Good
  BY <1>4, <1>5, Induction
<1>7. F!Total(f, h + 1 + h) - F!Total(f, h - h) + F!Total(g, h - h) = F!Total(g, h) + f[h]
  BY <1>6 DEF Good
<1>8. h + 1 + h = 2 * h + 1 /\ h - h = 0 /\ F!Total(f, 0) = 0 /\ F!Total(g, 0) = 0
  BY TotalProperties
<1>9. F!Total(f, 2 * h + 1) \in Int
  BY <1>3
<1>. QED BY <1>7, <1>8, <1>9 DEF g

\* The remainder of what lies less than two turns below a turn.
LEMMA Turn ==
  ASSUME NEW n \in Nat \ {0}, NEW a \in Int
  PROVE  /\ -(2 * n) <= a /\ a < -n => a % n = a + 2 * n
         /\ -n <= a /\ a < 0 => a % n = a + n
         /\ 0 <= a /\ a < n => a % n = a
         /\ n <= a /\ a < 2 * n => a % n = a - n
<1>1. ASSUME -(2 * n) <= a, a < -n PROVE a % n = a + 2 * n
  BY <1>1
<1>2. ASSUME -n <= a, a < 0 PROVE a % n = a + n
  BY <1>2
<1>3. ASSUME 0 <= a, a < n PROVE a % n = a
  BY <1>3
<1>4. ASSUME n <= a, a < 2 * n PROVE a % n = a - n
  BY <1>4
<1>. QED BY <1>1, <1>2, <1>3, <1>4

\* The type of the order, without what makes it odd, which slows the prover down.
LEMMA OrderType == Order \in Nat \ {0} /\ Order >= 3
  BY FiltersAssumption

\* The ring holds the last samples of y, the last one just before index.
RingHolds(input, index, y) ==
  \A k \in 0 .. Order - 1 : input[(index - 1 - k) % Order] = F!At(y, Len(y) - k)

\* A sample is a number.
LEMMA AtType ==
  ASSUME NEW y \in Seq(Int), NEW n \in Int, n <= Len(y)
  PROVE  F!At(y, n) \in Int
  BY DEF F!At

\* The ends of the ring meet in the middle tap.
LEMMA HalfIsMiddle ==
  ASSUME NEW h \in Nat, Order = 2 * h + 1, NEW index \in 0 .. Order - 1
  PROVE  F!Min({k \in 1 .. Order : (index + k) % Order = (index - 1 - k) % Order}) = h
<1>. DEFINE Meet == {k \in 1 .. Order : (index + k) % Order = (index - 1 - k) % Order}
<1>1. ASSUME NEW k \in 1 .. Order
      PROVE  ((index + k) % Order = (index - 1 - k) % Order) <=> k = h
  <2>. DEFINE a == IF index + k < Order THEN index + k ELSE index + k - Order
              b == IF index - 1 - k < -Order THEN index - 1 - k + 2 * Order
                   ELSE IF index - 1 - k < 0 THEN index - 1 - k + Order ELSE index - 1 - k
  <2>1. (index + k) % Order = a
    BY OrderType
  <2>2. (index - 1 - k) % Order = b
    BY OrderType
  <2>3. a = b <=> k = h
    BY OrderType
  <2>. HIDE DEF a, b
  <2>. QED BY <2>1, <2>2, <2>3, Zenon
<1>2. h \in 1 .. Order
  BY OrderType
<1>3. Meet = {h}
  BY <1>1, <1>2
<1>4. \A k \in Int : F!Min({k}) = k
  BY DEF F!Min
<1>5. F!Min(Meet) = h
  <2>. HIDE DEF Meet
  <2>. QED BY <1>3, <1>4
<1>. QED BY <1>5

\* A product is distributed over a sum.
LEMMA Distributes ==
  ASSUME NEW a \in Int, NEW b \in Int, NEW c \in Int
  PROVE  a * (b + c) = a * b + a * c /\ a * b \in Int /\ a * c \in Int
  OBVIOUS

\* The sums from both ends of the ring are the convolution.
LEMMA FirSumIsConvolution ==
  ASSUME NEW y \in Seq(Int), NEW input, NEW index \in 0 .. Order - 1, RingHolds(input, index, y)
  PROVE  F!FirSum(input, index) = F!Convolution(y)
<1>. DEFINE old(k) == input[(index + k) % Order]
            new(k) == input[(index - 1 - k) % Order]
            c == [k \in 0 .. Order - 1 |->
                    Taps[IF 2 * k < Order THEN k ELSE Order - 1 - k] * F!At(y, Len(y) - k)]
<1>1. PICK h \in Nat : Order = 2 * h + 1 /\ h = Order \div 2
  BY FiltersAssumption
<1>2. \A k \in 0 .. 2 * h : new(k) = F!At(y, Len(y) - k) /\ new(k) \in Int
  BY <1>1, AtType DEF RingHolds
<1>3. \A k \in 0 .. 2 * h : old(k) = new(2 * h - k)
  <2>. SUFFICES ASSUME NEW k \in 0 .. 2 * h
                PROVE  (index + k) % Order = (index - 1 - (2 * h - k)) % Order
    OBVIOUS
  <2>1. -(2 * Order) <= index + k /\ index + k < 2 * Order /\ -(2 * Order) <= index - 1 - (2 * h - k) /\ index - 1 - (2 * h - k) < 2 * Order
        /\ index - 1 - (2 * h - k) = index + k - Order
    BY <1>1
  <2>2. PICK a \in Int, b \in Int : a = index + k /\ b = index - 1 - (2 * h - k)
    OBVIOUS
  <2>3. b = a - Order /\ 0 <= a /\ a < 2 * Order
    BY <2>1, <2>2, OrderType
  <2>4. PICK n \in Nat \ {0} : n = Order
    BY OrderType
  <2>5. a % n = b % n
    <3>1. CASE a < n
      <4>1. /\ -n <= b /\ b < 0 /\ 0 <= a /\ b + n = a
        BY <2>3, <2>4, <3>1
      <4>. QED BY <3>1, <4>1, Turn, Zenon
    <3>2. CASE n <= a
      <4>1. /\ 0 <= b /\ b < n /\ a < 2 * n /\ a - n = b
        BY <2>3, <2>4, <3>2
      <4>. QED BY <3>2, <4>1, Turn, Zenon
    <3>. QED BY <3>1, <3>2
  <2>. QED BY <2>2, <2>4, <2>5
<1>4. \A k \in 0 .. 2 * h : c[k] = Taps[IF k <= h THEN k ELSE 2 * h - k] * new(k)
  <2>. SUFFICES ASSUME NEW k \in 0 .. 2 * h
                PROVE  c[k] = Taps[IF k <= h THEN k ELSE 2 * h - k] * new(k)
    OBVIOUS
  <2>1. (2 * k < Order) <=> (k <= h)
    BY <1>1
  <2>2. k \in 0 .. Order - 1 /\ Order - 1 - k = 2 * h - k
    BY <1>1
  <2>. QED BY <1>2, <2>1, <2>2
<1>5. \A k \in 0 .. h : Taps[k] \in Int
  BY <1>1, FiltersAssumption
<1>6. c \in [0 .. 2 * h -> Int]
  <2>1. \A k \in 0 .. 2 * h : c[k] \in Int
    <3>1. ASSUME NEW k \in 0 .. 2 * h PROVE (IF k <= h THEN k ELSE 2 * h - k) \in 0 .. h
      OBVIOUS
    <3>. HIDE DEF c, new
    <3>2. ASSUME NEW k \in 0 .. 2 * h PROVE c[k] \in Int
      <4>1. PICK i \in 0 .. h : i = IF k <= h THEN k ELSE 2 * h - k
        BY <3>1
      <4>2. c[k] = Taps[i] * new(k) /\ Taps[i] \in Int /\ new(k) \in Int
        BY <1>2, <1>4, <1>5, <4>1
      <4>. QED BY <4>2, Distributes
    <3>. QED BY <3>2
  <2>2. c = [k \in 0 .. 2 * h |-> c[k]]
    BY <1>1
  <2>. QED BY <2>1, <2>2
<1>7. F!Convolution(y) = F!Total(c, 2 * h + 1)
  BY <1>1 DEF F!Convolution
<1>8. F!FirSum(input, index) = F!Total([k \in 0 .. h - 1 |-> Taps[k] * (old(k) + new(k))], h) + Taps[h] * old(h)
  BY <1>1, HalfIsMiddle, Zenon DEF F!FirSum
<1>. HIDE DEF c, old, new
<1>9. F!Total(c, 2 * h + 1) = F!Total([k \in 0 .. h - 1 |-> c[k] + c[2 * h - k]], h) + c[h]
  BY <1>6, TotalFolds
<1>10. \A k \in 0 .. h - 1 : Taps[k] * (old(k) + new(k)) = c[k] + c[2 * h - k]
  <2>. SUFFICES ASSUME NEW k \in 0 .. h - 1
                PROVE  Taps[k] * (old(k) + new(k)) = c[k] + c[2 * h - k]
    OBVIOUS
  <2>1. k \in 0 .. 2 * h /\ k <= h /\ 2 * h - k \in 0 .. 2 * h /\ ~ (2 * h - k <= h)
        /\ 2 * h - (2 * h - k) = k /\ k \in 0 .. h
    OBVIOUS
  <2>2. c[k] = Taps[k] * new(k) /\ c[2 * h - k] = Taps[k] * new(2 * h - k)
    BY <1>4, <2>1
  <2>3. old(k) = new(2 * h - k) /\ new(k) \in Int /\ new(2 * h - k) \in Int /\ Taps[k] \in Int
    BY <1>2, <1>3, <1>5, <2>1
  <2>4. /\ Taps[k] * (new(2 * h - k) + new(k)) = Taps[k] * new(2 * h - k) + Taps[k] * new(k)
        /\ Taps[k] * new(2 * h - k) \in Int /\ Taps[k] * new(k) \in Int
    BY <2>3, Distributes
  <2>. QED BY <2>2, <2>3, <2>4
<1>11. [k \in 0 .. h - 1 |-> Taps[k] * (old(k) + new(k))] = [k \in 0 .. h - 1 |-> c[k] + c[2 * h - k]]
  BY <1>10
<1>12. c[h] = Taps[h] * old(h)
  <2>1. h \in 0 .. 2 * h /\ 2 * h - h = h
    OBVIOUS
  <2>. QED BY <1>3, <1>4, <2>1
<1>. QED BY <1>7, <1>8, <1>9, <1>11, <1>12

\* A new sample takes the place of the oldest.
LEMMA RingMovesOn ==
  ASSUME NEW y \in Seq(Int), NEW input, DOMAIN input = 0 .. Order - 1, NEW index \in 0 .. Order - 1,
         RingHolds(input, index, y), NEW s \in Int
  PROVE  /\ (index + 1) % Order \in 0 .. Order - 1
         /\ RingHolds([input EXCEPT ![index] = s], (index + 1) % Order, Append(y, s))
<1>. DEFINE next == (index + 1) % Order
<1>1. next = IF index + 1 < Order THEN index + 1 ELSE 0
  BY OrderType
<1>2. next \in 0 .. Order - 1
  BY <1>1, FiltersAssumption
<1>3. /\ Append(y, s) \in Seq(Int) /\ Len(Append(y, s)) = Len(y) + 1 /\ Append(y, s)[Len(y) + 1] = s
      /\ \A i \in 1 .. Len(y) : Append(y, s)[i] = y[i]
  OBVIOUS
<1>4. ASSUME NEW k \in 0 .. Order - 1
      PROVE  [input EXCEPT ![index] = s][(next - 1 - k) % Order] = F!At(Append(y, s), Len(y) + 1 - k)
  <2>. HIDE DEF next
  <2>1. (next - 1 - k) % Order = (IF index >= k THEN index - k ELSE index - k + Order)
    <3>1. CASE index >= k /\ index + 1 < Order
      <4>1. next - 1 - k = index - k /\ 0 <= index - k /\ index - k < Order /\ index - k \in Int
        BY <1>1, <3>1, OrderType
      <4>. QED BY <3>1, <4>1, Turn, OrderType, Zenon
    <3>2. CASE index >= k /\ ~ (index + 1 < Order)
      <4>1. /\ next - 1 - k = -1 - k /\ -1 - k \in Int
            /\ -Order <= -1 - k /\ -1 - k < 0 /\ (-1 - k) + Order = index - k
        BY <1>1, <3>2, OrderType
      <4>. QED BY <3>2, <4>1, Turn, OrderType, ZenonT(30)
    <3>3. CASE ~ (index >= k)
      <4>1. /\ next - 1 - k = index - k /\ index - k \in Int
            /\ -Order <= index - k /\ index - k < 0
        BY <1>1, <3>3, OrderType
      <4>. QED BY <3>3, <4>1, Turn, OrderType, Zenon
    <3>. QED BY <3>1, <3>2, <3>3
  <2>2. CASE k = 0
    BY <1>3, <2>1, <2>2 DEF F!At
  <2>3. CASE k # 0
    <3>1. k - 1 \in 0 .. Order - 1 /\ Len(y) - (k - 1) = Len(y) + 1 - k
          /\ -(2 * Order) <= index - 1 - (k - 1) /\ index - 1 - (k - 1) < 2 * Order /\ index - 1 - (k - 1) = index - k
      BY <2>3, FiltersAssumption
    <3>2. (index - 1 - (k - 1)) % Order = (IF index >= k THEN index - k ELSE index - k + Order)
      <4>1. index - 1 - (k - 1) = index - k /\ index - k \in Int /\ index - k < Order /\ -Order <= index - k
            /\ (index >= k <=> 0 <= index - k) /\ (~ (index >= k) <=> index - k < 0)
        BY <2>3, OrderType
      <4>. QED BY <4>1, Turn, OrderType, Zenon
    <3>3. input[(next - 1 - k) % Order] = F!At(y, Len(y) + 1 - k)
      BY <2>1, <3>1, <3>2 DEF RingHolds
    <3>4. (next - 1 - k) % Order # index /\ (next - 1 - k) % Order \in 0 .. Order - 1
      <4>. DEFINE b == IF index >= k THEN index - k ELSE index - k + Order
      <4>1. b # index /\ b \in 0 .. Order - 1
        BY <2>3, OrderType
      <4>. HIDE DEF b
      <4>. QED BY <2>1, <4>1, Zenon DEF b
    <3>5. F!At(y, Len(y) + 1 - k) = F!At(Append(y, s), Len(y) + 1 - k)
      BY <1>3, <2>3 DEF F!At
    <3>. QED BY <3>3, <3>4, <3>5
  <2>. QED BY <2>2, <2>3
<1>. QED BY <1>2, <1>3, <1>4 DEF RingHolds

\* d solves the difference equation of the IIR filter for the samples y up to time n.
IsDifference(y, n, d) ==
  d = [m \in -1 .. n |->
         IF m < 1 THEN 0
         ELSE (Coeffs[2] * F!At(y, m) + Coeffs[3] * F!At(y, m - 1) + Coeffs[4] * F!At(y, m - 2))
              - (Coeffs[0] * d[m - 1] + Coeffs[1] * d[m - 2])]

\* d solves the one of the filter in fixed point.
IsFpDifference(y, n, d) ==
  d = [m \in -1 .. n |->
         IF m < 1 THEN 0
         ELSE F!Fixed(F!Shift(F!Shift(F!At(y, m) * FpCoeffs[0] + F!At(y, m - 1) * FpCoeffs[1]
                                  + F!At(y, m - 2) * FpCoeffs[2], ScaleNum)
                          - F!Shift(d[m - 1] * FpCoeffs[3] + d[m - 2] * FpCoeffs[4], ScaleDenum), FpBits))]

\* A solution is the only one.
LEMMA DifferenceUnique ==
  ASSUME NEW y \in Seq(Int), NEW d, IsDifference(y, Len(y), d)
  PROVE  F!Difference(y) = d[Len(y)]
<1>. DEFINE e == CHOOSE e : IsDifference(y, Len(y), e)
            Good == {k \in Nat : k <= Len(y) => d[k] = e[k] /\ d[k - 1] = e[k - 1]}
<1>1. F!Difference(y) = e[Len(y)]
  BY DEF F!Difference, IsDifference
<1>2. IsDifference(y, Len(y), e)
  OBVIOUS
<1>. HIDE DEF e
<1>3. 0 \in Good
  BY <1>2 DEF IsDifference
<1>4. ASSUME NEW k \in Nat, k \in Good PROVE k + 1 \in Good
  <2>. SUFFICES ASSUME k + 1 <= Len(y) PROVE d[k + 1] = e[k + 1] /\ d[k] = e[k]
    OBVIOUS
  <2>1. d[k] = e[k] /\ d[k - 1] = e[k - 1]
    BY <1>4
  <2>2. k + 1 \in -1 .. Len(y) /\ ~ (k + 1 < 1) /\ (k + 1) - 1 = k /\ (k + 1) - 2 = k - 1
    OBVIOUS
  <2>3. /\ d[k + 1] = (Coeffs[2] * F!At(y, k + 1) + Coeffs[3] * F!At(y, k) + Coeffs[4] * F!At(y, k - 1))
                      - (Coeffs[0] * d[k] + Coeffs[1] * d[k - 1])
        /\ e[k + 1] = (Coeffs[2] * F!At(y, k + 1) + Coeffs[3] * F!At(y, k) + Coeffs[4] * F!At(y, k - 1))
                      - (Coeffs[0] * e[k] + Coeffs[1] * e[k - 1])
    BY <1>2, <2>2, ZenonT(30) DEF IsDifference
  <2>. QED BY <2>1, <2>3
<1>. HIDE DEF Good
<1>5. Nat \subseteq Good
  BY <1>3, <1>4, Induction
<1>6. Len(y) \in Nat
  OBVIOUS
<1>. QED BY <1>1, <1>5, <1>6 DEF Good

\* So is one of the filter in fixed point.
LEMMA FpDifferenceUnique ==
  ASSUME NEW y \in Seq(Int), NEW d, IsFpDifference(y, Len(y), d)
  PROVE  F!FpDifference(y) = d[Len(y)]
<1>. DEFINE e == CHOOSE e : IsFpDifference(y, Len(y), e)
            Good == {k \in Nat : k <= Len(y) => d[k] = e[k] /\ d[k - 1] = e[k - 1]}
            Next3(g, k) == F!Fixed(F!Shift(F!Shift(F!At(y, k + 1) * FpCoeffs[0] + F!At(y, k) * FpCoeffs[1]
                                  + F!At(y, k - 1) * FpCoeffs[2], ScaleNum)
                          - F!Shift(g[k] * FpCoeffs[3] + g[k - 1] * FpCoeffs[4], ScaleDenum), FpBits))
<1>1. F!FpDifference(y) = e[Len(y)]
  BY DEF F!FpDifference, IsFpDifference
<1>2. IsFpDifference(y, Len(y), e)
  OBVIOUS
<1>. HIDE DEF e
<1>3. 0 \in Good
  BY <1>2 DEF IsFpDifference
<1>4. ASSUME NEW k \in Nat, k \in Good PROVE k + 1 \in Good
  <2>. SUFFICES ASSUME k + 1 <= Len(y) PROVE d[k + 1] = e[k + 1] /\ d[k] = e[k]
    OBVIOUS
  <2>1. d[k] = e[k] /\ d[k - 1] = e[k - 1]
    BY <1>4
  <2>2. k + 1 \in -1 .. Len(y) /\ ~ (k + 1 < 1) /\ (k + 1) - 1 = k /\ (k + 1) - 2 = k - 1
    OBVIOUS
  <2>3. d[k + 1] = Next3(d, k)
    BY <2>2 DEF IsFpDifference
  <2>4. e[k + 1] = Next3(e, k)
    BY <1>2, <2>2 DEF IsFpDifference
  <2>. QED BY <2>1, <2>3, <2>4
<1>. HIDE DEF Good
<1>5. Nat \subseteq Good
  BY <1>3, <1>4, Induction
<1>6. Len(y) \in Nat
  OBVIOUS
<1>. QED BY <1>1, <1>5, <1>6 DEF Good

\* A new sample comes after the others, which keep their times.
LEMMA AppendAt ==
  ASSUME NEW y \in Seq(Int), NEW s \in Int
  PROVE  /\ Append(y, s) \in Seq(Int) /\ Len(Append(y, s)) = Len(y) + 1
         /\ F!At(Append(y, s), Len(y) + 1) = s
         /\ \A n \in Int : n <= Len(y) => F!At(Append(y, s), n) = F!At(y, n)
<1>1. /\ Append(y, s) \in Seq(Int) /\ Len(Append(y, s)) = Len(y) + 1 /\ Append(y, s)[Len(y) + 1] = s
      /\ \A i \in 1 .. Len(y) : Append(y, s)[i] = y[i]
  OBVIOUS
<1>. QED BY <1>1 DEF F!At

\* A sum of zeros.
LEMMA TotalZero ==
  ASSUME NEW f, NEW n \in Nat, \A i \in 0 .. n - 1 : f[i] = 0
  PROVE  F!Total(f, n) = 0
<1>. DEFINE Good == {k \in Nat : k <= n => F!Total(f, k) = 0}
<1>1. 0 \in Good
  BY TotalProperties
<1>2. ASSUME NEW k \in Nat, k \in Good PROVE k + 1 \in Good
  <2>1. F!Total(f, k + 1) = F!Total(f, k) + f[k]
    BY TotalProperties
  <2>. QED BY <1>2, <2>1
<1>. HIDE DEF Good
<1>3. Nat \subseteq Good
  BY <1>1, <1>2, Induction
<1>. QED BY <1>3 DEF Good

\* The ring holds the last samples and the output is their convolution.
FirInv ==
  /\ fir.index \in 0 .. Order - 1 /\ DOMAIN fir.input = 0 .. Order - 1
  /\ RingHolds(fir.input, fir.index, x)
  /\ fir.out = F!Convolution(x)

\* The buffers are what the next outputs have from the samples and outputs so far.
IirInv ==
  /\ iir \in [out : Int, buffer : [0 .. 1 -> Int]]
  /\ \E d \in [-1 .. Len(x) -> Int] :
       /\ IsDifference(x, Len(x), d)
       /\ iir.out = d[Len(x)]
       /\ iir.buffer[0] = (Coeffs[3] * F!At(x, Len(x)) + Coeffs[4] * F!At(x, Len(x) - 1))
                          - (Coeffs[0] * d[Len(x)] + Coeffs[1] * d[Len(x) - 1])
       /\ iir.buffer[1] = Coeffs[4] * F!At(x, Len(x)) - Coeffs[1] * d[Len(x)]

\* The buffer holds the last two samples and the last two outputs.
FpInv ==
  /\ DOMAIN fp = 0 .. 3
  /\ fp[0] = F!At(x, Len(x)) /\ fp[1] = F!At(x, Len(x) - 1)
  /\ \E d : /\ IsFpDifference(x, Len(x), d)
            /\ fp[2] = d[Len(x)] /\ fp[3] = d[Len(x) - 1]

\* The three filters have been fed with the same samples.
FiltersInv == x \in Seq(Int) /\ FirInv /\ IirInv /\ FpInv

\* All are zero before the first sample.
LEMMA FiltersInit == F!Init => FiltersInv
<1>. SUFFICES ASSUME F!Init PROVE FiltersInv
  OBVIOUS
<1>1. x \in Seq(Int) /\ Len(x) = 0 /\ \A n \in Int : n <= 0 => F!At(x, n) = 0
  BY DEF F!Init, F!At
<1>2. FirInv
  <2>1. fir.index = 0 /\ fir.input = [i \in 0 .. Order - 1 |-> 0] /\ fir.out = 0
    BY DEF F!Init
  <2>2. ASSUME NEW k \in 0 .. Order - 1 PROVE fir.input[(0 - 1 - k) % Order] = F!At(x, 0 - k)
    <3>1. /\ 0 - 1 - k \in Int /\ -Order <= 0 - 1 - k /\ 0 - 1 - k < 0
          /\ (0 - 1 - k) + Order \in 0 .. Order - 1
      BY OrderType
    <3>2. (0 - 1 - k) % Order \in 0 .. Order - 1
      BY <3>1, Turn, OrderType, Zenon
    <3>3. F!At(x, 0 - k) = 0
      BY <1>1
    <3>. QED BY <2>1, <3>2, <3>3
  <2>3. F!Convolution(x) = 0
    <3>. DEFINE c == [k \in 0 .. Order - 1 |->
                        Taps[IF 2 * k < Order THEN k ELSE Order - 1 - k] * F!At(x, Len(x) - k)]
    <3>1. ASSUME NEW k \in 0 .. Order - 1 PROVE c[k] = 0
      <4>. DEFINE i == IF 2 * k < Order THEN k ELSE Order - 1 - k
      <4>1. i \in 0 .. Order \div 2
        BY FiltersAssumption
      <4>2. F!At(x, Len(x) - k) = 0 /\ Taps[i] \in Int
        BY <1>1, <4>1, FiltersAssumption
      <4>. HIDE DEF i
      <4>3. Taps[i] * 0 = 0
        BY <4>2
      <4>. QED BY <4>2, <4>3 DEF i
    <3>2. F!Convolution(x) = F!Total(c, Order)
      BY DEF F!Convolution
    <3>. HIDE DEF c
    <3>. QED BY <3>1, <3>2, TotalZero, OrderType
  <2>4. 0 \in 0 .. Order - 1
    BY OrderType
  <2>5. RingHolds(fir.input, fir.index, x)
    BY <1>1, <2>1, <2>2 DEF RingHolds
  <2>. QED BY <2>1, <2>3, <2>4, <2>5 DEF FirInv
<1>3. IirInv
  <2>. DEFINE d == [m \in -1 .. 0 |-> 0]
  <2>1. IsDifference(x, Len(x), d)
    BY <1>1 DEF IsDifference
  <2>2. /\ d \in [-1 .. Len(x) -> Int] /\ d[Len(x)] = 0 /\ d[Len(x) - 1] = 0
        /\ F!At(x, Len(x)) = 0 /\ F!At(x, Len(x) - 1) = 0
    BY <1>1
  <2>3. iir.out = 0 /\ iir.buffer = [i \in 0 .. 1 |-> 0] /\ iir \in [out : Int, buffer : [0 .. 1 -> Int]]
    BY DEF F!Init
  <2>4. \A i \in 0 .. 4 : Coeffs[i] * 0 = 0
    BY FiltersAssumption
  <2>. HIDE DEF d
  <2>. QED BY <2>1, <2>2, <2>3, <2>4, SMTT(30) DEF IirInv
<1>4. FpInv
  <2>. DEFINE d == [m \in -1 .. 0 |-> 0]
  <2>1. IsFpDifference(x, Len(x), d)
    BY <1>1 DEF IsFpDifference
  <2>2. /\ d[Len(x)] = 0 /\ d[Len(x) - 1] = 0 /\ F!At(x, Len(x)) = 0 /\ F!At(x, Len(x) - 1) = 0
    BY <1>1
  <2>3. fp = [i \in 0 .. 3 |-> 0]
    BY DEF F!Init
  <2>. HIDE DEF d
  <2>. QED BY <2>1, <2>2, <2>3 DEF FpInv
<1>. QED BY <1>1, <1>2, <1>3, <1>4 DEF FiltersInv

\* A sample overwrites the oldest one and moves the ring on.
LEMMA FirStep ==
  ASSUME x \in Seq(Int), FirInv, NEW s \in Int, F!FirUpdate(s), x' = Append(x, s)
  PROVE  FirInv'
<1>. DEFINE input == [fir.input EXCEPT ![fir.index] = s]
            index == (fir.index + 1) % Order
<1>1. index \in 0 .. Order - 1 /\ RingHolds(input, index, x')
  BY RingMovesOn DEF FirInv
<1>2. fir' = [input |-> input, index |-> index, out |-> F!FirSum(input, index)]
  BY DEF F!FirUpdate
<1>3. DOMAIN input = 0 .. Order - 1
  BY DEF FirInv
<1>4. x' \in Seq(Int)
  BY AppendAt
<1>. HIDE DEF input, index
<1>5. F!FirSum(input, index) = F!Convolution(x')
  BY <1>1, <1>4, FirSumIsConvolution
<1>6. F!FirSum(input, index) = F!Convolution(x)'
  BY <1>5 DEF F!Convolution, F!At
<1>. QED BY <1>1, <1>2, <1>3, <1>6 DEF FirInv, RingHolds, F!At

\* The solution so far is continued by the new output.
LEMMA IirStep ==
  ASSUME x \in Seq(Int), IirInv, NEW s \in Int, F!IirUpdate(s), x' = Append(x, s)
  PROVE  IirInv'
<1>. DEFINE n == Len(x)
            out == Coeffs[2] * s + iir.buffer[0]
<1>1. PICK d \in [-1 .. n -> Int] :
        /\ IsDifference(x, n, d)
        /\ iir.out = d[n]
        /\ iir.buffer[0] = (Coeffs[3] * F!At(x, n) + Coeffs[4] * F!At(x, n - 1)) - (Coeffs[0] * d[n] + Coeffs[1] * d[n - 1])
        /\ iir.buffer[1] = Coeffs[4] * F!At(x, n) - Coeffs[1] * d[n]
  BY DEF IirInv
<1>2. /\ n \in Nat /\ F!At(x, n) \in Int /\ F!At(x, n - 1) \in Int
      /\ d[n] \in Int /\ d[n - 1] \in Int
  <2>1. n \in Nat /\ n - 1 \in Int /\ n <= Len(x) /\ n - 1 <= Len(x) /\ n \in -1 .. n /\ n - 1 \in -1 .. n
    OBVIOUS
  <2>2. F!At(x, n) \in Int /\ F!At(x, n - 1) \in Int
    BY <2>1, AtType
  <2>. QED BY <2>1, <2>2
<1>3. /\ Coeffs[0] \in Int /\ Coeffs[1] \in Int /\ Coeffs[2] \in Int /\ Coeffs[3] \in Int /\ Coeffs[4] \in Int
  BY FiltersAssumption
<1>4. iir \in [out : Int, buffer : [0 .. 1 -> Int]]
  BY DEF IirInv
<1>5. /\ out \in Int
      /\ out = (Coeffs[2] * s + Coeffs[3] * F!At(x, n) + Coeffs[4] * F!At(x, n - 1))
               - (Coeffs[0] * d[n] + Coeffs[1] * d[n - 1])
  <2>1. PICK a \in Int, b \in Int, c \in Int, e \in Int, f \in Int :
          a = Coeffs[2] * s /\ b = Coeffs[3] * F!At(x, n) /\ c = Coeffs[4] * F!At(x, n - 1)
          /\ e = Coeffs[0] * d[n] /\ f = Coeffs[1] * d[n - 1]
    <3>1. /\ Coeffs[2] * s \in Int /\ Coeffs[3] * F!At(x, n) \in Int /\ Coeffs[4] * F!At(x, n - 1) \in Int
          /\ Coeffs[0] * d[n] \in Int /\ Coeffs[1] * d[n - 1] \in Int
      BY <1>2, <1>3, ProductType
    <3>. QED BY <3>1, Zenon
  <2>2. iir.buffer[0] = (b + c) - (e + f) /\ out = a + iir.buffer[0]
    BY <1>1, <2>1
  <2>3. out = (a + b + c) - (e + f) /\ out \in Int
    BY <2>2
  <2>. QED BY <2>1, <2>3
<1>6. /\ (Coeffs[3] * s - Coeffs[0] * out) + iir.buffer[1]
           = (Coeffs[3] * s + Coeffs[4] * F!At(x, n)) - (Coeffs[0] * out + Coeffs[1] * d[n])
      /\ (Coeffs[3] * s - Coeffs[0] * out) + iir.buffer[1] \in Int
      /\ Coeffs[4] * s - Coeffs[1] * out \in Int
  <2>. HIDE DEF out
  <2>1. PICK a \in Int, b \in Int, c \in Int, e \in Int, f \in Int, g \in Int :
          a = Coeffs[3] * s /\ b = Coeffs[0] * out /\ c = Coeffs[4] * F!At(x, n) /\ e = Coeffs[1] * d[n]
          /\ f = Coeffs[4] * s /\ g = Coeffs[1] * out
    <3>1. /\ Coeffs[3] * s \in Int /\ Coeffs[0] * out \in Int /\ Coeffs[4] * F!At(x, n) \in Int
          /\ Coeffs[1] * d[n] \in Int /\ Coeffs[4] * s \in Int /\ Coeffs[1] * out \in Int
      BY <1>2, <1>3, <1>5, ProductType
    <3>. QED BY <3>1, Zenon
  <2>2. iir.buffer[1] = c - e
    BY <1>1, <2>1
  <2>3. (a - b) + iir.buffer[1] = (a + c) - (b + e) /\ (a - b) + iir.buffer[1] \in Int /\ f - g \in Int
    BY <2>2, SMTT(30)
  <2>. QED BY <2>1, <2>3
<1>7. /\ iir'.out = out
      /\ iir'.buffer = [iir.buffer EXCEPT ![0] = (Coeffs[3] * s - Coeffs[0] * out) + iir.buffer[1],
                                          ![1] = Coeffs[4] * s - Coeffs[1] * out]
      /\ iir' = [out |-> iir'.out, buffer |-> iir'.buffer]
  BY DEF F!IirUpdate
<1>8. /\ x' \in Seq(Int) /\ Len(x') = n + 1 /\ F!At(x', n + 1) = s /\ F!At(x', n) = F!At(x, n)
      /\ \A m \in Int : m <= n => F!At(x', m) = F!At(x, m)
  <2>1. Append(x, s) \in Seq(Int) /\ Len(Append(x, s)) = Len(x) + 1
        /\ F!At(Append(x, s), Len(x) + 1) = s
        /\ \A m \in Int : m <= Len(x) => F!At(Append(x, s), m) = F!At(x, m)
    BY AppendAt
  <2>. QED BY <1>2, <2>1
<1>. HIDE DEF n, out
<1>. DEFINE next == [m \in -1 .. n + 1 |-> IF m = n + 1 THEN out ELSE d[m]]
<1>9. next \in [-1 .. n + 1 -> Int] /\ next[n + 1] = out /\ next[n] = d[n] /\ next[n - 1] = d[n - 1]
  <2>1. \A m \in -1 .. n + 1 : m = n + 1 \/ (m \in -1 .. n /\ d[m] \in Int)
    BY <1>2
  <2>2. n + 1 \in -1 .. n + 1 /\ n \in -1 .. n + 1 /\ n - 1 \in -1 .. n + 1 /\ n # n + 1 /\ n - 1 # n + 1
    BY <1>2
  <2>. QED BY <1>5, <2>1, <2>2
<1>10. IsDifference(x', n + 1, next)
  <2>1. ASSUME NEW m \in -1 .. n + 1
        PROVE  next[m] = IF m < 1 THEN 0
                         ELSE (Coeffs[2] * F!At(x', m) + Coeffs[3] * F!At(x', m - 1) + Coeffs[4] * F!At(x', m - 2))
                              - (Coeffs[0] * next[m - 1] + Coeffs[1] * next[m - 2])
    <3>1. CASE m = n + 1
      <4>1. ~ (m < 1) /\ m - 1 = n /\ m - 2 = n - 1 /\ next[m] = out
        BY <1>2, <1>9, <3>1
      <4>2. F!At(x', m) = s /\ F!At(x', m - 1) = F!At(x, n) /\ F!At(x', m - 2) = F!At(x, n - 1)
        BY <1>2, <1>8, <3>1, <4>1
      <4>. HIDE DEF next
      <4>. QED BY <1>5, <1>9, <4>1, <4>2
    <3>2. CASE m \in 1 .. n
      <4>1. \A i \in {m, m - 1, m - 2} : i \in -1 .. n + 1 /\ i # n + 1 /\ i <= n /\ i \in Int
        BY <1>2, <3>2
      <4>2. /\ next[m] = d[m] /\ next[m - 1] = d[m - 1] /\ next[m - 2] = d[m - 2]
            /\ F!At(x', m) = F!At(x, m) /\ F!At(x', m - 1) = F!At(x, m - 1) /\ F!At(x', m - 2) = F!At(x, m - 2)
        BY <4>1, <1>8
      <4>3. d[m] = (Coeffs[2] * F!At(x, m) + Coeffs[3] * F!At(x, m - 1) + Coeffs[4] * F!At(x, m - 2))
                   - (Coeffs[0] * d[m - 1] + Coeffs[1] * d[m - 2])
        <5>1. m \in -1 .. n /\ ~ (m < 1)
          BY <1>2, <3>2
        <5>. QED BY <1>1, <5>1 DEF IsDifference
      <4>. HIDE DEF next
      <4>. QED BY <3>2, <4>2, <4>3
    <3>3. CASE m < 1
      <4>1. next[m] = d[m] /\ d[m] = 0
        BY <1>1, <1>2, <3>3 DEF IsDifference
      <4>. HIDE DEF next
      <4>. QED BY <3>3, <4>1
    <3>. QED BY <1>2, <3>1, <3>2, <3>3
  <2>2. next = [m \in -1 .. n + 1 |-> next[m]]
    OBVIOUS
  <2>. HIDE DEF next
  <2>. QED BY <2>1, <2>2 DEF IsDifference
<1>. HIDE DEF next
<1>11. /\ iir'.buffer[0] = (Coeffs[3] * F!At(x', n + 1) + Coeffs[4] * F!At(x', n))
                            - (Coeffs[0] * next[n + 1] + Coeffs[1] * next[n])
       /\ iir'.buffer[1] = Coeffs[4] * F!At(x', n + 1) - Coeffs[1] * next[n + 1]
       /\ iir' \in [out : Int, buffer : [0 .. 1 -> Int]]
  BY <1>4, <1>5, <1>6, <1>7, <1>8, <1>9
<1>12. Len(x') = n + 1 /\ Len(x') - 1 = n
  BY <1>2, <1>8
<1>13. /\ next \in [-1 .. Len(x') -> Int] /\ IsDifference(x', Len(x'), next) /\ iir'.out = next[Len(x')]
       /\ iir'.buffer[0] = (Coeffs[3] * F!At(x', Len(x')) + Coeffs[4] * F!At(x', Len(x') - 1))
                            - (Coeffs[0] * next[Len(x')] + Coeffs[1] * next[Len(x') - 1])
       /\ iir'.buffer[1] = Coeffs[4] * F!At(x', Len(x')) - Coeffs[1] * next[Len(x')]
  BY <1>7, <1>9, <1>10, <1>11, <1>12
<1>. QED BY <1>11, <1>13, Zenon DEF IirInv, IsDifference, F!At

\* The same for the filter in fixed point, whatever its shifts and casts return.
LEMMA FpStep ==
  ASSUME x \in Seq(Int), FpInv, NEW s \in Int, F!FpUpdate(s), x' = Append(x, s)
  PROVE  FpInv'
<1>. DEFINE n == Len(x)
            Out(a, b, c, e, f) ==
              F!Fixed(F!Shift(F!Shift(a * FpCoeffs[0] + b * FpCoeffs[1] + c * FpCoeffs[2], ScaleNum)
                          - F!Shift(e * FpCoeffs[3] + f * FpCoeffs[4], ScaleDenum), FpBits))
<1>1. PICK d : IsFpDifference(x, n, d) /\ fp[2] = d[n] /\ fp[3] = d[n - 1]
  BY DEF FpInv
<1>2. fp' = [fp EXCEPT ![0] = s, ![1] = fp[0], ![2] = Out(s, fp[0], fp[1], fp[2], fp[3]), ![3] = fp[2]]
  BY DEF F!FpUpdate
<1>3. \A y, m, g : IsFpDifference(y, m, g) <=>
        g = [k \in -1 .. m |-> IF k < 1 THEN 0
                               ELSE Out(F!At(y, k), F!At(y, k - 1), F!At(y, k - 2), g[k - 1], g[k - 2])]
  BY DEF IsFpDifference
<1>4. fp[0] = F!At(x, n) /\ fp[1] = F!At(x, n - 1) /\ DOMAIN fp = 0 .. 3
  BY DEF FpInv
<1>5. n \in Nat
  OBVIOUS
<1>6. /\ Len(x') = n + 1 /\ F!At(x', n + 1) = s
      /\ \A m \in Int : m <= n => F!At(x', m) = F!At(x, m)
  BY AppendAt
<1>. HIDE DEF Out, n
<1>. DEFINE out == Out(s, fp[0], fp[1], fp[2], fp[3])
            next == [m \in -1 .. n + 1 |-> IF m = n + 1 THEN out ELSE d[m]]
<1>. HIDE DEF out
<1>7. next[n + 1] = out /\ next[n] = d[n] /\ next[n - 1] = d[n - 1]
  BY <1>5
<1>8. IsFpDifference(x', n + 1, next)
  <2>1. ASSUME NEW m \in -1 .. n + 1
        PROVE  next[m] = IF m < 1 THEN 0
                         ELSE Out(F!At(x', m), F!At(x', m - 1), F!At(x', m - 2), next[m - 1], next[m - 2])
    <3>1. CASE m = n + 1
      <4>1. ~ (m < 1) /\ m - 1 = n /\ m - 2 = n - 1 /\ next[m] = out
        BY <1>5, <1>7, <3>1
      <4>2. F!At(x', m) = s /\ F!At(x', m - 1) = fp[0] /\ F!At(x', m - 2) = fp[1]
        BY <1>4, <1>5, <1>6, <3>1, <4>1
      <4>3. next[m - 1] = fp[2] /\ next[m - 2] = fp[3]
        BY <1>1, <1>7, <4>1
      <4>. HIDE DEF next
      <4>. QED BY <4>1, <4>2, <4>3 DEF out
    <3>2. CASE m \in 1 .. n
      <4>1. \A i \in {m, m - 1, m - 2} : i \in -1 .. n + 1 /\ i # n + 1 /\ i <= n /\ i \in Int
        BY <1>5, <3>2
      <4>2. /\ next[m] = d[m] /\ next[m - 1] = d[m - 1] /\ next[m - 2] = d[m - 2]
            /\ F!At(x', m) = F!At(x, m) /\ F!At(x', m - 1) = F!At(x, m - 1) /\ F!At(x', m - 2) = F!At(x, m - 2)
        BY <4>1, <1>6
      <4>3. d[m] = Out(F!At(x, m), F!At(x, m - 1), F!At(x, m - 2), d[m - 1], d[m - 2])
        BY <1>1, <1>3, <1>5, <3>2
      <4>. HIDE DEF next
      <4>. QED BY <3>2, <4>2, <4>3
    <3>3. CASE m < 1
      <4>1. next[m] = d[m] /\ d[m] = 0
        BY <1>1, <1>3, <1>5, <3>3
      <4>. HIDE DEF next
      <4>. QED BY <3>3, <4>1
    <3>. QED BY <1>5, <3>1, <3>2, <3>3
  <2>2. next = [m \in -1 .. n + 1 |-> next[m]]
    OBVIOUS
  <2>. HIDE DEF next
  <2>. QED BY <1>3, <2>1, <2>2
<1>. HIDE DEF next
<1>9. /\ DOMAIN fp' = 0 .. 3
      /\ fp'[0] = F!At(x', n + 1) /\ fp'[1] = F!At(x', n) /\ fp'[2] = next[n + 1] /\ fp'[3] = next[n]
  BY <1>1, <1>2, <1>4, <1>5, <1>6, <1>7 DEF out
<1>10. Len(x') = n + 1 /\ Len(x') - 1 = n
  BY <1>5, <1>6
<1>. QED BY <1>8, <1>9, <1>10 DEF FpInv, IsFpDifference, F!At

\* One sample is fed to all three.
LEMMA FiltersStep ==
  ASSUME FiltersInv, F!Next
  PROVE  FiltersInv'
<1>1. PICK s \in Sample : F!Update(s)
  BY DEF F!Next
<1>2. s \in Int /\ x' = Append(x, s) /\ F!FirUpdate(s) /\ F!IirUpdate(s) /\ F!FpUpdate(s)
  BY <1>1, FiltersAssumption DEF F!Update
<1>3. x' \in Seq(Int)
  BY <1>2, AppendAt DEF FiltersInv
<1>. QED BY <1>2, <1>3, FirStep, IirStep, FpStep DEF FiltersInv

\* Solutions are unique: the outputs are those of the references.
LEMMA SamplesFollowed == FiltersInv => F!FiltersFollowSamples
<1>. SUFFICES ASSUME FiltersInv PROVE F!FiltersFollowSamples
  OBVIOUS
<1>1. iir.out = F!Difference(x)
  BY DifferenceUnique DEF FiltersInv, IirInv
<1>2. fp[2] = F!FpDifference(x)
  BY FpDifferenceUnique DEF FiltersInv, FpInv
<1>. QED BY <1>1, <1>2 DEF FiltersInv, FirInv, F!FiltersFollowSamples

-----------------------------------------------------------------------------
(* The checksums: loops, words and weights.                                *)

\* acc is what Loop computes.
IsLoop(body, start, n, acc) == acc = [i \in 0 .. n |-> IF i = 0 THEN start ELSE body[i][acc[i - 1]]]

\* There is such a function.
LEMMA LoopExists ==
  ASSUME NEW body, NEW start
  PROVE  \A n \in Nat : \E acc : IsLoop(body, start, n, acc)
<1>. DEFINE Good == {n \in Nat : \E acc : IsLoop(body, start, n, acc)}
<1>1. 0 \in Good
  <2>. IsLoop(body, start, 0, [i \in 0 .. 0 |-> start])
    BY DEF IsLoop
  <2>. QED OBVIOUS
<1>2. ASSUME NEW n \in Nat, n \in Good PROVE n + 1 \in Good
  <2>1. PICK acc : IsLoop(body, start, n, acc)
    BY <1>2
  <2>. DEFINE next == [i \in 0 .. n + 1 |-> IF i = n + 1 THEN body[n + 1][acc[n]] ELSE acc[i]]
  <2>2. \A i \in 0 .. n + 1 : next[i] = IF i = 0 THEN start ELSE body[i][next[i - 1]]
    <3>1. \A i \in 0 .. n : acc[i] = IF i = 0 THEN start ELSE body[i][acc[i - 1]]
      BY <2>1 DEF IsLoop
    <3>2. \A i \in 0 .. n : next[i] = acc[i]
      OBVIOUS
    <3>3. next[n + 1] = body[n + 1][acc[n]]
      OBVIOUS
    <3>. HIDE DEF next
    <3>4. next[n + 1] = body[n + 1][next[(n + 1) - 1]]
      BY <3>2, <3>3
    <3>5. ASSUME NEW i \in 1 .. n PROVE next[i] = body[i][next[i - 1]]
      BY <3>1, <3>2, <3>5
    <3>. QED BY <3>1, <3>2, <3>4, <3>5
  <2>3. next = [i \in 0 .. n + 1 |-> next[i]]
    OBVIOUS
  <2>4. IsLoop(body, start, n + 1, next)
    <3>. HIDE DEF next
    <3>. QED BY <2>2, <2>3 DEF IsLoop
  <2>. QED BY <2>4
<1>. HIDE DEF Good
<1>3. Nat \subseteq Good
  BY <1>1, <1>2, Induction
<1>. QED BY <1>3 DEF Good

\* Two of them agree where both are defined.
LEMMA LoopUnique ==
  ASSUME NEW body, NEW start, NEW n \in Nat, NEW m \in Nat, NEW s, NEW t, NEW l \in Nat, l <= n, l <= m,
         IsLoop(body, start, n, s), IsLoop(body, start, m, t)
  PROVE  s[l] = t[l]
<1>. DEFINE Good == {k \in Nat : k <= l => s[k] = t[k]}
<1>1. 0 \in Good
  BY DEF IsLoop
<1>2. ASSUME NEW k \in Nat, k \in Good PROVE k + 1 \in Good
  <2>. SUFFICES ASSUME k + 1 <= l PROVE s[k + 1] = t[k + 1]
    OBVIOUS
  <2>1. s[k] = t[k]
    BY <1>2
  <2>2. k + 1 \in 0 .. n /\ k + 1 \in 0 .. m /\ k + 1 # 0 /\ (k + 1) - 1 = k
    OBVIOUS
  <2>3. s[k + 1] = body[k + 1][s[k]] /\ t[k + 1] = body[k + 1][t[k]]
    BY <2>2 DEF IsLoop
  <2>. QED BY <2>1, <2>3
<1>. HIDE DEF Good
<1>3. Nat \subseteq Good
  BY <1>1, <1>2, Induction
<1>. QED BY <1>3 DEF Good

\* A loop starts with start and makes each time what its body makes of the last time.
LEMMA LoopSteps ==
  ASSUME NEW body, NEW start
  PROVE  /\ C!Loop(body, start, 0) = start
         /\ \A n \in Nat : C!Loop(body, start, n + 1) = body[n + 1][C!Loop(body, start, n)]
<1>1. \A n \in Nat : \E s : IsLoop(body, start, n, s) /\ s[n] = C!Loop(body, start, n)
  <2>. SUFFICES ASSUME NEW n \in Nat PROVE \E s : IsLoop(body, start, n, s) /\ s[n] = C!Loop(body, start, n)
    OBVIOUS
  <2>. DEFINE acc == CHOOSE acc : IsLoop(body, start, n, acc)
  <2>1. IsLoop(body, start, n, acc)
    BY LoopExists
  <2>2. C!Loop(body, start, n) = acc[n]
    BY DEF C!Loop, IsLoop
  <2>. QED BY <2>1, <2>2
<1>2. C!Loop(body, start, 0) = start
  BY <1>1 DEF IsLoop
<1>3. ASSUME NEW n \in Nat PROVE C!Loop(body, start, n + 1) = body[n + 1][C!Loop(body, start, n)]
  <2>1. PICK s : IsLoop(body, start, n, s) /\ s[n] = C!Loop(body, start, n)
    BY <1>1
  <2>2. PICK t : IsLoop(body, start, n + 1, t) /\ t[n + 1] = C!Loop(body, start, n + 1)
    BY <1>1
  <2>3. s[n] = t[n]
    <3>1. n + 1 \in Nat /\ n <= n /\ n <= n + 1
      OBVIOUS
    <3>. QED BY <2>1, <2>2, <3>1, LoopUnique
  <2>4. t[n + 1] = body[n + 1][t[n]]
    BY <2>2 DEF IsLoop
  <2>. QED BY <2>1, <2>2, <2>3, <2>4
<1>. QED BY <1>2, <1>3

\* If the body keeps a type, the loop does.
LEMMA LoopType ==
  ASSUME NEW S, NEW n \in Nat, NEW body, NEW start \in S,
         \A i \in 1 .. n, v \in S : body[i][v] \in S
  PROVE  \A j \in 0 .. n : C!Loop(body, start, j) \in S
<1>. DEFINE Good == {j \in Nat : j <= n => C!Loop(body, start, j) \in S}
<1>1. 0 \in Good
  BY LoopSteps
<1>2. ASSUME NEW j \in Nat, j \in Good PROVE j + 1 \in Good
  <2>1. C!Loop(body, start, j + 1) = body[j + 1][C!Loop(body, start, j)]
    BY LoopSteps
  <2>. QED BY <1>2, <2>1
<1>. HIDE DEF Good
<1>3. Nat \subseteq Good
  BY <1>1, <1>2, Induction
<1>. QED BY <1>3 DEF Good

\* Which bits a byte has.
LEMMA BitsOfByte ==
  ASSUME NEW b \in C!Byte
  PROVE  /\ C!Bits(b) \in SUBSET (0 .. 7)
         /\ (0 \in C!Bits(b)) <=> (b % 2 = 1)
         /\ (1 \in C!Bits(b)) <=> ((b \div 2) % 2 = 1)
         /\ (2 \in C!Bits(b)) <=> ((b \div 4) % 2 = 1)
         /\ (3 \in C!Bits(b)) <=> ((b \div 8) % 2 = 1)
         /\ (4 \in C!Bits(b)) <=> ((b \div 16) % 2 = 1)
         /\ (5 \in C!Bits(b)) <=> ((b \div 32) % 2 = 1)
         /\ (6 \in C!Bits(b)) <=> ((b \div 64) % 2 = 1)
         /\ (7 \in C!Bits(b)) <=> ((b \div 128) % 2 = 1)
  BY DEF C!Bits, C!Byte

\* A byte is the value of its bits.
LEMMA ValueOfBits ==
  ASSUME NEW b \in C!Byte
  PROVE  C!Bits(b) \in SUBSET (0 .. 7) /\ C!ByteOf(C!Bits(b)) = b
<1>. DEFINE w == C!Bits(b)
<1>1. /\ (0 \in w) <=> (b % 2 = 1)
      /\ (1 \in w) <=> ((b \div 2) % 2 = 1)
      /\ (2 \in w) <=> ((b \div 4) % 2 = 1)
      /\ (3 \in w) <=> ((b \div 8) % 2 = 1)
      /\ (4 \in w) <=> ((b \div 16) % 2 = 1)
      /\ (5 \in w) <=> ((b \div 32) % 2 = 1)
      /\ (6 \in w) <=> ((b \div 64) % 2 = 1)
      /\ (7 \in w) <=> ((b \div 128) % 2 = 1)
  BY BitsOfByte
<1>. HIDE DEF w
<1>2. C!ByteOf(w) = b
  BY <1>1 DEF C!ByteOf, C!Byte
<1>. QED BY <1>2, BitsOfByte DEF w

\* The bits of the value of a word are the word.
LEMMA BitsOfValue ==
  ASSUME NEW w \in SUBSET (0 .. 7)
  PROVE  C!ByteOf(w) \in C!Byte /\ C!Bits(C!ByteOf(w)) = w
<1>1. C!ByteOf(w) \in C!Byte
  BY DEF C!ByteOf, C!Byte
<1>2. PICK v \in C!Byte : v = C!ByteOf(w)
  BY <1>1
<1>3. /\ (0 \in w) <=> (v % 2 = 1)
      /\ (1 \in w) <=> ((v \div 2) % 2 = 1)
      /\ (2 \in w) <=> ((v \div 4) % 2 = 1)
      /\ (3 \in w) <=> ((v \div 8) % 2 = 1)
      /\ (4 \in w) <=> ((v \div 16) % 2 = 1)
      /\ (5 \in w) <=> ((v \div 32) % 2 = 1)
      /\ (6 \in w) <=> ((v \div 64) % 2 = 1)
      /\ (7 \in w) <=> ((v \div 128) % 2 = 1)
  BY <1>2 DEF C!ByteOf, C!Byte
<1>4. \A i \in 0 .. 7 : (i \in w) <=> (i \in C!Bits(v))
  BY <1>3, BitsOfByte
<1>. QED BY <1>1, <1>2, <1>4, BitsOfByte


\* Inverting a bit adds or takes away what it is worth.
LEMMA ValueOfFlip ==
  ASSUME NEW w \in SUBSET (0 .. 7), NEW k \in 0 .. 7
  PROVE  /\ SymDiff(w, {k}) \in SUBSET (0 .. 7)
         /\ \E e \in {-1, 1} : C!ByteOf(SymDiff(w, {k})) = C!ByteOf(w) + e * 2 ^ k
<1>. DEFINE u == SymDiff(w, {k})
<1>1. u \in SUBSET (0 .. 7) /\ \A i \in 0 .. 7 : (i \in u) <=> IF i = k THEN i \notin w ELSE i \in w
  BY DEF SymDiff
<1>. HIDE DEF u
<1>2. \E e \in {-1, 1} : C!ByteOf(u) = C!ByteOf(w) + e * 2 ^ k
  <2>1. CASE k = 0
    BY <1>1, <2>1 DEF C!ByteOf
  <2>2. CASE k = 1
    BY <1>1, <2>2 DEF C!ByteOf
  <2>3. CASE k = 2
    BY <1>1, <2>3 DEF C!ByteOf
  <2>4. CASE k = 3
    BY <1>1, <2>4 DEF C!ByteOf
  <2>5. CASE k = 4
    BY <1>1, <2>5 DEF C!ByteOf
  <2>6. CASE k = 5
    BY <1>1, <2>6 DEF C!ByteOf
  <2>7. CASE k = 6
    BY <1>1, <2>7 DEF C!ByteOf
  <2>8. CASE k = 7
    BY <1>1, <2>8 DEF C!ByteOf
  <2>. QED BY <2>1, <2>2, <2>3, <2>4, <2>5, <2>6, <2>7, <2>8
<1>. QED BY <1>1, <1>2 DEF u

-----------------------------------------------------------------------------
(* Checksums: numbers that are congruent modulo a modulus.                 *)

\* a and b differ by a multiple of m.
Congruent(a, b, m) == \E t \in Int : a = b + t * m

\* A product with an integer, for the prover's sake.
LEMMA Multiples ==
  ASSUME NEW m \in Int, NEW t \in Int, NEW u \in Int
  PROVE  /\ t * m \in Int /\ u * m \in Int
         /\ t * m + u * m = (t + u) * m /\ t * m - u * m = (t - u) * m
         /\ u * (t * m) = (u * t) * m /\ -(t * m) = (-t) * m
  OBVIOUS

\* Congruence is compatible with sums, differences and products.
LEMMA CongruentRules ==
  ASSUME NEW m \in Nat, NEW a \in Int, NEW b \in Int, Congruent(a, b, m)
  PROVE  /\ Congruent(b, a, m)
         /\ \A c \in Int : Congruent(c * a, c * b, m)
         /\ \A c \in Int, d \in Int : Congruent(c, d, m) => Congruent(a + c, b + d, m)
         /\ \A c \in Int, d \in Int : Congruent(c, d, m) => Congruent(a - c, b - d, m)
         /\ \A c \in Int : Congruent(b, c, m) => Congruent(a, c, m)
<1>1. PICK t \in Int : a = b + t * m
  BY DEF Congruent
<1>2. t * m \in Int /\ -t \in Int
  BY Multiples
<1>3. Congruent(b, a, m)
  <2>1. b = a + (-t) * m
    BY <1>1, <1>2, Multiples
  <2>. QED BY <1>2, <2>1 DEF Congruent
<1>4. ASSUME NEW c \in Int PROVE Congruent(c * a, c * b, m)
  <2>1. c * (b + t * m) = c * b + c * (t * m)
    BY <1>2
  <2>2. c * (t * m) = (c * t) * m /\ c * t \in Int
    BY Multiples
  <2>. QED BY <1>1, <2>1, <2>2 DEF Congruent
<1>5. ASSUME NEW c \in Int, NEW d \in Int, Congruent(c, d, m)
      PROVE  Congruent(a + c, b + d, m) /\ Congruent(a - c, b - d, m)
  <2>1. PICK u \in Int : c = d + u * m
    BY <1>5 DEF Congruent
  <2>2. /\ u * m \in Int /\ t + u \in Int /\ t - u \in Int
        /\ t * m + u * m = (t + u) * m /\ t * m - u * m = (t - u) * m
    BY Multiples
  <2>3. a + c = (b + d) + (t * m + u * m) /\ a - c = (b - d) + (t * m - u * m)
    BY <1>1, <1>2, <2>1, <2>2
  <2>. QED BY <2>2, <2>3 DEF Congruent
<1>6. ASSUME NEW c \in Int, Congruent(b, c, m) PROVE Congruent(a, c, m)
  <2>1. PICK u \in Int : b = c + u * m
    BY <1>6 DEF Congruent
  <2>2. u * m \in Int /\ t + u \in Int /\ t * m + u * m = (t + u) * m
    BY Multiples
  <2>3. a = c + (t * m + u * m)
    BY <1>1, <1>2, <2>1, <2>2
  <2>. QED BY <2>2, <2>3 DEF Congruent
<1>. QED BY <1>3, <1>4, <1>5, <1>6

\* Every number is congruent to itself.
LEMMA CongruentSame ==
  ASSUME NEW m \in Nat, NEW a \in Int
  PROVE  Congruent(a, a, m)
<1>. a = a + 0 * m
  OBVIOUS
<1>. QED BY DEF Congruent

\* A number is congruent to its remainder.
LEMMA CongruentRemainder ==
  ASSUME NEW m \in Nat \ {0}, NEW a \in Int
  PROVE  a % m \in 0 .. m - 1 /\ Congruent(a % m, a, m) /\ Congruent(a, a % m, m)
<1>1. a = m * (a \div m) + (a % m) /\ a \div m \in Int /\ a % m \in 0 .. m - 1
  OBVIOUS
<1>2. m * (a \div m) = (a \div m) * m /\ (a \div m) * m \in Int
  BY <1>1
<1>3. a = (a % m) + (a \div m) * m
  BY <1>1, <1>2
<1>4. Congruent(a, a % m, m)
  BY <1>1, <1>3 DEF Congruent
<1>5. Congruent(a % m, a, m)
  <2>. a % m \in Int /\ m \in Nat
    BY <1>1
  <2>. QED BY <1>4, CongruentRules, Zenon
<1>. QED BY <1>1, <1>4, <1>5

\* A product of natural numbers is one.
LEMMA NatProduct ==
  ASSUME NEW m \in Nat, NEW u \in Nat
  PROVE  u * m \in Nat
<1>. DEFINE Good == {k \in Nat : k * m \in Nat}
<1>1. 0 \in Good
  OBVIOUS
<1>2. ASSUME NEW k \in Nat, k \in Good PROVE k + 1 \in Good
  <2>1. (k + 1) * m = k * m + m
    OBVIOUS
  <2>. QED BY <1>2, <2>1
<1>. HIDE DEF Good
<1>3. Nat \subseteq Good
  BY <1>1, <1>2, Induction
<1>. QED BY <1>3 DEF Good

\* A multiple of m that is less than m away from zero is zero.
LEMMA SmallMultiple ==
  ASSUME NEW m \in Nat \ {0}, NEW a \in Int, Congruent(a, 0, m)
  PROVE  /\ -m < a /\ a < m => a = 0
         /\ 0 < a /\ a < 2 * m => a = m
<1>1. PICK t \in Int : a = 0 + t * m
  BY DEF Congruent
<1>2. \A u \in Nat : u * m \in Nat
  BY NatProduct
<1>3. ASSUME t >= 2 PROVE a >= 2 * m
  <2>1. PICK u \in Nat : t = u + 2
    BY <1>3
  <2>2. (u + 2) * m = u * m + 2 * m
    OBVIOUS
  <2>. QED BY <1>1, <1>2, <2>1, <2>2
<1>4. ASSUME t <= -1 PROVE a <= -m
  <2>1. PICK u \in Nat : t = -u - 1
    BY <1>4
  <2>2. (-u - 1) * m = -(u * m) - m
    OBVIOUS
  <2>. QED BY <1>1, <1>2, <2>1, <2>2
<1>5. t = 0 => a = 0
  BY <1>1
<1>6. t = 1 => a = m
  BY <1>1
<1>. QED BY <1>3, <1>4, <1>5, <1>6

\* Congruent remainders are equal.
LEMMA CongruentEqual ==
  ASSUME NEW m \in Nat \ {0}, NEW a \in 0 .. m - 1, NEW b \in 0 .. m - 1, Congruent(a, b, m)
  PROVE  a = b
<1>. a \in Int /\ b \in Int /\ m \in Nat
  OBVIOUS
<1>1. Congruent(b, b, m)
  BY CongruentSame
<1>2. Congruent(a - b, b - b, m)
  BY <1>1, CongruentRules, Zenon
<1>3. a - b \in Int /\ b - b = 0 /\ -m < a - b /\ a - b < m
  OBVIOUS
<1>4. a - b = 0
  BY <1>2, <1>3, SmallMultiple
<1>. QED BY <1>4

\* Remainders are equal if the numbers are congruent.
LEMMA RemaindersEqual ==
  ASSUME NEW m \in Nat \ {0}, NEW a \in Int, NEW b \in Int
  PROVE  (a % m = b % m) <=> Congruent(a, b, m)
<1>1. PICK v \in 0 .. m - 1, y \in 0 .. m - 1 :
        /\ v = a % m /\ Congruent(v, a, m) /\ Congruent(a, v, m)
        /\ y = b % m /\ Congruent(y, b, m) /\ Congruent(b, y, m)
  BY CongruentRemainder
<1>. v \in Int /\ y \in Int /\ m \in Nat
  OBVIOUS
<1>2. ASSUME Congruent(a, b, m) PROVE v = y
  <2>1. Congruent(v, b, m)
    BY <1>1, <1>2, CongruentRules, Zenon
  <2>2. Congruent(v, y, m)
    BY <1>1, <2>1, CongruentRules, Zenon
  <2>. QED BY <2>2, CongruentEqual
<1>3. ASSUME v = y PROVE Congruent(a, b, m)
  BY <1>1, <1>3, CongruentRules, ZenonT(30)
<1>. QED BY <1>1, <1>2, <1>3

\* The remainder of a product is that of the product of the remainder.
LEMMA RemainderOfProduct ==
  ASSUME NEW m \in Nat \ {0}, NEW c \in Int, NEW a \in Int
  PROVE  (c * (a % m)) % m = (c * a) % m
<1>1. a % m \in Int /\ Congruent(a % m, a, m)
  BY CongruentRemainder
<1>2. Congruent(c * (a % m), c * a, m)
  BY <1>1, CongruentRules
<1>3. c * (a % m) \in Int /\ c * a \in Int
  BY <1>1
<1>. QED BY <1>2, <1>3, RemaindersEqual

\* The sum and the difference of congruent numbers are congruent.
LEMMA CongruentSum ==
  ASSUME NEW m \in Nat, NEW a \in Int, NEW b \in Int, NEW c \in Int, NEW d \in Int,
         Congruent(a, b, m), Congruent(c, d, m)
  PROVE  Congruent(a + c, b + d, m) /\ Congruent(a - c, b - d, m)
  BY CongruentRules

\* Congruence is transitive.
LEMMA CongruentChain ==
  ASSUME NEW m \in Nat, NEW a \in Int, NEW b \in Int, NEW c \in Int, Congruent(a, b, m), Congruent(b, c, m)
  PROVE  Congruent(a, c, m)
  BY CongruentRules

\* What is a multiple of m apart has the same multiples.
LEMMA CongruentTimes ==
  ASSUME NEW m \in Nat, NEW a \in Int, NEW b \in Int, NEW c \in Int, Congruent(a, b, m)
  PROVE  Congruent(c * a, c * b, m)
  BY CongruentRules

-----------------------------------------------------------------------------
(* Checksums: the weights of the bits, and the moduli that tell them apart.*)

\* 2^d modulo m.
Weight(d, m) == C!Loop([i \in Nat |-> [y \in Nat |-> (2 * y) % m]], 1, d)

\* It starts with 1 and doubles.
LEMMA WeightSteps ==
  ASSUME NEW m \in Nat, m >= 2
  PROVE  /\ Weight(0, m) = 1
         /\ \A d \in Nat : /\ Weight(d, m) \in 0 .. m - 1
                           /\ Weight(d + 1, m) = (2 * Weight(d, m)) % m
<1>. DEFINE body == [i \in Nat |-> [y \in Nat |-> (2 * y) % m]]
<1>1. \A i \in Nat, y \in 0 .. m - 1 : body[i][y] = (2 * y) % m
  OBVIOUS
<1>2. \A y \in 0 .. m - 1 : (2 * y) % m \in 0 .. m - 1
  OBVIOUS
<1>3. Weight(0, m) = 1 /\ \A d \in Nat : Weight(d + 1, m) = body[d + 1][Weight(d, m)]
  <2>1. \A d \in Nat : Weight(d, m) = C!Loop(body, 1, d)
    BY DEF Weight
  <2>. HIDE DEF body
  <2>2. C!Loop(body, 1, 0) = 1 /\ \A d \in Nat : C!Loop(body, 1, d + 1) = body[d + 1][C!Loop(body, 1, d)]
    BY LoopSteps
  <2>. QED BY <2>1, <2>2
<1>. HIDE DEF body
<1>4. ASSUME NEW d \in Nat PROVE Weight(d, m) \in 0 .. m - 1
  <2>. DEFINE S == 0 .. m - 1
  <2>1. 1 \in S /\ \A i \in 1 .. d, v \in S : body[i][v] \in S
    BY <1>1, <1>2
  <2>. HIDE DEF S
  <2>2. \A j \in 0 .. d : C!Loop(body, 1, j) \in S
    BY <2>1, LoopType
  <2>3. C!Loop(body, 1, d) = Weight(d, m)
    BY DEF Weight, body
  <2>. QED BY <2>2, <2>3 DEF S
<1>5. ASSUME NEW d \in Nat PROVE Weight(d + 1, m) = (2 * Weight(d, m)) % m
  BY <1>1, <1>3, <1>4, d + 1 \in Nat
<1>. QED BY <1>3, <1>4, <1>5

\* Doubling the weight of a bit makes that of the next.
LEMMA WeightDouble ==
  ASSUME NEW m \in Nat, m >= 2, NEW d \in Nat, NEW y \in Int, y % m = Weight(d, m)
  PROVE  (2 * y) % m = Weight(d + 1, m)
<1>1. m \in Nat \ {0} /\ 2 \in Int
  OBVIOUS
<1>2. (2 * (y % m)) % m = (2 * y) % m
  BY <1>1, RemainderOfProduct, Zenon
<1>. QED BY <1>2, WeightSteps

\* Doubling a weight k times, k at most eight.
LEMMA WeightTimes ==
  ASSUME NEW m \in Nat, m >= 2, NEW d \in Nat, NEW k \in 0 .. 8
  PROVE  (2 ^ k * Weight(d, m)) % m = Weight(d + k, m)
<1>. PICK v \in Nat : v = Weight(d, m) /\ v \in 0 .. m - 1
  BY WeightSteps
<1>3. (1 * v) % m = Weight(d + 0, m)
  OBVIOUS
<1>4. (2 * v) % m = Weight(d + 1, m)
  <2>1. 1 * v \in Int /\ 2 * v = 2 * (1 * v) /\ d + 0 \in Nat /\ d + 1 = (d + 0) + 1
    OBVIOUS
  <2>2. (2 * (1 * v)) % m = Weight((d + 0) + 1, m)
    BY <1>3, <2>1, WeightDouble, Zenon
  <2>. QED BY <2>1, <2>2, Zenon
<1>5. (4 * v) % m = Weight(d + 2, m)
  <2>1. 2 * v \in Int /\ 4 * v = 2 * (2 * v) /\ d + 1 \in Nat /\ d + 2 = (d + 1) + 1
    OBVIOUS
  <2>2. (2 * (2 * v)) % m = Weight((d + 1) + 1, m)
    BY <1>4, <2>1, WeightDouble, Zenon
  <2>. QED BY <2>1, <2>2, Zenon
<1>6. (8 * v) % m = Weight(d + 3, m)
  <2>1. 4 * v \in Int /\ 8 * v = 2 * (4 * v) /\ d + 2 \in Nat /\ d + 3 = (d + 2) + 1
    OBVIOUS
  <2>2. (2 * (4 * v)) % m = Weight((d + 2) + 1, m)
    BY <1>5, <2>1, WeightDouble, Zenon
  <2>. QED BY <2>1, <2>2, Zenon
<1>7. (16 * v) % m = Weight(d + 4, m)
  <2>1. 8 * v \in Int /\ 16 * v = 2 * (8 * v) /\ d + 3 \in Nat /\ d + 4 = (d + 3) + 1
    OBVIOUS
  <2>2. (2 * (8 * v)) % m = Weight((d + 3) + 1, m)
    BY <1>6, <2>1, WeightDouble, Zenon
  <2>. QED BY <2>1, <2>2, Zenon
<1>8. (32 * v) % m = Weight(d + 5, m)
  <2>1. 16 * v \in Int /\ 32 * v = 2 * (16 * v) /\ d + 4 \in Nat /\ d + 5 = (d + 4) + 1
    OBVIOUS
  <2>2. (2 * (16 * v)) % m = Weight((d + 4) + 1, m)
    BY <1>7, <2>1, WeightDouble, Zenon
  <2>. QED BY <2>1, <2>2, Zenon
<1>9. (64 * v) % m = Weight(d + 6, m)
  <2>1. 32 * v \in Int /\ 64 * v = 2 * (32 * v) /\ d + 5 \in Nat /\ d + 6 = (d + 5) + 1
    OBVIOUS
  <2>2. (2 * (32 * v)) % m = Weight((d + 5) + 1, m)
    BY <1>8, <2>1, WeightDouble, Zenon
  <2>. QED BY <2>1, <2>2, Zenon
<1>10. (128 * v) % m = Weight(d + 7, m)
  <2>1. 64 * v \in Int /\ 128 * v = 2 * (64 * v) /\ d + 6 \in Nat /\ d + 7 = (d + 6) + 1
    OBVIOUS
  <2>2. (2 * (64 * v)) % m = Weight((d + 6) + 1, m)
    BY <1>9, <2>1, WeightDouble, Zenon
  <2>. QED BY <2>1, <2>2, Zenon
<1>11. (256 * v) % m = Weight(d + 8, m)
  <2>1. 128 * v \in Int /\ 256 * v = 2 * (128 * v) /\ d + 7 \in Nat /\ d + 8 = (d + 7) + 1
    OBVIOUS
  <2>2. (2 * (128 * v)) % m = Weight((d + 7) + 1, m)
    BY <1>10, <2>1, WeightDouble, Zenon
  <2>. QED BY <2>1, <2>2, Zenon
<1>12. /\ 2 ^ 0 = 1 /\ 2 ^ 1 = 2 /\ 2 ^ 2 = 4 /\ 2 ^ 3 = 8 /\ 2 ^ 4 = 16
       /\ 2 ^ 5 = 32 /\ 2 ^ 6 = 64 /\ 2 ^ 7 = 128 /\ 2 ^ 8 = 256
  OBVIOUS
<1>13. \/ k = 0 \/ k = 1 \/ k = 2 \/ k = 3 \/ k = 4 \/ k = 5 \/ k = 6 \/ k = 7 \/ k = 8
  OBVIOUS
<1>. DEFINE P(j) == (2 ^ j * Weight(d, m)) % m = Weight(d + j, m)
<1>14. P(0) /\ P(1) /\ P(2) /\ P(3) /\ P(4) /\ P(5) /\ P(6) /\ P(7) /\ P(8)
  BY <1>3, <1>4, <1>5, <1>6, <1>7, <1>8, <1>9, <1>10, <1>11, <1>12
<1>. QED BY <1>13, <1>14, Zenon

\* A shift by n bytes.
LEMMA ShiftedIsWeight ==
  ASSUME NEW m \in Nat, m >= 2, NEW d \in Nat, NEW n \in Nat
  PROVE  C!Shifted(Weight(d, m), n, m) = Weight(d + 8 * n, m)
<1>. DEFINE body == [i \in 1 .. n |-> [y \in Nat |-> (256 * y) % m]]
            Good == {j \in Nat : j <= n => C!Loop(body, Weight(d, m), j) = Weight(d + 8 * j, m)}
<1>1. \A i \in 1 .. n, y \in Nat : body[i][y] = (256 * y) % m
  OBVIOUS
<1>2. C!Shifted(Weight(d, m), n, m) = C!Loop(body, Weight(d, m), n)
  BY DEF C!Shifted
<1>. HIDE DEF body
<1>3. 0 \in Good
  BY LoopSteps
<1>4. ASSUME NEW j \in Nat, j \in Good PROVE j + 1 \in Good
  <2>. SUFFICES ASSUME j + 1 <= n PROVE C!Loop(body, Weight(d, m), j + 1) = Weight(d + 8 * (j + 1), m)
    OBVIOUS
  <2>1. C!Loop(body, Weight(d, m), j + 1) = body[j + 1][Weight(d + 8 * j, m)]
    <3>1. C!Loop(body, Weight(d, m), j) = Weight(d + 8 * j, m)
      BY <1>4
    <3>2. C!Loop(body, Weight(d, m), j + 1) = body[j + 1][C!Loop(body, Weight(d, m), j)]
      BY LoopSteps, ZenonT(30)
    <3>. QED BY <3>1, <3>2
  <2>2. d + 8 * j \in Nat /\ (d + 8 * j) + 8 = d + 8 * (j + 1) /\ j + 1 \in 1 .. n
    OBVIOUS
  <2>3. Weight(d + 8 * j, m) \in Nat
    BY <2>2, WeightSteps
  <2>4. body[j + 1][Weight(d + 8 * j, m)] = (256 * Weight(d + 8 * j, m)) % m
    BY <1>1, <2>2, <2>3
  <2>5. (2 ^ 8 * Weight(d + 8 * j, m)) % m = Weight((d + 8 * j) + 8, m)
    BY <2>2, WeightTimes
  <2>. QED BY <2>1, <2>2, <2>4, <2>5
<1>. HIDE DEF Good
<1>5. Nat \subseteq Good
  BY <1>3, <1>4, Induction
<1>. QED BY <1>2, <1>5 DEF Good

\* A shift by p pages of 64 bytes.
LEMMA PageIsWeight ==
  ASSUME NEW m \in Nat, m >= 2, NEW p \in Nat
  PROVE  C!Loop([i \in 1 .. p |-> [v \in Nat |-> C!Shifted(v, 64, m)]], 1, p) = Weight(512 * p, m)
<1>. DEFINE body == [i \in 1 .. p |-> [v \in Nat |-> C!Shifted(v, 64, m)]]
            Good == {j \in Nat : j <= p => C!Loop(body, 1, j) = Weight(512 * j, m)}
<1>1. \A i \in 1 .. p, v \in Nat : body[i][v] = C!Shifted(v, 64, m)
  OBVIOUS
<1>. HIDE DEF body
<1>2. 0 \in Good
  BY LoopSteps, WeightSteps
<1>3. ASSUME NEW j \in Nat, j \in Good PROVE j + 1 \in Good
  <2>. SUFFICES ASSUME j + 1 <= p PROVE C!Loop(body, 1, j + 1) = Weight(512 * (j + 1), m)
    OBVIOUS
  <2>1. C!Loop(body, 1, j + 1) = body[j + 1][Weight(512 * j, m)]
    <3>1. C!Loop(body, 1, j) = Weight(512 * j, m)
      BY <1>3
    <3>2. C!Loop(body, 1, j + 1) = body[j + 1][C!Loop(body, 1, j)]
      BY LoopSteps, ZenonT(30)
    <3>. QED BY <3>1, <3>2
  <2>2. 512 * j \in Nat /\ 512 * j + 8 * 64 = 512 * (j + 1) /\ j + 1 \in 1 .. p /\ 64 \in Nat
    OBVIOUS
  <2>3. Weight(512 * j, m) \in Nat
    BY <2>2, WeightSteps
  <2>4. body[j + 1][Weight(512 * j, m)] = C!Shifted(Weight(512 * j, m), 64, m)
    BY <1>1, <2>2, <2>3
  <2>5. C!Shifted(Weight(512 * j, m), 64, m) = Weight(512 * j + 8 * 64, m)
    BY <2>2, ShiftedIsWeight
  <2>. QED BY <2>1, <2>2, <2>4, <2>5
<1>. HIDE DEF Good
<1>4. Nat \subseteq Good
  BY <1>2, <1>3, Induction
<1>. QED BY <1>4 DEF Good, body

\* No weight from the second bit on is 1 or -1.
LEMMA Distinguished ==
  ASSUME NEW m \in Nat, m >= 2, NEW bits \in Nat, C!Distinguishes(m, bits), NEW d \in 1 .. bits - 1
  PROVE  Weight(d, m) # 1 /\ Weight(d, m) # m - 1
<1>1. PICK p \in Nat, n \in 0 .. 63, k \in 0 .. 7 : d = 512 * p + 8 * n + k
  <2>1. \E q \in Nat, r \in 0 .. 511 : d = 512 * q + 8 * (r \div 8) + (r % 8) /\ r \div 8 \in 0 .. 63
    <3>1. PICK q \in Nat, r \in 0 .. 511 : d = 512 * q + r
      BY d = 512 * (d \div 512) + (d % 512)
    <3>2. r = 8 * (r \div 8) + (r % 8)
      OBVIOUS
    <3>. QED BY <3>1, <3>2
  <2>. QED BY <2>1
<1>2. p \in 0 .. bits \div 512
  BY <1>1
<1>. DEFINE page == C!Loop([i \in 1 .. p |-> [v \in Nat |-> C!Shifted(v, 64, m)]], 1, p)
<1>3. page = Weight(512 * p, m)
  BY PageIsWeight
<1>4. (2 ^ k * C!Shifted(page, n, m)) % m \notin {1, m - 1}
  <2>. HIDE DEF page
  <2>1. \A j \in 0 .. 63, l \in 0 .. 7 :
          512 * p + 8 * j + l \in 1 .. bits - 1 =>
            (2 ^ l * C!Shifted(page, j, m)) % m \notin {1, m - 1}
    BY <1>2 DEF C!Distinguishes, page
  <2>. QED BY <1>1, <2>1
<1>5. C!Shifted(page, n, m) = Weight(512 * p + 8 * n, m)
  <2>. 512 * p \in Nat /\ n \in Nat
    OBVIOUS
  <2>. QED BY <1>3, ShiftedIsWeight
<1>6. (2 ^ k * Weight(512 * p + 8 * n, m)) % m = Weight(512 * p + 8 * n + k, m)
  <2>1. \A e \in Nat, l \in 0 .. 8 : (2 ^ l * Weight(e, m)) % m = Weight(e + l, m)
    BY WeightTimes
  <2>2. PICK e \in Nat : e = 512 * p + 8 * n
    OBVIOUS
  <2>3. k \in 0 .. 8
    OBVIOUS
  <2>. QED BY <2>1, <2>2, <2>3, ZenonT(30)
<1>. QED BY <1>1, <1>4, <1>5, <1>6

\* An odd modulus: no weight is zero, and doubling keeps weights apart.
LEMMA OddWeights ==
  ASSUME NEW m \in Nat, m >= 3, m % 2 = 1
  PROVE  /\ \A d \in Nat : Weight(d, m) \in 1 .. m - 1
         /\ \A a \in Nat, b \in Nat :
              /\ Weight(a + 1, m) = Weight(b + 1, m) => Weight(a, m) = Weight(b, m)
              /\ Weight(a + 1, m) + Weight(b + 1, m) = m => Weight(a, m) + Weight(b, m) = m
<1>1. PICK h \in Nat : m = 2 * h + 1
  BY m = 2 * (m \div 2) + (m % 2)
<1>2. \A y \in 0 .. m - 1 : (2 * y) % m = IF 2 * y < m THEN 2 * y ELSE 2 * y - m
  <2>. TAKE y \in 0 .. m - 1
  <2>1. CASE 2 * y < m
    BY <2>1
  <2>2. CASE 2 * y >= m
    <3>1. 2 * y - m \in 0 .. m - 1 /\ 2 * y = 2 * y - m + 1 * m
      BY <2>2
    <3>2. Congruent(2 * y, 2 * y - m, m)
      <4>1. 2 * y = (2 * y - m) + 1 * m
        OBVIOUS
      <4>. QED BY <4>1 DEF Congruent
    <3>3. m \in Nat \ {0} /\ 2 * y \in Int /\ 2 * y - m \in Int
      OBVIOUS
    <3>4. (2 * y) % m = (2 * y - m) % m
      BY <3>2, <3>3, RemaindersEqual, Zenon
    <3>5. (2 * y - m) % m = 2 * y - m
      <4>. PICK z \in 0 .. m - 1 : z = 2 * y - m
        BY <3>1
      <4>1. z % m = z
        OBVIOUS
      <4>. QED BY <4>1
    <3>. QED BY <2>2, <3>4, <3>5
  <2>. QED BY <2>1, <2>2
<1>3. \A d \in Nat : /\ Weight(d, m) \in 0 .. m - 1
                     /\ Weight(d + 1, m) = IF 2 * Weight(d, m) < m THEN 2 * Weight(d, m) ELSE 2 * Weight(d, m) - m
  <2>. TAKE d \in Nat
  <2>1. Weight(d, m) \in 0 .. m - 1 /\ Weight(d + 1, m) = (2 * Weight(d, m)) % m
    BY m >= 2, WeightSteps, Zenon
  <2>2. (2 * Weight(d, m)) % m = IF 2 * Weight(d, m) < m THEN 2 * Weight(d, m) ELSE 2 * Weight(d, m) - m
    BY <1>2, <2>1, Zenon
  <2>. QED BY <2>1, <2>2
<1>4. \A d \in Nat : Weight(d, m) \in 1 .. m - 1
  <2>. DEFINE Good == {d \in Nat : Weight(d, m) \in 1 .. m - 1}
  <2>1. 0 \in Good
    BY WeightSteps
  <2>2. ASSUME NEW d \in Nat, d \in Good PROVE d + 1 \in Good
    <3>1. Weight(d, m) \in 1 .. m - 1 /\ d + 1 \in Nat
      BY <2>2
    <3>. QED BY <1>1, <1>3, <3>1
  <2>. HIDE DEF Good
  <2>3. Nat \subseteq Good
    BY <2>1, <2>2, Induction
  <2>. QED BY <2>3 DEF Good
<1>5. ASSUME NEW a \in Nat, NEW b \in Nat
      PROVE  /\ Weight(a + 1, m) = Weight(b + 1, m) => Weight(a, m) = Weight(b, m)
             /\ Weight(a + 1, m) + Weight(b + 1, m) = m => Weight(a, m) + Weight(b, m) = m
  <2>1. PICK g \in 0 .. m - 1, y \in 0 .. m - 1 :
          /\ g = Weight(a, m) /\ Weight(a + 1, m) = IF 2 * g < m THEN 2 * g ELSE 2 * g - m
          /\ y = Weight(b, m) /\ Weight(b + 1, m) = IF 2 * y < m THEN 2 * y ELSE 2 * y - m
    BY <1>3
  <2>2. PICK u \in Int, v \in Int : /\ u = (IF 2 * g < m THEN 2 * g ELSE 2 * g - m) /\ u = Weight(a + 1, m)
                                  /\ v = (IF 2 * y < m THEN 2 * y ELSE 2 * y - m) /\ v = Weight(b + 1, m)
    BY <2>1
  <2>3. (u = v => g = y) /\ (u + v = m => g + y = m)
    <3>. u = 2 * g \/ u = 2 * g - (2 * h + 1)
      BY <1>1, <2>2
    <3>. v = 2 * y \/ v = 2 * y - (2 * h + 1)
      BY <1>1, <2>2
    <3>. g <= 2 * h /\ y <= 2 * h /\ u <= 2 * h /\ v <= 2 * h /\ u >= 0 /\ v >= 0
      BY <1>1, <2>2
    <3>. QED BY <1>1
  <2>. QED BY <2>1, <2>2, <2>3
<1>. QED BY <1>4, <1>5

\* The weights of two of the bits that a modulus distinguishes are different and no inverses.
LEMMA WeightsApart ==
  ASSUME NEW m \in Nat, m >= 3, m % 2 = 1, NEW bits \in Nat, C!Distinguishes(m, bits),
         NEW b \in Nat, NEW d \in 1 .. bits - 1
  PROVE  Weight(b + d, m) # Weight(b, m) /\ Weight(b + d, m) + Weight(b, m) # m
<1>. DEFINE Good == {j \in Nat : Weight(j + d, m) # Weight(j, m) /\ Weight(j + d, m) + Weight(j, m) # m}
<1>1. 0 \in Good
  <2>1. Weight(d, m) # 1 /\ Weight(d, m) # m - 1
    BY Distinguished
  <2>2. Weight(0, m) = 1 /\ Weight(d, m) \in Int /\ 0 + d = d
    BY WeightSteps
  <2>. QED BY <2>1, <2>2
<1>2. ASSUME NEW j \in Nat, j \in Good PROVE j + 1 \in Good
  <2>1. (j + 1) + d = (j + d) + 1 /\ j + d \in Nat
    OBVIOUS
  <2>. QED BY <1>2, <2>1, OddWeights
<1>. HIDE DEF Good
<1>3. Nat \subseteq Good
  BY <1>1, <1>2, Induction
<1>. QED BY <1>3 DEF Good

\* A single error does not vanish modulo an odd modulus.
LEMMA OneError ==
  ASSUME NEW m \in Nat, m >= 3, m % 2 = 1, NEW a \in Nat, NEW e \in {-1, 1}
  PROVE  ~ Congruent(e * Weight(a, m), 0, m)
<1>. PICK v \in 1 .. m - 1 : v = Weight(a, m)
  BY OddWeights
<1>. SUFFICES ASSUME Congruent(e * v, 0, m) PROVE FALSE
  OBVIOUS
<1>1. m \in Nat \ {0} /\ e * v \in Int /\ -m < e * v /\ e * v < m /\ e * v # 0
  OBVIOUS
<1>. QED BY <1>1, SmallMultiple

\* Nor do two errors at a distance it distinguishes.
LEMMA TwoErrors ==
  ASSUME NEW m \in Nat, m >= 3, m % 2 = 1, NEW bits \in Nat, C!Distinguishes(m, bits),
         NEW a \in Nat, NEW b \in Nat, a # b, a - b < bits, b - a < bits,
         NEW e \in {-1, 1}, NEW f \in {-1, 1}
  PROVE  ~ Congruent(e * Weight(a, m) + f * Weight(b, m), 0, m)
<1>1. Weight(a, m) # Weight(b, m) /\ Weight(a, m) + Weight(b, m) # m
  <2>1. CASE a < b
    <3>1. a \in Nat /\ b - a \in 1 .. bits - 1 /\ a + (b - a) = b
      BY <2>1
    <3>2. Weight(a + (b - a), m) # Weight(a, m) /\ Weight(a + (b - a), m) + Weight(a, m) # m
      BY <3>1, WeightsApart
    <3>3. Weight(a, m) \in Int /\ Weight(b, m) \in Int
      BY OddWeights
    <3>. QED BY <3>1, <3>2, <3>3
  <2>2. CASE b < a
    <3>1. b \in Nat /\ a - b \in 1 .. bits - 1 /\ b + (a - b) = a
      BY <2>2
    <3>2. Weight(b + (a - b), m) # Weight(b, m) /\ Weight(b + (a - b), m) + Weight(b, m) # m
      BY <3>1, WeightsApart
    <3>3. Weight(a, m) \in Int /\ Weight(b, m) \in Int
      BY OddWeights
    <3>. QED BY <3>1, <3>2, <3>3
  <2>. QED BY <2>1, <2>2
<1>. PICK v \in 1 .. m - 1, y \in 1 .. m - 1 : v = Weight(a, m) /\ y = Weight(b, m)
  BY OddWeights
<1>. SUFFICES ASSUME Congruent(e * v + f * y, 0, m) PROVE FALSE
  OBVIOUS
<1>2. m \in Nat \ {0} /\ m \in Nat /\ e * v + f * y \in Int /\ 0 \in Int /\ -1 \in Int
  OBVIOUS
<1>3. CASE e = f
  <2>1. Congruent((-1) * (e * v + f * y), (-1) * 0, m)
    BY <1>2, CongruentRules, Zenon
  <2>2. (e = 1 => e * v + f * y = v + y) /\ (e = -1 => (-1) * (e * v + f * y) = v + y) /\ (-1) * 0 = 0
    BY <1>3
  <2>3. Congruent(v + y, 0, m) /\ v + y \in Int /\ 0 < v + y /\ v + y < 2 * m
    BY <2>1, <2>2
  <2>. QED BY <1>1, <1>2, <2>3, SmallMultiple
<1>4. CASE e # f
  <2>1. -m < e * v + f * y /\ e * v + f * y < m /\ e * v + f * y # 0
    BY <1>1, <1>4
  <2>. QED BY <1>2, <2>1, SmallMultiple
<1>. QED BY <1>3, <1>4

-----------------------------------------------------------------------------
(* Checksums: the reduction of a message.                                  *)

\* A sequence of n bytes.
Message(s, n) == n \in Nat \ {0} /\ s \in [1 .. n -> C!Byte] /\ Len(s) = n

\* The worth of a bit of a byte.
LEMMA PowerType ==
  ASSUME NEW k \in 0 .. 7
  PROVE  2 ^ k \in Nat /\ 1 <= 2 ^ k /\ 2 ^ k <= 128
<1>1. /\ 2 ^ 0 = 1 /\ 2 ^ 1 = 2 /\ 2 ^ 2 = 4 /\ 2 ^ 3 = 8 /\ 2 ^ 4 = 16 /\ 2 ^ 5 = 32
      /\ 2 ^ 6 = 64 /\ 2 ^ 7 = 128
  OBVIOUS
<1>. DEFINE W(j) == 2 ^ j \in Nat /\ 1 <= 2 ^ j /\ 2 ^ j <= 128
<1>2. W(0) /\ W(1) /\ W(2) /\ W(3) /\ W(4) /\ W(5) /\ W(6) /\ W(7)
  BY <1>1
<1>3. k = 0 \/ k = 1 \/ k = 2 \/ k = 3 \/ k = 4 \/ k = 5 \/ k = 6 \/ k = 7
  OBVIOUS
<1>4. W(k)
  BY <1>2, <1>3, Zenon
<1>. QED BY <1>4

\* b is v more than a, modulo m.
Exceeds(b, a, v, m) == Congruent(b, a + v, m)

\* A reduction takes in one more byte.
TakeIn(a, v, m) == (256 * a + v) % m

\* What one step of a reduction does to a difference.
LEMMA StepOfDifference ==
  ASSUME NEW m \in Nat \ {0}, NEW a \in Nat, NEW b \in Nat, NEW v \in Int, NEW w \in Int,
         NEW g \in Int, NEW z \in Int, Exceeds(b, a, g, m), Congruent(256 * g + (w - v), z, m)
  PROVE  Exceeds(TakeIn(b, w, m), TakeIn(a, v, m), z, m)
<1>1. PICK P \in Int, Q \in Int, P1 \in Int, B \in Int, Y \in Int :
        P = 256 * b /\ Q = 256 * (a + g) /\ P1 = 256 * a + v /\ B = 256 * b + w /\ Y = 256 * g + (w - v)
  OBVIOUS
<1>2. PICK p \in Int, q \in Int :
        /\ p = B % m /\ Congruent(p, B, m)
        /\ q = P1 % m /\ Congruent(P1, q, m)
  <2>1. B % m \in 0 .. m - 1 /\ Congruent(B % m, B, m) /\ P1 % m \in 0 .. m - 1 /\ Congruent(P1, P1 % m, m)
    BY CongruentRemainder, Zenon
  <2>2. \A j \in 0 .. m - 1 : j \in Int
    OBVIOUS
  <2>. QED BY <2>1, <2>2, Zenon
<1>. m \in Nat /\ 256 \in Int /\ a + g \in Int /\ b \in Int /\ P + w \in Int /\ Q + w \in Int
  OBVIOUS
<1>3. P + w = B /\ Q + w = P1 + Y /\ P1 + Y \in Int /\ P1 + z \in Int /\ q + z \in Int
  BY <1>1
<1>4. Congruent(P, Q, m)
  BY <1>1, CongruentTimes DEF Exceeds
<1>5. Congruent(w, w, m) /\ Congruent(z, z, m) /\ Congruent(P1, P1, m)
  BY CongruentSame
<1>6. Congruent(P + w, Q + w, m)
  BY <1>4, <1>5, CongruentSum
<1>7. Congruent(p, P1 + Y, m)
  BY <1>2, <1>3, <1>6, CongruentChain
<1>8. Congruent(P1 + Y, P1 + z, m)
  BY <1>1, <1>5, CongruentSum
<1>9. Congruent(P1 + z, q + z, m)
  BY <1>2, <1>5, CongruentSum
<1>10. Congruent(p, P1 + z, m)
  BY <1>3, <1>7, <1>8, CongruentChain
<1>11. Congruent(p, q + z, m)
  BY <1>3, <1>9, <1>10, CongruentChain
<1>. QED BY <1>1, <1>2, <1>11 DEF Exceeds, TakeIn

\* An error moves by eight bits with every byte, and starts with its bit.
LEMMA ShiftOfError ==
  ASSUME NEW m \in Nat, m >= 2, NEW e \in {-1, 1}
  PROVE  /\ \A d \in Nat : Congruent(256 * (e * Weight(d, m)), e * Weight(d + 8, m), m)
         /\ \A k \in 0 .. 7 : Congruent(e * 2 ^ k, e * Weight(k, m), m)
<1>. m \in Nat \ {0} /\ m \in Nat /\ e \in Int
  OBVIOUS
<1>1. ASSUME NEW d \in Nat, NEW k \in 0 .. 8, NEW c \in Nat, c = 2 ^ k
      PROVE  Congruent(e * (c * Weight(d, m)), e * Weight(d + k, m), m)
  <2>1. PICK v \in Int : v = Weight(d, m)
    BY WeightSteps
  <2>2. PICK y \in Int : y = Weight(d + k, m)
    BY d + k \in Nat, WeightSteps
  <2>3. (2 ^ k * Weight(d, m)) % m = Weight(d + k, m)
    BY WeightTimes
  <2>4. (c * v) % m = y
    BY <1>1, <2>1, <2>2, <2>3
  <2>5. c * v \in Int
    OBVIOUS
  <2>6. Congruent(c * v, y, m)
    BY <2>4, <2>5, CongruentRemainder
  <2>7. Congruent(e * (c * v), e * y, m)
    BY <2>5, <2>6, CongruentRules, Zenon
  <2>. QED BY <2>1, <2>2, <2>7
<1>2. ASSUME NEW d \in Nat PROVE Congruent(256 * (e * Weight(d, m)), e * Weight(d + 8, m), m)
  <2>1. Congruent(e * (256 * Weight(d, m)), e * Weight(d + 8, m), m)
    <3>. 8 \in 0 .. 8 /\ 256 \in Nat /\ 256 = 2 ^ 8
      OBVIOUS
    <3>. QED BY <1>1
  <2>2. PICK v \in Int : v = Weight(d, m)
    BY WeightSteps
  <2>3. e * (256 * v) = 256 * (e * v)
    OBVIOUS
  <2>. QED BY <2>1, <2>2, <2>3
<1>3. ASSUME NEW k \in 0 .. 7 PROVE Congruent(e * 2 ^ k, e * Weight(k, m), m)
  <2>1. PICK c \in Nat : c = 2 ^ k
    BY PowerType
  <2>2. Weight(0, m) = 1 /\ c * 1 = c /\ 0 + k = k /\ 0 \in Nat /\ k \in 0 .. 8
    BY WeightSteps
  <2>3. Congruent(e * (c * Weight(0, m)), e * Weight(0 + k, m), m)
    BY <1>1, <2>1, <2>2
  <2>. QED BY <2>1, <2>2, <2>3
<1>. QED BY <1>2, <1>3

\* acc holds what a reduction has computed after every byte.
Reduction(acc, s, m, n) ==
  /\ acc \in [0 .. n - 1 -> Nat]
  /\ acc[0] = 255 - s[1] /\ acc[n - 1] = C!Reduce(s, m)
  /\ \A j \in 0 .. n - 2 : acc[j + 1] = TakeIn(acc[j], s[j + 2], m)

\* There is such a function.
LEMMA ReduceSteps ==
  ASSUME NEW m \in Nat \ {0}, NEW n, NEW s, Message(s, n)
  PROVE  \E acc : Reduction(acc, s, m, n)
<1>. n \in Nat \ {0} /\ Len(s) = n /\ n - 1 \in Nat /\ 1 \in 1 .. n /\ s \in [1 .. n -> 0 .. 255] /\ s[1] \in 0 .. 255
  BY DEF Message, C!Byte
<1>1. \A i \in 1 .. n - 1, v \in Nat : 256 * v + s[i + 1] \in Nat
  <2>. TAKE i \in 1 .. n - 1, v \in Nat
  <2>1. PICK q \in 0 .. 255 : q = s[i + 1]
    BY i + 1 \in 1 .. n
  <2>2. 256 * v + q \in Nat
    OBVIOUS
  <2>. QED BY <2>1, <2>2
<1>2. C!Seed(s) = 255 - s[1] /\ C!Seed(s) \in Nat
  <2>1. C!Seed(s) = 255 - s[1]
    BY DEF C!Seed
  <2>2. PICK q \in 0 .. 255 : q = s[1]
    OBVIOUS
  <2>3. 255 - q \in Nat
    OBVIOUS
  <2>. QED BY <2>1, <2>2, <2>3
<1>0. \A w \in Nat : w % m \in Nat
  OBVIOUS
<1>. DEFINE body == [i \in 1 .. n - 1 |-> [sum \in Nat |-> (256 * sum + s[i + 1]) % m]]
<1>3. C!Reduce(s, m) = C!Loop(body, C!Seed(s), n - 1)
  BY DEF C!Reduce
<1>9. \A i \in 1 .. n - 1, v \in Nat : body[i][v] = (256 * v + s[i + 1]) % m
  BY Zenon
<1>. HIDE DEF body
<1>10. \A i \in 1 .. n - 1, v \in Nat : body[i][v] \in Nat
  <2>. TAKE i \in 1 .. n - 1, v \in Nat
  <2>1. 256 * v + s[i + 1] \in Nat
    BY <1>1
  <2>2. (256 * v + s[i + 1]) % m \in Nat
    BY <1>0, <2>1, Zenon
  <2>3. body[i][v] = (256 * v + s[i + 1]) % m
    BY <1>9
  <2>. QED BY <2>2, <2>3, Zenon
<1>4. \A j \in 0 .. n - 1 : C!Loop(body, C!Seed(s), j) \in Nat
  <2>. n - 1 \in Nat /\ C!Seed(s) \in Nat /\ \A i \in 1 .. n - 1, v \in Nat : body[i][v] \in Nat
    BY <1>2, <1>10
  <2>. QED BY LoopType, Zenon
<1>5. /\ C!Loop(body, C!Seed(s), 0) = C!Seed(s)
      /\ \A j \in Nat : C!Loop(body, C!Seed(s), j + 1) = body[j + 1][C!Loop(body, C!Seed(s), j)]
  BY LoopSteps, ZenonT(30)
<1>. DEFINE acc == [j \in 0 .. n - 1 |-> C!Loop(body, C!Seed(s), j)]
<1>6. acc \in [0 .. n - 1 -> Nat] /\ \A j \in 0 .. n - 1 : acc[j] = C!Loop(body, C!Seed(s), j)
  BY <1>4
<1>. HIDE DEF acc
<1>7. acc[0] = 255 - s[1] /\ acc[n - 1] = C!Reduce(s, m)
  BY <1>2, <1>3, <1>5, <1>6
<1>8. ASSUME NEW j \in 0 .. n - 2 PROVE acc[j + 1] = (256 * acc[j] + s[j + 2]) % m
  <2>1. j \in Nat /\ j \in 0 .. n - 1 /\ j + 1 \in 0 .. n - 1 /\ j + 1 \in 1 .. n - 1 /\ (j + 1) + 1 = j + 2
    OBVIOUS
  <2>2. acc[j + 1] = body[j + 1][acc[j]] /\ acc[j] \in Nat
    BY <1>5, <1>6, <2>1
  <2>3. body[j + 1][acc[j]] = (256 * acc[j] + s[(j + 1) + 1]) % m
    BY <1>9, <2>1, <2>2, ZenonT(30)
  <2>. QED BY <2>1, <2>2, <2>3, Zenon
<1>11. Reduction(acc, s, m, n)
  BY <1>6, <1>7, <1>8, Zenon DEF Reduction, TakeIn
<1>. QED BY <1>11, Zenon

\* An error in bit k of the byte i of n weighs as much as its distance from the end tells.
LEMMA ReduceOfError ==
  ASSUME NEW m \in Nat, m >= 2, NEW n, NEW s, NEW t, Message(s, n), Message(t, n),
         NEW i \in 1 .. n, NEW k \in 0 .. 7, NEW e \in {-1, 1}, t[i] = s[i] + e * 2 ^ k,
         \A j \in 1 .. n : j # i => t[j] = s[j]
  PROVE  \E f \in {-1, 1} : Congruent(C!Reduce(t, m), C!Reduce(s, m) + f * Weight(8 * (n - i) + k, m), m)
<1>. n \in Nat \ {0} /\ n - 1 \in Nat /\ m \in Nat \ {0}
  BY DEF Message
<1>0. \A j \in 0 .. 255 : j \in Int
  OBVIOUS
<1>4. \A j \in 1 .. n : s[j] \in Int /\ t[j] \in Int
  <2>1. s \in [1 .. n -> 0 .. 255] /\ t \in [1 .. n -> 0 .. 255]
    BY DEF Message, C!Byte
  <2>2. \A j \in 1 .. n : s[j] \in 0 .. 255 /\ t[j] \in 0 .. 255
    BY <2>1
  <2>. QED BY <1>0, <2>2, Zenon
<1>1. PICK P1 : Reduction(P1, s, m, n)
  BY ReduceSteps
<1>2. PICK B : Reduction(B, t, m, n)
  BY ReduceSteps
<1>. DEFINE f == IF i = 1 THEN -e ELSE e
            B1(j) == IF j + 1 < i THEN 0 ELSE f * Weight(8 * (j + 1 - i) + k, m)
            Good == {j \in Nat : j <= n - 1 => Exceeds(B[j], P1[j], B1(j), m)}
<1>3. f \in {-1, 1} /\ f \in Int
  OBVIOUS
<1>5. \A j \in 0 .. n - 1 : P1[j] \in Nat /\ B[j] \in Nat
  BY <1>1, <1>2 DEF Reduction
<1>6. /\ \A d \in Nat : Congruent(256 * (f * Weight(d, m)), f * Weight(d + 8, m), m)
      /\ Congruent(f * 2 ^ k, f * Weight(k, m), m)
  <2>. HIDE DEF f
  <2>. QED BY <1>3, ShiftOfError, ZenonT(30)
<1>7. PICK c \in Int : c = 2 ^ k
  BY PowerType
<1>8. \A d \in Nat : f * Weight(d, m) \in Int
  <2>. TAKE d \in Nat
  <2>. PICK v \in Int : v = Weight(d, m)
    BY WeightSteps
  <2>. QED OBVIOUS
<1>9. \A j \in Nat : B1(j) \in Int
  <2>. TAKE j \in Nat
  <2>1. CASE j + 1 < i
    BY <2>1
  <2>2. CASE ~ (j + 1 < i)
    <3>1. 8 * (j + 1 - i) + k \in Nat
      BY <2>2
    <3>2. B1(j) = f * Weight(8 * (j + 1 - i) + k, m)
      BY <2>2
    <3>. QED BY <1>8, <3>1, <3>2
  <2>. QED BY <2>1, <2>2
<1>10. 0 \in Good
  <2>. SUFFICES Congruent(B[0], P1[0] + B1(0), m)
    BY DEF Exceeds
  <2>1. P1[0] = 255 - s[1] /\ B[0] = 255 - t[1] /\ P1[0] \in Int /\ B[0] \in Int
    BY <1>1, <1>2, <1>5 DEF Reduction
  <2>2. CASE i = 1
    <3>1. 8 * (0 + 1 - i) + k = k
      BY <2>2
    <3>2. B1(0) = f * Weight(k, m) /\ k \in Nat /\ B1(0) \in Int
      BY <1>9, <2>2, <3>1
    <3>3. B[0] = P1[0] + f * c /\ f * c \in Int
      BY <1>4, <1>7, <2>1, <2>2
    <3>. HIDE DEF B1, f
    <3>4. Congruent(f * c, B1(0), m)
      BY <1>6, <1>7, <3>2
    <3>5. Congruent(P1[0], P1[0], m)
      BY <2>1, CongruentSame
    <3>6. Congruent(P1[0] + f * c, P1[0] + B1(0), m)
      BY <2>1, <3>2, <3>3, <3>4, <3>5, CongruentSum
    <3>. QED BY <3>3, <3>6
  <2>3. CASE i # 1
    <3>1. B1(0) = 0 /\ t[1] = s[1] /\ P1[0] + 0 = P1[0]
      BY <2>1, <2>3
    <3>. QED BY <2>1, <3>1, CongruentSame
  <2>. QED BY <2>2, <2>3
<1>11. ASSUME NEW j \in Nat, j \in Good PROVE j + 1 \in Good
  <2>. SUFFICES ASSUME j + 1 <= n - 1 PROVE Exceeds(B[j + 1], P1[j + 1], B1(j + 1), m)
    OBVIOUS
  <2>1. j \in 0 .. n - 1 /\ j \in 0 .. n - 2 /\ j + 2 \in 1 .. n /\ j + 1 \in Nat
    OBVIOUS
  <2>2. Exceeds(B[j], P1[j], B1(j), m)
    BY <1>11, <2>1
  <2>3. /\ P1[j] \in Nat /\ B[j] \in Nat /\ s[j + 2] \in Int /\ t[j + 2] \in Int
        /\ B1(j) \in Int /\ B1(j + 1) \in Int
    BY <1>4, <1>5, <1>9, <2>1
  <2>4. P1[j + 1] = TakeIn(P1[j], s[j + 2], m) /\ B[j + 1] = TakeIn(B[j], t[j + 2], m)
    BY <1>1, <1>2, <2>1 DEF Reduction
  <2>5. Congruent(256 * B1(j) + (t[j + 2] - s[j + 2]), B1(j + 1), m)
    <3>1. CASE j + 2 < i
      <4>1. B1(j) = 0 /\ B1(j + 1) = 0 /\ 256 * 0 + (t[j + 2] - s[j + 2]) = 0
        BY <2>1, <2>3, <3>1
      <4>2. Congruent(0, 0, m)
        BY CongruentSame
      <4>. QED BY <4>1, <4>2
    <3>2. CASE j + 2 = i
      <4>1. 8 * ((j + 1) + 1 - i) + k = k /\ k \in Nat
        BY <3>2
      <4>2. B1(j) = 0 /\ B1(j + 1) = f * Weight(k, m) /\ f = e
        BY <3>2, <4>1
      <4>3. 256 * 0 + (t[j + 2] - s[j + 2]) = e * c
        BY <1>4, <1>7, <3>2
      <4>. HIDE DEF f, B1
      <4>. QED BY <1>6, <1>7, <4>2, <4>3
    <3>3. CASE j + 2 > i
      <4>. DEFINE d == 8 * (j + 1 - i) + k
      <4>1. d \in Nat /\ 8 * ((j + 1) + 1 - i) + k = d + 8
        BY <3>3
      <4>2. B1(j) = f * Weight(d, m) /\ B1(j + 1) = f * Weight(d + 8, m)
        BY <3>3, <4>1
      <4>3. t[j + 2] = s[j + 2]
        BY <2>1, <3>3
      <4>. HIDE DEF f, B1, d
      <4>4. 256 * B1(j) + (t[j + 2] - s[j + 2]) = 256 * B1(j)
        BY <2>3, <4>3
      <4>. QED BY <1>6, <4>1, <4>2, <4>4
    <3>. QED BY <3>1, <3>2, <3>3
  <2>. HIDE DEF B1
  <2>6. Exceeds(TakeIn(B[j], t[j + 2], m), TakeIn(P1[j], s[j + 2], m), B1(j + 1), m)
    BY <2>2, <2>3, <2>5, StepOfDifference
  <2>. QED BY <2>4, <2>6
<1>. HIDE DEF Good
<1>12. Nat \subseteq Good
  BY <1>10, <1>11, Induction
<1>13. Exceeds(B[n - 1], P1[n - 1], B1(n - 1), m)
  BY <1>12 DEF Good
<1>14. B1(n - 1) = f * Weight(8 * (n - i) + k, m)
  OBVIOUS
<1>15. P1[n - 1] = C!Reduce(s, m) /\ B[n - 1] = C!Reduce(t, m)
  BY <1>1, <1>2 DEF Reduction
<1>. HIDE DEF f, B1
<1>. QED BY <1>3, <1>13, <1>14, <1>15 DEF Exceeds

-----------------------------------------------------------------------------
(* Checksums: what errors do on the wire.                                  *)

\* The errors in byte i, and what becomes of a byte b there, a message and a checksum of n bytes.
ErrorsOf(i, E) == {k \in 0 .. 7 : 8 * (i - 1) + k \in E}
ByteOnWire(b, i, E) == C!ByteOf(SymDiff(C!Bits(b), ErrorsOf(i, E)))
OnWire(s, E) == [i \in DOMAIN s |-> ByteOnWire(s[i], i, E)]
CheckOnWire(c, n, E) == ByteOnWire(c % 256, n + 1, E) + 256 * ByteOnWire(c \div 256, n + 2, E)

\* A byte stays one, and as it is if there are no errors in it.
LEMMA ByteKept ==
  ASSUME NEW b \in C!Byte, NEW i \in Nat \ {0}, NEW E
  PROVE  /\ ByteOnWire(b, i, E) \in C!Byte
         /\ (\A k \in 0 .. 7 : 8 * (i - 1) + k \notin E) => ByteOnWire(b, i, E) = b
<1>1. C!Bits(b) \in SUBSET (0 .. 7) /\ C!ByteOf(C!Bits(b)) = b
  BY ValueOfBits
<1>2. SymDiff(C!Bits(b), ErrorsOf(i, E)) \in SUBSET (0 .. 7)
  BY <1>1 DEF SymDiff, ErrorsOf
<1>3. ASSUME \A k \in 0 .. 7 : 8 * (i - 1) + k \notin E PROVE ByteOnWire(b, i, E) = b
  <2>1. ErrorsOf(i, E) = {}
    BY <1>3 DEF ErrorsOf
  <2>2. SymDiff(C!Bits(b), {}) = C!Bits(b)
    BY <1>1 DEF SymDiff
  <2>. QED BY <1>1, <2>1, <2>2 DEF ByteOnWire
<1>. QED BY <1>2, <1>3, BitsOfValue DEF ByteOnWire

\* An error elsewhere does not change it.
LEMMA ByteMissed ==
  ASSUME NEW b, NEW i \in Nat \ {0}, NEW E, NEW p \in Nat, p \div 8 # i - 1
  PROVE  ByteOnWire(b, i, E \cup {p}) = ByteOnWire(b, i, E)
<1>1. \A k \in 0 .. 7 : 8 * (i - 1) + k # p
  OBVIOUS
<1>2. ErrorsOf(i, E \cup {p}) = ErrorsOf(i, E)
  BY <1>1 DEF ErrorsOf
<1>. QED BY <1>2 DEF ByteOnWire

\* The number of bit k of byte i, and y as x with bit k inverted.
IsBit(p, i, k) == k \in 0 .. 7 /\ p = 8 * (i - 1) + k
Inverted(y, v, k) == C!Bits(y) = SymDiff(C!Bits(v), {k}) /\ \E e \in {-1, 1} : y = v + e * 2 ^ k

\* One more error inverts a bit.
LEMMA ByteHit ==
  ASSUME NEW b \in C!Byte, NEW i \in Nat \ {0}, NEW E, NEW p \in Nat, p \notin E, NEW k, IsBit(p, i, k)
  PROVE  Inverted(ByteOnWire(b, i, E \cup {p}), ByteOnWire(b, i, E), k)
<1>. DEFINE w == SymDiff(C!Bits(b), ErrorsOf(i, E))
            u == SymDiff(C!Bits(b), ErrorsOf(i, E \cup {p}))
<1>1. C!Bits(b) \in SUBSET (0 .. 7)
  BY ValueOfBits
<1>2. w \in SUBSET (0 .. 7) /\ u \in SUBSET (0 .. 7)
  BY <1>1 DEF SymDiff, ErrorsOf
<1>3. ByteOnWire(b, i, E) = C!ByteOf(w) /\ ByteOnWire(b, i, E \cup {p}) = C!ByteOf(u)
  BY DEF ByteOnWire
<1>4. C!Bits(C!ByteOf(w)) = w /\ C!Bits(C!ByteOf(u)) = u
  BY <1>2, BitsOfValue
<1>5. k \in 0 .. 7 /\ p = 8 * (i - 1) + k
  BY DEF IsBit
<1>6. ErrorsOf(i, E \cup {p}) = ErrorsOf(i, E) \cup {k} /\ k \notin ErrorsOf(i, E)
  BY <1>5 DEF ErrorsOf
<1>7. u = SymDiff(w, {k})
  BY <1>6 DEF SymDiff
<1>. HIDE DEF u, w
<1>8. \E e \in {-1, 1} : C!ByteOf(SymDiff(w, {k})) = C!ByteOf(w) + e * 2 ^ k
  BY <1>2, <1>5, ValueOfFlip
<1>. QED BY <1>3, <1>4, <1>7, <1>8 DEF Inverted

\* t is s but for bit k of byte i.
Changed(s, t, n, i, k) ==
  /\ Message(s, n) /\ Message(t, n) /\ i \in 1 .. n /\ k \in 0 .. 7
  /\ Inverted(t[i], s[i], k)
  /\ \A j \in 1 .. n : j # i => t[j] = s[j]

\* A message stays one, as it is if there are no errors, and one more error changes a bit.
LEMMA MessageOfError ==
  ASSUME NEW n, NEW s, Message(s, n), NEW E, NEW p \in Nat, p \notin E
  PROVE  /\ Message(OnWire(s, E), n)
         /\ (\A q \in 0 .. 8 * n - 1 : q \notin E) => OnWire(s, E) = s
         /\ p < 8 * n => Changed(OnWire(s, E), OnWire(s, E \cup {p}), n, (p \div 8) + 1, p % 8)
         /\ p >= 8 * n => OnWire(s, E \cup {p}) = OnWire(s, E)
<1>. n \in Nat \ {0} /\ s \in [1 .. n -> C!Byte] /\ DOMAIN s = 1 .. n
  BY DEF Message
<1>1. ASSUME NEW H PROVE Message(OnWire(s, H), n) /\ \A i \in 1 .. n : OnWire(s, H)[i] = ByteOnWire(s[i], i, H)
  <2>1. \A i \in 1 .. n : ByteOnWire(s[i], i, H) \in C!Byte
    <3>. TAKE i \in 1 .. n
    <3>1. s[i] \in C!Byte /\ i \in Nat \ {0}
      OBVIOUS
    <3>2. C!Bits(s[i]) \in SUBSET (0 .. 7)
      BY <3>1, ValueOfBits
    <3>3. SymDiff(C!Bits(s[i]), ErrorsOf(i, H)) \in SUBSET (0 .. 7)
      BY <3>2 DEF SymDiff, ErrorsOf
    <3>. QED BY <3>3, BitsOfValue DEF ByteOnWire
  <2>2. OnWire(s, H) \in [1 .. n -> C!Byte] /\ \A i \in 1 .. n : OnWire(s, H)[i] = ByteOnWire(s[i], i, H)
    BY <2>1 DEF OnWire
  <2>3. Len(OnWire(s, H)) = n
    BY <2>2
  <2>. QED BY <2>2, <2>3 DEF Message
<1>2. ASSUME \A q \in 0 .. 8 * n - 1 : q \notin E PROVE OnWire(s, E) = s
  <2>1. ASSUME NEW i \in 1 .. n PROVE OnWire(s, E)[i] = s[i]
    <3>1. \A k \in 0 .. 7 : 8 * (i - 1) + k \in 0 .. 8 * n - 1
      OBVIOUS
    <3>2. \A k \in 0 .. 7 : 8 * (i - 1) + k \notin E
      BY <1>2, <3>1
    <3>3. ByteOnWire(s[i], i, E) = s[i]
      BY i \in Nat \ {0}, s[i] \in C!Byte, <3>2, ByteKept
    <3>. QED BY <1>1, <3>3
  <2>. QED BY <1>1, <2>1 DEF Message
<1>3. ASSUME p < 8 * n
      PROVE  Changed(OnWire(s, E), OnWire(s, E \cup {p}), n, (p \div 8) + 1, p % 8)
  <2>. DEFINE i == (p \div 8) + 1
  <2>1. i \in 1 .. n /\ p \div 8 = i - 1 /\ p % 8 \in 0 .. 7 /\ \A j \in 1 .. n : j # i => p \div 8 # j - 1
    BY <1>3
  <2>. HIDE DEF i
  <2>2. \A j \in 1 .. n : s[j] \in C!Byte /\ j \in Nat \ {0}
    OBVIOUS
  <2>3. Inverted(ByteOnWire(s[i], i, E \cup {p}), ByteOnWire(s[i], i, E), p % 8)
    <3>. p = 8 * (i - 1) + (p % 8)
      BY <2>1
    <3>1. IsBit(p, i, p % 8)
      BY <2>1 DEF IsBit
    <3>. PICK k : k = p % 8
      OBVIOUS
    <3>2. Inverted(ByteOnWire(s[i], i, E \cup {p}), ByteOnWire(s[i], i, E), k)
      BY <2>1, <2>2, <3>1, ByteHit
    <3>. QED BY <3>2
  <2>4. \A j \in 1 .. n : j # i => ByteOnWire(s[j], j, E \cup {p}) = ByteOnWire(s[j], j, E)
    BY <2>1, <2>2, ByteMissed
  <2>5. Changed(OnWire(s, E), OnWire(s, E \cup {p}), n, i, p % 8)
    BY <1>1, <2>1, <2>3, <2>4 DEF Changed
  <2>. QED BY <2>5 DEF i
<1>4. ASSUME p >= 8 * n PROVE OnWire(s, E \cup {p}) = OnWire(s, E)
  <2>1. \A j \in 1 .. n : p \div 8 # j - 1 /\ s[j] \in C!Byte /\ j \in Nat \ {0}
    BY <1>4
  <2>2. \A j \in 1 .. n : ByteOnWire(s[j], j, E \cup {p}) = ByteOnWire(s[j], j, E)
    BY <2>1, ByteMissed
  <2>. QED BY <2>2 DEF OnWire
<1>. QED BY <1>1, <1>2, <1>3, <1>4

\* What an error in bit q of a checksum is worth.
Worth(q) == IF q < 8 THEN 2 ^ q ELSE 256 * 2 ^ (q - 8)

\* A checksum stays as it is if there are no errors, and an error adds or takes away its worth.
LEMMA CheckOfError ==
  ASSUME NEW n \in Nat \ {0}, NEW c \in Nat, c \div 256 < 256, NEW E, NEW p \in Nat, p \notin E
  PROVE  /\ CheckOnWire(c, n, E) \in Nat
         /\ (\A q \in 0 .. 15 : 8 * n + q \notin E) => CheckOnWire(c, n, E) = c
         /\ p < 8 * n => CheckOnWire(c, n, E \cup {p}) = CheckOnWire(c, n, E)
         /\ \A q \in 0 .. 15 : p = 8 * n + q =>
              \E e \in {-1, 1} : CheckOnWire(c, n, E \cup {p}) = CheckOnWire(c, n, E) + e * Worth(q)
<1>. DEFINE lo == c % 256
            hi == c \div 256
<1>1. lo + 256 * hi = c
  OBVIOUS
<1>0. lo \in C!Byte /\ hi \in C!Byte
  <2>1. lo \in 0 .. 255
    OBVIOUS
  <2>2. hi \in 0 .. 255
    OBVIOUS
  <2>. QED BY <2>1, <2>2 DEF C!Byte
<1>. n + 1 \in Nat \ {0} /\ n + 2 \in Nat \ {0}
  OBVIOUS
<1>2. \A H : CheckOnWire(c, n, H) = ByteOnWire(lo, n + 1, H) + 256 * ByteOnWire(hi, n + 2, H)
  BY DEF CheckOnWire
<1>. HIDE DEF lo, hi
<1>3. /\ ByteOnWire(lo, n + 1, E) \in C!Byte /\ ByteOnWire(hi, n + 2, E) \in C!Byte
      /\ (\A k \in 0 .. 7 : 8 * n + k \notin E) => ByteOnWire(lo, n + 1, E) = lo
      /\ (\A k \in 0 .. 7 : 8 * (n + 1) + k \notin E) => ByteOnWire(hi, n + 2, E) = hi
      /\ p \div 8 # n => ByteOnWire(lo, n + 1, E \cup {p}) = ByteOnWire(lo, n + 1, E)
      /\ p \div 8 # n + 1 => ByteOnWire(hi, n + 2, E \cup {p}) = ByteOnWire(hi, n + 2, E)
  <2>1. /\ \A k \in 0 .. 7 : 8 * ((n + 1) - 1) + k = 8 * n + k /\ 8 * ((n + 2) - 1) + k = 8 * (n + 1) + k
        /\ (n + 1) - 1 = n /\ (n + 2) - 1 = n + 1
    OBVIOUS
  <2>2. /\ ByteOnWire(lo, n + 1, E) \in C!Byte
        /\ (\A k \in 0 .. 7 : 8 * n + k \notin E) => ByteOnWire(lo, n + 1, E) = lo
    BY <1>0, <2>1, ByteKept
  <2>3. /\ ByteOnWire(hi, n + 2, E) \in C!Byte
        /\ (\A k \in 0 .. 7 : 8 * (n + 1) + k \notin E) => ByteOnWire(hi, n + 2, E) = hi
    BY <1>0, <2>1, ByteKept
  <2>4. p \div 8 # n => ByteOnWire(lo, n + 1, E \cup {p}) = ByteOnWire(lo, n + 1, E)
    BY <2>1, ByteMissed
  <2>5. p \div 8 # n + 1 => ByteOnWire(hi, n + 2, E \cup {p}) = ByteOnWire(hi, n + 2, E)
    BY <2>1, ByteMissed
  <2>. QED BY <2>2, <2>3, <2>4, <2>5
<1>4. PICK v \in Nat, y \in Nat : v = ByteOnWire(lo, n + 1, E) /\ y = ByteOnWire(hi, n + 2, E)
  <2>. C!Byte \subseteq Nat
    BY DEF C!Byte
  <2>. QED BY <1>3
<1>5. CheckOnWire(c, n, E) = v + 256 * y
  BY <1>2, <1>4
<1>6. ASSUME \A q \in 0 .. 15 : 8 * n + q \notin E PROVE CheckOnWire(c, n, E) = c
  <2>1. \A k \in 0 .. 7 : k \in 0 .. 15 /\ k + 8 \in 0 .. 15 /\ 8 * (n + 1) + k = 8 * n + (k + 8)
    OBVIOUS
  <2>2. \A k \in 0 .. 7 : 8 * n + k \notin E /\ 8 * (n + 1) + k \notin E
    BY <1>6, <2>1
  <2>. QED BY <1>1, <1>2, <1>3, <2>2
<1>7. ASSUME p < 8 * n PROVE CheckOnWire(c, n, E \cup {p}) = CheckOnWire(c, n, E)
  <2>1. p \div 8 # n /\ p \div 8 # n + 1
    BY <1>7
  <2>. QED BY <1>2, <1>3, <2>1
<1>8. ASSUME NEW q \in 0 .. 15, p = 8 * n + q
      PROVE  \E e \in {-1, 1} : CheckOnWire(c, n, E \cup {p}) = CheckOnWire(c, n, E) + e * Worth(q)
  <2>1. CASE q < 8
    <3>1. p \div 8 # n + 1 /\ q \in 0 .. 7
      BY <1>8, <2>1
    <3>2. IsBit(p, n + 1, q)
      BY <1>8, <3>1 DEF IsBit
    <3>3. Inverted(ByteOnWire(lo, n + 1, E \cup {p}), ByteOnWire(lo, n + 1, E), q)
      BY <1>0, <3>2, ByteHit
    <3>4. PICK w \in Nat : w = 2 ^ q
      BY <3>1, PowerType
    <3>5. PICK e \in {-1, 1} : ByteOnWire(lo, n + 1, E \cup {p}) = v + e * w
      BY <1>4, <3>3, <3>4 DEF Inverted
    <3>6. CheckOnWire(c, n, E \cup {p}) = (v + e * w) + 256 * y
      BY <1>2, <1>3, <1>4, <3>1, <3>5
    <3>7. (v + e * w) + 256 * y = (v + 256 * y) + e * w
      OBVIOUS
    <3>8. Worth(q) = w
      BY <2>1, <3>4 DEF Worth
    <3>. QED BY <1>5, <3>6, <3>7, <3>8
  <2>2. CASE q >= 8
    <3>1. p \div 8 # n /\ q - 8 \in 0 .. 7
      BY <1>8, <2>2
    <3>2. IsBit(p, n + 2, q - 8)
      BY <1>8, <3>1 DEF IsBit
    <3>3. Inverted(ByteOnWire(hi, n + 2, E \cup {p}), ByteOnWire(hi, n + 2, E), q - 8)
      BY <1>0, <3>2, ByteHit
    <3>4. PICK w \in Nat : w = 2 ^ (q - 8)
      BY <3>1, PowerType
    <3>5. PICK e \in {-1, 1} : ByteOnWire(hi, n + 2, E \cup {p}) = y + e * w
      BY <1>4, <3>3, <3>4 DEF Inverted
    <3>6. CheckOnWire(c, n, E \cup {p}) = v + 256 * (y + e * w)
      BY <1>2, <1>3, <1>4, <3>1, <3>5
    <3>7. v + 256 * (y + e * w) = (v + 256 * y) + e * (256 * w)
      OBVIOUS
    <3>8. Worth(q) = 256 * w
      BY <2>2, <3>4 DEF Worth
    <3>. QED BY <1>5, <3>6, <3>7, <3>8
  <2>. QED BY <2>1, <2>2
<1>. QED BY <1>4, <1>5, <1>6, <1>7, <1>8

-----------------------------------------------------------------------------
(* Checksums: the sums of Koopman.                                         *)

\* The sum of a message, shifted by one byte or by two, w bits, and what a bit of it weighs.
Sum(s, m, w) ==
  IF w = 8 THEN TakeIn(C!Reduce(s, m), 0, m) ELSE TakeIn(TakeIn(C!Reduce(s, m), 0, m), 0, m)

\* The type of a sum.
LEMMA SumType ==
  ASSUME NEW m \in Nat \ {0}, NEW n, NEW s, Message(s, n), NEW w \in {8, 16}
  PROVE  C!Reduce(s, m) \in Nat /\ Sum(s, m, w) \in 0 .. m - 1
<1>. n \in Nat \ {0}
  BY DEF Message
<1>1. PICK acc : Reduction(acc, s, m, n)
  BY ReduceSteps
<1>2. C!Reduce(s, m) \in Nat
  BY <1>1 DEF Reduction
<1>3. \A a \in Nat : TakeIn(a, 0, m) \in 0 .. m - 1
  <2>. TAKE a \in Nat
  <2>. PICK b \in Nat : b = 256 * a + 0
    OBVIOUS
  <2>1. b % m \in 0 .. m - 1
    OBVIOUS
  <2>. QED BY <2>1 DEF TakeIn
<1>. QED BY <1>2, <1>3 DEF Sum

\* A shift of a difference by one byte.
LEMMA ShiftOfDifference ==
  ASSUME NEW m \in Nat, m >= 2, NEW a \in Nat, NEW b \in Nat, NEW f \in {-1, 1}, NEW d \in Nat,
         Exceeds(b, a, f * Weight(d, m), m)
  PROVE  Exceeds(TakeIn(b, 0, m), TakeIn(a, 0, m), f * Weight(d + 8, m), m)
<1>. PICK v \in Int : v = f * Weight(d, m)
  BY WeightSteps
<1>. PICK z \in Int : z = f * Weight(d + 8, m)
  BY d + 8 \in Nat, WeightSteps
<1>1. Congruent(256 * v, z, m)
  BY ShiftOfError
<1>2. 256 * v + (0 - 0) = 256 * v /\ 0 \in Int /\ m \in Nat \ {0}
  OBVIOUS
<1>3. Congruent(256 * v + (0 - 0), z, m) /\ Exceeds(b, a, v, m)
  BY <1>1, <1>2
<1>4. Exceeds(TakeIn(b, 0, m), TakeIn(a, 0, m), z, m)
  BY <1>2, <1>3, StepOfDifference
<1>. QED BY <1>4

\* What the change of a bit does to the sum.
LEMMA SumOfChange ==
  ASSUME NEW m \in Nat, m >= 2, NEW n, NEW s, NEW t, NEW i, NEW k, Changed(s, t, n, i, k), NEW w \in {8, 16}
  PROVE  \E f \in {-1, 1} : Exceeds(Sum(t, m, w), Sum(s, m, w), f * Weight(8 * (n - i) + k + w, m), m)
<1>1. /\ Message(s, n) /\ Message(t, n) /\ n \in Nat \ {0} /\ i \in 1 .. n /\ k \in 0 .. 7
      /\ \A j \in 1 .. n : j # i => t[j] = s[j]
  BY DEF Changed, Message
<1>2. PICK e \in {-1, 1} : t[i] = s[i] + e * 2 ^ k
  BY DEF Changed, Inverted
<1>3. PICK f \in {-1, 1} : Congruent(C!Reduce(t, m), C!Reduce(s, m) + f * Weight(8 * (n - i) + k, m), m)
  BY <1>1, <1>2, ReduceOfError
<1>. PICK d \in Nat : d = 8 * (n - i) + k
  BY <1>1
<1>. PICK a \in Nat, b \in Nat : a = C!Reduce(s, m) /\ b = C!Reduce(t, m)
  BY <1>1, m \in Nat \ {0}, SumType
<1>4. Exceeds(b, a, f * Weight(d, m), m)
  BY <1>3 DEF Exceeds
<1>5. Exceeds(TakeIn(b, 0, m), TakeIn(a, 0, m), f * Weight(d + 8, m), m)
  BY <1>4, ShiftOfDifference
<1>6. CASE w = 8
  BY <1>5, <1>6 DEF Sum
<1>7. CASE w = 16
  <2>1. TakeIn(a, 0, m) \in Nat /\ TakeIn(b, 0, m) \in Nat
    <3>1. Sum(s, m, 8) = TakeIn(a, 0, m) /\ Sum(t, m, 8) = TakeIn(b, 0, m)
      BY DEF Sum
    <3>2. Sum(s, m, 8) \in 0 .. m - 1 /\ Sum(t, m, 8) \in 0 .. m - 1
      BY <1>1, m \in Nat \ {0}, SumType
    <3>. QED BY <3>1, <3>2
  <2>2. Exceeds(TakeIn(TakeIn(b, 0, m), 0, m), TakeIn(TakeIn(a, 0, m), 0, m), f * Weight((d + 8) + 8, m), m)
    BY <1>5, <2>1, d + 8 \in Nat, ShiftOfDifference
  <2>3. (d + 8) + 8 = 8 * (n - i) + k + w
    BY <1>7
  <2>. QED BY <1>7, <2>2, <2>3 DEF Sum
<1>. QED BY <1>6, <1>7

\* The worth of the bits of a checksum.
LEMMA WorthOfBit ==
  ASSUME NEW q \in 0 .. 15
  PROVE  /\ Worth(q) \in Nat /\ Worth(q) >= 1 /\ (q >= 8 => Worth(q) >= 256)
         /\ Worth(0) = 1 /\ (q # 0 => Worth(q) % 2 = 0)
         /\ \A r \in 0 .. 15 : q # r => Worth(q) # Worth(r)
         /\ \A m \in Nat, e \in {-1, 1} : m >= 2 => Congruent(e * Worth(q), e * Weight(q, m), m)
<1>1. /\ Worth(0) = 1 /\ Worth(1) = 2 /\ Worth(2) = 4 /\ Worth(3) = 8 /\ Worth(4) = 16
      /\ Worth(5) = 32 /\ Worth(6) = 64 /\ Worth(7) = 128 /\ Worth(8) = 256 /\ Worth(9) = 512
      /\ Worth(10) = 1024 /\ Worth(11) = 2048 /\ Worth(12) = 4096 /\ Worth(13) = 8192
      /\ Worth(14) = 16384 /\ Worth(15) = 32768
  BY DEF Worth
<1>2. ASSUME NEW r \in 0 .. 15 PROVE \/ r = 0 \/ r = 1 \/ r = 2 \/ r = 3 \/ r = 4 \/ r = 5 \/ r = 6 \/ r = 7
                                     \/ r = 8 \/ r = 9 \/ r = 10 \/ r = 11 \/ r = 12 \/ r = 13 \/ r = 14 \/ r = 15
  OBVIOUS
<1>3. /\ Worth(q) \in Nat /\ Worth(q) >= 1 /\ (q >= 8 => Worth(q) >= 256)
      /\ Worth(0) = 1 /\ (q # 0 => Worth(q) % 2 = 0)
  BY <1>1, <1>2
<1>4. ASSUME NEW r \in 0 .. 15, q # r PROVE Worth(q) # Worth(r)
  BY <1>1, <1>2, <1>4
<1>5. ASSUME NEW m \in Nat, NEW e \in {-1, 1}, m >= 2 PROVE Congruent(e * Worth(q), e * Weight(q, m), m)
  <2>1. CASE q < 8
    <3>1. Worth(q) = 2 ^ q /\ q \in 0 .. 7
      BY <2>1 DEF Worth
    <3>. QED BY <1>5, <3>1, ShiftOfError
  <2>2. CASE q >= 8
    <3>. PICK k \in 0 .. 7 : q = k + 8
      BY <2>2
    <3>. PICK v \in Int : v = 2 ^ k
      BY PowerType
    <3>. PICK z \in Int : z = Weight(k, m)
      BY <1>5, k \in Nat, WeightSteps
    <3>. PICK y \in Int : y = Weight(k + 8, m)
      BY <1>5, k + 8 \in Nat, WeightSteps
    <3>1. Worth(q) = 256 * v
      BY <2>2 DEF Worth
    <3>2. Congruent(e * v, e * z, m) /\ Congruent(256 * (e * z), e * y, m)
      BY <1>5, k \in Nat, ShiftOfError, ZenonT(30)
    <3>3. e * v \in Int /\ e * z \in Int /\ e * y \in Int /\ 256 * (e * v) \in Int /\ 256 * (e * z) \in Int
      OBVIOUS
    <3>4. Congruent(256 * (e * v), 256 * (e * z), m)
      <4>. PICK g \in Int, h \in Int : g = e * v /\ h = e * z
        OBVIOUS
      <4>1. Congruent(256 * g, 256 * h, m)
        BY <3>2, 256 \in Int, CongruentTimes, ZenonT(30)
      <4>. QED BY <4>1
    <3>5. Congruent(256 * (e * v), e * y, m)
      BY <3>2, <3>3, <3>4, CongruentChain
    <3>6. e * (256 * v) = 256 * (e * v)
      OBVIOUS
    <3>. QED BY <3>1, <3>5, <3>6
  <2>. QED BY <2>1, <2>2
<1>. QED BY <1>3, <1>4, <1>5

\* One by one.
LEMMA WorthType ==
  ASSUME NEW q \in 0 .. 15
  PROVE  Worth(q) \in Nat /\ Worth(q) >= 1 /\ (q >= 8 => Worth(q) >= 256) /\ (q # 0 => Worth(q) % 2 = 0)
  BY WorthOfBit

\* Two bits are worth different things.
LEMMA WorthApart ==
  ASSUME NEW q \in 0 .. 15, NEW r \in 0 .. 15, q # r
  PROVE  Worth(q) # Worth(r)
  BY WorthOfBit

\* Modulo a modulus, a bit of the checksum is worth its weight.
LEMMA WorthWeight ==
  ASSUME NEW q \in 0 .. 15, NEW m \in Nat, m >= 2, NEW e \in {-1, 1}
  PROVE  Congruent(e * Worth(q), e * Weight(q, m), m)
  BY WorthOfBit

\* If one number is v more than another, and the other is y more, they are the same for v = y only.
LEMMA ExceedsBoth ==
  ASSUME NEW m \in Nat, NEW a \in Int, NEW b \in Int, NEW c \in Int, NEW v \in Int, NEW y \in Int
  PROVE  /\ Exceeds(b, a, v, m) /\ Exceeds(c, b, y, m) => Exceeds(c, a, v + y, m)
         /\ Exceeds(a, a, v, m) => Congruent(v, 0, m)
         /\ b = a + y /\ Exceeds(b, a, v, m) => Congruent(v - y, 0, m)
<1>. a + v \in Int /\ b + y \in Int /\ (a + v) + y = a + (v + y) /\ a + (v + y) \in Int /\ v - y \in Int
  OBVIOUS
<1>1. Congruent(a, a, m) /\ Congruent(y, y, m) /\ Congruent(v, v, m)
  BY CongruentSame
<1>2. ASSUME Exceeds(b, a, v, m), Exceeds(c, b, y, m) PROVE Exceeds(c, a, v + y, m)
  <2>1. Congruent(b, a + v, m) /\ Congruent(c, b + y, m)
    BY <1>2 DEF Exceeds
  <2>. PICK p \in Int, q \in Int : p = a + v /\ q = b + y
    OBVIOUS
  <2>2. Congruent(b + y, p + y, m)
    BY <1>1, <2>1, CongruentSum
  <2>3. p + y \in Int /\ Congruent(q, p + y, m) /\ Congruent(c, q, m)
    BY <2>1, <2>2
  <2>4. Congruent(c, p + y, m)
    BY <2>3, CongruentChain
  <2>5. p + y = a + (v + y)
    OBVIOUS
  <2>. QED BY <2>4, <2>5 DEF Exceeds
<1>3. ASSUME Exceeds(a, a, v, m) PROVE Congruent(v, 0, m)
  <2>1. Congruent(a, a + v, m)
    BY <1>3 DEF Exceeds
  <2>2. Congruent(a + v, a, m)
    BY <2>1, CongruentRules
  <2>3. Congruent((a + v) - a, a - a, m)
    <3>. PICK p \in Int : p = a + v
      OBVIOUS
    <3>. QED BY <1>1, <2>2, CongruentSum
  <2>4. (a + v) - a = v /\ a - a = 0
    OBVIOUS
  <2>. QED BY <2>3, <2>4
<1>4. ASSUME b = a + y, Exceeds(b, a, v, m) PROVE Congruent(v - y, 0, m)
  <2>. PICK p \in Int : p = a + v
    OBVIOUS
  <2>1. Congruent(b, p, m)
    BY <1>4 DEF Exceeds
  <2>2. Congruent(p, b, m) /\ Congruent(b, b, m)
    BY <2>1, CongruentRules, CongruentSame
  <2>3. Congruent(p - b, b - b, m)
    BY <2>2, CongruentSum
  <2>4. p - b = v - y /\ b - b = 0
    BY <1>4
  <2>. QED BY <2>3, <2>4
<1>. QED BY <1>2, <1>3, <1>4

\* The first of the three.
LEMMA ExceedsChain ==
  ASSUME NEW m \in Nat, NEW a \in Int, NEW b \in Int, NEW c \in Int, NEW v \in Int, NEW y \in Int,
         Exceeds(b, a, v, m), Exceeds(c, b, y, m)
  PROVE  Exceeds(c, a, v + y, m)
  BY ExceedsBoth

\* One changed bit changes the sum.
LEMMA SumOfOne ==
  ASSUME NEW m \in Nat, m >= 3, m % 2 = 1, NEW n, NEW s, NEW t, NEW i, NEW k, Changed(s, t, n, i, k),
         NEW w \in {8, 16}
  PROVE  Sum(t, m, w) # Sum(s, m, w)
<1>. SUFFICES ASSUME Sum(t, m, w) = Sum(s, m, w) PROVE FALSE
  OBVIOUS
<1>. Message(s, n) /\ n \in Nat \ {0} /\ i \in 1 .. n /\ k \in 0 .. 7 /\ m \in Nat \ {0}
  BY DEF Changed, Message
<1>1. PICK f \in {-1, 1} : Exceeds(Sum(t, m, w), Sum(s, m, w), f * Weight(8 * (n - i) + k + w, m), m)
  BY m >= 2, SumOfChange
<1>. PICK d \in Nat : d = 8 * (n - i) + k + w
  OBVIOUS
<1>. PICK v \in Int : v = f * Weight(d, m)
  BY m >= 2, WeightSteps
<1>. PICK a \in Int : a = Sum(s, m, w)
  BY SumType
<1>2. Congruent(v, 0, m)
  BY <1>1, ExceedsBoth
<1>. QED BY <1>2, OneError

\* Two changed bits change it if the modulus distinguishes the bits of the data.
LEMMA SumOfTwo ==
  ASSUME NEW m \in Nat, m >= 3, m % 2 = 1, NEW n, NEW s, NEW t, NEW u,
         NEW i, NEW k, NEW j, NEW l, NEW w \in {8, 16}, NEW bits \in Nat,
         Changed(s, t, n, i, k), Changed(t, u, n, j, l), i # j \/ k # l, bits >= 8 * n, C!Distinguishes(m, bits)
  PROVE  Sum(u, m, w) # Sum(s, m, w)
<1>. SUFFICES ASSUME Sum(u, m, w) = Sum(s, m, w) PROVE FALSE
  OBVIOUS
<1>. /\ Message(s, n) /\ Message(t, n) /\ n \in Nat \ {0} /\ m \in Nat \ {0} /\ m >= 2
     /\ i \in 1 .. n /\ k \in 0 .. 7 /\ j \in 1 .. n /\ l \in 0 .. 7
  BY DEF Changed, Message
<1>1. PICK f \in {-1, 1} : Exceeds(Sum(t, m, w), Sum(s, m, w), f * Weight(8 * (n - i) + k + w, m), m)
  BY SumOfChange
<1>2. PICK g \in {-1, 1} : Exceeds(Sum(u, m, w), Sum(t, m, w), g * Weight(8 * (n - j) + l + w, m), m)
  BY SumOfChange
<1>. PICK d \in Nat : d = 8 * (n - i) + k + w
  OBVIOUS
<1>. PICK h \in Nat : h = 8 * (n - j) + l + w
  OBVIOUS
<1>3. d # h /\ d - h < bits /\ h - d < bits
  OBVIOUS
<1>. PICK v \in Int : v = f * Weight(d, m)
  BY WeightSteps
<1>. PICK y \in Int : y = g * Weight(h, m)
  BY WeightSteps
<1>. PICK a \in Int, b \in Int : a = Sum(s, m, w) /\ b = Sum(t, m, w)
  BY SumType
<1>4. Exceeds(a, a, v + y, m) /\ v + y \in Int
  <2>1. Exceeds(b, a, v, m) /\ Exceeds(a, b, y, m)
    BY <1>1, <1>2
  <2>2. a \in Int /\ b \in Int /\ v \in Int /\ y \in Int /\ m \in Nat /\ v + y \in Int
    OBVIOUS
  <2>3. Exceeds(a, a, v + y, m)
    BY <2>1, <2>2, ExceedsChain, Zenon
  <2>. QED BY <2>2, <2>3
<1>5. Congruent(v + y, 0, m)
  BY <1>4, ExceedsBoth
<1>. QED BY <1>3, <1>5, TwoErrors

\* Nor does the sum change as the checksum does, if the modulus distinguishes the bits of both.
LEMMA SumAndCheck ==
  ASSUME NEW m \in Nat, m >= 3, m % 2 = 1, NEW n, NEW s, NEW t, NEW i, NEW k, Changed(s, t, n, i, k),
         NEW w \in {8, 16}, NEW q \in 0 .. w - 1, NEW e \in {-1, 1},
         NEW bits \in Nat, bits >= 8 * n + w, C!Distinguishes(m, bits)
  PROVE  Sum(t, m, w) # Sum(s, m, w) + e * Worth(q)
<1>. SUFFICES ASSUME Sum(t, m, w) = Sum(s, m, w) + e * Worth(q) PROVE FALSE
  OBVIOUS
<1>. /\ Message(s, n) /\ Message(t, n) /\ n \in Nat \ {0} /\ m \in Nat \ {0} /\ m >= 2
     /\ i \in 1 .. n /\ k \in 0 .. 7 /\ q \in 0 .. 15 /\ q \in Nat
  BY DEF Changed, Message
<1>1. PICK f \in {-1, 1} : Exceeds(Sum(t, m, w), Sum(s, m, w), f * Weight(8 * (n - i) + k + w, m), m)
  BY SumOfChange
<1>. PICK d \in Nat : d = 8 * (n - i) + k + w
  OBVIOUS
<1>2. d # q /\ d - q < bits /\ q - d < bits
  OBVIOUS
<1>. PICK v \in Int : v = Worth(q)
  BY WorthType
<1>. PICK u \in Int : u = f * Weight(d, m)
  BY WeightSteps
<1>. PICK z \in Int : z = Weight(q, m)
  BY WeightSteps
<1>. PICK a \in Int, b \in Int : a = Sum(s, m, w) /\ b = Sum(t, m, w)
  BY SumType
<1>. PICK y \in Int : y = e * v
  OBVIOUS
<1>. PICK g \in {-1, 1} : g = -e
  OBVIOUS
<1>3. Congruent(u - y, 0, m)
  BY <1>1, ExceedsBoth
<1>4. Congruent(y, e * z, m) /\ e * z \in Int /\ g * z = -(e * z)
  BY WorthWeight
<1>5. Congruent(u + g * z, 0, m)
  <2>. PICK h \in Int : h = e * z
    OBVIOUS
  <2>1. Congruent(h, y, m)
    BY <1>4, CongruentRules
  <2>2. Congruent(u, u, m)
    BY CongruentSame
  <2>3. Congruent(u - h, u - y, m)
    BY <2>1, <2>2, CongruentSum
  <2>. PICK p \in Int, r \in Int : p = u - h /\ r = u - y
    OBVIOUS
  <2>4. Congruent(p, 0, m)
    BY <1>3, <2>3, CongruentChain
  <2>5. p = u + g * z
    BY <1>4
  <2>. QED BY <2>4, <2>5
<1>. QED BY <1>2, <1>5, TwoErrors

-----------------------------------------------------------------------------
(* Checksums: the parity.                                                  *)

\* What parity32 folds a word to, once and twice.
Once(w) == SymDiff(w, C!ShiftRight(w, 1))
Twice(w) == SymDiff(Once(w), C!ShiftRight(Once(w), 2))
Nibbles(w) == {i \in Twice(w) : i % 4 = 0}

\* The operators of the instance are the ones of the community modules.
LEMMA SameOperators ==
  /\ \A S : C!Cardinality(S) = Cardinality(S)
  /\ \A S, W : C!SymDiff(S, W) = SymDiff(S, W)
<1>1. ASSUME NEW S PROVE C!Cardinality(S) = Cardinality(S)
  BY Zenon DEF C!Cardinality, Cardinality
<1>2. ASSUME NEW S, NEW W PROVE C!SymDiff(S, W) = SymDiff(S, W)
  BY DEF C!SymDiff, SymDiff
<1>. QED BY <1>1, <1>2

\* The parity of a word is that of the number of nibbles left.
LEMMA ParityOfNibbles ==
  ASSUME NEW w
  PROVE  C!Parity32(w) = Cardinality(Nibbles(w)) % 2
<1>1. C!SymDiff(w, C!ShiftRight(w, 1)) = Once(w)
  BY SameOperators DEF Once
<1>2. C!SymDiff(Once(w), C!ShiftRight(Once(w), 2)) = Twice(w)
  BY SameOperators DEF Twice
<1>3. C!Parity32(w) = C!Cardinality({i \in C!SymDiff(C!SymDiff(w, C!ShiftRight(w, 1)),
                                       C!ShiftRight(C!SymDiff(w, C!ShiftRight(w, 1)), 2)) : i % 4 = 0}) % 2
  BY Zenon DEF C!Parity32
<1>4. C!Parity32(w) = C!Cardinality(Nibbles(w)) % 2
  BY <1>1, <1>2, <1>3, Zenon DEF Nibbles
<1>. QED BY <1>4, SameOperators

\* A nibble is left if an odd number of its bits is 1.
LEMMA NibbleLeft ==
  ASSUME NEW w \in SUBSET (0 .. 31)
  PROVE  /\ Nibbles(w) \in SUBSET (0 .. 31)
         /\ \A i \in 0 .. 31 : i \in Nibbles(w) <=>
              i % 4 = 0 /\ ((i \in w <=> i + 1 \in w) <=> ~ (i + 2 \in w <=> i + 3 \in w))
<1>1. \A v \in SUBSET (0 .. 31), n \in {1, 2}, i \in Int : i \in C!ShiftRight(v, n) <=> i >= 0 /\ i + n \in v
  <2>. TAKE v \in SUBSET (0 .. 31), n \in {1, 2}, i \in Int
  <2>1. ASSUME i >= 0, i + n \in v PROVE i \in C!ShiftRight(v, n)
    <3>. (i + n) - n = i /\ i + n >= n
      BY <2>1
    <3>. QED BY <2>1 DEF C!ShiftRight
  <2>2. ASSUME i \in C!ShiftRight(v, n) PROVE i >= 0 /\ i + n \in v
    <3>1. PICK j \in v : j >= n /\ i = j - n
      BY <2>2 DEF C!ShiftRight
    <3>2. j \in Int /\ i + n = j
      BY <3>1
    <3>. QED BY <3>1, <3>2
  <2>. QED BY <2>1, <2>2
<1>2. /\ Once(w) \in SUBSET (0 .. 31)
      /\ \A i \in 0 .. 33 : i \in Once(w) <=> ~ (i \in w <=> i + 1 \in w)
  <2>1. \A i \in C!ShiftRight(w, 1) : i \in 0 .. 31
    <3>. TAKE i \in C!ShiftRight(w, 1)
    <3>1. i \in Int
      BY DEF C!ShiftRight
    <3>2. i >= 0 /\ i + 1 \in w
      BY <1>1, <3>1
    <3>. QED BY <3>1, <3>2
  <2>2. \A i \in 0 .. 33 : i \in C!ShiftRight(w, 1) <=> i + 1 \in w
    BY <1>1
  <2>. QED BY <2>1, <2>2 DEF Once, SymDiff
<1>3. /\ Twice(w) \in SUBSET (0 .. 31)
      /\ \A i \in 0 .. 31 : i \in Twice(w) <=> ~ (i \in Once(w) <=> i + 2 \in Once(w))
  <2>1. \A i \in C!ShiftRight(Once(w), 2) : i \in 0 .. 31
    <3>. TAKE i \in C!ShiftRight(Once(w), 2)
    <3>1. i \in Int
      BY <1>2 DEF C!ShiftRight
    <3>2. i >= 0 /\ i + 2 \in Once(w)
      BY <1>1, <1>2, <3>1
    <3>. QED BY <1>2, <3>1, <3>2
  <2>2. \A i \in 0 .. 31 : i \in C!ShiftRight(Once(w), 2) <=> i + 2 \in Once(w)
    BY <1>1, <1>2
  <2>. QED BY <1>2, <2>1, <2>2 DEF Twice, SymDiff
<1>4. ASSUME NEW i \in 0 .. 31
      PROVE  i \in Twice(w) <=> ((i \in w <=> i + 1 \in w) <=> ~ (i + 2 \in w <=> i + 3 \in w))
  <2>1. i \in 0 .. 33 /\ i + 2 \in 0 .. 33 /\ (i + 2) + 1 = i + 3
    OBVIOUS
  <2>2. i \in Once(w) <=> ~ (i \in w <=> i + 1 \in w)
    BY <1>2, <2>1
  <2>3. i + 2 \in Once(w) <=> ~ (i + 2 \in w <=> i + 3 \in w)
    BY <1>2, <2>1
  <2>4. i \in Twice(w) <=> ~ (i \in Once(w) <=> i + 2 \in Once(w))
    BY <1>3
  <2>. QED BY <2>2, <2>3, <2>4
<1>. QED BY <1>3, <1>4 DEF Nibbles

\* Inverting one bit inverts the parity.
LEMMA ParityOfFlip ==
  ASSUME NEW w \in SUBSET (0 .. 31), NEW k \in 0 .. 31
  PROVE  /\ SymDiff(w, {k}) \in SUBSET (0 .. 31)
         /\ C!Parity32(w) \in {0, 1} /\ C!Parity32(SymDiff(w, {k})) = 1 - C!Parity32(w)
<1>. DEFINE u == SymDiff(w, {k})
            q == 4 * (k \div 4)
<1>1. u \in SUBSET (0 .. 31) /\ \A i \in 0 .. 34 : i \in u <=> IF i = k THEN i \notin w ELSE i \in w
  BY DEF SymDiff
<1>. HIDE DEF u
<1>2. q \in 0 .. 31 /\ q % 4 = 0 /\ q <= k /\ k <= q + 3
  OBVIOUS
<1>. HIDE DEF q
<1>3. /\ Nibbles(w) \in SUBSET (0 .. 31) /\ Nibbles(u) \in SUBSET (0 .. 31)
      /\ q \in Nibbles(u) <=> q \notin Nibbles(w)
      /\ \A i \in 0 .. 31 : i # q => (i \in Nibbles(u) <=> i \in Nibbles(w))
  <2>1. Nibbles(w) \in SUBSET (0 .. 31) /\ Nibbles(u) \in SUBSET (0 .. 31)
    BY <1>1, NibbleLeft
  <2>2. q \in Nibbles(u) <=> q \notin Nibbles(w)
    <3>1. q \in Nibbles(w) <=> ((q \in w <=> q + 1 \in w) <=> ~ (q + 2 \in w <=> q + 3 \in w))
      BY <1>2, NibbleLeft
    <3>2. q \in Nibbles(u) <=> ((q \in u <=> q + 1 \in u) <=> ~ (q + 2 \in u <=> q + 3 \in u))
      BY <1>1, <1>2, NibbleLeft
    <3>3. k = q \/ k = q + 1 \/ k = q + 2 \/ k = q + 3
      BY <1>2
    <3>4. q \in 0 .. 34 /\ q + 1 \in 0 .. 34 /\ q + 2 \in 0 .. 34 /\ q + 3 \in 0 .. 34
      BY <1>2
    <3>. QED BY <1>1, <3>1, <3>2, <3>3, <3>4
  <2>3. ASSUME NEW i \in 0 .. 31, i # q, i % 4 = 0 PROVE i \in Nibbles(u) <=> i \in Nibbles(w)
    <3>1. i \in Nibbles(w) <=> ((i \in w <=> i + 1 \in w) <=> ~ (i + 2 \in w <=> i + 3 \in w))
      BY <2>3, NibbleLeft
    <3>2. i \in Nibbles(u) <=> ((i \in u <=> i + 1 \in u) <=> ~ (i + 2 \in u <=> i + 3 \in u))
      BY <1>1, <2>3, NibbleLeft
    <3>3. k # i /\ k # i + 1 /\ k # i + 2 /\ k # i + 3
      BY <1>2, <2>3
    <3>4. i \in 0 .. 34 /\ i + 1 \in 0 .. 34 /\ i + 2 \in 0 .. 34 /\ i + 3 \in 0 .. 34
      OBVIOUS
    <3>. QED BY <1>1, <3>1, <3>2, <3>3, <3>4
  <2>. QED BY <1>1, <2>1, <2>2, <2>3, NibbleLeft
<1>4. C!Parity32(w) = Cardinality(Nibbles(w)) % 2 /\ C!Parity32(u) = Cardinality(Nibbles(u)) % 2
  BY ParityOfNibbles
<1>5. IsFiniteSet(0 .. 31)
  BY 0 \in Int, 31 \in Int, FS_Interval, Zenon
<1>6. IsFiniteSet(Nibbles(w)) /\ IsFiniteSet(Nibbles(u))
  BY <1>3, <1>5, FS_Subset
<1>7. CASE q \in Nibbles(w)
  <2>1. Nibbles(w) = Nibbles(u) \cup {q} /\ q \notin Nibbles(u)
    BY <1>2, <1>3, <1>7
  <2>2. Cardinality(Nibbles(w)) = Cardinality(Nibbles(u)) + 1 /\ Cardinality(Nibbles(u)) \in Nat
    BY <1>6, <2>1, FS_AddElement, FS_CardinalityType
  <2>3. \A c \in Nat : (c + 1) % 2 = 1 - (c % 2) /\ c % 2 \in {0, 1} /\ 1 - (1 - (c % 2)) = c % 2
    OBVIOUS
  <2>4. C!Parity32(w) \in {0, 1} /\ C!Parity32(u) = 1 - C!Parity32(w)
    BY <1>4, <2>2, <2>3
  <2>. QED BY <1>1, <2>4 DEF u
<1>8. CASE q \notin Nibbles(w)
  <2>1. Nibbles(u) = Nibbles(w) \cup {q}
    BY <1>2, <1>3, <1>8
  <2>2. Cardinality(Nibbles(u)) = Cardinality(Nibbles(w)) + 1 /\ Cardinality(Nibbles(w)) \in Nat
    BY <1>6, <1>8, <2>1, FS_AddElement, FS_CardinalityType
  <2>3. \A c \in Nat : (c + 1) % 2 = 1 - (c % 2) /\ c % 2 \in {0, 1} /\ 1 - (1 - (c % 2)) = c % 2
    OBVIOUS
  <2>4. C!Parity32(w) \in {0, 1} /\ C!Parity32(u) = 1 - C!Parity32(w)
    BY <1>4, <2>2, <2>3
  <2>. QED BY <1>1, <2>4 DEF u
<1>. QED BY <1>7, <1>8

\* An inverted bit is one of the complement.
LEMMA BitsOfComplement ==
  ASSUME NEW b \in C!Byte
  PROVE  255 - b \in C!Byte /\ C!Bits(255 - b) = (0 .. 7) \ C!Bits(b)
<1>1. 255 - b \in C!Byte
  BY DEF C!Byte
<1>. PICK d \in C!Byte : d = 255 - b
  BY <1>1
<1>2. /\ d % 2 = 1 - (b % 2) /\ (d \div 2) % 2 = 1 - ((b \div 2) % 2)
      /\ (d \div 4) % 2 = 1 - ((b \div 4) % 2) /\ (d \div 8) % 2 = 1 - ((b \div 8) % 2)
      /\ (d \div 16) % 2 = 1 - ((b \div 16) % 2) /\ (d \div 32) % 2 = 1 - ((b \div 32) % 2)
      /\ (d \div 64) % 2 = 1 - ((b \div 64) % 2) /\ (d \div 128) % 2 = 1 - ((b \div 128) % 2)
  BY SMTT(30) DEF C!Byte
<1>3. \A c \in Int : c % 2 = 0 \/ c % 2 = 1
  OBVIOUS
<1>4. b \in Int /\ d \in Int
  BY DEF C!Byte
<1>5. \A i \in 0 .. 7 : i \in C!Bits(d) <=> i \notin C!Bits(b)
  <2>1. /\ (0 \in C!Bits(d)) <=> (d % 2 = 1)
        /\ (1 \in C!Bits(d)) <=> ((d \div 2) % 2 = 1)
        /\ (2 \in C!Bits(d)) <=> ((d \div 4) % 2 = 1)
        /\ (3 \in C!Bits(d)) <=> ((d \div 8) % 2 = 1)
        /\ (4 \in C!Bits(d)) <=> ((d \div 16) % 2 = 1)
        /\ (5 \in C!Bits(d)) <=> ((d \div 32) % 2 = 1)
        /\ (6 \in C!Bits(d)) <=> ((d \div 64) % 2 = 1)
        /\ (7 \in C!Bits(d)) <=> ((d \div 128) % 2 = 1)
    BY BitsOfByte
  <2>2. /\ (0 \in C!Bits(b)) <=> (b % 2 = 1)
        /\ (1 \in C!Bits(b)) <=> ((b \div 2) % 2 = 1)
        /\ (2 \in C!Bits(b)) <=> ((b \div 4) % 2 = 1)
        /\ (3 \in C!Bits(b)) <=> ((b \div 8) % 2 = 1)
        /\ (4 \in C!Bits(b)) <=> ((b \div 16) % 2 = 1)
        /\ (5 \in C!Bits(b)) <=> ((b \div 32) % 2 = 1)
        /\ (6 \in C!Bits(b)) <=> ((b \div 64) % 2 = 1)
        /\ (7 \in C!Bits(b)) <=> ((b \div 128) % 2 = 1)
    BY BitsOfByte
  <2>. QED BY <1>2, <1>4, <2>1, <2>2
<1>. QED BY <1>1, <1>5, BitsOfByte

\* acc holds the exclusive or of the bytes so far.
Folding(acc, s, n) ==
  /\ acc \in [0 .. n - 1 -> SUBSET (0 .. 7)]
  /\ acc[0] = (0 .. 7) \ C!Bits(s[1]) /\ acc[n - 1] = C!PSum(s)
  /\ \A j \in 0 .. n - 2 : acc[j + 1] = SymDiff(acc[j], C!Bits(s[j + 2]))

\* There is such a function.
LEMMA PSumSteps ==
  ASSUME NEW n, NEW s, Message(s, n)
  PROVE  \E acc : Folding(acc, s, n)
<1>. n \in Nat \ {0} /\ Len(s) = n /\ n - 1 \in Nat /\ 1 \in 1 .. n /\ s \in [1 .. n -> C!Byte]
  BY DEF Message
<1>. DEFINE W == SUBSET (0 .. 7)
            start == C!Bits(C!Seed(s))
            body == [i \in 1 .. n - 1 |-> [w \in W |-> C!SymDiff(w, C!Bits(s[i + 1]))]]
<1>1. start = (0 .. 7) \ C!Bits(s[1]) /\ start \in W
  BY BitsOfComplement DEF C!Seed
<1>2. C!PSum(s) = C!Loop(body, start, n - 1)
  BY DEF C!PSum
<1>3. \A i \in 1 .. n - 1, w \in W : body[i][w] = SymDiff(w, C!Bits(s[i + 1])) /\ body[i][w] \in W
  <2>. TAKE i \in 1 .. n - 1, w \in W
  <2>1. s[i + 1] \in C!Byte
    OBVIOUS
  <2>2. C!Bits(s[i + 1]) \in W
    BY <2>1, BitsOfByte
  <2>3. body[i][w] = C!SymDiff(w, C!Bits(s[i + 1]))
    OBVIOUS
  <2>. HIDE DEF body
  <2>4. body[i][w] = SymDiff(w, C!Bits(s[i + 1]))
    BY <2>3, SameOperators
  <2>. QED BY <2>2, <2>4 DEF SymDiff
<1>. HIDE DEF body, start
<1>4. \A j \in 0 .. n - 1 : C!Loop(body, start, j) \in W
  <2>. HIDE DEF W
  <2>1. n - 1 \in Nat /\ start \in W /\ \A i \in 1 .. n - 1, v \in W : body[i][v] \in W
    BY <1>1, <1>3
  <2>. QED BY <2>1, LoopType, Zenon
<1>5. C!Loop(body, start, 0) = start /\ \A j \in Nat : C!Loop(body, start, j + 1) = body[j + 1][C!Loop(body, start, j)]
  BY LoopSteps
<1>. DEFINE acc == [j \in 0 .. n - 1 |-> C!Loop(body, start, j)]
<1>6. acc \in [0 .. n - 1 -> W] /\ \A j \in 0 .. n - 1 : acc[j] = C!Loop(body, start, j)
  BY <1>4
<1>. HIDE DEF acc
<1>7. acc[0] = (0 .. 7) \ C!Bits(s[1]) /\ acc[n - 1] = C!PSum(s)
  <2>1. 0 \in 0 .. n - 1 /\ n - 1 \in 0 .. n - 1
    OBVIOUS
  <2>2. acc[0] = start
    BY <1>5, <1>6, <2>1
  <2>3. acc[n - 1] = C!PSum(s)
    BY <1>2, <1>6, <2>1
  <2>. QED BY <1>1, <2>2, <2>3
<1>8. ASSUME NEW j \in 0 .. n - 2 PROVE acc[j + 1] = SymDiff(acc[j], C!Bits(s[j + 2]))
  <2>1. j \in Nat /\ j \in 0 .. n - 1 /\ j + 1 \in 0 .. n - 1 /\ j + 1 \in 1 .. n - 1 /\ (j + 1) + 1 = j + 2
    OBVIOUS
  <2>2. acc[j + 1] = body[j + 1][acc[j]] /\ acc[j] \in W
    BY <1>5, <1>6, <2>1
  <2>3. body[j + 1][acc[j]] = SymDiff(acc[j], C!Bits(s[(j + 1) + 1]))
    BY <1>3, <2>1, <2>2
  <2>. QED BY <2>1, <2>2, <2>3
<1>9. Folding(acc, s, n)
  BY <1>6, <1>7, <1>8 DEF Folding
<1>. QED BY <1>9

\* The change of a bit inverts this bit of the exclusive or.
LEMMA PSumOfChange ==
  ASSUME NEW n, NEW s, NEW t, NEW i, NEW k, Changed(s, t, n, i, k)
  PROVE  C!PSum(s) \in SUBSET (0 .. 7) /\ k \in 0 .. 7 /\ C!PSum(t) = SymDiff(C!PSum(s), {k})
<1>. /\ Message(s, n) /\ Message(t, n) /\ n \in Nat \ {0} /\ i \in 1 .. n /\ k \in 0 .. 7
     /\ \A j \in 1 .. n : j # i => t[j] = s[j]
     /\ C!Bits(t[i]) = SymDiff(C!Bits(s[i]), {k})
  BY DEF Changed, Message, Inverted
<1>1. PICK P1 : Folding(P1, s, n)
  BY PSumSteps
<1>2. PICK B : Folding(B, t, n)
  BY PSumSteps
<1>. DEFINE Good == {j \in Nat : j <= n - 1 => B[j] = IF j + 1 < i THEN P1[j] ELSE SymDiff(P1[j], {k})}
<1>3. \A j \in 0 .. n - 1 : P1[j] \in SUBSET (0 .. 7) /\ B[j] \in SUBSET (0 .. 7)
  BY <1>1, <1>2 DEF Folding
<1>4. \A j \in 1 .. n : C!Bits(s[j]) \in SUBSET (0 .. 7) /\ C!Bits(t[j]) \in SUBSET (0 .. 7)
  <2>. \A j \in 1 .. n : s[j] \in C!Byte /\ t[j] \in C!Byte
    BY DEF Message
  <2>. QED BY BitsOfByte
<1>5. 0 \in Good
  <2>1. P1[0] = (0 .. 7) \ C!Bits(s[1]) /\ B[0] = (0 .. 7) \ C!Bits(t[1]) /\ 1 \in 1 .. n
    BY <1>1, <1>2 DEF Folding
  <2>2. CASE i = 1
    <3>1. B[0] = SymDiff(P1[0], {k})
      BY <1>4, <2>1, <2>2 DEF SymDiff
    <3>. QED BY <2>2, <3>1
  <2>3. CASE i # 1
    BY <2>1, <2>3
  <2>. QED BY <2>2, <2>3
<1>6. ASSUME NEW j \in Nat, j \in Good PROVE j + 1 \in Good
  <2>. SUFFICES ASSUME j + 1 <= n - 1
                PROVE  B[j + 1] = IF (j + 1) + 1 < i THEN P1[j + 1] ELSE SymDiff(P1[j + 1], {k})
    OBVIOUS
  <2>1. j \in 0 .. n - 2 /\ j \in 0 .. n - 1 /\ j + 2 \in 1 .. n
    OBVIOUS
  <2>2. P1[j + 1] = SymDiff(P1[j], C!Bits(s[j + 2])) /\ B[j + 1] = SymDiff(B[j], C!Bits(t[j + 2]))
    BY <1>1, <1>2, <2>1 DEF Folding
  <2>3. B[j] = IF j + 1 < i THEN P1[j] ELSE SymDiff(P1[j], {k})
    BY <1>6, <2>1
  <2>4. CASE j + 2 < i
    BY <2>1, <2>2, <2>3, <2>4
  <2>5. CASE j + 2 = i
    <3>1. B[j] = P1[j] /\ C!Bits(t[j + 2]) = SymDiff(C!Bits(s[j + 2]), {k})
      BY <2>3, <2>5
    <3>2. B[j + 1] = SymDiff(P1[j + 1], {k})
      BY <2>2, <3>1 DEF SymDiff
    <3>. QED BY <2>5, <3>2
  <2>6. CASE j + 2 > i
    <3>1. B[j] = SymDiff(P1[j], {k}) /\ t[j + 2] = s[j + 2]
      BY <2>1, <2>3, <2>6
    <3>2. B[j + 1] = SymDiff(P1[j + 1], {k})
      BY <2>2, <3>1 DEF SymDiff
    <3>. QED BY <2>6, <3>2
  <2>. QED BY <2>4, <2>5, <2>6
<1>. HIDE DEF Good
<1>7. Nat \subseteq Good
  BY <1>5, <1>6, Induction
<1>8. B[n - 1] = SymDiff(P1[n - 1], {k})
  BY <1>7 DEF Good
<1>9. C!PSum(s) = P1[n - 1] /\ C!PSum(t) = B[n - 1] /\ n - 1 \in 0 .. n - 1
  BY <1>1, <1>2 DEF Folding
<1>. QED BY <1>3, <1>8, <1>9

\* The parity of a message.
ParityOf(s) == C!Parity32(C!PSum(s))

\* The change of a bit inverts it.
LEMMA ParityOfChange ==
  ASSUME NEW n, NEW s, NEW t, NEW i, NEW k, Changed(s, t, n, i, k)
  PROVE  ParityOf(s) \in {0, 1} /\ ParityOf(t) = 1 - ParityOf(s)
<1>1. C!PSum(s) \in SUBSET (0 .. 31) /\ k \in 0 .. 31 /\ C!PSum(t) = SymDiff(C!PSum(s), {k})
  <2>1. C!PSum(s) \in SUBSET (0 .. 7)
    BY PSumOfChange
  <2>2. k \in 0 .. 7
    BY PSumOfChange
  <2>3. C!PSum(t) = SymDiff(C!PSum(s), {k})
    BY PSumOfChange
  <2>4. \A j \in 0 .. 7 : j \in 0 .. 31
    OBVIOUS
  <2>. QED BY <2>1, <2>2, <2>3, <2>4
<1>. QED BY <1>1, ParityOfFlip DEF ParityOf

\* An odd number of errors in the data inverts it.
LEMMA ParityOfErrors ==
  ASSUME NEW n, NEW s, Message(s, n), NEW E \in SUBSET (0 .. 8 * n - 1)
  PROVE  /\ IsFiniteSet(E) /\ Cardinality(E) \in Nat
         /\ ParityOf(s) \in {0, 1}
         /\ ParityOf(OnWire(s, E)) = (ParityOf(s) + Cardinality(E)) % 2
<1>. n \in Nat \ {0}
  BY DEF Message
<1>. DEFINE P(K) == ParityOf(s) \in {0, 1} /\ ParityOf(OnWire(s, K)) = (ParityOf(s) + Cardinality(K)) % 2
            Good == {l \in Nat : \A K \in SUBSET (0 .. 8 * n - 1) : Cardinality(K) = l => P(K)}
<1>1. \A K \in SUBSET (0 .. 8 * n - 1) : IsFiniteSet(K) /\ Cardinality(K) \in Nat
  <2>1. IsFiniteSet(0 .. 8 * n - 1)
    BY 0 \in Int, 8 * n - 1 \in Int, FS_Interval, Zenon
  <2>. QED BY <2>1, FS_Subset, FS_CardinalityType
<1>2. ParityOf(s) \in {0, 1}
  <2>1. 0 \in Nat /\ 0 \notin {} /\ 0 < 8 * n
    OBVIOUS
  <2>2. \E i, k : Changed(OnWire(s, {}), OnWire(s, {} \cup {0}), n, i, k)
    BY <2>1, MessageOfError
  <2>3. OnWire(s, {}) = s
    BY <2>1, MessageOfError
  <2>. QED BY <2>2, <2>3, ParityOfChange
<1>3. 0 \in Good
  <2>. SUFFICES ASSUME NEW K \in SUBSET (0 .. 8 * n - 1), Cardinality(K) = 0 PROVE P(K)
    OBVIOUS
  <2>1. K = {}
    BY <1>1, FS_EmptySet
  <2>2. OnWire(s, K) = s
    BY 0 \in Nat, 0 \notin {}, <2>1, MessageOfError
  <2>. QED BY <1>2, <2>2
<1>4. ASSUME NEW l \in Nat, l \in Good PROVE l + 1 \in Good
  <2>. SUFFICES ASSUME NEW K \in SUBSET (0 .. 8 * n - 1), Cardinality(K) = l + 1 PROVE P(K)
    OBVIOUS
  <2>1. K # {}
    BY FS_EmptySet
  <2>2. PICK p \in K : TRUE
    BY <2>1
  <2>. DEFINE H == K \ {p}
  <2>3. H \in SUBSET (0 .. 8 * n - 1) /\ K = H \cup {p} /\ p \notin H /\ p \in Nat /\ p < 8 * n
    OBVIOUS
  <2>. HIDE DEF H
  <2>4. Cardinality(K) = Cardinality(H) + 1 /\ Cardinality(H) = l
    <3>1. IsFiniteSet(H) /\ Cardinality(H) \in Nat
      BY <1>1, <2>3
    <3>2. Cardinality(H \cup {p}) = Cardinality(H) + 1
      BY <2>3, <3>1, FS_AddElement
    <3>. QED BY <2>3, <3>1, <3>2
  <2>5. ParityOf(OnWire(s, H)) = (ParityOf(s) + l) % 2
    BY <1>4, <2>3, <2>4
  <2>6. \E i, k : Changed(OnWire(s, H), OnWire(s, K), n, i, k)
    BY <2>3, MessageOfError
  <2>7. ParityOf(OnWire(s, K)) = 1 - ParityOf(OnWire(s, H))
    BY <2>6, ParityOfChange
  <2>8. \A v \in {0, 1} : 1 - ((v + l) % 2) = (v + (l + 1)) % 2
    OBVIOUS
  <2>. QED BY <1>2, <2>4, <2>5, <2>7, <2>8
<1>. HIDE DEF Good
<1>5. Nat \subseteq Good
  BY <1>3, <1>4, Induction
<1>. QED BY <1>1, <1>2, <1>5 DEF Good

-----------------------------------------------------------------------------
(* Checksums: the one of Fletcher.                                         *)

\* What a byte is, without its range.
LEMMA ByteIs ==
  \A v : v \in C!Byte <=> v \in Nat /\ v < 256
  BY DEF C!Byte

\* A sum of bytes wraps.
LEMMA Wraps ==
  ASSUME NEW v \in Nat, v < 768
  PROVE  v % 256 = IF v < 256 THEN v ELSE IF v < 512 THEN v - 256 ELSE v - 512
  OBVIOUS

\* Sums of two bytes and of three, in a byte.
Add(v, y) == (v + y) % 256
AddAll(v, y, z) == (v + y + z) % 256

\* A sum of two bytes, in cases.
LEMMA AddIs ==
  ASSUME NEW v \in C!Byte, NEW y \in C!Byte
  PROVE  \E r \in C!Byte : Add(v, y) = r /\ r \in Nat /\ r < 256 /\ (r = v + y \/ r = v + y - 256)
<1>1. v \in Nat /\ v < 256 /\ y \in Nat /\ y < 256
  BY ByteIs
<1>. PICK p \in Nat : p = v + y /\ p < 512
  BY <1>1
<1>2. p % 256 = IF p < 256 THEN p ELSE p - 256
  BY Wraps
<1>. PICK r \in Int : r = IF p < 256 THEN p ELSE p - 256
  OBVIOUS
<1>3. r \in Nat /\ r < 256 /\ (r = v + y \/ r = v + y - 256)
  BY <1>1
<1>4. r \in C!Byte
  BY <1>3, ByteIs
<1>5. Add(v, y) = r
  BY <1>2 DEF Add
<1>. QED BY <1>3, <1>4, <1>5

\* A sum of three bytes, in cases.
LEMMA AddAllIs ==
  ASSUME NEW v \in C!Byte, NEW y \in C!Byte, NEW z \in C!Byte
  PROVE  \E r \in C!Byte : /\ AddAll(v, y, z) = r /\ r \in Nat /\ r < 256
                           /\ r = v + y + z \/ r = v + y + z - 256 \/ r = v + y + z - 512
<1>1. v \in Nat /\ v < 256 /\ y \in Nat /\ y < 256 /\ z \in Nat /\ z < 256
  BY ByteIs
<1>. PICK p \in Nat : p = v + y + z /\ p < 768
  BY <1>1
<1>2. p % 256 = IF p < 256 THEN p ELSE IF p < 512 THEN p - 256 ELSE p - 512
  BY Wraps
<1>. PICK r \in Int : r = IF p < 256 THEN p ELSE IF p < 512 THEN p - 256 ELSE p - 512
  OBVIOUS
<1>3. r \in Nat /\ r < 256 /\ (r = v + y + z \/ r = v + y + z - 256 \/ r = v + y + z - 512)
  BY <1>1
<1>4. r \in C!Byte
  BY <1>3, ByteIs
<1>5. AddAll(v, y, z) = r
  BY <1>2 DEF AddAll
<1>. QED BY <1>3, <1>4, <1>5

\* Sums of which one summand differs differ.
LEMMA SecondApart ==
  ASSUME NEW z \in C!Byte, NEW u \in C!Byte, NEW v \in C!Byte, u # v
  PROVE  Add(z, u) # Add(z, v)
<1>1. z \in Nat /\ z < 256 /\ u \in Nat /\ u < 256 /\ v \in Nat /\ v < 256
  BY ByteIs
<1>2. PICK p \in Nat : Add(z, u) = p /\ p < 256 /\ (p = z + u \/ p = z + u - 256)
  BY AddIs
<1>3. PICK q \in Nat : Add(z, v) = q /\ q < 256 /\ (q = z + v \/ q = z + v - 256)
  BY AddIs
<1>4. p # q
  BY <1>1, <1>2, <1>3
<1>. QED BY <1>2, <1>3, <1>4

\* So do those that differ in the first summand.
LEMMA FirstApart ==
  ASSUME NEW v \in C!Byte, NEW y \in C!Byte, NEW u \in C!Byte, v # y
  PROVE  Add(v, u) # Add(y, u)
<1>1. v \in Nat /\ v < 256 /\ u \in Nat /\ u < 256 /\ y \in Nat /\ y < 256
  BY ByteIs
<1>2. PICK p \in Nat : Add(v, u) = p /\ p < 256 /\ (p = v + u \/ p = v + u - 256)
  BY AddIs
<1>3. PICK q \in Nat : Add(y, u) = q /\ q < 256 /\ (q = y + u \/ q = y + u - 256)
  BY AddIs
<1>4. p # q
  BY <1>1, <1>2, <1>3
<1>. QED BY <1>2, <1>3, <1>4

\* So do sums of three of which the first summand differs.
LEMMA AllApart ==
  ASSUME NEW z \in C!Byte, NEW y \in C!Byte, NEW u \in C!Byte, NEW v \in C!Byte, z # y
  PROVE  AddAll(z, u, v) # AddAll(y, u, v)
<1>1. z \in Nat /\ z < 256 /\ u \in Nat /\ u < 256 /\ y \in Nat /\ y < 256 /\ v \in Nat /\ v < 256
  BY ByteIs
<1>2. PICK p \in Nat : AddAll(z, u, v) = p /\ p < 256 /\ (p = z + u + v \/ p = z + u + v - 256 \/ p = z + u + v - 512)
  BY AddAllIs
<1>3. PICK q \in Nat : AddAll(y, u, v) = q /\ q < 256 /\ (q = y + u + v \/ q = y + u + v - 256 \/ q = y + u + v - 512)
  BY AddAllIs
<1>4. p # q
  BY <1>1, <1>2, <1>3
<1>. QED BY <1>2, <1>3, <1>4

\* Two bytes taken in one order or the other make the same first sum and different second ones.
LEMMA AddSwapped ==
  ASSUME NEW a \in C!Byte, NEW y \in C!Byte, NEW u \in C!Byte, NEW v \in C!Byte, u # v
  PROVE  /\ Add(Add(a, u), v) = Add(Add(a, v), u)
         /\ AddAll(AddAll(y, a, u), Add(a, u), v) # AddAll(AddAll(y, a, v), Add(a, v), u)
<1>1. a \in Nat /\ a < 256 /\ y \in Nat /\ y < 256 /\ u \in Nat /\ u < 256 /\ v \in Nat /\ v < 256
  BY ByteIs
<1>2. PICK p \in C!Byte : Add(a, u) = p /\ p \in Nat /\ p < 256 /\ (p = a + u \/ p = a + u - 256)
  BY AddIs
<1>3. PICK q \in C!Byte : Add(a, v) = q /\ q \in Nat /\ q < 256 /\ (q = a + v \/ q = a + v - 256)
  BY AddIs
<1>4. PICK g \in C!Byte : /\ AddAll(y, a, u) = g /\ g \in Nat /\ g < 256
                          /\ g = y + a + u \/ g = y + a + u - 256 \/ g = y + a + u - 512
  BY AddAllIs
<1>5. PICK h \in C!Byte : /\ AddAll(y, a, v) = h /\ h \in Nat /\ h < 256
                          /\ h = y + a + v \/ h = y + a + v - 256 \/ h = y + a + v - 512
  BY AddAllIs
<1>7. Add(p, v) = Add(q, u)
  <2>1. PICK r \in Nat : Add(p, v) = r /\ r < 256 /\ (r = p + v \/ r = p + v - 256)
    BY AddIs
  <2>2. PICK z \in Nat : Add(q, u) = z /\ z < 256 /\ (z = q + u \/ z = q + u - 256)
    BY AddIs
  <2>3. r = z
    BY <1>1, <1>2, <1>3, <2>1, <2>2
  <2>. QED BY <2>1, <2>2, <2>3
<1>8. AddAll(g, p, v) # AddAll(h, q, u)
  <2>1. PICK r \in Nat : /\ AddAll(g, p, v) = r /\ r < 256
                         /\ (r = g + p + v \/ r = g + p + v - 256 \/ r = g + p + v - 512)
    BY AddAllIs
  <2>2. PICK z \in Nat : /\ AddAll(h, q, u) = z /\ z < 256
                         /\ (z = h + q + u \/ z = h + q + u - 256 \/ z = h + q + u - 512)
    BY AddAllIs
  <2>3. r # z
    BY <1>1, <1>2, <1>3, <1>4, <1>5, <2>1, <2>2
  <2>. QED BY <2>1, <2>2, <2>3
<1>. QED BY <1>2, <1>3, <1>4, <1>5, <1>7, <1>8

\* Two bytes tell what they are made of.
LEMMA BytesApart ==
  ASSUME NEW p \in C!Byte, NEW q \in C!Byte, NEW v \in C!Byte, NEW y \in C!Byte
  PROVE  v # y \/ p # q => 256 * p + v # 256 * q + y
<1>1. p \in Nat /\ p < 256 /\ q \in Nat /\ q < 256 /\ v \in Nat /\ v < 256 /\ y \in Nat /\ y < 256
  BY ByteIs
<1>. QED BY <1>1

\* A number made of two bytes has two.
LEMMA TwoBytes ==
  ASSUME NEW p \in C!Byte, NEW v \in C!Byte
  PROVE  256 * p + v \in Nat /\ (256 * p + v) \div 256 < 256
<1>1. p \in Nat /\ p < 256 /\ v \in Nat /\ v < 256
  BY ByteIs
<1>. QED BY <1>1

\* The two sums after every byte, each in a function of its own.
Fletcher(a, b, s, n) ==
  /\ a \in [0 .. n -> C!Byte] /\ b \in [0 .. n -> C!Byte]
  /\ a[0] = 255 /\ b[0] = 255
  /\ \A j \in 0 .. n - 1 : a[j + 1] = Add(a[j], s[j + 1]) /\ b[j + 1] = AddAll(b[j], a[j], s[j + 1])
  /\ C!Fletcher16(s) = 256 * b[n] + a[n]

\* There are such functions.
LEMMA FletcherSteps ==
  ASSUME NEW n, NEW s, Message(s, n)
  PROVE  \E a, b : Fletcher(a, b, s, n)
<1>. n \in Nat \ {0} /\ n \in Nat /\ Len(s) = n /\ s \in [1 .. n -> C!Byte] /\ DOMAIN s = 1 .. n
  BY DEF Message
<1>. DEFINE W == C!Byte \X C!Byte
            start == <<255, 255>>
            body == [i \in 1 .. n |-> [sum \in W |-> <<Add(sum[1], s[i]), AddAll(sum[2], sum[1], s[i])>>]]
            last == C!Loop(body, start, n)
<1>1. C!Fletcher16(s) = 256 * last[2] + last[1]
  BY DEF C!Fletcher16, Add, AddAll
<1>3. start \in W
  BY DEF C!Byte
<1>4. \A i \in 1 .. n, v \in W : /\ body[i][v] = <<Add(v[1], s[i]), AddAll(v[2], v[1], s[i])>>
                                 /\ body[i][v] \in W
  <2>. TAKE i \in 1 .. n, v \in W
  <2>1. body[i][v] = <<Add(v[1], s[i]), AddAll(v[2], v[1], s[i])>>
    OBVIOUS
  <2>. HIDE DEF body
  <2>2. v[1] \in C!Byte /\ v[2] \in C!Byte /\ s[i] \in C!Byte
    OBVIOUS
  <2>3. Add(v[1], s[i]) \in C!Byte /\ AddAll(v[2], v[1], s[i]) \in C!Byte
    <3>. PICK p \in C!Byte, q \in C!Byte, r \in C!Byte : p = v[1] /\ q = v[2] /\ r = s[i]
      BY <2>2
    <3>1. Add(p, r) \in C!Byte
      BY AddIs
    <3>2. AddAll(q, p, r) \in C!Byte
      BY AddAllIs
    <3>. QED BY <3>1, <3>2
  <2>4. <<Add(v[1], s[i]), AddAll(v[2], v[1], s[i])>> \in W
    BY <2>3
  <2>. QED BY <2>1, <2>4
<1>. HIDE DEF body, start
<1>5. \A j \in 0 .. n : C!Loop(body, start, j) \in W
  <2>. HIDE DEF W
  <2>1. start \in W /\ \A i \in 1 .. n, v \in W : body[i][v] \in W
    BY <1>3, <1>4
  <2>. QED BY <2>1, LoopType, Zenon
<1>6. C!Loop(body, start, 0) = start
  BY LoopSteps
<1>7. \A j \in Nat : C!Loop(body, start, j + 1) = body[j + 1][C!Loop(body, start, j)]
  BY LoopSteps
<1>. DEFINE a == [j \in 0 .. n |-> C!Loop(body, start, j)[1]]
            b == [j \in 0 .. n |-> C!Loop(body, start, j)[2]]
<1>8. a \in [0 .. n -> C!Byte] /\ b \in [0 .. n -> C!Byte]
  <2>. \A j \in 0 .. n : C!Loop(body, start, j)[1] \in C!Byte /\ C!Loop(body, start, j)[2] \in C!Byte
    BY <1>5
  <2>. QED OBVIOUS
<1>9. a[0] = 255 /\ b[0] = 255
  BY <1>6 DEF start
<1>10. ASSUME NEW j \in 0 .. n - 1
       PROVE  a[j + 1] = Add(a[j], s[j + 1]) /\ b[j + 1] = AddAll(b[j], a[j], s[j + 1])
  <2>1. j \in Nat /\ j \in 0 .. n /\ j + 1 \in 0 .. n /\ j + 1 \in 1 .. n
    OBVIOUS
  <2>. PICK v \in W : v = C!Loop(body, start, j)
    BY <1>5, <2>1
  <2>2. C!Loop(body, start, j + 1) = body[j + 1][v]
    BY <1>7, <2>1
  <2>3. body[j + 1][v] = <<Add(v[1], s[j + 1]), AddAll(v[2], v[1], s[j + 1])>>
    BY <1>4, <2>1
  <2>4. a[j] = v[1] /\ b[j] = v[2]
    BY <2>1
  <2>5. a[j + 1] = C!Loop(body, start, j + 1)[1] /\ b[j + 1] = C!Loop(body, start, j + 1)[2]
    BY <2>1
  <2>. QED BY <2>2, <2>3, <2>4, <2>5
<1>11. C!Fletcher16(s) = 256 * b[n] + a[n]
  BY <1>1
<1>. HIDE DEF a, b
<1>12. Fletcher(a, b, s, n)
  BY <1>8, <1>9, <1>10, <1>11 DEF Fletcher
<1>. QED BY <1>12

\* The checksum has two bytes.
LEMMA FletcherType ==
  ASSUME NEW n, NEW s, Message(s, n)
  PROVE  C!Fletcher16(s) \in Nat /\ C!Fletcher16(s) \div 256 < 256
<1>. n \in Nat
  BY DEF Message
<1>1. PICK a, b : Fletcher(a, b, s, n)
  BY FletcherSteps
<1>2. a[n] \in C!Byte /\ b[n] \in C!Byte /\ C!Fletcher16(s) = 256 * b[n] + a[n]
  BY <1>1 DEF Fletcher
<1>. PICK p \in C!Byte, v \in C!Byte : C!Fletcher16(s) = 256 * p + v
  BY <1>2
<1>. QED BY TwoBytes

\* The change of a bit changes the first sum, from then on.
LEMMA FletcherOfChange ==
  ASSUME NEW n, NEW s, NEW t, NEW i, NEW k, Changed(s, t, n, i, k)
  PROVE  C!Fletcher16(t) # C!Fletcher16(s)
<1>. /\ Message(s, n) /\ Message(t, n) /\ n \in Nat \ {0} /\ n \in Nat /\ i \in 1 .. n /\ k \in 0 .. 7
     /\ s \in [1 .. n -> C!Byte] /\ t \in [1 .. n -> C!Byte]
     /\ \A j \in 1 .. n : j # i => t[j] = s[j]
  BY DEF Changed, Message
<1>1. s[i] # t[i]
  <2>1. PICK e \in {-1, 1} : t[i] = s[i] + e * 2 ^ k
    BY DEF Changed, Inverted
  <2>2. PICK c \in Nat : c = 2 ^ k /\ c >= 1
    BY PowerType
  <2>3. s[i] \in Int
    <3>. s[i] \in C!Byte
      OBVIOUS
    <3>. QED BY ByteIs
  <2>. PICK v \in Int : v = s[i]
    BY <2>3
  <2>4. t[i] = v + e * c
    BY <2>1, <2>2
  <2>. QED BY <2>2, <2>4
<1>2. PICK a, b : Fletcher(a, b, s, n)
  BY FletcherSteps
<1>3. PICK c, d : Fletcher(c, d, t, n)
  BY FletcherSteps
<1>. DEFINE Good == {j \in Nat : j <= n => IF j < i THEN a[j] = c[j] ELSE a[j] # c[j]}
<1>4. \A j \in 0 .. n : a[j] \in C!Byte /\ c[j] \in C!Byte
  BY <1>2, <1>3 DEF Fletcher
<1>5. 0 \in Good
  BY <1>2, <1>3 DEF Fletcher
<1>6. ASSUME NEW j \in Nat, j \in Good PROVE j + 1 \in Good
  <2>. SUFFICES ASSUME j + 1 <= n PROVE IF j + 1 < i THEN a[j + 1] = c[j + 1] ELSE a[j + 1] # c[j + 1]
    OBVIOUS
  <2>1. j \in 0 .. n - 1 /\ j \in 0 .. n /\ j + 1 \in 1 .. n
    OBVIOUS
  <2>2. a[j + 1] = Add(a[j], s[j + 1]) /\ c[j + 1] = Add(c[j], t[j + 1])
    BY <1>2, <1>3, <2>1 DEF Fletcher
  <2>3. IF j < i THEN a[j] = c[j] ELSE a[j] # c[j]
    BY <1>6, <2>1
  <2>4. a[j] \in C!Byte /\ c[j] \in C!Byte /\ s[j + 1] \in C!Byte /\ t[j + 1] \in C!Byte
    BY <1>4, <2>1
  <2>6. CASE j + 1 < i
    BY <2>1, <2>2, <2>3, <2>6
  <2>7. CASE j + 1 = i
    <3>1. a[j] = c[j] /\ s[j + 1] # t[j + 1]
      BY <1>1, <2>3, <2>7
    <3>2. Add(a[j], s[j + 1]) # Add(a[j], t[j + 1])
      BY <2>4, <3>1, SecondApart
    <3>. QED BY <2>2, <2>7, <3>1, <3>2
  <2>8. CASE j + 1 > i
    <3>1. a[j] # c[j] /\ s[j + 1] = t[j + 1]
      BY <2>1, <2>3, <2>8
    <3>2. Add(a[j], s[j + 1]) # Add(c[j], s[j + 1])
      BY <2>4, <3>1, FirstApart
    <3>. QED BY <2>2, <2>8, <3>1, <3>2
  <2>. QED BY <2>6, <2>7, <2>8
<1>. HIDE DEF Good
<1>7. Nat \subseteq Good
  BY <1>5, <1>6, Induction
<1>8. a[n] # c[n] /\ a[n] \in C!Byte /\ c[n] \in C!Byte /\ b[n] \in C!Byte /\ d[n] \in C!Byte
  BY <1>2, <1>3, <1>7 DEF Good, Fletcher
<1>9. C!Fletcher16(s) = 256 * b[n] + a[n] /\ C!Fletcher16(t) = 256 * d[n] + c[n]
  BY <1>2, <1>3 DEF Fletcher
<1>10. 256 * b[n] + a[n] # 256 * d[n] + c[n]
  BY <1>8, BytesApart
<1>. QED BY <1>9, <1>10

\* Two different neighbours that change places leave the first sum and change the second.
LEMMA FletcherOfSwap ==
  ASSUME NEW n, NEW s, NEW t, Message(s, n), Message(t, n), NEW i \in 1 .. n - 1,
         t[i] = s[i + 1], t[i + 1] = s[i], s[i] # s[i + 1], \A j \in 1 .. n : j # i /\ j # i + 1 => t[j] = s[j]
  PROVE  C!Fletcher16(t) # C!Fletcher16(s)
<1>. n \in Nat \ {0} /\ n \in Nat /\ s \in [1 .. n -> C!Byte] /\ t \in [1 .. n -> C!Byte]
  BY DEF Message
<1>2. PICK a, b : Fletcher(a, b, s, n)
  BY FletcherSteps
<1>3. PICK c, d : Fletcher(c, d, t, n)
  BY FletcherSteps
<1>4. /\ \A j \in 0 .. n : a[j] \in C!Byte /\ c[j] \in C!Byte /\ b[j] \in C!Byte /\ d[j] \in C!Byte
      /\ \A j \in 1 .. n : s[j] \in C!Byte /\ t[j] \in C!Byte
  BY <1>2, <1>3 DEF Fletcher
<1>. DEFINE Same(j) == a[j] = c[j] /\ b[j] = d[j]
            Other(j) == a[j] = c[j] /\ b[j] # d[j]
<1>5. ASSUME NEW j \in 0 .. n - 1
      PROVE  /\ a[j + 1] = Add(a[j], s[j + 1]) /\ b[j + 1] = AddAll(b[j], a[j], s[j + 1])
             /\ c[j + 1] = Add(c[j], t[j + 1]) /\ d[j + 1] = AddAll(d[j], c[j], t[j + 1])
  BY <1>2, <1>3 DEF Fletcher
<1>6. \A j \in 0 .. i - 1 : Same(j)
  <2>. DEFINE Good == {j \in Nat : j <= i - 1 => Same(j)}
  <2>1. 0 \in Good
    BY <1>2, <1>3 DEF Fletcher
  <2>2. ASSUME NEW j \in Nat, j \in Good PROVE j + 1 \in Good
    <3>. SUFFICES ASSUME j + 1 <= i - 1 PROVE Same(j + 1)
      OBVIOUS
    <3>1. j \in 0 .. n - 1 /\ j + 1 \in 1 .. n /\ j + 1 # i /\ j + 1 # i + 1 /\ Same(j)
      BY <2>2
    <3>2. s[j + 1] = t[j + 1]
      BY <3>1
    <3>. QED BY <1>5, <3>1, <3>2
  <2>. HIDE DEF Good
  <2>3. Nat \subseteq Good
    BY <2>1, <2>2, Induction
  <2>. QED BY <2>3 DEF Good
<1>7. Other(i + 1)
  <2>1. i - 1 \in 0 .. n - 1 /\ (i - 1) + 1 = i /\ i \in 0 .. n - 1 /\ i \in 1 .. n /\ i + 1 \in 1 .. n /\ i - 1 \in 0 .. n
    OBVIOUS
  <2>2. PICK z \in C!Byte, y \in C!Byte, u \in C!Byte, v \in C!Byte :
          z = a[i - 1] /\ y = b[i - 1] /\ u = s[i] /\ v = s[i + 1]
    BY <1>4, <2>1
  <2>3. z = c[i - 1] /\ y = d[i - 1]
    BY <1>6, <2>1, <2>2
  <2>4. /\ a[i] = Add(z, u) /\ b[i] = AddAll(y, z, u)
        /\ c[i] = Add(z, v) /\ d[i] = AddAll(y, z, v)
    <3>1. /\ a[(i - 1) + 1] = Add(a[i - 1], s[(i - 1) + 1])
          /\ b[(i - 1) + 1] = AddAll(b[i - 1], a[i - 1], s[(i - 1) + 1])
          /\ c[(i - 1) + 1] = Add(c[i - 1], t[(i - 1) + 1])
          /\ d[(i - 1) + 1] = AddAll(d[i - 1], c[i - 1], t[(i - 1) + 1])
      BY <1>5, <2>1
    <3>. QED BY <2>1, <2>2, <2>3, <3>1
  <2>5. /\ a[i + 1] = Add(a[i], v) /\ b[i + 1] = AddAll(b[i], a[i], v)
        /\ c[i + 1] = Add(c[i], u) /\ d[i + 1] = AddAll(d[i], c[i], u)
    BY <1>5, <2>1, <2>2
  <2>6. /\ Add(Add(z, u), v) = Add(Add(z, v), u)
        /\ AddAll(AddAll(y, z, u), Add(z, u), v) # AddAll(AddAll(y, z, v), Add(z, v), u)
    BY <2>2, AddSwapped
  <2>. QED BY <2>4, <2>5, <2>6
<1>8. \A j \in Nat : i + 1 + j <= n => Other(i + 1 + j)
  <2>. DEFINE Good == {j \in Nat : i + 1 + j <= n => Other(i + 1 + j)}
  <2>1. 0 \in Good
    BY <1>7
  <2>2. ASSUME NEW j \in Nat, j \in Good PROVE j + 1 \in Good
    <3>. SUFFICES ASSUME i + 1 + (j + 1) <= n PROVE Other(i + 1 + (j + 1))
      OBVIOUS
    <3>. PICK l \in 0 .. n - 1 : l = i + 1 + j
      OBVIOUS
    <3>1. Other(l) /\ i + 1 + (j + 1) = l + 1 /\ l + 1 # i /\ l + 1 # i + 1 /\ l + 1 \in 1 .. n /\ l \in 0 .. n
      BY <2>2
    <3>2. s[l + 1] = t[l + 1]
      BY <3>1
    <3>4. a[l + 1] = c[l + 1]
      BY <1>5, <3>1, <3>2
    <3>5. b[l + 1] # d[l + 1]
      <4>1. b[l] \in C!Byte /\ d[l] \in C!Byte /\ a[l] \in C!Byte /\ s[l + 1] \in C!Byte /\ b[l] # d[l]
        BY <1>4, <3>1
      <4>2. AddAll(b[l], a[l], s[l + 1]) # AddAll(d[l], a[l], s[l + 1])
        BY <4>1, AllApart
      <4>. QED BY <1>5, <3>1, <3>2, <4>2
    <3>. QED BY <3>1, <3>4, <3>5
  <2>. HIDE DEF Good
  <2>3. Nat \subseteq Good
    BY <2>1, <2>2, Induction
  <2>. QED BY <2>3 DEF Good
<1>9. Other(n)
  <2>. n - (i + 1) \in Nat /\ i + 1 + (n - (i + 1)) = n
    OBVIOUS
  <2>. QED BY <1>8
<1>10. C!Fletcher16(s) = 256 * b[n] + a[n] /\ C!Fletcher16(t) = 256 * d[n] + c[n]
  BY <1>2, <1>3 DEF Fletcher
<1>11. b[n] \in C!Byte /\ a[n] \in C!Byte /\ d[n] \in C!Byte /\ c[n] \in C!Byte /\ b[n] # d[n]
  BY <1>4, <1>9
<1>12. 256 * b[n] + a[n] # 256 * d[n] + c[n]
  BY <1>11, BytesApart
<1>. QED BY <1>10, <1>12

-----------------------------------------------------------------------------
(* Checksums: errors are detected.                                         *)

\* The inverted bit p of data s with checksum c, the latter of n bytes, makes t and d of them.
Hit(s, t, c, d, n, p) ==
  \/ p < 8 * n /\ Changed(s, t, n, (p \div 8) + 1, p % 8) /\ d = c
  \/ p >= 8 * n /\ t = s /\ \E e \in {-1, 1} : d = c + e * Worth(p - 8 * n)

\* One more error is a hit.
LEMMA ErrorIsHit ==
  ASSUME NEW n, NEW s, Message(s, n), NEW c \in Nat, c \div 256 < 256,
         NEW E, NEW p \in 0 .. 8 * n + 15, p \notin E
  PROVE  Hit(OnWire(s, E), OnWire(s, E \cup {p}), CheckOnWire(c, n, E), CheckOnWire(c, n, E \cup {p}), n, p)
<1>. n \in Nat \ {0} /\ n \in Nat /\ p \in Nat
  BY DEF Message
<1>1. CASE p < 8 * n
  <2>1. Changed(OnWire(s, E), OnWire(s, E \cup {p}), n, (p \div 8) + 1, p % 8)
    BY <1>1, MessageOfError
  <2>2. CheckOnWire(c, n, E \cup {p}) = CheckOnWire(c, n, E)
    BY <1>1, CheckOfError
  <2>. QED BY <1>1, <2>1, <2>2 DEF Hit
<1>2. CASE p >= 8 * n
  <2>1. OnWire(s, E \cup {p}) = OnWire(s, E)
    BY <1>2, MessageOfError
  <2>2. PICK q \in 0 .. 15 : q = p - 8 * n /\ p = 8 * n + q
    BY <1>2
  <2>3. \E e \in {-1, 1} : CheckOnWire(c, n, E \cup {p}) = CheckOnWire(c, n, E) + e * Worth(q)
    BY <2>2, CheckOfError
  <2>. QED BY <1>2, <2>1, <2>2, <2>3 DEF Hit
<1>. QED BY <1>1, <1>2

\* Without errors everything stays.
LEMMA NoError ==
  ASSUME NEW n, NEW s, Message(s, n), NEW c \in Nat, c \div 256 < 256
  PROVE  OnWire(s, {}) = s /\ CheckOnWire(c, n, {}) = c
<1>. n \in Nat \ {0}
  BY DEF Message
<1>1. OnWire(s, {}) = s
  BY 0 \in Nat, 0 \notin {}, MessageOfError
<1>2. CheckOnWire(c, n, {}) = c
  BY 0 \in Nat, 0 \notin {}, CheckOfError
<1>. QED BY <1>1, <1>2

\* The first error is a hit.
LEMMA OneHit ==
  ASSUME NEW n, NEW s, Message(s, n), NEW c \in Nat, c \div 256 < 256, NEW p \in 0 .. 8 * n + 15
  PROVE  Hit(s, OnWire(s, {p}), c, CheckOnWire(c, n, {p}), n, p)
<1>1. Hit(OnWire(s, {}), OnWire(s, {} \cup {p}), CheckOnWire(c, n, {}), CheckOnWire(c, n, {} \cup {p}), n, p)
  BY p \notin {}, ErrorIsHit
<1>2. {} \cup {p} = {p}
  OBVIOUS
<1>. QED BY <1>1, <1>2, NoError

\* Two errors are two hits.
LEMMA TwoHits ==
  ASSUME NEW n, NEW s, Message(s, n), NEW c \in Nat, c \div 256 < 256,
         NEW p \in 0 .. 8 * n + 15, NEW q \in 0 .. 8 * n + 15, p # q
  PROVE  /\ Hit(s, OnWire(s, {p}), c, CheckOnWire(c, n, {p}), n, p)
         /\ Hit(OnWire(s, {p}), OnWire(s, {p, q}), CheckOnWire(c, n, {p}), CheckOnWire(c, n, {p, q}), n, q)
<1>1. Hit(OnWire(s, {p}), OnWire(s, {p} \cup {q}), CheckOnWire(c, n, {p}), CheckOnWire(c, n, {p} \cup {q}), n, q)
  BY q \notin {p}, ErrorIsHit
<1>2. {p} \cup {q} = {p, q}
  OBVIOUS
<1>. QED BY <1>1, <1>2, OneHit

\* A checksum does not stay under one error of its own, nor under two.
LEMMA CheckApart ==
  ASSUME NEW c \in Int, NEW q \in 0 .. 15, NEW r \in 0 .. 15, q # r, NEW e \in {-1, 1}, NEW f \in {-1, 1}
  PROVE  /\ c + e * Worth(q) # c
         /\ c + e * Worth(q) + f * Worth(r) # c
<1>. PICK v \in Nat : v = Worth(q) /\ v >= 1
  BY WorthType
<1>. PICK y \in Nat : y = Worth(r) /\ y >= 1
  BY WorthType
<1>1. v # y
  BY WorthApart
<1>2. c + e * v # c /\ c + e * v + f * y # c
  BY <1>1
<1>. QED BY <1>2

\* The two bits of the data, or the bit of the data and that of the checksum.
LEMMA PlainSum ==
  ASSUME NEW m \in Nat, m >= 3, m % 2 = 1, NEW w \in {8, 16}, m <= 256 \/ w = 16,
         NEW n, NEW s, Message(s, n), NEW c \in Nat, c = Sum(s, m, w), c \div 256 < 256
  PROVE  /\ \A p \in 0 .. 8 * n + 15 : Sum(OnWire(s, {p}), m, w) # CheckOnWire(c, n, {p})
         /\ \A bits \in Nat, p \in 0 .. 8 * n + 15, q \in 0 .. 8 * n + 15 :
              C!Distinguishes(m, bits) /\ bits >= 8 * n + w /\ p < q =>
                Sum(OnWire(s, {p, q}), m, w) # CheckOnWire(c, n, {p, q})
<1>. n \in Nat \ {0} /\ n \in Nat
  BY DEF Message
<1>1. ASSUME NEW p \in 0 .. 8 * n + 15 PROVE Sum(OnWire(s, {p}), m, w) # CheckOnWire(c, n, {p})
  <2>1. Hit(s, OnWire(s, {p}), c, CheckOnWire(c, n, {p}), n, p)
    BY OneHit
  <2>2. CASE p < 8 * n
    <3>1. PICK i, k : Changed(s, OnWire(s, {p}), n, i, k) /\ CheckOnWire(c, n, {p}) = c
      BY <2>1, <2>2 DEF Hit
    <3>. QED BY <3>1, SumOfOne
  <2>3. CASE p >= 8 * n
    <3>. PICK q \in 0 .. 15, r \in 0 .. 15 : q = p - 8 * n /\ q # r
      BY <2>3
    <3>1. PICK e \in {-1, 1} : CheckOnWire(c, n, {p}) = c + e * Worth(q) /\ OnWire(s, {p}) = s
      BY <2>1, <2>3 DEF Hit
    <3>2. c + e * Worth(q) # c
      BY CheckApart
    <3>. QED BY <3>1, <3>2
  <2>. QED BY <2>2, <2>3
<1>2. ASSUME NEW bits \in Nat, NEW p \in 0 .. 8 * n + 15, NEW q \in 0 .. 8 * n + 15,
             C!Distinguishes(m, bits), bits >= 8 * n + w, p < q
      PROVE  Sum(OnWire(s, {p, q}), m, w) # CheckOnWire(c, n, {p, q})
  <2>. PICK t, d : t = OnWire(s, {p}) /\ d = CheckOnWire(c, n, {p})
    OBVIOUS
  <2>. PICK u, f : u = OnWire(s, {p, q}) /\ f = CheckOnWire(c, n, {p, q})
    OBVIOUS
  <2>. p # q
    BY <1>2
  <2>1. Hit(s, t, c, d, n, p) /\ Hit(t, u, d, f, n, q)
    BY TwoHits
  <2>2. CASE q < 8 * n
    <3>1. Changed(s, t, n, (p \div 8) + 1, p % 8) /\ Changed(t, u, n, (q \div 8) + 1, q % 8) /\ f = c
      BY <1>2, <2>1, <2>2 DEF Hit
    <3>2. (p \div 8) + 1 # (q \div 8) + 1 \/ p % 8 # q % 8
      BY <1>2
    <3>3. bits >= 8 * n /\ C!Distinguishes(m, bits)
      BY <1>2
    <3>. PICK i, j, k, l : /\ Changed(s, t, n, i, k) /\ Changed(t, u, n, j, l) /\ (i # j \/ k # l)
      BY <3>1, <3>2
    <3>4. Sum(u, m, w) # Sum(s, m, w)
      BY <3>3, SumOfTwo
    <3>. QED BY <3>1, <3>4
  <2>3. CASE p < 8 * n /\ q >= 8 * n
    <3>. PICK r \in 0 .. 15 : r = q - 8 * n
      BY <2>3
    <3>0. PICK i, k : Changed(s, t, n, i, k) /\ d = c
      BY <2>1, <2>3 DEF Hit
    <3>5. PICK e \in {-1, 1} : u = t /\ f = d + e * Worth(r)
      BY <2>1, <2>3 DEF Hit
    <3>1. Changed(s, t, n, i, k) /\ u = t /\ f = c + e * Worth(r)
      BY <3>0, <3>5
    <3>2. Message(t, n) /\ Sum(t, m, w) \in 0 .. m - 1
      BY <3>1, SumType DEF Changed
    <3>3. CASE r < w
      BY <1>2, <3>1, <3>3, SumAndCheck
    <3>4. CASE r >= w
      <4>1. w = 8 /\ r >= 8 /\ m <= 256
        BY <3>4
      <4>. PICK v \in Nat, y \in 0 .. m - 1 : v = Worth(r) /\ v >= 256 /\ y = Sum(t, m, w)
        BY <4>1, <3>2, WorthType
      <4>2. c \in 0 .. m - 1
        BY SumType
      <4>3. y # c + e * v
        BY <4>1, <4>2
      <4>. QED BY <3>1, <4>3
    <3>. QED BY <3>3, <3>4
  <2>4. CASE p >= 8 * n
    <3>. PICK r \in 0 .. 15, z \in 0 .. 15 : r = p - 8 * n /\ z = q - 8 * n /\ r # z
      BY <1>2, <2>4
    <3>1. PICK e \in {-1, 1} : d = c + e * Worth(r) /\ t = s
      BY <1>2, <2>1, <2>4 DEF Hit
    <3>2. PICK g \in {-1, 1} : f = d + g * Worth(z) /\ u = t
      BY <1>2, <2>1, <2>4 DEF Hit
    <3>3. c + e * Worth(r) + g * Worth(z) # c
      BY CheckApart
    <3>. QED BY <3>1, <3>2, <3>3
  <2>. QED BY <1>2, <2>2, <2>3, <2>4
<1>. QED BY <1>1, <1>2

\* The first bit of a byte is that of its parity.
LEMMA FirstBit ==
  ASSUME NEW b \in C!Byte
  PROVE  C!ByteOf(SymDiff(C!Bits(b), {0})) = IF b % 2 = 1 THEN b - 1 ELSE b + 1
<1>. PICK w, v : w = C!Bits(b) /\ v = SymDiff(C!Bits(b), {0})
  OBVIOUS
<1>1. C!ByteOf(w) = b
  BY ValueOfBits
<1>2. (0 \in w) <=> (b % 2 = 1)
  BY BitsOfByte
<1>3. /\ (0 \in v) <=> ~ (0 \in w)
      /\ \A j \in 1 .. 7 : (j \in v) <=> (j \in w)
  BY DEF SymDiff
<1>. PICK r : r = 2 * (IF 1 \in w THEN 1 ELSE 0) + 4 * (IF 2 \in w THEN 1 ELSE 0) + 8 * (IF 3 \in w THEN 1 ELSE 0)
                  + 16 * (IF 4 \in w THEN 1 ELSE 0) + 32 * (IF 5 \in w THEN 1 ELSE 0)
                  + 64 * (IF 6 \in w THEN 1 ELSE 0) + 128 * (IF 7 \in w THEN 1 ELSE 0)
  OBVIOUS
<1>4. r \in Int
  OBVIOUS
<1>5. C!ByteOf(w) = (IF 0 \in w THEN 1 ELSE 0) + r
  BY DEF C!ByteOf
<1>6. C!ByteOf(v) = (IF 0 \in v THEN 1 ELSE 0) + r
  BY <1>3 DEF C!ByteOf
<1>7. CASE 0 \in w
  BY <1>1, <1>2, <1>3, <1>4, <1>5, <1>6, <1>7
<1>8. CASE 0 \notin w
  BY <1>1, <1>2, <1>3, <1>4, <1>5, <1>6, <1>8
<1>. QED BY <1>7, <1>8

\* c is v with the parity y.
IsPair(c, v, y) == c = 2 * v + y

\* An error in the lowest bit of a checksum inverts the parity and keeps the sum.
LEMMA FirstBitOfCheck ==
  ASSUME NEW n \in Nat \ {0}, NEW v \in Nat, NEW y \in {0, 1}, NEW c \in Nat, c \div 256 < 256, IsPair(c, v, y)
  PROVE  IsPair(CheckOnWire(c, n, {8 * n}), v, 1 - y)
<1>0. c = 2 * v + y
  BY DEF IsPair
<1>. DEFINE E == {8 * n}
<1>. PICK lo \in Nat, hi \in Nat : lo = c % 256 /\ hi = c \div 256
  OBVIOUS
<1>1. c = lo + 256 * hi /\ lo < 256 /\ hi < 256
  OBVIOUS
<1>2. lo \in C!Byte /\ hi \in C!Byte
  BY <1>1, ByteIs
<1>3. ByteOnWire(hi, n + 2, E) = hi
  <2>1. \A k \in 0 .. 7 : 8 * ((n + 2) - 1) + k \notin E
    OBVIOUS
  <2>. QED BY <1>2, <2>1, n + 2 \in Nat \ {0}, ByteKept
<1>4. ErrorsOf(n + 1, E) = {0}
  BY DEF ErrorsOf
<1>5. ByteOnWire(lo, n + 1, E) = IF lo % 2 = 1 THEN lo - 1 ELSE lo + 1
  BY <1>2, <1>4, FirstBit, ZenonT(30) DEF ByteOnWire
<1>6. CheckOnWire(c, n, E) = ByteOnWire(lo, n + 1, E) + 256 * ByteOnWire(hi, n + 2, E)
  BY DEF CheckOnWire
<1>. HIDE DEF E
<1>7. lo % 2 = y
  <2>. PICK z \in Int : z = v - 128 * hi
    OBVIOUS
  <2>1. lo = 2 * z + y
    BY <1>0, <1>1
  <2>2. (2 * z + y) % 2 = y
    OBVIOUS
  <2>. QED BY <2>1, <2>2
<1>8. CheckOnWire(c, n, E) = (IF lo % 2 = 1 THEN lo - 1 ELSE lo + 1) + 256 * hi
  BY <1>3, <1>5, <1>6
<1>9. CheckOnWire(c, n, E) = IF y = 1 THEN c - 1 ELSE c + 1
  BY <1>1, <1>7, <1>8
<1>10. CheckOnWire(c, n, E) = 2 * v + (1 - y)
  BY <1>0, <1>9
<1>. QED BY <1>10 DEF E, IsPair

\* The sum with the parity, which takes the place of its lowest bit.
Paired(s, m, w) == 2 * Sum(s, m, w) + ParityOf(s)

\* What it is made of.
LEMMA PairedType ==
  ASSUME NEW m \in Nat \ {0}, NEW w \in {8, 16}, NEW n, NEW s, Message(s, n)
  PROVE  Sum(s, m, w) \in Nat /\ ParityOf(s) \in {0, 1} /\ Paired(s, m, w) \in Nat
<1>1. Sum(s, m, w) \in Nat
  BY SumType
<1>2. ParityOf(s) \in {0, 1}
  <2>. n \in Nat /\ {} \in SUBSET (0 .. 8 * n - 1)
    BY DEF Message
  <2>. QED BY ParityOfErrors
<1>. QED BY <1>1, <1>2 DEF Paired

\* Pairs of different things differ.
LEMMA PairsApart ==
  ASSUME NEW v \in Int, NEW y \in Int, NEW a \in {0, 1}, NEW b \in {0, 1}, v # y \/ a # b
  PROVE  2 * v + a # 2 * y + b
  OBVIOUS

\* The sum with the parity does not change as its checksum does, under one error.
LEMMA PairedOne ==
  ASSUME NEW m \in Nat, NEW w \in {8, 16}, NEW n, NEW s, NEW c \in Nat, NEW p \in 0 .. 8 * n + 15,
         m >= 3, m % 2 = 1, Message(s, n), c = Paired(s, m, w), c \div 256 < 256
  PROVE  Paired(OnWire(s, {p}), m, w) # CheckOnWire(c, n, {p})
<1>. n \in Nat \ {0} /\ n \in Nat /\ m \in Nat \ {0}
  BY DEF Message
<1>. PICK v \in Nat, y \in {0, 1} : v = Sum(s, m, w) /\ y = ParityOf(s)
  BY PairedType
<1>10. c = 2 * v + y
  BY DEF Paired
<1>11. IsPair(c, v, y)
  BY <1>10 DEF IsPair
<1>1. Hit(s, OnWire(s, {p}), c, CheckOnWire(c, n, {p}), n, p)
  BY OneHit
<1>2. CASE p < 8 * n
  <2>1. PICK i, k : Changed(s, OnWire(s, {p}), n, i, k) /\ CheckOnWire(c, n, {p}) = c
    BY <1>1, <1>2 DEF Hit
  <2>5. ParityOf(OnWire(s, {p})) = 1 - ParityOf(s)
    BY <2>1, ParityOfChange
  <2>2. Message(OnWire(s, {p}), n) /\ ParityOf(OnWire(s, {p})) = 1 - y
    BY <2>1, <2>5 DEF Changed
  <2>3. PICK z \in Nat : z = Sum(OnWire(s, {p}), m, w)
    BY <2>2, PairedType
  <2>4. 2 * z + (1 - y) # 2 * v + y
    BY PairsApart
  <2>. QED BY <1>10, <2>1, <2>2, <2>3, <2>4 DEF Paired
<1>3. CASE p >= 8 * n
  <2>. PICK q \in 0 .. 15, r \in 0 .. 15 : q = p - 8 * n /\ q # r
    BY <1>3
  <2>1. PICK e \in {-1, 1} : CheckOnWire(c, n, {p}) = c + e * Worth(q) /\ OnWire(s, {p}) = s
    BY <1>1, <1>3 DEF Hit
  <2>2. c + e * Worth(q) # c
    BY CheckApart
  <2>. QED BY <2>1, <2>2
<1>. QED BY <1>2, <1>3

\* Nor under two, if the modulus distinguishes the bits of the data.
LEMMA PairedTwo ==
  ASSUME NEW m \in Nat, NEW w \in {8, 16}, NEW n, NEW s, NEW c \in Nat, NEW bits \in Nat,
         NEW p \in 0 .. 8 * n + 15, NEW q \in 0 .. 8 * n + 15,
         m >= 3, m % 2 = 1, Message(s, n), c = Paired(s, m, w), c \div 256 < 256,
         C!Distinguishes(m, bits), bits >= 8 * n, p < q
  PROVE  Paired(OnWire(s, {p, q}), m, w) # CheckOnWire(c, n, {p, q})
<1>. n \in Nat \ {0} /\ n \in Nat /\ m \in Nat \ {0}
  BY DEF Message
<1>. PICK v \in Nat, y \in {0, 1} : v = Sum(s, m, w) /\ y = ParityOf(s)
  BY PairedType
<1>10. c = 2 * v + y
  BY DEF Paired
<1>11. IsPair(c, v, y)
  BY <1>10 DEF IsPair
<1>. PICK t, d : t = OnWire(s, {p}) /\ d = CheckOnWire(c, n, {p})
  OBVIOUS
<1>. PICK u, f : u = OnWire(s, {p, q}) /\ f = CheckOnWire(c, n, {p, q})
  OBVIOUS
<1>. p # q
  OBVIOUS
<1>1. Hit(s, t, c, d, n, p) /\ Hit(t, u, d, f, n, q)
  BY TwoHits
<1>2. CASE q < 8 * n
  <2>1. Changed(s, t, n, (p \div 8) + 1, p % 8) /\ Changed(t, u, n, (q \div 8) + 1, q % 8) /\ f = c
    BY <1>1, <1>2 DEF Hit
  <2>2. (p \div 8) + 1 # (q \div 8) + 1 \/ p % 8 # q % 8
    OBVIOUS
  <2>3. bits >= 8 * n /\ C!Distinguishes(m, bits)
    OBVIOUS
  <2>. PICK i, j, k, l : Changed(s, t, n, i, k) /\ Changed(t, u, n, j, l) /\ (i # j \/ k # l)
    BY <2>1, <2>2
  <2>4. Sum(u, m, w) # Sum(s, m, w)
    BY <2>3, SumOfTwo
  <2>5. ParityOf(u) = y /\ Message(u, n)
    <3>1. ParityOf(t) = 1 - y
      BY ParityOfChange
    <3>2. ParityOf(u) = 1 - ParityOf(t)
      BY ParityOfChange
    <3>. QED BY <3>1, <3>2 DEF Changed
  <2>6. PICK z \in Nat : z = Sum(u, m, w)
    BY <2>5, PairedType
  <2>7. 2 * z + y # 2 * v + y
    BY <2>4, <2>6
  <2>. QED BY <1>10, <2>1, <2>5, <2>6, <2>7 DEF Paired
<1>3. CASE p < 8 * n /\ q >= 8 * n
  <2>. PICK r \in 0 .. 15 : r = q - 8 * n
    BY <1>3
  <2>0. PICK i, k : Changed(s, t, n, i, k) /\ d = c
    BY <1>1, <1>3 DEF Hit
  <2>1. PICK e \in {-1, 1} : u = t /\ f = d + e * Worth(r)
    BY <1>1, <1>3 DEF Hit
  <2>6. ParityOf(t) = 1 - ParityOf(s)
    BY <2>0, ParityOfChange
  <2>2. Message(t, n) /\ ParityOf(t) = 1 - y
    BY <2>0, <2>6 DEF Changed
  <2>. PICK z \in Nat : z = Sum(t, m, w)
    BY <2>2, PairedType
  <2>3. Paired(t, m, w) = 2 * z + (1 - y)
    BY <2>2 DEF Paired
  <2>4. CASE r # 0
    <3>. PICK h \in Nat : h = Worth(r) /\ h % 2 = 0
      BY <2>4, WorthType
    <3>. PICK g \in Nat : h = 2 * g
      OBVIOUS
    <3>1. f = 2 * v + y + e * (2 * g)
      BY <1>10, <2>0, <2>1
    <3>2. 2 * z + (1 - y) # 2 * v + y + e * (2 * g)
      <4>1. CASE e = 1
        <5>. 2 * z + (1 - y) # 2 * (v + g) + y
          BY PairsApart
        <5>. QED BY <4>1
      <4>2. CASE e = -1
        <5>. 2 * z + (1 - y) # 2 * (v - g) + y
          BY PairsApart
        <5>. QED BY <4>2
      <4>. QED BY <4>1, <4>2
    <3>. QED BY <2>1, <2>3, <3>1, <3>2
  <2>5. CASE r = 0
    <3>1. q = 8 * n /\ p \in Nat /\ p < 8 * n /\ p \notin {8 * n}
      BY <1>3, <2>5
    <3>2. CheckOnWire(c, n, {8 * n} \cup {p}) = CheckOnWire(c, n, {8 * n})
      BY <3>1, CheckOfError
    <3>3. {8 * n} \cup {p} = {p, q}
      BY <3>1
    <3>0. IsPair(CheckOnWire(c, n, {8 * n}), v, 1 - y)
      BY <1>11, FirstBitOfCheck
    <3>4. CheckOnWire(c, n, {8 * n}) = 2 * v + (1 - y)
      BY <3>0 DEF IsPair
    <3>5. f = 2 * v + (1 - y)
      BY <3>2, <3>3, <3>4
    <3>6. z # v
      BY <2>0, SumOfOne
    <3>7. 2 * z + (1 - y) # 2 * v + (1 - y)
      BY <3>6
    <3>. QED BY <2>1, <2>3, <3>5, <3>7
  <2>. QED BY <2>4, <2>5
<1>4. CASE p >= 8 * n
  <2>. PICK r \in 0 .. 15, z \in 0 .. 15 : r = p - 8 * n /\ z = q - 8 * n /\ r # z
    BY <1>4
  <2>1. PICK e \in {-1, 1} : d = c + e * Worth(r) /\ t = s
    BY <1>1, <1>4 DEF Hit
  <2>2. PICK g \in {-1, 1} : f = d + g * Worth(z) /\ u = t
    BY <1>1, <1>4 DEF Hit
  <2>3. c + e * Worth(r) + g * Worth(z) # c
    BY CheckApart
  <2>. QED BY <2>1, <2>2, <2>3
<1>. QED BY <1>2, <1>3, <1>4

\* An odd number of errors in the data changes the parity.
LEMMA PairedOdd ==
  ASSUME NEW m \in Nat \ {0}, NEW w \in {8, 16}, NEW n, NEW s, Message(s, n),
         NEW c \in Nat, c = Paired(s, m, w), c \div 256 < 256,
         NEW E \in SUBSET (0 .. 8 * n - 1), Cardinality(E) % 2 = 1
  PROVE  Paired(OnWire(s, E), m, w) # CheckOnWire(c, n, E)
<1>. n \in Nat \ {0} /\ n \in Nat
  BY DEF Message
<1>. PICK g \in Nat, y \in {0, 1} : g = Sum(s, m, w) /\ y = ParityOf(s)
  BY PairedType
<1>1. CheckOnWire(c, n, E) = 2 * g + y
  <2>1. 8 * n + 16 \in Nat /\ 8 * n + 16 \notin E /\ \A q \in 0 .. 15 : 8 * n + q \notin E
    OBVIOUS
  <2>2. CheckOnWire(c, n, E) = c
    BY <2>1, CheckOfError
  <2>. QED BY <2>2 DEF Paired
<1>2. Message(OnWire(s, E), n)
  <2>. 8 * n + 16 \in Nat /\ 8 * n + 16 \notin E
    OBVIOUS
  <2>. QED BY MessageOfError
<1>3. ParityOf(OnWire(s, E)) # y
  <2>. PICK l \in Nat : l = Cardinality(E)
    BY ParityOfErrors
  <2>1. ParityOf(OnWire(s, E)) = (y + l) % 2
    BY ParityOfErrors
  <2>. QED BY <2>1
<1>. PICK z \in Nat, v \in {0, 1} : z = Sum(OnWire(s, E), m, w) /\ v = ParityOf(OnWire(s, E))
  BY <1>2, PairedType
<1>4. 2 * z + v # 2 * g + y
  BY <1>3, PairsApart
<1>. QED BY <1>1, <1>4 DEF Paired

\* To take in nothing is to shift.
LEMMA TakeInNothing ==
  ASSUME NEW m \in Nat \ {0}, NEW a \in Nat
  PROVE  TakeIn(a, 0, m) = (a * 256) % m /\ TakeIn(a, 0, m) \in Nat
<1>. PICK b \in Nat : b = a * 256
  OBVIOUS
<1>1. 256 * a + 0 = b
  OBVIOUS
<1>2. TakeIn(a, 0, m) = b % m
  BY <1>1 DEF TakeIn
<1>3. b % m \in Nat
  BY CongruentRemainder
<1>. QED BY <1>2, <1>3

\* What congruent numbers leave, shifted.
SameRemainder(v, y, m) == v % m = y % m

\* Congruent numbers leave the same, shifted.
LEMMA ShiftOfSame ==
  ASSUME NEW m \in Nat \ {0}, NEW c \in Int, NEW b \in Int, Congruent(c, b, m)
  PROVE  SameRemainder(c * 256, b * 256, m)
<1>. PICK g \in Int, h \in Int : g = 256 * c /\ h = 256 * b
  OBVIOUS
<1>1. m \in Nat \ {0} /\ m \in Nat /\ 256 \in Int /\ g \in Int /\ h \in Int
  OBVIOUS
<1>2. Congruent(256 * c, 256 * b, m)
  BY <1>1, CongruentTimes
<1>3. Congruent(g, h, m)
  BY <1>2
<1>4. g % m = h % m
  BY <1>1, <1>3, RemaindersEqual, ZenonT(30)
<1>5. c * 256 = g /\ b * 256 = h
  OBVIOUS
<1>. QED BY <1>4, <1>5 DEF SameRemainder

\* To take in nothing twice is to shift by two bytes.
LEMMA TakeInNothingTwice ==
  ASSUME NEW m \in Nat \ {0}, NEW a \in Nat
  PROVE  /\ TakeIn(TakeIn(a, 0, m), 0, m) = (((a * 256) % m) * 256) % m
         /\ TakeIn(TakeIn(a, 0, m), 0, m) = (a * 65536) % m
<1>. PICK b \in Nat : b = a * 256
  OBVIOUS
<1>. PICK c \in Nat : c = b % m /\ c = TakeIn(a, 0, m)
  BY TakeInNothing
<1>1. TakeIn(c, 0, m) = (c * 256) % m
  BY TakeInNothing
<1>2. SameRemainder(c * 256, b * 256, m)
  <2>0. m \in Nat \ {0} /\ b \in Int
    OBVIOUS
  <2>1. Congruent(b % m, b, m)
    BY <2>0, CongruentRemainder, Zenon
  <2>2. Congruent(c, b, m) /\ c \in Int /\ b \in Int /\ m \in Nat \ {0}
    BY <2>1
  <2>. QED BY <2>2, ShiftOfSame, ZenonT(30)
<1>3. b * 256 = a * 65536
  OBVIOUS
<1>. QED BY <1>1, <1>2, <1>3 DEF SameRemainder

\* The checksums of Koopman are sums, those with parity pairs.
LEMMA KoopmanSums ==
  ASSUME NEW n, NEW s, Message(s, n)
  PROVE  /\ C!Koopman8(s) = Sum(s, 253, 8)
         /\ C!Koopman16(s) = Sum(s, 65519, 16)
         /\ C!Koopman8p(s) = Paired(s, 125, 8)
         /\ C!Koopman16p(s) = Paired(s, 32749, 16)
<1>1. \A m \in Nat \ {0} : C!Reduce(s, m) \in Nat
  <2>. TAKE m \in Nat \ {0}
  <2>. QED BY SumType
<1>2. /\ 253 \in Nat \ {0} /\ 65519 \in Nat \ {0} /\ 125 \in Nat \ {0} /\ 32749 \in Nat \ {0}
  OBVIOUS
<1>3. C!Koopman8(s) = Sum(s, 253, 8)
  BY <1>1, <1>2, TakeInNothing DEF C!Koopman8, Sum
<1>4. C!Koopman16(s) = Sum(s, 65519, 16)
  BY <1>1, <1>2, TakeInNothingTwice DEF C!Koopman16, Sum
<1>5. C!Koopman8p(s) = Paired(s, 125, 8)
  BY <1>1, <1>2, TakeInNothing DEF C!Koopman8p, Sum, Paired, ParityOf
<1>6. C!Koopman16p(s) = Paired(s, 32749, 16)
  BY <1>1, <1>2, TakeInNothingTwice DEF C!Koopman16p, Sum, Paired, ParityOf
<1>. QED BY <1>3, <1>4, <1>5, <1>6

\* They have two bytes.
LEMMA SumHasTwoBytes ==
  ASSUME NEW m \in Nat \ {0}, m \div 256 < 256, NEW w \in {8, 16}, NEW n, NEW s, Message(s, n)
  PROVE  Sum(s, m, w) \in Nat /\ Sum(s, m, w) \div 256 < 256
<1>. PICK c \in 0 .. m - 1 : c = Sum(s, m, w)
  BY SumType
<1>1. c \in Nat /\ c \div 256 < 256
  OBVIOUS
<1>. QED BY <1>1

\* So have those with parity.
LEMMA PairHasTwoBytes ==
  ASSUME NEW m \in Nat \ {0}, (2 * m) \div 256 < 256, NEW w \in {8, 16}, NEW n, NEW s, Message(s, n)
  PROVE  Paired(s, m, w) \in Nat /\ Paired(s, m, w) \div 256 < 256
<1>. PICK v \in 0 .. m - 1, y \in {0, 1} : v = Sum(s, m, w) /\ y = ParityOf(s)
  BY SumType, PairedType
<1>. PICK c \in Nat : c = 2 * v + y
  OBVIOUS
<1>1. c \div 256 < 256
  OBVIOUS
<1>2. Paired(s, m, w) = c
  BY DEF Paired
<1>. QED BY <1>1, <1>2

\* An error in the data or in the checksum of Fletcher.
LEMMA FletcherError ==
  ASSUME NEW n, NEW s, Message(s, n), NEW p \in 0 .. 8 * n + 15
  PROVE  C!Fletcher16(OnWire(s, {p})) # CheckOnWire(C!Fletcher16(s), n, {p})
<1>. n \in Nat \ {0} /\ n \in Nat
  BY DEF Message
<1>. PICK c \in Nat : c = C!Fletcher16(s) /\ c \div 256 < 256
  BY FletcherType
<1>1. Hit(s, OnWire(s, {p}), c, CheckOnWire(c, n, {p}), n, p)
  BY OneHit
<1>2. CASE p < 8 * n
  <2>1. PICK i, k : Changed(s, OnWire(s, {p}), n, i, k) /\ CheckOnWire(c, n, {p}) = c
    BY <1>1, <1>2 DEF Hit
  <2>. QED BY <2>1, FletcherOfChange
<1>3. CASE p >= 8 * n
  <2>. PICK q \in 0 .. 15, r \in 0 .. 15 : q = p - 8 * n /\ q # r
    BY <1>3
  <2>1. PICK e \in {-1, 1} : CheckOnWire(c, n, {p}) = c + e * Worth(q) /\ OnWire(s, {p}) = s
    BY <1>1, <1>3 DEF Hit
  <2>2. c + e * Worth(q) # c
    BY CheckApart
  <2>. QED BY <2>1, <2>2
<1>. QED BY <1>2, <1>3

\* The parity of a word is that of the number of its ones.
LEMMA ParityOfWord ==
  ASSUME NEW w \in SUBSET (0 .. 31)
  PROVE  C!Parity32(w) = Cardinality(w) % 2
<1>. DEFINE Good == {l \in Nat : \A v \in SUBSET (0 .. 31) : Cardinality(v) = l => C!Parity32(v) = l % 2}
<1>1. \A v \in SUBSET (0 .. 31) : IsFiniteSet(v) /\ Cardinality(v) \in Nat
  <2>1. IsFiniteSet(0 .. 31)
    BY 0 \in Int, 31 \in Int, FS_Interval, Zenon
  <2>. QED BY <2>1, FS_Subset, FS_CardinalityType
<1>2. 0 \in Good
  <2>. SUFFICES ASSUME NEW v \in SUBSET (0 .. 31), Cardinality(v) = 0 PROVE C!Parity32(v) = 0 % 2
    OBVIOUS
  <2>1. v = {}
    BY <1>1, FS_EmptySet
  <2>2. Nibbles(v) = {}
    BY <2>1 DEF Nibbles, Twice, Once, SymDiff, C!ShiftRight
  <2>3. Cardinality(Nibbles(v)) = 0
    BY <2>2, FS_EmptySet
  <2>4. C!Parity32(v) = Cardinality(Nibbles(v)) % 2
    BY ParityOfNibbles
  <2>. QED BY <2>3, <2>4
<1>3. ASSUME NEW l \in Nat, l \in Good PROVE l + 1 \in Good
  <2>. SUFFICES ASSUME NEW v \in SUBSET (0 .. 31), Cardinality(v) = l + 1 PROVE C!Parity32(v) = (l + 1) % 2
    OBVIOUS
  <2>1. v # {}
    BY FS_EmptySet
  <2>2. PICK p \in v : TRUE
    BY <2>1
  <2>. DEFINE u == v \ {p}
  <2>3. u \in SUBSET (0 .. 31) /\ v = u \cup {p} /\ p \notin u /\ p \in 0 .. 31
    OBVIOUS
  <2>4. v = SymDiff(u, {p})
    BY <2>3 DEF SymDiff
  <2>. HIDE DEF u
  <2>5. Cardinality(u) = l
    <3>1. IsFiniteSet(u) /\ Cardinality(u) \in Nat
      BY <1>1, <2>3
    <3>2. Cardinality(u \cup {p}) = Cardinality(u) + 1
      BY <2>3, <3>1, FS_AddElement
    <3>. QED BY <2>3, <3>1, <3>2
  <2>6. C!Parity32(u) = l % 2
    BY <1>3, <2>3, <2>5
  <2>7. C!Parity32(v) = 1 - C!Parity32(u)
    BY <2>3, <2>4, ParityOfFlip
  <2>8. 1 - (l % 2) = (l + 1) % 2
    OBVIOUS
  <2>. QED BY <2>6, <2>7, <2>8
<1>. HIDE DEF Good
<1>4. Nat \subseteq Good
  BY <1>2, <1>3, Induction
<1>. QED BY <1>1, <1>4 DEF Good

\* There are data, and the errors are bits of what is on the wire.
ChecksumsInv == data \in Data /\ flipped \in SUBSET C!Bit

\* They start in the invariant.
LEMMA ChecksumsInit == C!Init => ChecksumsInv
  BY DEF C!Init, ChecksumsInv

\* A step, which inverts one more bit, keeps it.
LEMMA ChecksumsStep ==
  ASSUME ChecksumsInv, C!Next
  PROVE  ChecksumsInv'
<1>1. PICK p \in C!Bit \ flipped : C!Flip(p)
  BY DEF C!Next
<1>2. data' = data /\ flipped' = flipped \cup {p}
  BY <1>1 DEF C!Flip
<1>. QED BY <1>1, <1>2 DEF ChecksumsInv, C!Bit

\* What is on the wire is what the errors make of it.
LEMMA WireOfState ==
  /\ C!Received = OnWire(data, flipped)
  /\ \A c : C!ReceivedCheck(c) = CheckOnWire(c, Len(data), flipped)
<1>1. \A i : C!Errors(i) = ErrorsOf(i, flipped)
  BY DEF C!Errors, ErrorsOf
<1>2. \A b, i : C!Disturbed(b, i) = ByteOnWire(b, i, flipped)
  BY <1>1, SameOperators DEF C!Disturbed, ByteOnWire
<1>3. C!Received = OnWire(data, flipped)
  BY <1>2 DEF C!Received, OnWire
<1>4. \A c : C!ReceivedCheck(c) = CheckOnWire(c, Len(data), flipped)
  BY <1>2 DEF C!ReceivedCheck, CheckOnWire
<1>. QED BY <1>3, <1>4

\* The data are a message.
LEMMA DataIsMessage ==
  ASSUME ChecksumsInv
  PROVE  Message(data, Len(data)) /\ Len(data) \in Nat \ {0}
<1>1. data \in Seq(C!Byte) /\ data # <<>>
  BY ChecksumsAssumption DEF ChecksumsInv
<1>2. Len(data) \in Nat /\ Len(data) # 0 /\ data \in [1 .. Len(data) -> C!Byte]
  BY <1>1
<1>. QED BY <1>2 DEF Message

\* A message is a sequence.
LEMMA MessageIsSequence ==
  ASSUME NEW n, NEW s, Message(s, n)
  PROVE  s \o <<>> = s
<1>. n \in Nat /\ s \in [1 .. n -> C!Byte]
  BY DEF Message
<1>1. s \in Seq(C!Byte)
  OBVIOUS
<1>. QED BY <1>1

\* Sets with no element, with one and with two.
LEMMA SetIsFinite ==
  ASSUME NEW n \in Nat, NEW E \in SUBSET (0 .. n)
  PROVE  IsFiniteSet(E) /\ Cardinality(E) \in Nat /\ (Cardinality(E) = 0 => E = {})
<1>1. IsFiniteSet(0 .. n)
  BY 0 \in Int, n \in Int, FS_Interval, Zenon
<1>. QED BY <1>1, FS_Subset, FS_CardinalityType, FS_EmptySet

\* A set with one element.
LEMMA OneElement ==
  ASSUME NEW n \in Nat, NEW E \in SUBSET (0 .. n), Cardinality(E) = 1
  PROVE  \E p \in 0 .. n : E = {p}
<1>1. PICK p : E = {p}
  BY SetIsFinite, FS_Singleton
<1>. QED BY <1>1

\* A set with two.
LEMMA TwoElements ==
  ASSUME NEW n \in Nat, NEW E \in SUBSET (0 .. n), Cardinality(E) = 2
  PROVE  \E p \in 0 .. n, q \in 0 .. n : p < q /\ E = {p, q}
<1>1. E # {}
  BY FS_EmptySet
<1>2. PICK p \in E : TRUE
  BY <1>1
<1>3. Cardinality(E \ {p}) = 1
  <2>1. IsFiniteSet(E)
    BY SetIsFinite
  <2>2. Cardinality(E \ {p}) = Cardinality(E) - 1
    BY <1>2, <2>1, FS_RemoveElement
  <2>. QED BY <2>2
<1>4. E \ {p} \in SUBSET (0 .. n)
  OBVIOUS
<1>5. PICK q \in 0 .. n : E \ {p} = {q}
  BY <1>3, <1>4, OneElement
<1>6. E = {p, q} /\ E = {q, p} /\ p # q /\ p \in 0 .. n
  BY <1>5
<1>. QED BY <1>6

\* Two neighbours that changed places.
LEMMA SwapDetected ==
  ASSUME ChecksumsInv, NEW i \in 1 .. Len(data) - 1, data[i] # data[i + 1]
  PROVE  C!Fletcher16(C!Swapped(i)) # C!Fletcher16(data)
<1>. DEFINE n == Len(data)
            t == C!Swapped(i)
<1>1. Message(data, n) /\ n \in Nat \ {0} /\ data \in [1 .. n -> C!Byte] /\ DOMAIN data = 1 .. n
  BY DataIsMessage DEF Message
<1>2. i \in 1 .. n /\ i + 1 \in 1 .. n /\ i # i + 1
  BY <1>1
<1>3. /\ t \in [1 .. n -> C!Byte] /\ t[i] = data[i + 1] /\ t[i + 1] = data[i]
      /\ \A j \in 1 .. n : j # i /\ j # i + 1 => t[j] = data[j]
  BY <1>1, <1>2 DEF C!Swapped
<1>4. Len(t) = n
  <2>. HIDE DEF t, n
  <2>1. t \in Seq(C!Byte) /\ DOMAIN t = 1 .. n
    BY <1>1, <1>3
  <2>. QED BY <1>1, <2>1
<1>5. Message(t, n)
  BY <1>1, <1>3, <1>4 DEF Message
<1>. HIDE DEF t, n
<1>6. C!Fletcher16(t) # C!Fletcher16(data)
  <2>. PICK s, v, l : s = data /\ v = t /\ l = n
    OBVIOUS
  <2>1. /\ Message(s, l) /\ Message(v, l) /\ i \in 1 .. l - 1
        /\ v[i] = s[i + 1] /\ v[i + 1] = s[i] /\ s[i] # s[i + 1]
        /\ \A j \in 1 .. l : j # i /\ j # i + 1 => v[j] = s[j]
    BY <1>1, <1>3, <1>5 DEF n
  <2>2. C!Fletcher16(v) # C!Fletcher16(s)
    BY <2>1, FletcherOfSwap
  <2>. QED BY <2>2
<1>. QED BY <1>6 DEF t

\* One error on the wire, and two.
OneOf(E, n) == \E p \in 0 .. 8 * n + 15 : E = {p}
TwoOf(E, n) == \E p \in 0 .. 8 * n + 15, q \in 0 .. 8 * n + 15 : p < q /\ E = {p, q}

\* The number of errors tells which they are.
LEMMA OneOrTwo ==
  ASSUME NEW n \in Nat, NEW E \in SUBSET (0 .. 8 * n + 15)
  PROVE  (Cardinality(E) = 1 => OneOf(E, n)) /\ (Cardinality(E) = 2 => TwoOf(E, n))
<1>. PICK last \in Nat : last = 8 * n + 15
  OBVIOUS
<1>. E \in SUBSET (0 .. last)
  OBVIOUS
<1>1. Cardinality(E) = 1 => OneOf(E, n)
  BY OneElement DEF OneOf
<1>2. Cardinality(E) = 2 => TwoOf(E, n)
  BY TwoElements, ZenonT(30) DEF TwoOf
<1>. QED BY <1>1, <1>2

\* The four checksums of Koopman, on any data with any errors of which there is one or, if the
\* data are short enough, two.
LEMMA PlainDetected ==
  ASSUME NEW m \in Nat, m >= 3, m % 2 = 1, m \div 256 < 256, NEW w \in {8, 16}, m <= 256 \/ w = 16,
         NEW n, NEW s, Message(s, n), NEW E \in SUBSET (0 .. 8 * n + 15),
         NEW l \in Nat, C!Distinguishes(m, 8 * l + w),
         OneOf(E, n) \/ (TwoOf(E, n) /\ n <= l)
  PROVE  Sum(OnWire(s, E), m, w) # CheckOnWire(Sum(s, m, w), n, E)
<1>. n \in Nat /\ m \in Nat \ {0}
  BY DEF Message
<1>. PICK c \in Nat : c = Sum(s, m, w) /\ c \div 256 < 256
  BY SumHasTwoBytes
<1>1. CASE OneOf(E, n)
  <2>. PICK p \in 0 .. 8 * n + 15 : E = {p}
    BY <1>1 DEF OneOf
  <2>1. Sum(OnWire(s, {p}), m, w) # CheckOnWire(c, n, {p})
    BY PlainSum
  <2>. QED BY <2>1
<1>2. CASE TwoOf(E, n) /\ n <= l
  <2>. PICK p \in 0 .. 8 * n + 15, q \in 0 .. 8 * n + 15 : p < q /\ E = {p, q}
    BY <1>2 DEF TwoOf
  <2>. PICK bits \in Nat : bits = 8 * l + w
    OBVIOUS
  <2>1. C!Distinguishes(m, bits) /\ bits >= 8 * n + w /\ p < q
    BY <1>2
  <2>2. Sum(OnWire(s, {p, q}), m, w) # CheckOnWire(c, n, {p, q})
    BY <2>1, PlainSum, SMTT(30)
  <2>. QED BY <2>2
<1>. QED BY <1>1, <1>2

\* Two errors change the checksums with parity and their sum in different ways.
LEMMA PairedTwoOf ==
  ASSUME NEW m \in Nat, NEW w \in {8, 16}, NEW n, NEW s, NEW c \in Nat, NEW bits \in Nat, NEW E,
         m >= 3, m % 2 = 1, Message(s, n), c = Paired(s, m, w), c \div 256 < 256,
         C!Distinguishes(m, bits), bits >= 8 * n, TwoOf(E, n)
  PROVE  Paired(OnWire(s, E), m, w) # CheckOnWire(c, n, E)
<1>. PICK p \in 0 .. 8 * n + 15, q \in 0 .. 8 * n + 15 : p < q /\ E = {p, q}
  BY DEF TwoOf
<1>1. Paired(OnWire(s, {p, q}), m, w) # CheckOnWire(c, n, {p, q})
  BY PairedTwo, SMTT(30)
<1>. QED BY <1>1

\* The same for the two with parity, and for an odd number of errors in the data.
LEMMA PairedDetected ==
  ASSUME NEW m \in Nat, m >= 3, m % 2 = 1, (2 * m) \div 256 < 256, NEW w \in {8, 16},
         NEW n, NEW s, Message(s, n), NEW E \in SUBSET (0 .. 8 * n + 15),
         NEW l \in Nat, C!Distinguishes(m, 8 * l)
  PROVE  /\ OneOf(E, n) \/ (TwoOf(E, n) /\ n <= l) =>
              Paired(OnWire(s, E), m, w) # CheckOnWire(Paired(s, m, w), n, E)
         /\ Cardinality(E) % 2 = 1 /\ E \subseteq 0 .. 8 * n - 1 =>
              Paired(OnWire(s, E), m, w) # CheckOnWire(Paired(s, m, w), n, E)
<1>. n \in Nat /\ m \in Nat \ {0}
  BY DEF Message
<1>. PICK c \in Nat : c = Paired(s, m, w) /\ c \div 256 < 256
  BY PairHasTwoBytes
<1>1. ASSUME OneOf(E, n)
      PROVE  Paired(OnWire(s, E), m, w) # CheckOnWire(c, n, E)
  <2>. PICK p \in 0 .. 8 * n + 15 : E = {p}
    BY <1>1 DEF OneOf
  <2>1. Paired(OnWire(s, {p}), m, w) # CheckOnWire(c, n, {p})
    BY PairedOne
  <2>. QED BY <2>1
<1>2. ASSUME TwoOf(E, n), n <= l
      PROVE  Paired(OnWire(s, E), m, w) # CheckOnWire(c, n, E)
  <2>. PICK bits \in Nat : bits = 8 * l
    OBVIOUS
  <2>1. C!Distinguishes(m, bits) /\ bits >= 8 * n
    BY <1>2
  <2>. QED BY <1>2, <2>1, PairedTwoOf
<1>3. ASSUME Cardinality(E) % 2 = 1, E \in SUBSET (0 .. 8 * n - 1)
      PROVE  Paired(OnWire(s, E), m, w) # CheckOnWire(c, n, E)
  BY <1>3, PairedOdd
<1>. QED BY <1>1, <1>2, <1>3

\* With the invariant, the errors are detected.
LEMMA ErrorsDetected == ChecksumsInv => C!ErrorsAreDetected
<1>. SUFFICES ASSUME ChecksumsInv PROVE C!ErrorsAreDetected
  OBVIOUS
<1>. DEFINE r == OnWire(data, flipped)
            n == Len(data)
            e == Cardinality(flipped)
<1>1. Message(data, n) /\ n \in Nat \ {0} /\ n \in Nat
  BY DataIsMessage
<1>2. flipped \in SUBSET (0 .. 8 * n + 15) /\ 8 * n + 15 \in Nat
  BY <1>1 DEF ChecksumsInv, C!Bit
<1>3. IsFiniteSet(flipped) /\ e \in Nat /\ (e = 0 => flipped = {})
  BY <1>2, SetIsFinite DEF e
<1>4. C!Received \o <<>> = r /\ Message(r, n)
  <2>. PICK p \in Nat : p = 8 * n + 16
    BY <1>1
  <2>1. p \notin flipped
    BY <1>1, <1>2
  <2>2. Message(r, n)
    BY <1>1, <2>1, MessageOfError
  <2>3. r \o <<>> = r
    BY <2>2, MessageIsSequence
  <2>. QED BY <2>2, <2>3, WireOfState
<1>5. \A v, c : C!Detected(v, c) <=> v # CheckOnWire(c, n, flipped)
  BY WireOfState DEF C!Detected
<1>6. C!Cardinality(flipped) = e
  BY SameOperators
<1>15. (e = 1 => OneOf(flipped, n)) /\ (e = 2 => TwoOf(flipped, n))
  BY <1>1, <1>2, OneOrTwo
<1>. HIDE DEF r, n, e
<1>7. e = 1 \/ (e = 2 /\ n <= Short.koopman8) => C!Detected(C!Koopman8(r), C!Koopman8(data))
  <2>. PICK m \in Nat, w \in {8, 16}, l \in Nat : m = 253 /\ w = 8 /\ l = Short.koopman8
    BY ChecksumsAssumption, SMTT(30)
  <2>1. m >= 3 /\ m % 2 = 1 /\ m \div 256 < 256 /\ m <= 256
    OBVIOUS
  <2>2. C!Distinguishes(m, 8 * l + w)
    BY ChecksumsAssumption
  <2>3. e = 1 \/ (e = 2 /\ n <= l) => Sum(r, m, w) # CheckOnWire(Sum(data, m, w), n, flipped)
    BY <1>1, <1>2, <1>15, <2>1, <2>2, PlainDetected DEF e, r
  <2>4. C!Koopman8(r) = Sum(r, m, w) /\ C!Koopman8(data) = Sum(data, m, w)
    BY <1>1, <1>4, KoopmanSums
  <2>. QED BY <1>5, <2>3, <2>4
<1>8. e = 1 \/ (e = 2 /\ n <= Short.koopman16) => C!Detected(C!Koopman16(r), C!Koopman16(data))
  <2>. PICK m \in Nat, w \in {8, 16}, l \in Nat : m = 65519 /\ w = 16 /\ l = Short.koopman16
    BY ChecksumsAssumption, SMTT(30)
  <2>1. m >= 3 /\ m % 2 = 1 /\ m \div 256 < 256 /\ w = 16
    OBVIOUS
  <2>2. C!Distinguishes(m, 8 * l + w)
    BY ChecksumsAssumption
  <2>3. e = 1 \/ (e = 2 /\ n <= l) => Sum(r, m, w) # CheckOnWire(Sum(data, m, w), n, flipped)
    BY <1>1, <1>2, <1>15, <2>1, <2>2, PlainDetected DEF e, r
  <2>4. C!Koopman16(r) = Sum(r, m, w) /\ C!Koopman16(data) = Sum(data, m, w)
    BY <1>1, <1>4, KoopmanSums
  <2>. QED BY <1>5, <2>3, <2>4
<1>9. /\ e = 1 \/ (e = 2 /\ n <= Short.koopman8p) => C!Detected(C!Koopman8p(r), C!Koopman8p(data))
      /\ e % 2 = 1 /\ flipped \subseteq 0 .. 8 * n - 1 => C!Detected(C!Koopman8p(r), C!Koopman8p(data))
  <2>. PICK m \in Nat, w \in {8, 16}, l \in Nat : m = 125 /\ w = 8 /\ l = Short.koopman8p
    BY ChecksumsAssumption, SMTT(30)
  <2>1. m >= 3 /\ m % 2 = 1 /\ (2 * m) \div 256 < 256
    OBVIOUS
  <2>2. C!Distinguishes(m, 8 * l)
    BY ChecksumsAssumption
  <2>3. e = 1 \/ (e = 2 /\ n <= l) \/ (e % 2 = 1 /\ flipped \subseteq 0 .. 8 * n - 1) =>
          Paired(r, m, w) # CheckOnWire(Paired(data, m, w), n, flipped)
    BY <1>1, <1>2, <1>15, <2>1, <2>2, PairedDetected DEF e, r
  <2>4. C!Koopman8p(r) = Paired(r, m, w) /\ C!Koopman8p(data) = Paired(data, m, w)
    BY <1>1, <1>4, KoopmanSums
  <2>. QED BY <1>5, <2>3, <2>4
<1>10. /\ e = 1 \/ (e = 2 /\ n <= Short.koopman16p) => C!Detected(C!Koopman16p(r), C!Koopman16p(data))
       /\ e % 2 = 1 /\ flipped \subseteq 0 .. 8 * n - 1 => C!Detected(C!Koopman16p(r), C!Koopman16p(data))
  <2>. PICK m \in Nat, w \in {8, 16}, l \in Nat : m = 32749 /\ w = 16 /\ l = Short.koopman16p
    BY ChecksumsAssumption, SMTT(30)
  <2>1. m >= 3 /\ m % 2 = 1 /\ (2 * m) \div 256 < 256
    OBVIOUS
  <2>2. C!Distinguishes(m, 8 * l)
    BY ChecksumsAssumption
  <2>3. e = 1 \/ (e = 2 /\ n <= l) \/ (e % 2 = 1 /\ flipped \subseteq 0 .. 8 * n - 1) =>
          Paired(r, m, w) # CheckOnWire(Paired(data, m, w), n, flipped)
    BY <1>1, <1>2, <1>15, <2>1, <2>2, PairedDetected DEF e, r
  <2>4. C!Koopman16p(r) = Paired(r, m, w) /\ C!Koopman16p(data) = Paired(data, m, w)
    BY <1>1, <1>4, KoopmanSums
  <2>. QED BY <1>5, <2>3, <2>4
<1>11. e = 1 => C!Detected(C!Fletcher16(r), C!Fletcher16(data))
  <2>. SUFFICES ASSUME e = 1 PROVE C!Detected(C!Fletcher16(r), C!Fletcher16(data))
    OBVIOUS
  <2>. PICK p \in 0 .. 8 * n + 15 : flipped = {p}
    BY <1>15 DEF OneOf
  <2>1. C!Fletcher16(OnWire(data, {p})) # CheckOnWire(C!Fletcher16(data), n, {p})
    BY <1>1, FletcherError
  <2>. QED BY <1>5, <2>1 DEF r
<1>12. \A i \in 1 .. n - 1 : data[i] # data[i + 1] => C!Fletcher16(C!Swapped(i)) # C!Fletcher16(data)
  BY SwapDetected DEF n
<1>13. flipped \subseteq 0 .. 31 => C!Parity32(flipped) = e % 2
  BY ParityOfWord DEF e
<1>14. /\ C!Received \o <<>> = r /\ Len(data) = n /\ C!Cardinality(flipped) = e
  BY <1>4, <1>6 DEF n
<1>. QED BY <1>7, <1>8, <1>9, <1>10, <1>11, <1>12, <1>13, <1>14 DEF C!ErrorsAreDetected

-----------------------------------------------------------------------------
(* The whole.                                                              *)

\* The invariant of the one that runs.
UnitsInv ==
  /\ IF unit = "pid" THEN LimitsInv ELSE pid = Off
  /\ unit = "gpio" => GpioInv
  /\ unit = "modelpoint" => ModelpointInv
  /\ unit = "datapoint" => DatapointInv
  /\ unit = "delay" => DelayInv
  /\ unit = "adc" => AdcInv
  /\ unit = "filters" => FiltersInv
  /\ unit = "checksums" => ChecksumsInv
  /\ unit = "sections" => SectionsInv

\* The one that runs starts in its invariant.
LEMMA UnitsInvInit == UnitsInit => UnitsInv
  BY InitInv, GpioInit, ModelpointInit, DatapointInit, DelayInit, AdcInit, FiltersInit, ChecksumsInit,
     SectionsInit DEF UnitsInit, UnitsInv

\* The one that runs keeps its invariant, and it stays the same one.
LEMMA UnitsInvStep == UnitsInv /\ [UnitsNext]_vars => UnitsInv'
<1>. SUFFICES ASSUME UnitsInv, [UnitsNext]_vars PROVE UnitsInv'
  OBVIOUS
<1>1. unit' = unit
  BY DEF UnitsNext, vars
<1>2. ASSUME unit = "gpio" PROVE GpioInv'
  <2>1. CASE G!Next
    BY <1>2, <2>1, GpioStep DEF UnitsInv
  <2>2. CASE UNCHANGED gpio
    BY <1>2, <2>2 DEF UnitsInv, GpioInv, G!LevelsAreKept, G!ConfigIsKept, G!MainPins, gpio
  <2>. QED BY <1>2, <2>1, <2>2 DEF UnitsNext, vars
<1>3. ASSUME unit = "modelpoint" PROVE ModelpointInv'
  <2>1. CASE M!Next
    BY <1>3, <2>1, ModelpointStep DEF UnitsInv
  <2>2. CASE UNCHANGED modelpoint
    BY <1>3, <2>2 DEF UnitsInv, ModelpointInv, WillTell, modelpoint
  <2>. QED BY <1>3, <2>1, <2>2 DEF UnitsNext, vars
<1>4. ASSUME unit = "datapoint" PROVE DatapointInv'
  <2>1. CASE D!Next
    BY <1>4, <2>1, DatapointStep DEF UnitsInv
  <2>2. CASE UNCHANGED datapoint
    BY <1>4, <2>2 DEF UnitsInv, DatapointInv, datapoint
  <2>. QED BY <1>4, <2>1, <2>2 DEF UnitsNext, vars
<1>5. ASSUME unit = "delay" PROVE DelayInv'
  <2>1. CASE T!Next
    BY <1>5, <2>1, DelayStep DEF UnitsInv
  <2>2. CASE UNCHANGED delay
    BY <1>5, <2>2 DEF UnitsInv, DelayInv, delay
  <2>. QED BY <1>5, <2>1, <2>2 DEF UnitsNext, vars
<1>6. ASSUME unit = "adc" PROVE AdcInv'
  <2>1. CASE A!Next
    BY <1>6, <2>1, AdcStep DEF UnitsInv
  <2>2. CASE UNCHANGED adc
    BY <1>6, <2>2 DEF UnitsInv, AdcInv, AdcType, CommandsWaited, ConverterOff, ConverterStopped, LoadHolds,
                      A!CommandsAreTaken, Where, adc
  <2>. QED BY <1>6, <2>1, <2>2 DEF UnitsNext, vars
<1>7. IF unit = "pid" THEN LimitsInv' ELSE pid' = Off
  <2>1. CASE unit = "pid"
    <3>1. LimitsInv
      BY <2>1 DEF UnitsInv
    <3>2. [Next]_pid
      BY <2>1 DEF UnitsNext, vars
    <3>. QED BY <2>1, <3>1, <3>2, NextInv
  <2>2. CASE unit # "pid"
    <3>1. pid' = pid
      BY <2>2 DEF UnitsNext, vars
    <3>. QED BY <2>2, <3>1 DEF UnitsInv
  <2>. QED BY <2>1, <2>2
<1>8. ASSUME unit = "filters" PROVE FiltersInv'
  <2>1. CASE F!Next
    BY <1>8, <2>1, FiltersStep DEF UnitsInv
  <2>2. CASE UNCHANGED filters
    BY <1>8, <2>2 DEF UnitsInv, FiltersInv, FirInv, IirInv, FpInv, RingHolds, filters
  <2>. QED BY <1>8, <2>1, <2>2 DEF UnitsNext, vars
<1>9. ASSUME unit = "checksums" PROVE ChecksumsInv'
  <2>1. CASE C!Next
    BY <1>9, <2>1, ChecksumsStep DEF UnitsInv
  <2>2. CASE UNCHANGED checksums
    BY <1>9, <2>2 DEF UnitsInv, ChecksumsInv, C!Bit, checksums
  <2>. QED BY <1>9, <2>1, <2>2 DEF UnitsNext, vars
<1>10. ASSUME unit = "sections" PROVE SectionsInv'
  <2>1. CASE CS!Next
    BY <1>10, <2>1, SectionsStep DEF UnitsInv
  <2>2. CASE UNCHANGED sections
    BY <1>10, <2>2 DEF UnitsInv, SectionsInv, SectionsType, EnabledIn, sections
  <2>. QED BY <1>10, <2>1, <2>2 DEF UnitsNext, vars
<1>. QED BY <1>1, <1>2, <1>3, <1>4, <1>5, <1>6, <1>7, <1>8, <1>9, <1>10 DEF UnitsInv, Off

\* In every behaviour the one that runs keeps its invariant.
LEMMA UnitsInvCorrect == UnitsSpec => []UnitsInv
  BY UnitsInvInit, UnitsInvStep, PTL DEF UnitsSpec

\* The output and the integral term of the PID controller are within the limits in
\* force (pid.c lines 58-194), for any gains, limits, inputs and filters.
THEOREM LimitsCorrect == UnitsSpec => []WithinLimits
<1>1. UnitsInv => WithinLimits
  BY DEF UnitsInv, LimitsInv, WithinLimits, Off
<1>. QED BY <1>1, UnitsInvCorrect, PTL

\* Whoever shares a value learns of its changes (modelpoint.c lines 50-96,
\* dp_uint32.c lines 7-43), for any values, subscribers and range of the counters.
THEOREM ChangesCorrect == UnitsSpec => []ChangesAreSeen
<1>1. UnitsInv => ChangesAreSeen
  BY SubscribersTold, ChangeTold DEF UnitsInv, ChangesAreSeen
<1>. QED BY <1>1, UnitsInvCorrect, PTL

\* The outputs of the filters are what their definitions say over all samples
\* (fir_filter.c lines 58-93, iir_filter.c 26-52, iir_filter_fp.c 37-71), for any odd
\* order, any taps, coefficients, scales and samples, and any width of the accumulator.
THEOREM FiltersCorrect == UnitsSpec => []FiltersFollowSamples
<1>1. UnitsInv => FiltersFollowSamples
  BY SamplesFollowed DEF UnitsInv, FiltersFollowSamples
<1>. QED BY <1>1, UnitsInvCorrect, PTL

\* The errors a checksum is for do not pass it: one inverted bit, two in data that are short
\* enough, an odd number with parity, and swapped neighbours (koopman.c lines 21-110, fletcher.c
\* 3-30, bit_twiddling.c 4-10), for any data and any lengths its modulus distinguishes.
THEOREM ErrorsCorrect == UnitsSpec => []ErrorsAreDetected
<1>1. UnitsInv => ErrorsAreDetected
  BY ErrorsDetected DEF UnitsInv, ErrorsAreDetected
<1>. QED BY <1>1, UnitsInvCorrect, PTL

\* Two contexts that use different pins of a port do not disturb each other's levels (gpio.c
\* lines 118-182), and the pins of the main loop are configured as it asked although an
\* interrupt configures its own between any two accesses (lines 48-101), for any pins, owners
\* and configurations.
THEOREM PinsCorrect == UnitsSpec => []PinsAreKept
<1>1. UnitsInv => PinsAreKept
  BY DEF UnitsInv, GpioInv, PinsAreKept
<1>. QED BY <1>1, UnitsInvCorrect, PTL

\* The converter takes the commands it is given (adc.c lines 22-200) unless a store has started
\* a conversion again or it was told before it had settled, in any order of its own steps.
THEOREM CommandsCorrect == UnitsSpec => []CommandsAreTaken
<1>1. UnitsInv => CommandsAreTaken
  BY DEF UnitsInv, AdcInv, CommandsAreTaken
<1>. QED BY <1>1, UnitsInvCorrect, PTL

\* From the first tick on no delay ends too early or more than a tick late (delay.c lines 25-39),
\* for any period of the timer.
THEOREM DelaysCorrect == UnitsSpec => []DelaysAreKept
<1>1. UnitsInv => DelaysAreKept
  BY DelaysKept DEF UnitsInv, DelaysAreKept
<1>. QED BY <1>1, UnitsInvCorrect, PTL

\* No block of a critical section is interrupted by its interrupt (core.h lines 13-20, core.c 4-27),
\* for any interrupts of the NVIC and any number of sections inside of each other.
THEOREM SectionsExcludeCorrect == UnitsSpec => []SectionsExclude
<1>1. UnitsInv => SectionsExclude
  BY SectionsKeepOut DEF UnitsInv, SectionsExclude
<1>. QED BY <1>1, UnitsInvCorrect, PTL

\* A critical section leaves the interrupts as it found them (core.c lines 4-27), for any
\* single interrupts and any number of sections inside of each other.
THEOREM SectionsRestoreCorrect == UnitsSpec => SectionsRestore
<1>1. UnitsInv /\ [UnitsNext]_vars => [unit = "sections" => CS!Restored]_vars
  <2>. SUFFICES ASSUME UnitsInv, UnitsNext, unit = "sections" PROVE CS!Restored
    OBVIOUS
  <2>1. SectionsInv /\ CS!Next
    BY DEF UnitsInv, UnitsNext
  <2>. QED BY <2>1, SectionsGiveBack
<1>. QED BY <1>1, UnitsInvCorrect, PTL DEF UnitsSpec, SectionsRestore

=============================================================================
