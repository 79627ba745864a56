------------------------------ MODULE MCUnits -------------------------------
(***************************************************************************)
(* An instance of Units for TLC.                                           *)
(***************************************************************************)
EXTENDS Units

\* Two values are enough to tell an old one from a new one, and an update
\* count of three values comes round.
TwoValues == 0 .. 1

\* Taps and coefficients of either sign, no two alike.
SmallSamples == {-5, 0, 3}
SmallTaps == 0 :> 1 @@ 1 :> 3 @@ 2 :> 7
SmallCoeffs == 0 :> -1 @@ 1 :> 2 @@ 2 :> 3 @@ 3 :> 5 @@ 4 :> -7
SmallFpCoeffs == 0 :> 24 @@ 1 :> -9 @@ 2 :> 13 @@ 3 :> -20 @@ 4 :> 7

\* What a checksum makes of an error depends on the values of the inverted
\* bits alone. In these words any two bits have any two values: bit p is a
\* digit of p in base two, or the inverse of one.
Word(n, bit(_)) ==
  [i \in 1 .. n |-> MapThenSumSet(LAMBDA k : bit(8 * (i - 1) + k) * 2 ^ k, 0 .. 7)]

Words(n) ==
  UNION {{Word(n, LAMBDA p : (p \div (2 ^ j)) % 2), Word(n, LAMBDA p : (p \div (2 ^ j) + 1) % 2)} :
           j \in 0 .. 7}

SmallData == Words(12) \cup Words(6) \cup Words(2)
ErrorsByLength == [n \in Nat |-> IF n = 2 THEN 3 ELSE 2]
SureLengths == [koopman8 |-> 12, koopman8p |-> 6, koopman16 |-> 4092, koopman16p |-> 2046]

\* A pin of the main loop and one of the interrupt, each for an alternate function with
\* an open drain (bit 4 of the mode) or for an interrupt (8) at the rising edge (10).
TwoPins == 0 .. 1
Owners == [p \in TwoPins |-> IF p = 1 THEN "isr" ELSE "main"]
TwoConfigs ==
  {[mode |-> {1, 4}, speed |-> {1}, pull |-> {}, alt_function |-> {0}],
   [mode |-> {8, 10}, speed |-> {}, pull |-> {0}, alt_function |-> {}]}

\* Interrupts of the NVIC and the tick.
CONSTANTS uart, timer
SomeInterrupts == {uart, timer, "SYSTICK_IRQ"}

\* Gains with all three terms, and for an integrating process.
SmallGains ==
  {[p_gain |-> 1, i_gain |-> 2, d_gain |-> 1, kaw |-> 1, p_on_m_weight |-> 0],
   [p_gain |-> 2, i_gain |-> 2, d_gain |-> 0, kaw |-> 0, p_on_m_weight |-> 1]}

SmallLimits == {<<-1, 1>>, <<0, 2>>}

SmallInput == -1 .. 1

\* Filters of the user that go beyond all limits on either side.
BeyondLimits == {-2, 3}

=============================================================================
