------------------------------ MODULE Filters -------------------------------
(***************************************************************************)
(* The digital filters of src/src/libs/dsp, fed with the same samples: the *)
(* FIR filter in its linear phase form with its ring of past samples, and  *)
(* the IIR filters in transposed form II and in fixed point. Samples and   *)
(* coefficients are integers; a fixed point number has FpBits bits.        *)
(*                                                                         *)
(* Fir_Filt_Form1_Update, which reads past the end of the ring, and a FIR  *)
(* filter of even order, which does not return, are left out.              *)
(***************************************************************************)
EXTENDS Integers, Sequences, FiniteSetsExt

CONSTANTS
  Sample,         \* the inputs
  Order,          \* of the FIR filter, odd and at least three
  Taps,           \* coeff of the FIR filter from 0, symmetric: its first half counts
  Coeffs,         \* a1, a2, b0, b1, b2 of the IIR filter, from 0
  FpCoeffs,       \* b0, b1, b2, a1, a2 of the filter in fixed point, from 0
  ScaleNum, ScaleDenum,
  FpBits,         \* stands for the 32 bits of IIR_FP_DATA_t
  MaxSamples      \* bound of the samples fed to the filters

VARIABLES
  fir, iir, fp,   \* the contexts of the three filters
  x               \* history: the samples, the oldest first

vars == <<fir, iir, fp, x>>

\* Fir_Filt_Init, Iir_Filt_Init and Iir_Filt_Fp_Init
Init ==
  /\ fir = [input |-> [i \in 0 .. Order - 1 |-> 0], index |-> 0, out |-> 0]
  /\ iir = [buffer |-> [i \in 0 .. 1 |-> 0], out |-> 0]
  /\ fp = [i \in 0 .. 3 |-> 0]
  /\ x = <<>>

\* The sum of f[0] .. f[n - 1].
Total(f, n) == LET sum[k \in 0 .. n] == IF k = 0 THEN 0 ELSE sum[k - 1] + f[k - 1] IN sum[n]

\* The sums of the loop: the old end and the new end of the ring move towards
\* each other until they meet in the middle tap.
FirSum(input, index) ==
  LET old(k) == input[(index + k) % Order]
      new(k) == input[(index - 1 - k) % Order]
      half == Min({k \in 1 .. Order : (index + k) % Order = (index - 1 - k) % Order})
  IN Total([k \in 0 .. half - 1 |-> Taps[k] * (old(k) + new(k))], half) + Taps[half] * old(half)

\* Mutant of FirUpdate: the sum starts from the index before it moved.
FirUpdateLate(s) ==
  LET input == [fir.input EXCEPT ![fir.index] = s]
      index == (fir.index + 1) % Order
  IN fir' = [input |-> input, index |-> index, out |-> FirSum(input, fir.index)]

\* Fir_Filt_Linear_Update
FirUpdate(s) ==
  LET input == [fir.input EXCEPT ![fir.index] = s]
      index == (fir.index + 1) % Order
  IN fir' = [input |-> input, index |-> index, out |-> FirSum(input, index)]

\* Iir_Filt_Update, transposed form II
IirUpdate(s) ==
  LET out == Coeffs[2] * s + iir.buffer[0]
  IN iir' = [out |-> out,
             buffer |-> [iir.buffer EXCEPT ![0] = (Coeffs[3] * s - Coeffs[0] * out) + iir.buffer[1],
                                           ![1] = Coeffs[4] * s - Coeffs[1] * out]]

\* A shift to the right by n bits, or none for n = 0.
Shift(v, n) == v \div (2 ^ n)

\* The cast of an accumulator to IIR_FP_DATA_t.
Fixed(v) == ((v + 2 ^ (FpBits - 1)) % (2 ^ FpBits)) - 2 ^ (FpBits - 1)

\* Iir_Filt_Fp_Update
FpUpdate(s) ==
  LET num == Shift(s * FpCoeffs[0] + fp[0] * FpCoeffs[1] + fp[1] * FpCoeffs[2], ScaleNum)
      denum == Shift(fp[2] * FpCoeffs[3] + fp[3] * FpCoeffs[4], ScaleDenum)
  IN fp' = [fp EXCEPT ![0] = s, ![1] = fp[0], ![2] = Fixed(Shift(num - denum, FpBits)), ![3] = fp[2]]

Update(s) ==
  /\ Len(x) < MaxSamples
  /\ FirUpdate(s) /\ IirUpdate(s) /\ FpUpdate(s)
  /\ x' = Append(x, s)

Next == \E s \in Sample : Update(s)

\* The sample of time n, before the first one zero.
At(y, n) == IF n < 1 THEN 0 ELSE y[n]

\* The references: a convolution with the symmetric taps, and the difference
\* equations over all samples y.
Convolution(y) ==
  Total([k \in 0 .. Order - 1 |-> Taps[IF 2 * k < Order THEN k ELSE Order - 1 - k] * At(y, Len(y) - k)],
        Order)

Difference(y) ==
  LET d[n \in -1 .. Len(y)] ==
        IF n < 1 THEN 0
        ELSE (Coeffs[2] * At(y, n) + Coeffs[3] * At(y, n - 1) + Coeffs[4] * At(y, n - 2))
             - (Coeffs[0] * d[n - 1] + Coeffs[1] * d[n - 2])
  IN d[Len(y)]

FpDifference(y) ==
  LET d[n \in -1 .. Len(y)] ==
        IF n < 1 THEN 0
        ELSE LET num == At(y, n) * FpCoeffs[0] + At(y, n - 1) * FpCoeffs[1] + At(y, n - 2) * FpCoeffs[2]
                 denum == d[n - 1] * FpCoeffs[3] + d[n - 2] * FpCoeffs[4]
             IN Fixed(Shift(Shift(num, ScaleNum) - Shift(denum, ScaleDenum), FpBits))
  IN d[Len(y)]

(***************************************************************************)
(* After any samples the output is what the definition of the filter gives *)
(* over all of them, at every position of the ring and through the state   *)
(* that the recurrences carry from one sample to the next.                 *)
(***************************************************************************)
FiltersFollowSamples ==
  /\ fir.out = Convolution(x)
  /\ iir.out = Difference(x)
  /\ fp[2] = FpDifference(x)

=============================================================================
