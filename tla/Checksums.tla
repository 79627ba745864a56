----------------------------- MODULE Checksums ------------------------------
(***************************************************************************)
(* The checksums of src/src/utils/checksum for bytes, and the parity of    *)
(* src/src/utils/bit_twiddling that one of them uses, over data in which   *)
(* bits are inverted on the way. The variants for 32 bits do the same with *)
(* other moduli, in 64 bits that TLC's integers do not have.               *)
(***************************************************************************)
EXTENDS Integers, Sequences, FiniteSetsExt

CONSTANTS
  Data,           \* what is sent, sequences of bytes
  Short,          \* the lengths up to which each Koopman checksum is sure to
                  \* see two inverted bits, a function of its name
  MaxErrors       \* bound of the inverted bits, a function of the length

VARIABLES
  data,           \* what was sent
  flipped         \* the positions of the inverted bits

vars == <<data, flipped>>

Init == data \in Data /\ flipped = {}

\* The data are followed on the wire by two bytes of check.
Bit == 0 .. 8 * Len(data) + 15

\* The wire inverts one more bit.
Flip(p) ==
  /\ Cardinality(flipped) < MaxErrors[Len(data)]
  /\ flipped' = flipped \cup {p}
  /\ UNCHANGED data

Next == \E p \in Bit \ flipped : Flip(p)

Byte == 0 .. 255

\* A word is the set of the positions of its bits that are 1: those of a byte, and the byte of those.
Bits(b) == {i \in 0 .. 7 : (b \div (2 ^ i)) % 2 = 1}

ByteOf(w) ==
  LET bit(i) == IF i \in w THEN 1 ELSE 0
  IN bit(0) + 2 * bit(1) + 4 * bit(2) + 8 * bit(3) + 16 * bit(4) + 32 * bit(5) + 64 * bit(6) + 128 * bit(7)

ShiftRight(w, n) == {i - n : i \in {j \in w : j >= n}}

\* What a loop makes of start: its body is a function of the index, from 1 to
\* n, and of what there is so far.
Loop(body, start, n) ==
  LET acc[i \in 0 .. n] == IF i = 0 THEN start ELSE body[i][acc[i - 1]]
  IN acc[n]

\* Mutant of Parity32: the second fold of the nibbles is left out.
Parity32Half(w) ==
  LET y == SymDiff(w, ShiftRight(w, 1))
  IN Cardinality({i \in y : i % 4 = 0}) % 2

\* parity32: the product with 0x11111111 adds up what is left of the nibbles.
Parity32(w) ==
  LET y == SymDiff(w, ShiftRight(w, 1))
      z == SymDiff(y, ShiftRight(y, 2))
  IN Cardinality({i \in z : i % 4 = 0}) % 2

\* The first byte is inverted: its exclusive or with INITIAL_SEED.
Seed(s) == 255 - s[1]

\* reduce32, reduce64 and the sum of their variants with parity
Reduce(s, modulus) ==
  Loop([i \in 1 .. Len(s) - 1 |-> [sum \in Nat |-> (256 * sum + s[i + 1]) % modulus]], Seed(s), Len(s) - 1)

\* psum: the exclusive or of all bytes.
PSum(s) ==
  Loop([i \in 1 .. Len(s) - 1 |-> [w \in SUBSET (0 .. 7) |-> SymDiff(w, Bits(s[i + 1]))]],
       Bits(Seed(s)), Len(s) - 1)

Koopman8(s) == (Reduce(s, 253) * 256) % 253

Koopman8p(s) == 2 * ((Reduce(s, 125) * 256) % 125) + Parity32(PSum(s))

Koopman16(s) == (((Reduce(s, 65519) * 256) % 65519) * 256) % 65519

Koopman16p(s) == 2 * ((Reduce(s, 32749) * 65536) % 32749) + Parity32(PSum(s))

\* The sums are uint8_t: they wrap, and the carry that is added back is 0.
Fletcher16(s) ==
  LET sum == Loop([i \in DOMAIN s |-> [sum \in Byte \X Byte |->
                     <<(sum[1] + s[i]) % 256, (sum[2] + sum[1] + s[i]) % 256>>]], <<255, 255>>, Len(s))
  IN 256 * sum[2] + sum[1]

\* x, shifted by n bytes, modulo a modulus.
Shifted(x, n, modulus) == Loop([i \in 1 .. n |-> [y \in Nat |-> (256 * y) % modulus]], x, n)

\* Whether a modulus tells the weights of any two of that many bits apart: no power of two in
\* between is 1 or -1. In steps of 64 bytes, for TLC.
Distinguishes(modulus, bits) ==
  \A p \in 0 .. bits \div 512 :
    LET page == Loop([i \in 1 .. p |-> [x \in Nat |-> Shifted(x, 64, modulus)]], 1, p)
    IN \A n \in 0 .. 63 :
         LET power == Shifted(page, n, modulus)
         IN \A k \in 0 .. 7 :
              512 * p + 8 * n + k \in 1 .. bits - 1 => (2 ^ k * power) % modulus \notin {1, modulus - 1}

\* What becomes of a byte, the data and a checksum on their way.
Errors(i) == {k \in 0 .. 7 : 8 * (i - 1) + k \in flipped}

Disturbed(b, i) == ByteOf(SymDiff(Bits(b), Errors(i)))

Received == [i \in DOMAIN data |-> Disturbed(data[i], i)]

ReceivedCheck(c) == Disturbed(c % 256, Len(data) + 1) + 256 * Disturbed(c \div 256, Len(data) + 2)

Swapped(i) == [data EXCEPT ![i] = data[i + 1], ![i + 1] = data[i]]

Detected(computed, sent) == computed # ReceivedCheck(sent)

(***************************************************************************)
(* Whatever was sent: one inverted bit of the data or of the checksum is   *)
(* detected by every checksum, two are by those of Koopman if the data are *)
(* short enough (koopman.h, HD3), an odd number of bits of the data by     *)
(* those with parity, and two neighbouring bytes that changed places by    *)
(* that of Fletcher. The parity of a word tells whether the number of its  *)
(* ones is odd.                                                            *)
(***************************************************************************)
ErrorsAreDetected ==
  LET r == Received \o <<>>          \* computed once by TLC
      n == Len(data)
      e == Cardinality(flipped)
  IN /\ e = 1 \/ (e = 2 /\ n <= Short.koopman8) => Detected(Koopman8(r), Koopman8(data))
     /\ e = 1 \/ (e = 2 /\ n <= Short.koopman8p) => Detected(Koopman8p(r), Koopman8p(data))
     /\ e = 1 \/ (e = 2 /\ n <= Short.koopman16) => Detected(Koopman16(r), Koopman16(data))
     /\ e = 1 \/ (e = 2 /\ n <= Short.koopman16p) => Detected(Koopman16p(r), Koopman16p(data))
     /\ e % 2 = 1 /\ flipped \subseteq 0 .. 8 * n - 1 =>
          Detected(Koopman8p(r), Koopman8p(data)) /\ Detected(Koopman16p(r), Koopman16p(data))
     /\ e = 1 => Detected(Fletcher16(r), Fletcher16(data))
     /\ e = 0 =>
          \A i \in 1 .. n - 1 : data[i] # data[i + 1] => Fletcher16(Swapped(i)) # Fletcher16(data)
     /\ flipped \subseteq 0 .. 31 => Parity32(flipped) = e % 2

=============================================================================
