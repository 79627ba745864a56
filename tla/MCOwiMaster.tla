----------------------------- MODULE MCOwiMaster -----------------------------
(***************************************************************************)
(* Instances of OwiMaster for TLC.                                         *)
(***************************************************************************)
EXTENDS OwiMaster

\* The bits of a number.
Bits(n) == [i \in 0 .. ByteBits - 1 |-> (n \div 2^i) % 2]

\* 3 bits: one that ends in a 1 and is followed by zeros, one that starts with a 0.
WriteData == {Bits(1), Bits(6)}

\* 8 bits: no two halves of it alike.
ReadData == {Bits(165)}

=============================================================================
