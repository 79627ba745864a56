----------------------------- MODULE MCI2cSlave -----------------------------
(***************************************************************************)
(* An instance of I2cSlave for TLC: a buffer shorter than the longest      *)
(* transfer, and one as long.                                              *)
(***************************************************************************)
EXTENDS I2cSlave

ShortAndLong == {<<1>>, <<2, 1>>}

=============================================================================
