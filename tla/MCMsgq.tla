------------------------------- MODULE MCMsgq -------------------------------
(***************************************************************************)
(* Instances of Msgq for TLC.                                              *)
(***************************************************************************)
EXTENDS MsgqInv

CONSTANTS p1, p2, c1    \* two producers and the consumer

OneCore == [c \in {p1, p2, c1} |-> "core0"]

\* Blocks of 3 and of 6 bytes: sums of them never reach a power of two.
Mixed == {<<1>>, <<2>>, <<1, 2, 3, 1>>}
\* Blocks of 4 bytes: two of them fill a ring of 8.
Even == {<<1, 2>>, <<2, 1>>}

=============================================================================
