--------------------------- MODULE MCActiveObject ---------------------------
(***************************************************************************)
(* An instance of ActiveObject for TLC: the time event is for the first    *)
(* object, the second one posts to it and takes the processor from it.     *)
(***************************************************************************)
EXTENDS ActiveObject

CONSTANTS a1, a2, t1

OfFirst == [e \in TimeEvent |-> a1]

\* One shot, long enough for a tick while it is armed, and periodic with a period that
\* is not the timeout.
OnceAndPeriodic == {<<2, 0>>, <<1, 2>>}

=============================================================================
