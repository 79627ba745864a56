------------------------------- MODULE Delay --------------------------------
(***************************************************************************)
(* The measure of time of src/src/utils/delay/delay.c on a timer that      *)
(* counts up from 0 to TIMER_TICK_MAX and starts again from 0.             *)
(***************************************************************************)
EXTENDS Integers

CONSTANTS
  TIMER_TICK_MAX  \* the last value of the timer, at least 1

VARIABLES
  now,            \* the timer
  then,           \* ticks_then of the caller
  elapsed         \* history: the ticks since then, up to one turn of the timer

vars == <<now, then, elapsed>>

Init == now \in 0 .. TIMER_TICK_MAX /\ then = now /\ elapsed = 0

\* The timer, external.
Tick ==
  /\ elapsed < TIMER_TICK_MAX
  /\ now' = (now + 1) % (TIMER_TICK_MAX + 1)
  /\ elapsed' = elapsed + 1
  /\ UNCHANGED then

\* Delay_Ticks_now, kept by the caller.
Begin == then' = now /\ elapsed' = 0 /\ UNCHANGED now

Next == Tick \/ Begin

\* Mutant of TicksSince: after a rollover only the ticks before it count.
TicksSinceBefore(ticks_then) ==
  IF now <= ticks_then THEN TIMER_TICK_MAX - ticks_then ELSE now - ticks_then

TicksSince(ticks_then) ==
  IF now <= ticks_then THEN now + (TIMER_TICK_MAX - ticks_then) ELSE now - ticks_then

IsElapsed(ticks_then, duration) == TicksSince(ticks_then) >= duration

(***************************************************************************)
(* From the first tick on and for one turn of the timer no delay is over   *)
(* too early, and one is over at the latest one tick after its time        *)
(* (delay.c lines 25-39).                                                  *)
(***************************************************************************)
DelaysAreKept ==
  elapsed > 0 =>
    \A duration \in 1 .. TIMER_TICK_MAX :
      /\ IsElapsed(then, duration) => elapsed >= duration
      /\ elapsed > duration => IsElapsed(then, duration)

=============================================================================
