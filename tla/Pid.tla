-------------------------------- MODULE Pid ---------------------------------
(***************************************************************************)
(* The PID controller of src/src/libs/pid/pid.c, called from one context.  *)
(*                                                                         *)
(* Numbers are integers, in place of float. The gain of the integral is    *)
(* even, so that the half in its sum is exact. The filters of the output   *)
(* and of the derivative are the user's and return anything; the low pass  *)
(* that stands in for the latter a number from its last value to its input.*)
(***************************************************************************)
EXTENDS Integers

CONSTANTS
  Input,          \* the measurements and the set points
  Gains,          \* records of p_gain, i_gain, d_gain, kaw, p_on_m_weight
  Limits,         \* pairs of min_output and max_output
  Filtered        \* what a filter of the user may return

ASSUME PidAssumption ==
  /\ Input \subseteq Int
  /\ Gains \subseteq [p_gain : Nat, i_gain : {k \in Nat : k % 2 = 0}, d_gain : Nat,
                      kaw : Int, p_on_m_weight : {0, 1}]
  /\ Limits \subseteq {l \in Int \X Int : l[1] < l[2]}
  /\ Filtered \subseteq Int

VARIABLE pid      \* the members of struct pid_ctx, the gains under "gains" and of the
                  \* output filter whether there is one

Clamp(val, min, max) == IF val > max THEN max ELSE IF val < min THEN min ELSE val

\* What the low pass filter may return.
Between(a, b) == IF a <= b THEN a .. b ELSE b .. a

\* The sign that the action gives to the errors.
Signed(x) == IF pid.action = "PID_ACTION_REVERSE" THEN -x ELSE x

Mode   == {"PID_MODE_ACTIVE", "PID_MODE_OVERRIDE"}
Action == {"PID_ACTION_DIRECT", "PID_ACTION_REVERSE"}

\* Pid_Init on a static context: all the rest is zero, the limits too.
Init ==
  \E g \in Gains, a \in Action, m \in Mode, f \in BOOLEAN :
    pid = [mode |-> m, action |-> a, gains |-> g, setpoint |-> 0, output_filter |-> f,
           i_term |-> 0, last_error |-> 0, last_input |-> 0, last_d_term |-> 0,
           last_output |-> 0, min_output |-> 0, max_output |-> 0]

GainSet(g) == pid' = [pid EXCEPT !.gains = g]

SetpointSet(s) == pid' = [pid EXCEPT !.setpoint = s]

ActionSet(a) == pid' = [pid EXCEPT !.action = a]

\* Mutant of OutputLimitsSet: the terms are left as they are.
OutputLimitsSetOnly(min, max) ==
  pid' = [pid EXCEPT !.min_output = min, !.max_output = max]

OutputLimitsSet(min, max) ==
  pid' = [pid EXCEPT !.min_output = min, !.max_output = max,
                     !.last_output = Clamp(@, min, max), !.i_term = Clamp(@, min, max)]

\* The context is not active: Pid_Update returns the last output.
UpdateInactive(input) ==
  /\ pid.mode # "PID_MODE_ACTIVE"
  /\ pid' = [pid EXCEPT !.last_input = input]

PError(input) == (1 - pid.gains.p_on_m_weight) * pid.setpoint - input

Desired(input, d_term) == pid.gains.p_gain * Signed(PError(input)) + pid.i_term - d_term

\* The integral term after its sum, the back calculation and the clamp.
Integral(error, desired, saturated) ==
  Clamp(pid.i_term + (pid.gains.i_gain \div 2) * (error + pid.last_error)
                   + pid.gains.kaw * (saturated - desired),
        pid.min_output, pid.max_output)

UpdateActive(input) ==
  /\ pid.mode = "PID_MODE_ACTIVE"
  /\ \E d_term \in Between(pid.last_d_term, pid.gains.d_gain * Signed(input - pid.last_input))
                  \cup Filtered :
       LET error == Signed(pid.setpoint - input)
           desired == Desired(input, d_term)
           saturated == Clamp(desired, pid.min_output, pid.max_output)
       IN \E output \in IF pid.output_filter THEN Filtered ELSE {saturated} :
            pid' = [pid EXCEPT !.i_term = Integral(error, desired, saturated),
                               !.last_error = error, !.last_d_term = d_term,
                               !.last_output = output, !.last_input = input]

\* The assertions keep the output inside the limits.
Override(output) ==
  /\ pid.min_output <= output /\ output <= pid.max_output
  /\ pid' = [pid EXCEPT !.mode = "PID_MODE_OVERRIDE", !.last_output = output]

\* The input of the preload is not declared in the function: it is taken for
\* the last one.
Resume ==
  LET p_error == (1 - pid.gains.p_on_m_weight) - pid.setpoint - pid.last_input
      preload == pid.last_output - (pid.gains.p_gain * Signed(p_error) - pid.last_d_term)
  IN pid' = [pid EXCEPT !.mode = "PID_MODE_ACTIVE",
                        !.i_term = IF pid.mode = "PID_MODE_OVERRIDE"
                                     THEN Clamp(preload, pid.min_output, pid.max_output) ELSE @]

Next ==
  \/ \E input \in Input : UpdateInactive(input) \/ UpdateActive(input)
  \/ \E g \in Gains : GainSet(g)
  \/ \E s \in Input : SetpointSet(s)
  \/ \E a \in Action : ActionSet(a)
  \/ \E l \in Limits : OutputLimitsSet(l[1], l[2])
  \/ \E output \in pid.min_output .. pid.max_output : Override(output)
  \/ Resume

Spec == Init /\ [][Next]_pid

(***************************************************************************)
(* The integral term is within the limits in force, and so is the output   *)
(* of a controller without an output filter, after whatever sequence of    *)
(* updates, overrides, resumptions, derivative filters and changes of the  *)
(* limits, of the gains and of the action (pid.c lines 58-194).            *)
(***************************************************************************)
WithinLimits ==
  /\ pid.min_output <= pid.i_term /\ pid.i_term <= pid.max_output
  /\ pid.output_filter \/ (pid.min_output <= pid.last_output /\ pid.last_output <= pid.max_output)

=============================================================================
