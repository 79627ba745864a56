------------------------------ MODULE DataPoint -----------------------------
(***************************************************************************)
(* A data point of src/src/libs/data_broker/model_points/dp_uint32.c, with *)
(* a writer in the main loop and a reader in an interrupt: the reader      *)
(* compares the sequence number with that of its last read to learn        *)
(* whether the value has changed. It runs between any two stores of the    *)
(* writer, from its first access to its last. A reader that the writer     *)
(* interrupts is not part of this module: it may keep an old value under   *)
(* the new number.                                                         *)
(***************************************************************************)
EXTENDS Naturals

CONSTANTS
  Value,          \* the values of the point
  SeqMod          \* stands for 2^16, the range of seq_num

VARIABLES
  dp,             \* the members of pt_uint32_t
  wr,             \* the writer: its program counter and the new value
  rd              \* the reader: what it read last, and a history variable,
                  \* the number of changes since then

vars == <<dp, wr, rd>>

Idle == [pc |-> "idle"]

\* After pt_uint32_init, which the repository only declares.
Init ==
  /\ dp \in [value : Value, isValid : BOOLEAN, isLocked : {FALSE}, seqNum : {0}]
  /\ wr = Idle
  /\ rd = [value |-> dp.value, seqNum |-> dp.seqNum, since |-> 0]

\* test_and_update_lock
TestAndUpdateLock(request) ==
  \/ request = "PT_UNLOCK" /\ dp' = [dp EXCEPT !.isLocked = FALSE]
  \/ request = "PT_LOCK" /\ dp' = [dp EXCEPT !.isLocked = TRUE]
  \/ request = "PT_NO_REQUEST" /\ ~dp.isLocked /\ UNCHANGED dp

WriteLock(v, request) ==
  /\ wr = Idle
  /\ TestAndUpdateLock(request)
  /\ wr' = IF ~dp.isValid \/ dp.value # v THEN [pc |-> "value", value |-> v] ELSE Idle
  /\ UNCHANGED rd

WriteValue ==
  /\ wr.pc = "value"
  /\ dp' = [dp EXCEPT !.value = wr.value]
  /\ wr' = [pc |-> "valid"]
  /\ UNCHANGED rd

WriteValid ==
  /\ wr.pc = "valid"
  /\ dp' = [dp EXCEPT !.isValid = TRUE]
  /\ wr' = [pc |-> "seq"]
  /\ UNCHANGED rd

WriteSeq ==
  /\ wr.pc = "seq"
  /\ dp' = [dp EXCEPT !.seqNum = (@ + 1) % SeqMod]
  /\ rd' = [rd EXCEPT !.since = IF @ < SeqMod THEN @ + 1 ELSE @]
  /\ wr' = Idle

\* pt_uint32_read, by the interrupt.
Read ==
  /\ rd' = [value |-> IF dp.isValid THEN dp.value ELSE rd.value,
            seqNum |-> dp.seqNum, since |-> 0]
  /\ UNCHANGED <<dp, wr>>

Next ==
  \/ \E v \in Value, request \in {"PT_NO_REQUEST", "PT_LOCK", "PT_UNLOCK"} : WriteLock(v, request)
  \/ WriteValue \/ WriteValid \/ WriteSeq \/ Read

(***************************************************************************)
(* As long as fewer than 2^16 changes lie between two looks at the point,  *)
(* a sequence number that has not changed means a value that has not.      *)
(***************************************************************************)
SeqTellsChange ==
  wr = Idle /\ dp.isValid /\ rd.seqNum = dp.seqNum /\ rd.since < SeqMod => rd.value = dp.value

=============================================================================
