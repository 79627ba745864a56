------------------------------ MODULE OwiMaster ------------------------------
(***************************************************************************)
(* The one-wire bus master of src/src/libs/owi_master/owi_master.c. Every  *)
(* slot of the bus is a character sent on a UART whose receiver listens to *)
(* the same wire; the transmit-done callback of the UART drives the        *)
(* operation from slot to slot.                                            *)
(*                                                                         *)
(* Two contexts: the caller, one access to the shared variables or to the  *)
(* UART per step, and the callback, an interrupt that may come between any *)
(* two of them and is one step. The UART and the wire are external.        *)
(*                                                                         *)
(* op is a history variable: what the last operation sent and heard, as    *)
(* long as it has the UART to itself. No guard reads it.                   *)
(***************************************************************************)
EXTENDS Integers, SequencesExt

CONSTANTS
  ByteBits,   \* the number of bits of a byte: 8
  Data,       \* the bytes the caller writes
  Noise       \* a character heard when someone else pulls the wire low

ResetPulse == 240    \* 0xF0 at 9600 baud
One        == 255    \* 0xFF at 115200 baud: a 1, and the slot of a read
Null       == 0      \* 0x00 at 115200 baud: a 0

ASSUME OwiAssumption ==
  /\ ByteBits \in Nat \ {0}
  /\ Data \subseteq [0 .. ByteBits - 1 -> {0, 1}]
  /\ Noise \in (0 .. 255) \ {ResetPulse, One, Null}

Char == {ResetPulse, One, Null, Noise}
Busy == [reset |-> "BUSY_RESET", write |-> "BUSY_WRITE", read |-> "BUSY_READ"]

VARIABLES
  state, presence, read_data, write_data, bits_done,   \* the static variables
  pc, kind, data,   \* where the caller is, in which function, with which byte
  tx, rx,           \* the UART: characters on their way out, and those received
  op                \* history

own  == <<presence, read_data, write_data, bits_done>>
vars == <<state, own, pc, kind, data, tx, rx, op>>

\* A byte is its bits, the least significant one at 0.
Byte == [0 .. ByteBits - 1 -> {0, 1}]
Zero == [i \in 0 .. ByteBits - 1 |-> 0]

Bit(d, i) == IF i \in DOMAIN d THEN d[i] ELSE 0

\* d >> 1
ShiftRight(d) == [i \in 0 .. ByteBits - 1 |-> Bit(d, i + 1)]

BitToByte(b) == IF b = 1 THEN One ELSE Null

-----------------------------------------------------------------------------
(* The UART and the wire.                                                  *)

\* What is heard of a character: itself, something else, or nothing.
Echo(c) == {<<c>>, <<Noise>>, <<>>}

\* Uart_Flush_Tx drops what has not reached the data and the shift register.
FlushTx == \E k \in 0 .. 2 : tx' = SubSeq(tx, 1, IF k < Len(tx) THEN k ELSE Len(tx))

\* Another character follows: transmission is not done yet.
ShiftOut ==
  /\ Len(tx) > 1
  /\ \E e \in Echo(Head(tx)) : rx' = rx \o e
  /\ tx' = Tail(tx)
  /\ UNCHANGED <<state, own, pc, kind, data, op>>

-----------------------------------------------------------------------------
NoOp == [kind |-> "none", data |-> Zero, sent |-> <<>>, heard |-> <<>>]

Init ==
  /\ state = "RESET" /\ presence = FALSE
  /\ read_data = Zero /\ write_data = Zero /\ bits_done = 0
  /\ pc = "idle" /\ kind = "none" /\ data = Zero
  /\ tx = <<>> /\ rx = <<>>
  /\ op = NoOp

\* Owi_Master_Abort, which Owi_Master_Init calls first, flushes the transmitter ...
Abort(k) ==
  /\ pc = "idle"
  /\ FlushTx
  /\ pc' = "abort" /\ kind' = k
  /\ op' = NoOp
  /\ UNCHANGED <<state, own, data, rx>>

\* ... and goes back to IDLE. Owi_Master_Init clears read_data as well. In IDLE
\* the callback reads and writes none of what follows: it is one step.
AbortDone ==
  /\ pc = "abort"
  /\ state' = "IDLE" /\ presence' = FALSE
  /\ read_data' = IF kind = "init" THEN Zero ELSE read_data
  /\ pc' = "idle"
  /\ UNCHANGED <<write_data, bits_done, kind, data, tx, rx, op>>

-----------------------------------------------------------------------------
(* Owi_Master_Reset_Pulse, Owi_Master_Byte_Write and Owi_Master_Byte_Read. *)

\* The request is ignored while an operation is in progress.
Ignored ==
  /\ pc = "idle"
  /\ state \notin {"IDLE", "FAIL"}
  /\ UNCHANGED vars

Request(k, d) ==
  /\ pc = "idle"
  /\ state \in {"IDLE", "FAIL"}
  /\ pc' = "begin" /\ kind' = k /\ data' = d
  /\ op' = IF tx = <<>> THEN [NoOp EXCEPT !.kind = k, !.data = d] ELSE NoOp
  /\ UNCHANGED <<state, own, tx, rx>>

Begin ==
  /\ pc = "begin"
  /\ state' = Busy[kind]
  /\ pc' = IF kind = "reset" THEN "presence" ELSE "flush"
  /\ UNCHANGED <<own, kind, data, tx, rx, op>>

ClearPresence ==
  /\ pc = "presence"
  /\ presence' = FALSE
  /\ pc' = "flush"
  /\ UNCHANGED <<state, read_data, write_data, bits_done, kind, data, tx, rx, op>>

FlushRx ==
  /\ pc = "flush"
  /\ rx' = <<>>
  /\ pc' = "send"
  /\ UNCHANGED <<state, own, kind, data, tx, op>>

Sent(c) == IF op = NoOp THEN NoOp ELSE [op EXCEPT !.sent = Append(@, c)]

FirstChar ==
  CASE kind = "reset" -> ResetPulse
    [] kind = "write" -> BitToByte(Bit(data, 0))
    [] kind = "read"  -> One

SendFirst ==
  /\ pc = "send"
  /\ tx' = Append(tx, FirstChar)
  /\ pc' = IF kind = "write" THEN "data" ELSE "idle"
  /\ op' = Sent(FirstChar)
  /\ UNCHANGED <<state, own, kind, data, rx>>

\* Owi_Master_Byte_Write notes what it sends, after it sent the first bit.
NoteData ==
  /\ pc = "data"
  /\ write_data' = data
  /\ pc' = "bits"
  /\ UNCHANGED <<state, presence, read_data, bits_done, kind, data, tx, rx, op>>

NoteBits ==
  /\ pc = "bits"
  /\ bits_done' = 1
  /\ pc' = "idle"
  /\ UNCHANGED <<state, presence, read_data, write_data, kind, data, tx, rx, op>>

Caller == Begin \/ ClearPresence \/ FlushRx \/ SendFirst \/ NoteData \/ NoteBits \/ AbortDone

-----------------------------------------------------------------------------
(* Tx_Done_Callback, once the last character is out: r is what has been     *)
(* received, its first character x is taken for the echo.                  *)

\* The history: nothing is kept of an operation that is disturbed, because a
\* character was on its way out already when it was requested, or because the
\* callback runs before it is set up.
Undisturbed(o) == IF op # NoOp /\ pc = "idle" THEN o ELSE NoOp

Heard(x) == Undisturbed([op EXCEPT !.heard = Append(@, x)])

HeardAndSent(x, c) ==
  Undisturbed([op EXCEPT !.heard = Append(@, x), !.sent = Append(@, c)])

\* Mutant of DoneUnheard: the failure is not noted.
DoneUnheardSilently(r) ==
  /\ r = <<>>
  /\ tx' = <<>> /\ rx' = <<>>
  /\ op' = Undisturbed(op)
  /\ UNCHANGED <<state, own, pc, kind, data>>

DoneUnheard(r) ==
  /\ r = <<>>
  /\ state' = "FAIL"
  /\ tx' = <<>> /\ rx' = <<>>
  /\ op' = Undisturbed(op)
  /\ UNCHANGED <<own, pc, kind, data>>

DoneReset(r) ==
  /\ r # <<>> /\ state = "BUSY_RESET"
  /\ presence' = (presence \/ r[1] # ResetPulse)
  /\ state' = "IDLE"
  /\ tx' = <<>> /\ rx' = Tail(r)
  /\ op' = Heard(r[1])
  /\ UNCHANGED <<read_data, write_data, bits_done, pc, kind, data>>

\* What the bit just sent should be heard as.
Expected == BitToByte(Bit(write_data, 0))

\* Of a byte's last bit, the failure gives way to IDLE.
DoneWriteLast(r) ==
  /\ r # <<>> /\ state = "BUSY_WRITE" /\ bits_done >= ByteBits
  /\ state' = "IDLE"
  /\ tx' = <<>> /\ rx' = Tail(r)
  /\ op' = Heard(r[1])
  /\ UNCHANGED <<own, pc, kind, data>>

\* Mutant of DoneWrite: the echo is taken and not looked at.
DoneWriteBlind(r) ==
  /\ r # <<>> /\ state = "BUSY_WRITE" /\ bits_done < ByteBits
  /\ write_data' = ShiftRight(write_data)
  /\ bits_done' = bits_done + 1
  /\ tx' = <<BitToByte(Bit(write_data, 1))>> /\ rx' = Tail(r)
  /\ op' = HeardAndSent(r[1], BitToByte(Bit(write_data, 1)))
  /\ UNCHANGED <<state, presence, read_data, pc, kind, data>>

\* The next bit is sent whether or not this one failed.
DoneWrite(r) ==
  /\ r # <<>> /\ state = "BUSY_WRITE" /\ bits_done < ByteBits
  /\ state' = IF r[1] # Expected THEN "FAIL" ELSE state
  /\ write_data' = ShiftRight(write_data)
  /\ bits_done' = bits_done + 1
  /\ tx' = <<BitToByte(Bit(write_data, 1))>> /\ rx' = Tail(r)
  /\ op' = HeardAndSent(r[1], BitToByte(Bit(write_data, 1)))
  /\ UNCHANGED <<presence, read_data, pc, kind, data>>

ShiftIn(x) == [ShiftRight(read_data) EXCEPT ![ByteBits - 1] = IF x = One THEN 1 ELSE 0]

DoneReadLast(r) ==
  /\ r # <<>> /\ state = "BUSY_READ" /\ bits_done >= ByteBits
  /\ read_data' = ShiftIn(r[1])
  /\ state' = "IDLE"
  /\ tx' = <<>> /\ rx' = Tail(r)
  /\ op' = Heard(r[1])
  /\ UNCHANGED <<presence, write_data, bits_done, pc, kind, data>>

\* Mutant of DoneRead: there is always another slot.
DoneReadOn(r) ==
  /\ r # <<>> /\ state = "BUSY_READ"
  /\ read_data' = ShiftIn(r[1])
  /\ bits_done' = bits_done + 1
  /\ tx' = <<One>> /\ rx' = Tail(r)
  /\ op' = HeardAndSent(r[1], One)
  /\ UNCHANGED <<state, presence, write_data, pc, kind, data>>

DoneRead(r) ==
  /\ r # <<>> /\ state = "BUSY_READ" /\ bits_done < ByteBits
  /\ read_data' = ShiftIn(r[1])
  /\ bits_done' = bits_done + 1
  /\ tx' = <<One>> /\ rx' = Tail(r)
  /\ op' = HeardAndSent(r[1], One)
  /\ UNCHANGED <<state, presence, write_data, pc, kind, data>>

\* The operation failed or was aborted: what was received stays.
DoneUnawaited(r) ==
  /\ r # <<>> /\ state \in {"RESET", "IDLE", "FAIL"}
  /\ tx' = <<>> /\ rx' = r
  /\ op' = Undisturbed(op)
  /\ UNCHANGED <<state, own, pc, kind, data>>

TxDone ==
  /\ Len(tx) = 1
  /\ \E e \in Echo(tx[1]) :
       LET r == rx \o e
       IN  \/ DoneUnheard(r) \/ DoneReset(r)
           \/ DoneWriteLast(r) \/ DoneWrite(r)
           \/ DoneReadLast(r) \/ DoneRead(r)
           \/ DoneUnawaited(r)

-----------------------------------------------------------------------------
Next ==
  \/ \E k \in {"init", "abort"} : Abort(k)
  \/ Request("reset", Zero) \/ Request("read", Zero)
  \/ \E d \in Data : Request("write", d)
  \/ Ignored
  \/ Caller
  \/ ShiftOut \/ TxDone

\* A call runs to its end, and the UART sends what it is given.
Spec == Init /\ [][Next]_vars /\ WF_vars(Caller) /\ WF_vars(ShiftOut \/ TxDone)

-----------------------------------------------------------------------------
(* Properties. Those about op are about operations that are not disturbed; *)
(* the others hold for all.                                                *)

TypeOK ==
  /\ state \in {"RESET", "IDLE", "FAIL", "BUSY_RESET", "BUSY_WRITE", "BUSY_READ"}
  /\ presence \in BOOLEAN
  /\ {read_data, write_data} \subseteq Byte
  /\ bits_done \in 0 .. ByteBits
  /\ pc \in {"idle", "begin", "presence", "flush", "send", "data", "bits", "abort"}
  /\ kind \in {"none", "init", "abort", "reset", "write", "read"}
  /\ data \in Data \cup {Zero}
  /\ tx \in Seq(Char) /\ Len(tx) <= 3
  /\ rx \in Seq(Char)

\* The slots of a byte, least significant bit first.
Slots(d) == [i \in 1 .. ByteBits |-> BitToByte(Bit(d, i - 1))]

\* A write sends the bits of its byte in order and no other, and a write that
\* ends well sent them all (Owi_Master_Byte_Write, Tx_Done_Callback lines 133-153).
WriteSendsByte ==
  op.kind = "write" =>
    /\ IsPrefix(op.sent, Slots(op.data))
    /\ state = "IDLE" /\ pc = "idle" => op.sent = Slots(op.data)

\* An operation that ends well says what was heard. A write heard what it sent,
\* for all of its bits but the last; after a reset pulse a slave is present if
\* and only if the wire was pulled low, whatever an earlier pulse had found.
OutcomeIsHeard ==
  state = "IDLE" /\ pc = "idle" =>
    /\ op.kind = "write" => \A i \in 1 .. ByteBits - 1 : op.heard[i] = op.sent[i]
    /\ op.kind = "reset" => (presence <=> op.heard # <<ResetPulse>>)

\* An operation that has the UART to itself sends what it should and reports what was
\* heard (Owi_Master_Reset, Owi_Master_Byte_Write, Tx_Done_Callback).
SendsAndReports == WriteSendsByte /\ OutcomeIsHeard

\* No operation hangs: every one ends, whatever else is on its way out and
\* whatever is heard.
OperationsEnd == state \in {"BUSY_RESET", "BUSY_WRITE", "BUSY_READ"} ~> state \in {"IDLE", "FAIL"}

-----------------------------------------------------------------------------
(* Claims of the sources that the code does not keep.                      *)

\* Owi_Master_Byte_Get.
ByteGet == IF state = "BUSY_READ" THEN Zero ELSE read_data

\* "otherwise return the last read byte" (owi_master.c, line 112): a read that
\* ends well took a slot for each bit and gives their bits, the first one as the least
\* significant.
ReadGetsByte ==
  op.kind = "read" /\ state = "IDLE" /\ pc = "idle" =>
    /\ Len(op.heard) = ByteBits
    /\ \A i \in 1 .. ByteBits : Bit(ByteGet, i - 1) = IF op.heard[i] = One THEN 1 ELSE 0

=============================================================================
