------------------------------ MODULE OwiProofs ------------------------------
(***************************************************************************)
(* Proofs about OwiMaster, for bytes of any width, any bytes written and   *)
(* any disturbance of the wire: its types, and what an operation that has  *)
(* the UART to itself sends and reports.                                   *)
(***************************************************************************)
EXTENDS OwiMaster, SequenceTheorems, TLAPS

BusyStates == {"BUSY_RESET", "BUSY_WRITE", "BUSY_READ"}

-----------------------------------------------------------------------------
(* The inductive invariant.                                                *)

\* How far the transmitter can be filled: two characters survive an abort, one
\* a callback, and the caller adds one, only to an operation that it began.
TxBounded ==
  /\ Len(tx) <= IF state \in BusyStates /\ pc \in {"idle", "data", "bits"} THEN 3 ELSE 2
  /\ state \notin BusyStates /\ pc \in {"presence", "flush", "send"} => Len(tx) <= 1

OpType ==
  /\ op \in [kind : {"none", "reset", "write", "read"}, data : Data \cup {Zero},
             sent : Seq(Char), heard : Seq(Char)]
  /\ op.kind = "none" => op = NoOp

\* The first slots of the byte, in order.
SlotsSent ==
  op.kind = "write" =>
    /\ Len(op.sent) <= ByteBits
    /\ \A i \in 1 .. Len(op.sent) : op.sent[i] = BitToByte(Bit(op.data, i - 1))

\* The first n slots were heard as they were sent.
EchoesHeard(n) ==
  /\ Len(op.heard) >= n
  /\ \A i \in 1 .. n : op.heard[i] = op.sent[i]

\* Requested and nothing sent yet: the transmitter is empty, so no callback comes.
Requested ==
  op.kind # "none" /\ pc \in {"begin", "presence", "flush", "send"} =>
    /\ tx = <<>> /\ op.sent = <<>> /\ op.heard = <<>>
    /\ kind = op.kind /\ data = op.data
    /\ pc # "begin" => state = Busy[kind]
    /\ kind = "reset" /\ pc \in {"flush", "send"} => presence = FALSE

\* The first slot of a write is on its way, what follows it is being noted.
Noting ==
  op.kind # "none" /\ pc \in {"data", "bits"} =>
    /\ state = "BUSY_WRITE" /\ op.kind = "write"
    /\ Len(tx) = 1 /\ Len(op.sent) = 1 /\ op.heard = <<>>
    /\ data = op.data
    /\ pc = "bits" => write_data = op.data

\* From slot to slot: write_data holds the bits from the one being sent on.
Going ==
  op.kind # "none" /\ pc = "idle" =>
    /\ state \in {"IDLE", "FAIL"} \cup BusyStates
    /\ state = "BUSY_RESET" =>
         op.kind = "reset" /\ Len(tx) = 1 /\ op.heard = <<>> /\ presence = FALSE
    /\ state = "BUSY_READ" => op.kind = "read" /\ Len(tx) = 1
    /\ state = "BUSY_WRITE" =>
         /\ op.kind = "write" /\ Len(tx) = 1
         /\ bits_done = Len(op.sent) /\ bits_done >= 1
         /\ Len(op.heard) = bits_done - 1 /\ EchoesHeard(bits_done - 1)
         /\ \A i \in 0 .. ByteBits - 1 : Bit(write_data, i) = Bit(op.data, i + bits_done - 1)
    /\ state = "FAIL" => Len(tx) <= 1

\* What an operation that ended well leaves.
Ended ==
  op.kind # "none" /\ pc = "idle" /\ state = "IDLE" =>
    /\ tx = <<>>
    /\ op.kind = "write" => Len(op.sent) = ByteBits /\ EchoesHeard(ByteBits - 1)
    /\ op.kind = "reset" => (presence <=> op.heard # <<ResetPulse>>)

OpInv == OpType /\ SlotsSent /\ Requested /\ Noting /\ Going /\ Ended

\* Where the caller can be in which function.
Calling ==
  /\ pc = "abort" => op.kind = "none"
  /\ pc = "presence" => kind = "reset"
  /\ pc \in {"data", "bits"} => kind = "write"
  /\ pc \in {"begin", "presence", "flush", "send"} => kind \in {"reset", "write", "read"}

OwiInv == TypeOK /\ TxBounded /\ Calling /\ OpInv

-----------------------------------------------------------------------------
(* What the helpers return.                                                *)

\* The characters that start an operation or carry a bit.
LEMMA CharTypes ==
  /\ ResetPulse \in Char /\ One \in Char /\ Null \in Char /\ Noise \in Char
  /\ \A b : BitToByte(b) \in Char
BY DEF Char, BitToByte

\* What has been received when the callback runs, and its first character.
LEMMA Received ==
  ASSUME rx \in Seq(Char), NEW c \in Char, NEW e \in Echo(c)
  PROVE  /\ rx \o e \in Seq(Char)
         /\ rx \o e # <<>> => (rx \o e)[1] \in Char /\ Tail(rx \o e) \in Seq(Char)
<1>1. e \in Seq(Char)
  <2>1. \A x \in Char : <<x>> \in Seq(Char)
    OBVIOUS
  <2>2. <<>> \in Seq(Char)
    OBVIOUS
  <2>3. e = <<c>> \/ e = <<Noise>> \/ e = <<>>
    BY Zenon DEF Echo
  <2>4. <<c>> \in Seq(Char) /\ <<Noise>> \in Seq(Char)
    BY <2>1, CharTypes
  <2>. QED BY <2>2, <2>3, <2>4, Zenon
<1>2. \A r \in Seq(Char) : r # <<>> => r[1] \in Char /\ Tail(r) \in Seq(Char)
  OBVIOUS
<1>. QED BY <1>1, <1>2

LEMMA ByteTypes ==
  /\ Zero \in Byte
  /\ \A d \in Byte : ShiftRight(d) \in Byte
  /\ read_data \in Byte => \A x : ShiftIn(x) \in Byte
BY OwiAssumption DEF Zero, Byte, ShiftRight, ShiftIn, Bit

\* Bit i of d >> 1 is bit i + 1 of d, beyond the last one as well.
LEMMA BitOfShift ==
  ASSUME NEW d \in Byte, NEW i \in 0 .. ByteBits - 1
  PROVE  Bit(ShiftRight(d), i) = Bit(d, i + 1)
BY OwiAssumption DEF Byte, ShiftRight, Bit

\* The flush keeps at most the two characters that have left the FIFO.
LEMMA FlushTypes ==
  ASSUME tx \in Seq(Char), FlushTx
  PROVE  tx' \in Seq(Char) /\ Len(tx') <= 2
<1>1. PICK k \in 0 .. 2 : tx' = SubSeq(tx, 1, IF k < Len(tx) THEN k ELSE Len(tx))
  BY DEF FlushTx
<1>2. DEFINE n == IF k < Len(tx) THEN k ELSE Len(tx)
<1>3. n \in 0 .. Len(tx) /\ n <= 2 /\ Len(tx) \in Nat
  OBVIOUS
<1>4. \A i \in 1 .. n : tx[i] \in Char
  BY <1>3, ElementOfSeq
<1>. QED BY <1>1, <1>3, <1>4, SubSeqProperties

LEMMA AppendTypes ==
  ASSUME NEW s \in Seq(Char), NEW c \in Char
  PROVE  /\ Append(s, c) \in Seq(Char) /\ Len(Append(s, c)) = Len(s) + 1 /\ Len(s) \in Nat
         /\ Append(s, c)[Len(s) + 1] = c
         /\ \A i \in 1 .. Len(s) : Append(s, c)[i] = s[i]
OBVIOUS

-----------------------------------------------------------------------------
(* Types, and the room of the transmitter.                                 *)

LEMMA InitInv == Init => OwiInv
<1>1. NoOp.kind = "none" /\ NoOp \in [kind : {"none", "reset", "write", "read"}, data : Data \cup {Zero},
                                      sent : Seq(Char), heard : Seq(Char)]
  BY DEF NoOp
<1>. SUFFICES ASSUME Init PROVE OwiInv
  OBVIOUS
<1>2. presence \in BOOLEAN /\ state = "RESET" /\ pc = "idle" /\ tx = <<>>
  BY Zenon DEF Init
<1>3. TypeOK /\ TxBounded
  BY <1>2, ByteTypes, OwiAssumption DEF Init, TypeOK, TxBounded, BusyStates
<1>4. op = NoOp /\ pc = "idle"
  BY DEF Init
<1>. QED
  BY <1>1, <1>2, <1>3, <1>4 DEF OwiInv, Calling, OpInv, OpType, SlotsSent, Requested, Noting, Going, Ended

LEMMA CallerTypes ==
  ASSUME TypeOK, TxBounded, OwiInv,
         \/ \E k \in {"init", "abort"} : Abort(k)
         \/ \E k \in {"reset", "read"} : Request(k, Zero)
         \/ \E d \in Data : Request("write", d)
         \/ Caller
  PROVE  TypeOK' /\ TxBounded'
<1>. USE OwiAssumption DEF TypeOK, TxBounded, own, BusyStates
<1>1. ASSUME NEW k \in {"init", "abort"}, Abort(k) PROVE TypeOK' /\ TxBounded'
  BY <1>1, FlushTypes DEF Abort
<1>2. ASSUME NEW k \in {"reset", "read", "write"}, NEW d \in Data \cup {Zero}, Request(k, d)
      PROVE  TypeOK' /\ TxBounded'
  BY <1>2 DEF Request
<1>3. CASE Begin
  BY <1>3 DEF Begin, Busy, OwiInv, Calling
<1>4. CASE ClearPresence
  BY <1>4 DEF ClearPresence
<1>5. CASE FlushRx
  BY <1>5 DEF FlushRx
<1>6. CASE SendFirst
  <2>1. FirstChar \in Char
    BY <1>6, CharTypes DEF SendFirst, FirstChar, OwiInv, Calling
  <2>. QED BY <1>6, <2>1, AppendTypes DEF SendFirst
<1>7. CASE NoteData
  BY <1>7, ByteTypes DEF NoteData, Byte
<1>8. CASE NoteBits
  BY <1>8 DEF NoteBits
<1>9. CASE AbortDone
  <2>1. read_data' \in Byte
    BY <1>9, ByteTypes DEF AbortDone
  <2>2. presence' \in BOOLEAN /\ state' = "IDLE" /\ pc' = "idle"
    BY <1>9, Zenon DEF AbortDone
  <2>3. UNCHANGED <<write_data, bits_done, kind, data, tx, rx>>
    BY <1>9 DEF AbortDone
  <2>. QED BY <1>9, <2>1, <2>2, <2>3 DEF AbortDone
<1>. QED BY <1>1, <1>2, <1>3, <1>4, <1>5, <1>6, <1>7, <1>8, <1>9 DEF Caller

LEMMA CallbackTypes ==
  ASSUME TypeOK, TxBounded, ShiftOut \/ TxDone
  PROVE  TypeOK' /\ TxBounded'
<1>. USE OwiAssumption DEF TypeOK, TxBounded, own, BusyStates
<1>1. CASE ShiftOut
  <2>1. PICK e \in Echo(Head(tx)) : rx' = rx \o e
    BY <1>1 DEF ShiftOut
  <2>2. Head(tx) \in Char /\ Tail(tx) \in Seq(Char) /\ Len(Tail(tx)) = Len(tx) - 1 /\ Len(tx) \in Nat
    BY <1>1 DEF ShiftOut
  <2>. QED BY <1>1, <2>1, <2>2, Received DEF ShiftOut
<1>2. CASE TxDone
  <2>1. tx[1] \in Char
    <3>1. Len(tx) = 1
      BY <1>2 DEF TxDone
    <3>2. tx \in Seq(Char)
      OBVIOUS
    <3>. HIDE DEF TypeOK
    <3>. QED BY <3>1, <3>2, ElementOfSeq
  <2>2. PICK e \in Echo(tx[1]) :
          LET r == rx \o e
          IN  \/ DoneUnheard(r) \/ DoneReset(r) \/ DoneWriteLast(r) \/ DoneWrite(r)
              \/ DoneReadLast(r) \/ DoneRead(r) \/ DoneUnawaited(r)
    BY <1>2 DEF TxDone
  <2>. DEFINE r == rx \o e
  <2>3. r \in Seq(Char) /\ (r # <<>> => r[1] \in Char /\ Tail(r) \in Seq(Char))
    BY <2>1, Received
  <2>4. \A c \in Char : <<c>> \in Seq(Char) /\ Len(<<c>>) = 1
    OBVIOUS
  <2>5. <<>> \in Seq(Char) /\ Len(<<>>) = 0
    OBVIOUS
  <2>. HIDE DEF r
  <2>. USE <2>3, <2>4, <2>5
  <2>6. CASE DoneUnheard(r)
    BY <2>6 DEF DoneUnheard
  <2>7. CASE DoneReset(r)
    BY <2>7 DEF DoneReset
  <2>8. CASE DoneWriteLast(r)
    BY <2>8 DEF DoneWriteLast
  <2>9. CASE DoneWrite(r)
    BY <2>9, ByteTypes, CharTypes DEF DoneWrite
  <2>10. CASE DoneReadLast(r)
    BY <2>10, ByteTypes DEF DoneReadLast
  <2>11. CASE DoneRead(r)
    BY <2>11, ByteTypes, CharTypes DEF DoneRead
  <2>12. CASE DoneUnawaited(r)
    BY <2>12 DEF DoneUnawaited
  <2>. QED BY <2>2, <2>6, <2>7, <2>8, <2>9, <2>10, <2>11, <2>12 DEF r
<1>. QED BY <1>1, <1>2

-----------------------------------------------------------------------------
(* The history of an operation.                                            *)

\* Nothing is claimed of an operation that is not kept.
LEMMA NothingKept ==
  ASSUME op' = NoOp
  PROVE  OpInv' /\ op'.kind = "none"
<1>1. NoOp.kind = "none" /\ NoOp \in [kind : {"none", "reset", "write", "read"}, data : Data \cup {Zero},
                                      sent : Seq(Char), heard : Seq(Char)]
  BY DEF NoOp
<1>. QED BY <1>1 DEF OpInv, OpType, SlotsSent, Requested, Noting, Going, Ended

\* The functions of the caller, one step each.
LEMMA CallerStep ==
  ASSUME OwiInv,
         \/ \E k \in {"init", "abort"} : Abort(k)
         \/ \E k \in {"reset", "read"} : Request(k, Zero)
         \/ \E d \in Data : Request("write", d)
         \/ Caller
  PROVE  Calling' /\ OpInv'
<1>. USE OwiAssumption DEF OwiInv, OpInv, Calling, own
<1>1. ASSUME NEW k \in {"init", "abort"}, Abort(k) PROVE Calling' /\ OpInv'
  BY <1>1, NothingKept DEF Abort
<1>2. ASSUME NEW k \in {"reset", "read", "write"}, NEW d \in Data \cup {Zero}, Request(k, d)
      PROVE  Calling' /\ OpInv'
  <2>1. CASE tx = <<>>
    <3>1. op' = [kind |-> k, data |-> d, sent |-> <<>>, heard |-> <<>>] /\ pc' = "begin"
      BY <1>2, <2>1 DEF Request, NoOp
    <3>2. <<>> \in Seq(Char) /\ Len(<<>>) = 0
      OBVIOUS
    <3>3. OpType' /\ SlotsSent'
      BY <3>1, <3>2 DEF OpType, SlotsSent
    <3>4. tx' = <<>> /\ kind' = op'.kind /\ data' = op'.data
      BY <1>2, <2>1, <3>1 DEF Request
    <3>5. Requested'
      BY <3>1, <3>4 DEF Requested
    <3>6. Noting' /\ Going' /\ Ended'
      BY <3>1 DEF Noting, Going, Ended
    <3>. QED BY <1>2, <3>1, <3>3, <3>5, <3>6 DEF Request
  <2>2. CASE tx # <<>>
    BY <1>2, <2>2, NothingKept DEF Request
  <2>. QED BY <2>1, <2>2
<1>3. CASE Begin
  BY <1>3 DEF Begin, OpType, SlotsSent, Requested, Noting, Going, Ended
<1>4. CASE ClearPresence
  BY <1>4 DEF ClearPresence, OpType, SlotsSent, Requested, Noting, Going, Ended
<1>5. CASE FlushRx
  BY <1>5 DEF FlushRx, OpType, SlotsSent, Requested, Noting, Going, Ended
<1>6. CASE SendFirst
  <2>1. CASE op = NoOp
    BY <1>6, <2>1, NothingKept DEF SendFirst, Sent
  <2>2. CASE op # NoOp
    <3>1. tx = <<>> /\ op.sent = <<>> /\ op.heard = <<>> /\ kind = op.kind /\ data = op.data /\ state = Busy[kind]
      BY <1>6, <2>2 DEF SendFirst, Requested, OpType
    <3>2. op' = [op EXCEPT !.sent = <<FirstChar>>] /\ tx' = <<FirstChar>>
      BY <1>6, <2>2, <3>1 DEF SendFirst, Sent
    <3>3. FirstChar \in Char /\ <<FirstChar>> \in Seq(Char) /\ Len(<<FirstChar>>) = 1 /\ <<FirstChar>>[1] = FirstChar
      BY <1>6, CharTypes DEF SendFirst, FirstChar
    <3>4. OpType'
      BY <2>2, <3>2, <3>3 DEF OpType
    <3>5. SlotsSent'
      BY <3>1, <3>2, <3>3 DEF SlotsSent, FirstChar, OpType
    <3>6. Requested' /\ Noting' /\ Going' /\ Ended'
      BY <1>6, <2>2, <3>1, <3>2, <3>3 DEF SendFirst, Requested, Noting, Going, Ended, OpType, Busy, BusyStates
    <3>. QED BY <1>6, <3>4, <3>5, <3>6 DEF SendFirst
  <2>. QED BY <2>1, <2>2
<1>7. CASE NoteData
  BY <1>7 DEF NoteData, OpType, SlotsSent, Requested, Noting, Going, Ended
<1>8. CASE NoteBits
  <2>1. OpType' /\ SlotsSent' /\ Requested' /\ Noting'
    BY <1>8 DEF NoteBits, OpType, SlotsSent, Requested, Noting
  <2>2. ASSUME op.kind # "none" PROVE Going' /\ Ended'
    <3>1. /\ state' = "BUSY_WRITE" /\ op' = op /\ op.kind = "write" /\ Len(tx') = 1
          /\ bits_done' = 1 /\ Len(op.sent) = 1 /\ Len(op.heard) = 0 /\ write_data' = op.data
      BY <1>8, <2>2 DEF NoteBits, Noting
    <3>2. EchoesHeard(0)'
      BY <3>1 DEF EchoesHeard
    <3>3. Going'
      BY <3>1, <3>2 DEF Going, BusyStates
    <3>. QED BY <3>1, <3>3 DEF Ended
  <2>3. ASSUME op.kind = "none" PROVE Going' /\ Ended'
    BY <1>8, <2>3 DEF NoteBits, Going, Ended
  <2>. QED BY <1>8, <2>1, <2>2, <2>3 DEF NoteBits
<1>9. CASE AbortDone
  BY <1>9, NothingKept DEF AbortDone, OpType
<1>. QED BY <1>1, <1>2, <1>3, <1>4, <1>5, <1>6, <1>7, <1>8, <1>9 DEF Caller

\* A character that is followed by another one is not part of a kept operation.
LEMMA ShiftOutStep ==
  ASSUME OwiInv, ShiftOut
  PROVE  Calling' /\ OpInv'
<1>1. Len(tx) > 1 /\ UNCHANGED <<state, own, pc, kind, data, op>>
  BY DEF ShiftOut
<1>2. op.kind = "none"
  <2>1. Len(tx) # 1 /\ ~(Len(tx) <= 1) /\ tx # <<>>
    <3>1. tx \in Seq(Char) /\ Len(tx) > 1
      BY <1>1 DEF OwiInv, TypeOK
    <3>2. \A n \in Nat : n > 1 => n # 1 /\ ~(n <= 1)
      OBVIOUS
    <3>3. \A s \in Seq(Char) : Len(s) \in Nat /\ (Len(s) > 1 => s # <<>>)
      OBVIOUS
    <3>. QED BY <3>1, <3>2, <3>3, Zenon
  <2>2. ~(op.kind # "none" /\ pc \in {"begin", "presence", "flush", "send"})
    BY <2>1 DEF OwiInv, OpInv, Requested
  <2>3. ~(op.kind # "none" /\ pc \in {"data", "bits"})
    BY <2>1 DEF OwiInv, OpInv, Noting
  <2>4. ~(op.kind # "none" /\ pc = "idle")
    BY <2>1 DEF OwiInv, OpInv, Going, Ended, BusyStates
  <2>. QED BY <2>2, <2>3, <2>4 DEF OwiInv, TypeOK, Calling
<1>. QED BY <1>1, <1>2, NothingKept DEF OwiInv, OpInv, OpType, Calling

\* The callback, on the character x that it takes for the echo.
LEMMA CallbackStep ==
  ASSUME OwiInv, TxDone
  PROVE  Calling' /\ OpInv'
<1>1. PICK e \in Echo(tx[1]) :
        LET r == rx \o e
        IN  \/ DoneUnheard(r) \/ DoneReset(r) \/ DoneWriteLast(r) \/ DoneWrite(r)
            \/ DoneReadLast(r) \/ DoneRead(r) \/ DoneUnawaited(r)
  BY DEF TxDone
<1>. DEFINE r == rx \o e
<1>2. r # <<>> => r[1] \in Char
  <2>1. Len(tx) = 1 /\ tx \in Seq(Char) /\ rx \in Seq(Char)
    BY DEF TxDone, OwiInv, TypeOK
  <2>2. tx[1] \in Char
    BY <2>1, ElementOfSeq
  <2>. QED BY <2>1, <2>2, Received
<1>3. DoneUnheard(r) \/ DoneReset(r) \/ DoneWriteLast(r) \/ DoneWrite(r)
        \/ DoneReadLast(r) \/ DoneRead(r) \/ DoneUnawaited(r)
  BY <1>1
<1>. HIDE DEF r
<1>4. pc' = pc /\ kind' = kind /\ data' = data
  BY <1>3 DEF DoneUnheard, DoneReset, DoneWriteLast, DoneWrite, DoneReadLast, DoneRead, DoneUnawaited
<1>5. CASE ~(op # NoOp /\ pc = "idle")
  <2>1. op' = NoOp
    BY <1>3, <1>5 DEF DoneUnheard, DoneReset, DoneWriteLast, DoneWrite, DoneReadLast, DoneRead, DoneUnawaited,
                      Undisturbed, Heard, HeardAndSent
  <2>. QED BY <1>4, <2>1, NothingKept DEF OwiInv, Calling
<1>6. CASE op # NoOp /\ pc = "idle"
  <2>1. /\ op.kind # "none" /\ op.kind \in {"reset", "write", "read"}
        /\ op.data \in Data \cup {Zero} /\ op.sent \in Seq(Char) /\ op.heard \in Seq(Char)
        /\ op = [kind |-> op.kind, data |-> op.data, sent |-> op.sent, heard |-> op.heard]
    BY <1>6 DEF OwiInv, OpInv, OpType
  <2>2. Calling' /\ Requested' /\ Noting'
    BY <1>4, <1>6 DEF Calling, Requested, Noting
  <2>. DEFINE x == r[1]
              h == Append(op.heard, x)
  <2>3. r # <<>> => /\ h \in Seq(Char) /\ Len(h) = Len(op.heard) + 1 /\ Len(op.heard) \in Nat
                    /\ h[Len(op.heard) + 1] = x
                    /\ \A i \in 1 .. Len(op.heard) : h[i] = op.heard[i]
    BY <1>2, <2>1, AppendTypes
  <2>. HIDE DEF x
  <2>4. /\ state \in {"IDLE", "FAIL", "BUSY_RESET", "BUSY_WRITE", "BUSY_READ"}
        /\ SlotsSent
    BY <1>6, <2>1 DEF OwiInv, OpInv, Going, BusyStates
  <2>5. CASE DoneUnheard(r)
    <3>1. op' = op /\ state' = "FAIL" /\ tx' = <<>>
      BY <1>6, <2>5 DEF DoneUnheard, Undisturbed
    <3>2. OpType' /\ SlotsSent'
      BY <3>1 DEF OwiInv, OpInv, OpType, SlotsSent
    <3>. QED BY <2>2, <3>1, <3>2 DEF OpInv, Going, Ended, BusyStates
  <2>6. CASE DoneUnawaited(r)
    <3>1. op' = op /\ state' = state /\ tx' = <<>> /\ presence' = presence /\ state \notin BusyStates
      BY <1>6, <2>6 DEF DoneUnawaited, Undisturbed, own, BusyStates
    <3>2. OpType' /\ SlotsSent'
      BY <3>1 DEF OwiInv, OpInv, OpType, SlotsSent
    <3>3. Going'
      BY <2>4, <3>1 DEF Going, BusyStates
    <3>4. Ended'
      BY <1>6, <2>1, <3>1 DEF OwiInv, OpInv, Ended, EchoesHeard
    <3>. QED BY <2>2, <3>2, <3>3, <3>4 DEF OpInv
  <2>7. CASE DoneReset(r)
    <3>1. /\ state = "BUSY_RESET" /\ state' = "IDLE" /\ tx' = <<>> /\ r # <<>>
          /\ op' = [op EXCEPT !.heard = h] /\ presence' = (presence \/ x # ResetPulse)
      BY <1>6, <2>7 DEF DoneReset, Heard, Undisturbed, x
    <3>2. op.kind = "reset" /\ op.heard = <<>> /\ presence = FALSE
      BY <1>6, <2>1, <3>1 DEF OwiInv, OpInv, Going
    <3>3. OpType' /\ SlotsSent'
      BY <2>1, <2>3, <3>1, <3>2 DEF OpType, SlotsSent
    <3>4. h = <<x>>
      BY <3>2
    <3>5. op'.heard = <<x>> /\ op'.kind = "reset" /\ (presence' <=> x # ResetPulse)
      BY <2>1, <3>1, <3>2, <3>4
    <3>. QED BY <2>2, <3>1, <3>3, <3>5 DEF OpInv, Going, Ended, BusyStates
  <2>8. CASE DoneReadLast(r)
    <3>1. state = "BUSY_READ" /\ state' = "IDLE" /\ tx' = <<>> /\ r # <<>> /\ op' = [op EXCEPT !.heard = h]
      BY <1>6, <2>8 DEF DoneReadLast, Heard, Undisturbed, x
    <3>2. op.kind = "read"
      BY <1>6, <2>1, <3>1 DEF OwiInv, OpInv, Going
    <3>3. OpType' /\ SlotsSent'
      BY <2>1, <2>3, <3>1, <3>2 DEF OpType, SlotsSent
    <3>4. op'.kind = "read"
      BY <2>1, <3>1, <3>2
    <3>. QED BY <2>2, <3>1, <3>3, <3>4 DEF OpInv, Going, Ended, BusyStates
  <2>9. CASE DoneRead(r)
    <3>1. /\ state = "BUSY_READ" /\ state' = state /\ tx' = <<One>> /\ r # <<>>
          /\ op' = [op EXCEPT !.heard = h, !.sent = Append(op.sent, One)]
      BY <1>6, <2>9 DEF DoneRead, HeardAndSent, Undisturbed, x
    <3>2. op.kind = "read"
      BY <1>6, <2>1, <3>1 DEF OwiInv, OpInv, Going
    <3>3. Append(op.sent, One) \in Seq(Char) /\ Len(tx') = 1
      BY <2>1, <3>1, CharTypes
    <3>4. OpType' /\ SlotsSent'
      BY <2>1, <2>3, <3>1, <3>2, <3>3 DEF OpType, SlotsSent
    <3>5. op'.kind = "read"
      BY <2>1, <3>1, <3>2
    <3>. QED BY <2>2, <3>1, <3>3, <3>4, <3>5 DEF OpInv, Going, Ended, BusyStates
  <2>10. CASE DoneWriteLast(r)
    <3>1. /\ state = "BUSY_WRITE" /\ state' = "IDLE" /\ tx' = <<>> /\ r # <<>> /\ bits_done >= ByteBits
          /\ op' = [op EXCEPT !.heard = h]
      BY <1>6, <2>10 DEF DoneWriteLast, Heard, Undisturbed, x
    <3>2. /\ op.kind = "write" /\ bits_done = ByteBits /\ Len(op.sent) = ByteBits
          /\ Len(op.heard) = ByteBits - 1 /\ EchoesHeard(ByteBits - 1)
      BY <1>6, <2>1, <3>1, OwiAssumption DEF OwiInv, OpInv, Going, TypeOK
    <3>3. OpType' /\ SlotsSent'
      BY <2>1, <2>3, <2>4, <3>1, <3>2 DEF OpType, SlotsSent
    <3>4. op'.kind = "write" /\ op'.sent = op.sent /\ op'.heard = h
      BY <2>1, <3>1, <3>2
    <3>5. EchoesHeard(ByteBits - 1)'
      BY <2>3, <3>1, <3>2, <3>4, OwiAssumption DEF EchoesHeard
    <3>. QED BY <2>2, <3>1, <3>2, <3>3, <3>4, <3>5 DEF OpInv, Going, Ended, BusyStates
  <2>11. CASE DoneWrite(r)
    <3>. DEFINE c == BitToByte(Bit(write_data, 1))
                s == Append(op.sent, c)
    <3>1. /\ state = "BUSY_WRITE" /\ tx' = <<c>> /\ r # <<>> /\ bits_done < ByteBits
          /\ state' = (IF x # Expected THEN "FAIL" ELSE state)
          /\ bits_done' = bits_done + 1 /\ write_data' = ShiftRight(write_data)
          /\ op' = [op EXCEPT !.heard = h, !.sent = s]
      BY <1>6, <2>11 DEF DoneWrite, HeardAndSent, Undisturbed, x
    <3>2. /\ op.kind = "write" /\ bits_done = Len(op.sent) /\ bits_done >= 1 /\ bits_done \in Nat
          /\ Len(op.heard) = bits_done - 1 /\ EchoesHeard(bits_done - 1)
          /\ \A i \in 0 .. ByteBits - 1 : Bit(write_data, i) = Bit(op.data, i + bits_done - 1)
      BY <1>6, <2>1, <3>1 DEF OwiInv, OpInv, Going, TypeOK
    <3>3. c \in Char /\ c = BitToByte(Bit(op.data, bits_done))
      BY <3>1, <3>2, CharTypes, OwiAssumption
    <3>4. /\ s \in Seq(Char) /\ Len(s) = bits_done + 1 /\ s[bits_done + 1] = c
          /\ \A i \in 1 .. bits_done : s[i] = op.sent[i]
      BY <2>1, <3>2, <3>3, AppendTypes
    <3>. HIDE DEF c, s
    <3>5. op'.kind = "write" /\ op'.sent = s /\ op'.heard = h /\ op'.data = op.data /\ Len(tx') = 1
      BY <2>1, <3>1, <3>2
    <3>6. OpType'
      BY <2>1, <2>3, <3>1, <3>2, <3>4 DEF OpType
    <3>7. SlotsSent'
      BY <2>4, <3>1, <3>2, <3>3, <3>4, <3>5, OwiAssumption DEF SlotsSent
    <3>8. ASSUME x = Expected PROVE EchoesHeard(bits_done - 1)'
      <4>1. x = BitToByte(Bit(op.data, bits_done - 1))
        BY <3>1, <3>2, <3>8, OwiAssumption DEF Expected
      <4>2. op.sent[bits_done] = x
        BY <2>4, <3>2, <4>1 DEF SlotsSent
      <4>3. op'.sent = s /\ op'.heard = h /\ h[bits_done] = x
        BY <2>3, <3>1, <3>2, <3>5
      <4>4. \A i \in 1 .. bits_done - 1 : h[i] = s[i]
        BY <2>3, <3>1, <3>2, <3>4 DEF EchoesHeard
      <4>5. s[bits_done] = x
        BY <3>2, <3>4, <4>2
      <4>6. \A i \in 1 .. bits_done : h[i] = s[i]
        BY <3>2, <4>3, <4>4, <4>5
      <4>7. Len(h) >= bits_done
        BY <2>3, <3>1, <3>2
      <4>8. bits_done' - 1 = bits_done
        BY <3>1, <3>2
      <4>. QED BY <4>3, <4>6, <4>7, <4>8 DEF EchoesHeard
    <3>9. ASSUME NEW i \in 0 .. ByteBits - 1
          PROVE  Bit(write_data', i) = Bit(op'.data, i + bits_done' - 1)
      <4>1. Bit(write_data', i) = Bit(write_data, i + 1)
        BY <3>1, BitOfShift DEF OwiInv, TypeOK
      <4>2. CASE i + 1 < ByteBits
        <5>1. Bit(write_data, i + 1) = Bit(op.data, (i + 1) + bits_done - 1)
          <6>1. i + 1 \in 0 .. ByteBits - 1
            BY <4>2, OwiAssumption
          <6>. QED BY <3>2, <6>1
        <5>2. (i + 1) + bits_done - 1 = i + bits_done' - 1
          BY <3>1, <3>2, OwiAssumption
        <5>. QED BY <3>5, <4>1, <5>1, <5>2
      <4>3. CASE i + 1 >= ByteBits
        <5>1. i + 1 \notin 0 .. ByteBits - 1 /\ i + bits_done' - 1 \notin 0 .. ByteBits - 1
          BY <3>1, <3>2, <4>3, OwiAssumption
        <5>2. DOMAIN write_data = 0 .. ByteBits - 1 /\ DOMAIN op.data = 0 .. ByteBits - 1
          BY <2>1, OwiAssumption, ByteTypes DEF OwiInv, TypeOK, Byte
        <5>. QED BY <3>5, <4>1, <5>1, <5>2 DEF Bit
      <4>. QED BY <4>2, <4>3, OwiAssumption
    <3>10. CASE x # Expected
      <4>1. Going' /\ Ended'
        BY <3>1, <3>5, <3>10 DEF Going, Ended, BusyStates
      <4>. QED BY <2>2, <3>6, <3>7, <4>1 DEF OpInv
    <3>11. CASE x = Expected
      <4>1. /\ state' = "BUSY_WRITE" /\ bits_done' = Len(op'.sent) /\ bits_done' >= 1
            /\ Len(op'.heard) = bits_done' - 1
        BY <2>3, <3>1, <3>2, <3>4, <3>5, <3>11
      <4>2. Going'
        BY <3>5, <3>8, <3>9, <3>11, <4>1 DEF Going, BusyStates
      <4>3. Ended'
        BY <4>1 DEF Ended
      <4>. QED BY <2>2, <3>6, <3>7, <4>2, <4>3 DEF OpInv
    <3>. QED BY <3>10, <3>11
  <2>. QED BY <1>3, <2>5, <2>6, <2>7, <2>8, <2>9, <2>10, <2>11
<1>. QED BY <1>5, <1>6

LEMMA StepInv == OwiInv /\ [Next]_vars => OwiInv'
<1> SUFFICES ASSUME OwiInv, [Next]_vars PROVE OwiInv'
  OBVIOUS
<1>1. CASE \/ \E k \in {"init", "abort"} : Abort(k)
           \/ \E k \in {"reset", "read"} : Request(k, Zero)
           \/ \E d \in Data : Request("write", d)
           \/ Caller
  BY <1>1, CallerTypes, CallerStep DEF OwiInv
<1>2. CASE ShiftOut \/ TxDone
  BY <1>2, CallbackTypes, ShiftOutStep, CallbackStep DEF OwiInv
<1>3. CASE UNCHANGED vars
  BY <1>3 DEF vars, own, OwiInv, TypeOK, TxBounded, Calling, OpInv, OpType, SlotsSent,
              Requested, Noting, Going, Ended, EchoesHeard
<1>. QED BY <1>1, <1>2, <1>3 DEF Next, Ignored

LEMMA InvCorrect == Spec => []OwiInv
BY InitInv, StepInv, PTL DEF Spec

-----------------------------------------------------------------------------
(* The theorems.                                                           *)

\* Whatever is requested, aborted and heard, the variables keep their types:
\* the bits are never counted beyond the width of a byte, and no more than
\* three characters are ever on their way out.
THEOREM OwiTypeCorrect == Spec => []TypeOK
<1>1. OwiInv => TypeOK
  BY DEF OwiInv
<1>. QED BY <1>1, InvCorrect, PTL

\* A write sends the bits of its byte in order and no other, and one that ends
\* well sent all of them.
THEOREM WriteCorrect == Spec => []WriteSendsByte
<1>1. OwiInv => WriteSendsByte
  <2> SUFFICES ASSUME OwiInv, op.kind = "write"
               PROVE  /\ IsPrefix(op.sent, Slots(op.data))
                      /\ state = "IDLE" /\ pc = "idle" => op.sent = Slots(op.data)
    BY DEF WriteSendsByte
  <2>1. op.sent \in Seq(Char) /\ Len(op.sent) <= ByteBits /\ Len(op.sent) \in Nat
    BY DEF OwiInv, OpInv, OpType, SlotsSent
  <2>2. \A i \in 1 .. ByteBits : Slots(op.data)[i] \in Char
    BY CharTypes DEF Slots
  <2>3. /\ Slots(op.data) \in Seq(Char) /\ Len(Slots(op.data)) = ByteBits
        /\ \A i \in 1 .. Len(op.sent) : op.sent[i] = Slots(op.data)[i]
    BY <2>1, <2>2, OwiAssumption DEF OwiInv, OpInv, SlotsSent, Slots
  <2>4. IsPrefix(op.sent, Slots(op.data))
    BY <2>1, <2>3, OwiAssumption, SubSeqProperties DEF IsPrefix
  <2>5. ASSUME state = "IDLE", pc = "idle" PROVE op.sent = Slots(op.data)
    <3>1. Len(op.sent) = ByteBits
      BY <2>5 DEF OwiInv, OpInv, Ended
    <3>. QED BY <2>1, <2>3, <3>1, SeqEqual
  <2>. QED BY <2>4, <2>5
<1>. QED BY <1>1, InvCorrect, PTL

\* What an operation that ends well reports is what was heard.
THEOREM OutcomeCorrect == Spec => []OutcomeIsHeard
<1>1. OwiInv => OutcomeIsHeard
  BY DEF OwiInv, OpInv, Ended, EchoesHeard, OutcomeIsHeard
<1>. QED BY <1>1, InvCorrect, PTL

\* Both: an operation that has the UART to itself sends its byte and reports what was heard.
THEOREM SendsAndReportsCorrect == Spec => []SendsAndReports
<1>1. WriteSendsByte /\ OutcomeIsHeard => SendsAndReports
  BY DEF SendsAndReports
<1>. QED BY <1>1, WriteCorrect, OutcomeCorrect, PTL

=============================================================================
