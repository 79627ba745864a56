----------------------------- MODULE I2cProofs -----------------------------
(***************************************************************************)
(* Proofs about the I2C slave driver, for any buffers, transfers of any    *)
(* length and any moment at which the application enables and disables it: *)
(* what the master reads and writes is what is in the buffer, and the stop *)
(* of a transfer is handled before anything of the next one.               *)
(*                                                                         *)
(* The first two are not inductive. ReadInv and WriteInv add where the      *)
(* bytes between the buffer and the bus are, and how far index has got;    *)
(* FlagsInv says which flags may be pending when, which is what the order  *)
(* in which the handler serves them relies on.                             *)
(***************************************************************************)
EXTENDS I2cSlave, SequenceTheorems, TLAPS

Xfers ==
  [sent : Seq(Byte \cup {Filler, 0}), acked : Seq(Byte), cut : BOOLEAN, late : BOOLEAN,
   due : {"none", "read", "write"}]

TypeInv == TypeOK /\ xfer \in Xfers /\ Len(buffer) \in 1 .. IndexMod - 1

FlagsInv ==
  /\ "ADDR" \in ISR => bus = "address"
  /\ bus = "address" => shift = NULL /\ xfer.sent = <<>> /\ xfer.acked = <<>>
  /\ bus = "read" => dir = "read"
  /\ bus \in {"write", "byte"} => dir = "write"
  /\ Served => "STOPF" \notin ISR
  /\ "TXIS" \in ISR =>
       TXDR = NULL /\ ("STOPF" \in ISR \/ (bus # "idle" /\ (dir = "read" \/ xfer.late)))
  /\ "TCR" \in ISR => bus = "byte"
  /\ bus = "byte" => RXDR \in Byte
  /\ "RXNE" \in ISR /\ "RXIE" \in CR1 => "TCR" \in ISR
  /\ Served /\ dir = "write" /\ "RXIE" \in CR1 => "SBC" \in CR1
  /\ state = "INACTIVE" => CR1 \cap (Listen \cup Data) = {} /\ (xfer.cut \/ ~Served)

\* How many bytes a register holds, and what is sent in place i of a transfer.
Full(r) == IF r = NULL THEN 0 ELSE 1

Wanted(i) == IF i <= Len(buffer) THEN buffer[i] ELSE Filler

\* How many bytes the handler has given for the transfer that is going on.
Given == Len(xfer.sent) + Full(shift) + Full(TXDR)

ReadInv ==
  Served /\ dir = "read" /\ ~xfer.cut =>
    /\ \A i \in 1 .. Len(xfer.sent) : xfer.sent[i] = Wanted(i)
    /\ shift # NULL => shift = Wanted(Len(xfer.sent) + 1)
    /\ TXDR # NULL => TXDR = Wanted(Given)
    /\ index = IF Given <= Len(buffer) THEN Given ELSE Len(buffer)

WriteInv ==
  Served /\ dir = "write" /\ ~xfer.cut =>
    /\ "SBC" \in CR1
    /\ ~xfer.late =>
         /\ Len(xfer.acked) <= Len(buffer)
         /\ \A i \in 1 .. Len(xfer.acked) : xfer.acked[i] = buffer[i]
         /\ bus \in {"address", "write"} \/ "TCR" \in ISR => index = Len(xfer.acked)
         /\ bus = "byte" /\ "TCR" \notin ISR /\ ~NACK =>
              /\ index = Len(xfer.acked) + 1 /\ index <= Len(buffer)
              /\ buffer[index] = RXDR

I2cInv == TypeInv /\ FlagsInv /\ ReadInv /\ WriteInv

-----------------------------------------------------------------------------
LEMMA InitInv == Init => I2cInv
<1> SUFFICES ASSUME Init PROVE I2cInv
  OBVIOUS
<1> USE I2cAssumption DEF Init, NewXfer
<1>1. TypeInv
  BY DEF TypeInv, TypeOK, Served, Xfers, Listen, Data
<1>2. FlagsInv /\ ReadInv /\ WriteInv
  BY DEF FlagsInv, ReadInv, WriteInv, Served
<1> QED
  BY <1>1, <1>2 DEF I2cInv

-----------------------------------------------------------------------------
(* Which flags are pending when.                                           *)

\* The steps of the master and the peripheral.
LEMMA FlagsBus ==
  ASSUME TypeInv, FlagsInv,
         \/ Peripheral \/ Stop \/ BusError
         \/ \E d \in {"read", "write"} : Start(d)
         \/ \E more \in BOOLEAN : ReadByte(more)
         \/ \E b \in Byte : WriteByte(b)
  PROVE  FlagsInv'
<1> USE DEF TypeInv, TypeOK, Xfers, FlagsInv, Served, Listen, Data, driver, regs, data
<1>1. ASSUME NEW d \in {"read", "write"}, Start(d) PROVE FlagsInv'
  BY <1>1 DEF Start, NewXfer
<1>2. CASE AddressDone
  BY <1>2 DEF AddressDone
<1>3. CASE LoadShift
  BY <1>3 DEF LoadShift
<1>4. ASSUME NEW more \in BOOLEAN, ReadByte(more) PROVE FlagsInv'
  BY <1>4 DEF ReadByte
<1>5. ASSUME NEW b \in Byte, WriteByte(b) PROVE FlagsInv'
  BY <1>5 DEF WriteByte
<1>6. CASE Acknowledge
  <2>1. /\ bus = "byte" /\ "TCR" \notin ISR /\ bus' \in {"nacked", "write"}
        /\ xfer'.late = xfer.late /\ xfer'.cut = xfer.cut
        /\ UNCHANGED <<driver, regs, ISR, dir, TXDR, shift>>
    BY <1>6 DEF Acknowledge
  <2> QED
    BY <2>1
<1>7. CASE Stop
  BY <1>7 DEF Stop, NewXfer
<1>8. CASE BusError
  BY <1>8 DEF BusError
<1> QED
  BY <1>1, <1>2, <1>3, <1>4, <1>5, <1>6, <1>7, <1>8 DEF Peripheral

\* The steps of the driver and the application.
LEMMA FlagsDriver ==
  ASSUME TypeInv, FlagsInv,
         EvHandler \/ OnError \/ Enable \/ Disable \/ DisableDone \/ BufferAttach
  PROVE  FlagsInv'
<1> USE DEF TypeInv, TypeOK, Xfers, FlagsInv, Served, Listen, Data, driver, regs, data,
            Event, EvEntered, EvPending
<1>1. CASE OnStop
  BY <1>1 DEF OnStop
<1>2. CASE AddrWrite
  BY <1>2 DEF AddrWrite
<1>3. CASE AddrRead
  BY <1>3 DEF AddrRead
<1>4. CASE OnNack
  BY <1>4 DEF OnNack
<1>5. CASE OnTx
  BY <1>5 DEF OnTx
<1>6. CASE OnRx
  BY <1>6 DEF OnRx
<1>7. CASE OnError
  BY <1>7 DEF OnError
<1>8. CASE Enable
  BY <1>8 DEF Enable
<1>9. CASE Disable
  BY <1>9 DEF Disable
<1>10. CASE DisableDone
  BY <1>10 DEF DisableDone
<1>11. CASE BufferAttach
  BY <1>11 DEF BufferAttach
<1> QED
  BY <1>1, <1>2, <1>3, <1>4, <1>5, <1>6, <1>7, <1>8, <1>9, <1>10, <1>11 DEF EvHandler

-----------------------------------------------------------------------------
(* Types.                                                                  *)

\* A byte that is stored in a buffer replaces what is in its place.
LEMMA StoreByte ==
  ASSUME NEW s \in Seq(Byte), NEW k \in 1 .. Len(s), NEW b \in Byte
  PROVE  /\ [s EXCEPT ![k] = b] \in Seq(Byte)
         /\ Len([s EXCEPT ![k] = b]) = Len(s)
         /\ \A i \in 1 .. Len(s) : [s EXCEPT ![k] = b][i] = IF i = k THEN b ELSE s[i]
  OBVIOUS

\* A byte more on the bus.
LEMMA AddByte ==
  ASSUME NEW S, NEW s \in Seq(S), NEW b \in S
  PROVE  /\ Append(s, b) \in Seq(S)
         /\ Len(Append(s, b)) = Len(s) + 1
         /\ Append(s, b)[Len(s) + 1] = b
         /\ \A i \in 1 .. Len(s) : Append(s, b)[i] = s[i]
  OBVIOUS

\* index does not wrap while it is inside of a buffer.
LEMMA NextIndex ==
  ASSUME TypeInv, index < Len(buffer)
  PROVE  /\ (index + 1) % IndexMod = index + 1
         /\ index + 1 \in 0 .. IndexMod - 1
         /\ index + 1 <= Len(buffer)
  BY I2cAssumption DEF TypeInv, TypeOK

\* A transfer that begins or ends.
LEMMA NewXferType ==
  ASSUME NEW cut \in BOOLEAN, NEW late \in BOOLEAN, NEW due \in {"none", "read", "write"}
  PROVE  NewXfer(cut, late, due) \in Xfers
  BY DEF NewXfer, Xfers

LEMMA TypeBus ==
  ASSUME TypeInv, FlagsInv,
         \/ Peripheral \/ Stop \/ BusError
         \/ \E d \in {"read", "write"} : Start(d)
         \/ \E more \in BOOLEAN : ReadByte(more)
         \/ \E b \in Byte : WriteByte(b)
  PROVE  TypeInv'
<1> USE I2cAssumption DEF TypeInv, TypeOK, Served, Listen, Data, driver, regs, data
<1>1. ASSUME NEW d \in {"read", "write"}, Start(d) PROVE TypeInv'
  <2>1. xfer' \in Xfers
    <3> DEFINE cut == xfer.cut /\ bus # "idle"
               late == bus # "idle" /\ "TXIS" \in ISR
    <3>1. cut \in BOOLEAN /\ late \in BOOLEAN /\ xfer.due \in {"none", "read", "write"}
      BY DEF Xfers
    <3>2. xfer' = NewXfer(cut, late, xfer.due)
      BY <1>1, Zenon DEF Start
    <3> HIDE DEF cut, late
    <3> QED
      BY <3>1, <3>2, NewXferType
  <2> QED
    BY <1>1, <2>1 DEF Start
<1>2. CASE AddressDone
  BY <1>2 DEF AddressDone
<1>3. CASE LoadShift
  BY <1>3 DEF LoadShift
<1>4. ASSUME NEW more \in BOOLEAN, ReadByte(more) PROVE TypeInv'
  <2>1. xfer.sent \in Seq(Byte \cup {Filler, 0}) /\ shift \in Byte \cup {Filler, 0}
    BY <1>4 DEF ReadByte, Xfers
  <2>2. Append(xfer.sent, shift) \in Seq(Byte \cup {Filler, 0})
    BY <2>1, AddByte
  <2>3. xfer' \in Xfers
    BY <1>4, <2>2 DEF ReadByte, Xfers
  <2> QED
    BY <1>4, <2>3 DEF ReadByte
<1>5. ASSUME NEW b \in Byte, WriteByte(b) PROVE TypeInv'
  BY <1>5 DEF WriteByte
<1>6. CASE Acknowledge
  <2>1. xfer.acked \in Seq(Byte) /\ RXDR \in Byte
    BY <1>6 DEF Acknowledge, FlagsInv, Xfers
  <2>2. Append(xfer.acked, RXDR) \in Seq(Byte)
    BY <2>1, AddByte
  <2>3. xfer' \in Xfers
    BY <1>6, <2>2 DEF Acknowledge, Xfers
  <2>4. /\ bus = "byte" /\ bus' \in {"nacked", "write"} /\ RXDR' = NULL
        /\ UNCHANGED <<driver, regs, ISR, dir, TXDR, shift, loaded>>
    BY <1>6 DEF Acknowledge
  <2>5. xfer'.cut = xfer.cut
    <3>1. xfer' = xfer \/ xfer' = [xfer EXCEPT !.acked = Append(@, RXDR)]
      BY <1>6 DEF Acknowledge
    <3> QED
      BY <3>1 DEF Xfers
  <2> QED
    BY <2>3, <2>4, <2>5
<1>7. CASE Stop
  <2>1. xfer' \in Xfers
    BY <1>7, NewXferType DEF Stop, Xfers
  <2>2. ISR' = ISR \cup {"STOPF"} /\ bus' = "idle" /\ UNCHANGED <<driver, regs, dir, data, loaded>>
    BY <1>7 DEF Stop
  <2> QED
    BY <2>1, <2>2
<1>8. CASE BusError
  BY <1>8 DEF BusError
<1> QED
  BY <1>1, <1>2, <1>3, <1>4, <1>5, <1>6, <1>7, <1>8 DEF Peripheral

LEMMA TypeDriver ==
  ASSUME TypeInv, FlagsInv,
         EvHandler \/ OnError \/ Enable \/ Disable \/ DisableDone \/ BufferAttach
  PROVE  TypeInv'
<1> USE I2cAssumption DEF TypeInv, TypeOK, Served, Listen, Data, driver, regs, data
<1>1. CASE OnStop
  <2>1. xfer' \in Xfers
    BY <1>1 DEF OnStop, Xfers
  <2> QED
    BY <1>1, <2>1 DEF OnStop
<1>2. CASE AddrWrite
  BY <1>2 DEF AddrWrite
<1>3. CASE AddrRead
  BY <1>3 DEF AddrRead
<1>4. CASE OnNack
  BY <1>4 DEF OnNack
<1>5. CASE OnTx
  BY <1>5, NextIndex DEF OnTx
<1>6. CASE OnRx
  <2>1. RXDR \in Byte
    BY <1>6 DEF OnRx, Event, EvEntered, EvPending, FlagsInv
  <2>2. CASE index < Len(buffer)
    <3>1. [buffer EXCEPT ![index + 1] = RXDR] \in Seq(Byte)
          /\ Len([buffer EXCEPT ![index + 1] = RXDR]) = Len(buffer)
      BY <2>1, <2>2, StoreByte
    <3>2. index' = index + 1 /\ index + 1 \in 0 .. IndexMod - 1 /\ index + 1 <= Len(buffer)
      BY <1>6, <2>2, NextIndex DEF OnRx
    <3>3. buffer' \in Seq(Byte) /\ Len(buffer') = Len(buffer) /\ NACK' \in BOOLEAN
      BY <1>6, <2>2, <3>1 DEF OnRx
    <3>4. ISR' \subseteq ISR /\ UNCHANGED <<state, status, CR1, dir, data, bus, loaded, xfer>>
      BY <1>6 DEF OnRx
    <3> QED
      BY <3>2, <3>3, <3>4
  <2>3. CASE ~(index < Len(buffer))
    BY <1>6, <2>3 DEF OnRx
  <2> QED
    BY <2>2, <2>3
<1>7. CASE OnError
  BY <1>7 DEF OnError
<1>8. CASE Enable
  BY <1>8 DEF Enable
<1>9. CASE Disable
  BY <1>9 DEF Disable
<1>10. CASE DisableDone
  <2>1. xfer' \in Xfers
    BY <1>10 DEF DisableDone, Xfers
  <2> QED
    BY <1>10, <2>1 DEF DisableDone
<1>11. CASE BufferAttach
  BY <1>11 DEF BufferAttach, FlagsInv
<1> QED
  BY <1>1, <1>2, <1>3, <1>4, <1>5, <1>6, <1>7, <1>8, <1>9, <1>10, <1>11 DEF EvHandler

-----------------------------------------------------------------------------
(* A transfer that is read.                                                *)

\* Nothing of it changes unless the registers, the buffer or index do.
LEMMA ReadSame ==
  ASSUME ReadInv, Served' => Served,
         UNCHANGED <<index, buffer, shift, TXDR, dir, xfer>>
  PROVE  ReadInv'
  BY DEF ReadInv, Wanted, Given, Full

LEMMA ReadBus ==
  ASSUME I2cInv,
         \/ Peripheral \/ Stop \/ BusError
         \/ \E d \in {"read", "write"} : Start(d)
         \/ \E more \in BOOLEAN : ReadByte(more)
         \/ \E b \in Byte : WriteByte(b)
  PROVE  ReadInv'
<1> USE DEF I2cInv, TypeInv, TypeOK, Xfers, FlagsInv, driver, regs, data
<1>1. ASSUME NEW d \in {"read", "write"}, Start(d) PROVE ReadInv'
  BY <1>1 DEF Start, Served, ReadInv
<1>2. CASE AddressDone
  BY <1>2, ReadSame DEF AddressDone, Served
<1>3. CASE LoadShift
  <2>1. /\ Full(shift) = 0 /\ Full(TXDR) = 1 /\ Full(shift') = 1 /\ Full(TXDR') = 0
        /\ Served' = Served
    BY <1>3, I2cAssumption DEF LoadShift, Full, Served
  <2>2. Given' = Given /\ Given = Len(xfer.sent) + 1
    BY <1>3, <2>1 DEF LoadShift, Given
  <2> QED
    BY <1>3, <2>1, <2>2 DEF LoadShift, ReadInv, Wanted
<1>4. ASSUME NEW more \in BOOLEAN, ReadByte(more) PROVE ReadInv'
  <2> DEFINE n == Len(xfer.sent)
  <2>1. /\ xfer'.sent = Append(xfer.sent, shift) /\ xfer'.cut = xfer.cut
        /\ shift \in Byte \cup {Filler, 0}
    BY <1>4 DEF ReadByte
  <2>2. /\ Len(xfer'.sent) = n + 1 /\ xfer'.sent[n + 1] = shift
        /\ \A i \in 1 .. n : xfer'.sent[i] = xfer.sent[i]
    BY <2>1, AddByte
  <2>3. Given' = Given
    BY <1>4, <2>2 DEF ReadByte, Given, Full
  <2>4. Served
    BY <1>4 DEF ReadByte, Served
  <2> QED
    BY <1>4, <2>1, <2>2, <2>3, <2>4 DEF ReadByte, ReadInv, Wanted
<1>5. ASSUME NEW b \in Byte, WriteByte(b) PROVE ReadInv'
  BY <1>5 DEF WriteByte, ReadInv
<1>6. CASE Acknowledge
  BY <1>6 DEF Acknowledge, ReadInv
<1>7. CASE Stop
  BY <1>7 DEF Stop, Served, ReadInv
<1>8. CASE BusError
  BY <1>8, ReadSame DEF BusError, Served
<1> QED
  BY <1>1, <1>2, <1>3, <1>4, <1>5, <1>6, <1>7, <1>8 DEF Peripheral

LEMMA ReadDriver ==
  ASSUME I2cInv,
         EvHandler \/ OnError \/ Enable \/ Disable \/ DisableDone \/ BufferAttach
  PROVE  ReadInv'
<1> USE DEF I2cInv, TypeInv, TypeOK, Xfers, FlagsInv, Listen, Data, driver, regs, data,
            Event, EvEntered, EvPending
<1>1. CASE OnStop
  BY <1>1 DEF OnStop, Served, ReadInv
<1>2. CASE AddrWrite
  BY <1>2 DEF AddrWrite, ReadInv
<1>3. CASE AddrRead
  <2>1. /\ Len(xfer'.sent) = 0 /\ shift' = NULL /\ TXDR' = buffer'[1] /\ index' = 1
        /\ buffer'[1] \in Byte /\ Len(buffer') >= 1
    BY <1>3, TypeDriver DEF AddrRead
  <2>2. Given' = 1
    BY <2>1, I2cAssumption DEF Given, Full
  <2> QED
    BY <2>1, <2>2 DEF ReadInv, Wanted
<1>4. CASE OnNack
  BY <1>4, ReadSame DEF OnNack, Served
<1>5. CASE OnTx
  <2> SUFFICES ASSUME Served', dir' = "read", ~xfer'.cut
               PROVE  ReadInv'
    BY DEF ReadInv
  <2>1. /\ TXDR = NULL /\ UNCHANGED <<buffer, dir, shift, xfer>> /\ Served
    BY <1>5 DEF OnTx, Served
  <2>2. /\ Given = Len(xfer.sent) + Full(shift) /\ Given \in Nat
        /\ TXDR' # NULL => Given' = Given + 1
    <3>1. Len(xfer.sent) \in Nat /\ Full(shift) \in Nat
      BY DEF Full
    <3>2. Full(TXDR) = 0 /\ (TXDR' # NULL => Full(TXDR') = 1)
      BY <2>1 DEF Full
    <3>3. Given' = Len(xfer.sent) + Full(shift) + Full(TXDR')
      BY <2>1 DEF Given
    <3> QED
      BY <3>1, <3>2, <3>3 DEF Given
  <2>3. CASE index < Len(buffer)
    <3>1. index' = index + 1 /\ TXDR' = buffer[index + 1] /\ buffer[index + 1] \in Byte
      BY <1>5, <2>3, NextIndex DEF OnTx
    <3>2. index = Given
      BY <2>1, <2>2, <2>3 DEF ReadInv
    <3>3. Given' = Given + 1
      BY <2>2, <3>1, I2cAssumption
    <3> QED
      BY <2>1, <2>2, <2>3, <3>1, <3>2, <3>3, NextIndex DEF ReadInv, Wanted
  <2>4. CASE ~(index < Len(buffer))
    <3>1. index' = index /\ TXDR' = Filler
      BY <1>5, <2>4 DEF OnTx
    <3>2. index = Len(buffer) /\ Given >= Len(buffer)
      BY <2>1, <2>2, <2>4 DEF ReadInv
    <3>3. Given' = Given + 1
      BY <2>2, <3>1, I2cAssumption
    <3> QED
      BY <2>1, <2>2, <3>1, <3>2, <3>3 DEF ReadInv, Wanted
  <2> QED
    BY <2>3, <2>4
<1>6. CASE OnRx
  BY <1>6 DEF OnRx, ReadInv
<1>7. CASE OnError
  BY <1>7, ReadSame DEF OnError, Served
<1>8. CASE Enable
  BY <1>8 DEF Enable, Served, ReadInv
<1>9. CASE Disable
  BY <1>9, ReadSame DEF Disable, Served
<1>10. CASE DisableDone
  BY <1>10 DEF DisableDone, ReadInv
<1>11. CASE BufferAttach
  BY <1>11 DEF BufferAttach, Served, ReadInv
<1> QED
  BY <1>1, <1>2, <1>3, <1>4, <1>5, <1>6, <1>7, <1>8, <1>9, <1>10, <1>11 DEF EvHandler

-----------------------------------------------------------------------------
(* A transfer that is written.                                             *)

LEMMA WriteSame ==
  ASSUME WriteInv, Served' => Served,
         UNCHANGED <<index, buffer, CR1, NACK, dir, xfer, bus, RXDR>>,
         "TCR" \in ISR' <=> "TCR" \in ISR
  PROVE  WriteInv'
  BY DEF WriteInv

LEMMA WriteBus ==
  ASSUME I2cInv,
         \/ Peripheral \/ Stop \/ BusError
         \/ \E d \in {"read", "write"} : Start(d)
         \/ \E more \in BOOLEAN : ReadByte(more)
         \/ \E b \in Byte : WriteByte(b)
  PROVE  WriteInv'
<1> USE DEF I2cInv, TypeInv, TypeOK, Xfers, FlagsInv, driver, regs, data
<1>1. ASSUME NEW d \in {"read", "write"}, Start(d) PROVE WriteInv'
  BY <1>1 DEF Start, Served, WriteInv
<1>2. CASE AddressDone
  BY <1>2 DEF AddressDone, Served, WriteInv
<1>3. CASE LoadShift
  BY <1>3 DEF LoadShift, WriteInv
<1>4. ASSUME NEW more \in BOOLEAN, ReadByte(more) PROVE WriteInv'
  BY <1>4 DEF ReadByte, WriteInv
<1>5. ASSUME NEW b \in Byte, WriteByte(b) PROVE WriteInv'
  BY <1>5 DEF WriteByte, Served, WriteInv
<1>6. CASE Acknowledge
  <2>1. Served
    BY <1>6 DEF Acknowledge, Served
  <2>2. CASE NACK
    BY <1>6, <2>1, <2>2 DEF Acknowledge, WriteInv
  <2>3. CASE ~NACK
    <3> DEFINE n == Len(xfer.acked)
    <3>1. /\ xfer'.acked = Append(xfer.acked, RXDR) /\ xfer'.cut = xfer.cut
          /\ xfer'.late = xfer.late /\ bus' = "write"
          /\ UNCHANGED <<index, buffer, CR1, ISR, dir>>
      BY <1>6, <2>3 DEF Acknowledge
    <3>2. /\ Len(xfer'.acked) = n + 1 /\ xfer'.acked[n + 1] = RXDR
          /\ \A i \in 1 .. n : xfer'.acked[i] = xfer.acked[i]
      BY <1>6, <3>1, AddByte DEF Acknowledge
    <3>3. bus = "byte" /\ "TCR" \notin ISR
      BY <1>6 DEF Acknowledge
    <3> QED
      BY <2>1, <2>3, <3>1, <3>2, <3>3 DEF WriteInv
  <2> QED
    BY <2>2, <2>3
<1>7. CASE Stop
  BY <1>7 DEF Stop, Served, WriteInv
<1>8. CASE BusError
  BY <1>8, WriteSame DEF BusError, Served
<1> QED
  BY <1>1, <1>2, <1>3, <1>4, <1>5, <1>6, <1>7, <1>8 DEF Peripheral

LEMMA WriteDriver ==
  ASSUME I2cInv,
         EvHandler \/ OnError \/ Enable \/ Disable \/ DisableDone \/ BufferAttach
  PROVE  WriteInv'
<1> USE DEF I2cInv, TypeInv, TypeOK, Xfers, FlagsInv, Listen, Data, driver, regs, data,
            Event, EvEntered, EvPending
<1>1. CASE OnStop
  BY <1>1 DEF OnStop, Served, WriteInv
<1>2. CASE AddrWrite
  BY <1>2, TypeDriver DEF AddrWrite, WriteInv
<1>3. CASE AddrRead
  BY <1>3 DEF AddrRead, WriteInv
<1>4. CASE OnNack
  BY <1>4, WriteSame DEF OnNack, Served
<1>5. CASE OnTx
  BY <1>5 DEF OnTx, Served, WriteInv
<1>6. CASE OnRx
  <2> DEFINE n == Len(xfer.acked)
  <2> SUFFICES ASSUME Served', dir' = "write", ~xfer'.cut
               PROVE  WriteInv'
    BY DEF WriteInv
  <2>1. /\ bus = "byte" /\ "TCR" \in ISR /\ "TCR" \notin ISR' /\ RXDR \in Byte
        /\ UNCHANGED <<CR1, dir, bus, xfer, RXDR>> /\ Served
    BY <1>6 DEF OnRx, Served
  <2>2. "SBC" \in CR1
    BY <2>1 DEF WriteInv
  <2>3. ~xfer.late => /\ n <= Len(buffer) /\ index = n
                      /\ \A i \in 1 .. n : xfer.acked[i] = buffer[i]
    BY <2>1 DEF WriteInv
  <2>4. CASE index < Len(buffer)
    <3>1. /\ index' = index + 1
          /\ buffer' = [buffer EXCEPT ![index + 1] = RXDR]
      BY <1>6, <2>4, NextIndex DEF OnRx
    <3>2. /\ Len(buffer') = Len(buffer) /\ buffer'[index + 1] = RXDR
          /\ \A i \in 1 .. Len(buffer) : i # index + 1 => buffer'[i] = buffer[i]
      BY <2>1, <2>4, <3>1, StoreByte
    <3> QED
      BY <2>1, <2>2, <2>3, <2>4, <3>1, <3>2 DEF WriteInv
  <2>5. CASE ~(index < Len(buffer))
    <3>1. NACK' = TRUE /\ buffer' = buffer /\ index' = index
      BY <1>6, <2>5 DEF OnRx
    <3> QED
      BY <2>1, <2>2, <2>3, <3>1 DEF WriteInv
  <2> QED
    BY <2>4, <2>5
<1>7. CASE OnError
  BY <1>7, WriteSame DEF OnError, Served
<1>8. CASE Enable
  BY <1>8 DEF Enable, Served, WriteInv
<1>9. CASE Disable
  BY <1>9, WriteSame DEF Disable, Served
<1>10. CASE DisableDone
  BY <1>10 DEF DisableDone, WriteInv
<1>11. CASE BufferAttach
  BY <1>11 DEF BufferAttach, Served, WriteInv
<1> QED
  BY <1>1, <1>2, <1>3, <1>4, <1>5, <1>6, <1>7, <1>8, <1>9, <1>10, <1>11 DEF EvHandler

-----------------------------------------------------------------------------
(* The theorems.                                                           *)

LEMMA I2cSame == I2cInv /\ UNCHANGED vars => I2cInv'
<1> SUFFICES ASSUME I2cInv, UNCHANGED vars PROVE I2cInv'
  OBVIOUS
<1> USE DEF I2cInv, vars, driver, regs, data
<1>1. TypeInv' /\ FlagsInv'
  BY DEF TypeInv, TypeOK, Xfers, FlagsInv, Served
<1>2. ReadInv'
  BY ReadSame DEF Served
<1>3. WriteInv'
  BY WriteSame DEF Served
<1> QED
  BY <1>1, <1>2, <1>3

LEMMA I2cStep == I2cInv /\ [Next]_vars => I2cInv'
<1> SUFFICES ASSUME I2cInv, Next PROVE I2cInv'
  BY I2cSame
<1>1. \/ Peripheral \/ Stop \/ BusError
      \/ \E d \in {"read", "write"} : Start(d)
      \/ \E more \in BOOLEAN : ReadByte(more)
      \/ \E b \in Byte : WriteByte(b)
      \/ EvHandler \/ OnError \/ Enable \/ Disable \/ DisableDone \/ BufferAttach
  BY Zenon DEF Next
<1>2. TypeInv /\ FlagsInv
  BY DEF I2cInv
<1>3. TypeInv' /\ FlagsInv'
  BY <1>1, <1>2, TypeBus, TypeDriver, FlagsBus, FlagsDriver
<1>4. ReadInv' /\ WriteInv'
  BY <1>1, ReadBus, ReadDriver, WriteBus, WriteDriver
<1> QED
  BY <1>3, <1>4 DEF I2cInv

THEOREM I2cInvCorrect == Spec => []I2cInv
  BY InitInv, I2cStep, PTL DEF Spec

(***************************************************************************)
(* The state, the flags, the registers and the history keep their types,   *)
(* and index stays in the buffer while a transfer goes on.                 *)
(***************************************************************************)
THEOREM I2cTypeCorrect == Spec => []TypeOK
<1>1. I2cInv => TypeOK
  BY DEF I2cInv, TypeInv
<1> QED
  BY <1>1, I2cInvCorrect, PTL

(***************************************************************************)
(* A master that reads gets the bytes of the buffer in order, each once,   *)
(* and 0xFF after them, however many it reads.                             *)
(***************************************************************************)
THEOREM ReadsBufferCorrect == Spec => []ReadsBuffer
<1>1. I2cInv => ReadsBuffer
  BY DEF I2cInv, ReadInv, ReadsBuffer, Served, Wanted
<1> QED
  BY <1>1, I2cInvCorrect, PTL

(***************************************************************************)
(* What the master takes for delivered is in the buffer, in order: a byte  *)
(* is acknowledged after it was stored, and refused when there is no room. *)
(***************************************************************************)
THEOREM AckedIsStoredCorrect == Spec => []AckedIsStored
<1>1. I2cInv => AckedIsStored
  <2> SUFFICES ASSUME I2cInv, dir = "write", bus \in {"write", "byte", "nacked"},
                      ~xfer.cut, ~xfer.late
               PROVE  /\ Len(xfer.acked) <= Len(buffer)
                      /\ xfer.acked = SubSeq(buffer, 1, Len(xfer.acked))
    BY DEF AckedIsStored
  <2>1. /\ Len(xfer.acked) <= Len(buffer)
        /\ \A i \in 1 .. Len(xfer.acked) : xfer.acked[i] = buffer[i]
    BY DEF I2cInv, WriteInv, Served
  <2>2. xfer.acked \in Seq(Byte) /\ buffer \in Seq(Byte)
    BY DEF I2cInv, TypeInv, TypeOK, Xfers
  <2> QED
    BY <2>1, <2>2
<1> QED
  BY <1>1, I2cInvCorrect, PTL

(***************************************************************************)
(* The stop of a transfer is handled before anything of the next one is,   *)
(* however soon the next one begins.                                       *)
(***************************************************************************)
THEOREM StopComesFirstCorrect == Spec => []StopComesFirst
<1>1. I2cInv => StopComesFirst
  BY DEF I2cInv, FlagsInv, StopComesFirst
<1> QED
  BY <1>1, I2cInvCorrect, PTL

=============================================================================
