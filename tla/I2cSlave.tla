------------------------------ MODULE I2cSlave ------------------------------
(***************************************************************************)
(* The I2C slave driver of src/src/hal/platform/stm32/f4/i2c/i2c.c against *)
(* a bus master.                                                           *)
(*                                                                         *)
(* The event handler serves one flag per interrupt and is one step; the    *)
(* master and the peripheral go on between any two of them, as far as the  *)
(* clock is not stretched. The handler takes less than the time of a byte. *)
(* What the application and a write set is state, what a read and a stop   *)
(* set is status: two fields, of which the stop tests each for the value   *)
(* that only the other one takes (DoneCallback, a finding).                *)
(*                                                                         *)
(* The peripheral is external: ISR is the set of its flags, and what the   *)
(* master does on the bus. The clock is stretched from an address match    *)
(* until its flag is cleared, while there is no byte to transmit, and      *)
(* after a received byte until the handler decides on the acknowledgement. *)
(*                                                                         *)
(* xfer is a history variable: the bytes of the transfer so far, whether   *)
(* I2c_Slave_Disable cut into it, and whether it began by a repeated start *)
(* while the handler still owed a byte to the last one; due is the         *)
(* direction of the last transfer that ended. No guard reads it, except    *)
(* that the master moves at most MaxBytes bytes per transfer.              *)
(***************************************************************************)
EXTENDS Naturals, Sequences

CONSTANTS
  Byte,       \* the bytes that master and application send
  Buffers,    \* the buffers that the application attaches, with their contents
  MaxBytes,   \* the longest transfer of the master
  IndexMod,   \* the range of index: 2^8
  NULL        \* an empty register

Filler == 255   \* 0xFF

ASSUME I2cAssumption ==
  /\ Buffers \subseteq Seq(Byte)
  /\ \A b \in Buffers : Len(b) \in 1 .. IndexMod - 1
  /\ MaxBytes \in Nat /\ IndexMod \in Nat
  /\ NULL \notin Byte \cup {Filler}

Listen == {"ERRIE", "STOPIE", "ADDRIE", "NACKIE"}
Data   == {"TXIE", "RXIE", "TCIE"}

VARIABLES
  state, status,           \* of the driver
  index, buffer,           \* buf_len is the length of buffer
  CR1, NACK,               \* the bits of CR1, and the NACK bit of CR2
  ISR, dir,                \* the flags that are set, the direction of the transfer
  TXDR, shift, RXDR,       \* the data registers and the shift register
  bus,                     \* what goes on on the bus
  loaded,                  \* the CR1 that I2c_Slave_Disable has read, if it is running
  xfer                     \* history

driver == <<state, status, index, buffer>>
regs   == <<CR1, NACK>>
data   == <<TXDR, shift, RXDR>>
vars   == <<driver, regs, ISR, dir, data, bus, loaded, xfer>>

\* A transfer in which nothing was sent yet.
NewXfer(cut, late, due) ==
  [sent |-> <<>>, acked |-> <<>>, cut |-> cut, late |-> late, due |-> due]

\* I2c_Init, and the buffer it attaches.
Init ==
  /\ state = "INACTIVE" /\ status = "RESET" /\ index = 0 /\ buffer \in Buffers
  /\ CR1 = {} /\ NACK = TRUE
  /\ ISR = {} /\ dir = "read"
  /\ TXDR = NULL /\ shift = NULL /\ RXDR = NULL
  /\ bus = "idle" /\ loaded = NULL
  /\ xfer = NewXfer(FALSE, FALSE, "none")

-----------------------------------------------------------------------------
(* The bus master and the peripheral.                                      *)

\* A start, or a repeated start between two bytes, with the address of this slave.
Start(d) ==
  /\ bus \in {"idle", "write", "nacked"}
  /\ bus' = "address" /\ dir' = d
  /\ ISR' = ISR \cup {"ADDR"}
  /\ shift' = NULL
  /\ xfer' = NewXfer(xfer.cut /\ bus # "idle", bus # "idle" /\ "TXIS" \in ISR, xfer.due)
  /\ UNCHANGED <<driver, regs, TXDR, RXDR, loaded>>

\* The flag is cleared: the clock runs again.
AddressDone ==
  /\ bus = "address" /\ "ADDR" \notin ISR
  /\ bus' = dir
  /\ UNCHANGED <<driver, regs, ISR, dir, data, loaded, xfer>>

LoadShift ==
  /\ bus = "read" /\ shift = NULL /\ TXDR # NULL
  /\ shift' = TXDR /\ TXDR' = NULL
  /\ ISR' = ISR \cup {"TXIS"}
  /\ UNCHANGED <<driver, regs, dir, RXDR, bus, loaded, xfer>>

\* The master reads a byte and acknowledges it, or has read enough.
ReadByte(more) ==
  /\ bus = "read" /\ shift # NULL
  /\ more => Len(xfer.sent) + 1 < MaxBytes
  /\ xfer' = [xfer EXCEPT !.sent = Append(@, shift)]
  /\ shift' = NULL
  /\ IF more THEN UNCHANGED <<bus, ISR>> ELSE bus' = "nacked" /\ ISR' = ISR \cup {"NACKF"}
  /\ UNCHANGED <<driver, regs, dir, TXDR, RXDR, loaded>>

\* The master writes a byte. In slave byte control it is not acknowledged yet.
WriteByte(b) ==
  /\ bus = "write" /\ Len(xfer.acked) < MaxBytes
  /\ RXDR' = b
  /\ ISR' = ISR \cup {"RXNE"} \cup (IF "SBC" \in CR1 THEN {"TCR"} ELSE {})
  /\ bus' = "byte"
  /\ UNCHANGED <<driver, regs, dir, TXDR, shift, loaded, xfer>>

Acknowledge ==
  /\ bus = "byte" /\ "TCR" \notin ISR
  /\ IF NACK THEN bus' = "nacked" /\ UNCHANGED xfer
             ELSE bus' = "write" /\ xfer' = [xfer EXCEPT !.acked = Append(@, RXDR)]
  /\ RXDR' = NULL   \* nobody reads it again
  /\ UNCHANGED <<driver, regs, ISR, dir, TXDR, shift, loaded>>

Stop ==
  /\ bus \in {"write", "nacked"}
  /\ bus' = "idle"
  /\ ISR' = ISR \cup {"STOPF"}
  /\ xfer' = NewXfer(xfer.cut, FALSE, IF xfer.cut THEN "none" ELSE dir)
  /\ UNCHANGED <<driver, regs, dir, data, loaded>>

BusError ==
  /\ bus # "idle" /\ "BERR" \notin ISR
  /\ ISR' = ISR \cup {"BERR"}
  /\ UNCHANGED <<driver, regs, dir, data, bus, loaded, xfer>>

-----------------------------------------------------------------------------
(* Irq_Ev_Handler: the first flag that is set, in this order.              *)

EvPending ==
  \/ {"STOPF", "ADDR", "NACKF"} \cap ISR # {} /\ Listen \subseteq CR1
  \/ "TXIS" \in ISR /\ "TXIE" \in CR1
  \/ "RXNE" \in ISR /\ "RXIE" \in CR1
  \/ "TCR" \in ISR /\ "TCIE" \in CR1

\* I2C1_EV_IRQHandler enters the handler only while there is no error.
EvEntered == EvPending /\ "BERR" \notin ISR

\* Mutant of Event: the flags are served in no particular order.
EventUnordered(flag, above) == EvEntered /\ flag \cap ISR # {}

Event(flag, above) == EvEntered /\ flag \cap ISR # {} /\ above \cap ISR = {}

\* Whose callback a stop calls.
DoneCallback ==
  CASE state = "BUSY_TX"                         -> "read"
    [] state # "BUSY_TX" /\ status = "BUSY_RX" -> "write"
    [] OTHER                                     -> "none"

\* DoneCallback is called, if there is one; it changes nothing of the driver.
OnStop ==
  /\ Event({"STOPF"}, {})
  /\ CR1' = CR1 \ Data
  /\ TXDR' = 0
  /\ ISR' = ISR \ {"STOPF", "NACKF", "TXIS"}
  /\ status' = "READY"
  /\ xfer' = [xfer EXCEPT !.due = "none"]
  /\ UNCHANGED <<state, index, buffer, NACK, dir, shift, RXDR, bus, loaded>>

\* Mutant of AddrWrite: the receive interrupts are not enabled again.
AddrWriteDeaf ==
  /\ Event({"ADDR"}, {"STOPF"}) /\ dir = "write"
  /\ buffer' \in Buffers \cup {buffer}
  /\ index' = 0
  /\ state' = "BUSY_RX"
  /\ CR1' = CR1 \cup {"SBC"}
  /\ ISR' = ISR \ {"ADDR", "RXNE"} /\ RXDR' = NULL
  /\ UNCHANGED <<status, NACK, dir, TXDR, shift, bus, loaded, xfer>>

\* Mutant of AddrWrite: index goes on from the last transfer.
AddrWriteOn ==
  /\ Event({"ADDR"}, {"STOPF"}) /\ dir = "write"
  /\ buffer' \in Buffers \cup {buffer}
  /\ UNCHANGED index
  /\ state' = "BUSY_RX"
  /\ CR1' = CR1 \cup {"RXIE", "TCIE", "SBC"}
  /\ ISR' = ISR \ {"ADDR", "RXNE"} /\ RXDR' = NULL
  /\ UNCHANGED <<status, NACK, dir, TXDR, shift, bus, loaded, xfer>>

\* The address callback attaches a buffer, or keeps the one there is.
AddrWrite ==
  /\ Event({"ADDR"}, {"STOPF"}) /\ dir = "write"
  /\ buffer' \in Buffers \cup {buffer}
  /\ index' = 0
  /\ state' = "BUSY_RX"
  /\ CR1' = CR1 \cup {"RXIE", "TCIE", "SBC"}
  /\ ISR' = ISR \ {"ADDR", "RXNE"} /\ RXDR' = NULL
  /\ UNCHANGED <<status, NACK, dir, TXDR, shift, bus, loaded, xfer>>

\* Mutant of AddrRead: index stays at the byte that was already sent.
AddrReadAgain ==
  /\ Event({"ADDR"}, {"STOPF"}) /\ dir = "read"
  /\ buffer' \in Buffers \cup {buffer}
  /\ TXDR' = buffer'[1]
  /\ index' = 0
  /\ status' = "BUSY_TX"
  /\ CR1' = (CR1 \ {"SBC"}) \cup {"TXIE"}
  /\ ISR' = ISR \ {"ADDR", "STOPF", "TXIS"}
  /\ UNCHANGED <<state, NACK, dir, shift, RXDR, bus, loaded, xfer>>

\* The first byte is sent whatever the length.
AddrRead ==
  /\ Event({"ADDR"}, {"STOPF"}) /\ dir = "read"
  /\ buffer' \in Buffers \cup {buffer}
  /\ TXDR' = buffer'[1]
  /\ index' = 1
  /\ status' = "BUSY_TX"
  /\ CR1' = (CR1 \ {"SBC"}) \cup {"TXIE"}
  /\ ISR' = ISR \ {"ADDR", "STOPF", "TXIS"}
  /\ UNCHANGED <<state, NACK, dir, shift, RXDR, bus, loaded, xfer>>

OnNack ==
  /\ Event({"NACKF"}, {"STOPF", "ADDR"})
  /\ ISR' = ISR \ {"NACKF"}
  /\ UNCHANGED <<driver, regs, dir, data, bus, loaded, xfer>>

OnTx ==
  /\ Event({"TXIS"}, {"STOPF", "ADDR", "NACKF"})
  /\ IF index < Len(buffer)
       THEN TXDR' = buffer[index + 1] /\ index' = (index + 1) % IndexMod
       ELSE TXDR' = Filler /\ UNCHANGED index
  /\ ISR' = ISR \ {"TXIS"}
  /\ UNCHANGED <<state, status, buffer, regs, dir, shift, RXDR, bus, loaded, xfer>>

\* Mutant of OnRx: a byte for which there is no room is dropped without a NACK.
OnRxSilent ==
  /\ Event({"RXNE", "TCR"}, {"STOPF", "ADDR", "NACKF", "TXIS"})
  /\ IF index < Len(buffer)
       THEN /\ buffer' = [buffer EXCEPT ![index + 1] = RXDR]
            /\ index' = (index + 1) % IndexMod
            /\ NACK' \in BOOLEAN
       ELSE UNCHANGED <<buffer, index, NACK>>
  /\ ISR' = ISR \ {"RXNE", "TCR"}
  /\ UNCHANGED <<state, status, CR1, dir, data, bus, loaded, xfer>>

\* The acknowledge callback decides on a byte that was stored.
OnRx ==
  /\ Event({"RXNE", "TCR"}, {"STOPF", "ADDR", "NACKF", "TXIS"})
  /\ IF index < Len(buffer)
       THEN /\ buffer' = [buffer EXCEPT ![index + 1] = RXDR]
            /\ index' = (index + 1) % IndexMod
            /\ NACK' \in BOOLEAN
       ELSE NACK' = TRUE /\ UNCHANGED <<buffer, index>>
  /\ ISR' = ISR \ {"RXNE", "TCR"}
  /\ UNCHANGED <<state, status, CR1, dir, data, bus, loaded, xfer>>

\* Irq_Er_Handler.
OnError ==
  /\ "BERR" \in ISR /\ "ERRIE" \in CR1
  /\ ISR' = ISR \ {"BERR"}
  /\ UNCHANGED <<driver, regs, dir, data, bus, loaded, xfer>>

-----------------------------------------------------------------------------
(* The calls of the application.                                           *)

Enable ==
  /\ state = "INACTIVE" /\ loaded = NULL
  /\ state' = "READY"
  /\ CR1' = CR1 \cup Listen
  /\ UNCHANGED <<status, index, buffer, NACK, ISR, dir, data, bus, loaded, xfer>>

\* CR1 &= ... is a load and a store; the handler may run in between.
Disable ==
  /\ state # "INACTIVE" /\ loaded = NULL
  /\ loaded' = CR1
  /\ UNCHANGED <<driver, regs, ISR, dir, data, bus, xfer>>

DisableDone ==
  /\ loaded # NULL
  /\ CR1' = loaded \ (Listen \cup Data)
  /\ state' = "INACTIVE" /\ loaded' = NULL
  /\ xfer' = [xfer EXCEPT !.cut = TRUE, !.due = "none"]
  /\ UNCHANGED <<status, index, buffer, NACK, ISR, dir, data, bus>>

\* I2c_Buffer_Attach, outside of the callback: only while nothing is enabled.
BufferAttach ==
  /\ state = "INACTIVE"
  /\ buffer' \in Buffers
  /\ UNCHANGED <<state, status, index, regs, ISR, dir, data, bus, loaded, xfer>>

-----------------------------------------------------------------------------
EvHandler == OnStop \/ AddrWrite \/ AddrRead \/ OnNack \/ OnTx \/ OnRx

Peripheral == AddressDone \/ LoadShift \/ Acknowledge

Next ==
  \/ EvHandler \/ OnError \/ Peripheral
  \/ \E d \in {"read", "write"} : Start(d)
  \/ \E more \in BOOLEAN : ReadByte(more)
  \/ \E b \in Byte : WriteByte(b)
  \/ Stop \/ BusError
  \/ Enable \/ Disable \/ DisableDone \/ BufferAttach

\* The interrupts are served, that for errors before that for events; the master
\* does not restart or run into errors for ever, and ends what it can end.
Fairness ==
  /\ SF_vars(EvHandler) /\ WF_vars(OnError) /\ SF_vars(Peripheral)
  /\ SF_vars(ReadByte(FALSE)) /\ SF_vars(Stop)

Spec == Init /\ [][Next]_vars /\ Fairness

-----------------------------------------------------------------------------
(* Properties.                                                             *)

\* The address of the transfer that is going on was served.
Served == bus # "idle" /\ ~(bus = "address" /\ "ADDR" \in ISR)

TypeOK ==
  /\ state \in {"INACTIVE", "READY", "BUSY_RX"} /\ status \in {"RESET", "READY", "BUSY_TX"}
  /\ buffer \in Seq(Byte) /\ index \in 0 .. IndexMod - 1
  /\ Served /\ ~xfer.cut => index <= Len(buffer)
  /\ CR1 \subseteq Listen \cup Data \cup {"SBC"} /\ NACK \in BOOLEAN
  /\ ISR \subseteq {"STOPF", "ADDR", "NACKF", "TXIS", "RXNE", "TCR", "BERR"}
  /\ dir \in {"read", "write"}
  /\ TXDR \in Byte \cup {NULL, Filler, 0} /\ shift \in Byte \cup {NULL, Filler, 0}
  /\ RXDR \in Byte \cup {NULL}
  /\ bus \in {"idle", "address", "read", "write", "byte", "nacked"}
  /\ loaded = NULL \/ loaded \subseteq Listen \cup Data \cup {"SBC"}

\* A master that reads gets the bytes of the buffer in order, each once, and 0xFF
\* after them (i2c.c:238-239, 258-266), whatever it broke off or read before.
ReadsBuffer ==
  dir = "read" /\ bus \in {"read", "nacked"} /\ ~xfer.cut =>
    \A i \in 1 .. Len(xfer.sent) :
      xfer.sent[i] = IF i <= Len(buffer) THEN buffer[i] ELSE Filler

\* A byte is acknowledged only once it is in the buffer: what the master takes for
\* delivered is there, in order (i2c.c:275-298). Late is the exception: the transmit
\* interrupt, left enabled by a repeated start, has moved index before the first byte.
AckedIsStored ==
  dir = "write" /\ bus \in {"write", "byte", "nacked"} /\ ~xfer.cut /\ ~xfer.late =>
    /\ Len(xfer.acked) <= Len(buffer)
    /\ xfer.acked = SubSeq(buffer, 1, Len(xfer.acked))

\* A stop is handled before anything of the next transfer is: handling it disables
\* the data interrupts and overwrites the byte to be sent (i2c.c:162-188), which
\* would leave a transfer that has begun without its interrupts or its first byte.
StopComesFirst == "STOPF" \in ISR => ~Served

\* A stop calls the callback of the direction of its transfer: "TX_DONE",
\* "RX_DONE" (i2c.h:44-45, i2c.c:170-175), unless the driver was disabled in it.
DoneIsReported == "STOPF" \in ISR /\ xfer.due # "none" => DoneCallback = xfer.due

\* The clock is not stretched for ever: a transfer ends, unless the driver is
\* disabled or was disabled during the transfer.
TransfersEnd == bus # "idle" ~> bus = "idle" \/ state = "INACTIVE" \/ xfer.cut

=============================================================================
