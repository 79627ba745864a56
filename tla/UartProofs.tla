----------------------------- MODULE UartProofs -----------------------------
(***************************************************************************)
(* Proofs about Uart, for FIFOs of any length and any set of characters:   *)
(* its types, the transmit interrupt, and that it is a pair of channels.   *)
(***************************************************************************)
EXTENDS Uart, SequenceTheorems, TLAPS

-----------------------------------------------------------------------------
(* Types.                                                                  *)

\* Adding and taking a character keep a FIFO a sequence of characters.
LEMMA FifoTypes ==
  ASSUME NEW s \in Seq(Char)
  PROVE  /\ Len(s) \in Nat
         /\ \A c \in Char : Append(s, c) \in Seq(Char) /\ Len(Append(s, c)) = Len(s) + 1
         /\ s # <<>> => Head(s) \in Char /\ Tail(s) \in Seq(Char) /\ Len(Tail(s)) <= Len(s)
  OBVIOUS

LEMMA TypeInit == Init => TypeOK
<1> SUFFICES ASSUME Init PROVE TypeOK
  OBVIOUS
<1>1. /\ saved \in [{"caller"} -> BOOLEAN] /\ primask \in BOOLEAN /\ enabled \subseteq {UART_IRQ}
      /\ RXNE \in BOOLEAN /\ fault \in BOOLEAN
  BY Zenon DEF Init
<1>2. BufLen \in Nat \ {0} /\ <<>> \in Seq(Char) /\ Len(<<>>) = 0
  BY UartAssumption
<1>3. /\ tx_fifo = <<>> /\ rx_fifo = <<>> /\ CR1 = {} /\ DR \in Char
      /\ handler = "out"
      /\ pc = "idle" /\ ch = NULL /\ loaded = {}
  BY DEF Init
<1> QED
  BY <1>1, <1>2, <1>3 DEF TypeOK

\* The steps of the callers.
LEMMA TypeCaller ==
  ASSUME TypeOK,
         GoOn \/ BreakBegin \/ CharGet \/ FlushRx \/ FlushTx \/ Mask \/ Unmask
           \/ \E c \in Char : PutBegin(c)
  PROVE  TypeOK'
<1> USE UartAssumption DEF TypeOK, fifos, regs, irq, call, core
<1>1. ASSUME NEW c \in Char, PutBegin(c) PROVE TypeOK'
  <2>1. saved' \in [{"caller"} -> BOOLEAN]
    BY <1>1 DEF PutBegin, SaveState
  <2> QED
    BY <1>1, <2>1 DEF PutBegin, SaveState
<1>2. CASE PutDisable
  BY <1>2 DEF PutDisable, DisableInterrupt
<1>3. CASE PutPush
  <2>1. ch \in Char
    BY <1>3 DEF PutPush
  <2>2. tx_fifo' \in Seq(Char) /\ Len(tx_fifo') <= BufLen
    BY <1>3, <2>1, FifoTypes DEF PutPush
  <2> QED
    BY <1>3, <2>2 DEF PutPush
<1>4. CASE PutRestore
  BY <1>4 DEF PutRestore, RestoreInterrupt
<1>5. CASE LoadCR1
  BY <1>5 DEF LoadCR1
<1>6. CASE StoreCR1
  BY <1>6 DEF StoreCR1
<1>7. CASE BreakBegin
  BY <1>7 DEF BreakBegin
<1>8. CASE CharGet
  <2>1. rx_fifo' \in Seq(Char) /\ Len(rx_fifo') <= BufLen
    BY <1>8, FifoTypes DEF CharGet, IsCharAvailable
  <2> QED
    BY <1>8, <2>1 DEF CharGet, IsCharAvailable
<1>9. CASE FlushRx
  BY <1>9 DEF FlushRx
<1>10. CASE FlushTx
  BY <1>10 DEF FlushTx
<1>11. CASE Mask \/ Unmask
  BY <1>11 DEF Mask, Unmask
<1> QED
  BY <1>1, <1>2, <1>3, <1>4, <1>5, <1>6, <1>7, <1>8, <1>9, <1>10, <1>11 DEF GoOn

\* The handler.
LEMMA TypeIrq ==
  ASSUME TypeOK, IrqRx \/ IrqTx
  PROVE  TypeOK'
<1> USE DEF TypeOK, fifos, regs, irq, call, core
<1>1. CASE IrqRx
  <2>1. rx_fifo' \in Seq(Char) /\ Len(rx_fifo') <= BufLen /\ RXNE' \in BOOLEAN
    <3>1. CASE RXNE /\ Len(rx_fifo) < BufLen
      <4>1. rx_fifo' = Append(rx_fifo, DR) /\ RXNE' \in BOOLEAN
        BY <1>1, <3>1 DEF IrqRx, HandleRx
      <4>2. rx_fifo \in Seq(Char) /\ DR \in Char
        OBVIOUS
      <4>3. rx_fifo' \in Seq(Char) /\ Len(rx_fifo') = Len(rx_fifo) + 1 /\ Len(rx_fifo) \in Nat
        BY <4>1, <4>2, FifoTypes
      <4> QED
        BY <3>1, <4>1, <4>3, UartAssumption
    <3>2. CASE ~(RXNE /\ Len(rx_fifo) < BufLen)
      BY <1>1, <3>2 DEF IrqRx, HandleRx
    <3> QED
      BY <3>1, <3>2
  <2> QED
    BY <1>1, <2>1 DEF IrqRx
<1>2. CASE IrqTx
  <2>1. CASE tx_fifo # <<>>
    <3>1. tx_fifo' \in Seq(Char) /\ Len(tx_fifo') <= BufLen
      <4>1. tx_fifo' = Tail(tx_fifo)
        BY <1>2, <2>1 DEF IrqTx, HandleTx, Transmit
      <4>2. tx_fifo \in Seq(Char) /\ Len(tx_fifo) <= BufLen
        OBVIOUS
      <4>3. tx_fifo' \in Seq(Char) /\ Len(tx_fifo') = Len(tx_fifo) - 1 /\ Len(tx_fifo) \in Nat
        BY <4>1, <4>2, <2>1, FifoTypes
      <4> QED
        BY <4>2, <4>3, UartAssumption
    <3> QED
      BY <1>2, <2>1, <3>1 DEF IrqTx, HandleTx, Transmit
  <2>2. CASE tx_fifo = <<>>
    BY <1>2, <2>2 DEF IrqTx, HandleTx
  <2> QED
    BY <2>1, <2>2
<1> QED
  BY <1>1, <1>2

\* The UART and the line.
LEMMA TypeLine ==
  ASSUME TypeOK, SendBreak \/ \E c \in Char : ShiftIn(c)
  PROVE  TypeOK'
<1> USE DEF TypeOK, fifos, regs, irq, call, core
<1>1. CASE SendBreak
  BY <1>1 DEF SendBreak
<1>2. ASSUME NEW c \in Char, ShiftIn(c) PROVE TypeOK'
  BY <1>2 DEF ShiftIn
<1> QED
  BY <1>1, <1>2

LEMMA TypeStep == TypeOK /\ [Next]_vars => TypeOK'
<1> SUFFICES ASSUME TypeOK, [Next]_vars PROVE TypeOK'
  OBVIOUS
<1>1. CASE UNCHANGED vars
  BY <1>1 DEF TypeOK, vars, fifos, regs, irq, call, core
<1> QED
  BY <1>1, TypeCaller, TypeIrq, TypeLine DEF Next

(***************************************************************************)
(* The FIFOs never hold more than they have room for, and what the caller  *)
(* pushes is a character, whatever the handler interrupts.                 *)
(***************************************************************************)
THEOREM UartTypeCorrect == Spec => []TypeOK
  BY TypeInit, TypeStep, PTL DEF Spec

-----------------------------------------------------------------------------
(* The transmit interrupt.                                                 *)

\* The handler takes TXEIE away only when there is nothing to send.
LEMMA ArmedIrq ==
  ASSUME TypeOK, TxIsArmed, IrqRx \/ IrqTx
  PROVE  TxIsArmed'
<1>1. tx_fifo' # <<>> => tx_fifo # <<>> /\ CR1' = CR1
  BY DEF IrqRx, IrqTx, HandleTx, Transmit
<1> QED
  BY <1>1 DEF TxIsArmed, IrqRx, IrqTx, call

LEMMA ArmedStep == TypeOK /\ TxIsArmed /\ [Next]_vars => TxIsArmed'
<1> SUFFICES ASSUME TypeOK, TxIsArmed, [Next]_vars PROVE TxIsArmed'
  OBVIOUS
<1> USE UartAssumption DEF TxIsArmed, fifos, regs, irq, call
<1>1. ASSUME NEW c \in Char, PutBegin(c) PROVE TxIsArmed'
  BY <1>1 DEF PutBegin
<1>2. CASE PutDisable
  BY <1>2 DEF PutDisable
<1>3. CASE PutPush
  BY <1>3 DEF PutPush, TypeOK
<1>4. CASE PutRestore
  BY <1>4 DEF PutRestore
<1>5. CASE LoadCR1
  BY <1>5 DEF LoadCR1
<1>6. CASE StoreCR1
  BY <1>6 DEF StoreCR1
<1>7. CASE BreakBegin
  BY <1>7 DEF BreakBegin
<1>8. CASE CharGet \/ FlushRx \/ FlushTx
  BY <1>8 DEF CharGet, IsCharAvailable, FlushRx, FlushTx
<1>9. CASE Mask \/ Unmask \/ SendBreak \/ \E c \in Char : ShiftIn(c)
  BY <1>9 DEF Mask, Unmask, SendBreak, ShiftIn, TXEIE, SBK
<1>10. CASE UNCHANGED vars
  BY <1>10 DEF vars
<1> QED
  BY <1>1, <1>2, <1>3, <1>4, <1>5, <1>6, <1>7, <1>8, <1>9, <1>10, ArmedIrq DEF Next, GoOn

(***************************************************************************)
(* Whatever is in the transmit FIFO, the interrupt that sends it is        *)
(* enabled or about to be, although handler and caller share CR1.          *)
(***************************************************************************)
THEOREM TxIsArmedCorrect == Spec => []TxIsArmed
<1>1. Init => TxIsArmed
  BY DEF Init, TxIsArmed
<1> QED
  BY <1>1, ArmedStep, UartTypeCorrect, PTL DEF Spec

-----------------------------------------------------------------------------
(* The channels.                                                           *)

\* The handler stores what arrived, and takes what is to be sent.
LEMMA HandlerIsChannel ==
  ASSUME TypeOK, IrqRx \/ IrqTx
  PROVE  [Channel!Next]_(Channel!channel)
<1> USE UartAssumption DEF fifos, regs, irq, call
<1> DR \in Char /\ RXNE \in BOOLEAN /\ fault \in BOOLEAN
  BY DEF TypeOK
<1>1. CASE IrqRx
  <2>1. CASE RXNE /\ Len(rx_fifo) < BufLen
    <3>1. Channel!Store
      BY <1>1, <2>1 DEF IrqRx, HandleRx, Channel!Store
    <3> QED
      BY <3>1 DEF Channel!Next
  <2>2. CASE ~(RXNE /\ Len(rx_fifo) < BufLen)
    BY <1>1, <2>2 DEF IrqRx, HandleRx, Channel!channel
  <2> QED
    BY <2>1, <2>2
<1>2. CASE IrqTx
  <2>1. CASE tx_fifo # <<>>
    <3>1. Channel!Take
      BY <1>2, <2>1 DEF IrqTx, HandleTx, Transmit, Channel!Take
    <3> QED
      BY <3>1 DEF Channel!Next
  <2>2. CASE tx_fifo = <<>>
    BY <1>2, <2>2 DEF IrqTx, HandleTx, Channel!channel
  <2> QED
    BY <2>1, <2>2
<1> QED
  BY <1>1, <1>2

\* The FIFO takes a character: it is put, unless there is no room for it.
LEMMA PushIsPut ==
  ASSUME TypeOK, PutPush
  PROVE  [Channel!Next]_(Channel!channel)
<1> USE DEF fifos, regs, irq, call
<1>1. ch \in Char
  BY DEF TypeOK, PutPush
<1>2. CASE Len(tx_fifo) < BufLen
  <2>1. Channel!Put(ch)
    BY <1>2 DEF PutPush, Caller, Channel!Put
  <2> QED
    BY <1>1, <2>1 DEF Channel!Next
<1>3. CASE ~(Len(tx_fifo) < BufLen)
  BY <1>3 DEF PutPush, Channel!channel
<1> QED
  BY <1>2, <1>3

\* A character arrives, or is lost because the last one was not read.
LEMMA LineIsChannel ==
  ASSUME TypeOK, NEW c \in Char, ShiftIn(c)
  PROVE  [Channel!Next]_(Channel!channel)
<1> USE UartAssumption DEF fifos, regs, irq, call
<1> RXNE \in BOOLEAN
  BY DEF TypeOK
<1>1. CASE ~RXNE
  <2>1. Channel!Receive(c)
    BY <1>1 DEF ShiftIn, Channel!Receive
  <2> QED
    BY <2>1 DEF Channel!Next
<1>2. CASE RXNE
  BY <1>2 DEF ShiftIn, Channel!channel
<1> QED
  BY <1>1, <1>2

\* The other operations of the callers.
LEMMA CallIsChannel ==
  ASSUME CharGet \/ FlushRx \/ FlushTx
  PROVE  Channel!Next
<1> USE DEF fifos, regs, irq, call, Caller
<1>1. CASE CharGet
  BY <1>1 DEF CharGet, IsCharAvailable, Channel!Get, Channel!Next
<1>2. CASE FlushRx
  BY <1>2 DEF FlushRx, Channel!FlushRx, Channel!Next
<1>3. CASE FlushTx
  BY <1>3 DEF FlushTx, Channel!FlushTx, Channel!Next
<1> QED
  BY <1>1, <1>2, <1>3

LEMMA ChannelInit == Init => Channel!Init
  BY DEF Init, Channel!Init

LEMMA ChannelStep == TypeOK /\ [Next]_vars => [Channel!Next]_(Channel!channel)
<1> SUFFICES ASSUME TypeOK, [Next]_vars PROVE [Channel!Next]_(Channel!channel)
  OBVIOUS
<1> USE DEF fifos, regs, irq, call
<1>1. CASE IrqRx \/ IrqTx
  BY <1>1, HandlerIsChannel
<1>2. CASE PutPush
  BY <1>2, PushIsPut
<1>3. CASE \E c \in Char : ShiftIn(c)
  BY <1>3, LineIsChannel
<1>4. CASE CharGet \/ FlushRx \/ FlushTx
  BY <1>4, CallIsChannel
<1>5. CASE PutDisable \/ PutRestore \/ LoadCR1 \/ StoreCR1 \/ BreakBegin \/ Mask \/ Unmask
           \/ SendBreak \/ \E c \in Char : PutBegin(c)
  BY <1>5 DEF PutDisable, PutRestore, LoadCR1, StoreCR1, BreakBegin, Mask, Unmask, SendBreak,
              PutBegin, Channel!channel
<1>6. CASE UNCHANGED vars
  BY <1>6 DEF vars, Channel!channel
<1> QED
  BY <1>1, <1>2, <1>3, <1>4, <1>5, <1>6 DEF Next, GoOn

(***************************************************************************)
(* What is put is taken by the handler in order and once, and what arrives *)
(* is handed out so, wherever the handler interrupts and a character       *)
(* arrives; what is lost is a character that finds the last one unread, or *)
(* that arrives between the two halves of the handler while there is       *)
(* something to send. That the handler takes all is left to TLC.           *)
(***************************************************************************)
THEOREM UartIsChannel == Spec => Channel!Init /\ [][Channel!Next]_(Channel!channel)
  BY ChannelInit, ChannelStep, UartTypeCorrect, PTL DEF Spec

=============================================================================
