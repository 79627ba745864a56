-------------------------------- MODULE Uart --------------------------------
(***************************************************************************)
(* The UART driver of src/src/hal/platform/stm32/f4/uart/uart.c: two       *)
(* FIFOs between its callers and the interrupt handler.                    *)
(*                                                                         *)
(* The caller takes one access to shared state per step. The handler comes *)
(* before any step of the caller whenever its interrupt is pending and not *)
(* disabled, and is two steps, between which a character may arrive. What  *)
(* it pops is stored at the address that the VALUE of DR names (uart.c:95, *)
(* a finding): that read of DR takes a character that has just arrived,    *)
(* the store may stop the processor with a fault, and DR is never written, *)
(* so that TXE is always set. The registers of the UART, the line and      *)
(* Ringfifo are external; a push to a full FIFO stores nothing.            *)
(***************************************************************************)
EXTENDS Naturals, Sequences, Core

CONSTANTS
  Char,        \* the characters
  BufLen,      \* buf_len
  UART_IRQ,
  NULL         \* no character

ASSUME UartAssumption ==
  /\ BufLen \in Nat \ {0}
  /\ NULL \notin Char
  /\ UART_IRQ # IRQ_ALL /\ UART_IRQ # SYSTICK

TXEIE == "USART_CR1_TXEIE"
SBK   == "USART_CR1_SBK"

VARIABLES
  tx_fifo, rx_fifo,   \* the FIFOs
  CR1,                \* the bits of CR1 that are set, of TXEIE and SBK
  DR, RXNE,           \* the data register as it is read, and whether it was not read yet
  handler, fault,     \* the handler: where it is, and whether a store of its was a fault
  pc, ch,             \* the caller: where it is, what it sends
  loaded              \* the CR1 that the caller read

fifos == <<tx_fifo, rx_fifo>>
regs  == <<CR1, DR, RXNE>>
irq   == <<handler, fault>>
call  == <<pc, ch, loaded>>
vars  == <<fifos, regs, irq, call, core>>

\* The handler is about to be entered. The receive interrupt is always enabled, TXE always set.
IrqPending == (RXNE \/ TXEIE \in CR1) /\ Unmasked(UART_IRQ)

Caller == ~fault /\ handler = "out" /\ ~IrqPending

-----------------------------------------------------------------------------
Init ==
  /\ tx_fifo = <<>> /\ rx_fifo = <<>>
  /\ CR1 = {} /\ DR \in Char /\ RXNE = FALSE
  /\ handler = "out" /\ fault = FALSE
  /\ pc = "idle" /\ ch = NULL /\ loaded = {}
  /\ enabled = {UART_IRQ} /\ primask = FALSE /\ saved = [c \in {"caller"} |-> FALSE]

(* Uart_Char_Put.                                                          *)

PutBegin(c) ==
  /\ Caller /\ pc = "idle"
  /\ SaveState("caller", UART_IRQ)
  /\ ch' = c /\ pc' = "disable"
  /\ UNCHANGED <<fifos, regs, irq, loaded>>

PutDisable ==
  /\ Caller /\ pc = "disable"
  /\ DisableInterrupt(UART_IRQ)
  /\ pc' = "push"
  /\ UNCHANGED <<fifos, regs, irq, ch, loaded>>

\* Mutant of PutPush: the FIFO stores one character more than it has room for.
PutPushPast ==
  /\ Caller /\ pc = "push"
  /\ tx_fifo' = IF Len(tx_fifo) <= BufLen THEN Append(tx_fifo, ch) ELSE tx_fifo
  /\ pc' = "restore"
  /\ UNCHANGED <<rx_fifo, regs, irq, ch, loaded, core>>

PutPush ==
  /\ Caller /\ pc = "push"
  /\ tx_fifo' = IF Len(tx_fifo) < BufLen THEN Append(tx_fifo, ch) ELSE tx_fifo
  /\ pc' = "restore"
  /\ UNCHANGED <<rx_fifo, regs, irq, ch, loaded, core>>

PutRestore ==
  /\ Caller /\ pc = "restore"
  /\ RestoreInterrupt("caller", UART_IRQ)
  /\ pc' = "load"
  /\ UNCHANGED <<fifos, regs, irq, ch, loaded>>

(* CR1 |= ..., which ends Uart_Char_Put and is all of Uart_Break, is a load  *)
(* and a store.                                                            *)

BreakBegin ==
  /\ Caller /\ pc = "idle"
  /\ ch' = NULL /\ pc' = "load"
  /\ UNCHANGED <<fifos, regs, irq, loaded, core>>

LoadCR1 ==
  /\ Caller /\ pc = "load"
  /\ loaded' = CR1 /\ pc' = "store"
  /\ UNCHANGED <<fifos, regs, irq, ch, core>>

\* Mutant of StoreCR1: CR1 = ... instead of CR1 |= ...
StoreCR1Only ==
  /\ Caller /\ pc = "store"
  /\ CR1' = {IF ch = NULL THEN SBK ELSE TXEIE}
  /\ pc' = "idle" /\ ch' = NULL /\ loaded' = {}
  /\ UNCHANGED <<fifos, DR, RXNE, irq, core>>

StoreCR1 ==
  /\ Caller /\ pc = "store"
  /\ CR1' = loaded \cup {IF ch = NULL THEN SBK ELSE TXEIE}
  /\ pc' = "idle" /\ ch' = NULL /\ loaded' = {}
  /\ UNCHANGED <<fifos, DR, RXNE, irq, core>>

(* The other operations.                                                   *)

IsCharAvailable == rx_fifo # <<>>

CharGet ==
  /\ Caller /\ pc = "idle"
  /\ IsCharAvailable
  /\ rx_fifo' = Tail(rx_fifo)
  /\ UNCHANGED <<tx_fifo, regs, irq, call, core>>

FlushRx ==
  /\ Caller /\ pc = "idle"
  /\ rx_fifo' = <<>>
  /\ UNCHANGED <<tx_fifo, regs, irq, call, core>>

FlushTx ==
  /\ Caller /\ pc = "idle"
  /\ tx_fifo' = <<>>
  /\ UNCHANGED <<rx_fifo, regs, irq, call, core>>

\* Calls may be made with interrupts masked, or, which is the same to the handler,
\* in an interrupt that it does not preempt.
Mask ==
  /\ Caller /\ pc = "idle" /\ ~primask
  /\ primask' = TRUE
  /\ UNCHANGED <<fifos, regs, irq, call, enabled, saved>>

Unmask ==
  /\ Caller /\ pc = "idle" /\ primask
  /\ primask' = FALSE
  /\ UNCHANGED <<fifos, regs, irq, call, enabled, saved>>

-----------------------------------------------------------------------------
(* Irq_Handler. When the receive FIFO is full, the character stays in the  *)
(* data register and the interrupt stays pending.                          *)

\* Mutant of HandleRx: DR is taken for a character whether or not one arrived.
HandleRxBlind ==
  IF Len(rx_fifo) < BufLen
    THEN rx_fifo' = Append(rx_fifo, DR) /\ RXNE' = FALSE
    ELSE UNCHANGED <<rx_fifo, RXNE>>

HandleRx ==
  IF RXNE /\ Len(rx_fifo) < BufLen
    THEN rx_fifo' = Append(rx_fifo, DR) /\ RXNE' = FALSE
    ELSE UNCHANGED <<rx_fifo, RXNE>>

\* Io_Write(uart->regs->DR, Ringfifo_Pop(uart->tx_fifo))
Transmit ==
  /\ tx_fifo' = Tail(tx_fifo)
  /\ RXNE' = FALSE
  /\ fault' \in BOOLEAN
  /\ UNCHANGED CR1

\* Mutant of HandleTx: the transmit interrupt is not disabled when all is sent.
HandleTxOn ==
  IF tx_fifo # <<>> THEN Transmit ELSE UNCHANGED <<tx_fifo, RXNE, fault, CR1>>

HandleTx ==
  IF tx_fifo # <<>> THEN Transmit
    ELSE CR1' = CR1 \ {TXEIE} /\ UNCHANGED <<tx_fifo, RXNE, fault>>

IrqRx ==
  /\ ~fault /\ handler = "out"
  /\ IrqPending
  /\ HandleRx
  /\ handler' = "tx"
  /\ UNCHANGED <<tx_fifo, CR1, DR, fault, call, core>>

IrqTx ==
  /\ ~fault /\ handler = "tx"
  /\ HandleTx
  /\ handler' = "out"
  /\ UNCHANGED <<rx_fifo, DR, call, core>>

-----------------------------------------------------------------------------
(* The UART and the line, which go on after a fault of the processor.      *)

\* The break is out.
SendBreak ==
  /\ SBK \in CR1
  /\ CR1' = CR1 \ {SBK}
  /\ UNCHANGED <<fifos, DR, RXNE, irq, call, core>>

\* A character that arrives while the last one was not read is lost.
ShiftIn(c) ==
  /\ IF RXNE THEN UNCHANGED <<DR, RXNE>> ELSE DR' = c /\ RXNE' = TRUE
  /\ UNCHANGED <<fifos, CR1, irq, call, core>>

-----------------------------------------------------------------------------
\* The steps of a call that has begun.
GoOn == PutDisable \/ PutPush \/ PutRestore \/ LoadCR1 \/ StoreCR1

Next ==
  \/ GoOn \/ BreakBegin \/ CharGet \/ FlushRx \/ FlushTx \/ Mask \/ Unmask
  \/ IrqRx \/ IrqTx \/ SendBreak
  \/ \E c \in Char : PutBegin(c) \/ ShiftIn(c)

\* The processor takes its interrupt and goes through the handler. The line is slow:
\* between two characters there is time for the caller, who does not mask interrupts
\* for ever. Nobody has to call anything.
Fairness == WF_vars(IrqRx \/ IrqTx) /\ SF_vars(GoOn) /\ SF_vars(Unmask)

Spec == Init /\ [][Next]_vars /\ Fairness

-----------------------------------------------------------------------------
(* Properties.                                                             *)

TypeOK ==
  /\ tx_fifo \in Seq(Char) /\ Len(tx_fifo) <= BufLen
  /\ rx_fifo \in Seq(Char) /\ Len(rx_fifo) <= BufLen
  /\ CR1 \subseteq {TXEIE, SBK} /\ loaded \subseteq {TXEIE, SBK}
  /\ DR \in Char /\ RXNE \in BOOLEAN
  /\ handler \in {"out", "tx"} /\ fault \in BOOLEAN
  /\ pc \in {"idle", "disable", "push", "restore", "load", "store"}
  /\ ch \in Char \cup {NULL} /\ (pc \in {"disable", "push", "restore"} => ch \in Char)
  /\ enabled \subseteq {UART_IRQ} /\ primask \in BOOLEAN /\ saved \in [{"caller"} -> BOOLEAN]

\* As long as there is something to send, the transmit interrupt is enabled or the
\* caller is about to enable it, although handler and caller both modify CR1 and
\* the caller does so by a load and a store with the handler in between (uart.c:48, 52, 99).
TxIsArmed ==
  tx_fifo # <<>> => \/ TXEIE \in CR1 \cap (IF pc = "store" THEN loaded ELSE CR1)
                    \/ ch # NULL /\ pc \in {"restore", "load", "store"}

\* The channels: what the callers put is taken by the handler in order, once, and
\* eventually; what arrives is handed out in order and once, unless it is flushed,
\* finds the last character unread, or is read by the transmit half of the handler
\* (uart.c:83-84, 94-95), wherever between two accesses a character arrives.
Channel == INSTANCE UartChannel
  WITH sending <- tx_fifo, received <- rx_fifo, arriving <- IF RXNE THEN DR ELSE NULL

ChannelSpec == Channel!Spec

\* Every call returns and the interrupted caller goes on, unless a received character
\* finds the FIFO full: then the handler is entered for ever, and the caller who could
\* empty it never runs (uart.c:86-88). Interrupts that are served stop to be requested:
\* the one of the transmitter is disabled when all is sent (uart.c:97-99).
CallsReturn ==
  pc # "idle" \/ ~Caller ~> (pc = "idle" /\ Caller) \/ (RXNE /\ Len(rx_fifo) = BufLen) \/ fault

=============================================================================
