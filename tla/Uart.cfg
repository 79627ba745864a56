SPECIFICATION Spec
CONSTANTS
  Char = {c1, c2}
  BufLen = 2
  UART_IRQ = UART_IRQ
  IRQ_ALL = IRQ_ALL
  NULL = NULL
INVARIANTS
  TypeOK
  TxIsArmed
PROPERTIES
  ChannelSpec
  CallsReturn
