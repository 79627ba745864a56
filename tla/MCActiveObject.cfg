SPECIFICATION Spec
CONSTANTS
  a1 = a1
  a2 = a2
  t1 = t1
  NULL = NULL
  IRQ_ALL = IRQ_ALL
  Ao = {a1, a2}
  TimeEvent = {t1}
  requester <- OfFirst
  MaxTimeEvents = 2
  QueueLen = 2
  Arms <- OnceAndPeriodic
  Horizon = 5
INVARIANTS
  TypeOK
  ExpiresOnTime
PROPERTIES
  ExpiryCallsHandler
