SPECIFICATION Spec
CONSTANTS
  p1 = p1
  p2 = p2
  c1 = c1
  Producers = {p1, p2}
  Consumer = c1
  CoreOf <- OneCore
  Capacity = 8
  Messages <- Mixed
  DestLen = 4
  Foreign = {7}
INVARIANTS
  TypeOK
  BlocksTileRing
  SpaceIsExact
  CommittedIntact
  PopTakesOldest
  RingInv
PROPERTIES
  FifoSpec
  TailMovesOn
