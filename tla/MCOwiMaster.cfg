SPECIFICATION Spec
CONSTANTS
  ByteBits = 3
  Data <- WriteData
  Noise = 85
INVARIANTS
  TypeOK
  SendsAndReports
PROPERTIES
  OperationsEnd
