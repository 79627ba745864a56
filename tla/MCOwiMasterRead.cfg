SPECIFICATION Spec
CONSTANTS
  ByteBits = 8
  Data <- ReadData
  Noise = 85
INVARIANTS
  ReadGetsByte
