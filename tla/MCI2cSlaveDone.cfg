SPECIFICATION Spec
CONSTANTS
  Byte = {1, 2}
  Buffers <- ShortAndLong
  MaxBytes = 2
  IndexMod = 256
  NULL = NULL
INVARIANT DoneIsReported
