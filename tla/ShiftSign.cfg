\* Shifts of negative numbers to the right.
SPECIFICATION Spec
CONSTANTS
  WordBits = 6
  BytesPerWord = 2
  MaxSize = 6
  Elements <- Contents
  Signature <- SignatureBytes
  PubKey <- KeyBytes
  Uncompressed <- UncompressedBytes
  Bytes <- AllBytes
  Starts <- ShiftStarts
  MaxShift = 20
  KeySize = 3
  SignatureSize = 2
  Uninitialised = {0, 63}
INVARIANTS ShiftsKeepSign
CHECK_DEADLOCK FALSE
