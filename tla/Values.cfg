\* Every opcode on values, and two in a row.
SPECIFICATION Spec
CONSTANTS
  WordBits = 6
  BytesPerWord = 2
  MaxSize = 6
  Elements <- Contents
  Signature <- SignatureBytes
  PubKey <- KeyBytes
  Uncompressed <- UncompressedBytes
  Bytes <- AllBytes
  Starts <- AllStarts
  MaxShift = 20
  KeySize = 3
  SignatureSize = 2
  Uninitialised = {0, 63}
INVARIANTS ValuesTypeOK NumbersAreExact ResultsFit EqualIsSameness EqualItemsConvertAlike CrashesAreKnown MatchIsExact
CHECK_DEADLOCK FALSE
