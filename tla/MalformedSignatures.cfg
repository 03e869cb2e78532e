\* Signatures and keys that are none.
SPECIFICATION Spec
CONSTANTS
  WordBits = 6
  BytesPerWord = 2
  MaxSize = 6
  Elements <- Contents
  Signature <- SignatureBytes
  PubKey <- KeyBytes
  Uncompressed <- UncompressedBytes
  Bytes <- AllBytes
  Starts <- SignedStarts
  MaxShift = 20
  KeySize = 3
  SignatureSize = 2
  Uninitialised = {0, 63}
INVARIANTS AcceptsOnlyTrue
CHECK_DEADLOCK FALSE
