\* An operand that is in another one is used after it is deleted.
SPECIFICATION Spec
CONSTANTS
  ItemId = {1, 2, 3, 4, 5, 6, 7, 8, 9}
  MaxItems = 4
  MaxArray = 2
  Opcodes <- SharingOpcodes
  MaxInstructions = 5
INVARIANTS NoUseAfterFree
CHECK_DEADLOCK FALSE
