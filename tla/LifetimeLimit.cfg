\* The clones of a Struct are not counted.
SPECIFICATION Spec
CONSTANTS
  ItemId = {1, 2, 3, 4, 5, 6, 7, 8, 9}
  MaxItems = 4
  MaxArray = 2
  Opcodes <- CopyOpcodes
  MaxInstructions = 8
INVARIANTS ItemLimit
CHECK_DEADLOCK FALSE
