\* The hash of a dynamic call is given up twice.
SPECIFICATION Spec
CONSTANTS
  ItemId = {1, 2, 3, 4, 5, 6, 7, 8, 9}
  MaxItems = 4
  MaxArray = 2
  Opcodes <- DynamicCallOpcodes
  MaxInstructions = 5
INVARIANTS StackedItemsExist
CHECK_DEADLOCK FALSE
