\* Maps, to their limit and beyond, nine instructions.
SPECIFICATION Spec
CONSTANTS
  ItemId = {1, 2, 3, 4, 5, 6, 7, 8, 9}
  MaxItems = 5
  MaxArray = 1
  Opcodes <- MapOpcodes
  MaxInstructions = 9
INVARIANTS ClaimsAreReferences UsesDeletedOnlyIfTangled ContainersAreBounded
CHECK_DEADLOCK FALSE
