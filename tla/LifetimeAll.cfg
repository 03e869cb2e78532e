\* Every opcode, in every order, six instructions.
SPECIFICATION Spec
CONSTANTS
  ItemId = {1, 2, 3, 4, 5, 6, 7, 8, 9}
  MaxItems = 4
  MaxArray = 2
  Opcodes <- AllOpcodes
  MaxInstructions = 6
INVARIANTS LifetimeTypeOK ClaimsAreReferences NoLeakWithoutFault CounterTracksItems UsesDeletedOnlyIfTangled StructsAreFinite ContainersAreBounded
CHECK_DEADLOCK FALSE
