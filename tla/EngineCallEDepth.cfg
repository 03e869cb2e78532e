\* CALL_E has no depth check.
SPECIFICATION Spec
CONSTANTS
  EntryScripts <- CallESelf
  RvCounts <- WantsAll
  Callbacks = {"LoadScript", "InvokeInterop"}
  Table <- NoScripts
  Hash <- CallESelfHash
  HashLength = 1
  MaxInvocation = 3
  DefaultGas = 20
  MaxItemLength = 4
  GasModulus = 64
  IndexModulus = 1
  LimitModulus = 64
  GasLimits = {12}
  HostCosts = {}
  DataCosts = {1}
  DataResults = {}
  MaxHostCalls = 2
  MaxScripts = 1
PROPERTIES NestingBoundOfCallE
CHECK_DEADLOCK FALSE
