\* Every program of three instructions, and scripts that loop through calls
\* and the host, loaded and run by each API call.
SPECIFICATION FairSpec
CONSTANTS
  EntryScripts <- AllPrograms
  RvCounts <- WantsAll
  Callbacks = {"LoadScript", "InvokeInterop"}
  Table <- HostTable
  Hash <- ProgramHash
  HashLength = 1
  MaxInvocation = 3
  DefaultGas = 5
  MaxItemLength = 4
  GasModulus = 64
  IndexModulus = 1
  LimitModulus = 64
  GasLimits = {7}
  HostCosts = {3}
  DataCosts = {1}
  DataResults <- HostResults
  MaxHostCalls = 2
  MaxScripts = 1
INVARIANTS InstructionPointerInScript
PROPERTIES StackIsolation NestingBound GasBudget ReturnDelivers CallSkipsOperand RunReturns
CHECK_DEADLOCK FALSE
