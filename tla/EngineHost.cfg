\* Scripts that call scripts and the host, over several API calls.
SPECIFICATION Spec
CONSTANTS
  EntryScripts <- HostScripts
  RvCounts <- WantsAllOrOne
  Callbacks = {"LoadScript", "InvokeInterop"}
  Table <- HostTable
  Hash <- HostHash
  HashLength = 1
  MaxInvocation = 3
  DefaultGas = 20
  MaxItemLength = 4
  GasModulus = 64
  IndexModulus = 1
  LimitModulus = 32
  GasLimits = {44}
  HostCosts = {30}
  DataCosts = {1}
  DataResults <- HostResults
  MaxHostCalls = 4
  MaxScripts = 2
INVARIANTS TypeOK ResultContract
PROPERTIES StackIsolation NestingBound GasBudget ReturnDelivers CallsAndReturns
CHECK_DEADLOCK FALSE
