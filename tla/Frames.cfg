SPECIFICATION Spec
CONSTANTS
  MaxItems = 1
  MaxInvocation = 3
  Counts = {0, 1}
  MaxBorn = 2
  MaxRefused = 1
  MaxContexts = 3
  MaxClaims = 2
INVARIANTS FramesTypeOK ClaimsAreHeld LeaksAreNamed CountedSinceClean LimitHolds CounterOutlivesItems
CHECK_DEADLOCK FALSE
