SPECIFICATION Spec
CONSTANTS
  Paths = {"null", "a"}
  Builtins <- MCBuiltins
  Sources <- MCAllSources
  Counts = {1, 2}
  Targets <- MCTargets
  MaxFd = 4
  MaxLen = 2
  MaxMounts = 2
  MaxMade = 2
INVARIANTS NodesSound TableSound DeviceAccounts
PROPERTIES FailedWriteRepeats
