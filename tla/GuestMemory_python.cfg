SPECIFICATION Spec
CONSTANTS
  PageSize = 2
  MaxAddr = 15
  Tracked = FALSE
  Faults = {"map", "protect", "write"}
  ElfArena <- MCElfArena
  MmapArena <- MCMmapArena
  Scratch <- MCScratch
  Jni <- MCJni
  Stack <- MCStack
  Sentinel <- MCSentinel
  Images <- MCPagedImage
  GuestAddrs = {4, 6, 8}
  Hints = {0, 1}
  Lengths = {0, 3}
  Backings = {"FileMmap"}
  Prots <- MCOneProt
INVARIANTS BackendAgrees
PROPERTIES FailedSyscallIsClean
CHECK_DEADLOCK FALSE
