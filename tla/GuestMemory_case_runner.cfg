SPECIFICATION Spec
CONSTANTS
  PageSize = 2
  MaxAddr = 15
  Tracked = TRUE
  Faults = {"unmap", "write"}
  ElfArena <- MCElfArena
  MmapArena <- MCMmapArena
  Scratch <- MCScratch
  Jni <- MCJni
  Stack <- MCStack
  Sentinel <- MCSentinel
  Images <- MCSharedImage
  GuestAddrs = {5, 6}
  Hints = {0, 1}
  Lengths = {0, 3}
  Backings = {"DeviceMmap"}
  Prots <- MCOneProt
INVARIANTS LedgerSound DynamicInArena
PROPERTIES SplitKeepsIdentity
CHECK_DEADLOCK FALSE
