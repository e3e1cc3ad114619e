SPECIFICATION FairSpec
CHECK_DEADLOCK FALSE
CONSTANTS
  Files <- MCFiles
  Needed <- MCNeeded
  Soname <- MCSoname
  NoName = "none"
  Exporting <- MCExporting
  Defines <- MCDefines
  Uses <- MCUses
  MaxLoads = 3
  MaxModules = 11
  Faults = {"load", "link", "onload"}
INVARIANTS GraphSound LoadComplete BoundByScope
PROPERTIES InitOrder LoadTerminates
