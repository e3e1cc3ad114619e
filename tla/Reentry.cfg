SPECIFICATION FairSpec
CONSTANTS
  Threads <- MCThreads
  NoThread = "none"
  MaxDepth = 3
  Uses <- MCUses
  FsBesideGuest = FALSE
INVARIANTS StacksSound GuestAlone HostBodyUnguarded NobodyWaits
PROPERTIES ImplementsCell CallsReturn
