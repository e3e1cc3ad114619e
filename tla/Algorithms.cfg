SPECIFICATION MCSpec
CONSTANTS
  PageSize = 2
  MaxAddr = 31
  TopAddr = 9
  Ledgers <- MCLedgers
  Arenas <- MCArenas
  Sizes = {2, 4}
  Aligns = {2, 4}
  SearchHints = {0, 5, 12}
  TextLength = 5
  Shims <- MCShims
  HostCalls <- MCHostCalls
  Payload = 2
  Width = 5
  ByteSize = 4
  WordBytes = 2
  ImagePage = 4
  NoSymbol = NoSymbol
INVARIANTS ComputesFirstFit DescriptorsAgree OneFunction RelocationsApply
PROPERTIES Terminates
CHECK_DEADLOCK FALSE
