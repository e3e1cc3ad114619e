SPECIFICATION Spec
CONSTANTS
  Contents <- MCContents
  Empty = ""
  MockName = "unknown"
  None = None
  Apks <- MCApks
  Services <- MCServices
  Brought = {"app"}
  Overridden <- MCOverridden
  MaxInstalls = 2
  MaxObjects = 2
INVARIANTS StubsAgree OneApk
