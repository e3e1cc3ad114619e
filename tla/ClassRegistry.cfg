SPECIFICATION Spec
CONSTANTS
  Classes = {"A", "B"}
  Methods = {"m", "n"}
  None = None
  Defs <- MCDefs
  MaxCached = 1
  MaxNatives = 1
INVARIANTS RegistrySound NumbersApart CachedResolves CachedReaches
PROPERTIES MethodIdStable
