SPECIFICATION Spec
CONSTANTS
  EnvBase = 8192
  ByteMod = 4
  ShortMod = 8
  IntMod = 16
  RegMod = 32
  Texts = {"", "a"}
  Methods <- MCMethods
  Bindable <- MCBindable
  Echo = Echo
  Raise = Raise
  NoMethod = NoMethod
  ArgWords <- MCArgWords
  PyArgs <- MCPyArgs
  Versions = {0, 1, 3, 6}
  Astray <- MCAstray
INVARIANTS InvokeSound SlotReachesItsArm ResultFaithful HostCallKeeps
