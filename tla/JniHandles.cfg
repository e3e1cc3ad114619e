SPECIFICATION Spec
CONSTANTS
  Registered = {"Class", "Foo"}
  Foreign = {"String"}
  StringClass = "String"
  ClassClass = "Class"
  ClassObject <- MCClassObject
  Buffers <- MCBuffers
  Texts = {"", "a", "b"}
  EmptyText = ""
  PyObjects = {"p", "q"}
  MaxRef = 3
  MaxObject = 2
INVARIANTS TablesSound WrappersKeep
PROPERTIES HandleMeaning ObjectStays
