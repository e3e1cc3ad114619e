SPECIFICATION Spec
CONSTANTS
  Registered = {"Class", "Foo"}
  Foreign = {"String"}
  StringClass = "String"
  ClassClass = "Class"
  ClassObject <- MCClassObject
  Buffers <- MCBuffers
  Texts = {"", "a", "b"}
  EmptyText = ""
  PyObjects = {"p"}
  MaxRef = 3
  MaxObject = 2
PROPERTIES
  NewStringDenotes
