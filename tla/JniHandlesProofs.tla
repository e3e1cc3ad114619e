-------------------------- MODULE JniHandlesProofs --------------------------
(***************************************************************************)
(* Proofs about JniHandles.  Every action is shown to be three steps at    *)
(* once: one of the reference table (TableStep), one of the object store   *)
(* (ObjectStep) and one of the wrappers (WrapperStep).  The invariants and *)
(* the action properties follow from what the three say, whichever action  *)
(* took them.                                                              *)
(***************************************************************************)
EXTENDS JniHandles, TLAPS

Ids == Allocated \cup ClassObjects \cup Buffers

(* The reference table: typed, its locals framed, below next_id.           *)
TableInv ==
  /\ DOMAIN refs \subseteq 1..MaxRef /\ refs \in [DOMAIN refs -> Refs]
  /\ nextRef \in 1..(MaxRef + 1) /\ frame \subseteq 1..MaxRef
  /\ FrameIsLocals
  /\ \A h \in DOMAIN refs : h < nextRef

(* The object store: typed, its class objects the right ones.              *)
ObjectInv ==
  /\ DOMAIN objects \subseteq Ids /\ objects \in [DOMAIN objects -> Objects]
  /\ nextObject \in 1..(MaxObject + 1) /\ removed \subseteq Ids
  /\ ClassObjectsNamed

(* A wrapper's handle and id were given out, the id to an object that is   *)
(* still there or was released.                                            *)
WrapperInv ==
  /\ DOMAIN wrappers \subseteq PyObjects /\ wrappers \in [DOMAIN wrappers -> Wrappers]
  /\ \A p \in DOMAIN wrappers :
       /\ wrappers[p].handle < nextRef
       /\ wrappers[p].object \in DOMAIN objects \cup removed
  /\ WrapperHandle /\ WrapperIdentity

IInv == TableInv /\ ObjectInv /\ WrapperInv /\ UnbackedIsReleased /\ inCall \in BOOLEAN

(* A step of the table keeps the meaning of the handles.                   *)
KeepsHandles ==
  /\ nextRef' >= nextRef
  /\ \A h \in DOMAIN refs' :
       IF h \in DOMAIN refs THEN refs'[h] = refs[h] ELSE h \in nextRef..(nextRef' - 1)

TableStep == TableInv' /\ KeepsHandles

(* A step of the store loses no object but to removed and alters none.     *)
KeepsObjects == \A o \in DOMAIN objects \cap DOMAIN objects' : objects'[o] = objects[o]

ObjectStep ==
  /\ ObjectInv' /\ KeepsObjects /\ removed \subseteq removed'
  /\ DOMAIN objects \subseteq DOMAIN objects' \cup removed'

(* What a new handle denotes is stored, or was.                            *)
NewBacked ==
  \A h \in DOMAIN refs' \ DOMAIN refs : refs'[h].object \in DOMAIN objects' \cup removed'

SameWrapper(p) ==
  /\ p \in DOMAIN wrappers
  /\ wrappers'[p].handle = wrappers[p].handle
  /\ wrappers'[p].object = wrappers[p].object
  /\ wrappers'[p].record = wrappers[p].record

NewWrapper(p) ==
  /\ wrappers'[p].handle \in DOMAIN refs'
  /\ refs'[wrappers'[p].handle] = [object |-> wrappers'[p].object, kind |-> "Global"]
  /\ wrappers'[p].object \in DOMAIN objects'
  /\ objects'[wrappers'[p].object] = wrappers'[p].record

WrapperStep ==
  /\ DOMAIN wrappers' \subseteq PyObjects /\ wrappers' \in [DOMAIN wrappers' -> Wrappers]
  /\ \A p \in DOMAIN wrappers' : SameWrapper(p) \/ NewWrapper(p)

Step == TableStep /\ ObjectStep /\ NewBacked /\ WrapperStep /\ inCall' \in BOOLEAN
-----------------------------------------------------------------------------
(* The three steps carry the invariant over.                               *)
LEMMA StepKeeps == IInv /\ Step => IInv'
<1> SUFFICES ASSUME IInv, Step PROVE IInv'
  OBVIOUS
<1> USE DEF IInv, Step
<1>1. TableInv' /\ ObjectInv'
  BY DEF TableStep, ObjectStep
<1>2. UnbackedIsReleased'
  <2> SUFFICES ASSUME NEW h \in DOMAIN refs'
               PROVE refs'[h].object \in DOMAIN objects' \cup removed'
    BY DEF UnbackedIsReleased
  <2>1. CASE h \in DOMAIN refs
    <3>1. refs'[h] = refs[h] /\ refs[h].object \in DOMAIN objects \cup removed
      BY <2>1 DEF TableStep, KeepsHandles, UnbackedIsReleased
    <3> QED BY <3>1 DEF ObjectStep
  <2>2. CASE h \notin DOMAIN refs
    BY <2>2 DEF NewBacked
  <2> QED BY <2>1, <2>2
<1>3. ASSUME NEW p \in DOMAIN wrappers', SameWrapper(p)
      PROVE /\ wrappers'[p].handle < nextRef'
            /\ wrappers'[p].object \in DOMAIN objects' \cup removed'
            /\ wrappers'[p].handle \in DOMAIN refs' =>
                 refs'[wrappers'[p].handle] = [object |-> wrappers'[p].object, kind |-> "Global"]
            /\ wrappers'[p].object \notin removed' \cup {EmptyBuffer} =>
                 /\ wrappers'[p].object \in DOMAIN objects'
                 /\ objects'[wrappers'[p].object] = wrappers'[p].record
  <2> DEFINE w == wrappers[p]
  <2>1. p \in DOMAIN wrappers /\ w \in Wrappers
    BY <1>3 DEF SameWrapper, WrapperInv
  <2>2. w.handle \in Int /\ nextRef \in Int /\ nextRef' \in Int
    BY <2>1, <1>1, JniHandlesAssumption DEF TableInv, Wrappers
  <2>3. w.handle < nextRef /\ nextRef <= nextRef' /\ w.object \in DOMAIN objects \cup removed
    BY <2>1, <2>2 DEF WrapperInv, TableStep, KeepsHandles
  <2>4. w.handle \in DOMAIN refs' =>
          refs'[w.handle] = [object |-> w.object, kind |-> "Global"]
    BY <2>1, <2>2, <2>3 DEF TableStep, KeepsHandles, WrapperInv, WrapperHandle
  <2>5. w.object \notin removed' \cup {EmptyBuffer} =>
          w.object \in DOMAIN objects' /\ objects'[w.object] = w.record
    BY <2>1, <2>3 DEF ObjectStep, KeepsObjects, WrapperInv, WrapperIdentity
  <2>6. w.object \in DOMAIN objects' \cup removed'
    BY <2>3 DEF ObjectStep
  <2>7. w.handle < nextRef'
    BY <2>2, <2>3
  <2> QED BY <1>3, <2>4, <2>5, <2>6, <2>7 DEF SameWrapper
<1>4. ASSUME NEW p \in DOMAIN wrappers', NewWrapper(p)
      PROVE /\ wrappers'[p].handle < nextRef'
            /\ wrappers'[p].object \in DOMAIN objects' \cup removed'
            /\ wrappers'[p].handle \in DOMAIN refs' =>
                 refs'[wrappers'[p].handle] = [object |-> wrappers'[p].object, kind |-> "Global"]
            /\ wrappers'[p].object \notin removed' \cup {EmptyBuffer} =>
                 /\ wrappers'[p].object \in DOMAIN objects'
                 /\ objects'[wrappers'[p].object] = wrappers'[p].record
  BY <1>1, <1>4 DEF NewWrapper, TableInv
<1>5. WrapperInv'
  BY <1>3, <1>4 DEF WrapperInv, WrapperStep, WrapperHandle, WrapperIdentity
<1> QED BY <1>1, <1>2, <1>5

(* The invariant gives the properties.                                     *)
LEMMA Meaning ==
  IInv => /\ TypeOK /\ FrameIsLocals /\ UnbackedIsReleased
          /\ ClassObjectsNamed /\ WrapperHandle /\ WrapperIdentity
BY DEF IInv, TableInv, ObjectInv, WrapperInv, TypeOK, Ids

(* Empty tables satisfy everything.                                        *)
LEMMA InitSound == Init => IInv
<1> SUFFICES ASSUME Init PROVE IInv
  OBVIOUS
<1> USE JniHandlesAssumption DEF Init
<1>1. TableInv
  BY DEF TableInv, FrameIsLocals
<1>2. ObjectInv
  BY DEF ObjectInv, ClassObjectsNamed
<1>3. WrapperInv
  BY DEF WrapperInv, WrapperHandle, WrapperIdentity
<1>4. UnbackedIsReleased /\ inCall \in BOOLEAN
  BY DEF UnbackedIsReleased
<1> QED BY <1>1, <1>2, <1>3, <1>4 DEF IInv
-----------------------------------------------------------------------------
(* The three steps, taken by doing nothing.                                *)
LEMMA TableStays == TableInv /\ UNCHANGED table => TableStep /\ DOMAIN refs' = DOMAIN refs
<1> SUFFICES ASSUME TableInv, UNCHANGED table PROVE TableStep /\ DOMAIN refs' = DOMAIN refs
  OBVIOUS
<1>1. refs' = refs /\ nextRef' = nextRef /\ frame' = frame /\ nextRef \in Int
  BY JniHandlesAssumption DEF table, TableInv
<1>2. TableInv'
  BY <1>1 DEF TableInv, FrameIsLocals
<1> QED BY <1>1, <1>2 DEF TableStep, KeepsHandles

LEMMA ObjectsStay ==
  ASSUME ObjectInv, UNCHANGED objects, UNCHANGED removed, nextObject' \in 1..(MaxObject + 1)
  PROVE  ObjectStep
<1>1. ObjectInv'
  BY DEF ObjectInv, ClassObjectsNamed
<1> QED BY <1>1 DEF ObjectStep, KeepsObjects

LEMMA WrappersStay == WrapperInv /\ UNCHANGED wrappers => WrapperStep
BY DEF WrapperInv, WrapperStep, SameWrapper

(* RefTable: a new entry above all others, and a removed one.              *)
LEMMA NewRefStep ==
  ASSUME TableInv, NEW o \in Ids, NEW kind \in {"Local", "Global"}, NewRef(o, kind),
         frame' = IF kind = "Local" THEN frame \cup {nextRef} ELSE frame
  PROVE  /\ TableStep
         /\ nextRef \in DOMAIN refs' /\ nextRef \in 1..MaxRef
         /\ refs'[nextRef] = [object |-> o, kind |-> kind]
         /\ DOMAIN refs' = DOMAIN refs \cup {nextRef}
<1> DEFINE r == [object |-> o, kind |-> kind]
<1>1. r \in Refs
  BY DEF Refs, Ids
<1>2. nextRef \in 1..MaxRef /\ nextRef' = nextRef + 1 /\ nextRef \notin DOMAIN refs
  BY JniHandlesAssumption DEF NewRef, TableInv
<1>3. refs' = [h \in DOMAIN refs \cup {nextRef} |-> IF h = nextRef THEN r ELSE refs[h]]
  BY DEF NewRef, At
<1>4. refs' \in [DOMAIN refs' -> Refs] /\ DOMAIN refs' = DOMAIN refs \cup {nextRef}
  BY <1>1, <1>3 DEF TableInv
<1>5. DOMAIN refs' \subseteq 1..MaxRef /\ nextRef' \in 1..(MaxRef + 1)
  BY <1>2, <1>4, JniHandlesAssumption DEF TableInv
<1>6. FrameIsLocals' /\ frame' \subseteq 1..MaxRef
  <2>1. refs'[nextRef].kind = kind /\ \A h \in DOMAIN refs : refs'[h] = refs[h]
    BY <1>2, <1>3
  <2> QED BY <1>2, <1>4, <2>1 DEF TableInv, FrameIsLocals
<1>7. \A h \in DOMAIN refs' : h < nextRef'
  BY <1>2, <1>4, JniHandlesAssumption DEF TableInv
<1>8. KeepsHandles
  BY <1>2, <1>3, <1>4, JniHandlesAssumption DEF TableInv, KeepsHandles
<1> QED BY <1>2, <1>3, <1>4, <1>5, <1>6, <1>7, <1>8 DEF TableStep, TableInv

LEMMA NewLocalStep ==
  ASSUME TableInv, NEW o \in Ids, NewLocal(o)
  PROVE  TableStep /\ \A h \in DOMAIN refs' \ DOMAIN refs : refs'[h].object = o
<1>1. NewRef(o, "Local") /\ frame' = IF "Local" = "Local" THEN frame \cup {nextRef} ELSE frame
  BY DEF NewLocal
<1>2. /\ TableStep
      /\ refs'[nextRef] = [object |-> o, kind |-> "Local"]
      /\ DOMAIN refs' = DOMAIN refs \cup {nextRef}
  BY <1>1, NewRefStep
<1> QED BY <1>2

LEMMA NewGlobalStep ==
  ASSUME TableInv, NEW o \in Ids, NewGlobal(o)
  PROVE  /\ TableStep
         /\ nextRef \in DOMAIN refs' /\ nextRef \in 1..MaxRef
         /\ refs'[nextRef] = [object |-> o, kind |-> "Global"]
         /\ \A h \in DOMAIN refs' \ DOMAIN refs : refs'[h].object = o
<1>1. NewRef(o, "Global") /\ frame' = IF "Global" = "Local" THEN frame \cup {nextRef} ELSE frame
  BY DEF NewGlobal
<1>2. /\ TableStep
      /\ nextRef \in DOMAIN refs' /\ nextRef \in 1..MaxRef
      /\ refs'[nextRef] = [object |-> o, kind |-> "Global"]
      /\ DOMAIN refs' = DOMAIN refs \cup {nextRef}
  BY <1>1, NewRefStep
<1> QED BY <1>2

LEMMA DeleteStep ==
  ASSUME TableInv, NEW h, DeleteLocal(h) \/ DeleteGlobal(h)
  PROVE  TableStep /\ DOMAIN refs' \subseteq DOMAIN refs
<1>1. refs' = [g \in DOMAIN refs \ {h} |-> refs[g]] /\ nextRef' = nextRef /\ nextRef \in Int
  BY JniHandlesAssumption DEF DeleteLocal, DeleteGlobal, Without, TableInv
<1>2. DOMAIN refs' = DOMAIN refs \ {h} /\ \A g \in DOMAIN refs' : refs'[g] = refs[g]
  BY <1>1
<1>3. refs' \in [DOMAIN refs' -> Refs]
  BY <1>1, <1>2 DEF TableInv
<1>4. FrameIsLocals'
  <2>1. CASE DeleteLocal(h)
    BY <1>2, <2>1 DEF DeleteLocal, TableInv, FrameIsLocals
  <2>2. CASE DeleteGlobal(h)
    BY <1>2, <2>2 DEF DeleteGlobal, TableInv, FrameIsLocals
  <2> QED BY <2>1, <2>2
<1>5. frame' \subseteq 1..MaxRef
  BY DEF DeleteLocal, DeleteGlobal, TableInv
<1>6. KeepsHandles
  BY <1>1, <1>2 DEF KeepsHandles
<1> QED BY <1>1, <1>2, <1>3, <1>4, <1>5, <1>6 DEF TableStep, TableInv
-----------------------------------------------------------------------------
(* ObjectStore: an object under an id that held none.                      *)
LEMMA AddStep ==
  ASSUME ObjectInv, NEW o \in Ids, o \notin DOMAIN objects, NEW r \in Objects,
         \A c \in Registered : ClassObject[c] = o => r = Stub(ClassClass, c),
         objects' = At(objects, o, r), UNCHANGED removed,
         nextObject' \in 1..(MaxObject + 1)
  PROVE  ObjectStep /\ o \in DOMAIN objects' /\ objects'[o] = r
<1>1. objects' = [x \in DOMAIN objects \cup {o} |-> IF x = o THEN r ELSE objects[x]]
  BY DEF At
<1>2. /\ DOMAIN objects' = DOMAIN objects \cup {o} /\ objects'[o] = r
      /\ \A x \in DOMAIN objects : objects'[x] = objects[x]
  BY <1>1
<1>3. objects' \in [DOMAIN objects' -> Objects]
  BY <1>1 DEF ObjectInv
<1>4. ClassObjectsNamed'
  BY <1>2 DEF ObjectInv, ClassObjectsNamed
<1>5. ObjectInv'
  BY <1>2, <1>3, <1>4 DEF ObjectInv
<1> QED BY <1>2, <1>5 DEF ObjectStep, KeepsObjects

(* An id of the allocator is no class object's.                            *)
LEMMA TakenId ==
  ASSUME ObjectInv, TakeId
  PROVE  /\ nextObject \in Allocated /\ nextObject \in Ids
         /\ nextObject' \in 1..(MaxObject + 1)
         /\ \A c \in Registered : ClassObject[c] # nextObject
<1> USE JniHandlesAssumption
<1>1. nextObject \in Allocated /\ nextObject' \in 1..(MaxObject + 1)
  BY DEF ObjectInv, TakeId, Allocated
<1>2. \A c \in Registered : ClassObject[c] \in ClassObjects
  BY DEF ClassObjects
<1> QED BY <1>1, <1>2 DEF Ids

LEMMA InsertStep ==
  ASSUME ObjectInv, UNCHANGED removed, NEW r \in Objects, Insert(r)
  PROVE  /\ ObjectStep /\ nextObject \in Allocated /\ nextObject \in Ids
         /\ nextObject \in DOMAIN objects' /\ objects'[nextObject] = r
<1>1. TakeId /\ nextObject \notin DOMAIN objects /\ objects' = At(objects, nextObject, r)
  BY DEF Insert
<1>2. /\ nextObject \in Allocated /\ nextObject \in Ids
      /\ nextObject' \in 1..(MaxObject + 1)
      /\ \A c \in Registered : ClassObject[c] # nextObject
  BY <1>1, TakenId
<1>3. ObjectStep /\ nextObject \in DOMAIN objects' /\ objects'[nextObject] = r
  BY <1>1, <1>2, AddStep
<1> QED BY <1>2, <1>3

LEMMA DuplicateStep ==
  ASSUME ObjectInv, UNCHANGED removed, Duplicate
  PROVE  ObjectStep
<1>1. TakeId /\ UNCHANGED objects
  BY DEF Duplicate
<1>2. nextObject' \in 1..(MaxObject + 1)
  BY <1>1, TakenId
<1> QED BY <1>1, <1>2, ObjectsStay

(* Objects the code makes are objects.                                     *)
LEMMA ObjectTypes ==
  /\ \A c, d \in Classes : Stub(c, d) \in Objects
  /\ \A text \in Texts : String(text) \in Objects
  /\ \A p \in PyObjects : Records(p) \subseteq Objects
BY JniHandlesAssumption DEF Stub, String, HostValue, Records, Objects

(* A live object's class is a class, and so is the one it names.           *)
LEMMA LiveTypes ==
  ASSUME TableInv, ObjectInv, NEW h, Live(h)
  PROVE  refs[h].object \in Ids /\ Denoted(h).class \in Classes /\ NamedClass(h) \in Classes
<1>1. refs[h] \in Refs /\ Denoted(h) \in Objects
  BY DEF Live, TableInv, ObjectInv, Denoted
<1>2. Denoted(h).class \in Classes
        /\ (Denoted(h).storage = "stub" => Denoted(h).data \in Classes)
  BY <1>1, JniHandlesAssumption DEF Objects
<1> QED BY <1>1, <1>2 DEF NamedClass, Refs, Ids
-----------------------------------------------------------------------------
(* What an action of the guest does to the two tables.                     *)
Tables == TableStep /\ ObjectStep /\ NewBacked

(* new_local of an object that is stored, or was.                          *)
LEMMA LocalTables ==
  ASSUME TableInv, NEW o \in Ids, NewLocal(o), ObjectStep,
         o \in DOMAIN objects' \cup removed'
  PROVE  Tables
<1>1. TableStep /\ \A h \in DOMAIN refs' \ DOMAIN refs : refs'[h].object = o
  BY NewLocalStep
<1> QED BY <1>1 DEF Tables, NewBacked

(* The id is used up and nothing else happens.                             *)
LEMMA DuplicateTables ==
  ASSUME TableInv, ObjectInv, UNCHANGED removed, Duplicate, UNCHANGED table
  PROVE  Tables
<1>1. ObjectStep
  BY DuplicateStep
<1>2. TableStep /\ DOMAIN refs' = DOMAIN refs
  BY TableStays
<1> QED BY <1>1, <1>2 DEF Tables, NewBacked

LEMMA InsertTables ==
  ASSUME TableInv, ObjectInv, UNCHANGED removed, NEW r \in Objects, Insert(r),
         NewLocal(nextObject)
  PROVE  Tables
<1>1. /\ ObjectStep /\ nextObject \in Allocated /\ nextObject \in Ids
      /\ nextObject \in DOMAIN objects' /\ objects'[nextObject] = r
  BY InsertStep
<1> QED BY <1>1, LocalTables

(* A local reference to the object at o, which is inserted unless the      *)
(* store holds one.                                                        *)
LEMMA EnsureTables ==
  ASSUME TableInv, ObjectInv, UNCHANGED removed, UNCHANGED nextObject,
         NEW o \in Ids, NEW r \in Objects, NewLocal(o),
         \A c \in Registered : ClassObject[c] = o => r = Stub(ClassClass, c),
         objects' = IF o \in DOMAIN objects THEN objects ELSE At(objects, o, r)
  PROVE  Tables
<1>1. nextObject' \in 1..(MaxObject + 1)
  BY DEF ObjectInv
<1>2. CASE o \in DOMAIN objects
  <2>1. ObjectStep /\ o \in DOMAIN objects'
    BY <1>1, <1>2, ObjectsStay
  <2> QED BY <2>1, LocalTables
<1>3. CASE o \notin DOMAIN objects
  <2>1. objects' = At(objects, o, r)
    BY <1>3
  <2>2. ObjectStep /\ o \in DOMAIN objects' /\ objects'[o] = r
    BY <1>1, <1>3, <2>1, AddStep
  <2> QED BY <2>2, LocalTables
<1> QED BY <1>2, <1>3

LEMMA FindClassTables ==
  ASSUME TableInv, ObjectInv, UNCHANGED removed, NEW c \in Registered, FindClass(c)
  PROVE  Tables
<1> DEFINE o == ClassObject[c]
           r == Stub(ClassClass, c)
<1>1. o \in Ids /\ r \in Objects
  BY JniHandlesAssumption, ObjectTypes DEF Ids, ClassObjects, Classes
<1>2. \A d \in Registered : ClassObject[d] = o => r = Stub(ClassClass, d)
  BY JniHandlesAssumption
<1>3. /\ NewLocal(o) /\ UNCHANGED nextObject
      /\ objects' = IF o \in DOMAIN objects THEN objects ELSE At(objects, o, r)
  BY DEF FindClass
<1> HIDE DEF o, r
<1> QED BY <1>1, <1>2, <1>3, EnsureTables

LEMMA NewStringTables ==
  ASSUME TableInv, ObjectInv, UNCHANGED removed,
         NEW text \in Texts, NEW buffer \in BufferOf(text), NewStringUTF(text, buffer)
  PROVE  Tables
<1>1. EmptyBuffer \in Allocated
  BY JniHandlesAssumption DEF EmptyBuffer, Allocated
<1>2. buffer \in Allocated \cup Buffers
  BY <1>1 DEF BufferOf
<1>3. buffer \in Ids /\ \A c \in Registered : ClassObject[c] # buffer
  BY <1>2, JniHandlesAssumption DEF Ids, ClassObjects
<1>4. String(text) \in Objects
  BY ObjectTypes
<1> QED BY <1>3, <1>4, EnsureTables DEF NewStringUTF

(* A call of JNIEnv by the guest.                                          *)
LEMMA GuestStepOK == IInv /\ GuestStep => Step
<1> SUFFICES ASSUME IInv, GuestStep PROVE Step
  OBVIOUS
<1>1. TableInv /\ ObjectInv /\ WrapperInv /\ UNCHANGED wrappers /\ UNCHANGED removed
  BY DEF IInv, GuestStep
<1>2. WrapperStep /\ inCall' \in BOOLEAN
  BY <1>1, WrappersStay DEF IInv, GuestStep
<1>3. SUFFICES Tables
  BY <1>2 DEF Tables, Step
<1>4. UNCHANGED store => ObjectStep
  BY <1>1, ObjectsStay DEF store, ObjectInv
<1>5. ASSUME NEW c \in Registered, FindClass(c) PROVE Tables
  BY <1>1, <1>5, FindClassTables
<1>6. ASSUME NEW text \in Texts, NEW buffer \in BufferOf(text), NewStringUTF(text, buffer)
      PROVE Tables
  BY <1>1, <1>6, NewStringTables
<1>7. ASSUME NEW h \in DOMAIN refs, GetObjectClass(h) PROVE Tables
  BY <1>1, <1>7, FindClassTables DEF GetObjectClass
<1>8. ASSUME NEW h \in DOMAIN refs, NewObject(h) PROVE Tables
  <2>1. Stub(NamedClass(h), NamedClass(h)) \in Objects
    BY <1>1, <1>8, LiveTypes, ObjectTypes DEF NewObject
  <2> QED BY <1>1, <1>8, <2>1, InsertTables, DuplicateTables DEF NewObject
<1>9. ASSUME NEW h \in DOMAIN refs, NewGlobalRef(h) \/ NewLocalRef(h) PROVE Tables
  <2> DEFINE o == refs[h].object
  <2>1. o \in Ids /\ o \in DOMAIN objects \cup removed /\ UNCHANGED store
    BY <1>1, <1>9 DEF IInv, UnbackedIsReleased, TableInv, Refs, Ids, NewGlobalRef, NewLocalRef
  <2>2. ObjectStep /\ o \in DOMAIN objects' \cup removed'
    BY <1>1, <1>4, <2>1 DEF store
  <2>3. NewLocal(o) \/ NewGlobal(o)
    BY <1>9 DEF NewGlobalRef, NewLocalRef
  <2> HIDE DEF o
  <2>4. TableStep /\ \A g \in DOMAIN refs' \ DOMAIN refs : refs'[g].object = o
    BY <1>1, <2>1, <2>3, NewLocalStep, NewGlobalStep
  <2> QED BY <2>2, <2>4 DEF Tables, NewBacked
<1>10. ASSUME NEW h \in DOMAIN refs, DeleteRef(h) PROVE Tables
  <2>1. ObjectStep /\ TableStep /\ DOMAIN refs' \subseteq DOMAIN refs
    BY <1>1, <1>4, <1>10, DeleteStep DEF DeleteRef
  <2> QED BY <2>1 DEF Tables, NewBacked
<1>11. ASSUME NEW h \in DOMAIN refs, NEW text \in Texts, ReturnText(h, text) PROVE Tables
  BY <1>1, <1>11, ObjectTypes, InsertTables, DuplicateTables DEF ReturnText
<1>12. ASSUME NEW h \in DOMAIN refs, NEW p \in PyObjects, ReturnWrapper(h, p) PROVE Tables
  <2> DEFINE o == wrappers[p].object
  <2>1. p \in DOMAIN wrappers /\ NewLocal(o) /\ UNCHANGED store
    BY <1>12 DEF ReturnWrapper
  <2>2. o \in Ids /\ o \in DOMAIN objects \cup removed
    BY <1>1, <2>1 DEF WrapperInv, Wrappers, Ids
  <2>3. ObjectStep /\ o \in DOMAIN objects' \cup removed'
    BY <1>1, <1>4, <2>1, <2>2 DEF store
  <2> HIDE DEF o
  <2> QED BY <1>1, <2>1, <2>2, <2>3, LocalTables
<1> QED BY <1>5, <1>6, <1>7, <1>8, <1>9, <1>10, <1>11, <1>12 DEF GuestStep
-----------------------------------------------------------------------------
(* Python registers an object.                                             *)
LEMMA RegisterOK ==
  ASSUME IInv, NEW p \in PyObjects, NEW record \in Records(p), Register(p, record),
         UNCHANGED inCall
  PROVE  Step
<1>1. TableInv /\ ObjectInv /\ WrapperInv /\ UNCHANGED removed /\ inCall' \in BOOLEAN
  BY DEF IInv, Register
<1>2. record \in Objects
  BY ObjectTypes
<1>3. CASE Duplicate /\ UNCHANGED <<table, wrappers>>
  BY <1>1, <1>3, DuplicateTables, WrappersStay DEF Tables, Step
<1>4. CASE /\ Insert(record) /\ NewGlobal(nextObject)
           /\ wrappers' = At(wrappers, p, [handle |-> nextRef, object |-> nextObject,
                                           record |-> record, released |-> FALSE])
  <2> DEFINE w == [handle |-> nextRef, object |-> nextObject,
                   record |-> record, released |-> FALSE]
  <2>1. /\ ObjectStep /\ nextObject \in Allocated /\ nextObject \in Ids
        /\ nextObject \in DOMAIN objects' /\ objects'[nextObject] = record
    BY <1>1, <1>2, <1>4, InsertStep
  <2>2. /\ TableStep
        /\ nextRef \in DOMAIN refs' /\ nextRef \in 1..MaxRef
        /\ refs'[nextRef] = [object |-> nextObject, kind |-> "Global"]
        /\ \A h \in DOMAIN refs' \ DOMAIN refs : refs'[h].object = nextObject
    BY <1>1, <1>4, <2>1, NewGlobalStep
  <2>3. w \in Wrappers
    BY <1>2, <2>1, <2>2 DEF Wrappers
  <2>4. wrappers' = [x \in DOMAIN wrappers \cup {p} |-> IF x = p THEN w ELSE wrappers[x]]
    BY <1>4 DEF At
  <2>5. /\ wrappers' \in [DOMAIN wrappers' -> Wrappers] /\ DOMAIN wrappers' \subseteq PyObjects
        /\ wrappers'[p] = w
        /\ \A x \in DOMAIN wrappers' : x # p => x \in DOMAIN wrappers /\ wrappers'[x] = wrappers[x]
    BY <1>1, <2>3, <2>4 DEF WrapperInv
  <2>6. NewWrapper(p)
    BY <2>1, <2>2, <2>5 DEF NewWrapper
  <2>7. WrapperStep
    BY <2>5, <2>6 DEF WrapperStep, SameWrapper
  <2> QED BY <1>1, <2>1, <2>2, <2>7 DEF Step, NewBacked
<1> QED BY <1>3, <1>4 DEF Register

(* Marshalling touches the store alone.                                    *)
LEMMA InternOK ==
  ASSUME IInv, NEW text \in Texts, Intern(text), UNCHANGED inCall
  PROVE  Step
<1>1. /\ TableInv /\ ObjectInv /\ WrapperInv /\ UNCHANGED removed
      /\ UNCHANGED wrappers /\ UNCHANGED table /\ inCall' \in BOOLEAN
  BY DEF IInv, Intern
<1>2. ObjectStep
  BY <1>1, ObjectTypes, InsertStep, DuplicateStep DEF Intern
<1> QED BY <1>1, <1>2, TableStays, WrappersStay DEF Step, NewBacked

(* release_java_instance: the object goes, to removed.                     *)
LEMMA ReleaseTables ==
  ASSUME TableInv, ObjectInv, NEW h, ReleaseInstance(h)
  PROVE  Tables
<1> DEFINE o == refs[h].object
<1>1. o \in Ids /\ o \in DOMAIN objects
  BY LiveTypes DEF ReleaseInstance, Live
<1>2. objects' = [x \in DOMAIN objects \ {o} |-> objects[x]] /\ removed' = removed \cup {o}
  BY DEF ReleaseInstance, Without
<1>3. nextObject' = nextObject
  BY DEF ReleaseInstance
<1> HIDE DEF o
<1>4. DOMAIN objects' = DOMAIN objects \ {o} /\ \A x \in DOMAIN objects' : objects'[x] = objects[x]
  BY <1>2
<1>5. objects' \in [DOMAIN objects' -> Objects]
  BY <1>2, <1>4 DEF ObjectInv
<1>6. ObjectInv'
  BY <1>1, <1>2, <1>3, <1>4, <1>5 DEF ObjectInv, ClassObjectsNamed
<1>7. ObjectStep
  BY <1>2, <1>4, <1>6 DEF ObjectStep, KeepsObjects
<1>8. TableStep /\ DOMAIN refs' \subseteq DOMAIN refs
  BY DeleteStep, TableStays DEF ReleaseInstance
<1> QED BY <1>7, <1>8 DEF Tables, NewBacked

(* The released flag is no part of what a wrapper denotes.                 *)
LEMMA ReleasesOK ==
  ASSUME WrapperInv, NEW p \in PyObjects, Releases(p)
  PROVE  WrapperStep
<1>1. p \in DOMAIN wrappers /\ wrappers' = [wrappers EXCEPT ![p].released = TRUE]
  BY DEF Releases
<1>2. wrappers' \in [DOMAIN wrappers' -> Wrappers] /\ DOMAIN wrappers' = DOMAIN wrappers
  BY <1>1 DEF WrapperInv, Wrappers
<1>3. ASSUME NEW x \in DOMAIN wrappers PROVE SameWrapper(x)
  <2>1. wrappers[x] \in Wrappers
    BY <1>3 DEF WrapperInv
  <2> QED BY <1>1, <1>2, <2>1 DEF SameWrapper, Wrappers
<1> QED BY <1>2, <1>3 DEF WrapperStep, WrapperInv
-----------------------------------------------------------------------------
(* Every step of the system is the three steps.                            *)
LEMMA NextOK == IInv /\ [Next]_vars => Step
<1> SUFFICES ASSUME IInv, [Next]_vars PROVE Step
  OBVIOUS
<1>1. TableInv /\ ObjectInv /\ WrapperInv /\ inCall \in BOOLEAN
  BY DEF IInv
<1>2. ASSUME UNCHANGED table, UNCHANGED store, UNCHANGED removed PROVE Tables
  <2>1. TableStep /\ DOMAIN refs' = DOMAIN refs
    BY <1>1, <1>2, TableStays
  <2>2. ObjectStep
    BY <1>1, <1>2, ObjectsStay DEF store, ObjectInv
  <2> QED BY <2>1, <2>2 DEF Tables, NewBacked
<1>3. CASE GuestStep
  BY <1>3, GuestStepOK
<1>4. CASE HostStep
  <2>1. UNCHANGED inCall
    BY <1>4 DEF HostStep
  <2>2. ASSUME NEW p \in PyObjects, NEW record \in Records(p), Register(p, record) PROVE Step
    BY <2>1, <2>2, RegisterOK
  <2>3. ASSUME NEW text \in Texts, Intern(text) PROVE Step
    BY <2>1, <2>3, InternOK
  <2>4. ASSUME NEW h \in DOMAIN refs, ReleaseInstance(h), UNCHANGED wrappers PROVE Step
    BY <1>1, <2>1, <2>4, ReleaseTables, WrappersStay DEF Step, Tables
  <2>5. ASSUME NEW p \in PyObjects, ReleaseWrapper(p) PROVE Step
    <3>1. WrapperStep
      BY <1>1, <2>5, ReleasesOK DEF ReleaseWrapper
    <3>2. Tables
      BY <1>1, <1>2, <2>5, ReleaseTables DEF ReleaseWrapper
    <3> QED BY <1>1, <2>1, <3>1, <3>2 DEF Step, Tables
  <2> QED BY <1>4, <2>2, <2>3, <2>4, <2>5 DEF HostStep
<1>5. CASE GuestCall \/ GuestReturn
  BY <1>1, <1>2, <1>5, WrappersStay DEF GuestCall, GuestReturn, Step, Tables
<1>6. ASSUME NEW p \in PyObjects, ReleaseBorrowed(p) PROVE Step
  BY <1>1, <1>2, <1>6, ReleasesOK DEF ReleaseBorrowed, Step, Tables
<1>7. CASE UNCHANGED vars
  BY <1>1, <1>2, <1>7, WrappersStay DEF vars, Step, Tables
<1> QED BY <1>3, <1>4, <1>5, <1>6, <1>7 DEF Next

(* The invariant holds in every reachable state.                           *)
THEOREM Invariance == Spec => []IInv
<1>1. Init => IInv
  BY InitSound
<1>2. IInv /\ [Next]_vars => IInv'
  BY NextOK, StepKeeps
<1> QED BY <1>1, <1>2, PTL DEF Spec

(* Every table holds what its code can put there.                          *)
THEOREM TypeCorrect == Spec => []TypeOK
BY Invariance, Meaning, PTL

(* A handle leads to an object that is stored or that Python released.     *)
THEOREM HandlesBacked == Spec => []UnbackedIsReleased
BY Invariance, Meaning, PTL

(* What clear_frame would drain is the live local references.              *)
THEOREM FrameExact == Spec => []FrameIsLocals
BY Invariance, Meaning, PTL

(* A class object stands for its class.                                    *)
THEOREM ClassObjectsRight == Spec => []ClassObjectsNamed
BY Invariance, Meaning, PTL

(* The handle a wrapper keeps leads to its own object while it lives.      *)
THEOREM WrapperHandlesRight == Spec => []WrapperHandle
BY Invariance, Meaning, PTL

(* The id a wrapper keeps denotes what was registered until a release.     *)
THEOREM WrapperObjectsStay == Spec => []WrapperIdentity
BY Invariance, Meaning, PTL

(* A handle keeps its meaning and a deleted one never comes back.          *)
THEOREM HandlesKeepMeaning == Spec => HandleMeaning
<1>1. IInv /\ [Next]_vars => KeepsHandles
  BY NextOK DEF Step, TableStep
<1>2. KeepsHandles <=>
        /\ nextRef' >= nextRef
        /\ \A h \in DOMAIN refs' :
             IF h \in DOMAIN refs THEN refs'[h] = refs[h] ELSE h \in nextRef..(nextRef' - 1)
  BY DEF KeepsHandles
<1> QED BY <1>1, <1>2, Invariance, PTL DEF Spec, HandleMeaning

(* An object is not written over while it is stored.                       *)
THEOREM ObjectsKeep == Spec => ObjectStays
<1>1. IInv /\ [Next]_vars => KeepsObjects
  BY NextOK DEF Step, ObjectStep
<1> QED BY <1>1, Invariance, PTL DEF Spec, ObjectStays, KeepsObjects

(* The tables are sound in every state the calls can reach.                *)
THEOREM TablesAlwaysSound == Spec => []TablesSound
BY TypeCorrect, FrameExact, HandlesBacked, ClassObjectsRight, PTL DEF TablesSound

(* A wrapper's two numbers stay its own.                                   *)
THEOREM WrappersAlwaysKeep == Spec => []WrappersKeep
BY WrapperHandlesRight, WrapperObjectsStay, PTL DEF WrappersKeep
=============================================================================
