----------------------------- MODULE JniHandles -----------------------------
(***************************************************************************)
(* What a jobject stands for: RefTable (jni/src/refs.rs) maps the handles  *)
(* guest code holds to object ids, ObjectStore (object_store.rs) maps      *)
(* object ids to Java objects, and Python objects keep the handle and the  *)
(* id they were registered under.  Guest code works on the tables through  *)
(* JniEnvSurface (jnienv.rs) behind the trampoline, Python through         *)
(* PyEmulatorBridge.                                                       *)
(*                                                                         *)
(* Object ids come from three places: the shared IdAllocator; the id of    *)
(* the class plus 0x1000_0000, for class objects; and, for NewStringUTF,   *)
(* the address of the host buffer the text was copied to, which is freed   *)
(* when the call returns.  The buffer of an empty text is never allocated: *)
(* its address is 1, an id of the allocator.                               *)
(*                                                                         *)
(* PyEmulatorBridge::call borrows the bridge mutably for the whole run of  *)
(* guest code, so a bridge method Python calls from a handler meanwhile    *)
(* raises.  The frame of local references is cleared by no caller.         *)
(***************************************************************************)
EXTENDS Integers, FiniteSets

CONSTANTS
  Registered,   (* names of the classes in JniRegistry                      *)
  Foreign,      (* class names objects carry that are not registered        *)
  StringClass,  (* java/lang/String, one of the names                       *)
  ClassClass,   (* java/lang/Class, one of the names                        *)
  ClassObject,  (* class -> id of its class object                          *)
  Buffers,      (* host addresses a text of NewStringUTF may be copied to   *)
  Texts,        (* texts, the empty one among them                          *)
  EmptyText,
  PyObjects,    (* Python objects that may be registered                    *)
  MaxRef,       (* bound: handles ever given out                            *)
  MaxObject     (* bound: ids the allocator gives out                       *)

Classes == Registered \cup Foreign

EmptyBuffer == 1

Allocated == 1..MaxObject

ClassObjects == {ClassObject[c] : c \in Registered}

(* Class ids start at 0x1000_0001 and host addresses lie above them.       *)
ASSUME JniHandlesAssumption ==
  /\ {StringClass, ClassClass} \subseteq Classes /\ EmptyText \in Texts
  /\ MaxRef \in Nat /\ MaxObject \in Nat \ {0}
  /\ ClassObject \in [Registered -> Nat] /\ Buffers \subseteq Nat
  /\ \A c, d \in Registered : ClassObject[c] = ClassObject[d] => c = d
  /\ Allocated \cap ClassObjects = {} /\ Allocated \cap Buffers = {}
  /\ ClassObjects \cap Buffers = {}

VARIABLES
  refs,        (* RefTable::entries: handle -> [object, kind]               *)
  nextRef,     (* RefTable::next_id                                         *)
  frame,       (* RefTable::local_frame, which clear_frame would drain      *)
  objects,     (* ObjectStore::objects: id -> object                        *)
  nextObject,  (* IdAllocator::next                                         *)
  wrappers,    (* Python object -> [handle, object, record, released]       *)
  inCall,      (* guest code is running                                     *)
  removed      (* history: ids whose object release_java_instance removed   *)

store == <<objects, nextObject>>
table == <<refs, nextRef, frame>>
vars == <<table, store, wrappers, inCall, removed>>

At(f, x, v) == [y \in DOMAIN f \cup {x} |-> IF y = x THEN v ELSE f[y]]

Without(f, x) == [y \in DOMAIN f \ {x} |-> f[y]]

(***************************************************************************)
(* Objects.  `class` is ObjectRecord::class_name; a stub carries the name  *)
(* NewObject or FindClass gave it, a string its text, a host value the     *)
(* Python object.  A byte array is a string here: nothing tells them apart *)
(* but the class.                                                          *)
(***************************************************************************)
Stub(class, name) == [class |-> class, storage |-> "stub", data |-> name]

String(text) == [class |-> StringClass, storage |-> "string", data |-> text]

HostValue(class, p) == [class |-> class, storage |-> "host", data |-> p]

(* What a Python object may be registered as.                              *)
Records(p) == {HostValue(c, p) : c \in Classes} \cup {String(t) : t \in Texts}

Live(h) == h \in DOMAIN refs /\ refs[h].object \in DOMAIN objects

Denoted(h) == objects[refs[h].object]

(* resolve_class_name: a stub names its class in its data.                 *)
NamedClass(h) == IF Denoted(h).storage = "stub" THEN Denoted(h).data ELSE Denoted(h).class

Init ==
  /\ refs = [h \in {} |-> h] /\ nextRef = 1 /\ frame = {}
  /\ objects = [o \in {} |-> o] /\ nextObject = 1
  /\ wrappers = [p \in {} |-> p] /\ inCall = FALSE /\ removed = {}
-----------------------------------------------------------------------------
(* RefTable.                                                               *)
NewRef(object, kind) ==
  /\ nextRef <= MaxRef /\ nextRef' = nextRef + 1
  /\ refs' = At(refs, nextRef, [object |-> object, kind |-> kind])

NewLocal(object) == NewRef(object, "Local") /\ frame' = frame \cup {nextRef}

NewGlobal(object) == NewRef(object, "Global") /\ UNCHANGED frame

(* delete_local that gives the number back (mutant).                       *)
DeleteLocalReuses(h) ==
  /\ h \in DOMAIN refs /\ refs[h].kind = "Local"
  /\ refs' = Without(refs, h) /\ frame' = frame \ {h} /\ nextRef' = h

DeleteLocal(h) ==
  /\ h \in DOMAIN refs /\ refs[h].kind = "Local"
  /\ refs' = Without(refs, h) /\ frame' = frame \ {h} /\ UNCHANGED nextRef

(* delete_global that gives the number back (mutant).                      *)
DeleteGlobalReuses(h) ==
  /\ h \in DOMAIN refs /\ refs[h].kind = "Global"
  /\ refs' = Without(refs, h) /\ nextRef' = h /\ UNCHANGED frame

DeleteGlobal(h) ==
  /\ h \in DOMAIN refs /\ refs[h].kind = "Global"
  /\ refs' = Without(refs, h) /\ UNCHANGED <<nextRef, frame>>

(***************************************************************************)
(* An id of the allocator and an object inserted under it.  The id is gone *)
(* when the store already holds an object there: DuplicateId.              *)
(***************************************************************************)
TakeId == nextObject <= MaxObject /\ nextObject' = nextObject + 1

Insert(record) ==
  /\ TakeId /\ nextObject \notin DOMAIN objects
  /\ objects' = At(objects, nextObject, record)

Duplicate == TakeId /\ nextObject \in DOMAIN objects /\ UNCHANGED objects
-----------------------------------------------------------------------------
(* Guest calls of JNIEnv.  One that fails leaves the tables alone, except  *)
(* for the id NewObject and a returned text take first.                    *)

(* find_class that leaves the object to a later call (mutant).             *)
FindClassBare(c) == NewLocal(ClassObject[c]) /\ UNCHANGED store

FindClass(c) ==
  /\ NewLocal(ClassObject[c])
  /\ objects' = IF ClassObject[c] \in DOMAIN objects THEN objects
                ELSE At(objects, ClassObject[c], Stub(ClassClass, c))
  /\ UNCHANGED nextObject

GetObjectClass(h) == Live(h) /\ Denoted(h).class \in Registered /\ FindClass(Denoted(h).class)

NewObject(h) ==
  /\ Live(h)
  /\ \/ Insert(Stub(NamedClass(h), NamedClass(h))) /\ NewLocal(nextObject)
     \/ Duplicate /\ UNCHANGED table

BufferOf(text) == IF text = EmptyText THEN {EmptyBuffer} ELSE Buffers

(* new_string_utf that inserts without asking contains (mutant).           *)
NewStringOverwrites(text, buffer) ==
  /\ buffer \in BufferOf(text) /\ NewLocal(buffer)
  /\ objects' = At(objects, buffer, String(text)) /\ UNCHANGED nextObject

NewStringUTF(text, buffer) ==
  /\ buffer \in BufferOf(text)
  /\ NewLocal(buffer)
  /\ objects' = IF buffer \in DOMAIN objects THEN objects
                ELSE At(objects, buffer, String(text))
  /\ UNCHANGED nextObject

NewGlobalRef(h) == h \in DOMAIN refs /\ NewGlobal(refs[h].object) /\ UNCHANGED store

NewLocalRef(h) == h \in DOMAIN refs /\ NewLocal(refs[h].object) /\ UNCHANGED store

DeleteRef(h) == (DeleteLocal(h) \/ DeleteGlobal(h)) /\ UNCHANGED store

(***************************************************************************)
(* CallObjectMethod and CallStaticObjectMethod of a method whose handler   *)
(* returns an object: a Python text is interned under a new id, a wrapper  *)
(* stands for the id it was registered under, released or not.  Null and   *)
(* the primitive types change nothing.                                     *)
(***************************************************************************)
Callable(h) == Live(h) /\ {Denoted(h).class, NamedClass(h)} \cap Registered # {}

ReturnText(h, text) ==
  /\ Callable(h)
  /\ \/ Insert(String(text)) /\ NewLocal(nextObject)
     \/ Duplicate /\ UNCHANGED table

ReturnWrapper(h, p) ==
  /\ Callable(h) /\ p \in DOMAIN wrappers
  /\ NewLocal(wrappers[p].object) /\ UNCHANGED store

GuestStep ==
  /\ inCall
  /\ \/ \E c \in Registered : FindClass(c)
     \/ \E text \in Texts : \E buffer \in BufferOf(text) : NewStringUTF(text, buffer)
     \/ \E h \in DOMAIN refs :
          \/ GetObjectClass(h) \/ NewObject(h)
          \/ NewGlobalRef(h) \/ NewLocalRef(h) \/ DeleteRef(h)
          \/ \E text \in Texts : ReturnText(h, text)
          \/ \E p \in PyObjects : ReturnWrapper(h, p)
  /\ UNCHANGED <<wrappers, inCall, removed>>
-----------------------------------------------------------------------------
(* Python between guest calls.                                             *)

(* register_java_object, register_java_string and register_java_bytes.  An *)
(* id the store already holds raises, and the id is gone.                  *)
Register(p, record) ==
  /\ p \notin DOMAIN wrappers
  /\ \/ /\ Insert(record) /\ NewGlobal(nextObject)
        /\ wrappers' = At(wrappers, p, [handle |-> nextRef, object |-> nextObject,
                                        record |-> record, released |-> FALSE])
     \/ Duplicate /\ UNCHANGED <<table, wrappers>>
  /\ UNCHANGED removed

(* Marshalling a Python text: a string no reference leads to.              *)
Intern(text) ==
  /\ Insert(String(text)) \/ Duplicate
  /\ UNCHANGED <<table, wrappers, removed>>

(* release_java_instance.  The object goes first; a handle that is not a   *)
(* global reference then raises and stays.                                 *)
ReleaseInstance(h) ==
  /\ Live(h)
  /\ objects' = Without(objects, refs[h].object) /\ removed' = removed \cup {refs[h].object}
  /\ DeleteGlobal(h) \/ (refs[h].kind # "Global" /\ UNCHANGED table)
  /\ UNCHANGED nextObject

(* release() of a JavaString or JavaByteArray, or its __del__: the flag is *)
(* set first and an exception is swallowed.                                *)
Releases(p) ==
  /\ p \in DOMAIN wrappers /\ ~wrappers[p].released /\ wrappers[p].record.storage = "string"
  /\ wrappers' = [wrappers EXCEPT ![p].released = TRUE]

ReleaseWrapper(p) ==
  /\ Releases(p)
  /\ \/ ReleaseInstance(wrappers[p].handle)
     \/ ~Live(wrappers[p].handle) /\ UNCHANGED <<table, store, removed>>

(* The same while the bridge is borrowed, from a handler that a guest call *)
(* or call_java_method runs: release_java_instance raises at once.         *)
ReleaseBorrowed(p) == Releases(p) /\ UNCHANGED <<table, store, inCall, removed>>

HostStep ==
  /\ ~inCall
  /\ \/ \E p \in PyObjects : \E record \in Records(p) : Register(p, record)
     \/ \E text \in Texts : Intern(text)
     \/ \E h \in DOMAIN refs : ReleaseInstance(h) /\ UNCHANGED wrappers
     \/ \E p \in PyObjects : ReleaseWrapper(p)
  /\ UNCHANGED inCall

(* PyEmulatorBridge::call and the return of guest code.                    *)
GuestCall == ~inCall /\ inCall' = TRUE /\ UNCHANGED <<table, store, wrappers, removed>>

GuestReturn == inCall /\ inCall' = FALSE /\ UNCHANGED <<table, store, wrappers, removed>>

Next ==
  \/ GuestStep \/ HostStep \/ GuestCall \/ GuestReturn
  \/ \E p \in PyObjects : ReleaseBorrowed(p)

Spec == Init /\ [][Next]_vars
-----------------------------------------------------------------------------
(* Properties.                                                             *)

Refs == [object : Allocated \cup ClassObjects \cup Buffers,
         kind : {"Local", "Global"}]

Objects ==
  [class : Classes, storage : {"stub"}, data : Classes]
    \cup [class : {StringClass}, storage : {"string"}, data : Texts]
    \cup [class : Classes, storage : {"host"}, data : PyObjects]

Wrappers == [handle : 1..MaxRef, object : Allocated, record : Objects, released : BOOLEAN]

(* Every table holds what its code can put there.                          *)
TypeOK ==
  /\ DOMAIN refs \subseteq 1..MaxRef /\ refs \in [DOMAIN refs -> Refs]
  /\ nextRef \in 1..(MaxRef + 1) /\ frame \subseteq 1..MaxRef
  /\ DOMAIN objects \subseteq Allocated \cup ClassObjects \cup Buffers
  /\ objects \in [DOMAIN objects -> Objects] /\ nextObject \in 1..(MaxObject + 1)
  /\ DOMAIN wrappers \subseteq PyObjects /\ wrappers \in [DOMAIN wrappers -> Wrappers]
  /\ inCall \in BOOLEAN /\ removed \subseteq Allocated \cup ClassObjects \cup Buffers

(* refs.rs: the list clear_frame would drain is the live local references, *)
(* whatever was deleted in which order.                                    *)
FrameIsLocals == frame = {h \in DOMAIN refs : refs[h].kind = "Local"}

(* refs.rs: a handle keeps its object and its kind for as long as it       *)
(* lives, and one that was deleted never comes back as another's.          *)
HandleMeaning ==
  [][/\ nextRef' >= nextRef
     /\ \A h \in DOMAIN refs' :
          IF h \in DOMAIN refs THEN refs'[h] = refs[h] ELSE h \in nextRef..(nextRef' - 1)]_vars

(* object_store.rs insert: an object is not written over while it is       *)
(* stored, by whichever of the three kinds of id.                          *)
ObjectStays ==
  [][\A o \in DOMAIN objects \cap DOMAIN objects' : objects'[o] = objects[o]]_vars

(* A reference leads to an object, or to one that Python released: no call *)
(* of the guest, failed or not, hands out a handle to an object that never *)
(* was.                                                                    *)
UnbackedIsReleased ==
  \A h \in DOMAIN refs : refs[h].object \in DOMAIN objects \cup removed

(* jnienv.rs find_class and resolve_class_name: the id of a class object   *)
(* holds the object of that class and no other.                            *)
ClassObjectsNamed ==
  \A c \in Registered : ClassObject[c] \in DOMAIN objects =>
     objects[ClassObject[c]] = Stub(ClassClass, c)

(* javashim/values.py: the handle a wrapper was given, if the guest has    *)
(* not deleted it, is a global reference to the wrapper's own object, so   *)
(* release never hits another's.                                           *)
WrapperHandle ==
  \A p \in DOMAIN wrappers : wrappers[p].handle \in DOMAIN refs =>
     refs[wrappers[p].handle] = [object |-> wrappers[p].object, kind |-> "Global"]

(* javashim/values.py: the id a wrapper passes to the guest denotes what   *)
(* was registered until somebody releases it, whatever guest code creates  *)
(* and deletes.  The id 1 is left out: see NewStringDenotes.               *)
WrapperIdentity ==
  \A p \in DOMAIN wrappers :
     wrappers[p].object \notin removed \cup {EmptyBuffer} =>
       /\ wrappers[p].object \in DOMAIN objects
       /\ objects[wrappers[p].object] = wrappers[p].record

(* The tables every handle is looked up in: typed, the frame exact, no     *)
(* reference to what never was, class objects for their own classes.       *)
TablesSound == TypeOK /\ FrameIsLocals /\ UnbackedIsReleased /\ ClassObjectsNamed

(* Both numbers a wrapper keeps, its handle and its object id, stay its    *)
(* own while guest code makes and deletes references.                      *)
WrappersKeep == WrapperHandle /\ WrapperIdentity

(* jnienv.rs:612: NewStringUTF makes a string of the text it is given.     *)
NewStringDenotes ==
  [][\A text \in Texts, buffer \in Buffers \cup {EmptyBuffer} :
       GuestStep /\ NewStringUTF(text, buffer) =>
         objects'[refs'[nextRef].object] = String(text)]_vars
=============================================================================
