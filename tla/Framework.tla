------------------------------ MODULE Framework ------------------------------
(***************************************************************************)
(* The Android classes the emulator brings itself (jni/src/framework/).    *)
(* FrameworkRegistry::install fills a VM: a manager object per default     *)
(* service, the three singletons a Context hands out, and the classes of   *)
(* the catalog, merged into JniRegistry.  Each handler keeps the           *)
(* FrameworkCtx of the installation that made it: APK, services and object *)
(* store are shared by all installations, the singletons are its own.      *)
(* Python classes are merged into the same registry, before or after.      *)
(*                                                                         *)
(* The objects are those of ObjectStore (jni/src/object_store.rs): a class *)
(* and a storage, which for a stub is a box of any Rust type; a handler    *)
(* names the type it expects in there and fails on another one.            *)
(*                                                                         *)
(* Left out: the empty classes of the catalog, version codes, and what the *)
(* hash codes are.                                                         *)
(***************************************************************************)
EXTENDS Integers, Sequences

CONSTANTS
  Contents,     (* texts and byte strings                                   *)
  Empty,        (* the empty one                                            *)
  MockName,     (* MOCK_PACKAGE_NAME                                        *)
  None,         (* no APK, no version, null                                 *)
  Apks,         (* ApkContext: [name, version, sigs]                        *)
  Services,     (* sequence of default service names                        *)
  Brought,      (* contents of the strings and arrays a guest brings        *)
  Overridden,   (* <<context class, method>> a Python class may define      *)
  MaxInstalls,  (* bound: calls of install                                  *)
  MaxObjects    (* bound: objects beside those of the installations before  *)
                (* a call that makes more                                   *)

(* Context, ContextWrapper and Application answer the same calls.          *)
ContextClasses == {"Context", "ContextWrapper", "Application"}

ContextMethods ==
  {"getPackageName", "getPackageManager", "getApplicationInfo", "getAssets",
   "getSystemService"}

ApkContexts == [name: Contents, version: Contents \cup {None}, sigs: Seq(Contents)]

ASSUME FrameworkAssumption ==
  /\ Overridden \subseteq ContextClasses \X ContextMethods
  /\ Empty \in Contents /\ MockName \in Contents /\ None \notin Contents
  /\ Apks \subseteq ApkContexts
  /\ None \notin Apks
  /\ Services \in Seq(Contents)
  /\ Brought \subseteq Contents
  /\ MaxInstalls \in Nat /\ MaxObjects \in Nat

StubClasses ==
  {"Manager", "PackageManager", "ApplicationInfo", "AssetManager", "PackageInfo",
   "Signature", "ArrayList"}

(* Storages: String, PrimitiveArray of bytes, and StubInstance by the type *)
(* in its box: (), String, Vec<u8>, PackageInfoData, ApplicationInfoData,  *)
(* Mutex<Vec<ObjectId>> and Arc<Mutex<Vec<ObjectId>>>.                     *)
StubTypes == {"unit", "name", "bytes", "info", "app", "list", "shared list"}

Storages == {"string", "array"} \cup StubTypes

VARIABLES
  vmApk,       (* AndroidVM::apk                                            *)
  apk,         (* FrameworkRegistry::apk, read by every handler             *)
  seen,        (* history: the APKs apk has been                            *)
  services,    (* ServiceRegistry: name -> object                           *)
  singletons,  (* per installation: [manager, info, assets]                 *)
  handlers,    (* context class -> method -> installation it belongs to,    *)
               (* 0 for none and Python for a Python method                 *)
  store        (* objects in the order of their ids: [class, storage, text, *)
               (* version, refs]                                            *)

vars == <<vmApk, apk, seen, services, singletons, handlers, store>>

Python == -1

Object(class, storage, text, version, refs) ==
  [class |-> class, storage |-> storage, text |-> text, version |-> version, refs |-> refs]

Unit(class) == Object(class, "unit", Empty, None, <<>>)

Text(c) == Object("String", "string", c, None, <<>>)

ByteArray(c) == Object("byte[]", "array", c, None, <<>>)

NewSignature(c) == Object("Signature", "bytes", c, None, <<>>)

ApplicationInfo(c) == Object("ApplicationInfo", "app", c, None, <<>>)

PackageInfo(name, version, sigs) == Object("PackageInfo", "info", name, version, sigs)

Room == Len(store) - Len(singletons) * (Len(Services) + 3) < MaxObjects

(* intern_string, intern_byte_array, intern_stub: the next id of the VM.   *)
Intern(object) == store' = Append(store, object)

Objects(class) == {o \in DOMAIN store : store[o].class = class}

(* read_stub: the box must hold the type the handler names.                *)
Reads(o, type) == store[o].storage = type

Init ==
  /\ vmApk \in Apks \cup {None}
  /\ apk = None /\ seen = {} /\ services = [n \in {} |-> 0] /\ singletons = <<>>
  /\ handlers = [c \in ContextClasses |-> [m \in ContextMethods |-> 0]]
  /\ store = <<>>
-----------------------------------------------------------------------------
(***************************************************************************)
(* Filling the VM.                                                         *)
(***************************************************************************)
SetApk(a) ==
  /\ apk' = a /\ seen' = seen \cup {a}
  /\ UNCHANGED <<vmApk, services, singletons, handlers, store>>

(* The package name the handlers see: of the APK, or the mock one.         *)
NameIn(a) == IF a = None THEN MockName ELSE a.name

SyncedApk == IF apk = None THEN vmApk ELSE apk

(* register_default_services: a new manager object per name, put over an   *)
(* older one.                                                              *)
DefaultServices(base) ==
  [n \in DOMAIN services \cup {Services[i] : i \in DOMAIN Services} |->
     IF \E i \in DOMAIN Services : Services[i] = n
     THEN base + (CHOOSE i \in DOMAIN Services : Services[i] = n)
     ELSE services[n]]

ServiceObjects == [i \in DOMAIN Services |-> Unit("Manager")]

(* allocate_singletons; the name is copied into ApplicationInfo.           *)
SingletonObjects(a) ==
  <<Unit("PackageManager"), ApplicationInfo(NameIn(a)), Unit("AssetManager")>>

SingletonsFrom(base) == [manager |-> base + 1, info |-> base + 2, assets |-> base + 3]

(* The merge keeps what is there (mutant).                                 *)
MergedAbsent(methods, new) ==
  [c \in ContextClasses |->
     [m \in ContextMethods |->
        IF <<c, m>> \in methods /\ handlers[c][m] = 0 THEN new ELSE handlers[c][m]]]

(* What the specs of the catalog materialize to.                           *)
Catalog == ContextClasses \X ContextMethods

(* register_or_merge_class: a method of the definition replaces what is    *)
(* there.                                                                  *)
Merged(methods, new) ==
  [c \in ContextClasses |->
     [m \in ContextMethods |-> IF <<c, m>> \in methods THEN new ELSE handlers[c][m]]]

Install ==
  /\ Len(singletons) < MaxInstalls
  /\ apk' = SyncedApk /\ seen' = seen \cup ({SyncedApk} \ {None})
  /\ services' = DefaultServices(Len(store))
  /\ singletons' = Append(singletons, SingletonsFrom(Len(store) + Len(Services)))
  /\ store' = store \o ServiceObjects \o SingletonObjects(SyncedApk)
  /\ handlers' = Merged(Catalog, Len(singletons) + 1)
  /\ UNCHANGED <<vmApk>>

(* A harness puts an object of its own under a name.                       *)
RegisterService(n, o) ==
  /\ services' = [x \in DOMAIN services \cup {n} |-> IF x = n THEN o ELSE services[x]]
  /\ UNCHANGED <<vmApk, apk, seen, singletons, handlers, store>>

(* A Python class defines a method of a context class.                     *)
RegisterPython(c, m) ==
  /\ handlers' = Merged({<<c, m>>}, Python)
  /\ UNCHANGED <<vmApk, apk, seen, services, singletons, store>>

(***************************************************************************)
(* Objects the harness or the guest brings: strings, byte arrays, stubs    *)
(* without data (new_stub_instance) and those of JNI NewObject, which      *)
(* keeps the name of the class in the box and calls no constructor.        *)
(***************************************************************************)
NewObject(class) == Object(class, "name", Empty, None, <<>>)

Bring(object) ==
  /\ Room /\ Intern(object)
  /\ UNCHANGED <<vmApk, apk, seen, services, singletons, handlers>>

GuestObjects ==
  {Text(c) : c \in Brought} \cup {ByteArray(c) : c \in Brought}
    \cup {NewSignature(c) : c \in Brought}
    \cup {Unit(class) : class \in {"Signature", "ArrayList"}}
    \cup {NewObject(class) : class \in {"Signature", "ArrayList"}}
-----------------------------------------------------------------------------
(***************************************************************************)
(* Handlers.  Those of a Context that make nothing are what they answer.   *)
(***************************************************************************)
Builtin(c, m) == handlers[c][m] > 0

(* getPackageManager, getApplicationInfo, getAssets: the singletons of the *)
(* handler's own installation.                                             *)
Singleton(c, m, which) == singletons[handlers[c][m]][which]

GetPackageManager(c) == Singleton(c, "getPackageManager", "manager")

GetApplicationInfo(c) == Singleton(c, "getApplicationInfo", "info")

GetAssets(c) == Singleton(c, "getAssets", "assets")

(* getSystemService: null for a null or an unknown name.                   *)
GetSystemService(n) == IF n \in DOMAIN services THEN services[n] ELSE None

(* Context.getPackageName: the current name, a new string each time.       *)
GetPackageName(c) ==
  /\ Builtin(c, "getPackageName") /\ Room
  /\ Intern(Text(NameIn(apk)))
  /\ UNCHANGED <<vmApk, apk, seen, services, singletons, handlers>>

(* PackageManager.getPackageInfo: under one read lock of the APK, a new    *)
(* Signature per signature; then the PackageInfo that names them.          *)
SignatureObjects(a) ==
  IF a = None THEN <<>> ELSE [i \in DOMAIN a.sigs |-> NewSignature(a.sigs[i])]

InfoOf(a, sigs) ==
  PackageInfo(NameIn(a), IF a = None THEN None ELSE a.version, sigs)

(* The signatures are taken from the APK of the VM (mutant).               *)
GetPackageInfoOfVm ==
  /\ Len(singletons) > 0 /\ Room
  /\ LET sigs == SignatureObjects(vmApk)
     IN  store' = store \o sigs
                    \o <<InfoOf(apk, [i \in DOMAIN sigs |-> Len(store) + i])>>
  /\ UNCHANGED <<vmApk, apk, seen, services, singletons, handlers>>

GetPackageInfo ==
  /\ Len(singletons) > 0 /\ Room
  /\ LET sigs == SignatureObjects(apk)
     IN  store' = store \o sigs
                    \o <<InfoOf(apk, [i \in DOMAIN sigs |-> Len(store) + i])>>
  /\ UNCHANGED <<vmApk, apk, seen, services, singletons, handlers>>

(* Getters that make a string or an array of what their object holds.  A   *)
(* missing version is null.                                                *)
InfoStrings(o) == {Text(store[o].text)} \cup {Text(v) : v \in {store[o].version} \ {None}}

ApplicationName(o) == {Text(store[o].text)}

ToByteArray(o) == {ByteArray(store[o].text)}

GetBytes(o) == {ByteArray(store[o].text)}

Copies(o) ==
  CASE Reads(o, "info") -> InfoStrings(o)
    [] Reads(o, "app") -> ApplicationName(o)
    [] Reads(o, "bytes") -> ToByteArray(o)
    [] Reads(o, "string") -> GetBytes(o)
    [] OTHER -> {}

Get(o) ==
  /\ Len(singletons) > 0 /\ Room
  /\ \E copy \in Copies(o) : Intern(copy)
  /\ UNCHANGED <<vmApk, apk, seen, services, singletons, handlers>>

(* Constructors put a value of their type over whatever the box holds.     *)
Construct(o, object) ==
  /\ Len(singletons) > 0 /\ store[o].storage \in StubTypes
  /\ store' = [store EXCEPT ![o] = object]
  /\ UNCHANGED <<vmApk, apk, seen, services, singletons, handlers>>

(* Signature.<init>(byte[]); null gives no bytes.                          *)
ConstructSignature(o, arg) ==
  Construct(o, NewSignature(IF arg = None THEN Empty ELSE store[arg].text))

(* ArrayList.<init>(): a bare Mutex, where add, size and get read a shared *)
(* one.  They fail on every list, so no list ever holds anything.          *)
ConstructList(o) == Construct(o, Object("ArrayList", "list", Empty, None, <<>>))

(* The type the methods of a class name in read_stub.                      *)
Expected ==
  [PackageManager |-> "unit", AssetManager |-> "unit", Manager |-> "unit",
   PackageInfo |-> "info", ApplicationInfo |-> "app", Signature |-> "bytes",
   ArrayList |-> "shared list"]

(* Objects whose constructor has not run: it runs once on each.            *)
Raw(class) == {o \in Objects(class) : store[o].storage \in {"unit", "name"}}

Call ==
  \/ \E c \in ContextClasses : GetPackageName(c)
  \/ GetPackageInfo
  \/ \E o \in DOMAIN store : Get(o)
  \/ \E o \in Raw("Signature") : \E arg \in Objects("byte[]") \cup {None} :
       ConstructSignature(o, arg)
  \/ \E o \in Raw("ArrayList") : ConstructList(o)

Next ==
  \/ \E a \in Apks : SetApk(a)
  \/ Install
  \/ \E n \in Brought : \E o \in Objects("Manager") : RegisterService(n, o)
  \/ \E w \in Overridden : RegisterPython(w[1], w[2])
  \/ \E object \in GuestObjects : Bring(object)
  \/ Call

Spec == Init /\ [][Next]_vars
-----------------------------------------------------------------------------
ObjectType(o) ==
  /\ o.class \in StubClasses \cup {"String", "byte[]"} /\ o.storage \in Storages
  /\ o.text \in Contents /\ o.version \in Contents \cup {None}
  /\ \A i \in DOMAIN o.refs : o.refs[i] \in DOMAIN store

(* Every variable has its type, and no reference held by a PackageInfo,    *)
(* the services or the singletons names an object that is not there.       *)
TypeOK ==
  /\ vmApk \in Apks \cup {None} /\ apk \in Apks \cup {None} /\ seen \subseteq Apks
  /\ \A i \in DOMAIN store : ObjectType(store[i])
  /\ \A n \in DOMAIN services : n \in Contents /\ services[n] \in DOMAIN store
  /\ \A i \in DOMAIN singletons :
       singletons[i] \in [manager: DOMAIN store, info: DOMAIN store, assets: DOMAIN store]
  /\ handlers \in [ContextClasses -> [ContextMethods -> {Python} \cup 0..Len(singletons)]]

(***************************************************************************)
(* Every Context, ContextWrapper and Application hands out the same three  *)
(* objects, those of the last installation, and services by name; each     *)
(* holds what the methods of its class will look for (the docs of          *)
(* FrameworkSingletons: later getters return the same object).             *)
(***************************************************************************)
HandsOut(o, class, which) ==
  /\ o = singletons[Len(singletons)][which]
  /\ store[o].class = class /\ Reads(o, Expected[class])

ContextsAgree ==
  /\ \A c \in ContextClasses :
       /\ Builtin(c, "getPackageManager") =>
            HandsOut(GetPackageManager(c), "PackageManager", "manager")
       /\ Builtin(c, "getApplicationInfo") =>
            HandsOut(GetApplicationInfo(c), "ApplicationInfo", "info")
       /\ Builtin(c, "getAssets") => HandsOut(GetAssets(c), "AssetManager", "assets")
  /\ \A n \in DOMAIN services : store[GetSystemService(n)].class = "Manager"

(***************************************************************************)
(* A PackageInfo is the picture of one APK: name, version and signatures   *)
(* are those of a single context the registry has held, however often it   *)
(* was replaced since (PackageManager.getPackageInfo).                     *)
(***************************************************************************)
Pictures(o, a) ==
  /\ store[o].text = NameIn(a)
  /\ IF a = None THEN store[o].version = None /\ store[o].refs = <<>>
     ELSE /\ store[o].version = a.version
          /\ a.sigs = [i \in DOMAIN store[o].refs |-> store[store[o].refs[i]].text]

OneApk ==
  \A o \in Objects("PackageInfo") : \E a \in seen \cup {None} : Pictures(o, a)

(* Whatever class a guest asks through, what it gets is there and right.   *)
StubsAgree == TypeOK /\ ContextsAgree
=============================================================================
