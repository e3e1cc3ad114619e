-------------------------- MODULE FrameworkProofs --------------------------
(***************************************************************************)
(* Whatever Contents, APKs, services and overrides there are, and however  *)
(* often the framework is installed: StubsAgree and OneApk.  Neither is    *)
(* inductive.  That a PackageInfo stays the picture of one APK needs that  *)
(* its signatures have no constructor left to run; that contexts agree     *)
(* needs that an installation takes every method of every context.         *)
(***************************************************************************)
EXTENDS Framework, SequenceTheorems, TLAPS

Obj ==
  [class: StubClasses \cup {"String", "byte[]"}, storage: Storages, text: Contents,
   version: Contents \cup {None}, refs: Seq(Nat)]

Typed ==
  /\ vmApk \in Apks \cup {None} /\ apk \in seen \cup {None} /\ seen \subseteq Apks
  /\ store \in Seq(Obj)
  /\ singletons \in Seq([manager: Nat, info: Nat, assets: Nat])
  /\ handlers \in [ContextClasses -> [ContextMethods -> {Python} \cup Nat]]

(* A PackageInfo names signatures that no constructor will write again.    *)
Settled(o) == store[o].storage = "bytes"

SoundObject(o) ==
  /\ \A i \in DOMAIN store[o].refs : store[o].refs[i] \in DOMAIN store
  /\ store[o].class = "PackageInfo" =>
       /\ \A i \in DOMAIN store[o].refs : Settled(store[o].refs[i])
       /\ \E a \in seen \cup {None} : Pictures(o, a)

StoreSound == \A o \in DOMAIN store : SoundObject(o)

ServicesSound ==
  \A n \in DOMAIN services :
    n \in Contents /\ services[n] \in DOMAIN store /\ store[services[n]].class = "Manager"

Is(o, class, storage) ==
  o \in DOMAIN store /\ store[o].class = class /\ store[o].storage = storage

SingletonsSound ==
  \A i \in DOMAIN singletons :
    /\ Is(singletons[i].manager, "PackageManager", "unit")
    /\ Is(singletons[i].info, "ApplicationInfo", "app")
    /\ Is(singletons[i].assets, "AssetManager", "unit")

(* The methods of the contexts belong to the last installation.            *)
HandlersLast ==
  \A c \in ContextClasses, m \in ContextMethods :
    handlers[c][m] \in {0, Python, Len(singletons)}

IInv == Typed /\ StoreSound /\ ServicesSound /\ SingletonsSound /\ HandlersLast

(* What a step does to the objects there are: only a constructor changes   *)
(* one, and only one it has not yet run on.                                *)
Rewritten(o) ==
  /\ store[o].class \in {"Signature", "ArrayList"}
  /\ store[o].storage \in {"unit", "name"}

Keeps ==
  /\ DOMAIN store \subseteq DOMAIN store'
  /\ \A o \in DOMAIN store : store'[o].class = store[o].class
  /\ \A o \in DOMAIN store : ~Rewritten(o) => store'[o] = store[o]

(* The objects a step makes or rewrites are sound.                         *)
NewSound ==
  \A o \in DOMAIN store' : o \notin DOMAIN store \/ store'[o] # store[o] => SoundObject(o)'

(* The initial VM is sound.                                                *)
LEMMA InitSound == Init => IInv
<1> SUFFICES ASSUME Init PROVE IInv
  OBVIOUS
<1>1. Typed
  BY DEF Init, Typed, Python
<1>2. StoreSound /\ SingletonsSound
  BY DEF Init, StoreSound, SingletonsSound
<1>3. ServicesSound
  BY DEF Init, ServicesSound
<1>4. HandlersLast
  BY DEF Init, HandlersLast
<1> QED BY <1>1, <1>2, <1>3, <1>4 DEF IInv

(* Sound objects stay sound: what a PackageInfo names is not rewritten.    *)
LEMMA StoreKept ==
  ASSUME IInv, Typed', Keeps, NewSound, seen \subseteq seen'
  PROVE  StoreSound'
<1> SUFFICES ASSUME NEW o \in DOMAIN store', o \in DOMAIN store, store'[o] = store[o]
             PROVE  SoundObject(o)'
  BY DEF StoreSound, NewSound
<1>1. SoundObject(o)
  BY DEF IInv, StoreSound
<1>2. \A i \in DOMAIN store'[o].refs : store'[o].refs[i] \in DOMAIN store'
  BY <1>1 DEF SoundObject, Keeps
<1>3. ASSUME store[o].class = "PackageInfo"
      PROVE  /\ \A i \in DOMAIN store'[o].refs : Settled(store[o].refs[i])'
             /\ \E a \in (seen \cup {None})' : Pictures(o, a)'
  <2>1. \A i \in DOMAIN store[o].refs :
          store[o].refs[i] \in DOMAIN store /\ Settled(store[o].refs[i])
    BY <1>1, <1>3 DEF SoundObject
  <2>2. \A i \in DOMAIN store[o].refs : store'[store[o].refs[i]] = store[store[o].refs[i]]
    BY <2>1 DEF Settled, Keeps, Rewritten
  <2>3. PICK a \in seen \cup {None} : Pictures(o, a)
    BY <1>1, <1>3 DEF SoundObject
  <2>4. [i \in DOMAIN store'[o].refs |-> store'[store'[o].refs[i]].text]
          = [i \in DOMAIN store[o].refs |-> store[store[o].refs[i]].text]
    BY <2>2
  <2>5. Pictures(o, a)'
    BY <2>3, <2>4 DEF Pictures, NameIn
  <2>6. \A i \in DOMAIN store'[o].refs : Settled(store[o].refs[i])'
    BY <2>1, <2>2 DEF Settled
  <2>7. a \in (seen \cup {None})'
    OBVIOUS
  <2> QED BY <2>5, <2>6, <2>7
<1> QED BY <1>2, <1>3 DEF SoundObject

(* A manager stays one, and the names stay.                                *)
LEMMA ServicesKept ==
  ASSUME IInv, Keeps, UNCHANGED services
  PROVE  ServicesSound'
BY DEF IInv, ServicesSound, Keeps

(* A singleton is of no class a constructor of the model rewrites.         *)
LEMMA SingletonKept ==
  ASSUME Keeps, NEW o, NEW class \in {"PackageManager", "ApplicationInfo", "AssetManager"},
         NEW storage, Is(o, class, storage)
  PROVE  Is(o, class, storage)'
<1>1. ~Rewritten(o)
  BY DEF Is, Rewritten
<1> QED BY <1>1 DEF Is, Keeps

(* So the singletons of every installation stay.                           *)
LEMMA SingletonsKept ==
  ASSUME IInv, Keeps, UNCHANGED singletons
  PROVE  SingletonsSound'
<1> SUFFICES ASSUME NEW i \in DOMAIN singletons
             PROVE  /\ Is(singletons[i].manager, "PackageManager", "unit")'
                    /\ Is(singletons[i].info, "ApplicationInfo", "app")'
                    /\ Is(singletons[i].assets, "AssetManager", "unit")'
  BY DEF SingletonsSound
<1>1. /\ Is(singletons[i].manager, "PackageManager", "unit")
      /\ Is(singletons[i].info, "ApplicationInfo", "app")
      /\ Is(singletons[i].assets, "AssetManager", "unit")
  BY DEF IInv, SingletonsSound
<1>2. /\ Is(singletons[i].manager, "PackageManager", "unit")'
      /\ Is(singletons[i].info, "ApplicationInfo", "app")'
      /\ Is(singletons[i].assets, "AssetManager", "unit")'
  BY <1>1, SingletonKept
<1> QED BY <1>2

(* The methods of the contexts, when nothing touches them.                 *)
LEMMA HandlersKept ==
  ASSUME IInv, UNCHANGED <<handlers, singletons>>
  PROVE  HandlersLast'
BY DEF IInv, HandlersLast

(* A step on the store alone.                                              *)
LEMMA StoreStep ==
  ASSUME IInv, store' \in Seq(Obj), Keeps, NewSound,
         UNCHANGED <<vmApk, apk, seen, services, singletons, handlers>>
  PROVE  IInv'
<1>1. Typed'
  BY DEF IInv, Typed
<1> QED
  BY <1>1, StoreKept, ServicesKept, SingletonsKept, HandlersKept DEF IInv

(* What stands where in a concatenation.                                   *)
LEMMA Joined ==
  ASSUME NEW S, NEW s \in Seq(S), NEW t \in Seq(S)
  PROVE  /\ s \o t \in Seq(S) /\ Len(s \o t) = Len(s) + Len(t)
         /\ \A i \in 1..Len(s) : (s \o t)[i] = s[i]
         /\ \A i \in 1..Len(t) : (s \o t)[Len(s) + i] = t[i]
OBVIOUS

(* Objects put behind the others: those there are stay.                    *)
LEMMA Appended ==
  ASSUME IInv, NEW new \in Seq(Obj), store' = store \o new
  PROVE  /\ store' \in Seq(Obj) /\ Keeps
         /\ Len(store') = Len(store) + Len(new)
         /\ DOMAIN store' = 1..Len(store) + Len(new)
         /\ \A i \in 1..Len(new) : store'[Len(store) + i] = new[i]
         /\ \A o \in DOMAIN store : store'[o] = store[o]
         /\ \A o \in DOMAIN store' \ DOMAIN store : \E i \in 1..Len(new) : o = Len(store) + i
<1>1. store \in Seq(Obj)
  BY DEF IInv, Typed
<1>2. store' \in Seq(Obj) /\ Len(store') = Len(store) + Len(new)
  BY <1>1
<1>3. \A o \in DOMAIN store : store'[o] = store[o]
  BY <1>1
<1>4. \A i \in 1..Len(new) : store'[Len(store) + i] = new[i]
  BY <1>1
<1>5. \A o \in DOMAIN store' \ DOMAIN store : \E i \in 1..Len(new) : o = Len(store) + i
  <2> SUFFICES ASSUME NEW o \in DOMAIN store' \ DOMAIN store
               PROVE  o - Len(store) \in 1..Len(new) /\ o = Len(store) + (o - Len(store))
    OBVIOUS
  <2> QED BY <1>1, <1>2
<1>6. Keeps
  BY <1>1, <1>2, <1>3 DEF Keeps
<1> QED BY <1>1, <1>2, <1>3, <1>4, <1>5, <1>6

(* An object without references and of another class than PackageInfo is   *)
(* sound wherever it lies.                                                 *)
LEMMA PlainSound ==
  ASSUME NEW o, store'[o].refs = <<>>, store'[o].class # "PackageInfo"
  PROVE  SoundObject(o)'
BY DEF SoundObject

(* Objects that are no pictures of anything.                               *)
Plain(object) == object \in Obj /\ object.refs = <<>> /\ object.class # "PackageInfo"

(* Interning one plain object.                                             *)
LEMMA InternKeeps ==
  ASSUME IInv, NEW object, Plain(object), Intern(object),
         UNCHANGED <<vmApk, apk, seen, services, singletons, handlers>>
  PROVE  IInv'
<1>1. store' = store \o <<object>>
  BY DEF Intern, IInv, Typed
<1>2. <<object>> \in Seq(Obj) /\ Len(<<object>>) = 1 /\ <<object>>[1] = object
  BY DEF Plain
<1> DEFINE new == <<object>>
<1> HIDE DEF new
<1>3. /\ store' \in Seq(Obj) /\ Keeps
      /\ \A i \in 1..1 : store'[Len(store) + i] = new[i]
      /\ \A o \in DOMAIN store : store'[o] = store[o]
      /\ \A o \in DOMAIN store' \ DOMAIN store : \E i \in 1..1 : o = Len(store) + i
  <2>1. new \in Seq(Obj) /\ Len(new) = 1 /\ store' = store \o new
    BY <1>1, <1>2 DEF new
  <2> QED BY <2>1, Appended
<1>5. \A o \in DOMAIN store' \ DOMAIN store : store'[o] = object
  BY <1>2, <1>3 DEF new
<1>4. NewSound
  BY <1>3, <1>5, PlainSound DEF NewSound, Plain
<1> QED BY <1>3, <1>4, StoreStep

(* What the handlers and the guest intern.                                 *)
(* An object of any class but PackageInfo, without version and references. *)
LEMMA ObjectTyped ==
  ASSUME NEW class \in StubClasses \cup {"String", "byte[]"}, NEW storage \in Storages,
         NEW text \in Contents, class # "PackageInfo"
  PROVE  Plain(Object(class, storage, text, None, <<>>))
<1>1. <<>> \in Seq(Nat)
  OBVIOUS
<1> QED BY <1>1 DEF Plain, Object, Obj

(* Those that carry a text.                                                *)
LEMMA PlainObjects ==
  ASSUME NEW c \in Contents
  PROVE  \A object \in {Text(c), ByteArray(c), NewSignature(c), ApplicationInfo(c)} :
           Plain(object)
<1>1. Plain(Text(c))
  BY ObjectTyped DEF Text, Storages
<1>2. Plain(ByteArray(c))
  BY ObjectTyped DEF ByteArray, Storages
<1>3. Plain(NewSignature(c))
  BY ObjectTyped DEF NewSignature, Storages, StubTypes, StubClasses
<1>4. Plain(ApplicationInfo(c))
  BY ObjectTyped DEF ApplicationInfo, Storages, StubTypes, StubClasses
<1> QED BY <1>1, <1>2, <1>3, <1>4

(* Those that carry nothing.                                               *)
LEMMA EmptyObjects ==
  ASSUME NEW class \in {"Manager", "PackageManager", "AssetManager", "Signature", "ArrayList"}
  PROVE  \A object \in {Unit(class), NewObject(class)} : Plain(object)
<1>1. Plain(Unit(class))
  BY ObjectTyped, FrameworkAssumption DEF Unit, Storages, StubTypes, StubClasses
<1>2. Plain(NewObject(class))
  BY ObjectTyped, FrameworkAssumption DEF NewObject, Storages, StubTypes, StubClasses
<1> QED BY <1>1, <1>2

(* The package name is a text.                                             *)
LEMMA NameTyped ==
  ASSUME NEW a \in Apks \cup {None}
  PROVE  NameIn(a) \in Contents
BY FrameworkAssumption DEF NameIn, ApkContexts

(* An object the guest or the harness brings.                              *)
LEMMA BringKeeps ==
  ASSUME IInv, NEW object \in GuestObjects, Bring(object)
  PROVE  IInv'
<1>1. Plain(object)
  <2>1. Brought \subseteq Contents
    BY FrameworkAssumption
  <2> QED BY <2>1, PlainObjects, EmptyObjects DEF GuestObjects
<1> QED BY <1>1, InternKeeps DEF Bring

(* getPackageName.                                                         *)
LEMMA GetPackageNameKeeps ==
  ASSUME IInv, NEW c \in ContextClasses, GetPackageName(c)
  PROVE  IInv'
<1>1. NameIn(apk) \in Contents
  BY NameTyped DEF IInv, Typed
<1> QED BY <1>1, PlainObjects, InternKeeps DEF GetPackageName

(* The getters.                                                            *)
LEMMA GetKeeps ==
  ASSUME IInv, NEW o \in DOMAIN store, Get(o)
  PROVE  IInv'
<1>1. store[o] \in Obj
  BY DEF IInv, Typed
<1>2. store[o].text \in Contents /\ store[o].version \in Contents \cup {None}
  BY <1>1 DEF Obj
<1>3. PICK copy \in Copies(o) : Intern(copy)
  BY DEF Get
<1>4. \E c \in Contents : copy = Text(c) \/ copy = ByteArray(c)
  BY <1>2 DEF Copies, InfoStrings, ApplicationName, ToByteArray, GetBytes
<1> QED BY <1>3, <1>4, PlainObjects, InternKeeps DEF Get

(* The constructors: Rewritten, and nothing else.                          *)
LEMMA ConstructKeeps ==
  ASSUME IInv, NEW class \in {"Signature", "ArrayList"}, NEW o \in Raw(class),
         NEW object, Plain(object), object.class = class,
         Construct(o, object)
  PROVE  IInv'
<1>1. o \in DOMAIN store /\ Rewritten(o) /\ store[o].class = class
  BY DEF Raw, Objects, Rewritten
<1>2. store \in Seq(Obj)
  BY DEF IInv, Typed
<1>3. store' = [store EXCEPT ![o] = object]
  BY DEF Construct
<1>4. /\ store' \in Seq(Obj) /\ DOMAIN store' = DOMAIN store /\ store'[o] = object
      /\ \A p \in DOMAIN store : p # o => store'[p] = store[p]
  BY <1>1, <1>2, <1>3 DEF Plain
<1>5. Keeps
  BY <1>1, <1>4 DEF Keeps
<1>6. NewSound
  BY <1>1, <1>4, PlainSound DEF NewSound, Plain
<1> QED BY <1>4, <1>5, <1>6, StoreStep DEF Construct

(* Both constructors write a plain object of the class.                    *)
LEMMA ConstructorsKeep ==
  ASSUME IInv
  PROVE  /\ \A o \in Raw("Signature") : \A arg \in Objects("byte[]") \cup {None} :
              ConstructSignature(o, arg) => IInv'
         /\ \A o \in Raw("ArrayList") : ConstructList(o) => IInv'
<1>1. ASSUME NEW o \in Raw("Signature"), NEW arg \in Objects("byte[]") \cup {None},
             ConstructSignature(o, arg)
      PROVE  IInv'
  <2> DEFINE bytes == IF arg = None THEN Empty ELSE store[arg].text
  <2>1. bytes \in Contents
    <3>1. ASSUME arg # None PROVE store[arg] \in Obj
      BY <3>1 DEF Objects, IInv, Typed
    <3> QED BY <3>1, FrameworkAssumption DEF Obj
  <2>2. NewSignature(bytes).class = "Signature"
    BY DEF NewSignature, Object
  <2>3. Construct(o, NewSignature(bytes))
    BY <1>1 DEF ConstructSignature
  <2> HIDE DEF bytes
  <2> QED BY <2>1, <2>2, <2>3, PlainObjects, ConstructKeeps
<1>2. ASSUME NEW o \in Raw("ArrayList"), ConstructList(o)
      PROVE  IInv'
  <2> DEFINE list == Object("ArrayList", "list", Empty, None, <<>>)
  <2>1. list.class = "ArrayList"
    BY DEF Object
  <2>3. Plain(list)
    BY ObjectTyped, FrameworkAssumption DEF Storages, StubTypes, StubClasses
  <2>2. Construct(o, list)
    BY <1>2 DEF ConstructList
  <2> HIDE DEF list
  <2> QED BY <2>1, <2>2, <2>3, ConstructKeeps
<1> QED BY <1>1, <1>2

(* Replacing the APK: pictures of earlier ones stay, as seen keeps them.   *)
LEMMA SetApkKeeps ==
  ASSUME IInv, NEW a \in Apks, SetApk(a)
  PROVE  IInv'
<1>1. Typed' /\ seen \subseteq seen'
  BY DEF IInv, Typed, SetApk
<1>2. Keeps /\ NewSound
  BY DEF Keeps, NewSound, SetApk
<1> QED
  BY <1>1, <1>2, StoreKept, ServicesKept, SingletonsKept, HandlersKept DEF IInv, SetApk

(* A manager put under a name.                                             *)
LEMMA RegisterServiceKeeps ==
  ASSUME IInv, NEW n \in Brought, NEW o \in Objects("Manager"), RegisterService(n, o)
  PROVE  IInv'
<1>1. Typed' /\ seen \subseteq seen'
  BY DEF IInv, Typed, RegisterService
<1>2. Keeps /\ NewSound
  BY DEF Keeps, NewSound, RegisterService
<1>3. ServicesSound'
  BY FrameworkAssumption DEF IInv, ServicesSound, RegisterService, Objects
<1> QED
  BY <1>1, <1>2, <1>3, StoreKept, SingletonsKept, HandlersKept DEF IInv, RegisterService

(* A Python method takes the place of a handler of the installation.       *)
LEMMA RegisterPythonKeeps ==
  ASSUME IInv, NEW c, NEW m, RegisterPython(c, m)
  PROVE  IInv'
<1>1. handlers' = [d \in ContextClasses |->
                    [k \in ContextMethods |-> IF <<d, k>> \in {<<c, m>>} THEN Python
                                              ELSE handlers[d][k]]]
  BY DEF RegisterPython, Merged
<1>2. handlers' \in [ContextClasses -> [ContextMethods -> {Python} \cup Nat]]
  BY <1>1 DEF IInv, Typed
<1>3. Typed' /\ seen \subseteq seen'
  BY <1>2 DEF IInv, Typed, RegisterPython
<1>4. Keeps /\ NewSound
  BY DEF Keeps, NewSound, RegisterPython
<1>5. HandlersLast'
  <2> SUFFICES ASSUME NEW d \in ContextClasses, NEW k \in ContextMethods
               PROVE  handlers'[d][k] \in {0, Python, Len(singletons')}
    BY DEF HandlersLast
  <2>1. handlers'[d][k] = Python \/ handlers'[d][k] = handlers[d][k]
    BY <1>1
  <2>2. handlers[d][k] \in {0, Python, Len(singletons)} /\ singletons' = singletons
    BY DEF IInv, HandlersLast, RegisterPython
  <2> QED BY <2>1, <2>2
<1> QED
  BY <1>3, <1>4, <1>5, StoreKept, ServicesKept, SingletonsKept DEF IInv, RegisterPython

(* Installing: managers, then the three singletons, behind what is there;  *)
(* every method of every context is the new installation's.                *)
LEMMA InstallKeeps ==
  ASSUME IInv, Install
  PROVE  IInv'
<1> DEFINE made == ServiceObjects \o SingletonObjects(SyncedApk)
<1> DEFINE base == Len(store) + Len(Services)
<1>1. SyncedApk \in Apks \cup {None}
  BY DEF IInv, Typed, SyncedApk
<1>2. Plain(Unit("Manager")) /\ Plain(Unit("PackageManager")) /\ Plain(Unit("AssetManager"))
  BY EmptyObjects
<1>3. Plain(ApplicationInfo(NameIn(SyncedApk)))
  BY <1>1, NameTyped, PlainObjects
<1>4. /\ ServiceObjects \in Seq(Obj) /\ Len(ServiceObjects) = Len(Services)
      /\ \A i \in 1..Len(Services) : ServiceObjects[i] = Unit("Manager")
  <2>1. Services \in Seq(Contents)
    BY FrameworkAssumption
  <2> QED BY <1>2, <2>1 DEF ServiceObjects, Plain
<1>5. /\ SingletonObjects(SyncedApk) \in Seq(Obj) /\ Len(SingletonObjects(SyncedApk)) = 3
      /\ SingletonObjects(SyncedApk)[1] = Unit("PackageManager")
      /\ SingletonObjects(SyncedApk)[2] = ApplicationInfo(NameIn(SyncedApk))
      /\ SingletonObjects(SyncedApk)[3] = Unit("AssetManager")
  BY <1>2, <1>3 DEF SingletonObjects, Plain
<1>6. /\ made \in Seq(Obj) /\ Len(made) = Len(Services) + 3
      /\ \A i \in 1..Len(Services) : made[i] = Unit("Manager")
      /\ made[Len(Services) + 1] = Unit("PackageManager")
      /\ made[Len(Services) + 2] = ApplicationInfo(NameIn(SyncedApk))
      /\ made[Len(Services) + 3] = Unit("AssetManager")
  <2> DEFINE single == SingletonObjects(SyncedApk)
  <2>1. Len(Services) \in Nat
    BY FrameworkAssumption
  <2> HIDE DEF single
  <2>2. made = ServiceObjects \o single /\ single \in Seq(Obj) /\ Len(single) = 3
    BY <1>5 DEF single
  <2>3. /\ made \in Seq(Obj) /\ Len(made) = Len(Services) + 3
        /\ \A i \in 1..Len(Services) : made[i] = ServiceObjects[i]
        /\ \A i \in 1..3 : made[Len(Services) + i] = single[i]
    <3> HIDE DEF made
    <3>1. ServiceObjects \in Seq(Obj) /\ single \in Seq(Obj)
      BY <1>4, <2>2
    <3>2. /\ ServiceObjects \o single \in Seq(Obj)
          /\ Len(ServiceObjects \o single) = Len(ServiceObjects) + Len(single)
          /\ \A i \in 1..Len(ServiceObjects) : (ServiceObjects \o single)[i] = ServiceObjects[i]
          /\ \A i \in 1..Len(single) :
               (ServiceObjects \o single)[Len(ServiceObjects) + i] = single[i]
      BY <3>1, Joined
    <3> QED BY <1>4, <2>2, <3>2
  <2> QED BY <1>4, <1>5, <2>3 DEF single
<1> HIDE DEF made
<1>7. store' = store \o made
  <2>1. store' = (store \o ServiceObjects) \o SingletonObjects(SyncedApk)
    BY DEF Install
  <2>2. store \in Seq(Obj)
    BY DEF IInv, Typed
  <2>3. ServiceObjects \in Seq(Obj) /\ SingletonObjects(SyncedApk) \in Seq(Obj)
    BY <1>4, <1>5
  <2>4. (store \o ServiceObjects) \o SingletonObjects(SyncedApk)
          = store \o (ServiceObjects \o SingletonObjects(SyncedApk))
    BY <2>2, <2>3, ConcatAssociative
  <2> QED BY <2>1, <2>4 DEF made
<1>8. /\ store' \in Seq(Obj) /\ Keeps
      /\ DOMAIN store' = 1..Len(store) + Len(made)
      /\ \A i \in 1..Len(made) : store'[Len(store) + i] = made[i]
      /\ \A o \in DOMAIN store : store'[o] = store[o]
      /\ \A o \in DOMAIN store' \ DOMAIN store : \E i \in 1..Len(made) : o = Len(store) + i
  BY <1>6, <1>7, Appended
<1>9. \A i \in 1..Len(made) : Plain(made[i])
  <2> SUFFICES ASSUME NEW i \in 1..Len(made) PROVE Plain(made[i])
    OBVIOUS
  <2>1. Len(Services) \in Nat
    BY FrameworkAssumption
  <2>2. \/ i \in 1..Len(Services) \/ i = Len(Services) + 1
        \/ i = Len(Services) + 2 \/ i = Len(Services) + 3
    BY <1>6, <2>1
  <2> QED BY <1>2, <1>3, <1>6, <2>2
<1>10. NewSound
  BY <1>8, <1>9, PlainSound DEF NewSound, Plain
<1>11. /\ Len(store) \in Nat /\ Len(Services) \in Nat /\ base = Len(store) + Len(Services)
       /\ singletons' = Append(singletons, SingletonsFrom(base))
       /\ handlers' = [c \in ContextClasses |-> [m \in ContextMethods |-> Len(singletons) + 1]]
  <2>1. handlers' = [c \in ContextClasses |->
                      [m \in ContextMethods |-> IF <<c, m>> \in ContextClasses \X ContextMethods
                                                THEN Len(singletons) + 1 ELSE handlers[c][m]]]
    BY DEF Install, Merged, Catalog
  <2>2. handlers' = [c \in ContextClasses |-> [m \in ContextMethods |-> Len(singletons) + 1]]
    BY <2>1
  <2>3. Len(store) \in Nat /\ Len(Services) \in Nat
    BY FrameworkAssumption DEF IInv, Typed
  <2>4. singletons' = Append(singletons, SingletonsFrom(base))
    BY DEF Install, base
  <2> QED BY <2>2, <2>3, <2>4
<1> HIDE DEF base
<1>12. Typed' /\ seen \subseteq seen'
  <2>1. SingletonsFrom(base) \in [manager: Nat, info: Nat, assets: Nat]
    BY <1>11 DEF SingletonsFrom
  <2>2. singletons \in Seq([manager: Nat, info: Nat, assets: Nat])
    BY DEF IInv, Typed
  <2>3. singletons' \in Seq([manager: Nat, info: Nat, assets: Nat])
    BY <1>11, <2>1, <2>2
  <2>4. handlers' \in [ContextClasses -> [ContextMethods -> {Python} \cup Nat]]
    BY <1>11, <2>2
  <2>5. /\ vmApk' \in Apks \cup {None} /\ apk' \in seen' \cup {None}
        /\ seen' \subseteq Apks /\ seen \subseteq seen'
    BY <1>1 DEF IInv, Typed, Install
  <2> QED BY <1>8, <2>3, <2>4, <2>5 DEF Typed
<1>13. HandlersLast'
  <2>1. Len(singletons') = Len(singletons) + 1
    BY <1>11 DEF IInv, Typed
  <2> QED BY <1>11, <2>1 DEF HandlersLast
<1>14. /\ base + 1 \in DOMAIN store' /\ store'[base + 1].class = "PackageManager"
       /\ store'[base + 1].storage = "unit"
       /\ base + 2 \in DOMAIN store' /\ store'[base + 2].class = "ApplicationInfo"
       /\ store'[base + 2].storage = "app"
       /\ base + 3 \in DOMAIN store' /\ store'[base + 3].class = "AssetManager"
       /\ store'[base + 3].storage = "unit"
  <2>1. /\ base + 1 \in DOMAIN store' /\ store'[base + 1] = made[Len(Services) + 1]
        /\ base + 2 \in DOMAIN store' /\ store'[base + 2] = made[Len(Services) + 2]
        /\ base + 3 \in DOMAIN store' /\ store'[base + 3] = made[Len(Services) + 3]
    BY <1>6, <1>8, <1>11
  <2>2. /\ made[Len(Services) + 1].class = "PackageManager"
        /\ made[Len(Services) + 1].storage = "unit"
        /\ made[Len(Services) + 2].class = "ApplicationInfo"
        /\ made[Len(Services) + 2].storage = "app"
        /\ made[Len(Services) + 3].class = "AssetManager"
        /\ made[Len(Services) + 3].storage = "unit"
    BY <1>6 DEF Unit, ApplicationInfo, Object
  <2> QED BY <2>1, <2>2
<1>15. SingletonsSound'
  <2> SUFFICES ASSUME NEW i \in DOMAIN singletons'
               PROVE  /\ Is(singletons[i].manager, "PackageManager", "unit")'
                      /\ Is(singletons[i].info, "ApplicationInfo", "app")'
                      /\ Is(singletons[i].assets, "AssetManager", "unit")'
    BY DEF SingletonsSound
  <2>1. singletons \in Seq([manager: Nat, info: Nat, assets: Nat])
    BY DEF IInv, Typed
  <2>2. CASE i \in DOMAIN singletons
    <3>1. singletons'[i] = singletons[i]
      BY <1>11, <2>1, <2>2
    <3>2. /\ Is(singletons[i].manager, "PackageManager", "unit")
          /\ Is(singletons[i].info, "ApplicationInfo", "app")
          /\ Is(singletons[i].assets, "AssetManager", "unit")
      BY <2>2 DEF IInv, SingletonsSound
    <3>3. ASSUME NEW o, NEW class \in {"PackageManager", "ApplicationInfo", "AssetManager"},
                 NEW storage, Is(o, class, storage)
          PROVE  o \in DOMAIN store' /\ store'[o].class = class /\ store'[o].storage = storage
      BY <1>8, <3>3, SingletonKept DEF Is
    <3> QED BY <3>1, <3>2, <3>3 DEF Is
  <2>3. CASE i \notin DOMAIN singletons
    <3> DEFINE fresh == SingletonsFrom(base)
    <3>1. /\ fresh.manager = base + 1 /\ fresh.info = base + 2 /\ fresh.assets = base + 3
          /\ fresh \in [manager: Nat, info: Nat, assets: Nat]
      BY <1>11 DEF SingletonsFrom
    <3> HIDE DEF fresh
    <3>2. singletons' = Append(singletons, fresh)
      BY <1>11 DEF fresh
    <3>3. singletons'[i] = fresh
      BY <2>1, <2>3, <3>1, <3>2
    <3>4. /\ singletons'[i].manager = base + 1 /\ singletons'[i].info = base + 2
          /\ singletons'[i].assets = base + 3
      BY <3>1, <3>3
    <3> QED BY <1>14, <3>4 DEF Is
  <2> QED BY <2>2, <2>3
<1>16. ServicesSound'
  <2> SUFFICES ASSUME NEW n \in DOMAIN services'
               PROVE  /\ n \in Contents /\ services'[n] \in DOMAIN store'
                      /\ store'[services'[n]].class = "Manager"
    BY DEF ServicesSound
  <2>1. services' = [k \in DOMAIN services \cup {Services[i] : i \in DOMAIN Services} |->
                      IF \E i \in DOMAIN Services : Services[i] = k
                      THEN Len(store) + (CHOOSE i \in DOMAIN Services : Services[i] = k)
                      ELSE services[k]]
    BY DEF Install, DefaultServices
  <2>2. CASE \E i \in DOMAIN Services : Services[i] = n
    <3>1. PICK i \in DOMAIN Services : services'[n] = Len(store) + i /\ n = Services[i]
      BY <2>1, <2>2
    <3>2. i \in 1..Len(Services) /\ n \in Contents
      BY <3>1, FrameworkAssumption
    <3>3. store'[services'[n]] = Unit("Manager") /\ services'[n] \in DOMAIN store'
      BY <1>6, <1>8, <1>11, <3>1, <3>2
    <3> QED BY <3>2, <3>3 DEF Unit, Object
  <2>3. CASE ~ \E i \in DOMAIN Services : Services[i] = n
    <3>1. n \in DOMAIN services /\ services'[n] = services[n]
      BY <2>1, <2>3
    <3> QED BY <1>8, <3>1 DEF Keeps, IInv, ServicesSound
  <2> QED BY <2>2, <2>3
<1> QED
  BY <1>8, <1>10, <1>12, <1>13, <1>15, <1>16, StoreKept DEF IInv

(* getPackageInfo: the signatures, then the object that names them.        *)
LEMMA GetPackageInfoKeeps ==
  ASSUME IInv, GetPackageInfo
  PROVE  IInv'
<1> DEFINE sigs == SignatureObjects(apk)
<1> DEFINE refs == [i \in DOMAIN sigs |-> Len(store) + i]
<1> DEFINE info == InfoOf(apk, refs)
<1> DEFINE last == <<info>>
<1> DEFINE made == sigs \o last
<1>1. apk \in Apks \cup {None} /\ store \in Seq(Obj) /\ Len(store) \in Nat
  BY DEF IInv, Typed
<1>2. NameIn(apk) \in Contents /\ (apk # None => apk.version \in Contents \cup {None}
                                               /\ apk.sigs \in Seq(Contents))
  BY <1>1, NameTyped, FrameworkAssumption DEF ApkContexts
<1>3. /\ sigs \in Seq(Obj)
      /\ \A i \in DOMAIN sigs : /\ Plain(sigs[i]) /\ sigs[i].storage = "bytes"
                                 /\ sigs[i].text = apk.sigs[i]
      /\ apk = None => sigs = <<>>
      /\ apk # None => DOMAIN sigs = DOMAIN apk.sigs
  <2>1. CASE apk = None
    BY <2>1 DEF SignatureObjects
  <2>2. CASE apk # None
    <3>1. /\ sigs = [i \in 1..Len(apk.sigs) |-> NewSignature(apk.sigs[i])]
          /\ apk.sigs \in Seq(Contents) /\ Len(apk.sigs) \in Nat
          /\ DOMAIN apk.sigs = 1..Len(apk.sigs)
      BY <1>2, <2>2 DEF SignatureObjects
    <3>2. \A i \in 1..Len(apk.sigs) : Plain(NewSignature(apk.sigs[i]))
      BY <3>1, PlainObjects
    <3>3. \A i \in 1..Len(apk.sigs) : NewSignature(apk.sigs[i]) \in Obj
      BY <3>2 DEF Plain
    <3>4. sigs \in Seq(Obj) /\ DOMAIN sigs = 1..Len(apk.sigs)
      BY <3>1, <3>3
    <3>5. \A i \in 1..Len(apk.sigs) : /\ NewSignature(apk.sigs[i]).storage = "bytes"
                                      /\ NewSignature(apk.sigs[i]).text = apk.sigs[i]
      BY DEF NewSignature, Object
    <3> QED BY <2>2, <3>1, <3>2, <3>4, <3>5
  <2> QED BY <2>1, <2>2
<1> HIDE DEF sigs
<1>4. /\ refs \in Seq(Nat) /\ DOMAIN refs = DOMAIN sigs /\ DOMAIN sigs = 1..Len(sigs)
      /\ Len(sigs) \in Nat /\ \A i \in DOMAIN refs : refs[i] = Len(store) + i
  <2>1. DOMAIN sigs = 1..Len(sigs) /\ Len(sigs) \in Nat
    BY <1>3
  <2> QED BY <1>1, <2>1
<1> HIDE DEF refs
<1>5. /\ info \in Obj /\ info.refs = refs /\ info.class = "PackageInfo"
      /\ info.text = NameIn(apk)
      /\ info.version = IF apk = None THEN None ELSE apk.version
  BY <1>2, <1>4 DEF InfoOf, PackageInfo, Object, Obj, Storages, StubTypes, StubClasses
<1> HIDE DEF info
<1>6. last \in Seq(Obj) /\ Len(last) = 1 /\ last[1] = info
  BY <1>5
<1> HIDE DEF last
<1>7. /\ made \in Seq(Obj) /\ Len(made) = Len(sigs) + 1
      /\ \A i \in 1..Len(sigs) : made[i] = sigs[i]
      /\ made[Len(sigs) + 1] = info
  <2>1. sigs \in Seq(Obj) /\ Len(sigs) \in Nat
    BY <1>3, <1>4
  <2>2. made \in Seq(Obj) /\ Len(made) = Len(sigs) + 1
    BY <1>6, <2>1, Joined
  <2>3. \A i \in 1..Len(sigs) : made[i] = sigs[i]
    BY <1>6, <2>1, Joined
  <2>4. \A i \in 1..1 : made[Len(sigs) + i] = last[i]
    <3>1. last \in Seq(Obj) /\ sigs \in Seq(Obj)
      BY <1>6, <2>1
    <3>2. \A i \in 1..Len(last) : (sigs \o last)[Len(sigs) + i] = last[i]
      BY <3>1, Joined
    <3> QED BY <1>6, <3>2 DEF made
  <2> QED BY <1>6, <2>2, <2>3, <2>4
<1> HIDE DEF made
<1>8. store' = store \o made
  BY <1>1, <1>3, <1>6 DEF GetPackageInfo, made, sigs, refs, info, last
<1>9. /\ store' \in Seq(Obj) /\ Keeps
      /\ DOMAIN store' = 1..Len(store) + Len(made)
      /\ \A i \in 1..Len(made) : store'[Len(store) + i] = made[i]
      /\ \A o \in DOMAIN store : store'[o] = store[o]
      /\ \A o \in DOMAIN store' \ DOMAIN store : \E i \in 1..Len(made) : o = Len(store) + i
  BY <1>7, <1>8, Appended
<1>10. \A i \in DOMAIN refs : refs[i] \in DOMAIN store' /\ store'[refs[i]] = sigs[i]
  BY <1>1, <1>4, <1>7, <1>9
<1>11. ASSUME NEW o \in DOMAIN store', store'[o] = info
       PROVE  SoundObject(o)'
  <2>1. store'[o].refs = refs
    BY <1>5, <1>11
  <2>2. \A i \in DOMAIN refs : refs[i] \in DOMAIN store' /\ store'[refs[i]].storage = "bytes"
    BY <1>3, <1>4, <1>10
  <2>3. apk' = apk /\ NameIn(apk)' = NameIn(apk) /\ seen' = seen
    BY DEF GetPackageInfo, NameIn
  <2>4. apk # None => apk.sigs = [i \in DOMAIN refs |-> store'[refs[i]].text]
    <3> SUFFICES ASSUME apk # None PROVE apk.sigs = [i \in DOMAIN refs |-> store'[refs[i]].text]
      OBVIOUS
    <3>1. apk.sigs \in Seq(Contents) /\ DOMAIN apk.sigs = DOMAIN refs
      BY <1>2, <1>3, <1>4
    <3>2. \A i \in DOMAIN refs : store'[refs[i]].text = apk.sigs[i]
      BY <1>3, <1>4, <1>10
    <3>3. apk.sigs = [i \in DOMAIN refs |-> apk.sigs[i]]
      BY <3>1
    <3> QED BY <3>2, <3>3
  <2>5. Pictures(o, apk)'
    <3>1. store'[o].text = NameIn(apk)'
      BY <1>5, <1>11, <2>3
    <3>2. CASE apk = None
      <4>1. refs = <<>>
        BY <1>3, <1>4, <3>2
      <4>2. store'[o].version = None /\ store'[o].refs = <<>>
        BY <1>5, <1>11, <2>1, <3>2, <4>1
      <4> QED BY <2>3, <3>1, <3>2, <4>2 DEF Pictures
    <3>3. CASE apk # None
      <4>1. store'[o].version = apk.version
        BY <1>5, <1>11, <3>3
      <4>2. apk.sigs = [i \in DOMAIN store'[o].refs |-> store'[store'[o].refs[i]].text]
        BY <2>1, <2>4, <3>3
      <4> QED BY <2>3, <3>1, <3>3, <4>1, <4>2 DEF Pictures
    <3> QED BY <3>2, <3>3
  <2>6. apk' \in (seen \cup {None})'
    BY <2>3 DEF IInv, Typed
  <2> QED BY <1>4, <2>1, <2>2, <2>5, <2>6 DEF SoundObject, Settled
<1>12. ASSUME NEW i \in 1..Len(sigs), NEW o \in DOMAIN store', store'[o] = sigs[i]
       PROVE  SoundObject(o)'
  BY <1>3, <1>4, <1>12, PlainSound DEF Plain
<1>13. NewSound
  <2> SUFFICES ASSUME NEW o \in DOMAIN store', o \notin DOMAIN store PROVE SoundObject(o)'
    BY <1>9 DEF NewSound
  <2>1. PICK i \in 1..Len(made) : o = Len(store) + i
    BY <1>9
  <2>2. store'[o] = made[i] /\ (i \in 1..Len(sigs) \/ i = Len(sigs) + 1)
    BY <1>4, <1>7, <1>9, <2>1
  <2> QED BY <1>7, <1>11, <1>12, <2>2
<1> QED BY <1>9, <1>13, StoreStep DEF GetPackageInfo

(* Every step.                                                             *)
LEMMA StepSound == IInv /\ [Next]_vars => IInv'
<1> SUFFICES ASSUME IInv, [Next]_vars PROVE IInv'
  OBVIOUS
<1>1. ASSUME NEW a \in Apks, SetApk(a) PROVE IInv'
  BY <1>1, SetApkKeeps
<1>2. CASE Install
  BY <1>2, InstallKeeps
<1>3. ASSUME NEW n \in Brought, NEW o \in Objects("Manager"), RegisterService(n, o) PROVE IInv'
  BY <1>3, RegisterServiceKeeps
<1>4. ASSUME NEW w \in Overridden, RegisterPython(w[1], w[2]) PROVE IInv'
  BY <1>4, RegisterPythonKeeps
<1>5. ASSUME NEW object \in GuestObjects, Bring(object) PROVE IInv'
  BY <1>5, BringKeeps
<1>6. CASE Call
  <2>1. ASSUME NEW c \in ContextClasses, GetPackageName(c) PROVE IInv'
    BY <2>1, GetPackageNameKeeps
  <2>2. ASSUME NEW o \in DOMAIN store, Get(o) PROVE IInv'
    BY <2>2, GetKeeps
  <2> QED BY <1>6, <2>1, <2>2, GetPackageInfoKeeps, ConstructorsKeep DEF Call
<1>7. CASE UNCHANGED vars
  <2>1. Typed' /\ Keeps /\ NewSound /\ seen \subseteq seen'
    BY <1>7 DEF vars, IInv, Typed, Keeps, NewSound
  <2> QED
    BY <1>7, <2>1, StoreKept, ServicesKept, SingletonsKept, HandlersKept DEF IInv, vars
<1> QED BY <1>1, <1>2, <1>3, <1>4, <1>5, <1>6, <1>7 DEF Next

(* The invariant holds throughout.                                         *)
THEOREM InvHolds == Spec => []IInv
BY InitSound, StepSound, PTL DEF Spec

(* It gives the types,                                                     *)
LEMMA SoundIsTyped == IInv => TypeOK
<1> SUFFICES ASSUME IInv PROVE TypeOK
  OBVIOUS
<1>1. vmApk \in Apks \cup {None} /\ apk \in Apks \cup {None} /\ seen \subseteq Apks
  BY DEF IInv, Typed
<1>2. ASSUME NEW o \in DOMAIN store PROVE ObjectType(store[o])
  <2>1. store[o] \in Obj
    BY DEF IInv, Typed
  <2>2. SoundObject(o)
    BY DEF IInv, StoreSound
  <2> QED BY <2>1, <2>2 DEF ObjectType, SoundObject, Obj
<1>3. \A n \in DOMAIN services : n \in Contents /\ services[n] \in DOMAIN store
  BY DEF IInv, ServicesSound
<1>4. ASSUME NEW i \in DOMAIN singletons
      PROVE  singletons[i] \in [manager: DOMAIN store, info: DOMAIN store, assets: DOMAIN store]
  <2>1. singletons[i] \in [manager: Nat, info: Nat, assets: Nat]
    <3>1. singletons \in Seq([manager: Nat, info: Nat, assets: Nat])
      BY DEF IInv, Typed
    <3>2. \A S : \A s \in Seq(S) : \A k \in DOMAIN s : s[k] \in S
      OBVIOUS
    <3> QED BY <3>1, <3>2
  <2>2. /\ singletons[i].manager \in DOMAIN store
        /\ singletons[i].info \in DOMAIN store
        /\ singletons[i].assets \in DOMAIN store
    BY DEF IInv, SingletonsSound, Is
  <2> QED BY <2>1, <2>2
<1>5. handlers \in [ContextClasses -> [ContextMethods -> {Python} \cup 0..Len(singletons)]]
  <2>1. Len(singletons) \in Nat
    BY DEF IInv, Typed
  <2>2. \A c \in ContextClasses, m \in ContextMethods :
          handlers[c][m] \in {Python} \cup 0..Len(singletons)
    BY <2>1 DEF IInv, HandlersLast
  <2> QED BY <2>2 DEF IInv, Typed
<1> QED BY <1>1, <1>2, <1>3, <1>4, <1>5 DEF TypeOK

(* the agreement of the contexts,                                          *)
LEMMA SoundAgrees == IInv => ContextsAgree
<1> SUFFICES ASSUME IInv PROVE ContextsAgree
  OBVIOUS
<1>1. Len(singletons) \in Nat /\ DOMAIN singletons = 1..Len(singletons)
  BY DEF IInv, Typed
<1>2. ASSUME NEW c \in ContextClasses, NEW m \in ContextMethods, Builtin(c, m)
      PROVE  handlers[c][m] = Len(singletons) /\ Len(singletons) \in DOMAIN singletons
  BY <1>1, <1>2 DEF IInv, HandlersLast, Builtin, Python
<1>3. ASSUME Len(singletons) \in DOMAIN singletons
      PROVE  LET last == singletons[Len(singletons)] IN
             /\ Is(last.manager, "PackageManager", "unit")
             /\ Is(last.info, "ApplicationInfo", "app")
             /\ Is(last.assets, "AssetManager", "unit")
  BY <1>3 DEF IInv, SingletonsSound
<1>4. ASSUME NEW c \in ContextClasses
      PROVE  /\ Builtin(c, "getPackageManager") =>
                  HandsOut(GetPackageManager(c), "PackageManager", "manager")
             /\ Builtin(c, "getApplicationInfo") =>
                  HandsOut(GetApplicationInfo(c), "ApplicationInfo", "info")
             /\ Builtin(c, "getAssets") => HandsOut(GetAssets(c), "AssetManager", "assets")
  <2>1. ASSUME Builtin(c, "getPackageManager")
        PROVE  HandsOut(GetPackageManager(c), "PackageManager", "manager")
    <3>1. handlers[c]["getPackageManager"] = Len(singletons) /\ Len(singletons) \in DOMAIN singletons
      BY <1>2, <2>1 DEF ContextMethods
    <3> QED BY <1>3, <3>1 DEF HandsOut, GetPackageManager, Singleton, Is, Reads, Expected
  <2>2. ASSUME Builtin(c, "getApplicationInfo")
        PROVE  HandsOut(GetApplicationInfo(c), "ApplicationInfo", "info")
    <3>1. handlers[c]["getApplicationInfo"] = Len(singletons) /\ Len(singletons) \in DOMAIN singletons
      BY <1>2, <2>2 DEF ContextMethods
    <3> QED BY <1>3, <3>1 DEF HandsOut, GetApplicationInfo, Singleton, Is, Reads, Expected
  <2>3. ASSUME Builtin(c, "getAssets")
        PROVE  HandsOut(GetAssets(c), "AssetManager", "assets")
    <3>1. handlers[c]["getAssets"] = Len(singletons) /\ Len(singletons) \in DOMAIN singletons
      BY <1>2, <2>3 DEF ContextMethods
    <3> QED BY <1>3, <3>1 DEF HandsOut, GetAssets, Singleton, Is, Reads, Expected
  <2> QED BY <2>1, <2>2, <2>3
<1>5. \A n \in DOMAIN services : store[GetSystemService(n)].class = "Manager"
  BY DEF GetSystemService, IInv, ServicesSound
<1> QED BY <1>4, <1>5 DEF ContextsAgree

(* and the pictures.                                                       *)
LEMMA SoundPictures == IInv => OneApk
BY DEF IInv, StoreSound, SoundObject, OneApk, Objects

(* Whatever is installed, replaced, overridden, made and called: every     *)
(* variable has its type, every Context class that is not overridden hands *)
(* out the singletons of the last installation, each readable by its own   *)
(* methods, and every service is a manager.                                *)
THEOREM StubsAlwaysAgree == Spec => []StubsAgree
BY InvHolds, SoundIsTyped, SoundAgrees, PTL DEF StubsAgree

(* However often the APK is replaced, before and after, a PackageInfo has  *)
(* the name, the version and the signatures of one APK.                    *)
THEOREM PicturesOneApk == Spec => []OneApk
BY InvHolds, SoundPictures, PTL
=============================================================================
