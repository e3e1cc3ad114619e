---------------------------- MODULE ShimDispatch ---------------------------
(***************************************************************************)
(* Which Python function a Java method of a shim class is: what            *)
(* JavaClass.__init_subclass__ collects over the MRO, and the ways to call *)
(* it: guest code on an instance Python made, guest code on an object      *)
(* NewObject made, call_java_method, and Python itself.  A class is its    *)
(* MRO, nearest layer first, without JavaClass and object; a layer is the  *)
(* sequence of its functions, [py, desc, static], desc being a set: {}     *)
(* without @java_method, else a set of one [name, argc, types].  A         *)
(* function takes as many parameters as its descriptor names.  Nothing     *)
(* changes once a class is there: the class is the input.                  *)
(***************************************************************************)
EXTENDS Naturals, Sequences, Functions

CONSTANTS
  Shims,     (* [mro, fields]: a class, and attributes its instances have   *)
  HostCalls  (* <<name, argc>>: what the host calls                         *)

ASSUME ShimAssumption ==
  /\ \A c \in Shims :
       /\ c.mro \in Seq(Range(c.mro))
       /\ \A k \in DOMAIN c.mro :
            /\ c.mro[k] \in Seq(Range(c.mro[k]))
            /\ \A i \in DOMAIN c.mro[k] : \A d, e \in c.mro[k][i].desc : d = e
  /\ \A call \in HostCalls : call = <<call[1], call[2]>>

VARIABLE shim   (* the class and the fields of its instance                 *)

(* A function is known by its layer and its place in there; the scan meets *)
(* the functions in that order.                                            *)
Scanned == UNION {{k} \X DOMAIN shim.mro[k] : k \in DOMAIN shim.mro}

Fn(p) == shim.mro[p[1]][p[2]]

Sooner(p, q) == p[1] < q[1] \/ (p[1] = q[1] /\ p[2] < q[2])

Foremost(S) == CHOOSE p \in S : \A q \in S : q = p \/ Sooner(p, q)

(* The call of a method no shim overrides.                                 *)
NoOverride == <<0, 0>>

(* Later layers win (mutant).                                              *)
JavaMethodsLastWins ==
  {p \in Scanned : Fn(p).desc # {} /\ \A q \in Scanned : Fn(q).desc = Fn(p).desc => q = p \/ Sooner(q, p)}

(* __java_methods__: a descriptor taken by a nearer function is skipped.   *)
JavaMethods ==
  {p \in Scanned : Fn(p).desc # {} /\ \A q \in Scanned : Fn(q).desc = Fn(p).desc => q = p \/ Sooner(p, q)}

(* __java_dispatch__[name]; static methods are not in it.                  *)
JavaDispatch(name) ==
  {p \in JavaMethods : ~Fn(p).static /\ \E d \in Fn(p).desc : d.name = name}

(* getattr on the class: the nearest function of that Python name.         *)
Bound(py) == Foremost({p \in Scanned : Fn(p).py = py})

(* JavaObject.__getattr__, once the instance itself has no such attribute: *)
(* one entry is taken for any arguments, among several the first with as   *)
(* many parameters.  {} is an AttributeError or a TypeError.               *)
OnInstance(name, argc) ==
  LET entries == JavaDispatch(name)
      fit == {p \in entries : \E d \in Fn(p).desc : d.argc = argc}
  IN  IF name \in shim.fields THEN {}
      ELSE IF \E p \in entries : entries = {p} THEN {Bound(Fn(p).py) : p \in entries}
      ELSE IF fit # {} THEN {Bound(Fn(Foremost(fit)).py)} ELSE {}

(* wrap_python_method: an instance is asked by name, anything else gets    *)
(* the function that was registered.                                       *)
GuestCall(method, onInstance) ==
  IF onInstance /\ ~Fn(method).static
    THEN UNION {OnInstance(d.name, d.argc) : d \in Fn(method).desc}
    ELSE {method}

(* PythonShimAdapter::method_names, filled by register_java_class.         *)
ShimKeys ==
  UNION {{<<d.name, d.argc>> : d \in Fn(p).desc} : p \in {q \in JavaMethods : ~Fn(q).static}}

(* call_java_method: an override if the key is known, the framework's      *)
(* method if not.                                                          *)
HostCall(name, argc) ==
  IF <<name, argc>> \in ShimKeys THEN OnInstance(name, argc) ELSE {NoOverride}

ShimInit == shim \in Shims

ShimSpec == ShimInit /\ [][UNCHANGED shim]_shim
-----------------------------------------------------------------------------
(* What a script must keep to: overloads differ in the number of their     *)
(* parameters, a Python name that a nearer layer uses again declares the   *)
(* same Java method there, and no field has the name of a Java method.     *)
Careful ==
  /\ \A p, q \in Scanned : \A d \in Fn(p).desc, e \in Fn(q).desc :
       ~Fn(p).static /\ ~Fn(q).static /\ d.name = e.name /\ d.argc = e.argc => d = e
  /\ \A p, q \in Scanned :
       ~Fn(p).static /\ Sooner(q, p) /\ Fn(q).py = Fn(p).py => Fn(q).desc = Fn(p).desc
  /\ \A p \in Scanned : ~Fn(p).static => \A d \in Fn(p).desc : d.name \notin shim.fields

(* The nearest function declared for its descriptor.                       *)
IsNearest(p) ==
  Fn(p).desc # {} /\ \A q \in Scanned : Sooner(q, p) => Fn(q).desc # Fn(p).desc

(***************************************************************************)
(* Whoever calls a Java method, guest or host, on an instance or on a bare *)
(* object, reaches one function, and that is the nearest one declared for  *)
(* its descriptor, whatever the Python names in the layers are, in a class *)
(* that is Careful; a method nobody overrides goes to the framework.       *)
(***************************************************************************)
OneFunction ==
  /\ Careful =>
       \A p \in Scanned : IsNearest(p) =>
         /\ \E m \in JavaMethods : Fn(m).desc = Fn(p).desc
         /\ \A m \in JavaMethods : Fn(m).desc = Fn(p).desc =>
              \A onInstance \in BOOLEAN : GuestCall(m, onInstance) = {p}
         /\ ~Fn(p).static => \A d \in Fn(p).desc : HostCall(d.name, d.argc) = {p}
  /\ \A call \in HostCalls :
       (\A p \in Scanned : ~Fn(p).static => \A d \in Fn(p).desc : <<d.name, d.argc>> # call) =>
         HostCall(call[1], call[2]) = {NoOverride}
=============================================================================
