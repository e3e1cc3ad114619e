------------------------------ MODULE JniValues ------------------------------
(***************************************************************************)
(* Values on their way between guest registers, JNI and Python: JValue and *)
(* JType (jni/src/types.rs), JniArgs (args.rs), the registers of the       *)
(* trampoline, and the marshalling of javashim.rs.  A value is a type and  *)
(* what it carries; an object is what the store holds under its id, since  *)
(* no conversion looks at the id (identity is JniHandles' subject).  A     *)
(* float is its bit pattern.  A width is given by its modulus, two to the  *)
(* number of bits, and scaled down for the runs: RegMod is that of a       *)
(* register and a jlong, IntMod that of a jint, and so on.                 *)
(***************************************************************************)
EXTENDS Integers, Sequences

CONSTANTS
  ByteMod, ShortMod, IntMod, RegMod,
  Texts     (* contents of strings and byte strings                         *)

ASSUME WidthsAssumption ==
  /\ ByteMod \in Nat /\ ShortMod \in Nat /\ IntMod \in Nat /\ RegMod \in Nat
  /\ 2 < ByteMod /\ ByteMod < ShortMod /\ ShortMod < IntMod /\ IntMod < RegMod
  /\ \A mod \in {ByteMod, ShortMod, IntMod, RegMod} : mod % 2 = 0 /\ RegMod % mod = 0

Signed(mod) == -(mod \div 2) .. mod \div 2 - 1
Unsigned(mod) == 0 .. mod - 1

JValue(type, value) == <<type, value>>

Type(v) == v[1]      (* of a JValue, and kind of a Python value           *)
Carried(v) == v[2]

Null == JValue("Null", 0)

(* JValue::jtype: null counts as an object.                                *)
TypeOf(v) == IF Type(v) = "Null" THEN "Object" ELSE Type(v)

Numbers ==
  [Boolean |-> {0, 1}, Byte |-> Signed(ByteMod), Char |-> Unsigned(ShortMod),
   Short |-> Signed(ShortMod), Int |-> Signed(IntMod), Long |-> Signed(RegMod),
   Float |-> Unsigned(IntMod), Double |-> Unsigned(RegMod)]

(* What ObjectStore may hold: strings, byte arrays, Python objects, and    *)
(* stubs, other arrays, or nothing (a dangling id).                        *)
StoredValues == {<<"string", t>> : t \in Texts} \cup {<<"bytes", t>> : t \in Texts}
            \cup {<<"python", "object">>, <<"stub", "">>, <<"array", "">>, <<"none", "">>}

(* What a handler can return: a number is one of its type, as in Rust.     *)
JValues ==
  UNION {{Null, JValue("Void", 0)}, {JValue("Object", s) : s \in StoredValues},
         UNION {{JValue(t, n) : n \in Numbers[t]} : t \in DOMAIN Numbers}}
-----------------------------------------------------------------------------
(* Registers.                                                              *)

Word(n) == n % RegMod

JNI_ERR == RegMod - 1

(* A register as a signed number of some width, as the guest reads it.     *)
SignedOf(word, mod) ==
  LET n == word % mod IN IF n < mod \div 2 THEN n ELSE n - mod

(* What a guest finds in x0 when it called a method of that type.          *)
GuestReads(type, word) ==
  CASE type = "Boolean" -> word % ByteMod
    [] type = "Byte" -> SignedOf(word, ByteMod)
    [] type = "Char" -> word % ShortMod
    [] type = "Short" -> SignedOf(word, ShortMod)
    [] type = "Int" -> SignedOf(word, IntMod)
    [] type = "Long" -> SignedOf(word, RegMod)
    [] type = "Float" -> word % IntMod
    [] type = "Double" -> word

(* v as u64, v.to_bits() as u64: signed numbers extend, the others do not. *)
Widen(v) == Word(Carried(v))

(* An int accepted where a long is asked for, and the other way round      *)
(* (mutant of Fits).                                                       *)
FitsWide(type, v) ==
  CASE type = "Void" -> TRUE
    [] type = "Object" -> Type(v) \in {"Object", "Null"}
    [] type \in {"Int", "Long"} -> Type(v) \in {"Int", "Long"}
    [] OTHER -> Type(v) = type

(* call_<type>_method_by_id: the value must be of the very type of the     *)
(* slot.  An object becomes a new local reference, null is 0, and a void   *)
(* call drops whatever came.                                               *)
Fits(type, v) ==
  CASE type = "Void" -> TRUE
    [] type = "Object" -> Type(v) \in {"Object", "Null"}
    [] OTHER -> Type(v) = type

(* read_varargs and dispatch_by_method_id: x3, x4, x5 as jlongs, cut to    *)
(* the method's arity.                                                     *)
VarArgs(words, arity) ==
  LET raw == [k \in 1..3 |-> JValue("Long", SignedOf(words[k], RegMod))]
  IN SubSeq(raw, 1, IF arity < 3 THEN arity ELSE 3)

(* JniArgs's getters; object_at takes null too.                            *)
Gets(args, i, type) ==
  /\ i <= Len(args)
  /\ TypeOf(args[i]) = type
-----------------------------------------------------------------------------
(* Python.                                                                 *)

(* Python values: None, bool, int of any size, float, str, bytes, a list   *)
(* of small ints, an object or wrapper that carries _rundroid_oid, and     *)
(* anything else.                                                          *)
Py(kind, value) == <<kind, value>>

PyNone == Py("None", 0)

Ints == -(RegMod \div 2) - 1 .. RegMod \div 2

PyValues ==
  UNION {{PyNone, Py("bool", 0), Py("bool", 1), Py("other", 0)},
         {Py("int", n) : n \in Ints}, {Py("float", f) : f \in {0, RegMod - 1}},
         {Py("str", t) : t \in Texts}, {Py("bytes", t) : t \in Texts},
         {Py("list", t) : t \in Texts}, {Py("object", s) : s \in StoredValues}}

NotMarshalled == JValue("error", 0)

(* The float nearest to an int of more than 64 bits: one pattern for all.  *)
Rounded == RegMod - 2

(* Numbers tried before bool, which is an int to Python (mutant of          *)
(* ToJValue).                                                              *)
ToJValueBoolLast(v) ==
  CASE Type(v) = "None" -> Null
    [] Type(v) = "object" -> JValue("Object", Carried(v))
    [] Type(v) \in {"bool", "int"} /\ Carried(v) \in Signed(IntMod) -> JValue("Int", Carried(v))
    [] Type(v) = "int" /\ Carried(v) \in Signed(RegMod) \ Signed(IntMod) -> JValue("Long", Carried(v))
    [] Type(v) = "int" /\ Carried(v) \notin Signed(RegMod) -> JValue("Double", Rounded)
    [] Type(v) = "float" -> JValue("Double", Carried(v))
    [] Type(v) = "str" -> JValue("Object", <<"string", Carried(v)>>)
    [] Type(v) \in {"bytes", "list"} -> JValue("Object", <<"bytes", Carried(v)>>)
    [] Type(v) = "other" -> NotMarshalled

(* py_to_jvalue, in its order: the first conversion that succeeds.  An int *)
(* beyond 64 bits is still a float for PyO3, and any sequence of numbers   *)
(* up to 255 a Vec<u8>.                                                    *)
ToJValue(v) ==
  CASE Type(v) = "None" -> Null
    [] Type(v) = "object" -> JValue("Object", Carried(v))
    [] Type(v) = "bool" -> JValue("Boolean", Carried(v))
    [] Type(v) = "int" /\ Carried(v) \in Signed(IntMod) -> JValue("Int", Carried(v))
    [] Type(v) = "int" /\ Carried(v) \in Signed(RegMod) \ Signed(IntMod) -> JValue("Long", Carried(v))
    [] Type(v) = "int" /\ Carried(v) \notin Signed(RegMod) -> JValue("Double", Rounded)
    [] Type(v) = "float" -> JValue("Double", Carried(v))
    [] Type(v) = "str" -> JValue("Object", <<"string", Carried(v)>>)
    [] Type(v) \in {"bytes", "list"} -> JValue("Object", <<"bytes", Carried(v)>>)
    [] Type(v) = "other" -> NotMarshalled

NotProjected == Py("error", 0)

(* jvalue_object_to_py, by what is stored under the id.                    *)
ObjectToPy(stored) ==
  CASE stored[1] = "string" -> Py("str", stored[2])
    [] stored[1] = "bytes" -> Py("bytes", stored[2])
    [] stored[1] = "python" -> Py("object", stored)
    [] stored[1] \in {"stub", "array", "none"} -> NotProjected

(* jvalue_to_py.                                                           *)
ToPy(v) ==
  CASE Type(v) \in {"Void", "Null"} -> PyNone
    [] Type(v) = "Boolean" -> Py("bool", Carried(v))
    [] Type(v) \in {"Byte", "Char", "Short", "Int", "Long"} -> Py("int", Carried(v))
    [] Type(v) \in {"Float", "Double"} -> Py("float", Carried(v))
    [] Type(v) = "Object" -> ObjectToPy(Carried(v))

(* validate_return_value: an int passes for a long, null for an object, an *)
(* array or void, an object for an array.                                  *)
Declared(v, type) ==
  CASE Type(v) = "Null" -> type \in {"Void", "Object", "Array"}
    [] Type(v) = "Int" -> type \in {"Int", "Long"}
    [] Type(v) = "Object" -> type \in {"Object", "Array"}
    [] OTHER -> Type(v) = type
=============================================================================
