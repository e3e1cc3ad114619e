----------------------------- MODULE NativeNames ----------------------------
(***************************************************************************)
(* Java_* symbols: how native_registry.rs writes and reads the name a      *)
(* native method has in a library, and the fallback that looks for it      *)
(* among the exports of the loaded modules (runtime.rs).  The prefix       *)
(* "Java_" is left out.  A text is a sequence of characters; exports are a *)
(* set of [module, name, fn].                                              *)
(***************************************************************************)
EXTENDS Descriptors

Mangled(text, Escape(_)) == FlattenSeq([i \in DOMAIN text |-> Escape(text[i])])

MangleIdentifier(name) == Mangled(name, LAMBDA c : IF c = "_" THEN <<"_", "1">> ELSE <<c>>)

MangleClass(class) ==
  Mangled(class, LAMBDA c : CASE c = "_" -> <<"_", "1">> [] c = "/" -> <<"_">> [] OTHER -> <<c>>)

MangleSignature(args) ==
  Mangled(args, LAMBDA c : CASE c = "_" -> <<"_", "1">> [] c = ";" -> <<"_", "2">>
                             [] c = "[" -> <<"_", "3">> [] c = "/" -> <<"_">> [] OTHER -> <<c>>)

MangleJavaMethod(class, name) == MangleClass(class) \o <<"_">> \o MangleIdentifier(name)

(* Nothing, if the brackets are missing or empty.                          *)
ArgTypes(desc) ==
  IF 0 < First("(", desc) /\ First("(", desc) + 1 < Last1(")", desc)
    THEN SubSeq(desc, First("(", desc) + 1, Last1(")", desc) - 1) ELSE <<>>

MangleOverloaded(class, name, desc) ==
  MangleJavaMethod(class, name) \o <<"_", "_">> \o MangleSignature(ArgTypes(desc))

(* Underscores that no 1 follows; the last one ends the class.             *)
Bare(text, i) == text[i] = "_" /\ ~(i < Len(text) /\ text[i + 1] = "1")

Unmangled(text) ==
  FlattenSeq([i \in DOMAIN text |->
    IF i > 1 /\ text[i] = "1" /\ text[i - 1] = "_" THEN <<>>
    ELSE IF Bare(text, i) THEN <<"/">> ELSE <<text[i]>>])

UnmangleJavaSymbol(symbol) ==
  LET bare == {i \in DOMAIN symbol : Bare(symbol, i)}
  IN  {[class |-> Unmangled(Before(symbol, sep)), name |-> Unmangled(After(symbol, sep))] :
        sep \in {i \in bare : \A j \in bare : j <= i}}

(* In the order of a HashMap: any module that has the name.                *)
ResolveSymbol(exports, name) == {e.fn : e \in {x \in exports : x.name = name}}

ResolveJavaNative(exports, method) ==
  LET short == ResolveSymbol(exports, MangleJavaMethod(method.class, method.name))
  IN  IF short # {} THEN short
      ELSE ResolveSymbol(exports, MangleOverloaded(method.class, method.name, method.desc))
-----------------------------------------------------------------------------
Short(m) == [module |-> "lib", name |-> MangleJavaMethod(m.class, m.name), fn |-> <<"short", m>>]

Long(m) ==
  [module |-> "lib", name |-> MangleOverloaded(m.class, m.name, m.desc), fn |-> <<"long", m>>]

(***************************************************************************)
(* A library that exports any of the symbols of two methods, by short or   *)
(* by long name: each method finds the function written for it, or none,   *)
(* and never the one of another class, another name, or, when only long    *)
(* names are exported, another overload; and a short symbol is read back   *)
(* as the class and the name it was made of.                               *)
(***************************************************************************)
NativesKeptApart(m, other) ==
  /\ UnmangleJavaSymbol(Short(m).name) = {[class |-> m.class, name |-> m.name]}
  /\ \A exports \in SUBSET {Short(m), Long(m), Short(other), Long(other)} :
       LET found == ResolveJavaNative(exports, m)
       IN  /\ {Short(m), Long(m)} \cap exports # {} => found # {}
           /\ \A fn \in found :
                /\ fn[2].class = m.class /\ fn[2].name = m.name
                /\ fn[1] = "long" => ArgTypes(fn[2].desc) = ArgTypes(m.desc)
=============================================================================
