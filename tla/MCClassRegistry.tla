--------------------------- MODULE MCClassRegistry ---------------------------
(***************************************************************************)
(* ClassRegistry with two classes and two methods.  Either class may be    *)
(* the superclass of the other, of both, or of itself; a method may be an  *)
(* instance method in one definition and a static one in the next.         *)
(***************************************************************************)
EXTENDS ClassRegistry

Def(s, i, t) == [super |-> s, inst |-> i, stat |-> t]

MCDefs ==
  {Def(None, {"m", "n"}, {}), Def("A", {"m"}, {}),
   Def("A", {"n"}, {}), Def("B", {}, {"m"}), Def("B", {"m"}, {"n"})}
=============================================================================
