------------------------------ MODULE MCJniCall ------------------------------
(***************************************************************************)
(* JniCall with a byte of 2 bits, a short of 3, an int of 4 and a long of  *)
(* 5; one method of every type in Rust, and Python methods that return     *)
(* values of every kind under the types they may declare.                  *)
(***************************************************************************)
EXTENDS JniCall

Method(static, args, ret, python, gives) ==
  [static |-> static, args |-> args, ret |-> ret, python |-> python, gives |-> gives]

RustMethods ==
  {Method(FALSE, <<>>, "Boolean", FALSE, JValue("Boolean", 1)),
   Method(FALSE, <<>>, "Byte", FALSE, JValue("Byte", -2)),
   Method(FALSE, <<>>, "Char", FALSE, JValue("Char", 7)),
   Method(FALSE, <<>>, "Short", FALSE, JValue("Short", -4)),
   Method(FALSE, <<>>, "Int", FALSE, JValue("Int", -8)),
   Method(FALSE, <<>>, "Long", FALSE, JValue("Long", 15)),
   Method(FALSE, <<>>, "Float", FALSE, JValue("Float", 9)),
   Method(FALSE, <<>>, "Double", FALSE, JValue("Double", 31)),
   Method(FALSE, <<"Object">>, "Object", FALSE, JValue("Object", <<"stub", "">>)),
   Method(FALSE, <<"Long">>, "Object", FALSE, Null),
   Method(TRUE, <<>>, "Int", FALSE, JValue("Int", 7)),
   Method(TRUE, <<>>, "Object", FALSE, JValue("Object", <<"string", "a">>))}

PythonMethods ==
  {Method(FALSE, <<>>, ret, TRUE, v) :
     ret \in {"Int", "Long"}, v \in {Py("int", 3), Py("int", -1), Py("int", 12)}}
  \cup {Method(FALSE, <<>>, "Object", TRUE, v) :
          v \in {PyNone, Py("str", "a"), Py("list", "a"), Py("other", 0), Py("bool", 1)}}
  \cup {Method(FALSE, <<"Object">>, "Object", TRUE, Echo),
         Method(FALSE, <<"Long">>, "Long", TRUE, Echo),
         Method(FALSE, <<"Double">>, "Double", TRUE, Echo),
         Method(FALSE, <<"Boolean">>, "Boolean", TRUE, Echo),
         Method(FALSE, <<>>, "Void", TRUE, PyNone),
         Method(FALSE, <<>>, "Byte", TRUE, Py("int", 1)),
         Method(FALSE, <<>>, "Int", TRUE, Raise),
         Method(TRUE, <<"Int", "Int", "Int", "Int">>, "Int", TRUE, Py("int", 1)),
         Method(TRUE, <<>>, "Boolean", TRUE, Py("bool", 1))}

MCMethods == RustMethods \cup PythonMethods

MCBindable == {Method(FALSE, <<>>, "Int", FALSE, JValue("Int", -8)),
               Method(TRUE, <<>>, "Int", FALSE, JValue("Int", 7))}

MCArgWords == {<<0, 0, 0>>, <<31, 1, 2>>, <<5, 31, 16>>}

MCPyArgs == {<<>>} \cup {<<v>> : v \in PyValues} \cup {<<Py("int", 1), PyNone>>}

MCAstray == {LastTrampoline(Env) + 1, VM.ptr, VM.table}
=============================================================================
