--------------------------- MODULE MCModuleLoader --------------------------
(***************************************************************************)
(* ModuleLoader with a diamond over a library with a soname (c) and one    *)
(* without (n), a name nobody provides (x), and two files that need each   *)
(* other (d, e), one of which needs the diamond.                           *)
(***************************************************************************)
EXTENDS ModuleLoader

MCFiles == {"a", "b", "c", "d", "e", "n"}

MCNeeded == [a |-> <<"b", "x", "c", "n">>, b |-> <<"n", "c">>, c |-> <<>>,
             d |-> <<"b", "e">>, e |-> <<"d">>, n |-> <<>>]

MCSoname == [f \in MCFiles |-> IF f = "n" THEN "none" ELSE f]

(* s: a must get the one of c, b the one of n; t: only e has it, which     *)
(* neither a nor b may see when it is loaded beside them; u: c refers      *)
(* to its own.                                                             *)
MCDefines == [a |-> {}, b |-> {}, c |-> {"s", "u"}, d |-> {}, e |-> {"t"}, n |-> {"s"}]

MCUses == [a |-> {"s", "t"}, b |-> {"s"}, c |-> {"u"}, d |-> {"t"}, e |-> {}, n |-> {}]

MCExporting == {"a", "c", "e"}
=============================================================================
