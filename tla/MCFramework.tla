---------------------------- MODULE MCFramework -----------------------------
(***************************************************************************)
(* Framework with one default service, two installations and two versions  *)
(* of one application, signed by different keys.                           *)
(***************************************************************************)
EXTENDS Framework

MCServices == <<"phone">>

MCContents == {"", "app", "unknown", "phone"}

MCApks ==
  {[name |-> "app", version |-> "phone", sigs |-> <<"phone">>],
   [name |-> "app", version |-> None, sigs |-> <<"">>]}

MCOverridden == {<<"Context", "getPackageManager">>, <<"Application", "getPackageName">>}
=============================================================================
