----------------------------- MODULE MCFdTable -----------------------------
(***************************************************************************)
(* FdTable with a built-in device and one more name, a copied, a shared    *)
(* and a provided file of a byte or two, and dup3 aimed at a stream and at *)
(* a number next_fd has yet to reach.                                      *)
(***************************************************************************)
EXTENDS FdTable

MCBuiltins == <<"null">>

MCBytes == [kind |-> "Bytes", len |-> 1, name |-> "bytes"]
MCHost == [kind |-> "Host", len |-> 1, name |-> "host"]
MCDynamic == [kind |-> "Dynamic", len |-> 0, name |-> "dynamic"]

MCAllSources == {MCBytes, MCHost, MCDynamic}
MCTargets == {1, 4}
=============================================================================
