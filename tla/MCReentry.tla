------------------------------ MODULE MCReentry ------------------------------
(***************************************************************************)
(* Reentry with two Python threads and three frames on each.  The first    *)
(* calls every method, save call_java_method with a descriptor that names  *)
(* another class; the second one method of each kind: shared, exclusive,   *)
(* running Python, running the guest, and emu.fs.                          *)
(***************************************************************************)
EXTENDS Reentry

MCThreads == {"main", "worker"}

MCUses == [t \in MCThreads |->
  IF t = "main" THEN BridgeMethods \ {"call_qualified"}
  ELSE {"register_object", "call_override", "release", "call", "map_file"}]
=============================================================================
