---------------------------- MODULE JniCallProofs ----------------------------
(***************************************************************************)
(* The way from the table in guest memory to the arm, for every address    *)
(* the structures may be put at: the regions do not overlap, the pointer   *)
(* of a slot leads back to the slot, and what runs is what the catalog     *)
(* names.  The way of a value, for all widths: what a handler returns is   *)
(* in the range of its type, and a register gives it back in the width of  *)
(* the slot.  Python's values through JNI and back, and the invoke calls.  *)
(***************************************************************************)
EXTENDS JniCall, SequenceTheorems, TLAPS

(* Where everything lies.                                                  *)
LEMMA LayoutIs ==
  /\ Env = [ptr |-> EnvBase, table |-> EnvBase + 4096, tramp |-> EnvBase + 8192,
            size |-> 232, end |-> EnvBase + 12288]
  /\ VM = [ptr |-> EnvBase + 12288, table |-> EnvBase + 16384, tramp |-> EnvBase + 20480,
           size |-> 8, end |-> EnvBase + 24576]
<1>1. Pages(8 * 232) = 4096 /\ Pages(4 * 232) = 4096 /\ Pages(8 * 8) = 4096 /\ Pages(4 * 8) = 4096
  BY DEF Pages, PageSize
<1>2. Env = [ptr |-> EnvBase, table |-> EnvBase + 4096, tramp |-> EnvBase + 4096 + 4096,
             size |-> 232, end |-> EnvBase + 4096 + 4096 + 4096]
  BY <1>1 DEF Env, Layout, EnvSize, SlotBytes, PageSize
<1>3. VM = [ptr |-> Env.end, table |-> Env.end + 4096, tramp |-> Env.end + 4096 + 4096,
            size |-> 8, end |-> Env.end + 4096 + 4096 + 4096]
  BY <1>1 DEF VM, Layout, InvokeSize, SlotBytes, PageSize
<1> QED BY <1>2, <1>3, EnvBaseAssumption

(* The address a slot of the env table holds, and the way back.            *)
LEMMA EnvRoundTrip ==
  ASSUME NEW i \in 0..231
  PROVE  /\ Pointer(Env, i) = EnvBase + 8192 + 4 * i
         /\ FunctionIndex(Env, Pointer(Env, i)) = i
<1>1. Read(Env, Env.ptr) = EnvBase + 4096
  BY LayoutIs DEF Read
<1>2. EnvBase + 4096 + 8 * i # EnvBase
  BY EnvBaseAssumption
<1>3. Pointer(Env, i) = EnvBase + 8192 + 4 * i
  BY <1>1, <1>2, LayoutIs, EnvBaseAssumption DEF Pointer, Read, SlotBytes
<1> QED BY <1>3, LayoutIs, EnvBaseAssumption DEF FunctionIndex, SlotBytes

(* The same for the invoke table.                                          *)
LEMMA InvokeRoundTrip ==
  ASSUME NEW i \in 0..7
  PROVE  /\ Pointer(VM, i) = EnvBase + 20480 + 4 * i
         /\ FunctionIndex(VM, Pointer(VM, i)) = i
<1>1. Read(VM, VM.ptr) = EnvBase + 16384
  BY LayoutIs DEF Read
<1>2. EnvBase + 16384 + 8 * i # EnvBase + 12288
  BY EnvBaseAssumption
<1>3. Pointer(VM, i) = EnvBase + 20480 + 4 * i
  BY <1>1, <1>2, LayoutIs, EnvBaseAssumption DEF Pointer, Read, SlotBytes
<1> QED BY <1>3, LayoutIs, EnvBaseAssumption DEF FunctionIndex, SlotBytes

(* The last trampolines.                                                   *)
LEMMA Ends ==
  LastTrampoline(Env) = EnvBase + 9119 /\ LastTrampoline(VM) = EnvBase + 20511
BY LayoutIs, EnvBaseAssumption DEF LastTrampoline, SlotBytes

(* The catalog and the arms name the same functions.                       *)
LEMMA CatalogIsArms ==
  ASSUME NEW i
  PROVE  /\ Arm(i) = SlotSpec(i)
         /\ IsBridged(i) => Arm(i) # {}
<1>1. Arms = Bridged \cup Plain(Refused)
  BY Zenon DEF Arms, Bridged
<1> QED BY <1>1 DEF Arm, SlotSpec, IsBridged

(* The guest waits behind the trampoline of the slot it called, or         *)
(* strayed between the two regions of trampolines.                         *)
PcInv ==
  /\ pc \in Int
  /\ call.by \in {"none", "env", "vm", "stray", "host"}
  /\ call.by = "env" => call.slot \in 0..231
  /\ call.by = "vm" => call.slot \in 0..7
  /\ pc > Guest =>
       \/ call.by = "env" /\ pc = Pointer(Env, call.slot)
       \/ call.by = "vm" /\ pc = Pointer(VM, call.slot)
       \/ call.by = "stray" /\ LastTrampoline(Env) < pc /\ pc < VM.tramp

IInv == PcInv /\ SlotReachesItsArm
-----------------------------------------------------------------------------
LEMMA InitInv == Init => IInv
BY DEF Init, IInv, PcInv, SlotReachesItsArm, Frame, None, Guest, Back

(* A frame is for the slot it was made for.                                *)
LEMMA FramesOf ==
  /\ \A i : \A f \in EnvFrames(i) : f.by = "env" /\ f.slot = i
  /\ \A i : \A f \in InvokeFrames(i) : f.by = "vm" /\ f.slot = i
<1>1. \A by, slot, m, w : LET f == [Frame(by, slot) EXCEPT !.method = m, !.words = w]
                       IN f.by = by /\ f.slot = slot
  BY DEF Frame
<1>2. \A by, slot, n, E : LET f == [Frame(by, slot) EXCEPT !.count = n, !.entries = E]
                       IN f.by = by /\ f.slot = slot
  BY DEF Frame
<1>3. \A by, slot, v, w : LET f == [Frame(by, slot) EXCEPT !.version = v, !.writable = w]
                       IN f.by = by /\ f.slot = slot
  BY DEF Frame
<1>4. \A by, slot : Frame(by, slot).by = by /\ Frame(by, slot).slot = slot
  BY DEF Frame
<1>5. ASSUME NEW i, NEW f \in EnvFrames(i) PROVE f.by = "env" /\ f.slot = i
  <2>1. f \in CallFrames(i) \/ f \in BindFrames(i) \/ f = Frame("env", i)
    BY Zenon DEF EnvFrames
  <2>2. CASE f \in CallFrames(i)
    <3>1. PICK p : f = [Frame("env", i) EXCEPT !.method = p[1], !.words = p[2]]
      BY <2>2 DEF CallFrames
    <3> QED BY <3>1, <1>1
  <2>3. CASE f \in BindFrames(i)
    <3>1. PICK p : f = [Frame("env", i) EXCEPT !.count = p[1], !.entries = p[2]]
      BY <2>3 DEF BindFrames
    <3> QED BY <3>1, <1>2
  <2> QED BY <2>1, <2>2, <2>3, <1>4
<1>6. ASSUME NEW i, NEW f \in InvokeFrames(i) PROVE f.by = "vm" /\ f.slot = i
  <2>1. PICK p : f = [Frame("vm", i) EXCEPT !.version = p[1], !.writable = p[2]]
    BY DEF InvokeFrames
  <2> QED BY <2>1, <1>3
<1> QED BY <1>5, <1>6

LEMMA GuestCallsInv == IInv /\ GuestCalls => IInv'
<1> SUFFICES ASSUME IInv, GuestCalls PROVE IInv'
  OBVIOUS
<1>1. CASE \E i \in 0..EnvSize - 1 : \E f \in EnvFrames(i) : call' = f /\ pc' = Pointer(Env, i)
  <2>1. PICK i \in 0..231 : \E f \in EnvFrames(i) : call' = f /\ pc' = Pointer(Env, i)
    BY <1>1 DEF EnvSize
  <2>2. call'.by = "env" /\ call'.slot = i
    BY <2>1, FramesOf
  <2>3. pc' = EnvBase + 8192 + 4 * i /\ pc' = Pointer(Env, i)
    BY <2>1, EnvRoundTrip
  <2> QED BY <2>2, <2>3, EnvBaseAssumption DEF IInv, PcInv, SlotReachesItsArm, Back
<1>2. CASE \E i \in 0..InvokeSize - 1 : \E f \in InvokeFrames(i) : call' = f /\ pc' = Pointer(VM, i)
  <2>1. PICK i \in 0..7 : \E f \in InvokeFrames(i) : call' = f /\ pc' = Pointer(VM, i)
    BY <1>2 DEF InvokeSize
  <2>2. call'.by = "vm" /\ call'.slot = i
    BY <2>1, FramesOf
  <2>3. pc' = EnvBase + 20480 + 4 * i /\ pc' = Pointer(VM, i)
    BY <2>1, InvokeRoundTrip
  <2> QED BY <2>2, <2>3, EnvBaseAssumption DEF IInv, PcInv, SlotReachesItsArm, Back
<1>3. CASE \E a \in Astray : call' = Frame("stray", 0) /\ pc' = a
  <2>1. call'.by = "stray" /\ pc' \in LastTrampoline(Env) + 1 .. VM.tramp - 1
    BY <1>3, CallAssumption DEF Frame
  <2> QED BY <2>1, Ends, LayoutIs, EnvBaseAssumption DEF IInv, PcInv, SlotReachesItsArm, Back
<1> QED BY <1>1, <1>2, <1>3 DEF GuestCalls

(* In the env trampolines it is the slot the guest called that the hook    *)
(* sees.                                                                   *)
LEMMA AtEnvIs ==
  ASSUME IInv, AtEnv
  PROVE  call.by = "env" /\ call.slot \in 0..231 /\ EnvSlot = call.slot
<1>1. call.by # "stray" /\ call.by # "vm"
  <2>1. CASE call.by = "vm"
    <3>1. pc = EnvBase + 20480 + 4 * call.slot /\ call.slot \in 0..7
      BY <2>1, InvokeRoundTrip DEF IInv, PcInv, AtEnv
    <3> QED BY <3>1, Ends, EnvBaseAssumption DEF AtEnv
  <2>2. CASE call.by = "stray"
    BY <2>2, Ends, EnvBaseAssumption DEF IInv, PcInv, AtEnv
  <2> QED BY <2>1, <2>2
<1>2. call.by = "env" /\ pc = Pointer(Env, call.slot)
  BY <1>1 DEF IInv, PcInv, AtEnv
<1> QED BY <1>2, EnvRoundTrip DEF EnvSlot, IInv, PcInv

LEMMA AtVMIs ==
  ASSUME IInv, AtVM
  PROVE  call.by = "vm" /\ InvokeSlot = call.slot
<1>1. pc > Guest
  BY LayoutIs, EnvBaseAssumption DEF AtVM, Guest, IInv, PcInv
<1>2. call.by # "env"
  <2>1. CASE call.by = "env"
    <3>1. pc = EnvBase + 8192 + 4 * call.slot /\ call.slot \in 0..231
      BY <1>1, <2>1, EnvRoundTrip DEF IInv, PcInv
    <3> QED BY <3>1, LayoutIs, EnvBaseAssumption DEF AtVM
  <2> QED BY <2>1
<1>3. call.by # "stray"
  BY <1>1, LayoutIs, EnvBaseAssumption DEF AtVM, IInv, PcInv
<1>4. call.by = "vm" /\ pc = Pointer(VM, call.slot) /\ call.slot \in 0..7
  BY <1>1, <1>2, <1>3 DEF IInv, PcInv
<1> QED BY <1>4, InvokeRoundTrip DEF InvokeSlot

(* An answer that names what the slot's catalog entry does keeps IInv.     *)
LEMMA Answered ==
  ASSUME IInv, pc' = Back, call' = call,
         call.by = "env" => answer'.ran = IF IsBridged(call.slot) THEN SlotSpec(call.slot) ELSE {},
         call.by = "vm" => answer'.ran = IF call.slot \in {GetEnv, Attach, Detach}
                                           THEN {<<call.slot>>} ELSE {}
  PROVE  IInv'
BY DEF IInv, PcInv, SlotReachesItsArm, Back, Guest

LEMMA RanOf ==
  ASSUME NEW R, NEW w, Return(R, w) \/ Fail(R)
  PROVE  answer'.ran = R /\ pc' = Back /\ call' = call
BY DEF Return, Fail, None

(* The arms.                                                               *)
LEMMA ArmInv ==
  ASSUME IInv, AtEnv, IsBridged(EnvSlot), answer'.ran = Arm(EnvSlot), pc' = Back, call' = call
  PROVE  IInv'
BY AtEnvIs, CatalogIsArms, Answered

LEMMA HookInv == IInv /\ HookAnswers => IInv'
<1> SUFFICES ASSUME IInv, HookAnswers PROVE IInv'
  OBVIOUS
<1>1. CASE NotBridged
  <2>1. ~IsBridged(EnvSlot)
    BY <1>1, CatalogIsArms DEF NotBridged
  <2>2. answer'.ran = {} /\ pc' = Back /\ call' = call
    BY <1>1, RanOf DEF NotBridged
  <2> QED BY <1>1, <2>1, <2>2, AtEnvIs, Answered DEF NotBridged
<1>2. CASE GetVersion
  BY <1>2, RanOf, ArmInv DEF GetVersion, InArm
<1>3. CASE Exceptions
  BY <1>3, RanOf, ArmInv DEF Exceptions, InArm
<1>4. CASE NotYet
  BY <1>4, RanOf, ArmInv DEF NotYet, InArm
<1>5. CASE Resolves
  BY <1>5, RanOf, ArmInv DEF Resolves, InArm
<1>6. CASE CallMethod
  <2>1. answer'.ran = Arm(EnvSlot) /\ pc' = Back /\ call' = call
    BY <1>6, RanOf DEF CallMethod, None
  <2> QED BY <1>6, <2>1, ArmInv DEF CallMethod, InArm
<1>7. CASE RegisterNatives
  BY <1>7, RanOf, ArmInv DEF RegisterNatives, InArm
<1>8. CASE GetEnvCall
  <2>1. answer'.ran = {<<InvokeSlot>>} /\ pc' = Back /\ call' = call
    BY <1>8, RanOf DEF GetEnvCall, Hand
  <2> QED BY <1>8, <2>1, AtVMIs, Answered DEF GetEnvCall
<1>9. CASE AttachCurrentThread
  <2>1. answer'.ran = {<<InvokeSlot>>} /\ pc' = Back /\ call' = call
    BY <1>9, RanOf DEF AttachCurrentThread, Hand
  <2> QED BY <1>9, <2>1, AtVMIs, Answered DEF AttachCurrentThread
<1>10. CASE DetachCurrentThread
  <2>1. answer'.ran = {<<InvokeSlot>>} /\ pc' = Back /\ call' = call
    BY <1>10, RanOf DEF DetachCurrentThread
  <2> QED BY <1>10, <2>1, AtVMIs, Answered DEF DetachCurrentThread
<1>11. CASE InvokeRefused
  <2>1. answer'.ran = {} /\ pc' = Back /\ call' = call
    BY <1>11, RanOf DEF InvokeRefused
  <2> QED BY <1>11, <2>1, AtVMIs, Answered DEF InvokeRefused
<1>12. CASE Misplaced
  <2>1. answer'.ran = {} /\ pc' = Back /\ call' = call
    BY <1>12, RanOf DEF Misplaced
  <2>2. call.by = "stray"
    <3>1. CASE call.by = "env" /\ pc = Pointer(Env, call.slot)
      <4>1. pc = EnvBase + 8192 + 4 * call.slot /\ call.slot \in 0..231
        BY <3>1, EnvRoundTrip DEF IInv, PcInv
      <4> QED BY <4>1, <1>12, Ends, EnvBaseAssumption DEF Misplaced, AtEnv
    <3>2. CASE call.by = "vm" /\ pc = Pointer(VM, call.slot)
      <4>1. pc = EnvBase + 20480 + 4 * call.slot /\ call.slot \in 0..7
        BY <3>2, InvokeRoundTrip DEF IInv, PcInv
      <4> QED BY <4>1, <1>12, Ends, LayoutIs, EnvBaseAssumption DEF Misplaced, AtVM
    <3> QED BY <1>12, <3>1, <3>2 DEF Misplaced, IInv, PcInv
  <2> QED BY <2>1, <2>2, Answered
<1> QED BY <1>1, <1>2, <1>3, <1>4, <1>5, <1>6, <1>7, <1>8, <1>9, <1>10, <1>11, <1>12 DEF HookAnswers

(* Calls from Python, and the way on.                                      *)
LEMMA HostInv == IInv /\ (HostCalls \/ Continue) => IInv'
<1> SUFFICES ASSUME IInv, HostCalls \/ Continue PROVE IInv'
  OBVIOUS
<1>1. CASE HostCalls
  <2>1. call'.by = "host" /\ pc' = Back
    BY <1>1 DEF HostCalls, Frame
  <2> QED BY <2>1 DEF IInv, PcInv, SlotReachesItsArm, Back, Guest
<1>2. CASE Continue
  BY <1>2 DEF Continue, IInv, PcInv, SlotReachesItsArm, Frame, Back, Guest
<1> QED BY <1>1, <1>2

(* What runs is always the function of the slot the guest took from its    *)
(* table, wherever the structures lie and whatever the methods are.        *)
THEOREM SlotsReachTheirArms == Spec => []SlotReachesItsArm
<1>1. Init => IInv
  BY InitInv
<1>2. IInv /\ [Next]_vars => IInv'
  <2>1. ASSUME IInv, UNCHANGED vars PROVE IInv'
    BY <2>1 DEF vars, IInv, PcInv, SlotReachesItsArm
  <2> QED BY <2>1, GuestCallsInv, HookInv, HostInv DEF Next
<1>3. IInv => SlotReachesItsArm
  BY DEF IInv
<1> QED BY <1>1, <1>2, <1>3, PTL DEF Spec
-----------------------------------------------------------------------------
(* Values of Python, whatever they carry.                                  *)
Kinds == {"None", "bool", "int", "float", "str", "bytes", "list", "object", "other"}

IsPy(v) ==
  \E kind, x :
    /\ kind \in Kinds /\ v = Py(kind, x)
    /\ kind = "None" => x = 0
    /\ kind = "object" => x[1] \in {"string", "bytes", "python", "stub", "array", "none"}

LEMMA PyValuesArePy == \A v \in PyValues : IsPy(v)
<1> SUFFICES ASSUME NEW v \in PyValues PROVE IsPy(v)
  OBVIOUS
<1>1. ASSUME NEW kind \in Kinds \ {"None", "object"}, NEW x, v = Py(kind, x) PROVE IsPy(v)
  BY <1>1 DEF IsPy
<1>2. ASSUME v = Py("None", 0) PROVE IsPy(v)
  BY <1>2 DEF IsPy, Kinds
<1>3. ASSUME NEW s \in StoredValues, v = Py("object", s) PROVE IsPy(v)
  <2>1. \E stored \in {"string", "bytes", "python", "stub", "array", "none"} :
          \E y : s = <<stored, y>>
    BY DEF StoredValues
  <2> QED BY <1>3, <2>1 DEF IsPy, Kinds
<1>4. \/ v = Py("None", 0)
      \/ \E s \in StoredValues : v = Py("object", s)
      \/ \E kind \in Kinds \ {"None", "object"} : \E x : v = Py(kind, x)
  BY DEF PyValues, PyNone, Kinds
<1> QED BY <1>1, <1>2, <1>3, <1>4

(* There and back, a value that can be marshalled is kept; if the way back *)
(* does not fail it is a value of Python again.                            *)
LEMMA MarshalKeeps ==
  ASSUME NEW v, IsPy(v), ToJValue(v) # NotMarshalled
  PROVE  /\ Kept(v, ToPy(ToJValue(v)))
         /\ ToPy(ToJValue(v)) # NotProjected => IsPy(ToPy(ToJValue(v)))
<1>1. PICK kind, x :
        /\ kind \in Kinds /\ v = Py(kind, x)
        /\ kind = "None" => x = 0
        /\ kind = "object" => x[1] \in {"string", "bytes", "python", "stub", "array", "none"}
  BY DEF IsPy
<1>2. v[1] = kind /\ v[2] = x /\ v = <<kind, x>>
  BY <1>1 DEF Py
<1>3. ASSUME NEW k \in Kinds \ {"None", "object"}, NEW y, NEW w, w = <<k, y>> PROVE IsPy(w)
  BY <1>3 DEF IsPy, Py
<1>4. CASE kind = "None"
  <2>1. ToJValue(v) = <<"Null", 0>> /\ x = 0
    BY <1>1, <1>2, <1>4 DEF ToJValue, Type, Null, JValue
  <2>2. ToPy(ToJValue(v)) = <<"None", 0>>
    BY <2>1 DEF ToPy, Type, PyNone, Py
  <2> QED BY <1>2, <1>4, <2>1, <2>2 DEF Kept, IsPy, Py, Kinds
<1>5. CASE kind = "bool"
  <2>1. ToJValue(v) = <<"Boolean", x>>
    BY <1>2, <1>5 DEF ToJValue, Type, Carried, JValue
  <2>2. ToPy(ToJValue(v)) = <<"bool", x>>
    BY <2>1 DEF ToPy, Type, Carried, Py
  <2> QED BY <1>2, <1>3, <1>5, <2>2 DEF Kept, Kinds
<1>6. CASE kind = "int"
  <2>1. \/ ToJValue(v) = <<"Int", x>> \/ ToJValue(v) = <<"Long", x>>
        \/ ToJValue(v) = <<"Double", Rounded>> /\ x \notin Signed(RegMod)
    BY <1>2, <1>6 DEF ToJValue, Type, Carried, JValue
  <2>2. \/ ToPy(ToJValue(v)) = <<"int", x>>
        \/ ToPy(ToJValue(v)) = <<"float", Rounded>> /\ x \notin Signed(RegMod)
    BY <2>1 DEF ToPy, Type, Carried, Py
  <2> QED BY <1>2, <1>3, <1>6, <2>2 DEF Kept, Kinds, Type, Carried, Py
<1>7. CASE kind = "float"
  <2>1. ToJValue(v) = <<"Double", x>>
    BY <1>2, <1>7 DEF ToJValue, Type, Carried, JValue
  <2>2. ToPy(ToJValue(v)) = <<"float", x>>
    BY <2>1 DEF ToPy, Type, Carried, Py
  <2> QED BY <1>2, <1>3, <1>7, <2>2 DEF Kept, Kinds
<1>8. CASE kind = "str"
  <2>1. ToJValue(v) = <<"Object", <<"string", x>>>>
    BY <1>2, <1>8 DEF ToJValue, Type, Carried, JValue
  <2>2. ToPy(ToJValue(v)) = <<"str", x>>
    BY <2>1 DEF ToPy, Type, Carried, ObjectToPy, Py
  <2> QED BY <1>2, <1>3, <1>8, <2>2 DEF Kept, Kinds
<1>9. CASE kind \in {"bytes", "list"}
  <2>1. ToJValue(v) = <<"Object", <<"bytes", x>>>>
    BY <1>2, <1>9 DEF ToJValue, Type, Carried, JValue
  <2>2. ToPy(ToJValue(v)) = <<"bytes", x>>
    BY <2>1 DEF ToPy, Type, Carried, ObjectToPy, Py
  <2> QED BY <1>2, <1>3, <1>9, <2>2 DEF Kept, Kinds, Type, Carried, Py
<1>10. CASE kind = "object"
  <2>1. ToJValue(v) = <<"Object", x>>
    BY <1>2, <1>10 DEF ToJValue, Type, Carried, JValue
  <2>2. ToPy(ToJValue(v)) = ObjectToPy(x)
    BY <2>1 DEF ToPy, Type, Carried
  <2>3. ObjectToPy(x) # NotProjected => IsPy(ObjectToPy(x))
    <3>1. CASE x[1] = "string"
      BY <1>3, <3>1 DEF ObjectToPy, Py, Kinds
    <3>2. CASE x[1] = "bytes"
      BY <1>3, <3>2 DEF ObjectToPy, Py, Kinds
    <3>3. CASE x[1] = "python"
      BY <1>1, <1>10, <3>3 DEF ObjectToPy, IsPy, Kinds
    <3>4. CASE x[1] \in {"stub", "array", "none"}
      BY <3>4 DEF ObjectToPy
    <3> QED BY <1>1, <1>10, <3>1, <3>2, <3>3, <3>4
  <2>4. Kept(v, ObjectToPy(x))
    BY <1>2, <1>10 DEF Kept, Type, Carried
  <2> QED BY <2>2, <2>3, <2>4
<1>11. CASE kind = "other"
  BY <1>2, <1>11 DEF ToJValue, Type
<1> QED BY <1>1, <1>4, <1>5, <1>6, <1>7, <1>8, <1>9, <1>10, <1>11 DEF Kinds

(* The hook never runs under a call from Python.                           *)
LEMMA HookIsNotHost ==
  ASSUME IInv, HookAnswers
  PROVE  call.by # "host" /\ call' = call
<1>1. AtEnv => pc > Guest
  BY DEF AtEnv
<1>2. AtVM => pc > Guest
  BY LayoutIs, EnvBaseAssumption DEF AtVM, Guest, IInv, PcInv
<1>3. pc > Guest
  BY <1>1, <1>2 DEF HookAnswers, NotBridged, GetVersion, Exceptions, NotYet, Resolves, CallMethod,
     RegisterNatives, GetEnvCall, AttachCurrentThread, DetachCurrentThread, InvokeRefused,
     Misplaced, InArm
<1>4. call' = call
  BY DEF HookAnswers, NotBridged, GetVersion, Exceptions, NotYet, Resolves, CallMethod,
     RegisterNatives, GetEnvCall, AttachCurrentThread, DetachCurrentThread, InvokeRefused,
     Misplaced, Return, Fail, Hand
<1> QED BY <1>3, <1>4 DEF IInv, PcInv

(* What a Python method answers is the marshalled value of what it returns *)
LEMMA PythonAnswers ==
  ASSUME NEW m \in Methods, m.python, NEW args,
         PythonGives(m, args) # Failed
  PROVE  LET returned == IF m.gives = Echo THEN ArgsToPy(args)[1] ELSE m.gives
         IN /\ PythonGives(m, args) = ToJValue(returned)
            /\ m.gives # Raise
            /\ Len(args) = Len(m.args)
            /\ \A k \in DOMAIN ArgsToPy(args) : ArgsToPy(args)[k] # NotProjected
BY DEF PythonGives

LEMMA HostCallsKept == HostCalls => HostCallKeeps'
<1> SUFFICES ASSUME HostCalls PROVE HostCallKeeps'
  OBVIOUS
<1>1. PICK m \in Methods, args \in PyArgs :
        LET given == [k \in DOMAIN args |-> ToJValue(args[k])]
            v == IF m.static \/ \E k \in DOMAIN given : given[k] = NotMarshalled
                   THEN Failed ELSE Handler(m, given)
            back == ToPy(v)
        IN /\ call' = [Frame("host", 0) EXCEPT !.method = m, !.args = args]
           /\ answer' = IF v = Failed \/ back = NotProjected
                          THEN [None EXCEPT !.ok = FALSE]
                          ELSE [None EXCEPT !.saw = ArgsToPy(given), !.value = v, !.back = back]
  BY DEF HostCalls
<1> DEFINE given == [k \in DOMAIN args |-> ToJValue(args[k])]
           v == IF m.static \/ \E k \in DOMAIN given : given[k] = NotMarshalled
                  THEN Failed ELSE Handler(m, given)
           saw == ArgsToPy(given)
<1>2. call'.method = m /\ call'.args = args
  BY <1>1 DEF Frame
<1>3. CASE v = Failed \/ ToPy(v) = NotProjected
  BY <1>1, <1>3 DEF None, HostCallKeeps
<1>4. CASE ~(v = Failed \/ ToPy(v) = NotProjected)
  <2>1. answer'.saw = saw /\ answer'.back = ToPy(v)
    BY <1>1, <1>4 DEF None
  <2>2. args \in Seq(PyValues)
    BY CallAssumption
  <2>3. DOMAIN given = 1..Len(args) /\ \A k \in 1..Len(args) : given[k] = ToJValue(args[k])
    BY <2>2
  <2>4. DOMAIN saw = 1..Len(args) /\ \A k \in 1..Len(args) : saw[k] = ToPy(ToJValue(args[k]))
    BY <2>3 DEF ArgsToPy
  <2>5. v = Handler(m, given) /\ \A k \in 1..Len(args) : ToJValue(args[k]) # NotMarshalled
    BY <1>4, <2>3
  <2>6. Len(saw) = Len(args) /\ Len(given) = Len(args)
    <3>1. Len(args) \in Nat
      BY <2>2
    <3> QED BY <2>3, <2>4, <3>1
  <2>7. \A k \in 1..Len(args) :
          /\ Kept(args[k], saw[k])
          /\ saw[k] # NotProjected => IsPy(saw[k])
    <3> SUFFICES ASSUME NEW k \in 1..Len(args)
                 PROVE  Kept(args[k], saw[k]) /\ (saw[k] # NotProjected => IsPy(saw[k]))
      OBVIOUS
    <3>1. IsPy(args[k])
      BY <2>2, PyValuesArePy
    <3> QED BY <2>4, <2>5, <3>1, MarshalKeeps
  <2>8. ASSUME m.python
        PROVE  Kept(IF m.gives = Echo THEN saw[1] ELSE m.gives, ToPy(v))
    <3> DEFINE returned == IF m.gives = Echo THEN saw[1] ELSE m.gives
    <3>1. v = PythonGives(m, given)
      BY <2>5, <2>8 DEF Handler
    <3>2. /\ v = ToJValue(returned) /\ m.gives # Raise /\ Len(given) = Len(m.args)
          /\ \A k \in DOMAIN saw : saw[k] # NotProjected
      BY <1>4, <2>8, <3>1, PythonAnswers
    <3>3. IsPy(returned)
      <4>1. CASE m.gives = Echo
        <5>1. 1 \in 1..Len(args)
          BY <2>2, <2>6, <2>8, <3>2, <4>1, CallAssumption
        <5> QED BY <2>4, <2>7, <3>2, <4>1, <5>1
      <4>2. CASE m.gives # Echo
        BY <2>8, <3>2, <4>2, CallAssumption, PyValuesArePy
      <4> QED BY <4>1, <4>2
    <3>4. ToJValue(returned) # NotMarshalled
      BY <1>4, <3>2 DEF Failed
    <3> QED BY <3>2, <3>3, <3>4, MarshalKeeps
  <2>9. Len(answer'.saw) = Len(call'.args) /\ \A k \in DOMAIN call'.args : Kept(call'.args[k], answer'.saw[k])
    BY <1>2, <2>1, <2>2, <2>6, <2>7
  <2>10. call'.method.python =>
           Kept(IF call'.method.gives = Echo THEN answer'.saw[1] ELSE call'.method.gives, answer'.back)
    BY <1>2, <2>1, <2>8
  <2> QED BY <2>9, <2>10 DEF HostCallKeeps, Kept
<1> QED BY <1>3, <1>4

(* Whatever values Python passes and returns: a method called from Python  *)
(* sees the arguments it was given and the caller what it returned, but    *)
(* for the three conversions Kept names.                                   *)
THEOREM HostCallsKeep == Spec => []HostCallKeeps
<1>1. Init => IInv /\ HostCallKeeps
  BY InitInv DEF Init, HostCallKeeps, Frame
<1>2. IInv /\ HostCallKeeps /\ [Next]_vars => (IInv /\ HostCallKeeps)'
  <2> SUFFICES ASSUME IInv, HostCallKeeps, [Next]_vars PROVE IInv' /\ HostCallKeeps'
    OBVIOUS
  <2>1. CASE GuestCalls
    <3>1. call'.by # "host"
      BY <2>1, FramesOf DEF GuestCalls, Frame
    <3> QED BY <2>1, <3>1, GuestCallsInv DEF HostCallKeeps
  <2>2. CASE HostCalls
    BY <2>2, HostInv, HostCallsKept
  <2>3. CASE HookAnswers
    BY <2>3, HookInv, HookIsNotHost DEF HostCallKeeps
  <2>4. CASE Continue
    <3>1. call'.by # "host"
      BY <2>4 DEF Continue, Frame
    <3> QED BY <2>4, <3>1, HostInv DEF HostCallKeeps
  <2>5. CASE UNCHANGED vars
    BY <2>5 DEF vars, IInv, PcInv, SlotReachesItsArm, HostCallKeeps, Kept
  <2> QED BY <2>1, <2>2, <2>3, <2>4, <2>5 DEF Next
<1>3. IInv /\ HostCallKeeps => HostCallKeeps
  OBVIOUS
<1> QED BY <1>1, <1>2, <1>3, PTL DEF Spec
-----------------------------------------------------------------------------
(* Registers.  A number is what is left of it.                             *)
LEMMA Quotient ==
  ASSUME NEW a \in Nat \ {0}, NEW q \in Int, NEW r \in 0..a - 1
  PROVE  (a * q + r) % a = r
<1> DEFINE x == a * q + r
           p == x \div a
           s == x % a
<1>1. x \in Int
  OBVIOUS
<1>2. x = a * p + s /\ p \in Int /\ s \in 0..a - 1
  BY <1>1
<1>3. p = q
  <2>0. a * (p - q) = r - s
    BY <1>2
  <2>1. CASE p - q >= 1
    <3>1. a * (p - q) >= a
      BY <1>2, <2>1
    <3> QED BY <1>2, <2>0, <3>1
  <2>2. CASE p - q <= -1
    <3>1. a * (q - p) >= a
      BY <1>2, <2>2
    <3> QED BY <1>2, <2>0, <3>1
  <2> QED BY <1>2, <2>1, <2>2
<1> QED BY <1>2, <1>3

(* Counting on by whole turns changes nothing.                             *)
LEMMA Residue ==
  ASSUME NEW a \in Nat \ {0}, NEW m \in Nat, m % a = 0, NEW c \in Int
  PROVE  (c + m) % a = c % a
<1> DEFINE k == m \div a
           q == c \div a
           r == c % a
<1>1. m = a * k /\ k \in Int
  OBVIOUS
<1>2. c = a * q + r /\ q \in Int /\ r \in 0..a - 1
  OBVIOUS
<1>3. q + k \in Int /\ c + m = a * (q + k) + r
  BY <1>1, <1>2
<1> HIDE DEF q, k, r
<1>4. (a * (q + k) + r) % a = r
  BY <1>2, <1>3, Quotient
<1> QED BY <1>3, <1>4 DEF r

LEMMA Turns ==
  ASSUME NEW a \in Nat \ {0}, NEW c \in Int
  PROVE  /\ c \in 0..a - 1 => c % a = c
         /\ c \in -a .. -1 => c % a = c + a
<1>1. c \in 0..a - 1 => c % a = c
  BY Quotient
<1>2. c \in -a .. -1 => c % a = c + a
  BY <1>1
<1> QED BY <1>1, <1>2

LEMMA Mods ==
  /\ \A mod \in {ByteMod, ShortMod, IntMod, RegMod} :
       /\ mod \in Nat \ {0} /\ mod % 2 = 0 /\ mod <= RegMod /\ RegMod % mod = 0
       /\ mod \div 2 \in Nat /\ mod = mod \div 2 + mod \div 2
  /\ RegMod \in Nat /\ RegMod >= 7
<1>1. \A mod \in {ByteMod, ShortMod, IntMod, RegMod} :
        mod \in Nat \ {0} /\ mod % 2 = 0 /\ mod <= RegMod /\ RegMod % mod = 0
  BY WidthsAssumption
<1>2. \A mod \in Nat : mod % 2 = 0 => mod \div 2 \in Nat /\ mod = mod \div 2 + mod \div 2
  OBVIOUS
<1>3. \A b, s, i, r \in Nat :
        2 < b /\ b < s /\ s < i /\ i < r /\ s % 2 = 0 /\ b % 2 = 0 => r >= 7
  OBVIOUS
<1>4. RegMod >= 7
  BY <1>3, WidthsAssumption
<1> QED BY <1>1, <1>2, <1>4, WidthsAssumption

(* A register holds a number of any width, and gives it back.              *)
LEMMA WordKeeps ==
  ASSUME NEW mod \in {ByteMod, ShortMod, IntMod, RegMod}
  PROVE  /\ \A c \in Signed(mod) : SignedOf(Word(c), mod) = c
         /\ \A c \in Unsigned(mod) : Word(c) % mod = c
         /\ \A c \in Int : Word(c) \in Unsigned(RegMod)
         /\ \A c \in Int : SignedOf(c, mod) \in Signed(mod)
<1> DEFINE half == mod \div 2
<1>0. /\ mod \in Nat \ {0} /\ half \in Nat /\ mod = half + half /\ mod <= RegMod
      /\ RegMod \in Nat \ {0} /\ RegMod % mod = 0
  BY Mods
<1>1. \A c \in Signed(mod) : c \in -half .. half - 1
  BY DEF Signed
<1>2. ASSUME NEW c \in -half .. half - 1 PROVE SignedOf(Word(c), mod) = c
  <2> HIDE DEF half
  <2>1. CASE c >= 0
    <3>1. c \in 0..mod - 1 /\ c \in 0..RegMod - 1
      BY <1>0, <2>1
    <3>2. Word(c) = c
      BY <1>0, <3>1, Turns DEF Word
    <3>3. c % mod = c
      BY <1>0, <3>1, Turns
    <3> QED BY <1>0, <3>2, <3>3 DEF SignedOf, half
  <2>2. CASE c < 0
    <3>1. c \in -mod .. -1 /\ c \in -RegMod .. -1 /\ c \in Int
      BY <1>0, <2>2
    <3>2. Word(c) = c + RegMod
      BY <1>0, <3>1, Turns DEF Word
    <3>3. (c + RegMod) % mod = c + mod
      <4>1. (c + RegMod) % mod = c % mod
        BY <1>0, <3>1, Residue
      <4>2. c % mod = c + mod
        BY <1>0, <3>1, Turns
      <4> QED BY <4>1, <4>2
    <3>4. c + mod >= half
      BY <1>0
    <3>5. SignedOf(Word(c), mod) = (c + mod) - mod
      BY <1>0, <3>2, <3>3, <3>4 DEF SignedOf, half
    <3> QED BY <1>0, <3>5
  <2> QED BY <1>0, <2>1, <2>2
<1>3. ASSUME NEW c \in Unsigned(mod) PROVE Word(c) % mod = c
  <2>1. c \in 0..mod - 1 /\ c \in 0..RegMod - 1
    BY <1>0 DEF Unsigned
  <2>2. Word(c) = c
    BY <1>0, <2>1, Turns DEF Word
  <2> QED BY <1>0, <2>1, <2>2, Turns
<1>4. ASSUME NEW c \in Int PROVE Word(c) \in Unsigned(RegMod)
  BY <1>0 DEF Word, Unsigned
<1>5. ASSUME NEW c \in Int PROVE SignedOf(c, mod) \in Signed(mod)
  <2>1. c % mod \in 0..mod - 1
    BY <1>0
  <2> QED BY <1>0, <2>1 DEF SignedOf, Signed
<1> QED BY <1>1, <1>2, <1>3, <1>4, <1>5

(* What the guest reads in the width of the type is the number.            *)
LEMMA ReadsBack ==
  ASSUME NEW type \in DOMAIN Numbers, NEW n \in Numbers[type]
  PROVE  n \in Int /\ Word(n) \in Unsigned(RegMod) /\ GuestReads(type, Word(n)) = n
<1> USE DEF GuestReads
<1>0. n \in Int
  <2>1. \A mod \in {ByteMod, ShortMod, IntMod, RegMod} :
          Signed(mod) \subseteq Int /\ Unsigned(mod) \subseteq Int
    BY Mods DEF Signed, Unsigned
  <2>2. Numbers[type] = {0, 1} \/ \E mod \in {ByteMod, ShortMod, IntMod, RegMod} :
          Numbers[type] = Signed(mod) \/ Numbers[type] = Unsigned(mod)
    BY DEF Numbers
  <2> QED BY <2>1, <2>2
<1>1. \A mod \in {ByteMod, ShortMod, IntMod, RegMod} :
        /\ n \in Signed(mod) => SignedOf(Word(n), mod) = n
        /\ n \in Unsigned(mod) => Word(n) % mod = n
  BY WordKeeps
<1>2. CASE type = "Boolean"
  <2>1. n \in Unsigned(ByteMod)
    BY <1>2, Mods, WidthsAssumption DEF Numbers, Unsigned
  <2> QED BY <1>0, <1>1, <1>2, <2>1, WordKeeps
<1>3. CASE type = "Byte"
  BY <1>0, <1>1, <1>3, WordKeeps DEF Numbers
<1>4. CASE type = "Char"
  BY <1>0, <1>1, <1>4, WordKeeps DEF Numbers
<1>5. CASE type = "Short"
  BY <1>0, <1>1, <1>5, WordKeeps DEF Numbers
<1>6. CASE type = "Int"
  BY <1>0, <1>1, <1>6, WordKeeps DEF Numbers
<1>7. CASE type = "Long"
  BY <1>0, <1>1, <1>7, WordKeeps DEF Numbers
<1>8. CASE type = "Float"
  BY <1>0, <1>1, <1>8, WordKeeps DEF Numbers
<1>9. CASE type = "Double"
  <2>1. n \in Unsigned(RegMod)
    BY <1>9 DEF Numbers
  <2>2. Word(n) = n
    BY <1>0, <2>1, Mods, Turns DEF Word, Unsigned
  <2> QED BY <1>0, <1>9, <2>2, WordKeeps
<1> QED BY <1>2, <1>3, <1>4, <1>5, <1>6, <1>7, <1>8, <1>9 DEF Numbers
-----------------------------------------------------------------------------
(* What a handler can return, by its type.                                 *)
IsValue(v) ==
  \/ v = <<"Null", 0>> \/ v = <<"Void", 0>>
  \/ \E s : v = <<"Object", s>>
  \/ \E type \in DOMAIN Numbers : \E n \in Numbers[type] : v = <<type, n>>

LEMMA JValuesAreValues == \A v \in JValues : IsValue(v)
BY DEF JValues, IsValue, Null, JValue

(* What a Python method returns, or is handed, is marshalled to a number   *)
(* in the range of its type.                                               *)
LEMMA Marshalled ==
  ASSUME NEW v \in PyValues, ToJValue(v) # NotMarshalled
  PROVE  IsValue(ToJValue(v))
<1>0. RegMod - 2 \in Unsigned(RegMod) /\ \A f \in {0, RegMod - 1} : f \in Unsigned(RegMod)
  BY Mods DEF Unsigned
<1> USE DEF ToJValue, Type, Carried, Py, JValue
<1>1. CASE v = <<"None", 0>>
  BY <1>1 DEF IsValue, Null
<1>2. CASE \E b \in {0, 1} : v = <<"bool", b>>
  BY <1>2 DEF IsValue, Numbers
<1>3. CASE \E n \in Ints : v = <<"int", n>>
  <2>1. PICK n : v = <<"int", n>>
    BY <1>3
  <2>2. \/ ToJValue(v) = <<"Int", n>> /\ n \in Signed(IntMod)
        \/ ToJValue(v) = <<"Long", n>> /\ n \in Signed(RegMod)
        \/ ToJValue(v) = <<"Double", Rounded>>
    <3> HIDE DEF Py
    <3> QED BY <2>1
  <2>3. Rounded \in Unsigned(RegMod)
    BY <1>0 DEF Rounded
  <2> QED BY <2>2, <2>3 DEF IsValue, Numbers
<1>4. CASE \E f \in {0, RegMod - 1} : v = <<"float", f>>
  <2>1. PICK f \in {0, RegMod - 1} : v = <<"float", f>>
    BY <1>4
  <2>2. f \in Unsigned(RegMod)
    BY <1>0
  <2>3. ToJValue(v) = <<"Double", f>>
    BY <2>1
  <2> QED BY <2>2, <2>3 DEF IsValue, Numbers
<1>5. CASE \E t : v = <<"str", t>>
  BY <1>5 DEF IsValue
<1>6. CASE \E t : v = <<"bytes", t>> \/ v = <<"list", t>>
  BY <1>6 DEF IsValue
<1>7. CASE \E s : v = <<"object", s>>
  BY <1>7 DEF IsValue
<1>8. CASE v = <<"other", 0>>
  BY <1>8
<1>9. \/ v = <<"None", 0>> \/ v = <<"other", 0>> \/ \E b \in {0, 1} : v = <<"bool", b>>
      \/ \E n \in Ints : v = <<"int", n>>
      \/ \E f \in {0, RegMod - 1} : v = <<"float", f>>
      \/ \E t : v = <<"str", t>>
      \/ \E t : v = <<"bytes", t>> \/ v = <<"list", t>>
      \/ \E s : v = <<"object", s>>
  BY DEF PyValues, PyNone
<1> QED BY <1>1, <1>2, <1>3, <1>4, <1>5, <1>6, <1>7, <1>8, <1>9

(* The three words a guest passes are longs.                               *)
LEMMA VarArgsAre ==
  ASSUME NEW words \in [1..3 -> Unsigned(RegMod)], NEW arity \in Nat
  PROVE  LET args == VarArgs(words, arity)
         IN /\ args \in Seq({<<"Long", n>> : n \in Signed(RegMod)})
            /\ Len(args) <= arity
<1> DEFINE raw == [k \in 1..3 |-> <<"Long", SignedOf(words[k], RegMod)>>]
           L == {<<"Long", n>> : n \in Signed(RegMod)}
           last == IF arity < 3 THEN arity ELSE 3
<1>1. \A k \in 1..3 : SignedOf(words[k], RegMod) \in Signed(RegMod)
  <2>1. \A k \in 1..3 : words[k] \in Int
    BY WidthsAssumption DEF Unsigned
  <2> QED BY <2>1, WordKeeps
<1>2. \A k \in 1..3 : raw[k] \in L
  BY <1>1
<1>3. VarArgs(words, arity) = SubSeq(raw, 1, last)
  BY DEF VarArgs, JValue
<1>4. last \in 0..3 /\ last <= arity
  OBVIOUS
<1> HIDE DEF raw, L, last
<1>5. SubSeq(raw, 1, last) \in Seq(L) /\ Len(SubSeq(raw, 1, last)) = last
  <2>1. \A k \in 1..last : raw[k] \in L
    <3>1. 1..last \subseteq 1..3
      BY <1>4
    <3> QED BY <1>2, <3>1
  <2> QED BY <1>4, <2>1, SubSeqProperties
<1> QED BY <1>3, <1>4, <1>5 DEF L

(* So what a call answers is a value, or a failure.                        *)
LEMMA CallGives ==
  ASSUME NEW m \in Methods, NEW words \in [1..3 -> Unsigned(RegMod)],
         Handler(m, VarArgs(words, Len(m.args))) # Failed
  PROVE  IsValue(Handler(m, VarArgs(words, Len(m.args))))
<1> DEFINE args == VarArgs(words, Len(m.args))
           saw == ArgsToPy(args)
           returned == IF m.gives = Echo THEN saw[1] ELSE m.gives
<1>1. Len(m.args) \in Nat
  BY CallAssumption
<1>2. args \in Seq({<<"Long", n>> : n \in Signed(RegMod)}) /\ Len(args) <= Len(m.args)
  BY <1>1, VarArgsAre
<1> HIDE DEF args
<1>3. CASE m.python
  <2>1. Handler(m, args) = PythonGives(m, args)
    BY <1>3 DEF Handler
  <2>2. PythonGives(m, args) = ToJValue(returned) /\ m.gives # Raise /\ Len(args) = Len(m.args)
    BY <1>3, <2>1, PythonAnswers DEF args
  <2>3. returned \in PyValues
    <3>1. CASE m.gives = Echo
      <4>1. 1 \in 1..Len(args)
        BY <1>1, <1>3, <2>2, <3>1, CallAssumption
      <4>2. PICK n \in Signed(RegMod) : args[1] = <<"Long", n>>
        BY <1>2, <4>1
      <4>3. saw[1] = Py("int", n)
        <5>1. saw[1] = ToPy(args[1])
          BY <1>2, <4>1 DEF ArgsToPy
        <5> QED BY <4>2, <5>1 DEF ToPy, Type, Carried
      <4>4. n \in Ints
        BY WidthsAssumption DEF Signed, Ints
      <4> QED BY <3>1, <4>3, <4>4 DEF PyValues
    <3>2. CASE m.gives # Echo
      BY <1>3, <2>2, <3>2, CallAssumption
    <3> QED BY <3>1, <3>2
  <2>4. ToJValue(returned) # NotMarshalled
    BY <2>1, <2>2 DEF Failed, args
  <2> HIDE DEF returned
  <2> QED BY <2>1, <2>2, <2>3, <2>4, Marshalled DEF args
<1>4. CASE ~m.python
  <2>1. Handler(m, args) = RustGives(m, args)
    BY <1>4 DEF Handler
  <2>2. RustGives(m, args) = Failed \/ (RustGives(m, args) = m.gives /\ m.gives # Raise)
    BY DEF RustGives
  <2> QED BY <1>4, <2>1, <2>2, CallAssumption, JValuesAreValues DEF args
<1> QED BY <1>3, <1>4

(* In x0 a value of the type of the slot is the one the guest reads.       *)
LEMMA RegisterKeeps ==
  ASSUME NEW type \in AllTypes, NEW v, IsValue(v), Fits(type, v)
  PROVE  /\ Register(type, v) \in Unsigned(RegMod)
         /\ CASE type = "Void" -> TRUE
              [] type = "Object" -> /\ TypeOf(v) = "Object"
                                    /\ (Register(type, v) = 0) = (v = Null)
              [] OTHER -> /\ TypeOf(v) = type
                          /\ GuestReads(type, Register(type, v)) = Carried(v)
<1>1. 0 \in Unsigned(RegMod) /\ Handle \in Unsigned(RegMod)
  BY Mods DEF Unsigned, Handle
<1>2. CASE type = "Void"
  BY <1>1, <1>2 DEF Register
<1>3. CASE type = "Object"
  BY <1>1, <1>3 DEF Register, Fits, TypeOf, Handle, Type
<1>4. CASE type \in DOMAIN Numbers
  <2>1. v[1] = type
    BY <1>4 DEF Fits, Type, Numbers
  <2>2. PICK n \in Numbers[type] : v = <<type, n>>
    BY <1>4, <2>1 DEF IsValue, Numbers
  <2>3. Register(type, v) = Word(n) /\ Carried(v) = n /\ TypeOf(v) = type
    BY <1>4, <2>2 DEF Register, Widen, Carried, TypeOf, Type, Numbers
  <2>4. Word(n) \in Unsigned(RegMod) /\ GuestReads(type, Word(n)) = n
    BY <1>4, ReadsBack
  <2>5. type # "Void" /\ type # "Object"
    BY <1>4 DEF Numbers
  <2> QED BY <2>3, <2>4, <2>5
<1>5. type \in {"Void", "Object"} \cup DOMAIN Numbers
  BY DEF AllTypes, CallTypes, Numbers
<1> QED BY <1>2, <1>3, <1>4, <1>5
-----------------------------------------------------------------------------
CallNames == {"Call", "CallStatic"}

(* The slot of a call has one arm.                                         *)
LEMMA OneArm ==
  ASSUME NEW i, NEW f \in Arm(i), NEW g \in Arm(i), f[1] \in CallNames
  PROVE  g = f /\ f[2] \in AllTypes
<1> DEFINE P == UNION {Plain(Lookup), Plain(Objects), Plain(Fields), Plain(Others), Plain(Refused)}
           Slots == {4, 6, 33, 113, 94, 187, 27, 28, 31, 167, 21, 22, 23, 25, 95, 100, 105, 108,
                     15, 17, 215, 169, 219}
           Static == {1, 2, 6, 7, 10}
<1>1. \A e \in P : e[1] \in Slots /\ e[2][1] \notin CallNames
  <2>0. ASSUME NEW r, \A n \in DOMAIN r : r[n] \in Slots /\ n \notin CallNames
        PROVE  \A e \in Plain(r) : e[1] \in Slots /\ e[2][1] \notin CallNames
    <3> HIDE DEF Slots
    <3> SUFFICES ASSUME NEW e \in Plain(r) PROVE e[1] \in Slots /\ e[2][1] \notin CallNames
      OBVIOUS
    <3>1. PICK n \in DOMAIN r : e = <<r[n], <<n, "">>>>
      BY DEF Plain
    <3>2. e[1] = r[n] /\ e[2][1] = n
      BY <3>1
    <3> QED BY <2>0, <3>2
  <2>1. \A e \in Plain(Lookup) : e[1] \in Slots /\ e[2][1] \notin CallNames
    <3>1. \A n \in DOMAIN Lookup : Lookup[n] \in Slots /\ n \notin CallNames
      BY DEF Lookup, CallNames
    <3> HIDE DEF Slots
    <3> QED BY <2>0, <3>1
  <2>2. \A e \in Plain(Objects) : e[1] \in Slots /\ e[2][1] \notin CallNames
    <3>1. \A n \in DOMAIN Objects : Objects[n] \in Slots /\ n \notin CallNames
      BY DEF Objects, CallNames
    <3> HIDE DEF Slots
    <3> QED BY <2>0, <3>1
  <2>3. \A e \in Plain(Fields) : e[1] \in Slots /\ e[2][1] \notin CallNames
    <3>1. \A n \in DOMAIN Fields : Fields[n] \in Slots /\ n \notin CallNames
      BY DEF Fields, CallNames
    <3> HIDE DEF Slots
    <3> QED BY <2>0, <3>1
  <2>4. \A e \in Plain(Others) : e[1] \in Slots /\ e[2][1] \notin CallNames
    <3>1. \A n \in DOMAIN Others : Others[n] \in Slots /\ n \notin CallNames
      BY DEF Others, CallNames
    <3> HIDE DEF Slots
    <3> QED BY <2>0, <3>1
  <2>5. \A e \in Plain(Refused) : e[1] \in Slots /\ e[2][1] \notin CallNames
    <3>1. \A n \in DOMAIN Refused : Refused[n] \in Slots /\ n \notin CallNames
      BY DEF Refused, CallNames
    <3> HIDE DEF Slots
    <3> QED BY <2>0, <3>1
  <2> HIDE DEF Slots
  <2> QED BY <2>1, <2>2, <2>3, <2>4, <2>5
<1>2. ASSUME NEW e \in Calls(AllTypes)
      PROVE  \E k \in 1..10 : e = <<34 + 3 * (k - 1), <<"Call", CallTypes[k]>>>>
  <2>1. DOMAIN CallTypes = 1..10
    BY DEF CallTypes
  <2> QED BY <2>1 DEF Calls, CallSlot
<1>3. ASSUME NEW e \in StaticCalls({"Void", "Int", "Object", "Boolean", "Long"})
      PROVE  \E k \in Static : e = <<198 + 3 * (k - 1), <<"CallStatic", CallTypes[k]>>>>
  <2>1. DOMAIN CallTypes = 1..10
    BY DEF CallTypes
  <2>2. \A k \in 1..10 : CallTypes[k] \in {"Void", "Int", "Object", "Boolean", "Long"} => k \in Static
    BY DEF CallTypes
  <2>3. PICK k \in 1..10 : /\ CallTypes[k] \in {"Void", "Int", "Object", "Boolean", "Long"}
                          /\ e = <<198 + 3 * (k - 1), <<"CallStatic", CallTypes[k]>>>>
    BY <2>1 DEF StaticCalls, CallStaticSlot
  <2> QED BY <2>2, <2>3
<1>4. \A k \in 1..10 : CallTypes[k] \in AllTypes
  BY DEF AllTypes, CallTypes
<1> DEFINE IsPlain(e) == e[1] \in Slots /\ e[2][1] \notin CallNames
           IsCall(e) == \E k \in 1..10 : e = <<34 + 3 * (k - 1), <<"Call", CallTypes[k]>>>>
           IsStatic(e) == \E k \in Static :
                            e = <<198 + 3 * (k - 1), <<"CallStatic", CallTypes[k]>>>>
<1>5. \A e \in Arms : IsPlain(e) \/ IsCall(e) \/ IsStatic(e)
  <2>1. \A e \in Arms : \/ e \in P \/ e \in Calls(AllTypes)
                       \/ e \in StaticCalls({"Void", "Int", "Object", "Boolean", "Long"})
    BY DEF Arms
  <2> QED BY <1>1, <1>2, <1>3, <2>1
<1>6. PICK a \in Arms : a[1] = i /\ f = a[2]
  BY DEF Arm
<1>7. PICK b \in Arms : b[1] = i /\ g = b[2]
  BY DEF Arm
<1> HIDE DEF P
<1>8. ASSUME NEW k \in 1..10, a = <<34 + 3 * (k - 1), <<"Call", CallTypes[k]>>>> PROVE a = b
  <2>1. a[1] = 34 + 3 * (k - 1) /\ b[1] = 34 + 3 * (k - 1)
    BY <1>6, <1>7, <1>8
  <2>2. ~IsPlain(b)
    BY <2>1
  <2>3. ~IsStatic(b)
    BY <2>1
  <2>4. PICK j \in 1..10 : b = <<34 + 3 * (j - 1), <<"Call", CallTypes[j]>>>>
    BY <1>5, <2>2, <2>3
  <2>5. j = k
    BY <2>1, <2>4
  <2> QED BY <1>8, <2>4, <2>5
<1>9. ASSUME NEW k \in Static, a = <<198 + 3 * (k - 1), <<"CallStatic", CallTypes[k]>>>> PROVE a = b
  <2>1. a[1] = 198 + 3 * (k - 1) /\ b[1] = 198 + 3 * (k - 1)
    BY <1>6, <1>7, <1>9
  <2>2. ~IsPlain(b)
    BY <2>1
  <2>3. ~IsCall(b)
    BY <2>1
  <2>4. PICK j \in Static : b = <<198 + 3 * (j - 1), <<"CallStatic", CallTypes[j]>>>>
    BY <1>5, <2>2, <2>3
  <2>5. j = k
    BY <2>1, <2>4
  <2> QED BY <1>9, <2>4, <2>5
<1>10. IsCall(a) \/ IsStatic(a)
  BY <1>5, <1>6
<1>11. CASE IsCall(a)
  BY <1>4, <1>6, <1>7, <1>8, <1>11
<1>12. CASE IsStatic(a)
  BY <1>4, <1>6, <1>7, <1>9, <1>12
<1> QED BY <1>10, <1>11, <1>12
-----------------------------------------------------------------------------
(* The state, and the call under way.                                      *)
CallInv ==
  /\ call.slot \in 0..231 /\ call.entries \subseteq Bindable
  /\ call.words \in [1..3 -> Unsigned(RegMod)] /\ call.method \in Methods \cup {NoMethod}
  /\ answer.x0 \in Unsigned(RegMod) /\ answer.ok \in BOOLEAN
  /\ attached \in BOOLEAN /\ natives \subseteq Bindable
  /\ out \in {NoEnv, EnvBase}
  /\ pc # Back => out = NoEnv

Sound == CallInv /\ EnvHeldByAttached /\ ResultFaithful

(* What the guest or Python may ask for.                                   *)
IsFrame(f) ==
  /\ f.slot \in 0..231 /\ f.entries \subseteq Bindable
  /\ f.words \in [1..3 -> Unsigned(RegMod)] /\ f.method \in Methods \cup {NoMethod}

LEMMA Blank ==
  ASSUME NEW by, NEW i \in 0..231
  PROVE  IsFrame(Frame(by, i)) /\ Frame(by, i).by = by
<1>1. <<0, 0, 0>> \in [1..3 -> Unsigned(RegMod)]
  <2>1. 0 \in Unsigned(RegMod)
    BY Mods DEF Unsigned
  <2> HIDE DEF Unsigned
  <2> QED BY <2>1
<1> QED BY <1>1 DEF IsFrame, Frame

LEMMA FramesAre ==
  /\ \A i \in 0..231 : \A f \in EnvFrames(i) : IsFrame(f)
  /\ \A i \in 0..7 : \A f \in InvokeFrames(i) : IsFrame(f)
<1>1. ASSUME NEW i \in 0..231, NEW f \in EnvFrames(i) PROVE IsFrame(f)
  <2>0. IsFrame(Frame("env", i))
    BY Blank
  <2>1. f \in CallFrames(i) \/ f \in BindFrames(i) \/ f = Frame("env", i)
    BY Zenon DEF EnvFrames
  <2>2. CASE f \in CallFrames(i)
    <3>1. PICK p \in (Methods \cup {NoMethod}) \X ArgWords :
            f = [Frame("env", i) EXCEPT !.method = p[1], !.words = p[2]]
      BY <2>2 DEF CallFrames
    <3>2. p[1] \in Methods \cup {NoMethod} /\ p[2] \in [1..3 -> Unsigned(RegMod)]
      BY <3>1, CallAssumption
    <3>3. /\ f.slot = i /\ f.entries = {} /\ f.words = p[2] /\ f.method = p[1]
      BY <3>1 DEF Frame
    <3> QED BY <3>2, <3>3 DEF IsFrame
  <2>3. CASE f \in BindFrames(i)
    <3>1. PICK p \in {<<0, {}>>, <<1, {}>>} \cup {<<1, {m}>> : m \in Bindable} :
            f = [Frame("env", i) EXCEPT !.count = p[1], !.entries = p[2]]
      BY <2>3 DEF BindFrames
    <3>2. p[2] \subseteq Bindable
      BY <3>1
    <3>3. /\ f.slot = i /\ f.entries = p[2]
          /\ f.words = Frame("env", i).words /\ f.method = Frame("env", i).method
      BY <3>1 DEF Frame
    <3> QED BY <2>0, <3>2, <3>3 DEF IsFrame
  <2> QED BY <2>0, <2>1, <2>2, <2>3
<1>2. ASSUME NEW i \in 0..7, NEW f \in InvokeFrames(i) PROVE IsFrame(f)
  <2>0. IsFrame(Frame("vm", i))
    BY Blank
  <2>1. PICK p : f = [Frame("vm", i) EXCEPT !.version = p[1], !.writable = p[2]]
    BY DEF InvokeFrames
  <2>2. /\ f.slot = Frame("vm", i).slot /\ f.entries = Frame("vm", i).entries
        /\ f.words = Frame("vm", i).words /\ f.method = Frame("vm", i).method
    BY <2>1 DEF Frame
  <2> QED BY <2>0, <2>2 DEF IsFrame
<1> QED BY <1>1, <1>2

(* Small answers.                                                          *)
LEMMA Words ==
  /\ {0, 6, Handle, JNI_ERR, EDETACHED, EVERSION} \subseteq Unsigned(RegMod)
  /\ EDETACHED \notin {0, JNI_ERR, EVERSION} /\ JNI_ERR # 0 /\ EVERSION # 0
BY Mods DEF Unsigned, Handle, JNI_ERR, EDETACHED, EVERSION

LEMMA InitSound == Init => Sound
<1> SUFFICES ASSUME Init PROVE Sound
  OBVIOUS
<1>1. IsFrame(call) /\ call.by = "none"
  BY Blank DEF Init
<1>2. CallInv
  BY <1>1, Words DEF Init, CallInv, IsFrame, None
<1> QED BY <1>1, <1>2 DEF Init, Sound, EnvHeldByAttached, ResultFaithful, Guest, Back

LEMMA GuestCallsSound == Sound /\ GuestCalls => Sound'
<1> SUFFICES ASSUME Sound, GuestCalls PROVE Sound'
  OBVIOUS
<1>1. IsFrame(call') /\ pc' > Guest /\ pc' \in Int
  <2>1. CASE \E i \in 0..EnvSize - 1 : \E f \in EnvFrames(i) : call' = f /\ pc' = Pointer(Env, i)
    <3>1. PICK i \in 0..231 : \E f \in EnvFrames(i) : call' = f /\ pc' = Pointer(Env, i)
      BY <2>1 DEF EnvSize
    <3>2. pc' = EnvBase + 8192 + 4 * i
      BY <3>1, EnvRoundTrip
    <3> QED BY <3>1, <3>2, FramesAre, EnvBaseAssumption DEF Guest
  <2>2. CASE \E i \in 0..InvokeSize - 1 : \E f \in InvokeFrames(i) : call' = f /\ pc' = Pointer(VM, i)
    <3>1. PICK i \in 0..7 : \E f \in InvokeFrames(i) : call' = f /\ pc' = Pointer(VM, i)
      BY <2>2 DEF InvokeSize
    <3>2. pc' = EnvBase + 20480 + 4 * i
      BY <3>1, InvokeRoundTrip
    <3> QED BY <3>1, <3>2, FramesAre, EnvBaseAssumption DEF Guest
  <2>3. CASE \E a \in Astray : call' = Frame("stray", 0) /\ pc' = a
    <3>1. pc' \in LastTrampoline(Env) + 1 .. VM.tramp - 1 /\ call' = Frame("stray", 0)
      BY <2>3, CallAssumption
    <3>2. pc' > Guest /\ pc' \in Int
      BY <3>1, Ends, LayoutIs, EnvBaseAssumption DEF Guest
    <3> QED BY <3>1, <3>2, Blank
  <2> QED BY <2>1, <2>2, <2>3 DEF GuestCalls
<1>2. pc' # Back
  BY <1>1 DEF Guest, Back
<1>3. UNCHANGED <<answer, out, attached, natives>> /\ out = NoEnv
  BY DEF GuestCalls, Sound, CallInv, Guest, Back
<1>4. CallInv'
  BY <1>1, <1>3 DEF Sound, CallInv, IsFrame
<1> QED BY <1>2, <1>4 DEF Sound, EnvHeldByAttached, ResultFaithful

(* An answer that is no value of a call: what it leaves is in order.       *)
LEMMA PlainAnswer ==
  ASSUME Sound, IInv, AtEnv, call' = call, pc' = Back,
         answer'.x0 \in Unsigned(RegMod), answer'.ok \in BOOLEAN,
         \A f \in answer'.ran : answer'.ok => f[1] \notin CallNames,
         UNCHANGED <<attached, out>>, natives' \subseteq Bindable
  PROVE  Sound'
<1>1. call'.by = "env"
  BY AtEnvIs
<1>2. CallInv'
  BY DEF Sound, CallInv
<1>3. EnvHeldByAttached'
  BY <1>1 DEF EnvHeldByAttached
<1>4. ResultFaithful'
  BY DEF ResultFaithful, CallNames
<1> QED BY <1>2, <1>3, <1>4 DEF Sound

(* An arm that is not one of the calls returns a small word, or fails.     *)
LEMMA ArmAnswer ==
  ASSUME Sound, IInv, NEW names, names \cap CallNames = {}, InArm(names),
         \/ \E w \in {0, 6, Handle, JNI_ERR} : Return(Arm(EnvSlot), w)
         \/ Fail(Arm(EnvSlot)),
         UNCHANGED <<attached, out>>, natives' \subseteq Bindable
  PROVE  Sound'
<1>1. AtEnv /\ \E f \in Arm(EnvSlot) : f[1] \in names
  BY DEF InArm
<1>2. \A f \in Arm(EnvSlot) : f[1] \notin CallNames
  BY <1>1, OneArm
<1>3. /\ answer'.ran = Arm(EnvSlot) /\ pc' = Back /\ call' = call
      /\ answer'.x0 \in {0, 6, Handle, JNI_ERR} /\ answer'.ok \in BOOLEAN
  BY DEF Return, Fail, None
<1> QED BY <1>1, <1>2, <1>3, Words, PlainAnswer

(* An answer to a call through the vm: the env pointer and the word.       *)
LEMMA InvokeAnswer ==
  ASSUME Sound, IInv, AtVM, call' = call, pc' = Back,
         answer'.x0 \in {0, JNI_ERR, EDETACHED, EVERSION}, answer'.ok \in BOOLEAN,
         attached' \in BOOLEAN, natives' = natives, out' \in {NoEnv, EnvBase},
         call.slot \in {GetEnv, Attach} =>
           /\ (out' = EnvBase) = (answer'.x0 = 0)
           /\ out' = EnvBase => attached'
           /\ (call.slot = GetEnv /\ out' = EnvBase) => call.version \in SupportedVersions
           /\ answer'.x0 = EDETACHED => ~attached'
  PROVE  Sound'
<1>1. call'.by = "vm"
  BY AtVMIs
<1>2. CallInv'
  BY Words DEF Sound, CallInv
<1>3. EnvHeldByAttached'
  <2>1. Env.ptr = EnvBase
    BY LayoutIs
  <2> QED BY <2>1 DEF EnvHeldByAttached
<1>4. ResultFaithful'
  BY <1>1 DEF ResultFaithful
<1> QED BY <1>2, <1>3, <1>4 DEF Sound

(* Hand, and what the guest holds after it.                                *)
LEMMA Handed ==
  ASSUME Hand(Env.ptr), out = NoEnv
  PROVE  /\ pc' = Back /\ call' = call /\ answer'.ok \in BOOLEAN
         /\ answer'.x0 \in {0, JNI_ERR} /\ out' \in {NoEnv, EnvBase}
         /\ (out' = EnvBase) = (answer'.x0 = 0)
<1>1. CASE call.writable
  <2>1. out' = EnvBase /\ Return({<<InvokeSlot>>}, 0)
    BY <1>1, LayoutIs DEF Hand
  <2>2. answer'.x0 = 0 /\ answer'.ok = TRUE /\ pc' = Back /\ call' = call
    BY <2>1 DEF Return, None
  <2> QED BY <2>1, <2>2
<1>2. CASE ~call.writable
  <2>1. NoEnv # EnvBase
    BY EnvBaseAssumption DEF NoEnv
  <2>2. out' = out /\ Fail({<<InvokeSlot>>})
    BY <1>2 DEF Hand
  <2>3. answer'.x0 = JNI_ERR /\ answer'.ok = FALSE /\ pc' = Back /\ call' = call
    BY <2>2 DEF Fail, None
  <2> QED BY <2>1, <2>2, <2>3, Words
<1> QED BY <1>1, <1>2

LEMMA CallMethodSound == Sound /\ IInv /\ CallMethod => Sound'
<1> SUFFICES ASSUME Sound, IInv, CallMethod PROVE Sound'
  OBVIOUS
<1>1. AtEnv
  BY DEF CallMethod, InArm
<1>2. PICK f \in Arm(EnvSlot) :
        LET v == Called(call.method, f[1] = "CallStatic", call.words)
        IN IF v = Failed \/ ~Fits(f[2], v)
             THEN Fail(Arm(EnvSlot))
             ELSE /\ answer' = [None EXCEPT !.ran = Arm(EnvSlot), !.x0 = Register(f[2], v),
                                            !.value = v,
                                            !.saw = ArgsToPy(VarArgs(call.words, Len(call.method.args)))]
                  /\ pc' = Back
                  /\ UNCHANGED call
  BY DEF CallMethod
<1> DEFINE v == Called(call.method, f[1] = "CallStatic", call.words)
<1>3. /\ call.method \in Methods \cup {NoMethod} /\ call.words \in [1..3 -> Unsigned(RegMod)]
      /\ natives \subseteq Bindable /\ UNCHANGED <<attached, out, natives>>
  BY DEF Sound, CallInv, CallMethod
<1>4. f[1] \in CallNames /\ f[2] \in AllTypes /\ \A g \in Arm(EnvSlot) : g = f
  <2>1. PICK h \in Arm(EnvSlot) : h[1] \in CallNames
    BY DEF CallMethod, InArm, CallNames
  <2>2. f = h
    BY <2>1, OneArm
  <2> QED BY <2>1, <2>2, OneArm
<1>5. CASE v = Failed \/ ~Fits(f[2], v)
  <2>1. Fail(Arm(EnvSlot))
    BY <1>2, <1>5
  <2>2. /\ pc' = Back /\ call' = call /\ answer'.ok = FALSE /\ answer'.x0 = JNI_ERR
    BY <2>1 DEF Fail, None
  <2> QED BY <1>1, <1>3, <2>2, Words, PlainAnswer
<1>6. CASE ~(v = Failed \/ ~Fits(f[2], v))
  <2>1. /\ answer'.ran = Arm(EnvSlot) /\ answer'.x0 = Register(f[2], v) /\ answer'.value = v
        /\ answer'.ok = TRUE /\ pc' = Back /\ call' = call
    <3> HIDE DEF v
    <3> QED BY <1>2, <1>6 DEF None, v
  <2>2. IsValue(v)
    <3>1. v = Handler(call.method, VarArgs(call.words, Len(call.method.args))) /\ call.method \in Methods
      BY <1>3, <1>6 DEF Called, Found
    <3> QED BY <1>3, <1>6, <3>1, CallGives
  <2> HIDE DEF v
  <2>3. /\ Register(f[2], v) \in Unsigned(RegMod)
        /\ CASE f[2] = "Void" -> TRUE
             [] f[2] = "Object" -> /\ TypeOf(v) = "Object"
                                   /\ (Register(f[2], v) = 0) = (v = Null)
             [] OTHER -> /\ TypeOf(v) = f[2]
                         /\ GuestReads(f[2], Register(f[2], v)) = Carried(v)
    BY <1>4, <1>6, <2>2, RegisterKeeps
  <2>4. CallInv'
    BY <1>3, <2>1, <2>3 DEF Sound, CallInv
  <2>5. EnvHeldByAttached'
    <3>1. call'.by = "env"
      BY <1>1, <2>1, AtEnvIs
    <3> QED BY <3>1 DEF EnvHeldByAttached
  <2>6. ResultFaithful'
    BY <1>4, <2>1, <2>3 DEF ResultFaithful
  <2> QED BY <2>4, <2>5, <2>6 DEF Sound
<1> QED BY <1>5, <1>6

LEMMA HookSound == Sound /\ IInv /\ HookAnswers => Sound'
<1> SUFFICES ASSUME Sound, IInv, HookAnswers PROVE Sound'
  OBVIOUS
<1>0. natives \subseteq Bindable /\ attached \in BOOLEAN /\ call.entries \subseteq Bindable
  BY DEF Sound, CallInv
<1>1. CASE NotBridged
  <2>1. /\ answer'.ran = {} /\ answer'.x0 = JNI_ERR /\ answer'.ok \in BOOLEAN
        /\ pc' = Back /\ call' = call /\ UNCHANGED <<attached, out, natives>>
    BY <1>1 DEF NotBridged, Fail, None
  <2> QED BY <1>0, <1>1, <2>1, Words, PlainAnswer DEF NotBridged
<1>2. CASE GetVersion
  <2>1. {"GetVersion"} \cap CallNames = {}
    BY DEF CallNames
  <2> QED BY <1>0, <1>2, <2>1, ArmAnswer DEF GetVersion
<1>3. CASE Exceptions
  <2>1. {"ExceptionOccurred", "ExceptionClear"} \cap CallNames = {}
    BY DEF CallNames
  <2> QED BY <1>0, <1>3, <2>1, ArmAnswer DEF Exceptions
<1>4. CASE NotYet
  <2>1. ({"AllocObject"} \cup DOMAIN Fields) \cap CallNames = {}
    BY DEF CallNames, Fields
  <2> QED BY <1>0, <1>4, <2>1, ArmAnswer DEF NotYet
<1>5. CASE Resolves
  <2>1. ((DOMAIN Lookup \cup DOMAIN Objects) \ {"GetVersion", "AllocObject"}) \cap CallNames = {}
    BY DEF CallNames, Lookup, Objects
  <2> QED BY <1>0, <1>5, <2>1, ArmAnswer DEF Resolves
<1>6. CASE CallMethod
  BY <1>6, CallMethodSound
<1>7. CASE RegisterNatives
  <2>1. {"RegisterNatives"} \cap CallNames = {}
    BY DEF CallNames
  <2> QED BY <1>0, <1>7, <2>1, ArmAnswer DEF RegisterNatives
<1>8. ASSUME AtVM PROVE InvokeSlot = call.slot /\ out = NoEnv
  <2>1. pc # Back
    BY <1>8, LayoutIs, EnvBaseAssumption DEF AtVM, Back, IInv, PcInv
  <2> QED BY <1>8, <2>1, AtVMIs DEF Sound, CallInv
<1>9. CASE GetEnvCall
  <2>1. AtVM /\ call.slot = GetEnv /\ out = NoEnv /\ UNCHANGED <<attached, natives>>
    BY <1>8, <1>9 DEF GetEnvCall
  <2>2. NoEnv # EnvBase
    BY EnvBaseAssumption DEF NoEnv
  <2>3. CASE call.version \notin SupportedVersions
    <3>1. Return({<<InvokeSlot>>}, EVERSION) /\ UNCHANGED out
      BY <1>9, <2>3 DEF GetEnvCall
    <3>2. answer'.x0 = EVERSION /\ answer'.ok = TRUE /\ pc' = Back /\ call' = call
      BY <3>1 DEF Return, None
    <3> QED BY <1>0, <2>1, <2>2, <3>1, <3>2, Words, InvokeAnswer
  <2>4. CASE call.version \in SupportedVersions /\ ~attached
    <3>1. Return({<<InvokeSlot>>}, EDETACHED) /\ UNCHANGED out
      BY <1>9, <2>4 DEF GetEnvCall
    <3>2. answer'.x0 = EDETACHED /\ answer'.ok = TRUE /\ pc' = Back /\ call' = call
      BY <3>1 DEF Return, None
    <3> QED BY <1>0, <2>1, <2>2, <2>4, <3>1, <3>2, Words, InvokeAnswer
  <2>5. CASE call.version \in SupportedVersions /\ attached
    <3>1. Hand(Env.ptr)
      BY <1>9, <2>5 DEF GetEnvCall
    <3>2. /\ pc' = Back /\ call' = call /\ answer'.ok \in BOOLEAN
          /\ answer'.x0 \in {0, JNI_ERR} /\ out' \in {NoEnv, EnvBase}
          /\ (out' = EnvBase) = (answer'.x0 = 0)
      BY <2>1, <3>1, Handed
    <3>3. answer'.x0 \in {0, JNI_ERR, EDETACHED, EVERSION} /\ answer'.x0 # EDETACHED
      BY <3>2, Words
    <3>4. /\ (out' = EnvBase) = (answer'.x0 = 0)
          /\ out' = EnvBase => attached'
          /\ (call.slot = GetEnv /\ out' = EnvBase) => call.version \in SupportedVersions
          /\ answer'.x0 = EDETACHED => ~attached'
      BY <1>0, <2>1, <2>5, <3>2, <3>3
    <3>5. AtVM /\ attached' \in BOOLEAN /\ natives' = natives
      BY <1>0, <2>1
    <3> QED BY <3>2, <3>3, <3>4, <3>5, InvokeAnswer
  <2> QED BY <1>0, <2>3, <2>4, <2>5
<1>10. CASE AttachCurrentThread
  <2>1. /\ AtVM /\ call.slot = Attach /\ out = NoEnv /\ attached' = TRUE /\ natives' = natives
        /\ Hand(Env.ptr)
    BY <1>8, <1>10 DEF AttachCurrentThread
  <2> QED BY <2>1, Handed, Words, InvokeAnswer DEF Attach, GetEnv
<1>11. CASE DetachCurrentThread
  <2>1. /\ AtVM /\ call.slot = Detach /\ out = NoEnv /\ attached' = FALSE
        /\ UNCHANGED <<out, natives>>
    BY <1>8, <1>11 DEF DetachCurrentThread
  <2>2. answer'.x0 = 0 /\ answer'.ok = TRUE /\ pc' = Back /\ call' = call
    BY <1>11 DEF DetachCurrentThread, Return, None
  <2>3. call.slot \notin {GetEnv, Attach}
    BY <2>1 DEF Attach, Detach, GetEnv
  <2>4. out' = NoEnv /\ natives' = natives /\ attached' \in BOOLEAN
    BY <2>1
  <2> QED BY <2>1, <2>2, <2>3, <2>4, InvokeAnswer
<1>12. CASE InvokeRefused
  <2>1. /\ AtVM /\ call.slot \notin {GetEnv, Attach} /\ out = NoEnv
        /\ UNCHANGED <<attached, out, natives>>
    BY <1>8, <1>12 DEF InvokeRefused
  <2>2. answer'.x0 = JNI_ERR /\ answer'.ok = FALSE /\ pc' = Back /\ call' = call
    BY <1>12 DEF InvokeRefused, Fail, None
  <2> QED BY <1>0, <2>1, <2>2, InvokeAnswer
<1>13. CASE Misplaced
  <2>1. /\ answer'.ran = {} /\ answer'.x0 = JNI_ERR /\ answer'.ok = FALSE
        /\ pc' = Back /\ call' = call /\ UNCHANGED <<attached, out, natives>>
    BY <1>13 DEF Misplaced, Fail, None
  <2>2. call.by # "vm"
    <3>1. CASE call.by = "vm"
      <4>1. pc = EnvBase + 20480 + 4 * call.slot /\ call.slot \in 0..7
        BY <1>13, <3>1, InvokeRoundTrip DEF Misplaced, IInv, PcInv
      <4> QED BY <4>1, <1>13, Ends, LayoutIs, EnvBaseAssumption DEF Misplaced, AtVM
    <3> QED BY <3>1
  <2>3. CallInv'
    BY <2>1, Words DEF Sound, CallInv
  <2> QED BY <2>1, <2>2, <2>3 DEF Sound, EnvHeldByAttached, ResultFaithful
<1> QED BY <1>1, <1>2, <1>3, <1>4, <1>5, <1>6, <1>7, <1>9, <1>10, <1>11, <1>12, <1>13 DEF HookAnswers

LEMMA HostSound == Sound /\ (HostCalls \/ Continue) => Sound'
<1> SUFFICES ASSUME Sound, HostCalls \/ Continue PROVE Sound'
  OBVIOUS
<1>1. CASE HostCalls
  <2>1. PICK m \in Methods, args \in PyArgs : call' = [Frame("host", 0) EXCEPT !.method = m, !.args = args]
    BY <1>1 DEF HostCalls
  <2>2. IsFrame(Frame("host", 0))
    BY Blank
  <2>3. call'.by = "host" /\ IsFrame(call')
    BY <2>1, <2>2 DEF Frame, IsFrame
  <2>4. answer'.x0 = 0 /\ answer'.ok \in BOOLEAN
    BY <1>1 DEF HostCalls, None
  <2>5. UNCHANGED <<attached, out, natives>> /\ out = NoEnv /\ pc' = Back
    <3>1. pc = Guest /\ pc' = Back /\ UNCHANGED <<attached, out, natives>>
      BY <1>1 DEF HostCalls
    <3> QED BY <3>1 DEF Sound, CallInv, Guest, Back
  <2>6. CallInv'
    BY <2>3, <2>4, <2>5, Words DEF Sound, CallInv, IsFrame
  <2> QED BY <2>3, <2>6 DEF Sound, EnvHeldByAttached, ResultFaithful
<1>2. CASE Continue
  <2>1. IsFrame(call') /\ answer' = None /\ out' = NoEnv /\ UNCHANGED <<attached, natives>>
    BY <1>2, Blank DEF Continue
  <2>2. pc' # Back
    BY <1>2 DEF Continue, Guest, Back
  <2>3. CallInv'
    BY <2>1, <2>2, Words DEF Sound, CallInv, IsFrame, None
  <2> QED BY <2>2, <2>3 DEF Sound, EnvHeldByAttached, ResultFaithful
<1> QED BY <1>1, <1>2

LEMMA AlwaysSound == Spec => [](IInv /\ Sound)
<1>1. Init => IInv /\ Sound
  BY InitInv, InitSound
<1>2. IInv /\ Sound /\ [Next]_vars => (IInv /\ Sound)'
  <2>1. ASSUME IInv, Sound, UNCHANGED vars PROVE IInv' /\ Sound'
    <3>1. IInv'
      BY <2>1 DEF vars, IInv, PcInv, SlotReachesItsArm
    <3>2. CallInv' /\ EnvHeldByAttached' /\ ResultFaithful'
      BY <2>1 DEF vars, Sound, CallInv, EnvHeldByAttached, ResultFaithful
    <3> QED BY <3>1, <3>2 DEF Sound
  <2> QED BY <2>1, GuestCallsInv, HookInv, HostInv, GuestCallsSound, HookSound, HostSound DEF Next
<1> QED BY <1>1, <1>2, PTL DEF Spec

(* Whatever the guest calls in whatever order: the types, and the env      *)
(* pointer goes exactly with JNI_OK and, from GetEnv, to an attached       *)
(* thread and a version there is.                                          *)
THEOREM InvokesAreSound == Spec => []InvokeSound
<1>1. IInv /\ Sound => InvokeSound
  BY LayoutIs DEF IInv, PcInv, Sound, CallInv, InvokeSound, TypeOK, EnvSize
<1> QED BY <1>1, AlwaysSound, PTL

(* For every set of methods and every width: a number is read by the guest *)
(* in the width of its type as the handler returned it, an object as a     *)
(* reference and null as 0, or the call is an error.                       *)
THEOREM ResultsAreFaithful == Spec => []ResultFaithful
<1>1. IInv /\ Sound => ResultFaithful
  BY DEF Sound
<1> QED BY <1>1, AlwaysSound, PTL
=============================================================================
