------------------------------- MODULE JniCall -------------------------------
(***************************************************************************)
(* A call through JNI, from the slot of the table the guest loads to the   *)
(* register it finds the answer in (jni_trampoline/src/lib.rs), and the    *)
(* same call from Python (call_java_method_typed).  The guest jumps to     *)
(* what the table holds; the code hook recovers the slot from the address, *)
(* asks the catalog, reads the registers, runs the arm and leaves the      *)
(* answer in x0.  The attach state of the one thread belongs to the hook,  *)
(* natives bound by RegisterNatives to the VM.                             *)
(*                                                                         *)
(* A method here is what its id resolves to; how it does, and what         *)
(* handles denote, is the subject of ClassRegistry and JniHandles.         *)
(***************************************************************************)
EXTENDS JniAbi, JniValues, FiniteSets

CONSTANTS
  Methods,   (* [static, args, ret, python, gives]: argument types, the     *)
             (* declared type, written in Python or in Rust, and what it    *)
             (* returns: a value, Echo for its first argument, or Raise     *)
  Echo, Raise,
  NoMethod,  (* an id or a handle that resolves to nothing                  *)
  Bindable,  (* bound: methods a guest binds to functions of its own        *)
  ArgWords,  (* what the guest may have in x3, x4 and x5                    *)
  PyArgs,    (* argument lists of Python callers                            *)
  Versions,  (* versions a guest asks GetEnv for                            *)
  Astray     (* addresses in the hook's range that are no trampolines       *)

ASSUME CallAssumption ==
  /\ NoMethod \notin Methods /\ Bindable \subseteq Methods
  /\ \A m \in Methods : m.static \in BOOLEAN /\ m.python \in BOOLEAN
  /\ \A m \in Methods : m.args \in Seq(DOMAIN Numbers \cup {"Object"})
  /\ \A m \in Methods : m.python =>
       /\ m.gives \in PyValues \cup {Echo, Raise}
       /\ m.gives = Echo => Len(m.args) > 0
  /\ \A m \in Methods : ~m.python => m.gives \in JValues \cup {Raise}
  /\ ArgWords \subseteq [1..3 -> Unsigned(RegMod)]
  /\ PyArgs \subseteq Seq(PyValues)
  /\ Astray \subseteq LastTrampoline(Env) + 1 .. VM.tramp - 1

VARIABLES
  pc,        (* address of the trampoline the guest has jumped to, Guest in *)
             (* its own code, or Back there with an answer in x0            *)
  call,      (* the call under way                                          *)
  answer,    (* its answer: [ran, ok, x0, saw, value, back]                 *)
  attached,  (* JavaVMThreadState::attached                                 *)
  out,       (* the guest's out parameter: an env pointer, or NoEnv         *)
  natives    (* methods bound to guest functions                            *)

vars == <<pc, call, answer, attached, out, natives>>

Guest == 0
Back == -1
NoEnv == 0

EDETACHED == RegMod - 2
EVERSION == RegMod - 3

(* A local reference just made: which one is no matter here.               *)
Handle == 1

(* Frames: by what the guest calls (env, vm, stray) or Python (host), the  *)
(* slot, and what the registers hold, as far as the function reads them:   *)
(* the method, the words of the arguments, the version, whether the out    *)
(* parameter can be written, and the entries of RegisterNatives the hook   *)
(* can read and knows, of a list that may be empty.                        *)
Frame(by, slot) ==
  [by |-> by, slot |-> slot, method |-> NoMethod, words |-> <<0, 0, 0>>, version |-> 0,
   writable |-> TRUE, count |-> 0, entries |-> {}, args |-> <<>>]

(* What a slot's function reads: call slots a method and three words,      *)
(* RegisterNatives its entries.                                            *)
CallFrames(i) ==
  {[Frame("env", i) EXCEPT !.method = p[1], !.words = p[2]] :
     p \in (Methods \cup {NoMethod}) \X ArgWords}

BindFrames(i) ==
  {[Frame("env", i) EXCEPT !.count = p[1], !.entries = p[2]] :
     p \in {<<0, {}>>, <<1, {}>>} \cup {<<1, {m}>> : m \in Bindable}}

EnvFrames(i) ==
  IF i \in {s[1] : s \in Calls(AllTypes) \cup StaticCalls(AllTypes)}
    THEN CallFrames(i)
    ELSE IF i = Others.RegisterNatives THEN BindFrames(i) ELSE {Frame("env", i)}

InvokeFrames(i) ==
  {[Frame("vm", i) EXCEPT !.version = p[1], !.writable = p[2]] : p \in Versions \X BOOLEAN}

None == [ran |-> {}, ok |-> TRUE, x0 |-> 0, saw |-> <<>>, value |-> Null, back |-> PyNone]

Init ==
  /\ pc = Guest /\ call = Frame("none", 0) /\ answer = None
  /\ attached = TRUE /\ out = NoEnv /\ natives = {}
-----------------------------------------------------------------------------
(* The guest loads a slot and jumps.                                       *)
GuestCalls ==
  /\ pc = Guest
  /\ \/ \E i \in 0..EnvSize - 1 : \E f \in EnvFrames(i) :
          call' = f /\ pc' = Pointer(Env, i)
     \/ \E i \in 0..InvokeSize - 1 : \E f \in InvokeFrames(i) :
          call' = f /\ pc' = Pointer(VM, i)
     \/ \E a \in Astray : call' = Frame("stray", 0) /\ pc' = a
  /\ UNCHANGED <<answer, out, attached, natives>>

(* finish: x0, and PC = LR.                                                *)
Return(ran, word) ==
  /\ answer' = [None EXCEPT !.ran = ran, !.x0 = word]
  /\ pc' = Back
  /\ UNCHANGED call

Fail(ran) ==
  /\ answer' = [None EXCEPT !.ran = ran, !.ok = FALSE, !.x0 = JNI_ERR]
  /\ pc' = Back
  /\ UNCHANGED call

(* on_code: which of the two dispatchers an address is for.                *)
AtEnv == pc > Guest /\ pc <= LastTrampoline(Env)
AtVM == pc >= VM.tramp /\ pc <= LastTrampoline(VM)

EnvSlot == FunctionIndex(Env, pc)

(* The arm dispatch_env comes to, of a slot its catalog has as bridged.    *)
InArm(names) == AtEnv /\ IsBridged(EnvSlot) /\ \E f \in Arm(EnvSlot) : f[1] \in names

NotBridged ==
  /\ AtEnv
  /\ ~IsBridged(EnvSlot) \/ Arm(EnvSlot) = {}
  /\ Fail({})
  /\ UNCHANGED <<attached, out, natives>>

GetVersion ==
  /\ InArm({"GetVersion"})
  /\ Return(Arm(EnvSlot), 6)
  /\ UNCHANGED <<attached, out, natives>>

(* Nobody sets a pending exception.                                        *)
Exceptions ==
  /\ InArm({"ExceptionOccurred", "ExceptionClear"})
  /\ Return(Arm(EnvSlot), 0)
  /\ UNCHANGED <<attached, out, natives>>

(* alloc_object, and the field accessors, answer nothing yet.              *)
NotYet ==
  /\ InArm({"AllocObject"} \cup DOMAIN Fields)
  /\ Fail(Arm(EnvSlot))
  /\ UNCHANGED <<attached, out, natives>>

(* Classes, ids, references and objects: a handle or an id, or a failure.  *)
Resolves ==
  /\ InArm((DOMAIN Lookup \cup DOMAIN Objects) \ {"GetVersion", "AllocObject"})
  /\ \/ \E word \in {0, Handle} : Return(Arm(EnvSlot), word)
     \/ Fail(Arm(EnvSlot))
  /\ UNCHANGED <<attached, out, natives>>
-----------------------------------------------------------------------------
(* Handlers.  A Rust handler fetches its arguments by their types; one     *)
(* written in Python gets them as Python values, as many as it takes, and  *)
(* what it returns is marshalled and checked against the declared type.    *)
Failed == NotMarshalled

ArgsToPy(args) == [k \in DOMAIN args |-> ToPy(args[k])]

(* What a Python method returns, as wrap_python_method passes it on.       *)
PythonGives(m, args) ==
  LET saw == ArgsToPy(args)
      returned == IF m.gives = Echo THEN saw[1] ELSE m.gives
      v == IF m.gives = Raise THEN Failed ELSE ToJValue(returned)
  IN IF \/ Len(args) # Len(m.args)
        \/ \E k \in DOMAIN saw : saw[k] = NotProjected
        \/ v = Failed
        \/ ~Declared(v, m.ret)
       THEN Failed ELSE v

RustGives(m, args) ==
  IF \A k \in DOMAIN m.args : Gets(args, k, m.args[k])
    THEN (IF m.gives = Raise THEN Failed ELSE m.gives)
    ELSE Failed

Handler(m, args) == IF m.python THEN PythonGives(m, args) ELSE RustGives(m, args)

(* An instance call finds instance methods only, a static call static ones *)
Found(m, static) == m # NoMethod /\ m.static = static

(* dispatch_by_method_id and dispatch_static_by_method_id: a method bound  *)
(* to a guest function is refused, its handler not run.                    *)
Called(m, static, words) ==
  IF ~Found(m, static) \/ m \in natives
    THEN Failed
    ELSE Handler(m, VarArgs(words, Len(m.args)))

Register(type, v) ==
  CASE type = "Void" -> 0
    [] type = "Object" -> IF v = Null THEN 0 ELSE Handle
    [] OTHER -> Widen(v)

(* The arms of Call<type>Method and CallStatic<type>Method.                *)
CallMethod ==
  /\ InArm({"Call", "CallStatic"})
  /\ \E f \in Arm(EnvSlot) :
       LET v == Called(call.method, f[1] = "CallStatic", call.words)
       IN IF v = Failed \/ ~Fits(f[2], v)
            THEN Fail(Arm(EnvSlot))
            ELSE /\ answer' = [None EXCEPT !.ran = Arm(EnvSlot), !.x0 = Register(f[2], v),
                                           !.value = v,
                                           !.saw = ArgsToPy(VarArgs(call.words, Len(call.method.args)))]
                 /\ pc' = Back
                 /\ UNCHANGED call
  /\ UNCHANGED <<attached, out, natives>>

(* An empty list is JNI_OK, and so is one with a method it could bind.     *)
RegisterNatives ==
  /\ InArm({"RegisterNatives"})
  /\ natives' = natives \cup call.entries
  /\ IF call.count = 0 \/ call.entries # {}
       THEN Return(Arm(EnvSlot), 0)
       ELSE Return(Arm(EnvSlot), JNI_ERR)
  /\ UNCHANGED <<attached, out>>
-----------------------------------------------------------------------------
(* The invoke table.  GetEnv and AttachCurrentThread answer in the out     *)
(* parameter; one that cannot be written is an error.                      *)
InvokeSlot == FunctionIndex(VM, pc)

Hand(env) ==
  IF call.writable
    THEN out' = env /\ Return({<<InvokeSlot>>}, 0)
    ELSE UNCHANGED out /\ Fail({<<InvokeSlot>>})

(* GetEnv that does not ask whether the thread is attached (mutant).       *)
GetEnvAnyThread ==
  /\ AtVM /\ InvokeSlot = GetEnv
  /\ IF call.version \notin SupportedVersions
       THEN Return({<<InvokeSlot>>}, EVERSION) /\ UNCHANGED out
       ELSE Hand(Env.ptr)
  /\ UNCHANGED <<attached, natives>>

GetEnvCall ==
  /\ AtVM /\ InvokeSlot = GetEnv
  /\ CASE call.version \notin SupportedVersions ->
            Return({<<InvokeSlot>>}, EVERSION) /\ UNCHANGED out
       [] call.version \in SupportedVersions /\ ~attached ->
            Return({<<InvokeSlot>>}, EDETACHED) /\ UNCHANGED out
       [] OTHER -> Hand(Env.ptr)
  /\ UNCHANGED <<attached, natives>>

(* Attaching comes before the out parameter is written, and stays when     *)
(* that fails.                                                             *)
AttachCurrentThread ==
  /\ AtVM /\ InvokeSlot = Attach
  /\ attached' = TRUE
  /\ Hand(Env.ptr)
  /\ UNCHANGED natives

DetachCurrentThread ==
  /\ AtVM /\ InvokeSlot = Detach
  /\ attached' = FALSE
  /\ Return({<<InvokeSlot>>}, 0)
  /\ UNCHANGED <<out, natives>>

InvokeRefused ==
  /\ AtVM /\ InvokeSlot \notin {GetEnv, Attach, Detach}
  /\ Fail({})
  /\ UNCHANGED <<attached, out, natives>>

(* Between the two regions of trampolines.                                 *)
Misplaced ==
  /\ pc > Guest /\ ~AtEnv /\ ~AtVM
  /\ Fail({})
  /\ UNCHANGED <<attached, out, natives>>
-----------------------------------------------------------------------------
(* call_java_method_typed: the same handlers, with arguments marshalled    *)
(* from Python and the result back.  Natives are not asked about.          *)
HostCalls ==
  /\ pc = Guest
  /\ \E m \in Methods, args \in PyArgs :
       LET given == [k \in DOMAIN args |-> ToJValue(args[k])]
           v == IF m.static \/ \E k \in DOMAIN given : given[k] = NotMarshalled
                  THEN Failed ELSE Handler(m, given)
           back == ToPy(v)
       IN /\ call' = [Frame("host", 0) EXCEPT !.method = m, !.args = args]
          /\ answer' = IF v = Failed \/ back = NotProjected
                         THEN [None EXCEPT !.ok = FALSE]
                         ELSE [None EXCEPT !.saw = ArgsToPy(given), !.value = v, !.back = back]
  /\ pc' = Back
  /\ UNCHANGED <<attached, out, natives>>

(* The caller has read x0 and goes on.                                     *)
Continue ==
  /\ pc = Back
  /\ pc' = Guest /\ call' = Frame("none", 0) /\ answer' = None /\ out' = NoEnv
  /\ UNCHANGED <<attached, natives>>

HookAnswers ==
  \/ NotBridged \/ GetVersion \/ Exceptions \/ NotYet \/ Resolves \/ CallMethod
  \/ RegisterNatives \/ GetEnvCall \/ AttachCurrentThread \/ DetachCurrentThread
  \/ InvokeRefused \/ Misplaced

Next == GuestCalls \/ HostCalls \/ HookAnswers \/ Continue

Spec == Init /\ [][Next]_vars
-----------------------------------------------------------------------------
TypeOK ==
  /\ pc \in Int
  /\ call.by \in {"none", "env", "vm", "stray", "host"}
  /\ call.slot \in 0..EnvSize - 1
  /\ answer.x0 \in Unsigned(RegMod) /\ answer.ok \in BOOLEAN
  /\ attached \in BOOLEAN
  /\ out \in {NoEnv, Env.ptr}
  /\ natives \subseteq Bindable

(* What runs is the function of the slot the guest took from its table: if *)
(* the catalog has it as bridged, an arm with that very name and type, and *)
(* nothing at all otherwise.  The table in guest memory, the way back from *)
(* an address, the catalog and the arms are four places that must agree.   *)
SlotReachesItsArm ==
  (pc = Back /\ call.by \in {"env", "vm"}) =>
    answer.ran =
      CASE call.by = "env" -> (IF IsBridged(call.slot) THEN SlotSpec(call.slot) ELSE {})
        [] call.by = "vm" -> (IF call.slot \in {GetEnv, Attach, Detach} THEN {<<call.slot>>} ELSE {})

(* A guest that asks for a type gets a value of this type or an error:     *)
(* what it reads in the width of the type is what the handler returned,    *)
(* never a truncated long, another type's bits or a handle.                *)
ResultFaithful ==
  \A f \in answer.ran :
    (pc = Back /\ call.by = "env" /\ answer.ok /\ f[1] \in {"Call", "CallStatic"}) =>
      CASE f[2] = "Void" -> TRUE
        [] f[2] = "Object" -> /\ TypeOf(answer.value) = "Object"
                              /\ (answer.x0 = 0) = (answer.value = Null)
        [] OTHER -> /\ TypeOf(answer.value) = f[2]
                    /\ GuestReads(f[2], answer.x0) = Carried(answer.value)

(* The env pointer is handed out exactly with JNI_OK; GetEnv gives it only *)
(* to an attached thread that asks for a version there is, whatever        *)
(* attaches and detaches, failed ones too, came before.                    *)
EnvHeldByAttached ==
  (pc = Back /\ call.by = "vm" /\ call.slot \in {GetEnv, Attach}) =>
    /\ (out = Env.ptr) = (answer.x0 = 0)
    /\ out = Env.ptr => attached
    /\ (call.slot = GetEnv /\ out = Env.ptr) => call.version \in SupportedVersions
    /\ answer.x0 = EDETACHED => ~attached

(* The types, and the invoke calls.                                        *)
InvokeSound == TypeOK /\ EnvHeldByAttached

(* The same value, as far as marshalling keeps it: a wrapper becomes what  *)
(* it wraps, an int of more than 64 bits a float, and a list of small      *)
(* numbers bytes.                                                          *)
Kept(a, b) ==
  \/ a = b
  \/ Type(a) = "object" /\ b = ObjectToPy(Carried(a))
  \/ Type(a) = "int" /\ Carried(a) \notin Signed(RegMod) /\ b = Py("float", Rounded)
  \/ Type(a) = "list" /\ b = Py("bytes", Carried(a))

(* Between Python and Python nothing is lost on the way through JNI: the   *)
(* method sees the arguments it was given, the caller what it returned.    *)
HostCallKeeps ==
  (call.by = "host" /\ answer.ok) =>
    /\ Len(answer.saw) = Len(call.args)
    /\ \A k \in DOMAIN call.args : Kept(call.args[k], answer.saw[k])
    /\ call.method.python =>
         Kept(IF call.method.gives = Echo THEN answer.saw[1] ELSE call.method.gives, answer.back)
=============================================================================
