------------------------------- MODULE JniAbi -------------------------------
(***************************************************************************)
(* What a guest sees of JNI: two structures in its memory, JNIEnv and      *)
(* JavaVM, each a pointer to a table of pointers to trampolines, one no-op *)
(* per function, where a code hook waits (jni/src/function_table.rs and    *)
(* abi.rs).  Here are the layout, what is written into guest memory, the   *)
(* way back from the address of a trampoline to the slot, and the two      *)
(* catalogs that say which slots are implemented.                          *)
(***************************************************************************)
EXTENDS Integers

CONSTANT EnvBase  (* JNI_ENV_BASE, page aligned                             *)

PageSize == 4096

ASSUME EnvBaseAssumption == EnvBase \in Nat \ {0} /\ EnvBase % PageSize = 0

EnvSize == 232         (* JNI_TABLE_SIZE                                    *)
InvokeSize == 8        (* JNI_INVOKE_TABLE_SIZE                             *)
SlotBytes == 4         (* TRAMPOLINE_SLOT_SIZE                              *)

(* align_up to a page.                                                     *)
Pages(n) == ((n + PageSize - 1) \div PageSize) * PageSize

(* JniFunctionTable::layout and JavaVMABI::new: a page for the structure,  *)
(* then the table, then the trampolines, each on pages of its own.         *)
Layout(base, n) ==
  LET table == base + PageSize
      tramp == table + Pages(8 * n)
  IN [ptr |-> base, table |-> table, tramp |-> tramp, size |-> n,
      end |-> tramp + Pages(SlotBytes * n)]

Env == Layout(EnvBase, EnvSize)
VM == Layout(Env.end, InvokeSize)  (* init_jni puts it right behind         *)

LastTrampoline(abi) == abi.tramp + SlotBytes * abi.size - 1

(* What write_table_to_guest and write_to_guest have put at the address of *)
(* a structure and at the words of its table.                              *)
Read(abi, a) ==
  IF a = abi.ptr THEN abi.table ELSE abi.tramp + SlotBytes * ((a - abi.table) \div 8)

(* Where a call through the env or the vm sends the guest.                 *)
Pointer(abi, i) == Read(abi, Read(abi, abi.ptr) + 8 * i)

(* A trampoline of four bytes taken for one of eight (mutant of            *)
(* FunctionIndex).                                                         *)
FunctionIndexWide(abi, address) ==
  IF address < abi.tramp THEN 0 ELSE (address - abi.tramp) \div 8

(* function_index: saturating, so what lies below the trampolines is slot  *)
(* 0; what lies beyond is a failed assertion, which on_code never meets.   *)
FunctionIndex(abi, address) ==
  IF address < abi.tramp THEN 0 ELSE (address - abi.tramp) \div SlotBytes
-----------------------------------------------------------------------------
(* The numbers function_table.rs gives the functions.                      *)
CallTypes ==
  <<"Object", "Boolean", "Byte", "Char", "Short", "Int", "Long", "Float", "Double", "Void">>

Lookup ==
  [GetVersion |-> 4, FindClass |-> 6, GetMethodID |-> 33, GetStaticMethodID |-> 113,
   GetFieldID |-> 94, GetStaticFieldID |-> 187]

Objects ==
  [AllocObject |-> 27, NewObject |-> 28, GetObjectClass |-> 31, NewStringUTF |-> 167,
   NewGlobalRef |-> 21, DeleteGlobalRef |-> 22, DeleteLocalRef |-> 23, NewLocalRef |-> 25]

Fields == [GetObjectField |-> 95, GetIntField |-> 100, SetIntField |-> 105, SetObjectField |-> 108]

Others == [ExceptionOccurred |-> 15, ExceptionClear |-> 17, RegisterNatives |-> 215]

Refused == [GetStringUTFChars |-> 169, GetJavaVM |-> 219]

CallSlot(k) == 34 + 3 * (k - 1)        (* Call<type>Method                  *)
CallStaticSlot(k) == 198 + 3 * (k - 1) (* CallStatic<type>Method            *)

(* The functions of a slot, as <<name, type>>.                             *)
Plain(record) == {<<record[f], <<f, "">>>> : f \in DOMAIN record}

Calls(types) == {<<CallSlot(k), <<"Call", CallTypes[k]>>>> :
                   k \in {j \in DOMAIN CallTypes : CallTypes[j] \in types}}

StaticCalls(types) == {<<CallStaticSlot(k), <<"CallStatic", CallTypes[k]>>>> :
                         k \in {j \in DOMAIN CallTypes : CallTypes[j] \in types}}

AllTypes == {CallTypes[k] : k \in DOMAIN CallTypes}

(* JNI_ENV_SLOTS, the slots marked as bridged.                             *)
Bridged ==
  UNION {Plain(Lookup), Plain(Objects), Plain(Fields), Plain(Others), Calls(AllTypes),
         StaticCalls({"Void", "Int", "Object", "Boolean", "Long"})}

(* find_slot on JNI_ENV_SLOTS: the function a slot is for, if any.         *)
SlotSpec(i) == {e[2] : e \in {c \in Bridged \cup Plain(Refused) : c[1] = i}}

IsBridged(i) == \E e \in Bridged : e[1] = i

(* The arms of dispatch_jni_call.                                          *)
Arms ==
  UNION {Plain(Lookup), Plain(Objects), Plain(Fields), Plain(Others), Plain(Refused),
         Calls(AllTypes), StaticCalls({"Void", "Int", "Object", "Boolean", "Long"})}

Arm(i) == {e[2] : e \in {c \in Arms : c[1] = i}}

(* The invoke table.                                                       *)
Attach == 4
Detach == 5
GetEnv == 6

(* JNI_VERSION_1_1 to 1_8, by their last digit.                            *)
SupportedVersions == {1, 2, 4, 6, 8}
=============================================================================
