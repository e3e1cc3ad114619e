------------------------------ MODULE Reentry ------------------------------
(***************************************************************************)
(* Who may enter the emulator while somebody is inside.  Python threads    *)
(* call PyEmulatorBridge (bindings/python/src/lib.rs); a call may run guest *)
(* code, guest code traps into the SVC hook or the JNI trampoline, and all *)
(* of these may run Python again: device objects, @java_method bodies,     *)
(* properties, finalizers, which may call the bridge.                      *)
(*                                                                         *)
(* Three things keep them apart: the borrow flag PyO3 keeps in the bridge  *)
(* (&self methods share it, &mut self methods want it alone; a conflict    *)
(* raises), the std mutexes of the runtime (not re-entrant; a conflict     *)
(* waits), and the GIL, which no Rust code ever lets go: threads change    *)
(* only while Python code runs, so a thread that waits for a mutex waits   *)
(* with the GIL in its hand.                                               *)
(*                                                                         *)
(* A method is its sequence of steps (Program): the borrow, the guards it  *)
(* takes and drops, the places where it runs Python or the guest.  Guards  *)
(* and borrows go when the frame goes, on every exit.                      *)
(***************************************************************************)
EXTENDS Integers, Sequences, FiniteSets

CONSTANTS
  Threads,        (* Python threads that share one Emulator                 *)
  NoThread,       (* owner of a free mutex                                  *)
  MaxDepth,       (* bound: frames on one thread                            *)
  Uses,           (* thread -> methods its Python code calls                *)
  FsBesideGuest   (* scripts use emu.fs while guest code runs               *)

ASSUME ReentryAssumption ==
  /\ IsFiniteSet(Threads) /\ NoThread \notin Threads
  /\ MaxDepth \in Nat
  /\ FsBesideGuest \in BOOLEAN

(* PyEmulatorBridge::linux, vm, address_space; ObjectStore and IdAllocator, *)
(* which the bridge and its closures reach beside the VM.                  *)
Locks == {"linux", "vm", "objects", "ids", "space"}

(***************************************************************************)
(* Steps.  A brief step takes a guard and drops it in the same statement   *)
(* or block with nothing in between that could wait or run Python.         *)
(***************************************************************************)
Shared == [do |-> "shared", lock |-> "none"]

Exclusive == [do |-> "exclusive", lock |-> "none"]

Lock(l) == [do |-> "lock", lock |-> l]

Unlock(l) == [do |-> "unlock", lock |-> l]

Brief(l) == [do |-> "brief", lock |-> l]

(* Python code of the user: it may call the bridge.                        *)
Body == [do |-> "body", lock |-> "none"]

(* Python code of the package, which calls nothing back.                   *)
Library == [do |-> "library", lock |-> "none"]

(* emu_start, until the sentinel or an error.                              *)
Emulate == [do |-> "emulate", lock |-> "none"]

Steps == {Shared, Exclusive, Body, Library, Emulate}
           \cup {Lock(l) : l \in Locks} \cup {Unlock(l) : l \in Locks}
           \cup {Brief(l) : l \in Locks}

(* py_to_jvalue, pyargs_to_jniargs: a text becomes an object of the store. *)
Marshal == <<Brief("ids"), Brief("objects")>>

(***************************************************************************)
(* wrap_python_method: arguments from the store, the instance cloned out   *)
(* of it, the Python method, its answer into the store.                    *)
(***************************************************************************)
PythonHandler == <<Brief("objects"), Body>> \o Marshal

(* Mutants: the guard of the store kept while Python runs; the guest run   *)
(* under a shared borrow.                                                  *)
ReadInstanceFieldGuarded ==
  <<Shared, Brief("vm"), Lock("objects"), Body, Unlock("objects")>>

CallTypedGuarded ==
  <<Shared, Lock("vm"), Brief("objects")>> \o Marshal \o PythonHandler
    \o <<Unlock("vm"), Brief("objects")>>

GuestCallShared == <<Shared, Brief("space"), Emulate>>

(***************************************************************************)
(* call_java_method.  A receiver with a fitting override has its Python    *)
(* method called with no guard held; otherwise the registry dispatches     *)
(* under the guard of the VM, to a stub or, when the descriptor names a    *)
(* class with a Python method of that signature, to that method.           *)
(***************************************************************************)
Receiver == <<Shared, Brief("vm"), Brief("objects")>>

CallOverride == Receiver \o <<Body>> \o Marshal

CallStub == Receiver \o Marshal \o <<Brief("vm"), Brief("objects")>>

CallQualified ==
  Receiver \o Marshal \o <<Lock("vm")>> \o PythonHandler
    \o <<Unlock("vm"), Brief("objects")>>

(* call_java_method_typed clones the handler out and calls it unguarded.   *)
CallTyped ==
  <<Shared, Lock("vm"), Brief("objects"), Unlock("vm"), Brief("vm")>>
    \o Marshal \o PythonHandler \o <<Brief("objects")>>

(***************************************************************************)
(* The other methods Python sees, by what they take.                       *)
(***************************************************************************)
Seed == <<Shared, Brief("linux")>>

ReadGuest == <<Shared>>

RegisterObject == <<Shared, Brief("ids"), Brief("objects"), Brief("vm")>>

JavaInstance == <<Shared, Lock("vm"), Brief("objects"), Unlock("vm")>>

ReadJavaField == <<Shared, Brief("vm"), Brief("objects")>>

ReadInstanceField == <<Shared, Brief("vm"), Brief("objects"), Body>>

WriteGuest == <<Exclusive>>

Load == <<Exclusive, Brief("space")>>

InitJni == <<Exclusive, Brief("space")>>

RegisterClass == <<Exclusive, Library, Brief("vm")>>

RegisterStub == <<Exclusive, Brief("vm")>>

(* The record taken out of the store holds the Python object: dropping it  *)
(* may run the finalizer of the object, under both guards.                 *)
ReleaseInstance ==
  <<Exclusive, Lock("vm"), Lock("objects"), Body, Unlock("objects"), Unlock("vm")>>

(* FsProxy is a class of its own, so the borrow of the bridge is no matter. *)
MapFile == <<Brief("linux")>>

(* call and jni_onload: the stack and the sentinel, then the guest.        *)
GuestCall == <<Exclusive, Brief("space"), Emulate>>

(***************************************************************************)
(* What the guest can trap into.  The SVC hook holds the LinuxRuntime      *)
(* through the dispatch, the trampoline the VM through a bridged slot.     *)
(***************************************************************************)
Syscall == <<Lock("linux"), Brief("space"), Unlock("linux")>>

DeviceSyscall == <<Lock("linux"), Body, Unlock("linux")>>

JniSlot == <<Lock("vm"), Brief("ids"), Brief("objects"), Unlock("vm")>>

JniHandler == <<Lock("vm")>> \o PythonHandler \o <<Unlock("vm")>>

(* An unimplemented slot and the invoke interface of JavaVM lock nothing.  *)
UnguardedSlot == <<>>

Program == [
  call_override |-> CallOverride, call_stub |-> CallStub,
  call_qualified |-> CallQualified, call_typed |-> CallTyped,
  seed |-> Seed, read_guest |-> ReadGuest, register_object |-> RegisterObject,
  java_instance |-> JavaInstance, read_field |-> ReadJavaField,
  read_instance_field |-> ReadInstanceField, write_guest |-> WriteGuest,
  load |-> Load, init_jni |-> InitJni, register_class |-> RegisterClass,
  register_stub |-> RegisterStub, release |-> ReleaseInstance,
  map_file |-> MapFile, call |-> GuestCall,
  syscall |-> Syscall, device |-> DeviceSyscall, slot |-> JniSlot,
  handler |-> JniHandler, unguarded |-> UnguardedSlot]

Methods == DOMAIN Program

GuestMethods == {"syscall", "device", "slot", "handler", "unguarded"}

BridgeMethods == Methods \ GuestMethods

ASSUME UsesAssumption == Uses \in [Threads -> SUBSET BridgeMethods]

VARIABLES
  gil,     (* the thread that runs                                          *)
  stack,   (* thread -> frames, the running one last                        *)
  cell,    (* PyO3's borrow flag: number of shared borrows, or -1           *)
  owner    (* mutex -> thread                                               *)

vars == <<gil, stack, cell, owner>>

Frames ==
  [method : Methods, pc : Nat \ {0}, borrow : {"none", "shared", "exclusive"},
   holds : SUBSET Locks]

Entered(m) == [method |-> m, pc |-> 1, borrow |-> "none", holds |-> {}]

Depth(t) == Len(stack[t])

Top(t) == stack[t][Depth(t)]

Ended(f) == f.pc > Len(Program[f.method])

StepOf(f) == IF Ended(f) THEN "ended" ELSE Program[f.method][f.pc].do

LockOf(f) == Program[f.method][f.pc].lock

At(t, step) == gil = t /\ Depth(t) > 0 /\ StepOf(Top(t)) = step

(* Python code runs on the thread: its script, or code the top frame runs. *)
InPython(t) ==
  IF stack[t] = <<>> THEN TRUE ELSE StepOf(Top(t)) \in {"body", "library"}

(* Python code of the user.                                                *)
MayCall(t) == IF stack[t] = <<>> THEN TRUE ELSE StepOf(Top(t)) = "body"

GuestRuns ==
  \E t \in Threads : \E i \in 1..Depth(t) : StepOf(stack[t][i]) = "emulate"

Init ==
  /\ gil \in Threads
  /\ stack = [t \in Threads |-> <<>>]
  /\ cell = 0
  /\ owner = [l \in Locks |-> NoThread]

Push(t, m) == stack' = [stack EXCEPT ![t] = Append(@, Entered(m))]

Becomes(t, f) == stack' = [stack EXCEPT ![t][Depth(t)] = f]

Onward(f) == [f EXCEPT !.pc = @ + 1]

(* Mutant: a shared borrow is not given back.                              *)
UnwindBorrowed(t) ==
  LET f == Top(t) IN
  /\ stack' = [stack EXCEPT ![t] = SubSeq(@, 1, Depth(t) - 1)]
  /\ owner' = [l \in Locks |-> IF l \in f.holds THEN NoThread ELSE owner[l]]
  /\ cell' = IF f.borrow = "exclusive" THEN 0 ELSE cell
  /\ UNCHANGED gil

(* The frame goes, and with it its guards and its borrow.                  *)
Unwind(t) ==
  LET f == Top(t) IN
  /\ stack' = [stack EXCEPT ![t] = SubSeq(@, 1, Depth(t) - 1)]
  /\ owner' = [l \in Locks |-> IF l \in f.holds THEN NoThread ELSE owner[l]]
  /\ cell' = CASE f.borrow = "shared" -> cell - 1
               [] f.borrow = "exclusive" -> 0
               [] OTHER -> cell
  /\ UNCHANGED gil

(***************************************************************************)
(* Python calls a method.  FsBesideGuest tells whether emu.fs is used at   *)
(* any time.                                                               *)
(***************************************************************************)
Call(t, m) ==
  /\ gil = t /\ MayCall(t) /\ Depth(t) < MaxDepth
  /\ m \in Uses[t]
  /\ m = "map_file" /\ ~FsBesideGuest => ~GuestRuns
  /\ Push(t, m) /\ UNCHANGED <<gil, cell, owner>>

(* The guest traps.                                                        *)
Trap(t, m) ==
  /\ At(t, "emulate") /\ Depth(t) < MaxDepth
  /\ m \in GuestMethods
  /\ Push(t, m) /\ UNCHANGED <<gil, cell, owner>>

(* Mutant: an exclusive borrow does not keep the others out.               *)
BorrowSharedAlways(t) ==
  /\ At(t, "shared")
  /\ cell' = cell + 1
  /\ Becomes(t, [Onward(Top(t)) EXCEPT !.borrow = "shared"])
  /\ UNCHANGED <<gil, owner>>

BorrowShared(t) ==
  /\ At(t, "shared") /\ cell >= 0
  /\ cell' = cell + 1
  /\ Becomes(t, [Onward(Top(t)) EXCEPT !.borrow = "shared"])
  /\ UNCHANGED <<gil, owner>>

BorrowExclusive(t) ==
  /\ At(t, "exclusive") /\ cell = 0
  /\ cell' = -1
  /\ Becomes(t, [Onward(Top(t)) EXCEPT !.borrow = "exclusive"])
  /\ UNCHANGED <<gil, owner>>

(* Mutant: a refused borrow is tried again instead of raising.             *)
BorrowRetried(t) ==
  /\ \/ At(t, "shared") /\ cell < 0
     \/ At(t, "exclusive") /\ cell # 0
  /\ UNCHANGED vars

(* "Already borrowed": the caller gets an exception.                       *)
BorrowRefused(t) ==
  /\ \/ At(t, "shared") /\ cell < 0
     \/ At(t, "exclusive") /\ cell # 0
  /\ Unwind(t)

LockGuard(t) ==
  /\ At(t, "lock") /\ owner[LockOf(Top(t))] = NoThread
  /\ owner' = [owner EXCEPT ![LockOf(Top(t))] = t]
  /\ Becomes(t, [Onward(Top(t)) EXCEPT !.holds = @ \cup {LockOf(Top(t))}])
  /\ UNCHANGED <<gil, cell>>

UnlockGuard(t) ==
  /\ At(t, "unlock") /\ LockOf(Top(t)) \in Top(t).holds
  /\ owner' = [owner EXCEPT ![LockOf(Top(t))] = NoThread]
  /\ Becomes(t, [Onward(Top(t)) EXCEPT !.holds = @ \ {LockOf(Top(t))}])
  /\ UNCHANGED <<gil, cell>>

LockBriefly(t) ==
  /\ At(t, "brief") /\ owner[LockOf(Top(t))] = NoThread
  /\ Becomes(t, Onward(Top(t)))
  /\ UNCHANGED <<gil, cell, owner>>

(* Python code the frame ran returns; the guest reaches the sentinel.      *)
Resume(t) ==
  /\ At(t, "body") \/ At(t, "library") \/ At(t, "emulate")
  /\ Becomes(t, Onward(Top(t)))
  /\ UNCHANGED <<gil, cell, owner>>

Return(t) == At(t, "ended") /\ Unwind(t)

Waits(t) ==
  /\ At(t, "lock") \/ At(t, "brief")
  /\ owner[LockOf(Top(t))] # NoThread

(* An error ends the method early: a bad argument, a missing handle, an    *)
(* exception of the Python code, a fault of the guest.                     *)
Fail(t) ==
  /\ gil = t /\ Depth(t) > 0 /\ ~Ended(Top(t)) /\ ~Waits(t)
  /\ StepOf(Top(t)) \notin {"shared", "exclusive"}
  /\ Unwind(t)

(* The interpreter gives the GIL to another thread.                        *)
Switch(t, u) ==
  /\ gil = t /\ t # u /\ InPython(t)
  /\ gil' = u /\ UNCHANGED <<stack, cell, owner>>

(* Steps of Rust code, which nothing can hold up but a mutex.              *)
Rust(t) ==
  \/ BorrowShared(t) \/ BorrowExclusive(t) \/ BorrowRefused(t)
  \/ LockGuard(t) \/ UnlockGuard(t) \/ LockBriefly(t)
  \/ Return(t)

Next ==
  \E t \in Threads :
    \/ \E m \in Uses[t] : Call(t, m)
    \/ \E m \in GuestMethods : Trap(t, m)
    \/ Rust(t)
    \/ Resume(t)
    \/ Fail(t)
    \/ \E u \in Threads : Switch(t, u)

(***************************************************************************)
(* Rust code goes on; the interpreter lets every thread run; Python code   *)
(* and the guest, however often they call, return in the end, at each      *)
(* depth of the stack.                                                     *)
(***************************************************************************)
Fairness ==
  /\ WF_vars(\E t \in Threads : Rust(t))
  /\ \A t \in Threads :
     /\ SF_vars(\E u \in Threads : Switch(u, t))
     /\ \A d \in 1..MaxDepth : SF_vars(Depth(t) = d /\ Resume(t))

Spec == Init /\ [][Next]_vars

FairSpec == Spec /\ Fairness
----------------------------------------------------------------------------
(* The stacks, the flag and the mutexes hold what the code can put there,  *)
(* and no frame but the last of a stack is outside Python or the guest.    *)
TypeOK ==
  /\ gil \in Threads
  /\ stack \in [Threads -> Seq(Frames)]
  /\ cell \in Int /\ cell >= -1
  /\ owner \in [Locks -> Threads \cup {NoThread}]
  /\ \A t \in Threads :
       /\ Depth(t) <= MaxDepth
       /\ \A i \in 1..(Depth(t) - 1) : StepOf(stack[t][i]) \in {"body", "emulate"}

Borrowers(kind) ==
  {p \in Threads \X (1..MaxDepth) :
     p[2] <= Depth(p[1]) /\ stack[p[1]][p[2]].borrow = kind}

(* A mutex is owned by a thread exactly when a frame of it holds it.       *)
OwnersMatch ==
  \A l \in Locks : \A t \in Threads :
    owner[l] = t <=> \E i \in 1..Depth(t) : l \in stack[t][i].holds

(* Every guard belongs to one frame.                                       *)
GuardsApart ==
  \A t \in Threads : \A i, j \in 1..Depth(t) :
    i # j => stack[t][i].holds \cap stack[t][j].holds = {}

(* The flag tells the borrows on the stacks.                               *)
CellCounts ==
  cell = IF Borrowers("exclusive") = {} THEN Cardinality(Borrowers("shared")) ELSE -1

(***************************************************************************)
(* Every guard and every borrow is accounted for, however the frames were  *)
(* left.                                                                   *)
(***************************************************************************)
GuardsMatch == OwnersMatch /\ GuardsApart /\ CellCounts

(* What every frame that is left, by return or by exception, relies on.    *)
StacksSound == TypeOK /\ GuardsMatch

(***************************************************************************)
(* One emulation at a time, and nobody else in the bridge while it runs:   *)
(* the engine is not re-entrant and the module graph is reached through a  *)
(* raw pointer.                                                            *)
(***************************************************************************)
GuestAlone ==
  \A t \in Threads : \A i \in 1..Depth(t) :
    StepOf(stack[t][i]) = "emulate" =>
      /\ stack[t][i].borrow = "exclusive"
      /\ \A u \in Threads : \A j \in 1..Depth(u) :
           <<u, j>> # <<t, i>> => stack[u][j].borrow = "none"

(***************************************************************************)
(* Python code that a host-side call runs (an override, a typed call, a    *)
(* property) finds every mutex free that its own thread could hold, so it  *)
(* may call new_object: "the guard must be released before Python is       *)
(* called" (PyEmulatorBridge::vm).                                         *)
(***************************************************************************)
HostBodyUnguarded ==
  \A t \in Threads :
    MayCall(t) /\ stack[t] # <<>> /\ Top(t).borrow = "shared" =>
      \A l \in Locks : owner[l] # t

(***************************************************************************)
(* No thread ever waits for a mutex.  Since a waiting thread keeps the     *)
(* GIL, to wait once is to wait for ever.                                  *)
(***************************************************************************)
NobodyWaits == \A t \in Threads : ~Waits(t)

(* The borrows on the stacks behave as PyO3 promises of its cell.          *)
Cell == INSTANCE BorrowCell
          WITH Holders <- Threads \X (1..MaxDepth),
               readers <- Borrowers("shared"), writers <- Borrowers("exclusive")

ImplementsCell == Cell!Spec

(* Every call comes back, to the last frame of the stack.                  *)
CallsReturn == \A t \in Threads : stack[t] # <<>> ~> stack[t] = <<>>
=============================================================================
