---------------------------- MODULE ReentryProofs ----------------------------
(***************************************************************************)
(* The discipline of the bridge, for any number of threads, any depth and  *)
(* whatever the scripts call: every guard and borrow is accounted for, the *)
(* guest runs alone, and the borrows implement PyO3's cell.                *)
(***************************************************************************)
EXTENDS Reentry, FiniteSetTheorems, SequenceTheorems, TLAPS

(* Steps that neither borrow nor enter the guest.                          *)
Later == {s \in Steps : s.do \notin {"shared", "exclusive", "emulate"}}

(* A method borrows first, if at all, and then does other things.          *)
Opens(p) ==
  /\ p \in Seq(Steps) /\ Len(p) > 0 /\ p[1] \in {Shared, Exclusive}
  /\ \A i \in 2..Len(p) : p[i] \in Later

-----------------------------------------------------------------------------
(* What the steps are.                                                     *)
LEMMA StepsAre ==
  /\ Shared \in Steps /\ Exclusive \in Steps /\ Emulate \in Steps
  /\ Body \in Later /\ Library \in Later
  /\ \A l \in Locks : Lock(l) \in Later /\ Unlock(l) \in Later /\ Brief(l) \in Later
  /\ \A s \in Steps : s.do \in {"lock", "unlock", "brief"} => s.lock \in Locks
<1>1. \A l \in Locks : /\ Lock(l) \in Steps /\ Unlock(l) \in Steps /\ Brief(l) \in Steps
                       /\ Lock(l).do = "lock" /\ Unlock(l).do = "unlock" /\ Brief(l).do = "brief"
  BY DEF Steps, Lock, Unlock, Brief
<1>2. Shared \in Steps /\ Exclusive \in Steps /\ Emulate \in Steps /\ Body \in Steps /\ Library \in Steps
  BY DEF Steps
<1>3. ASSUME NEW s \in Steps, s.do \in {"lock", "unlock", "brief"} PROVE s.lock \in Locks
  <2>1. s \notin {Shared, Exclusive, Body, Library, Emulate}
    BY <1>3 DEF Shared, Exclusive, Body, Library, Emulate
  <2>2. \E l \in Locks : s = Lock(l) \/ s = Unlock(l) \/ s = Brief(l)
    BY <2>1 DEF Steps
  <2> QED BY <2>2 DEF Lock, Unlock, Brief
<1> QED BY <1>1, <1>2, <1>3 DEF Later, Body, Library

(* What follows the opening steps may be anything later.                   *)
LEMMA OpensConcat ==
  ASSUME NEW p, Opens(p), NEW q \in Seq(Later)
  PROVE  Opens(p \o q)
<1>1. q \in Seq(Steps) /\ p \in Seq(Steps) /\ Len(p) \in Nat /\ Len(q) \in Nat
  BY LenProperties DEF Opens, Later
<1>2. /\ p \o q \in Seq(Steps) /\ Len(p \o q) = Len(p) + Len(q)
      /\ \A i \in 1..(Len(p) + Len(q)) :
           (p \o q)[i] = IF i <= Len(p) THEN p[i] ELSE q[i - Len(p)]
  BY <1>1, ConcatProperties
<1>3. \A i \in 1..Len(q) : q[i] \in Later
  BY ElementOfSeq
<1> QED BY <1>1, <1>2, <1>3 DEF Opens

(* Two sequences of later steps, one after the other.                      *)
LEMMA LaterConcat ==
  ASSUME NEW p \in Seq(Later), NEW q \in Seq(Later)
  PROVE  p \o q \in Seq(Later)
BY ConcatProperties

(* The code that answers a call and the code that runs a Python method.    *)
LEMMA LaterParts == Marshal \in Seq(Later) /\ PythonHandler \in Seq(Later)
<1>1. Marshal \in Seq(Later)
  BY StepsAre DEF Marshal, Locks
<1>2. <<Brief("objects"), Body>> \in Seq(Later)
  BY StepsAre DEF Locks
<1> QED BY <1>1, <1>2, LaterConcat DEF PythonHandler

(* What the guest traps into neither borrows nor enters the guest.         *)
LEMMA TrapPrograms ==
  /\ Syscall \in Seq(Later) /\ DeviceSyscall \in Seq(Later) /\ JniSlot \in Seq(Later)
  /\ JniHandler \in Seq(Later) /\ UnguardedSlot \in Seq(Later) /\ MapFile \in Seq(Later)
<1>1. Syscall \in Seq(Later) /\ DeviceSyscall \in Seq(Later) /\ JniSlot \in Seq(Later)
  BY StepsAre DEF Syscall, DeviceSyscall, JniSlot, Locks
<1>2. UnguardedSlot \in Seq(Later) /\ MapFile \in Seq(Later)
  BY StepsAre DEF UnguardedSlot, MapFile, Locks
<1>3. <<Lock("vm")>> \in Seq(Later) /\ <<Unlock("vm")>> \in Seq(Later)
  BY StepsAre DEF Locks
<1> QED BY <1>1, <1>2, <1>3, LaterParts, LaterConcat DEF JniHandler

(* The literal programs open with their borrow.                            *)
LEMMA PlainPrograms ==
  /\ Opens(Receiver) /\ Opens(Seed) /\ Opens(ReadGuest) /\ Opens(RegisterObject)
  /\ Opens(JavaInstance) /\ Opens(ReadJavaField) /\ Opens(ReadInstanceField)
  /\ Opens(WriteGuest) /\ Opens(Load) /\ Opens(InitJni) /\ Opens(RegisterClass)
  /\ Opens(RegisterStub) /\ Opens(ReleaseInstance)
<1>1. \A s \in Later : s \in Steps
  BY DEF Later
<1> USE <1>1, StepsAre DEF Locks
<1>2. Opens(Seed) /\ Opens(ReadGuest) /\ Opens(WriteGuest)
  BY DEF Seed, ReadGuest, WriteGuest, Opens
<1>3. Opens(Load) /\ Opens(InitJni) /\ Opens(RegisterStub)
  BY DEF Load, InitJni, RegisterStub, Opens
<1>4. Opens(Receiver) /\ Opens(ReadJavaField) /\ Opens(RegisterClass)
  BY DEF Receiver, ReadJavaField, RegisterClass, Opens
<1>5. Opens(RegisterObject) /\ Opens(JavaInstance) /\ Opens(ReadInstanceField)
  BY DEF RegisterObject, JavaInstance, ReadInstanceField, Opens
<1>6. Opens(ReleaseInstance)
  BY DEF ReleaseInstance, Opens
<1> QED BY <1>2, <1>3, <1>4, <1>5, <1>6

(* So do the calls of Java methods, whichever way they take.               *)
LEMMA CallPrograms ==
  /\ Opens(CallOverride) /\ Opens(CallStub) /\ Opens(CallQualified) /\ Opens(CallTyped)
<1>1. /\ <<Body>> \in Seq(Later) /\ <<Brief("vm"), Brief("objects")>> \in Seq(Later)
      /\ <<Lock("vm")>> \in Seq(Later) /\ <<Unlock("vm"), Brief("objects")>> \in Seq(Later)
      /\ <<Brief("objects")>> \in Seq(Later)
  BY StepsAre DEF Locks
<1>2. Opens(CallOverride)
  BY <1>1, PlainPrograms, LaterParts, OpensConcat DEF CallOverride
<1>3. Opens(CallStub)
  BY <1>1, PlainPrograms, LaterParts, OpensConcat DEF CallStub
<1>4. Opens(CallQualified)
  BY <1>1, PlainPrograms, LaterParts, OpensConcat DEF CallQualified
<1>5. Opens(<<Shared, Lock("vm"), Brief("objects"), Unlock("vm"), Brief("vm")>>)
  <2>1. \A s \in Later : s \in Steps
    BY DEF Later
  <2> QED BY <2>1, StepsAre DEF Opens, Locks
<1>6. Opens(CallTyped)
  BY <1>1, <1>5, LaterParts, OpensConcat DEF CallTyped
<1> QED BY <1>2, <1>3, <1>4, <1>6

(***************************************************************************)
(* All the state proofs need of the programs: a borrow is the first step,  *)
(* and only a method that borrowed exclusively enters the guest.           *)
(***************************************************************************)
Fits(p) ==
  /\ p \in Seq(Steps)
  /\ \A i \in 1..Len(p) :
       /\ p[i].do \in {"shared", "exclusive"} => i = 1
       /\ p[i].do = "emulate" => i > 1 /\ p[1].do = "exclusive"

(* No method of the bridge or of the guest is built otherwise.             *)
LEMMA ProgramsFit == \A m \in Methods : Fits(Program[m])
<1>1. ASSUME NEW p, Opens(p) PROVE Fits(p)
  <2>1. \A i \in 1..Len(p) : i # 1 => p[i].do \notin {"shared", "exclusive", "emulate"}
    BY <1>1 DEF Opens, Later
  <2>2. p[1].do # "emulate"
    BY <1>1 DEF Opens, Shared, Exclusive
  <2> QED BY <1>1, <2>1, <2>2 DEF Fits, Opens
<1>2. ASSUME NEW p \in Seq(Later) PROVE Fits(p)
  <2>1. p \in Seq(Steps) /\ \A i \in 1..Len(p) : p[i] \in Later
    BY LenProperties, ElementOfSeq DEF Later
  <2> QED BY <2>1 DEF Fits, Later
<1>3. Fits(GuestCall)
  <2>1. GuestCall \in Seq(Steps) /\ Len(GuestCall) = 3
    BY StepsAre DEF GuestCall, Locks, Later
  <2>2. GuestCall[1].do = "exclusive" /\ GuestCall[2].do = "brief" /\ GuestCall[3].do = "emulate"
    BY DEF GuestCall, Exclusive, Brief, Emulate
  <2> QED BY <2>1, <2>2 DEF Fits
<1>4. Fits(Syscall) /\ Fits(DeviceSyscall) /\ Fits(JniSlot) /\ Fits(JniHandler)
      /\ Fits(UnguardedSlot) /\ Fits(MapFile)
  BY <1>2, TrapPrograms
<1>5. Fits(Seed) /\ Fits(ReadGuest) /\ Fits(RegisterObject) /\ Fits(JavaInstance)
      /\ Fits(ReadJavaField) /\ Fits(ReadInstanceField) /\ Fits(WriteGuest) /\ Fits(Load)
      /\ Fits(InitJni) /\ Fits(RegisterClass) /\ Fits(RegisterStub) /\ Fits(ReleaseInstance)
  BY <1>1, PlainPrograms
<1>6. Fits(CallOverride) /\ Fits(CallStub) /\ Fits(CallQualified) /\ Fits(CallTyped)
  BY <1>1, CallPrograms
<1> QED BY <1>3, <1>4, <1>5, <1>6 DEF Methods, Program

-----------------------------------------------------------------------------
(* The stack with a frame more.                                            *)
LEMMA PushStack ==
  ASSUME stack \in [Threads -> Seq(Frames)], NEW t \in Threads, NEW m \in Methods, Push(t, m)
  PROVE  /\ stack' \in [Threads -> Seq(Frames)]
         /\ \A u \in Threads :
              /\ Len(stack'[u]) = IF u = t THEN Depth(t) + 1 ELSE Depth(u)
              /\ \A i \in 1..Depth(u) : stack'[u][i] = stack[u][i]
         /\ stack'[t][Depth(t) + 1] = Entered(m)
<1>1. Entered(m) \in Frames
  BY DEF Entered, Frames
<1>2. stack[t] \in Seq(Frames)
  OBVIOUS
<1> DEFINE s == Append(stack[t], Entered(m))
<1>3. /\ s \in Seq(Frames) /\ Len(s) = Depth(t) + 1
      /\ \A i \in 1..Depth(t) : s[i] = stack[t][i]
      /\ s[Depth(t) + 1] = Entered(m)
  BY <1>1, <1>2, AppendProperties DEF Depth
<1>4. stack' = [stack EXCEPT ![t] = s]
  BY DEF Push
<1> QED BY <1>3, <1>4 DEF Depth

(* The stack with its last frame changed.                                  *)
LEMMA BecomesStack ==
  ASSUME stack \in [Threads -> Seq(Frames)], NEW t \in Threads, Depth(t) > 0,
         NEW f \in Frames, Becomes(t, f)
  PROVE  /\ stack' \in [Threads -> Seq(Frames)]
         /\ \A u \in Threads :
              /\ Len(stack'[u]) = Depth(u)
              /\ \A i \in 1..Depth(u) :
                   stack'[u][i] = IF u = t /\ i = Depth(t) THEN f ELSE stack[u][i]
<1>1. stack[t] \in Seq(Frames) /\ Depth(t) \in 1..Len(stack[t])
  BY LenProperties DEF Depth
<1> DEFINE s == [stack[t] EXCEPT ![Depth(t)] = f]
<1>2. /\ s \in Seq(Frames) /\ Len(s) = Depth(t)
      /\ \A i \in 1..Depth(t) : s[i] = IF i = Depth(t) THEN f ELSE stack[t][i]
  BY <1>1, ExceptSeq DEF Depth
<1>3. stack' = [stack EXCEPT ![t] = s]
  BY DEF Becomes
<1> QED BY <1>2, <1>3 DEF Depth

(* The stack with a frame less.                                            *)
LEMMA UnwindStack ==
  ASSUME stack \in [Threads -> Seq(Frames)], NEW t \in Threads, Depth(t) > 0, Unwind(t)
  PROVE  /\ stack' \in [Threads -> Seq(Frames)]
         /\ \A u \in Threads :
              /\ Len(stack'[u]) = IF u = t THEN Depth(t) - 1 ELSE Depth(u)
              /\ \A i \in 1..Len(stack'[u]) : stack'[u][i] = stack[u][i]
<1>1. stack[t] \in Seq(Frames) /\ Depth(t) \in Nat
  BY LenProperties DEF Depth
<1>2. \A i \in 1..(Depth(t) - 1) : stack[t][i] \in Frames
  BY <1>1, ElementOfSeq DEF Depth
<1> DEFINE s == SubSeq(stack[t], 1, Depth(t) - 1)
<1>3. /\ s \in Seq(Frames) /\ Len(s) = Depth(t) - 1
      /\ \A i \in 1..(Depth(t) - 1) : s[i] = stack[t][i]
  BY <1>1, <1>2, SubSeqProperties
<1>4. stack' = [stack EXCEPT ![t] = s]
  BY DEF Unwind
<1> QED BY <1>3, <1>4 DEF Depth

-----------------------------------------------------------------------------
(* A frame that is past its first step has the borrow the step took.       *)
FrameSound(f) ==
  /\ f.pc = 1 => f.borrow = "none"
  /\ f.pc > 1 /\ Program[f.method][1].do \in {"shared", "exclusive"} =>
       f.borrow = Program[f.method][1].do

FramesSound == \A t \in Threads : \A i \in 1..Depth(t) : FrameSound(stack[t][i])

(* An exclusive borrow is the only borrow there is.                        *)
OneWriter ==
  Borrowers("exclusive") # {} =>
    /\ Borrowers("shared") = {}
    /\ \E h \in Threads \X (1..MaxDepth) : Borrowers("exclusive") = {h}

IInv == TypeOK /\ GuardsMatch /\ FramesSound /\ OneWriter

(* What the proofs use of the running frame.                               *)
LEMMA TopIs ==
  ASSUME TypeOK, NEW t \in Threads, Depth(t) > 0
  PROVE  /\ Top(t) \in Frames /\ Depth(t) \in 1..MaxDepth
         /\ Top(t) = stack[t][Depth(t)]
         /\ <<t, Depth(t)>> \in Threads \X (1..MaxDepth)
<1>1. stack[t] \in Seq(Frames) /\ Depth(t) \in Nat /\ Depth(t) <= MaxDepth
  BY LenProperties DEF Depth, TypeOK
<1>2. Depth(t) \in 1..Len(stack[t])
  BY <1>1 DEF Depth
<1>3. stack[t][Depth(t)] \in Frames
  BY <1>1, <1>2, ElementOfSeq
<1> QED BY <1>1, <1>3, ReentryAssumption DEF Top

(* A frame about to take a step of its program.                            *)
LEMMA StepIs ==
  ASSUME NEW f \in Frames, StepOf(f) # "ended"
  PROVE  /\ f.pc \in 1..Len(Program[f.method])
         /\ StepOf(f) = Program[f.method][f.pc].do
         /\ StepOf(f) \in {"shared", "exclusive"} => f.pc = 1
         /\ StepOf(f) = "emulate" => f.pc > 1 /\ Program[f.method][1].do = "exclusive"
         /\ StepOf(f) \in {"lock", "unlock", "brief"} => LockOf(f) \in Locks
         /\ Onward(f) \in Frames
<1>1. f.method \in Methods /\ f.pc \in Nat \ {0}
  BY DEF Frames
<1>2. Fits(Program[f.method])
  BY <1>1, ProgramsFit
<1>3. Len(Program[f.method]) \in Nat
  BY <1>2, LenProperties DEF Fits
<1>4. f.pc \in 1..Len(Program[f.method]) /\ StepOf(f) = Program[f.method][f.pc].do
  BY <1>1, <1>3 DEF StepOf, Ended
<1>5. Program[f.method][f.pc] \in Steps
  BY <1>2, <1>4, ElementOfSeq DEF Fits
<1>6. StepOf(f) \in {"lock", "unlock", "brief"} => LockOf(f) \in Locks
  BY <1>4, <1>5, StepsAre DEF LockOf
<1>7. Onward(f) \in Frames
  BY DEF Onward, Frames
<1> QED BY <1>2, <1>4, <1>6, <1>7 DEF Fits

(* The borrows of every kind can be counted.                               *)
LEMMA BorrowersFinite ==
  ASSUME NEW k
  PROVE  IsFiniteSet(Borrowers(k)) /\ Borrowers(k) \subseteq Threads \X (1..MaxDepth)
<1>1. IsFiniteSet(1..MaxDepth)
  BY FS_Interval, ReentryAssumption
<1>2. IsFiniteSet(Threads \X (1..MaxDepth))
  BY <1>1, FS_Product, ReentryAssumption
<1>3. Borrowers(k) \subseteq Threads \X (1..MaxDepth)
  BY DEF Borrowers
<1> QED BY <1>2, <1>3, FS_Subset

(* A new frame has borrowed nothing.                                       *)
LEMMA PushBorrowers ==
  ASSUME TypeOK, NEW t \in Threads, NEW m \in Methods, Push(t, m),
         NEW k \in {"shared", "exclusive"}
  PROVE  Borrowers(k)' = Borrowers(k)
<1>1. /\ \A u \in Threads :
            /\ Len(stack'[u]) = IF u = t THEN Depth(t) + 1 ELSE Depth(u)
            /\ \A i \in 1..Depth(u) : stack'[u][i] = stack[u][i]
      /\ stack'[t][Depth(t) + 1].borrow = "none"
  <2>1. stack \in [Threads -> Seq(Frames)]
    BY DEF TypeOK
  <2>2. Entered(m).borrow = "none"
    BY DEF Entered
  <2> QED BY <2>1, <2>2, PushStack
<1>2. \A u \in Threads : Depth(u) \in Nat
  BY LenProperties DEF TypeOK, Depth
<1>3. ASSUME NEW u \in Threads, NEW i \in 1..MaxDepth
      PROVE  i <= Len(stack'[u]) /\ stack'[u][i].borrow = k
               <=> i <= Depth(u) /\ stack[u][i].borrow = k
  BY <1>1, <1>2
<1> QED BY <1>3, Zenon DEF Borrowers, Depth

(* The last frame changed: its place may join or leave the borrowers.      *)
LEMMA BecomesBorrowers ==
  ASSUME TypeOK, NEW t \in Threads, Depth(t) > 0, NEW f \in Frames, Becomes(t, f),
         NEW k \in {"shared", "exclusive"}
  PROVE  /\ f.borrow = Top(t).borrow => Borrowers(k)' = Borrowers(k)
         /\ f.borrow = k => Borrowers(k)' = Borrowers(k) \cup {<<t, Depth(t)>>}
         /\ f.borrow # k /\ Top(t).borrow = "none" => Borrowers(k)' = Borrowers(k)
<1>1. \A u \in Threads :
        /\ Len(stack'[u]) = Depth(u)
        /\ \A i \in 1..Depth(u) :
             stack'[u][i] = IF u = t /\ i = Depth(t) THEN f ELSE stack[u][i]
  BY BecomesStack DEF TypeOK
<1>2. \A u \in Threads : Depth(u) \in Nat
  BY LenProperties DEF TypeOK, Depth
<1>3. Depth(t) \in 1..MaxDepth /\ Top(t) = stack[t][Depth(t)]
  BY TopIs
<1>4. \A u \in Threads, i \in 1..MaxDepth :
        i <= Len(stack'[u]) /\ stack'[u][i].borrow = k
          <=> /\ i <= Depth(u)
              /\ IF u = t /\ i = Depth(t) THEN f.borrow = k ELSE stack[u][i].borrow = k
  BY <1>1, <1>2
<1>5. \A u \in Threads, i \in 1..MaxDepth :
        <<u, i>> \in Borrowers(k)'
          <=> /\ i <= Depth(u)
              /\ IF u = t /\ i = Depth(t) THEN f.borrow = k ELSE stack[u][i].borrow = k
  BY <1>4 DEF Borrowers, Depth
<1>6. \A u \in Threads, i \in 1..MaxDepth :
        <<u, i>> \in Borrowers(k) <=> i <= Depth(u) /\ stack[u][i].borrow = k
  BY DEF Borrowers
<1>7. Borrowers(k) \subseteq Threads \X (1..MaxDepth) /\ Borrowers(k)' \subseteq Threads \X (1..MaxDepth)
  BY DEF Borrowers
<1>8. ASSUME f.borrow = Top(t).borrow \/ (f.borrow # k /\ Top(t).borrow = "none")
      PROVE  Borrowers(k)' = Borrowers(k)
  <2>1. \A u \in Threads, i \in 1..MaxDepth : <<u, i>> \in Borrowers(k)' <=> <<u, i>> \in Borrowers(k)
    BY <1>3, <1>5, <1>6, <1>8
  <2> QED BY <1>7, <2>1
<1>9. ASSUME f.borrow = k
      PROVE  Borrowers(k)' = Borrowers(k) \cup {<<t, Depth(t)>>}
  <2>1. \A u \in Threads, i \in 1..MaxDepth :
          <<u, i>> \in Borrowers(k)' <=> <<u, i>> \in Borrowers(k) \/ (u = t /\ i = Depth(t))
    <3> SUFFICES ASSUME NEW u \in Threads, NEW i \in 1..MaxDepth
                 PROVE  <<u, i>> \in Borrowers(k)'
                          <=> <<u, i>> \in Borrowers(k) \/ (u = t /\ i = Depth(t))
      OBVIOUS
    <3>1. CASE u = t /\ i = Depth(t)
      <4>1. i <= Depth(u)
        BY <1>2, <3>1
      <4> QED BY <1>5, <1>9, <3>1, <4>1
    <3>2. CASE ~(u = t /\ i = Depth(t))
      BY <1>5, <1>6, <3>2
    <3> QED BY <3>1, <3>2
  <2> QED BY <1>3, <1>7, <2>1
<1> QED BY <1>8, <1>9

(* A frame that goes gives its borrow back.                                *)
LEMMA UnwindBorrowers ==
  ASSUME TypeOK, NEW t \in Threads, Depth(t) > 0, Unwind(t), NEW k \in {"shared", "exclusive"}
  PROVE  Borrowers(k)' = Borrowers(k) \ {<<t, Depth(t)>>}
<1>1. \A u \in Threads :
        /\ Len(stack'[u]) = IF u = t THEN Depth(t) - 1 ELSE Depth(u)
        /\ \A i \in 1..Len(stack'[u]) : stack'[u][i] = stack[u][i]
  BY UnwindStack DEF TypeOK
<1>2. \A u \in Threads : Depth(u) \in Nat
  BY LenProperties DEF TypeOK, Depth
<1>3. \A u \in Threads, i \in 1..MaxDepth :
        i <= Len(stack'[u]) /\ stack'[u][i].borrow = k
          <=> i <= Depth(u) /\ stack[u][i].borrow = k /\ ~(u = t /\ i = Depth(t))
  BY <1>1, <1>2
<1>4. \A u \in Threads, i \in 1..MaxDepth :
        <<u, i>> \in Borrowers(k)'
          <=> i <= Depth(u) /\ stack[u][i].borrow = k /\ ~(u = t /\ i = Depth(t))
  BY <1>3 DEF Borrowers, Depth
<1>5. \A u \in Threads, i \in 1..MaxDepth :
        <<u, i>> \in Borrowers(k)' <=> <<u, i>> \in Borrowers(k) \ {<<t, Depth(t)>>}
  BY <1>4 DEF Borrowers
<1>6. Borrowers(k) \subseteq Threads \X (1..MaxDepth) /\ Borrowers(k)' \subseteq Threads \X (1..MaxDepth)
  BY DEF Borrowers
<1> QED BY <1>5, <1>6

-----------------------------------------------------------------------------
(* The part of the invariant that speaks of the stacks alone.              *)
StacksShaped ==
  /\ stack \in [Threads -> Seq(Frames)]
  /\ \A t \in Threads :
       /\ Depth(t) <= MaxDepth
       /\ \A i \in 1..(Depth(t) - 1) : StepOf(stack[t][i]) \in {"body", "emulate"}
  /\ FramesSound

(* The part that speaks of the guards.                                     *)
Guards == OwnersMatch /\ GuardsApart

(* A call that Python code or the guest may make.                          *)
LEMMA PushShaped ==
  ASSUME IInv, NEW t \in Threads, NEW m \in Methods, Push(t, m), Depth(t) < MaxDepth,
         Depth(t) > 0 => StepOf(Top(t)) \in {"body", "emulate"}
  PROVE  StacksShaped'
<1>1. /\ stack' \in [Threads -> Seq(Frames)]
      /\ \A u \in Threads :
           /\ Len(stack'[u]) = IF u = t THEN Depth(t) + 1 ELSE Depth(u)
           /\ \A i \in 1..Depth(u) : stack'[u][i] = stack[u][i]
      /\ stack'[t][Depth(t) + 1] = Entered(m)
  BY PushStack DEF IInv, TypeOK
<1>2. \A u \in Threads : Depth(u) \in Nat
  BY LenProperties DEF IInv, TypeOK, Depth
<1>3. \A u \in Threads : Len(stack'[u]) <= MaxDepth
  BY <1>1, <1>2, ReentryAssumption DEF IInv, TypeOK
<1>4. ASSUME NEW u \in Threads, NEW i \in 1..(Len(stack'[u]) - 1)
      PROVE  StepOf(stack'[u][i]) \in {"body", "emulate"}
  <2>1. i \in 1..Depth(u) /\ stack'[u][i] = stack[u][i]
    BY <1>1, <1>2
  <2>2. CASE u = t /\ i = Depth(t)
    BY <1>2, <2>1, <2>2 DEF Top
  <2>3. CASE ~(u = t /\ i = Depth(t))
    <3>1. i \in 1..(Depth(u) - 1)
      BY <1>1, <1>2, <2>1, <2>3
    <3> QED BY <2>1, <3>1 DEF IInv, TypeOK
  <2> QED BY <2>2, <2>3
<1>5. FrameSound(Entered(m))
  BY DEF FrameSound, Entered
<1>6. \A u \in Threads : \A i \in 1..Len(stack'[u]) : FrameSound(stack'[u][i])
  <2>1. \A u \in Threads : \A i \in 1..Len(stack'[u]) :
          stack'[u][i] = Entered(m) \/ (i \in 1..Depth(u) /\ stack'[u][i] = stack[u][i])
    BY <1>1, <1>2
  <2> QED BY <1>5, <2>1 DEF IInv, FramesSound
<1> QED BY <1>1, <1>3, <1>4, <1>6 DEF StacksShaped, FramesSound, Depth

(* A step of the running frame.                                            *)
LEMMA BecomesShaped ==
  ASSUME IInv, NEW t \in Threads, Depth(t) > 0, NEW f \in Frames, FrameSound(f), Becomes(t, f)
  PROVE  StacksShaped'
<1>1. /\ stack' \in [Threads -> Seq(Frames)]
      /\ \A u \in Threads :
           /\ Len(stack'[u]) = Depth(u)
           /\ \A i \in 1..Depth(u) :
                stack'[u][i] = IF u = t /\ i = Depth(t) THEN f ELSE stack[u][i]
  BY BecomesStack DEF IInv, TypeOK
<1>2. \A u \in Threads : Depth(u) \in Nat
  BY LenProperties DEF IInv, TypeOK, Depth
<1>3. \A u \in Threads : Len(stack'[u]) <= MaxDepth
  BY <1>1 DEF IInv, TypeOK
<1>4. ASSUME NEW u \in Threads, NEW i \in 1..(Len(stack'[u]) - 1)
      PROVE  StepOf(stack'[u][i]) \in {"body", "emulate"}
  <2>1. i \in 1..(Depth(u) - 1) /\ i \in 1..Depth(u) /\ ~(u = t /\ i = Depth(t))
    BY <1>1, <1>2
  <2> QED BY <1>1, <2>1 DEF IInv, TypeOK
<1>5. \A u \in Threads : \A i \in 1..Len(stack'[u]) : FrameSound(stack'[u][i])
  BY <1>1 DEF IInv, FramesSound
<1> QED BY <1>1, <1>3, <1>4, <1>5 DEF StacksShaped, FramesSound, Depth

(* The running frame goes.                                                 *)
LEMMA UnwindShaped ==
  ASSUME IInv, NEW t \in Threads, Depth(t) > 0, Unwind(t)
  PROVE  StacksShaped'
<1>1. /\ stack' \in [Threads -> Seq(Frames)]
      /\ \A u \in Threads :
           /\ Len(stack'[u]) = IF u = t THEN Depth(t) - 1 ELSE Depth(u)
           /\ \A i \in 1..Len(stack'[u]) : stack'[u][i] = stack[u][i]
  BY UnwindStack DEF IInv, TypeOK
<1>2. \A u \in Threads : Depth(u) \in Nat /\ Len(stack'[u]) \in Nat
  BY <1>1, LenProperties DEF IInv, TypeOK, Depth
<1>3. \A u \in Threads : Len(stack'[u]) <= Depth(u) /\ Len(stack'[u]) <= MaxDepth
  BY <1>1, <1>2, ReentryAssumption DEF IInv, TypeOK
<1>4. ASSUME NEW u \in Threads, NEW i \in 1..(Len(stack'[u]) - 1)
      PROVE  StepOf(stack'[u][i]) \in {"body", "emulate"}
  <2>1. i \in 1..(Depth(u) - 1) /\ i \in 1..Len(stack'[u])
    BY <1>2, <1>3
  <2> QED BY <1>1, <2>1 DEF IInv, TypeOK
<1>5. \A u \in Threads : \A i \in 1..Len(stack'[u]) : FrameSound(stack'[u][i])
  <2>1. \A u \in Threads : \A i \in 1..Len(stack'[u]) : i \in 1..Depth(u)
    BY <1>2, <1>3
  <2> QED BY <1>1, <2>1 DEF IInv, FramesSound
<1> QED BY <1>1, <1>3, <1>4, <1>5 DEF StacksShaped, FramesSound, Depth

(* A new frame holds no guard.                                             *)
LEMMA PushGuards ==
  ASSUME IInv, NEW t \in Threads, NEW m \in Methods, Push(t, m), UNCHANGED owner
  PROVE  Guards'
<1>1. /\ \A u \in Threads :
           /\ Len(stack'[u]) = IF u = t THEN Depth(t) + 1 ELSE Depth(u)
           /\ \A i \in 1..Depth(u) : stack'[u][i] = stack[u][i]
      /\ stack'[t][Depth(t) + 1] = Entered(m)
  BY PushStack DEF IInv, TypeOK
<1>2. \A u \in Threads : Depth(u) \in Nat
  BY LenProperties DEF IInv, TypeOK, Depth
<1>3. Entered(m).holds = {}
  BY DEF Entered
<1>4. \A u \in Threads : \A i \in 1..Len(stack'[u]) :
        stack'[u][i].holds = {} \/ (i \in 1..Depth(u) /\ stack'[u][i] = stack[u][i])
  BY <1>1, <1>2, <1>3
<1>5. \A u \in Threads : \A i \in 1..Depth(u) :
        i \in 1..Len(stack'[u]) /\ stack'[u][i] = stack[u][i]
  BY <1>1, <1>2
<1>6. ASSUME NEW l \in Locks, NEW u \in Threads
      PROVE  owner'[l] = u <=> \E i \in 1..Len(stack'[u]) : l \in stack'[u][i].holds
  <2>1. owner[l] = u <=> \E i \in 1..Depth(u) : l \in stack[u][i].holds
    BY DEF IInv, GuardsMatch, OwnersMatch
  <2> QED BY <1>4, <1>5, <2>1
<1>7. ASSUME NEW u \in Threads, NEW i \in 1..Len(stack'[u]), NEW j \in 1..Len(stack'[u]), i # j
      PROVE  stack'[u][i].holds \cap stack'[u][j].holds = {}
  BY <1>4, <1>7 DEF IInv, GuardsMatch, GuardsApart
<1> QED BY <1>6, <1>7 DEF Guards, OwnersMatch, GuardsApart, Depth

(* The running frame takes a free guard, drops one of its own, or neither. *)
LEMMA BecomesGuards ==
  ASSUME IInv, NEW t \in Threads, Depth(t) > 0, NEW f \in Frames, Becomes(t, f),
         \/ f.holds = Top(t).holds /\ UNCHANGED owner
         \/ \E l \in Locks :
              \/ /\ owner[l] = NoThread /\ owner' = [owner EXCEPT ![l] = t]
                 /\ f.holds = Top(t).holds \cup {l}
              \/ /\ l \in Top(t).holds /\ owner' = [owner EXCEPT ![l] = NoThread]
                 /\ f.holds = Top(t).holds \ {l}
  PROVE  Guards'
<1>1. \A u \in Threads :
        /\ Len(stack'[u]) = Depth(u)
        /\ \A i \in 1..Depth(u) :
             stack'[u][i] = IF u = t /\ i = Depth(t) THEN f ELSE stack[u][i]
  BY BecomesStack DEF IInv, TypeOK
<1>2. Depth(t) \in 1..Depth(t) /\ Top(t) = stack[t][Depth(t)]
  BY LenProperties DEF IInv, TypeOK, Depth, Top
<1>3. /\ \A l \in Locks : \A u \in Threads :
            owner[l] = u <=> \E i \in 1..Depth(u) : l \in stack[u][i].holds
      /\ \A u \in Threads : \A i, j \in 1..Depth(u) :
            i # j => stack[u][i].holds \cap stack[u][j].holds = {}
      /\ owner \in [Locks -> Threads \cup {NoThread}]
  BY DEF IInv, GuardsMatch, OwnersMatch, GuardsApart, TypeOK
<1> DEFINE Fine ==
      /\ \A l \in Locks : \A u \in Threads :
           owner'[l] = u <=> \E i \in 1..Depth(u) : l \in stack'[u][i].holds
      /\ \A u \in Threads : \A i, j \in 1..Depth(u) :
           i # j => stack'[u][i].holds \cap stack'[u][j].holds = {}
<1>4. ASSUME f.holds = Top(t).holds, UNCHANGED owner PROVE Fine
  <2>1. \A u \in Threads : \A i \in 1..Depth(u) : stack'[u][i].holds = stack[u][i].holds
    BY <1>1, <1>2, <1>4
  <2>2. owner' = owner
    BY <1>4
  <2>3. \A l \in Locks : \A u \in Threads :
          owner'[l] = u <=> \E i \in 1..Depth(u) : l \in stack'[u][i].holds
    BY <1>3, <2>1, <2>2
  <2>4. ASSUME NEW u \in Threads, NEW i \in 1..Depth(u), NEW j \in 1..Depth(u), i # j
        PROVE  stack'[u][i].holds \cap stack'[u][j].holds = {}
    BY <1>3, <2>1, <2>4
  <2> QED BY <2>3, <2>4
<1>5. ASSUME NEW l \in Locks, owner[l] = NoThread, owner' = [owner EXCEPT ![l] = t],
             f.holds = Top(t).holds \cup {l}
      PROVE  Fine
  <2>1. \A u \in Threads : \A i \in 1..Depth(u) : l \notin stack[u][i].holds
    BY <1>3, <1>5, ReentryAssumption
  <2>2. \A u \in Threads : \A i \in 1..Depth(u) : \A k :
          k \in stack'[u][i].holds
            <=> k \in stack[u][i].holds \/ (k = l /\ u = t /\ i = Depth(t))
    BY <1>1, <1>2, <1>5
  <2>3. owner'[l] = t /\ \A k \in Locks : k # l => owner'[k] = owner[k]
    BY <1>3, <1>5
  <2>4. ASSUME NEW k \in Locks, NEW u \in Threads
        PROVE  owner'[k] = u <=> \E i \in 1..Depth(u) : k \in stack'[u][i].holds
    <3>1. CASE k = l
      BY <1>2, <2>1, <2>2, <2>3, <3>1
    <3>2. CASE k # l
      BY <1>3, <2>2, <2>3, <3>2
    <3> QED BY <3>1, <3>2
  <2>5. ASSUME NEW u \in Threads, NEW i \in 1..Depth(u), NEW j \in 1..Depth(u), i # j
        PROVE  stack'[u][i].holds \cap stack'[u][j].holds = {}
    <3>1. stack[u][i].holds \cap stack[u][j].holds = {}
      BY <1>3, <2>5
    <3> QED BY <2>1, <2>2, <2>5, <3>1
  <2> QED BY <2>4, <2>5
<1>6. ASSUME NEW l \in Locks, l \in Top(t).holds, owner' = [owner EXCEPT ![l] = NoThread],
             f.holds = Top(t).holds \ {l}
      PROVE  Fine
  <2>1. \A u \in Threads : \A i \in 1..Depth(u) :
          l \in stack[u][i].holds => u = t /\ i = Depth(t)
    <3>1. owner[l] = t
      BY <1>2, <1>3, <1>6
    <3>2. \A u \in Threads : \A i \in 1..Depth(u) : l \in stack[u][i].holds => u = t
      BY <1>3, <3>1
    <3>3. \A i \in 1..Depth(t) : l \in stack[t][i].holds => i = Depth(t)
      BY <1>2, <1>3, <1>6
    <3> QED BY <3>2, <3>3
  <2>2. \A u \in Threads : \A i \in 1..Depth(u) : \A k :
          k \in stack'[u][i].holds <=> k \in stack[u][i].holds /\ k # l
    BY <1>1, <1>2, <1>6, <2>1
  <2>3. owner'[l] = NoThread /\ \A k \in Locks : k # l => owner'[k] = owner[k]
    BY <1>3, <1>6
  <2>4. ASSUME NEW k \in Locks, NEW u \in Threads
        PROVE  owner'[k] = u <=> \E i \in 1..Depth(u) : k \in stack'[u][i].holds
    <3>1. CASE k = l
      BY <2>2, <2>3, <3>1, ReentryAssumption
    <3>2. CASE k # l
      BY <1>3, <2>2, <2>3, <3>2
    <3> QED BY <3>1, <3>2
  <2>5. ASSUME NEW u \in Threads, NEW i \in 1..Depth(u), NEW j \in 1..Depth(u), i # j
        PROVE  stack'[u][i].holds \cap stack'[u][j].holds = {}
    <3>1. stack[u][i].holds \cap stack[u][j].holds = {}
      BY <1>3, <2>5
    <3> QED BY <2>2, <3>1
  <2> QED BY <2>4, <2>5
<1> HIDE DEF Fine
<1>7. Fine
  BY <1>4, <1>5, <1>6
<1>8. \A u \in Threads : Depth(u)' = Depth(u)
  BY <1>1 DEF Depth
<1>9. OwnersMatch'
  BY <1>7, <1>8 DEF Fine, OwnersMatch
<1>10. GuardsApart'
  BY <1>7, <1>8 DEF Fine, GuardsApart
<1> QED BY <1>9, <1>10 DEF Guards

(* The guards of a frame that goes are free, and only they.                *)
LEMMA UnwindGuards ==
  ASSUME IInv, NEW t \in Threads, Depth(t) > 0, Unwind(t)
  PROVE  Guards' /\ owner' \in [Locks -> Threads \cup {NoThread}]
<1>1. \A u \in Threads :
        /\ Len(stack'[u]) = IF u = t THEN Depth(t) - 1 ELSE Depth(u)
        /\ \A i \in 1..Len(stack'[u]) : stack'[u][i] = stack[u][i]
  BY UnwindStack DEF IInv, TypeOK
<1>2. \A u \in Threads : Depth(u) \in Nat
  BY LenProperties DEF IInv, TypeOK, Depth
<1>3. owner' = [l \in Locks |-> IF l \in Top(t).holds THEN NoThread ELSE owner[l]]
  BY DEF Unwind
<1>4. /\ \A l \in Locks : \A u \in Threads :
            owner[l] = u <=> \E i \in 1..Depth(u) : l \in stack[u][i].holds
      /\ \A u \in Threads : \A i, j \in 1..Depth(u) :
            i # j => stack[u][i].holds \cap stack[u][j].holds = {}
      /\ owner \in [Locks -> Threads \cup {NoThread}]
  BY DEF IInv, GuardsMatch, OwnersMatch, GuardsApart, TypeOK
<1>5. Depth(t) \in 1..Depth(t) /\ Top(t) = stack[t][Depth(t)]
  BY <1>2 DEF Top
<1>6. \A u \in Threads : \A i : i \in 1..Len(stack'[u]) <=> i \in 1..Depth(u) /\ ~(u = t /\ i = Depth(t))
  BY <1>1, <1>2
<1>7. ASSUME NEW l \in Locks, NEW u \in Threads
      PROVE  owner'[l] = u <=> \E i \in 1..Len(stack'[u]) : l \in stack'[u][i].holds
  <2>1. CASE l \in Top(t).holds
    <3>1. owner[l] = t
      BY <1>4, <1>5, <2>1
    <3>2. owner'[l] # u
      BY <1>3, <2>1, ReentryAssumption
    <3>3. \A i \in 1..Depth(u) : l \in stack[u][i].holds => u = t /\ i = Depth(t)
      BY <1>4, <1>5, <2>1, <3>1
    <3> QED BY <1>1, <1>6, <3>2, <3>3
  <2>2. CASE l \notin Top(t).holds
    <3>1. owner'[l] = owner[l]
      BY <1>3, <2>2
    <3> QED BY <1>1, <1>4, <1>5, <1>6, <2>2, <3>1
  <2> QED BY <2>1, <2>2
<1>8. \A u \in Threads : \A i, j \in 1..Len(stack'[u]) :
        i # j => stack'[u][i].holds \cap stack'[u][j].holds = {}
  BY <1>1, <1>4, <1>6
<1> QED BY <1>3, <1>4, <1>7, <1>8 DEF Guards, OwnersMatch, GuardsApart, Depth

-----------------------------------------------------------------------------
(* What a step may do to the borrows: what PyO3's cell allows, or nothing. *)
CellStep ==
  Cell!Next \/ UNCHANGED <<Borrowers("shared"), Borrowers("exclusive")>>

(* What a step must establish besides.                                     *)
Rest ==
  /\ gil \in Threads /\ cell \in Int /\ cell >= -1
  /\ owner \in [Locks -> Threads \cup {NoThread}]
  /\ CellCounts /\ OneWriter

(* The invariant and its three parts.                                      *)
LEMMA Parts == IInv <=> StacksShaped /\ Guards /\ Rest
BY DEF IInv, StacksShaped, Guards, Rest, TypeOK, GuardsMatch

(* Borrows and flag as they were.                                          *)
LEMMA SameCell ==
  ASSUME IInv, UNCHANGED <<gil, cell, owner>>,
         \A k \in {"shared", "exclusive"} : Borrowers(k)' = Borrowers(k)
  PROVE  Rest' /\ CellStep
<1>1. Borrowers("shared")' = Borrowers("shared") /\ Borrowers("exclusive")' = Borrowers("exclusive")
  OBVIOUS
<1>2. CellCounts' /\ OneWriter'
  BY <1>1 DEF IInv, GuardsMatch, CellCounts, OneWriter
<1>3. CellStep
  BY <1>1 DEF CellStep
<1> QED BY <1>2, <1>3 DEF IInv, Rest, TypeOK

(* What a new frame keeps.                                                 *)
LEMMA PushInv ==
  ASSUME IInv, NEW t \in Threads, NEW m \in Methods, Push(t, m), Depth(t) < MaxDepth,
         Depth(t) > 0 => StepOf(Top(t)) \in {"body", "emulate"},
         UNCHANGED <<gil, cell, owner>>
  PROVE  IInv' /\ CellStep
<1>1. StacksShaped'
  BY PushShaped
<1>2. Guards'
  BY PushGuards
<1>3. Rest' /\ CellStep
  BY PushBorrowers, SameCell DEF IInv
<1> QED BY <1>1, <1>2, <1>3, Parts, PTL

(* A frame that goes on, and the guards and the borrow it then has.        *)
LEMMA FrameGoesOn ==
  ASSUME NEW g \in Frames
  PROVE  /\ Onward(g) \in Frames /\ Onward(g).pc = g.pc + 1 /\ Onward(g).method = g.method
         /\ Onward(g).borrow = g.borrow /\ Onward(g).holds = g.holds
         /\ \A H \in SUBSET Locks : LET f == [g EXCEPT !.holds = H] IN
              /\ f \in Frames /\ f.pc = g.pc /\ f.method = g.method
              /\ f.borrow = g.borrow /\ f.holds = H
         /\ \A k \in {"shared", "exclusive"} : LET f == [g EXCEPT !.borrow = k] IN
              /\ f \in Frames /\ f.pc = g.pc /\ f.method = g.method
              /\ f.borrow = k /\ f.holds = g.holds
         /\ g = [g EXCEPT !.holds = g.holds] /\ g.holds \in SUBSET Locks
         /\ g.pc \in Nat \ {0}
<1>1. /\ Onward(g) \in Frames /\ Onward(g).pc = g.pc + 1 /\ Onward(g).method = g.method
      /\ Onward(g).borrow = g.borrow /\ Onward(g).holds = g.holds
  BY DEF Onward, Frames
<1>2. ASSUME NEW H \in SUBSET Locks
      PROVE  LET f == [g EXCEPT !.holds = H] IN
              /\ f \in Frames /\ f.pc = g.pc /\ f.method = g.method
              /\ f.borrow = g.borrow /\ f.holds = H
  BY DEF Frames
<1>3. ASSUME NEW k \in {"shared", "exclusive"}
      PROVE  LET f == [g EXCEPT !.borrow = k] IN
              /\ f \in Frames /\ f.pc = g.pc /\ f.method = g.method
              /\ f.borrow = k /\ f.holds = g.holds
  BY DEF Frames
<1>4. g = [g EXCEPT !.holds = g.holds] /\ g.holds \in SUBSET Locks /\ g.pc \in Nat \ {0}
  BY DEF Frames
<1> QED BY <1>1, <1>2, <1>3, <1>4

(* A step that is no borrow goes on in the program and may move a guard.   *)
LEMMA AdvanceShaped ==
  ASSUME IInv, NEW t \in Threads, Depth(t) > 0,
         StepOf(Top(t)) \notin {"shared", "exclusive", "ended"},
         NEW H \in SUBSET Locks, Becomes(t, [Onward(Top(t)) EXCEPT !.holds = H])
  PROVE  /\ StacksShaped'
         /\ \A k \in {"shared", "exclusive"} : Borrowers(k)' = Borrowers(k)
<1> DEFINE f == [Onward(Top(t)) EXCEPT !.holds = H]
<1>1. TypeOK
  BY DEF IInv
<1>2. Top(t) \in Frames /\ Depth(t) \in 1..Depth(t) /\ Top(t) = stack[t][Depth(t)]
  <2>1. Top(t) \in Frames /\ Top(t) = stack[t][Depth(t)] /\ Depth(t) \in 1..MaxDepth
    BY <1>1, TopIs
  <2> QED BY <2>1, ReentryAssumption
<1>3. Top(t).pc \in Nat \ {0} /\ StepOf(Top(t)) = Program[Top(t).method][Top(t).pc].do
  BY <1>2, StepIs DEF Frames
<1>4. f \in Frames /\ f.pc = Top(t).pc + 1 /\ f.borrow = Top(t).borrow /\ f.method = Top(t).method
  <2>1. /\ Onward(Top(t)) \in Frames /\ Onward(Top(t)).pc = Top(t).pc + 1
        /\ Onward(Top(t)).method = Top(t).method /\ Onward(Top(t)).borrow = Top(t).borrow
    BY <1>2, FrameGoesOn
  <2>2. f \in Frames /\ f.pc = Onward(Top(t)).pc /\ f.borrow = Onward(Top(t)).borrow
        /\ f.method = Onward(Top(t)).method
    BY <2>1, FrameGoesOn
  <2> HIDE DEF f
  <2> QED BY <2>1, <2>2
<1>5. FrameSound(Top(t))
  BY <1>2 DEF IInv, FramesSound
<1>6. FrameSound(f)
  <2>1. f.pc > 1
    BY <1>3, <1>4
  <2>2. CASE Top(t).pc = 1
    BY <1>3, <1>4, <2>1, <2>2 DEF FrameSound
  <2>3. CASE Top(t).pc > 1
    BY <1>4, <1>5, <2>1, <2>3 DEF FrameSound
  <2> QED BY <1>3, <2>2, <2>3
<1> HIDE DEF f
<1>7. Becomes(t, f)
  BY DEF f
<1>8. StacksShaped'
  BY <1>4, <1>6, <1>7, BecomesShaped
<1>9. \A k \in {"shared", "exclusive"} : Borrowers(k)' = Borrowers(k)
  BY <1>1, <1>4, <1>7, BecomesBorrowers
<1> QED BY <1>8, <1>9

(* The same step when the guards stay.                                     *)
LEMMA PlainAdvance ==
  ASSUME IInv, NEW t \in Threads, Depth(t) > 0,
         StepOf(Top(t)) \notin {"shared", "exclusive", "ended"},
         Becomes(t, Onward(Top(t))), UNCHANGED <<gil, cell, owner>>
  PROVE  IInv' /\ CellStep
<1>1. Top(t) \in Frames
  BY TopIs DEF IInv
<1>2. /\ Onward(Top(t)) \in Frames /\ Onward(Top(t)).holds = Top(t).holds
      /\ Top(t).holds \in SUBSET Locks
      /\ Onward(Top(t)) = [Onward(Top(t)) EXCEPT !.holds = Top(t).holds]
  <2>1. Onward(Top(t)) \in Frames /\ Onward(Top(t)).holds = Top(t).holds
        /\ Top(t).holds \in SUBSET Locks
    BY <1>1, FrameGoesOn
  <2>2. Onward(Top(t)) = [Onward(Top(t)) EXCEPT !.holds = Onward(Top(t)).holds]
    BY <2>1, FrameGoesOn
  <2> QED BY <2>1, <2>2
<1>3. StacksShaped' /\ \A k \in {"shared", "exclusive"} : Borrowers(k)' = Borrowers(k)
  BY <1>2, AdvanceShaped
<1>4. Guards'
  BY <1>2, BecomesGuards
<1>5. Rest' /\ CellStep
  BY <1>3, SameCell
<1> QED BY <1>3, <1>4, <1>5, Parts, PTL

(* The running frame takes or drops a guard.                               *)
LEMMA GuardStep ==
  ASSUME IInv, NEW t \in Threads, LockGuard(t) \/ UnlockGuard(t)
  PROVE  IInv' /\ CellStep
<1> DEFINE l == LockOf(Top(t))
<1>1. TypeOK /\ Depth(t) > 0 /\ StepOf(Top(t)) \in {"lock", "unlock"} /\ UNCHANGED <<gil, cell>>
  BY DEF IInv, LockGuard, UnlockGuard, At
<1>2. Top(t) \in Frames
  BY <1>1, TopIs
<1>3. l \in Locks
  BY <1>1, <1>2, StepIs
<1>4. Onward(Top(t)) \in Frames /\ Onward(Top(t)).holds = Top(t).holds /\ Top(t).holds \in SUBSET Locks
  BY <1>2, FrameGoesOn
<1> HIDE DEF l
<1>5. PICK H \in SUBSET Locks :
        /\ Becomes(t, [Onward(Top(t)) EXCEPT !.holds = H])
        /\ \/ /\ owner[l] = NoThread /\ owner' = [owner EXCEPT ![l] = t]
              /\ H = Top(t).holds \cup {l}
           \/ /\ l \in Top(t).holds /\ owner' = [owner EXCEPT ![l] = NoThread]
              /\ H = Top(t).holds \ {l}
  <2>1. CASE LockGuard(t)
    <3>1. Becomes(t, [Onward(Top(t)) EXCEPT !.holds = Top(t).holds \cup {l}])
      BY <2>1, <1>4 DEF LockGuard, l
    <3> QED BY <2>1, <3>1, <1>3, <1>4 DEF LockGuard, l
  <2>2. CASE UnlockGuard(t)
    <3>1. Becomes(t, [Onward(Top(t)) EXCEPT !.holds = Top(t).holds \ {l}])
      BY <2>2, <1>4 DEF UnlockGuard, l
    <3> QED BY <2>2, <3>1, <1>3, <1>4 DEF UnlockGuard, l
  <2> QED BY <2>1, <2>2
<1> DEFINE f == [Onward(Top(t)) EXCEPT !.holds = H]
<1>6. f \in Frames /\ f.holds = H
  BY <1>4, FrameGoesOn
<1>7. StacksShaped' /\ \A k \in {"shared", "exclusive"} : Borrowers(k)' = Borrowers(k)
  BY <1>1, <1>5, AdvanceShaped
<1> HIDE DEF f
<1>8. Guards'
  <2>1. Becomes(t, f)
    BY <1>5 DEF f
  <2> QED BY <1>1, <1>3, <1>5, <1>6, <2>1, BecomesGuards
<1>9. CellCounts' /\ OneWriter' /\ CellStep
  <2>1. Borrowers("shared")' = Borrowers("shared") /\ Borrowers("exclusive")' = Borrowers("exclusive")
    BY <1>7
  <2> QED BY <1>1, <2>1 DEF IInv, GuardsMatch, CellCounts, OneWriter, CellStep
<1>10. owner' \in [Locks -> Threads \cup {NoThread}]
  BY <1>1, <1>5 DEF TypeOK
<1>11. Rest'
  BY <1>1, <1>9, <1>10 DEF Rest, TypeOK
<1> QED BY <1>7, <1>8, <1>9, <1>11, Parts, PTL

(* The first step of a method that borrows.                                *)
LEMMA BorrowShaped ==
  ASSUME IInv, NEW t \in Threads, NEW k \in {"shared", "exclusive"}, At(t, k),
         Becomes(t, [Onward(Top(t)) EXCEPT !.borrow = k]), UNCHANGED owner
  PROVE  /\ StacksShaped' /\ Guards'
         /\ <<t, Depth(t)>> \in Threads \X (1..MaxDepth)
         /\ <<t, Depth(t)>> \notin Borrowers("shared") \cup Borrowers("exclusive")
         /\ Borrowers(k)' = Borrowers(k) \cup {<<t, Depth(t)>>}
         /\ \A j \in {"shared", "exclusive"} : j # k => Borrowers(j)' = Borrowers(j)
<1> DEFINE f == [Onward(Top(t)) EXCEPT !.borrow = k]
<1>1. TypeOK /\ Depth(t) > 0 /\ StepOf(Top(t)) = k
  BY DEF IInv, At
<1>2. /\ Top(t) \in Frames /\ Top(t) = stack[t][Depth(t)]
      /\ <<t, Depth(t)>> \in Threads \X (1..MaxDepth)
  BY <1>1, TopIs
<1>3. Top(t).pc = 1 /\ k = Program[Top(t).method][1].do
  BY <1>1, <1>2, StepIs
<1>4. Onward(Top(t)) \in Frames /\ Onward(Top(t)).pc = 2 /\ Onward(Top(t)).method = Top(t).method
      /\ Onward(Top(t)).holds = Top(t).holds
  <2>1. Onward(Top(t)) \in Frames /\ Onward(Top(t)).pc = Top(t).pc + 1
        /\ Onward(Top(t)).method = Top(t).method /\ Onward(Top(t)).holds = Top(t).holds
    BY <1>2, FrameGoesOn
  <2> QED BY <1>3, <2>1
<1>5. f \in Frames /\ f.pc = 2 /\ f.method = Top(t).method /\ f.borrow = k /\ f.holds = Top(t).holds
  BY <1>4, FrameGoesOn
<1>6. Becomes(t, f)
  OBVIOUS
<1> HIDE DEF f
<1>7. FrameSound(f)
  BY <1>3, <1>5 DEF FrameSound
<1>8. Depth(t) \in 1..Depth(t)
  BY <1>1, <1>2, LenProperties DEF TypeOK, Depth
<1>9. Top(t).borrow = "none"
  BY <1>2, <1>3, <1>8 DEF IInv, FramesSound, FrameSound
<1>10. StacksShaped'
  BY <1>1, <1>5, <1>6, <1>7, BecomesShaped
<1>11. Guards'
  BY <1>1, <1>5, <1>6, BecomesGuards
<1>12. <<t, Depth(t)>> \notin Borrowers("shared") \cup Borrowers("exclusive")
  BY <1>2, <1>9 DEF Borrowers
<1>13. Borrowers(k)' = Borrowers(k) \cup {<<t, Depth(t)>>}
  BY <1>1, <1>5, <1>6, BecomesBorrowers
<1>14. \A j \in {"shared", "exclusive"} : j # k => Borrowers(j)' = Borrowers(j)
  BY <1>1, <1>5, <1>6, <1>9, BecomesBorrowers
<1> QED BY <1>2, <1>10, <1>11, <1>12, <1>13, <1>14

(* One reader more.                                                        *)
LEMMA BorrowSharedStep ==
  ASSUME IInv, NEW t \in Threads, BorrowShared(t)
  PROVE  IInv' /\ CellStep
<1> DEFINE h == <<t, Depth(t)>>
<1>1. /\ At(t, "shared") /\ cell >= 0 /\ cell' = cell + 1 /\ UNCHANGED <<gil, owner>>
      /\ Becomes(t, [Onward(Top(t)) EXCEPT !.borrow = "shared"])
  BY DEF BorrowShared
<1>2. /\ StacksShaped' /\ Guards' /\ h \in Threads \X (1..MaxDepth)
      /\ h \notin Borrowers("shared") \cup Borrowers("exclusive")
      /\ Borrowers("shared")' = Borrowers("shared") \cup {h}
      /\ Borrowers("exclusive")' = Borrowers("exclusive")
  BY <1>1, BorrowShaped
<1> HIDE DEF h
<1>3. Borrowers("exclusive") = {} /\ cell = Cardinality(Borrowers("shared")) /\ cell \in Int
  BY <1>1 DEF IInv, GuardsMatch, CellCounts, TypeOK
<1>4. Cardinality(Borrowers("shared") \cup {h}) = cell + 1
  BY <1>2, <1>3, BorrowersFinite, FS_AddElement
<1>5. CellCounts' /\ OneWriter'
  BY <1>1, <1>2, <1>3, <1>4 DEF CellCounts, OneWriter
<1>6. Cell!Share(h)
  BY <1>2, <1>3 DEF Cell!Share
<1>7. CellStep
  BY <1>2, <1>6 DEF CellStep, Cell!Next
<1>8. Rest'
  BY <1>1, <1>3, <1>5 DEF Rest, IInv, TypeOK
<1> QED BY <1>2, <1>7, <1>8, Parts, PTL

(* The one writer.                                                         *)
LEMMA BorrowExclusiveStep ==
  ASSUME IInv, NEW t \in Threads, BorrowExclusive(t)
  PROVE  IInv' /\ CellStep
<1> DEFINE h == <<t, Depth(t)>>
<1>1. /\ At(t, "exclusive") /\ cell = 0 /\ cell' = -1 /\ UNCHANGED <<gil, owner>>
      /\ Becomes(t, [Onward(Top(t)) EXCEPT !.borrow = "exclusive"])
  BY DEF BorrowExclusive
<1>2. /\ StacksShaped' /\ Guards' /\ h \in Threads \X (1..MaxDepth)
      /\ Borrowers("exclusive")' = Borrowers("exclusive") \cup {h}
      /\ Borrowers("shared")' = Borrowers("shared")
  BY <1>1, BorrowShaped
<1> HIDE DEF h
<1>3. Borrowers("exclusive") = {} /\ Cardinality(Borrowers("shared")) = 0
  BY <1>1 DEF IInv, GuardsMatch, CellCounts
<1>4. Borrowers("shared") = {}
  BY <1>3, BorrowersFinite, FS_EmptySet
<1>5. Borrowers("exclusive")' = {h} /\ Borrowers("shared")' = {}
  BY <1>2, <1>3, <1>4
<1>6. CellCounts' /\ OneWriter'
  BY <1>1, <1>2, <1>5 DEF CellCounts, OneWriter
<1>7. Cell!Own(h)
  BY <1>3, <1>4, <1>5 DEF Cell!Own
<1>8. CellStep
  BY <1>2, <1>7 DEF CellStep, Cell!Next
<1>9. Rest'
  BY <1>1, <1>6 DEF Rest, IInv, TypeOK
<1> QED BY <1>2, <1>8, <1>9, Parts, PTL

(* The frame goes, whatever it had borrowed.                               *)
LEMMA UnwindStep ==
  ASSUME IInv, NEW t \in Threads, Depth(t) > 0, Unwind(t)
  PROVE  IInv' /\ CellStep
<1> DEFINE h == <<t, Depth(t)>>
           R == Borrowers("shared")
           W == Borrowers("exclusive")
<1>1. TypeOK
  BY DEF IInv
<1>2. R' = R \ {h} /\ W' = W \ {h}
  BY <1>1, UnwindBorrowers
<1>3. h \in Threads \X (1..MaxDepth) /\ Top(t) \in Frames /\ Top(t) = stack[t][Depth(t)]
      /\ Depth(t) \in 1..MaxDepth
  BY <1>1, TopIs
<1>4. Depth(t) <= Depth(t)
  BY <1>3, ReentryAssumption
<1>5. h \in R <=> Top(t).borrow = "shared"
  BY <1>3, <1>4 DEF Borrowers
<1>6. h \in W <=> Top(t).borrow = "exclusive"
  BY <1>3, <1>4 DEF Borrowers
<1>7. Top(t).borrow \in {"none", "shared", "exclusive"}
  BY <1>3 DEF Frames
<1>8. IsFiniteSet(R)
  BY BorrowersFinite
<1>9. /\ cell = IF W = {} THEN Cardinality(R) ELSE -1
      /\ W # {} => R = {} /\ \E g \in Threads \X (1..MaxDepth) : W = {g}
      /\ cell \in Int /\ cell >= -1
  BY DEF IInv, GuardsMatch, CellCounts, OneWriter, TypeOK
<1>10. /\ cell' = CASE Top(t).borrow = "shared" -> cell - 1
                   [] Top(t).borrow = "exclusive" -> 0
                   [] OTHER -> cell
       /\ gil' = gil
  BY DEF Unwind
<1> HIDE DEF h, R, W
<1>11. /\ cell' = IF W' = {} THEN Cardinality(R') ELSE -1
       /\ W' # {} => R' = {} /\ \E g \in Threads \X (1..MaxDepth) : W' = {g}
       /\ cell' \in Int /\ cell' >= -1
       /\ Cell!Drop(h) \/ (R' = R /\ W' = W)
  <2>1. CASE Top(t).borrow = "shared"
    <3>1. h \in R /\ W = {} /\ R # {}
      BY <1>5, <1>9, <2>1
    <3>2. Cardinality(R \ {h}) = Cardinality(R) - 1
      BY <1>8, <3>1, FS_RemoveElement
    <3>3. Cardinality(R) # 0 /\ cell = Cardinality(R)
      BY <1>8, <1>9, <3>1, FS_EmptySet
    <3>4. cell' = cell - 1
      BY <1>10, <2>1
    <3>5. Cell!Drop(h)
      BY <1>2, <3>1 DEF Cell!Drop, R, W
    <3>6. W' = {} /\ cell' = Cardinality(R')
      BY <1>2, <3>1, <3>2, <3>3, <3>4
    <3>7. cell' \in Int /\ cell' >= -1
      BY <1>9, <3>4, <3>3, <1>8, FS_CardinalityType
    <3> QED BY <3>5, <3>6, <3>7
  <2>2. CASE Top(t).borrow = "exclusive"
    <3>1. W = {h} /\ R = {}
      BY <1>6, <1>9, <2>2
    <3>2. W' = {} /\ R' = {}
      BY <1>2, <3>1
    <3>3. cell' = 0
      BY <1>10, <2>2
    <3>4. Cell!Drop(h)
      BY <1>2, <3>1 DEF Cell!Drop, R, W
    <3> QED BY <3>2, <3>3, <3>4, FS_EmptySet
  <2>3. CASE Top(t).borrow = "none"
    <3>1. R' = R /\ W' = W
      BY <1>2, <1>5, <1>6, <2>3
    <3>2. cell' = cell
      BY <1>10, <2>3
    <3> QED BY <1>9, <3>1, <3>2
  <2> QED BY <1>7, <2>1, <2>2, <2>3
<1>12. StacksShaped'
  BY UnwindShaped
<1>13. Guards' /\ owner' \in [Locks -> Threads \cup {NoThread}]
  BY UnwindGuards
<1>14. CellCounts' /\ OneWriter'
  BY <1>11 DEF CellCounts, OneWriter, R, W
<1>15. CellStep
  BY <1>3, <1>11 DEF CellStep, Cell!Next, R, W, h
<1>16. Rest'
  BY <1>1, <1>10, <1>11, <1>13, <1>14 DEF Rest, TypeOK
<1> QED BY <1>12, <1>13, <1>15, <1>16, Parts, PTL

-----------------------------------------------------------------------------
(* At the start nothing is entered, owned or borrowed.                     *)
LEMMA InitInv == Init => IInv /\ Cell!Init
<1> SUFFICES ASSUME Init PROVE IInv /\ Cell!Init
  OBVIOUS
<1>1. \A t \in Threads : stack[t] = <<>> /\ Depth(t) = 0
  BY DEF Init, Depth
<1>2. \A k : Borrowers(k) = {}
  BY <1>1, ReentryAssumption DEF Borrowers
<1>3. StacksShaped
  BY <1>1, ReentryAssumption DEF Init, StacksShaped, FramesSound
<1>4. Guards
  BY <1>1, ReentryAssumption DEF Init, Guards, OwnersMatch, GuardsApart
<1>5. Rest
  <2>1. CellCounts /\ OneWriter
    BY <1>2, FS_EmptySet DEF Init, CellCounts, OneWriter
  <2>2. owner \in [Locks -> Threads \cup {NoThread}]
    BY DEF Init
  <2> QED BY <2>1, <2>2 DEF Init, Rest
<1> QED BY <1>2, <1>3, <1>4, <1>5, Parts DEF Cell!Init

(* Every step keeps the invariant and does to the borrows what the cell    *)
(* allows.                                                                 *)
LEMMA StepInv ==
  ASSUME IInv, Next
  PROVE  IInv' /\ CellStep
<1>1. TypeOK
  BY DEF IInv
<1>2. ASSUME NEW t \in Threads, NEW m \in Uses[t], Call(t, m) PROVE IInv' /\ CellStep
  <2>1. m \in Methods
    BY <1>2, UsesAssumption DEF BridgeMethods
  <2>2. Depth(t) > 0 => StepOf(Top(t)) = "body"
    <3>1. stack[t] = <<>> => Depth(t) = 0
      BY DEF Depth
    <3> QED BY <1>2, <3>1 DEF Call, MayCall
  <2> QED BY <1>2, <2>1, <2>2, PushInv DEF Call
<1>3. ASSUME NEW t \in Threads, NEW m \in GuestMethods, Trap(t, m) PROVE IInv' /\ CellStep
  <2>1. m \in Methods
    BY DEF GuestMethods, Methods, Program
  <2> QED BY <1>3, <2>1, PushInv DEF Trap, At
<1>4. ASSUME NEW t \in Threads, Rust(t) PROVE IInv' /\ CellStep
  <2>1. CASE BorrowShared(t)
    BY <2>1, BorrowSharedStep
  <2>2. CASE BorrowExclusive(t)
    BY <2>2, BorrowExclusiveStep
  <2>3. CASE BorrowRefused(t)
    BY <2>3, UnwindStep DEF BorrowRefused, At
  <2>4. CASE LockGuard(t) \/ UnlockGuard(t)
    BY <2>4, GuardStep
  <2>5. CASE LockBriefly(t)
    BY <2>5, PlainAdvance DEF LockBriefly, At
  <2>6. CASE Return(t)
    BY <2>6, UnwindStep DEF Return, At
  <2> QED BY <1>4, <2>1, <2>2, <2>3, <2>4, <2>5, <2>6 DEF Rust
<1>5. ASSUME NEW t \in Threads, Resume(t) PROVE IInv' /\ CellStep
  BY <1>5, PlainAdvance DEF Resume, At
<1>6. ASSUME NEW t \in Threads, Fail(t) PROVE IInv' /\ CellStep
  BY <1>6, UnwindStep DEF Fail
<1>7. ASSUME NEW t \in Threads, NEW u \in Threads, Switch(t, u) PROVE IInv' /\ CellStep
  <2>1. stack' = stack /\ cell' = cell /\ owner' = owner /\ gil' \in Threads
    BY <1>7 DEF Switch
  <2>2. \A k \in {"shared", "exclusive"} : Borrowers(k)' = Borrowers(k)
    BY <2>1 DEF Borrowers, Depth
  <2>3. Borrowers("shared")' = Borrowers("shared") /\ Borrowers("exclusive")' = Borrowers("exclusive")
    BY <2>2
  <2>4. CellStep
    BY <2>3 DEF CellStep
  <2>5. TypeOK' /\ OwnersMatch' /\ GuardsApart' /\ FramesSound'
    BY <2>1 DEF IInv, TypeOK, GuardsMatch, OwnersMatch, GuardsApart, FramesSound, Depth
  <2>6. CellCounts' /\ OneWriter'
    BY <2>1, <2>3 DEF IInv, GuardsMatch, CellCounts, OneWriter
  <2> QED BY <2>4, <2>5, <2>6 DEF IInv, GuardsMatch
<1> QED BY <1>2, <1>3, <1>4, <1>5, <1>6, <1>7 DEF Next

(* A step that changes nothing.                                            *)
LEMMA StutterInv ==
  ASSUME IInv, UNCHANGED vars
  PROVE  IInv' /\ CellStep
<1>1. stack' = stack /\ cell' = cell /\ owner' = owner /\ gil' = gil
  BY DEF vars
<1>2. Borrowers("shared")' = Borrowers("shared") /\ Borrowers("exclusive")' = Borrowers("exclusive")
  BY <1>1 DEF Borrowers, Depth
<1>3. TypeOK' /\ OwnersMatch' /\ GuardsApart' /\ FramesSound'
  BY <1>1 DEF IInv, TypeOK, GuardsMatch, OwnersMatch, GuardsApart, FramesSound, Depth
<1>4. CellCounts' /\ OneWriter'
  BY <1>1, <1>2 DEF IInv, GuardsMatch, CellCounts, OneWriter
<1> QED BY <1>2, <1>3, <1>4 DEF IInv, GuardsMatch, CellStep

(* The inductive invariant behind the theorems of this module.             *)
THEOREM InvHolds == Spec => []IInv
<1>1. IInv /\ [Next]_vars => IInv'
  BY StepInv, StutterInv
<1> QED BY InitInv, <1>1, PTL DEF Spec

(***************************************************************************)
(* However frames come and go, every mutex is owned by the frame that took *)
(* it and PyO3's flag counts the borrows on the stacks.                    *)
(***************************************************************************)
THEOREM StacksAlwaysSound == Spec => []StacksSound
<1>1. IInv => StacksSound
  BY DEF IInv, StacksSound
<1> QED BY InvHolds, <1>1, PTL

(***************************************************************************)
(* Guest code runs once at a time, and nobody else is in the bridge while  *)
(* it does.                                                                *)
(***************************************************************************)
THEOREM GuestAlwaysAlone == Spec => []GuestAlone
<1>1. ASSUME IInv PROVE GuestAlone
  <2> SUFFICES ASSUME NEW t \in Threads, NEW i \in 1..Depth(t), StepOf(stack[t][i]) = "emulate"
               PROVE  /\ stack[t][i].borrow = "exclusive"
                      /\ \A u \in Threads : \A j \in 1..Depth(u) :
                           <<u, j>> # <<t, i>> => stack[u][j].borrow = "none"
    BY DEF GuestAlone
  <2>1. \A u \in Threads : \A j \in 1..Depth(u) :
          stack[u][j] \in Frames /\ j \in 1..MaxDepth /\ j <= Depth(u)
    <3> TAKE u \in Threads
    <3> TAKE j \in 1..Depth(u)
    <3>1. stack[u] \in Seq(Frames) /\ Depth(u) \in Nat /\ Depth(u) <= MaxDepth
      BY <1>1, LenProperties DEF IInv, TypeOK, Depth
    <3>2. stack[u][j] \in Frames
      BY <3>1, ElementOfSeq DEF Depth
    <3> QED BY <3>1, <3>2, ReentryAssumption
  <2>2. stack[t][i].pc > 1 /\ Program[stack[t][i].method][1].do = "exclusive"
    BY <2>1, StepIs
  <2>3. stack[t][i].borrow = "exclusive"
    BY <1>1, <2>2 DEF IInv, FramesSound, FrameSound
  <2>4. <<t, i>> \in Borrowers("exclusive")
    BY <2>1, <2>3 DEF Borrowers
  <2>5. Borrowers("shared") = {} /\ \A p \in Borrowers("exclusive") : p = <<t, i>>
    BY <1>1, <2>4 DEF IInv, OneWriter
  <2>6. ASSUME NEW u \in Threads, NEW j \in 1..Depth(u), <<u, j>> # <<t, i>>
        PROVE  stack[u][j].borrow = "none"
    <3>1. ASSUME stack[u][j].borrow = "shared" PROVE FALSE
      <4>1. <<u, j>> \in Borrowers("shared")
        BY <2>1, <3>1 DEF Borrowers
      <4> QED BY <2>5, <4>1
    <3>2. ASSUME stack[u][j].borrow = "exclusive" PROVE FALSE
      <4>1. <<u, j>> \in Borrowers("exclusive")
        BY <2>1, <3>2 DEF Borrowers
      <4> QED BY <2>5, <2>6, <4>1
    <3> QED BY <2>1, <3>1, <3>2 DEF Frames
  <2> QED BY <2>3, <2>6
<1> QED BY InvHolds, <1>1, PTL

(* The borrows on the stacks behave as the cell PyO3 promises.             *)
THEOREM BridgeImplementsCell == Spec => ImplementsCell
<1>1. IInv /\ [Next]_vars => [Cell!Next]_<<Borrowers("shared"), Borrowers("exclusive")>>
  BY StepInv, StutterInv DEF CellStep
<1> QED BY InitInv, InvHolds, <1>1, PTL DEF Spec, ImplementsCell, Cell!Spec
-----------------------------------------------------------------------------
(***************************************************************************)
(* Nobody waits for a mutex: for any number of threads and any depth, as   *)
(* long as no script calls call_java_method with a descriptor that names   *)
(* another class, and none uses emu.fs beside guest code.                  *)
(*                                                                         *)
(* The argument: the only frames that keep a guard while Python runs are   *)
(* release and the two callbacks of the guest, and all of them stand on an *)
(* exclusive borrow.  A frame that wants a guard has a borrow itself or    *)
(* was called by the guest, and so is the holder's own thread and frame.   *)
(***************************************************************************)

(* What a frame of a method may hold before its step n.                    *)
Held(m, n) ==
  CASE m \in {"call_typed", "java_instance"} /\ n \in 3..4 -> {"vm"}
    [] m = "release" /\ n \in {3, 6} -> {"vm"}
    [] m = "release" /\ n \in 4..5 -> {"vm", "objects"}
    [] m \in {"syscall", "device"} /\ n \in 2..3 -> {"linux"}
    [] m = "slot" /\ n \in 2..4 -> {"vm"}
    [] m = "handler" /\ n > 1 -> {"vm"}
    [] OTHER -> {}

(* Step s, the n-th of method m, keeps to that.                            *)
Keeps(m, n, s) ==
  /\ s.do = "lock" => s.lock \notin Held(m, n) /\ Held(m, n) \cup {s.lock} \subseteq Held(m, n + 1)
  /\ s.do = "unlock" => Held(m, n) \ {s.lock} \subseteq Held(m, n + 1)
  /\ s.do = "brief" => s.lock \notin Held(m, n)
  /\ s.do \notin {"lock", "unlock"} => Held(m, n) \subseteq Held(m, n + 1)
  /\ s.do = "emulate" => Held(m, n) = {}
  /\ s.do \in {"body", "library"} => Held(m, n) = {} \/ m \in {"release", "device", "handler"}

KeepsAll(m) == \A n \in 1..Len(Program[m]) : Keeps(m, n, Program[m][n])

(* Steps of marshalling and of the handler: no guard is kept.              *)
Quiet == {Brief("objects"), Brief("ids"), Body}

-----------------------------------------------------------------------------
(* Marshalling and the handler of a Python method are made of such steps.  *)
LEMMA QuietParts == Marshal \in Seq(Quiet) /\ PythonHandler \in Seq(Quiet)
<1>1. Marshal \in Seq(Quiet)
  BY DEF Marshal, Quiet
<1>2. <<Brief("objects"), Body>> \in Seq(Quiet)
  BY DEF Quiet
<1> QED BY <1>1, <1>2, ConcatProperties DEF PythonHandler

(* Methods that take no guard for longer than a step.                      *)
Fleeting == Methods \ {"call_typed", "java_instance", "release", "syscall", "device",
                       "slot", "handler", "call_qualified"}

(* A method without such a step holds nothing between its steps.           *)
LEMMA FleetingKeeps ==
  ASSUME NEW m \in Fleeting, \A n \in 1..Len(Program[m]) : Program[m][n].do # "lock"
  PROVE  KeepsAll(m)
<1>1. \A n : Held(m, n) = {}
  BY DEF Held, Fleeting
<1> QED BY <1>1 DEF KeepsAll, Keeps

(* A program without the step that takes a guard.                          *)
Lockless(p) == \A n \in 1..Len(p) : p[n].do # "lock"

(* Two such programs, one after the other.                                 *)
LEMMA LocklessConcat ==
  ASSUME NEW p \in Seq(Steps), Lockless(p), NEW q \in Seq(Steps), Lockless(q)
  PROVE  p \o q \in Seq(Steps) /\ Lockless(p \o q)
<1>1. /\ p \o q \in Seq(Steps) /\ Len(p \o q) = Len(p) + Len(q)
      /\ \A i \in 1..(Len(p) + Len(q)) :
           (p \o q)[i] = IF i <= Len(p) THEN p[i] ELSE q[i - Len(p)]
      /\ Len(p) \in Nat /\ Len(q) \in Nat
  BY ConcatProperties, LenProperties
<1>2. ASSUME NEW n \in 1..(Len(p) + Len(q)) PROVE (p \o q)[n].do # "lock"
  <2>1. CASE n <= Len(p)
    BY <1>1, <2>1 DEF Lockless
  <2>2. CASE n > Len(p)
    <3>1. n - Len(p) \in 1..Len(q) /\ (p \o q)[n] = q[n - Len(p)]
      BY <1>1, <2>2
    <3> QED BY <3>1 DEF Lockless
  <2> QED BY <1>1, <2>1, <2>2
<1> QED BY <1>1, <1>2 DEF Lockless

(* Quiet steps take no guard.                                              *)
LEMMA QuietLockless ==
  ASSUME NEW p \in Seq(Quiet)
  PROVE  p \in Seq(Steps) /\ Lockless(p)
<1>1. \A s \in Quiet : s \in Steps /\ s.do # "lock"
  BY StepsAre DEF Quiet, Later, Locks, Brief, Body
<1>2. \A n \in 1..Len(p) : p[n] \in Quiet
  BY ElementOfSeq
<1>3. p \in Seq(Steps)
  BY <1>1
<1> QED BY <1>1, <1>2, <1>3 DEF Lockless

(* The programs that are written out and take no guard for long.           *)
LEMMA PlainLockless ==
  /\ Receiver \in Seq(Steps) /\ Lockless(Receiver)
  /\ Lockless(Seed) /\ Lockless(ReadGuest) /\ Lockless(RegisterObject)
  /\ Lockless(ReadJavaField) /\ Lockless(ReadInstanceField)
  /\ Lockless(WriteGuest) /\ Lockless(Load) /\ Lockless(InitJni) /\ Lockless(RegisterClass)
  /\ Lockless(RegisterStub) /\ Lockless(MapFile) /\ Lockless(GuestCall) /\ Lockless(UnguardedSlot)
<1> USE DEF Shared, Exclusive, Brief, Body, Library, Emulate
<1>1. Receiver \in Seq(Steps)
  BY PlainPrograms DEF Opens
<1>2. Lockless(Receiver) /\ Lockless(Seed) /\ Lockless(ReadGuest) /\ Lockless(WriteGuest)
  BY DEF Lockless, Receiver, Seed, ReadGuest, WriteGuest
<1>3. Lockless(Load) /\ Lockless(InitJni) /\ Lockless(RegisterStub) /\ Lockless(MapFile)
  BY DEF Lockless, Load, InitJni, RegisterStub, MapFile
<1>4. Lockless(ReadJavaField) /\ Lockless(RegisterClass) /\ Lockless(GuestCall) /\ Lockless(UnguardedSlot)
  BY DEF Lockless, ReadJavaField, RegisterClass, GuestCall, UnguardedSlot
<1>5. Lockless(RegisterObject) /\ Lockless(ReadInstanceField)
  BY DEF Lockless, RegisterObject, ReadInstanceField
<1> QED BY <1>1, <1>2, <1>3, <1>4, <1>5

(* And the two calls of Java methods that run Python or a stub unguarded.  *)
LEMMA CallLockless == Lockless(CallOverride) /\ Lockless(CallStub)
<1>1. /\ <<Body>> \in Seq(Quiet)
      /\ Marshal \in Seq(Steps) /\ Lockless(Marshal)
      /\ <<Body>> \in Seq(Steps) /\ Lockless(<<Body>>)
  <2>1. <<Body>> \in Seq(Quiet)
    BY DEF Quiet
  <2> QED BY <2>1, QuietParts, QuietLockless
<1>2. <<Brief("vm"), Brief("objects")>> \in Seq(Steps) /\ Lockless(<<Brief("vm"), Brief("objects")>>)
  BY StepsAre DEF Later, Locks, Lockless, Brief
<1>3. Lockless(CallOverride)
  BY <1>1, PlainLockless, LocklessConcat DEF CallOverride
<1>4. Lockless(CallStub)
  BY <1>1, <1>2, PlainLockless, LocklessConcat DEF CallStub
<1> QED BY <1>3, <1>4

(* All methods without such a step.                                        *)
LEMMA FleetingAll == \A m \in Fleeting : KeepsAll(m)
<1>1. ASSUME NEW m \in Fleeting PROVE Lockless(Program[m])
  BY PlainLockless, CallLockless DEF Fleeting, Methods, Program
<1> QED BY <1>1, FleetingKeeps DEF Lockless

(* The methods of Rust code that hold a guard over a few steps.            *)
LEMMA GuardedAll ==
  KeepsAll("java_instance") /\ KeepsAll("release") /\ KeepsAll("syscall") /\ KeepsAll("device")
    /\ KeepsAll("slot")
<1> USE DEF KeepsAll, Keeps, Held, Program, Shared, Exclusive, Lock, Unlock, Brief, Body
<1>1. KeepsAll("java_instance")
  BY DEF JavaInstance
<1>2. KeepsAll("release")
  BY DEF ReleaseInstance
<1>3. KeepsAll("syscall")
  BY DEF Syscall
<1>4. KeepsAll("device")
  BY DEF DeviceSyscall
<1>5. KeepsAll("slot")
  BY DEF JniSlot
<1> QED BY <1>1, <1>2, <1>3, <1>4, <1>5

(* A program that starts as p and goes on with steps of Q.                 *)
Extends(x, p, Q) ==
  /\ x \in Seq(Steps) /\ Len(p) \in Nat /\ Len(p) <= Len(x)
  /\ \A n \in 1..Len(x) : IF n <= Len(p) THEN x[n] = p[n] ELSE x[n] \in Q

(* It still does with more of such steps behind it.                        *)
LEMMA ExtendsConcat ==
  ASSUME NEW p, NEW Q \in SUBSET Steps, NEW x, Extends(x, p, Q), NEW q \in Seq(Q)
  PROVE  Extends(x \o q, p, Q)
<1>1. q \in Seq(Steps) /\ x \in Seq(Steps) /\ Len(x) \in Nat /\ Len(q) \in Nat
  BY LenProperties DEF Extends
<1>2. /\ x \o q \in Seq(Steps) /\ Len(x \o q) = Len(x) + Len(q)
      /\ \A i \in 1..(Len(x) + Len(q)) :
           (x \o q)[i] = IF i <= Len(x) THEN x[i] ELSE q[i - Len(x)]
  BY <1>1, ConcatProperties
<1>3. \A i \in 1..Len(q) : q[i] \in Q
  BY ElementOfSeq
<1>4. ASSUME NEW n \in 1..(Len(x) + Len(q))
      PROVE  IF n <= Len(p) THEN (x \o q)[n] = p[n] ELSE (x \o q)[n] \in Q
  <2>1. CASE n <= Len(x)
    BY <1>1, <1>2, <2>1 DEF Extends
  <2>2. CASE n > Len(x)
    <3>1. n - Len(x) \in 1..Len(q) /\ (x \o q)[n] = q[n - Len(x)] /\ n > Len(p)
      BY <1>1, <1>2, <2>2 DEF Extends
    <3> QED BY <1>3, <3>1
  <2> QED BY <1>1, <2>1, <2>2
<1> QED BY <1>1, <1>2, <1>4 DEF Extends

(* The callback of the guest keeps the guard of the VM to its end.         *)
LEMMA HandlerKeeps == KeepsAll("handler")
<1> DEFINE Q == Quiet \cup {Unlock("vm")}
<1>1. Q \in SUBSET Steps /\ Lock("vm") \in Steps
  BY StepsAre DEF Quiet, Later, Locks
<1>2. Extends(<<Lock("vm")>>, <<Lock("vm")>>, Q)
  BY <1>1 DEF Extends
<1>3. PythonHandler \in Seq(Q) /\ <<Unlock("vm")>> \in Seq(Q)
  BY QuietParts
<1> HIDE DEF Q
<1>4. Extends(JniHandler, <<Lock("vm")>>, Q)
  BY <1>1, <1>2, <1>3, ExtendsConcat DEF JniHandler
<1>5. \A n \in 1..Len(JniHandler) : IF n <= 1 THEN JniHandler[n] = Lock("vm") ELSE JniHandler[n] \in Q
  BY <1>4 DEF Extends
<1>6. ASSUME NEW n \in 1..Len(JniHandler) PROVE Keeps("handler", n, JniHandler[n])
  <2>1. n \in Nat /\ n > 0
    BY <1>4, LenProperties DEF Extends
  <2>2. Held("handler", n + 1) = {"vm"} /\ (n > 1 => Held("handler", n) = {"vm"})
        /\ (n <= 1 => Held("handler", n) = {})
    BY <2>1 DEF Held
  <2>3. CASE n <= 1
    BY <1>5, <2>2, <2>3 DEF Keeps, Lock
  <2>4. CASE n > 1
    <3>1. JniHandler[n] \in {Brief("objects"), Brief("ids"), Body, Unlock("vm")}
      BY <1>5, <2>1, <2>4 DEF Q, Quiet
    <3> QED BY <2>2, <2>4, <3>1 DEF Keeps, Brief, Body, Unlock
  <2> QED BY <2>1, <2>3, <2>4
<1> QED BY <1>6 DEF KeepsAll, Program

(* The typed call drops the guard of the VM before the handler runs.       *)
LEMMA TypedKeeps == KeepsAll("call_typed")
<1> DEFINE p == <<Shared, Lock("vm"), Brief("objects"), Unlock("vm"), Brief("vm")>>
<1>1. Quiet \in SUBSET Steps /\ p \in Seq(Steps)
  BY StepsAre DEF Quiet, Later, Locks
<1>2. Extends(p, p, Quiet) /\ Len(p) = 5
  BY <1>1 DEF Extends
<1>3. Marshal \in Seq(Quiet) /\ PythonHandler \in Seq(Quiet) /\ <<Brief("objects")>> \in Seq(Quiet)
  BY QuietParts DEF Quiet
<1>4. Extends(CallTyped, p, Quiet)
  <2>1. CallTyped = p \o Marshal \o PythonHandler \o <<Brief("objects")>>
    BY DEF CallTyped
  <2> HIDE DEF p
  <2> QED BY <1>1, <1>2, <1>3, <2>1, ExtendsConcat
<1>5. ASSUME NEW n \in 1..Len(CallTyped) PROVE Keeps("call_typed", n, CallTyped[n])
  <2>1. n \in Nat /\ n > 0
    BY <1>4, LenProperties DEF Extends
  <2>2. CASE n <= 5
    <3>1. CallTyped[n] = p[n]
      BY <1>2, <1>4, <2>1, <2>2 DEF Extends
    <3>2. n \in 1..5
      BY <2>1, <2>2
    <3> QED BY <3>1, <3>2 DEF Keeps, Held, Shared, Lock, Brief, Unlock
  <2>3. CASE n > 5
    <3>1. CallTyped[n] \in {Brief("objects"), Brief("ids"), Body}
      BY <1>2, <1>4, <2>1, <2>3 DEF Extends, Quiet
    <3>2. Held("call_typed", n) = {} /\ Held("call_typed", n + 1) = {}
      BY <2>1, <2>3 DEF Held
    <3> QED BY <3>1, <3>2 DEF Keeps, Brief, Body
  <2> QED BY <2>1, <2>2, <2>3
<1> QED BY <1>5 DEF KeepsAll, Program

(* Every method keeps to what it may hold.                                 *)
LEMMA ProgramsKeep == \A m \in Methods \ {"call_qualified"} : KeepsAll(m)
<1>1. \A m \in Methods \ {"call_qualified"} :
        m \in Fleeting \cup {"call_typed", "java_instance", "release", "syscall", "device", "slot", "handler"}
  BY DEF Fleeting
<1> QED BY <1>1, FleetingAll, GuardedAll, HandlerKeeps, TypedKeeps

(* A method of the bridge borrows before anything else.                    *)
LEMMA BridgeBorrows ==
  \A m \in BridgeMethods \ {"map_file"} : Program[m][1].do \in {"shared", "exclusive"}
<1>1. \A p : Opens(p) => p[1].do \in {"shared", "exclusive"}
  BY DEF Opens, Shared, Exclusive
<1>2. GuestCall[1].do = "exclusive"
  BY DEF GuestCall, Exclusive
<1> QED BY <1>1, <1>2, PlainPrograms, CallPrograms DEF BridgeMethods, GuestMethods, Methods, Program

-----------------------------------------------------------------------------
(* A frame holds what its program lets it, and no script calls a method    *)
(* that runs Python under the guard of the VM.                             *)
FrameKeeps(f) == f.method # "call_qualified" /\ f.holds \subseteq Held(f.method, f.pc)

FramesKeep == \A t \in Threads : \A i \in 1..Depth(t) : FrameKeeps(stack[t][i])

(* What the guest trapped into stands on the frame that runs the guest.    *)
OnGuest ==
  \A t \in Threads : \A i \in 1..Depth(t) :
    stack[t][i].method \in GuestMethods => i > 1 /\ StepOf(stack[t][i - 1]) = "emulate"

(* A thread that lost the GIL is in Python.                                *)
OthersInPython == \A t \in Threads : t # gil => InPython(t)

(* emu.fs is entered when no guest runs.                                   *)
FsAlone ==
  Depth(gil) > 0 /\ Top(gil).method = "map_file" /\ Top(gil).pc = 1 => ~GuestRuns

LInv == IInv /\ FramesKeep /\ OnGuest /\ OthersInPython /\ FsAlone

(* What scripts must not do.                                               *)
Disciplined == ~FsBesideGuest /\ \A t \in Threads : "call_qualified" \notin Uses[t]

(***************************************************************************)
(* The three things a step may do to the stack of the running thread.      *)
(***************************************************************************)
Pushes(t, m) ==
  /\ m \in Methods \ {"call_qualified"} /\ Push(t, m)
  /\ m \in GuestMethods => Depth(t) > 0 /\ StepOf(Top(t)) = "emulate"
  /\ m = "map_file" => ~GuestRuns

Advances(t, f) ==
  /\ Depth(t) > 0 /\ StepOf(Top(t)) # "ended" /\ f \in Frames /\ Becomes(t, f)
  /\ f.method = Top(t).method /\ f.pc = Top(t).pc + 1
  /\ LET s == Program[Top(t).method][Top(t).pc] IN
       \/ s.do = "lock" /\ f.holds = Top(t).holds \cup {s.lock}
       \/ s.do = "unlock" /\ f.holds = Top(t).holds \ {s.lock}
       \/ s.do \notin {"lock", "unlock"} /\ f.holds = Top(t).holds

Drops(t) == Depth(t) > 0 /\ Unwind(t)

OwnStep ==
  \/ \E m \in Methods : Pushes(gil, m)
  \/ \E f \in Frames : Advances(gil, f)
  \/ Drops(gil)

(* Every action of a disciplined program is one of them, or a switch.      *)
LEMMA StepKinds ==
  ASSUME IInv, Disciplined, Next
  PROVE  (gil' = gil /\ OwnStep) \/ \E u \in Threads : Switch(gil, u)
<1>1. TypeOK /\ gil \in Threads
  BY DEF IInv, TypeOK
<1>2. ASSUME NEW t \in Threads, NEW m \in Uses[t], Call(t, m)
      PROVE  gil = t /\ gil' = gil /\ m \in Methods /\ Pushes(gil, m)
  <2>1. m \in Methods /\ m \notin GuestMethods /\ m # "call_qualified"
    BY <1>2, UsesAssumption DEF BridgeMethods, Disciplined
  <2>2. m = "map_file" => ~GuestRuns
    BY <1>2 DEF Call, Disciplined
  <2> QED BY <1>2, <2>1, <2>2 DEF Call, Pushes
<1>3. ASSUME NEW t \in Threads, NEW m \in GuestMethods, Trap(t, m)
      PROVE  gil = t /\ gil' = gil /\ m \in Methods /\ Pushes(gil, m)
  <2>1. m \in Methods /\ m # "call_qualified" /\ m # "map_file"
    BY DEF GuestMethods, Methods, Program
  <2> QED BY <1>3, <2>1 DEF Trap, At, Pushes
<1>4. ASSUME NEW t \in Threads, At(t, "ended"), Unwind(t) PROVE gil = t /\ gil' = gil /\ Drops(gil)
  BY <1>4 DEF At, Unwind, Drops
<1>5. ASSUME NEW t \in Threads, BorrowRefused(t) \/ Fail(t) PROVE gil = t /\ gil' = gil /\ Drops(gil)
  BY <1>5 DEF BorrowRefused, Fail, At, Unwind, Drops
<1>6. ASSUME NEW t \in Threads, gil = t, Depth(t) > 0, StepOf(Top(t)) # "ended"
      PROVE  /\ Top(t) \in Frames /\ Onward(Top(t)) \in Frames
             /\ Onward(Top(t)).pc = Top(t).pc + 1 /\ Onward(Top(t)).method = Top(t).method
             /\ Onward(Top(t)).holds = Top(t).holds
             /\ StepOf(Top(t)) = Program[Top(t).method][Top(t).pc].do
             /\ LockOf(Top(t)) = Program[Top(t).method][Top(t).pc].lock
  <2>1. Top(t) \in Frames
    BY <1>1, <1>6, TopIs
  <2> QED BY <1>6, <2>1, StepIs, FrameGoesOn DEF LockOf
<1>7. ASSUME NEW t \in Threads, BorrowShared(t) \/ BorrowExclusive(t)
      PROVE  gil = t /\ gil' = gil /\ \E f \in Frames : Advances(gil, f)
  <2>1. PICK k \in {"shared", "exclusive"} :
          At(t, k) /\ Becomes(t, [Onward(Top(t)) EXCEPT !.borrow = k]) /\ gil' = gil
    BY <1>7 DEF BorrowShared, BorrowExclusive
  <2>2. gil = t /\ Depth(t) > 0 /\ StepOf(Top(t)) = k
    BY <2>1 DEF At
  <2> DEFINE f == [Onward(Top(t)) EXCEPT !.borrow = k]
  <2>3. /\ f \in Frames /\ f.pc = Onward(Top(t)).pc /\ f.method = Onward(Top(t)).method
        /\ f.holds = Onward(Top(t)).holds
    <3>1. Onward(Top(t)) \in Frames
      BY <1>6, <2>2
    <3> QED BY <3>1, FrameGoesOn
  <2>4. Becomes(t, f)
    BY <2>1
  <2> HIDE DEF f
  <2>5. Advances(t, f)
    BY <1>6, <2>2, <2>3, <2>4 DEF Advances
  <2> QED BY <2>1, <2>2, <2>3, <2>5
<1>8. ASSUME NEW t \in Threads, LockGuard(t) \/ UnlockGuard(t)
      PROVE  gil = t /\ gil' = gil /\ \E f \in Frames : Advances(gil, f)
  <2>1. gil = t /\ Depth(t) > 0 /\ StepOf(Top(t)) \in {"lock", "unlock"} /\ gil' = gil
    BY <1>8 DEF LockGuard, UnlockGuard, At
  <2>2. PICK H : /\ Becomes(t, [Onward(Top(t)) EXCEPT !.holds = H])
                 /\ \/ StepOf(Top(t)) = "lock" /\ H = Onward(Top(t)).holds \cup {LockOf(Top(t))}
                    \/ StepOf(Top(t)) = "unlock" /\ H = Onward(Top(t)).holds \ {LockOf(Top(t))}
    BY <1>8 DEF LockGuard, UnlockGuard, At
  <2>3. LockOf(Top(t)) \in Locks /\ Onward(Top(t)).holds \in SUBSET Locks
    BY <1>6, <2>1, StepIs, FrameGoesOn
  <2>4. H \in SUBSET Locks
    BY <2>2, <2>3
  <2> DEFINE f == [Onward(Top(t)) EXCEPT !.holds = H]
  <2>5. f \in Frames /\ f.pc = Onward(Top(t)).pc /\ f.method = Onward(Top(t)).method /\ f.holds = H
    <3>1. Onward(Top(t)) \in Frames
      BY <1>6, <2>1
    <3> QED BY <2>4, <3>1, FrameGoesOn
  <2>6. Becomes(t, f)
    BY <2>2
  <2> HIDE DEF f
  <2>7. Advances(t, f)
    BY <1>6, <2>1, <2>2, <2>5, <2>6 DEF Advances
  <2> QED BY <2>1, <2>5, <2>7
<1>9. ASSUME NEW t \in Threads, LockBriefly(t) \/ Resume(t)
      PROVE  gil = t /\ gil' = gil /\ \E f \in Frames : Advances(gil, f)
  <2>1. /\ gil = t /\ Depth(t) > 0 /\ StepOf(Top(t)) \in {"brief", "body", "library", "emulate"}
        /\ gil' = gil /\ Becomes(t, Onward(Top(t)))
    BY <1>9 DEF LockBriefly, Resume, At
  <2>2. Advances(t, Onward(Top(t)))
    BY <1>6, <2>1 DEF Advances
  <2> QED BY <1>6, <2>1, <2>2
<1>10. ASSUME NEW t \in Threads, NEW u \in Threads, Switch(t, u) PROVE gil = t
  BY <1>10 DEF Switch
<1>11. ASSUME NEW t \in Threads, Rust(t)
       PROVE  gil = t /\ gil' = gil /\ (Drops(gil) \/ \E f \in Frames : Advances(gil, f))
  <2>1. CASE BorrowShared(t) \/ BorrowExclusive(t)
    BY <1>7, <2>1
  <2>2. CASE BorrowRefused(t)
    BY <1>5, <2>2
  <2>3. CASE LockGuard(t) \/ UnlockGuard(t)
    BY <1>8, <2>3
  <2>4. CASE LockBriefly(t)
    BY <1>9, <2>4
  <2>5. CASE Return(t)
    BY <1>4, <2>5 DEF Return
  <2> QED BY <1>11, <2>1, <2>2, <2>3, <2>4, <2>5 DEF Rust
<1>12. PICK t \in Threads :
         \/ \E m \in Uses[t] : Call(t, m)
         \/ \E m \in GuestMethods : Trap(t, m)
         \/ Rust(t) \/ Resume(t) \/ Fail(t)
         \/ \E u \in Threads : Switch(t, u)
  BY DEF Next
<1> QED BY <1>2, <1>3, <1>5, <1>9, <1>10, <1>11, <1>12 DEF OwnStep

-----------------------------------------------------------------------------
(* What the frames of the other threads and the lower frames do: nothing.  *)
LEMMA PushesIs ==
  ASSUME IInv, NEW m \in Methods, Pushes(gil, m)
  PROVE  /\ gil \in Threads
         /\ \A u \in Threads :
              /\ Depth(u)' = IF u = gil THEN Depth(gil) + 1 ELSE Depth(u)
              /\ \A i \in 1..Depth(u) : stack'[u][i] = stack[u][i]
              /\ u # gil => stack'[u] = stack[u]
         /\ stack'[gil][Depth(gil) + 1] = Entered(m)
<1>1. gil \in Threads /\ stack \in [Threads -> Seq(Frames)] /\ Push(gil, m)
  BY DEF IInv, TypeOK, Pushes
<1>2. \A u \in Threads : u # gil => stack'[u] = stack[u]
  BY <1>1 DEF Push
<1> QED BY <1>1, <1>2, PushStack DEF Depth

(* The same for a step of the running frame.                               *)
LEMMA AdvancesIs ==
  ASSUME IInv, NEW f \in Frames, Advances(gil, f)
  PROVE  /\ gil \in Threads /\ Depth(gil) \in 1..Depth(gil)
         /\ Top(gil) \in Frames /\ Top(gil) = stack[gil][Depth(gil)]
         /\ \A u \in Threads :
              /\ Depth(u)' = Depth(u)
              /\ \A i \in 1..Depth(u) :
                   stack'[u][i] = IF u = gil /\ i = Depth(gil) THEN f ELSE stack[u][i]
              /\ u # gil => stack'[u] = stack[u]
<1>1. TypeOK /\ gil \in Threads /\ stack \in [Threads -> Seq(Frames)] /\ Becomes(gil, f) /\ Depth(gil) > 0
  BY DEF IInv, TypeOK, Advances
<1>2. \A u \in Threads : u # gil => stack'[u] = stack[u]
  BY <1>1 DEF Becomes
<1>3. Top(gil) \in Frames /\ Top(gil) = stack[gil][Depth(gil)] /\ Depth(gil) \in 1..MaxDepth
  BY <1>1, TopIs
<1>4. Depth(gil) \in 1..Depth(gil)
  BY <1>3, ReentryAssumption
<1>5. \A u \in Threads :
        /\ Len(stack'[u]) = Depth(u)
        /\ \A i \in 1..Depth(u) :
             stack'[u][i] = IF u = gil /\ i = Depth(gil) THEN f ELSE stack[u][i]
  BY <1>1, BecomesStack
<1> QED BY <1>1, <1>2, <1>3, <1>4, <1>5 DEF Depth

(* The same for a frame that goes.                                         *)
LEMMA DropsIs ==
  ASSUME IInv, Drops(gil)
  PROVE  /\ gil \in Threads
         /\ \A u \in Threads :
              /\ Depth(u)' = IF u = gil THEN Depth(gil) - 1 ELSE Depth(u)
              /\ Depth(u) \in Nat /\ Depth(u)' \in Nat
              /\ \A i \in 1..Depth(u)' : stack'[u][i] = stack[u][i]
              /\ u # gil => stack'[u] = stack[u]
<1>1. gil \in Threads /\ stack \in [Threads -> Seq(Frames)] /\ Unwind(gil) /\ Depth(gil) > 0
  BY DEF IInv, TypeOK, Drops
<1>2. \A u \in Threads : u # gil => stack'[u] = stack[u]
  BY <1>1 DEF Unwind
<1>3. /\ stack' \in [Threads -> Seq(Frames)]
      /\ \A u \in Threads :
           /\ Len(stack'[u]) = IF u = gil THEN Depth(gil) - 1 ELSE Depth(u)
           /\ \A i \in 1..Len(stack'[u]) : stack'[u][i] = stack[u][i]
  BY <1>1, UnwindStack
<1>4. \A u \in Threads : Len(stack'[u]) \in Nat /\ Depth(u) \in Nat
  BY <1>1, <1>3, LenProperties DEF Depth
<1> QED BY <1>1, <1>2, <1>3, <1>4 DEF Depth

(* Frames go on holding what their programs let them.                      *)
LEMMA FramesKeepStep ==
  ASSUME IInv, FramesKeep,
         OwnStep
  PROVE  FramesKeep'
<1> USE DEF OwnStep
<1>1. ASSUME NEW m \in Methods, Pushes(gil, m) PROVE FramesKeep'
  <2>1. \A u \in Threads : Depth(u) \in Nat
    BY LenProperties DEF IInv, TypeOK, Depth
  <2>2. FrameKeeps(Entered(m))
    BY <1>1 DEF FrameKeeps, Entered, Pushes
  <2>3. \A u \in Threads : \A i \in 1..Depth(u)' :
          stack'[u][i] = Entered(m) \/ (i \in 1..Depth(u) /\ stack'[u][i] = stack[u][i])
    BY <1>1, <2>1, PushesIs
  <2> QED BY <2>2, <2>3 DEF FramesKeep
<1>2. ASSUME NEW f \in Frames, Advances(gil, f) PROVE FramesKeep'
  <2> DEFINE g == Top(gil)
             s == Program[g.method][g.pc]
  <2>1. g \in Frames /\ FrameKeeps(g)
    BY <1>2, AdvancesIs DEF FramesKeep
  <2>2. g.pc \in 1..Len(Program[g.method]) /\ g.method \in Methods \ {"call_qualified"}
    BY <1>2, <2>1, StepIs DEF Advances, Frames, FrameKeeps
  <2>3. Keeps(g.method, g.pc, s)
    BY <2>2, ProgramsKeep DEF KeepsAll
  <2>4. /\ f.method = g.method /\ f.pc = g.pc + 1
        /\ \/ s.do = "lock" /\ f.holds = g.holds \cup {s.lock}
           \/ s.do = "unlock" /\ f.holds = g.holds \ {s.lock}
           \/ s.do \notin {"lock", "unlock"} /\ f.holds = g.holds
    BY <1>2 DEF Advances
  <2> HIDE DEF g, s
  <2>5. f.holds \subseteq Held(g.method, g.pc + 1)
    BY <2>1, <2>3, <2>4 DEF Keeps, FrameKeeps
  <2>6. FrameKeeps(f)
    BY <2>1, <2>4, <2>5 DEF FrameKeeps
  <2>7. \A u \in Threads : \A i \in 1..Depth(u)' :
          stack'[u][i] = f \/ (i \in 1..Depth(u) /\ stack'[u][i] = stack[u][i])
    BY <1>2, AdvancesIs
  <2> QED BY <2>6, <2>7 DEF FramesKeep
<1>3. ASSUME Drops(gil) PROVE FramesKeep'
  <2>1. \A u \in Threads : \A i \in 1..Depth(u)' : i \in 1..Depth(u) /\ stack'[u][i] = stack[u][i]
    BY <1>3, DropsIs
  <2> QED BY <2>1 DEF FramesKeep
<1> QED BY <1>1, <1>2, <1>3

(* What the guest trapped into goes on standing on its guest.              *)
LEMMA OnGuestStep ==
  ASSUME IInv, OnGuest,
         OwnStep
  PROVE  OnGuest'
<1> USE DEF OwnStep
<1>0. \A u \in Threads : Depth(u) \in Nat
  BY LenProperties DEF IInv, TypeOK, Depth
<1>1. ASSUME NEW m \in Methods, Pushes(gil, m), NEW u \in Threads, NEW i \in 1..Depth(u)',
             stack'[u][i].method \in GuestMethods
      PROVE  i > 1 /\ StepOf(stack'[u][i - 1]) = "emulate"
  <2>1. CASE i \in 1..Depth(u)
    <3>1. stack'[u][i] = stack[u][i] /\ i > 1 /\ StepOf(stack[u][i - 1]) = "emulate"
      BY <1>1, <2>1, PushesIs DEF OnGuest
    <3>2. i - 1 \in 1..Depth(u)
      BY <1>0, <2>1, <3>1
    <3>3. stack'[u][i - 1] = stack[u][i - 1]
      BY <1>1, <3>2, PushesIs
    <3> QED BY <3>1, <3>3
  <2>2. CASE i \notin 1..Depth(u)
    <3>1. u = gil /\ i = Depth(gil) + 1 /\ stack'[u][i] = Entered(m)
      BY <1>0, <1>1, <2>2, PushesIs
    <3>2. m \in GuestMethods
      BY <1>1, <3>1 DEF Entered
    <3>3. Depth(gil) > 0 /\ StepOf(stack[gil][Depth(gil)]) = "emulate"
      BY <1>1, <3>2 DEF Pushes, Top
    <3>4. Depth(gil) \in 1..Depth(gil)
      BY <1>0, <3>1, <3>3
    <3>5. stack'[gil][Depth(gil)] = stack[gil][Depth(gil)]
      BY <1>1, <3>4, PushesIs
    <3>6. i - 1 = Depth(gil) /\ i > 1
      BY <1>0, <3>1, <3>3
    <3> QED BY <3>1, <3>3, <3>5, <3>6
  <2> QED BY <2>1, <2>2
<1>2. ASSUME NEW f \in Frames, Advances(gil, f), NEW u \in Threads, NEW i \in 1..Depth(u)',
             stack'[u][i].method \in GuestMethods
      PROVE  i > 1 /\ StepOf(stack'[u][i - 1]) = "emulate"
  <2>1. i \in 1..Depth(u) /\ stack'[u][i].method = stack[u][i].method
    BY <1>2, AdvancesIs DEF Advances
  <2>2. i > 1 /\ StepOf(stack[u][i - 1]) = "emulate"
    BY <1>2, <2>1 DEF OnGuest
  <2>3. i - 1 \in 1..Depth(u) /\ ~(u = gil /\ i - 1 = Depth(gil))
    BY <1>0, <2>1, <2>2
  <2>4. stack'[u][i - 1] = stack[u][i - 1]
    BY <1>2, <2>3, AdvancesIs
  <2> QED BY <2>2, <2>4
<1>3. ASSUME Drops(gil), NEW u \in Threads, NEW i \in 1..Depth(u)',
             stack'[u][i].method \in GuestMethods
      PROVE  i > 1 /\ StepOf(stack'[u][i - 1]) = "emulate"
  <2>1. i \in 1..Depth(u) /\ stack'[u][i] = stack[u][i]
    BY <1>3, DropsIs
  <2>2. i > 1 /\ StepOf(stack[u][i - 1]) = "emulate"
    BY <1>3, <2>1 DEF OnGuest
  <2>3. i - 1 \in 1..Depth(u)'
    BY <1>3, <2>2, DropsIs
  <2>4. stack'[u][i - 1] = stack[u][i - 1]
    BY <1>3, <2>3, DropsIs
  <2> QED BY <2>2, <2>4
<1> QED BY <1>1, <1>2, <1>3 DEF OnGuest

(* Who has no GIL does nothing.                                            *)
LEMMA OthersStep ==
  ASSUME IInv, OthersInPython,
         (gil' = gil /\ OwnStep) \/ \E u \in Threads : Switch(gil, u)
  PROVE  OthersInPython'
<1> USE DEF OwnStep
<1>1. ASSUME gil' = gil, \A u \in Threads : u # gil => stack'[u] = stack[u] PROVE OthersInPython'
  BY <1>1 DEF OthersInPython, InPython, Top, Depth
<1>2. ASSUME NEW u \in Threads, Switch(gil, u) PROVE OthersInPython'
  <2>1. stack' = stack /\ gil' = u /\ InPython(gil)
    BY <1>2 DEF Switch
  <2> QED BY <2>1 DEF OthersInPython, InPython, Top, Depth
<1>3. ASSUME NEW m \in Methods, Pushes(gil, m)
      PROVE  \A u \in Threads : u # gil => stack'[u] = stack[u]
  BY <1>3, PushesIs
<1>4. ASSUME NEW f \in Frames, Advances(gil, f)
      PROVE  \A u \in Threads : u # gil => stack'[u] = stack[u]
  BY <1>4, AdvancesIs
<1>5. ASSUME Drops(gil)
      PROVE  \A u \in Threads : u # gil => stack'[u] = stack[u]
  BY <1>5, DropsIs
<1> QED BY <1>1, <1>2, <1>3, <1>4, <1>5

(* The one step of emu.fs is neither Python nor guest code.                *)
LEMMA FsIsBrief ==
  ASSUME NEW f, f.method = "map_file", f.pc = 1
  PROVE  StepOf(f) = "brief"
<1>1. Program["map_file"] = <<Brief("linux")>>
  BY DEF Program, MapFile
<1> QED BY <1>1 DEF StepOf, Ended, Brief

(* emu.fs is over before any other step is taken.                          *)
LEMMA FsStep ==
  ASSUME IInv, OthersInPython, FsAlone,
         (gil' = gil /\ OwnStep) \/ \E u \in Threads : Switch(gil, u)
  PROVE  FsAlone'
<1> USE DEF OwnStep
<1>0. \A u \in Threads : Depth(u) \in Nat
  BY LenProperties DEF IInv, TypeOK, Depth
<1> SUFFICES ASSUME (Depth(gil) > 0 /\ Top(gil).method = "map_file" /\ Top(gil).pc = 1)', GuestRuns'
             PROVE  FALSE
  BY DEF FsAlone
<1>1. ASSUME gil' = gil, NEW m \in Methods, Pushes(gil, m) PROVE FALSE
  <2>1. Top(gil)' = Entered(m)
    <3>1. Top(gil)' = stack'[gil][Depth(gil) + 1]
      BY <1>1, PushesIs DEF Top
    <3> QED BY <1>1, <3>1, PushesIs
  <2>2. m = "map_file"
    BY <2>1 DEF Entered
  <2>3. ~GuestRuns
    BY <1>1, <2>2 DEF Pushes
  <2>4. StepOf(Entered(m)) = "brief"
    BY <2>2, FsIsBrief DEF Entered
  <2>5. PICK u \in Threads : \E i \in 1..Depth(u)' : StepOf(stack'[u][i]) = "emulate"
    BY DEF GuestRuns
  <2>6. \A i \in 1..Depth(u)' : stack'[u][i] = Entered(m) \/ (i \in 1..Depth(u) /\ stack'[u][i] = stack[u][i])
    BY <1>0, <1>1, PushesIs
  <2> QED BY <2>3, <2>4, <2>5, <2>6 DEF GuestRuns
<1>2. ASSUME gil' = gil, NEW f \in Frames, Advances(gil, f) PROVE FALSE
  <2>1. Top(gil)' = f
    <3>1. Top(gil)' = stack'[gil][Depth(gil)]
      BY <1>2, AdvancesIs DEF Top
    <3> QED BY <1>2, <3>1, AdvancesIs
  <2>2. f.pc = Top(gil).pc + 1 /\ Top(gil).pc \in Nat \ {0}
    BY <1>2, AdvancesIs DEF Advances, Frames
  <2> QED BY <2>1, <2>2
<1>3. ASSUME gil' = gil, Drops(gil) PROVE FALSE
  <2>1. Depth(gil)' = Depth(gil) - 1 /\ gil \in Threads /\ Depth(gil)' > 0
    BY <1>3, DropsIs
  <2>2. Depth(gil)' \in 1..Depth(gil)' /\ Depth(gil)' \in 1..(Depth(gil) - 1)
    BY <1>0, <2>1
  <2>3. Top(gil)' = stack[gil][Depth(gil)']
    <3>1. Top(gil)' = stack'[gil][Depth(gil)']
      BY <1>3 DEF Top
    <3> QED BY <1>3, <2>1, <2>2, <3>1, DropsIs
  <2>4. StepOf(stack[gil][Depth(gil)']) \in {"body", "emulate"}
    BY <2>1, <2>2 DEF IInv, TypeOK
  <2> QED BY <2>3, <2>4, FsIsBrief
<1>4. ASSUME NEW u \in Threads, Switch(gil, u) PROVE FALSE
  <2>1. stack' = stack /\ gil' = u /\ u # gil
    BY <1>4 DEF Switch
  <2>2. Top(u).method = "map_file" /\ Top(u).pc = 1 /\ Depth(u) > 0
    BY <2>1 DEF Top, Depth
  <2>3. StepOf(Top(u)) = "brief"
    BY <2>2, FsIsBrief
  <2>4. stack[u] # <<>>
    BY <2>2 DEF Depth
  <2> QED BY <2>1, <2>3, <2>4 DEF OthersInPython, InPython
<1> QED BY <1>1, <1>2, <1>3, <1>4

(* Every step keeps the strengthened invariant.                            *)
LEMMA LInvStep ==
  ASSUME LInv, Disciplined, [Next]_vars
  PROVE  LInv'
<1>1. CASE Next
  <2>1. IInv'
    BY <1>1, StepInv DEF LInv
  <2>2. (gil' = gil /\ OwnStep) \/ \E u \in Threads : Switch(gil, u)
    BY <1>1, StepKinds DEF LInv
  <2>3. OthersInPython' /\ FsAlone'
    BY <2>2, OthersStep, FsStep DEF LInv
  <2>4. CASE \E u \in Threads : Switch(gil, u)
    <3>1. stack' = stack
      BY <2>4 DEF Switch
    <3>2. FramesKeep' /\ OnGuest'
      BY <3>1 DEF LInv, FramesKeep, OnGuest, Depth
    <3> QED BY <2>1, <2>3, <3>2 DEF LInv
  <2>5. CASE OwnStep
    <3>1. FramesKeep' /\ OnGuest'
      BY <2>5, FramesKeepStep, OnGuestStep DEF LInv
    <3> QED BY <2>1, <2>3, <3>1 DEF LInv
  <2> QED BY <2>2, <2>4, <2>5
<1>2. CASE UNCHANGED vars
  <2>1. stack' = stack /\ gil' = gil
    BY <1>2 DEF vars
  <2>2. IInv'
    BY <1>2, StutterInv DEF LInv
  <2>3. FramesKeep' /\ OnGuest' /\ OthersInPython' /\ FsAlone'
    BY <2>1 DEF LInv, FramesKeep, OnGuest, OthersInPython, FsAlone, InPython, GuestRuns, Top, Depth
  <2> QED BY <2>2, <2>3 DEF LInv
<1> QED BY <1>1, <1>2

(* It holds at the start.                                                  *)
LEMMA LInvInit == Init => LInv
<1> SUFFICES ASSUME Init PROVE LInv
  OBVIOUS
<1>1. \A t \in Threads : stack[t] = <<>> /\ Depth(t) = 0
  BY DEF Init, Depth
<1>2. FramesKeep /\ OnGuest /\ OthersInPython /\ FsAlone
  BY <1>1 DEF Init, FramesKeep, OnGuest, OthersInPython, InPython, FsAlone
<1> QED BY <1>2, InitInv DEF LInv

-----------------------------------------------------------------------------
(* A frame that keeps a guard while Python or the guest runs stands on an  *)
(* exclusive borrow, its own or that of the guest it was called by.        *)
LEMMA KeeperHasWriter ==
  ASSUME LInv, NEW u \in Threads, NEW i \in 1..Depth(u), NEW l \in stack[u][i].holds,
         StepOf(stack[u][i]) \in {"body", "library", "emulate"}
  PROVE  /\ StepOf(stack[u][i]) # "emulate"
         /\ \/ /\ stack[u][i].method = "release" /\ stack[u][i].borrow = "exclusive"
            \/ /\ i > 1 /\ StepOf(stack[u][i - 1]) = "emulate"
               /\ stack[u][i - 1].borrow = "exclusive"
<1> DEFINE g == stack[u][i]
<1>1. /\ stack[u] \in Seq(Frames) /\ Depth(u) \in Nat
      /\ \A j \in 1..Depth(u) : stack[u][j] \in Frames
  BY LenProperties, ElementOfSeq DEF LInv, IInv, TypeOK, Depth
<1>2. g \in Frames /\ FrameKeeps(g) /\ FrameSound(g)
  BY <1>1 DEF LInv, IInv, FramesKeep, FramesSound
<1>3. /\ g.pc \in 1..Len(Program[g.method]) /\ StepOf(g) = Program[g.method][g.pc].do
      /\ g.method \in Methods \ {"call_qualified"} /\ g.pc \in Nat \ {0}
  BY <1>2, StepIs DEF Frames, FrameKeeps
<1>4. Keeps(g.method, g.pc, Program[g.method][g.pc]) /\ Held(g.method, g.pc) # {}
  BY <1>2, <1>3, ProgramsKeep DEF KeepsAll, FrameKeeps
<1>5. StepOf(g) # "emulate" /\ g.method \in {"release", "device", "handler"}
  BY <1>3, <1>4 DEF Keeps
<1>6. CASE g.method = "release"
  <2>1. g.pc > 1
    BY <1>3, <1>4, <1>6 DEF Held
  <2>2. Program["release"][1].do = "exclusive"
    BY DEF Program, ReleaseInstance, Exclusive
  <2> QED BY <1>2, <1>5, <1>6, <2>1, <2>2 DEF FrameSound
<1>7. CASE g.method \in {"device", "handler"}
  <2>1. i > 1 /\ StepOf(stack[u][i - 1]) = "emulate"
    BY <1>7 DEF LInv, OnGuest, GuestMethods
  <2>2. i - 1 \in 1..Depth(u)
    BY <1>1, <2>1
  <2>3. stack[u][i - 1] \in Frames /\ FrameSound(stack[u][i - 1])
    BY <1>1, <2>2 DEF LInv, IInv, FramesSound
  <2>4. stack[u][i - 1].pc > 1 /\ Program[stack[u][i - 1].method][1].do = "exclusive"
    BY <2>1, <2>3, StepIs
  <2>5. stack[u][i - 1].borrow = "exclusive"
    BY <2>3, <2>4 DEF FrameSound
  <2> QED BY <1>5, <2>1, <2>5
<1> QED BY <1>5, <1>6, <1>7

(* The exclusive borrow of a place leaves nothing to the other places.     *)
LEMMA WriterIsAlone ==
  ASSUME IInv, NEW u \in Threads, NEW i \in 1..Depth(u), stack[u][i].borrow = "exclusive",
         NEW t \in Threads, NEW j \in 1..Depth(t)
  PROVE  stack[t][j].borrow = "none" \/ (t = u /\ j = i)
<1>1. \A v \in Threads : \A k \in 1..Depth(v) :
        stack[v][k] \in Frames /\ <<v, k>> \in Threads \X (1..MaxDepth) /\ k <= Depth(v)
  <2> TAKE v \in Threads
  <2> TAKE k \in 1..Depth(v)
  <2>1. stack[v] \in Seq(Frames) /\ Depth(v) \in Nat /\ Depth(v) <= MaxDepth
    BY LenProperties DEF IInv, TypeOK, Depth
  <2>2. stack[v][k] \in Frames
    BY <2>1, ElementOfSeq DEF Depth
  <2> QED BY <2>1, <2>2, ReentryAssumption
<1>2. <<u, i>> \in Borrowers("exclusive")
  BY <1>1 DEF Borrowers
<1>3. Borrowers("shared") = {} /\ \A p \in Borrowers("exclusive") : p = <<u, i>>
  BY <1>2 DEF IInv, OneWriter
<1>4. stack[t][j].borrow = "shared" => <<t, j>> \in Borrowers("shared")
  BY <1>1 DEF Borrowers
<1>5. stack[t][j].borrow = "exclusive" => <<t, j>> \in Borrowers("exclusive")
  BY <1>1 DEF Borrowers
<1>6. stack[t][j].borrow \in {"none", "shared", "exclusive"}
  BY <1>1 DEF Frames
<1> QED BY <1>3, <1>4, <1>5, <1>6

(* Where a guard that is taken is kept.                                    *)
LEMMA HolderOf ==
  ASSUME LInv, NEW l \in Locks, NEW u \in Threads, owner[l] = u
  PROVE  \E i \in 1..Depth(u) : l \in stack[u][i].holds
BY DEF LInv, IInv, GuardsMatch, OwnersMatch

(***************************************************************************)
(* A guard that another frame of the state keeps would stand in the way of *)
(* nobody: the frame that asks for it has the only borrow, or the only     *)
(* guest, itself.                                                          *)
(***************************************************************************)
LEMMA NoConflict ==
  ASSUME LInv, NEW t \in Threads, Depth(t) > 0, gil = t,
         StepOf(Top(t)) \in {"lock", "brief"},
         NEW u \in Threads, NEW i \in 1..Depth(u), LockOf(Top(t)) \in stack[u][i].holds
  PROVE  FALSE
<1> DEFINE f == stack[t][Depth(t)]
           l == LockOf(f)
<1>1. /\ \A v \in Threads : stack[v] \in Seq(Frames) /\ Depth(v) \in Nat
      /\ \A v \in Threads : \A j \in 1..Depth(v) : stack[v][j] \in Frames
  BY LenProperties, ElementOfSeq DEF LInv, IInv, TypeOK, Depth
<1>2. Depth(t) \in 1..Depth(t) /\ f \in Frames /\ Top(t) = f
  BY <1>1 DEF Top
<1>3. FrameSound(f) /\ FrameKeeps(f)
  BY <1>2 DEF LInv, IInv, FramesSound, FramesKeep
<1>4. /\ f.pc \in 1..Len(Program[f.method]) /\ StepOf(f) = Program[f.method][f.pc].do
      /\ f.method \in Methods \ {"call_qualified"} /\ f.pc \in Nat \ {0}
      /\ l = Program[f.method][f.pc].lock
  BY <1>2, <1>3, StepIs DEF Frames, FrameKeeps, LockOf
<1>5. Keeps(f.method, f.pc, Program[f.method][f.pc])
  BY <1>4, ProgramsKeep DEF KeepsAll
<1>6. l \notin f.holds
  BY <1>2, <1>3, <1>4, <1>5 DEF Keeps, FrameKeeps
<1>7. l \in stack[u][i].holds /\ ~(u = t /\ i = Depth(t))
  BY <1>2, <1>6
<1>8. StepOf(stack[u][i]) \in {"body", "library", "emulate"}
  <2>1. CASE i \in 1..(Depth(u) - 1)
    BY <2>1 DEF LInv, IInv, TypeOK
  <2>2. CASE i \notin 1..(Depth(u) - 1)
    <3>1. i = Depth(u) /\ u # t
      BY <1>1, <1>7, <2>2
    <3>2. InPython(u) /\ stack[u] # <<>>
      BY <3>1, <1>1 DEF LInv, OthersInPython, Depth
    <3> QED BY <3>1, <3>2 DEF InPython, Top
  <2> QED BY <2>1, <2>2
<1> HIDE DEF l, f
<1>9. /\ StepOf(stack[u][i]) # "emulate"
      /\ \/ stack[u][i].method = "release" /\ stack[u][i].borrow = "exclusive"
         \/ i > 1 /\ StepOf(stack[u][i - 1]) = "emulate" /\ stack[u][i - 1].borrow = "exclusive"
  BY <1>7, <1>8, KeeperHasWriter
<1>10. PICK w \in 1..Depth(u) :
         /\ stack[u][w].borrow = "exclusive"
         /\ \/ w = i /\ stack[u][i].method = "release"
            \/ w = i - 1 /\ StepOf(stack[u][w]) = "emulate"
  <2>1. i > 1 => i - 1 \in 1..Depth(u)
    BY <1>1
  <2> QED BY <1>9, <2>1
<1>11. \A v \in Threads : \A j \in 1..Depth(v) :
         stack[v][j].borrow = "none" \/ (v = u /\ j = w)
  BY <1>10, WriterIsAlone DEF LInv
<1>12. f = stack[t][Depth(t)] /\ StepOf(f) \in {"lock", "brief"}
  BY <1>2 DEF f
<1>13. CASE f.method \in BridgeMethods \ {"map_file"}
  <2>1. Program[f.method][1].do \in {"shared", "exclusive"}
    BY <1>13, BridgeBorrows
  <2>2. f.pc > 1
    BY <1>4, <1>12, <2>1
  <2>3. f.borrow # "none"
    BY <1>3, <2>1, <2>2 DEF FrameSound
  <2>4. t = u /\ Depth(t) = w
    BY <1>2, <1>11, <1>12, <2>3
  <2>5. w = i - 1
    BY <1>7, <1>10, <2>4
  <2> QED BY <1>1, <2>4, <2>5
<1>14. CASE f.method = "map_file"
  <2>1. Program["map_file"] = <<Brief("linux")>>
    BY DEF Program, MapFile
  <2>2. f.pc = 1 /\ l = "linux"
    BY <1>4, <1>14, <2>1 DEF Brief
  <2>3. ~GuestRuns
    BY <1>2, <1>14, <2>2 DEF LInv, FsAlone
  <2>4. w = i /\ stack[u][i].method = "release"
    BY <1>10, <2>3 DEF GuestRuns
  <2>5. "linux" \in Held("release", stack[u][i].pc)
    BY <1>7, <2>2, <2>4 DEF LInv, FramesKeep, FrameKeeps
  <2> QED BY <2>5 DEF Held
<1>15. CASE f.method \in GuestMethods
  <2>1. Depth(t) > 1 /\ StepOf(stack[t][Depth(t) - 1]) = "emulate"
    BY <1>2, <1>12, <1>15 DEF LInv, OnGuest
  <2> DEFINE e == Depth(t) - 1
  <2>2. e \in 1..Depth(t) /\ stack[t][e] \in Frames
    BY <1>1, <2>1
  <2>3. stack[t][e].pc > 1 /\ Program[stack[t][e].method][1].do = "exclusive"
    BY <2>1, <2>2, StepIs
  <2>4. stack[t][e].borrow = "exclusive"
    BY <2>2, <2>3 DEF LInv, IInv, FramesSound, FrameSound
  <2>5. t = u /\ e = w
    BY <1>11, <2>2, <2>4
  <2>6. w = i - 1
    BY <1>9, <1>10, <2>1, <2>5
  <2> QED BY <1>1, <1>7, <2>5, <2>6
<1> QED BY <1>4, <1>13, <1>14, <1>15 DEF BridgeMethods

(* So no thread waits.                                                     *)
LEMMA InvImpliesNobodyWaits == LInv => NobodyWaits
<1> SUFFICES ASSUME LInv, NEW t \in Threads, Waits(t) PROVE FALSE
  BY DEF NobodyWaits
<1>1. gil = t /\ Depth(t) > 0 /\ StepOf(Top(t)) \in {"lock", "brief"}
      /\ owner[LockOf(Top(t))] # NoThread
  BY DEF Waits, At
<1>2. Top(t) \in Frames
  BY <1>1, TopIs DEF LInv, IInv
<1>3. LockOf(Top(t)) \in Locks
  BY <1>1, <1>2, StepIs
<1>4. PICK u \in Threads : owner[LockOf(Top(t))] = u
  BY <1>1, <1>3 DEF LInv, IInv, TypeOK
<1>5. PICK i \in 1..Depth(u) : LockOf(Top(t)) \in stack[u][i].holds
  BY <1>3, <1>4, HolderOf
<1> QED BY <1>1, <1>5, NoConflict

(* And Python code under a shared borrow runs without a guard.             *)
LEMMA InvImpliesUnguarded == LInv => HostBodyUnguarded
<1> SUFFICES ASSUME LInv, NEW t \in Threads, MayCall(t), stack[t] # <<>>, Top(t).borrow = "shared",
                    NEW l \in Locks, owner[l] = t
             PROVE  FALSE
  BY DEF HostBodyUnguarded
<1>1. stack[t] \in Seq(Frames) /\ Depth(t) \in Nat /\ Depth(t) > 0
  BY LenProperties, EmptySeq DEF LInv, IInv, TypeOK, Depth
<1>2. PICK i \in 1..Depth(t) : l \in stack[t][i].holds
  BY HolderOf
<1>3. StepOf(stack[t][Depth(t)]) = "body" /\ stack[t][Depth(t)].borrow = "shared"
  BY DEF MayCall, Top
<1>4. StepOf(stack[t][i]) \in {"body", "emulate"}
  <2>1. i \in 1..(Depth(t) - 1) \/ i = Depth(t)
    BY <1>1
  <2> QED BY <1>3, <2>1 DEF LInv, IInv, TypeOK
<1>5. PICK w \in 1..Depth(t) : stack[t][w].borrow = "exclusive"
  <2>1. i > 1 => i - 1 \in 1..Depth(t)
    BY <1>1
  <2> QED BY <1>2, <1>4, <2>1, KeeperHasWriter
<1>6. stack[t][Depth(t)].borrow = "none" \/ Depth(t) = w
  BY <1>1, <1>5, WriterIsAlone DEF LInv
<1> QED BY <1>3, <1>5, <1>6

(***************************************************************************)
(* No thread ever waits for a mutex, for any number of threads and frames, *)
(* when no script does what Disciplined rules out.                         *)
(***************************************************************************)
THEOREM NobodyEverWaits ==
  ASSUME Disciplined
  PROVE  Spec => []NobodyWaits
<1>1. LInv /\ [Next]_vars => LInv'
  BY LInvStep
<1> QED BY LInvInit, <1>1, InvImpliesNobodyWaits, PTL DEF Spec

(***************************************************************************)
(* Python code that a host call runs finds its own thread without a guard. *)
(***************************************************************************)
THEOREM HostBodiesUnguarded ==
  ASSUME Disciplined
  PROVE  Spec => []HostBodyUnguarded
<1>1. LInv /\ [Next]_vars => LInv'
  BY LInvStep
<1> QED BY LInvInit, <1>1, InvImpliesUnguarded, PTL DEF Spec
=============================================================================
