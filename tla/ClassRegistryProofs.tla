------------------------- MODULE ClassRegistryProofs -------------------------
(***************************************************************************)
(* Theorems about ClassRegistry, for any set of classes, methods and       *)
(* definitions.  The argument: ids the counter gave lie below the counter  *)
(* (BelowCounter), so a class registered later gets ids above them all;    *)
(* what guest code and NativeRegistry keep are ids that stand in the       *)
(* tables (CachedRight, NativesRight), so they inherit that separation.    *)
(* That a held id resolves needs a second invariant: the owner stays on    *)
(* the superclass chain it was found on (OnChain).                         *)
(*                                                                         *)
(* The last part is about ShimDispatch, the functions behind the methods   *)
(* Python registers: what a class answers, for any number of layers and    *)
(* functions.                                                              *)
(***************************************************************************)
EXTENDS ClassRegistry, ShimDispatch, FiniteSetTheorems, WellFoundedInduction, TLAPS

(* An id no merge gave lies below the counter.                             *)
BelowCounter ==
  \A c \in Registered : \A m \in DOMAIN index[c] :
    <<c, m>> \notin added => index[c][m] < nextId

(* Held ids stand in the table of their owner.                             *)
CachedRight ==
  \A k \in cached :
    /\ k.owner \in Registered /\ k.method \in DOMAIN index[k.owner]
    /\ index[k.owner][k.method] = k.id
    /\ k.static => k.from = k.owner

(* So do bound ids.                                                        *)
NativesRight ==
  \A id \in DOMAIN natives :
    \E c \in Registered : \E m \in DOMAIN index[c] :
      natives[id] = <<c, m>> /\ index[c][m] = id

IInv ==
  /\ TypeOK /\ TablesAgree /\ IdsApart
  /\ BelowCounter /\ CachedRight /\ NativesRight
-----------------------------------------------------------------------------
(* A numbering has its methods for domain, and numbers above n.            *)
LEMMA NumberingFacts ==
  ASSUME NEW M \in SUBSET Methods, NEW n \in Nat, NEW ids \in Numberings(M, n)
  PROVE  /\ DOMAIN ids = M
         /\ Cardinality(M) \in Nat
         /\ \A m \in M : ids[m] \in Nat /\ n < ids[m] /\ ids[m] <= n + Cardinality(M)
         /\ \A a, b \in M : ids[a] = ids[b] => a = b
<1>1. IsFiniteSet(M)
  BY FS_Subset, ClassRegistryAssumption
<1>2. Cardinality(M) \in Nat
  BY <1>1, FS_CardinalityType
<1> QED BY <1>2 DEF Numberings

(* What the two parts of a definition are.                                 *)
LEMMA DefFacts ==
  ASSUME NEW def \in Defs
  PROVE  /\ def.super \in Classes \cup {None}
         /\ def.inst \subseteq Methods /\ def.stat \subseteq Methods
         /\ def.inst \cup def.stat \in SUBSET Methods
BY ClassRegistryAssumption

LEMMA InitIInv == Init => IInv
BY DEF Init, IInv, TypeOK, TablesAgree, IdsApart, BelowCounter, CachedRight,
   NativesRight, Registered, Ids
-----------------------------------------------------------------------------
LEMMA RegisterIInv ==
  ASSUME IInv, NEW c \in Classes, NEW def \in Defs, Register(c, def)
  PROVE  IInv'
<1> DEFINE M == def.inst \cup def.stat
<1>1. PICK ids \in Numberings(M, nextId) :
        /\ index' = At(index, c, ids)
        /\ inst' = At(inst, c, Part(ids, def.inst))
        /\ stat' = At(stat, c, Part(ids, def.stat))
  BY DEF Register
<1>2. /\ M \subseteq Methods /\ def.inst \subseteq M /\ def.stat \subseteq M
      /\ def.super \in Classes \cup {None} /\ nextId \in Nat
  BY DefFacts DEF IInv, TypeOK
<1>8. M = def.inst \cup def.stat
  OBVIOUS
<1> HIDE DEF M
<1>3. /\ DOMAIN ids = M /\ Cardinality(M) \in Nat
      /\ \A m \in M : ids[m] \in Nat /\ nextId < ids[m] /\ ids[m] <= nextId + Cardinality(M)
      /\ \A a, b \in M : ids[a] = ids[b] => a = b
  <2>1. M \in SUBSET Methods /\ nextId \in Nat /\ ids \in Numberings(M, nextId)
    BY <1>2
  <2> QED BY ONLY <2>1, NumberingFacts
<1>4. /\ c \notin Registered /\ super' = At(super, c, def.super)
      /\ nextId' = nextId + 1 + Cardinality(M)
      /\ UNCHANGED <<natives, cached, added>>
  BY <1>8 DEF Register
<1>5. /\ Registered' = Registered \cup {c}
      /\ DOMAIN index = Registered /\ DOMAIN inst = Registered /\ DOMAIN stat = Registered
      /\ DOMAIN index' = Registered \cup {c} /\ DOMAIN inst' = Registered \cup {c}
      /\ DOMAIN stat' = Registered \cup {c}
  BY <1>1, <1>4 DEF Registered, At, IInv, TypeOK
<1>6. /\ index'[c] = ids /\ inst'[c] = Part(ids, def.inst) /\ stat'[c] = Part(ids, def.stat)
      /\ super'[c] = def.super
      /\ \A d \in Registered : /\ index'[d] = index[d] /\ inst'[d] = inst[d]
                               /\ stat'[d] = stat[d] /\ super'[d] = super[d]
  BY <1>1, <1>4, <1>5 DEF At, Registered
<1>7. /\ DOMAIN inst'[c] = def.inst /\ DOMAIN stat'[c] = def.stat
      /\ \A m \in def.inst : inst'[c][m] = ids[m]
      /\ \A m \in def.stat : stat'[c][m] = ids[m]
  BY <1>6 DEF Part
<1>9. TypeOK'
  <2>1. /\ Registered' \subseteq Classes /\ nextId' \in Nat
        /\ DOMAIN index' = Registered' /\ DOMAIN inst' = Registered'
        /\ DOMAIN stat' = Registered'
    BY <1>2, <1>3, <1>4, <1>5 DEF IInv, TypeOK
  <2>2. ASSUME NEW d \in Registered'
        PROVE  /\ super'[d] \in Classes \cup {None} /\ DOMAIN index'[d] \subseteq Methods
               /\ Ids(index[d])' /\ Ids(inst[d])' /\ Ids(stat[d])'
    <3>1. CASE d = c
      BY <3>1, <1>2, <1>3, <1>6, <1>7 DEF Ids
    <3>2. CASE d \in Registered
      BY <3>2, <1>6 DEF IInv, TypeOK, Ids
    <3> QED BY <3>1, <3>2, <1>5
  <2>3. /\ \A id \in DOMAIN natives' : id \in Nat /\ natives'[id] \in Classes \X Methods
        /\ cached' \subseteq [from : Classes, owner : Classes, method : Methods,
                              id : Nat, static : BOOLEAN]
        /\ added' \subseteq Classes \X Methods
    BY <1>4 DEF IInv, TypeOK
  <2> QED BY <2>1, <2>2, <2>3 DEF TypeOK
<1>10. TablesAgree'
  <2> SUFFICES ASSUME NEW d \in Registered'
               PROVE  /\ DOMAIN index'[d] = DOMAIN inst'[d] \cup DOMAIN stat'[d]
                      /\ \A m \in DOMAIN inst'[d] : inst'[d][m] = index'[d][m]
                      /\ \A m \in DOMAIN stat'[d] : stat'[d][m] = index'[d][m]
    BY DEF TablesAgree
  <2>1. CASE d = c
    BY <2>1, <1>3, <1>6, <1>7, <1>8
  <2>2. CASE d \in Registered
    BY <2>2, <1>6 DEF IInv, TablesAgree
  <2> QED BY <2>1, <2>2, <1>5
<1>11. BelowCounter'
  <2> SUFFICES ASSUME NEW d \in Registered', NEW m \in DOMAIN index'[d], <<d, m>> \notin added
               PROVE  index'[d][m] < nextId'
    BY <1>4 DEF BelowCounter
  <2>1. CASE d = c
    BY <2>1, <1>2, <1>3, <1>4, <1>6
  <2>2. CASE d \in Registered
    BY <2>2, <1>2, <1>3, <1>4, <1>6 DEF IInv, BelowCounter, TypeOK, Ids
  <2> QED BY <2>1, <2>2, <1>5
<1>12. IdsApart'
  <2> SUFFICES ASSUME NEW d \in Registered', NEW e \in Registered',
                      NEW m \in DOMAIN index'[d], NEW n \in DOMAIN index'[e],
                      index'[d][m] = index'[e][n], <<d, m>> \notin added, <<e, n>> \notin added
               PROVE  <<d, m>> = <<e, n>>
    BY <1>4 DEF IdsApart
  <2>0. \A f \in Registered : \A x \in DOMAIN index[f] :
          <<f, x>> \notin added => index[f][x] \in Nat /\ index[f][x] < nextId
    BY DEF IInv, BelowCounter, TypeOK, Ids
  <2>1. CASE d = c /\ e = c
    BY <2>1, <1>3, <1>6
  <2>2. CASE d = c /\ e \in Registered
    BY <2>0, <2>2, <1>2, <1>3, <1>6
  <2>3. CASE d \in Registered /\ e = c
    BY <2>0, <2>3, <1>2, <1>3, <1>6
  <2>4. CASE d \in Registered /\ e \in Registered
    BY <2>4, <1>6 DEF IInv, IdsApart
  <2> QED BY <2>1, <2>2, <2>3, <2>4, <1>5
<1>13. CachedRight' /\ NativesRight'
  BY <1>4, <1>5, <1>6 DEF IInv, CachedRight, NativesRight
<1> QED BY <1>9, <1>10, <1>11, <1>12, <1>13 DEF IInv
-----------------------------------------------------------------------------
(* A merge into c, whose index had old and gets all.                       *)
LEMMA MergeIInv ==
  ASSUME IInv, NEW c \in Classes, NEW def \in Defs, Merge(c, def)
  PROVE  IInv'
<1> DEFINE M == Fresh(c, def)
           n == Cardinality(DOMAIN index[c])
<1>1. PICK ids \in Numberings(M, n) :
        /\ index' = [index EXCEPT ![c] = Over(index[c], ids)]
        /\ inst' = [inst EXCEPT ![c] = Over(@, Part(Over(index[c], ids), def.inst))]
        /\ stat' = [stat EXCEPT ![c] = Over(@, Part(Over(index[c], ids), def.stat))]
  BY DEF Merge
<1>2. /\ c \in Registered /\ added' = added \cup ({c} \X M)
      /\ UNCHANGED <<super, nextId, natives, cached>>
  BY DEF Merge
<1>3. /\ M = (def.inst \cup def.stat) \ DOMAIN index[c] /\ M \in SUBSET Methods
      /\ def.inst \subseteq DOMAIN index[c] \cup M
      /\ def.stat \subseteq DOMAIN index[c] \cup M
  BY DefFacts DEF Fresh
<1>4. n \in Nat
  <2>1. IsFiniteSet(DOMAIN index[c])
    BY <1>2, FS_Subset, ClassRegistryAssumption DEF IInv, TypeOK
  <2> QED BY <2>1, FS_CardinalityType
<1> HIDE DEF M, n
<1>5. DOMAIN ids = M /\ \A m \in M : ids[m] \in Nat
  <2>1. M \in SUBSET Methods /\ n \in Nat /\ ids \in Numberings(M, n)
    BY <1>1, <1>3, <1>4
  <2> QED BY ONLY <2>1, NumberingFacts
<1>6. /\ DOMAIN index = Registered /\ DOMAIN inst = Registered /\ DOMAIN stat = Registered
      /\ DOMAIN index' = Registered /\ DOMAIN inst' = Registered /\ DOMAIN stat' = Registered
      /\ Registered' = Registered
  BY <1>1, <1>2 DEF IInv, TypeOK, Registered
<1>7. /\ index'[c] = Over(index[c], ids)
      /\ inst'[c] = Over(inst[c], Part(Over(index[c], ids), def.inst))
      /\ stat'[c] = Over(stat[c], Part(Over(index[c], ids), def.stat))
      /\ \A d \in Registered \ {c} :
           index'[d] = index[d] /\ inst'[d] = inst[d] /\ stat'[d] = stat[d]
  BY <1>1, <1>2, <1>6
<1>8. /\ DOMAIN index'[c] = DOMAIN index[c] \cup M
      /\ \A m \in DOMAIN index[c] : index'[c][m] = index[c][m]
      /\ \A m \in M : index'[c][m] = ids[m]
  BY <1>3, <1>5, <1>7 DEF Over
<1>9. /\ DOMAIN inst'[c] = DOMAIN inst[c] \cup def.inst
      /\ DOMAIN stat'[c] = DOMAIN stat[c] \cup def.stat
      /\ \A m \in DOMAIN inst[c] \ def.inst : inst'[c][m] = inst[c][m]
      /\ \A m \in DOMAIN stat[c] \ def.stat : stat'[c][m] = stat[c][m]
      /\ \A m \in def.inst : inst'[c][m] = index'[c][m]
      /\ \A m \in def.stat : stat'[c][m] = index'[c][m]
  BY <1>7 DEF Over, Part
<1>10. TablesAgree'
  <2> SUFFICES ASSUME NEW d \in Registered
               PROVE  /\ DOMAIN index'[d] = DOMAIN inst'[d] \cup DOMAIN stat'[d]
                      /\ \A m \in DOMAIN inst'[d] : inst'[d][m] = index'[d][m]
                      /\ \A m \in DOMAIN stat'[d] : stat'[d][m] = index'[d][m]
    BY <1>6 DEF TablesAgree
  <2>1. CASE d = c
    <3>1. /\ DOMAIN index[c] = DOMAIN inst[c] \cup DOMAIN stat[c]
          /\ \A m \in DOMAIN inst[c] : inst[c][m] = index[c][m]
          /\ \A m \in DOMAIN stat[c] : stat[c][m] = index[c][m]
      BY <1>2 DEF IInv, TablesAgree
    <3> QED BY <2>1, <3>1, <1>3, <1>8, <1>9
  <2>2. CASE d # c
    BY <2>2, <1>7 DEF IInv, TablesAgree
  <2> QED BY <2>1, <2>2
<1>11. TypeOK'
  <2>1. ASSUME NEW d \in Registered
        PROVE  /\ super'[d] \in Classes \cup {None} /\ DOMAIN index'[d] \subseteq Methods
               /\ Ids(index[d])' /\ Ids(inst[d])' /\ Ids(stat[d])'
    <3>0. super'[d] \in Classes \cup {None}
      BY <1>2 DEF IInv, TypeOK
    <3>1. DOMAIN index'[d] \subseteq Methods /\ Ids(index[d])'
      <4>1. CASE d = c
        BY <4>1, <1>2, <1>3, <1>5, <1>8 DEF IInv, TypeOK, Ids
      <4>2. CASE d # c
        BY <4>2, <1>7 DEF IInv, TypeOK, Ids
      <4> QED BY <4>1, <4>2
    <3>2. Ids(inst[d])' /\ Ids(stat[d])'
      BY <3>1, <1>6, <1>10 DEF TablesAgree, Ids
    <3> QED BY <3>0, <3>1, <3>2
  <2>2. /\ Registered' \subseteq Classes /\ nextId' \in Nat
        /\ DOMAIN index' = Registered' /\ DOMAIN inst' = Registered'
        /\ DOMAIN stat' = Registered'
        /\ \A id \in DOMAIN natives' : id \in Nat /\ natives'[id] \in Classes \X Methods
        /\ cached' \subseteq [from : Classes, owner : Classes, method : Methods,
                              id : Nat, static : BOOLEAN]
    BY <1>2, <1>6 DEF IInv, TypeOK
  <2>3. added' \subseteq Classes \X Methods
    BY <1>2, <1>3 DEF IInv, TypeOK
  <2> QED BY <2>1, <2>2, <2>3, <1>6 DEF TypeOK
<1>12. ASSUME NEW d \in Registered, NEW m \in DOMAIN index'[d], <<d, m>> \notin added'
       PROVE  m \in DOMAIN index[d] /\ index'[d][m] = index[d][m] /\ <<d, m>> \notin added
  BY <1>2, <1>7, <1>8, <1>12
<1>13. BelowCounter' /\ IdsApart'
  <2>1. BelowCounter'
    BY <1>2, <1>6, <1>12 DEF IInv, BelowCounter
  <2>2. IdsApart'
    <3> SUFFICES ASSUME NEW d \in Registered', NEW e \in Registered',
                        NEW m \in DOMAIN index'[d], NEW x \in DOMAIN index'[e],
                        index'[d][m] = index'[e][x],
                        <<d, m>> \notin added', <<e, x>> \notin added'
                 PROVE  <<d, m>> = <<e, x>>
      BY DEF IdsApart
    <3>1. /\ m \in DOMAIN index[d] /\ index'[d][m] = index[d][m] /\ <<d, m>> \notin added
          /\ x \in DOMAIN index[e] /\ index'[e][x] = index[e][x] /\ <<e, x>> \notin added
      BY <1>6, <1>12
    <3> QED BY <3>1, <1>6 DEF IInv, IdsApart
  <2> QED BY <2>1, <2>2
<1>14. \A d \in Registered : \A m \in DOMAIN index[d] :
         m \in DOMAIN index'[d] /\ index'[d][m] = index[d][m]
  BY <1>7, <1>8
<1>15. CachedRight' /\ NativesRight'
  BY <1>2, <1>6, <1>14 DEF IInv, CachedRight, NativesRight
<1> QED BY <1>10, <1>11, <1>13, <1>15 DEF IInv
-----------------------------------------------------------------------------
(* The class GetMethodID finds is registered and has the method.           *)
LEMMA OwnerFacts ==
  ASSUME NEW c, NEW m, NEW d \in Owner(c, m)
  PROVE  d \in Registered /\ m \in DOMAIN index[d]
BY DEF Owner, FirstOf

LEMMA GetMethodIDIInv ==
  ASSUME IInv, NEW c \in Classes, NEW m \in Methods, GetMethodID(c, m)
  PROVE  IInv'
<1>1. PICK d \in Owner(c, m) :
        cached' = cached \cup {[from |-> c, owner |-> d, method |-> m,
                               id |-> index[d][m], static |-> FALSE]}
  BY DEF GetMethodID
<1>2. d \in Registered /\ m \in DOMAIN index[d]
  BY OwnerFacts
<1>3. UNCHANGED <<super, index, inst, stat, nextId, natives, added>> /\ Registered' = Registered
  BY DEF GetMethodID, Registered
<1>4. TypeOK'
  <2>1. d \in Classes /\ index[d][m] \in Nat
    BY <1>1, <1>2 DEF IInv, TypeOK, Ids
  <2>2. [from |-> c, owner |-> d, method |-> m, id |-> index[d][m], static |-> FALSE]
          \in [from : Classes, owner : Classes, method : Methods, id : Nat, static : BOOLEAN]
    BY <1>1, <1>2, <2>1
  <2>3. cached' \subseteq [from : Classes, owner : Classes, method : Methods,
                          id : Nat, static : BOOLEAN]
    <3>1. cached \subseteq [from : Classes, owner : Classes, method : Methods,
                           id : Nat, static : BOOLEAN]
      BY DEF IInv, TypeOK
    <3> QED BY <3>1, <2>2, <1>1, Zenon
  <2> QED BY <1>3, <2>3 DEF IInv, TypeOK, Ids
<1>5. CachedRight'
  BY <1>1, <1>2, <1>3 DEF IInv, CachedRight
<1> QED BY <1>3, <1>4, <1>5 DEF IInv, TablesAgree, IdsApart, BelowCounter, NativesRight

LEMMA GetStaticMethodIDIInv ==
  ASSUME IInv, NEW c \in Classes, NEW m \in Methods, GetStaticMethodID(c, m)
  PROVE  IInv'
<1>1. /\ c \in Registered /\ m \in DOMAIN stat[c]
      /\ cached' = cached \cup {[from |-> c, owner |-> c, method |-> m,
                                 id |-> stat[c][m], static |-> TRUE]}
  BY DEF GetStaticMethodID
<1>2. m \in DOMAIN index[c] /\ stat[c][m] = index[c][m]
  BY <1>1 DEF IInv, TablesAgree
<1>3. UNCHANGED <<super, index, inst, stat, nextId, natives, added>> /\ Registered' = Registered
  BY DEF GetStaticMethodID, Registered
<1>4. TypeOK'
  <2>1. c \in Classes /\ index[c][m] \in Nat
    BY <1>1, <1>2 DEF IInv, TypeOK, Ids
  <2>2. [from |-> c, owner |-> c, method |-> m, id |-> stat[c][m], static |-> TRUE]
          \in [from : Classes, owner : Classes, method : Methods, id : Nat, static : BOOLEAN]
    BY <1>1, <1>2, <2>1
  <2>3. cached' \subseteq [from : Classes, owner : Classes, method : Methods,
                          id : Nat, static : BOOLEAN]
    <3>1. cached \subseteq [from : Classes, owner : Classes, method : Methods,
                           id : Nat, static : BOOLEAN]
      BY DEF IInv, TypeOK
    <3> QED BY <3>1, <2>2, <1>1, Zenon
  <2> QED BY <1>3, <2>3 DEF IInv, TypeOK, Ids
<1>5. CachedRight'
  BY <1>1, <1>2, <1>3 DEF IInv, CachedRight
<1> QED BY <1>3, <1>4, <1>5 DEF IInv, TablesAgree, IdsApart, BelowCounter, NativesRight

LEMMA RegisterNativeIInv ==
  ASSUME IInv, NEW c \in Classes, NEW m \in Methods, RegisterNative(c, m)
  PROVE  IInv'
<1>1. /\ c \in Registered /\ m \in DOMAIN index[c]
      /\ natives' = At(natives, index[c][m], <<c, m>>)
  BY DEF RegisterNative
<1>2. UNCHANGED <<super, index, inst, stat, nextId, cached, added>> /\ Registered' = Registered
  BY DEF RegisterNative, Registered
<1>3. /\ DOMAIN natives' = DOMAIN natives \cup {index[c][m]}
      /\ natives'[index[c][m]] = <<c, m>>
      /\ \A id \in DOMAIN natives \ {index[c][m]} : natives'[id] = natives[id]
  BY <1>1 DEF At
<1>4. TypeOK'
  BY <1>1, <1>2, <1>3 DEF IInv, TypeOK, Ids
<1>5. NativesRight'
  BY <1>1, <1>2, <1>3 DEF IInv, NativesRight
<1> QED BY <1>2, <1>4, <1>5 DEF IInv, TablesAgree, IdsApart, BelowCounter, CachedRight
-----------------------------------------------------------------------------
(* Every reachable state satisfies the inductive invariant.                *)
THEOREM Invariance == Spec => []IInv
<1>1. Init => IInv
  BY InitIInv
<1>2. IInv /\ [Next]_vars => IInv'
  <2> SUFFICES ASSUME IInv, [Next]_vars PROVE IInv'
    OBVIOUS
  <2>1. CASE UNCHANGED vars
    BY <2>1 DEF vars, IInv, TypeOK, TablesAgree, IdsApart, BelowCounter, CachedRight,
       NativesRight, Registered, Ids
  <2>2. CASE Next
    BY <2>2, RegisterIInv, MergeIInv, GetMethodIDIInv, GetStaticMethodIDIInv,
       RegisterNativeIInv DEF Next
  <2> QED BY <2>1, <2>2
<1> QED BY <1>1, <1>2, PTL DEF Spec

(* Every table holds what its code can put there.                          *)
THEOREM TypeCorrect == Spec => []TypeOK
<1>1. IInv => TypeOK
  BY DEF IInv
<1> QED BY <1>1, Invariance, PTL

(* method_index and the two method tables hold the same methods under the  *)
(* same ids, through any sequence of overrides.                            *)
THEOREM TablesAlike == Spec => []TablesAgree
<1>1. IInv => TablesAgree
  BY DEF IInv
<1> QED BY <1>1, Invariance, PTL

(* Ids that reassign_method_ids gave are never shared in the registry.     *)
THEOREM IdsDistinct == Spec => []IdsApart
<1>1. IInv => IdsApart
  BY DEF IInv
<1> QED BY <1>1, Invariance, PTL

(* A native binding captures only the method it was made for, merged ids   *)
(* apart.                                                                  *)
THEOREM NativesDistinct == Spec => []NativesApart
<1>1. IInv => NativesApart
  <2> SUFFICES ASSUME IInv, NEW id \in DOMAIN natives, NEW c \in Registered,
                      NEW m \in DOMAIN index[c], index[c][m] = id
               PROVE  natives[id] = <<c, m>> \/ natives[id] \in added \/ <<c, m>> \in added
    BY DEF NativesApart
  <2>1. \E d \in Registered : \E n \in DOMAIN index[d] :
          natives[id] = <<d, n>> /\ index[d][n] = id
    BY DEF IInv, NativesRight
  <2> QED BY <2>1 DEF IInv, IdsApart
<1> QED BY <1>1, Invariance, PTL

(* A call by a held id reaches the method it was answered for, merged ids  *)
(* apart, whatever the superclass chains.                                  *)
THEOREM CallsReach == Spec => []CachedReaches
<1>1. IInv => CachedReaches
  <2> SUFFICES ASSUME IInv, NEW k \in cached, NEW hit \in Reached(k)
               PROVE  \/ hit = <<k.owner, k.method>>
                      \/ hit \in added \/ <<k.owner, k.method>> \in added
    BY DEF CachedReaches
  <2>1. /\ k.owner \in Registered /\ k.method \in DOMAIN index[k.owner]
        /\ index[k.owner][k.method] = k.id /\ (k.static => k.from = k.owner)
    BY DEF IInv, CachedRight
  <2>2. \E d \in Registered : \E n \in DOMAIN index[d] :
          hit = <<d, n>> /\ index[d][n] = k.id
    <3>1. CASE k.static
      BY <3>1, <2>1 DEF Reached, StaticCalled, WithId, IInv, TablesAgree
    <3>2. CASE ~k.static
      <4>1. PICK d \in Registered : hit \in {d} \X WithId(inst[d], k.id)
        BY <3>2 DEF Reached, Called, FirstOf
      <4> QED BY <4>1 DEF WithId, IInv, TablesAgree
    <3> QED BY <3>1, <3>2
  <2> QED BY <2>1, <2>2 DEF IInv, IdsApart
<1> QED BY <1>1, Invariance, PTL
-----------------------------------------------------------------------------
(* What a step keeps of every class: its superclass, ids and methods.      *)
Keeps ==
  \A c \in Registered :
    /\ c \in DOMAIN super' /\ super'[c] = super[c]
    /\ \A m \in DOMAIN index[c] : m \in DOMAIN index'[c] /\ index'[c][m] = index[c][m]
    /\ DOMAIN inst[c] \subseteq DOMAIN inst'[c]
    /\ DOMAIN stat[c] \subseteq DOMAIN stat'[c]

LEMMA StepKeeps == IInv /\ [Next]_vars => Keeps
<1>1. IInv /\ Next => Keeps
  <2> SUFFICES ASSUME IInv, Next PROVE Keeps
    OBVIOUS
  <2>1. CASE UNCHANGED <<super, index, inst, stat>>
    BY <2>1 DEF Registered, Keeps
  <2>2. ASSUME NEW d \in Classes, NEW def \in Defs, Register(d, def) PROVE Keeps
    <3>1. PICK ids \in Numberings(def.inst \cup def.stat, nextId) :
            /\ index' = At(index, d, ids)
            /\ inst' = At(inst, d, Part(ids, def.inst))
            /\ stat' = At(stat, d, Part(ids, def.stat))
      BY <2>2 DEF Register
    <3>2. d \notin Registered /\ super' = At(super, d, def.super)
      BY <2>2 DEF Register
    <3> QED BY <3>1, <3>2 DEF At, Registered, IInv, TypeOK, Keeps
  <2>3. ASSUME NEW d \in Classes, NEW def \in Defs, Merge(d, def) PROVE Keeps
    <3>1. PICK ids \in Numberings(Fresh(d, def), Cardinality(DOMAIN index[d])) :
            /\ index' = [index EXCEPT ![d] = Over(index[d], ids)]
            /\ inst' = [inst EXCEPT ![d] = Over(@, Part(Over(index[d], ids), def.inst))]
            /\ stat' = [stat EXCEPT ![d] = Over(@, Part(Over(index[d], ids), def.stat))]
      BY <2>3 DEF Merge
    <3>2. DOMAIN ids \cap DOMAIN index[d] = {} /\ super' = super
      BY <2>3 DEF Merge, Numberings, Fresh
    <3> QED BY <3>1, <3>2 DEF Over, Registered, IInv, TypeOK, Keeps
  <2>4. CASE \E d \in Classes, m \in Methods :
               GetMethodID(d, m) \/ GetStaticMethodID(d, m) \/ RegisterNative(d, m)
    BY <2>1, <2>4 DEF GetMethodID, GetStaticMethodID, RegisterNative
  <2> QED BY <2>2, <2>3, <2>4 DEF Next
<1>2. UNCHANGED vars => Keeps
  BY DEF vars, Registered, Keeps
<1> QED BY <1>1, <1>2

(* An id guest code holds stays good through every registration and merge. *)
THEOREM MethodIdsKeep == Spec => MethodIdStable
<1>1. Spec => [][Keeps]_vars
  BY StepKeeps, Invariance, PTL DEF Spec
<1> QED BY <1>1 DEF MethodIdStable, Keeps

(* The tables of every class agree, in every state.                        *)
THEOREM RegistryAlwaysSound == Spec => []RegistrySound
BY TypeCorrect, TablesAlike, PTL DEF RegistrySound

(* Ids and native bindings are apart, merged ids excepted.                 *)
THEOREM NumbersAlwaysApart == Spec => []NumbersApart
BY IdsDistinct, NativesDistinct, PTL DEF NumbersApart
-----------------------------------------------------------------------------
(***************************************************************************)
(* Superclass chains.  Chain is a recursive function: it is shown to exist *)
(* (Climbs), and to keep what it passed when classes are added.            *)
(***************************************************************************)
Below == OpToRel(<, Nat)

(* A set of numbers that is not empty has a least one.                     *)
LEMMA LeastNumber ==
  ASSUME NEW T, T \subseteq Nat, T # {}
  PROVE  \E x \in T : \A y \in T : x <= y
<1>1. \A x, y \in Nat : <<x, y>> \in Below <=> x < y
  BY SMT DEF Below, OpToRel
<1>2. IsWellFoundedOn(Below, Nat)
  BY NatLessThanWellFounded DEF Below
<1>3. PICK x \in T : \A y \in T : <<y, x>> \notin Below
  BY <1>2, WFMin
<1>4. ASSUME NEW y \in T PROVE x <= y
  <2>1. x \in Nat /\ y \in Nat
    OBVIOUS
  <2>2. ~ y < x
    BY <2>1, <1>1, <1>3
  <2> QED BY <2>1, <2>2
<1> QED BY <1>4

(* A set that has 0 and with a number the next has them all.               *)
LEMMA Induction ==
  ASSUME NEW S, S \subseteq Nat, 0 \in S, \A n \in S : n + 1 \in S
  PROVE  S = Nat
<1>1. SUFFICES ASSUME Nat \ S # {} PROVE FALSE
  OBVIOUS
<1>2. PICK x \in Nat \ S : \A y \in Nat \ S : x <= y
  BY <1>1, LeastNumber
<1>3. x - 1 \in S /\ (x - 1) + 1 = x
  BY <1>2
<1> QED BY <1>2, <1>3

(* One class up, and a chain of n steps from c.                            *)
Up(s, x) == IF x \in DOMAIN s THEN s[x] ELSE None

Climbs(f, n, s, c) == f = [k \in 0..n |-> IF k = 0 THEN c ELSE Up(s, f[k - 1])]

LEMMA NextUp ==
  ASSUME NEW f, NEW n, NEW s, NEW c, Climbs(f, n, s, c), NEW k \in 0..n, k # 0
  PROVE  f[k] = Up(s, f[k - 1])
BY Zenon DEF Climbs

LEMMA ChainsExist ==
  ASSUME NEW s, NEW c, NEW n \in Nat
  PROVE  \E f : Climbs(f, n, s, c)
<1> DEFINE S == {m \in Nat : \E f : Climbs(f, m, s, c)}
<1>1. 0 \in S
  <2>1. Climbs([k \in 0..0 |-> c], 0, s, c)
    BY DEF Climbs
  <2> QED BY <2>1
<1>2. ASSUME NEW m \in S PROVE m + 1 \in S
  <2>1. PICK f : Climbs(f, m, s, c)
    OBVIOUS
  <2> DEFINE g == [k \in 0..m + 1 |-> IF k = 0 THEN c ELSE Up(s, f[k - 1])]
  <2>2. ASSUME NEW k \in 0..m PROVE g[k] = f[k]
    BY <2>1 DEF Climbs
  <2>3. \A k \in 0..m + 1 : k # 0 => k - 1 \in 0..m
    OBVIOUS
  <2>4. \A k \in 0..m + 1 : k # 0 => g[k - 1] = f[k - 1]
    BY <2>2, <2>3
  <2>5. Climbs(g, m + 1, s, c)
    BY <2>4 DEF Climbs
  <2> QED BY <2>5
<1>3. S = Nat
  BY <1>1, <1>2, Induction
<1> QED BY <1>3

(* What resolution walks, for any table of superclasses.                   *)
ChainOf(s, c) ==
  CHOOSE f : f = [k \in Steps |-> IF k = 0 THEN c ELSE Up(s, f[k - 1])]

LEMMA ChainClimbs ==
  ASSUME NEW s, NEW c
  PROVE  Climbs(ChainOf(s, c), Cardinality(Classes), s, c)
<1>1. Cardinality(Classes) \in Nat
  BY ClassRegistryAssumption, FS_CardinalityType
<1>2. \E f : Climbs(f, Cardinality(Classes), s, c)
  BY <1>1, ChainsExist
<1> QED BY <1>2 DEF Climbs, ChainOf, Steps

LEMMA ChainIs == \A c : Chain(c) = ChainOf(super, c)
BY DEF Chain, ChainOf, Up, Registered

(* Classes added above or beside leave the registered part of a chain.     *)
LEMMA ChainKeeps ==
  ASSUME NEW s, NEW t, NEW c, DOMAIN s \subseteq DOMAIN t, \A x \in DOMAIN s : t[x] = s[x],
         None \notin DOMAIN s
  PROVE  \A j \in Steps : ChainOf(s, c)[j] \in DOMAIN s => ChainOf(t, c)[j] = ChainOf(s, c)[j]
<1> DEFINE f == ChainOf(s, c)
           g == ChainOf(t, c)
           n == Cardinality(Classes)
           S == {j \in Nat : j <= n => (f[j] \in DOMAIN s => g[j] = f[j])}
<1>1. n \in Nat
  BY ClassRegistryAssumption, FS_CardinalityType
<1>2. Climbs(f, n, s, c) /\ Climbs(g, n, t, c)
  BY ChainClimbs
<1> HIDE DEF f, g, n
<1>3. 0 \in S
  BY <1>1, <1>2 DEF Climbs
<1>4. ASSUME NEW j \in S PROVE j + 1 \in S
  <2>1. SUFFICES ASSUME j + 1 <= n, f[j + 1] \in DOMAIN s PROVE g[j + 1] = f[j + 1]
    OBVIOUS
  <2>2. j + 1 \in 0..n /\ j + 1 # 0 /\ (j + 1) - 1 = j /\ j <= n
    BY <1>1, <2>1
  <2>3. f[j + 1] = Up(s, f[j]) /\ g[j + 1] = Up(t, g[j])
    <3>1. f[j + 1] = Up(s, f[(j + 1) - 1]) /\ g[j + 1] = Up(t, g[(j + 1) - 1])
      BY <1>2, <2>2, NextUp
    <3> QED BY <2>2, <3>1
  <2>4. f[j] \in DOMAIN s
    BY <2>1, <2>3 DEF Up
  <2>5. g[j] = f[j]
    BY <2>2, <2>4
  <2> QED BY <2>3, <2>4, <2>5 DEF Up
<1>5. S = Nat
  BY <1>3, <1>4, Induction
<1>6. \A j \in Steps : f[j] \in DOMAIN s => g[j] = f[j]
  BY <1>1, <1>5 DEF Steps, n
<1> QED BY <1>6 DEF f, g

(* Where the owner of a held id is found: up the chain of the class asked, *)
(* or in its table of static methods.                                      *)
OnChain ==
  \A k \in cached :
    IF k.static THEN k.from = k.owner /\ k.method \in DOMAIN stat[k.owner]
                ELSE \E j \in Steps : Chain(k.from)[j] = k.owner

LEMMA StepOnChain == IInv /\ OnChain /\ [Next]_vars => OnChain'
<1> SUFFICES ASSUME IInv, OnChain, [Next]_vars PROVE OnChain'
  OBVIOUS
<1>1. Keeps
  BY StepKeeps
<1>2. None \notin Registered
  BY ClassRegistryAssumption DEF IInv, TypeOK
<1>3. ASSUME NEW c, NEW j \in Steps, Chain(c)[j] \in Registered
      PROVE  Chain(c)'[j] = Chain(c)[j]
  <2>1. Chain(c) = ChainOf(super, c) /\ Chain(c)' = ChainOf(super', c)
    <3>1. Chain(c)' = ChainOf(super', c)
      BY DEF Chain, ChainOf, Up, Registered
    <3> QED BY <3>1, ChainIs
  <2>2. DOMAIN super \subseteq DOMAIN super' /\ \A x \in DOMAIN super : super'[x] = super[x]
    BY <1>1 DEF Keeps, Registered
  <2>3. ChainOf(super, c)[j] \in DOMAIN super => ChainOf(super', c)[j] = ChainOf(super, c)[j]
    BY <1>2, <2>2, ChainKeeps DEF Registered
  <2> QED BY <1>3, <2>1, <2>3 DEF Registered
<1>4. ASSUME NEW k \in cached
      PROVE  IF k.static THEN k.from = k.owner /\ k.method \in DOMAIN stat'[k.owner]
                         ELSE \E j \in Steps : Chain(k.from)'[j] = k.owner
  <2>1. k.owner \in Registered
    BY DEF IInv, CachedRight
  <2>2. CASE k.static
    BY <1>1, <2>1, <2>2 DEF OnChain, Keeps
  <2>3. CASE ~k.static
    <3>1. PICK j \in Steps : Chain(k.from)[j] = k.owner
      BY <2>3 DEF OnChain
    <3>2. Chain(k.from)'[j] = k.owner
      BY <1>3, <2>1, <3>1
    <3> QED BY <2>3, <3>2
  <2> QED BY <2>2, <2>3
<1>5. ASSUME NEW k \in cached', k \notin cached
      PROVE  IF k.static THEN k.from = k.owner /\ k.method \in DOMAIN stat'[k.owner]
                         ELSE \E j \in Steps : Chain(k.from)'[j] = k.owner
  <2>1. PICK c \in Classes, m \in Methods : GetMethodID(c, m) \/ GetStaticMethodID(c, m)
    BY <1>5 DEF Next, vars, Register, Merge, RegisterNative
  <2>2. CASE GetMethodID(c, m)
    <3>1. PICK owner \in Owner(c, m) :
            cached' = cached \cup {[from |-> c, owner |-> owner, method |-> m,
                                    id |-> index[owner][m], static |-> FALSE]}
      BY <2>2 DEF GetMethodID
    <3>2. k.static = FALSE /\ k.from = c /\ k.owner = owner
      BY <1>5, <3>1
    <3>3. owner \in Registered /\ \E j \in Steps : Chain(c)[j] = owner
      BY DEF Owner, FirstOf
    <3>4. \E j \in Steps : Chain(c)'[j] = owner
      BY <1>3, <3>3
    <3> QED BY <3>2, <3>4
  <2>3. CASE GetStaticMethodID(c, m)
    <3>1. /\ m \in DOMAIN stat[c] /\ stat' = stat
          /\ cached' = cached \cup {[from |-> c, owner |-> c, method |-> m,
                                     id |-> stat[c][m], static |-> TRUE]}
      BY <2>3 DEF GetStaticMethodID
    <3>2. k.static = TRUE /\ k.from = c /\ k.owner = c /\ k.method = m
      BY <1>5, <3>1
    <3> QED BY <3>1, <3>2
  <2> QED BY <2>1, <2>2, <2>3
<1> QED BY <1>4, <1>5 DEF OnChain

LEMMA ChainResolves == IInv /\ OnChain => CachedResolves
<1> SUFFICES ASSUME IInv, OnChain, NEW k \in cached, k.static \/ k.method \in DOMAIN inst[k.owner]
             PROVE  Reached(k) # {}
  BY DEF CachedResolves
<1>1. /\ k.owner \in Registered /\ k.method \in DOMAIN index[k.owner]
      /\ index[k.owner][k.method] = k.id
  BY DEF IInv, CachedRight
<1>2. CASE k.static
  <2>1. k.from = k.owner /\ k.method \in DOMAIN stat[k.owner]
    BY <1>2 DEF OnChain
  <2>2. stat[k.owner][k.method] = k.id
    BY <1>1, <2>1 DEF IInv, TablesAgree
  <2>3. <<k.from, k.method>> \in StaticCalled(k.from, k.id)
    BY <2>1, <2>2 DEF StaticCalled, WithId
  <2> QED BY <1>2, <2>3 DEF Reached
<1>3. CASE ~k.static
  <2> DEFINE S == {e \in Registered : WithId(inst[e], k.id) # {}}
             up == Chain(k.from)
             found == {j \in Steps : up[j] \in S}
  <2>1. k.method \in DOMAIN inst[k.owner] /\ inst[k.owner][k.method] = k.id
    BY <1>1, <1>3 DEF IInv, TablesAgree
  <2>2. k.owner \in S
    BY <1>1, <2>1 DEF WithId
  <2>3. found # {} /\ found \subseteq Nat
    <3>1. \E j \in Steps : up[j] = k.owner
      BY <1>3 DEF OnChain
    <3>2. Steps \subseteq Nat
      BY DEF Steps
    <3> HIDE DEF S, up
    <3> QED BY <2>2, <3>1, <3>2
  <2> HIDE DEF S, up, found
  <2>4. PICK j \in found : \A i \in found : j <= i
    BY <2>3, LeastNumber
  <2>5. up[j] \in FirstOf(k.from, S) /\ up[j] \in S
    BY <2>4 DEF FirstOf, found, up
  <2>6. PICK m : m \in WithId(inst[up[j]], k.id)
    BY <2>5 DEF S
  <2>7. <<up[j], m>> \in Called(k.from, k.id)
    <3> DEFINE F == FirstOf(k.from, S)
               d == up[j]
    <3>1. Called(k.from, k.id) = UNION {{e} \X WithId(inst[e], k.id) : e \in F}
      BY DEF Called, S
    <3>2. d \in F /\ m \in WithId(inst[d], k.id)
      BY <2>5, <2>6
    <3> HIDE DEF F, d
    <3>3. <<d, m>> \in Called(k.from, k.id)
      BY <3>1, <3>2
    <3> QED BY <3>3 DEF d
  <2> QED BY <1>3, <2>7 DEF Reached
<1> QED BY <1>2, <1>3

(* A held id resolves, whatever is registered and merged after it was      *)
(* answered and however long, broken or cyclic the superclass chains are.  *)
THEOREM HeldIdsResolve == Spec => []CachedResolves
<1>1. Init => OnChain
  BY DEF Init, OnChain
<1>2. IInv /\ OnChain /\ [Next]_vars => OnChain'
  BY StepOnChain
<1> QED BY <1>1, <1>2, ChainResolves, Invariance, PTL DEF Spec
-----------------------------------------------------------------------------
(* The functions of a shim class.                                          *)

(* The scan meets them one by one.                                         *)
LEMMA ScanOrder ==
  ASSUME ShimAssumption, shim \in Shims, NEW p \in Scanned, NEW q \in Scanned
  PROVE  /\ q = p \/ Sooner(p, q) \/ Sooner(q, p)
         /\ ~(Sooner(p, q) /\ Sooner(q, p)) /\ ~Sooner(p, p)
<1>1. ASSUME NEW r \in Scanned PROVE r \in Nat \X Nat
  <2>1. PICK k \in DOMAIN shim.mro : r \in {k} \X DOMAIN shim.mro[k]
    BY DEF Scanned
  <2>2. /\ shim.mro \in Seq(Range(shim.mro))
        /\ shim.mro[k] \in Seq(Range(shim.mro[k]))
    BY DEF ShimAssumption
  <2>3. DOMAIN shim.mro = 1..Len(shim.mro) /\ DOMAIN shim.mro[k] = 1..Len(shim.mro[k])
    <3>1. \A S, s : s \in Seq(S) => DOMAIN s = 1..Len(s)
      OBVIOUS
    <3>q. QED
      BY <2>2, <3>1
  <2>4. k \in Nat /\ DOMAIN shim.mro[k] \subseteq Nat
    BY <2>3
  <2>q. QED
    BY <2>1, <2>4
<1>2. p \in Nat \X Nat /\ q \in Nat \X Nat
  BY <1>1
<1>3. /\ p[1] \in Nat /\ p[2] \in Nat /\ q[1] \in Nat /\ q[2] \in Nat
      /\ p[1] = q[1] /\ p[2] = q[2] => p = q
  BY <1>2
<1>4. \A a, b, c, d \in Nat :
        /\ (a = c /\ b = d) \/ (a < c \/ (a = c /\ b < d)) \/ (c < a \/ (c = a /\ d < b))
        /\ ~((a < c \/ (a = c /\ b < d)) /\ (c < a \/ (c = a /\ d < b)))
        /\ ~(a < a \/ (a = a /\ b < b))
  OBVIOUS
<1>q. QED
  BY <1>3, <1>4 DEF Sooner

(* The one that no other is met before.                                    *)
LEMMA ForemostIs ==
  ASSUME ShimAssumption, shim \in Shims, NEW S, S \subseteq Scanned,
         NEW p \in S, \A q \in S : ~Sooner(q, p)
  PROVE  Foremost(S) = p
<1>1. \A q \in S : q = p \/ Sooner(p, q)
  BY ScanOrder
<1>2. \A r \in S : (\A q \in S : q = r \/ Sooner(r, q)) => r = p
  BY ScanOrder
<1>q. QED
  BY <1>1, <1>2 DEF Foremost

(* A function that is the nearest for its descriptor is the only one that  *)
(* is registered for it, ...                                               *)
LEMMA NearestRegistered ==
  ASSUME ShimAssumption, shim \in Shims, NEW p \in Scanned, IsNearest(p)
  PROVE  /\ p \in JavaMethods
         /\ \A m \in JavaMethods : Fn(m).desc = Fn(p).desc => m = p
<1>1. \A q \in Scanned : Fn(q).desc = Fn(p).desc => q = p \/ Sooner(p, q)
  BY ScanOrder DEF IsNearest
<1>2. p \in JavaMethods
  BY <1>1 DEF JavaMethods, IsNearest
<1>3. ASSUME NEW m \in JavaMethods, Fn(m).desc = Fn(p).desc PROVE m = p
  <2>1. m \in Scanned /\ (p = m \/ Sooner(m, p))
    BY <1>3 DEF JavaMethods
  <2>q. QED
    BY <1>3, <2>1 DEF IsNearest
<1>q. QED
  BY <1>2, <1>3

(* ... what its Python name is bound to, ...                               *)
LEMMA NearestBound ==
  ASSUME ShimAssumption, shim \in Shims, Careful, NEW p \in Scanned, IsNearest(p), ~Fn(p).static
  PROVE  Bound(Fn(p).py) = p
<1> DEFINE S == {q \in Scanned : Fn(q).py = Fn(p).py}
<1>1. S \subseteq Scanned /\ p \in S
  OBVIOUS
<1>2. \A q \in S : ~Sooner(q, p)
  BY DEF Careful, IsNearest
<1> HIDE DEF S
<1>3. Foremost(S) = p
  BY <1>1, <1>2, ForemostIs
<1>q. QED
  BY <1>3 DEF Bound, S

(* ... and what an instance answers its Java name with: of the overloads   *)
(* no other has as many parameters.                                        *)
LEMMA NearestAnswers ==
  ASSUME ShimAssumption, shim \in Shims, Careful, NEW p \in Scanned, IsNearest(p), ~Fn(p).static,
         NEW d \in Fn(p).desc
  PROVE  OnInstance(d.name, d.argc) = {p}
<1> DEFINE entries == JavaDispatch(d.name)
           fit == {q \in entries : \E e \in Fn(q).desc : e.argc = d.argc}
<1>1. OnInstance(d.name, d.argc) =
        IF d.name \in shim.fields THEN {}
        ELSE IF \E q \in entries : entries = {q} THEN {Bound(Fn(q).py) : q \in entries}
        ELSE IF fit # {} THEN {Bound(Fn(Foremost(fit)).py)} ELSE {}
  BY DEF OnInstance
<1>2. d.name \notin shim.fields
  BY DEF Careful
<1>3. Bound(Fn(p).py) = p
  BY NearestBound
<1>4. p \in entries /\ p \in fit
  BY NearestRegistered DEF JavaDispatch
<1>5. ASSUME NEW q \in fit PROVE q = p
  <2>1. /\ q \in JavaMethods /\ q \in Scanned /\ ~Fn(q).static
        /\ \E e \in Fn(q).desc : e.name = d.name
        /\ \E e \in Fn(q).desc : e.argc = d.argc
    BY <1>5 DEF JavaDispatch, JavaMethods
  <2>2. /\ \A e, c \in Fn(q).desc : e = c
        /\ \A e, c \in Fn(p).desc : e = c
    <3>1. ASSUME NEW r \in Scanned, NEW e \in Fn(r).desc, NEW c \in Fn(r).desc PROVE e = c
      <4>1. PICK k \in DOMAIN shim.mro : r \in {k} \X DOMAIN shim.mro[k]
        BY DEF Scanned
      <4>2. r[1] = k /\ r[2] \in DOMAIN shim.mro[k]
        BY <4>1
      <4>3. \A i \in DOMAIN shim.mro[k] : \A x, y \in shim.mro[k][i].desc : x = y
        BY DEF ShimAssumption
      <4>q. QED
        BY <3>1, <4>2, <4>3 DEF Fn
    <3>q. QED
      BY <2>1, <3>1
  <2>3. PICK e \in Fn(q).desc : e.name = d.name /\ e.argc = d.argc
    BY <2>1, <2>2
  <2>4. e = d
    BY <2>1, <2>3 DEF Careful
  <2>5. Fn(q).desc = Fn(p).desc
    <3>1. d \in Fn(q).desc /\ d \in Fn(p).desc
      BY <2>3, <2>4
    <3>2. Fn(q).desc = {d} /\ Fn(p).desc = {d}
      BY <2>2, <3>1
    <3>q. QED
      BY <3>2
  <2>q. QED
    BY <2>1, <2>5, NearestRegistered
<1> HIDE DEF entries
<1>6. CASE \E q \in entries : entries = {q}
  <2>1. entries = {p}
    BY <1>4, <1>6
  <2>q. QED
    BY <1>1, <1>2, <1>3, <1>6, <2>1
<1>7. CASE ~ \E q \in entries : entries = {q}
  <2>1. fit = {p} /\ fit \subseteq Scanned /\ p \in fit
    BY <1>4, <1>5
  <2>2. \A q \in fit : ~Sooner(q, p)
    BY <2>1, ScanOrder
  <2> HIDE DEF fit
  <2>3. Foremost(fit) = p
    BY <2>1, <2>2, ForemostIs
  <2>4. fit # {}
    BY <2>1
  <2>q. QED
    BY <1>1, <1>2, <1>3, <1>7, <2>3, <2>4
<1>q. QED
  BY <1>6, <1>7

(* Every call of a Java method reaches the nearest function declared for   *)
(* its descriptor, in every shim class that is careful, of any number of   *)
(* layers and functions; the host's call of one nobody overrides goes to   *)
(* the framework in any class.                                             *)
THEOREM OneFunctionEach == ShimSpec => []OneFunction
<1> USE ShimAssumption
<1>1. ShimInit => shim \in Shims
  BY DEF ShimInit
<1>2. shim \in Shims /\ [UNCHANGED shim]_shim => (shim \in Shims)'
  OBVIOUS
<1>3. shim \in Shims => OneFunction
  <2> SUFFICES ASSUME shim \in Shims PROVE OneFunction
    OBVIOUS
  <2>1. ASSUME Careful, NEW p \in Scanned, IsNearest(p)
        PROVE  /\ \E m \in JavaMethods : Fn(m).desc = Fn(p).desc
               /\ \A m \in JavaMethods : Fn(m).desc = Fn(p).desc =>
                    \A onInstance \in BOOLEAN : GuestCall(m, onInstance) = {p}
               /\ ~Fn(p).static => \A d \in Fn(p).desc : HostCall(d.name, d.argc) = {p}
    <3>1. p \in JavaMethods /\ \A m \in JavaMethods : Fn(m).desc = Fn(p).desc => m = p
      BY <2>1, NearestRegistered
    <3>2. ~Fn(p).static => \A d \in Fn(p).desc : OnInstance(d.name, d.argc) = {p}
      BY <2>1, NearestAnswers
    <3>3. Fn(p).desc # {}
      BY <2>1 DEF IsNearest
    <3>4. ~Fn(p).static => UNION {OnInstance(d.name, d.argc) : d \in Fn(p).desc} = {p}
      BY <3>2, <3>3
    <3>5. \A onInstance \in BOOLEAN : GuestCall(p, onInstance) = {p}
      BY <3>4 DEF GuestCall
    <3>6. ~Fn(p).static => \A d \in Fn(p).desc : HostCall(d.name, d.argc) = {p}
      <4>1. ~Fn(p).static => \A d \in Fn(p).desc : <<d.name, d.argc>> \in ShimKeys
        BY <3>1 DEF ShimKeys
      <4>q. QED
        BY <3>2, <4>1 DEF HostCall
    <3>q. QED
      BY <3>1, <3>5, <3>6
  <2>2. ASSUME NEW call \in HostCalls,
               \A p \in Scanned : ~Fn(p).static => \A d \in Fn(p).desc : <<d.name, d.argc>> # call
        PROVE  HostCall(call[1], call[2]) = {NoOverride}
    <3>1. <<call[1], call[2]>> \notin ShimKeys
      <4>1. ASSUME NEW p \in JavaMethods, ~Fn(p).static, NEW d \in Fn(p).desc
            PROVE  <<d.name, d.argc>> # <<call[1], call[2]>>
        <5>1. p \in Scanned /\ <<d.name, d.argc>> # call
          BY <2>2, <4>1 DEF JavaMethods
        <5>2. call = <<call[1], call[2]>>
          BY DEF ShimAssumption
        <5>q. QED
          BY <5>1, <5>2
      <4>q. QED
        BY <4>1 DEF ShimKeys
    <3>q. QED
      BY <3>1 DEF HostCall
  <2>q. QED
    BY <2>1, <2>2 DEF OneFunction
<1>q. QED
  BY <1>1, <1>2, <1>3, PTL DEF ShimSpec
=============================================================================
