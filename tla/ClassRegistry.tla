---------------------------- MODULE ClassRegistry ----------------------------
(***************************************************************************)
(* The Java classes guest code can see: JniRegistry (jni/src/registry.rs)  *)
(* and the method tables of JClassDef (class.rs), filled by Python         *)
(* (register_java_class, register_framework_stub) and read by guest code   *)
(* through method ids (jnienv.rs), with NativeRegistry beside it.          *)
(*                                                                         *)
(* Everything is registered through register_or_merge_class.  A class seen *)
(* first takes its id and the ids of its methods from one counter; a       *)
(* definition merged into it numbers a new method after the size of the    *)
(* class's index.  Guest code looks methods up and calls them by bare id.  *)
(*                                                                         *)
(* Left out: fields, whose ids are all 0 and whose calls all fail, and     *)
(* what a handler does.                                                    *)
(***************************************************************************)
EXTENDS Integers, FiniteSets

CONSTANTS
  Classes,   (* class names                                                 *)
  Methods,   (* method names with their descriptors                         *)
  None,      (* no superclass                                               *)
  Defs,      (* definitions that may be registered: [super, inst, stat], a  *)
             (* superclass and the sets of instance and static methods      *)
  MaxCached, (* bound: method ids guest code holds                          *)
  MaxNatives (* bound: ids with a native binding                            *)

(* A definition whose two tables share a signature is not considered.      *)
ASSUME ClassRegistryAssumption ==
  /\ IsFiniteSet(Methods) /\ IsFiniteSet(Classes) /\ None \notin Classes
  /\ \A d \in Defs : /\ d.super \in Classes \cup {None}
                     /\ d.inst \subseteq Methods /\ d.stat \subseteq Methods
                     /\ d.inst \cap d.stat = {}
  /\ MaxCached \in Nat /\ MaxNatives \in Nat

VARIABLES
  super,    (* class -> superclass, for the registered classes              *)
  index,    (* class -> method_index: method -> id                          *)
  inst,     (* class -> methods: method -> id of the JMethodDef             *)
  stat,     (* class -> static_methods: method -> id of the JMethodDef      *)
  nextId,   (* JniRegistry::id_alloc                                        *)
  natives,  (* NativeRegistry: id -> the method it was bound for            *)
  cached,   (* method ids guest code holds: [from, owner, method, id,       *)
            (* static]                                                      *)
  added     (* history: methods a merge gave their id                       *)

vars == <<super, index, inst, stat, nextId, natives, cached, added>>

At(f, x, v) == [y \in DOMAIN f \cup {x} |-> IF y = x THEN v ELSE f[y]]

Over(f, g) == [y \in DOMAIN f \cup DOMAIN g |-> IF y \in DOMAIN g THEN g[y] ELSE f[y]]

Part(f, S) == [y \in S |-> f[y]]

Registered == DOMAIN super

(* The ways to give the methods of M the numbers after n.                  *)
Numberings(M, n) ==
  {ids \in [M -> (n + 1)..(n + Cardinality(M))] :
     \A a, b \in M : ids[a] = ids[b] => a = b}

Init ==
  /\ super = [c \in {} |-> c] /\ index = [c \in {} |-> c]
  /\ inst = [c \in {} |-> c] /\ stat = [c \in {} |-> c]
  /\ nextId = 1 /\ natives = [i \in {} |-> i] /\ cached = {} /\ added = {}
-----------------------------------------------------------------------------
(* Every class numbers its methods from 1, as add_method does (mutant).    *)
RegisterPerClass(c, def) ==
  /\ c \notin Registered
  /\ \E ids \in Numberings(def.inst \cup def.stat, 0) :
       /\ index' = At(index, c, ids)
       /\ inst' = At(inst, c, Part(ids, def.inst))
       /\ stat' = At(stat, c, Part(ids, def.stat))
  /\ super' = At(super, c, def.super)
  /\ nextId' = nextId + 1
  /\ UNCHANGED <<natives, cached, added>>

(***************************************************************************)
(* register_or_merge_class of a class seen first: one id for the class,    *)
(* then reassign_method_ids numbers the methods in the order of a HashMap. *)
(***************************************************************************)
Register(c, def) ==
  /\ c \notin Registered
  /\ \E ids \in Numberings(def.inst \cup def.stat, nextId) :
       /\ index' = At(index, c, ids)
       /\ inst' = At(inst, c, Part(ids, def.inst))
       /\ stat' = At(stat, c, Part(ids, def.stat))
  /\ super' = At(super, c, def.super)
  /\ nextId' = nextId + 1 + Cardinality(def.inst \cup def.stat)
  /\ UNCHANGED <<natives, cached, added>>

(***************************************************************************)
(* register_or_merge_class of a known class: override_method for each      *)
(* instance method and then for each static one.  A signature keeps its    *)
(* id; a new one is numbered after the size of the index.  The other table *)
(* is not looked at, the superclass of the definition is dropped.          *)
(***************************************************************************)
Fresh(c, def) == (def.inst \cup def.stat) \ DOMAIN index[c]

InstanceFirst(ids, def) ==
  \A i \in DOMAIN ids \cap def.inst : \A s \in DOMAIN ids \cap def.stat : ids[i] < ids[s]

(* A merge numbers the whole class anew (mutant).                          *)
MergeRenumbers(c, def) ==
  /\ c \in Registered
  /\ \E ids \in Numberings(DOMAIN index[c] \cup Fresh(c, def), 0) :
       /\ index' = [index EXCEPT ![c] = ids]
       /\ inst' = [inst EXCEPT ![c] = Part(ids, DOMAIN @ \cup def.inst)]
       /\ stat' = [stat EXCEPT ![c] = Part(ids, DOMAIN @ \cup def.stat)]
  /\ added' = added \cup ({c} \X Fresh(c, def))
  /\ UNCHANGED <<super, nextId, natives, cached>>

(* A merge numbers every method it replaces after the index (mutant).      *)
MergeForgetsIndex(c, def) ==
  /\ c \in Registered
  /\ \E ids \in Numberings(def.inst \cup def.stat, Cardinality(DOMAIN index[c])) :
       /\ index' = [index EXCEPT ![c] = Over(ids, @)]
       /\ inst' = [inst EXCEPT ![c] = Over(@, Part(ids, def.inst))]
       /\ stat' = [stat EXCEPT ![c] = Over(@, Part(ids, def.stat))]
  /\ added' = added \cup ({c} \X Fresh(c, def))
  /\ UNCHANGED <<super, nextId, natives, cached>>

Merge(c, def) ==
  /\ c \in Registered
  /\ \E ids \in Numberings(Fresh(c, def), Cardinality(DOMAIN index[c])) :
       LET all == Over(index[c], ids)
       IN  /\ InstanceFirst(ids, def)
           /\ index' = [index EXCEPT ![c] = all]
           /\ inst' = [inst EXCEPT ![c] = Over(@, Part(all, def.inst))]
           /\ stat' = [stat EXCEPT ![c] = Over(@, Part(all, def.stat))]
  /\ added' = added \cup ({c} \X Fresh(c, def))
  /\ UNCHANGED <<super, nextId, natives, cached>>
-----------------------------------------------------------------------------
(***************************************************************************)
(* class_chain.  Superclasses from c up, as far as they are registered;    *)
(* following one step more than there are classes visits all of a cycle.   *)
(***************************************************************************)
Steps == 0..Cardinality(Classes)

Chain(c) ==
  LET up[k \in Steps] ==
        IF k = 0 THEN c
        ELSE IF up[k - 1] \in Registered THEN super[up[k - 1]] ELSE None
  IN  up

(* The first class of the chain of c that is in S, or none.                *)
FirstOf(c, S) ==
  LET up == Chain(c)
      found == {k \in Steps : up[k] \in S}
  IN  {up[k] : k \in {j \in found : \A i \in found : j <= i}}

(* resolve_inherited_method: the name cache holds both kinds of methods.   *)
Owner(c, m) == FirstOf(c, {d \in Registered : m \in DOMAIN index[d]})

(* resolve_method_by_id: the first class of the chain with an instance     *)
(* method of that id, and any of those it has.  A static call looks in the *)
(* class itself only.                                                      *)
WithId(methods, id) == {m \in DOMAIN methods : methods[m] = id}

Called(c, id) ==
  UNION {{d} \X WithId(inst[d], id) :
           d \in FirstOf(c, {e \in Registered : WithId(inst[e], id) # {}})}

StaticCalled(c, id) == {c} \X WithId(stat[c], id)

(* What the call a held id was asked for may reach.                        *)
Reached(k) == IF k.static THEN StaticCalled(k.from, k.id) ELSE Called(k.from, k.id)

GetMethodID(c, m) ==
  /\ c \in Registered
  /\ \E owner \in Owner(c, m) :
       cached' = cached \cup {[from |-> c, owner |-> owner, method |-> m,
                               id |-> index[owner][m], static |-> FALSE]}
  /\ Cardinality(cached') <= MaxCached
  /\ UNCHANGED <<super, index, inst, stat, nextId, natives, added>>

GetStaticMethodID(c, m) ==
  /\ c \in Registered /\ m \in DOMAIN stat[c]
  /\ cached' = cached \cup {[from |-> c, owner |-> c, method |-> m,
                             id |-> stat[c][m], static |-> TRUE]}
  /\ Cardinality(cached') <= MaxCached
  /\ UNCHANGED <<super, index, inst, stat, nextId, natives, added>>

(* register_natives, one entry: methods of the class itself only.          *)
RegisterNative(c, m) ==
  /\ c \in Registered /\ m \in DOMAIN index[c]
  /\ natives' = At(natives, index[c][m], <<c, m>>)
  /\ Cardinality(DOMAIN natives') <= MaxNatives
  /\ UNCHANGED <<super, index, inst, stat, nextId, cached, added>>

Next ==
  \E c \in Classes :
    \/ \E def \in Defs : Register(c, def) \/ Merge(c, def)
    \/ \E m \in Methods : GetMethodID(c, m) \/ GetStaticMethodID(c, m)
                          \/ RegisterNative(c, m)

Spec == Init /\ [][Next]_vars
-----------------------------------------------------------------------------
(* Properties.                                                             *)

Ids(f) == \A m \in DOMAIN f : f[m] \in Nat

(* Every table holds what its code can put there.                          *)
TypeOK ==
  /\ Registered \subseteq Classes /\ nextId \in Nat
  /\ DOMAIN index = Registered /\ DOMAIN inst = Registered /\ DOMAIN stat = Registered
  /\ \A c \in Registered :
       /\ super[c] \in Classes \cup {None}
       /\ DOMAIN index[c] \subseteq Methods
       /\ Ids(index[c]) /\ Ids(inst[c]) /\ Ids(stat[c])
  /\ \A id \in DOMAIN natives : id \in Nat /\ natives[id] \in Classes \X Methods
  /\ cached \subseteq [from : Classes, owner : Classes, method : Methods, id : Nat,
                static : BOOLEAN]
  /\ added \subseteq Classes \X Methods

(* class.rs: GetMethodID answers from method_index and calls are resolved  *)
(* in the tables; the three hold the same methods under the same ids.      *)
TablesAgree ==
  \A c \in Registered :
    /\ DOMAIN index[c] = DOMAIN inst[c] \cup DOMAIN stat[c]
    /\ \A m \in DOMAIN inst[c] : inst[c][m] = index[c][m]
    /\ \A m \in DOMAIN stat[c] : stat[c][m] = index[c][m]

(* class.rs:203-211: two methods share an id only where a merge gave one   *)
(* of them its id.                                                         *)
IdsApart ==
  \A c, d \in Registered :
    \A m \in DOMAIN index[c], n \in DOMAIN index[d] :
      index[c][m] = index[d][n] =>
        <<c, m>> = <<d, n>> \/ <<c, m>> \in added \/ <<d, n>> \in added

(* A jmethodID guest code holds stays good: merges renumber nothing, take  *)
(* no method out of a table and leave the superclasses alone.              *)
MethodIdStable ==
  [][\A c \in Registered :
       /\ c \in DOMAIN super' /\ super'[c] = super[c]
       /\ \A m \in DOMAIN index[c] : m \in DOMAIN index'[c] /\ index'[c][m] = index[c][m]
       /\ DOMAIN inst[c] \subseteq DOMAIN inst'[c]
       /\ DOMAIN stat[c] \subseteq DOMAIN stat'[c]]_vars

(* jnienv.rs dispatch_by_method_id and dispatch_static_by_method_id: an id *)
(* guest code was answered still resolves on the class it asked for,       *)
(* whatever is registered and merged later.  GetMethodID also answers for  *)
(* static methods, which its calls do not find.                            *)
CachedResolves ==
  \A k \in cached : k.static \/ k.method \in DOMAIN inst[k.owner] => Reached(k) # {}

(* ... and reaches the method it was answered for, unless a merge numbered *)
(* one of the two.                                                         *)
CachedReaches ==
  \A k \in cached : \A hit \in Reached(k) :
    hit = <<k.owner, k.method>> \/ hit \in added \/ <<k.owner, k.method>> \in added

(* native_registry.rs: a binding captures the calls of the method it was   *)
(* made for and, but for merged ids, of no other.                          *)
NativesApart ==
  \A id \in DOMAIN natives : \A c \in Registered : \A m \in DOMAIN index[c] :
    index[c][m] = id =>
      natives[id] = <<c, m>> \/ natives[id] \in added \/ <<c, m>> \in added

(* The three tables of a class go together.                                *)
RegistrySound == TypeOK /\ TablesAgree

(* What is kept under a bare id, methods and native bindings, is kept      *)
(* apart.                                                                  *)
NumbersApart == IdsApart /\ NativesApart

(* class.rs:210-211: method ids are unique in the registry, so a call by   *)
(* id reaches the method the id was asked for.                             *)
CallReachesNamed ==
  \A k \in cached : Reached(k) \subseteq {<<k.owner, k.method>>}
=============================================================================
