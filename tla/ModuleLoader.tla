--------------------------- MODULE ModuleLoader ----------------------------
(***************************************************************************)
(* GuestRuntime::load_and_link of case-runner/src/runtime.rs: loading a    *)
(* module and, depth first, the modules its DT_NEEDED names, linking the   *)
(* graph below each of them (DefaultLinker::link_root) and calling         *)
(* JNI_OnLoad.  The recursion is a stack of frames, one per load_and_link  *)
(* in progress; an error anywhere unwinds them all and leaves the graph as *)
(* it is.                                                                  *)
(*                                                                         *)
(* Mapping and relocating an image is GuestMemory's business: here a load  *)
(* or the relocation of a module succeeds or fails.  Module ids are dense: *)
(* the allocator skips the id of a failed load, only the order matters.    *)
(***************************************************************************)
EXTENDS ModuleGraph

CONSTANTS
  Files,      (* the images the dependency provider has, by file name       *)
  Needed,     (* file -> its DT_NEEDED, a sequence of names                 *)
  Soname,     (* file -> its DT_SONAME, or NoName                           *)
  NoName,
  Exporting,  (* the files that export JNI_OnLoad                           *)
  Defines,    (* file -> the symbols its dynsym exports                     *)
  Uses,       (* file -> the symbols its relocations name                   *)
  MaxLoads,   (* bound: calls of load_and_link from outside                 *)
  MaxModules, (* bound: no load is tried when so many modules are there     *)
  Faults      (* what may fail: a subset of {"load", "link", "onload"}      *)

(* The names some DT_NEEDED asks for.                                      *)
Names == UNION {Range(Needed[f]) : f \in Files}

ASSUME LoaderAssumption ==
  /\ IsFiniteSet(Files) /\ Needed \in [Files -> Seq(Names)]
  /\ DOMAIN Soname = Files /\ Exporting \subseteq Files
  /\ DOMAIN Defines = Files /\ DOMAIN Uses = Files
  /\ MaxLoads \in Nat /\ MaxModules \in Nat
  /\ Faults \subseteq {"load", "link", "onload"}

VARIABLES
  file,      (* ModuleGraph::modules: module -> its file                    *)
  deps,      (* ModuleGraph::deps: module -> declared dependencies          *)
  bySoname,  (* ModuleGraph::by_soname, a partial function                  *)
  stack,     (* the frames, outermost first: [id, todo, calls, phase]       *)
  linked,    (* modules whose relocations have been written                 *)
  bound,     (* module -> symbol -> the modules whose address was written   *)
  ran,       (* modules whose JNI_OnLoad has been entered                   *)
  javaVm,    (* java_vm_pointer is set                                      *)
  report,    (* last_link's init_order                                      *)
  last,      (* [file, status, at]: the last finished load                  *)
  loads,     (* calls so far                                                *)
  clean      (* history: no load has failed                                 *)

graph == <<file, deps, bySoname>>
vars == <<graph, stack, linked, bound, ran, javaVm, report, last, loads, clean>>

Modules == DOMAIN file

Top == stack[Len(stack)]

SetTop(frame) == stack' = [stack EXCEPT ![Len(stack)] = frame]

Bind(f, x, v) == [y \in DOMAIN f \cup {x} |-> IF y = x THEN v ELSE f[y]]

Frame(id, f) == [id |-> id, file |-> f, todo |-> Needed[f], calls |-> {}, phase |-> "deps"]

(* `?` in a frame is `?` in every frame below it.                          *)
Fail(status, at) ==
  /\ stack' = <<>> /\ clean' = FALSE
  /\ last' = [file |-> Head(stack).file, status |-> status, at |-> at]

Init ==
  /\ file = <<>> /\ deps = <<>> /\ bySoname = [n \in {} |-> n]
  /\ stack = <<>> /\ linked = {} /\ bound = <<>> /\ ran = {} /\ javaVm = FALSE
  /\ report = <<>> /\ loads = 0 /\ clean = TRUE
  /\ last = [file |-> NoName, status |-> "none", at |-> 0]

(* init_jni, before the first load or between two.                         *)
InitJni ==
  /\ stack = <<>> /\ ~javaVm /\ javaVm' = TRUE
  /\ UNCHANGED <<graph, stack, linked, bound, ran, report, last, loads, clean>>
-----------------------------------------------------------------------------
(***************************************************************************)
(* load_one: a file whose soname is in the graph stands for the module     *)
(* already loaded; any other is loaded and entered under its soname, if it *)
(* has one.  Then the frame walks the DT_NEEDED of the file it was given,  *)
(* again if the module is not new.                                         *)
(***************************************************************************)
(* load_one that compares no soname (mutant).                              *)
NeverKnown(f) == FALSE

Known(f) == Soname[f] \in DOMAIN bySoname

(* insert that forgets the soname (mutant).                                *)
Unregistered(f, id) == bySoname

Registered(f, id) == IF Soname[f] = NoName THEN bySoname ELSE Bind(bySoname, Soname[f], id)

LoadNew(f) ==
  LET id == Len(file) + 1
  IN  /\ id <= MaxModules
      /\ file' = Append(file, f) /\ deps' = Append(deps, <<>>)
      /\ bySoname' = Registered(f, id)
      /\ bound' = Append(bound, [s \in Uses[f] |-> {}])
      /\ stack' = Append(stack, Frame(id, f))
      /\ UNCHANGED <<last, clean>>

Enter(f) ==
  \/ /\ Known(f)
     /\ stack' = Append(stack, Frame(bySoname[Soname[f]], f))
     /\ UNCHANGED <<graph, bound, last, clean>>
  \/ ~Known(f) /\ LoadNew(f)

LoadAndLink(f) ==
  /\ stack = <<>> /\ loads < MaxLoads /\ loads' = loads + 1
  /\ \/ Enter(f)
     \/ /\ "load" \in Faults /\ ~Known(f) /\ Len(file) < MaxModules
        /\ last' = [file |-> f, status |-> "load", at |-> 0] /\ clean' = FALSE
        /\ UNCHANGED <<graph, bound, stack>>
  /\ UNCHANGED <<linked, ran, javaVm, report>>

(***************************************************************************)
(* The loop over DT_NEEDED: a name in the graph becomes an edge, one the   *)
(* provider has is loaded first, a missing one is skipped.                 *)
(***************************************************************************)
AddDep(from, on) == deps' = [deps EXCEPT ![from] = Append(@, on)]

Walking == stack # <<>> /\ Top.phase = "deps"

DepLoaded ==
  /\ Walking /\ Top.todo # <<>> /\ Head(Top.todo) \in DOMAIN bySoname
  /\ AddDep(Top.id, bySoname[Head(Top.todo)])
  /\ SetTop([Top EXCEPT !.todo = Tail(@)])
  /\ UNCHANGED <<file, bySoname, linked, bound, ran, javaVm, report, last, loads, clean>>

DepMissing ==
  /\ Walking /\ Top.todo # <<>> /\ Head(Top.todo) \notin DOMAIN bySoname \cup Files
  /\ SetTop([Top EXCEPT !.todo = Tail(@)])
  /\ UNCHANGED <<graph, linked, bound, ran, javaVm, report, last, loads, clean>>

DepProvided ==
  /\ Walking /\ Top.todo # <<>> /\ Head(Top.todo) \in Files \ DOMAIN bySoname
  /\ \/ Enter(Head(Top.todo))
     \/ /\ "load" \in Faults /\ ~Known(Head(Top.todo)) /\ Len(file) < MaxModules
        /\ Fail("load", 0) /\ UNCHANGED <<graph, bound>>
  /\ UNCHANGED <<linked, ran, javaVm, report, loads>>

(***************************************************************************)
(* link_root on the graph below the frame's module, then detect_jni_onload *)
(* on all modules of the graph, in the order a HashMap happens to have.    *)
(***************************************************************************)
(* JNI_OnLoad of the module that was loaded only (mutant).                 *)
CallsOfTop == {Top.id} \cap {m \in Modules : file[m] \in Exporting}

Calls == {m \in Modules : file[m] \in Exporting}

(***************************************************************************)
(* link_one_module: every relocation with a symbol asks for it from its    *)
(* own module's place in the graph; one nobody exports is noted and left   *)
(* as it is.  A relocation that fails leaves some of its module written.   *)
(***************************************************************************)
Exporters(s) == {m \in Modules : s \in Defines[file[m]]}

Relocated(m, symbols) ==
  [s \in DOMAIN bound[m] |->
     LET found == IF s \in symbols THEN Resolve(deps, m, Exporters(s)) ELSE {}
     IN  IF found = {} THEN bound[m][s] ELSE found]

WithRelocated(done) == [m \in Modules |-> IF m \in done THEN Relocated(m, Uses[file[m]]) ELSE bound[m]]

Link ==
  /\ Walking /\ Top.todo = <<>>
  /\ \E order \in {Schedule(deps, Top.id)} :
         IF ~Complete(deps, Top.id, order)
           THEN Fail("cycle", Top.id) /\ UNCHANGED <<linked, bound, report>>
           ELSE \/ /\ linked' = linked \cup Range(order) /\ report' = order
                   /\ bound' = WithRelocated(Range(order))
                   /\ SetTop([Top EXCEPT !.phase = "onload", !.calls = Calls])
                   /\ UNCHANGED <<last, clean>>
                \/ /\ "link" \in Faults
                   /\ \E k \in DOMAIN order : \E part \in SUBSET Uses[file[order[k]]] :
                        LET before == {order[i] : i \in 1..(k - 1)}
                        IN  /\ linked' = linked \cup before
                            /\ bound' = [WithRelocated(before) EXCEPT
                                           ![order[k]] = Relocated(order[k], part)]
                            /\ Fail("link", order[k])
                   /\ UNCHANGED report
  /\ UNCHANGED <<graph, ran, javaVm, loads>>

Calling == stack # <<>> /\ Top.phase = "onload" /\ Top.calls # {}

NoJavaVm ==
  /\ Calling /\ ~javaVm /\ \E m \in Top.calls : Fail("onload", m)
  /\ UNCHANGED <<graph, linked, bound, ran, javaVm, report, loads>>

OnLoad ==
  /\ Calling /\ javaVm
  /\ \E m \in Top.calls :
       /\ ran' = ran \cup {m}
       /\ \/ SetTop([Top EXCEPT !.calls = @ \ {m}]) /\ UNCHANGED <<last, clean>>
          \/ "onload" \in Faults /\ Fail("onload", m)
  /\ UNCHANGED <<graph, linked, bound, javaVm, report, loads>>

(* The frame returns its module and the caller declares the dependency.    *)
Done == stack # <<>> /\ Top.phase = "onload" /\ Top.calls = {}

Return ==
  /\ Done
  /\ IF Len(stack) = 1
       THEN /\ last' = [file |-> Top.file, status |-> "ok", at |-> Top.id]
            /\ stack' = <<>> /\ UNCHANGED deps
       ELSE LET caller == stack[Len(stack) - 1]
            IN  /\ AddDep(caller.id, Top.id)
                /\ stack' = [Front(stack) EXCEPT ![Len(stack) - 1].todo = Tail(@)]
                /\ UNCHANGED last
  /\ UNCHANGED <<file, bySoname, linked, bound, ran, javaVm, report, loads, clean>>

Advance == DepLoaded \/ DepMissing \/ DepProvided \/ Link \/ NoJavaVm \/ OnLoad \/ Return

Next == InitJni \/ (\E f \in Files : LoadAndLink(f)) \/ Advance

Spec == Init /\ [][Next]_vars

(* A load in progress is a loop and a recursion on one thread: it goes on. *)
FairSpec == Spec /\ WF_vars(Advance)
-----------------------------------------------------------------------------
(* Types; frames belong to loaded modules and every edge joins two of them *)
TypeOK ==
  /\ file \in Seq(Files) /\ Len(deps) = Len(file)
  /\ \A m \in Modules : Range(deps[m]) \subseteq Modules
  /\ \A i \in DOMAIN stack : stack[i].id \in Modules /\ stack[i].calls \subseteq Modules
  /\ linked \subseteq Modules /\ ran \subseteq Modules /\ Range(report) \subseteq Modules
  /\ Len(bound) = Len(file)
  /\ \A m \in Modules : \A s \in DOMAIN bound[m] : bound[m][s] \in {{}} \cup {{x} : x \in Modules}

(***************************************************************************)
(* Two modules of one soname never meet in the graph, and looking a soname *)
(* up gives the module that has it, however loads nest, repeat and fail.   *)
(***************************************************************************)
SonameIdentity ==
  /\ \A m \in Modules : Soname[file[m]] # NoName =>
       Soname[file[m]] \in DOMAIN bySoname /\ bySoname[Soname[file[m]]] = m
  /\ \A n \in DOMAIN bySoname : Soname[file[bySoname[n]]] = n

(***************************************************************************)
(* As long as no load has failed, a load that returns leaves every file    *)
(* its DT_NEEDED lead to, as far as it is provided, loaded, reachable from *)
(* the root in the graph and relocated.                                    *)
(***************************************************************************)
ProvidedDeps == [f \in Files |-> Range(Needed[f]) \cap Files]

ClosureOf(f) == Closure(ProvidedDeps, f, Cardinality(Files))

ClosureLoaded ==
  last.status = "ok" /\ clean /\ stack = <<>> =>
    LET below == Reachable(deps, last.at)
    IN  below \subseteq linked /\ {file[m] : m \in below} = ClosureOf(last.file)

(***************************************************************************)
(* The init order of every successful link puts a module after all it      *)
(* depends on at that moment.                                              *)
(***************************************************************************)
InitOrder == [][report' # report => DependenciesFirst(deps', report')]_vars

(***************************************************************************)
(* When a load returns, each module of the graph that exports JNI_OnLoad   *)
(* has run it, those an earlier, failed load left behind included.         *)
(***************************************************************************)
AllRan ==
  last.status = "ok" /\ stack = <<>> =>
    \A m \in Modules : file[m] \in Exporting => m \in ran

(***************************************************************************)
(* A load whose files all have the soname they are provided under ends,    *)
(* in a cycle of DT_NEEDED too.                                            *)
(***************************************************************************)
LoadTerminates == stack # <<>> ~> stack = <<>>

(***************************************************************************)
(* What the DT_NEEDED of the files promise a reference: the file itself,   *)
(* or the exporter at the smallest distance, the leftmost among several.   *)
(* `at` has the leftmost at each distance, as a set; one step further is   *)
(* the one of the first name that has any.                                 *)
(***************************************************************************)
Onward(found) ==
  [f \in Files |->
     LET via == {i \in DOMAIN Needed[f] : Needed[f][i] \in Files /\ found[Needed[f][i]] # {}}
     IN  IF via = {} THEN {} ELSE found[Needed[f][Min(via)]]]

AtDistance(s) ==
  LET at[k \in 0..Cardinality(Files)] ==
        IF k = 0 THEN [f \in Files |-> {f} \cap {g \in Files : s \in Defines[g]}]
        ELSE Onward(at[k - 1])
  IN  at

Nearest(s, f) ==
  LET distances == {k \in 0..Cardinality(Files) : AtDistance(s)[k][f] # {}}
  IN  IF distances = {} THEN {} ELSE AtDistance(s)[Min(distances)][f]

Promised == [f \in Files |-> [s \in Uses[f] |-> Nearest(s, f)]]

(***************************************************************************)
(* As long as no load has failed, the references of every module below a   *)
(* load that returns are bound as the DT_NEEDED of the files promise,      *)
(* whatever nested loads relocated before, and with which part of the      *)
(* graph, and to nothing only if nothing is promised; never to a module    *)
(* that happens to be loaded.                                              *)
(***************************************************************************)
BoundByScope ==
  last.status = "ok" /\ clean /\ stack = <<>> =>
    \A m \in Reachable(deps, last.at) : \A s \in Uses[file[m]] :
      {file[x] : x \in bound[m][s]} = Promised[file[m]][s]

(***************************************************************************)
(* The graph later loads look into, and what a load that returns promises. *)
(***************************************************************************)
GraphSound == TypeOK /\ SonameIdentity

LoadComplete == ClosureLoaded /\ AllRan
=============================================================================
