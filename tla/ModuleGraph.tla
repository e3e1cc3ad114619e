---------------------------- MODULE ModuleGraph ----------------------------
(***************************************************************************)
(* The pure part of elf/linker: what a root module reaches through its     *)
(* dependency lists and the init order init.rs computes.  Modules are      *)
(* numbered in the order they were made; deps[m] is the list of modules m  *)
(* was declared to depend on, with repetitions, as add_dep leaves it.      *)
(***************************************************************************)
EXTENDS Integers, Sequences, FiniteSets, SequencesExt

(* collect_reachable: what `root` leads to along `edges`, a function to    *)
(* sets, in n waves; there are no more than there are modules.             *)
Wave(edges, X) == UNION {{m} \cup edges[m] : m \in X}

Closure(edges, root, n) ==
  LET within[k \in 0..n] == IF k = 0 THEN {root} ELSE Wave(edges, within[k - 1])
  IN  within[n]

Edges(deps) == [m \in DOMAIN deps |-> Range(deps[m])]

Reachable(deps, root) == Closure(Edges(deps), root, Len(deps))

(***************************************************************************)
(* Kahn's algorithm as schedule writes it.  indeg counts the entries of a  *)
(* dependency list, a consumed module takes one off whatever its number of *)
(* occurrences, and the smallest module that reached zero is next.         *)
(***************************************************************************)
(* Every module taken as ready at once (mutant).                           *)
ReadyAtOnce(deps, involved, done) == involved \ done

Ready(deps, involved, done) ==
  {m \in involved \ done : Cardinality(Range(deps[m]) \cap done) = Len(deps[m])}

Kahn(deps, involved) ==
  LET from[order \in Seq(involved)] ==
        LET ready == Ready(deps, involved, Range(order))
        IN  IF ready = {} THEN order ELSE from[Append(order, Min(ready))]
  IN  from[<<>>]

(* schedule answers an order, or an error when some module was left over.  *)
Schedule(deps, root) == Kahn(deps, Reachable(deps, root))

(***************************************************************************)
(* resolve: the requester itself, then its dependencies breadth first, in  *)
(* the order of the lists; a module met again is skipped.  `w` has the     *)
(* modules visited so far, in order, and the queue.                        *)
(***************************************************************************)
(* The queue taken for a stack (mutant).                                   *)
VisitDepthFirst(deps, w) ==
  LET m == Head(w.queue)
  IN  IF m \in Range(w.order)
        THEN [w EXCEPT !.queue = Tail(@)]
        ELSE [order |-> Append(w.order, m), queue |-> deps[m] \o Tail(w.queue)]

Visit(deps, w) ==
  LET m == Head(w.queue)
  IN  IF m \in Range(w.order)
        THEN [w EXCEPT !.queue = Tail(@)]
        ELSE [order |-> Append(w.order, m), queue |-> Tail(w.queue) \o deps[m]]

Search(deps, requester) ==
  LET M == 1..Len(deps)
      from[w \in [order : Seq(M), queue : Seq(M)]] ==
        IF w.queue = <<>> THEN w.order ELSE from[Visit(deps, w)]
  IN  from[[order |-> <<requester>>, queue |-> deps[requester]]]

(* The module among `exporters` that answers, as a set: {} is None.        *)
Resolve(deps, requester, exporters) ==
  LET order == Search(deps, requester)
      hits == {i \in DOMAIN order : order[i] \in exporters}
  IN  IF hits = {} THEN {} ELSE {order[Min(hits)]}

Complete(deps, root, order) == Range(order) = Reachable(deps, root)
-----------------------------------------------------------------------------
(* What an init order is for: dependencies come first.                     *)
DependenciesFirst(deps, order) ==
  \A i \in DOMAIN order : Range(deps[order[i]]) \subseteq {order[j] : j \in 1..(i - 1)}
=============================================================================
