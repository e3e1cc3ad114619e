------------------------- MODULE ModuleLoaderProofs -------------------------
(***************************************************************************)
(* The loader for every set of files, every DT_NEEDED and any number of    *)
(* loads and failures: the module graph is sound, every init order puts    *)
(* dependencies first, and a load that returns has loaded, relocated and   *)
(* entered what it promised, and bound every reference below it to the     *)
(* file its DT_NEEDED lead to first.                                       *)
(*                                                                         *)
(* The model computes with recursive functions, so the module begins with  *)
(* induction: a set of numbers has a least member (a first-order form of   *)
(* the library's theorem on well-founded orders), and with it iterations   *)
(* and tail recursions are shown to exist and to keep what their steps     *)
(* keep.  The last part joins three: what a breadth-first search finds in  *)
(* a graph with distances, the distances the files' names give, and the    *)
(* order in which a frame turns names into edges.                          *)
(***************************************************************************)
EXTENDS ModuleLoader, FiniteSetTheorems, SequenceTheorems, TLAPS

-----------------------------------------------------------------------------
(* Induction and recursion.                                                *)

Below == OpToRel(<, Nat)

(* What it is to be below.                                                 *)
LEMMA BelowMeans == \A x, y \in Nat : <<x, y>> \in Below <=> x < y
BY SMT DEF Below, OpToRel

(* A set of numbers that is not empty has a least one.                     *)
LEMMA LeastNumber ==
  ASSUME NEW T, T \subseteq Nat, T # {}
  PROVE  \E x \in T : \A y \in T : x <= y
<1>1. IsWellFoundedOn(Below, Nat)
  BY NatLessThanWellFounded DEF Below
<1>2. PICK x \in T : \A y \in T : <<y, x>> \notin Below
  BY <1>1, WFMin
<1>3. ASSUME NEW y \in T PROVE x <= y
  <2>1. x \in Nat /\ y \in Nat
    OBVIOUS
  <2>2. ~ y < x
    BY <2>1, <1>2, BelowMeans
  <2>q. QED
    BY <2>1, <2>2
<1>q. QED
  BY <1>3

(* Min finds it.                                                           *)
LEMMA MinIsLeast ==
  ASSUME NEW T, T \subseteq Nat, T # {}
  PROVE  Min(T) \in T /\ \A y \in T : Min(T) <= y
BY LeastNumber DEF Min

(* A set that has 0 and with a number the next has them all.               *)
LEMMA Induction ==
  ASSUME NEW S, S \subseteq Nat, 0 \in S, \A n \in S : n + 1 \in S
  PROVE  S = Nat
<1>1. SUFFICES ASSUME Nat \ S # {} PROVE FALSE
  OBVIOUS
<1>2. PICK x \in Nat \ S : \A y \in Nat \ S : x <= y
  BY <1>1, LeastNumber
<1>3. x - 1 \in S /\ (x - 1) + 1 = x
  BY <1>2
<1>q. QED
  BY <1>2, <1>3

Iterates(f, n, step, x) ==
  f[0] = x /\ \A k \in 0..n : k > 0 => f[k] = step[f[k - 1]]

(* A step can be iterated.                                                 *)
LEMMA Iteration ==
  ASSUME NEW D, NEW step \in [D -> D], NEW x \in D, NEW n \in Nat
  PROVE  \E f \in [0..n -> D] : Iterates(f, n, step, x)
<1> DEFINE S == {m \in Nat : \E f \in [0..m -> D] : Iterates(f, m, step, x)}
<1>1. 0 \in S
  <2>1. [k \in 0..0 |-> x] \in [0..0 -> D] /\ Iterates([k \in 0..0 |-> x], 0, step, x)
    BY DEF Iterates
  <2>q. QED
    BY <2>1
<1>2. ASSUME NEW m \in S PROVE m + 1 \in S
  <2>1. PICK f \in [0..m -> D] : Iterates(f, m, step, x)
    OBVIOUS
  <2> DEFINE g == [k \in 0..m + 1 |-> IF k = m + 1 THEN step[f[m]] ELSE f[k]]
  <2>2. g \in [0..m + 1 -> D]
    OBVIOUS
  <2>3. Iterates(g, m + 1, step, x)
    BY <2>1 DEF Iterates
  <2>q. QED
    BY <2>2, <2>3
<1>3. S = Nat
  BY <1>1, <1>2, Induction
<1>q. QED
  BY <1>3

(* What holds at first and is kept by a step holds all along.              *)
LEMMA AlongIteration ==
  ASSUME NEW n \in Nat, NEW f, NEW P,
         f[0] \in P, \A k \in 0..n : k > 0 /\ f[k - 1] \in P => f[k] \in P
  PROVE  \A k \in 0..n : f[k] \in P
<1> DEFINE S == {k \in Nat : k <= n => f[k] \in P}
<1>1. 0 \in S
  OBVIOUS
<1>2. ASSUME NEW k \in S PROVE k + 1 \in S
  <2>1. k + 1 \in Nat /\ (k + 1) - 1 = k
    OBVIOUS
  <2>q. QED
    BY <2>1
<1>3. S = Nat
  BY <1>1, <1>2, Induction
<1>q. QED
  BY <1>3

(* A recursion that calls itself once, last, with something smaller.       *)
TailRecursive(f, D, done, out, next) ==
  f = [x \in D |-> IF x \in done THEN out[x] ELSE f[next[x]]]

Shrinks(D, done, next, size) ==
  /\ done \subseteq D /\ next \in [D \ done -> D] /\ size \in [D -> Nat]
  /\ \A x \in D \ done : size[next[x]] < size[x]

RecursiveOn(f, A, done, out, next) ==
  \A x \in A : f[x] = IF x \in done THEN out[x] ELSE f[next[x]]

(* Two such functions agree wherever both are defined.                     *)
LEMMA TailRecursionAgrees ==
  ASSUME NEW D, NEW done, NEW out, NEW next, NEW size, Shrinks(D, done, next, size),
         NEW A \in SUBSET D, \A x \in A \ done : next[x] \in A,
         NEW g, RecursiveOn(g, A, done, out, next),
         NEW h, RecursiveOn(h, A, done, out, next)
  PROVE  \A x \in A : g[x] = h[x]
<1> DEFINE Bad == {x \in A : g[x] # h[x]}
           Sizes == {size[x] : x \in Bad}
<1>1. SUFFICES ASSUME Bad # {} PROVE FALSE
  OBVIOUS
<1>2. Sizes \subseteq Nat /\ Sizes # {}
  BY <1>1 DEF Shrinks
<1>3. PICK s \in Sizes : \A r \in Sizes : s <= r
  BY <1>2, LeastNumber
<1>4. PICK x \in Bad : size[x] = s
  OBVIOUS
<1>5. x \in A \ done
  BY <1>4 DEF RecursiveOn
<1>6. next[x] \in Bad
  BY <1>4, <1>5 DEF RecursiveOn
<1>7. size[next[x]] \in Sizes /\ size[next[x]] < size[x]
  BY <1>6, <1>5 DEF Shrinks
<1>8. size[next[x]] \in Nat /\ size[x] \in Nat
  BY <1>5, <1>6 DEF Shrinks
<1>9. s <= size[next[x]]
  BY <1>3, <1>7
<1>q. QED
  BY <1>4, <1>7, <1>8, <1>9

(* There is one.                                                           *)
LEMMA TailRecursionExists ==
  ASSUME NEW D, NEW done, NEW E, NEW out \in [done -> E], NEW next, NEW size,
         Shrinks(D, done, next, size)
  PROVE  \E f \in [D -> E] : TailRecursive(f, D, done, out, next)
<1> DEFINE L(n) == {x \in D : size[x] < n}
           Good(g, n) == /\ g \in [L(n) -> E]
                         /\ RecursiveOn(g, L(n), done, out, next)
           S == {n \in Nat : \E g : Good(g, n)}
<1>0. \A x \in D : size[x] \in Nat
  BY DEF Shrinks
<1>1. 0 \in S
  <2>1. L(0) = {}
    BY <1>0
  <2>2. Good([x \in {} |-> x], 0)
    BY <2>1 DEF RecursiveOn
  <2>q. QED
    BY <2>2
<1>2. ASSUME NEW n \in S PROVE n + 1 \in S
  <2>1. PICK g : Good(g, n)
    OBVIOUS
  <2> DEFINE h == [x \in L(n + 1) |-> IF x \in L(n) THEN g[x]
                                      ELSE IF x \in done THEN out[x] ELSE g[next[x]]]
  <2>2. \A x \in L(n + 1) \ done : next[x] \in L(n)
    BY <1>0 DEF Shrinks
  <2>3. L(n) \subseteq L(n + 1)
    BY <1>0
  <2>4. h \in [L(n + 1) -> E]
    BY <2>1, <2>2
  <2>5. RecursiveOn(h, L(n + 1), done, out, next)
    BY <2>1, <2>2, <2>3 DEF RecursiveOn
  <2> HIDE DEF h
  <2>6. Good(h, n + 1)
    BY <2>4, <2>5
  <2> HIDE DEF Good
  <2>q. QED
    BY <2>6
<1>3. S = Nat
  BY <1>1, <1>2, Induction
<1> DEFINE G(n) == CHOOSE g : Good(g, n)
           f == [x \in D |-> G(size[x] + 1)[x]]
<1>4. \A n \in Nat : Good(G(n), n)
  <2>1. \A n \in Nat : \E g : Good(g, n)
    BY <1>3
  <2> HIDE DEF Good
  <2>q. QED
    BY <2>1
<1> HIDE DEF G
<1>5. ASSUME NEW m \in Nat, NEW n \in Nat, m <= n
      PROVE  \A x \in L(m) : G(m)[x] = G(n)[x]
  <2>1. L(m) \in SUBSET D /\ L(m) \subseteq L(n)
    BY <1>5, <1>0
  <2>2. \A x \in L(m) \ done : next[x] \in L(m)
    BY <1>0 DEF Shrinks
  <2>3. RecursiveOn(G(m), L(m), done, out, next)
    BY <1>4
  <2>4. RecursiveOn(G(n), L(m), done, out, next)
    BY <1>4, <2>1 DEF RecursiveOn
  <2> HIDE DEF L
  <2>q. QED
    BY <2>1, <2>2, <2>3, <2>4, TailRecursionAgrees
<1>6. \A x \in D : x \in L(size[x] + 1) /\ size[x] + 1 \in Nat
  BY <1>0
<1>7. f \in [D -> E]
  BY <1>4, <1>6
<1>8. ASSUME NEW x \in D \ done PROVE f[x] = f[next[x]]
  <2>1. next[x] \in D /\ size[next[x]] + 1 <= size[x] + 1 /\ size[next[x]] + 1 \in Nat
    BY <1>0 DEF Shrinks
  <2>2. G(size[x] + 1)[x] = G(size[x] + 1)[next[x]]
    BY <1>4, <1>6 DEF RecursiveOn
  <2>3. G(size[next[x]] + 1)[next[x]] = G(size[x] + 1)[next[x]]
    BY <2>1, <1>5, <1>6
  <2>q. QED
    BY <2>1, <2>2, <2>3
<1>9. ASSUME NEW x \in D, x \in done PROVE f[x] = out[x]
  BY <1>4, <1>6, <1>9 DEF RecursiveOn
<1>10. f = [x \in D |-> IF x \in done THEN out[x] ELSE f[next[x]]]
  BY <1>7, <1>8, <1>9
<1>q. QED
  BY <1>7, <1>10 DEF TailRecursive

Carries(P, Q, done, out, next) ==
  /\ \A x \in P \ done : next[x] \in P
  /\ \A x \in P \cap done : out[x] \in Q

(* What its steps keep, and what that makes of the end, holds of its value.*)
LEMMA AlongTailRecursion ==
  ASSUME NEW D, NEW done, NEW out, NEW next, NEW size, Shrinks(D, done, next, size),
         NEW f, TailRecursive(f, D, done, out, next),
         NEW P \in SUBSET D, NEW Q, Carries(P, Q, done, out, next)
  PROVE  \A x \in P : f[x] \in Q
<1> DEFINE Bad == {x \in P : f[x] \notin Q}
           Sizes == {size[x] : x \in Bad}
<1>1. SUFFICES ASSUME Bad # {} PROVE FALSE
  OBVIOUS
<1>2. Sizes \subseteq Nat /\ Sizes # {}
  BY <1>1 DEF Shrinks
<1>3. PICK s \in Sizes : \A r \in Sizes : s <= r
  BY <1>2, LeastNumber
<1>4. PICK x \in Bad : size[x] = s
  OBVIOUS
<1>5. x \in P \ done /\ f[x] = f[next[x]]
  BY <1>4 DEF TailRecursive, Carries
<1>6. next[x] \in Bad
  BY <1>4, <1>5 DEF Carries
<1>7. size[next[x]] \in Sizes /\ size[next[x]] < size[x]
  BY <1>6, <1>5 DEF Shrinks
<1>8. size[next[x]] \in Nat /\ size[x] \in Nat
  BY <1>5, <1>6 DEF Shrinks
<1>9. s <= size[next[x]]
  BY <1>3, <1>7
<1>q. QED
  BY <1>4, <1>7, <1>8, <1>9
-----------------------------------------------------------------------------
(* What a module reaches.                                                  *)

(* One wave of a search: a set and what its members have edges to.         *)
Waves(f, n, edges, root) ==
  f = [k \in 0..n |-> IF k = 0 THEN {root} ELSE Wave(edges, f[k - 1])]

ClosedUnder(edges, C) == \A m \in C : edges[m] \subseteq C

(* A wave after the first comes from the one before.                       *)
LEMMA NextWave ==
  ASSUME NEW edges, NEW root, NEW n, NEW f, Waves(f, n, edges, root), NEW k \in 0..n, k # 0
  PROVE  f[k] = Wave(edges, f[k - 1])
BY Zenon DEF Waves

(* There are as many waves as one likes.                                   *)
LEMMA WavesExist ==
  ASSUME NEW M, NEW edges \in [M -> SUBSET M], NEW root \in M, NEW n \in Nat
  PROVE  \E f \in [0..n -> SUBSET M] : Waves(f, n, edges, root)
<1> DEFINE D == SUBSET M
           step == [X \in D |-> Wave(edges, X)]
           x == {root}
<1>1. \A X \in D : Wave(edges, X) \in D
  BY DEF Wave
<1>2. step \in [D -> D] /\ x \in D
  BY <1>1
<1>3. \A X \in D : step[X] = Wave(edges, X)
  OBVIOUS
<1> HIDE DEF step, D, x
<1>4. PICK f \in [0..n -> D] : Iterates(f, n, step, x)
  BY <1>2, Iteration
<1>5. \A k \in 0..n : k > 0 => f[k] = Wave(edges, f[k - 1])
  BY <1>3, <1>4 DEF Iterates
<1>6. Waves(f, n, edges, root)
  BY <1>4, <1>5 DEF Waves, x, Iterates
<1>q. QED
  BY <1>6 DEF D

(* No wave leaves a closed set.                                            *)
LEMMA WavesStayWithin ==
  ASSUME NEW edges, NEW root, NEW n \in Nat, NEW f, Waves(f, n, edges, root),
         NEW C, root \in C, ClosedUnder(edges, C)
  PROVE  \A k \in 0..n : f[k] \subseteq C
<1>1. f[0] \in SUBSET C
  BY DEF Waves
<1>2. ASSUME NEW k \in 0..n, k > 0, f[k - 1] \in SUBSET C PROVE f[k] \in SUBSET C
  <2>1. f[k] = Wave(edges, f[k - 1])
    <3>1. k # 0
      BY <1>2
    <3>q. QED
      BY <3>1, NextWave
  <2>q. QED
    BY <2>1, <1>2 DEF ClosedUnder, Wave
<1>3. \A k \in 0..n : f[k] \in SUBSET C
  BY <1>1, <1>2, AlongIteration
<1>q. QED
  BY <1>3

(* With as many waves as there are nodes the last is the least closed set  *)
(* the root is in: each wave before brings a node or is the last already.  *)
LEMMA WavesReachAll ==
  ASSUME NEW M, IsFiniteSet(M), NEW edges \in [M -> SUBSET M], NEW root \in M,
         NEW n \in Nat, Cardinality(M) <= n, NEW f, Waves(f, n, edges, root)
  PROVE  f[n] \subseteq M /\ root \in f[n] /\ ClosedUnder(edges, f[n])
<1> DEFINE Still(k) == ClosedUnder(edges, f[k])
           S == {k \in Nat : k <= n => /\ root \in f[k]
                                       /\ Still(k) \/ Cardinality(f[k]) > k}
<1>1. \A k \in 0..n : f[k] \subseteq M /\ IsFiniteSet(f[k]) /\ Cardinality(f[k]) \in Nat
  <2>1. ClosedUnder(edges, M)
    BY DEF ClosedUnder
  <2>2. \A k \in 0..n : f[k] \subseteq M
    BY <2>1, WavesStayWithin
  <2>q. QED
    BY <2>2, FS_Subset, FS_CardinalityType
<1>2. 0 \in S
  <2>1. f[0] = {root}
    BY DEF Waves
  <2>2. Cardinality(f[0]) = 1
    BY <2>1, FS_Singleton
  <2>q. QED
    BY <2>1, <2>2
<1>3. ASSUME NEW k \in S PROVE k + 1 \in S
  <2>1. SUFFICES ASSUME k + 1 <= n
                 PROVE  root \in f[k + 1] /\ (Still(k + 1) \/ Cardinality(f[k + 1]) > k + 1)
    OBVIOUS
  <2>2. k \in 0..n /\ k + 1 \in 0..n /\ k + 1 > 0 /\ (k + 1) - 1 = k
    BY <2>1
  <2>3. f[k + 1] = Wave(edges, f[k])
    <3>1. k + 1 # 0
      BY <2>2
    <3>2. f[k + 1] = Wave(edges, f[(k + 1) - 1])
      BY <3>1, <2>2, NextWave
    <3>q. QED
      BY <3>2, <2>2
  <2>4. root \in f[k] /\ (Still(k) \/ Cardinality(f[k]) > k)
    BY <2>2
  <2>5. root \in f[k + 1] /\ f[k] \subseteq f[k + 1]
    BY <2>3, <2>4 DEF Wave
  <2>6. CASE Still(k)
    <3>1. f[k + 1] = f[k]
      BY <2>3, <2>5, <2>6 DEF ClosedUnder, Wave
    <3>q. QED
      BY <3>1, <2>5, <2>6
  <2>7. CASE ~Still(k)
    <3>1. f[k + 1] # f[k]
      BY <2>3, <2>7 DEF ClosedUnder, Wave
    <3>2. IsFiniteSet(f[k + 1]) /\ f[k] \in SUBSET f[k + 1]
      BY <1>1, <2>2, <2>5
    <3>3. Cardinality(f[k]) < Cardinality(f[k + 1])
      <4>1. /\ Cardinality(f[k]) <= Cardinality(f[k + 1])
            /\ Cardinality(f[k]) = Cardinality(f[k + 1]) => f[k] = f[k + 1]
        BY <3>2, FS_Subset
      <4>q. QED
        BY <4>1, <3>1, <1>1, <2>2
    <3>q. QED
      BY <3>3, <2>4, <2>5, <2>7, <1>1, <2>2
  <2>q. QED
    BY <2>6, <2>7
<1>4. S = Nat
  BY <1>2, <1>3, Induction
<1>5. root \in f[n] /\ (Still(n) \/ Cardinality(f[n]) > n)
  BY <1>4
<1>6. Cardinality(f[n]) <= Cardinality(M) /\ Cardinality(M) \in Nat
  BY <1>1, FS_Subset, FS_CardinalityType
<1>q. QED
  BY <1>1, <1>5, <1>6

(* So Closure answers the least set with the root that edges do not leave. *)
LEMMA ClosureIsLeast ==
  ASSUME NEW M, IsFiniteSet(M), NEW edges \in [M -> SUBSET M], NEW root \in M,
         NEW n \in Nat, Cardinality(M) <= n
  PROVE  /\ Closure(edges, root, n) \subseteq M
         /\ root \in Closure(edges, root, n)
         /\ ClosedUnder(edges, Closure(edges, root, n))
         /\ \A C : root \in C /\ ClosedUnder(edges, C) => Closure(edges, root, n) \subseteq C
<1> DEFINE within == CHOOSE f : f = [k \in 0..n |-> IF k = 0 THEN {root} ELSE Wave(edges, f[k - 1])]
<1>1. Closure(edges, root, n) = within[n]
  BY DEF Closure
<1>2. PICK f : Waves(f, n, edges, root)
  BY WavesExist
<1>3. Waves(within, n, edges, root)
  BY <1>2 DEF Waves
<1> HIDE DEF within
<1>4. n \in 0..n
  OBVIOUS
<1>q. QED
  BY <1>1, <1>3, <1>4, WavesReachAll, WavesStayWithin

(* Lists of dependencies that name modules there are.                      *)
IsGraph(d) == Len(d) \in Nat /\ d \in [1..Len(d) -> Seq(1..Len(d))]

(* There are finitely many modules.                                        *)
LEMMA ModulesFinite ==
  ASSUME NEW d, IsGraph(d)
  PROVE  /\ IsFiniteSet(1..Len(d)) /\ Cardinality(1..Len(d)) = Len(d)
         /\ Len(d) \in Nat /\ 1..Len(d) \subseteq Nat
BY FS_Interval DEF IsGraph

(* A module reaches itself and what its dependencies reach, nothing else.  *)
LEMMA ReachableIsLeast ==
  ASSUME NEW d, IsGraph(d), NEW root \in 1..Len(d)
  PROVE  /\ Reachable(d, root) \subseteq 1..Len(d)
         /\ root \in Reachable(d, root)
         /\ \A m \in Reachable(d, root) : Range(d[m]) \subseteq Reachable(d, root)
         /\ \A C : /\ C \subseteq 1..Len(d) /\ root \in C
                   /\ \A m \in C : Range(d[m]) \subseteq C
                   => Reachable(d, root) \subseteq C
<1> DEFINE M == 1..Len(d)
<1>1. IsFiniteSet(M) /\ Cardinality(M) = Len(d) /\ Len(d) \in Nat
  BY ModulesFinite
<1>2. DOMAIN d = M /\ \A m \in M : d[m] \in Seq(M)
  BY DEF IsGraph
<1>3. \A m \in M : Range(d[m]) \in SUBSET M
  BY <1>2 DEF Range
<1>4. Edges(d) \in [M -> SUBSET M] /\ \A m \in M : Edges(d)[m] = Range(d[m])
  BY <1>2, <1>3 DEF Edges
<1> HIDE DEF M
<1>5. root \in M /\ Cardinality(M) <= Len(d)
  BY <1>1 DEF M
<1>6. /\ Reachable(d, root) \subseteq M
      /\ root \in Reachable(d, root)
      /\ ClosedUnder(Edges(d), Reachable(d, root))
      /\ \A C : root \in C /\ ClosedUnder(Edges(d), C) => Reachable(d, root) \subseteq C
  BY <1>1, <1>4, <1>5, ClosureIsLeast DEF Reachable
<1>7. ASSUME NEW C, C \subseteq M, \A m \in C : Range(d[m]) \subseteq C
      PROVE  ClosedUnder(Edges(d), C)
  BY <1>4, <1>7 DEF ClosedUnder
<1>8. \A m \in Reachable(d, root) : Range(d[m]) \subseteq Reachable(d, root)
  BY <1>4, <1>6 DEF ClosedUnder
<1>q. QED
  BY <1>6, <1>7, <1>8 DEF M
-----------------------------------------------------------------------------
(* The init order.                                                         *)

(* A list has no more members than places.                                 *)
LEMMA RangeSmall ==
  ASSUME NEW S, NEW s \in Seq(S)
  PROVE  IsFiniteSet(Range(s)) /\ Cardinality(Range(s)) <= Len(s) /\ Range(s) \subseteq S
<1>1. Len(s) \in Nat /\ DOMAIN s = 1..Len(s) /\ s \in [1..Len(s) -> S]
  BY LenProperties
<1>2. s \in Surjection(1..Len(s), Range(s))
  BY <1>1 DEF Surjection, Range
<1>3. IsFiniteSet(1..Len(s)) /\ Cardinality(1..Len(s)) = Len(s)
  BY <1>1, FS_Interval
<1>q. QED
  BY <1>1, <1>2, <1>3, FS_Surjection DEF Range

(* The members of a longer list.                                           *)
LEMMA AppendRange ==
  ASSUME NEW S, NEW s \in Seq(S), NEW e \in S
  PROVE  Range(Append(s, e)) = Range(s) \cup {e}
<1>1. /\ DOMAIN Append(s, e) = 1..Len(s) + 1 /\ DOMAIN s = 1..Len(s) /\ Len(s) \in Nat
      /\ Append(s, e)[Len(s) + 1] = e
      /\ \A i \in 1..Len(s) : Append(s, e)[i] = s[i]
  BY AppendProperties, LenProperties
<1>q. QED
  BY <1>1 DEF Range

(* A module is ready when all it depends on has been consumed: the counter *)
(* can only reach zero so, even when a dependency is listed twice.         *)
LEMMA ReadyMeansReady ==
  ASSUME NEW d, IsGraph(d), NEW I \in SUBSET (1..Len(d)), NEW done, NEW m \in Ready(d, I, done)
  PROVE  m \in I /\ m \notin done /\ Range(d[m]) \subseteq done
<1>1. m \in I \ done /\ Cardinality(Range(d[m]) \cap done) = Len(d[m])
  BY DEF Ready
<1>2. d[m] \in Seq(1..Len(d))
  BY <1>1 DEF IsGraph
<1>3. IsFiniteSet(Range(d[m])) /\ Cardinality(Range(d[m])) <= Len(d[m])
  BY <1>2, RangeSmall
<1>4. Range(d[m]) \cap done \in SUBSET Range(d[m])
  OBVIOUS
<1>5. /\ Cardinality(Range(d[m]) \cap done) <= Cardinality(Range(d[m]))
      /\ Cardinality(Range(d[m]) \cap done) = Cardinality(Range(d[m]))
           => Range(d[m]) = Range(d[m]) \cap done
  BY <1>3, <1>4, FS_Subset
<1>6. Cardinality(Range(d[m])) \in Nat /\ Len(d[m]) \in Nat
  BY <1>2, <1>3, FS_CardinalityType, LenProperties
<1>7. Range(d[m]) = Range(d[m]) \cap done
  BY <1>1, <1>3, <1>5, <1>6
<1>q. QED
  BY <1>1, <1>7
(* The order kept so far, and one more module after all it depends on.     *)
LEMMA OrderGrows ==
  ASSUME NEW d, IsGraph(d), NEW I \in SUBSET (1..Len(d)), NEW order \in Seq(I),
         DependenciesFirst(d, order), NEW m \in Ready(d, I, Range(order))
  PROVE  DependenciesFirst(d, Append(order, m))
<1> DEFINE longer == Append(order, m)
<1>1. m \in I /\ Range(d[m]) \subseteq Range(order)
  BY ReadyMeansReady
<1>2. /\ Len(longer) = Len(order) + 1 /\ Len(order) \in Nat
      /\ DOMAIN longer = 1..Len(order) + 1 /\ DOMAIN order = 1..Len(order)
      /\ longer[Len(order) + 1] = m
      /\ \A i \in 1..Len(order) : longer[i] = order[i]
  BY <1>1, AppendProperties, LenProperties
<1> HIDE DEF longer
<1>3. ASSUME NEW i \in 1..Len(order)
      PROVE  Range(d[longer[i]]) \subseteq {longer[j] : j \in 1..(i - 1)}
  <2>1. Range(d[order[i]]) \subseteq {order[j] : j \in 1..(i - 1)}
    BY <1>2 DEF DependenciesFirst
  <2>2. \A j \in 1..(i - 1) : longer[j] = order[j]
    BY <1>2
  <2>q. QED
    BY <1>2, <2>1, <2>2
<1>4. Range(d[m]) \subseteq {longer[j] : j \in 1..Len(order)}
  BY <1>1, <1>2 DEF Range
<1>5. ASSUME NEW i \in DOMAIN longer
      PROVE  Range(d[longer[i]]) \subseteq {longer[j] : j \in 1..(i - 1)}
  <2>1. CASE i \in 1..Len(order)
    BY <1>3, <2>1
  <2>2. CASE i = Len(order) + 1
    <3>1. longer[i] = m /\ i - 1 = Len(order)
      BY <1>2, <2>2
    <3>q. QED
      BY <1>4, <3>1
  <2>q. QED
    BY <1>2, <2>1, <2>2
<1>6. DependenciesFirst(d, longer)
  BY <1>5 DEF DependenciesFirst
<1>q. QED
  BY <1>6 DEF longer

(* What schedule answers puts dependencies first, be it complete or not.   *)
LEMMA KahnInOrder ==
  ASSUME NEW d, IsGraph(d), NEW I \in SUBSET (1..Len(d))
  PROVE  Kahn(d, I) \in Seq(I) /\ DependenciesFirst(d, Kahn(d, I))
<1> DEFINE D == Seq(I)
           R(order) == Ready(d, I, Range(order))
           done == {order \in D : R(order) = {}}
           out == [order \in done |-> order]
           next == [order \in D \ done |-> Append(order, Min(R(order)))]
           size == [order \in D |-> Cardinality(I) - Cardinality(Range(order))]
           P == {order \in D : DependenciesFirst(d, order)}
           from == CHOOSE f : f = [order \in D |->
                     IF R(order) = {} THEN order ELSE f[Append(order, Min(R(order)))]]
<1>1. Kahn(d, I) = from[<<>>]
  BY DEF Kahn
<1>2. IsFiniteSet(I) /\ Cardinality(I) \in Nat /\ I \subseteq Nat
  <2>1. Len(d) \in Nat /\ 1..Len(d) \subseteq Nat /\ IsFiniteSet(1..Len(d))
    BY ModulesFinite
  <2>q. QED
    BY <2>1, FS_Subset, FS_CardinalityType
<1>3. ASSUME NEW order \in D
      PROVE  /\ Range(order) \subseteq I /\ IsFiniteSet(Range(order))
             /\ Cardinality(Range(order)) \in Nat
             /\ Cardinality(Range(order)) <= Cardinality(I)
  BY <1>2, RangeSmall, FS_Subset, FS_CardinalityType
<1>4. ASSUME NEW order \in D \ done
      PROVE  /\ Min(R(order)) \in R(order) /\ Min(R(order)) \in I \ Range(order)
             /\ Append(order, Min(R(order))) \in D
  <2>1. R(order) \subseteq I /\ R(order) # {}
    BY DEF Ready
  <2>2. Min(R(order)) \in R(order)
    BY <1>2, <2>1, MinIsLeast
  <2>q. QED
    BY <2>1, <2>2, ReadyMeansReady
<1>5. Shrinks(D, done, next, size)
  <2>1. done \subseteq D /\ next \in [D \ done -> D]
    BY <1>4
  <2>2. size \in [D -> Nat]
    BY <1>2, <1>3
  <2>3. ASSUME NEW order \in D \ done PROVE size[next[order]] < size[order]
    <3>1. Range(next[order]) = Range(order) \cup {Min(R(order))}
      BY <1>4, AppendRange
    <3>2. Cardinality(Range(next[order])) = Cardinality(Range(order)) + 1
      BY <3>1, <1>3, <1>4, FS_AddElement
    <3>3. next[order] \in D
      BY <2>1
    <3>q. QED
      BY <3>2, <3>3, <1>2, <1>3
  <2>q. QED
    BY <2>1, <2>2, <2>3 DEF Shrinks
<1>6. out \in [done -> D]
  OBVIOUS
<1>7. ASSUME NEW f
      PROVE  TailRecursive(f, D, done, out, next)
               <=> f = [order \in D |->
                         IF R(order) = {} THEN order ELSE f[Append(order, Min(R(order)))]]
  <2>1. \A order \in D : (IF order \in done THEN out[order] ELSE f[next[order]])
                           = IF R(order) = {} THEN order ELSE f[Append(order, Min(R(order)))]
    OBVIOUS
  <2>q. QED
    BY <2>1 DEF TailRecursive
<1> HIDE DEF D, R, done, out, next, size
<1>8. \E f : TailRecursive(f, D, done, out, next)
  BY <1>5, <1>6, TailRecursionExists
<1>9. TailRecursive(from, D, done, out, next)
  BY <1>7, <1>8
<1> HIDE DEF from
<1>10. P \in SUBSET D /\ Carries(P, P, done, out, next)
  BY <1>4, OrderGrows DEF D, R, done, out, next, Carries
<1>11. <<>> \in P
  BY DEF DependenciesFirst, D
<1> HIDE DEF P
<1>12. \A order \in P : from[order] \in P
  BY <1>5, <1>9, <1>10, AlongTailRecursion
<1>13. from[<<>>] \in P
  BY <1>11, <1>12
<1>q. QED
  BY <1>1, <1>13 DEF P, D
-----------------------------------------------------------------------------
(* The search for a symbol.                                                *)

Walks(d) == [order : Seq(1..Len(d)), queue : Seq(1..Len(d))]

Start(d, m) == [order |-> <<m>>, queue |-> d[m]]

(* No list is longer than some number.                                     *)
LEMMA ListsBounded ==
  ASSUME NEW d, IsGraph(d)
  PROVE  \E K \in Nat : \A m \in 1..Len(d) : Len(d[m]) <= K
<1> DEFINE S == {n \in Nat : n <= Len(d) => \E K \in Nat : \A m \in 1..n : Len(d[m]) <= K}
<1>1. Len(d) \in Nat /\ \A m \in 1..Len(d) : Len(d[m]) \in Nat
  BY LenProperties DEF IsGraph
<1>2. 0 \in S
  OBVIOUS
<1>3. ASSUME NEW n \in S PROVE n + 1 \in S
  <2>1. SUFFICES ASSUME n + 1 <= Len(d)
                 PROVE  \E K \in Nat : \A m \in 1..n + 1 : Len(d[m]) <= K
    OBVIOUS
  <2>2. PICK K \in Nat : \A m \in 1..n : Len(d[m]) <= K
    BY <2>1, <1>1
  <2>3. Len(d[n + 1]) \in Nat
    BY <2>1, <1>1
  <2> DEFINE B == IF Len(d[n + 1]) <= K THEN K ELSE Len(d[n + 1])
  <2>4. B \in Nat /\ \A m \in 1..n + 1 : Len(d[m]) <= B
    <3>1. ASSUME NEW m \in 1..n + 1 PROVE Len(d[m]) <= B
      <4>1. Len(d[m]) \in Nat
        BY <2>1, <1>1
      <4>2. m = n + 1 \/ Len(d[m]) <= K
        BY <2>2
      <4>q. QED
        BY <4>1, <4>2, <2>3
    <3>q. QED
      BY <3>1, <2>3
  <2>q. QED
    BY <2>4
<1>4. S = Nat
  BY <1>2, <1>3, Induction
<1> HIDE DEF S
<1>5. Len(d) \in S
  BY <1>1, <1>4
<1>q. QED
  BY <1>1, <1>5 DEF S

(* A visit leaves a walk, takes one off the queue, and what it adds to the *)
(* queue are the dependencies of a module that is new.                     *)
LEMMA VisitStep ==
  ASSUME NEW d, IsGraph(d), NEW w \in Walks(d), w.queue # <<>>
  PROVE  /\ Head(w.queue) \in 1..Len(d) /\ Visit(d, w) \in Walks(d)
         /\ Head(w.queue) \in Range(w.order) =>
              /\ Visit(d, w).order = w.order
              /\ Len(Visit(d, w).queue) = Len(w.queue) - 1
         /\ Head(w.queue) \notin Range(w.order) =>
              /\ Range(Visit(d, w).order) = Range(w.order) \cup {Head(w.queue)}
              /\ Len(Visit(d, w).queue) = Len(w.queue) - 1 + Len(d[Head(w.queue)])
<1> DEFINE M == 1..Len(d)
           m == Head(w.queue)
<1>1. w.order \in Seq(M) /\ w.queue \in Seq(M)
  BY DEF Walks
<1>2. m \in M /\ Tail(w.queue) \in Seq(M) /\ Len(Tail(w.queue)) = Len(w.queue) - 1
  BY <1>1, HeadTailProperties
<1>3. d[m] \in Seq(M)
  BY <1>2 DEF IsGraph
<1>4. CASE m \in Range(w.order)
  <2>1. Visit(d, w) = [w EXCEPT !.queue = Tail(@)]
    BY <1>4 DEF Visit
  <2>2. Visit(d, w).order = w.order /\ Visit(d, w).queue = Tail(w.queue)
    BY <2>1 DEF Walks
  <2>3. Visit(d, w) \in Walks(d)
    BY <2>1, <1>1, <1>2 DEF Walks
  <2>q. QED
    BY <1>2, <1>4, <2>2, <2>3
<1>5. CASE m \notin Range(w.order)
  <2>1. Visit(d, w) = [order |-> Append(w.order, m), queue |-> Tail(w.queue) \o d[m]]
    BY <1>5 DEF Visit
  <2>2. Append(w.order, m) \in Seq(M) /\ Range(Append(w.order, m)) = Range(w.order) \cup {m}
    BY <1>1, <1>2, AppendProperties, AppendRange
  <2>3. /\ Tail(w.queue) \o d[m] \in Seq(M)
        /\ Len(Tail(w.queue) \o d[m]) = Len(Tail(w.queue)) + Len(d[m])
    BY <1>2, <1>3, ConcatProperties
  <2>4. Visit(d, w) \in Walks(d)
    BY <2>1, <2>2, <2>3 DEF Walks
  <2>5. Visit(d, w).order = Append(w.order, m) /\ Visit(d, w).queue = Tail(w.queue) \o d[m]
    <3> DEFINE a == Append(w.order, m)
               b == Tail(w.queue) \o d[m]
    <3>1. Visit(d, w) = [order |-> a, queue |-> b]
      BY <2>1
    <3> HIDE DEF a, b
    <3>2. Visit(d, w).order = a /\ Visit(d, w).queue = b
      BY <3>1
    <3>q. QED
      BY <3>2 DEF a, b
  <2>q. QED
    BY <1>2, <1>5, <2>2, <2>3, <2>4, <2>5
<1>q. QED
  BY <1>4, <1>5

(* The search ends, and what visits keep holds of what it answers.         *)
LEMMA SearchKeeps ==
  ASSUME NEW d, IsGraph(d), NEW r \in 1..Len(d),
         NEW P \in SUBSET Walks(d), NEW Q, Start(d, r) \in P,
         \A w \in P : w.queue # <<>> => Visit(d, w) \in P,
         \A w \in P : w.queue = <<>> => w.order \in Q
  PROVE  Search(d, r) \in Q
<1> DEFINE M == 1..Len(d)
           D == Walks(d)
           done == {w \in D : w.queue = <<>>}
           out == [w \in done |-> w.order]
           next == [w \in D \ done |-> Visit(d, w)]
           from == CHOOSE f : f = [w \in D |-> IF w.queue = <<>> THEN w.order ELSE f[Visit(d, w)]]
<1>1. Search(d, r) = from[Start(d, r)]
  BY DEF Search, Start, Walks
<1>2. PICK K \in Nat : \A m \in M : Len(d[m]) <= K
  BY ListsBounded
<1> DEFINE free == [w \in D |-> Len(d) - Cardinality(Range(w.order))]
           size == [w \in D |-> free[w] * (K + 1) + Len(w.queue)]
<1>3. ASSUME NEW w \in D
      PROVE  /\ IsFiniteSet(Range(w.order)) /\ Cardinality(Range(w.order)) \in Nat
             /\ free[w] \in Nat /\ Len(w.queue) \in Nat
  <2>1. w.order \in Seq(M) /\ w.queue \in Seq(M)
    BY DEF Walks
  <2>2. IsFiniteSet(M) /\ Cardinality(M) = Len(d) /\ Len(d) \in Nat
    BY ModulesFinite
  <2>3. Range(w.order) \in SUBSET M
    BY <2>1, RangeSmall
  <2>q. QED
    BY <2>1, <2>2, <2>3, FS_Subset, FS_CardinalityType, LenProperties
<1>4. Shrinks(D, done, next, size)
  <2>1. done \subseteq D /\ next \in [D \ done -> D]
    BY VisitStep
  <2>2. size \in [D -> Nat]
    <3>1. ASSUME NEW w \in D PROVE free[w] * (K + 1) + Len(w.queue) \in Nat
      BY <1>3
    <3>q. QED
      BY <3>1
  <2>3. ASSUME NEW w \in D \ done PROVE size[next[w]] < size[w]
    <3> DEFINE v == Visit(d, w)
               m == Head(w.queue)
    <3>1. v \in D /\ next[w] = v /\ w.queue # <<>> /\ m \in M
      BY VisitStep
    <3> HIDE DEF v
    <3>2. size[v] = free[v] * (K + 1) + Len(v.queue) /\ size[w] = free[w] * (K + 1) + Len(w.queue)
      BY <3>1
    <3>3. CASE m \in Range(w.order)
      <4>1. v.order = w.order /\ Len(v.queue) = Len(w.queue) - 1
        BY <3>1, <3>3, VisitStep DEF v
      <4>2. free[v] = free[w]
        BY <3>1, <4>1
      <4>3. free[w] * (K + 1) \in Nat
        BY <1>3
      <4>q. QED
        BY <3>1, <3>2, <4>1, <4>2, <4>3, <1>3
    <3>4. CASE m \notin Range(w.order)
      <4>1. /\ Range(v.order) = Range(w.order) \cup {m}
            /\ Len(v.queue) = Len(w.queue) - 1 + Len(d[m])
        BY <3>1, <3>4, VisitStep DEF v
      <4>2. Cardinality(Range(v.order)) = Cardinality(Range(w.order)) + 1
        BY <4>1, <3>4, <1>3, FS_AddElement
      <4>3. free[v] = free[w] - 1
        BY <4>2, <3>1, <1>3 DEF IsGraph
      <4>4. (free[w] - 1) * (K + 1) = free[w] * (K + 1) - (K + 1)
        BY <1>3
      <4>5. free[w] * (K + 1) \in Nat /\ Len(d[m]) \in Nat /\ Len(d[m]) <= K
        <5>1. d[m] \in Seq(M)
          BY <3>1 DEF IsGraph
        <5>2. Len(d[m]) \in Nat /\ Len(d[m]) <= K
          BY <1>2, <3>1, <5>1, LenProperties
        <5>3. free[w] \in Nat
          BY <1>3
        <5> HIDE DEF free
        <5>q. QED
          BY <5>2, <5>3
      <4>6. Len(w.queue) \in Nat
        BY <1>3
      <4>7. size[v] = free[w] * (K + 1) - (K + 1) + (Len(w.queue) - 1 + Len(d[m]))
        BY <3>2, <4>1, <4>3, <4>4
      <4> HIDE DEF free, size
      <4>8. \A x, l, q, k \in Nat : l <= k => x - (k + 1) + (q - 1 + l) < x + q
        OBVIOUS
      <4>9. free[w] * (K + 1) - (K + 1) + (Len(w.queue) - 1 + Len(d[m])) < free[w] * (K + 1) + Len(w.queue)
        BY <4>5, <4>6, <4>8
      <4>q. QED
        BY <3>1, <3>2, <4>7, <4>9
    <3>q. QED
      BY <3>3, <3>4
  <2>q. QED
    BY <2>1, <2>2, <2>3 DEF Shrinks
<1>5. out \in [done -> Seq(M)]
  BY DEF Walks
<1>6. ASSUME NEW f
      PROVE  TailRecursive(f, D, done, out, next)
               <=> f = [w \in D |-> IF w.queue = <<>> THEN w.order ELSE f[Visit(d, w)]]
  <2>1. \A w \in D : (IF w \in done THEN out[w] ELSE f[next[w]])
                       = IF w.queue = <<>> THEN w.order ELSE f[Visit(d, w)]
    OBVIOUS
  <2>q. QED
    BY <2>1 DEF TailRecursive
<1>7. P \in SUBSET D /\ Carries(P, Q, done, out, next)
  BY DEF Carries
<1> HIDE DEF D, done, out, next, size, free
<1>8. \E f : TailRecursive(f, D, done, out, next)
  BY <1>4, <1>5, TailRecursionExists
<1>9. TailRecursive(from, D, done, out, next)
  BY <1>6, <1>8
<1> HIDE DEF from
<1>10. \A w \in P : from[w] \in Q
  BY <1>4, <1>7, <1>9, AlongTailRecursion
<1>q. QED
  BY <1>1, <1>10

(* A symbol is answered by one module that exports it, or by none.         *)
LEMMA ResolveAnswers ==
  ASSUME NEW d, IsGraph(d), NEW m \in 1..Len(d), NEW E, E \subseteq 1..Len(d)
  PROVE  Resolve(d, m, E) = {} \/ \E x \in E : Resolve(d, m, E) = {x}
<1> DEFINE order == Search(d, m)
           hits == {i \in DOMAIN order : order[i] \in E}
<1>1. order \in Seq(1..Len(d))
  <2>1. Start(d, m) \in Walks(d)
    BY DEF Start, Walks, IsGraph
  <2>2. \A w \in Walks(d) : w.queue # <<>> => Visit(d, w) \in Walks(d)
    BY VisitStep
  <2>3. \A w \in Walks(d) : w.queue = <<>> => w.order \in Seq(1..Len(d))
    BY DEF Walks
  <2>q. QED
    BY <2>1, <2>2, <2>3, SearchKeeps
<1>2. Resolve(d, m, E) = IF hits = {} THEN {} ELSE {order[Min(hits)]}
  BY DEF Resolve
<1> HIDE DEF order
<1>3. hits \subseteq Nat
  BY <1>1, LenProperties
<1>4. hits # {} => Min(hits) \in hits
  BY <1>3, MinIsLeast
<1>q. QED
  BY <1>2, <1>4
-----------------------------------------------------------------------------
(* Types.                                                                  *)

Frames(n) == [id : 1..n, file : Files, todo : Seq(Names), calls : SUBSET (1..n),
              phase : {"deps", "onload"}]

Answers(n) == {{}} \cup {{x} : x \in 1..n}

GraphTyped ==
  /\ file \in Seq(Files) /\ IsGraph(deps) /\ Len(deps) = Len(file)
  /\ bySoname \in [DOMAIN bySoname -> Modules]

BoundTyped ==
  /\ Len(bound) = Len(file) /\ DOMAIN bound = Modules
  /\ \A m \in Modules : bound[m] \in [Uses[file[m]] -> Answers(Len(file))]

Typed ==
  /\ GraphTyped /\ BoundTyped
  /\ stack \in Seq(Frames(Len(file)))
  /\ linked \subseteq Modules /\ ran \subseteq Modules /\ Range(report) \subseteq Modules

(* Modules are numbers from 1 on.                                          *)
LEMMA ModulesAre ==
  ASSUME Typed
  PROVE  /\ Modules = 1..Len(file) /\ Len(file) \in Nat
         /\ \A m \in Modules : file[m] \in Files /\ deps[m] \in Seq(Modules)
         /\ Len(stack) \in Nat /\ \A i \in 1..Len(stack) : stack[i] \in Frames(Len(file))
         /\ DOMAIN stack = 1..Len(stack)
BY LenProperties, ElementOfSeq DEF Typed, GraphTyped, Modules, IsGraph

(* The frame at work.                                                      *)
LEMMA TopTyped ==
  ASSUME Typed, stack # <<>>
  PROVE  /\ Top \in Frames(Len(file)) /\ Len(stack) \in 1..Len(stack)
         /\ Top.id \in Modules /\ Top.file \in Files /\ Top.todo \in Seq(Names)
         /\ Top.calls \subseteq Modules
<1>1. Len(stack) \in 1..Len(stack)
  BY ModulesAre DEF Typed
<1>2. Top \in Frames(Len(file))
  BY <1>1, ModulesAre DEF Top
<1>3. Modules = 1..Len(file)
  BY ModulesAre
<1>q. QED
  BY <1>1, <1>2, <1>3 DEF Frames

(* An edge between modules.                                                *)
LEMMA AddDepTyped ==
  ASSUME GraphTyped, NEW from \in Modules, NEW on \in Modules, AddDep(from, on)
  PROVE  /\ IsGraph(deps') /\ Len(deps') = Len(deps)
         /\ deps'[from] = Append(deps[from], on)
         /\ \A m \in Modules : m # from => deps'[m] = deps[m]
<1> DEFINE n == Len(deps)
<1>1. n \in Nat /\ deps \in [1..n -> Seq(1..n)] /\ Modules = 1..n
  BY LenProperties DEF GraphTyped, IsGraph, Modules
<1>2. deps \in Seq(Seq(1..n))
  BY <1>1
<1>3. Append(deps[from], on) \in Seq(1..n)
  BY <1>1, AppendProperties
<1>4. deps' = [deps EXCEPT ![from] = Append(deps[from], on)]
  BY DEF AddDep
<1>5. deps' \in [1..n -> Seq(1..n)] /\ Len(deps') = n
  BY <1>1, <1>2, <1>3, <1>4, ExceptSeq
<1>q. QED
  BY <1>1, <1>4, <1>5 DEF IsGraph

(* Loading a file makes a module for it and a frame at work on it.         *)
LEMMA LoadNewMakes ==
  ASSUME Typed, LoaderAssumption, NEW f \in Files, LoadNew(f)
  PROVE  /\ GraphTyped' /\ BoundTyped'
         /\ Len(file') = Len(file) + 1 /\ Modules' = 1..Len(file) + 1
         /\ \A m \in Modules : file'[m] = file[m] /\ deps'[m] = deps[m]
         /\ file'[Len(file) + 1] = f /\ deps'[Len(file) + 1] = <<>>
<1> DEFINE n == Len(file)
           new == n + 1
<1>1. /\ n \in Nat /\ Modules = 1..n /\ file \in Seq(Files) /\ Len(deps) = n /\ Len(bound) = n
      /\ deps \in [1..n -> Seq(1..n)] /\ DOMAIN bound = 1..n
  BY ModulesAre DEF Typed, GraphTyped, BoundTyped, IsGraph
<1>2. /\ file' = Append(file, f) /\ deps' = Append(deps, <<>>)
      /\ bound' = Append(bound, [s \in Uses[f] |-> {}])
      /\ bySoname' = Registered(f, new)
  BY DEF LoadNew
<1>3. /\ file' \in Seq(Files) /\ Len(file') = new /\ Modules' = 1..new
      /\ \A m \in 1..n : file'[m] = file[m]
      /\ file'[new] = f
  BY <1>1, <1>2, AppendProperties, LenProperties DEF Modules
<1>4. /\ IsGraph(deps') /\ Len(deps') = new
      /\ \A m \in 1..n : deps'[m] = deps[m]
      /\ deps'[new] = <<>>
  <2>1. deps \in Seq(Seq(1..new)) /\ <<>> \in Seq(1..new)
    <3>1. \A s \in Seq(1..n) : s \in Seq(1..new)
      BY <1>1, SeqMonotonic
    <3>2. deps \in [1..n -> Seq(1..new)]
      BY <1>1, <3>1
    <3>3. deps \in Seq(Seq(1..new))
      <4> DEFINE S == Seq(1..new)
      <4>1. n \in Nat /\ deps \in [1..n -> S]
        BY <1>1, <3>2
      <4> HIDE DEF S
      <4>2. deps \in Seq(S)
        BY <4>1
      <4>q. QED
        BY <4>2 DEF S
    <3>q. QED
      BY <3>3
  <2>2. /\ deps' \in Seq(Seq(1..new)) /\ Len(deps') = n + 1
        /\ \A m \in 1..n : deps'[m] = deps[m]
        /\ deps'[n + 1] = <<>>
    BY <1>1, <1>2, <2>1, AppendProperties
  <2>3. deps' \in [1..Len(deps') -> Seq(1..new)]
    BY <2>2, LenProperties
  <2>q. QED
    BY <2>2, <2>3, <1>1 DEF IsGraph
<1>5. bySoname' \in [DOMAIN bySoname' -> 1..new]
  <2>1. bySoname \in [DOMAIN bySoname -> 1..new]
    BY <1>1 DEF Typed, GraphTyped
  <2>2. Bind(bySoname, Soname[f], new) \in [DOMAIN bySoname \cup {Soname[f]} -> 1..new]
    BY <1>1, <2>1 DEF Bind
  <2>3. bySoname' = bySoname \/ bySoname' = Bind(bySoname, Soname[f], new)
    BY <1>2 DEF Registered
  <2>q. QED
    BY <2>1, <2>2, <2>3
<1>6. BoundTyped'
  <2>1. /\ Len(bound') = new /\ DOMAIN bound' = 1..new
        /\ \A m \in 1..n : bound'[m] = bound[m]
        /\ bound'[new] = [s \in Uses[f] |-> {}]
    BY <1>1, <1>2
  <2>2. \A m \in 1..n : bound'[m] \in [Uses[file'[m]] -> Answers(new)]
    <3>1. \A m \in 1..n : bound[m] \in [Uses[file[m]] -> Answers(n)]
      BY <1>1 DEF Typed, BoundTyped
    <3>2. Answers(n) \subseteq Answers(new)
      <4>1. 1..n \subseteq 1..new
        BY <1>1
      <4>q. QED
        BY <4>1, Zenon DEF Answers
    <3>3. ASSUME NEW m \in 1..n PROVE bound'[m] \in [Uses[file'[m]] -> Answers(new)]
      <4>1. bound'[m] = bound[m] /\ file'[m] = file[m] /\ bound[m] \in [Uses[file[m]] -> Answers(n)]
        BY <2>1, <3>1, <1>3
      <4>q. QED
        BY <4>1, <3>2
    <3>q. QED
      BY <3>3
  <2>3. bound'[new] \in [Uses[file'[new]] -> Answers(new)]
    BY <2>1, <1>3 DEF Answers
  <2>4. \A m \in 1..new : m \in 1..n \/ m = new
    BY <1>1
  <2>q. QED
    BY <2>1, <2>2, <2>3, <2>4, <1>3 DEF BoundTyped
<1>q. QED
  BY <1>1, <1>3, <1>4, <1>5, <1>6 DEF GraphTyped

(* A frame for a module.                                                   *)
LEMMA FrameTyped ==
  ASSUME LoaderAssumption, NEW n \in Nat, NEW f \in Files, NEW id \in 1..n
  PROVE  Frame(id, f) \in Frames(n)
BY DEF Frame, Frames, LoaderAssumption

(* Frames stay frames when a module is added.                              *)
LEMMA MoreFrames ==
  ASSUME NEW n \in Nat
  PROVE  Frames(n) \subseteq Frames(n + 1) /\ Seq(Frames(n)) \subseteq Seq(Frames(n + 1))
<1>1. 1..n \subseteq 1..n + 1
  OBVIOUS
<1>2. Frames(n) \subseteq Frames(n + 1)
  BY <1>1 DEF Frames
<1>q. QED
  BY <1>2, SeqMonotonic

(* Entering a file pushes a frame for it, on a module there is or a new    *)
(* one.                                                                    *)
LEMMA EnterTyped ==
  ASSUME Typed, LoaderAssumption, NEW f \in Files, Enter(f),
         UNCHANGED <<linked, ran, report>>
  PROVE  Typed'
<1>1. Len(file) \in Nat /\ Modules = 1..Len(file)
  BY ModulesAre
<1>2. CASE Known(f) /\ UNCHANGED <<graph, bound>>
           /\ stack' = Append(stack, Frame(bySoname[Soname[f]], f))
  <2>1. bySoname[Soname[f]] \in 1..Len(file)
    BY <1>1, <1>2 DEF Known, Typed, GraphTyped
  <2>2. Frame(bySoname[Soname[f]], f) \in Frames(Len(file))
    BY <2>1, <1>1, FrameTyped
  <2>3. stack' \in Seq(Frames(Len(file)))
    BY <1>2, <2>2, AppendProperties DEF Typed
  <2>q. QED
    BY <1>2, <2>3 DEF Typed, GraphTyped, BoundTyped, Modules, graph, Range
<1>3. CASE LoadNew(f)
  <2>1. GraphTyped' /\ BoundTyped' /\ Len(file') = Len(file) + 1 /\ Modules' = 1..Len(file) + 1
    BY <1>3, LoadNewMakes
  <2>2. Frame(Len(file) + 1, f) \in Frames(Len(file) + 1)
    <3>1. Len(file) + 1 \in Nat /\ Len(file) + 1 \in 1..Len(file) + 1
      BY <1>1
    <3>q. QED
      BY <3>1, FrameTyped
  <2>3. stack' \in Seq(Frames(Len(file')))
    BY <1>1, <1>3, <2>1, <2>2, MoreFrames, AppendProperties DEF LoadNew, Typed
  <2>4. 1..Len(file) \subseteq 1..Len(file) + 1
    BY <1>1
  <2>5. Modules \subseteq Modules'
    BY <1>1, <2>1, <2>4
  <2>6. linked' \subseteq Modules' /\ ran' \subseteq Modules' /\ Range(report') \subseteq Modules'
    BY <2>5 DEF Typed
  <2>q. QED
    BY <2>1, <2>3, <2>6 DEF Typed
<1>q. QED
  BY <1>2, <1>3 DEF Enter

(* Relocating some modules writes addresses of modules.                    *)
LEMMA RelocationTyped ==
  ASSUME Typed, NEW m \in Modules, NEW symbols
  PROVE  Relocated(m, symbols) \in [Uses[file[m]] -> Answers(Len(file))]
<1>1. /\ Modules = 1..Len(deps) /\ IsGraph(deps) /\ Len(deps) = Len(file)
      /\ bound[m] \in [Uses[file[m]] -> Answers(Len(file))]
  BY ModulesAre DEF Typed, GraphTyped, BoundTyped
<1>2. ASSUME NEW s PROVE Resolve(deps, m, Exporters(s)) \in Answers(Len(file))
  <2>1. Exporters(s) \subseteq 1..Len(deps)
    BY <1>1 DEF Exporters
  <2>2. \/ Resolve(deps, m, Exporters(s)) = {}
        \/ \E x \in Exporters(s) : Resolve(deps, m, Exporters(s)) = {x}
    BY <1>1, <2>1, ResolveAnswers
  <2>q. QED
    BY <1>1, <2>1, <2>2 DEF Answers
<1>3. {} \in Answers(Len(file))
  BY DEF Answers
<1>q. QED
  BY <1>1, <1>2, <1>3 DEF Relocated

(* So does relocating several.                                             *)
LEMMA WithRelocatedTyped ==
  ASSUME Typed, NEW done
  PROVE  /\ DOMAIN WithRelocated(done) = Modules /\ Len(WithRelocated(done)) = Len(file)
         /\ \A m \in Modules : WithRelocated(done)[m] \in [Uses[file[m]] -> Answers(Len(file))]
<1>1. Modules = 1..Len(file) /\ Len(file) \in Nat
  BY ModulesAre
<1>2. \A m \in Modules : Relocated(m, Uses[file[m]]) \in [Uses[file[m]] -> Answers(Len(file))]
  BY RelocationTyped
<1>3. \A m \in Modules : bound[m] \in [Uses[file[m]] -> Answers(Len(file))]
  BY DEF Typed, BoundTyped
<1>q. QED
  BY <1>1, <1>2, <1>3 DEF WithRelocated

(* A list with a member changed.                                           *)
LEMMA ListChanged ==
  ASSUME NEW S, NEW s \in Seq(S), NEW i \in 1..Len(s), NEW e \in S,
         NEW t, t = [s EXCEPT ![i] = e]
  PROVE  /\ t \in Seq(S) /\ Len(t) = Len(s)
         /\ \A j \in 1..Len(s) : t[j] = IF j = i THEN e ELSE s[j]
<1>1. s \in [1..Len(s) -> S] /\ Len(s) \in Nat
  BY LenProperties
<1>2. t \in [1..Len(s) -> S] /\ \A j \in 1..Len(s) : t[j] = IF j = i THEN e ELSE s[j]
  BY <1>1
<1>q. QED
  BY <1>1, <1>2

(* A frame pushed on the stack.                                            *)
LEMMA Pushed ==
  ASSUME Typed, NEW g, stack' = Append(stack, g)
  PROVE  /\ Len(stack') = Len(stack) + 1 /\ stack' # <<>> /\ Top' = g
         /\ \A i \in 1..Len(stack) : stack'[i] = stack[i]
         /\ stack'[Len(stack) + 1] = g
<1>1. Len(stack) \in Nat
  BY ModulesAre
<1>2. stack \in [1..Len(stack) -> Frames(Len(file))]
  BY LenProperties DEF Typed
<1>3. /\ Len(stack') = Len(stack) + 1
      /\ \A i \in 1..Len(stack) : stack'[i] = stack[i]
      /\ stack'[Len(stack) + 1] = g
  BY <1>1, <1>2
<1>q. QED
  BY <1>1, <1>3 DEF Top

(* The frame at work replaced.                                             *)
LEMMA Replaced ==
  ASSUME Typed, stack # <<>>, NEW f \in Frames(Len(file)), SetTop(f)
  PROVE  /\ stack' \in Seq(Frames(Len(file)))
         /\ Len(stack') = Len(stack) /\ stack' # <<>> /\ Top' = f
         /\ \A i \in 1..Len(stack) : i < Len(stack) => stack'[i] = stack[i]
         /\ stack'[Len(stack)] = f
<1> DEFINE F == Frames(Len(file))
<1>0. stack \in Seq(F) /\ Len(stack) \in 1..Len(stack) /\ f \in F
  <2>1. Len(stack) \in 1..Len(stack)
    BY TopTyped
  <2>q. QED
    BY <2>1 DEF Typed
<1> HIDE DEF F
<1>1. /\ stack' \in Seq(F) /\ Len(stack') = Len(stack)
      /\ \A j \in 1..Len(stack) : stack'[j] = IF j = Len(stack) THEN f ELSE stack[j]
  BY <1>0, ListChanged DEF SetTop
<1>2. Len(stack) \in 1..Len(stack) /\ Len(stack) \in Nat
  BY TopTyped, ModulesAre
<1>q. QED
  BY <1>1, <1>2 DEF Top, F

(* The frame below changed by a return, with the frame at work gone.       *)
PopTop == stack' = [Front(stack) EXCEPT ![Len(stack) - 1].todo = Tail(@)]

(* What that leaves.                                                       *)
LEMMA Popped ==
  ASSUME Typed, stack # <<>>, Len(stack) # 1, stack[Len(stack) - 1].todo # <<>>,
         PopTop
  PROVE  /\ Len(stack) - 1 \in 1..Len(stack) /\ Len(stack) \in Nat
         /\ stack' \in Seq(Frames(Len(file)))
         /\ Len(stack') = Len(stack) - 1 /\ stack' # <<>>
         /\ \A i \in 1..Len(stack) : i < Len(stack) - 1 => stack'[i] = stack[i]
         /\ Top' = [stack[Len(stack) - 1] EXCEPT !.todo = Tail(@)]
         /\ stack'[Len(stack) - 1] = Top'
<1> DEFINE n == Len(stack)
           F == Frames(Len(file))
           g == [stack[n - 1] EXCEPT !.todo = Tail(@)]
<1>1. n \in Nat /\ n \in 1..n /\ n - 1 \in 1..n /\ stack \in Seq(F)
  <2>1. n \in Nat /\ n \in 1..n
    BY TopTyped, ModulesAre
  <2>2. n - 1 \in 1..n
    <3>1. \A x \in Nat : x \in 1..x /\ x # 1 => x - 1 \in 1..x
      OBVIOUS
    <3>q. QED
      BY <2>1, <3>1
  <2>3. stack \in Seq(F)
    BY DEF Typed
  <2>q. QED
    BY <2>1, <2>2, <2>3
<1>2. stack[n - 1] \in F
  BY <1>1, ElementOfSeq
<1>3. g \in F
  <2>1. stack[n - 1].todo \in Seq(Names)
    BY <1>2 DEF Frames
  <2>2. Tail(stack[n - 1].todo) \in Seq(Names)
    BY <2>1, HeadTailProperties
  <2>q. QED
    BY <1>2, <2>2 DEF Frames
<1>4. /\ Front(stack) \in Seq(F) /\ Len(Front(stack)) = n - 1
      /\ \A i \in 1..n - 1 : Front(stack)[i] = stack[i]
  BY <1>1 DEF Front
<1>5. stack' = [Front(stack) EXCEPT ![n - 1] = g]
  <2>1. Front(stack)[n - 1] = stack[n - 1]
    BY <1>1, <1>4
  <2>q. QED
    BY <2>1 DEF PopTop
<1> HIDE DEF F, g
<1>6. /\ stack' \in Seq(F) /\ Len(stack') = n - 1
      /\ \A j \in 1..n - 1 : stack'[j] = IF j = n - 1 THEN g ELSE Front(stack)[j]
  <2> DEFINE s == Front(stack)
             k == n - 1
  <2>1. s \in Seq(F) /\ k \in 1..Len(s) /\ Len(s) = k /\ stack' = [s EXCEPT ![k] = g]
    <3>1. n - 1 \in 1..n - 1
      BY <1>1
    <3>2. n - 1 \in 1..Len(s)
      BY <3>1, <1>4
    <3>q. QED
      BY <1>4, <1>5, <3>2
  <2> HIDE DEF s, k
  <2>2. /\ stack' \in Seq(F) /\ Len(stack') = Len(s)
        /\ \A j \in 1..Len(s) : stack'[j] = IF j = k THEN g ELSE s[j]
    BY <1>3, <2>1, ListChanged
  <2>q. QED
    BY <2>1, <2>2 DEF s, k
<1>7. \A i \in 1..n : i < n - 1 => i \in 1..n - 1 /\ i # n - 1
  BY <1>1
<1>8. n - 1 \in 1..n - 1
  BY <1>1
<1>9. stack' # <<>>
  BY <1>1, <1>6
<1>10. \A i \in 1..n : i < n - 1 => stack'[i] = stack[i]
  BY <1>4, <1>6, <1>7
<1>11. stack'[n - 1] = g /\ Top' = g
  BY <1>6, <1>8 DEF Top
<1>q. QED
  BY <1>1, <1>6, <1>9, <1>10, <1>11 DEF F, g

(* A list is its first member and the rest.                                *)
LEMMA FirstAndRest ==
  ASSUME NEW S, NEW s \in Seq(S), s # <<>>
  PROVE  Head(s) \in S /\ Tail(s) \in Seq(S) /\ Range(s) = {Head(s)} \cup Range(Tail(s))
<1>2. /\ Len(s) \in Nat /\ Len(s) > 0 /\ Len(Tail(s)) = Len(s) - 1 /\ Tail(s) \in Seq(S)
      /\ Head(s) = s[1] /\ \A i \in 1..Len(s) - 1 : Tail(s)[i] = s[i + 1]
  OBVIOUS
<1>3. Range(s) = {s[i] : i \in 1..Len(s)} /\ Range(Tail(s)) = {Tail(s)[i] : i \in 1..Len(s) - 1}
  BY <1>2, LenProperties DEF Range
<1>4. ASSUME NEW i \in 1..Len(s) PROVE s[i] \in {Head(s)} \cup Range(Tail(s))
  <2>1. i = 1 \/ (i - 1 \in 1..Len(s) - 1 /\ (i - 1) + 1 = i)
    BY <1>2
  <2>q. QED
    BY <1>2, <1>3, <2>1
<1>5. ASSUME NEW i \in 1..Len(s) - 1 PROVE Tail(s)[i] \in Range(s)
  <2>1. i + 1 \in 1..Len(s)
    BY <1>2
  <2>q. QED
    BY <1>2, <1>3, <2>1
<1>6. Head(s) \in Range(s)
  <2>1. 1 \in 1..Len(s)
    BY <1>2
  <2>q. QED
    BY <1>2, <1>3, <2>1
<1>7. Head(s) \in S
  BY HeadTailProperties
<1>q. QED
  BY <1>2, <1>3, <1>4, <1>5, <1>6, <1>7

(* What a name of the frame's list becomes when it is taken off.           *)
LEMMA TodoTyped ==
  ASSUME Typed, stack # <<>>, Top.todo # <<>>
  PROVE  /\ Head(Top.todo) \in Names /\ Tail(Top.todo) \in Seq(Names)
         /\ Range(Top.todo) = {Head(Top.todo)} \cup Range(Tail(Top.todo))
         /\ [Top EXCEPT !.todo = Tail(@)] \in Frames(Len(file))
<1>1. Top \in Frames(Len(file)) /\ Top.todo \in Seq(Names)
  BY TopTyped
<1>2. Head(Top.todo) \in Names /\ Tail(Top.todo) \in Seq(Names)
  BY <1>1, HeadTailProperties
<1>3. [Top EXCEPT !.todo = Tail(@)] \in Frames(Len(file))
  BY <1>1, <1>2 DEF Frames
<1>4. Range(Top.todo) = {Head(Top.todo)} \cup Range(Tail(Top.todo))
  BY <1>1, FirstAndRest
<1>q. QED
  BY <1>2, <1>3, <1>4

(* The order a link computes.                                              *)
LEMMA ScheduleTyped ==
  ASSUME Typed, stack # <<>>
  PROVE  /\ Schedule(deps, Top.id) \in Seq(Modules)
         /\ DependenciesFirst(deps, Schedule(deps, Top.id))
         /\ Range(Schedule(deps, Top.id)) \subseteq Modules
<1>1. IsGraph(deps) /\ Modules = 1..Len(deps) /\ Top.id \in 1..Len(deps)
  BY TopTyped, ModulesAre DEF Typed, GraphTyped
<1>2. Reachable(deps, Top.id) \in SUBSET (1..Len(deps))
  BY <1>1, ReachableIsLeast
<1>3. /\ Schedule(deps, Top.id) \in Seq(Reachable(deps, Top.id))
      /\ DependenciesFirst(deps, Schedule(deps, Top.id))
  BY <1>1, <1>2, KahnInOrder DEF Schedule
<1>4. Schedule(deps, Top.id) \in Seq(Modules)
  BY <1>1, <1>2, <1>3, SeqMonotonic
<1>q. QED
  BY <1>3, <1>4, RangeSmall
-----------------------------------------------------------------------------
(* Every step keeps the types.                                             *)

(* So does giving up: nothing is left on the stack.                        *)
LEMMA FailTyped ==
  ASSUME Typed, NEW status, NEW at, Fail(status, at), UNCHANGED <<graph, ran, report>>,
         linked' \subseteq Modules, BoundTyped'
  PROVE  Typed'
<1>1. GraphTyped' /\ Modules' = Modules
  BY DEF Typed, GraphTyped, graph, Modules
<1>2. stack' \in Seq(Frames(Len(file')))
  BY EmptySeq DEF Fail
<1>q. QED
  BY <1>1, <1>2 DEF Typed

(* Steps that leave the graph and what was bound alone.                    *)
LEMMA SameGraphTyped ==
  ASSUME Typed, UNCHANGED <<file, bySoname, bound, report>>, GraphTyped',
         stack' \in Seq(Frames(Len(file))), linked' \subseteq Modules, ran' \subseteq Modules
  PROVE  Typed'
<1>1. Modules' = Modules
  BY DEF Modules
<1>2. BoundTyped'
  BY <1>1 DEF Typed, BoundTyped
<1>q. QED
  BY <1>1, <1>2 DEF Typed

(* A dependency that is in the graph.                                      *)
LEMMA DepLoadedTyped ==
  ASSUME Typed, DepLoaded
  PROVE  Typed'
<1>1. stack # <<>> /\ Top.todo # <<>> /\ bySoname[Head(Top.todo)] \in Modules
  BY DEF DepLoaded, Walking, Typed, GraphTyped
<1>2. Top.id \in Modules /\ [Top EXCEPT !.todo = Tail(@)] \in Frames(Len(file))
  BY <1>1, TopTyped, TodoTyped
<1>3. IsGraph(deps') /\ Len(deps') = Len(deps)
  BY <1>1, <1>2, AddDepTyped DEF DepLoaded, Typed
<1>4. GraphTyped'
  BY <1>3 DEF DepLoaded, Typed, GraphTyped, Modules
<1>5. stack' \in Seq(Frames(Len(file)))
  BY <1>1, <1>2, Replaced DEF DepLoaded
<1>6. linked' \subseteq Modules /\ ran' \subseteq Modules
  BY DEF DepLoaded, Typed
<1>q. QED
  BY <1>4, <1>5, <1>6, SameGraphTyped DEF DepLoaded

(* A dependency nobody provides.                                           *)
LEMMA DepMissingTyped ==
  ASSUME Typed, DepMissing
  PROVE  Typed'
<1>1. stack # <<>> /\ Top.todo # <<>>
  BY DEF DepMissing, Walking
<1>2. [Top EXCEPT !.todo = Tail(@)] \in Frames(Len(file))
  BY <1>1, TodoTyped
<1>3. stack' \in Seq(Frames(Len(file)))
  BY <1>1, <1>2, Replaced DEF DepMissing
<1>4. GraphTyped' /\ linked' \subseteq Modules /\ ran' \subseteq Modules
  BY DEF DepMissing, Typed, GraphTyped, graph, Modules
<1>q. QED
  BY <1>3, <1>4, SameGraphTyped DEF DepMissing, graph

(* A dependency that is provided.                                          *)
LEMMA DepProvidedTyped ==
  ASSUME Typed, LoaderAssumption, DepProvided
  PROVE  Typed'
<1>1. Head(Top.todo) \in Files
  BY DEF DepProvided
<1>2. CASE Enter(Head(Top.todo))
  BY <1>1, <1>2, EnterTyped DEF DepProvided
<1>3. CASE Fail("load", 0) /\ UNCHANGED <<graph, bound>>
  <2>1. UNCHANGED <<graph, ran, report>> /\ linked' \subseteq Modules /\ BoundTyped'
    BY <1>3 DEF DepProvided, Typed, BoundTyped, graph, Modules
  <2>q. QED
    BY <1>3, <2>1, FailTyped
<1>q. QED
  BY <1>2, <1>3 DEF DepProvided

(* A load from outside.                                                    *)
LEMMA LoadAndLinkTyped ==
  ASSUME Typed, LoaderAssumption, NEW f \in Files, LoadAndLink(f)
  PROVE  Typed'
<1>1. CASE Enter(f)
  BY <1>1, EnterTyped DEF LoadAndLink
<1>2. CASE UNCHANGED <<graph, bound, stack>>
  BY <1>2 DEF LoadAndLink, Typed, GraphTyped, BoundTyped, graph, Modules
<1>q. QED
  BY <1>1, <1>2 DEF LoadAndLink

(* Linking the graph below a module.                                       *)
LEMMA LinkTyped ==
  ASSUME Typed, Link
  PROVE  Typed'
<1>1. stack # <<>> /\ UNCHANGED <<graph, ran>>
  BY DEF Link, Walking
<1>0. PICK order \in {Schedule(deps, Top.id)} :
        \/ Fail("cycle", Top.id) /\ UNCHANGED <<linked, bound, report>>
        \/ /\ linked' = linked \cup Range(order) /\ report' = order
           /\ bound' = WithRelocated(Range(order))
           /\ SetTop([Top EXCEPT !.phase = "onload", !.calls = Calls])
        \/ \E k \in DOMAIN order : \E part \in SUBSET Uses[file[order[k]]] :
             /\ linked' = linked \cup {order[i] : i \in 1..(k - 1)}
             /\ bound' = [WithRelocated({order[i] : i \in 1..(k - 1)}) EXCEPT
                            ![order[k]] = Relocated(order[k], part)]
             /\ Fail("link", order[k]) /\ UNCHANGED report
  BY DEF Link
<1>2. Range(order) \subseteq Modules /\ order \in Seq(Modules)
  BY <1>0, <1>1, ScheduleTyped
<1>3. Modules' = Modules /\ file' = file /\ linked \subseteq Modules /\ ran \subseteq Modules
  BY <1>1 DEF Typed, graph, Modules
<1>4. GraphTyped'
  BY <1>1 DEF Typed, GraphTyped, graph, Modules
<1>5. CASE Fail("cycle", Top.id) /\ UNCHANGED <<linked, bound, report>>
  <2>1. linked' \subseteq Modules /\ BoundTyped'
    BY <1>3, <1>5 DEF Typed, BoundTyped
  <2>q. QED
    BY <1>1, <1>5, <2>1, FailTyped
<1>6. CASE /\ linked' = linked \cup Range(order) /\ report' = order
           /\ bound' = WithRelocated(Range(order))
           /\ SetTop([Top EXCEPT !.phase = "onload", !.calls = Calls])
  <2>1. BoundTyped'
    BY <1>3, <1>6, WithRelocatedTyped DEF BoundTyped
  <2>2. [Top EXCEPT !.phase = "onload", !.calls = Calls] \in Frames(Len(file))
    <3>1. Top \in Frames(Len(file)) /\ Modules = 1..Len(file) /\ Calls \subseteq Modules
      BY <1>1, TopTyped, ModulesAre DEF Calls
    <3>2. Calls \subseteq 1..Len(file)
      BY <3>1
    <3>q. QED
      BY <3>1, <3>2 DEF Frames
  <2>3. stack' \in Seq(Frames(Len(file)))
    BY <1>1, <1>6, <2>2, Replaced
  <2>4. linked' \subseteq Modules' /\ ran' \subseteq Modules' /\ Range(report') \subseteq Modules'
    BY <1>1, <1>2, <1>3, <1>6
  <2>q. QED
    BY <1>3, <1>4, <2>1, <2>3, <2>4 DEF Typed
<1>7. ASSUME NEW k \in DOMAIN order, NEW part \in SUBSET Uses[file[order[k]]],
             linked' = linked \cup {order[i] : i \in 1..(k - 1)},
             bound' = [WithRelocated({order[i] : i \in 1..(k - 1)}) EXCEPT
                         ![order[k]] = Relocated(order[k], part)],
             Fail("link", order[k]), UNCHANGED report
      PROVE  Typed'
  <2> DEFINE before == {order[i] : i \in 1..(k - 1)}
             w == WithRelocated(before)
             r == Relocated(order[k], part)
  <2>1. DOMAIN order = 1..Len(order) /\ Len(order) \in Nat /\ order \in [1..Len(order) -> Modules]
    BY <1>2, LenProperties
  <2>2. order[k] \in Modules /\ before \subseteq Modules
    BY <2>1
  <2>3. linked' \subseteq Modules
    BY <1>3, <1>7, <2>2
  <2>4. /\ DOMAIN w = Modules /\ Modules = 1..Len(file) /\ Len(file) \in Nat
        /\ \A m \in Modules : w[m] \in [Uses[file[m]] -> Answers(Len(file))]
    BY WithRelocatedTyped, ModulesAre
  <2>5. r \in [Uses[file[order[k]]] -> Answers(Len(file))]
    BY <2>2, RelocationTyped
  <2>6. DOMAIN bound' = Modules /\ \A m \in Modules : bound'[m] = IF m = order[k] THEN r ELSE w[m]
    BY <1>7, <2>2, <2>4 DEF WithRelocated
  <2> HIDE DEF w, r, before
  <2>7. Len(bound') = Len(file)
    BY <2>4, <2>6, <1>7 DEF w, WithRelocated
  <2>8. BoundTyped'
    BY <1>3, <2>4, <2>5, <2>6, <2>7 DEF BoundTyped
  <2>q. QED
    BY <1>1, <1>7, <2>3, <2>8, FailTyped
<1>q. QED
  BY <1>0, <1>5, <1>6, <1>7

(* JNI_OnLoad without a JavaVM.                                            *)
LEMMA NoJavaVmTyped ==
  ASSUME Typed, NoJavaVm
  PROVE  Typed'
<1>1. PICK m : Fail("onload", m)
  BY DEF NoJavaVm
<1>2. UNCHANGED <<graph, ran, report>> /\ linked' \subseteq Modules /\ BoundTyped'
  BY DEF NoJavaVm, Typed, BoundTyped, graph, Modules
<1>q. QED
  BY <1>1, <1>2, FailTyped

(* One JNI_OnLoad.                                                         *)
LEMMA OnLoadTyped ==
  ASSUME Typed, OnLoad
  PROVE  Typed'
<1>1. stack # <<>> /\ UNCHANGED <<graph, linked, bound, report>>
  BY DEF OnLoad, Calling
<1>2. PICK m \in Top.calls :
        /\ ran' = ran \cup {m}
        /\ SetTop([Top EXCEPT !.calls = @ \ {m}]) \/ Fail("onload", m)
  BY DEF OnLoad
<1>3. ran' \subseteq Modules /\ linked' \subseteq Modules /\ GraphTyped'
  <2>1. Top.calls \subseteq Modules
    BY <1>1, TopTyped
  <2>q. QED
    BY <1>1, <1>2, <2>1 DEF Typed, GraphTyped, graph, Modules
<1>4. stack' \in Seq(Frames(Len(file)))
  <2>1. [Top EXCEPT !.calls = @ \ {m}] \in Frames(Len(file))
    <3>1. Top \in Frames(Len(file))
      BY <1>1, TopTyped
    <3>2. Top.calls \ {m} \in SUBSET (1..Len(file))
      BY <3>1 DEF Frames
    <3>q. QED
      BY <3>1, <3>2 DEF Frames
  <2>2. CASE SetTop([Top EXCEPT !.calls = @ \ {m}])
    BY <1>1, <2>1, <2>2, Replaced
  <2>3. CASE Fail("onload", m)
    BY <2>3, EmptySeq DEF Fail
  <2>q. QED
    BY <1>2, <2>2, <2>3
<1>q. QED
  BY <1>1, <1>3, <1>4, SameGraphTyped DEF graph

(* A frame that is not at work waits for its dependency; one that has      *)
(* walked its list has nothing left of it.                                 *)
Waiting ==
  \A i \in 1..Len(stack) :
    /\ i < Len(stack) => stack[i].phase = "deps" /\ stack[i].todo # <<>>
    /\ stack[i].phase = "onload" => stack[i].todo = <<>>

(* The frame below one at work.                                            *)
LEMMA CallerTyped ==
  ASSUME Typed, Waiting, stack # <<>>, Len(stack) # 1
  PROVE  /\ Len(stack) - 1 \in 1..Len(stack) /\ Len(stack) - 1 < Len(stack)
         /\ stack[Len(stack) - 1] \in Frames(Len(file))
         /\ stack[Len(stack) - 1].id \in Modules
         /\ stack[Len(stack) - 1].todo # <<>> /\ stack[Len(stack) - 1].phase = "deps"
<1>1. \A n \in Nat : n \in 1..n /\ n # 1 => n - 1 \in 1..n /\ n - 1 < n
  OBVIOUS
<1>2. Len(stack) - 1 \in 1..Len(stack) /\ Len(stack) - 1 < Len(stack)
  BY <1>1, TopTyped, ModulesAre
<1>3. stack[Len(stack) - 1] \in Frames(Len(file)) /\ Modules = 1..Len(file)
  BY <1>2, ModulesAre
<1>q. QED
  BY <1>2, <1>3 DEF Waiting, Frames

(* The return of a frame.                                                  *)
LEMMA ReturnTyped ==
  ASSUME Typed, Waiting, Return
  PROVE  Typed'
<1>1. stack # <<>>
  BY DEF Return, Done
<1>2. UNCHANGED <<file, bySoname, linked, bound, ran, report>>
  BY DEF Return
<1>3. linked' \subseteq Modules /\ ran' \subseteq Modules
  BY <1>2 DEF Typed
<1>4. CASE Len(stack) = 1
  <2>1. stack' = <<>> /\ deps' = deps
    BY <1>4 DEF Return
  <2>2. GraphTyped'
    BY <1>2, <2>1 DEF Typed, GraphTyped, Modules
  <2>3. stack' \in Seq(Frames(Len(file)))
    BY <2>1, EmptySeq
  <2>q. QED
    BY <1>2, <1>3, <2>2, <2>3, SameGraphTyped
<1>5. CASE Len(stack) # 1
  <2>1. AddDep(stack[Len(stack) - 1].id, Top.id) /\ PopTop
    BY <1>5 DEF Return, PopTop
  <2>2. /\ stack[Len(stack) - 1].id \in Modules /\ Top.id \in Modules
        /\ stack[Len(stack) - 1].todo # <<>>
    BY <1>1, <1>5, CallerTyped, TopTyped
  <2>3. IsGraph(deps') /\ Len(deps') = Len(deps)
    BY <2>1, <2>2, AddDepTyped DEF Typed
  <2>4. GraphTyped'
    BY <1>2, <2>3 DEF Typed, GraphTyped, Modules
  <2>5. stack' \in Seq(Frames(Len(file)))
    BY <1>1, <1>5, <2>1, <2>2, Popped
  <2>q. QED
    BY <1>2, <1>3, <2>4, <2>5, SameGraphTyped
<1>q. QED
  BY <1>4, <1>5

(* All steps.                                                              *)
LEMMA NextTyped ==
  ASSUME Typed, Waiting, LoaderAssumption, [Next]_vars
  PROVE  Typed'
<1>1. CASE InitJni
  BY <1>1 DEF InitJni, Typed, GraphTyped, BoundTyped, graph, Modules
<1>2. ASSUME NEW f \in Files, LoadAndLink(f) PROVE Typed'
  BY <1>2, LoadAndLinkTyped
<1>3. CASE Advance
  BY <1>3, DepLoadedTyped, DepMissingTyped, DepProvidedTyped, LinkTyped, NoJavaVmTyped,
     OnLoadTyped, ReturnTyped DEF Advance
<1>4. CASE UNCHANGED vars
  BY <1>4 DEF vars, Typed, GraphTyped, BoundTyped, graph, Modules
<1>q. QED
  BY <1>1, <1>2, <1>3, <1>4 DEF Next
-----------------------------------------------------------------------------
(* The stack and the sonames.                                              *)

(* Entering a file pushes a frame for it.                                  *)
LEMMA EnterPushes ==
  ASSUME NEW f, Enter(f)
  PROVE  \E id : stack' = Append(stack, Frame(id, f))
BY DEF Enter, LoadNew

(* Pushing a frame on one that waits for it.                               *)
LEMMA PushWaits ==
  ASSUME Typed, Waiting, stack # <<>> => Top.phase = "deps" /\ Top.todo # <<>>,
         NEW id, NEW f, stack' = Append(stack, Frame(id, f))
  PROVE  Waiting'
<1>1. /\ Len(stack) \in Nat /\ Len(stack') = Len(stack) + 1
      /\ \A i \in 1..Len(stack) : stack'[i] = stack[i]
      /\ stack'[Len(stack) + 1] = Frame(id, f)
  BY Pushed, ModulesAre
<1>2. Frame(id, f).phase = "deps"
  BY DEF Frame
<1>3. ASSUME NEW i \in 1..Len(stack')
      PROVE  /\ i < Len(stack') => stack'[i].phase = "deps" /\ stack'[i].todo # <<>>
             /\ stack'[i].phase = "onload" => stack'[i].todo = <<>>
  <2>1. CASE i = Len(stack) + 1
    BY <1>1, <1>2, <2>1
  <2>2. CASE i \in 1..Len(stack)
    <3>1. stack'[i] = stack[i]
      BY <1>1, <2>2
    <3>2. i = Len(stack) => stack[i].phase = "deps" /\ stack[i].todo # <<>>
      BY <2>2, TopTyped DEF Top
    <3>3. i < Len(stack) \/ i = Len(stack)
      BY <1>1, <2>2
    <3>q. QED
      BY <2>2, <3>1, <3>2, <3>3 DEF Waiting
  <2>q. QED
    BY <1>1, <2>1, <2>2
<1>q. QED
  BY <1>3 DEF Waiting

(* Changing the frame at work.                                             *)
LEMMA SetTopWaits ==
  ASSUME Typed, Waiting, stack # <<>>, NEW f \in Frames(Len(file)), SetTop(f),
         f.phase = "onload" => f.todo = <<>>
  PROVE  Waiting'
<1>1. /\ Len(stack) \in Nat /\ Len(stack') = Len(stack) /\ stack'[Len(stack)] = f
      /\ \A i \in 1..Len(stack) : i < Len(stack) => stack'[i] = stack[i]
  BY Replaced, ModulesAre
<1>q. QED
  BY <1>1 DEF Waiting

(* No step leaves a frame below without its dependency.                    *)
LEMMA NextWaits ==
  ASSUME Typed, Waiting, LoaderAssumption, [Next]_vars
  PROVE  Waiting'
<1>1. CASE stack' = stack
  BY <1>1 DEF Waiting
<1>2. CASE stack' = <<>>
  BY <1>2, EmptySeq DEF Waiting
<1>3. ASSUME NEW f \in Files, LoadAndLink(f) PROVE Waiting'
  BY <1>1, <1>3, EnterPushes, PushWaits DEF LoadAndLink
<1>4. CASE DepLoaded \/ DepMissing
  <2>1. /\ stack # <<>> /\ Top.todo # <<>> /\ Top.phase = "deps"
        /\ SetTop([Top EXCEPT !.todo = Tail(@)])
    BY <1>4 DEF DepLoaded, DepMissing, Walking
  <2>2. [Top EXCEPT !.todo = Tail(@)] \in Frames(Len(file)) /\ Top \in Frames(Len(file))
    BY <2>1, TodoTyped, TopTyped
  <2>3. [Top EXCEPT !.todo = Tail(@)].phase = "deps"
    BY <2>1, <2>2 DEF Frames
  <2>q. QED
    BY <2>1, <2>2, <2>3, SetTopWaits
<1>5. CASE DepProvided
  <2>1. Top.todo # <<>> /\ Top.phase = "deps"
    BY <1>5 DEF DepProvided, Walking
  <2>q. QED
    BY <1>2, <1>5, <2>1, EnterPushes, PushWaits DEF DepProvided, Fail
<1>6. CASE Link
  <2>1. stack # <<>> /\ Top.todo = <<>> /\ Top \in Frames(Len(file))
    BY <1>6, TopTyped DEF Link, Walking
  <2>2. SetTop([Top EXCEPT !.phase = "onload", !.calls = Calls]) \/ stack' = <<>>
    BY <1>6 DEF Link, Fail
  <2>3. [Top EXCEPT !.phase = "onload", !.calls = Calls] \in Frames(Len(file))
    <3>1. Calls \in SUBSET (1..Len(file))
      BY ModulesAre DEF Calls
    <3>q. QED
      BY <2>1, <3>1 DEF Frames
  <2>4. [Top EXCEPT !.phase = "onload", !.calls = Calls].todo = <<>>
    BY <2>1 DEF Frames
  <2>q. QED
    BY <1>2, <2>1, <2>2, <2>3, <2>4, SetTopWaits
<1>7. CASE NoJavaVm
  BY <1>2, <1>7 DEF NoJavaVm, Fail
<1>8. CASE OnLoad
  <2>1. stack # <<>> /\ Top.phase = "onload" /\ Top \in Frames(Len(file)) /\ Len(stack) \in 1..Len(stack)
    BY <1>8, TopTyped DEF OnLoad, Calling
  <2>2. Top.todo = <<>>
    BY <2>1 DEF Waiting, Top
  <2>3. PICK m : SetTop([Top EXCEPT !.calls = @ \ {m}]) \/ stack' = <<>>
    BY <1>8 DEF OnLoad, Fail
  <2>4. [Top EXCEPT !.calls = @ \ {m}] \in Frames(Len(file)) /\ [Top EXCEPT !.calls = @ \ {m}].todo = <<>>
    <3>1. Top.calls \ {m} \in SUBSET (1..Len(file))
      BY <2>1 DEF Frames
    <3>q. QED
      BY <2>1, <2>2, <3>1 DEF Frames
  <2>q. QED
    BY <1>2, <2>1, <2>3, <2>4, SetTopWaits
<1>9. CASE Return
  <2>1. stack # <<>>
    BY <1>9 DEF Return, Done
  <2>2. CASE Len(stack) # 1
    <3>1. PopTop
      BY <1>9, <2>2 DEF Return, PopTop
    <3>2. /\ stack[Len(stack) - 1] \in Frames(Len(file))
          /\ stack[Len(stack) - 1].todo # <<>> /\ stack[Len(stack) - 1].phase = "deps"
      BY <2>1, <2>2, CallerTyped
    <3>3. /\ Len(stack) \in Nat /\ Len(stack') = Len(stack) - 1
          /\ \A i \in 1..Len(stack) : i < Len(stack) - 1 => stack'[i] = stack[i]
          /\ stack'[Len(stack) - 1] = [stack[Len(stack) - 1] EXCEPT !.todo = Tail(@)]
      BY <2>1, <2>2, <3>1, <3>2, Popped
    <3>4. stack'[Len(stack) - 1].phase = "deps"
      BY <3>2, <3>3 DEF Frames
    <3>5. ASSUME NEW i \in 1..Len(stack')
          PROVE  i \in 1..Len(stack) /\ i < Len(stack) /\ (i = Len(stack) - 1 \/ i < Len(stack) - 1)
      BY <3>3
    <3>q. QED
      BY <3>3, <3>4, <3>5 DEF Waiting
  <2>q. QED
    BY <1>2, <1>9, <2>2 DEF Return
<1>q. QED
  BY <1>1, <1>3, <1>4, <1>5, <1>6, <1>7, <1>8, <1>9 DEF Next, Advance, InitJni, vars

(* NoName is no soname.                                                    *)
SonamesSound == SonameIdentity /\ NoName \notin DOMAIN bySoname

(* A file whose soname is not known brings its own.                        *)
LEMMA LoadNewSonames ==
  ASSUME Typed, LoaderAssumption, SonamesSound, NEW f \in Files, ~Known(f), LoadNew(f)
  PROVE  SonamesSound'
<1> DEFINE new == Len(file) + 1
           n == Soname[f]
<1>1. /\ Modules = 1..Len(file) /\ Len(file) \in Nat /\ Modules' = 1..new
      /\ \A m \in Modules : file'[m] = file[m] /\ m # new
      /\ file'[new] = f
  BY ModulesAre, LoadNewMakes
<1>2. \A m \in Modules' : m \in Modules \/ m = new
  BY <1>1
<1>3. \A x \in DOMAIN bySoname : bySoname[x] \in Modules
  BY DEF Typed, GraphTyped
<1>4. n \notin DOMAIN bySoname
  BY DEF Known
<1>5. CASE n = NoName
  <2>1. bySoname' = bySoname
    BY <1>5 DEF LoadNew, Registered
  <2>q. QED
    BY <1>1, <1>2, <1>3, <1>5, <2>1 DEF SonamesSound, SonameIdentity
<1>6. CASE n # NoName
  <2>1. bySoname' = Bind(bySoname, n, new)
    BY <1>6 DEF LoadNew, Registered
  <2>2. DOMAIN bySoname' = DOMAIN bySoname \cup {n} /\ bySoname'[n] = new
        /\ \A x \in DOMAIN bySoname : bySoname'[x] = bySoname[x]
    BY <2>1, <1>4 DEF Bind
  <2> HIDE DEF n, new
  <2>3. n = Soname[f]
    BY DEF n
  <2>4. ASSUME NEW m \in Modules', Soname[file'[m]] # NoName
        PROVE  Soname[file'[m]] \in DOMAIN bySoname' /\ bySoname'[Soname[file'[m]]] = m
    BY <1>1, <1>2, <2>2, <2>3, <2>4 DEF SonamesSound, SonameIdentity
  <2>5. ASSUME NEW x \in DOMAIN bySoname' PROVE Soname[file'[bySoname'[x]]] = x
    BY <1>1, <1>3, <2>2, <2>3 DEF SonamesSound, SonameIdentity
  <2>6. NoName \notin DOMAIN bySoname'
    BY <1>6, <2>2 DEF SonamesSound
  <2>q. QED
    BY <2>4, <2>5, <2>6 DEF SonamesSound, SonameIdentity
<1>q. QED
  BY <1>5, <1>6

(* Only a new module changes files and sonames.                            *)
LEMMA GraphGrows ==
  ASSUME [Next]_vars
  PROVE  UNCHANGED <<file, bySoname>> \/ \E f \in Files : ~Known(f) /\ LoadNew(f)
BY DEF Next, Advance, InitJni, LoadAndLink, Enter, DepLoaded, DepMissing, DepProvided, Link,
       NoJavaVm, OnLoad, Return, vars, graph

(* The sonames stay in order.                                              *)
LEMMA NextSonames ==
  ASSUME Typed, LoaderAssumption, SonamesSound, [Next]_vars
  PROVE  SonamesSound'
<1>1. CASE UNCHANGED <<file, bySoname>>
  BY <1>1 DEF SonamesSound, SonameIdentity, Modules
<1>q. QED
  BY <1>1, GraphGrows, LoadNewSonames

GraphInv == Typed /\ Waiting /\ SonamesSound

(* It holds at first and is kept.                                          *)
LEMMA GraphInvInit ==
  ASSUME LoaderAssumption, Init
  PROVE  GraphInv
<1>1. /\ file = <<>> /\ deps = <<>> /\ bound = <<>> /\ stack = <<>> /\ report = <<>>
      /\ linked = {} /\ ran = {} /\ bySoname = [n \in {} |-> n]
  BY DEF Init
<1>2. Modules = {} /\ Len(file) = 0 /\ Len(deps) = 0 /\ Len(bound) = 0 /\ Len(stack) = 0
      /\ DOMAIN bound = {}
  BY <1>1 DEF Modules
<1>3. IsGraph(deps)
  BY <1>1, <1>2 DEF IsGraph
<1>4. GraphTyped /\ BoundTyped
  BY <1>1, <1>2, <1>3, EmptySeq DEF GraphTyped, BoundTyped
<1>5. Typed
  BY <1>1, <1>2, <1>4, EmptySeq DEF Typed, Range
<1>6. Waiting /\ SonamesSound
  BY <1>1, <1>2 DEF Waiting, SonamesSound, SonameIdentity
<1>q. QED
  BY <1>5, <1>6 DEF GraphInv

(* Every step keeps it.                                                    *)
LEMMA GraphInvNext ==
  ASSUME LoaderAssumption, GraphInv, [Next]_vars
  PROVE  GraphInv'
BY NextTyped, NextWaits, NextSonames DEF GraphInv

(* What the run checks follows from it.                                    *)
LEMMA TypedIsTypeOK ==
  ASSUME Typed
  PROVE  TypeOK
<1>1. /\ Modules = 1..Len(file) /\ \A m \in Modules : deps[m] \in Seq(Modules)
      /\ DOMAIN stack = 1..Len(stack) /\ \A i \in 1..Len(stack) : stack[i] \in Frames(Len(file))
  BY ModulesAre
<1>2. \A m \in Modules : Range(deps[m]) \subseteq Modules
  BY <1>1, RangeSmall
<1>3. \A i \in DOMAIN stack : stack[i].id \in Modules /\ stack[i].calls \subseteq Modules
  BY <1>1 DEF Frames
<1>4. \A m \in Modules : \A s \in DOMAIN bound[m] : bound[m][s] \in {{}} \cup {{x} : x \in Modules}
  <2>1. ASSUME NEW m \in Modules, NEW s \in DOMAIN bound[m]
        PROVE  bound[m][s] \in {{}} \cup {{x} : x \in Modules}
    <3>1. bound[m] \in [Uses[file[m]] -> Answers(Len(file))]
      BY DEF Typed, BoundTyped
    <3>2. bound[m][s] \in Answers(Len(file))
      BY <3>1
    <3>q. QED
      BY <1>1, <3>2 DEF Answers
  <2>q. QED
    BY <2>1
<1>q. QED
  BY <1>2, <1>3, <1>4 DEF TypeOK, Typed, GraphTyped, BoundTyped

(* The module graph is sound in every execution: modules and edges are of  *)
(* loaded modules, a relocation wrote the address of one of them, and a    *)
(* soname stands for one module, the one that has it.                      *)
THEOREM GraphIsSound == Spec => []GraphSound
<1> USE LoaderAssumption
<1>1. Init => GraphInv
  BY GraphInvInit
<1>2. GraphInv /\ [Next]_vars => GraphInv'
  BY GraphInvNext
<1>3. GraphInv => GraphSound
  BY TypedIsTypeOK DEF GraphInv, SonamesSound, GraphSound
<1>q. QED
  BY <1>1, <1>2, <1>3, PTL DEF Spec

(* A new report is the order of a link, which leaves the graph alone.      *)
LEMMA ReportOrdered ==
  ASSUME GraphInv, [Next]_vars, report' # report
  PROVE  DependenciesFirst(deps', report')
<1>1. Link
  BY DEF Next, Advance, InitJni, LoadAndLink, DepLoaded, DepMissing, DepProvided,
         NoJavaVm, OnLoad, Return, vars
<1>2. stack # <<>> /\ deps' = deps
  BY <1>1 DEF Link, Walking, graph
<1>3. report' = Schedule(deps, Top.id)
  BY <1>1 DEF Link
<1>q. QED
  BY <1>2, <1>3, ScheduleTyped DEF GraphInv

(* Every successful link, in every execution, orders the modules it        *)
(* relocates so that a module comes after all it depends on.               *)
THEOREM DependenciesAreFirst == Spec => InitOrder
<1> USE LoaderAssumption
<1>1. Init => GraphInv
  BY GraphInvInit
<1>2. GraphInv /\ [Next]_vars => GraphInv'
  BY GraphInvNext
<1>3. GraphInv /\ [Next]_vars => [report' # report => DependenciesFirst(deps', report')]_vars
  BY ReportOrdered
<1>q. QED
  BY <1>1, <1>2, <1>3, PTL DEF Spec, InitOrder
-----------------------------------------------------------------------------
(* What a load that returns has done.                                      *)

(* Between its link and its return a frame owes the calls it has left; the *)
(* graph below it is relocated.                                            *)
Owed ==
  stack # <<>> /\ Top.phase = "onload" =>
    Calls \subseteq ran \cup Top.calls /\ Reachable(deps, Top.id) \subseteq linked

Paid ==
  stack = <<>> /\ last.status = "ok" =>
    /\ last.at \in Modules /\ Calls \subseteq ran
    /\ Reachable(deps, last.at) \subseteq linked

CallsInv == GraphInv /\ Owed /\ Paid

(* A frame that was pushed or changed and still walks its list owes        *)
(* nothing yet.                                                            *)
LEMMA WalkingOwesNothing ==
  ASSUME stack' # <<>>, Top'.phase = "deps"
  PROVE  Owed' /\ Paid'
BY DEF Owed, Paid

(* Nor does a load that failed.                                            *)
LEMMA FailedOwesNothing ==
  ASSUME stack' = <<>>, last'.status # "ok"
  PROVE  Owed' /\ Paid'
BY DEF Owed, Paid

(* Failures are failures.                                                  *)
LEMMA FailFails ==
  ASSUME NEW status, NEW at, Fail(status, at), status # "ok"
  PROVE  stack' = <<>> /\ last'.status # "ok"
BY DEF Fail

(* A step that pushes a frame.                                             *)
LEMMA EnterWalks ==
  ASSUME Typed, NEW f, Enter(f)
  PROVE  stack' # <<>> /\ Top'.phase = "deps"
<1>1. PICK id : stack' = Append(stack, Frame(id, f))
  BY EnterPushes
<1>q. QED
  BY <1>1, Pushed DEF Frame

(* Calls are paid one by one, and a load that returns has none left.       *)
LEMMA NextCalls ==
  ASSUME LoaderAssumption, CallsInv, [Next]_vars
  PROVE  Owed' /\ Paid'
<1>0. Typed /\ Waiting
  BY DEF CallsInv, GraphInv
<1>1. CASE UNCHANGED <<graph, stack, linked, ran, last>>
  BY <1>1 DEF CallsInv, Owed, Paid, graph, Top, Calls, Modules
<1>2. ASSUME NEW f \in Files, LoadAndLink(f) PROVE Owed' /\ Paid'
  <2>1. CASE Enter(f)
    BY <1>0, <2>1, EnterWalks, WalkingOwesNothing
  <2>2. CASE stack' = stack /\ last' = [file |-> f, status |-> "load", at |-> 0]
    BY <1>2, <2>2, FailedOwesNothing DEF LoadAndLink
  <2>q. QED
    BY <1>2, <2>1, <2>2 DEF LoadAndLink
<1>3. CASE DepLoaded \/ DepMissing
  <2>1. stack # <<>> /\ Top.todo # <<>> /\ Top.phase = "deps" /\ SetTop([Top EXCEPT !.todo = Tail(@)])
    BY <1>3 DEF DepLoaded, DepMissing, Walking
  <2>2. [Top EXCEPT !.todo = Tail(@)] \in Frames(Len(file)) /\ Top \in Frames(Len(file))
    BY <1>0, <2>1, TodoTyped, TopTyped
  <2>3. stack' # <<>> /\ Top' = [Top EXCEPT !.todo = Tail(@)]
    BY <1>0, <2>1, <2>2, Replaced
  <2>4. Top'.phase = "deps"
    BY <2>1, <2>2, <2>3 DEF Frames
  <2>q. QED
    BY <2>3, <2>4, WalkingOwesNothing
<1>4. CASE DepProvided
  <2>1. CASE Enter(Head(Top.todo))
    BY <1>0, <2>1, EnterWalks, WalkingOwesNothing
  <2>2. CASE Fail("load", 0)
    BY <2>2, FailFails, FailedOwesNothing
  <2>q. QED
    BY <1>4, <2>1, <2>2 DEF DepProvided
<1>5. CASE Link
  <2>1. stack # <<>> /\ Top \in Frames(Len(file)) /\ UNCHANGED <<graph, ran>>
    BY <1>0, <1>5, TopTyped DEF Link, Walking
  <2>2. \/ \E status, at : Fail(status, at) /\ status # "ok"
        \/ /\ Complete(deps, Top.id, Schedule(deps, Top.id))
           /\ linked' = linked \cup Range(Schedule(deps, Top.id))
           /\ SetTop([Top EXCEPT !.phase = "onload", !.calls = Calls])
    <3> DEFINE s == Schedule(deps, Top.id)
    <3>1. \/ Fail("cycle", Top.id)
          \/ \E k : Fail("link", s[k])
          \/ /\ Complete(deps, Top.id, s) /\ linked' = linked \cup Range(s)
             /\ SetTop([Top EXCEPT !.phase = "onload", !.calls = Calls])
      BY <1>5 DEF Link
    <3>q. QED
      BY <3>1
  <2>3. CASE /\ Complete(deps, Top.id, Schedule(deps, Top.id))
             /\ linked' = linked \cup Range(Schedule(deps, Top.id))
             /\ SetTop([Top EXCEPT !.phase = "onload", !.calls = Calls])
    <3>1. [Top EXCEPT !.phase = "onload", !.calls = Calls] \in Frames(Len(file))
      <4>1. Calls \in SUBSET (1..Len(file))
        BY <1>0, ModulesAre DEF Calls
      <4>q. QED
        BY <2>1, <4>1 DEF Frames
    <3>2. stack' # <<>> /\ Top' = [Top EXCEPT !.phase = "onload", !.calls = Calls]
      BY <1>0, <2>1, <2>3, <3>1, Replaced
    <3>3. Top'.calls = Calls /\ Top'.id = Top.id
      BY <2>1, <3>2 DEF Frames
    <3>4. Calls' = Calls /\ deps' = deps
      BY <2>1 DEF Calls, Modules, graph
    <3>5. Reachable(deps, Top.id) \subseteq linked'
      BY <2>3 DEF Complete
    <3>6. Calls' \subseteq ran' \cup Top'.calls /\ Reachable(deps', Top'.id) \subseteq linked'
      BY <3>3, <3>4, <3>5
    <3>q. QED
      BY <3>2, <3>6 DEF Owed, Paid
  <2>q. QED
    BY <2>2, <2>3, FailFails, FailedOwesNothing
<1>6. CASE NoJavaVm
  BY <1>6, FailFails, FailedOwesNothing DEF NoJavaVm
<1>7. CASE OnLoad
  <2>1. stack # <<>> /\ Top.phase = "onload" /\ Top \in Frames(Len(file)) /\ UNCHANGED <<graph, linked>>
    BY <1>0, <1>7, TopTyped DEF OnLoad, Calling
  <2>2. PICK m : /\ ran' = ran \cup {m}
                 /\ SetTop([Top EXCEPT !.calls = @ \ {m}]) \/ Fail("onload", m)
    BY <1>7 DEF OnLoad
  <2>3. CASE SetTop([Top EXCEPT !.calls = @ \ {m}])
    <3>1. [Top EXCEPT !.calls = @ \ {m}] \in Frames(Len(file))
      <4>1. Top.calls \ {m} \in SUBSET (1..Len(file))
        BY <2>1 DEF Frames
      <4>q. QED
        BY <2>1, <4>1 DEF Frames
    <3>2. stack' # <<>> /\ Top' = [Top EXCEPT !.calls = @ \ {m}]
      BY <1>0, <2>1, <2>3, <3>1, Replaced
    <3>3. Top'.calls = Top.calls \ {m} /\ Top'.id = Top.id
      BY <2>1, <3>2 DEF Frames
    <3>4. Calls' = Calls /\ deps' = deps /\ linked' = linked
      BY <2>1 DEF Calls, Modules, graph
    <3>5. Calls \subseteq ran \cup Top.calls /\ Reachable(deps, Top.id) \subseteq linked
      BY <2>1 DEF CallsInv, Owed
    <3>6. Calls' \subseteq ran' \cup Top'.calls /\ Reachable(deps', Top'.id) \subseteq linked'
      BY <2>2, <3>3, <3>4, <3>5
    <3>q. QED
      BY <3>2, <3>6 DEF Owed, Paid
  <2>q. QED
    BY <2>2, <2>3, FailFails, FailedOwesNothing
<1>8. CASE Return
  <2>1. /\ stack # <<>> /\ Top.phase = "onload" /\ Top.calls = {} /\ Top.id \in Modules
        /\ UNCHANGED <<file, linked, ran>>
    BY <1>0, <1>8, TopTyped DEF Return, Done
  <2>2. CASE Len(stack) = 1
    <3>1. /\ stack' = <<>> /\ deps' = deps
          /\ last' = [file |-> Top.file, status |-> "ok", at |-> Top.id]
      BY <1>8, <2>2 DEF Return
    <3>2. last'.at = Top.id
      BY <3>1
    <3>3. Calls \subseteq ran /\ Reachable(deps, Top.id) \subseteq linked
      BY <2>1 DEF CallsInv, Owed
    <3>4. Calls' = Calls /\ Modules' = Modules
      BY <2>1 DEF Calls, Modules
    <3>5. last'.at \in Modules' /\ Calls' \subseteq ran' /\ Reachable(deps', last'.at) \subseteq linked'
      BY <2>1, <3>1, <3>2, <3>3, <3>4
    <3>q. QED
      BY <3>1, <3>5 DEF Owed, Paid
  <2>3. CASE Len(stack) # 1
    <3>1. PopTop
      BY <1>8, <2>3 DEF Return, PopTop
    <3>2. /\ stack[Len(stack) - 1] \in Frames(Len(file))
          /\ stack[Len(stack) - 1].todo # <<>> /\ stack[Len(stack) - 1].phase = "deps"
      BY <1>0, <2>1, <2>3, CallerTyped
    <3>3. stack' # <<>> /\ Top' = [stack[Len(stack) - 1] EXCEPT !.todo = Tail(@)]
      BY <1>0, <2>1, <2>3, <3>1, <3>2, Popped
    <3>4. Top'.phase = "deps"
      BY <3>2, <3>3 DEF Frames
    <3>q. QED
      BY <3>3, <3>4, WalkingOwesNothing
  <2>q. QED
    BY <2>2, <2>3
<1>q. QED
  BY <1>1, <1>2, <1>3, <1>4, <1>5, <1>6, <1>7, <1>8 DEF Next, Advance, InitJni, vars

(* Nothing is owed at first.                                               *)
LEMMA CallsInvInit ==
  ASSUME LoaderAssumption, Init
  PROVE  CallsInv
BY GraphInvInit DEF Init, CallsInv, Owed, Paid

(* Every step keeps the account.                                           *)
LEMMA CallsInvNext ==
  ASSUME LoaderAssumption, CallsInv, [Next]_vars
  PROVE  CallsInv'
BY NextCalls, GraphInvNext DEF CallsInv

(* However loads nest, fail and repeat: when one returns, every module of  *)
(* the graph that exports JNI_OnLoad has run it.                           *)
THEOREM AllHaveRun == Spec => []AllRan
<1> USE LoaderAssumption
<1>1. Init => CallsInv
  BY CallsInvInit
<1>2. CallsInv /\ [Next]_vars => CallsInv'
  BY CallsInvNext
<1>3. CallsInv => AllRan
  BY DEF CallsInv, Paid, AllRan, Calls
<1>q. QED
  BY <1>1, <1>2, <1>3, PTL DEF Spec
-----------------------------------------------------------------------------
(* What a load that returns has loaded.                                    *)

(* The provider is asked for a soname and answers the file that has it, or *)
(* one without a soname: the contract load_and_link states of its          *)
(* dep_provider.                                                           *)
SonamesMatch == \A f \in Files : Soname[f] \in {f, NoName}

(* A frame works on the module of its file, on names that file needs; one  *)
(* that waits waits for the file of the frame above it.                    *)
Named ==
  \A i \in 1..Len(stack) :
    /\ file[stack[i].id] = stack[i].file
    /\ Range(stack[i].todo) \subseteq Range(Needed[stack[i].file])
    /\ i < Len(stack) => Head(stack[i].todo) = stack[i + 1].file

(* A dependency is needed.                                                 *)
Edged == \A m \in Modules : \A d \in Range(deps[m]) : file[d] \in Range(Needed[file[m]])

Joined(m, g) == \E d \in Range(deps[m]) : file[d] = g

Pending(m, g) == \E i \in 1..Len(stack) : stack[i].id = m /\ g \in Range(stack[i].todo)

(* What is needed and provided is a dependency or on some frame's list.    *)
Pursued ==
  clean => \A m \in Modules : \A g \in Range(Needed[file[m]]) \cap Files :
             Joined(m, g) \/ Pending(m, g)

Rooted == stack = <<>> /\ last.status = "ok" => file[last.at] = last.file

FilesNamed == Named /\ Edged /\ Pursued /\ Rooted

FilesInv == CallsInv /\ FilesNamed

(* A soname stands for the file provided under it.                         *)
LEMMA SonameNames ==
  ASSUME Typed, SonamesSound, SonamesMatch, NEW n \in DOMAIN bySoname
  PROVE  bySoname[n] \in Modules /\ file[bySoname[n]] = n
<1>1. bySoname[n] \in Modules
  BY DEF Typed, GraphTyped
<1>2. file[bySoname[n]] \in Files
  BY <1>1, ModulesAre
<1>3. Soname[file[bySoname[n]]] = n /\ n # NoName
  BY DEF SonamesSound, SonameIdentity
<1>q. QED
  BY <1>1, <1>2, <1>3 DEF SonamesMatch

(* Dependencies are modules.                                               *)
LEMMA DepsAreModules ==
  ASSUME Typed, NEW m \in Modules
  PROVE  Range(deps[m]) \subseteq Modules
BY ModulesAre, RangeSmall

Same(m) == file'[m] = file[m] /\ deps'[m] = deps[m]

(* Entering a file puts a frame on a module of that file; only a new       *)
(* module, which depends on nothing yet, changes the graph.                *)
LEMMA EnterFiles ==
  ASSUME Typed, SonamesSound, SonamesMatch, LoaderAssumption, NEW f \in Files, Enter(f)
  PROVE  \E id \in Modules' :
           /\ stack' = Append(stack, Frame(id, f)) /\ file'[id] = f
           /\ Modules \subseteq Modules' /\ \A m \in Modules : Same(m)
           /\ \A m \in Modules' \ Modules : m = id /\ deps'[m] = <<>>
<1>1. CASE /\ Known(f) /\ UNCHANGED graph
           /\ stack' = Append(stack, Frame(bySoname[Soname[f]], f))
  <2>1. Soname[f] \in DOMAIN bySoname /\ Soname[f] # NoName
    BY <1>1 DEF Known, SonamesSound
  <2>2. Soname[f] = f
    BY <2>1 DEF SonamesMatch
  <2>3. bySoname[Soname[f]] \in Modules /\ file[bySoname[Soname[f]]] = f
    BY <2>1, <2>2, SonameNames
  <2>4. Modules' = Modules /\ \A m \in Modules : Same(m)
    BY <1>1 DEF graph, Modules, Same
  <2>q. QED
    BY <1>1, <2>3, <2>4 DEF Same
<1>2. CASE LoadNew(f)
  <2>1. /\ Modules = 1..Len(file) /\ Len(file) \in Nat /\ Modules' = 1..Len(file) + 1
        /\ \A m \in Modules : Same(m)
        /\ file'[Len(file) + 1] = f /\ deps'[Len(file) + 1] = <<>>
    BY <1>2, ModulesAre, LoadNewMakes DEF Same
  <2>2. Len(file) + 1 \in Modules' /\ Modules \subseteq Modules'
    BY <2>1
  <2>3. \A m \in Modules' \ Modules : m = Len(file) + 1
    BY <2>1
  <2>4. stack' = Append(stack, Frame(Len(file) + 1, f))
    BY <1>2 DEF LoadNew
  <2>q. QED
    BY <2>1, <2>2, <2>3, <2>4
<1>q. QED
  BY <1>1, <1>2 DEF Enter

(* It keeps the books.                                                     *)
LEMMA EnterKeeps ==
  ASSUME Typed, SonamesSound, SonamesMatch, LoaderAssumption, FilesNamed, NEW f \in Files, Enter(f),
         stack # <<>> => Head(Top.todo) = f
  PROVE  FilesNamed'
<1> DEFINE n == Len(stack)
<1>1. PICK id \in Modules' :
        /\ stack' = Append(stack, Frame(id, f)) /\ file'[id] = f
        /\ Modules \subseteq Modules' /\ \A m \in Modules : Same(m)
        /\ \A m \in Modules' \ Modules : m = id /\ deps'[m] = <<>>
  BY EnterFiles
<1>2. /\ n \in Nat /\ Len(stack') = n + 1 /\ stack' # <<>>
      /\ \A i \in 1..n : stack'[i] = stack[i] /\ stack[i].id \in Modules
      /\ stack'[n + 1] = Frame(id, f)
      /\ \A i \in 1..Len(stack') : i \in 1..n \/ i = n + 1
  <2>1. n \in Nat /\ \A i \in 1..n : stack[i].id \in Modules
    BY ModulesAre DEF Frames
  <2>2. /\ Len(stack') = n + 1 /\ stack' # <<>> /\ \A i \in 1..n : stack'[i] = stack[i]
        /\ stack'[n + 1] = Frame(id, f)
    BY <1>1, Pushed
  <2>q. QED
    BY <2>1, <2>2
<1>3. Frame(id, f).id = id /\ Frame(id, f).file = f /\ Frame(id, f).todo = Needed[f]
  BY DEF Frame
<1>4. Named'
  <2>1. ASSUME NEW i \in 1..n
        PROVE  /\ file'[stack'[i].id] = stack'[i].file
               /\ Range(stack'[i].todo) \subseteq Range(Needed[stack'[i].file])
               /\ Head(stack'[i].todo) = stack'[i + 1].file
    <3>1. /\ stack'[i] = stack[i] /\ file'[stack[i].id] = file[stack[i].id]
          /\ file[stack[i].id] = stack[i].file
          /\ Range(stack[i].todo) \subseteq Range(Needed[stack[i].file])
          /\ i < n => Head(stack[i].todo) = stack[i + 1].file
      BY <1>1, <1>2 DEF Same, FilesNamed, Named
    <3>2. CASE i < n
      <4>1. i + 1 \in 1..n
        BY <1>2, <3>2
      <4>q. QED
        BY <1>2, <3>1, <3>2, <4>1
    <3>3. CASE i = n
      <4>1. stack # <<>>
        BY <3>3
      <4>q. QED
        BY <1>2, <1>3, <3>1, <3>3, <4>1 DEF Top
    <3>q. QED
      BY <1>2, <3>2, <3>3
  <2>2. /\ file'[stack'[n + 1].id] = stack'[n + 1].file
        /\ Range(stack'[n + 1].todo) \subseteq Range(Needed[stack'[n + 1].file])
    BY <1>1, <1>2, <1>3
  <2>3. ASSUME NEW i \in 1..Len(stack'), i < Len(stack') PROVE i \in 1..n
    BY <1>2, <2>3
  <2>4. ASSUME NEW i \in 1..Len(stack')
        PROVE  /\ file'[stack'[i].id] = stack'[i].file
               /\ Range(stack'[i].todo) \subseteq Range(Needed[stack'[i].file])
               /\ i < Len(stack') => Head(stack'[i].todo) = stack'[i + 1].file
    BY <1>2, <2>1, <2>2, <2>3
  <2>q. QED
    BY <2>4 DEF Named
<1>5. Edged'
  <2>1. ASSUME NEW m \in Modules', NEW d \in Range(deps'[m]) PROVE file'[d] \in Range(Needed[file'[m]])
    <3>1. CASE m \in Modules
      <4>1. file'[m] = file[m] /\ deps'[m] = deps[m] /\ d \in Modules
        BY <1>1, <3>1, DepsAreModules DEF Same
      <4>2. file'[d] = file[d] /\ file[d] \in Range(Needed[file[m]])
        BY <1>1, <3>1, <4>1 DEF Same, FilesNamed, Edged
      <4>q. QED
        BY <4>1, <4>2
    <3>2. CASE m \notin Modules
      BY <1>1, <3>2 DEF Range
    <3>q. QED
      BY <3>1, <3>2
  <2>q. QED
    BY <2>1 DEF Edged
<1>6. Pursued'
  <2>1. ASSUME clean, NEW m \in Modules', NEW g \in Range(Needed[file'[m]]) \cap Files
        PROVE  Joined(m, g)' \/ Pending(m, g)'
    <3>1. CASE m \in Modules
      <4>1. file'[m] = file[m] /\ deps'[m] = deps[m] /\ Range(deps[m]) \subseteq Modules
        BY <1>1, <3>1, DepsAreModules DEF Same
      <4>2. Joined(m, g) \/ Pending(m, g)
        BY <2>1, <3>1, <4>1 DEF FilesNamed, Pursued
      <4>3. Joined(m, g) => Joined(m, g)'
        BY <1>1, <4>1 DEF Joined, Same
      <4>4. Pending(m, g) => Pending(m, g)'
        BY <1>2 DEF Pending
      <4>q. QED
        BY <4>2, <4>3, <4>4
    <3>2. CASE m \notin Modules
      <4>1. m = id /\ g \in Range(Needed[f])
        BY <1>1, <3>2
      <4>2. n + 1 \in 1..Len(stack')
        BY <1>2
      <4>q. QED
        BY <1>2, <1>3, <4>1, <4>2 DEF Pending
    <3>q. QED
      BY <3>1, <3>2
  <2>2. clean' = clean
    BY DEF Enter, LoadNew
  <2>q. QED
    BY <2>1, <2>2 DEF Pursued
<1>7. Rooted'
  BY <1>2 DEF Rooted
<1>q. QED
  BY <1>4, <1>5, <1>6, <1>7 DEF FilesNamed

(* So does taking a name off the list of frame j with those above it done, *)
(* if a file of that name becomes a dependency when there is one.          *)
Taken(j) ==
  /\ j \in 1..Len(stack) /\ stack[j].todo # <<>>
  /\ \A i \in 1..Len(stack) : i > j => stack[i].todo = <<>>
  /\ Len(stack') = j /\ stack' # <<>>
  /\ \A i \in 1..Len(stack) : i < j => stack'[i] = stack[i]
  /\ stack'[j] = [stack[j] EXCEPT !.todo = Tail(@)]

NewEdge(j) ==
  /\ file' = file /\ clean' = clean
  /\ \A m \in Modules : Range(deps[m]) \subseteq Range(deps'[m])
  /\ \A m \in Modules : \A d \in Range(deps'[m]) :
       d \in Range(deps[m]) \/ (m = stack[j].id /\ file[d] = Head(stack[j].todo))
  /\ Head(stack[j].todo) \in Files =>
       \E d \in Range(deps'[stack[j].id]) : file[d] = Head(stack[j].todo)

(* The frame that took a name off.                                         *)
LEMMA TakenFrame ==
  ASSUME Typed, NEW j, Taken(j)
  PROVE  /\ j \in 1..Len(stack) /\ stack[j].id \in Modules
         /\ stack'[j].id = stack[j].id /\ stack'[j].file = stack[j].file
         /\ stack'[j].todo = Tail(stack[j].todo)
         /\ Range(stack[j].todo) = {Head(stack[j].todo)} \cup Range(stack'[j].todo)
<1>1. stack[j] \in Frames(Len(file)) /\ Modules = 1..Len(file)
  BY ModulesAre DEF Taken
<1>2. stack[j].todo \in Seq(Names) /\ stack[j].todo # <<>> /\ stack[j].id \in Modules
  BY <1>1 DEF Frames, Taken
<1>3. /\ stack'[j].id = stack[j].id /\ stack'[j].file = stack[j].file
      /\ stack'[j].todo = Tail(stack[j].todo)
  BY <1>1 DEF Frames, Taken
<1>q. QED
  BY <1>2, <1>3, FirstAndRest DEF Taken

(* What is not taken off stays pursued.                                    *)
LEMMA TakenKeeps ==
  ASSUME Typed, FilesNamed, NEW j, Taken(j), NewEdge(j)
  PROVE  FilesNamed'
<1>1. /\ j \in 1..Len(stack) /\ stack[j].id \in Modules /\ Len(stack) \in Nat
      /\ stack'[j].id = stack[j].id /\ stack'[j].file = stack[j].file
      /\ stack'[j].todo = Tail(stack[j].todo)
      /\ Range(stack[j].todo) = {Head(stack[j].todo)} \cup Range(stack'[j].todo)
  BY TakenFrame, ModulesAre
<1>2. /\ Len(stack') = j /\ \A i \in 1..j : i < j => stack'[i] = stack[i] /\ i \in 1..Len(stack)
      /\ Modules' = Modules /\ file' = file
  BY <1>1 DEF Taken, NewEdge, Modules
<1>3. /\ file[stack[j].id] = stack[j].file
      /\ Range(stack[j].todo) \subseteq Range(Needed[stack[j].file])
  BY <1>1 DEF FilesNamed, Named
<1>4. Named'
  <2>1. ASSUME NEW i \in 1..j
        PROVE  /\ file[stack'[i].id] = stack'[i].file
               /\ Range(stack'[i].todo) \subseteq Range(Needed[stack'[i].file])
               /\ i < j => Head(stack'[i].todo) = stack'[i + 1].file
    <3>1. CASE i = j
      BY <1>1, <1>3, <3>1
    <3>2. CASE i < j
      <4>1. /\ stack'[i] = stack[i] /\ i \in 1..Len(stack) /\ i < Len(stack)
            /\ i + 1 = j \/ (i + 1 < j /\ i + 1 \in 1..j)
        BY <1>1, <1>2, <3>2
      <4>2. stack'[i + 1].file = stack[i + 1].file
        BY <1>1, <1>2, <4>1
      <4>q. QED
        BY <4>1, <4>2 DEF FilesNamed, Named
    <3>q. QED
      BY <1>1, <3>1, <3>2
  <2>q. QED
    BY <1>2, <2>1 DEF Named
<1>5. Edged'
  <2>1. ASSUME NEW m \in Modules, NEW d \in Range(deps'[m]) PROVE file[d] \in Range(Needed[file[m]])
    <3>1. CASE d \in Range(deps[m])
      BY <3>1 DEF FilesNamed, Edged
    <3>2. CASE m = stack[j].id /\ file[d] = Head(stack[j].todo)
      BY <1>1, <1>3, <3>2
    <3>q. QED
      BY <3>1, <3>2 DEF NewEdge
  <2>q. QED
    BY <1>2, <2>1 DEF Edged
<1>6. Pursued'
  <2>1. ASSUME clean, NEW m \in Modules, NEW g \in Range(Needed[file[m]]) \cap Files
        PROVE  Joined(m, g)' \/ Pending(m, g)'
    <3>1. CASE Joined(m, g)
      BY <1>2, <3>1 DEF Joined, NewEdge
    <3>2. ASSUME NEW i \in 1..Len(stack), stack[i].id = m, g \in Range(stack[i].todo)
          PROVE  Joined(m, g)' \/ Pending(m, g)'
      <4>1. CASE i < j
        <5>1. i \in 1..j
          BY <1>1, <4>1
        <5>q. QED
          BY <1>2, <3>2, <4>1, <5>1 DEF Pending
      <4>2. CASE i > j
        BY <3>2, <4>2 DEF Taken, Range
      <4>3. CASE i = j /\ g = Head(stack[j].todo)
        BY <1>2, <3>2, <4>3 DEF Joined, NewEdge
      <4>4. CASE i = j /\ g \in Range(stack'[j].todo)
        <5>1. j \in 1..Len(stack')
          BY <1>1, <1>2
        <5>q. QED
          BY <1>1, <3>2, <4>4, <5>1 DEF Pending
      <4>q. QED
        BY <1>1, <3>2, <4>1, <4>2, <4>3, <4>4
    <3>q. QED
      BY <2>1, <3>1, <3>2 DEF FilesNamed, Pursued, Pending
  <2>q. QED
    BY <1>2, <2>1 DEF Pursued, NewEdge
<1>7. Rooted'
  BY DEF Rooted, Taken
<1>q. QED
  BY <1>4, <1>5, <1>6, <1>7 DEF FilesNamed

(* An edge to a module of the file asked for.                              *)
LEMMA EdgeIsNew ==
  ASSUME Typed, NEW j, Taken(j), NEW on \in Modules, file[on] = Head(stack[j].todo),
         AddDep(stack[j].id, on), UNCHANGED <<file, clean>>
  PROVE  NewEdge(j)
<1> DEFINE from == stack[j].id
<1>1. from \in Modules
  BY TakenFrame
<1>2. /\ deps'[from] = Append(deps[from], on)
      /\ \A m \in Modules : m # from => deps'[m] = deps[m]
  BY <1>1, AddDepTyped DEF Typed
<1>3. deps[from] \in Seq(Modules)
  BY <1>1, ModulesAre
<1>4. Range(deps'[from]) = Range(deps[from]) \cup {on}
  BY <1>2, <1>3, AppendRange
<1> HIDE DEF from
<1>5. \A m \in Modules : Range(deps[m]) \subseteq Range(deps'[m])
  BY <1>2, <1>4
<1>6. \A m \in Modules : \A d \in Range(deps'[m]) :
        d \in Range(deps[m]) \/ (m = from /\ file[d] = Head(stack[j].todo))
  BY <1>2, <1>4
<1>7. \E d \in Range(deps'[from]) : file[d] = Head(stack[j].todo)
  BY <1>4
<1>q. QED
  BY <1>5, <1>6, <1>7 DEF NewEdge, from

(* A step that leaves graph and lists alone.                               *)
LEMMA StillKeeps ==
  ASSUME Typed, FilesNamed, UNCHANGED <<file, deps>>, Len(stack') = Len(stack),
         \A i \in 1..Len(stack) : /\ stack'[i].id = stack[i].id /\ stack'[i].file = stack[i].file
                                  /\ stack'[i].todo = stack[i].todo,
         clean' => clean, Rooted'
  PROVE  FilesNamed'
<1>1. Modules' = Modules
  BY DEF Modules
<1>2. Named'
  <2>1. ASSUME NEW i \in 1..Len(stack), i < Len(stack) PROVE i + 1 \in 1..Len(stack)
    BY <2>1, ModulesAre
  <2>q. QED
    BY <2>1 DEF FilesNamed, Named
<1>3. Edged'
  BY <1>1 DEF FilesNamed, Edged
<1>4. \A m, g : (Joined(m, g) => Joined(m, g)') /\ (Pending(m, g) => Pending(m, g)')
  BY DEF Joined, Pending
<1>5. Pursued'
  BY <1>1, <1>4 DEF FilesNamed, Pursued
<1>q. QED
  BY <1>2, <1>3, <1>5 DEF FilesNamed

(* A load given up: the stack is gone, and so is the promise.              *)
LEMMA FailKeeps ==
  ASSUME FilesNamed, NEW status, NEW at, Fail(status, at), status # "ok", UNCHANGED <<file, deps>>
  PROVE  FilesNamed'
<1>1. stack' = <<>> /\ Len(stack') = 0 /\ ~clean' /\ last'.status # "ok"
  BY DEF Fail
<1>2. Edged'
  BY DEF FilesNamed, Edged, Modules
<1>q. QED
  BY <1>1, <1>2 DEF FilesNamed, Named, Pursued, Rooted

(* Changing the phase or the calls of the frame at work.                   *)
LEMMA PhaseKeeps ==
  ASSUME Typed, FilesNamed, stack # <<>>, NEW f \in Frames(Len(file)), SetTop(f),
         f.id = Top.id, f.file = Top.file, f.todo = Top.todo,
         UNCHANGED <<file, deps, clean>>
  PROVE  FilesNamed'
<1>1. /\ Len(stack) \in Nat /\ Len(stack') = Len(stack) /\ stack' # <<>> /\ stack'[Len(stack)] = f
      /\ \A i \in 1..Len(stack) : i < Len(stack) => stack'[i] = stack[i]
  BY Replaced, ModulesAre
<1>2. \A i \in 1..Len(stack) : /\ stack'[i].id = stack[i].id /\ stack'[i].file = stack[i].file
                               /\ stack'[i].todo = stack[i].todo
  <2>1. ASSUME NEW i \in 1..Len(stack)
        PROVE  /\ stack'[i].id = stack[i].id /\ stack'[i].file = stack[i].file
               /\ stack'[i].todo = stack[i].todo
    <3>1. i = Len(stack) \/ i < Len(stack)
      BY <1>1
    <3>q. QED
      BY <1>1, <3>1 DEF Top
  <2>q. QED
    BY <2>1
<1>3. Rooted'
  BY <1>1 DEF Rooted
<1>q. QED
  BY <1>1, <1>2, <1>3, StillKeeps

(* The frame at work takes a name off its list.                            *)
LEMMA TopTakes ==
  ASSUME Typed, stack # <<>>, Top.todo # <<>>, SetTop([Top EXCEPT !.todo = Tail(@)])
  PROVE  Taken(Len(stack)) /\ stack[Len(stack)] = Top
<1>1. Len(stack) \in Nat /\ Len(stack) \in 1..Len(stack) /\ [Top EXCEPT !.todo = Tail(@)] \in Frames(Len(file))
  BY TopTyped, TodoTyped, ModulesAre
<1>2. /\ Len(stack') = Len(stack) /\ stack' # <<>>
      /\ \A i \in 1..Len(stack) : i < Len(stack) => stack'[i] = stack[i]
      /\ stack'[Len(stack)] = [Top EXCEPT !.todo = Tail(@)]
  BY <1>1, Replaced
<1>3. \A i \in 1..Len(stack) : ~ i > Len(stack)
  BY <1>1
<1>q. QED
  BY <1>1, <1>2, <1>3 DEF Taken, Top

(* The frame below a returning one takes the name off it waited for.       *)
LEMMA CallerTakes ==
  ASSUME Typed, Waiting, stack # <<>>, Len(stack) # 1, Top.phase = "onload", PopTop
  PROVE  Taken(Len(stack) - 1)
<1>1. /\ Len(stack) - 1 \in 1..Len(stack) /\ Len(stack) \in Nat /\ Len(stack) \in 1..Len(stack)
      /\ stack[Len(stack) - 1].todo # <<>>
  BY CallerTyped, ModulesAre, TopTyped
<1>2. /\ Len(stack') = Len(stack) - 1 /\ stack' # <<>>
      /\ \A i \in 1..Len(stack) : i < Len(stack) - 1 => stack'[i] = stack[i]
      /\ stack'[Len(stack) - 1] = [stack[Len(stack) - 1] EXCEPT !.todo = Tail(@)]
  BY <1>1, Popped
<1>3. stack[Len(stack)].todo = <<>>
  BY <1>1 DEF Waiting, Top
<1>4. \A i \in 1..Len(stack) : i > Len(stack) - 1 => i = Len(stack)
  BY <1>1
<1>q. QED
  BY <1>1, <1>2, <1>3, <1>4 DEF Taken

(* The books are kept by every step.                                       *)
LEMMA NextFiles ==
  ASSUME LoaderAssumption, SonamesMatch, FilesInv, [Next]_vars
  PROVE  FilesNamed'
<1>0. Typed /\ Waiting /\ SonamesSound /\ FilesNamed
  BY DEF FilesInv, CallsInv, GraphInv
<1>1. CASE UNCHANGED <<file, deps, stack>> /\ ((UNCHANGED <<last, clean>>) \/ (last'.status # "ok" /\ ~clean'))
  <2>1. Rooted'
    BY <1>0, <1>1 DEF FilesNamed, Rooted
  <2>q. QED
    BY <1>0, <1>1, <2>1, StillKeeps
<1>2. ASSUME NEW f \in Files, LoadAndLink(f) PROVE FilesNamed'
  <2>1. CASE Enter(f)
    BY <1>0, <1>2, <2>1, EnterKeeps DEF LoadAndLink
  <2>2. CASE /\ last' = [file |-> f, status |-> "load", at |-> 0] /\ clean' = FALSE
             /\ UNCHANGED <<graph, bound, stack>>
    <3>1. last'.status # "ok"
      BY <2>2
    <3>q. QED
      BY <1>1, <2>2, <3>1 DEF graph
  <2>q. QED
    BY <1>2, <2>1, <2>2 DEF LoadAndLink
<1>3. CASE DepLoaded
  <2>1. /\ stack # <<>> /\ Top.todo # <<>> /\ Head(Top.todo) \in DOMAIN bySoname
        /\ SetTop([Top EXCEPT !.todo = Tail(@)])
        /\ AddDep(Top.id, bySoname[Head(Top.todo)]) /\ UNCHANGED <<file, clean>>
    BY <1>3 DEF DepLoaded, Walking
  <2>2. Taken(Len(stack)) /\ stack[Len(stack)] = Top
    BY <1>0, <2>1, TopTakes
  <2>3. bySoname[Head(Top.todo)] \in Modules /\ file[bySoname[Head(Top.todo)]] = Head(Top.todo)
    BY <1>0, <2>1, SonameNames
  <2>4. NewEdge(Len(stack))
    BY <1>0, <2>1, <2>2, <2>3, EdgeIsNew
  <2>q. QED
    BY <1>0, <2>2, <2>4, TakenKeeps
<1>4. CASE DepMissing
  <2>1. /\ stack # <<>> /\ Top.todo # <<>> /\ Head(Top.todo) \notin Files
        /\ SetTop([Top EXCEPT !.todo = Tail(@)]) /\ UNCHANGED <<file, deps, clean>>
    BY <1>4 DEF DepMissing, Walking, graph
  <2>2. Taken(Len(stack)) /\ stack[Len(stack)] = Top
    BY <1>0, <2>1, TopTakes
  <2>3. NewEdge(Len(stack))
    BY <2>1, <2>2 DEF NewEdge
  <2>q. QED
    BY <1>0, <2>2, <2>3, TakenKeeps
<1>5. CASE DepProvided
  <2>1. Head(Top.todo) \in Files
    BY <1>5 DEF DepProvided
  <2>2. CASE Enter(Head(Top.todo))
    BY <1>0, <2>1, <2>2, EnterKeeps
  <2>3. CASE Fail("load", 0) /\ UNCHANGED graph
    BY <1>0, <2>3, FailKeeps DEF graph
  <2>q. QED
    BY <1>5, <2>2, <2>3 DEF DepProvided
<1>6. CASE Link
  <2>1. stack # <<>> /\ Top \in Frames(Len(file)) /\ UNCHANGED <<file, deps>>
    BY <1>0, <1>6, TopTyped DEF Link, Walking, graph
  <2>2. \/ \E status, at : Fail(status, at) /\ status # "ok"
        \/ SetTop([Top EXCEPT !.phase = "onload", !.calls = Calls]) /\ UNCHANGED clean
    <3> DEFINE s == Schedule(deps, Top.id)
    <3>1. \/ Fail("cycle", Top.id)
          \/ \E k : Fail("link", s[k])
          \/ SetTop([Top EXCEPT !.phase = "onload", !.calls = Calls]) /\ UNCHANGED clean
      BY <1>6 DEF Link
    <3>q. QED
      BY <3>1
  <2>3. CASE SetTop([Top EXCEPT !.phase = "onload", !.calls = Calls]) /\ UNCHANGED clean
    <3> DEFINE f == [Top EXCEPT !.phase = "onload", !.calls = Calls]
    <3>1. f \in Frames(Len(file)) /\ f.id = Top.id /\ f.file = Top.file /\ f.todo = Top.todo
      <4>1. Calls \in SUBSET (1..Len(file))
        BY <1>0, ModulesAre DEF Calls
      <4>q. QED
        BY <2>1, <4>1 DEF Frames
    <3>2. SetTop(f)
      BY <2>3
    <3> HIDE DEF f
    <3>q. QED
      BY <1>0, <2>1, <2>3, <3>1, <3>2, PhaseKeeps
  <2>q. QED
    BY <1>0, <2>1, <2>2, <2>3, FailKeeps
<1>7. CASE NoJavaVm
  <2>1. (\E m : Fail("onload", m)) /\ UNCHANGED <<file, deps>>
    BY <1>7 DEF NoJavaVm, graph
  <2>q. QED
    BY <1>0, <2>1, FailKeeps
<1>8. CASE OnLoad
  <2>1. stack # <<>> /\ Top \in Frames(Len(file)) /\ UNCHANGED <<file, deps>>
    BY <1>0, <1>8, TopTyped DEF OnLoad, Calling, graph
  <2>2. PICK m : \/ SetTop([Top EXCEPT !.calls = @ \ {m}]) /\ UNCHANGED clean
                 \/ Fail("onload", m)
    BY <1>8 DEF OnLoad
  <2>3. CASE SetTop([Top EXCEPT !.calls = @ \ {m}]) /\ UNCHANGED clean
    <3> DEFINE f == [Top EXCEPT !.calls = @ \ {m}]
    <3>1. f \in Frames(Len(file)) /\ f.id = Top.id /\ f.file = Top.file /\ f.todo = Top.todo
      <4>1. Top.calls \ {m} \in SUBSET (1..Len(file))
        BY <2>1 DEF Frames
      <4>q. QED
        BY <2>1, <4>1 DEF Frames
    <3>2. SetTop(f)
      BY <2>3
    <3> HIDE DEF f
    <3>q. QED
      BY <1>0, <2>1, <2>3, <3>1, <3>2, PhaseKeeps
  <2>q. QED
    BY <1>0, <2>1, <2>2, <2>3, FailKeeps
<1>9. CASE Return
  <2>1. /\ stack # <<>> /\ Top.phase = "onload" /\ UNCHANGED <<file, clean>>
        /\ Len(stack) \in 1..Len(stack) /\ Len(stack) \in Nat /\ Top.id \in Modules
        /\ stack[Len(stack)] = Top /\ Top.todo = <<>> /\ file[Top.id] = Top.file
    <3>1. stack # <<>> /\ Top.phase = "onload" /\ UNCHANGED <<file, clean>>
      BY <1>9 DEF Return, Done
    <3>2. Len(stack) \in 1..Len(stack) /\ Len(stack) \in Nat /\ Top.id \in Modules
      BY <1>0, <3>1, TopTyped, ModulesAre
    <3>3. stack[Len(stack)] = Top
      BY DEF Top
    <3>4. Top.todo = <<>> /\ file[Top.id] = Top.file
      BY <1>0, <3>1, <3>2, <3>3 DEF Waiting, FilesNamed, Named
    <3>q. QED
      BY <3>1, <3>2, <3>3, <3>4
  <2>2. CASE Len(stack) = 1
    <3>1. /\ stack' = <<>> /\ Len(stack') = 0 /\ deps' = deps
          /\ last' = [file |-> Top.file, status |-> "ok", at |-> Top.id]
      BY <1>9, <2>2 DEF Return
    <3>2. Named' /\ Rooted'
      BY <2>1, <3>1 DEF Named, Rooted
    <3>3. Edged' /\ Modules' = Modules
      BY <1>0, <2>1, <3>1 DEF FilesNamed, Edged, Modules
    <3>4. \A m, g : ~Pending(m, g) /\ (Joined(m, g) => Joined(m, g)')
      <4>1. ASSUME NEW m, NEW g, NEW i \in 1..Len(stack) PROVE g \notin Range(stack[i].todo)
        <5>1. i = Len(stack)
          BY <2>2
        <5>q. QED
          BY <2>1, <5>1 DEF Range
      <4>q. QED
        BY <2>1, <3>1, <4>1 DEF Pending, Joined
    <3>5. Pursued'
      BY <1>0, <2>1, <3>3, <3>4 DEF FilesNamed, Pursued
    <3>q. QED
      BY <3>2, <3>3, <3>5 DEF FilesNamed
  <2>3. CASE Len(stack) # 1
    <3> DEFINE j == Len(stack) - 1
    <3>1. PopTop /\ AddDep(stack[j].id, Top.id)
      BY <1>9, <2>3 DEF Return, PopTop
    <3>2. Taken(j)
      BY <1>0, <2>1, <2>3, <3>1, CallerTakes
    <3>3. file[Top.id] = Head(stack[j].todo)
      <4>1. j \in 1..Len(stack) /\ j < Len(stack) /\ j + 1 = Len(stack)
        BY <1>0, <2>1, <2>3, CallerTyped
      <4>q. QED
        BY <1>0, <2>1, <4>1 DEF FilesNamed, Named
    <3> HIDE DEF j
    <3>4. NewEdge(j)
      BY <1>0, <2>1, <3>1, <3>2, <3>3, EdgeIsNew
    <3>q. QED
      BY <1>0, <3>2, <3>4, TakenKeeps
  <2>q. QED
    BY <2>2, <2>3
<1>10. CASE UNCHANGED vars
  BY <1>1, <1>10 DEF vars, graph
<1>11. CASE InitJni
  BY <1>1, <1>11 DEF InitJni, graph
<1>q. QED
  BY <1>2, <1>3, <1>4, <1>5, <1>6, <1>7, <1>8, <1>9, <1>10, <1>11 DEF Next, Advance

(* They are in order at first.                                             *)
LEMMA FilesInvInit ==
  ASSUME LoaderAssumption, Init
  PROVE  FilesInv
<1>1. CallsInv
  BY CallsInvInit
<1>2. stack = <<>> /\ file = <<>> /\ last.status # "ok" /\ Modules = {} /\ Len(stack) = 0
  BY DEF Init, Modules
<1>3. FilesNamed
  BY <1>2 DEF FilesNamed, Named, Edged, Pursued, Rooted
<1>q. QED
  BY <1>1, <1>3 DEF FilesInv

(* The files of what a root reaches are what its file's DT_NEEDED lead to: *)
(* either is the least set of its kind, and each is of the other's kind.   *)
LEMMA ReachedIsNeeded ==
  ASSUME LoaderAssumption, FilesInv, stack = <<>>, last.status = "ok", clean
  PROVE  {file[m] : m \in Reachable(deps, last.at)} = ClosureOf(last.file)
<1> DEFINE below == Reachable(deps, last.at)
           R == {file[m] : m \in below}
           n == Cardinality(Files)
           C == Closure(ProvidedDeps, last.file, n)
           B == {m \in Modules : file[m] \in C}
<1>1. /\ Typed /\ Modules = 1..Len(deps) /\ IsGraph(deps) /\ last.at \in Modules
      /\ file[last.at] = last.file /\ \A m \in Modules : file[m] \in Files
      /\ Len(stack) = 0
  <2>1. Typed /\ last.at \in Modules /\ file[last.at] = last.file
    BY DEF FilesInv, CallsInv, GraphInv, Paid, FilesNamed, Rooted
  <2>2. IsGraph(deps) /\ Len(deps) = Len(file)
    BY <2>1 DEF Typed, GraphTyped
  <2>q. QED
    BY <2>1, <2>2, ModulesAre
<1>2. /\ below \subseteq Modules /\ last.at \in below
      /\ \A m \in below : Range(deps[m]) \subseteq below
      /\ \A X : /\ X \subseteq Modules /\ last.at \in X
                /\ \A m \in X : Range(deps[m]) \subseteq X
                => below \subseteq X
  BY <1>1, ReachableIsLeast
<1>3. /\ ProvidedDeps \in [Files -> SUBSET Files]
      /\ \A f \in Files : ProvidedDeps[f] = Range(Needed[f]) \cap Files
  BY DEF ProvidedDeps
<1>4. IsFiniteSet(Files) /\ n \in Nat /\ Cardinality(Files) <= n /\ last.file \in Files
  BY <1>1, FS_CardinalityType DEF LoaderAssumption
<1> HIDE DEF below, n
<1>5. /\ C \subseteq Files /\ last.file \in C /\ ClosedUnder(ProvidedDeps, C)
      /\ \A X : last.file \in X /\ ClosedUnder(ProvidedDeps, X) => C \subseteq X
  BY <1>3, <1>4, ClosureIsLeast
<1> HIDE DEF C
<1>6. C \subseteq R
  <2>1. last.file \in R
    BY <1>1, <1>2
  <2>2. ASSUME NEW m \in below, NEW g \in ProvidedDeps[file[m]] PROVE g \in R
    <3>1. m \in Modules /\ g \in Range(Needed[file[m]]) \cap Files
      BY <1>1, <1>2, <1>3
    <3>2. ~Pending(m, g)
      BY <1>1 DEF Pending
    <3>3. Joined(m, g)
      BY <3>1, <3>2 DEF FilesInv, FilesNamed, Pursued
    <3>q. QED
      BY <3>3, <1>2 DEF Joined
  <2>3. ClosedUnder(ProvidedDeps, R)
    BY <2>2 DEF ClosedUnder
  <2> HIDE DEF R
  <2>q. QED
    BY <1>5, <2>1, <2>3
<1>7. R \subseteq C
  <2>1. last.at \in B
    BY <1>1, <1>5
  <2>2. ASSUME NEW m \in B, NEW d \in Range(deps[m]) PROVE d \in B
    <3>1. d \in Modules /\ file[m] \in Files
      BY <1>1, DepsAreModules
    <3>2. file[d] \in Range(Needed[file[m]]) \cap Files
      BY <1>1, <3>1 DEF FilesInv, FilesNamed, Edged
    <3>q. QED
      BY <1>3, <1>5, <3>1, <3>2 DEF ClosedUnder
  <2>3. below \subseteq B
    <3>1. B \subseteq Modules /\ \A m \in B : Range(deps[m]) \subseteq B
      BY <2>2
    <3> HIDE DEF B
    <3>q. QED
      BY <1>2, <2>1, <3>1
  <2>q. QED
    BY <2>3
<1>q. QED
  BY <1>6, <1>7 DEF below, C, n, ClosureOf

(* A load that returns is complete: as long as none has failed, the files  *)
(* of the modules its root reaches are all its DT_NEEDED lead to and the   *)
(* provider has, each of them relocated; and every JNI_OnLoad has run.     *)
THEOREM LoadsAreComplete ==
  ASSUME SonamesMatch
  PROVE  Spec => []LoadComplete
<1> USE LoaderAssumption
<1>1. Init => FilesInv
  BY FilesInvInit
<1>2. FilesInv /\ [Next]_vars => FilesInv'
  BY SonamesMatch, CallsInvNext, NextFiles DEF FilesInv
<1>3. FilesInv => LoadComplete
  <2>1. FilesInv => AllRan
    BY DEF FilesInv, CallsInv, Paid, AllRan, Calls
  <2>2. FilesInv => ClosureLoaded
    BY ReachedIsNeeded DEF FilesInv, CallsInv, Paid, ClosureLoaded
  <2>q. QED
    BY <2>1, <2>2 DEF LoadComplete
<1>q. QED
  BY <1>1, <1>2, <1>3, PTL DEF Spec
-----------------------------------------------------------------------------
(* Whom a breadth-first search finds.                                      *)

(* The first of a list at distance t is one whose answer is e.             *)
Leads(s, t, e, dist, answer) ==
  \E i \in 1..Len(s) : /\ dist[s[i]] = t /\ answer[s[i]] = e
                       /\ \A j \in 1..Len(s) : j < i => dist[s[j]] # t

(* None of a list is at distance t.                                        *)
Lacks(s, t, dist) == \A i \in 1..Len(s) : dist[s[i]] # t

(* What is behind a leader does not matter.                                *)
LEMMA LeadsOnwards ==
  ASSUME NEW M, NEW s \in Seq(M), NEW r \in Seq(M), NEW t, NEW e, NEW dist, NEW answer
  PROVE  /\ Leads(s, t, e, dist, answer) => Leads(s \o r, t, e, dist, answer)
         /\ Lacks(s, t, dist) /\ Leads(r, t, e, dist, answer) => Leads(s \o r, t, e, dist, answer)
         /\ Lacks(s, t, dist) /\ Lacks(r, t, dist) => Lacks(s \o r, t, dist)
<1> DEFINE n == Len(s)
           k == Len(r)
           q == s \o r
<1>1. /\ n \in Nat /\ k \in Nat /\ Len(q) = n + k
      /\ \A i \in 1..n : q[i] = s[i] /\ i \in 1..n + k
      /\ \A i \in 1..k : q[n + i] = r[i] /\ n + i \in 1..n + k
      /\ \A i \in 1..n + k : i \in 1..n \/ (i - n \in 1..k /\ n + (i - n) = i)
  OBVIOUS
<1> HIDE DEF n, k, q
<1>2. ASSUME Leads(s, t, e, dist, answer) PROVE Leads(q, t, e, dist, answer)
  <2>1. PICK i \in 1..n : /\ dist[s[i]] = t /\ answer[s[i]] = e
                          /\ \A j \in 1..n : j < i => dist[s[j]] # t
    BY <1>2 DEF Leads, n
  <2>2. \A j \in 1..n + k : j < i => j \in 1..n
    BY <1>1
  <2>3. \A j \in 1..Len(q) : j < i => dist[q[j]] # t
    BY <1>1, <2>1, <2>2
  <2>4. i \in 1..Len(q) /\ dist[q[i]] = t /\ answer[q[i]] = e
    BY <1>1, <2>1
  <2>q. QED
    BY <2>3, <2>4 DEF Leads
<1>3. ASSUME Lacks(s, t, dist), Leads(r, t, e, dist, answer) PROVE Leads(q, t, e, dist, answer)
  <2>1. PICK i \in 1..k : /\ dist[r[i]] = t /\ answer[r[i]] = e
                          /\ \A j \in 1..k : j < i => dist[r[j]] # t
    BY <1>3 DEF Leads, k
  <2>2. ASSUME NEW j \in 1..Len(q), j < n + i PROVE dist[q[j]] # t
    <3>1. CASE j \in 1..n
      BY <1>1, <1>3, <3>1 DEF Lacks, n
    <3>2. CASE j - n \in 1..k /\ n + (j - n) = j
      <4>1. j - n < i
        BY <1>1, <2>2, <3>2
      <4>2. q[j] = r[j - n]
        BY <1>1, <3>2
      <4>q. QED
        BY <2>1, <3>2, <4>1, <4>2
    <3>q. QED
      BY <1>1, <3>1, <3>2
  <2>3. n + i \in 1..Len(q) /\ dist[q[n + i]] = t /\ answer[q[n + i]] = e
    BY <1>1, <2>1
  <2>q. QED
    BY <2>2, <2>3 DEF Leads
<1>4. ASSUME Lacks(s, t, dist), Lacks(r, t, dist) PROVE Lacks(q, t, dist)
  <2>1. ASSUME NEW i \in 1..Len(q) PROVE dist[q[i]] # t
    <3>1. CASE i \in 1..n
      BY <1>1, <1>4, <3>1 DEF Lacks, n
    <3>2. CASE i - n \in 1..k /\ n + (i - n) = i
      <4>1. q[i] = r[i - n]
        BY <1>1, <3>2
      <4>q. QED
        BY <1>4, <3>2, <4>1 DEF Lacks, k
    <3>q. QED
      BY <1>1, <3>1, <3>2
  <2>q. QED
    BY <2>1 DEF Lacks
<1>q. QED
  BY <1>2, <1>3, <1>4 DEF q

(* A leader is the head or leads the rest.                                 *)
LEMMA LeadsBehind ==
  ASSUME NEW M, NEW s \in Seq(M), s # <<>>, NEW t, NEW e, NEW dist, NEW answer,
         Leads(s, t, e, dist, answer)
  PROVE  /\ dist[Head(s)] = t => answer[Head(s)] = e
         /\ dist[Head(s)] # t => Leads(Tail(s), t, e, dist, answer)
<1> DEFINE n == Len(s)
           r == Tail(s)
<1>1. /\ n \in Nat /\ 1 \in 1..n /\ Head(s) = s[1] /\ Len(r) = n - 1
      /\ \A i \in 1..n - 1 : r[i] = s[i + 1] /\ i + 1 \in 1..n
      /\ \A i \in 1..n : i = 1 \/ (1 < i /\ i - 1 \in 1..n - 1 /\ (i - 1) + 1 = i)
  OBVIOUS
<1> HIDE DEF n, r
<1>2. PICK i \in 1..n : /\ dist[s[i]] = t /\ answer[s[i]] = e
                        /\ \A j \in 1..n : j < i => dist[s[j]] # t
  BY DEF Leads, n
<1>3. CASE dist[Head(s)] = t
  BY <1>1, <1>2, <1>3
<1>4. CASE dist[Head(s)] # t
  <2>1. i - 1 \in 1..n - 1 /\ (i - 1) + 1 = i
    BY <1>1, <1>2, <1>4
  <2>2. \A j \in 1..Len(r) : j < i - 1 => j + 1 < i
    BY <1>1
  <2>3. \A j \in 1..Len(r) : j < i - 1 => dist[r[j]] # t
    BY <1>1, <1>2, <2>2
  <2>4. i - 1 \in 1..Len(r) /\ dist[r[i - 1]] = t /\ answer[r[i - 1]] = e
    BY <1>1, <1>2, <2>1
  <2>5. Leads(r, t, e, dist, answer)
    BY <2>3, <2>4 DEF Leads
  <2>q. QED
    BY <1>4, <2>5 DEF r
<1>q. QED
  BY <1>3, <1>4

(* Distances to what is looked for: an edge shortens one by no more than   *)
(* one, and a module within reach has one that does, the first of which    *)
(* passes its own answer on.                                               *)
Graded(d, sought, dist) ==
  \A m \in 1..Len(d) : /\ dist[m] \in Nat /\ (dist[m] = 0 <=> m \in sought)
                       /\ \A x \in Range(d[m]) : dist[m] <= dist[x] + 1

Led(d, far, dist, answer) ==
  \A m \in 1..Len(d) :
    0 < dist[m] /\ dist[m] <= far => Leads(d[m], dist[m] - 1, answer[m], dist, answer)

(* The first of a list that is looked for has answer e.                    *)
Answered(order, sought, e, answer) ==
  \E k \in 1..Len(order) : /\ order[k] \in sought /\ answer[order[k]] = e
                           /\ \A i \in 1..Len(order) : i < k => order[i] \notin sought

(* A list that is answered stays so as it grows, and becomes so with the   *)
(* first member that is looked for.                                        *)
LEMMA AnsweredOnwards ==
  ASSUME NEW M, NEW order \in Seq(M), NEW m \in M, NEW sought, NEW e, NEW answer
  PROVE  /\ Answered(order, sought, e, answer) => Answered(Append(order, m), sought, e, answer)
         /\ /\ \A v \in Range(order) : v \notin sought
            /\ m \in sought /\ answer[m] = e
            => Answered(Append(order, m), sought, e, answer)
<1> DEFINE n == Len(order)
           q == Append(order, m)
<1>1. /\ n \in Nat /\ Len(q) = n + 1 /\ q[n + 1] = m /\ n + 1 \in 1..n + 1
      /\ \A i \in 1..n : q[i] = order[i] /\ i \in 1..n + 1
      /\ \A i \in 1..n + 1 : i \in 1..n \/ i = n + 1
  OBVIOUS
<1>2. \A i \in 1..n : order[i] \in Range(order)
  BY LenProperties DEF Range
<1> HIDE DEF n, q
<1>3. ASSUME Answered(order, sought, e, answer) PROVE Answered(q, sought, e, answer)
  <2>1. PICK k \in 1..n : /\ order[k] \in sought /\ answer[order[k]] = e
                          /\ \A i \in 1..n : i < k => order[i] \notin sought
    BY <1>3 DEF Answered, n
  <2>2. \A i \in 1..Len(q) : i < k => i \in 1..n
    BY <1>1
  <2>3. \A i \in 1..Len(q) : i < k => q[i] \notin sought
    BY <1>1, <2>1, <2>2
  <2>q. QED
    BY <1>1, <2>1, <2>3 DEF Answered
<1>4. ASSUME \A v \in Range(order) : v \notin sought, m \in sought, answer[m] = e
      PROVE  Answered(q, sought, e, answer)
  <2>1. \A i \in 1..Len(q) : i < n + 1 => i \in 1..n
    BY <1>1
  <2>2. \A i \in 1..Len(q) : i < n + 1 => q[i] \notin sought
    BY <1>1, <1>2, <1>4, <2>1
  <2>q. QED
    BY <1>1, <1>4, <2>2 DEF Answered
<1>q. QED
  BY <1>3, <1>4 DEF q

(* A walk that has met nothing it looks for: its queue is what is left of  *)
(* one round and what this round has brought, and the answer is in front   *)
(* of one or the other.                                                    *)
Rounds(d, sought, dist, answer, e, w, now, later, t) ==
  /\ w.queue = now \o later
  /\ \A x \in Range(now) : t <= dist[x]
  /\ \A x \in Range(later) : t <= dist[x] + 1
  /\ \/ Leads(later, t - 1, e, dist, answer)
     \/ Lacks(later, t - 1, dist) /\ Leads(now, t, e, dist, answer)
  /\ \A v \in Range(w.order) :
       v \notin sought /\ (t < dist[v] \/ (t = dist[v] /\ Range(d[v]) \subseteq Range(later)))

(* When a round is over the next begins, one step nearer.                  *)
LEMMA NextRound ==
  ASSUME NEW d, IsGraph(d), NEW M, M = 1..Len(d), NEW sought, NEW dist, NEW answer, NEW e,
         Graded(d, sought, dist), NEW w \in Walks(d),
         NEW later \in Seq(M), NEW t \in Nat,
         Rounds(d, sought, dist, answer, e, w, <<>>, later, t)
  PROVE  t # 0 /\ Rounds(d, sought, dist, answer, e, w, later, <<>>, t - 1)
<1>1. \A m \in M : dist[m] \in Nat
  BY DEF Graded
<1>2. Len(<<>>) = 0 /\ Range(<<>>) = {}
  BY DEF Range
<1>3. Range(later) \subseteq M /\ Range(w.order) \subseteq M
  BY RangeSmall DEF Walks
<1>4. Leads(later, t - 1, e, dist, answer)
  <2>1. ~Leads(<<>>, t, e, dist, answer)
    BY <1>2 DEF Leads
  <2>q. QED
    BY <2>1 DEF Rounds
<1>5. t # 0
  <2>1. \A i \in 1..Len(later) : later[i] \in M
    OBVIOUS
  <2>2. \E x \in M : dist[x] = t - 1
    BY <1>4, <2>1 DEF Leads
  <2>q. QED
    BY <1>1, <2>2
<1>6. w.queue = later \o <<>>
  BY ConcatEmptySeq DEF Rounds
<1>7. \A x \in Range(later) : t - 1 <= dist[x]
  BY <1>1, <1>3 DEF Rounds
<1>8. Lacks(<<>>, (t - 1) - 1, dist)
  BY <1>2 DEF Lacks
<1>9. ASSUME NEW v \in Range(w.order) PROVE v \notin sought /\ t - 1 < dist[v]
  <2>1. v \notin sought /\ dist[v] \in Nat /\ t <= dist[v]
    BY <1>1, <1>3 DEF Rounds
  <2>q. QED
    BY <2>1
<1>q. QED
  BY <1>2, <1>4, <1>5, <1>6, <1>7, <1>8, <1>9 DEF Rounds

(* A visit carries a round on, or meets the answer.                        *)
LEMMA RoundGoesOn ==
  ASSUME NEW d, IsGraph(d), NEW M, M = 1..Len(d), NEW sought, NEW dist, NEW answer, NEW e,
         NEW far \in Nat, Graded(d, sought, dist), Led(d, far, dist, answer),
         NEW w \in Walks(d), NEW now \in Seq(M), now # <<>>, NEW later \in Seq(M),
         NEW t \in Nat, t <= far,
         Rounds(d, sought, dist, answer, e, w, now, later, t)
  PROVE  \/ Answered(Visit(d, w).order, sought, e, answer)
         \/ \E b \in Seq(M) : Rounds(d, sought, dist, answer, e, Visit(d, w), Tail(now), b, t)
<1> DEFINE m == Head(w.queue)
           a == Tail(now)
           v == Visit(d, w)
<1>1. /\ w.order \in Seq(M) /\ w.queue \in Seq(M) /\ w.queue = now \o later
      /\ Range(w.order) \subseteq M
  BY RangeSmall DEF Walks, Rounds
<1>2. /\ m \in M /\ a \in Seq(M) /\ m = Head(now) /\ Tail(w.queue) = a \o later
      /\ Range(now) = {m} \cup Range(a) /\ w.queue # <<>>
  <2>1. Head(now) \in M /\ a \in Seq(M) /\ Range(now) = {Head(now)} \cup Range(a)
    BY FirstAndRest
  <2>2. Head(now \o later) = Head(now) /\ Tail(now \o later) = a \o later /\ now \o later # <<>>
    OBVIOUS
  <2>q. QED
    BY <1>1, <2>1, <2>2
<1>3. /\ d[m] \in Seq(M) /\ dist[m] \in Nat /\ (dist[m] = 0 <=> m \in sought) /\ t <= dist[m]
      /\ \A x \in Range(d[m]) : dist[x] \in Nat /\ dist[m] <= dist[x] + 1
  <2>1. d[m] \in Seq(M) /\ t <= dist[m]
    BY <1>2 DEF IsGraph, Rounds
  <2>2. Range(d[m]) \subseteq M
    BY <2>1, RangeSmall
  <2>q. QED
    BY <1>2, <2>1, <2>2 DEF Graded
<1>4. dist[m] = t /\ t # 0 => Leads(d[m], t - 1, answer[m], dist, answer)
  <2>1. m \in 1..Len(d)
    BY <1>2
  <2>2. 0 < dist[m] /\ dist[m] <= far => Leads(d[m], dist[m] - 1, answer[m], dist, answer)
    BY <2>1 DEF Led
  <2> HIDE DEF m
  <2>q. QED
    BY <2>2
<1>5. \/ Leads(later, t - 1, e, dist, answer)
      \/ Lacks(later, t - 1, dist) /\ Leads(now, t, e, dist, answer)
  BY DEF Rounds
<1>6. Leads(now, t, e, dist, answer) =>
        /\ dist[m] = t => answer[m] = e
        /\ dist[m] # t => Leads(a, t, e, dist, answer)
  BY <1>2, LeadsBehind
<1>7. \A x \in Range(a) : t <= dist[x]
  BY <1>2 DEF Rounds
<1>8. /\ m \in Range(w.order) => v.order = w.order /\ v.queue = a \o later
      /\ m \notin Range(w.order) => v.order = Append(w.order, m) /\ v.queue = (a \o later) \o d[m]
  <2>1. CASE m \in Range(w.order)
    <3>1. v = [w EXCEPT !.queue = Tail(@)]
      BY <2>1 DEF Visit
    <3>q. QED
      BY <1>2, <2>1, <3>1 DEF Walks
  <2>2. CASE m \notin Range(w.order)
    <3> DEFINE x == Append(w.order, m)
               y == (a \o later) \o d[m]
    <3>1. v = [order |-> x, queue |-> y]
      BY <1>2, <2>2 DEF Visit
    <3> HIDE DEF v, x, y
    <3>2. v.order = x /\ v.queue = y
      BY <3>1
    <3>q. QED
      BY <2>2, <3>2 DEF x, y
  <2>q. QED
    BY <2>1, <2>2
<1> HIDE DEF m, a, v
<1>9. CASE m \in Range(w.order)
  <2>1. m \notin sought /\ (t < dist[m] \/ (t = dist[m] /\ Range(d[m]) \subseteq Range(later)))
    BY <1>9 DEF Rounds
  <2>2. Leads(later, t - 1, e, dist, answer) \/ (Lacks(later, t - 1, dist) /\ Leads(a, t, e, dist, answer))
    <3>1. SUFFICES ASSUME Lacks(later, t - 1, dist), dist[m] = t PROVE FALSE
      BY <1>5, <1>6
    <3>2. t # 0 /\ Range(d[m]) \subseteq Range(later)
      BY <1>3, <2>1, <3>1
    <3>3. PICK i \in 1..Len(d[m]) : dist[d[m][i]] = t - 1
      BY <1>4, <3>1, <3>2 DEF Leads
    <3>4. d[m][i] \in Range(d[m])
      BY <1>3, LenProperties DEF Range
    <3>5. d[m][i] \in Range(later) /\ DOMAIN later = 1..Len(later)
      BY <3>2, <3>4, LenProperties
    <3>q. QED
      BY <3>1, <3>3, <3>5 DEF Lacks, Range
  <2>3. Rounds(d, sought, dist, answer, e, v, a, later, t)
    BY <1>7, <1>8, <1>9, <2>2 DEF Rounds
  <2>q. QED
    BY <2>3 DEF v, a
<1>10. CASE m \notin Range(w.order) /\ m \in sought
  <2>1. dist[m] = 0 /\ t = 0
    BY <1>3, <1>10
  <2>2. ~Leads(later, t - 1, e, dist, answer)
    <3>1. \A x \in M : dist[x] \in Nat
      BY DEF Graded
    <3>2. \A i \in 1..Len(later) : later[i] \in M
      OBVIOUS
    <3>3. \A i \in 1..Len(later) : dist[later[i]] # 0 - 1
      BY <3>1, <3>2
    <3>q. QED
      BY <2>1, <3>3 DEF Leads
  <2>3. answer[m] = e
    BY <1>5, <1>6, <2>1, <2>2
  <2>4. \A x \in Range(w.order) : x \notin sought
    BY DEF Rounds
  <2>5. Answered(Append(w.order, m), sought, e, answer)
    BY <1>1, <1>2, <1>10, <2>3, <2>4, AnsweredOnwards
  <2>q. QED
    BY <1>8, <1>10, <2>5 DEF v
<1>11. CASE m \notin Range(w.order) /\ m \notin sought
  <2> DEFINE b == later \o d[m]
  <2>1. b \in Seq(M) /\ Range(b) = Range(later) \cup Range(d[m])
    BY <1>3, ConcatProperties, RangeConcatenation
  <2>2. v.order = Append(w.order, m) /\ v.queue = a \o b
    <3>1. (a \o later) \o d[m] = a \o b
      <4>1. \A x \in Seq(M) : (a \o later) \o x = a \o (later \o x)
        <5> HIDE DEF b
        <5>1. a \in Seq(M)
          BY <1>2
        <5>q. QED
          BY <5>1
      <4>q. QED
        BY <1>3, <4>1
    <3>q. QED
      BY <1>8, <1>11, <3>1
  <2>3. Range(v.order) = Range(w.order) \cup {m}
    BY <1>1, <1>2, <2>2, AppendRange
  <2>4. \A x \in Range(b) : t <= dist[x] + 1
    <3>1. \A x \in Range(later) : t <= dist[x] + 1
      BY DEF Rounds
    <3>2. \A x \in Range(d[m]) : t <= dist[x] + 1
      BY <1>3
    <3>q. QED
      BY <2>1, <3>1, <3>2
  <2>5. Leads(b, t - 1, e, dist, answer) \/ (Lacks(b, t - 1, dist) /\ Leads(a, t, e, dist, answer))
    <3>1. CASE Leads(later, t - 1, e, dist, answer)
      BY <1>3, <3>1, LeadsOnwards
    <3>2. CASE Lacks(later, t - 1, dist) /\ Leads(now, t, e, dist, answer) /\ dist[m] = t
      <4>1. t # 0 /\ answer[m] = e
        BY <1>3, <1>6, <1>11, <3>2
      <4>2. Leads(d[m], t - 1, e, dist, answer)
        BY <1>4, <3>2, <4>1
      <4>q. QED
        BY <1>3, <3>2, <4>2, LeadsOnwards
    <3>3. CASE Lacks(later, t - 1, dist) /\ Leads(now, t, e, dist, answer) /\ dist[m] # t
      <4>1. Leads(a, t, e, dist, answer)
        BY <1>6, <3>3
      <4>2. \A x \in Range(d[m]) : dist[x] # t - 1
        BY <1>3, <3>3
      <4>3. \A i \in 1..Len(d[m]) : d[m][i] \in Range(d[m])
        BY <1>3, LenProperties DEF Range
      <4>4. Lacks(d[m], t - 1, dist)
        BY <4>2, <4>3 DEF Lacks
      <4>5. Lacks(b, t - 1, dist)
        BY <1>3, <3>3, <4>4, LeadsOnwards
      <4>q. QED
        BY <4>1, <4>5
    <3>q. QED
      BY <1>5, <3>1, <3>2, <3>3
  <2> HIDE DEF b
  <2>6. ASSUME NEW x \in Range(v.order)
        PROVE  x \notin sought /\ (t < dist[x] \/ (t = dist[x] /\ Range(d[x]) \subseteq Range(b)))
    <3>1. CASE x \in Range(w.order)
      BY <2>1, <3>1 DEF Rounds
    <3>2. CASE x = m
      BY <1>3, <1>11, <2>1, <3>2
    <3>q. QED
      BY <2>3, <3>1, <3>2
  <2>7. Rounds(d, sought, dist, answer, e, v, a, b, t)
    BY <1>7, <2>2, <2>4, <2>5, <2>6 DEF Rounds
  <2>q. QED
    BY <2>1, <2>7 DEF v, a
<1>q. QED
  BY <1>9, <1>10, <1>11

(* So the search finds the nearest, and the leftmost of several, ...       *)
LEMMA SearchFinds ==
  ASSUME NEW d, IsGraph(d), NEW sought, NEW dist, NEW answer,
         NEW far \in Nat, Graded(d, sought, dist), Led(d, far, dist, answer),
         NEW r \in 1..Len(d), dist[r] <= far
  PROVE  Answered(Search(d, r), sought, answer[r], answer) /\ Search(d, r) \in Seq(1..Len(d))
<1> DEFINE M == 1..Len(d)
           e == answer[r]
           Met(w) == Answered(w.order, sought, e, answer)
           Nearing(w) == \E a, b \in Seq(M) : \E t \in Nat :
                           t <= far /\ Rounds(d, sought, dist, answer, e, w, a, b, t)
           P == {w \in Walks(d) : Met(w) \/ Nearing(w)}
           Q == {o \in Seq(M) : Answered(o, sought, e, answer)}
<1>1. Start(d, r) \in P
  <2>1. /\ Start(d, r) \in Walks(d) /\ Start(d, r).order = <<r>> /\ Start(d, r).queue = d[r]
        /\ d[r] \in Seq(M) /\ <<>> \in Seq(M)
    BY DEF Start, Walks, IsGraph
  <2>2. dist[r] \in Nat /\ (dist[r] = 0 <=> r \in sought) /\ \A x \in Range(d[r]) : dist[x] \in Nat /\ dist[r] <= dist[x] + 1
    <3>1. Range(d[r]) \subseteq M
      BY <2>1, RangeSmall
    <3>q. QED
      BY <3>1 DEF Graded
  <2>3. CASE dist[r] = 0
    <3>1. Len(<<r>>) = 1 /\ <<r>>[1] = r
      OBVIOUS
    <3>2. Answered(<<r>>, sought, e, answer)
      BY <2>2, <2>3, <3>1 DEF Answered
    <3>q. QED
      BY <2>1, <3>2
  <2>4. CASE dist[r] # 0
    <3> DEFINE t == dist[r] - 1
    <3>1. t \in Nat /\ t <= far /\ dist[r] = t + 1
      BY <2>2, <2>4
    <3>2. Leads(d[r], t, e, dist, answer)
      BY <2>2, <2>4 DEF Led
    <3>3. Lacks(<<>>, t - 1, dist) /\ Range(<<>>) = {}
      BY DEF Lacks, Range
    <3>4. Range(<<r>>) = {r}
      BY DEF Range
    <3>5. d[r] = d[r] \o <<>>
      BY <2>1, ConcatEmptySeq
    <3> HIDE DEF t
    <3>6. \A x \in Range(d[r]) : t <= dist[x]
      BY <2>2, <3>1
    <3>7. t < dist[r] /\ r \notin sought
      BY <2>2, <2>4, <3>1
    <3>8. Rounds(d, sought, dist, answer, e, Start(d, r), d[r], <<>>, t)
      BY <2>1, <3>2, <3>3, <3>4, <3>5, <3>6, <3>7 DEF Rounds
    <3>q. QED
      BY <2>1, <3>1, <3>8
  <2>q. QED
    BY <2>3, <2>4
<1>2. ASSUME NEW w \in P, w.queue # <<>> PROVE Visit(d, w) \in P
  <2>1. w \in Walks(d) /\ Visit(d, w) \in Walks(d) /\ w.order \in Seq(M) /\ Head(w.queue) \in M
    BY <1>2, VisitStep DEF Walks
  <2>2. CASE Met(w)
    <3>1. Visit(d, w).order = w.order \/ Visit(d, w).order = Append(w.order, Head(w.queue))
      BY DEF Visit, Walks
    <3>2. Answered(Append(w.order, Head(w.queue)), sought, e, answer)
      BY <2>1, <2>2, AnsweredOnwards
    <3>3. Met(Visit(d, w))
      BY <2>2, <3>1, <3>2
    <3>q. QED
      BY <2>1, <3>3
  <2>3. CASE Nearing(w)
    <3>1. PICK a \in Seq(M), b \in Seq(M), t \in Nat :
            t <= far /\ Rounds(d, sought, dist, answer, e, w, a, b, t)
      BY <2>3
    <3>2. ASSUME NEW x \in Seq(M), NEW y \in Seq(M), NEW u \in Nat, u <= far, x # <<>>,
                 Rounds(d, sought, dist, answer, e, w, x, y, u)
          PROVE  Visit(d, w) \in P
      <4>1. \/ Answered(Visit(d, w).order, sought, e, answer)
            \/ \E c \in Seq(M) : Rounds(d, sought, dist, answer, e, Visit(d, w), Tail(x), c, u)
        <5> HIDE DEF e
        <5>q. QED
          BY <2>1, <3>2, RoundGoesOn
      <4>2. Tail(x) \in Seq(M)
        BY <3>2, HeadTailProperties
      <4>q. QED
        BY <2>1, <3>2, <4>1, <4>2
    <3>3. CASE a = <<>>
      <4>1. t # 0 /\ Rounds(d, sought, dist, answer, e, w, b, <<>>, t - 1)
        BY <2>1, <3>1, <3>3, NextRound
      <4>2. b # <<>>
        BY <1>2, <3>1, <3>3 DEF Rounds
      <4>3. t - 1 \in Nat /\ t - 1 <= far /\ <<>> \in Seq(M)
        BY <3>1, <4>1
      <4> HIDE DEF P
      <4>q. QED
        BY <3>2, <4>1, <4>2, <4>3
    <3>4. CASE a # <<>>
      BY <3>1, <3>2, <3>4
    <3>q. QED
      BY <3>3, <3>4
  <2>q. QED
    BY <1>2, <2>2, <2>3
<1>3. ASSUME NEW w \in P, w.queue = <<>> PROVE w.order \in Q
  <2>1. w.order \in Seq(M)
    BY DEF Walks
  <2>2. CASE Nearing(w)
    <3>1. PICK a \in Seq(M), b \in Seq(M), t \in Nat : Rounds(d, sought, dist, answer, e, w, a, b, t)
      BY <2>2
    <3>2. a \o b = <<>>
      BY <1>3, <3>1 DEF Rounds
    <3>3. a = <<>> /\ b = <<>>
      BY <3>2
    <3>4. Len(<<>>) = 0
      OBVIOUS
    <3>5. ~Leads(<<>>, t, e, dist, answer) /\ ~Leads(<<>>, t - 1, e, dist, answer)
      BY <3>4 DEF Leads
    <3>q. QED
      BY <3>1, <3>3, <3>5 DEF Rounds
  <2>q. QED
    BY <2>1, <2>2
<1> HIDE DEF P, Q
<1>4. P \in SUBSET Walks(d)
  BY DEF P
<1>5. Search(d, r) \in Q
  BY <1>1, <1>2, <1>3, <1>4, SearchKeeps
<1>q. QED
  BY <1>5 DEF Q

(* ... and nothing where nothing is within reach.                          *)
LEMMA SearchFindsNothing ==
  ASSUME NEW d, IsGraph(d), NEW sought, NEW away, away \cap sought = {},
         \A m \in 1..Len(d) : m \in away => Range(d[m]) \subseteq away,
         NEW r \in 1..Len(d), r \in away
  PROVE  Search(d, r) \in Seq(1..Len(d)) /\ Range(Search(d, r)) \cap sought = {}
<1> DEFINE M == 1..Len(d)
           P == {w \in Walks(d) : Range(w.order) \subseteq away /\ Range(w.queue) \subseteq away}
           Q == {o \in Seq(M) : Range(o) \subseteq away}
<1>1. Start(d, r) \in P
  <2>1. Start(d, r) \in Walks(d) /\ Start(d, r).order = <<r>> /\ Start(d, r).queue = d[r]
    BY DEF Start, Walks, IsGraph
  <2>2. Range(<<r>>) = {r}
    BY DEF Range
  <2>q. QED
    BY <2>1, <2>2
<1>2. ASSUME NEW w \in P, w.queue # <<>> PROVE Visit(d, w) \in P
  <2> DEFINE m == Head(w.queue)
  <2>1. /\ w \in Walks(d) /\ Visit(d, w) \in Walks(d) /\ m \in M
        /\ Range(w.order) \subseteq away /\ Range(w.queue) \subseteq away
    BY <1>2, VisitStep
  <2>2. /\ w.queue \in Seq(M) /\ d[m] \in Seq(M)
        /\ Tail(w.queue) \in Seq(M) /\ Range(w.queue) = {m} \cup Range(Tail(w.queue))
    <3>1. w.queue \in Seq(M) /\ d[m] \in Seq(M)
      BY <2>1 DEF Walks, IsGraph
    <3>q. QED
      BY <1>2, <3>1, FirstAndRest
  <2>3. Range(Tail(w.queue) \o d[m]) = Range(Tail(w.queue)) \cup Range(d[m])
    BY <2>2, RangeConcatenation
  <2>4. m \in away /\ Range(d[m]) \subseteq away
    BY <2>1, <2>2
  <2>5. Visit(d, w).queue = Tail(w.queue) \/ Visit(d, w).queue = Tail(w.queue) \o d[m]
    BY <2>1 DEF Visit, Walks
  <2>6. Range(Visit(d, w).order) \subseteq Range(w.order) \cup {m}
    BY <1>2, <2>1, VisitStep
  <2> HIDE DEF m
  <2>7. Range(Visit(d, w).queue) \subseteq away
    BY <2>1, <2>2, <2>3, <2>4, <2>5
  <2>8. Range(Visit(d, w).order) \subseteq away
    BY <2>1, <2>4, <2>6
  <2>q. QED
    BY <2>1, <2>7, <2>8
<1>3. ASSUME NEW w \in P, w.queue = <<>> PROVE w.order \in Q
  BY DEF Walks
<1> HIDE DEF P, Q
<1>4. P \in SUBSET Walks(d)
  BY DEF P
<1>5. Search(d, r) \in Q
  BY <1>1, <1>2, <1>3, <1>4, SearchKeeps
<1>q. QED
  BY <1>5 DEF Q
-----------------------------------------------------------------------------
(* What the files promise.                                                 *)

(* How far the nearest file with the symbol is; one more than there are    *)
(* files if there is none.                                                 *)
Rings(s, f) == {k \in 0..Cardinality(Files) : AtDistance(s)[k][f] # {}}

Distance(s, f) == IF Rings(s, f) = {} THEN Cardinality(Files) + 1 ELSE Min(Rings(s, f))

(* The names that lead on.                                                 *)
Via(found, f) == {i \in DOMAIN Needed[f] : Needed[f][i] \in Files /\ found[Needed[f][i]] # {}}

(* AtDistance is what its equation says.                                   *)
LEMMA AtDistanceIs ==
  ASSUME LoaderAssumption, NEW s
  PROVE  /\ Cardinality(Files) \in Nat
         /\ AtDistance(s)[0] = [f \in Files |-> {f} \cap {g \in Files : s \in Defines[g]}]
         /\ \A k \in 0..Cardinality(Files) : k > 0 => AtDistance(s)[k] = Onward(AtDistance(s)[k - 1])
<1> DEFINE n == Cardinality(Files)
           x == [f \in Files |-> {f} \cap {g \in Files : s \in Defines[g]}]
           D == [Files -> SUBSET Files]
           step == [found \in D |-> Onward(found)]
           at == CHOOSE at : at = [k \in 0..n |-> IF k = 0 THEN x ELSE Onward(at[k - 1])]
<1>1. n \in Nat
  BY FS_CardinalityType DEF LoaderAssumption
<1>2. ASSUME NEW found \in D PROVE Onward(found) \in D
  <2>1. ASSUME NEW f \in Files PROVE Via(found, f) # {} => Needed[f][Min(Via(found, f))] \in Files
    <3>1. Needed[f] \in Seq(Names)
      BY DEF LoaderAssumption
    <3>2. Via(found, f) \subseteq Nat
      BY <3>1, LenProperties DEF Via
    <3>3. Via(found, f) # {} => Min(Via(found, f)) \in Via(found, f)
      BY <3>2, MinIsLeast
    <3>q. QED
      BY <3>3 DEF Via
  <2>2. Onward(found) = [f \in Files |-> IF Via(found, f) = {} THEN {} ELSE found[Needed[f][Min(Via(found, f))]]]
    BY DEF Onward, Via
  <2>q. QED
    BY <2>1, <2>2
<1>3. x \in D /\ step \in [D -> D] /\ \A found \in D : step[found] = Onward(found)
  BY <1>2
<1> HIDE DEF x, D, step, n
<1>4. PICK f \in [0..n -> D] : Iterates(f, n, step, x)
  BY <1>1, <1>3, Iteration
<1>5. \A k \in 0..n : k > 0 => f[k] = Onward(f[k - 1])
  BY <1>1, <1>3, <1>4 DEF Iterates
<1>6. f = [k \in 0..n |-> IF k = 0 THEN x ELSE Onward(f[k - 1])]
  <2>1. \A k \in 0..n : f[k] = IF k = 0 THEN x ELSE Onward(f[k - 1])
    BY <1>1, <1>4, <1>5 DEF Iterates
  <2>q. QED
    BY <1>4, <2>1
<1>7. at = [k \in 0..n |-> IF k = 0 THEN x ELSE Onward(at[k - 1])]
  BY <1>6
<1>8. AtDistance(s) = at
  BY DEF AtDistance, x, n
<1> HIDE DEF at
<1>9. at[0] = x /\ \A k \in 0..n : k > 0 => at[k] = Onward(at[k - 1])
  <2>1. \A k \in 0..n : at[k] = IF k = 0 THEN x ELSE Onward(at[k - 1])
    BY <1>7, Zenon
  <2>q. QED
    BY <1>1, <2>1
<1>q. QED
  BY <1>1, <1>8, <1>9 DEF x, n

(* A file has something one step farther than the first of its names that  *)
(* has something.                                                          *)
LEMMA OneStepFarther ==
  ASSUME LoaderAssumption, NEW s, NEW k \in 1..Cardinality(Files), NEW f \in Files
  PROVE  LET before == AtDistance(s)[k - 1] IN
         /\ Via(before, f) \subseteq 1..Len(Needed[f]) /\ Needed[f] \in Seq(Names) /\ Len(Needed[f]) \in Nat
         /\ Via(before, f) = {} => AtDistance(s)[k][f] = {}
         /\ Via(before, f) # {} =>
              /\ Min(Via(before, f)) \in Via(before, f)
              /\ \A i \in Via(before, f) : Min(Via(before, f)) <= i
              /\ AtDistance(s)[k][f] = before[Needed[f][Min(Via(before, f))]]
              /\ AtDistance(s)[k][f] # {}
<1> DEFINE before == AtDistance(s)[k - 1]
<1>1. AtDistance(s)[k] = Onward(before)
  <2>1. k \in 0..Cardinality(Files) /\ k > 0
    BY AtDistanceIs
  <2>q. QED
    BY <2>1, AtDistanceIs
<1> HIDE DEF before
<1>2. AtDistance(s)[k][f] = IF Via(before, f) = {} THEN {} ELSE before[Needed[f][Min(Via(before, f))]]
  BY <1>1 DEF Onward, Via
<1>3. Needed[f] \in Seq(Names) /\ Len(Needed[f]) \in Nat /\ DOMAIN Needed[f] = 1..Len(Needed[f])
  BY LenProperties DEF LoaderAssumption
<1>4. Via(before, f) \subseteq 1..Len(Needed[f])
  BY <1>3 DEF Via
<1>5. Via(before, f) \subseteq Nat
  BY <1>3, <1>4
<1>6. Via(before, f) # {} => Min(Via(before, f)) \in Via(before, f) /\ \A i \in Via(before, f) : Min(Via(before, f)) <= i
  BY <1>5, MinIsLeast
<1>7. \A i \in Via(before, f) : before[Needed[f][i]] # {}
  BY DEF Via
<1>q. QED
  BY <1>2, <1>3, <1>4, <1>6, <1>7 DEF before

(* Whoever needs a file that gets something gets something.                *)
LEMMA NeededIsVia ==
  ASSUME LoaderAssumption, NEW found, NEW f \in Files, NEW x \in Range(Needed[f]) \cap Files, found[x] # {}
  PROVE  Via(found, f) # {}
BY DEF Via, Range

(* If it gets it at all, it gets it within as many steps as there are      *)
(* files.                                                                  *)
LEMMA AllWithinReach ==
  ASSUME LoaderAssumption, NEW s, NEW f \in Files, NEW x \in Range(Needed[f]) \cap Files, Rings(s, x) # {}
  PROVE  Rings(s, f) # {}
<1> DEFINE n == Cardinality(Files)
           at == AtDistance(s)
           S(k) == {g \in Files : \E j \in 0..k : at[j][g] # {}}
           Still(k) == \A g \in Files : \A y \in Range(Needed[g]) \cap Files : y \in S(k) => g \in S(k)
           T == {k \in Nat : k <= n => Still(k) \/ Cardinality(S(k)) > k}
<1>1. n \in Nat /\ IsFiniteSet(Files)
  BY AtDistanceIs DEF LoaderAssumption
<1>2. \A k \in Nat : IsFiniteSet(S(k)) /\ Cardinality(S(k)) \in Nat /\ Cardinality(S(k)) <= n
  <2>1. \A k \in Nat : S(k) \in SUBSET Files
    OBVIOUS
  <2> HIDE DEF S, at
  <2>q. QED
    BY <1>1, <2>1, FS_Subset, FS_CardinalityType
<1>3. 0 \in T
  <2>1. CASE S(0) = {}
    <3>1. Still(0)
      BY <2>1
    <3>q. QED
      BY <3>1
  <2>2. CASE S(0) # {}
    <3> HIDE DEF S, at
    <3>1. Cardinality(S(0)) # 0 /\ Cardinality(S(0)) \in Nat
      BY <1>2, <2>2, FS_EmptySet
    <3>2. Cardinality(S(0)) > 0
      BY <3>1
    <3>q. QED
      BY <3>2
  <2>q. QED
    BY <2>1, <2>2
<1>4. ASSUME NEW k \in T PROVE k + 1 \in T
  <2>1. SUFFICES ASSUME k + 1 <= n PROVE Still(k + 1) \/ Cardinality(S(k + 1)) > k + 1
    <3> HIDE DEF S, Still
    <3>1. k + 1 \in Nat
      OBVIOUS
    <3>q. QED
      BY <3>1
  <2>2. k \in Nat /\ k + 1 \in Nat /\ (Still(k) \/ Cardinality(S(k)) > k)
    <3> HIDE DEF S, Still
    <3>1. k \in Nat /\ k + 1 \in Nat /\ k <= n
      BY <1>1, <2>1
    <3>q. QED
      BY <3>1
  <2>3. S(k) \subseteq S(k + 1)
    <3>1. \A j \in 0..k : j \in 0..k + 1
      BY <2>2
    <3>q. QED
      BY <3>1
  <2>4. CASE Still(k)
    <3>1. ASSUME NEW g \in S(k + 1) PROVE g \in S(k)
      <4>1. PICK j \in 0..k + 1 : at[j][g] # {}
        OBVIOUS
      <4>2. CASE j = 0
        <5>1. 0 \in 0..k
          BY <2>2
        <5>q. QED
          BY <4>1, <4>2, <5>1
      <4>3. CASE j # 0
        <5>1. j \in 1..n /\ j - 1 \in 0..k /\ g \in Files
          BY <2>1, <2>2, <1>1, <4>3
        <5>2. Via(at[j - 1], g) # {}
          BY <4>1, <5>1, OneStepFarther
        <5>3. PICK y \in Range(Needed[g]) \cap Files : at[j - 1][y] # {}
          BY <5>2 DEF Via, Range
        <5>4. y \in S(k)
          BY <5>1, <5>3
        <5> HIDE DEF S
        <5>q. QED
          BY <2>4, <5>1, <5>3, <5>4
      <4>q. QED
        BY <4>2, <4>3
    <3>2. S(k + 1) = S(k)
      BY <2>3, <3>1
    <3> HIDE DEF S
    <3>q. QED
      BY <2>4, <3>2
  <2>5. CASE ~Still(k)
    <3>0. PICK g \in Files : \E y \in Range(Needed[g]) \cap Files : y \in S(k) /\ g \notin S(k)
      BY <2>5
    <3>1. PICK y \in Range(Needed[g]) \cap Files : y \in S(k) /\ g \notin S(k)
      BY <3>0
    <3>2. PICK j \in 0..k : at[j][y] # {}
      BY <3>1
    <3>3. j + 1 \in 1..n /\ j + 1 \in 0..k + 1 /\ (j + 1) - 1 = j
      BY <2>1, <2>2, <1>1
    <3>4. Via(at[j], g) # {}
      BY <3>1, <3>2, NeededIsVia
    <3>5. at[j + 1][g] # {}
      <4>1. Via(at[(j + 1) - 1], g) # {} => at[j + 1][g] # {}
        BY <3>3, OneStepFarther
      <4>q. QED
        BY <3>3, <3>4, <4>1
    <3>6. g \in S(k + 1)
      BY <3>3, <3>5
    <3> HIDE DEF S, at
    <3>7. IsFiniteSet(S(k + 1)) /\ S(k) \in SUBSET S(k + 1) /\ S(k) # S(k + 1)
      BY <1>2, <2>2, <2>3, <3>1, <3>6
    <3>8. /\ Cardinality(S(k)) <= Cardinality(S(k + 1))
          /\ Cardinality(S(k)) = Cardinality(S(k + 1)) => S(k) = S(k + 1)
      BY <3>7, FS_Subset
    <3>9. Cardinality(S(k)) \in Nat /\ Cardinality(S(k + 1)) \in Nat
      BY <1>2, <2>2
    <3>10. Cardinality(S(k)) > k
      BY <2>2, <2>5
    <3>q. QED
      BY <2>2, <3>7, <3>8, <3>9, <3>10
  <2>q. QED
    BY <2>4, <2>5
<1>5. T = Nat
  <2> HIDE DEF S, Still
  <2>1. T \subseteq Nat
    OBVIOUS
  <2> HIDE DEF T
  <2>q. QED
    BY <1>3, <1>4, <2>1, Induction
<1>6. Still(n)
  <2> HIDE DEF S, Still
  <2>1. Still(n) \/ Cardinality(S(n)) > n
    BY <1>1, <1>5
  <2>2. Cardinality(S(n)) \in Nat /\ Cardinality(S(n)) <= n
    BY <1>1, <1>2
  <2>q. QED
    BY <1>1, <2>1, <2>2
<1>7. \A g \in Files : g \in S(n) <=> Rings(s, g) # {}
  BY DEF Rings
<1> HIDE DEF S
<1>q. QED
  BY <1>6, <1>7

(* The distance of a file, and what it gets from there.                    *)
LEMMA DistanceIs ==
  ASSUME LoaderAssumption, NEW s, NEW f \in Files
  PROVE  /\ Cardinality(Files) \in Nat /\ Distance(s, f) \in Nat
         /\ \/ /\ Rings(s, f) = {} /\ Distance(s, f) = Cardinality(Files) + 1 /\ Nearest(s, f) = {}
            \/ /\ Rings(s, f) # {} /\ Distance(s, f) \in 0..Cardinality(Files)
               /\ Distance(s, f) \in Rings(s, f) /\ Nearest(s, f) # {}
               /\ Nearest(s, f) = AtDistance(s)[Distance(s, f)][f]
         /\ \A k \in Rings(s, f) : Distance(s, f) <= k
<1> DEFINE R == Rings(s, f)
<1>1. Cardinality(Files) \in Nat
  BY AtDistanceIs
<1>2. R \subseteq 0..Cardinality(Files) /\ \A k \in R : AtDistance(s)[k][f] # {}
  BY DEF Rings
<1>3. R \subseteq Nat
  BY <1>1, <1>2
<1>4. Nearest(s, f) = IF R = {} THEN {} ELSE AtDistance(s)[Min(R)][f]
  BY DEF Nearest, Rings
<1>5. Distance(s, f) = IF R = {} THEN Cardinality(Files) + 1 ELSE Min(R)
  BY DEF Distance
<1>6. R # {} => Min(R) \in R /\ \A k \in R : Min(R) <= k
  BY <1>3, MinIsLeast
<1> HIDE DEF R
<1>7. CASE R = {}
  BY <1>1, <1>4, <1>5, <1>7 DEF R
<1>8. CASE R # {}
  <2>1. Distance(s, f) \in R /\ Distance(s, f) \in 0..Cardinality(Files) /\ Distance(s, f) \in Nat
    BY <1>2, <1>3, <1>5, <1>6, <1>8
  <2>2. Nearest(s, f) = AtDistance(s)[Distance(s, f)][f] /\ Nearest(s, f) # {}
    BY <1>2, <1>4, <1>5, <1>8, <2>1
  <2>3. \A k \in R : Distance(s, f) <= k
    BY <1>5, <1>6, <1>8
  <2>q. QED
    BY <1>1, <1>8, <2>1, <2>2, <2>3 DEF R
<1>q. QED
  BY <1>7, <1>8

(* A file that has the symbol gets it from itself, and only that one is at *)
(* no distance.                                                            *)
LEMMA NoDistance ==
  ASSUME LoaderAssumption, NEW s, NEW f \in Files
  PROVE  /\ Distance(s, f) = 0 <=> s \in Defines[f]
         /\ s \in Defines[f] => Nearest(s, f) = {f}
<1>1. AtDistance(s)[0][f] = {f} \cap {g \in Files : s \in Defines[g]}
  <2>1. AtDistance(s)[0] = [h \in Files |-> {h} \cap {g \in Files : s \in Defines[g]}]
    BY AtDistanceIs
  <2>q. QED
    BY <2>1
<1>2. s \in Defines[f] => AtDistance(s)[0][f] = {f}
  BY <1>1
<1>3. s \notin Defines[f] => AtDistance(s)[0][f] = {}
  BY <1>1
<1>4. 0 \in 0..Cardinality(Files) /\ Cardinality(Files) + 1 # 0
  <2>1. Cardinality(Files) \in Nat
    BY AtDistanceIs
  <2>q. QED
    BY <2>1
<1>5. s \in Defines[f] => 0 \in Rings(s, f)
  BY <1>2, <1>4 DEF Rings
<1>6. s \notin Defines[f] => 0 \notin Rings(s, f)
  BY <1>3 DEF Rings
<1>7. CASE s \in Defines[f]
  <2>1. Distance(s, f) <= 0 /\ Distance(s, f) \in Nat
    BY <1>5, <1>7, DistanceIs
  <2>2. Distance(s, f) = 0
    BY <2>1
  <2>q. QED
    BY <1>2, <1>4, <1>5, <1>7, <2>2, DistanceIs
<1>8. CASE s \notin Defines[f]
  BY <1>4, <1>6, <1>8, DistanceIs
<1>q. QED
  BY <1>7, <1>8

(* A name brings a file no nearer than one step.                           *)
LEMMA OneNearerAtMost ==
  ASSUME LoaderAssumption, NEW s, NEW f \in Files, NEW x \in Range(Needed[f]) \cap Files
  PROVE  /\ Distance(s, f) <= Distance(s, x) + 1
         /\ Nearest(s, f) = {} => Nearest(s, x) = {}
<1> DEFINE n == Cardinality(Files)
           k == Distance(s, x)
<1>1. n \in Nat /\ k \in Nat /\ Distance(s, f) \in Nat
  BY DistanceIs
<1>2. CASE Rings(s, x) = {}
  <2>1. k = n + 1 /\ Nearest(s, x) = {}
    BY <1>2, DistanceIs
  <2>2. Distance(s, f) <= n + 1
    <3>1. Distance(s, f) = n + 1 \/ Distance(s, f) \in 0..n
      BY DistanceIs
    <3>q. QED
      BY <1>1, <3>1
  <2>q. QED
    BY <1>1, <2>1, <2>2
<1>3. CASE Rings(s, x) # {}
  <2>1. Rings(s, f) # {} /\ k \in Rings(s, x)
    BY <1>3, AllWithinReach, DistanceIs
  <2>2. Nearest(s, f) # {} /\ Distance(s, f) \in 0..n
    BY <2>1, DistanceIs
  <2>3. k \in 0..n /\ AtDistance(s)[k][x] # {}
    BY <2>1 DEF Rings
  <2>4. CASE k = n
    BY <1>1, <2>2, <2>4
  <2>5. CASE k # n
    <3>1. k + 1 \in 1..n /\ k + 1 \in 0..n /\ (k + 1) - 1 = k
      BY <1>1, <2>3, <2>5
    <3>2. Via(AtDistance(s)[k], f) # {}
      BY <2>3, NeededIsVia
    <3> HIDE DEF k
    <3>3. AtDistance(s)[k + 1][f] # {}
      <4>1. Via(AtDistance(s)[(k + 1) - 1], f) # {} => AtDistance(s)[k + 1][f] # {}
        BY <3>1, OneStepFarther
      <4>q. QED
        BY <3>1, <3>2, <4>1
    <3>4. k + 1 \in Rings(s, f)
      BY <3>1, <3>3 DEF Rings
    <3>q. QED
      BY <2>2, <3>4, DistanceIs DEF k
  <2>q. QED
    BY <2>2, <2>4, <2>5
<1>q. QED
  BY <1>2, <1>3

(* A file at a distance gets what the first of its names that is nearer    *)
(* gets.                                                                   *)
LEMMA FirstNearer ==
  ASSUME LoaderAssumption, NEW s, NEW f \in Files,
         0 < Distance(s, f), Distance(s, f) <= Cardinality(Files)
  PROVE  \E j \in 1..Len(Needed[f]) :
           /\ Needed[f][j] \in Files
           /\ Distance(s, Needed[f][j]) = Distance(s, f) - 1
           /\ Nearest(s, Needed[f][j]) = Nearest(s, f)
           /\ \A i \in 1..Len(Needed[f]) :
                i < j /\ Needed[f][i] \in Files => Distance(s, Needed[f][i]) # Distance(s, f) - 1
<1> DEFINE n == Cardinality(Files)
           k == Distance(s, f)
           before == AtDistance(s)[k - 1]
<1>1. n \in Nat /\ k \in Nat /\ k \in 1..n /\ k - 1 \in 0..n
  BY DistanceIs
<1>2. Rings(s, f) # {} /\ Nearest(s, f) = AtDistance(s)[k][f] /\ Nearest(s, f) # {}
  <2>1. k # n + 1
    BY <1>1
  <2>q. QED
    BY <2>1, DistanceIs
<1> HIDE DEF k
<1>3. /\ Via(before, f) \subseteq 1..Len(Needed[f]) /\ Len(Needed[f]) \in Nat
      /\ Via(before, f) = {} => AtDistance(s)[k][f] = {}
      /\ Via(before, f) # {} =>
              /\ Min(Via(before, f)) \in Via(before, f)
              /\ \A i \in Via(before, f) : Min(Via(before, f)) <= i
              /\ AtDistance(s)[k][f] = before[Needed[f][Min(Via(before, f))]]
  BY <1>1, OneStepFarther
<1> HIDE DEF before
<1>4. PICK j \in Via(before, f) : /\ \A i \in Via(before, f) : j <= i
                                  /\ Nearest(s, f) = before[Needed[f][j]]
  BY <1>2, <1>3
<1>5. j \in 1..Len(Needed[f]) /\ Needed[f][j] \in Files /\ before[Needed[f][j]] # {}
  BY <1>3 DEF Via
<1>6. Needed[f][j] \in Range(Needed[f]) \cap Files
  <2>1. Needed[f] \in Seq(Names)
    BY DEF LoaderAssumption
  <2>2. DOMAIN Needed[f] = 1..Len(Needed[f])
    BY <2>1, LenProperties
  <2>q. QED
    BY <1>5, <2>2 DEF Range
<1>7. ASSUME NEW x \in Files, before[x] # {}, k <= Distance(s, x) + 1
      PROVE  Distance(s, x) = k - 1 /\ Nearest(s, x) = before[x]
  <2>1. k - 1 \in Rings(s, x)
    BY <1>1, <1>7 DEF Rings, before
  <2>2. Distance(s, x) <= k - 1 /\ Distance(s, x) \in Nat
    BY <2>1, DistanceIs
  <2>3. Distance(s, x) = k - 1
    BY <1>1, <1>7, <2>2
  <2>4. Nearest(s, x) = AtDistance(s)[Distance(s, x)][x]
    BY <2>1, DistanceIs
  <2>q. QED
    BY <2>3, <2>4 DEF before
<1>8. Distance(s, Needed[f][j]) = k - 1 /\ Nearest(s, Needed[f][j]) = Nearest(s, f)
  <2>1. k <= Distance(s, Needed[f][j]) + 1
    BY <1>6, OneNearerAtMost DEF k
  <2>q. QED
    BY <1>4, <1>5, <1>7, <2>1
<1>9. ASSUME NEW i \in 1..Len(Needed[f]), i < j, Needed[f][i] \in Files, Distance(s, Needed[f][i]) = k - 1
      PROVE  FALSE
  <2> DEFINE x == Needed[f][i]
  <2>1. Distance(s, x) # n + 1 /\ x \in Files
    BY <1>1, <1>9
  <2>2. Rings(s, x) # {} /\ Distance(s, x) \in Rings(s, x)
    BY <2>1, DistanceIs
  <2>3. before[x] # {}
    BY <1>9, <2>2 DEF Rings, before
  <2>4. i \in Via(before, f)
    <3>1. Needed[f] \in Seq(Names)
      BY DEF LoaderAssumption
    <3>2. DOMAIN Needed[f] = 1..Len(Needed[f])
      BY <3>1, LenProperties
    <3>q. QED
      BY <1>9, <2>3, <3>2 DEF Via
  <2>5. j <= i
    BY <1>4, <2>4
  <2>q. QED
    BY <1>3, <1>5, <1>9, <2>5
<1>q. QED
  BY <1>5, <1>8, <1>9 DEF k
-----------------------------------------------------------------------------
(* The order of the dependencies.                                          *)

(* In a list of files the j-th of the names stands behind earlier names    *)
(* only; so do all names that are provided; so do those up to the p-th,    *)
(* and the list has no others.                                             *)
Listed(list, names, j) ==
  \E i \in 1..Len(list) :
    /\ list[i] = names[j]
    /\ \A h \in 1..Len(list) : h < i => \E l \in 1..Len(names) : l < j /\ list[h] = names[l]

AllListed(list, names) == \A j \in 1..Len(names) : names[j] \in Files => Listed(list, names, j)

ListedUpTo(list, names, p) ==
  /\ \A j \in 1..p : names[j] \in Files => Listed(list, names, j)
  /\ \A i \in 1..Len(list) : \E l \in 1..p : list[i] = names[l]

(* What is listed stays so as the list grows.                              *)
LEMMA ListedStays ==
  ASSUME NEW S, NEW list \in Seq(S), NEW g \in S, NEW names, NEW j, Listed(list, names, j)
  PROVE  Listed(Append(list, g), names, j)
<1> DEFINE n == Len(list)
           q == Append(list, g)
<1>1. /\ n \in Nat /\ Len(q) = n + 1
      /\ \A i \in 1..n : q[i] = list[i] /\ i \in 1..n + 1
  OBVIOUS
<1> HIDE DEF n, q
<1>2. PICK i \in 1..n :
        /\ list[i] = names[j]
        /\ \A h \in 1..n : h < i => \E l \in 1..Len(names) : l < j /\ list[h] = names[l]
  BY DEF Listed, n
<1>3. \A h \in 1..Len(q) : h < i => h \in 1..n
  BY <1>1
<1>4. \A h \in 1..Len(q) : h < i => \E l \in 1..Len(names) : l < j /\ q[h] = names[l]
  BY <1>1, <1>2, <1>3
<1>5. Listed(q, names, j)
  BY <1>1, <1>2, <1>4 DEF Listed
<1>q. QED
  BY <1>5 DEF q

(* So a list of all names stays one.                                       *)
LEMMA AllListedStays ==
  ASSUME NEW S, NEW list \in Seq(S), NEW g \in S, NEW names, AllListed(list, names)
  PROVE  AllListed(Append(list, g), names)
BY ListedStays DEF AllListed

(* The next name is listed when its file is put at the end.                *)
LEMMA NextIsListed ==
  ASSUME NEW S, NEW list \in Seq(S), NEW T, NEW names \in Seq(T), NEW p \in Nat, p + 1 <= Len(names),
         NEW g \in S, names[p + 1] = g, ListedUpTo(list, names, p)
  PROVE  ListedUpTo(Append(list, g), names, p + 1)
<1> DEFINE n == Len(list)
           q == Append(list, g)
           k == Len(names)
<1>1. /\ n \in Nat /\ Len(q) = n + 1 /\ q[n + 1] = g /\ n + 1 \in 1..n + 1
      /\ \A i \in 1..n : q[i] = list[i]
      /\ \A i \in 1..n + 1 : i \in 1..n \/ i = n + 1
      /\ k \in Nat
  OBVIOUS
<1> HIDE DEF n, q, k
<1>2. \A l \in 1..p : l \in 1..k /\ l < p + 1 /\ l \in 1..p + 1
  BY <1>1 DEF k
<1>3. \A i \in 1..n : \E l \in 1..p : list[i] = names[l]
  BY DEF ListedUpTo, n
<1>4. Listed(q, names, p + 1)
  <2>1. ASSUME NEW h \in 1..Len(q), h < n + 1 PROVE \E l \in 1..Len(names) : l < p + 1 /\ q[h] = names[l]
    <3>1. h \in 1..n
      BY <1>1, <2>1
    <3>q. QED
      BY <1>1, <1>2, <1>3, <3>1 DEF k
  <2>q. QED
    BY <1>1, <2>1 DEF Listed
<1>5. ASSUME NEW j \in 1..p + 1, names[j] \in Files PROVE Listed(q, names, j)
  <2>1. CASE j = p + 1
    BY <1>4, <2>1
  <2>2. CASE j # p + 1
    <3>1. j \in 1..p
      BY <2>2
    <3>2. Listed(list, names, j)
      BY <1>5, <3>1 DEF ListedUpTo
    <3>q. QED
      BY <3>2, ListedStays DEF q
  <2>q. QED
    BY <2>1, <2>2
<1>6. ASSUME NEW i \in 1..Len(q) PROVE \E l \in 1..p + 1 : q[i] = names[l]
  <2>1. CASE i \in 1..n
    BY <1>1, <1>2, <1>3, <2>1
  <2>2. CASE i = n + 1
    <3>1. p + 1 \in 1..p + 1
      OBVIOUS
    <3>q. QED
      BY <1>1, <2>2, <3>1
  <2>q. QED
    BY <1>1, <2>1, <2>2
<1>7. ListedUpTo(q, names, p + 1)
  BY <1>5, <1>6 DEF ListedUpTo
<1>q. QED
  BY <1>7 DEF q

(* A name nobody provides has no place in the list.                        *)
LEMMA MissingIsListed ==
  ASSUME NEW list, NEW names, NEW p \in Nat, names[p + 1] \notin Files, ListedUpTo(list, names, p)
  PROVE  ListedUpTo(list, names, p + 1)
<1>1. \A j \in 1..p + 1 : j \in 1..p \/ j = p + 1
  OBVIOUS
<1>2. \A l \in 1..p : l \in 1..p + 1
  OBVIOUS
<1>q. QED
  BY <1>1, <1>2 DEF ListedUpTo

(* The files of a module's dependencies, and how many names of a frame's   *)
(* file are behind it.                                                     *)
Got(m) == [i \in 1..Len(deps[m]) |-> file[deps[m][i]]]

Behind(frame) == Len(Needed[frame.file]) - Len(frame.todo)

(* A frame is somewhere along the names of its file, and it is the only    *)
(* one on its module.                                                      *)
Walked ==
  \A i \in 1..Len(stack) :
    /\ Behind(stack[i]) >= 0
    /\ \A t \in 1..Len(stack[i].todo) : stack[i].todo[t] = Needed[stack[i].file][Behind(stack[i]) + t]

OneEach == \A i, k \in 1..Len(stack) : stack[i].id = stack[k].id => i = k

(* The dependencies of a module are in the order of the names, as far as   *)
(* its frame has walked them.                                              *)
ListedAtAll(m) ==
  \E list \in {Got(m)} : \E names \in {Needed[file[m]]} : AllListed(list, names)

ListedByFrame(i, m) ==
  /\ stack[i].id = m
  /\ \E list \in {Got(m)} : \E names \in {Needed[file[m]]} : \E p \in {Behind(stack[i])} :
       ListedUpTo(list, names, p)

InOrder ==
  clean => \A m \in Modules : ListedAtAll(m) \/ \E i \in 1..Len(stack) : ListedByFrame(i, m)

Ordered == Walked /\ OneEach /\ InOrder

(* The dependencies' files are a list.                                     *)
LEMMA GotIs ==
  ASSUME Typed, NEW m \in Modules
  PROVE  /\ Got(m) \in Seq(Files) /\ Len(Got(m)) = Len(deps[m]) /\ Len(deps[m]) \in Nat
         /\ \A i \in 1..Len(deps[m]) : deps[m][i] \in Modules /\ Got(m)[i] = file[deps[m][i]]
<1>1. deps[m] \in Seq(Modules) /\ \A x \in Modules : file[x] \in Files
  BY ModulesAre
<1>2. Len(deps[m]) \in Nat /\ \A i \in 1..Len(deps[m]) : deps[m][i] \in Modules
  BY <1>1, LenProperties
<1>q. QED
  BY <1>1, <1>2 DEF Got

(* It grows with an edge.                                                  *)
LEMMA GotMore ==
  ASSUME Typed, NEW m \in Modules, NEW on \in Modules, deps'[m] = Append(deps[m], on), UNCHANGED file
  PROVE  Got(m)' = Append(Got(m), file[on])
<1>1. deps[m] \in Seq(Modules) /\ Got(m) \in Seq(Files) /\ Len(Got(m)) = Len(deps[m]) /\ Len(deps[m]) \in Nat
  BY GotIs, ModulesAre
<1>2. /\ Len(deps'[m]) = Len(deps[m]) + 1 /\ deps'[m][Len(deps[m]) + 1] = on
      /\ \A i \in 1..Len(deps[m]) : deps'[m][i] = deps[m][i]
  BY <1>1
<1>3. Got(m)' = [i \in 1..Len(deps[m]) + 1 |-> file[deps'[m][i]]]
  BY <1>2 DEF Got
<1>4. /\ Append(Got(m), file[on]) = [i \in 1..Len(deps[m]) + 1 |-> Append(Got(m), file[on])[i]]
      /\ Append(Got(m), file[on])[Len(deps[m]) + 1] = file[on]
      /\ \A i \in 1..Len(deps[m]) : Append(Got(m), file[on])[i] = Got(m)[i]
  BY <1>1
<1>5. \A i \in 1..Len(deps[m]) + 1 : file[deps'[m][i]] = Append(Got(m), file[on])[i]
  <2>1. \A i \in 1..Len(deps[m]) + 1 : i \in 1..Len(deps[m]) \/ i = Len(deps[m]) + 1
    BY <1>1
  <2>2. \A i \in 1..Len(deps[m]) : Got(m)[i] = file[deps[m][i]]
    BY GotIs
  <2>q. QED
    BY <1>2, <1>4, <2>1, <2>2
<1>q. QED
  BY <1>3, <1>4, <1>5

(* A name's place: a frame's first name is the one after those behind it.  *)
LEMMA PlaceTyped ==
  ASSUME LoaderAssumption, Typed, Walked, NEW i \in 1..Len(stack)
  PROVE  /\ stack[i].id \in Modules /\ stack[i].file \in Files
         /\ stack[i].todo \in Seq(Names) /\ Len(stack[i].todo) \in Nat
         /\ Needed[stack[i].file] \in Seq(Names) /\ Len(Needed[stack[i].file]) \in Nat
         /\ Behind(stack[i]) \in Nat
         /\ Behind(stack[i]) + Len(stack[i].todo) = Len(Needed[stack[i].file])
<1>1. stack[i] \in Frames(Len(file)) /\ Modules = 1..Len(file)
  BY ModulesAre
<1>2. /\ stack[i].id \in Modules /\ stack[i].file \in Files /\ stack[i].todo \in Seq(Names)
      /\ Len(stack[i].todo) \in Nat
  BY <1>1, LenProperties DEF Frames
<1>3. Needed[stack[i].file] \in Seq(Names) /\ Len(Needed[stack[i].file]) \in Nat
  BY <1>2, LenProperties DEF LoaderAssumption
<1>4. Behind(stack[i]) >= 0
  BY DEF Walked
<1>q. QED
  BY <1>2, <1>3, <1>4 DEF Behind

(* Entering a file keeps the order: its frame is at the beginning, on a    *)
(* module no frame is on.                                                  *)
LEMMA EnterOrder ==
  ASSUME Typed, SonamesSound, SonamesMatch, LoaderAssumption, Ordered, NEW f \in Files, Enter(f),
         stack # <<>> => f \notin DOMAIN bySoname
  PROVE  Ordered'
<1> DEFINE n == Len(stack)
<1>1. PICK id \in Modules' :
        /\ stack' = Append(stack, Frame(id, f)) /\ file'[id] = f
        /\ Modules \subseteq Modules' /\ \A m \in Modules : Same(m)
        /\ \A m \in Modules' \ Modules : m = id /\ deps'[m] = <<>>
  BY EnterFiles
<1>2. /\ n \in Nat /\ Len(stack') = n + 1
      /\ \A i \in 1..n : stack'[i] = stack[i] /\ stack[i].id \in Modules /\ i \in 1..n + 1
      /\ stack'[n + 1] = Frame(id, f)
      /\ \A i \in 1..n + 1 : i \in 1..n \/ i = n + 1
  <2>1. n \in Nat /\ \A i \in 1..n : stack[i].id \in Modules
    BY ModulesAre DEF Frames
  <2>2. /\ Len(stack') = n + 1 /\ \A i \in 1..n : stack'[i] = stack[i]
        /\ stack'[n + 1] = Frame(id, f)
    BY <1>1, Pushed
  <2>q. QED
    BY <2>1, <2>2
<1>3. Frame(id, f).id = id /\ Frame(id, f).file = f /\ Frame(id, f).todo = Needed[f]
  BY DEF Frame
<1>4. Needed[f] \in Seq(Names) /\ Len(Needed[f]) \in Nat /\ Behind(Frame(id, f)) = 0
  <2>1. Needed[f] \in Seq(Names)
    BY DEF LoaderAssumption
  <2>2. Len(Needed[f]) \in Nat
    BY <2>1, LenProperties
  <2>q. QED
    BY <1>3, <2>1, <2>2 DEF Behind
<1>5. n = 0 \/ id \notin Modules
  <2>1. SUFFICES ASSUME n # 0 PROVE id \notin Modules
    OBVIOUS
  <2>2. f \notin DOMAIN bySoname
    <3>1. stack # <<>>
      BY <2>1
    <3>q. QED
      BY <3>1
  <2>3. ~Known(f)
    BY <2>2 DEF Known, SonamesMatch, SonamesSound
  <2>4. LoadNew(f)
    BY <2>3 DEF Enter
  <2>5. stack' = Append(stack, Frame(Len(file) + 1, f))
    BY <2>4 DEF LoadNew
  <2>6. stack'[n + 1] = Frame(Len(file) + 1, f)
    BY <2>5, Pushed
  <2>7. id = Len(file) + 1
    <3>1. Frame(Len(file) + 1, f).id = Len(file) + 1
      BY DEF Frame
    <3>q. QED
      BY <1>2, <1>3, <2>6, <3>1
  <2>q. QED
    BY <2>7, ModulesAre
<1> HIDE DEF n
<1>6. Walked'
  <2>1. ASSUME NEW i \in 1..n
        PROVE  /\ Behind(stack[i]) >= 0
               /\ \A t \in 1..Len(stack[i].todo) : stack[i].todo[t] = Needed[stack[i].file][Behind(stack[i]) + t]
    BY DEF Ordered, Walked, n
  <2>2. /\ Behind(Frame(id, f)) >= 0
        /\ \A t \in 1..Len(Needed[f]) : Needed[f][t] = Needed[f][Behind(Frame(id, f)) + t]
    BY <1>4
  <2>3. ASSUME NEW i \in 1..Len(stack')
        PROVE  /\ Behind(stack'[i]) >= 0
               /\ \A t \in 1..Len(stack'[i].todo) :
                    stack'[i].todo[t] = Needed[stack'[i].file][Behind(stack'[i]) + t]
    <3>1. CASE i \in 1..n
      BY <1>2, <2>1, <3>1
    <3>2. CASE i = n + 1
      BY <1>2, <1>3, <2>2, <3>2
    <3>q. QED
      BY <1>2, <3>1, <3>2
  <2>q. QED
    BY <2>3 DEF Walked, Behind
<1>7. OneEach'
  <2>1. \A i, k \in 1..n : stack[i].id = stack[k].id => i = k
    BY DEF Ordered, OneEach, n
  <2>2. ASSUME NEW i \in 1..n PROVE stack[i].id # id
    <3>1. n # 0
      BY <1>2
    <3>q. QED
      BY <1>2, <1>5, <3>1
  <2>3. ASSUME NEW i \in 1..n + 1, NEW k \in 1..n + 1, stack'[i].id = stack'[k].id PROVE i = k
    <3>1. CASE i \in 1..n /\ k \in 1..n
      BY <1>2, <2>1, <2>3, <3>1
    <3>2. CASE i = n + 1 /\ k \in 1..n
      BY <1>2, <1>3, <2>2, <2>3, <3>2
    <3>3. CASE i \in 1..n /\ k = n + 1
      BY <1>2, <1>3, <2>2, <2>3, <3>3
    <3>q. QED
      BY <1>2, <3>1, <3>2, <3>3
  <2>q. QED
    BY <1>2, <2>3 DEF OneEach
<1>8. InOrder'
  <2>1. clean' = clean
    BY DEF Enter, LoadNew
  <2>2. ASSUME clean, NEW m \in Modules
        PROVE  ListedAtAll(m)' \/ \E i \in 1..Len(stack') : ListedByFrame(i, m)'
    <3>1. file'[m] = file[m] /\ deps'[m] = deps[m] /\ m \in Modules'
      BY <1>1 DEF Same
    <3>2. Got(m)' = Got(m)
      <4>1. \A i \in 1..Len(deps[m]) : deps[m][i] \in Modules
        BY GotIs
      <4>2. \A i \in 1..Len(deps[m]) : file'[deps[m][i]] = file[deps[m][i]]
        BY <1>1, <4>1 DEF Same
      <4>q. QED
        BY <3>1, <4>2 DEF Got
    <3>3. ListedAtAll(m) \/ \E i \in 1..n : ListedByFrame(i, m)
      BY <2>2 DEF Ordered, InOrder, n
    <3>4. ASSUME NEW i \in 1..n, ListedByFrame(i, m) PROVE i \in 1..Len(stack') /\ ListedByFrame(i, m)'
      <4>1. stack'[i] = stack[i] /\ i \in 1..Len(stack')
        BY <1>2
      <4>q. QED
        BY <3>1, <3>2, <3>4, <4>1 DEF ListedByFrame, Behind
    <3>5. ListedAtAll(m) => ListedAtAll(m)'
      BY <3>1, <3>2 DEF ListedAtAll
    <3>q. QED
      BY <3>3, <3>4, <3>5
  <2>3. ASSUME NEW m \in Modules', m \notin Modules
        PROVE  \E i \in 1..Len(stack') : ListedByFrame(i, m)'
    <3>1. m = id /\ deps'[m] = <<>> /\ file'[m] = f
      BY <1>1, <2>3
    <3>2. Len(Got(m)') = 0
      <4>1. Got(m)' = [i \in 1..Len(deps'[m]) |-> file'[deps'[m][i]]]
        BY DEF Got
      <4>2. Len(deps'[m]) = 0
        BY <3>1
      <4>q. QED
        BY <4>1, <4>2
    <3>3. ListedUpTo(Got(m)', Needed[f], 0)
      <4>1. 1..0 = {}
        OBVIOUS
      <4>q. QED
        BY <3>2, <4>1 DEF ListedUpTo
    <3>4. n + 1 \in 1..Len(stack') /\ stack'[n + 1].id = m /\ Behind(stack'[n + 1]) = 0
      <4>1. n + 1 \in 1..Len(stack')
        BY <1>2
      <4>q. QED
        BY <1>2, <1>3, <1>4, <3>1, <4>1
    <3>q. QED
      BY <3>1, <3>3, <3>4 DEF ListedByFrame, Behind
  <2>q. QED
    BY <2>1, <2>2, <2>3 DEF InOrder
<1>q. QED
  BY <1>6, <1>7, <1>8 DEF Ordered

(* A frame at the end of its list has all names listed.                    *)
LEMMA EndIsAll ==
  ASSUME LoaderAssumption, Typed, Walked, Named, NEW i \in 1..Len(stack), stack[i].todo = <<>>,
         NEW m, ListedByFrame(i, m)
  PROVE  ListedAtAll(m)
<1>1. stack[i].id = m /\ ListedUpTo(Got(m), Needed[file[m]], Behind(stack[i]))
  BY DEF ListedByFrame
<1>2. file[m] = stack[i].file
  BY <1>1 DEF Named
<1>3. Behind(stack[i]) = Len(Needed[file[m]])
  <2>1. Len(stack[i].todo) = 0
    OBVIOUS
  <2>2. Behind(stack[i]) \in Nat /\ Behind(stack[i]) + Len(stack[i].todo) = Len(Needed[stack[i].file])
    BY PlaceTyped
  <2>q. QED
    BY <1>2, <2>1, <2>2
<1>4. AllListed(Got(m), Needed[file[m]])
  BY <1>1, <1>3 DEF AllListed, ListedUpTo
<1>q. QED
  BY <1>4 DEF ListedAtAll

(* The first name of frame j's list becomes the last dependency of its     *)
(* module, if it is provided.                                              *)
LastEdge(j) ==
  /\ file' = file /\ clean' = clean
  /\ \/ deps' = deps /\ Head(stack[j].todo) \notin Files
     \/ \E on \in Modules : /\ file[on] = Head(stack[j].todo)
                            /\ deps'[stack[j].id] = Append(deps[stack[j].id], on)
                            /\ \A m \in Modules : m # stack[j].id => deps'[m] = deps[m]

(* Taking a name off its list so keeps the order.                          *)
LEMMA TakenOrder ==
  ASSUME LoaderAssumption, Typed, Named, Ordered, NEW j, Taken(j), LastEdge(j)
  PROVE  Ordered'
<1> DEFINE from == stack[j].id
           g == Head(stack[j].todo)
           p == Behind(stack[j])
           W == Needed[stack[j].file]
<1>1. /\ j \in 1..Len(stack) /\ from \in Modules /\ Len(stack) \in Nat
      /\ stack'[j].id = from /\ stack'[j].file = stack[j].file
      /\ stack'[j].todo = Tail(stack[j].todo) /\ stack[j].todo # <<>>
  BY TakenFrame, ModulesAre DEF Taken
<1>2. /\ Len(stack') = j /\ \A i \in 1..j : i < j => stack'[i] = stack[i]
      /\ \A i \in 1..j : i \in 1..Len(stack)
      /\ Modules' = Modules /\ file' = file /\ clean' = clean
  BY <1>1 DEF Taken, LastEdge, Modules
<1>3. /\ stack[j].todo \in Seq(Names) /\ Len(stack[j].todo) \in Nat /\ W \in Seq(Names) /\ Len(W) \in Nat
      /\ p \in Nat /\ p + Len(stack[j].todo) = Len(W)
  BY <1>1, PlaceTyped DEF Ordered
<1>4. /\ Len(Tail(stack[j].todo)) = Len(stack[j].todo) - 1 /\ Len(stack[j].todo) >= 1
      /\ \A t \in 1..Len(stack[j].todo) - 1 : Tail(stack[j].todo)[t] = stack[j].todo[t + 1]
      /\ g = stack[j].todo[1]
  BY <1>1, <1>3
<1>5. Behind(stack'[j]) = p + 1
  <2>1. Behind(stack'[j]) = Len(W) - Len(Tail(stack[j].todo))
    BY <1>1 DEF Behind
  <2> HIDE DEF p, W
  <2>2. Len(Tail(stack[j].todo)) = Len(stack[j].todo) - 1
    BY <1>4
  <2>3. \A x, y, z \in Nat : x + y = z => z - (y - 1) = x + 1
    OBVIOUS
  <2>4. Len(W) - (Len(stack[j].todo) - 1) = p + 1
    BY <1>3, <2>3
  <2>q. QED
    BY <2>1, <2>2, <2>4, Zenon
<1>6. \A t \in 1..Len(stack[j].todo) : stack[j].todo[t] = W[p + t]
  BY <1>1 DEF Ordered, Walked
<1>7. W[p + 1] = g /\ p + 1 <= Len(W)
  <2> HIDE DEF p, W, g
  <2>1. 1 \in 1..Len(stack[j].todo)
    BY <1>3, <1>4
  <2>2. stack[j].todo[1] = W[p + 1]
    BY <1>6, <2>1
  <2>q. QED
    BY <1>3, <1>4, <2>2
<1>8. file[from] = stack[j].file
  BY <1>1 DEF Named
<1> HIDE DEF from, g, p, W
<1>9. Walked'
  <2>1. ASSUME NEW i \in 1..j
        PROVE  /\ Behind(stack'[i]) >= 0
               /\ \A t \in 1..Len(stack'[i].todo) :
                    stack'[i].todo[t] = Needed[stack'[i].file][Behind(stack'[i]) + t]
    <3>1. CASE i < j
      BY <1>2, <3>1 DEF Ordered, Walked
    <3>2. CASE i = j
      <4>1. Behind(stack'[i]) >= 0
        BY <1>3, <1>5, <3>2
      <4>2. ASSUME NEW t \in 1..Len(stack'[j].todo)
            PROVE  stack'[j].todo[t] = W[(p + 1) + t]
        <5>1. t \in 1..Len(stack[j].todo) - 1 /\ t + 1 \in 1..Len(stack[j].todo)
          BY <1>1, <1>3, <1>4
        <5>2. stack'[j].todo[t] = stack[j].todo[t + 1]
          BY <1>1, <1>4, <5>1
        <5>3. stack[j].todo[t + 1] = W[p + (t + 1)]
          BY <1>6, <5>1
        <5>4. p + (t + 1) = (p + 1) + t
          BY <1>3
        <5>q. QED
          BY <5>2, <5>3, <5>4
      <4>q. QED
        BY <1>1, <1>5, <3>2, <4>1, <4>2 DEF W
    <3>q. QED
      BY <1>1, <3>1, <3>2
  <2>q. QED
    BY <1>2, <2>1 DEF Walked, Behind
<1>10. \A i \in 1..j : stack'[i].id = stack[i].id
  <2>1. ASSUME NEW i \in 1..j PROVE stack'[i].id = stack[i].id
    <3>1. i < j \/ i = j
      BY <1>1
    <3>q. QED
      BY <1>1, <1>2, <3>1 DEF from
  <2>q. QED
    BY <2>1
<1>11. OneEach'
  BY <1>2, <1>10 DEF Ordered, OneEach
<1>12. \A m \in Modules : \/ Got(m)' = Got(m) /\ (m = from => g \notin Files)
                          \/ m = from /\ g \in Files /\ Got(m)' = Append(Got(m), g)
  <2>1. CASE deps' = deps /\ g \notin Files
    BY <1>2, <2>1 DEF Got
  <2>2. ASSUME NEW on \in Modules, file[on] = g, deps'[from] = Append(deps[from], on),
               \A m \in Modules : m # from => deps'[m] = deps[m]
        PROVE  \A m \in Modules : \/ Got(m)' = Got(m) /\ m # from
                                  \/ m = from /\ g \in Files /\ Got(m)' = Append(Got(m), g)
    <3>1. g \in Files
      BY <2>2, ModulesAre
    <3>2. ASSUME NEW m \in Modules, m = from PROVE Got(m)' = Append(Got(m), g)
      <4>1. deps'[m] = Append(deps[m], on) /\ UNCHANGED file
        BY <1>2, <2>2, <3>2
      <4>2. Got(m)' = Append(Got(m), file[on])
        BY <4>1, GotMore
      <4>q. QED
        BY <2>2, <4>2, Zenon
    <3>3. ASSUME NEW m \in Modules, m # from PROVE Got(m)' = Got(m)
      BY <1>2, <2>2, <3>3 DEF Got
    <3>4. ASSUME NEW m \in Modules
          PROVE  \/ Got(m)' = Got(m) /\ m # from
                 \/ m = from /\ g \in Files /\ Got(m)' = Append(Got(m), g)
      <4>1. CASE m = from
        BY <3>1, <3>2, <4>1, Zenon
      <4>2. CASE m # from
        BY <3>3, <4>2
      <4>q. QED
        BY <4>1, <4>2
    <3>q. QED
      BY <3>4
  <2>q. QED
    BY <2>1, <2>2 DEF LastEdge, from, g
<1>13. InOrder'
  <2>1. ASSUME clean, NEW m \in Modules
        PROVE  ListedAtAll(m)' \/ \E i \in 1..Len(stack') : ListedByFrame(i, m)'
    <3>0. Got(m) \in Seq(Files) /\ file'[m] = file[m]
      BY <1>2, GotIs
    <3>1. ListedAtAll(m) => ListedAtAll(m)'
      <4>1. AllListed(Got(m), Needed[file[m]]) => AllListed(Append(Got(m), g), Needed[file[m]]) \/ g \notin Files
        BY <3>0, AllListedStays
      <4>2. \A x : x = Got(m)' /\ AllListed(Got(m), Needed[file[m]]) => AllListed(x, Needed[file[m]])
        BY <1>12, <4>1
      <4>q. QED
        BY <3>0, <4>2 DEF ListedAtAll
    <3>2. ASSUME NEW i \in 1..Len(stack), ListedByFrame(i, m), ~ListedAtAll(m)
          PROVE  \E k \in 1..Len(stack') : ListedByFrame(k, m)'
      <4>1. stack[i].id = m /\ ListedUpTo(Got(m), Needed[file[m]], Behind(stack[i]))
        BY <3>2 DEF ListedByFrame
      <4>2. ~ i > j
        BY <3>2, EndIsAll DEF Taken, Ordered
      <4>3. CASE i = j
        <5>1. m = from /\ Needed[file[m]] = W /\ Behind(stack[i]) = p
          BY <4>1, <4>3, <1>8 DEF from, W, p
        <5>2. ListedUpTo(Got(m), W, p)
          BY <4>1, <5>1
        <5>3. \A x : x = Got(m)' => ListedUpTo(x, W, p + 1)
          <6>1. CASE Got(m)' = Got(m) /\ g \notin Files
            BY <1>3, <1>7, <5>2, <6>1, MissingIsListed
          <6>2. CASE g \in Files /\ Got(m)' = Append(Got(m), g)
            BY <1>3, <1>7, <3>0, <5>2, <6>2, NextIsListed
          <6>q. QED
            BY <1>12, <5>1, <6>1, <6>2
        <5>4. j \in 1..Len(stack') /\ stack'[j].id = m
          <6>1. j \in 1..j
            BY <1>1
          <6>q. QED
            BY <1>1, <1>2, <5>1, <6>1
        <5>5. Needed[file'[m]] = W
          BY <3>0, <5>1
        <5>q. QED
          BY <1>5, <5>3, <5>4, <5>5 DEF ListedByFrame, Behind
      <4>4. CASE i < j
        <5>1. m # from
          BY <1>1, <4>1, <4>4 DEF Ordered, OneEach, from
        <5>2. Got(m)' = Got(m)
          BY <1>12, <5>1
        <5>3. i \in 1..Len(stack') /\ stack'[i] = stack[i]
          <6>1. i \in 1..j
            BY <1>1, <4>4
          <6>q. QED
            BY <1>2, <4>4, <6>1
        <5>q. QED
          BY <3>0, <3>2, <5>2, <5>3 DEF ListedByFrame, Behind
      <4>q. QED
        BY <1>1, <4>2, <4>3, <4>4
    <3>3. ListedAtAll(m) \/ \E i \in 1..Len(stack) : ListedByFrame(i, m)
      BY <2>1 DEF Ordered, InOrder
    <3>q. QED
      BY <3>1, <3>2, <3>3
  <2>q. QED
    BY <1>2, <2>1 DEF InOrder
<1>q. QED
  BY <1>9, <1>11, <1>13 DEF Ordered

(* A step that leaves the graph and the lists alone.                       *)
LEMMA StillOrder ==
  ASSUME Typed, Ordered, UNCHANGED <<file, deps>>, Len(stack') = Len(stack),
         \A i \in 1..Len(stack) : /\ stack'[i].id = stack[i].id /\ stack'[i].file = stack[i].file
                                  /\ stack'[i].todo = stack[i].todo,
         clean' => clean
  PROVE  Ordered'
<1>1. Modules' = Modules
  BY DEF Modules
<1>2. \A i \in 1..Len(stack) : Behind(stack'[i]) = Behind(stack[i])
  BY DEF Behind
<1>3. Walked'
  <2>1. ASSUME NEW i \in 1..Len(stack)
        PROVE  /\ Behind(stack'[i]) >= 0
               /\ \A t \in 1..Len(stack'[i].todo) :
                    stack'[i].todo[t] = Needed[stack'[i].file][Behind(stack'[i]) + t]
    BY <1>2 DEF Ordered, Walked
  <2>q. QED
    BY <2>1 DEF Walked, Behind
<1>4. OneEach'
  BY DEF Ordered, OneEach
<1>5. \A m : Got(m)' = Got(m)
  BY DEF Got
<1>6. \A m : ListedAtAll(m) => ListedAtAll(m)'
  BY <1>5 DEF ListedAtAll
<1>7. ASSUME NEW m, NEW i \in 1..Len(stack), ListedByFrame(i, m) PROVE ListedByFrame(i, m)'
  <2>1. stack'[i].id = m /\ Needed[file'[m]] = Needed[file[m]] /\ Behind(stack'[i]) = Behind(stack[i])
    BY <1>2, <1>7 DEF ListedByFrame
  <2>q. QED
    BY <1>5, <1>7, <2>1 DEF ListedByFrame, Behind
<1>8. InOrder'
  BY <1>1, <1>6, <1>7 DEF Ordered, InOrder
<1>q. QED
  BY <1>3, <1>4, <1>8 DEF Ordered

(* A load given up.                                                        *)
LEMMA FailOrder ==
  ASSUME NEW status, NEW at, Fail(status, at)
  PROVE  Ordered'
<1>1. stack' = <<>> /\ Len(stack') = 0 /\ ~clean'
  BY DEF Fail
<1>q. QED
  BY <1>1 DEF Ordered, Walked, OneEach, InOrder

(* The order is kept by every step.                                        *)
LEMMA NextOrder ==
  ASSUME LoaderAssumption, SonamesMatch, FilesInv, Ordered, [Next]_vars
  PROVE  Ordered'
<1>0. Typed /\ Waiting /\ SonamesSound /\ Named
  BY DEF FilesInv, CallsInv, GraphInv, FilesNamed
<1>1. CASE UNCHANGED <<file, deps, stack>> /\ (clean' => clean)
  BY <1>0, <1>1, StillOrder
<1>2. ASSUME NEW f \in Files, LoadAndLink(f) PROVE Ordered'
  <2>1. stack = <<>>
    BY <1>2 DEF LoadAndLink
  <2>2. CASE Enter(f)
    BY <1>0, <2>1, <2>2, EnterOrder
  <2>3. CASE clean' = FALSE /\ UNCHANGED <<graph, stack>>
    BY <1>1, <2>3 DEF graph
  <2>q. QED
    BY <1>2, <2>2, <2>3 DEF LoadAndLink
<1>3. CASE DepLoaded
  <2>1. /\ stack # <<>> /\ Top.todo # <<>> /\ Head(Top.todo) \in DOMAIN bySoname
        /\ SetTop([Top EXCEPT !.todo = Tail(@)])
        /\ AddDep(Top.id, bySoname[Head(Top.todo)]) /\ UNCHANGED <<file, clean>>
    BY <1>3 DEF DepLoaded, Walking
  <2>2. Taken(Len(stack)) /\ stack[Len(stack)] = Top /\ Top.id \in Modules
    BY <1>0, <2>1, TopTakes, TopTyped
  <2>3. bySoname[Head(Top.todo)] \in Modules /\ file[bySoname[Head(Top.todo)]] = Head(Top.todo)
    BY <1>0, <2>1, SonameNames
  <2>4. LastEdge(Len(stack))
    BY <1>0, <2>1, <2>2, <2>3, AddDepTyped DEF LastEdge, Typed
  <2>q. QED
    BY <1>0, <2>2, <2>4, TakenOrder
<1>4. CASE DepMissing
  <2>1. /\ stack # <<>> /\ Top.todo # <<>> /\ Head(Top.todo) \notin Files
        /\ SetTop([Top EXCEPT !.todo = Tail(@)]) /\ UNCHANGED <<file, deps, clean>>
    BY <1>4 DEF DepMissing, Walking, graph
  <2>2. Taken(Len(stack)) /\ stack[Len(stack)] = Top
    BY <1>0, <2>1, TopTakes
  <2>3. LastEdge(Len(stack))
    BY <2>1, <2>2 DEF LastEdge
  <2>q. QED
    BY <1>0, <2>2, <2>3, TakenOrder
<1>5. CASE DepProvided
  <2>1. Head(Top.todo) \in Files /\ Head(Top.todo) \notin DOMAIN bySoname
    BY <1>5 DEF DepProvided
  <2>2. CASE Enter(Head(Top.todo))
    BY <1>0, <2>1, <2>2, EnterOrder
  <2>3. CASE Fail("load", 0)
    BY <2>3, FailOrder
  <2>q. QED
    BY <1>5, <2>2, <2>3 DEF DepProvided
<1>6. ASSUME NEW f \in Frames(Len(file)), stack # <<>>, SetTop(f), UNCHANGED <<file, deps, clean>>,
             f.id = Top.id, f.file = Top.file, f.todo = Top.todo
      PROVE  Ordered'
  <2>1. /\ Len(stack) \in Nat /\ Len(stack') = Len(stack) /\ stack'[Len(stack)] = f
        /\ \A i \in 1..Len(stack) : i < Len(stack) => stack'[i] = stack[i]
    BY <1>0, <1>6, Replaced, ModulesAre
  <2>2. ASSUME NEW i \in 1..Len(stack)
        PROVE  /\ stack'[i].id = stack[i].id /\ stack'[i].file = stack[i].file
               /\ stack'[i].todo = stack[i].todo
    <3>1. i = Len(stack) \/ i < Len(stack)
      BY <2>1
    <3>q. QED
      BY <1>6, <2>1, <3>1 DEF Top
  <2>q. QED
    BY <1>0, <1>6, <2>1, <2>2, StillOrder
<1>7. CASE Link
  <2>1. stack # <<>> /\ Top \in Frames(Len(file)) /\ UNCHANGED <<file, deps>>
    BY <1>0, <1>7, TopTyped DEF Link, Walking, graph
  <2>2. \/ \E status, at : Fail(status, at)
        \/ SetTop([Top EXCEPT !.phase = "onload", !.calls = Calls]) /\ UNCHANGED clean
    BY <1>7 DEF Link
  <2>3. CASE SetTop([Top EXCEPT !.phase = "onload", !.calls = Calls]) /\ UNCHANGED clean
    <3> DEFINE f == [Top EXCEPT !.phase = "onload", !.calls = Calls]
    <3>1. f \in Frames(Len(file)) /\ f.id = Top.id /\ f.file = Top.file /\ f.todo = Top.todo
      <4>1. Calls \in SUBSET (1..Len(file))
        BY <1>0, ModulesAre DEF Calls
      <4>q. QED
        BY <2>1, <4>1 DEF Frames
    <3>2. SetTop(f)
      BY <2>3
    <3> HIDE DEF f
    <3>q. QED
      BY <1>6, <2>1, <2>3, <3>1, <3>2
  <2>q. QED
    BY <2>2, <2>3, FailOrder
<1>8. CASE NoJavaVm
  BY <1>8, FailOrder DEF NoJavaVm
<1>9. CASE OnLoad
  <2>1. stack # <<>> /\ Top \in Frames(Len(file)) /\ UNCHANGED <<file, deps>>
    BY <1>0, <1>9, TopTyped DEF OnLoad, Calling, graph
  <2>2. PICK m : \/ SetTop([Top EXCEPT !.calls = @ \ {m}]) /\ UNCHANGED clean
                 \/ Fail("onload", m)
    BY <1>9 DEF OnLoad
  <2>3. CASE SetTop([Top EXCEPT !.calls = @ \ {m}]) /\ UNCHANGED clean
    <3> DEFINE f == [Top EXCEPT !.calls = @ \ {m}]
    <3>1. f \in Frames(Len(file)) /\ f.id = Top.id /\ f.file = Top.file /\ f.todo = Top.todo
      <4>1. Top.calls \ {m} \in SUBSET (1..Len(file))
        BY <2>1 DEF Frames
      <4>q. QED
        BY <2>1, <4>1 DEF Frames
    <3>2. SetTop(f)
      BY <2>3
    <3> HIDE DEF f
    <3>q. QED
      BY <1>6, <2>1, <2>3, <3>1, <3>2
  <2>q. QED
    BY <2>2, <2>3, FailOrder
<1>10. CASE Return
  <2>1. /\ stack # <<>> /\ Top.phase = "onload" /\ UNCHANGED <<file, clean>>
        /\ Len(stack) \in 1..Len(stack) /\ Len(stack) \in Nat /\ Top.id \in Modules
        /\ stack[Len(stack)] = Top /\ Top.todo = <<>> /\ file[Top.id] = Top.file
    <3>1. stack # <<>> /\ Top.phase = "onload" /\ UNCHANGED <<file, clean>>
      BY <1>10 DEF Return, Done
    <3>2. Len(stack) \in 1..Len(stack) /\ Len(stack) \in Nat /\ Top.id \in Modules
      BY <1>0, <3>1, TopTyped, ModulesAre
    <3>3. stack[Len(stack)] = Top
      BY DEF Top
    <3>4. Top.todo = <<>> /\ file[Top.id] = Top.file
      BY <1>0, <3>1, <3>2, <3>3 DEF Waiting, Named
    <3>q. QED
      BY <3>1, <3>2, <3>3, <3>4
  <2>2. CASE Len(stack) = 1
    <3>1. stack' = <<>> /\ Len(stack') = 0 /\ deps' = deps
      BY <1>10, <2>2 DEF Return
    <3>2. Walked' /\ OneEach'
      BY <3>1 DEF Walked, OneEach
    <3>3. Modules' = Modules /\ \A m : Got(m)' = Got(m)
      BY <2>1, <3>1 DEF Modules, Got
    <3>4. ASSUME clean, NEW m \in Modules PROVE ListedAtAll(m)'
      <4>1. ASSUME NEW i \in 1..Len(stack), ListedByFrame(i, m) PROVE ListedAtAll(m)
        <5>1. i = Len(stack)
          BY <2>2
        <5>2. stack[i].todo = <<>>
          BY <2>1, <5>1
        <5>q. QED
          BY <1>0, <4>1, <5>2, EndIsAll DEF Ordered
      <4>2. ListedAtAll(m)
        BY <3>4, <4>1 DEF Ordered, InOrder
      <4>q. QED
        BY <2>1, <3>3, <4>2 DEF ListedAtAll
    <3>q. QED
      BY <2>1, <3>2, <3>3, <3>4 DEF Ordered, InOrder
  <2>3. CASE Len(stack) # 1
    <3> DEFINE j == Len(stack) - 1
    <3>1. PopTop /\ AddDep(stack[j].id, Top.id)
      BY <1>10, <2>3 DEF Return, PopTop
    <3>2. Taken(j)
      BY <1>0, <2>1, <2>3, <3>1, CallerTakes
    <3>3. file[Top.id] = Head(stack[j].todo) /\ stack[j].id \in Modules
      <4>1. j \in 1..Len(stack) /\ j < Len(stack) /\ j + 1 = Len(stack) /\ stack[j].id \in Modules
        BY <1>0, <2>1, <2>3, CallerTyped
      <4>q. QED
        BY <1>0, <2>1, <4>1 DEF Named
    <3> HIDE DEF j
    <3>4. LastEdge(j)
      BY <1>0, <2>1, <3>1, <3>3, AddDepTyped DEF LastEdge, Typed
    <3>q. QED
      BY <1>0, <3>2, <3>4, TakenOrder
  <2>q. QED
    BY <2>2, <2>3
<1>11. CASE UNCHANGED vars
  BY <1>1, <1>11 DEF vars, graph
<1>12. CASE InitJni
  BY <1>1, <1>12 DEF InitJni, graph
<1>q. QED
  BY <1>2, <1>3, <1>4, <1>5, <1>7, <1>8, <1>9, <1>10, <1>11, <1>12 DEF Next, Advance
-----------------------------------------------------------------------------
(* What references are bound to.                                           *)

(* How far from a module the nearest with the symbol is, and what its file *)
(* gets from there.                                                        *)
Away(s) == [m \in Modules |-> Distance(s, file[m])]

Gets(s) == [m \in Modules |-> Nearest(s, file[m])]

(* An edge brings a module no nearer than one step: it is needed.          *)
LEMMA ModulesGraded ==
  ASSUME LoaderAssumption, Typed, Edged, NEW s
  PROVE  Graded(deps, Exporters(s), Away(s))
<1>1. Modules = 1..Len(deps) /\ \A m \in Modules : file[m] \in Files
  BY ModulesAre DEF Typed, GraphTyped
<1>2. ASSUME NEW m \in Modules
      PROVE  /\ Away(s)[m] \in Nat /\ (Away(s)[m] = 0 <=> m \in Exporters(s))
             /\ \A x \in Range(deps[m]) : Away(s)[m] <= Away(s)[x] + 1
  <2>1. Away(s)[m] = Distance(s, file[m]) /\ file[m] \in Files
    BY <1>1 DEF Away
  <2>2. Away(s)[m] \in Nat
    BY <2>1, DistanceIs
  <2>3. Away(s)[m] = 0 <=> m \in Exporters(s)
    BY <2>1, NoDistance DEF Exporters
  <2>4. ASSUME NEW x \in Range(deps[m]) PROVE Away(s)[m] <= Away(s)[x] + 1
    <3>1. x \in Modules /\ file[x] \in Range(Needed[file[m]]) \cap Files
      BY <1>1, DepsAreModules DEF Edged
    <3>2. Distance(s, file[m]) <= Distance(s, file[x]) + 1
      BY <2>1, <3>1, OneNearerAtMost
    <3>q. QED
      BY <2>1, <3>1, <3>2 DEF Away
  <2>q. QED
    BY <2>2, <2>3, <2>4
<1>q. QED
  BY <1>1, <1>2 DEF Graded

(* The first dependency that is nearer is the file's first name that is.   *)
LEMMA ModulesLed ==
  ASSUME LoaderAssumption, Typed, NEW s, \A m \in Modules : ListedAtAll(m)
  PROVE  Led(deps, Cardinality(Files), Away(s), Gets(s))
<1>1. Modules = 1..Len(deps) /\ \A m \in Modules : file[m] \in Files
  BY ModulesAre DEF Typed, GraphTyped
<1>2. ASSUME NEW m \in Modules, 0 < Away(s)[m], Away(s)[m] <= Cardinality(Files)
      PROVE  Leads(deps[m], Away(s)[m] - 1, Gets(s)[m], Away(s), Gets(s))
  <2> DEFINE f == file[m]
             W == Needed[f]
             t == Distance(s, f) - 1
  <2>1. f \in Files /\ Away(s)[m] = Distance(s, f) /\ Gets(s)[m] = Nearest(s, f)
    BY <1>1 DEF Away, Gets
  <2>2. PICK j \in 1..Len(W) :
          /\ W[j] \in Files /\ Distance(s, W[j]) = t /\ Nearest(s, W[j]) = Nearest(s, f)
          /\ \A i \in 1..Len(W) : i < j /\ W[i] \in Files => Distance(s, W[i]) # t
    BY <1>2, <2>1, FirstNearer
  <2>3. /\ Len(Got(m)) = Len(deps[m])
        /\ \A i \in 1..Len(deps[m]) : /\ deps[m][i] \in Modules /\ Got(m)[i] = file[deps[m][i]]
                                      /\ Got(m)[i] \in Files
    BY <1>1, GotIs
  <2>4. AllListed(Got(m), W)
    BY DEF ListedAtAll
  <2> HIDE DEF f, W, t
  <2>5. Listed(Got(m), W, j)
    BY <2>2, <2>4 DEF AllListed
  <2>6. PICK i \in 1..Len(deps[m]) :
          /\ Got(m)[i] = W[j]
          /\ \A h \in 1..Len(deps[m]) : h < i => \E l \in 1..Len(W) : l < j /\ Got(m)[h] = W[l]
    BY <2>3, <2>5 DEF Listed
  <2>7. \A h \in 1..Len(deps[m]) : Away(s)[deps[m][h]] = Distance(s, Got(m)[h])
                                   /\ Gets(s)[deps[m][h]] = Nearest(s, Got(m)[h])
    BY <2>3 DEF Away, Gets
  <2>8. \A h \in 1..Len(deps[m]) : h < i => Away(s)[deps[m][h]] # t
    BY <2>2, <2>3, <2>6, <2>7
  <2>9. Away(s)[deps[m][i]] = t /\ Gets(s)[deps[m][i]] = Gets(s)[m]
    BY <2>1, <2>2, <2>6, <2>7
  <2>10. Leads(deps[m], t, Gets(s)[m], Away(s), Gets(s))
    BY <2>8, <2>9 DEF Leads
  <2>q. QED
    BY <2>1, <2>10 DEF t
<1>q. QED
  BY <1>1, <1>2 DEF Led

(* resolve answers what the files promise, once all names are edges, ...   *)
LEMMA ResolveFinds ==
  ASSUME LoaderAssumption, Typed, Edged, \A m \in Modules : ListedAtAll(m),
         NEW s, NEW m \in Modules, Nearest(s, file[m]) # {}
  PROVE  \E x \in Exporters(s) : /\ Resolve(deps, m, Exporters(s)) = {x}
                                 /\ Nearest(s, file[m]) = {file[x]}
<1> DEFINE order == Search(deps, m)
           hits == {i \in DOMAIN order : order[i] \in Exporters(s)}
<1>1. IsGraph(deps) /\ Modules = 1..Len(deps) /\ \A x \in Modules : file[x] \in Files
  BY ModulesAre DEF Typed, GraphTyped
<1>2. Away(s)[m] <= Cardinality(Files) /\ Gets(s)[m] = Nearest(s, file[m])
  BY <1>1, DistanceIs DEF Away, Gets
<1>3. Cardinality(Files) \in Nat
  BY AtDistanceIs
<1>4. Graded(deps, Exporters(s), Away(s)) /\ Led(deps, Cardinality(Files), Away(s), Gets(s))
  BY ModulesGraded, ModulesLed
<1>5. Answered(order, Exporters(s), Gets(s)[m], Gets(s)) /\ order \in Seq(1..Len(deps))
  BY <1>1, <1>2, <1>3, <1>4, SearchFinds
<1>6. Resolve(deps, m, Exporters(s)) = IF hits = {} THEN {} ELSE {order[Min(hits)]}
  BY DEF Resolve
<1> HIDE DEF order
<1>7. DOMAIN order = 1..Len(order) /\ hits \subseteq Nat
  BY <1>5, LenProperties
<1>8. PICK k \in 1..Len(order) : /\ order[k] \in Exporters(s) /\ Gets(s)[order[k]] = Gets(s)[m]
                                 /\ \A i \in 1..Len(order) : i < k => order[i] \notin Exporters(s)
  BY <1>5 DEF Answered
<1>9. k \in hits /\ \A i \in hits : ~ i < k
  BY <1>7, <1>8
<1> HIDE DEF hits
<1>10. Min(hits) \in hits /\ Min(hits) <= k
  BY <1>7, <1>9, MinIsLeast
<1>11. Min(hits) = k
  <2>1. \A x, y \in Nat : x <= y /\ ~ x < y => x = y
    OBVIOUS
  <2>2. Min(hits) \in Nat /\ k \in Nat /\ ~ Min(hits) < k
    <3>1. hits \subseteq 1..Len(order)
      BY <1>7 DEF hits
    <3>2. \A i \in 1..Len(order) : i \in hits => order[i] \in Exporters(s)
      BY DEF hits
    <3>q. QED
      BY <1>7, <1>8, <1>9, <1>10, <3>1, <3>2
  <2>q. QED
    BY <1>10, <2>1, <2>2
<1>12. Resolve(deps, m, Exporters(s)) = {order[k]}
  BY <1>6, <1>9, <1>11
<1>13. order[k] \in Modules /\ s \in Defines[file[order[k]]]
  BY <1>8 DEF Exporters
<1>14. Nearest(s, file[order[k]]) = {file[order[k]]}
  BY <1>1, <1>13, NoDistance
<1>15. Gets(s)[order[k]] = Nearest(s, file[order[k]])
  BY <1>13 DEF Gets
<1>q. QED
  BY <1>2, <1>8, <1>12, <1>14, <1>15

(* ... and nothing where they promise nothing, at any time.                *)
LEMMA ResolveFindsNothing ==
  ASSUME LoaderAssumption, Typed, Edged, NEW s, NEW m \in Modules, Nearest(s, file[m]) = {}
  PROVE  Resolve(deps, m, Exporters(s)) = {}
<1> DEFINE away == {x \in Modules : Nearest(s, file[x]) = {}}
           order == Search(deps, m)
<1>1. IsGraph(deps) /\ Modules = 1..Len(deps) /\ \A x \in Modules : file[x] \in Files
  BY ModulesAre DEF Typed, GraphTyped
<1>2. away \cap Exporters(s) = {}
  <2>1. ASSUME NEW x \in Modules, x \in Exporters(s) PROVE Nearest(s, file[x]) = {file[x]}
    BY <1>1, <2>1, NoDistance DEF Exporters
  <2>q. QED
    BY <2>1
<1>3. ASSUME NEW y \in away PROVE Range(deps[y]) \subseteq away
  <2>1. ASSUME NEW x \in Range(deps[y]) PROVE x \in away
    <3>1. x \in Modules /\ file[x] \in Range(Needed[file[y]]) \cap Files
      BY <1>1, DepsAreModules DEF Edged
    <3>2. Nearest(s, file[x]) = {}
      BY <1>1, <3>1, OneNearerAtMost
    <3>q. QED
      BY <3>1, <3>2
  <2>q. QED
    BY <2>1
<1>4. m \in away /\ away \subseteq Modules
  OBVIOUS
<1> HIDE DEF away, order
<1>5. order \in Seq(1..Len(deps)) /\ Range(order) \cap Exporters(s) = {}
  BY <1>1, <1>2, <1>3, <1>4, SearchFindsNothing DEF order
<1>6. {i \in DOMAIN order : order[i] \in Exporters(s)} = {}
  BY <1>5 DEF Range
<1>q. QED
  BY <1>6 DEF Resolve, order

(* Nothing is bound to what is not promised; a module is bound as its file *)
(* is promised; all modules below one are.                                 *)
Unbound ==
  \A m \in Modules : \A s \in Uses[file[m]] : Nearest(s, file[m]) = {} => bound[m][s] = {}

BoundRight(m) ==
  \A s \in Uses[file[m]] : {file[x] : x \in bound[m][s]} = Nearest(s, file[m])

BoundBelow(root) == \A m \in Reachable(deps, root) : BoundRight(m)

(* As long as nothing failed, the outermost load's link binds all below    *)
(* it, and so they are when it returns.                                    *)
Scoped ==
  clean => /\ Len(stack) = 1 /\ Top.phase = "onload" => BoundBelow(Top.id)
           /\ stack = <<>> /\ last.status = "ok" => BoundBelow(last.at)

(* Relocating binds nothing to what is not promised.                       *)
LEMMA RelocatedNothing ==
  ASSUME LoaderAssumption, Typed, Edged, Unbound, NEW m \in Modules, NEW symbols,
         NEW s \in Uses[file[m]], Nearest(s, file[m]) = {}
  PROVE  Relocated(m, symbols)[s] = {}
<1>1. bound[m] \in [Uses[file[m]] -> Answers(Len(file))]
  BY DEF Typed, BoundTyped
<1>2. Resolve(deps, m, Exporters(s)) = {} /\ bound[m][s] = {}
  BY ResolveFindsNothing DEF Unbound
<1>q. QED
  BY <1>1, <1>2 DEF Relocated

(* Once all names are edges, relocating binds a module as its file is      *)
(* promised.                                                               *)
LEMMA RelocatedRight ==
  ASSUME LoaderAssumption, Typed, Edged, Unbound, \A m \in Modules : ListedAtAll(m),
         NEW m \in Modules, NEW s \in Uses[file[m]]
  PROVE  {file[x] : x \in Relocated(m, Uses[file[m]])[s]} = Nearest(s, file[m])
<1>1. bound[m] \in [Uses[file[m]] -> Answers(Len(file))]
  BY DEF Typed, BoundTyped
<1>2. CASE Nearest(s, file[m]) = {}
  BY <1>2, RelocatedNothing
<1>3. CASE Nearest(s, file[m]) # {}
  <2>1. PICK x \in Exporters(s) : /\ Resolve(deps, m, Exporters(s)) = {x}
                                  /\ Nearest(s, file[m]) = {file[x]}
    BY <1>3, ResolveFinds
  <2>2. Relocated(m, Uses[file[m]])[s] = {x}
    BY <1>1, <2>1 DEF Relocated
  <2>q. QED
    BY <2>1, <2>2
<1>q. QED
  BY <1>2, <1>3

(* A new module is bound to nothing yet.                                   *)
LEMMA EnterUnbound ==
  ASSUME Typed, LoaderAssumption, Unbound, NEW f \in Files, Enter(f)
  PROVE  Unbound'
<1>1. CASE UNCHANGED <<file, bound>>
  BY <1>1 DEF Unbound, Modules
<1>2. CASE LoadNew(f)
  <2> DEFINE n == Len(file)
  <2>1. /\ n \in Nat /\ Modules = 1..n /\ Modules' = 1..n + 1 /\ Len(bound) = n
        /\ \A m \in 1..n : file'[m] = file[m]
        /\ file'[n + 1] = f
    BY <1>2, ModulesAre, LoadNewMakes DEF Typed, BoundTyped
  <2>2. bound' = Append(bound, [s \in Uses[f] |-> {}])
    BY <1>2 DEF LoadNew
  <2>3. /\ \A m \in 1..n : bound'[m] = bound[m]
        /\ bound'[n + 1] = [s \in Uses[f] |-> {}]
    BY <2>1, <2>2
  <2>4. \A m \in 1..n + 1 : m \in 1..n \/ m = n + 1
    BY <2>1
  <2> HIDE DEF n
  <2>5. ASSUME NEW m \in 1..n + 1, NEW s \in Uses[file'[m]], Nearest(s, file'[m]) = {}
        PROVE  bound'[m][s] = {}
    <3>1. CASE m \in 1..n
      <4>1. bound'[m] = bound[m] /\ m \in Modules /\ s \in Uses[file[m]] /\ Nearest(s, file[m]) = {}
        BY <2>1, <2>3, <2>5, <3>1
      <4>q. QED
        BY <4>1 DEF Unbound
    <3>2. CASE m = n + 1
      <4>1. bound'[m] = [x \in Uses[f] |-> {}] /\ s \in Uses[f]
        BY <2>1, <2>3, <3>2
      <4>q. QED
        BY <4>1
    <3>q. QED
      BY <2>4, <3>1, <3>2
  <2>q. QED
    BY <2>1, <2>5 DEF Unbound
<1>q. QED
  BY <1>1, <1>2 DEF Enter, graph

(* What a link writes, of all modules or up to one that fails in between.  *)
LEMMA LinkUnbound ==
  ASSUME LoaderAssumption, Typed, Edged, Unbound, Link
  PROVE  Unbound'
<1>1. stack # <<>> /\ UNCHANGED file
  BY DEF Link, Walking, graph
<1>2. PICK order \in {Schedule(deps, Top.id)} :
        \/ UNCHANGED bound
        \/ bound' = WithRelocated(Range(order))
        \/ \E k \in DOMAIN order : \E part \in SUBSET Uses[file[order[k]]] :
             bound' = [WithRelocated({order[i] : i \in 1..(k - 1)}) EXCEPT
                            ![order[k]] = Relocated(order[k], part)]
  BY DEF Link
<1>3. order \in Seq(Modules) /\ DOMAIN order = 1..Len(order)
  BY <1>1, <1>2, ScheduleTyped, LenProperties
<1>4. ASSUME NEW done, NEW m \in Modules, NEW s \in Uses[file[m]], Nearest(s, file[m]) = {}
      PROVE  WithRelocated(done)[m][s] = {}
  <2>1. Relocated(m, Uses[file[m]])[s] = {} /\ bound[m][s] = {}
    BY <1>4, RelocatedNothing DEF Unbound
  <2>q. QED
    BY <2>1 DEF WithRelocated
<1>5. CASE UNCHANGED bound
  BY <1>1, <1>5 DEF Unbound, Modules
<1>6. CASE bound' = WithRelocated(Range(order))
  BY <1>1, <1>4, <1>6 DEF Unbound, Modules
<1>7. ASSUME NEW k \in DOMAIN order, NEW part \in SUBSET Uses[file[order[k]]],
             bound' = [WithRelocated({order[i] : i \in 1..(k - 1)}) EXCEPT
                         ![order[k]] = Relocated(order[k], part)]
      PROVE  Unbound'
  <2> DEFINE w == WithRelocated({order[i] : i \in 1..(k - 1)})
             r == Relocated(order[k], part)
  <2>1. order[k] \in Modules /\ DOMAIN w = Modules
    BY <1>3, ElementOfSeq, WithRelocatedTyped
  <2>2. \A m \in Modules : bound'[m] = IF m = order[k] THEN r ELSE w[m]
    BY <1>7, <2>1
  <2>3. ASSUME NEW m \in Modules, NEW s \in Uses[file[m]], Nearest(s, file[m]) = {}
        PROVE  bound'[m][s] = {}
    <3>1. m = order[k] => r[s] = {}
      BY <2>3, RelocatedNothing
    <3>2. w[m][s] = {}
      BY <1>4, <2>3
    <3> HIDE DEF w, r
    <3>q. QED
      BY <2>2, <3>1, <3>2
  <2>q. QED
    BY <1>1, <2>3 DEF Unbound, Modules
<1>q. QED
  BY <1>2, <1>5, <1>6, <1>7

(* Nothing ever is bound to what is not promised.                          *)
LEMMA NextUnbound ==
  ASSUME LoaderAssumption, FilesInv, Unbound, [Next]_vars
  PROVE  Unbound'
<1>0. Typed /\ Edged
  BY DEF FilesInv, CallsInv, GraphInv, FilesNamed
<1>1. CASE UNCHANGED <<file, bound>>
  BY <1>1 DEF Unbound, Modules
<1>2. ASSUME NEW f \in Files, LoadAndLink(f) PROVE Unbound'
  BY <1>0, <1>1, <1>2, EnterUnbound DEF LoadAndLink, graph
<1>3. CASE DepProvided
  <2>1. Head(Top.todo) \in Files
    BY <1>3 DEF DepProvided
  <2>q. QED
    BY <1>0, <1>1, <1>3, <2>1, EnterUnbound DEF DepProvided, graph
<1>4. CASE Link
  BY <1>0, <1>4, LinkUnbound
<1>5. CASE DepLoaded \/ DepMissing \/ NoJavaVm \/ OnLoad \/ Return \/ InitJni \/ UNCHANGED vars
  BY <1>1, <1>5 DEF DepLoaded, DepMissing, NoJavaVm, OnLoad, Return, InitJni, vars, graph
<1>q. QED
  BY <1>2, <1>3, <1>4, <1>5 DEF Next, Advance

(* A step that leaves graph, stack, bindings and results alone.            *)
LEMMA StillScoped ==
  ASSUME Scoped, UNCHANGED <<file, deps, bound, stack, last>>, clean' => clean
  PROVE  Scoped'
<1>1. /\ deps' = deps /\ file' = file /\ bound' = bound /\ stack' = stack /\ last' = last
      /\ Top' = Top
  BY DEF Top
<1>2. \A m : BoundRight(m) => BoundRight(m)'
  BY <1>1 DEF BoundRight
<1>3. \A r : BoundBelow(r) => BoundBelow(r)'
  BY <1>1, <1>2 DEF BoundBelow
<1>q. QED
  BY <1>1, <1>3 DEF Scoped

(* One that leaves a frame walking its list, or a failure.                 *)
LEMMA NotScopedYet ==
  ASSUME \/ ~clean'
         \/ stack' # <<>> /\ Top'.phase = "deps"
  PROVE  Scoped'
BY DEF Scoped

(* Giving up a load leaves nothing to be bound rightly.                    *)
LEMMA FailScoped ==
  ASSUME NEW status, NEW at, Fail(status, at)
  PROVE  Scoped'
BY NotScopedYet DEF Fail

(* The link of the outermost load finds every name of every module turned  *)
(* into an edge, its own list at its end among them.                       *)
LEMMA LinkScoped ==
  ASSUME LoaderAssumption, FilesInv, Ordered, Unbound, Link
  PROVE  Scoped'
<1>0. Typed /\ Edged /\ Named /\ Walked
  BY DEF FilesInv, CallsInv, GraphInv, FilesNamed, Ordered
<1>1. /\ stack # <<>> /\ Top \in Frames(Len(file)) /\ UNCHANGED <<file, deps>> /\ Top.todo = <<>>
      /\ Modules' = Modules
  BY <1>0, TopTyped DEF Link, Walking, graph, Modules
<1>2. \/ \E status, at : Fail(status, at)
      \/ /\ Complete(deps, Top.id, Schedule(deps, Top.id))
         /\ bound' = WithRelocated(Range(Schedule(deps, Top.id)))
         /\ SetTop([Top EXCEPT !.phase = "onload", !.calls = Calls]) /\ UNCHANGED clean
  <2> DEFINE s == Schedule(deps, Top.id)
  <2>1. \/ Fail("cycle", Top.id)
        \/ \E k : Fail("link", s[k])
        \/ /\ Complete(deps, Top.id, s) /\ bound' = WithRelocated(Range(s))
           /\ SetTop([Top EXCEPT !.phase = "onload", !.calls = Calls]) /\ UNCHANGED clean
    BY DEF Link
  <2>q. QED
    BY <2>1
<1>3. ASSUME Complete(deps, Top.id, Schedule(deps, Top.id)), clean, Len(stack) = 1,
             bound' = WithRelocated(Range(Schedule(deps, Top.id)))
      PROVE  \A m \in Reachable(deps, Top.id) : BoundRight(m)'
  <2> DEFINE below == Reachable(deps, Top.id)
  <2>1. \A m \in Modules : ListedAtAll(m)
    <3>1. ASSUME NEW m \in Modules, NEW i \in 1..Len(stack), ListedByFrame(i, m) PROVE ListedAtAll(m)
      <4>1. stack[i].todo = <<>>
        BY <1>1, <1>3 DEF Top
      <4>q. QED
        BY <1>0, <3>1, <4>1, EndIsAll
    <3>q. QED
      BY <1>3, <3>1 DEF Ordered, InOrder
  <2>2. Range(Schedule(deps, Top.id)) = below /\ below \subseteq Modules
    BY <1>0, <1>1, <1>3, ScheduleTyped DEF Complete
  <2>3. ASSUME NEW m \in below PROVE BoundRight(m)'
    <3>1. m \in Modules /\ file' = file
      BY <1>1, <2>2, <2>3
    <3>2. \A s \in Uses[file[m]] : {file[x] : x \in Relocated(m, Uses[file[m]])[s]} = Nearest(s, file[m])
      BY <1>0, <2>1, <3>1, RelocatedRight
    <3>3. bound'[m] = Relocated(m, Uses[file[m]])
      BY <1>3, <2>2, <3>1 DEF WithRelocated
    <3>4. \A s \in Uses[file'[m]] : {file'[x] : x \in bound'[m][s]} = Nearest(s, file'[m])
      BY <3>1, <3>2, <3>3
    <3>q. QED
      BY <3>4 DEF BoundRight
  <2>q. QED
    BY <2>3
<1>4. ASSUME Complete(deps, Top.id, Schedule(deps, Top.id)),
             bound' = WithRelocated(Range(Schedule(deps, Top.id))),
             SetTop([Top EXCEPT !.phase = "onload", !.calls = Calls]), UNCHANGED clean
      PROVE  Scoped'
  <2> DEFINE f == [Top EXCEPT !.phase = "onload", !.calls = Calls]
  <2>1. f \in Frames(Len(file)) /\ f.id = Top.id
    <3>1. Calls \in SUBSET (1..Len(file))
      BY <1>0, ModulesAre DEF Calls
    <3>q. QED
      BY <1>1, <3>1 DEF Frames
  <2>2. SetTop(f)
    BY <1>4
  <2> HIDE DEF f
  <2>3. stack' # <<>> /\ Len(stack') = Len(stack) /\ Top' = f
    BY <1>0, <1>1, <2>1, <2>2, Replaced
  <2>4. ASSUME clean', Len(stack') = 1 PROVE BoundBelow(Top.id)'
    <3>1. clean /\ Len(stack) = 1
      BY <1>4, <2>3, <2>4
    <3>2. \A m \in Reachable(deps, Top.id) : BoundRight(m)'
      BY <1>3, <1>4, <3>1
    <3>3. Reachable(deps', Top'.id) = Reachable(deps, Top.id)
      BY <1>1, <2>1, <2>3
    <3>q. QED
      BY <3>2, <3>3 DEF BoundBelow
  <2>q. QED
    BY <2>3, <2>4 DEF Scoped
<1>q. QED
  BY <1>2, <1>4, FailScoped

(* Every step keeps what is bound below a load that was linked: until it   *)
(* returns nothing else is, and another load begins with a frame that has  *)
(* its list to walk.                                                       *)
LEMMA NextScoped ==
  ASSUME LoaderAssumption, FilesInv, Ordered, Unbound, Scoped, [Next]_vars
  PROVE  Scoped'
<1>0. Typed /\ Waiting
  BY DEF FilesInv, CallsInv, GraphInv
<1>1. CASE UNCHANGED <<file, deps, bound, stack, last, clean>>
  BY <1>1, StillScoped
<1>2. ASSUME NEW f, Enter(f) PROVE Scoped'
  BY <1>0, <1>2, EnterWalks, NotScopedYet
<1>3. ASSUME NEW f \in Files, LoadAndLink(f) PROVE Scoped'
  <2>1. Enter(f) \/ ~clean'
    BY <1>3 DEF LoadAndLink
  <2>q. QED
    BY <1>2, <2>1, NotScopedYet
<1>4. CASE DepLoaded \/ DepMissing
  <2>1. stack # <<>> /\ Top.todo # <<>> /\ Top.phase = "deps" /\ SetTop([Top EXCEPT !.todo = Tail(@)])
    BY <1>4 DEF DepLoaded, DepMissing, Walking
  <2>2. [Top EXCEPT !.todo = Tail(@)] \in Frames(Len(file)) /\ Top \in Frames(Len(file))
    BY <1>0, <2>1, TodoTyped, TopTyped
  <2>3. stack' # <<>> /\ Top' = [Top EXCEPT !.todo = Tail(@)]
    BY <1>0, <2>1, <2>2, Replaced
  <2>4. Top'.phase = "deps"
    BY <2>1, <2>2, <2>3 DEF Frames
  <2>q. QED
    BY <2>3, <2>4, NotScopedYet
<1>5. CASE DepProvided
  <2>1. CASE Enter(Head(Top.todo))
    BY <1>2, <2>1
  <2>2. CASE Fail("load", 0)
    BY <2>2, FailScoped
  <2>q. QED
    BY <1>5, <2>1, <2>2 DEF DepProvided
<1>6. CASE Link
  BY <1>6, LinkScoped
<1>7. CASE NoJavaVm
  BY <1>7, FailScoped DEF NoJavaVm
<1>8. CASE OnLoad
  <2>1. /\ stack # <<>> /\ Top.phase = "onload" /\ Top \in Frames(Len(file))
        /\ UNCHANGED <<file, deps, bound>>
    BY <1>0, <1>8, TopTyped DEF OnLoad, Calling, graph
  <2>2. PICK m : \/ SetTop([Top EXCEPT !.calls = @ \ {m}]) /\ UNCHANGED <<last, clean>>
                 \/ Fail("onload", m)
    BY <1>8 DEF OnLoad
  <2>3. CASE SetTop([Top EXCEPT !.calls = @ \ {m}]) /\ UNCHANGED <<last, clean>>
    <3> DEFINE f == [Top EXCEPT !.calls = @ \ {m}]
    <3>1. f \in Frames(Len(file)) /\ f.id = Top.id
      <4>1. Top.calls \ {m} \in SUBSET (1..Len(file))
        BY <2>1 DEF Frames
      <4>q. QED
        BY <2>1, <4>1 DEF Frames
    <3>2. SetTop(f) /\ UNCHANGED <<last, clean>>
      BY <2>3
    <3> HIDE DEF f
    <3>3. stack' # <<>> /\ Len(stack') = Len(stack) /\ Top' = f
      BY <1>0, <2>1, <3>1, <3>2, Replaced
    <3>4. \A x : BoundRight(x) => BoundRight(x)'
      BY <2>1 DEF BoundRight
    <3>5. BoundBelow(Top.id) => BoundBelow(Top.id)'
      BY <2>1, <3>1, <3>3, <3>4 DEF BoundBelow
    <3>q. QED
      BY <2>1, <3>2, <3>3, <3>5 DEF Scoped
  <2>q. QED
    BY <2>2, <2>3, FailScoped
<1>9. CASE Return
  <2>1. stack # <<>> /\ Top.phase = "onload" /\ UNCHANGED <<file, bound, clean>>
    BY <1>9 DEF Return, Done
  <2>2. CASE Len(stack) = 1
    <3>1. /\ stack' = <<>> /\ Len(stack') = 0 /\ deps' = deps /\ last'.at = Top.id
      BY <1>9, <2>2 DEF Return
    <3>2. \A m : BoundRight(m) => BoundRight(m)'
      BY <2>1 DEF BoundRight
    <3>3. BoundBelow(Top.id) => BoundBelow(last.at)'
      BY <3>1, <3>2 DEF BoundBelow
    <3>q. QED
      BY <2>1, <2>2, <3>1, <3>3 DEF Scoped
  <2>3. CASE Len(stack) # 1
    <3>1. PopTop
      BY <1>9, <2>3 DEF Return, PopTop
    <3>2. /\ stack[Len(stack) - 1] \in Frames(Len(file))
          /\ stack[Len(stack) - 1].todo # <<>> /\ stack[Len(stack) - 1].phase = "deps"
      BY <1>0, <2>1, <2>3, CallerTyped
    <3>3. stack' # <<>> /\ Top' = [stack[Len(stack) - 1] EXCEPT !.todo = Tail(@)]
      BY <1>0, <2>1, <2>3, <3>1, <3>2, Popped
    <3>4. Top'.phase = "deps"
      BY <3>2, <3>3 DEF Frames
    <3>q. QED
      BY <3>3, <3>4, NotScopedYet
  <2>q. QED
    BY <2>2, <2>3
<1>10. CASE InitJni \/ UNCHANGED vars
  BY <1>1, <1>10 DEF InitJni, vars, graph
<1>q. QED
  BY <1>3, <1>4, <1>5, <1>6, <1>7, <1>8, <1>9, <1>10 DEF Next, Advance

(* The state of the books from which a reference's answer follows.         *)
ScopeInv == FilesInv /\ Ordered /\ Unbound /\ Scoped

(* They are in order at first, with nothing loaded.                        *)
LEMMA ScopeInvInit ==
  ASSUME LoaderAssumption, Init
  PROVE  ScopeInv
<1>1. FilesInv
  BY FilesInvInit
<1>2. stack = <<>> /\ file = <<>> /\ Modules = {} /\ Len(stack) = 0 /\ last.status # "ok"
  BY DEF Init, Modules
<1>3. Ordered
  BY <1>2 DEF Ordered, Walked, OneEach, InOrder
<1>4. Unbound /\ Scoped
  BY <1>2 DEF Unbound, Scoped
<1>q. QED
  BY <1>1, <1>3, <1>4 DEF ScopeInv

(* Every step keeps all of them.                                           *)
LEMMA ScopeInvNext ==
  ASSUME LoaderAssumption, SonamesMatch, ScopeInv, [Next]_vars
  PROVE  ScopeInv'
BY CallsInvNext, NextFiles, NextOrder, NextUnbound, NextScoped DEF ScopeInv, FilesInv

(* The references of every module below a load that returns, as long as    *)
(* none has failed, are bound as the DT_NEEDED of the files promise: to    *)
(* the module of the nearest file with the symbol, the leftmost among      *)
(* several, whatever was loaded and relocated before, and to nothing only  *)
(* where no file leads to the symbol.                                      *)
THEOREM BindsByScope ==
  ASSUME SonamesMatch
  PROVE  Spec => []BoundByScope
<1> USE LoaderAssumption
<1>1. Init => ScopeInv
  BY ScopeInvInit
<1>2. ScopeInv /\ [Next]_vars => ScopeInv'
  BY SonamesMatch, ScopeInvNext
<1>3. ScopeInv => BoundByScope
  <2>1. ASSUME ScopeInv, last.status = "ok", clean, stack = <<>>,
               NEW m \in Reachable(deps, last.at), NEW s \in Uses[file[m]]
        PROVE  {file[x] : x \in bound[m][s]} = Promised[file[m]][s]
    <3>1. Typed /\ last.at \in Modules
      BY <2>1 DEF ScopeInv, FilesInv, CallsInv, GraphInv, Paid
    <3>2. IsGraph(deps) /\ Modules = 1..Len(deps) /\ \A x \in Modules : file[x] \in Files
      BY <3>1, ModulesAre DEF Typed, GraphTyped
    <3>3. m \in Modules /\ file[m] \in Files
      BY <3>1, <3>2, ReachableIsLeast
    <3>4. {file[x] : x \in bound[m][s]} = Nearest(s, file[m])
      BY <2>1 DEF ScopeInv, Scoped, BoundBelow, BoundRight
    <3>q. QED
      BY <3>3, <3>4 DEF Promised
  <2>q. QED
    BY <2>1 DEF BoundByScope
<1>q. QED
  BY <1>1, <1>2, <1>3, PTL DEF Spec
=============================================================================
