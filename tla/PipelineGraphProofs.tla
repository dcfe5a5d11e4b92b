------------------------- MODULE PipelineGraphProofs -------------------------
(***************************************************************************)
(* Proofs about PipelineGraph, for any number of packages and datasets.    *)
(*                                                                         *)
(* The order of the transforms and the nodes that lead to a destination    *)
(* are computed step by step.  That their computation does what it should  *)
(* is proved by induction over its steps.                                  *)
(***************************************************************************)
EXTENDS PipelineGraph, Induction, SequenceTheorems

-----------------------------------------------------------------------------
(* The order of the transforms. *)

Manifests == names \in Namings /\ interface \in [Packages -> Interfaces]

\* Finitely many packages have finitely many names.
LEMMA NamesAreFinite ==
  ASSUME Manifests
  PROVE  /\ names \in [Packages -> Nat] /\ Names \subseteq Nat
         /\ \A p \in Packages : names[p] \in Names
         /\ IsFiniteSet(Names) /\ Cardinality(Names) \in Nat
<1>1. names \in [Packages -> Nat]
  BY PipelineGraphAssumption DEF Manifests
<1>2. names \in Surjection(Packages, Names) /\ Names \subseteq Nat
  BY <1>1 DEF Surjection, Names, Range
<1>3. IsFiniteSet(Packages)
  BY FS_Interval, PipelineGraphAssumption DEF Packages
<1>4. IsFiniteSet(Names)
  BY <1>2, <1>3, FS_Surjection
<1>5. Cardinality(Names) \in Nat
  BY <1>4, FS_CardinalityType
<1>6. QED
  BY <1>1, <1>2, <1>4, <1>5 DEF Names, Range

\* Transforms depend on transforms of the scan.
LEMMA DepsAreNames ==
  ASSUME Manifests, NEW n
  PROVE  Deps(n) \subseteq Names
BY NamesAreFinite DEF Deps, Producers

\* The queue of TopologicalSort, and what it makes of an order.
Ready(out) == {n \in Names \ out : Deps(n) \subseteq out}
Least(queue) == CHOOSE n \in queue : \A m \in queue : n <= m
Longer(before) ==
  IF Ready(Range(before)) = {} THEN before ELSE Append(before, Least(Ready(Range(before))))

\* Some transforms, each once and after all that it depends on.
IsOrder(order) ==
  /\ order \in Seq(Names)
  /\ \A i, j \in 1 .. Len(order) : order[i] = order[j] => i = j
  /\ \A i \in 1 .. Len(order) : \A d \in Deps(order[i]) : \E j \in 1 .. (i - 1) : order[j] = d

\* The transform that is put next is ready.
LEMMA LeastIsReady ==
  ASSUME Manifests, NEW out, Ready(out) # {}
  PROVE  Least(Ready(out)) \in Ready(out)
<1>1. Ready(out) \subseteq Nat
  BY NamesAreFinite DEF Ready
<1>2. \E n \in Ready(out) : \A m \in Ready(out) : n <= m
  BY <1>1, LeastNat
<1>3. QED
  BY <1>2 DEF Least

\* A round keeps an order, and makes it longer while a transform is ready.
LEMMA LongerIsOrder ==
  ASSUME Manifests, NEW before, IsOrder(before)
  PROVE  /\ IsOrder(Longer(before))
         /\ \/ Ready(Range(before)) = {} /\ Longer(before) = before
            \/ Len(Longer(before)) = Len(before) + 1
<1>1. CASE Ready(Range(before)) = {}
  BY <1>1 DEF Longer
<1>2. CASE Ready(Range(before)) # {}
  <2> DEFINE n == Least(Ready(Range(before)))
             after == Append(before, n)
  <2>1. /\ n \in Names /\ Deps(n) \subseteq Range(before)
        /\ n \notin Range(before)
    BY <1>2, LeastIsReady DEF Ready
  <2>2. before \in Seq(Names) /\ Len(before) \in Nat
    BY LenProperties DEF IsOrder
  <2> HIDE DEF n
  <2>3. /\ after \in Seq(Names) /\ Len(after) = Len(before) + 1
        /\ \A i \in 1 .. Len(before) : after[i] = before[i]
        /\ after[Len(before) + 1] = n
    BY <2>1, <2>2, AppendProperties
  <2>4. Range(before) = {before[i] : i \in 1 .. Len(before)}
    BY <2>2, RangeEquality
  <2> HIDE DEF after
  <2>5. ASSUME NEW i \in 1 .. Len(after), NEW j \in 1 .. Len(after), after[i] = after[j]
        PROVE  i = j
    <3>1. \A k \in 1 .. Len(before) : before[k] # n
      BY <2>1, <2>4
    <3>2. QED
      BY <2>2, <2>3, <2>5, <3>1 DEF IsOrder
  <2>6. ASSUME NEW i \in 1 .. Len(after), NEW d \in Deps(after[i])
        PROVE  \E j \in 1 .. (i - 1) : after[j] = d
    <3>1. CASE i = Len(before) + 1
      <4>1. d \in Range(before)
        BY <2>1, <2>3, <3>1
      <4>2. PICK j \in 1 .. Len(before) : before[j] = d
        BY <2>4, <4>1
      <4>3. QED
        BY <2>2, <2>3, <3>1, <4>2
    <3>2. CASE i \in 1 .. Len(before)
      <4>1. after[i] = before[i]
        BY <2>3, <3>2
      <4>2. PICK j \in 1 .. (i - 1) : before[j] = d
        BY <3>2, <4>1 DEF IsOrder
      <4>3. QED
        BY <2>2, <2>3, <3>2, <4>2
    <3>3. QED
      BY <2>2, <2>3, <3>1, <3>2
  <2>7. IsOrder(after)
    BY <2>3, <2>5, <2>6 DEF IsOrder
  <2>8. Longer(before) = after
    BY <1>2 DEF Longer, after, n
  <2>9. QED
    BY <2>3, <2>7, <2>8
<1>3. QED
  BY <1>1, <1>2

\* TopologicalSort goes on from the empty order, as often as there are names.
LEMMA SortIterates ==
  ASSUME Manifests
  PROVE  \E f \in [Nat -> Seq(Names)] :
           /\ f[0] = <<>> /\ \A k \in Nat : f[k + 1] = Longer(f[k])
           /\ TopologicalSort = f[Cardinality(Names)]
<1> DEFINE F == [before \in Seq(Names) |-> Longer(before)]
<1>1. F \in [Seq(Names) -> Seq(Names)]
  <2>1. ASSUME NEW before \in Seq(Names) PROVE Longer(before) \in Seq(Names)
    <3>1. CASE Ready(Range(before)) = {}
      BY <3>1 DEF Longer
    <3>2. CASE Ready(Range(before)) # {}
      <4>1. Least(Ready(Range(before))) \in Names
        BY <3>2, LeastIsReady DEF Ready
      <4>2. QED
        BY <3>2, <4>1, AppendProperties DEF Longer
    <3>3. QED
      BY <3>1, <3>2
  <2>2. QED
    BY <2>1
<1>2. <<>> \in Seq(Names)
  OBVIOUS
<1>3. PICK f \in [Nat -> Seq(Names)] : f[0] = <<>> /\ \A k \in Nat : f[k + 1] = F[f[k]]
  <2> DEFINE S == Seq(Names)
             empty == <<>>
  <2>1. F \in [S -> S] /\ empty \in S
    BY <1>1, <1>2
  <2> HIDE DEF F, S, empty
  <2>2. \E f \in [Nat -> S] : f[0] = empty /\ \A k \in Nat : f[k + 1] = F[f[k]]
    BY <2>1, Iterates
  <2>3. QED
    BY <2>2 DEF S, empty
<1>4. f[0] = <<>> /\ \A k \in Nat : f[k + 1] = Longer(f[k])
  BY <1>3
<1>5. f = [k \in Nat |-> IF k = 0 THEN <<>> ELSE Longer(f[k - 1])]
  <2>1. \A k \in Nat \ {0} : f[k] = Longer(f[k - 1])
    <3>1. \A k \in Nat \ {0} : k - 1 \in Nat /\ (k - 1) + 1 = k
      OBVIOUS
    <3>2. QED
      BY <1>4, <3>1
  <2>2. QED
    BY <1>4, <2>1
<1>6. PICK g : /\ TopologicalSort = g[Cardinality(Names)]
               /\ g = [k \in Nat |-> IF k = 0 THEN <<>> ELSE Longer(g[k - 1])]
  BY <1>5 DEF TopologicalSort, Longer, Ready, Least
<1>7. g = f
  <2> DEFINE T == {k \in Nat : g[k] = f[k]}
  <2>1. 0 \in T
    BY <1>4, <1>6
  <2>2. ASSUME NEW k \in T PROVE k + 1 \in T
    <3>1. k \in Nat /\ g[k] = f[k] /\ f[k + 1] = Longer(f[k])
      BY <1>4
    <3>2. k + 1 \in Nat /\ k + 1 # 0 /\ (k + 1) - 1 = k
      BY <3>1
    <3>3. g[k + 1] = Longer(g[k])
      BY <1>6, <3>2
    <3>4. QED
      BY <3>1, <3>2, <3>3
  <2>3. T = Nat
    <3> HIDE DEF T
    <3> QED
      BY <2>1, <2>2, AllNat DEF T
  <2>4. \A k \in Nat : g[k] = f[k]
    BY <2>3
  <2>5. g = [k \in Nat |-> g[k]] /\ f = [k \in Nat |-> f[k]]
    BY <1>6
  <2>6. QED
    BY <2>4, <2>5
<1>8. QED
  BY <1>4, <1>6, <1>7

\* Then no transform is ready any more.
LEMMA SortIsOrder ==
  ASSUME Manifests
  PROVE  IsOrder(TopologicalSort) /\ Ready(Range(TopologicalSort)) = {}
<1>1. PICK f \in [Nat -> Seq(Names)] :
        /\ f[0] = <<>> /\ \A k \in Nat : f[k + 1] = Longer(f[k])
        /\ TopologicalSort = f[Cardinality(Names)]
  BY SortIterates
<1> DEFINE T == {k \in Nat : /\ IsOrder(f[k])
                             /\ Len(f[k]) = k \/ Ready(Range(f[k])) = {}}
<1>2. 0 \in T
  <2>1. Len(<<>>) = 0 /\ <<>> \in Seq(Names) /\ 1 .. 0 = {}
    OBVIOUS
  <2>2. IsOrder(<<>>)
    BY <2>1 DEF IsOrder
  <2>3. QED
    BY <1>1, <2>1, <2>2
<1>3. ASSUME NEW k \in T PROVE k + 1 \in T
  <2>1. IsOrder(f[k]) /\ f[k + 1] = Longer(f[k])
    BY <1>1
  <2>2. /\ IsOrder(f[k + 1])
        /\ \/ Ready(Range(f[k])) = {} /\ f[k + 1] = f[k]
           \/ Len(f[k + 1]) = Len(f[k]) + 1
    BY <2>1, LongerIsOrder
  <2>3. Len(f[k]) = k \/ Ready(Range(f[k])) = {}
    OBVIOUS
  <2>4. Ready(Range(f[k])) = {} => f[k + 1] = f[k]
    BY <2>1 DEF Longer
  <2>5. QED
    BY <2>2, <2>3, <2>4
<1>4. T = Nat
  <2> HIDE DEF T
  <2> QED
    BY <1>2, <1>3, AllNat DEF T
<1> DEFINE N == Cardinality(Names)
           order == f[N]
<1>5. N \in Nat /\ IsFiniteSet(Names)
  BY NamesAreFinite
<1>6. IsOrder(order) /\ (Len(order) = N \/ Ready(Range(order)) = {})
  BY <1>4, <1>5
<1>7. ASSUME Len(order) = N PROVE Ready(Range(order)) = {}
  <2> HIDE DEF order
  <2>1. order \in Seq(Names)
    BY <1>6 DEF IsOrder
  <2>2. order \in [1 .. N -> Names] /\ DOMAIN order = 1 .. N
    BY <1>7, <2>1, LenProperties
  <2>3. order \in Injection(1 .. N, Names)
    BY <1>6, <1>7, <2>2 DEF IsOrder, Injection, IsInjective
  <2>4. Cardinality(1 .. N) = N
    BY <1>5, FS_Interval
  <2>5. order \in Surjection(1 .. N, Names)
    <3>1. Cardinality(1 .. N) = Cardinality(Names) <=> order \in Surjection(1 .. N, Names)
      <4> HIDE DEF N
      <4> QED
        BY <1>5, <2>3, FS_Injection
    <3>2. QED
      BY <2>4, <3>1
  <2>6. Names \subseteq Range(order)
    BY <2>2, <2>5 DEF Surjection, Range
  <2>7. QED
    BY <2>6 DEF Ready
<1>8. QED
  BY <1>1, <1>6, <1>7

\* What is missing in the order is blocked.
LEMMA SortMissesBlocked ==
  ASSUME Manifests
  PROVE  Range(TopologicalSort) = Names \ Blocked
<1> DEFINE order == TopologicalSort
           IsBlock(C) == \A n \in C : Deps(n) \cap C # {}
<1>1. IsOrder(order) /\ Ready(Range(order)) = {}
  BY SortIsOrder
<1> HIDE DEF order
<1>2. Range(order) = {order[i] : i \in 1 .. Len(order)} /\ Range(order) \subseteq Names
  BY <1>1, RangeEquality, RangeOfSeq DEF IsOrder
<1>3. ASSUME NEW C \in SUBSET Names, IsBlock(C) PROVE C \cap Range(order) = {}
  <2> DEFINE I == {i \in 1 .. Len(order) : order[i] \in C}
  <2>1. SUFFICES ASSUME I # {} PROVE FALSE
    BY <1>2
  <2>2. PICK i \in I : \A j \in I : i <= j
    <3>1. I \subseteq Nat
      OBVIOUS
    <3>2. QED
      BY <2>1, <3>1, LeastNat
  <2>3. PICK d \in Deps(order[i]) : d \in C
    BY <1>3
  <2>4. PICK j \in 1 .. (i - 1) : order[j] = d
    BY <1>1, <2>3 DEF IsOrder
  <2>5. j \in I /\ j < i
    BY <2>3, <2>4
  <2>6. QED
    BY <2>2, <2>5
<1>4. IsBlock(Names \ Range(order))
  <2>1. SUFFICES ASSUME NEW n \in Names \ Range(order), Deps(n) \subseteq Range(order)
                 PROVE  FALSE
    BY DepsAreNames
  <2>2. n \in Ready(Range(order))
    BY <2>1 DEF Ready
  <2>3. QED
    BY <1>1, <2>2
<1>5. \A n : n \in Blocked <=> \E C \in SUBSET Names : IsBlock(C) /\ n \in C
  BY DEF Blocked
<1> HIDE DEF IsBlock
<1>6. \A n \in Range(order) : n \notin Blocked
  BY <1>3, <1>5
<1>7. \A n \in Names \ Range(order) : n \in Blocked
  BY <1>4, <1>5
<1>8. QED
  BY <1>2, <1>6, <1>7 DEF order
-----------------------------------------------------------------------------
(* The nodes that lead to a destination. *)

Wider(K) == K \cup AllPredecessors(BuildGraph, K)

\* The graph of a scan has finitely many nodes.
LEMMA NodesAreFinite ==
  ASSUME Manifests
  PROVE  IsFiniteSet(BuildGraph.node) /\ Cardinality(BuildGraph.node) \in Nat
<1> DEFINE X == {Transform(n) : n \in Names}
           Y == {Dataset(d) : d \in Datasets}
           f == [n \in Names |-> Transform(n)]
           g == [d \in Datasets |-> Dataset(d)]
<1>1. IsFiniteSet(X)
  <2>1. f \in Surjection(Names, X)
    BY DEF Surjection
  <2>2. QED
    BY <2>1, NamesAreFinite, FS_Surjection
<1>2. IsFiniteSet(Y)
  <2>1. g \in Surjection(Datasets, Y)
    BY DEF Surjection
  <2>2. QED
    BY <2>1, PipelineGraphAssumption, FS_Surjection
<1>3. BuildGraph.node = X \cup Y
  BY DEF BuildGraph
<1>4. IsFiniteSet(X \cup Y)
  <2> HIDE DEF X, Y
  <2> QED
    BY <1>1, <1>2, FS_Union
<1>5. QED
  BY <1>3, <1>4, FS_CardinalityType

\* filterToDestination goes on from the destination, as often as there are nodes.
LEMMA FilterIterates ==
  ASSUME NEW dest \in BuildGraph.node
  PROVE  \E f \in [Nat -> SUBSET BuildGraph.node] :
           /\ f[0] = {dest} /\ \A k \in Nat : f[k + 1] = Wider(f[k])
           /\ filterToDestination(dest) = f[Cardinality(BuildGraph.node)]
<1> DEFINE S == SUBSET BuildGraph.node
           F == [K \in S |-> Wider(K)]
<1>1. F \in [S -> S] /\ {dest} \in S
  BY DEF Wider, AllPredecessors, Predecessors
<1>2. PICK f \in [Nat -> S] : f[0] = {dest} /\ \A k \in Nat : f[k + 1] = F[f[k]]
  <2> HIDE DEF F, S
  <2> QED
    BY <1>1, Iterates
<1>3. f[0] = {dest} /\ \A k \in Nat : f[k + 1] = Wider(f[k])
  BY <1>2
<1>4. f = [k \in Nat |-> IF k = 0 THEN {dest} ELSE Wider(f[k - 1])]
  <2>1. \A k \in Nat \ {0} : f[k] = Wider(f[k - 1])
    <3>1. \A k \in Nat \ {0} : k - 1 \in Nat /\ (k - 1) + 1 = k
      OBVIOUS
    <3>2. QED
      BY <1>3, <3>1
  <2>2. QED
    BY <1>3, <2>1
<1>5. PICK g : /\ filterToDestination(dest) = g[Cardinality(BuildGraph.node)]
               /\ g = [k \in Nat |-> IF k = 0 THEN {dest} ELSE Wider(g[k - 1])]
  <2>1. f = [k \in Nat |-> IF k = 0 THEN {dest}
                           ELSE f[k - 1] \cup AllPredecessors(BuildGraph, f[k - 1])]
    BY <1>4 DEF Wider
  <2> HIDE DEF S, F
  <2>2. PICK g :
          /\ filterToDestination(dest) = g[Cardinality(BuildGraph.node)]
          /\ g = [k \in Nat |-> IF k = 0 THEN {dest}
                                ELSE g[k - 1] \cup AllPredecessors(BuildGraph, g[k - 1])]
    BY <2>1, ZenonT(100) DEF filterToDestination
  <2>3. QED
    BY <2>2 DEF Wider
<1>6. g = f
  <2> DEFINE T == {k \in Nat : g[k] = f[k]}
  <2>1. 0 \in T
    BY <1>3, <1>5
  <2>2. ASSUME NEW k \in T PROVE k + 1 \in T
    <3>1. k \in Nat /\ g[k] = f[k] /\ f[k + 1] = Wider(f[k])
      BY <1>3
    <3>2. k + 1 \in Nat /\ k + 1 # 0 /\ (k + 1) - 1 = k
      BY <3>1
    <3>3. g[k + 1] = Wider(g[k])
      BY <1>5, <3>2
    <3>4. QED
      BY <3>1, <3>2, <3>3
  <2>3. T = Nat
    <3> HIDE DEF T
    <3> QED
      BY <2>1, <2>2, AllNat DEF T
  <2>4. \A k \in Nat : g[k] = f[k]
    BY <2>3
  <2>5. g = [k \in Nat |-> g[k]] /\ f = [k \in Nat |-> f[k]]
    BY <1>5
  <2>6. QED
    BY <2>4, <2>5
<1>7. QED
  BY <1>3, <1>5, <1>6

\* As long as it is not closed under predecessors, a set of nodes grows.
LEMMA WiderGrows ==
  ASSUME Manifests, NEW K \in SUBSET BuildGraph.node
  PROVE  /\ Wider(K) \in SUBSET BuildGraph.node /\ K \subseteq Wider(K)
         /\ Cardinality(K) \in Nat /\ Cardinality(K) <= Cardinality(BuildGraph.node)
         /\ \/ Wider(K) = K
            \/ Cardinality(Wider(K)) >= Cardinality(K) + 1
<1>1. Wider(K) \in SUBSET BuildGraph.node /\ K \subseteq Wider(K)
  BY DEF Wider, AllPredecessors, Predecessors
<1>2. IsFiniteSet(Wider(K)) /\ Cardinality(Wider(K)) \in Nat
  BY <1>1, NodesAreFinite, FS_Subset, FS_CardinalityType
<1>3. /\ IsFiniteSet(K) /\ Cardinality(K) \in Nat
      /\ Cardinality(K) <= Cardinality(BuildGraph.node)
  BY NodesAreFinite, FS_Subset, FS_CardinalityType
<1>4. /\ Cardinality(K) <= Cardinality(Wider(K))
      /\ Cardinality(K) = Cardinality(Wider(K)) => K = Wider(K)
  BY <1>1, <1>2, FS_Subset
<1>5. QED
  BY <1>1, <1>2, <1>3, <1>4

\* It ends at the least set of nodes that has the destination and is closed.
LEMMA FilterIsLeast ==
  ASSUME Manifests, NEW dest \in BuildGraph.node
  PROVE  /\ filterToDestination(dest) \in SUBSET BuildGraph.node
         /\ dest \in filterToDestination(dest)
         /\ AllPredecessors(BuildGraph, filterToDestination(dest))
              \subseteq filterToDestination(dest)
         /\ \A K : dest \in K /\ AllPredecessors(BuildGraph, K) \subseteq K
                  => filterToDestination(dest) \subseteq K
<1> DEFINE N == Cardinality(BuildGraph.node)
<1>1. PICK f \in [Nat -> SUBSET BuildGraph.node] :
        /\ f[0] = {dest} /\ \A k \in Nat : f[k + 1] = Wider(f[k])
        /\ filterToDestination(dest) = f[N]
  BY FilterIterates
<1>2. N \in Nat
  BY NodesAreFinite
<1> HIDE DEF N
<1> DEFINE T == {k \in Nat : /\ dest \in f[k]
                             /\ Cardinality(f[k]) > k \/ Wider(f[k]) = f[k]}
<1>3. T = Nat
  <2>1. 0 \in T
    <3>1. Cardinality({dest}) = 1
      BY FS_Singleton
    <3>2. f[0] = {dest} /\ Cardinality(f[0]) = 1
      BY <1>1, <3>1
    <3>3. dest \in f[0] /\ Cardinality(f[0]) > 0
      BY <3>2
    <3>4. QED
      BY <3>3
  <2>2. ASSUME NEW k \in T PROVE k + 1 \in T
    <3> DEFINE K == f[k]
               L == f[k + 1]
    <3>1. K \in SUBSET BuildGraph.node /\ L = Wider(K) /\ k \in Nat /\ dest \in K
      BY <1>1
    <3>2. Cardinality(K) > k \/ Wider(K) = K
      OBVIOUS
    <3> HIDE DEF K, L
    <3>3. /\ K \subseteq Wider(K) /\ Cardinality(K) \in Nat
          /\ Wider(K) = K \/ Cardinality(Wider(K)) >= Cardinality(K) + 1
      BY <3>1, WiderGrows
    <3>4. Cardinality(L) \in Nat
      BY <3>1, WiderGrows
    <3>5. dest \in L /\ (Cardinality(L) > k + 1 \/ Wider(L) = L)
      BY <3>1, <3>2, <3>3, <3>4
    <3>6. QED
      BY <3>1, <3>5 DEF L
  <2>3. QED
    <3> HIDE DEF T
    <3> QED
      BY <2>1, <2>2, AllNat DEF T
<1>4. dest \in f[N] /\ Wider(f[N]) = f[N]
  <2>1. Cardinality(f[N]) \in Nat /\ Cardinality(f[N]) <= N
    BY <1>2, WiderGrows DEF N
  <2>2. dest \in f[N] /\ (Cardinality(f[N]) > N \/ Wider(f[N]) = f[N])
    BY <1>2, <1>3
  <2>3. QED
    BY <1>2, <2>1, <2>2
<1>5. ASSUME NEW K, dest \in K, AllPredecessors(BuildGraph, K) \subseteq K
      PROVE  f[N] \subseteq K
  <2> DEFINE U == {k \in Nat : f[k] \subseteq K}
  <2>1. 0 \in U
    BY <1>1, <1>5
  <2>2. ASSUME NEW k \in U PROVE k + 1 \in U
    <3>1. f[k + 1] = Wider(f[k]) /\ f[k] \subseteq K
      BY <1>1
    <3>2. Wider(f[k]) \subseteq K
      BY <1>5, <3>1 DEF Wider, AllPredecessors
    <3>3. QED
      BY <3>1, <3>2
  <2>3. U = Nat
    <3> HIDE DEF U
    <3> QED
      BY <2>1, <2>2, AllNat DEF U
  <2>4. QED
    BY <1>2, <2>3
<1>6. AllPredecessors(BuildGraph, f[N]) \subseteq f[N]
  BY <1>4 DEF Wider
<1>7. QED
  BY <1>1, <1>2, <1>4, <1>5, <1>6
-----------------------------------------------------------------------------
(* The run of the packages. *)

Plans ==
  graphPc # "start" =>
    /\ Len(started) + Len(plan) = Len(TopologicalSort)
    /\ \A i \in 1 .. Len(started) : names[started[i]] = TopologicalSort[i]
    /\ \A i \in 1 .. Len(plan) : names[plan[i]] = TopologicalSort[Len(started) + i]

WhatRan ==
  /\ graphPc = "start" => plan = <<>> /\ started = <<>>
  /\ graphPc = "done" => plan = <<>>
  /\ graphPc \in {"running", "summary"} => started # <<>>
  /\ graphPc = "summary" => outcome[started[Len(started)]] = "error"
  /\ \A i \in 1 .. Len(started) :
       i < Len(started) \/ graphPc \in {"next", "done"} => outcome[started[i]] = "completed"

GraphTypeOK ==
  /\ Manifests
  /\ plan \in Seq(Packages) /\ started \in Seq(Packages)
  /\ outcome \in [Packages -> {"none", "completed", "error"}]
  /\ graphPc \in {"start", "next", "running", "summary", "done", "failed"}

GraphInv == GraphTypeOK /\ Plans /\ WhatRan

\* The order changes only with the manifests.
LEMMA SortStays ==
  ASSUME UNCHANGED <<names, interface>>
  PROVE  /\ TopologicalSort' = TopologicalSort /\ Names' = Names
         /\ \A n : Deps(n)' = Deps(n)
BY DEF TopologicalSort, Names, Deps, Producers

\* No package is run twice: names come once, and a package has one.
LEMMA EachRunsOnce ==
  ASSUME GraphInv, graphPc # "start",
         NEW i \in 1 .. Len(started), NEW j \in 1 .. Len(started), started[i] = started[j]
  PROVE  i = j
<1>1. /\ TopologicalSort[i] = TopologicalSort[j]
      /\ Len(started) + Len(plan) = Len(TopologicalSort)
  BY DEF GraphInv, Plans
<1>2. Len(started) \in Nat /\ Len(plan) \in Nat
  BY LenProperties DEF GraphInv, GraphTypeOK
<1>3. IsOrder(TopologicalSort)
  BY SortIsOrder DEF GraphInv, GraphTypeOK
<1>4. QED
  BY <1>1, <1>2, <1>3 DEF IsOrder

\* Scanning and sorting keeps the loop's invariant.
LEMMA PlanKeepsGraph ==
  ASSUME GraphInv, Plan PROVE GraphInv'
<1> DEFINE order == TopologicalSort
<1>1. UNCHANGED <<names, interface, started, outcome>> /\ graphPc' = "next" /\ started = <<>>
  BY DEF Plan, GraphInv, WhatRan
<1>2. TopologicalSort' = order /\ Manifests'
  BY <1>1, SortStays DEF GraphInv, GraphTypeOK, Manifests
<1>3. order \in Seq(Names)
  BY SortIsOrder DEF GraphInv, GraphTypeOK, IsOrder
<1>4. DOMAIN order = 1 .. Len(order) /\ Len(order) \in Nat
  BY <1>3, LenProperties
<1>5. plan' \in [DOMAIN order -> Packages] /\ \A i \in DOMAIN order : names[plan'[i]] = order[i]
  BY DEF Plan, TransformDirs
<1> HIDE DEF order
<1>6. plan' \in Seq(Packages) /\ Len(plan') = Len(order)
  BY <1>4, <1>5
<1>7. GraphTypeOK'
  BY <1>1, <1>2, <1>6 DEF GraphInv, GraphTypeOK
<1>8. Len(started') = 0 /\ 1 .. 0 = {}
  BY <1>1
<1>9. Plans'
  <2>1. \A i \in 1 .. Len(order) : names'[plan'[i]] = order[i] /\ 0 + i = i
    BY <1>1, <1>4, <1>5
  <2>2. QED
    BY <1>2, <1>4, <1>6, <1>8, <2>1 DEF Plans
<1>10. WhatRan'
  BY <1>1, <1>8 DEF WhatRan
<1>11. QED
  BY <1>7, <1>9, <1>10 DEF GraphInv

\* Starting the next package keeps the loop's invariant.
LEMMA StartNextKeepsGraph ==
  ASSUME GraphInv, StartNext PROVE GraphInv'
<1> DEFINE order == TopologicalSort
           p == Head(plan)
<1>1. /\ UNCHANGED <<names, interface, outcome>> /\ graphPc = "next" /\ graphPc' = "running"
      /\ plan # <<>> /\ started' = Append(started, p) /\ plan' = Tail(plan)
      /\ plan \in Seq(Packages) /\ started \in Seq(Packages)
  BY DEF StartNext, GraphInv, GraphTypeOK
<1>2. TopologicalSort' = order /\ Manifests'
  BY <1>1, SortStays DEF GraphInv, GraphTypeOK, Manifests
<1>3. /\ Len(plan) \in Nat \ {0} /\ Len(started) \in Nat
      /\ p \in Packages /\ p = plan[1]
      /\ plan' \in Seq(Packages) /\ Len(plan') = Len(plan) - 1
      /\ \A i \in 1 .. Len(plan') : plan'[i] = plan[i + 1]
  BY <1>1, HeadTailProperties, EmptySeq, LenProperties
<1>4. /\ started' \in Seq(Packages) /\ started' # <<>> /\ Len(started') = Len(started) + 1
      /\ \A i \in 1 .. Len(started) : started'[i] = started[i]
      /\ started'[Len(started) + 1] = p
  <2> HIDE DEF p
  <2> QED
    BY <1>1, <1>3, AppendProperties
<1>5. GraphTypeOK'
  BY <1>1, <1>2, <1>3, <1>4 DEF GraphInv, GraphTypeOK
<1>6. /\ Len(started) + Len(plan) = Len(order)
      /\ \A i \in 1 .. Len(started) : names[started[i]] = order[i]
      /\ \A i \in 1 .. Len(plan) : names[plan[i]] = order[Len(started) + i]
  BY <1>1 DEF GraphInv, Plans
<1> HIDE DEF order, p
<1>7. Plans'
  <2>1. Len(started') + Len(plan') = Len(order)
    <3>1. /\ Len(plan) \in Nat /\ Len(started) \in Nat
          /\ Len(plan') = Len(plan) - 1 /\ Len(started') = Len(started) + 1
          /\ Len(started) + Len(plan) = Len(order)
      BY <1>3, <1>4, <1>6
    <3>2. QED
      BY <3>1
  <2>2. ASSUME NEW i \in 1 .. Len(started') PROVE names'[started'[i]] = order[i]
    <3>1. CASE i \in 1 .. Len(started)
      BY <1>1, <1>4, <1>6, <3>1
    <3>2. CASE i = Len(started) + 1
      <4>1. 1 \in 1 .. Len(plan)
        BY <1>3
      <4>2. names[plan[1]] = order[Len(started) + 1]
        BY <1>6, <4>1
      <4>3. QED
        BY <1>1, <1>3, <1>4, <3>2, <4>2
    <3>3. QED
      BY <1>3, <1>4, <3>1, <3>2
  <2>3. ASSUME NEW i \in 1 .. Len(plan') PROVE names'[plan'[i]] = order[Len(started') + i]
    <3>1. i + 1 \in 1 .. Len(plan) /\ Len(started) + (i + 1) = Len(started') + i
      BY <1>3, <1>4
    <3>2. names[plan[i + 1]] = order[Len(started') + i]
      BY <1>6, <3>1
    <3>3. QED
      BY <1>1, <1>3, <3>2
  <2>4. QED
    BY <1>2, <2>1, <2>2, <2>3 DEF Plans
<1>8. WhatRan'
  <2>1. \A i \in 1 .. Len(started) : outcome[started[i]] = "completed"
    BY <1>1 DEF GraphInv, WhatRan
  <2>2. ASSUME NEW i \in 1 .. Len(started'), i < Len(started')
        PROVE  outcome'[started'[i]] = "completed"
    BY <1>1, <1>3, <1>4, <2>1, <2>2
  <2>3. QED
    BY <1>1, <1>4, <2>2 DEF WhatRan
<1>9. QED
  BY <1>5, <1>7, <1>8 DEF GraphInv

\* The end of a package, completed or failed, keeps the loop's invariant.
LEMMA EndsKeepsGraph ==
  ASSUME GraphInv,
         NEW result \in {"completed", "error"}, NEW next \in {"next", "summary"},
         Ends(result, next),
         result = "completed" <=> next = "next"
  PROVE  GraphInv'
<1> DEFINE n == Len(started)
<1>1. /\ UNCHANGED <<names, interface, plan, started>>
      /\ graphPc = "running" /\ graphPc' = next
      /\ outcome' = [outcome EXCEPT ![started[n]] = result]
  BY DEF Ends, Last
<1>2. started \in Seq(Packages) /\ started # <<>> /\ n \in Nat \ {0}
  BY <1>1, EmptySeq DEF GraphInv, GraphTypeOK, WhatRan
<1>3. \A i \in 1 .. n : started[i] \in Packages
  BY <1>2, ElementOfSeq
<1>4. /\ outcome' \in [Packages -> {"none", "completed", "error"}]
      /\ outcome'[started[n]] = result
      /\ \A p \in Packages : p # started[n] => outcome'[p] = outcome[p]
  <2>1. started[n] \in Packages /\ outcome \in [Packages -> {"none", "completed", "error"}]
    BY <1>2, <1>3 DEF GraphInv, GraphTypeOK
  <2>2. QED
    BY <1>1, <2>1
<1>5. GraphTypeOK'
  BY <1>1, <1>4 DEF GraphInv, GraphTypeOK, Manifests
<1>6. Plans'
  BY <1>1, SortStays DEF GraphInv, Plans
<1>7. ASSUME NEW i \in 1 .. n, i < n PROVE outcome'[started[i]] = "completed"
  <2>1. started[i] # started[n]
    BY <1>1, <1>2, <1>7, EachRunsOnce
  <2>2. outcome[started[i]] = "completed"
    BY <1>7 DEF GraphInv, WhatRan
  <2>3. QED
    BY <1>3, <1>4, <2>1, <2>2
<1>8. WhatRan'
  <2>1. ASSUME NEW i \in 1 .. n, i < n \/ next = "next"
        PROVE  outcome'[started[i]] = "completed"
    <3>1. CASE i = n
      BY <1>4, <2>1, <3>1
    <3>2. CASE i < n
      BY <1>7, <3>2
    <3>3. QED
      BY <1>2, <3>1, <3>2
  <2>2. next = "summary" => outcome'[started[n]] = "error"
    BY <1>4
  <2> HIDE DEF n
  <2>3. QED
    BY <1>1, <1>2, <2>1, <2>2 DEF WhatRan, n
<1>9. QED
  BY <1>5, <1>6, <1>8 DEF GraphInv

\* The end of the loop keeps its invariant.
LEMMA SummaryKeepsGraph ==
  ASSUME GraphInv, Summary PROVE GraphInv'
<1>1. /\ UNCHANGED <<names, interface, plan, started, outcome>>
      /\ graphPc' \in {"failed", "done"} /\ graphPc # "start"
      /\ graphPc = "summary" \/ (graphPc = "next" /\ plan = <<>>)
      /\ graphPc' = "done" => ~ \E p \in Packages : outcome[p] = "error"
  BY DEF Summary
<1>2. graphPc' = "done" => graphPc = "next"
  <2>1. SUFFICES ASSUME graphPc' = "done", graphPc = "summary" PROVE FALSE
    BY <1>1
  <2>2. started # <<>> /\ started \in Seq(Packages)
    BY <2>1 DEF GraphInv, GraphTypeOK, WhatRan
  <2>3. started[Len(started)] \in Packages
    BY <2>2, EmptySeq, ElementOfSeq
  <2>4. QED
    BY <1>1, <2>1, <2>3 DEF GraphInv, WhatRan
<1>3. GraphTypeOK'
  BY <1>1 DEF GraphInv, GraphTypeOK, Manifests
<1>4. Plans'
  BY <1>1, SortStays DEF GraphInv, Plans
<1>5. WhatRan'
  BY <1>1, <1>2 DEF GraphInv, WhatRan
<1>6. QED
  BY <1>3, <1>4, <1>5 DEF GraphInv

\* The loop's invariant holds at first and is kept by each step.
LEMMA GraphInvIsInductive ==
  /\ GraphInit => GraphInv
  /\ GraphInv /\ [GraphNext]_graphVars => GraphInv'
<1>1. ASSUME GraphInit PROVE GraphInv
  <2>1. GraphTypeOK
    BY <1>1, EmptySeq DEF GraphInit, GraphTypeOK, Manifests
  <2>2. Plans
    BY <1>1 DEF GraphInit, Plans
  <2>3. WhatRan
    BY <1>1 DEF GraphInit, WhatRan
  <2>4. QED
    BY <2>1, <2>2, <2>3 DEF GraphInv
<1>2. ASSUME GraphInv, [GraphNext]_graphVars PROVE GraphInv'
  <2>1. CASE Plan
    BY <1>2, <2>1, PlanKeepsGraph
  <2>2. CASE StartNext
    BY <1>2, <2>2, StartNextKeepsGraph
  <2>3. CASE Completes
    BY <1>2, <2>3, EndsKeepsGraph DEF Completes
  <2>4. CASE Fails
    BY <1>2, <2>4, EndsKeepsGraph DEF Fails
  <2>5. CASE Summary
    BY <1>2, <2>5, SummaryKeepsGraph
  <2>6. CASE UNCHANGED graphVars
    <3>1. TopologicalSort' = TopologicalSort
      BY <2>6, SortStays DEF graphVars
    <3>2. QED
      BY <1>2, <2>6, <3>1
      DEF graphVars, GraphInv, GraphTypeOK, Manifests, Plans, WhatRan
  <2>7. QED
    BY <1>2, <2>1, <2>2, <2>3, <2>4, <2>5, <2>6 DEF GraphNext
<1>3. QED
  BY <1>1, <1>2
-----------------------------------------------------------------------------
(* What the runs check of it. *)

\* The transforms of a scan are run each once and after those that they depend on,
\* however many there are; those on a cycle or behind one are left out, and no others.
THEOREM OrderIsTopologicalHolds == GraphSpec => []OrderIsTopological
<1>1. GraphInv => OrderIsTopological
  <2> DEFINE order == TopologicalSort
  <2>1. SUFFICES ASSUME GraphInv
                 PROVE  /\ IsInjective(order) /\ Range(order) = Names \ Blocked
                        /\ \A i, j \in DOMAIN order : order[i] \in Deps(order[j]) => i < j
    BY DEF OrderIsTopological
  <2>2. Manifests
    BY <2>1 DEF GraphInv, GraphTypeOK
  <2>3. IsOrder(order) /\ Range(order) = Names \ Blocked
    BY <2>2, SortIsOrder, SortMissesBlocked
  <2> HIDE DEF order
  <2>4. DOMAIN order = 1 .. Len(order) /\ Len(order) \in Nat
    BY <2>3, LenProperties DEF IsOrder
  <2>5. ASSUME NEW i \in DOMAIN order, NEW j \in DOMAIN order, order[i] \in Deps(order[j])
        PROVE  i < j
    <3>1. PICK k \in 1 .. (j - 1) : order[k] = order[i]
      BY <2>3, <2>4, <2>5 DEF IsOrder
    <3>2. k = i
      BY <2>3, <2>4, <3>1 DEF IsOrder
    <3>3. QED
      BY <2>4, <3>1, <3>2
  <2>6. IsInjective(order)
    BY <2>3, <2>4 DEF IsOrder, IsInjective
  <2>7. QED
    BY <2>3, <2>5, <2>6
<1>2. QED
  BY <1>1, GraphInvIsInductive, PTL DEF GraphSpec

\* The graph that leads to a dataset or a transform, in a graph of any size: that
\* the search stops after as many rounds as there are nodes cuts off nothing.
THEOREM FilterKeepsAncestorsHolds == GraphSpec => []FilterKeepsAncestors
<1>1. GraphInv => FilterKeepsAncestors
  BY FilterIsLeast DEF FilterKeepsAncestors, GraphInv, GraphTypeOK
<1>2. QED
  BY <1>1, GraphInvIsInductive, PTL DEF GraphSpec

\* Who alone produces an input of a package that was started was started before it.
LEMMA ProducersComeFirst ==
  ASSUME GraphInv, NEW i \in DOMAIN started,
         NEW d \in interface[started[i]].inputs, NEW w \in Packages,
         {p \in Packages : d \in interface[p].outputs} = {w},
         names[w] # names[started[i]]
  PROVE  \E j \in 1 .. (i - 1) : names[started[j]] = names[w]
<1> DEFINE n == names[started[i]]
<1>1. started \in Seq(Packages) /\ graphPc # "start"
  BY DEF GraphInv, GraphTypeOK, WhatRan
<1>2. DOMAIN started = 1 .. Len(started) /\ Len(started) \in Nat /\ started[i] \in Packages
  BY <1>1, LenProperties, ElementOfSeq
<1>3. names[w] \in Producers(d)
  <2>1. w \in Nat
    BY DEF Packages
  <2>2. QED
    BY <2>1 DEF Producers
<1>4. names[w] \in Deps(n)
  <2> DEFINE read == UNION {interface[p].inputs : p \in {q \in Packages : names[q] = n}}
  <2>1. d \in read
    BY <1>2
  <2> HIDE DEF read
  <2>2. names[w] \in UNION {Producers(x) : x \in read}
    BY <1>3, <2>1
  <2>3. QED
    BY <2>2 DEF Deps, read
<1>5. /\ Len(started) + Len(plan) = Len(TopologicalSort)
      /\ \A j \in 1 .. Len(started) : names[started[j]] = TopologicalSort[j]
      /\ Len(plan) \in Nat
  BY <1>1, LenProperties DEF GraphInv, GraphTypeOK, Plans
<1>6. IsOrder(TopologicalSort)
  BY SortIsOrder DEF GraphInv, GraphTypeOK
<1>7. i \in 1 .. Len(TopologicalSort) /\ n = TopologicalSort[i]
  BY <1>2, <1>5
<1>8. PICK j \in 1 .. (i - 1) : TopologicalSort[j] = names[w]
  BY <1>4, <1>6, <1>7 DEF IsOrder
<1>9. QED
  BY <1>2, <1>5, <1>8

\* dk run --scan-dir of any number of packages, with names shared and cycles or not:
\* a package is run on what was produced before, in this run, and a run that reports
\* no failure has run them all.
THEOREM MultiRunIsSoundHolds == GraphSpec => []MultiRunIsSound
<1>1. GraphInv => RunsOnFreshData
  <2>1. SUFFICES ASSUME GraphInv, NEW i \in DOMAIN started,
                        NEW d \in interface[started[i]].inputs, NEW w \in Packages,
                        {p \in Packages : d \in interface[p].outputs} = {w},
                        names[w] # names[started[i]]
                 PROVE  \E j \in 1 .. (i - 1) : /\ names[started[j]] = names[w]
                                                /\ outcome[started[j]] = "completed"
    BY DEF RunsOnFreshData
  <2>2. PICK j \in 1 .. (i - 1) : names[started[j]] = names[w]
    BY <2>1, ProducersComeFirst
  <2>3. DOMAIN started = 1 .. Len(started) /\ Len(started) \in Nat
    BY <2>1, LenProperties DEF GraphInv, GraphTypeOK
  <2>4. j \in 1 .. Len(started) /\ j < Len(started)
    BY <2>3
  <2>5. outcome[started[j]] = "completed"
    BY <2>1, <2>4 DEF GraphInv, WhatRan
  <2>6. QED
    BY <2>2, <2>5
<1>2. GraphInv => DoneMeansAll
  <2>1. SUFFICES ASSUME GraphInv, graphPc = "done", NEW p \in Packages, names[p] \notin Blocked
                 PROVE  \/ outcome[p] = "completed"
                        \/ \E q \in Packages \ {p} : names[q] = names[p]
    <3> HIDE DEF GraphInv
    <3> QED
      BY Zenon DEF DoneMeansAll
  <2> DEFINE order == TopologicalSort
  <2>2. Manifests /\ started \in Seq(Packages)
    BY <2>1 DEF GraphInv, GraphTypeOK
  <2>3. IsOrder(order) /\ names[p] \in Range(order)
    BY <2>1, <2>2, SortIsOrder, SortMissesBlocked, NamesAreFinite
  <2>4. PICK i \in 1 .. Len(order) : order[i] = names[p]
    BY <2>3, RangeEquality DEF IsOrder
  <2>5. /\ plan = <<>> /\ Len(started) + Len(plan) = Len(order)
        /\ \A k \in 1 .. Len(started) : /\ names[started[k]] = order[k]
                                        /\ outcome[started[k]] = "completed"
    BY <2>1 DEF GraphInv, Plans, WhatRan
  <2>6. Len(plan) = 0 /\ Len(started) \in Nat
    BY <2>2, <2>5, LenProperties
  <2>7. i \in 1 .. Len(started)
    BY <2>4, <2>5, <2>6
  <2>8. started[i] \in Packages
    BY <2>2, <2>7, ElementOfSeq
  <2>9. names[started[i]] = names[p] /\ outcome[started[i]] = "completed"
    BY <2>4, <2>5, <2>7
  <2>10. QED
    BY <2>8, <2>9
<1>3. QED
  BY <1>1, <1>2, GraphInvIsInductive, PTL DEF GraphSpec, MultiRunIsSound
=============================================================================
