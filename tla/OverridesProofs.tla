--------------------------- MODULE OverridesProofs ---------------------------
(***************************************************************************)
(* Proofs about Overrides, for documents of any depth, any override files  *)
(* and any paths.  First that its recursive functions exist, then what the *)
(* values and the steps into them are, what a merge and what a setting     *)
(* leave at each address, and last what a sequence of overrides does.      *)
(***************************************************************************)
EXTENDS Overrides, Induction, SequenceTheorems

-----------------------------------------------------------------------------
(* The recursive functions of Overrides exist. *)

\* A merge, given those of values less deep.
Merged(deeper, b, o) ==
  Map([k \in Names |->
    IF In(o, k) = Nothing THEN In(b, k)
    ELSE IF In(b, k).kind = "map" /\ In(o, k).kind = "map"
         THEN deeper[In(b, k)][In(o, k)]
         ELSE In(o, k)])

\* The values of each depth, which a recursive function defines.
LEMMA ValuesAre ==
  /\ Values[0] = Leaves
         /\ \A n \in 1 .. Depth :
              Values[n] = Leaves \cup [kind : {"map"}, of : [Names -> Values[n - 1]]]
                                 \cup [kind : {"list"}, of : Seq(Values[n - 1])]
<1> DEFINE L == Depth
           c == Leaves
           G(n, x) == Leaves \cup [kind : {"map"}, of : [Names -> x]]
                            \cup [kind : {"list"}, of : Seq(x)]
           IsUpTo(g, n) == /\ DOMAIN g = 0 .. n /\ g[0] = c
                           /\ \A k \in 1 .. n : g[k] = G(k, g[k - 1])
           T == {n \in Nat : \E g : IsUpTo(g, n)}
<1>0. L \in Nat
  BY OverridesAssumption
<1> HIDE DEF c, G, L
<1>1. 0 \in T
  <2>1. IsUpTo([k \in 0 .. 0 |-> c], 0)
    OBVIOUS
  <2> HIDE DEF IsUpTo
  <2>2. QED
    BY <2>1
<1>2. ASSUME NEW n \in T PROVE n + 1 \in T
  <2>1. PICK g : IsUpTo(g, n)
    OBVIOUS
  <2> DEFINE h == [k \in 0 .. (n + 1) |-> IF k <= n THEN g[k] ELSE G(n + 1, g[n])]
  <2>2. n \in Nat
    OBVIOUS
  <2>3. DOMAIN h = 0 .. (n + 1) /\ h[0] = c
    BY <2>1, <2>2
  <2>4. ASSUME NEW k \in 1 .. (n + 1) PROVE h[k] = G(k, h[k - 1])
    <3>1. CASE k = n + 1
      BY <2>2, <3>1
    <3>2. CASE k <= n
      BY <2>1, <2>2, <3>2
    <3>3. QED
      BY <2>2, <3>1, <3>2
  <2>5. IsUpTo(h, n + 1)
    <3> HIDE DEF h
    <3> QED
      BY <2>3, <2>4
  <2> HIDE DEF IsUpTo
  <2>6. QED
    BY <2>2, <2>5
<1>3. \E g : IsUpTo(g, L)
  <2>1. T = Nat
    <3> HIDE DEF T
    <3> QED
      BY <1>1, <1>2, AllNat DEF T
  <2> HIDE DEF IsUpTo
  <2>2. QED
    BY <1>0, <2>1
<1>4. PICK g : IsUpTo(g, L)
  BY <1>3
<1> DEFINE f == [n \in 0 .. L |-> g[n]]
           F == CHOOSE x : x = [n \in 0 .. L |-> IF n = 0 THEN c ELSE G(n, x[n - 1])]
<1>5. f = [n \in 0 .. L |-> IF n = 0 THEN c ELSE G(n, f[n - 1])]
  <2>1. \A n \in 0 .. L : g[n] = IF n = 0 THEN c ELSE G(n, f[n - 1])
    BY <1>0, <1>4
  <2>2. QED
    BY <2>1
<1>6. F = [n \in 0 .. L |-> IF n = 0 THEN c ELSE G(n, F[n - 1])]
  <2> HIDE DEF f
  <2> QED
    BY <1>5, Zenon
<1>7. Values = F
  BY Zenon DEF Values, F, G, c, L
<1> HIDE DEF F
<1>8. DOMAIN F = 0 .. L /\ F[0] = c /\ \A n \in 1 .. L : F[n] = G(n, F[n - 1])
  BY <1>0, <1>6
<1>9. QED
  BY <1>7, <1>8 DEF c, G, L

\* What is met on the way to an address, step by step.
LEMMA VisitedIs ==
  ASSUME NEW v, NEW a, Len(a) \in Nat
  PROVE  /\ DOMAIN Visited(v, a) = 0 .. Len(a) /\ Visited(v, a)[0] = v
         /\ \A n \in 1 .. Len(a) : Visited(v, a)[n] = Step(Visited(v, a)[n - 1], a[n])
<1> DEFINE L == Len(a)
           c == v
           G(n, x) == Step(x, a[n])
           IsUpTo(g, n) == /\ DOMAIN g = 0 .. n /\ g[0] = c
                           /\ \A k \in 1 .. n : g[k] = G(k, g[k - 1])
           T == {n \in Nat : \E g : IsUpTo(g, n)}
<1>0. L \in Nat
  OBVIOUS
<1> HIDE DEF c, G, L
<1>1. 0 \in T
  <2>1. IsUpTo([k \in 0 .. 0 |-> c], 0)
    OBVIOUS
  <2> HIDE DEF IsUpTo
  <2>2. QED
    BY <2>1
<1>2. ASSUME NEW n \in T PROVE n + 1 \in T
  <2>1. PICK g : IsUpTo(g, n)
    OBVIOUS
  <2> DEFINE h == [k \in 0 .. (n + 1) |-> IF k <= n THEN g[k] ELSE G(n + 1, g[n])]
  <2>2. n \in Nat
    OBVIOUS
  <2>3. DOMAIN h = 0 .. (n + 1) /\ h[0] = c
    BY <2>1, <2>2
  <2>4. ASSUME NEW k \in 1 .. (n + 1) PROVE h[k] = G(k, h[k - 1])
    <3>1. CASE k = n + 1
      BY <2>2, <3>1
    <3>2. CASE k <= n
      BY <2>1, <2>2, <3>2
    <3>3. QED
      BY <2>2, <3>1, <3>2
  <2>5. IsUpTo(h, n + 1)
    <3> HIDE DEF h
    <3> QED
      BY <2>3, <2>4
  <2> HIDE DEF IsUpTo
  <2>6. QED
    BY <2>2, <2>5
<1>3. \E g : IsUpTo(g, L)
  <2>1. T = Nat
    <3> HIDE DEF T
    <3> QED
      BY <1>1, <1>2, AllNat DEF T
  <2> HIDE DEF IsUpTo
  <2>2. QED
    BY <1>0, <2>1
<1>4. PICK g : IsUpTo(g, L)
  BY <1>3
<1> DEFINE f == [n \in 0 .. L |-> g[n]]
           F == CHOOSE x : x = [n \in 0 .. L |-> IF n = 0 THEN c ELSE G(n, x[n - 1])]
<1>5. f = [n \in 0 .. L |-> IF n = 0 THEN c ELSE G(n, f[n - 1])]
  <2>1. \A n \in 0 .. L : g[n] = IF n = 0 THEN c ELSE G(n, f[n - 1])
    BY <1>0, <1>4
  <2>2. QED
    BY <2>1
<1>6. F = [n \in 0 .. L |-> IF n = 0 THEN c ELSE G(n, F[n - 1])]
  <2> HIDE DEF f
  <2> QED
    BY <1>5, Zenon
<1>7. Visited(v, a) = F
  BY Zenon DEF Visited, F, G, c, L
<1> HIDE DEF F
<1>8. DOMAIN F = 0 .. L /\ F[0] = c /\ \A n \in 1 .. L : F[n] = G(n, F[n - 1])
  BY <1>0, <1>6
<1>9. QED
  BY <1>7, <1>8 DEF c, G, L

\* DeepMerge obeys its recursive equation.
LEMMA MergeIs ==
  ASSUME NEW doc, NEW file
  PROVE  \E merge :
           /\ DeepMerge(doc, file) = merge[Depth][doc][file]
           /\ \A n \in 1 .. Depth : \A b, o \in Values[n] :
                merge[n][b][o] = Merged(merge[n - 1], b, o)
<1> DEFINE L == Depth
           c == <<>>
           G(n, x) == [b \in Values[n] |-> [o \in Values[n] |-> Merged(x, b, o)]]
           IsUpTo(g, n) == /\ DOMAIN g = 0 .. n /\ g[0] = c
                           /\ \A k \in 1 .. n : g[k] = G(k, g[k - 1])
           T == {n \in Nat : \E g : IsUpTo(g, n)}
<1>0. L \in Nat
  BY OverridesAssumption
<1> HIDE DEF c, G, L
<1>1. 0 \in T
  <2>1. IsUpTo([k \in 0 .. 0 |-> c], 0)
    OBVIOUS
  <2> HIDE DEF IsUpTo
  <2>2. QED
    BY <2>1
<1>2. ASSUME NEW n \in T PROVE n + 1 \in T
  <2>1. PICK g : IsUpTo(g, n)
    OBVIOUS
  <2> DEFINE h == [k \in 0 .. (n + 1) |-> IF k <= n THEN g[k] ELSE G(n + 1, g[n])]
  <2>2. n \in Nat
    OBVIOUS
  <2>3. DOMAIN h = 0 .. (n + 1) /\ h[0] = c
    BY <2>1, <2>2
  <2>4. ASSUME NEW k \in 1 .. (n + 1) PROVE h[k] = G(k, h[k - 1])
    <3>1. CASE k = n + 1
      BY <2>2, <3>1
    <3>2. CASE k <= n
      BY <2>1, <2>2, <3>2
    <3>3. QED
      BY <2>2, <3>1, <3>2
  <2>5. IsUpTo(h, n + 1)
    <3> HIDE DEF h
    <3> QED
      BY <2>3, <2>4
  <2> HIDE DEF IsUpTo
  <2>6. QED
    BY <2>2, <2>5
<1>3. \E g : IsUpTo(g, L)
  <2>1. T = Nat
    <3> HIDE DEF T
    <3> QED
      BY <1>1, <1>2, AllNat DEF T
  <2> HIDE DEF IsUpTo
  <2>2. QED
    BY <1>0, <2>1
<1>4. PICK g : IsUpTo(g, L)
  BY <1>3
<1> DEFINE f == [n \in 0 .. L |-> g[n]]
           F == CHOOSE x : x = [n \in 0 .. L |-> IF n = 0 THEN c ELSE G(n, x[n - 1])]
<1>5. f = [n \in 0 .. L |-> IF n = 0 THEN c ELSE G(n, f[n - 1])]
  <2>1. \A n \in 0 .. L : g[n] = IF n = 0 THEN c ELSE G(n, f[n - 1])
    BY <1>0, <1>4
  <2>2. QED
    BY <2>1
<1>6. F = [n \in 0 .. L |-> IF n = 0 THEN c ELSE G(n, F[n - 1])]
  <2> HIDE DEF f
  <2> QED
    BY <1>5, Zenon
<1>7. DeepMerge(doc, file) = F[Depth][doc][file]
  BY Zenon DEF DeepMerge, Merged, F, G, c, L
<1> HIDE DEF F
<1>8. DOMAIN F = 0 .. L /\ F[0] = c /\ \A n \in 1 .. L : F[n] = G(n, F[n - 1])
  BY <1>0, <1>6
<1>9. ASSUME NEW n \in 1 .. L, NEW b \in Values[n], NEW o \in Values[n]
      PROVE  F[n][b][o] = Merged(F[n - 1], b, o)
  <2>1. F[n] = [x \in Values[n] |-> [y \in Values[n] |-> Merged(F[n - 1], x, y)]]
    <3>1. F[n] = G(n, F[n - 1])
      BY <1>8
    <3>2. QED
      BY <3>1, Zenon DEF G
  <2>2. F[n][b] = [y \in Values[n] |-> Merged(F[n - 1], b, y)]
    BY <2>1, Zenon
  <2>3. QED
    BY <2>2, Zenon
<1>10. QED
  BY <1>7, <1>9, Zenon DEF L

\* setPathRecursive obeys its recursive equation.
LEMMA SetIs ==
  ASSUME NEW v, NEW a, NEW value, Len(a) \in Nat
  PROVE  \E set :
           /\ setPathRecursive(v, a, value) = set[Len(a)] /\ set[0] = value
           /\ \A n \in 1 .. Len(a) :
                set[n] = Put(Visited(v, a)[Len(a) - n], a[Len(a) - n + 1], set[n - 1])
<1> DEFINE L == Len(a)
           c == value
           G(n, x) == Put(Visited(v, a)[Len(a) - n], a[Len(a) - n + 1], x)
           IsUpTo(g, n) == /\ DOMAIN g = 0 .. n /\ g[0] = c
                           /\ \A k \in 1 .. n : g[k] = G(k, g[k - 1])
           T == {n \in Nat : \E g : IsUpTo(g, n)}
<1>0. L \in Nat
  OBVIOUS
<1> HIDE DEF c, G, L
<1>1. 0 \in T
  <2>1. IsUpTo([k \in 0 .. 0 |-> c], 0)
    OBVIOUS
  <2> HIDE DEF IsUpTo
  <2>2. QED
    BY <2>1
<1>2. ASSUME NEW n \in T PROVE n + 1 \in T
  <2>1. PICK g : IsUpTo(g, n)
    OBVIOUS
  <2> DEFINE h == [k \in 0 .. (n + 1) |-> IF k <= n THEN g[k] ELSE G(n + 1, g[n])]
  <2>2. n \in Nat
    OBVIOUS
  <2>3. DOMAIN h = 0 .. (n + 1) /\ h[0] = c
    BY <2>1, <2>2
  <2>4. ASSUME NEW k \in 1 .. (n + 1) PROVE h[k] = G(k, h[k - 1])
    <3>1. CASE k = n + 1
      BY <2>2, <3>1
    <3>2. CASE k <= n
      BY <2>1, <2>2, <3>2
    <3>3. QED
      BY <2>2, <3>1, <3>2
  <2>5. IsUpTo(h, n + 1)
    <3> HIDE DEF h
    <3> QED
      BY <2>3, <2>4
  <2> HIDE DEF IsUpTo
  <2>6. QED
    BY <2>2, <2>5
<1>3. \E g : IsUpTo(g, L)
  <2>1. T = Nat
    <3> HIDE DEF T
    <3> QED
      BY <1>1, <1>2, AllNat DEF T
  <2> HIDE DEF IsUpTo
  <2>2. QED
    BY <1>0, <2>1
<1>4. PICK g : IsUpTo(g, L)
  BY <1>3
<1> DEFINE f == [n \in 0 .. L |-> g[n]]
           F == CHOOSE x : x = [n \in 0 .. L |-> IF n = 0 THEN c ELSE G(n, x[n - 1])]
<1>5. f = [n \in 0 .. L |-> IF n = 0 THEN c ELSE G(n, f[n - 1])]
  <2>1. \A n \in 0 .. L : g[n] = IF n = 0 THEN c ELSE G(n, f[n - 1])
    BY <1>0, <1>4
  <2>2. QED
    BY <2>1
<1>6. F = [n \in 0 .. L |-> IF n = 0 THEN c ELSE G(n, F[n - 1])]
  <2> HIDE DEF f
  <2> QED
    BY <1>5, Zenon
<1>7. setPathRecursive(v, a, value) = F[Len(a)]
  BY Zenon DEF setPathRecursive, F, G, c, L
<1> HIDE DEF F
<1>8. DOMAIN F = 0 .. L /\ F[0] = c /\ \A n \in 1 .. L : F[n] = G(n, F[n - 1])
  BY <1>0, <1>6
<1>9. QED
  BY <1>7, <1>8 DEF c, G, L

-----------------------------------------------------------------------------
AllValues == UNION {Values[n] : n \in 0 .. Depth}

\* What a value of each kind is made of.
LEMMA KindsOfValues ==
  ASSUME NEW n \in 0 .. Depth, NEW v \in Values[n]
  PROVE  /\ v.kind \in {"nothing", "scalar", "map", "list"}
         /\ v.kind = "nothing" => v = Nothing
         /\ v.kind = "map" =>
              /\ n \in 1 .. Depth /\ n - 1 \in 0 .. Depth
              /\ v = Map(v.of) /\ v.of \in [Names -> Values[n - 1]]
         /\ v.kind = "list" =>
              /\ n \in 1 .. Depth /\ n - 1 \in 0 .. Depth
              /\ v = List(v.of) /\ v.of \in Seq(Values[n - 1])
<1>0. Depth \in Nat
  BY OverridesAssumption
<1>1. CASE v \in Leaves
  <2>1. CASE v = Nothing
    BY <2>1 DEF Nothing
  <2>2. CASE v \in [kind : {"scalar"}, of : STRING]
    <3>1. v.kind = "scalar"
      BY <2>2
    <3>2. QED
      BY <3>1
  <2>3. QED
    BY <1>1, <2>1, <2>2 DEF Leaves
<1>2. CASE v \notin Leaves
  <2>1. n \in 1 .. Depth /\ n - 1 \in 0 .. Depth
    BY <1>0, <1>2, ValuesAre
  <2>2. \/ v \in [kind : {"map"}, of : [Names -> Values[n - 1]]]
        \/ v \in [kind : {"list"}, of : Seq(Values[n - 1])]
    BY <1>2, <2>1, ValuesAre
  <2>3. QED
    BY <2>1, <2>2 DEF Map, List
<1>3. QED
  BY <1>1, <1>2

\* Scalars and Nothing are values of each depth.
LEMMA LeavesAreValues ==
  ASSUME NEW n \in 0 .. Depth
  PROVE  Leaves \subseteq Values[n] /\ Nothing \in Values[n]
<1>1. Nothing \in Leaves
  BY DEF Leaves
<1>2. n = 0 \/ n \in 1 .. Depth
  BY OverridesAssumption
<1>3. QED
  BY <1>1, <1>2, ValuesAre

\* Maps and lists of values are values of the next depth.
LEMMA FormedValues ==
  ASSUME NEW n \in 1 .. Depth
  PROVE  /\ \A f \in [Names -> Values[n - 1]] : Map(f) \in Values[n]
         /\ \A s \in Seq(Values[n - 1]) : List(s) \in Values[n]
<1>1. Values[n] = Leaves \cup [kind : {"map"}, of : [Names -> Values[n - 1]]]
                         \cup [kind : {"list"}, of : Seq(Values[n - 1])]
  BY ValuesAre
<1>2. ASSUME NEW f \in [Names -> Values[n - 1]] PROVE Map(f) \in Values[n]
  <2>1. Map(f) \in [kind : {"map"}, of : [Names -> Values[n - 1]]]
    BY DEF Map
  <2>2. QED
    BY <1>1, <2>1
<1>3. ASSUME NEW s \in Seq(Values[n - 1]) PROVE List(s) \in Values[n]
  <2>1. List(s) \in [kind : {"list"}, of : Seq(Values[n - 1])]
    BY DEF List
  <2>2. QED
    BY <1>1, <2>1
<1>4. QED
  BY <1>2, <1>3

\* A step into a value, by a key or by an index.
LEMMA KindsOfSteps ==
  ASSUME NEW s \in Steps
  PROVE  \/ s.at = 0 /\ s.key \in Names /\ s = ByKey(s.key)
         \/ s.at \in Nat \ {0} /\ s.key = "" /\ s = ByIndex(s.at)
BY DEF Steps, ByKey, ByIndex

\* A step has an index or a key.
LEMMA StepTypes ==
  ASSUME NEW s \in Steps
  PROVE  s.at \in Nat /\ (s.at = 0 => s.key \in Names)
<1>1. CASE s \in [key : Names, at : {0}]
  BY <1>1
<1>2. CASE s \in [key : {""}, at : Nat \ {0}]
  BY <1>2
<1>3. QED
  BY <1>1, <1>2 DEF Steps

\* What a step leads to is a value of the depth below.
LEMMA StepIsValue ==
  ASSUME NEW n \in 0 .. Depth, NEW v \in Values[n], NEW s \in Steps
  PROVE  /\ Step(v, s) \in AllValues
         /\ n > 0 => Step(v, s) \in Values[n - 1]
         /\ v.kind \notin {"map", "list"} => Step(v, s) = Nothing
         /\ v.kind = "map" => Step(v, s) = IF s.at = 0 THEN v.of[s.key] ELSE Nothing
         /\ v.kind = "list" => Step(v, s) = IF s.at \in 1 .. Len(v.of) THEN v.of[s.at] ELSE Nothing
<1>0. Depth \in Nat /\ Nothing \in Values[0] /\ 0 \in 0 .. Depth
  BY OverridesAssumption, LeavesAreValues
<1>1. CASE v.kind = "map"
  <2>1. n \in 1 .. Depth /\ n - 1 \in 0 .. Depth /\ v.of \in [Names -> Values[n - 1]]
    BY <1>1, KindsOfValues
  <2>2. Nothing \in Values[n - 1]
    BY <2>1, LeavesAreValues
  <2>3. Step(v, s) = IF s.at = 0 THEN v.of[s.key] ELSE Nothing
    BY <1>1 DEF Step
  <2>4. Step(v, s) \in Values[n - 1]
    BY <2>1, <2>2, <2>3, KindsOfSteps
  <2>5. QED
    BY <1>1, <2>1, <2>3, <2>4 DEF AllValues
<1>2. CASE v.kind = "list"
  <2>1. n \in 1 .. Depth /\ n - 1 \in 0 .. Depth /\ v.of \in Seq(Values[n - 1])
    BY <1>2, KindsOfValues
  <2>2. Nothing \in Values[n - 1]
    BY <2>1, LeavesAreValues
  <2>3. /\ DOMAIN v.of = 1 .. Len(v.of)
        /\ \A i \in 1 .. Len(v.of) : v.of[i] \in Values[n - 1]
    BY <2>1, LenProperties, ElementOfSeq
  <2>4. Step(v, s) = IF s.at \in 1 .. Len(v.of) THEN v.of[s.at] ELSE Nothing
    BY <1>2, <2>3 DEF Step
  <2>5. Step(v, s) \in Values[n - 1]
    BY <2>2, <2>3, <2>4
  <2>6. QED
    BY <1>2, <2>1, <2>4, <2>5 DEF AllValues
<1>3. CASE v.kind \notin {"map", "list"}
  <2>1. Step(v, s) = Nothing
    BY <1>3 DEF Step
  <2>2. n > 0 => n - 1 \in 0 .. Depth
    BY <1>0
  <2>3. QED
    BY <1>0, <1>3, <2>1, <2>2, LeavesAreValues DEF AllValues
<1>4. QED
  BY <1>1, <1>2, <1>3

\* Each value is of one of four kinds.
LEMMA AllKinds ==
  ASSUME NEW v \in AllValues
  PROVE  /\ v.kind \in {"nothing", "scalar", "map", "list"}
         /\ v.kind = "nothing" => v = Nothing
BY KindsOfValues DEF AllValues

\* From nothing a step leads to nothing.
LEMMA NoStepFromNothing ==
  ASSUME NEW s
  PROVE  Nothing \in AllValues /\ Step(Nothing, s) = Nothing /\ Nothing.kind = "nothing"
<1>1. 0 \in 0 .. Depth /\ Nothing \in Values[0]
  BY OverridesAssumption, LeavesAreValues
<1>2. Nothing.kind = "nothing"
  BY DEF Nothing
<1>3. Step(Nothing, s) = Nothing
  BY <1>2 DEF Step
<1>4. QED
  BY <1>1, <1>2, <1>3 DEF AllValues

\* What is met next on the way to an address.
LEMMA VisitedNext ==
  ASSUME NEW v, NEW a, Len(a) \in Nat, NEW i \in Nat, i + 1 <= Len(a)
  PROVE  Visited(v, a)[i + 1] = Step(Visited(v, a)[i], a[i + 1])
<1> DEFINE n == i + 1
<1>1. n \in 1 .. Len(a) /\ n - 1 = i
  OBVIOUS
<1> HIDE DEF n
<1>2. Visited(v, a)[n] = Step(Visited(v, a)[i], a[n])
  BY <1>1, VisitedIs
<1>3. QED
  BY <1>2, Zenon DEF n

\* Only values are met on the way to an address.
LEMMA VisitedAreValues ==
  ASSUME NEW v \in AllValues, NEW a \in Seq(Steps)
  PROVE  \A i \in 0 .. Len(a) : Visited(v, a)[i] \in AllValues
<1>0. Len(a) \in Nat /\ \A i \in 1 .. Len(a) : a[i] \in Steps
  BY LenProperties, ElementOfSeq
<1> DEFINE T == {i \in Nat : i <= Len(a) => Visited(v, a)[i] \in AllValues}
<1>1. 0 \in T
  BY <1>0, VisitedIs
<1>2. ASSUME NEW i \in T PROVE i + 1 \in T
  <2>1. SUFFICES ASSUME i + 1 <= Len(a) PROVE Visited(v, a)[i + 1] \in AllValues
    OBVIOUS
  <2>2. i + 1 \in 1 .. Len(a) /\ (i + 1) - 1 = i /\ Visited(v, a)[i] \in AllValues
    BY <1>0, <2>1
  <2>3. Visited(v, a)[i + 1] = Step(Visited(v, a)[i], a[i + 1]) /\ a[i + 1] \in Steps
    BY <1>0, <2>1, <2>2, VisitedNext
  <2>4. QED
    BY <2>2, <2>3, StepIsValue DEF AllValues
<1>3. T = Nat
  <2> HIDE DEF T
  <2>1. T \subseteq Nat
    BY DEF T
  <2>2. QED
    BY <1>1, <1>2, <2>1, AllNat
<1>4. QED
  BY <1>0, <1>3

\* What is left of an address after its first step is an address.
LEMMA TailOfAddress ==
  ASSUME NEW a \in Seq(Steps), a # <<>>
  PROVE  /\ Len(a) \in Nat /\ Len(a) > 0 /\ a[1] \in Steps
         /\ Tail(a) \in Seq(Steps) /\ Len(Tail(a)) = Len(a) - 1 /\ Len(Tail(a)) \in Nat
         /\ \A i \in 1 .. Len(Tail(a)) : i + 1 \in 1 .. Len(a) /\ Tail(a)[i] = a[i + 1]
<1>1. Len(a) \in Nat /\ Len(a) # 0
  BY LenProperties, EmptySeq
<1>2. a[1] \in Steps
  BY <1>1, ElementOfSeq
<1>3. /\ Tail(a) \in Seq(Steps) /\ Len(Tail(a)) = Len(a) - 1
      /\ \A i \in 1 .. Len(Tail(a)) : Tail(a)[i] = a[i + 1]
  BY HeadTailProperties
<1>4. QED
  BY <1>1, <1>2, <1>3

\* The way to an address goes on from its first step.
LEMMA VisitedGoesOn ==
  ASSUME NEW v, NEW a \in Seq(Steps), a # <<>>
  PROVE  /\ \A i \in 0 .. Len(Tail(a)) :
              Visited(v, a)[i + 1] = Visited(Step(v, a[1]), Tail(a))[i]
         /\ getPath(v, a) = getPath(Step(v, a[1]), Tail(a))
<1> DEFINE t == Tail(a)
           w == Step(v, a[1])
           T == {i \in Nat : i <= Len(t) => Visited(v, a)[i + 1] = Visited(w, t)[i]}
<1>0. /\ Len(a) \in Nat /\ Len(a) > 0 /\ Len(t) = Len(a) - 1 /\ Len(t) \in Nat
      /\ \A i \in 1 .. Len(t) : t[i] = a[i + 1]
  BY TailOfAddress
<1> HIDE DEF t, w
<1>1. 0 \in T
  <2>1. Visited(w, t)[0] = w /\ Visited(v, a)[0] = v
    BY <1>0, VisitedIs
  <2>2. 1 \in 1 .. Len(a) /\ 1 - 1 = 0
    BY <1>0
  <2>3. Visited(v, a)[1] = Step(Visited(v, a)[0], a[1])
    BY <1>0, <2>2, VisitedIs
  <2>4. QED
    BY <2>1, <2>3 DEF w
<1>2. ASSUME NEW i \in T PROVE i + 1 \in T
  <2>1. SUFFICES ASSUME i + 1 <= Len(t)
                 PROVE  Visited(v, a)[(i + 1) + 1] = Visited(w, t)[i + 1]
    OBVIOUS
  <2>2. /\ i + 1 \in 1 .. Len(t) /\ (i + 1) - 1 = i
        /\ (i + 1) + 1 \in 1 .. Len(a) /\ ((i + 1) + 1) - 1 = i + 1
    BY <1>0, <2>1
  <2>3. Visited(v, a)[i + 1] = Visited(w, t)[i]
    BY <2>1
  <2>4. Visited(v, a)[(i + 1) + 1] = Step(Visited(v, a)[i + 1], a[(i + 1) + 1])
    BY <1>0, <2>2, VisitedNext
  <2>5. Visited(w, t)[i + 1] = Step(Visited(w, t)[i], t[i + 1])
    BY <1>0, <2>1, VisitedNext
  <2>6. QED
    BY <1>0, <2>2, <2>3, <2>4, <2>5
<1>3. T = Nat
  <2>1. T \subseteq Nat
    OBVIOUS
  <2> HIDE DEF T
  <2>2. QED
    BY <1>1, <1>2, <2>1, AllNat
<1>4. \A i \in 0 .. Len(t) : Visited(v, a)[i + 1] = Visited(w, t)[i]
  BY <1>0, <1>3
<1>5. Visited(v, a)[Len(a)] = Visited(w, t)[Len(t)]
  BY <1>0, <1>4
<1>6. QED
  BY <1>4, <1>5 DEF getPath, t, w

\* Below nothing there is nothing.
LEMMA NothingBelow ==
  ASSUME NEW a \in Seq(Steps)
  PROVE  \A i \in 0 .. Len(a) : Visited(Nothing, a)[i] = Nothing
<1>0. Len(a) \in Nat
  BY LenProperties
<1> DEFINE T == {i \in Nat : i <= Len(a) => Visited(Nothing, a)[i] = Nothing}
<1>1. 0 \in T
  BY <1>0, VisitedIs
<1>2. ASSUME NEW i \in T PROVE i + 1 \in T
  <2>1. SUFFICES ASSUME i + 1 <= Len(a) PROVE Visited(Nothing, a)[i + 1] = Nothing
    OBVIOUS
  <2>2. i + 1 \in 1 .. Len(a) /\ (i + 1) - 1 = i /\ Visited(Nothing, a)[i] = Nothing
    BY <1>0, <2>1
  <2>3. Visited(Nothing, a)[i + 1] = Step(Visited(Nothing, a)[i], a[i + 1])
    BY <1>0, <2>1, VisitedNext
  <2>4. QED
    BY <2>2, <2>3, NoStepFromNothing
<1>3. T = Nat
  <2>1. T \subseteq Nat
    OBVIOUS
  <2> HIDE DEF T
  <2>2. QED
    BY <1>1, <1>2, <2>1, AllNat
<1>4. QED
  BY <1>0, <1>3

\* An address in nothing has nothing.
LEMMA GetOfNothing ==
  ASSUME NEW a \in Seq(Steps)
  PROVE  getPath(Nothing, a) = Nothing
BY NothingBelow, LenProperties DEF getPath

\* The empty address is that of the whole value.
LEMMA GetHere ==
  ASSUME NEW v
  PROVE  getPath(v, <<>>) = v
BY VisitedIs DEF getPath

-----------------------------------------------------------------------------
(* The merge of a file. *)

Halts(v, a, n) ==
  v.kind \in {"scalar", "list"} \/ (v.kind = "map" /\ n < Len(a) /\ a[n + 1].at > 0)

FileDecides(file, a) == \E n \in 0 .. Len(a) : Halts(Visited(file, a)[n], a, n)

\* Of the whole document a file decides by a scalar or a list.
LEMMA FileDecidesHere ==
  ASSUME NEW o
  PROVE  FileDecides(o, <<>>) <=> o.kind \in {"scalar", "list"}
<1>1. Len(<<>>) = 0 /\ 0 .. 0 = {0} /\ Visited(o, <<>>)[0] = o
  BY VisitedIs
<1>2. QED
  BY <1>1 DEF FileDecides, Halts

\* Whether a file decides of an address, by the address' first step.
LEMMA FileDecidesOnward ==
  ASSUME NEW o, NEW a \in Seq(Steps), a # <<>>
  PROVE  FileDecides(o, a) <=> \/ o.kind \in {"scalar", "list"}
                               \/ o.kind = "map" /\ a[1].at > 0
                               \/ FileDecides(Step(o, a[1]), Tail(a))
<1> DEFINE t == Tail(a)
           w == Step(o, a[1])
<1>0. /\ Len(a) \in Nat /\ Len(a) > 0 /\ Len(t) = Len(a) - 1 /\ Len(t) \in Nat
      /\ \A i \in 1 .. Len(t) : t[i] = a[i + 1]
  BY TailOfAddress
<1>1. Halts(Visited(o, a)[0], a, 0) <=>
        o.kind \in {"scalar", "list"} \/ (o.kind = "map" /\ a[1].at > 0)
  BY <1>0, VisitedIs DEF Halts
<1>2. \A i \in 0 .. Len(t) : Visited(o, a)[i + 1] = Visited(w, t)[i]
  BY VisitedGoesOn
<1> HIDE DEF t, w
<1>3. ASSUME NEW i \in 0 .. Len(t)
      PROVE  Halts(Visited(o, a)[i + 1], a, i + 1) <=> Halts(Visited(w, t)[i], t, i)
  <2>1. i + 1 < Len(a) <=> i < Len(t)
    BY <1>0
  <2>2. CASE i < Len(t)
    <3>1. i + 1 \in 1 .. Len(t)
      BY <1>0, <2>2
    <3>2. t[i + 1] = a[(i + 1) + 1]
      BY <1>0, <3>1
    <3>3. QED
      BY <1>2, <2>1, <3>2 DEF Halts
  <2>3. CASE ~(i < Len(t))
    BY <1>2, <2>1, <2>3 DEF Halts
  <2>4. QED
    BY <2>2, <2>3
<1>4. ASSUME NEW n \in 0 .. Len(a), n # 0 PROVE n - 1 \in 0 .. Len(t) /\ (n - 1) + 1 = n
  BY <1>0, <1>4
<1>5. ASSUME NEW i \in 0 .. Len(t) PROVE i + 1 \in 0 .. Len(a)
  BY <1>0
<1>6. 0 \in 0 .. Len(a)
  BY <1>0
<1>7. ASSUME FileDecides(o, a), ~Halts(Visited(o, a)[0], a, 0) PROVE FileDecides(w, t)
  <2>1. PICK n \in 0 .. Len(a) : Halts(Visited(o, a)[n], a, n)
    BY <1>7 DEF FileDecides
  <2>2. n # 0
    BY <1>7, <2>1
  <2>3. PICK i \in 0 .. Len(t) : i + 1 = n
    BY <1>4, <2>2
  <2>4. Halts(Visited(w, t)[i], t, i)
    BY <1>3, <2>1, <2>3
  <2>5. QED
    BY <2>4 DEF FileDecides
<1>8. ASSUME FileDecides(w, t) PROVE FileDecides(o, a)
  <2>1. PICK i \in 0 .. Len(t) : Halts(Visited(w, t)[i], t, i)
    BY <1>8 DEF FileDecides
  <2>2. Halts(Visited(o, a)[i + 1], a, i + 1)
    BY <1>3, <2>1
  <2>3. QED
    BY <1>5, <2>2 DEF FileDecides
<1>9. Halts(Visited(o, a)[0], a, 0) => FileDecides(o, a)
  BY <1>6 DEF FileDecides
<1>10. QED
  BY <1>1, <1>7, <1>8, <1>9 DEF t, w

\* Where a file says nothing of an address, nor of what is below, it has nothing there.
LEMMA UndecidedIsNothing ==
  ASSUME NEW o \in AllValues, NEW a \in Seq(Steps),
         getPath(o, a).kind # "map", ~FileDecides(o, a)
  PROVE  getPath(o, a) = Nothing
<1>1. Len(a) \in 0 .. Len(a)
  BY LenProperties
<1>2. getPath(o, a) \in AllValues /\ ~Halts(getPath(o, a), a, Len(a))
  BY <1>1, VisitedAreValues DEF FileDecides, getPath
<1>3. QED
  BY <1>2, AllKinds DEF Halts

\* Where a file has nothing it decides nothing.
LEMMA NothingDecidesNothing ==
  ASSUME NEW a \in Seq(Steps)
  PROVE  ~FileDecides(Nothing, a)
BY NothingBelow, NoStepFromNothing DEF FileDecides, Halts

\* A document with a file merged into it.
MergesTo(m, b, o, n) ==
  /\ m \in Values[n] /\ m.kind = "map"
  /\ \A a \in Seq(Steps) :
       getPath(o, a).kind # "map" =>
         getPath(m, a) = IF FileDecides(o, a) THEN getPath(o, a) ELSE getPath(b, a)

\* The values of a map are of the depth below.
LEMMA InIsValue ==
  ASSUME NEW n \in 1 .. Depth, NEW v \in Values[n], NEW k \in Names,
         v.kind \in {"map", "nothing"}
  PROVE  /\ In(v, k) \in Values[n - 1] /\ In(v, k) \in AllValues
         /\ \A s \in Steps : Step(v, s) = IF s.at = 0 THEN In(v, s.key) ELSE Nothing
<1>1. n \in 0 .. Depth /\ n - 1 \in 0 .. Depth
  BY OverridesAssumption
<1>2. CASE v.kind = "map"
  BY <1>1, <1>2, KindsOfValues, StepIsValue DEF In, AllValues
<1>3. CASE v.kind = "nothing"
  BY <1>1, <1>3, LeavesAreValues, StepIsValue DEF In, AllValues
<1>4. QED
  BY <1>2, <1>3

\* If the merge of the depth below is exact, so is this one.
LEMMA MergedOnce ==
  ASSUME NEW n \in 1 .. Depth, NEW deeper,
         \A b, o \in Values[n - 1] :
           b.kind = "map" /\ o.kind = "map" => MergesTo(deeper[b][o], b, o, n - 1),
         NEW b \in Values[n], NEW o \in Values[n],
         b.kind \in {"map", "nothing"}, o.kind = "map"
  PROVE  MergesTo(Merged(deeper, b, o), b, o, n)
<1> DEFINE m == Merged(deeper, b, o)
           at(k) == IF In(o, k) = Nothing THEN In(b, k)
                    ELSE IF In(b, k).kind = "map" /\ In(o, k).kind = "map"
                         THEN deeper[In(b, k)][In(o, k)]
                         ELSE In(o, k)
<1>0. n \in 0 .. Depth /\ n - 1 \in 0 .. Depth
  BY OverridesAssumption
<1>1. ASSUME NEW k \in Names
      PROVE  /\ In(o, k) \in Values[n - 1] /\ In(b, k) \in Values[n - 1]
             /\ In(o, k) \in AllValues /\ In(b, k) \in AllValues
  BY InIsValue
<1>2. ASSUME NEW k \in Names PROVE at(k) \in Values[n - 1]
  <2>1. CASE In(b, k).kind = "map" /\ In(o, k).kind = "map"
    <3>1. deeper[In(b, k)][In(o, k)] \in Values[n - 1]
      BY <1>1, <2>1 DEF MergesTo
    <3>2. QED
      BY <1>1, <3>1
  <2>2. QED
    BY <1>1, <2>1
<1>3. m = Map([k \in Names |-> at(k)])
  BY DEF Merged
<1> HIDE DEF m, at
<1>4. [k \in Names |-> at(k)] \in [Names -> Values[n - 1]]
  BY <1>2
<1>5. m \in Values[n] /\ m.kind = "map" /\ \A k \in Names : In(m, k) = at(k)
  BY <1>3, <1>4, FormedValues DEF Map, In
<1>6. ASSUME NEW a \in Seq(Steps), getPath(o, a).kind # "map"
      PROVE  getPath(m, a) = IF FileDecides(o, a) THEN getPath(o, a) ELSE getPath(b, a)
  <2>1. a # <<>>
    BY <1>6, GetHere
  <2> DEFINE s == a[1]
             t == Tail(a)
             k == s.key
  <2>2. s \in Steps /\ t \in Seq(Steps)
    BY <2>1, TailOfAddress
  <2>3. /\ getPath(m, a) = getPath(Step(m, s), t) /\ getPath(o, a) = getPath(Step(o, s), t)
        /\ getPath(b, a) = getPath(Step(b, s), t)
    BY <2>1, VisitedGoesOn
  <2>4. FileDecides(o, a) <=> s.at > 0 \/ FileDecides(Step(o, s), t)
    BY <2>1, FileDecidesOnward
  <2> HIDE DEF s, t
  <2>5. CASE s.at # 0
    <3>1. s.at > 0
      BY <2>2, <2>5, StepTypes
    <3>2. Step(m, s) = Nothing /\ Step(o, s) = Nothing
      BY <1>0, <1>5, <2>2, <2>5, StepIsValue
    <3>3. QED
      BY <2>3, <2>4, <3>1, <3>2
  <2>6. CASE s.at = 0
    <3>1. k \in Names /\ ~(s.at > 0)
      BY <2>2, <2>6, StepTypes
    <3>2. Step(m, s) = at(k) /\ Step(o, s) = In(o, k) /\ Step(b, s) = In(b, k)
      BY <1>5, <2>2, <2>6, <3>1, InIsValue
    <3> HIDE DEF k
    <3>3. CASE In(o, k) = Nothing
      <4>1. at(k) = In(b, k)
        BY <3>3 DEF at
      <4>2. ~FileDecides(In(o, k), t)
        BY <2>2, <3>3, NothingDecidesNothing
      <4>3. QED
        BY <2>3, <2>4, <3>1, <3>2, <4>1, <4>2
    <3>4. CASE In(o, k) # Nothing /\ In(b, k).kind = "map" /\ In(o, k).kind = "map"
      <4>1. at(k) = deeper[In(b, k)][In(o, k)]
        BY <3>4 DEF at
      <4>2. MergesTo(at(k), In(b, k), In(o, k), n - 1)
        BY <1>1, <3>1, <3>4, <4>1
      <4>3. getPath(In(o, k), t).kind # "map"
        BY <1>6, <2>3, <3>2
      <4>4. getPath(at(k), t) = IF FileDecides(In(o, k), t) THEN getPath(In(o, k), t)
                                ELSE getPath(In(b, k), t)
        BY <2>2, <4>2, <4>3 DEF MergesTo
      <4>5. QED
        BY <2>3, <2>4, <3>1, <3>2, <4>4
    <3>5. CASE In(o, k) # Nothing /\ ~(In(b, k).kind = "map" /\ In(o, k).kind = "map")
      <4>1. at(k) = In(o, k)
        BY <3>5 DEF at
      <4>2. CASE FileDecides(In(o, k), t)
        BY <2>3, <2>4, <3>2, <4>1, <4>2
      <4>3. CASE ~FileDecides(In(o, k), t)
        <5>1. getPath(In(o, k), t).kind # "map"
          BY <1>6, <2>3, <3>2
        <5>2. getPath(In(o, k), t) = Nothing
          BY <1>1, <2>2, <3>1, <4>3, <5>1, UndecidedIsNothing
        <5>3. In(o, k).kind = "map" /\ In(b, k).kind # "map"
          <6>1. In(o, k).kind \notin {"scalar", "list"}
            BY <2>2, <4>3, FileDecidesHere, FileDecidesOnward
          <6>2. In(o, k).kind # "nothing"
            BY <1>1, <3>1, <3>5, AllKinds
          <6>3. QED
            BY <1>1, <3>1, <3>5, <6>1, <6>2, AllKinds
        <5>4. t # <<>>
          BY <5>1, <5>3, GetHere
        <5>5. t[1] \in Steps /\ Tail(t) \in Seq(Steps)
          BY <2>2, <5>4, TailOfAddress
        <5>6. t[1].at = 0
          <6>1. ~(t[1].at > 0)
            BY <2>2, <4>3, <5>3, <5>4, FileDecidesOnward
          <6>2. QED
            BY <5>5, <6>1, StepTypes
        <5>7. Step(In(b, k), t[1]) = Nothing
          BY <1>0, <1>1, <3>1, <5>3, <5>5, <5>6, StepIsValue
        <5>8. getPath(In(b, k), t) = Nothing
          BY <2>2, <5>4, <5>5, <5>7, VisitedGoesOn, GetOfNothing
        <5>9. QED
          BY <2>3, <2>4, <3>1, <3>2, <4>1, <4>3, <5>2, <5>8
      <4>4. QED
        BY <4>2, <4>3
    <3>6. QED
      BY <3>3, <3>4, <3>5
  <2>7. QED
    BY <2>5, <2>6
<1>7. QED
  BY <1>5, <1>6 DEF MergesTo, m

\* Each merge puts the merges of the next depth together.
LEMMA MergeIsExact ==
  ASSUME NEW b \in Maps \cup {NilDocument}, NEW o \in Maps
  PROVE  MergesTo(DeepMerge(b, o), b, o, Depth)
<1>0. Depth \in Nat /\ Depth \in 0 .. Depth
  BY OverridesAssumption
<1>1. o \in Values[Depth] /\ o.kind = "map"
  BY DEF Maps
<1>2. b \in Values[Depth] /\ b.kind \in {"map", "nothing"}
  BY <1>0, LeavesAreValues, NoStepFromNothing DEF Maps, NilDocument
<1>3. Depth \in 1 .. Depth
  BY <1>0, <1>1, KindsOfValues
<1>4. PICK merge :
        /\ DeepMerge(b, o) = merge[Depth][b][o]
        /\ \A n \in 1 .. Depth : \A x, y \in Values[n] :
             merge[n][x][y] = Merged(merge[n - 1], x, y)
  BY MergeIs
<1> DEFINE Exact(n) == \A x, y \in Values[n] :
                         x.kind \in {"map", "nothing"} /\ y.kind = "map" =>
                           MergesTo(merge[n][x][y], x, y, n)
           T == {n \in Nat : n <= Depth => Exact(n)}
<1>5. 0 \in T
  <2>1. ASSUME NEW y \in Values[0], y.kind = "map" PROVE FALSE
    <3>1. 0 \in 0 .. Depth
      BY <1>0
    <3>2. 0 \in 1 .. Depth
      BY <2>1, <3>1, KindsOfValues
    <3>3. QED
      BY <3>2
  <2>2. QED
    BY <2>1
<1>6. ASSUME NEW i \in T PROVE i + 1 \in T
  <2> DEFINE n == i + 1
  <2>1. SUFFICES ASSUME n <= Depth PROVE Exact(n)
    OBVIOUS
  <2>2. n \in 1 .. Depth /\ n - 1 = i /\ Exact(i)
    BY <1>0, <2>1
  <2> HIDE DEF n
  <2>3. \A x, y \in Values[n - 1] :
          x.kind = "map" /\ y.kind = "map" => MergesTo(merge[n - 1][x][y], x, y, n - 1)
    BY <2>2
  <2>4. ASSUME NEW x \in Values[n], NEW y \in Values[n],
               x.kind \in {"map", "nothing"}, y.kind = "map"
        PROVE  MergesTo(merge[n][x][y], x, y, n)
    <3>1. merge[n][x][y] = Merged(merge[n - 1], x, y)
      BY <1>4, <2>2
    <3>2. MergesTo(Merged(merge[n - 1], x, y), x, y, n)
      BY <2>2, <2>3, <2>4, MergedOnce
    <3>3. QED
      BY <3>1, <3>2
  <2>5. QED
    BY <2>4
<1>7. T = Nat
  <2>1. T \subseteq Nat
    OBVIOUS
  <2> HIDE DEF T
  <2>2. QED
    BY <1>5, <1>6, <2>1, AllNat
<1>8. Exact(Depth)
  <2> HIDE DEF Exact
  <2>1. QED
    BY <1>0, <1>7
<1>9. QED
  BY <1>1, <1>2, <1>4, <1>8

-----------------------------------------------------------------------------
(* Prefixes of addresses. *)

\* A prefix agrees as far as it goes.
LEMMA PrefixIs ==
  ASSUME NEW s \in Seq(Steps), NEW t \in Seq(Steps)
  PROVE  IsPrefix(s, t) <=> Len(s) <= Len(t) /\ \A i \in 1 .. Len(s) : s[i] = t[i]
<1>0. /\ Len(s) \in Nat /\ \A i \in 1 .. Len(s) : s[i] \in Steps
      /\ Len(t) \in Nat /\ \A i \in 1 .. Len(t) : t[i] \in Steps
  BY LenProperties, ElementOfSeq
<1>1. SUFFICES ASSUME Len(s) <= Len(t)
               PROVE  SubSeq(s, 1, Len(s)) = SubSeq(t, 1, Len(s))
                        <=> \A i \in 1 .. Len(s) : s[i] = t[i]
  BY DEF IsPrefix
<1> DEFINE p == SubSeq(t, 1, Len(s))
<1>2. SubSeq(s, 1, Len(s)) = s
  BY SubSeqFull
<1>3. p \in Seq(Steps) /\ Len(p) = Len(s) /\ \A i \in 1 .. Len(s) : p[i] = t[i]
  <2>1. \A i \in 1 .. Len(s) : t[i] \in Steps
    BY <1>0, <1>1
  <2>2. /\ p \in Seq(Steps) /\ Len(p) = IF 1 <= Len(s) THEN Len(s) - 1 + 1 ELSE 0
        /\ \A i \in 1 .. Len(s) - 1 + 1 : p[i] = t[1 + i - 1]
    BY <1>0, <2>1, SubSeqProperties
  <2> HIDE DEF p
  <2>3. QED
    BY <1>0, <2>2
<1> HIDE DEF p
<1>4. (\A i \in 1 .. Len(s) : s[i] = p[i]) => s = p
  BY <1>3, SeqEqual
<1>5. QED
  BY <1>2, <1>3, <1>4 DEF p

\* Whether an address is a prefix of another, by their first steps.
LEMMA PrefixGoesOn ==
  ASSUME NEW s \in Seq(Steps), NEW t \in Seq(Steps)
  PROVE  /\ s = <<>> => IsPrefix(s, t)
         /\ s # <<>> /\ t = <<>> => ~IsPrefix(s, t)
         /\ s # <<>> /\ t # <<>> =>
              (IsPrefix(s, t) <=> s[1] = t[1] /\ IsPrefix(Tail(s), Tail(t)))
<1>0. Len(<<>>) = 0 /\ Len(s) \in Nat /\ Len(t) \in Nat
  BY LenProperties
<1>1. CASE s = <<>>
  <2>1. Len(s) <= Len(t) /\ \A i \in 1 .. Len(s) : s[i] = t[i]
    BY <1>0, <1>1
  <2>2. QED
    BY <1>1, <2>1, PrefixIs
<1>2. CASE s # <<>> /\ t = <<>>
  <2>1. ~(Len(s) <= Len(t))
    BY <1>0, <1>2, TailOfAddress
  <2>2. QED
    BY <1>2, <2>1, PrefixIs
<1>3. CASE s # <<>> /\ t # <<>>
  <2> DEFINE p == Tail(s)
             q == Tail(t)
  <2>1. /\ Len(s) \in Nat /\ Len(s) > 0 /\ Len(p) = Len(s) - 1 /\ p \in Seq(Steps)
        /\ \A i \in 1 .. Len(p) : p[i] = s[i + 1]
    BY <1>3, TailOfAddress
  <2>2. /\ Len(t) \in Nat /\ Len(t) > 0 /\ Len(q) = Len(t) - 1 /\ q \in Seq(Steps)
        /\ \A i \in 1 .. Len(q) : q[i] = t[i + 1]
    BY <1>3, TailOfAddress
  <2>3. IsPrefix(p, q) <=> Len(p) <= Len(q) /\ \A i \in 1 .. Len(p) : p[i] = q[i]
    BY <2>1, <2>2, PrefixIs
  <2>4. IsPrefix(s, t) <=> Len(s) <= Len(t) /\ \A i \in 1 .. Len(s) : s[i] = t[i]
    BY PrefixIs
  <2> HIDE DEF p, q
  <2>5. SUFFICES ASSUME Len(s) <= Len(t)
                 PROVE  (\A i \in 1 .. Len(s) : s[i] = t[i])
                          <=> s[1] = t[1] /\ \A i \in 1 .. Len(p) : p[i] = q[i]
    BY <1>3, <2>1, <2>2, <2>3, <2>4 DEF p, q
  <2>6. ASSUME NEW i \in 1 .. Len(p) PROVE p[i] = s[i + 1] /\ q[i] = t[i + 1] /\ i + 1 \in 1 .. Len(s)
    BY <2>1, <2>2, <2>5
  <2>7. ASSUME NEW i \in 1 .. Len(s), i # 1 PROVE \E j \in 1 .. Len(p) : j + 1 = i
    <3>1. i - 1 \in 1 .. Len(p) /\ (i - 1) + 1 = i
      BY <2>1, <2>7
    <3>2. QED
      BY <3>1
  <2>8. 1 \in 1 .. Len(s)
    BY <2>1
  <2>9. ASSUME s[1] = t[1], \A j \in 1 .. Len(p) : p[j] = q[j], NEW i \in 1 .. Len(s)
        PROVE  s[i] = t[i]
    <3>1. CASE i # 1
      <4>1. PICK j \in 1 .. Len(p) : j + 1 = i
        BY <2>7, <3>1
      <4>2. QED
        BY <2>6, <2>9, <4>1
    <3>2. QED
      BY <2>9, <3>1
  <2>10. QED
    BY <2>6, <2>8, <2>9
<1>4. QED
  BY <1>1, <1>2, <1>3

\* Addresses are equal if they begin and go on alike.
LEMMA SeqOfHeadAndTail ==
  ASSUME NEW s \in Seq(Steps), NEW t \in Seq(Steps), s # <<>>, t # <<>>
  PROVE  s = t <=> s[1] = t[1] /\ Tail(s) = Tail(t)
<1> DEFINE p == Tail(s)
           q == Tail(t)
<1>1. SUFFICES ASSUME s[1] = t[1], p = q PROVE s = t
  OBVIOUS
<1>2. /\ Len(s) \in Nat /\ Len(s) > 0 /\ Len(p) = Len(s) - 1
      /\ \A i \in 1 .. Len(p) : p[i] = s[i + 1]
  BY TailOfAddress
<1>3. /\ Len(t) \in Nat /\ Len(t) > 0 /\ Len(q) = Len(t) - 1
      /\ \A i \in 1 .. Len(q) : q[i] = t[i + 1]
  BY TailOfAddress
<1> HIDE DEF p, q
<1>4. Len(s) = Len(t)
  BY <1>1, <1>2, <1>3
<1>5. ASSUME NEW i \in 1 .. Len(s) PROVE s[i] = t[i]
  <2>1. CASE i # 1
    <3>1. i - 1 \in 1 .. Len(p) /\ (i - 1) + 1 = i
      BY <1>2, <2>1
    <3>2. PICK j \in 1 .. Len(p) : j + 1 = i
      BY <3>1
    <3>3. p[j] = s[j + 1] /\ q[j] = t[j + 1]
      BY <1>1, <1>2, <1>3
    <3>4. QED
      BY <1>1, <3>2, <3>3
  <2>2. QED
    BY <1>1, <2>1
<1>6. QED
  BY <1>4, <1>5, SeqEqual

\* Whether an address is a strict prefix of another, by their first steps.
LEMMA StrictPrefixGoesOn ==
  ASSUME NEW a \in Seq(Steps), NEW q \in Seq(Steps), q # <<>>
  PROVE  /\ a = <<>> => IsStrictPrefix(a, q)
         /\ a # <<>> /\ a[1] = q[1] =>
              (IsStrictPrefix(a, q) <=> IsStrictPrefix(Tail(a), Tail(q)))
<1>1. CASE a = <<>>
  BY <1>1, PrefixGoesOn DEF IsStrictPrefix
<1>2. CASE a # <<>>
  BY <1>2, PrefixGoesOn, SeqOfHeadAndTail DEF IsStrictPrefix
<1>3. QED
  BY <1>1, <1>2

-----------------------------------------------------------------------------
(* The setting of a path. *)

\* In its first step, setPathRecursive puts what it has set after that step.
LEMMA SetGoesOn ==
  ASSUME NEW v, NEW q \in Seq(Steps), NEW value
  PROVE  /\ q = <<>> => setPathRecursive(v, q, value) = value
         /\ q # <<>> => setPathRecursive(v, q, value)
              = Put(v, q[1], setPathRecursive(Step(v, q[1]), Tail(q), value))
<1>0. Len(q) \in Nat
  BY LenProperties
<1>1. PICK set :
        /\ setPathRecursive(v, q, value) = set[Len(q)] /\ set[0] = value
        /\ \A n \in 1 .. Len(q) :
             set[n] = Put(Visited(v, q)[Len(q) - n], q[Len(q) - n + 1], set[n - 1])
  BY <1>0, SetIs
<1>2. CASE q = <<>>
  BY <1>1, <1>2
<1>3. CASE q # <<>>
  <2> DEFINE t == Tail(q)
             w == Step(v, q[1])
             m == Len(t)
  <2>1. /\ Len(q) > 0 /\ t \in Seq(Steps) /\ Len(q) = m + 1 /\ m \in Nat
        /\ \A i \in 1 .. m : t[i] = q[i + 1]
    BY <1>3, TailOfAddress
  <2>2. \A i \in 0 .. m : Visited(v, q)[i + 1] = Visited(w, t)[i]
    BY <1>3, VisitedGoesOn
  <2>3. PICK inner :
          /\ setPathRecursive(w, t, value) = inner[m] /\ inner[0] = value
          /\ \A n \in 1 .. m : inner[n] = Put(Visited(w, t)[m - n], t[m - n + 1], inner[n - 1])
    <3>1. Len(t) \in Nat
      BY <2>1
    <3> HIDE DEF t, w, m
    <3>2. \E inner :
            /\ setPathRecursive(w, t, value) = inner[Len(t)] /\ inner[0] = value
            /\ \A n \in 1 .. Len(t) :
                 inner[n] = Put(Visited(w, t)[Len(t) - n], t[Len(t) - n + 1], inner[n - 1])
      BY <3>1, SetIs
    <3>3. QED
      BY <3>2, Zenon DEF m
  <2> HIDE DEF t, w, m
  <2> DEFINE T == {i \in Nat : i <= m => set[i] = inner[i]}
  <2>4. 0 \in T
    BY <1>1, <2>3
  <2>5. ASSUME NEW i \in T PROVE i + 1 \in T
    <3> DEFINE n == i + 1
               k == m - n
               j == k + 1
    <3>1. SUFFICES ASSUME n <= m PROVE set[n] = inner[n]
      OBVIOUS
    <3>2. /\ n \in 1 .. m /\ n - 1 = i /\ n \in 1 .. Len(q) /\ set[i] = inner[i]
          /\ k \in 0 .. m /\ j \in 1 .. m /\ Len(q) - n = j
      BY <2>1, <3>1
    <3> HIDE DEF n, j, k
    <3>3. set[n] = Put(Visited(v, q)[j], q[j + 1], set[i])
      BY <1>1, <3>2
    <3>4. inner[n] = Put(Visited(w, t)[k], t[j], inner[i])
      BY <2>3, <3>2 DEF k, j
    <3>5. Visited(v, q)[j] = Visited(w, t)[k]
      BY <2>2, <3>2, Zenon DEF j
    <3>6. t[j] = q[j + 1]
      BY <2>1, <3>2
    <3>7. QED
      BY <3>2, <3>3, <3>4, <3>5, <3>6, Zenon DEF n
  <2>6. T = Nat
    <3>1. T \subseteq Nat
      OBVIOUS
    <3> HIDE DEF T
    <3>2. QED
      BY <2>4, <2>5, <3>1, AllNat
  <2>7. set[m] = inner[m]
    BY <2>1, <2>6
  <2>8. set[Len(q)] = Put(v, q[1], set[m])
    <3>1. Len(q) \in 1 .. Len(q) /\ Len(q) - Len(q) = 0 /\ Len(q) - 1 = m /\ 0 + 1 = 1
      BY <2>1
    <3>2. set[Len(q)] = Put(Visited(v, q)[0], q[1], set[m])
      BY <1>1, <3>1
    <3>3. QED
      BY <1>0, <3>2, VisitedIs
  <2>9. QED
    BY <1>1, <1>3, <2>3, <2>7, <2>8 DEF t, w
<1>4. QED
  BY <1>2, <1>3

\* The list in which SetPath sets an element has that element, and those it had.
LEMMA ExtendedIsValue ==
  ASSUME NEW n \in 1 .. Depth, NEW v \in Values[n], NEW length \in Nat
  PROVE  LET list == IF v.kind = "list" THEN v.of ELSE <<>>
             e == Extended(v, length)
         IN /\ e \in Seq(Values[n - 1]) /\ list \in Seq(Values[n - 1])
            /\ Len(list) \in Nat /\ DOMAIN list = 1 .. Len(list)
            /\ Len(e) = IF Len(list) > length THEN Len(list) ELSE length
            /\ DOMAIN e = 1 .. Len(e)
            /\ \A i \in 1 .. Len(e) : e[i] = IF i <= Len(list) THEN list[i] ELSE Nothing
<1> DEFINE V == Values[n - 1]
           list == IF v.kind = "list" THEN v.of ELSE <<>>
           l == IF Len(list) > length THEN Len(list) ELSE length
           e == Extended(v, length)
<1>1. n \in 0 .. Depth /\ n - 1 \in 0 .. Depth
  BY OverridesAssumption
<1>2. list \in Seq(V)
  <2>1. CASE v.kind = "list"
    BY <1>1, <2>1, KindsOfValues
  <2>2. CASE v.kind # "list"
    BY <2>2, EmptySeq
  <2>3. QED
    BY <2>1, <2>2
<1>3. Nothing \in V
  BY <1>1, LeavesAreValues
<1> HIDE DEF V
<1>4. Len(list) \in Nat /\ DOMAIN list = 1 .. Len(list) /\ \A i \in 1 .. Len(list) : list[i] \in V
  BY <1>2, LenProperties, ElementOfSeq
<1>5. e = [i \in 1 .. l |-> IF i <= Len(list) THEN list[i] ELSE Nothing]
  BY DEF Extended
<1> HIDE DEF list, e
<1>6. l \in Nat
  BY <1>4
<1> HIDE DEF l
<1>7. \A i \in 1 .. l : (IF i <= Len(list) THEN list[i] ELSE Nothing) \in V
  BY <1>3, <1>4, <1>6
<1>8. e \in Seq(V) /\ Len(e) = l /\ DOMAIN e = 1 .. l
  BY <1>5, <1>6, <1>7
<1>9. \A i \in 1 .. l : e[i] = IF i <= Len(list) THEN list[i] ELSE Nothing
  BY <1>5
<1>10. QED
  BY <1>2, <1>4, <1>8, <1>9 DEF V, list, e, l

\* What a step into a value meets after something was put at a step.
LEMMA PutIsValue ==
  ASSUME NEW n \in 1 .. Depth, NEW v \in Values[n], NEW s \in Steps, NEW u \in Values[n - 1]
  PROVE  /\ Put(v, s, u) \in Values[n]
         /\ s.at = 0 => Put(v, s, u).kind = "map"
         /\ \A t \in Steps :
              Step(Put(v, s, u), t) = IF t = s THEN u
                                      ELSE IF (t.at = 0) = (s.at = 0) THEN Step(v, t)
                                      ELSE Nothing
<1> DEFINE V == Values[n - 1]
           p == Put(v, s, u)
<1>0. n \in 0 .. Depth /\ n - 1 \in 0 .. Depth
  BY OverridesAssumption
<1>1. Nothing \in V
  BY <1>0, LeavesAreValues
<1>2. s.at \in Nat /\ (s.at = 0 => s.key \in Names)
  BY StepTypes
<1>3. CASE s.at = 0
  <2> DEFINE f == [k \in Names |-> IF k = s.key THEN u ELSE In(v, k)]
  <2>1. p = Map(f)
    BY <1>3 DEF Put
  <2>2. ASSUME NEW k \in Names
        PROVE  In(v, k) \in V
    <3>1. CASE v.kind = "map"
      BY <1>0, <3>1, KindsOfValues DEF In
    <3>2. CASE v.kind # "map"
      BY <1>1, <3>2 DEF In
    <3>3. QED
      BY <3>1, <3>2
  <2>3. f \in [Names -> V]
    BY <2>2
  <2> HIDE DEF f, p
  <2>4. p \in Values[n] /\ p.kind = "map" /\ p.of = f
    BY <2>1, <2>3, FormedValues DEF Map
  <2>5. ASSUME NEW t \in Steps
        PROVE  Step(p, t) = IF t = s THEN u
                            ELSE IF (t.at = 0) = (s.at = 0) THEN Step(v, t) ELSE Nothing
    <3>1. Step(p, t) = IF t.at = 0 THEN f[t.key] ELSE Nothing
      BY <1>0, <2>4, StepIsValue
    <3>2. CASE t.at # 0
      BY <1>3, <3>1, <3>2
    <3>3. CASE t.at = 0
      <4>1. t.key \in Names /\ (t = s <=> t.key = s.key)
        BY <1>3, <3>3, KindsOfSteps
      <4>2. Step(v, t) = In(v, t.key)
        <5>1. CASE v.kind = "map"
          BY <1>0, <3>3, <5>1, StepIsValue DEF In
        <5>2. CASE v.kind = "list"
          <6>1. ~(t.at \in 1 .. Len(v.of))
            BY <3>3
          <6>2. QED
            BY <1>0, <5>2, <6>1, StepIsValue DEF In
        <5>3. CASE v.kind \notin {"map", "list"}
          BY <1>0, <5>3, StepIsValue DEF In
        <5>4. QED
          BY <5>1, <5>2, <5>3
      <4>3. f[t.key] = IF t.key = s.key THEN u ELSE In(v, t.key)
        BY <4>1 DEF f
      <4>4. QED
        BY <1>3, <3>1, <3>3, <4>1, <4>2, <4>3
    <3>4. QED
      BY <3>2, <3>3
  <2>6. QED
    BY <2>4, <2>5 DEF p
<1>4. CASE s.at # 0
  <2> DEFINE list == IF v.kind = "list" THEN v.of ELSE <<>>
             e == Extended(v, s.at)
             x == [e EXCEPT ![s.at] = u]
  <2>1. p = List(x)
    BY <1>4 DEF Put
  <2>2. /\ e \in Seq(V) /\ Len(list) \in Nat
        /\ Len(e) = IF Len(list) > s.at THEN Len(list) ELSE s.at
        /\ \A i \in 1 .. Len(e) : e[i] = IF i <= Len(list) THEN list[i] ELSE Nothing
    BY <1>2, ExtendedIsValue
  <2> HIDE DEF e, list, V, p
  <2>3. Len(e) \in Nat /\ s.at \in 1 .. Len(e)
    BY <1>2, <1>4, <2>2
  <2>4. /\ x \in Seq(V) /\ Len(x) = Len(e)
        /\ \A j \in 1 .. Len(e) : x[j] = IF j = s.at THEN u ELSE e[j]
    BY <2>2, <2>3, ExceptSeq DEF V
  <2> HIDE DEF x
  <2>5. p \in Values[n] /\ p.kind = "list" /\ p.of = x
    BY <2>1, <2>4, FormedValues DEF List, V
  <2>6. ASSUME NEW t \in Steps
        PROVE  Step(p, t) = IF t = s THEN u
                            ELSE IF (t.at = 0) = (s.at = 0) THEN Step(v, t) ELSE Nothing
    <3>1. Step(p, t) = IF t.at \in 1 .. Len(e) THEN x[t.at] ELSE Nothing
      BY <1>0, <2>4, <2>5, StepIsValue
    <3>2. CASE t.at = 0
      BY <1>4, <3>1, <3>2
    <3>3. CASE t.at # 0
      <4>1. t.at \in Nat /\ (t = s <=> t.at = s.at)
        BY <1>4, <3>3, KindsOfSteps
      <4>2. Step(v, t) = IF t.at <= Len(list) THEN list[t.at] ELSE Nothing
        <5>1. CASE v.kind = "list"
          <6>1. list = v.of
            BY <5>1 DEF list
          <6>2. t.at \in 1 .. Len(list) <=> t.at <= Len(list)
            BY <2>2, <3>3, <4>1
          <6>3. QED
            BY <1>0, <5>1, <6>1, <6>2, StepIsValue
        <5>2. CASE v.kind # "list"
          <6>1. list = <<>>
            BY <5>2 DEF list
          <6>2. ~(t.at <= Len(list))
            BY <3>3, <4>1, <6>1
          <6>3. Step(v, t) = Nothing
            BY <1>0, <3>3, <5>2, StepIsValue, KindsOfValues
          <6>4. QED
            BY <6>2, <6>3
        <5>3. QED
          BY <5>1, <5>2
      <4>3. CASE t.at = s.at
        BY <2>3, <2>4, <3>1, <4>1, <4>3
      <4>4. CASE t.at # s.at
        <5>1. CASE t.at \in 1 .. Len(e)
          <6>1. Step(p, t) = Step(v, t)
            BY <2>2, <2>4, <3>1, <4>2, <4>4, <5>1
          <6>2. QED
            BY <1>4, <3>3, <4>1, <4>4, <6>1
        <5>2. CASE ~(t.at \in 1 .. Len(e))
          <6>1. ~(t.at <= Len(list))
            BY <2>2, <2>3, <3>3, <4>1, <5>2
          <6>2. QED
            BY <1>4, <3>1, <3>3, <4>1, <4>2, <4>4, <5>2, <6>1
        <5>3. QED
          BY <5>1, <5>2
      <4>5. QED
        BY <4>3, <4>4
    <3>4. QED
      BY <3>2, <3>3
  <2>7. QED
    BY <1>4, <2>5, <2>6 DEF p
<1>5. QED
  BY <1>3, <1>4

\* Whether two addresses part in kind, by their first steps.
LEMMA PartGoesOn ==
  ASSUME NEW a \in Seq(Steps), NEW q \in Seq(Steps)
  PROVE  /\ a = <<>> \/ q = <<>> => ~PartInKind(a, q)
         /\ a # <<>> /\ q # <<>> =>
              (PartInKind(a, q) <=> \/ (a[1].at = 0) # (q[1].at = 0)
                                    \/ a[1] = q[1] /\ PartInKind(Tail(a), Tail(q)))
<1>0. /\ Len(a) \in Nat /\ DOMAIN a = 1 .. Len(a)
      /\ Len(q) \in Nat /\ DOMAIN q = 1 .. Len(q)
  BY LenProperties
<1>1. CASE a = <<>> \/ q = <<>>
  <2>1. DOMAIN a \cap DOMAIN q = {}
    BY <1>1
  <2>2. QED
    BY <1>1, <2>1, Zenon DEF PartInKind
<1>2. CASE a # <<>> /\ q # <<>>
  <2> DEFINE b == Tail(a)
             p == Tail(q)
             Parts(n) == /\ \A i \in 1 .. (n - 1) : a[i] = q[i]
                         /\ (a[n].at = 0) # (q[n].at = 0)
             TailsPart(n) == /\ \A i \in 1 .. (n - 1) : b[i] = p[i]
                             /\ (b[n].at = 0) # (p[n].at = 0)
             D == DOMAIN a \cap DOMAIN q
             E == DOMAIN b \cap DOMAIN p
  <2>1. /\ Len(a) > 0 /\ b \in Seq(Steps) /\ Len(a) = Len(b) + 1 /\ Len(b) \in Nat
        /\ \A i \in 1 .. Len(b) : b[i] = a[i + 1]
    BY <1>2, TailOfAddress
  <2>2. /\ Len(q) > 0 /\ p \in Seq(Steps) /\ Len(q) = Len(p) + 1 /\ Len(p) \in Nat
        /\ \A i \in 1 .. Len(p) : p[i] = q[i + 1]
    BY <1>2, TailOfAddress
  <2>3. DOMAIN b = 1 .. Len(b) /\ DOMAIN p = 1 .. Len(p)
    BY <2>1, <2>2, LenProperties
  <2> HIDE DEF b, p
  <2>4. Parts(1) <=> (a[1].at = 0) # (q[1].at = 0)
    OBVIOUS
  <2>5. 1 \in D
    BY <1>0, <2>1, <2>2
  <2>6. ASSUME NEW n \in E PROVE n + 1 \in D /\ (Parts(n + 1) <=> a[1] = q[1] /\ TailsPart(n))
    <3>1. n \in Nat /\ n >= 1 /\ n <= Len(b) /\ n <= Len(p)
      BY <2>1, <2>2, <2>3
    <3>2. n + 1 \in D
      BY <1>0, <2>1, <2>2, <3>1
    <3>3. b[n] = a[n + 1] /\ p[n] = q[n + 1]
      BY <2>1, <2>2, <3>1
    <3>4. ASSUME NEW i \in 1 .. (n - 1)
          PROVE  i + 1 \in 1 .. n /\ b[i] = a[i + 1] /\ p[i] = q[i + 1]
      <4>1. i + 1 \in 1 .. n /\ i \in 1 .. Len(b) /\ i \in 1 .. Len(p)
        BY <2>1, <2>2, <3>1
      <4>2. QED
        BY <2>1, <2>2, <4>1
    <3>5. (n + 1) - 1 = n /\ 1 \in 1 .. n
      BY <3>1
    <3>6. ASSUME NEW i \in 1 .. n, i # 1 PROVE \E j \in 1 .. (n - 1) : j + 1 = i
      <4>1. i - 1 \in 1 .. (n - 1) /\ (i - 1) + 1 = i
        BY <3>1, <3>6
      <4>2. QED
        BY <4>1
    <3>7. ASSUME a[1] = q[1], \A j \in 1 .. (n - 1) : b[j] = p[j], NEW i \in 1 .. n
          PROVE  a[i] = q[i]
      <4>1. CASE i # 1
        <5>1. PICK j \in 1 .. (n - 1) : j + 1 = i
          BY <3>6, <4>1
        <5>2. QED
          BY <3>4, <3>7, <5>1
      <4>2. QED
        BY <3>7, <4>1
    <3>8. (\A i \in 1 .. n : a[i] = q[i]) <=> a[1] = q[1] /\ \A j \in 1 .. (n - 1) : b[j] = p[j]
      BY <3>4, <3>5, <3>7
    <3>9. Parts(n + 1) <=> /\ \A i \in 1 .. n : a[i] = q[i]
                           /\ (a[n + 1].at = 0) # (q[n + 1].at = 0)
      BY <3>5, Zenon
    <3>10. TailsPart(n) <=> /\ \A j \in 1 .. (n - 1) : b[j] = p[j]
                            /\ (a[n + 1].at = 0) # (q[n + 1].at = 0)
      BY <3>3, Zenon
    <3> HIDE DEF Parts, TailsPart
    <3>11. QED
      BY <3>2, <3>8, <3>9, <3>10
  <2>7. ASSUME NEW n \in D, n # 1 PROVE \E j \in E : j + 1 = n
    <3>1. n - 1 \in E /\ (n - 1) + 1 = n
      BY <1>0, <2>1, <2>2, <2>3, <2>7
    <3>2. QED
      BY <3>1
  <2> HIDE DEF D, E, Parts, TailsPart
  <2>8. (\E n \in D : Parts(n)) <=>
          Parts(1) \/ (a[1] = q[1] /\ \E n \in E : TailsPart(n))
    BY <2>5, <2>6, <2>7
  <2>9. PartInKind(a, q) <=> \E n \in D : Parts(n)
    BY DEF PartInKind, D, Parts
  <2>10. PartInKind(b, p) <=> \E n \in E : TailsPart(n)
    BY DEF PartInKind, E, TailsPart
  <2>11. QED
    BY <1>2, <2>4, <2>8, <2>9, <2>10 DEF b, p
<1>3. QED
  BY <1>1, <1>2

\* What an address goes on with after another.
After(q, a) == SubSeq(a, Len(q) + 1, Len(a))

\* What is left of an address after another, by their first steps.
LEMMA AfterGoesOn ==
  ASSUME NEW q \in Seq(Steps), NEW a \in Seq(Steps)
  PROVE  /\ q = <<>> => After(q, a) = a
         /\ After(q, a) \in Seq(Steps)
         /\ q # <<>> /\ a # <<>> => After(q, a) = After(Tail(q), Tail(a))
<1>0. /\ Len(a) \in Nat /\ \A i \in 1 .. Len(a) : a[i] \in Steps
      /\ Len(q) \in Nat
  BY LenProperties, ElementOfSeq
<1>1. q = <<>> => After(q, a) = a
  BY SubSeqFull DEF After
<1>2. /\ After(q, a) \in Seq(Steps)
      /\ Len(After(q, a)) = IF Len(q) + 1 <= Len(a) THEN Len(a) - (Len(q) + 1) + 1 ELSE 0
      /\ \A i \in 1 .. Len(a) - (Len(q) + 1) + 1 : After(q, a)[i] = a[Len(q) + 1 + i - 1]
  <2> DEFINE m == Len(q) + 1
  <2>1. m \in Int /\ Len(a) \in Int /\ \A i \in m .. Len(a) : a[i] \in Steps
    BY <1>0
  <2> HIDE DEF m
  <2>2. QED
    BY <2>1, SubSeqProperties DEF After, m
<1>3. ASSUME q # <<>>, a # <<>> PROVE After(q, a) = After(Tail(q), Tail(a))
  <2> DEFINE p == Tail(q)
             b == Tail(a)
             s == After(q, a)
             t == After(p, b)
  <2>1. Len(q) > 0 /\ p \in Seq(Steps) /\ Len(q) = Len(p) + 1 /\ Len(p) \in Nat
    BY <1>3, TailOfAddress
  <2>2. /\ Len(a) > 0 /\ b \in Seq(Steps) /\ Len(a) = Len(b) + 1 /\ Len(b) \in Nat
        /\ \A i \in 1 .. Len(b) : b[i] = a[i + 1]
    BY <1>3, TailOfAddress
  <2>3. \A i \in 1 .. Len(b) : b[i] \in Steps
    BY <2>2, ElementOfSeq
  <2> HIDE DEF p, b
  <2>4. /\ t \in Seq(Steps)
        /\ Len(t) = IF Len(p) + 1 <= Len(b) THEN Len(b) - (Len(p) + 1) + 1 ELSE 0
        /\ \A i \in 1 .. Len(b) - (Len(p) + 1) + 1 : t[i] = b[Len(p) + 1 + i - 1]
    <3> DEFINE m == Len(p) + 1
    <3>1. m \in Int /\ Len(b) \in Int /\ \A i \in m .. Len(b) : b[i] \in Steps
      BY <2>1, <2>2, <2>3
    <3> HIDE DEF m
    <3>2. QED
      BY <3>1, SubSeqProperties DEF After, m
  <2> HIDE DEF s, t
  <2>5. Len(s) = Len(t)
    BY <1>2, <2>1, <2>2, <2>4 DEF s
  <2>6. ASSUME NEW i \in 1 .. Len(s) PROVE s[i] = t[i]
    <3> DEFINE j == Len(p) + i
               k == Len(q) + i
    <3>1. /\ j \in 1 .. Len(b) /\ k = j + 1 /\ Len(p) + 1 + i - 1 = j /\ Len(q) + 1 + i - 1 = k
          /\ i \in 1 .. Len(b) - (Len(p) + 1) + 1 /\ i \in 1 .. Len(a) - (Len(q) + 1) + 1
      BY <1>2, <2>1, <2>2, <2>4, <2>5 DEF s
    <3> HIDE DEF j, k
    <3>2. s[i] = a[k] /\ t[i] = b[j]
      BY <1>2, <2>4, <3>1 DEF s
    <3>3. QED
      BY <2>2, <3>1, <3>2
  <2>7. s = t
    BY <1>2, <2>4, <2>5, <2>6, SeqEqual DEF s
  <2>8. QED
    BY <2>7 DEF s, t, p, b
<1>4. QED
  BY <1>1, <1>2, <1>3

\* A document with a value set in it.
SetsTo(m, v, q, w) ==
  \A a \in Seq(Steps) :
    ~IsStrictPrefix(a, q) =>
      getPath(m, a) = IF IsPrefix(q, a) THEN getPath(w, After(q, a))
                      ELSE IF PartInKind(a, q) THEN Nothing ELSE getPath(v, a)

\* A value is set exactly at the empty address.
LEMMA SetsHere ==
  ASSUME NEW v, NEW w
  PROVE  SetsTo(w, v, <<>>, w)
<1>1. <<>> \in Seq(Steps)
  OBVIOUS
<1>2. QED
  BY <1>1, PrefixGoesOn, AfterGoesOn DEF SetsTo

\* If a value is set exactly below a step, Put sets it exactly here.
LEMMA SetsOnce ==
  ASSUME NEW n \in 1 .. Depth, NEW v \in Values[n], NEW q \in Seq(Steps), q # <<>>,
         NEW w, NEW u \in Values[n - 1], SetsTo(u, Step(v, q[1]), Tail(q), w)
  PROVE  SetsTo(Put(v, q[1], u), v, q, w)
<1> DEFINE m == Put(v, q[1], u)
           s == q[1]
           p == Tail(q)
<1>1. s \in Steps /\ p \in Seq(Steps)
  BY TailOfAddress
<1>2. ASSUME NEW t \in Steps
      PROVE  Step(m, t) = IF t = s THEN u
                          ELSE IF (t.at = 0) = (s.at = 0) THEN Step(v, t) ELSE Nothing
  BY <1>1, PutIsValue
<1> HIDE DEF m
<1>3. ASSUME NEW a \in Seq(Steps), ~IsStrictPrefix(a, q)
      PROVE  getPath(m, a) = IF IsPrefix(q, a) THEN getPath(w, After(q, a))
                             ELSE IF PartInKind(a, q) THEN Nothing ELSE getPath(v, a)
  <2> DEFINE t == a[1]
             b == Tail(a)
  <2>1. a # <<>>
    BY <1>3, StrictPrefixGoesOn
  <2>2. t \in Steps /\ b \in Seq(Steps)
    BY <2>1, TailOfAddress
  <2>3. getPath(m, a) = getPath(Step(m, t), b) /\ getPath(v, a) = getPath(Step(v, t), b)
    BY <2>1, VisitedGoesOn
  <2>4. IsPrefix(q, a) <=> s = t /\ IsPrefix(p, b)
    BY <2>1, PrefixGoesOn
  <2>5. PartInKind(a, q) <=> (t.at = 0) # (s.at = 0) \/ (t = s /\ PartInKind(b, p))
    BY <2>1, PartGoesOn
  <2>6. t = s => ~IsStrictPrefix(b, p)
    BY <1>3, <2>1, StrictPrefixGoesOn
  <2>7. After(q, a) = After(p, b)
    BY <2>1, AfterGoesOn
  <2> HIDE DEF t, b, s, p
  <2>8. CASE t = s
    <3>1. Step(m, t) = u
      BY <1>2, <2>2, <2>8
    <3>2. getPath(u, b) = IF IsPrefix(p, b) THEN getPath(w, After(p, b))
                          ELSE IF PartInKind(b, p) THEN Nothing ELSE getPath(Step(v, s), b)
      BY <2>2, <2>6, <2>8 DEF SetsTo, s, p
    <3>3. QED
      BY <2>3, <2>4, <2>5, <2>7, <2>8, <3>1, <3>2
  <2>9. CASE t # s /\ (t.at = 0) = (s.at = 0)
    <3>1. Step(m, t) = Step(v, t)
      BY <1>2, <2>2, <2>9
    <3>2. QED
      BY <2>3, <2>4, <2>5, <2>9, <3>1
  <2>10. CASE t # s /\ (t.at = 0) # (s.at = 0)
    <3>1. Step(m, t) = Nothing
      BY <1>2, <2>2, <2>10
    <3>2. getPath(Nothing, b) = Nothing
      BY <2>2, GetOfNothing
    <3>3. QED
      BY <2>3, <2>4, <2>5, <2>10, <3>1, <3>2
  <2>11. QED
    BY <2>8, <2>9, <2>10
<1>4. QED
  BY <1>3 DEF SetsTo, m, s, p

\* Along the whole path.
LEMMA SetIsExact ==
  ASSUME NEW v \in Maps, NEW q \in Seq(Steps), q # <<>>, q[1].at = 0, Len(q) <= Depth,
         NEW w \in Leaves
  PROVE  /\ setPathRecursive(v, q, w) \in Maps
         /\ SetsTo(setPathRecursive(v, q, w), v, q, w)
<1>0. Depth \in Nat
  BY OverridesAssumption
<1> DEFINE Sets(x, r, n) == /\ setPathRecursive(x, r, w) \in Values[n]
                            /\ SetsTo(setPathRecursive(x, r, w), x, r, w)
           T == {i \in Nat : \A n \in i .. Depth : \A x \in Values[n] : \A r \in Seq(Steps) :
                   Len(r) = i => Sets(x, r, n)}
<1>1. 0 \in T
  <2>1. ASSUME NEW n \in 0 .. Depth, NEW x \in Values[n], NEW r \in Seq(Steps), Len(r) = 0
        PROVE  Sets(x, r, n)
    <3>1. r = <<>>
      BY <2>1, EmptySeq
    <3>2. setPathRecursive(x, r, w) = w
      BY <3>1, SetGoesOn
    <3>3. w \in Values[n]
      BY LeavesAreValues
    <3>4. QED
      BY <3>1, <3>2, <3>3, SetsHere
  <2>2. QED
    BY <2>1
<1>2. ASSUME NEW i \in T PROVE i + 1 \in T
  <2>1. ASSUME NEW n \in (i + 1) .. Depth, NEW x \in Values[n], NEW r \in Seq(Steps),
               Len(r) = i + 1
        PROVE  Sets(x, r, n)
    <3>1. i \in Nat /\ n \in 1 .. Depth /\ n \in 0 .. Depth /\ n - 1 \in i .. Depth
      BY <1>0
    <3>2. r # <<>>
      BY <2>1, <3>1
    <3>3. r[1] \in Steps /\ Tail(r) \in Seq(Steps) /\ Len(Tail(r)) = i
      BY <2>1, <3>1, <3>2, TailOfAddress
    <3>4. Step(x, r[1]) \in Values[n - 1]
      BY <3>1, <3>3, StepIsValue
    <3>5. Sets(Step(x, r[1]), Tail(r), n - 1)
      BY <3>1, <3>3, <3>4
    <3>6. setPathRecursive(x, r, w)
            = Put(x, r[1], setPathRecursive(Step(x, r[1]), Tail(r), w))
      BY <3>2, SetGoesOn
    <3> DEFINE u == setPathRecursive(Step(x, r[1]), Tail(r), w)
    <3>7. u \in Values[n - 1] /\ SetsTo(u, Step(x, r[1]), Tail(r), w)
      BY <3>5
    <3> HIDE DEF u
    <3>8. Put(x, r[1], u) \in Values[n]
      BY <3>1, <3>3, <3>7, PutIsValue
    <3>9. SetsTo(Put(x, r[1], u), x, r, w)
      BY <3>1, <3>2, <3>7, SetsOnce
    <3>10. QED
      BY <3>6, <3>8, <3>9 DEF u
  <2> HIDE DEF Sets
  <2>2. QED
    BY <2>1
<1>3. T = Nat
  <2>1. T \subseteq Nat
    OBVIOUS
  <2> HIDE DEF T
  <2>2. QED
    BY <1>1, <1>2, <2>1, AllNat
<1>4. Len(q) \in Nat /\ Depth \in Len(q) .. Depth /\ v \in Values[Depth] /\ Depth \in 1 .. Depth
  BY <1>0, TailOfAddress DEF Maps
<1>5. Sets(v, q, Depth)
  <2> HIDE DEF Sets
  <2>1. Len(q) \in T
    BY <1>3, <1>4
  <2>2. QED
    BY <1>4, <2>1
<1>6. setPathRecursive(v, q, w).kind = "map"
  <2>1. /\ q[1] \in Steps
        /\ setPathRecursive(v, q, w) = Put(v, q[1], setPathRecursive(Step(v, q[1]), Tail(q), w))
    BY SetGoesOn, TailOfAddress
  <2>2. QED
    BY <2>1 DEF Put, Map
<1>7. QED
  BY <1>5, <1>6 DEF Maps

-----------------------------------------------------------------------------
(* Addresses of paths. *)

\* FlattenSeq obeys its recursive equation.
LEMMA FlattenIs ==
  ASSUME NEW S, NEW seqs \in Seq(Seq(S)), seqs # <<>>
  PROVE  \E f :
           /\ FlattenSeq(seqs) = f[Len(seqs)] /\ f[1] = seqs[1]
           /\ \A i \in 2 .. Len(seqs) : f[i] = f[i - 1] \o seqs[i]
<1> DEFINE L == Len(seqs)
           c == seqs[1]
           G(i, x) == x \o seqs[i]
           IsUpTo(g, n) == /\ DOMAIN g = 1 .. n /\ g[1] = c
                           /\ \A k \in 2 .. n : g[k] = G(k, g[k - 1])
           T == {n \in Nat : n >= 1 => \E g : IsUpTo(g, n)}
<1>0. L \in Nat /\ L >= 1
  BY LenProperties, EmptySeq
<1> HIDE DEF c, G, L
<1>1. 0 \in T
  OBVIOUS
<1>2. ASSUME NEW n \in T PROVE n + 1 \in T
  <2>1. n \in Nat
    OBVIOUS
  <2>2. CASE n = 0
    <3>1. IsUpTo([k \in 1 .. 1 |-> c], 1)
      OBVIOUS
    <3> HIDE DEF IsUpTo
    <3>2. QED
      BY <2>2, <3>1
  <2>3. CASE n >= 1
    <3>1. PICK g : IsUpTo(g, n)
      BY <2>3
    <3> DEFINE h == [k \in 1 .. (n + 1) |-> IF k <= n THEN g[k] ELSE G(n + 1, g[n])]
    <3>2. DOMAIN h = 1 .. (n + 1) /\ h[1] = c
      BY <2>1, <2>3, <3>1
    <3>3. ASSUME NEW k \in 2 .. (n + 1) PROVE h[k] = G(k, h[k - 1])
      <4>1. CASE k = n + 1
        BY <2>1, <2>3, <4>1
      <4>2. CASE k <= n
        BY <2>1, <3>1, <4>2
      <4>3. QED
        BY <2>1, <4>1, <4>2
    <3>4. IsUpTo(h, n + 1)
      <4> HIDE DEF h
      <4> QED
        BY <3>2, <3>3
    <3> HIDE DEF IsUpTo
    <3>5. QED
      BY <2>1, <3>4
  <2>4. QED
    BY <2>1, <2>2, <2>3
<1>3. T = Nat
  <2>1. T \subseteq Nat
    OBVIOUS
  <2> HIDE DEF T
  <2>2. QED
    BY <1>1, <1>2, <2>1, AllNat
<1>4. PICK g : IsUpTo(g, L)
  <2> HIDE DEF IsUpTo
  <2>1. QED
    BY <1>0, <1>3
<1> DEFINE F == CHOOSE x : x = [i \in 1 .. L |-> IF i = 1 THEN c ELSE G(i, x[i - 1])]
           f == [i \in 1 .. L |-> g[i]]
<1>5. f = [i \in 1 .. L |-> IF i = 1 THEN c ELSE G(i, f[i - 1])]
  <2>1. \A i \in 1 .. L : g[i] = IF i = 1 THEN c ELSE G(i, f[i - 1])
    BY <1>0, <1>4
  <2>2. QED
    BY <2>1
<1>6. F = [i \in 1 .. L |-> IF i = 1 THEN c ELSE G(i, F[i - 1])]
  <2> HIDE DEF f
  <2> QED
    BY <1>5, Zenon
<1>7. FlattenSeq(seqs) = F[L]
  <2>1. ~(Len(seqs) = 0)
    BY <1>0
  <2>2. F = CHOOSE x : x = [i \in 1 .. Len(seqs) |-> IF i = 1 THEN seqs[i] ELSE x[i - 1] \o seqs[i]]
    <3>1. \A x : [i \in 1 .. L |-> IF i = 1 THEN c ELSE G(i, x[i - 1])]
                  = [i \in 1 .. Len(seqs) |-> IF i = 1 THEN seqs[i] ELSE x[i - 1] \o seqs[i]]
      BY DEF c, G, L
    <3>2. QED
      BY <3>1
  <2>3. QED
    BY <2>1, <2>2, Zenon DEF FlattenSeq, L
<1> HIDE DEF F
<1>8. F[1] = c /\ \A i \in 2 .. L : F[i] = G(i, F[i - 1])
  BY <1>0, <1>6
<1>9. QED
  BY <1>7, <1>8 DEF c, G, L

\* Sequences that are not empty, one after the other, begin with the first of them.
LEMMA FlattenIsSeq ==
  ASSUME NEW S, NEW seqs \in Seq(Seq(S) \ {<<>>}), seqs # <<>>
  PROVE  /\ FlattenSeq(seqs) \in Seq(S) /\ FlattenSeq(seqs) # <<>>
         /\ FlattenSeq(seqs)[1] = seqs[1][1]
<1>0. /\ Len(seqs) \in Nat /\ Len(seqs) >= 1
      /\ \A i \in 1 .. Len(seqs) : seqs[i] \in Seq(S) \ {<<>>}
  BY LenProperties, ElementOfSeq, EmptySeq
<1>1. seqs \in Seq(Seq(S))
  BY <1>0
<1>2. PICK f :
        /\ FlattenSeq(seqs) = f[Len(seqs)] /\ f[1] = seqs[1]
        /\ \A i \in 2 .. Len(seqs) : f[i] = f[i - 1] \o seqs[i]
  BY <1>1, FlattenIs
<1> DEFINE Begins(s) == s \in Seq(S) /\ s # <<>> /\ s[1] = seqs[1][1]
           T == {i \in Nat : 1 <= i /\ i <= Len(seqs) => Begins(f[i])}
<1>3. 0 \in T
  OBVIOUS
<1>4. ASSUME NEW i \in T PROVE i + 1 \in T
  <2>1. i \in Nat
    OBVIOUS
  <2>2. SUFFICES ASSUME i + 1 <= Len(seqs) PROVE Begins(f[i + 1])
    OBVIOUS
  <2>3. CASE i = 0
    <3>1. i + 1 = 1 /\ 1 \in 1 .. Len(seqs)
      BY <1>0, <2>3
    <3>2. f[1] = seqs[1] /\ seqs[1] \in Seq(S) \ {<<>>}
      BY <1>0, <1>2, <3>1
    <3>3. QED
      BY <3>1, <3>2
  <2>4. CASE i # 0
    <3> DEFINE n == i + 1
    <3>1. n \in 2 .. Len(seqs) /\ n - 1 = i /\ n \in 1 .. Len(seqs) /\ Begins(f[i])
      BY <1>0, <2>1, <2>2, <2>4
    <3> HIDE DEF n
    <3>2. f[n] = f[i] \o seqs[n] /\ seqs[n] \in Seq(S)
      BY <1>0, <1>2, <3>1
    <3> DEFINE s == f[i]
               t == seqs[n]
    <3>3. s \in Seq(S) /\ s # <<>> /\ s[1] = seqs[1][1] /\ t \in Seq(S) /\ f[n] = s \o t
      BY <3>1, <3>2
    <3> HIDE DEF s, t
    <3>4. Len(s) \in Nat /\ Len(s) >= 1 /\ Len(t) \in Nat
      BY <3>3, LenProperties, EmptySeq
    <3>5. /\ s \o t \in Seq(S) /\ Len(s \o t) = Len(s) + Len(t)
          /\ (s \o t)[1] = s[1]
      BY <3>3, <3>4, ConcatProperties
    <3>6. Begins(s \o t)
      BY <3>3, <3>4, <3>5, EmptySeq
    <3>7. QED
      BY <3>3, <3>6, Zenon DEF n
  <2>5. QED
    BY <2>3, <2>4
<1>5. T = Nat
  <2>1. T \subseteq Nat
    OBVIOUS
  <2> HIDE DEF T
  <2>2. QED
    BY <1>3, <1>4, <2>1, AllNat
<1>6. Begins(f[Len(seqs)])
  <2> HIDE DEF Begins
  <2>1. QED
    BY <1>0, <1>5
<1>7. QED
  BY <1>2, <1>6

\* Settings that are applied have no index below zero.
Applicable ==
  {s \in Settings : \A i \in DOMAIN s.path : ~(s.path[i].isArr /\ s.path[i].index < 0)}

\* The address of a path that --set accepts is an address in a document.
LEMMA AddressIsSeq ==
  ASSUME NEW setting \in Applicable
  PROVE  LET q == Address(setting.path)
         IN q \in Seq(Steps) /\ q # <<>> /\ q[1].at = 0 /\ Len(q) <= Depth
<1> DEFINE parts == setting.path
           steps(i) == IF parts[i].isArr THEN <<ByKey(parts[i].key), ByIndex(parts[i].index + 1)>>
                       ELSE <<ByKey(parts[i].key)>>
           seqs == [i \in DOMAIN parts |-> steps(i)]
<1>1. setting \in Settings /\ \A i \in DOMAIN parts : ~(parts[i].isArr /\ parts[i].index < 0)
  BY DEF Applicable
<1>2. parts \in Seq(Part) /\ parts # <<>> /\ Len(Address(parts)) <= Depth
  BY <1>1, OverridesAssumption
<1> HIDE DEF parts
<1>3. /\ Len(parts) \in Nat /\ Len(parts) >= 1 /\ DOMAIN parts = 1 .. Len(parts)
      /\ \A i \in 1 .. Len(parts) : parts[i] \in Part
  BY <1>2, LenProperties, ElementOfSeq, EmptySeq
<1>4. ASSUME NEW i \in 1 .. Len(parts) PROVE steps(i) \in Seq(Steps) \ {<<>>} /\ steps(i)[1].at = 0
  <2>1. parts[i].key \in Names /\ parts[i].isArr \in BOOLEAN /\ parts[i].index \in Int
    BY <1>3 DEF Part
  <2>2. ByKey(parts[i].key) \in Steps /\ ByKey(parts[i].key).at = 0
    BY <2>1 DEF ByKey, Steps
  <2>3. CASE parts[i].isArr
    <3>1. parts[i].index + 1 \in Nat \ {0}
      BY <1>1, <1>3, <2>1, <2>3
    <3>2. ByIndex(parts[i].index + 1) \in Steps
      BY <3>1 DEF ByIndex, Steps
    <3>3. steps(i) = <<ByKey(parts[i].key), ByIndex(parts[i].index + 1)>>
      BY <2>3
    <3> HIDE DEF steps
    <3>4. QED
      BY <2>2, <3>2, <3>3
  <2>4. CASE ~parts[i].isArr
    BY <2>2, <2>4
  <2>5. QED
    BY <2>3, <2>4
<1> HIDE DEF steps
<1>5. seqs \in Seq(Seq(Steps) \ {<<>>}) /\ seqs # <<>> /\ seqs[1] = steps(1)
  <2>1. seqs = [i \in 1 .. Len(parts) |-> steps(i)]
    BY <1>3
  <2>2. Len(seqs) = Len(parts)
    BY <1>3, <2>1
  <2>3. QED
    BY <1>3, <1>4, <2>1, <2>2
<1>6. Address(parts) = FlattenSeq(seqs)
  BY Zenon DEF Address, steps
<1> HIDE DEF seqs
<1>7. /\ FlattenSeq(seqs) \in Seq(Steps) /\ FlattenSeq(seqs) # <<>>
      /\ FlattenSeq(seqs)[1] = seqs[1][1]
  BY <1>5, FlattenIsSeq
<1>8. FlattenSeq(seqs)[1].at = 0
  BY <1>3, <1>4, <1>5, <1>7
<1>9. QED
  BY <1>2, <1>6, <1>7, <1>8 DEF parts

-----------------------------------------------------------------------------
(* Overrides, in turn. *)

AllOverrides == [file : OverrideFiles] \cup Applicable

\* A document after an override.
Overridden(m, b, override) ==
  \A a \in Seq(Steps) :
    ~IsBelow(a, override) =>
      getPath(m, a) = IF Decides(a, override) THEN Decision(a, override) ELSE getPath(b, a)

\* An override file does to a document what the property says of it.
LEMMA FileIsExact ==
  ASSUME NEW b \in Maps \cup {NilDocument}, NEW file \in OverrideFiles
  PROVE  /\ DeepMerge(b, file) \in Maps /\ [file |-> file] \in AllOverrides
         /\ Overridden(DeepMerge(b, file), b, [file |-> file])
<1> DEFINE o == [file |-> file]
           m == DeepMerge(b, file)
<1>1. file \in Maps
  BY OverridesAssumption
<1>2. MergesTo(m, b, file, Depth)
  BY <1>1, MergeIsExact
<1>3. m \in Maps
  BY <1>2 DEF MergesTo, Maps
<1>4. o \in AllOverrides /\ o.file = file /\ IsFile(o)
  BY DEF AllOverrides, IsFile
<1> HIDE DEF m, o
<1>5. ASSUME NEW a \in Seq(Steps)
      PROVE  /\ IsBelow(a, o) <=> getPath(file, a).kind = "map"
             /\ Decides(a, o) <=> FileDecides(file, a)
             /\ Decision(a, o) = getPath(file, a)
  <2>1. IsBelow(a, o) <=> getPath(file, a).kind = "map"
    BY <1>4 DEF IsBelow
  <2>2. Decides(a, o) <=> FileDecides(file, a)
    BY <1>4, Zenon DEF Decides, FileDecides, Halts
  <2>3. Decision(a, o) = getPath(file, a)
    BY <1>4 DEF Decision
  <2>4. QED
    BY <2>1, <2>2, <2>3
<1>6. Overridden(m, b, o)
  BY <1>2, <1>5 DEF Overridden, MergesTo
<1>7. QED
  BY <1>3, <1>4, <1>6 DEF m, o

\* A path that is set does to a document what the property says of it.
LEMMA SettingIsExact ==
  ASSUME NEW b \in Maps, NEW setting \in Applicable
  PROVE  LET m == setPathRecursive(b, Address(setting.path), setting.value)
         IN m \in Maps /\ setting \in AllOverrides /\ Overridden(m, b, setting)
<1> DEFINE q == Address(setting.path)
           w == setting.value
           m == setPathRecursive(b, q, w)
<1>1. setting \in [path : Seq(Part), value : Leaves \ {Nothing}]
  BY OverridesAssumption DEF Applicable
<1>2. w \in Leaves /\ ~IsFile(setting) /\ setting \in AllOverrides
  BY <1>1 DEF IsFile, AllOverrides
<1>3. q \in Seq(Steps) /\ q # <<>> /\ q[1].at = 0 /\ Len(q) <= Depth
  BY AddressIsSeq
<1> HIDE DEF q, w
<1>4. m \in Maps /\ SetsTo(m, b, q, w)
  BY <1>2, <1>3, SetIsExact
<1> HIDE DEF m
<1>5. ASSUME NEW a \in Seq(Steps)
      PROVE  /\ IsBelow(a, setting) <=> IsStrictPrefix(a, q)
             /\ Decides(a, setting) <=> IsPrefix(q, a) \/ PartInKind(a, q)
             /\ Decision(a, setting) = IF IsPrefix(q, a) THEN getPath(w, After(q, a)) ELSE Nothing
  BY <1>2 DEF IsBelow, Decides, Decision, After, q, w
<1>6. Overridden(m, b, setting)
  BY <1>4, <1>5 DEF Overridden, SetsTo
<1>7. QED
  BY <1>2, <1>4, <1>6 DEF m, q, w

\* The last override that says something of an address has decided what is there.
IsDecided(a) ==
  \/ /\ \A i \in DOMAIN applied : ~Decides(a, applied[i])
     /\ getPath(base, a) = getPath(original, a)
  \/ \E i \in DOMAIN applied :
       /\ Decides(a, applied[i]) /\ \A j \in DOMAIN applied : Decides(a, applied[j]) => j <= i
       /\ getPath(base, a) = Decision(a, applied[i])

\* It holds of all addresses, those that are not looked at included.
OverridesInv ==
  /\ base \in Maps \cup {NilDocument}
  /\ applied \in Seq(AllOverrides)
  /\ \A a \in Seq(Steps) :
       (\A i \in DOMAIN applied : ~IsBelow(a, applied[i])) => IsDecided(a)

\* One more override of which that is true keeps the invariant.
LEMMA OverrideKeeps ==
  ASSUME OverridesInv, NEW override \in AllOverrides,
         base' \in Maps, Overridden(base', base, override),
         applied' = Append(applied, override), original' = original
  PROVE  OverridesInv'
<1> DEFINE n == Len(applied) + 1
<1>0. /\ Len(applied) \in Nat /\ DOMAIN applied = 1 .. Len(applied)
      /\ applied \in Seq(AllOverrides)
  BY LenProperties DEF OverridesInv
<1>1. /\ applied' \in Seq(AllOverrides) /\ Len(applied') = n /\ applied'[n] = override
      /\ \A i \in 1 .. Len(applied) : applied'[i] = applied[i]
  BY <1>0, AppendProperties
<1>2. DOMAIN applied' = 1 .. n
  BY <1>1, LenProperties
<1>3. /\ n \in DOMAIN applied' /\ DOMAIN applied \subseteq DOMAIN applied'
      /\ \A i \in DOMAIN applied' : i <= n /\ (i # n => i \in DOMAIN applied)
  BY <1>0, <1>2
<1> HIDE DEF n
<1>4. ASSUME NEW a \in Seq(Steps), \A i \in DOMAIN applied' : ~IsBelow(a, applied'[i])
      PROVE  IsDecided(a)'
  <2>1. ~IsBelow(a, override) /\ \A i \in DOMAIN applied : ~IsBelow(a, applied[i])
    BY <1>0, <1>1, <1>3, <1>4
  <2>2. getPath(base', a) = IF Decides(a, override) THEN Decision(a, override)
                            ELSE getPath(base, a)
    BY <2>1 DEF Overridden
  <2>3. CASE Decides(a, override)
    BY <1>1, <1>3, <2>2, <2>3 DEF IsDecided
  <2>4. CASE ~Decides(a, override)
    <3>1. getPath(base', a) = getPath(base, a) /\ IsDecided(a)
      BY <2>1, <2>2, <2>4 DEF OverridesInv
    <3>2. CASE \A i \in DOMAIN applied : ~Decides(a, applied[i])
      <4>1. \A i \in DOMAIN applied' : ~Decides(a, applied'[i])
        BY <1>0, <1>1, <1>3, <2>4, <3>2
      <4>2. getPath(base, a) = getPath(original, a)
        BY <3>1, <3>2 DEF IsDecided
      <4>3. QED
        BY <3>1, <4>1, <4>2 DEF IsDecided
    <3>3. CASE \E i \in DOMAIN applied : Decides(a, applied[i])
      <4>1. PICK i \in DOMAIN applied :
              /\ Decides(a, applied[i]) /\ \A j \in DOMAIN applied : Decides(a, applied[j]) => j <= i
              /\ getPath(base, a) = Decision(a, applied[i])
        BY <3>1, <3>3 DEF IsDecided
      <4>2. i \in DOMAIN applied' /\ applied'[i] = applied[i]
        BY <1>0, <1>1, <1>3
      <4>3. \A j \in DOMAIN applied' : Decides(a, applied'[j]) => j <= i
        BY <1>0, <1>1, <1>3, <2>4, <4>1
      <4>4. QED
        BY <3>1, <4>1, <4>2, <4>3 DEF IsDecided
    <3>4. QED
      BY <3>2, <3>3
  <2>5. QED
    BY <2>3, <2>4
<1>5. QED
  BY <1>1, <1>4 DEF OverridesInv

\* The invariant holds of a document without overrides.
LEMMA InitOverrides == OverridesInit => OverridesTypeOK /\ OverridesInv
<1> SUFFICES ASSUME OverridesInit PROVE OverridesTypeOK /\ OverridesInv
  OBVIOUS
<1>1. base \in Maps \cup {NilDocument} /\ original \in Documents /\ base = original
  BY OverridesAssumption DEF OverridesInit
<1>2. applied = <<>> /\ DOMAIN applied = {} /\ command = "merging" /\ MaxOverrides \in Nat
  BY OverridesAssumption DEF OverridesInit
<1>3. QED
  BY <1>1, <1>2 DEF OverridesTypeOK, OverridesInv, IsDecided

\* Every step of applyOverrides and applyLintOverrides keeps the invariant.
LEMMA NextOverrides ==
  OverridesTypeOK /\ OverridesInv /\ [OverridesNext]_overrideVars
    => OverridesTypeOK' /\ OverridesInv'
<1> SUFFICES ASSUME OverridesTypeOK, OverridesInv, [OverridesNext]_overrideVars
             PROVE  OverridesTypeOK' /\ OverridesInv'
  OBVIOUS
<1> USE DEF OverridesTypeOK
<1>0. MaxOverrides \in Nat /\ Len(applied) \in Nat
  BY OverridesAssumption, LenProperties
<1>1. ASSUME NEW file \in OverrideFiles, ApplyFile(file)
      PROVE  OverridesTypeOK' /\ OverridesInv'
  <2>1. /\ base' = DeepMerge(base, file) /\ applied' = Append(applied, [file |-> file])
        /\ original' = original /\ command' = command /\ Len(applied) < MaxOverrides
    BY <1>1 DEF ApplyFile
  <2>2. /\ base' \in Maps /\ [file |-> file] \in AllOverrides
        /\ Overridden(base', base, [file |-> file])
    BY <2>1, FileIsExact
  <2>3. applied' \in Seq([file : OverrideFiles] \cup Settings) /\ Len(applied') <= MaxOverrides
    BY <1>0, <2>1, AppendProperties
  <2>4. OverridesInv'
    BY <2>1, <2>2, OverrideKeeps
  <2>5. QED
    BY <2>1, <2>2, <2>3, <2>4
<1>2. ASSUME NEW setting \in Settings, ApplySet(setting)
      PROVE  OverridesTypeOK' /\ OverridesInv'
  <2>1. /\ base' = setPathRecursive(base, Address(setting.path), setting.value)
        /\ applied' = Append(applied, setting)
        /\ original' = original /\ command' = "setting" /\ Len(applied) < MaxOverrides
    BY <1>2 DEF ApplySet
  <2>2. base \in Maps /\ setting \in Applicable
    BY <1>2 DEF ApplySet, Panics, Applicable
  <2>3. base' \in Maps /\ setting \in AllOverrides /\ Overridden(base', base, setting)
    BY <2>1, <2>2, SettingIsExact
  <2>4. applied' \in Seq([file : OverrideFiles] \cup Settings) /\ Len(applied') <= MaxOverrides
    BY <1>0, <2>1, AppendProperties
  <2>5. OverridesInv'
    BY <2>1, <2>3, OverrideKeeps
  <2>6. QED
    BY <2>1, <2>3, <2>4, <2>5
<1>3. CASE \/ \E setting \in Settings : FailSet(setting)
           \/ FailFile
           \/ UNCHANGED overrideVars
  <2>1. UNCHANGED <<original, base, applied>> /\ command' \in {command, "failed"}
    BY <1>3 DEF FailSet, FailFile, overrideVars
  <2>2. OverridesInv'
    BY <2>1 DEF OverridesInv, IsDecided
  <2>3. QED
    BY <2>1, <2>2
<1>4. QED
  BY <1>1, <1>2, <1>3 DEF OverridesNext

\* Every variable of Overrides holds values of its kind: in particular the document
\* stays a map, or nil, and no deeper than its bound, whatever is merged and set.
THEOREM OverridesTypeOKHolds == OverridesSpec => []OverridesTypeOK
BY InitOverrides, NextOverrides, PTL DEF OverridesSpec

\* Of every document, override file, path and address: an address has what the last
\* override that says something of it decides, or else what dk.yaml has there.
THEOREM OverridesAreExactHolds == OverridesSpec => []OverridesAreExact
<1>1. OverridesInv => OverridesAreExact
  <2> SUFFICES ASSUME OverridesInv, NEW a \in Addresses,
                      \A i \in DOMAIN applied : ~IsBelow(a, applied[i])
               PROVE  LET deciding == {i \in DOMAIN applied : Decides(a, applied[i])}
                      IN getPath(base, a) =
                           IF deciding = {} THEN getPath(original, a)
                           ELSE Decision(a, applied[CHOOSE i \in deciding :
                                                      \A j \in deciding : j <= i])
    BY DEF OverridesAreExact
  <2> DEFINE deciding == {i \in DOMAIN applied : Decides(a, applied[i])}
             last == CHOOSE i \in deciding : \A j \in deciding : j <= i
  <2>1. a \in Seq(Steps) /\ IsDecided(a)
    BY OverridesAssumption DEF OverridesInv
  <2>2. CASE deciding = {}
    BY <2>1, <2>2 DEF IsDecided
  <2>3. CASE deciding # {}
    <3>1. PICK i \in DOMAIN applied :
            /\ Decides(a, applied[i]) /\ \A j \in DOMAIN applied : Decides(a, applied[j]) => j <= i
            /\ getPath(base, a) = Decision(a, applied[i])
      BY <2>1, <2>3 DEF IsDecided
    <3>2. i \in deciding /\ \A j \in deciding : j <= i
      BY <3>1
    <3>3. last \in deciding /\ \A j \in deciding : j <= last
      <4> HIDE DEF deciding
      <4> QED
        BY <3>2
    <3>4. deciding \subseteq Nat
      BY LenProperties DEF OverridesInv
    <3>5. last = i
      <4> HIDE DEF deciding, last
      <4> QED
        BY <3>2, <3>3, <3>4
    <3>6. QED
      BY <2>3, <3>1, <3>5
  <2>4. QED
    BY <2>2, <2>3
<1>2. QED
  BY <1>1, InitOverrides, NextOverrides, PTL DEF OverridesSpec
=============================================================================
