----------------------------- MODULE Induction -----------------------------
(***************************************************************************)
(* Induction over numbers, for the proof modules: lemmas about sets of     *)
(* numbers, since an induction theorem with an operator as its parameter   *)
(* cannot be used by the installed provers.                                *)
(***************************************************************************)
EXTENDS Naturals, FiniteSetTheorems, WellFoundedInduction, TLAPS

\* A set of numbers has a least one: the shortest of the intervals from 0.
LEMMA LeastNat ==
  ASSUME NEW T, T \subseteq Nat, T # {}
  PROVE  \E n \in T : \A m \in T : n <= m
<1> DEFINE R == StrictSubsetOrdering(Nat)
           I == {0 .. n : n \in T}
<1>1. IsWellFoundedOn(R, FiniteSubsetsOf(Nat))
  BY FS_StrictSubsetOrderingWellFounded
<1>2. ASSUME NEW x \in I PROVE x \in FiniteSubsetsOf(Nat)
  <2>1. PICK n \in T : x = 0 .. n
    OBVIOUS
  <2>2. IsFiniteSet(0 .. n) /\ 0 .. n \subseteq Nat
    BY FS_Interval
  <2>3. QED
    BY <2>1, <2>2 DEF FiniteSubsetsOf
<1>3. I \subseteq FiniteSubsetsOf(Nat) /\ I # {}
  BY <1>2
<1>4. PICK x \in I : \A y \in I : <<y, x>> \notin R
  <2> HIDE DEF R, I
  <2> QED
    BY <1>1, <1>3, WFMin
<1>5. PICK n \in T : x = 0 .. n
  OBVIOUS
<1>6. ASSUME NEW m \in T, m < n PROVE FALSE
  <2>1. 0 .. m \in I /\ 0 .. m \in SUBSET Nat /\ 0 .. n \in SUBSET Nat
    OBVIOUS
  <2>2. 0 .. m \subseteq 0 .. n /\ n \in 0 .. n /\ n \notin 0 .. m
    BY <1>6
  <2>3. <<0 .. m, 0 .. n>> \in R
    BY <2>1, <2>2 DEF StrictSubsetOrdering
  <2>4. QED
    BY <1>4, <1>5, <2>1, <2>3
<1>7. QED
  BY <1>6

\* Induction, of a set of numbers.
LEMMA AllNat ==
  ASSUME NEW T, T \subseteq Nat, 0 \in T, \A n \in T : n + 1 \in T
  PROVE  T = Nat
<1>1. SUFFICES ASSUME Nat \ T # {} PROVE FALSE
  OBVIOUS
<1>2. PICK n \in Nat \ T : \A m \in Nat \ T : n <= m
  BY <1>1, LeastNat
<1>3. n # 0 /\ n - 1 \in Nat /\ (n - 1) + 1 = n
  OBVIOUS
<1>4. n - 1 \in T
  BY <1>2, <1>3
<1>5. QED
  BY <1>3, <1>4

\* A function can be iterated.
LEMMA Iterates ==
  ASSUME NEW S, NEW s \in S, NEW F \in [S -> S]
  PROVE  \E f \in [Nat -> S] : f[0] = s /\ \A n \in Nat : f[n + 1] = F[f[n]]
<1> DEFINE UpTo(n) == {g \in [0 .. n -> S] :
                         g[0] = s /\ \A k \in 0 .. n : k < n => g[k + 1] = F[g[k]]}
           T == {n \in Nat : UpTo(n) # {}}
<1>1. 0 \in T
  <2>1. [k \in 0 .. 0 |-> s] \in UpTo(0)
    OBVIOUS
  <2>2. UpTo(0) # {}
    BY <2>1
  <2>3. QED
    BY <2>2
<1>2. ASSUME NEW n \in T PROVE n + 1 \in T
  <2>1. PICK g \in UpTo(n) : TRUE
    OBVIOUS
  <2> DEFINE h == [k \in 0 .. (n + 1) |-> IF k <= n THEN g[k] ELSE F[g[n]]]
  <2>2. \A k \in 0 .. n : g[k] \in S
    OBVIOUS
  <2>3. h \in [0 .. (n + 1) -> S]
    BY <2>2
  <2>4. h[0] = s /\ h[n + 1] = F[h[n]]
    OBVIOUS
  <2>5. ASSUME NEW k \in 0 .. (n + 1), k < n + 1 PROVE h[k + 1] = F[h[k]]
    <3>1. CASE k = n
      BY <2>4, <3>1
    <3>2. CASE k < n
      <4>1. g[k + 1] = F[g[k]]
        BY <2>5, <3>2
      <4>2. QED
        BY <3>2, <4>1
    <3>3. QED
      BY <2>5, <3>1, <3>2
  <2>6. h \in UpTo(n + 1)
    <3> HIDE DEF h
    <3> QED
      BY <2>3, <2>4, <2>5
  <2>7. UpTo(n + 1) # {}
    <3> HIDE DEF h, UpTo
    <3> QED
      BY <2>6
  <2>8. QED
    BY <2>7
<1>3. \A n \in Nat : UpTo(n) # {}
  <2>1. T = Nat
    <3> HIDE DEF T
    <3> QED
      BY <1>1, <1>2, AllNat DEF T
  <2> HIDE DEF UpTo
  <2> QED
    BY <2>1
<1>4. PICK G : \A n \in Nat : G[n] \in UpTo(n)
  <2> DEFINE H == [n \in Nat |-> CHOOSE g \in UpTo(n) : TRUE]
  <2> HIDE DEF UpTo
  <2>1. \A n \in Nat : (CHOOSE g \in UpTo(n) : TRUE) \in UpTo(n)
    BY <1>3
  <2>2. \A n \in Nat : H[n] \in UpTo(n)
    BY <2>1
  <2>3. QED
    BY <2>2
<1>5. ASSUME NEW n \in Nat PROVE G[n + 1][n] = G[n][n]
  <2> DEFINE E == {k \in Nat : k <= n => G[n + 1][k] = G[n][k]}
  <2>1. G[n] \in UpTo(n) /\ G[n + 1] \in UpTo(n + 1)
    BY <1>4
  <2>2. 0 \in E
    BY <2>1
  <2>3. ASSUME NEW k \in E PROVE k + 1 \in E
    BY <2>1
  <2>4. E = Nat
    <3> HIDE DEF E
    <3> QED
      BY <2>2, <2>3, AllNat DEF E
  <2>5. QED
    BY <2>4
<1> DEFINE f == [n \in Nat |-> G[n][n]]
<1>6. f \in [Nat -> S] /\ f[0] = s
  <2>1. \A n \in Nat : G[n][n] \in S
    BY <1>4
  <2>2. G[0][0] = s
    BY <1>4
  <2>3. QED
    BY <2>1, <2>2
<1>7. ASSUME NEW n \in Nat PROVE f[n + 1] = F[f[n]]
  <2>1. G[n + 1][n + 1] = F[G[n + 1][n]]
    BY <1>4
  <2> HIDE DEF UpTo
  <2>2. QED
    BY <1>5, <2>1
<1>8. QED
  <2> HIDE DEF f
  <2> QED
    BY <1>6, <1>7
=============================================================================
