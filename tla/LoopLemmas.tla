------------------------------ MODULE LoopLemmas ------------------------------
(***************************************************************************)
(* Least and greatest elements of sets of natural numbers, induction over  *)
(* a range and functions defined by recursion over one: what the proofs    *)
(* about the components rest on when they follow a loop of the code.       *)
(***************************************************************************)
EXTENDS Integers, FiniteSetTheorems, TLAPS

\* A set of natural numbers that is not empty has a least element.
LEMMA LeastNat ==
  ASSUME NEW T \in SUBSET Nat, T # {}
  PROVE  \E n \in T : \A m \in T : n <= m
<1> DEFINE Below(n) == 0 .. n - 1
           U == {Below(n) : n \in T}
<1>1. \A n \in Nat : Below(n) \in FiniteSubsetsOf(Nat)
  BY FS_Interval DEF FiniteSubsetsOf
<1>2. U \subseteq FiniteSubsetsOf(Nat) /\ U # {}
  BY <1>1
<1> HIDE DEF U
<1>3. PICK x \in U : \A y \in U : ~(<<y, x>> \in StrictSubsetOrdering(Nat))
  BY <1>2, FS_StrictSubsetOrderingWellFounded, WFMin
<1>4. PICK n \in T : x = Below(n)
  BY DEF U
<1>5. ASSUME NEW m \in T, ~(n <= m)
      PROVE  FALSE
  <2>1. Below(m) \subseteq Below(n) /\ Below(m) # Below(n)
    BY <1>5
  <2>2. <<Below(m), x>> \in StrictSubsetOrdering(Nat)
    BY <2>1, <1>4 DEF StrictSubsetOrdering
  <2> QED  BY <1>3, <2>2 DEF U
<1> QED  BY <1>5

\* One that is bounded has a greatest.
LEMMA GreatestNat ==
  ASSUME NEW T \in SUBSET Nat, T # {}, NEW b \in Nat, \A n \in T : n <= b
  PROVE  \E n \in T : \A m \in T : m <= n
<1> DEFINE D == {b - n : n \in T}
<1>1. D \in SUBSET Nat /\ D # {}
  <2>1. D \subseteq Nat
    OBVIOUS
  <2>2. PICK n \in T : TRUE
    OBVIOUS
  <2>3. b - n \in D
    OBVIOUS
  <2> QED  BY <2>1, <2>3
<1> HIDE DEF D
<1>2. PICK d \in D : \A e \in D : d <= e
  BY <1>1, LeastNat
<1>3. PICK n \in T : d = b - n
  BY DEF D
<1>4. ASSUME NEW m \in T PROVE m <= n
  <2>1. b - m \in D
    BY DEF D
  <2>2. b - n <= b - m
    BY <1>2, <1>3, <2>1
  <2> QED  BY <2>2
<1> QED  BY <1>4

\* A set that holds 0 and the successor of whatever it holds below a bound
\* holds every number up to it.
LEMMA SetInduction ==
  ASSUME NEW b \in Nat, NEW S, 0 \in S, \A n \in 0 .. b - 1 : n \in S => n + 1 \in S
  PROVE  0 .. b \subseteq S
<1> DEFINE Missing == (0 .. b) \ S
<1> SUFFICES ASSUME Missing # {} PROVE FALSE
  OBVIOUS
<1>0. Missing \in SUBSET Nat
  OBVIOUS
<1> HIDE DEF Missing
<1>1. PICK n \in Missing : \A m \in Missing : n <= m
  BY <1>0, LeastNat
<1> USE DEF Missing
<1>2. n # 0 /\ n - 1 \in 0 .. b - 1 /\ n - 1 \in S
  BY <1>1
<1> QED  BY <1>2

\* f holds the states of a loop of n turns: the first is base, and turn i makes
\* the next of the one before.
IsRun(f, S, base, n, step) ==
  /\ f \in [0 .. n -> S] /\ f[0] = base
  /\ \A i \in 1 .. n : f[i] = step[<<f[i - 1], i>>]

\* A loop of n turns, each of which makes a state of S from the one before,
\* has a history.
LEMMA RecursionExists ==
  ASSUME NEW S, NEW base \in S, NEW n \in Nat, NEW step \in [S \X (1 .. n) -> S]
  PROVE  \E f : IsRun(f, S, base, n, step)
<1> DEFINE Runs(m) == {f \in [0 .. m -> S] : /\ f[0] = base
                                             /\ \A i \in 1 .. m : f[i] = step[<<f[i - 1], i>>]}
           Turns == {m \in 0 .. n : Runs(m) # {}}
<1>1. 0 \in Turns
  <2>1. [i \in 0 .. 0 |-> base] \in Runs(0)
    OBVIOUS
  <2> QED  BY <2>1
<1>2. ASSUME NEW m \in 0 .. n - 1, m \in Turns PROVE m + 1 \in Turns
  <2>1. PICK f \in [0 .. m -> S] : f[0] = base /\ \A i \in 1 .. m : f[i] = step[<<f[i - 1], i>>]
    BY <1>2
  <2>2. m \in Nat /\ m + 1 \in 1 .. n /\ f[m] \in S
    OBVIOUS
  <2>3. step[<<f[m], m + 1>>] \in S
    BY <2>2
  <2> DEFINE h == [i \in 0 .. m + 1 |-> IF i <= m THEN f[i] ELSE step[<<f[m], m + 1>>]]
  <2>4. h \in [0 .. m + 1 -> S]
    BY <2>2, <2>3
  <2>5. h[0] = base
    BY <2>1, <2>2
  <2>6. ASSUME NEW i \in 1 .. m + 1 PROVE h[i] = step[<<h[i - 1], i>>]
    <3>1. i - 1 \in 0 .. m + 1 /\ i - 1 <= m /\ h[i - 1] = f[i - 1]
      BY <2>2
    <3>2. CASE i <= m
      BY <3>1, <3>2, <2>1
    <3>3. CASE ~(i <= m)
      <4>1. i = m + 1 /\ i - 1 = m
        BY <3>3, <2>2
      <4> QED  BY <4>1, <3>1, <3>3
    <3> QED  BY <3>2, <3>3
  <2>7. h \in Runs(m + 1)
    <3> HIDE DEF h
    <3> QED  BY <2>4, <2>5, <2>6
  <2>8. Runs(m + 1) # {} /\ m + 1 \in 0 .. n
    <3> HIDE DEF Runs
    <3> QED  BY <2>2, <2>7
  <2> QED  BY <2>8
<1>3. 0 .. n \subseteq Turns
  <2> HIDE DEF Turns
  <2> QED  BY <1>1, <1>2, SetInduction
<1>4. n \in Turns
  BY <1>3
<1> QED  BY <1>4 DEF IsRun

\* step makes a value of V of an element of S and of a function on S, and of the
\* function it looks at elements of less height only.
IsRecursion(S, V, H, step) ==
  /\ \A e \in S : H[e] \in Nat
  /\ step \in [S \X [S -> V] -> V]
  /\ \A e \in S : \A g, h \in [S -> V] :
       (\A k \in S : H[k] < H[e] => g[k] = h[k]) => step[<<e, g>>] = step[<<e, h>>]

Solves(f, S, V, step) == f \in [S -> V] /\ \A e \in S : f[e] = step[<<e, f>>]

\* A function defined by recursion along a height exists.
LEMMA HeightRecursion ==
  ASSUME NEW S, NEW V, V # {}, NEW H, NEW step, IsRecursion(S, V, H, step)
  PROVE  \E f : Solves(f, S, V, step)
<1>0. /\ \A e \in S : H[e] \in Nat
      /\ step \in [S \X [S -> V] -> V]
      /\ \A e \in S : \A g, h \in [S -> V] :
           (\A k \in S : H[k] < H[e] => g[k] = h[k]) => step[<<e, g>>] = step[<<e, h>>]
  BY DEF IsRecursion
<1> PICK v \in V : TRUE
  OBVIOUS
<1> USE <1>0
<1> DEFINE Sol(n) == {f \in [S -> V] : \A e \in S : H[e] < n => f[e] = step[<<e, f>>]}
<1>1. Sol(0) # {}
  <2>1. [e \in S |-> v] \in Sol(0)
    OBVIOUS
  <2> QED  BY <2>1
<1>2. ASSUME NEW n \in Nat, Sol(n) # {} PROVE Sol(n + 1) # {}
  <2>1. PICK f \in [S -> V] : \A e \in S : H[e] < n => f[e] = step[<<e, f>>]
    BY <1>2
  <2> DEFINE h == [e \in S |-> IF H[e] = n THEN step[<<e, f>>] ELSE f[e]]
  <2>2. h \in [S -> V]
    OBVIOUS
  <2>3. \A e \in S : h[e] = IF H[e] = n THEN step[<<e, f>>] ELSE f[e]
    OBVIOUS
  <2> HIDE DEF h
  <2>4. ASSUME NEW e \in S, H[e] < n + 1 PROVE h[e] = step[<<e, h>>]
    <3>0. H[e] \in Nat
      OBVIOUS
    <3>1. ASSUME NEW k \in S, H[k] < H[e] PROVE h[k] = f[k]
      <4>1. H[k] \in Nat /\ H[k] # n
        BY <2>4, <3>0, <3>1
      <4> QED  BY <2>3, <4>1
    <3>2. step[<<e, h>>] = step[<<e, f>>]
      BY <2>2, <3>1
    <3>3. H[e] = n \/ H[e] < n
      BY ONLY <2>4, <3>0, n \in Nat
    <3> QED  BY <2>1, <2>3, <3>2, <3>3
  <2> QED  BY <2>2, <2>4
<1>3. \A n \in Nat : Sol(n) # {}
  <2> DEFINE T == {n \in Nat : Sol(n) # {}}
  <2> HIDE DEF Sol
  <2>1. 0 \in T /\ \A n \in Nat : n \in T => n + 1 \in T
    BY <1>1, <1>2
  <2> HIDE DEF T
  <2>2. \A n \in Nat : 0 .. n \subseteq T
    BY <2>1, SetInduction
  <2> USE DEF T
  <2> QED  BY <2>2
<1>4. ASSUME NEW n \in Nat, NEW f \in Sol(n), NEW g \in Sol(n)
      PROVE  \A e \in S : H[e] < n => f[e] = g[e]
  <2> DEFINE T == {m \in Nat : m <= n => \A e \in S : H[e] < m => f[e] = g[e]}
  <2>1. 0 \in T
    OBVIOUS
  <2>2. ASSUME NEW m \in Nat, m \in T PROVE m + 1 \in T
    <3>1. ASSUME m + 1 <= n, NEW e \in S, H[e] < m + 1 PROVE f[e] = g[e]
      <4>1. \A k \in S : H[k] < H[e] => f[k] = g[k]
        BY <2>2, <3>1
      <4>2. step[<<e, f>>] = step[<<e, g>>]
        BY <4>1
      <4>3. H[e] < n
        BY <3>1
      <4> QED  BY <4>2, <4>3
    <3> QED  BY <3>1
  <2> HIDE DEF T
  <2>3. 0 .. n \subseteq T
    BY <2>1, <2>2, SetInduction
  <2>4. n \in T
    BY <2>3
  <2> QED  BY <2>4 DEF T
<1> DEFINE Up(e) == CHOOSE g \in Sol(H[e] + 1) : TRUE
           f == [e \in S |-> Up(e)[e]]
<1>5. ASSUME NEW e \in S
      PROVE  /\ Up(e) \in [S -> V] /\ Up(e) \in Sol(H[e] + 1)
             /\ Up(e)[e] = step[<<e, Up(e)>>]
             /\ \A k \in S : H[k] < H[e] => Up(e) \in Sol(H[k] + 1)
  <2>1. H[e] + 1 \in Nat
    OBVIOUS
  <2>2. Up(e) \in Sol(H[e] + 1)
    <3> HIDE DEF Sol
    <3> QED  BY <1>3, <2>1
  <2> HIDE DEF Up
  <2> QED  BY <2>2
<1> HIDE DEF Up
<1>6. f \in [S -> V] /\ \A e \in S : f[e] = Up(e)[e]
  BY <1>5
<1>7. ASSUME NEW e \in S PROVE f[e] = step[<<e, f>>]
  <2>1. ASSUME NEW k \in S, H[k] < H[e] PROVE f[k] = Up(e)[k]
    <3>1. Up(e) \in Sol(H[k] + 1) /\ Up(k) \in Sol(H[k] + 1) /\ H[k] + 1 \in Nat /\ H[k] < H[k] + 1
      <4>1. H[k] \in Nat
        OBVIOUS
      <4>2. H[k] + 1 \in Nat /\ H[k] < H[k] + 1
        BY <4>1
      <4> HIDE DEF Sol
      <4>3. Up(e) \in Sol(H[k] + 1)
        BY <1>5, <2>1
      <4>4. Up(k) \in Sol(H[k] + 1)
        BY <1>5
      <4> QED  BY <4>2, <4>3, <4>4
    <3>2. Up(e)[k] = Up(k)[k]
      <4> HIDE DEF Sol
      <4> QED  BY <1>4, <3>1
    <3> QED  BY <1>6, <3>2
  <2> HIDE DEF f
  <2>2. step[<<e, f>>] = step[<<e, Up(e)>>]
    BY <1>5, <1>6, <2>1
  <2> QED  BY <1>5, <1>6, <2>2
<1> HIDE DEF f
<1> QED  BY <1>6, <1>7 DEF Solves

\* A set that holds whatever it holds all below of, holds everything.
LEMMA HeightInduction ==
  ASSUME NEW S, NEW H, \A e \in S : H[e] \in Nat, NEW T,
         \A e \in S : (\A k \in S : H[k] < H[e] => k \in T) => e \in T
  PROVE  S \subseteq T
<1> DEFINE U == {n \in Nat : \A e \in S : H[e] < n => e \in T}
<1>1. 0 \in U
  OBVIOUS
<1>2. ASSUME NEW n \in Nat, n \in U PROVE n + 1 \in U
  <2>1. ASSUME NEW e \in S, H[e] < n + 1 PROVE e \in T
    <3>1. H[e] \in Nat
      OBVIOUS
    <3>2. ASSUME NEW k \in S, H[k] < H[e] PROVE k \in T
      <4>1. H[k] \in Nat /\ H[k] < n
        BY <2>1, <3>1, <3>2
      <4> QED  BY <1>2, <4>1
    <3> QED  BY <3>2
  <2> QED  BY <2>1
<1>3. ASSUME NEW e \in S PROVE e \in T
  <2>1. H[e] \in Nat /\ H[e] + 1 \in Nat /\ H[e] < H[e] + 1
    OBVIOUS
  <2> HIDE DEF U
  <2>2. 0 .. H[e] + 1 \subseteq U
    BY <1>1, <1>2, <2>1, SetInduction
  <2>3. H[e] + 1 \in U
    BY <2>1, <2>2
  <2> USE DEF U
  <2> QED  BY <2>1, <2>3
<1> QED  BY <1>3
=============================================================================
