----------------------------- MODULE DataProofs -----------------------------
(***************************************************************************)
(* Proofs about the terms of the checker and what is computed from them:   *)
(* Levels, then Exprs, then Envs.                                          *)
(*                                                                         *)
(* Levels: for any number of universe parameters, levels of any height and *)
(* any stack, what leq accepts holds, and it does not panic.  Its          *)
(* operators are recursive functions of the level; those of height n are   *)
(* LevelsUpto[n], so that an induction on heights shows that such          *)
(* functions exist and what they satisfy.  Simplify raises no height and   *)
(* changes no value, and leaves no imax over zero or a successor, which    *)
(* leq_core has no case for; a substitution is worth what the level is     *)
(* where the parameters have the values of what stands for them.  leq_core *)
(* is then sound by induction on the depth of its calls: each case is      *)
(* about values alone.                                                     *)
(*                                                                         *)
(* Exprs: for expressions of every height up to MaxHeight, every choice of *)
(* terms, types, shifts and substitutes among them, and sessions without   *)
(* bound, what is cached with an expression describes it, and lift, lower  *)
(* and instantiate give what the names of the variables say.  Its          *)
(* operators are recursive functions of the expression; those of height n  *)
(* are ExprsUpto[n], so that an induction on heights shows that such       *)
(* functions exist and what they satisfy, and an induction on expressions  *)
(* is one on heights.  What an expression means (Nameds) depends on the    *)
(* names of its free variables alone, which reduces each of lift, lower    *)
(* and instantiate to what it does to names; that a mask has a bit for     *)
(* each free variable gives the rest.                                      *)
(*                                                                         *)
(* Envs: for every context, every value, every mask, and every sharing of  *)
(* hashes and memo slots, in sessions without bound, pruning keeps what    *)
(* was asked for and no id changes its meaning.  A node gives values       *)
(* through the nodes before it, so what it gives (Lookups) and what is     *)
(* gathered from it (Gather) are recursive functions of its id; one pass   *)
(* over the ids shows that they exist and what they satisfy.  The          *)
(* invariant has the shape of the nodes (StoreOK), from which it follows   *)
(* that a mask says what its node holds, and that every table and answer   *)
(* of the session is right about the store as it is.  Every step appends   *)
(* (Grown), and what a node gives depends on the nodes before it alone, so *)
(* that what was right stays right.                                        *)
(***************************************************************************)
EXTENDS Levels, Exprs, Envs, LoopLemmas, SequenceTheorems

-----------------------------------------------------------------------------
(* Levels and their heights.                                               *)

\* Zero, the parameters and the levels made of those of s.
Made(s) ==
  {Zero} \cup {Param(p) : p \in Params} \cup ({"succ"} \X s) \cup ({"max", "imax"} \X s \X s)

\* LevelsUpto as far as n.
IsLevelsPart(f, n) == f = [m \in 0 .. n |-> IF m = 0 THEN {} ELSE Made(f[m - 1])]

LEMMA LevelsPartIs ==
  ASSUME NEW f, NEW n \in Nat, IsLevelsPart(f, n)
  PROVE  \A m \in 0 .. n : f[m] = IF m = 0 THEN {} ELSE Made(f[m - 1])
BY DEF IsLevelsPart

\* LevelsUpto exists and satisfies its definition.
LEMMA LevelsUptoIs ==
  /\ LevelsUpto[0] = {}
  /\ \A n \in Nat : LevelsUpto[n + 1] = Made(LevelsUpto[n])
<1> DEFINE Parts == {n \in Nat : \E f : IsLevelsPart(f, n)}
<1>1. 0 \in Parts
  <2>1. IsLevelsPart([m \in 0 .. 0 |-> {}], 0)
    BY DEF IsLevelsPart
  <2> QED  BY <2>1
<1>2. ASSUME NEW n \in Nat, n \in Parts PROVE n + 1 \in Parts
  <2>1. PICK f : IsLevelsPart(f, n)
    BY <1>2
  <2> DEFINE h == [m \in 0 .. n + 1 |-> IF m = n + 1 THEN Made(f[n]) ELSE f[m]]
  <2>2. ASSUME NEW m \in 0 .. n + 1 PROVE h[m] = IF m = 0 THEN {} ELSE Made(h[m - 1])
    <3>1. CASE m = n + 1
      <4>1. m # 0 /\ m - 1 = n /\ n \in 0 .. n + 1 /\ n # n + 1
        BY <3>1
      <4>2. h[m] = Made(f[n]) /\ h[n] = f[n]
        BY <3>1, <4>1
      <4> HIDE DEF h
      <4> QED  BY <4>1, <4>2
    <3>2. CASE m # n + 1
      <4>1. m \in 0 .. n /\ m - 1 # n + 1 /\ (m # 0 => m - 1 \in 0 .. n + 1)
        BY <3>2
      <4>2. h[m] = f[m] /\ (m # 0 => h[m - 1] = f[m - 1])
        BY <3>2, <4>1
      <4>3. f[m] = IF m = 0 THEN {} ELSE Made(f[m - 1])
        BY <2>1, <4>1, LevelsPartIs
      <4> HIDE DEF h
      <4> QED  BY <4>2, <4>3
    <3> QED  BY <3>1, <3>2
  <2>3. DOMAIN h = 0 .. n + 1 /\ h = [m \in 0 .. n + 1 |-> h[m]]
    OBVIOUS
  <2> HIDE DEF h
  <2>4. IsLevelsPart(h, n + 1)
    BY <2>2, <2>3 DEF IsLevelsPart
  <2> QED  BY <2>4
<1>3. ASSUME NEW n \in Nat PROVE n \in Parts
  <2> HIDE DEF Parts
  <2>1. 0 .. n \subseteq Parts
    BY <1>1, <1>2, SetInduction
  <2> QED  BY <2>1
<1>4. ASSUME NEW n \in Nat, NEW f, IsLevelsPart(f, n), NEW k \in Nat, NEW g, IsLevelsPart(g, k), n <= k
      PROVE  f[n] = g[n]
  <2> DEFINE T == {m \in Nat : m <= n => f[m] = g[m]}
  <2>1. 0 \in T
    <3>1. f[0] = {} /\ g[0] = {}
      BY <1>4, LevelsPartIs
    <3> QED  BY <3>1
  <2>2. ASSUME NEW m \in Nat, m \in T, m + 1 <= n PROVE f[m + 1] = g[m + 1]
    <3>1. m + 1 \in 0 .. n /\ m + 1 \in 0 .. k /\ m + 1 # 0 /\ (m + 1) - 1 = m
      BY <2>2, <1>4
    <3>2. f[m + 1] = Made(f[m])
      BY <3>1, <1>4, LevelsPartIs
    <3>3. g[m + 1] = Made(g[m])
      BY <3>1, <1>4, LevelsPartIs
    <3>4. f[m] = g[m]
      BY <2>2
    <3> QED  BY <3>2, <3>3, <3>4
  <2>3. \A m \in Nat : m \in T => m + 1 \in T
    BY <2>2
  <2>4. 0 .. n \subseteq T
    <3> HIDE DEF T
    <3> QED  BY <2>1, <2>3, SetInduction
  <2> QED  BY <2>4
<1> DEFINE Part(n) == CHOOSE f : IsLevelsPart(f, n)
           upto == [n \in Nat |-> Part(n)[n]]
<1>5. \A n \in Nat : IsLevelsPart(Part(n), n)
  BY <1>3
<1> HIDE DEF Part
<1>6. \A n \in Nat : upto[n] = Part(n)[n]
  OBVIOUS
<1>7. ASSUME NEW n \in Nat PROVE upto[n] = IF n = 0 THEN {} ELSE Made(upto[n - 1])
  <2>1. n \in 0 .. n
    OBVIOUS
  <2>2. Part(n)[n] = IF n = 0 THEN {} ELSE Made(Part(n)[n - 1])
    BY <2>1, <1>5, LevelsPartIs
  <2>3. n # 0 => Part(n - 1)[n - 1] = Part(n)[n - 1]
    <3>1. SUFFICES ASSUME n # 0 PROVE Part(n - 1)[n - 1] = Part(n)[n - 1]
      OBVIOUS
    <3>2. n - 1 \in Nat /\ n - 1 <= n
      BY <3>1
    <3> QED  BY <3>2, <1>4, <1>5
  <2>4. n # 0 => n - 1 \in Nat
    OBVIOUS
  <2> HIDE DEF upto
  <2> QED  BY <1>6, <2>2, <2>3, <2>4
<1>8. upto = [n \in Nat |-> IF n = 0 THEN {} ELSE Made(upto[n - 1])]
  BY <1>7
<1> DEFINE chosen == CHOOSE u : u = [n \in Nat |-> IF n = 0 THEN {} ELSE Made(u[n - 1])]
<1>9. chosen = [n \in Nat |-> IF n = 0 THEN {} ELSE Made(chosen[n - 1])]
  <2> HIDE DEF upto
  <2> QED  BY <1>8
<1>10. LevelsUpto = chosen
  BY DEF LevelsUpto, Made
<1> HIDE DEF chosen
<1>11. \A n \in Nat : chosen[n] = IF n = 0 THEN {} ELSE Made(chosen[n - 1])
  BY <1>9
<1>12. chosen[0] = {}
  BY <1>11
<1>13. ASSUME NEW n \in Nat PROVE chosen[n + 1] = Made(chosen[n])
  <2>1. n + 1 \in Nat /\ n + 1 # 0 /\ (n + 1) - 1 = n
    OBVIOUS
  <2> QED  BY <1>11, <2>1
<1> QED  BY <1>10, <1>12, <1>13

\* The trees of any height.
LEMMA ShapeIs ==
  /\ Op(Zero) = "zero"
  /\ \A p : Op(Param(p)) = "param" /\ Param(p)[2] = p
  /\ \A a : Op(Succ(a)) = "succ" /\ Succ(a)[2] = a
  /\ \A a, b : Op(Max(a, b)) = "max" /\ Max(a, b)[2] = a /\ Max(a, b)[3] = b
  /\ \A a, b : Op(IMax(a, b)) = "imax" /\ IMax(a, b)[2] = a /\ IMax(a, b)[3] = b
BY DEF Op, Zero, Param, Succ, Max, IMax

\* The children of a level.
Kids(x) ==
  IF Op(x) = "succ" THEN {x[2]} ELSE IF Op(x) \in {"max", "imax"} THEN {x[2], x[3]} ELSE {}

LEMMA MadeIs ==
  ASSUME NEW s
  PROVE  /\ Zero \in Made(s)
         /\ \A p \in Params : Param(p) \in Made(s)
         /\ \A a : Succ(a) \in Made(s) <=> a \in s
         /\ \A a, b : Max(a, b) \in Made(s) <=> a \in s /\ b \in s
         /\ \A a, b : IMax(a, b) \in Made(s) <=> a \in s /\ b \in s
<1>1. Zero \in Made(s) /\ \A p \in Params : Param(p) \in Made(s)
  BY DEF Made
<1>2. ASSUME NEW a PROVE Succ(a) \in Made(s) <=> a \in s
  <2>1. a \in s => Succ(a) \in Made(s)
    BY DEF Succ, Made
  <2>2. Succ(a) \in Made(s) => a \in s
    BY DEF Succ, Made, Zero, Param
  <2> QED  BY <2>1, <2>2
<1>3. ASSUME NEW a, NEW b PROVE Max(a, b) \in Made(s) <=> a \in s /\ b \in s
  BY DEF Max, Made, Zero, Param
<1>4. ASSUME NEW a, NEW b PROVE IMax(a, b) \in Made(s) <=> a \in s /\ b \in s
  BY DEF IMax, Made, Zero, Param
<1> QED  BY <1>1, <1>2, <1>3, <1>4

\* What a level made of s is.
LEMMA MadeOf ==
  ASSUME NEW s, NEW x \in Made(s)
  PROVE  /\ Op(x) \in {"zero", "param", "succ", "max", "imax"}
         /\ Op(x) = "zero" => x = Zero
         /\ Op(x) = "param" => x[2] \in Params /\ x = Param(x[2])
         /\ Op(x) = "succ" => x[2] \in s /\ x = Succ(x[2])
         /\ Op(x) = "max" => x[2] \in s /\ x[3] \in s /\ x = Max(x[2], x[3])
         /\ Op(x) = "imax" => x[2] \in s /\ x[3] \in s /\ x = IMax(x[2], x[3])
         /\ Kids(x) \subseteq s
<1>1. CASE x = Zero
  BY <1>1, ShapeIs DEF Kids
<1>2. CASE \E p \in Params : x = Param(p)
  BY <1>2, ShapeIs DEF Kids
<1>3. CASE \E a \in s : x = Succ(a)
  BY <1>3, ShapeIs DEF Kids
<1>4. CASE \E a, b \in s : x = Max(a, b)
  BY <1>4, ShapeIs DEF Kids
<1>5. CASE \E a, b \in s : x = IMax(a, b)
  BY <1>5, ShapeIs DEF Kids
<1>6. x \in {"succ"} \X s => \E a \in s : x = Succ(a)
  BY DEF Succ
<1>7. x \in {"max", "imax"} \X s \X s => \E a, b \in s : x = Max(a, b) \/ x = IMax(a, b)
  BY DEF Max, IMax
<1> QED  BY <1>1, <1>2, <1>3, <1>4, <1>5, <1>6, <1>7 DEF Made

LEMMA MadeGrows == ASSUME NEW s, NEW t, s \subseteq t PROVE Made(s) \subseteq Made(t)
BY DEF Made

LEMMA LevelsUptoNext == \A n \in Nat : LevelsUpto[n] \subseteq LevelsUpto[n + 1]
<1> DEFINE T == {n \in Nat : LevelsUpto[n] \subseteq LevelsUpto[n + 1]}
<1>1. 0 \in T
  BY LevelsUptoIs
<1>2. ASSUME NEW n \in Nat, n \in T PROVE n + 1 \in T
  <2>1. n + 1 \in Nat
    OBVIOUS
  <2>2. LevelsUpto[n + 1] = Made(LevelsUpto[n]) /\ LevelsUpto[(n + 1) + 1] = Made(LevelsUpto[n + 1])
    BY <2>1, LevelsUptoIs
  <2> QED  BY <1>2, <2>1, <2>2, MadeGrows
<1>3. ASSUME NEW n \in Nat PROVE n \in T
  <2> HIDE DEF T
  <2>1. 0 .. n \subseteq T
    BY <1>1, <1>2, SetInduction
  <2> QED  BY <2>1
<1> QED  BY <1>3

\* What has height n has every greater one.
LEMMA LevelsUptoGrows == \A m, n \in Nat : m <= n => LevelsUpto[m] \subseteq LevelsUpto[n]
<1> SUFFICES ASSUME NEW m \in Nat, NEW n \in Nat, m <= n PROVE LevelsUpto[m] \subseteq LevelsUpto[n]
  OBVIOUS
<1> DEFINE T == {k \in Nat : LevelsUpto[m] \subseteq LevelsUpto[m + k]}
<1>1. 0 \in T
  OBVIOUS
<1>2. ASSUME NEW k \in Nat, k \in T PROVE k + 1 \in T
  <2>1. m + k \in Nat /\ (m + k) + 1 = m + (k + 1)
    OBVIOUS
  <2>2. LevelsUpto[m + k] \subseteq LevelsUpto[(m + k) + 1]
    BY <2>1, LevelsUptoNext
  <2> QED  BY <1>2, <2>1, <2>2
<1>3. n - m \in Nat /\ m + (n - m) = n
  OBVIOUS
<1>4. n - m \in T
  <2> HIDE DEF T
  <2>1. 0 .. (n - m) \subseteq T
    BY <1>1, <1>2, <1>3, SetInduction
  <2> QED  BY <1>3, <2>1
<1> QED  BY <1>3, <1>4

\* A node of a tree, and the trees it has for children.

\* The levels of any height.
AllLevels == UNION {LevelsUpto[n] : n \in Nat}

LEMMA AllAre ==
  /\ Zero \in AllLevels
  /\ \A p \in Params : Param(p) \in AllLevels
  /\ \A a \in AllLevels : Succ(a) \in AllLevels
  /\ \A a, b \in AllLevels : Max(a, b) \in AllLevels /\ IMax(a, b) \in AllLevels
  /\ Levels \subseteq AllLevels
<1>1. \A n \in Nat : LevelsUpto[n] \subseteq AllLevels /\ LevelsUpto[n + 1] \subseteq AllLevels
  BY DEF AllLevels
<1>2. Zero \in AllLevels /\ \A p \in Params : Param(p) \in AllLevels
  <2>1. LevelsUpto[0 + 1] = Made(LevelsUpto[0])
    BY LevelsUptoIs
  <2>2. Zero \in LevelsUpto[0 + 1] /\ \A p \in Params : Param(p) \in LevelsUpto[0 + 1]
    BY <2>1, MadeIs
  <2> QED  BY <1>1, <2>2
<1>3. ASSUME NEW a \in AllLevels, NEW b \in AllLevels
      PROVE  Succ(a) \in AllLevels /\ Max(a, b) \in AllLevels /\ IMax(a, b) \in AllLevels
  <2>1. PICK m \in Nat, n \in Nat : a \in LevelsUpto[m] /\ b \in LevelsUpto[n]
    BY DEF AllLevels
  <2>2. PICK k \in Nat : m <= k /\ n <= k
    <3>1. m <= n \/ n <= m
      OBVIOUS
    <3> QED  BY <3>1
  <2>3. a \in LevelsUpto[k] /\ b \in LevelsUpto[k]
    BY <2>1, <2>2, LevelsUptoGrows
  <2>4. LevelsUpto[k + 1] = Made(LevelsUpto[k])
    BY LevelsUptoIs
  <2>5. Succ(a) \in LevelsUpto[k + 1] /\ Max(a, b) \in LevelsUpto[k + 1] /\ IMax(a, b) \in LevelsUpto[k + 1]
    BY <2>3, <2>4, MadeIs
  <2> QED  BY <1>1, <2>5
<1>4. Levels \subseteq AllLevels
  BY <1>1, LevelsAssumption DEF Levels
<1> QED  BY <1>2, <1>3, <1>4

\* What has a height is made of what has less.
LEMMA LevelNode ==
  ASSUME NEW n \in Nat, NEW x, x \in LevelsUpto[n]
  PROVE  n # 0 /\ n - 1 \in Nat /\ n = (n - 1) + 1 /\ x \in Made(LevelsUpto[n - 1])
<1>1. n # 0
  BY LevelsUptoIs
<1>2. n - 1 \in Nat /\ (n - 1) + 1 = n
  BY <1>1
<1> QED  BY <1>1, <1>2, LevelsUptoIs

LEMMA LevelIs ==
  ASSUME NEW x \in Levels
  PROVE  /\ Op(x) \in {"zero", "param", "succ", "max", "imax"}
         /\ Op(x) = "zero" => x = Zero
         /\ Op(x) = "param" => x[2] \in Params /\ x = Param(x[2])
         /\ Op(x) = "succ" => x[2] \in Levels /\ x = Succ(x[2])
         /\ Op(x) = "max" => x[2] \in Levels /\ x[3] \in Levels /\ x = Max(x[2], x[3])
         /\ Op(x) = "imax" => x[2] \in Levels /\ x[3] \in Levels /\ x = IMax(x[2], x[3])
         /\ Kids(x) \subseteq Levels
<1>1. MaxDepth \in Nat
  BY LevelsAssumption
<1>2. MaxDepth - 1 \in Nat /\ x \in Made(LevelsUpto[MaxDepth - 1])
  BY <1>1, LevelNode DEF Levels
<1>3. LevelsUpto[MaxDepth - 1] \subseteq Levels
  <2>1. MaxDepth - 1 <= MaxDepth
    BY <1>1
  <2> QED  BY <1>1, <1>2, <2>1, LevelsUptoGrows DEF Levels
<1>4. x \in Made(Levels)
  BY <1>2, <1>3, MadeGrows
<1> QED  BY <1>4, MadeOf

\* What a level is made of.
LEMMA LevelHas ==
  /\ Zero \in Levels
  /\ \A p \in Params : Param(p) \in Levels
  /\ \A a : Succ(a) \in Levels => a \in Levels
  /\ \A a, b : Max(a, b) \in Levels => a \in Levels /\ b \in Levels
  /\ \A a, b : IMax(a, b) \in Levels => a \in Levels /\ b \in Levels
<1>1. MaxDepth - 1 \in Nat /\ (MaxDepth - 1) + 1 = MaxDepth
  BY LevelsAssumption
<1>2. Levels = Made(LevelsUpto[MaxDepth - 1])
  BY <1>1, LevelsUptoIs DEF Levels
<1>3. Zero \in Levels /\ \A p \in Params : Param(p) \in Levels
  BY <1>2, MadeIs
<1>4. ASSUME NEW a, Succ(a) \in Levels PROVE a \in Levels
  BY <1>4, LevelIs, ShapeIs
<1>5. ASSUME NEW a, NEW b, Max(a, b) \in Levels PROVE a \in Levels /\ b \in Levels
  BY <1>5, LevelIs, ShapeIs
<1>6. ASSUME NEW a, NEW b, IMax(a, b) \in Levels PROVE a \in Levels /\ b \in Levels
  BY <1>6, LevelIs, ShapeIs
<1> QED  BY <1>3, <1>4, <1>5, <1>6

\* The height of a level, which its children have less of.
LevelHeight == [x \in Levels |->
             CHOOSE n \in Nat : x \in LevelsUpto[n] /\ \A m \in Nat : x \in LevelsUpto[m] => n <= m]

LEMMA LevelHeightIs ==
  ASSUME NEW x \in Levels
  PROVE  /\ LevelHeight[x] \in Nat /\ x \in LevelsUpto[LevelHeight[x]]
         /\ \A m \in Nat : x \in LevelsUpto[m] => LevelHeight[x] <= m
<1> DEFINE T == {n \in Nat : x \in LevelsUpto[n]}
<1>1. MaxDepth \in T
  BY LevelsAssumption DEF Levels
<1>2. T \in SUBSET Nat /\ T # {}
  BY <1>1
<1>3. PICK n \in T : \A m \in T : n <= m
  <2> HIDE DEF T
  <2> QED  BY <1>2, LeastNat
<1>4. n \in Nat /\ x \in LevelsUpto[n] /\ \A m \in Nat : x \in LevelsUpto[m] => n <= m
  BY <1>3
<1> DEFINE h == CHOOSE k \in Nat : x \in LevelsUpto[k] /\ \A m \in Nat : x \in LevelsUpto[m] => k <= m
<1>5. h \in Nat /\ x \in LevelsUpto[h] /\ \A m \in Nat : x \in LevelsUpto[m] => h <= m
  BY <1>4
<1>6. LevelHeight[x] = h
  BY DEF LevelHeight
<1> HIDE DEF h
<1> QED  BY <1>5, <1>6

LEMMA LevelHeightFalls ==
  ASSUME NEW x \in Levels, NEW k \in Kids(x)
  PROVE  k \in Levels /\ LevelHeight[k] < LevelHeight[x]
<1>1. LevelHeight[x] \in Nat /\ x \in LevelsUpto[LevelHeight[x]] /\ k \in Levels
  BY LevelHeightIs, LevelIs
<1>2. LevelHeight[x] - 1 \in Nat /\ Kids(x) \subseteq LevelsUpto[LevelHeight[x] - 1]
  BY <1>1, LevelNode, MadeOf
<1>3. LevelHeight[k] \in Nat /\ LevelHeight[k] <= LevelHeight[x] - 1
  BY <1>1, <1>2, LevelHeightIs
<1> QED  BY <1>1, <1>3

\* A set that holds every level whose children it holds, holds them all.
LEMMA LevelInduction ==
  ASSUME NEW T, \A x \in Levels : (\A k \in Kids(x) : k \in T) => x \in T
  PROVE  Levels \subseteq T
<1>1. \A x \in Levels : LevelHeight[x] \in Nat
  BY LevelHeightIs
<1>2. ASSUME NEW x \in Levels, \A k \in Levels : LevelHeight[k] < LevelHeight[x] => k \in T PROVE x \in T
  BY <1>2, LevelHeightFalls
<1> QED  BY <1>1, <1>2, HeightInduction

\* step makes the value of a level, and of the values of others looks at those
\* of its children only.
IsLevelStep(V, step) ==
  /\ step \in [Levels \X [Levels -> V] -> V]
  /\ \A x \in Levels : \A g, h \in [Levels -> V] :
       (\A k \in Kids(x) : g[k] = h[k]) => step[<<x, g>>] = step[<<x, h>>]

\* A function defined by recursion along levels exists.
LEMMA LevelRecursion ==
  ASSUME NEW V, V # {}, NEW step, IsLevelStep(V, step)
  PROVE  \E f : Solves(f, Levels, V, step)
<1>1. \A x \in Levels : LevelHeight[x] \in Nat
  BY LevelHeightIs
<1>2. ASSUME NEW x \in Levels, NEW g \in [Levels -> V], NEW h \in [Levels -> V],
             \A k \in Levels : LevelHeight[k] < LevelHeight[x] => g[k] = h[k]
      PROVE  step[<<x, g>>] = step[<<x, h>>]
  <2>1. \A k \in Kids(x) : g[k] = h[k]
    BY <1>2, LevelHeightFalls
  <2> QED  BY <2>1 DEF IsLevelStep
<1>3. IsRecursion(Levels, V, LevelHeight, step)
  <2> QED  BY <1>1, <1>2 DEF IsRecursion, IsLevelStep
<1> QED  BY <1>3, HeightRecursion

-----------------------------------------------------------------------------
(* The recursive functions of levels exist and satisfy their definitions:    *)
(* each is given by its values for the children (At).                        *)

ZeroAt(f, x) ==
  \/ Op(x) = "zero"
  \/ Op(x) = "max" /\ f[x[2]] /\ f[x[3]]
  \/ Op(x) = "imax" /\ f[x[3]]

LEMMA ZeroTyped == ASSUME NEW x, NEW f PROVE ZeroAt(f, x) \in BOOLEAN
BY DEF ZeroAt

LEMMA ZeroLocal ==
  ASSUME NEW x, NEW g, NEW h, \A k \in Kids(x) : g[k] = h[k]
  PROVE  ZeroAt(g, x) = ZeroAt(h, x)
BY DEF ZeroAt, Kids

\* IsAlwaysZero is such a function.
LEMMA IsAlwaysZeroIs ==
  /\ IsAlwaysZero \in [Levels -> BOOLEAN]
  /\ \A x \in Levels : IsAlwaysZero[x] = ZeroAt(IsAlwaysZero, x)
<1> DEFINE S == Levels
           V == BOOLEAN
           step == [y \in S \X [S -> V] |-> ZeroAt(y[2], y[1])]
<1>1. step \in [S \X [S -> V] -> V]
  <2>1. \A x \in S : \A g \in [S -> V] : ZeroAt(g, x) \in V
    BY ZeroTyped
  <2> QED  BY <2>1
<1>2. \A x \in S : \A g \in [S -> V] : step[<<x, g>>] = ZeroAt(g, x)
  OBVIOUS
<1> HIDE DEF step
<1>3. ASSUME NEW x \in S, NEW g \in [S -> V], NEW h \in [S -> V],
             \A k \in Kids(x) : g[k] = h[k]
      PROVE  step[<<x, g>>] = step[<<x, h>>]
  <2>1. ZeroAt(g, x) = ZeroAt(h, x)
    BY <1>3, ZeroLocal
  <2>2. step[<<x, g>>] = ZeroAt(g, x)
    BY <1>2
  <2>3. step[<<x, h>>] = ZeroAt(h, x)
    BY <1>2
  <2> QED  BY ONLY <2>1, <2>2, <2>3
<1>4. V # {}
  <2>1. TRUE \in V
    OBVIOUS
  <2> QED  BY <2>1
<1>5. IsLevelStep(V, step)
  BY <1>1, <1>3 DEF IsLevelStep
<1>6. PICK f : Solves(f, S, V, step)
  <2> HIDE DEF V
  <2> QED  BY ONLY <1>4, <1>5, LevelRecursion
<1>7. f \in [S -> V] /\ \A x \in S : f[x] = ZeroAt(f, x)
  BY <1>2, <1>6 DEF Solves
<1> HIDE DEF V
<1>8. f = [x \in S |-> ZeroAt(f, x)]
  BY <1>7
<1> DEFINE chosen == CHOOSE g : g = [x \in S |-> ZeroAt(g, x)]
<1>9. chosen = [x \in S |-> ZeroAt(chosen, x)]
  BY <1>8
<1>10. IsAlwaysZero = chosen
  BY DEF IsAlwaysZero, ZeroAt
<1> HIDE DEF chosen
<1>11. \A x \in S : chosen[x] = ZeroAt(chosen, x)
  BY <1>9
<1> DEFINE T == {x \in S : chosen[x] = f[x]}
<1>12. ASSUME NEW x \in S, \A k \in Kids(x) : k \in T PROVE x \in T
  <2>1. \A k \in Kids(x) : chosen[k] = f[k]
    BY <1>12
  <2>2. ZeroAt(chosen, x) = ZeroAt(f, x)
    BY <2>1, ZeroLocal
  <2> QED  BY <1>7, <1>11, <2>2
<1>13. S \subseteq T
  <2> HIDE DEF T
  <2> QED  BY <1>12, LevelInduction
<1>14. chosen = f
  BY <1>7, <1>9, <1>13
<1> QED  BY <1>7, <1>10, <1>14 DEF V

CombiningAt(f, l) ==
  [r \in Levels |->
     IF Op(l) = "zero" THEN r
     ELSE IF Op(r) = "zero" THEN l
     ELSE IF Op(l) = "succ" /\ Op(r) = "succ" THEN Succ(f[l[2]][r[2]])
     ELSE Max(l, r)]

LEMMA CombiningTyped ==
  ASSUME NEW l \in Levels, NEW f \in [Levels -> [Levels -> AllLevels]]
  PROVE  CombiningAt(f, l) \in [Levels -> AllLevels]
<1>1. ASSUME NEW r \in Levels
      PROVE  /\ l \in AllLevels /\ r \in AllLevels /\ Max(l, r) \in AllLevels
             /\ Op(l) = "succ" /\ Op(r) = "succ" => Succ(f[l[2]][r[2]]) \in AllLevels
  <2>1. l \in AllLevels /\ r \in AllLevels
    BY AllAre
  <2>2. Op(l) = "succ" /\ Op(r) = "succ" => f[l[2]][r[2]] \in AllLevels
    BY LevelIs
  <2> QED  BY <2>1, <2>2, AllAre
<1> QED  BY <1>1 DEF CombiningAt

LEMMA CombiningLocal ==
  ASSUME NEW x, NEW g, NEW h, \A k \in Kids(x) : g[k] = h[k]
  PROVE  CombiningAt(g, x) = CombiningAt(h, x)
BY DEF CombiningAt, Kids

\* Combining is such a function.
LEMMA CombiningIs ==
  /\ Combining \in [Levels -> [Levels -> AllLevels]]
  /\ \A x \in Levels : Combining[x] = CombiningAt(Combining, x)
<1> DEFINE S == Levels
           V == [Levels -> AllLevels]
           step == [y \in S \X [S -> V] |-> CombiningAt(y[2], y[1])]
<1>1. step \in [S \X [S -> V] -> V]
  <2>1. \A x \in S : \A g \in [S -> V] : CombiningAt(g, x) \in V
    BY CombiningTyped
  <2> QED  BY <2>1
<1>2. \A x \in S : \A g \in [S -> V] : step[<<x, g>>] = CombiningAt(g, x)
  OBVIOUS
<1> HIDE DEF step
<1>3. ASSUME NEW x \in S, NEW g \in [S -> V], NEW h \in [S -> V],
             \A k \in Kids(x) : g[k] = h[k]
      PROVE  step[<<x, g>>] = step[<<x, h>>]
  <2>1. CombiningAt(g, x) = CombiningAt(h, x)
    BY <1>3, CombiningLocal
  <2>2. step[<<x, g>>] = CombiningAt(g, x)
    BY <1>2
  <2>3. step[<<x, h>>] = CombiningAt(h, x)
    BY <1>2
  <2> QED  BY ONLY <2>1, <2>2, <2>3
<1>4. V # {}
  <2>1. [r \in Levels |-> Zero] \in V
    BY AllAre
  <2> QED  BY <2>1
<1>5. IsLevelStep(V, step)
  BY <1>1, <1>3 DEF IsLevelStep
<1>6. PICK f : Solves(f, S, V, step)
  <2> HIDE DEF V
  <2> QED  BY ONLY <1>4, <1>5, LevelRecursion
<1>7. f \in [S -> V] /\ \A x \in S : f[x] = CombiningAt(f, x)
  BY <1>2, <1>6 DEF Solves
<1> HIDE DEF V
<1>8. f = [x \in S |-> CombiningAt(f, x)]
  BY <1>7
<1> DEFINE chosen == CHOOSE g : g = [x \in S |-> CombiningAt(g, x)]
<1>9. chosen = [x \in S |-> CombiningAt(chosen, x)]
  BY <1>8
<1>10. Combining = chosen
  BY DEF Combining, CombiningAt
<1> HIDE DEF chosen
<1>11. \A x \in S : chosen[x] = CombiningAt(chosen, x)
  BY <1>9
<1> DEFINE T == {x \in S : chosen[x] = f[x]}
<1>12. ASSUME NEW x \in S, \A k \in Kids(x) : k \in T PROVE x \in T
  <2>1. \A k \in Kids(x) : chosen[k] = f[k]
    BY <1>12
  <2>2. CombiningAt(chosen, x) = CombiningAt(f, x)
    BY <2>1, CombiningLocal
  <2> QED  BY <1>7, <1>11, <2>2
<1>13. S \subseteq T
  <2> HIDE DEF T
  <2> QED  BY <1>12, LevelInduction
<1>14. chosen = f
  BY <1>7, <1>9, <1>13
<1> QED  BY <1>7, <1>10, <1>14 DEF V

ValueAt(f, x, e) ==
  IF Op(x) = "succ" THEN f[x[2]] + 1
  ELSE IF Op(x) = "max" \/ (Op(x) = "imax" /\ f[x[3]] # 0) THEN Greater(f[x[2]], f[x[3]])
  ELSE IF Op(x) = "param" THEN e[x[2]]
  ELSE 0

\* Value, as a function of a level.
ValueFn(e) == CHOOSE f : f = [x \in Levels |-> ValueAt(f, x, e)]

LEMMA GreaterIs ==
  \A m, n \in Nat : Greater(m, n) \in Nat /\ Greater(m, n) = IF m > n THEN m ELSE n
BY DEF Greater

LEMMA ValueTyped ==
  ASSUME NEW x \in Levels, NEW f \in [Levels -> Nat], NEW e \in [Params -> Nat]
  PROVE  ValueAt(f, x, e) \in Nat
<1>1. CASE Op(x) = "zero"
  BY <1>1 DEF ValueAt
<1>2. CASE Op(x) = "succ"
  BY <1>2, LevelIs DEF ValueAt
<1>3. CASE Op(x) = "max"
  <2>1. f[x[2]] \in Nat /\ f[x[3]] \in Nat
    BY <1>3, LevelIs
  <2> QED  BY <1>3, <2>1, GreaterIs DEF ValueAt
<1>4. CASE Op(x) = "imax"
  <2>1. f[x[2]] \in Nat /\ f[x[3]] \in Nat
    BY <1>4, LevelIs
  <2> QED  BY <1>4, <2>1, GreaterIs DEF ValueAt
<1>5. CASE Op(x) = "param"
  BY <1>5, LevelIs DEF ValueAt
<1> QED  BY <1>1, <1>2, <1>3, <1>4, <1>5, LevelIs

LEMMA ValueLocal ==
  ASSUME NEW x, NEW g, NEW h, \A k \in Kids(x) : g[k] = h[k], NEW e
  PROVE  ValueAt(g, x, e) = ValueAt(h, x, e)
<1>1. /\ Op(x) = "succ" => g[x[2]] = h[x[2]]
      /\ Op(x) \in {"max", "imax"} => g[x[2]] = h[x[2]] /\ g[x[3]] = h[x[3]]
  BY DEF Kids
<1> QED  BY <1>1 DEF ValueAt

\* ValueFn(e) is such a function.
LEMMA ValuesIs ==
  ASSUME NEW e \in [Params -> Nat]
  PROVE  /\ ValueFn(e) \in [Levels -> Nat]
         /\ \A x \in Levels : ValueFn(e)[x] = ValueAt(ValueFn(e), x, e)
<1> DEFINE S == Levels
           V == Nat
           step == [y \in S \X [S -> V] |-> ValueAt(y[2], y[1], e)]
<1>1. step \in [S \X [S -> V] -> V]
  <2>1. \A x \in S : \A g \in [S -> V] : ValueAt(g, x, e) \in V
    BY ValueTyped
  <2> QED  BY <2>1
<1>2. \A x \in S : \A g \in [S -> V] : step[<<x, g>>] = ValueAt(g, x, e)
  OBVIOUS
<1> HIDE DEF step
<1>3. ASSUME NEW x \in S, NEW g \in [S -> V], NEW h \in [S -> V],
             \A k \in Kids(x) : g[k] = h[k]
      PROVE  step[<<x, g>>] = step[<<x, h>>]
  <2>1. ValueAt(g, x, e) = ValueAt(h, x, e)
    BY <1>3, ValueLocal
  <2>2. step[<<x, g>>] = ValueAt(g, x, e)
    BY <1>2
  <2>3. step[<<x, h>>] = ValueAt(h, x, e)
    BY <1>2
  <2> QED  BY ONLY <2>1, <2>2, <2>3
<1>4. V # {}
  <2>1. 0 \in V
    OBVIOUS
  <2> QED  BY <2>1
<1>5. IsLevelStep(V, step)
  BY <1>1, <1>3 DEF IsLevelStep
<1>6. PICK f : Solves(f, S, V, step)
  <2> HIDE DEF V
  <2> QED  BY ONLY <1>4, <1>5, LevelRecursion
<1>7. f \in [S -> V] /\ \A x \in S : f[x] = ValueAt(f, x, e)
  BY <1>2, <1>6 DEF Solves
<1> HIDE DEF V
<1>8. f = [x \in S |-> ValueAt(f, x, e)]
  BY <1>7
<1> DEFINE chosen == CHOOSE g : g = [x \in S |-> ValueAt(g, x, e)]
<1>9. chosen = [x \in S |-> ValueAt(chosen, x, e)]
  BY <1>8
<1>10. ValueFn(e) = chosen
  BY DEF ValueFn
<1> HIDE DEF chosen
<1>11. \A x \in S : chosen[x] = ValueAt(chosen, x, e)
  BY <1>9
<1> DEFINE T == {x \in S : chosen[x] = f[x]}
<1>12. ASSUME NEW x \in S, \A k \in Kids(x) : k \in T PROVE x \in T
  <2>1. \A k \in Kids(x) : chosen[k] = f[k]
    BY <1>12
  <2>2. ValueAt(chosen, x, e) = ValueAt(f, x, e)
    BY <2>1, ValueLocal
  <2> QED  BY <1>7, <1>11, <2>2
<1>13. S \subseteq T
  <2> HIDE DEF T
  <2> QED  BY <1>12, LevelInduction
<1>14. chosen = f
  BY <1>7, <1>9, <1>13
<1> QED  BY <1>7, <1>10, <1>14 DEF V

LEMMA ValueIs == ASSUME NEW l, NEW e PROVE Value(l, e) = ValueFn(e)[l]
BY DEF Value, ValueFn, ValueAt

SubstAt(f, x, kv) ==
  IF Op(x) = "param" THEN SubstParam(x, kv[1], kv[2])
  ELSE IF Op(x) = "succ" THEN Succ(f[x[2]])
  ELSE IF Op(x) = "max" THEN Max(f[x[2]], f[x[3]])
  ELSE IF Op(x) = "imax" THEN IMax(f[x[2]], f[x[3]])
  ELSE Zero

\* SubstLevel, as a function of a level; kv has the parameters and what stands
\* for them.
SubstFn(kv) == CHOOSE f : f = [x \in Levels |-> SubstAt(f, x, kv)]

\* Levels stand for the parameters.
GivesLevels(kv) == kv \in Seq(AllLevels) \X Seq(AllLevels)

LEMMA SubstParamTyped ==
  ASSUME NEW l \in AllLevels, NEW kv, GivesLevels(kv)
  PROVE  SubstParam(l, kv[1], kv[2]) \in AllLevels
<1> DEFINE at == {i \in DOMAIN kv[1] \cap DOMAIN kv[2] : kv[1][i] = l}
           first == CHOOSE i \in at : \A j \in at : i <= j
<1>1. SubstParam(l, kv[1], kv[2]) = IF at = {} THEN l ELSE kv[2][first]
  BY DEF SubstParam
<1>2. at \in SUBSET Nat /\ \A i \in at : kv[2][i] \in AllLevels
  <2>1. kv[1] \in Seq(AllLevels) /\ kv[2] \in Seq(AllLevels)
    BY DEF GivesLevels
  <2> QED  BY <2>1
<1>3. at # {} => first \in at
  <2> HIDE DEF at
  <2> QED  BY <1>2, LeastNat
<1> HIDE DEF at, first
<1> QED  BY <1>1, <1>2, <1>3

LEMMA SubstTyped ==
  ASSUME NEW x \in Levels, NEW f \in [Levels -> AllLevels], NEW kv, GivesLevels(kv)
  PROVE  SubstAt(f, x, kv) \in AllLevels
<1>1. CASE Op(x) = "zero"
  BY <1>1, AllAre DEF SubstAt
<1>2. CASE Op(x) = "succ"
  BY <1>2, LevelIs, AllAre DEF SubstAt
<1>3. CASE Op(x) = "max"
  <2>1. f[x[2]] \in AllLevels /\ f[x[3]] \in AllLevels
    BY <1>3, LevelIs
  <2> QED  BY <1>3, <2>1, AllAre DEF SubstAt
<1>4. CASE Op(x) = "imax"
  <2>1. f[x[2]] \in AllLevels /\ f[x[3]] \in AllLevels
    BY <1>4, LevelIs
  <2> QED  BY <1>4, <2>1, AllAre DEF SubstAt
<1>5. CASE Op(x) = "param"
  <2>1. x \in AllLevels
    BY AllAre
  <2> QED  BY <1>5, <2>1, SubstParamTyped DEF SubstAt
<1> QED  BY <1>1, <1>2, <1>3, <1>4, <1>5, LevelIs

LEMMA SubstLocal ==
  ASSUME NEW x, NEW g, NEW h, \A k \in Kids(x) : g[k] = h[k], NEW kv
  PROVE  SubstAt(g, x, kv) = SubstAt(h, x, kv)
<1>1. /\ Op(x) = "succ" => g[x[2]] = h[x[2]]
      /\ Op(x) \in {"max", "imax"} => g[x[2]] = h[x[2]] /\ g[x[3]] = h[x[3]]
  BY DEF Kids
<1> QED  BY <1>1 DEF SubstAt

\* SubstFn(kv) is such a function.
LEMMA SubstsIs ==
  ASSUME NEW kv, GivesLevels(kv)
  PROVE  /\ SubstFn(kv) \in [Levels -> AllLevels]
         /\ \A x \in Levels : SubstFn(kv)[x] = SubstAt(SubstFn(kv), x, kv)
<1> DEFINE S == Levels
           V == AllLevels
           step == [y \in S \X [S -> V] |-> SubstAt(y[2], y[1], kv)]
<1>1. step \in [S \X [S -> V] -> V]
  <2>1. \A x \in S : \A g \in [S -> V] : SubstAt(g, x, kv) \in V
    BY SubstTyped
  <2> QED  BY <2>1
<1>2. \A x \in S : \A g \in [S -> V] : step[<<x, g>>] = SubstAt(g, x, kv)
  OBVIOUS
<1> HIDE DEF step
<1>3. ASSUME NEW x \in S, NEW g \in [S -> V], NEW h \in [S -> V],
             \A k \in Kids(x) : g[k] = h[k]
      PROVE  step[<<x, g>>] = step[<<x, h>>]
  <2>1. SubstAt(g, x, kv) = SubstAt(h, x, kv)
    BY <1>3, SubstLocal
  <2>2. step[<<x, g>>] = SubstAt(g, x, kv)
    BY <1>2
  <2>3. step[<<x, h>>] = SubstAt(h, x, kv)
    BY <1>2
  <2> QED  BY ONLY <2>1, <2>2, <2>3
<1>4. V # {}
  <2>1. Zero \in V
    BY AllAre
  <2> QED  BY <2>1
<1>5. IsLevelStep(V, step)
  BY <1>1, <1>3 DEF IsLevelStep
<1>6. PICK f : Solves(f, S, V, step)
  <2> HIDE DEF V
  <2> QED  BY ONLY <1>4, <1>5, LevelRecursion
<1>7. f \in [S -> V] /\ \A x \in S : f[x] = SubstAt(f, x, kv)
  BY <1>2, <1>6 DEF Solves
<1> HIDE DEF V
<1>8. f = [x \in S |-> SubstAt(f, x, kv)]
  BY <1>7
<1> DEFINE chosen == CHOOSE g : g = [x \in S |-> SubstAt(g, x, kv)]
<1>9. chosen = [x \in S |-> SubstAt(chosen, x, kv)]
  BY <1>8
<1>10. SubstFn(kv) = chosen
  BY DEF SubstFn
<1> HIDE DEF chosen
<1>11. \A x \in S : chosen[x] = SubstAt(chosen, x, kv)
  BY <1>9
<1> DEFINE T == {x \in S : chosen[x] = f[x]}
<1>12. ASSUME NEW x \in S, \A k \in Kids(x) : k \in T PROVE x \in T
  <2>1. \A k \in Kids(x) : chosen[k] = f[k]
    BY <1>12
  <2>2. SubstAt(chosen, x, kv) = SubstAt(f, x, kv)
    BY <2>1, SubstLocal
  <2> QED  BY <1>7, <1>11, <2>2
<1>13. S \subseteq T
  <2> HIDE DEF T
  <2> QED  BY <1>12, LevelInduction
<1>14. chosen = f
  BY <1>7, <1>9, <1>13
<1> QED  BY <1>7, <1>10, <1>14 DEF V

LEMMA SubstLevelIs == ASSUME NEW l, NEW ks, NEW vs PROVE SubstLevel(l, ks, vs) = SubstFn(<<ks, vs>>)[l]
<1>1. <<ks, vs>>[1] = ks /\ <<ks, vs>>[2] = vs
  OBVIOUS
<1> QED  BY DEF SubstLevel, SubstFn, SubstAt

UnderAt(f, x, kv) ==
  \/ Op(x) = "zero"
  \/ Op(x) = "param" /\ \E i \in DOMAIN kv[1] : kv[1][i] = x /\ IsAlwaysZero[kv[2][i]]
  \/ Op(x) = "max" /\ f[x[2]] /\ f[x[3]]
  \/ Op(x) = "imax" /\ f[x[3]]

\* IsZeroUnder, as a function of a level.
ZeroUnders(kv) == CHOOSE f : f = [x \in Levels |-> UnderAt(f, x, kv)]

LEMMA UnderTyped == ASSUME NEW x, NEW f, NEW kv PROVE UnderAt(f, x, kv) \in BOOLEAN
BY DEF UnderAt

LEMMA UnderLocal ==
  ASSUME NEW x, NEW g, NEW h, \A k \in Kids(x) : g[k] = h[k], NEW kv
  PROVE  UnderAt(g, x, kv) = UnderAt(h, x, kv)
<1>1. /\ Op(x) = "max" => g[x[2]] = h[x[2]] /\ g[x[3]] = h[x[3]]
      /\ Op(x) = "imax" => g[x[3]] = h[x[3]]
  BY DEF Kids
<1> QED  BY <1>1 DEF UnderAt

\* ZeroUnders(kv) is such a function.
LEMMA ZeroUndersIs ==
  ASSUME NEW kv
  PROVE  /\ ZeroUnders(kv) \in [Levels -> BOOLEAN]
         /\ \A x \in Levels : ZeroUnders(kv)[x] = UnderAt(ZeroUnders(kv), x, kv)
<1> DEFINE S == Levels
           V == BOOLEAN
           step == [y \in S \X [S -> V] |-> UnderAt(y[2], y[1], kv)]
<1>1. step \in [S \X [S -> V] -> V]
  <2>1. \A x \in S : \A g \in [S -> V] : UnderAt(g, x, kv) \in V
    BY UnderTyped
  <2> QED  BY <2>1
<1>2. \A x \in S : \A g \in [S -> V] : step[<<x, g>>] = UnderAt(g, x, kv)
  OBVIOUS
<1> HIDE DEF step
<1>3. ASSUME NEW x \in S, NEW g \in [S -> V], NEW h \in [S -> V],
             \A k \in Kids(x) : g[k] = h[k]
      PROVE  step[<<x, g>>] = step[<<x, h>>]
  <2>1. UnderAt(g, x, kv) = UnderAt(h, x, kv)
    BY <1>3, UnderLocal
  <2>2. step[<<x, g>>] = UnderAt(g, x, kv)
    BY <1>2
  <2>3. step[<<x, h>>] = UnderAt(h, x, kv)
    BY <1>2
  <2> QED  BY ONLY <2>1, <2>2, <2>3
<1>4. V # {}
  <2>1. TRUE \in V
    OBVIOUS
  <2> QED  BY <2>1
<1>5. IsLevelStep(V, step)
  BY <1>1, <1>3 DEF IsLevelStep
<1>6. PICK f : Solves(f, S, V, step)
  <2> HIDE DEF V
  <2> QED  BY ONLY <1>4, <1>5, LevelRecursion
<1>7. f \in [S -> V] /\ \A x \in S : f[x] = UnderAt(f, x, kv)
  BY <1>2, <1>6 DEF Solves
<1> HIDE DEF V
<1>8. f = [x \in S |-> UnderAt(f, x, kv)]
  BY <1>7
<1> DEFINE chosen == CHOOSE g : g = [x \in S |-> UnderAt(g, x, kv)]
<1>9. chosen = [x \in S |-> UnderAt(chosen, x, kv)]
  BY <1>8
<1>10. ZeroUnders(kv) = chosen
  BY DEF ZeroUnders
<1> HIDE DEF chosen
<1>11. \A x \in S : chosen[x] = UnderAt(chosen, x, kv)
  BY <1>9
<1> DEFINE T == {x \in S : chosen[x] = f[x]}
<1>12. ASSUME NEW x \in S, \A k \in Kids(x) : k \in T PROVE x \in T
  <2>1. \A k \in Kids(x) : chosen[k] = f[k]
    BY <1>12
  <2>2. UnderAt(chosen, x, kv) = UnderAt(f, x, kv)
    BY <2>1, UnderLocal
  <2> QED  BY <1>7, <1>11, <2>2
<1>13. S \subseteq T
  <2> HIDE DEF T
  <2> QED  BY <1>12, LevelInduction
<1>14. chosen = f
  BY <1>7, <1>9, <1>13
<1> QED  BY <1>7, <1>10, <1>14 DEF V

LEMMA IsZeroUnderIs == ASSUME NEW l, NEW ks, NEW vs PROVE IsZeroUnder(l, ks, vs) = ZeroUnders(<<ks, vs>>)[l]
<1>1. <<ks, vs>>[1] = ks /\ <<ks, vs>>[2] = vs
  OBVIOUS
<1> QED  BY DEF IsZeroUnder, ZeroUnders, UnderAt

-----------------------------------------------------------------------------
(* Simplification: it raises no height, so that it goes on being defined,    *)
(* and changes no value.                                                     *)

LEMMA CombiningZero ==
  ASSUME NEW l \in Levels, NEW r \in Levels, Op(l) = "zero"
  PROVE  Combining[l][r] = r
BY CombiningIs DEF CombiningAt

LEMMA CombiningRightZero ==
  ASSUME NEW l \in Levels, NEW r \in Levels, Op(l) # "zero", Op(r) = "zero"
  PROVE  Combining[l][r] = l
BY CombiningIs DEF CombiningAt

LEMMA CombiningSucc ==
  ASSUME NEW l \in Levels, NEW r \in Levels, Op(l) = "succ", Op(r) = "succ"
  PROVE  /\ l[2] \in Levels /\ r[2] \in Levels
         /\ Combining[l][r] = Succ(Combining[l[2]][r[2]])
<1>1. l[2] \in Levels /\ r[2] \in Levels
  BY LevelIs
<1> QED  BY <1>1, CombiningIs DEF CombiningAt

LEMMA CombiningOther ==
  ASSUME NEW l \in Levels, NEW r \in Levels, Op(l) # "zero", Op(r) # "zero",
         ~(Op(l) = "succ" /\ Op(r) = "succ")
  PROVE  Combining[l][r] = Max(l, r)
BY CombiningIs DEF CombiningAt

LEMMA LevelsUptoHas ==
  ASSUME NEW n \in Nat
  PROVE  /\ LevelsUpto[n] \subseteq LevelsUpto[n + 1]
         /\ Zero \in LevelsUpto[n + 1]
         /\ \A p \in Params : Param(p) \in LevelsUpto[n + 1]
         /\ \A a : Succ(a) \in LevelsUpto[n + 1] <=> a \in LevelsUpto[n]
         /\ \A a, b : Max(a, b) \in LevelsUpto[n + 1] <=> a \in LevelsUpto[n] /\ b \in LevelsUpto[n]
         /\ \A a, b : IMax(a, b) \in LevelsUpto[n + 1] <=> a \in LevelsUpto[n] /\ b \in LevelsUpto[n]
<1>1. LevelsUpto[n + 1] = Made(LevelsUpto[n])
  BY LevelsUptoIs
<1>2. LevelsUpto[n] \subseteq LevelsUpto[n + 1]
  BY LevelsUptoNext
<1> QED  BY <1>1, <1>2, MadeIs

LEMMA LowLevels == ASSUME NEW n \in Nat, n <= MaxDepth PROVE LevelsUpto[n] \subseteq Levels
<1>1. MaxDepth \in Nat
  BY LevelsAssumption
<1> QED  BY <1>1, LevelsUptoGrows DEF Levels

LEMMA CombiningUpto ==
  ASSUME NEW n \in Nat, n <= MaxDepth
  PROVE  \A l, r \in LevelsUpto[n] : Combining[l][r] \in LevelsUpto[n + 1]
<1> DEFINE Claim(m) == \A l, r \in LevelsUpto[m] : Combining[l][r] \in LevelsUpto[m + 1]
           T == {m \in Nat : m <= n => Claim(m)}
<1>1. 0 \in T
  BY LevelsUptoIs
<1>2. ASSUME NEW m \in Nat, m \in T PROVE m + 1 \in T
  <2> SUFFICES ASSUME m + 1 <= n, NEW l \in LevelsUpto[m + 1], NEW r \in LevelsUpto[m + 1]
               PROVE  Combining[l][r] \in LevelsUpto[(m + 1) + 1]
    OBVIOUS
  <2>1. m + 1 \in Nat /\ m + 1 <= MaxDepth /\ m <= n
    BY LevelsAssumption
  <2>2. l \in Levels /\ r \in Levels
    BY <2>1, LowLevels
  <2>3. l \in LevelsUpto[(m + 1) + 1] /\ r \in LevelsUpto[(m + 1) + 1] /\ Max(l, r) \in LevelsUpto[(m + 1) + 1]
    BY <2>1, LevelsUptoHas
  <2>4. CASE Op(l) = "succ" /\ Op(r) = "succ"
    <3>1. Combining[l][r] = Succ(Combining[l[2]][r[2]]) /\ l = Succ(l[2]) /\ r = Succ(r[2])
      BY <2>2, <2>4, CombiningSucc, LevelIs
    <3>2. l[2] \in LevelsUpto[m] /\ r[2] \in LevelsUpto[m]
      BY <3>1, LevelsUptoHas
    <3>3. Combining[l[2]][r[2]] \in LevelsUpto[m + 1]
      BY <1>2, <2>1, <3>2
    <3> QED  BY <2>1, <3>1, <3>3, LevelsUptoHas
  <2>5. CASE ~(Op(l) = "succ" /\ Op(r) = "succ")
    BY <2>2, <2>3, <2>5, CombiningZero, CombiningRightZero, CombiningOther
  <2> QED  BY <2>4, <2>5
<1>3. n \in T
  <2> HIDE DEF T
  <2>1. 0 .. n \subseteq T
    BY <1>1, <1>2, SetInduction
  <2> QED  BY <2>1
<1> QED  BY <1>3

LEMMA CollapseUpto ==
  ASSUME NEW n \in Nat, n <= MaxDepth, NEW l \in LevelsUpto[n], NEW r \in LevelsUpto[n]
  PROVE  Collapse(l, r) \in LevelsUpto[n + 1]
<1>1. r \in LevelsUpto[n + 1] /\ IMax(l, r) \in LevelsUpto[n + 1] /\ Combining[l][r] \in LevelsUpto[n + 1]
  BY LevelsUptoHas, CombiningUpto
<1> QED  BY <1>1 DEF Collapse

SimplifyAt(f, l) ==
  IF Op(l) = "succ" THEN Succ(f[l[2]])
  ELSE IF Op(l) = "max" THEN Combining[f[l[2]]][f[l[3]]]
  ELSE IF Op(l) = "imax" THEN Collapse(f[l[2]], f[l[3]])
  ELSE l

\* As far as it stays within the levels.
GuardedAt(f, l) == IF SimplifyAt(f, l) \in Levels THEN SimplifyAt(f, l) ELSE Zero

LEMMA GuardedTyped == ASSUME NEW x, NEW f PROVE GuardedAt(f, x) \in Levels
BY LevelHas DEF GuardedAt

LEMMA SimplifyLocal ==
  ASSUME NEW x, NEW g, NEW h, \A k \in Kids(x) : g[k] = h[k]
  PROVE  SimplifyAt(g, x) = SimplifyAt(h, x) /\ GuardedAt(g, x) = GuardedAt(h, x)
<1>1. /\ Op(x) = "succ" => g[x[2]] = h[x[2]]
      /\ Op(x) \in {"max", "imax"} => g[x[2]] = h[x[2]] /\ g[x[3]] = h[x[3]]
  BY DEF Kids
<1>2. SimplifyAt(g, x) = SimplifyAt(h, x)
  BY <1>1 DEF SimplifyAt
<1> QED  BY <1>2 DEF GuardedAt

\* A solution of either raises no height.
LEMMA SimplifyLow ==
  ASSUME NEW f, \A x \in Levels : f[x] = GuardedAt(f, x)
  PROVE  \A n \in Nat : n <= MaxDepth =>
           \A x \in LevelsUpto[n] : f[x] \in LevelsUpto[n] /\ f[x] = SimplifyAt(f, x)
<1> SUFFICES ASSUME NEW n \in Nat, n <= MaxDepth
             PROVE  \A x \in LevelsUpto[n] : f[x] \in LevelsUpto[n] /\ f[x] = SimplifyAt(f, x)
  OBVIOUS
<1> DEFINE Claim(m) == \A x \in LevelsUpto[m] : f[x] \in LevelsUpto[m] /\ f[x] = SimplifyAt(f, x)
           T == {m \in Nat : m <= n => Claim(m)}
<1>1. 0 \in T
  BY LevelsUptoIs
<1>2. ASSUME NEW m \in Nat, m \in T PROVE m + 1 \in T
  <2> SUFFICES ASSUME m + 1 <= n, NEW x \in LevelsUpto[m + 1]
               PROVE  f[x] \in LevelsUpto[m + 1] /\ f[x] = SimplifyAt(f, x)
    OBVIOUS
  <2>1. m + 1 \in Nat /\ m + 1 <= MaxDepth /\ m <= n /\ m <= MaxDepth
    BY LevelsAssumption
  <2>2. x \in Levels /\ LevelsUpto[m + 1] \subseteq Levels
    BY <2>1, LowLevels
  <2>3. \A y \in LevelsUpto[m] : f[y] \in LevelsUpto[m]
    BY <1>2, <2>1
  <2>4. SimplifyAt(f, x) \in LevelsUpto[m + 1]
    <3>1. CASE Op(x) = "succ"
      <4>1. x[2] \in LevelsUpto[m]
        BY <2>2, <3>1, LevelIs, LevelsUptoHas
      <4>2. f[x[2]] \in LevelsUpto[m]
        BY <2>3, <4>1
      <4>3. SimplifyAt(f, x) = Succ(f[x[2]])
        BY <3>1 DEF SimplifyAt
      <4>4. \A a \in LevelsUpto[m] : Succ(a) \in LevelsUpto[m + 1]
        BY LevelsUptoHas
      <4> QED  BY ONLY <4>2, <4>3, <4>4
    <3>2. CASE Op(x) = "max"
      <4>1. x[2] \in LevelsUpto[m] /\ x[3] \in LevelsUpto[m]
        BY <2>2, <3>2, LevelIs, LevelsUptoHas
      <4>2. f[x[2]] \in LevelsUpto[m] /\ f[x[3]] \in LevelsUpto[m]
        BY <2>3, <4>1
      <4>3. SimplifyAt(f, x) = Combining[f[x[2]]][f[x[3]]]
        BY <3>2 DEF SimplifyAt
      <4> QED  BY <2>1, <4>2, <4>3, CombiningUpto
    <3>3. CASE Op(x) = "imax"
      <4>1. x[2] \in LevelsUpto[m] /\ x[3] \in LevelsUpto[m]
        BY <2>2, <3>3, LevelIs, LevelsUptoHas
      <4>2. f[x[2]] \in LevelsUpto[m] /\ f[x[3]] \in LevelsUpto[m]
        BY <2>3, <4>1
      <4>3. SimplifyAt(f, x) = Collapse(f[x[2]], f[x[3]])
        BY <3>3 DEF SimplifyAt
      <4> QED  BY <2>1, <4>2, <4>3, CollapseUpto
    <3>4. CASE Op(x) \notin {"succ", "max", "imax"}
      BY <3>4 DEF SimplifyAt
    <3> QED  BY <3>1, <3>2, <3>3, <3>4
  <2> QED  BY <2>2, <2>4 DEF GuardedAt
<1>3. n \in T
  <2> HIDE DEF T
  <2>1. 0 .. n \subseteq T
    BY <1>1, <1>2, SetInduction
  <2> QED  BY <2>1
<1> QED  BY <1>3

\* Simplify is such a function.
LEMMA SimplifyIs ==
  /\ Simplify \in [Levels -> Levels]
  /\ \A x \in Levels : Simplify[x] = SimplifyAt(Simplify, x)
<1> DEFINE S == Levels
           step == [y \in S \X [S -> S] |-> GuardedAt(y[2], y[1])]
<1>1. step \in [S \X [S -> S] -> S]
  <2>1. \A x \in S : \A g \in [S -> S] : GuardedAt(g, x) \in S
    BY GuardedTyped
  <2> QED  BY <2>1
<1>2. \A x \in S : \A g \in [S -> S] : step[<<x, g>>] = GuardedAt(g, x)
  OBVIOUS
<1> HIDE DEF step
<1>3. ASSUME NEW x \in S, NEW g \in [S -> S], NEW h \in [S -> S], \A k \in Kids(x) : g[k] = h[k]
      PROVE  step[<<x, g>>] = step[<<x, h>>]
  <2>1. GuardedAt(g, x) = GuardedAt(h, x)
    BY <1>3, SimplifyLocal
  <2>2. step[<<x, g>>] = GuardedAt(g, x)
    BY <1>2
  <2>3. step[<<x, h>>] = GuardedAt(h, x)
    BY <1>2
  <2> QED  BY ONLY <2>1, <2>2, <2>3
<1>4. S # {}
  BY LevelHas
<1>5. IsLevelStep(S, step)
  BY <1>1, <1>3 DEF IsLevelStep
<1>6. PICK f : Solves(f, S, S, step)
  BY ONLY <1>4, <1>5, LevelRecursion
<1>7. f \in [S -> S] /\ \A x \in S : f[x] = GuardedAt(f, x)
  BY <1>2, <1>6 DEF Solves
<1>8. \A x \in S : f[x] = SimplifyAt(f, x)
  <2>1. MaxDepth \in Nat /\ MaxDepth <= MaxDepth
    BY LevelsAssumption
  <2> QED  BY <1>7, <2>1, SimplifyLow DEF Levels
<1>9. f = [x \in S |-> SimplifyAt(f, x)]
  BY <1>7, <1>8
<1> DEFINE chosen == CHOOSE g : g = [x \in S |-> SimplifyAt(g, x)]
<1>10. chosen = [x \in S |-> SimplifyAt(chosen, x)]
  BY <1>9
<1>11. Simplify = chosen
  BY DEF Simplify, SimplifyAt
<1> HIDE DEF chosen
<1>12. \A x \in S : chosen[x] = SimplifyAt(chosen, x)
  BY <1>10
<1> DEFINE T == {x \in S : chosen[x] = f[x]}
<1>13. ASSUME NEW x \in S, \A k \in Kids(x) : k \in T PROVE x \in T
  <2>1. \A k \in Kids(x) : chosen[k] = f[k]
    BY <1>13
  <2>2. SimplifyAt(chosen, x) = SimplifyAt(f, x)
    BY <2>1, SimplifyLocal
  <2> QED  BY <1>8, <1>12, <2>2
<1>14. S \subseteq T
  <2> HIDE DEF T
  <2> QED  BY <1>13, LevelInduction
<1>15. chosen = f
  BY <1>7, <1>10, <1>14
<1> QED  BY <1>7, <1>8, <1>11, <1>15

-----------------------------------------------------------------------------
(* What levels mean.                                                         *)

\* What the parameters may be given.
Assignments == [Params -> Nat]

LEMMA ValuationsAssign == Valuations \subseteq Assignments
<1>1. 0 .. MaxValue \subseteq Nat
  BY LevelsAssumption
<1> QED  BY <1>1 DEF Valuations, Assignments

LEMMA ValueNat == ASSUME NEW l \in Levels, NEW e \in Assignments PROVE Value(l, e) \in Nat
BY ValueIs, ValuesIs DEF Assignments

LEMMA ValueOf ==
  ASSUME NEW x \in Levels, NEW e \in Assignments
  PROVE  /\ Op(x) = "zero" => Value(x, e) = 0
         /\ Op(x) = "param" => Value(x, e) = e[x[2]]
         /\ Op(x) = "succ" => Value(x, e) = Value(x[2], e) + 1
         /\ Op(x) = "max" => Value(x, e) = Greater(Value(x[2], e), Value(x[3], e))
         /\ Op(x) = "imax" =>
              Value(x, e) = IF Value(x[3], e) = 0 THEN 0 ELSE Greater(Value(x[2], e), Value(x[3], e))
<1>1. \A y : Value(y, e) = ValueFn(e)[y]
  BY ValueIs
<1>2. ValueFn(e)[x] = ValueAt(ValueFn(e), x, e)
  BY ValuesIs DEF Assignments
<1>3. Op(x) = "zero" => ValueAt(ValueFn(e), x, e) = 0
  BY DEF ValueAt
<1>4. Op(x) = "param" => ValueAt(ValueFn(e), x, e) = e[x[2]]
  BY DEF ValueAt
<1>5. Op(x) = "succ" => ValueAt(ValueFn(e), x, e) = ValueFn(e)[x[2]] + 1
  BY DEF ValueAt
<1>6. Op(x) = "max" => ValueAt(ValueFn(e), x, e) = Greater(ValueFn(e)[x[2]], ValueFn(e)[x[3]])
  BY DEF ValueAt
<1>7. Op(x) = "imax" =>
        ValueAt(ValueFn(e), x, e) =
          IF ValueFn(e)[x[3]] = 0 THEN 0 ELSE Greater(ValueFn(e)[x[2]], ValueFn(e)[x[3]])
  BY DEF ValueAt
<1> QED  BY <1>1, <1>2, <1>3, <1>4, <1>5, <1>6, <1>7

LEMMA CombiningMeans ==
  ASSUME NEW l \in Levels, NEW e \in Assignments
  PROVE  \A r \in Levels : Combining[l][r] \in Levels =>
           Value(Combining[l][r], e) = Greater(Value(l, e), Value(r, e))
<1> DEFINE Claim(x) == \A r \in Levels : Combining[x][r] \in Levels =>
                         Value(Combining[x][r], e) = Greater(Value(x, e), Value(r, e))
           T == {x \in Levels : Claim(x)}
<1>1. ASSUME NEW x \in Levels, \A k \in Kids(x) : k \in T PROVE x \in T
  <2> SUFFICES ASSUME NEW r \in Levels, Combining[x][r] \in Levels
               PROVE  Value(Combining[x][r], e) = Greater(Value(x, e), Value(r, e))
    OBVIOUS
  <2>1. Value(x, e) \in Nat /\ Value(r, e) \in Nat
    BY ValueNat
  <2>2. CASE Op(x) = "zero"
    <3>1. Value(x, e) = 0 /\ Combining[x][r] = r
      BY <2>2, ValueOf, CombiningZero
    <3> QED  BY <2>1, <3>1, GreaterIs
  <2>3. CASE Op(x) # "zero" /\ Op(r) = "zero"
    <3>1. Value(r, e) = 0 /\ Combining[x][r] = x
      BY <2>3, ValueOf, CombiningRightZero
    <3> QED  BY <2>1, <3>1, GreaterIs
  <2>4. CASE Op(x) = "succ" /\ Op(r) = "succ"
    <3> DEFINE a == x[2]
               b == r[2]
               c == Combining[a][b]
    <3>1. a \in Levels /\ b \in Levels /\ Combining[x][r] = Succ(c)
      BY <2>4, CombiningSucc
    <3>2. c \in Levels
      BY <3>1, LevelHas
    <3>3. a \in T
      BY <1>1, <2>4 DEF Kids
    <3>4. Value(c, e) = Greater(Value(a, e), Value(b, e))
      BY <3>1, <3>2, <3>3
    <3>5. Value(x, e) = Value(a, e) + 1 /\ Value(r, e) = Value(b, e) + 1
      BY <2>4, ValueOf
    <3>6. Value(Succ(c), e) = Value(c, e) + 1
      BY <3>1, ValueOf, ShapeIs
    <3>7. Value(a, e) \in Nat /\ Value(b, e) \in Nat
      BY <3>1, ValueNat
    <3> HIDE DEF a, b, c
    <3>8. Greater(Value(a, e) + 1, Value(b, e) + 1) = Greater(Value(a, e), Value(b, e)) + 1
      BY ONLY <3>7 DEF Greater
    <3> QED  BY ONLY <3>1, <3>4, <3>5, <3>6, <3>8
  <2>5. CASE Op(x) # "zero" /\ Op(r) # "zero" /\ ~(Op(x) = "succ" /\ Op(r) = "succ")
    <3>1. Combining[x][r] = Max(x, r)
      BY <2>5, CombiningOther
    <3> QED  BY <3>1, ValueOf, ShapeIs
  <2> QED  BY <2>2, <2>3, <2>4, <2>5
<1>2. Levels \subseteq T
  <2> HIDE DEF T
  <2> QED  BY <1>1, LevelInduction
<1> QED  BY <1>2

\* A level that is always zero has the value 0; one that has it where no
\* parameter has is always zero.
LEMMA AlwaysZeroMeans ==
  ASSUME NEW l \in Levels, NEW e \in Assignments
  PROVE  /\ IsAlwaysZero[l] => Value(l, e) = 0
         /\ (\A p \in Params : e[p] # 0) /\ Value(l, e) = 0 => IsAlwaysZero[l]
<1> DEFINE Positive == \A p \in Params : e[p] # 0
           Claim(x) == /\ IsAlwaysZero[x] => Value(x, e) = 0
                       /\ Positive /\ Value(x, e) = 0 => IsAlwaysZero[x]
           T == {x \in Levels : Claim(x)}
<1>1. ASSUME NEW x \in Levels, \A k \in Kids(x) : k \in T PROVE x \in T
  <2>1. IsAlwaysZero[x] <=> ZeroAt(IsAlwaysZero, x)
    BY IsAlwaysZeroIs
  <2>2. CASE Op(x) = "zero"
    BY <2>1, <2>2, ValueOf DEF ZeroAt
  <2>3. CASE Op(x) = "param"
    <3>1. ~IsAlwaysZero[x] /\ Value(x, e) = e[x[2]] /\ x[2] \in Params
      BY <2>1, <2>3, ValueOf, LevelIs DEF ZeroAt
    <3> QED  BY <3>1
  <2>4. CASE Op(x) = "succ"
    <3>1. ~IsAlwaysZero[x]
      BY <2>1, <2>4 DEF ZeroAt
    <3>2. Value(x, e) = Value(x[2], e) + 1 /\ Value(x[2], e) \in Nat
      BY <2>4, ValueOf, ValueNat, LevelIs
    <3>3. Value(x, e) # 0
      BY ONLY <3>2
    <3> QED  BY <3>1, <3>3
  <2>5. CASE Op(x) = "max"
    <3>1. x[2] \in T /\ x[3] \in T
      BY <1>1, <2>5 DEF Kids
    <3>2. IsAlwaysZero[x] <=> IsAlwaysZero[x[2]] /\ IsAlwaysZero[x[3]]
      BY <2>1, <2>5 DEF ZeroAt
    <3>3. /\ Value(x, e) = Greater(Value(x[2], e), Value(x[3], e))
          /\ Value(x[2], e) \in Nat /\ Value(x[3], e) \in Nat
      BY <2>5, ValueOf, ValueNat, LevelIs
    <3>4. Value(x, e) = 0 <=> Value(x[2], e) = 0 /\ Value(x[3], e) = 0
      BY ONLY <3>3 DEF Greater
    <3> QED  BY <3>1, <3>2, <3>4
  <2>6. CASE Op(x) = "imax"
    <3>1. x[3] \in T
      BY <1>1, <2>6 DEF Kids
    <3>2. IsAlwaysZero[x] <=> IsAlwaysZero[x[3]]
      BY <2>1, <2>6 DEF ZeroAt
    <3>3. /\ Value(x, e) = IF Value(x[3], e) = 0 THEN 0 ELSE Greater(Value(x[2], e), Value(x[3], e))
          /\ Value(x[2], e) \in Nat /\ Value(x[3], e) \in Nat
      BY <2>6, ValueOf, ValueNat, LevelIs
    <3>4. Value(x, e) = 0 <=> Value(x[3], e) = 0
      BY ONLY <3>3 DEF Greater
    <3> QED  BY <3>1, <3>2, <3>4
  <2> QED  BY <2>2, <2>3, <2>4, <2>5, <2>6, LevelIs
<1>2. Levels \subseteq T
  <2> HIDE DEF T
  <2> QED  BY <1>1, LevelInduction
<1> QED  BY <1>2

LEMMA CollapseMeans ==
  ASSUME NEW l \in Levels, NEW r \in Levels, NEW e \in Assignments, Collapse(l, r) \in Levels
  PROVE  Value(Collapse(l, r), e) =
           IF Value(r, e) = 0 THEN 0 ELSE Greater(Value(l, e), Value(r, e))
<1>1. Value(l, e) \in Nat /\ Value(r, e) \in Nat
  BY ValueNat
<1>2. CASE IsAlwaysZero[l] \/ IsAlwaysOne(l)
  <2>1. Collapse(l, r) = r
    BY <1>2 DEF Collapse
  <2>2. Value(l, e) <= 1
    <3>1. CASE IsAlwaysZero[l]
      BY <3>1, <1>1, AlwaysZeroMeans
    <3>2. CASE IsAlwaysOne(l)
      <4>1. Op(l) = "succ" /\ IsAlwaysZero[l[2]]
        BY <3>2 DEF IsAlwaysOne
      <4>2. Value(l, e) = Value(l[2], e) + 1 /\ Value(l[2], e) = 0
        BY <4>1, ValueOf, AlwaysZeroMeans, LevelIs
      <4> QED  BY ONLY <4>2
    <3> QED  BY <1>2, <3>1, <3>2
  <2>3. Value(r, e) = IF Value(r, e) = 0 THEN 0 ELSE Greater(Value(l, e), Value(r, e))
    BY ONLY <1>1, <2>2 DEF Greater
  <2> QED  BY <2>1, <2>3
<1>3. CASE ~(IsAlwaysZero[l] \/ IsAlwaysOne(l)) /\ Op(r) = "zero"
  <2>1. Collapse(l, r) = r
    BY <1>3 DEF Collapse
  <2>2. Value(r, e) = 0
    BY <1>3, ValueOf
  <2> QED  BY <2>1, <2>2
<1>4. CASE ~(IsAlwaysZero[l] \/ IsAlwaysOne(l)) /\ Op(r) = "succ"
  <2>1. Collapse(l, r) = Combining[l][r]
    BY <1>4 DEF Collapse
  <2>2. Value(Combining[l][r], e) = Greater(Value(l, e), Value(r, e))
    BY <2>1, CombiningMeans
  <2>3. Value(r, e) = Value(r[2], e) + 1 /\ Value(r[2], e) \in Nat
    BY <1>4, ValueOf, ValueNat, LevelIs
  <2>4. Value(r, e) # 0
    BY ONLY <2>3
  <2> QED  BY <2>1, <2>2, <2>4
<1>5. CASE ~(IsAlwaysZero[l] \/ IsAlwaysOne(l)) /\ Op(r) \notin {"zero", "succ"}
  <2>1. Collapse(l, r) = IMax(l, r)
    BY <1>5 DEF Collapse
  <2> QED  BY <2>1, ValueOf, ShapeIs
<1> QED  BY <1>2, <1>3, <1>4, <1>5

LEMMA SimplifyMeans ==
  ASSUME NEW l \in Levels, NEW e \in Assignments
  PROVE  Simplify[l] \in Levels /\ Value(Simplify[l], e) = Value(l, e)
<1>0. \A x \in Levels : Simplify[x] \in Levels
  BY SimplifyIs
<1> DEFINE T == {x \in Levels : Value(Simplify[x], e) = Value(x, e)}
<1>1. ASSUME NEW x \in Levels, \A k \in Kids(x) : k \in T PROVE x \in T
  <2>1. Simplify[x] = SimplifyAt(Simplify, x) /\ Simplify[x] \in Levels
    BY SimplifyIs
  <2>2. CASE Op(x) = "succ"
    <3>1. Simplify[x] = Succ(Simplify[x[2]])
      BY <2>1, <2>2 DEF SimplifyAt
    <3>2. Value(Simplify[x], e) = Value(Simplify[x[2]], e) + 1
      BY <2>1, <3>1, ValueOf, ShapeIs
    <3>3. x[2] \in T
      BY <1>1, <2>2 DEF Kids
    <3> QED  BY <2>2, <3>2, <3>3, ValueOf
  <2>3. CASE Op(x) = "max"
    <3>1. Simplify[x] = Combining[Simplify[x[2]]][Simplify[x[3]]]
      BY <2>1, <2>3 DEF SimplifyAt
    <3>2. x[2] \in T /\ x[3] \in T
      BY <1>1, <2>3 DEF Kids
    <3>3. Simplify[x[2]] \in Levels /\ Simplify[x[3]] \in Levels
      BY <1>0, <3>2
    <3>4. Value(Simplify[x], e) = Greater(Value(Simplify[x[2]], e), Value(Simplify[x[3]], e))
      BY <2>1, <3>1, <3>3, CombiningMeans
    <3> QED  BY <2>3, <3>2, <3>4, ValueOf
  <2>4. CASE Op(x) = "imax"
    <3>1. Simplify[x] = Collapse(Simplify[x[2]], Simplify[x[3]])
      BY <2>1, <2>4 DEF SimplifyAt
    <3>2. x[2] \in T /\ x[3] \in T
      BY <1>1, <2>4 DEF Kids
    <3>3. Simplify[x[2]] \in Levels /\ Simplify[x[3]] \in Levels
      BY <1>0, <3>2
    <3>4. Value(Simplify[x], e) =
            IF Value(Simplify[x[3]], e) = 0 THEN 0
            ELSE Greater(Value(Simplify[x[2]], e), Value(Simplify[x[3]], e))
      BY <2>1, <3>1, <3>3, CollapseMeans
    <3> QED  BY <2>4, <3>2, <3>4, ValueOf
  <2>5. CASE Op(x) \notin {"succ", "max", "imax"}
    <3>1. Simplify[x] = x
      BY <2>1, <2>5 DEF SimplifyAt
    <3> QED  BY <3>1
  <2> QED  BY <2>2, <2>3, <2>4, <2>5
<1>2. Levels \subseteq T
  <2> HIDE DEF T
  <2> QED  BY <1>1, LevelInduction
<1> QED  BY <1>0, <1>2

-----------------------------------------------------------------------------
(* Substitution.                                                             *)

LEMMA SubstOf ==
  ASSUME NEW x \in Levels, NEW kv, GivesLevels(kv)
  PROVE  /\ Op(x) = "zero" => SubstFn(kv)[x] = Zero
         /\ Op(x) = "param" => SubstFn(kv)[x] = SubstParam(x, kv[1], kv[2])
         /\ Op(x) = "succ" => SubstFn(kv)[x] = Succ(SubstFn(kv)[x[2]])
         /\ Op(x) = "max" => SubstFn(kv)[x] = Max(SubstFn(kv)[x[2]], SubstFn(kv)[x[3]])
         /\ Op(x) = "imax" => SubstFn(kv)[x] = IMax(SubstFn(kv)[x[2]], SubstFn(kv)[x[3]])
<1>1. SubstFn(kv)[x] = SubstAt(SubstFn(kv), x, kv)
  BY SubstsIs
<1> QED  BY <1>1 DEF SubstAt

\* env gives the parameters what the levels that stand for them are worth at e,
\* as far as these are levels.
Carries(env, e, kv) ==
  \A p \in Params : SubstParam(Param(p), kv[1], kv[2]) \in Levels =>
                      env[p] = Value(SubstParam(Param(p), kv[1], kv[2]), e)

LEMMA SubstValue ==
  ASSUME NEW l \in Levels, NEW e \in Assignments, NEW env \in Assignments, NEW kv, GivesLevels(kv),
         Carries(env, e, kv)
  PROVE  SubstFn(kv)[l] \in Levels => Value(SubstFn(kv)[l], e) = Value(l, env)
<1> DEFINE s == SubstFn(kv)
           T == {x \in Levels : s[x] \in Levels => Value(s[x], e) = Value(x, env)}
<1>1. ASSUME NEW x \in Levels, \A k \in Kids(x) : k \in T PROVE x \in T
  <2> SUFFICES ASSUME s[x] \in Levels PROVE Value(s[x], e) = Value(x, env)
    OBVIOUS
  <2>1. CASE Op(x) = "zero"
    <3>1. s[x] = Zero
      BY <2>1, SubstOf
    <3> QED  BY <2>1, <3>1, ValueOf, ShapeIs
  <2>2. CASE Op(x) = "param"
    <3>1. s[x] = SubstParam(Param(x[2]), kv[1], kv[2]) /\ x[2] \in Params
      BY <2>2, SubstOf, LevelIs
    <3>2. Value(x, env) = env[x[2]]
      BY <2>2, ValueOf
    <3> HIDE DEF s
    <3> QED  BY <3>1, <3>2 DEF Carries
  <2>3. CASE Op(x) = "succ"
    <3>1. s[x] = Succ(s[x[2]]) /\ x[2] \in T
      BY <1>1, <2>3, SubstOf DEF Kids
    <3> HIDE DEF s
    <3>2. s[x[2]] \in Levels
      BY <3>1, LevelHas
    <3>3. Value(s[x[2]], e) = Value(x[2], env)
      BY <3>1, <3>2
    <3>4. Value(s[x], e) = Value(s[x[2]], e) + 1
      BY <3>1, ValueOf, ShapeIs
    <3> QED  BY <2>3, <3>3, <3>4, ValueOf
  <2>4. CASE Op(x) = "max"
    <3>1. s[x] = Max(s[x[2]], s[x[3]]) /\ x[2] \in T /\ x[3] \in T
      BY <1>1, <2>4, SubstOf DEF Kids
    <3> HIDE DEF s
    <3>2. s[x[2]] \in Levels /\ s[x[3]] \in Levels
      BY <3>1, LevelHas
    <3>3. Value(s[x[2]], e) = Value(x[2], env) /\ Value(s[x[3]], e) = Value(x[3], env)
      BY <3>1, <3>2
    <3>4. Value(s[x], e) = Greater(Value(s[x[2]], e), Value(s[x[3]], e))
      BY <3>1, ValueOf, ShapeIs
    <3> QED  BY <2>4, <3>3, <3>4, ValueOf
  <2>5. CASE Op(x) = "imax"
    <3>1. s[x] = IMax(s[x[2]], s[x[3]]) /\ x[2] \in T /\ x[3] \in T
      BY <1>1, <2>5, SubstOf DEF Kids
    <3> HIDE DEF s
    <3>2. s[x[2]] \in Levels /\ s[x[3]] \in Levels
      BY <3>1, LevelHas
    <3>3. Value(s[x[2]], e) = Value(x[2], env) /\ Value(s[x[3]], e) = Value(x[3], env)
      BY <3>1, <3>2
    <3>4. Value(s[x], e) = IF Value(s[x[3]], e) = 0 THEN 0
                           ELSE Greater(Value(s[x[2]], e), Value(s[x[3]], e))
      BY <3>1, ValueOf, ShapeIs
    <3> QED  BY <2>5, <3>3, <3>4, ValueOf
  <2> QED  BY <2>1, <2>2, <2>3, <2>4, <2>5, LevelIs
<1>2. Levels \subseteq T
  <2> HIDE DEF T
  <2> QED  BY <1>1, LevelInduction
<1> QED  BY <1>2

LEMMA ParamInjective == \A p, q : Param(p) = Param(q) => p = q
BY ShapeIs

\* One parameter is replaced.
LEMMA SubstOne ==
  ASSUME NEW p, NEW q, NEW v
  PROVE  SubstParam(Param(p), <<Param(q)>>, <<v>>) = IF p = q THEN v ELSE Param(p)
<1> DEFINE ks == <<Param(q)>>
           vs == <<v>>
           at == {i \in DOMAIN ks \cap DOMAIN vs : ks[i] = Param(p)}
           first == CHOOSE i \in at : \A j \in at : i <= j
<1>1. SubstParam(Param(p), ks, vs) = IF at = {} THEN Param(p) ELSE vs[first]
  BY DEF SubstParam
<1>2. DOMAIN ks = {1} /\ DOMAIN vs = {1} /\ ks[1] = Param(q) /\ vs[1] = v
  OBVIOUS
<1>3. CASE p = q
  <2>1. at = {1}
    BY <1>2, <1>3
  <2>2. 1 \in at /\ \A j \in at : 1 <= j
    BY <2>1
  <2>3. first \in at
    <3> HIDE DEF at
    <3> QED  BY <2>2
  <2>4. first = 1
    <3> HIDE DEF at, first
    <3> QED  BY <2>1, <2>3
  <2> HIDE DEF at, first
  <2> QED  BY <1>1, <1>2, <1>3, <2>1, <2>4
<1>4. CASE p # q
  <2>1. at = {}
    BY <1>2, <1>4, ParamInjective
  <2> HIDE DEF at, first
  <2> QED  BY <1>1, <1>4, <2>1
<1> QED  BY <1>3, <1>4

LEMMA ParamsAre ==
  /\ DOMAIN Uparams \in SUBSET Nat
  /\ \A i \in DOMAIN Uparams : Uparams[i] \in Params
  /\ \A p \in Params : \E i \in DOMAIN Uparams : Uparams[i] = p /\ \A j \in DOMAIN Uparams : Uparams[j] = p => j = i
<1>1. DOMAIN Uparams \in SUBSET Nat
  BY LevelsAssumption
<1> QED  BY <1>1, LevelsAssumption DEF Params

\* The place of a parameter among those of the declaration.
Place(p) == CHOOSE i \in DOMAIN Uparams : Uparams[i] = p

LEMMA PlaceIs ==
  ASSUME NEW p \in Params
  PROVE  /\ Place(p) \in DOMAIN Uparams /\ Uparams[Place(p)] = p
         /\ \A j \in DOMAIN Uparams : Uparams[j] = p => j = Place(p)
<1>1. PICK i \in DOMAIN Uparams : Uparams[i] = p /\ \A j \in DOMAIN Uparams : Uparams[j] = p => j = i
  BY ParamsAre
<1>2. Place(p) \in DOMAIN Uparams /\ Uparams[Place(p)] = p
  BY <1>1 DEF Place
<1> QED  BY <1>1, <1>2

\* Those of a use stand for all of them.
LEMMA SubstAll ==
  ASSUME NEW p \in Params, NEW vs, DOMAIN vs = DOMAIN Uparams
  PROVE  /\ SubstParam(Param(p), Ks, vs) = vs[Place(p)]
         /\ DOMAIN Ks = DOMAIN Uparams
         /\ \A j \in DOMAIN Ks : Ks[j] = Param(p) <=> j = Place(p)
<1> DEFINE at == {i \in DOMAIN Ks \cap DOMAIN vs : Ks[i] = Param(p)}
           first == CHOOSE i \in at : \A j \in at : i <= j
<1>1. SubstParam(Param(p), Ks, vs) = IF at = {} THEN Param(p) ELSE vs[first]
  BY DEF SubstParam
<1>2. DOMAIN Ks = DOMAIN Uparams /\ \A j \in DOMAIN Uparams : Ks[j] = Param(Uparams[j])
  BY DEF Ks
<1>3. \A j \in DOMAIN Ks : Ks[j] = Param(p) <=> j = Place(p)
  BY <1>2, PlaceIs, ParamInjective
<1>4. at = {Place(p)}
  BY <1>2, <1>3, PlaceIs
<1>5. Place(p) \in Nat
  BY PlaceIs, ParamsAre
<1> HIDE DEF at
<1>6. first \in at
  <2>1. Place(p) \in at /\ \A j \in at : Place(p) <= j
    BY <1>4, <1>5
  <2> QED  BY <2>1
<1>7. first = Place(p)
  <2> HIDE DEF first
  <2> QED  BY <1>4, <1>6
<1> HIDE DEF first
<1> QED  BY <1>1, <1>2, <1>3, <1>4, <1>7

\* A use is told to be zero exactly if it is always zero.
LEMMA UnderMeans ==
  ASSUME NEW l \in Levels, NEW vs \in Seq(AllLevels), DOMAIN vs = DOMAIN Uparams,
         GivesLevels(<<Ks, vs>>)
  PROVE  SubstFn(<<Ks, vs>>)[l] \in Levels =>
           (ZeroUnders(<<Ks, vs>>)[l] <=> IsAlwaysZero[SubstFn(<<Ks, vs>>)[l]])
<1> DEFINE kv == <<Ks, vs>>
           s == SubstFn(kv)
           z == ZeroUnders(kv)
           T == {x \in Levels : s[x] \in Levels => (z[x] <=> IsAlwaysZero[s[x]])}
<1>0. kv[1] = Ks /\ kv[2] = vs /\ GivesLevels(kv)
  OBVIOUS
<1> HIDE DEF kv
<1>1. ASSUME NEW x \in Levels, \A k \in Kids(x) : k \in T PROVE x \in T
  <2> SUFFICES ASSUME s[x] \in Levels PROVE z[x] <=> IsAlwaysZero[s[x]]
    OBVIOUS
  <2>0. z[x] <=> UnderAt(z, x, kv)
    BY ZeroUndersIs
  <2>00. IsAlwaysZero[s[x]] <=> ZeroAt(IsAlwaysZero, s[x])
    BY IsAlwaysZeroIs
  <2>1. CASE Op(x) = "zero"
    <3>1. s[x] = Zero
      BY <1>0, <2>1, SubstOf
    <3> QED  BY <2>0, <2>00, <2>1, <3>1, ShapeIs DEF UnderAt, ZeroAt
  <2>2. CASE Op(x) = "param"
    <3>1. x[2] \in Params /\ x = Param(x[2])
      BY <2>2, LevelIs
    <3>2. s[x] = SubstParam(x, Ks, vs)
      BY <1>0, <2>2, SubstOf
    <3>3. /\ SubstParam(x, Ks, vs) = vs[Place(x[2])] /\ DOMAIN Ks = DOMAIN Uparams
          /\ \A j \in DOMAIN Ks : Ks[j] = x <=> j = Place(x[2])
      BY <3>1, SubstAll
    <3>4. Place(x[2]) \in DOMAIN Ks
      BY <3>1, <3>3, PlaceIs
    <3>5. z[x] <=> \E i \in DOMAIN Ks : Ks[i] = x /\ IsAlwaysZero[vs[i]]
      BY <1>0, <2>0, <2>2 DEF UnderAt
    <3> HIDE DEF s, z
    <3> QED  BY <3>2, <3>3, <3>4, <3>5
  <2>3. CASE Op(x) = "succ"
    <3>1. s[x] = Succ(s[x[2]])
      BY <1>0, <2>3, SubstOf
    <3> HIDE DEF s, z
    <3>2. ~ZeroAt(IsAlwaysZero, s[x])
      BY <3>1, ShapeIs DEF ZeroAt
    <3> QED  BY <2>0, <2>00, <2>3, <3>2 DEF UnderAt
  <2>4. CASE Op(x) = "max"
    <3>1. s[x] = Max(s[x[2]], s[x[3]]) /\ x[2] \in T /\ x[3] \in T
      BY <1>0, <1>1, <2>4, SubstOf DEF Kids
    <3>2. z[x] <=> z[x[2]] /\ z[x[3]]
      BY <2>0, <2>4 DEF UnderAt
    <3> HIDE DEF s, z
    <3>3. s[x[2]] \in Levels /\ s[x[3]] \in Levels
      BY <3>1, LevelHas
    <3>4. IsAlwaysZero[s[x]] <=> IsAlwaysZero[s[x[2]]] /\ IsAlwaysZero[s[x[3]]]
      BY <2>00, <3>1, ShapeIs DEF ZeroAt
    <3> QED  BY <3>1, <3>2, <3>3, <3>4
  <2>5. CASE Op(x) = "imax"
    <3>1. s[x] = IMax(s[x[2]], s[x[3]]) /\ x[3] \in T
      BY <1>0, <1>1, <2>5, SubstOf DEF Kids
    <3>2. z[x] <=> z[x[3]]
      BY <2>0, <2>5 DEF UnderAt
    <3> HIDE DEF s, z
    <3>3. s[x[3]] \in Levels
      BY <3>1, LevelHas
    <3>4. IsAlwaysZero[s[x]] <=> IsAlwaysZero[s[x[3]]]
      BY <2>00, <3>1, ShapeIs DEF ZeroAt
    <3> QED  BY <3>1, <3>2, <3>3, <3>4
  <2> QED  BY <2>1, <2>2, <2>3, <2>4, <2>5, LevelIs
<1>2. Levels \subseteq T
  <2> HIDE DEF T
  <2> QED  BY <1>1, LevelInduction
<1> QED  BY <1>2 DEF kv

-----------------------------------------------------------------------------
(* The order.                                                                *)

Answers == {"yes", "no", "panic", "overflow"}
Orders  == [Levels -> [Levels -> [Int -> Answers]]]

LEMMA DistributedIs ==
  ASSUME NEW l \in Levels, Distribution(l) \in Levels
  PROVE  Distributed(l) \in Levels
BY SimplifyIs DEF Distributed

LEMMA LeqAtTyped ==
  ASSUME NEW leq \in Orders, NEW param, NEW v, NEW l, NEW r, NEW diff \in Int
  PROVE  LeqAt(leq, param, v, l, r, diff) \in Answers
<1> DEFINE x == SubstLevel(l, <<param>>, <<v>>)
           y == SubstLevel(r, <<param>>, <<v>>)
<1>1. LeqAt(leq, param, v, l, r, diff) =
        IF {x, y} \subseteq Levels THEN leq[Simplify[x]][Simplify[y]][diff] ELSE "overflow"
  BY DEF LeqAt
<1> HIDE DEF x, y
<1>2. {x, y} \subseteq Levels => Simplify[x] \in Levels /\ Simplify[y] \in Levels
  BY SimplifyIs
<1>3. \A a, b \in Levels : leq[a][b][diff] \in Answers
  BY DEF Orders
<1>4. "overflow" \in Answers
  BY DEF Answers
<1> QED  BY <1>1, <1>2, <1>3, <1>4

LEMMA AnswerIs ==
  /\ "yes" \in Answers /\ "no" \in Answers /\ "panic" \in Answers /\ "overflow" \in Answers
  /\ \A b : Yes(b) \in Answers
  /\ \A a, b \in Answers : And(a, b) \in Answers /\ Or(a, b) \in Answers
BY DEF Answers, Yes, And, Or

LEMMA LeqCallTyped ==
  ASSUME NEW leq \in Orders, NEW l \in Levels, NEW r \in Levels, NEW diff \in Int
  PROVE  LeqCall(leq, l, r, diff) \in Answers
<1>1. \A a, b \in Levels : \A d \in Int : leq[a][b][d] \in Answers
  BY DEF Orders
<1>2. \A p, a, b : LeqImaxByCases(leq, p, a, b, diff) \in Answers
  BY LeqAtTyped, AnswerIs DEF LeqImaxByCases
<1>3. diff - 1 \in Int /\ diff + 1 \in Int
  OBVIOUS
<1>4. Op(l) = "succ" => leq[l[2]][r][diff - 1] \in Answers
  BY <1>1, <1>3, LevelIs
<1>5. Op(r) = "succ" => leq[l][r[2]][diff + 1] \in Answers
  BY <1>1, <1>3, LevelIs
<1>6. Op(l) = "max" => And(leq[l[2]][r][diff], leq[l[3]][r][diff]) \in Answers
  BY <1>1, AnswerIs, LevelIs
<1>7. Op(r) = "max" => Or(leq[l][r[2]][diff], leq[l][r[3]][diff]) \in Answers
  BY <1>1, AnswerIs, LevelIs
<1>8. Distribution(l) \in Levels => leq[Distributed(l)][r][diff] \in Answers
  BY <1>1, DistributedIs
<1>9. Distribution(r) \in Levels => leq[l][Distributed(r)][diff] \in Answers
  BY <1>1, DistributedIs
<1> QED  BY ONLY <1>2, <1>4, <1>5, <1>6, <1>7, <1>8, <1>9, AnswerIs DEF LeqCall

CoreAt(f, n) ==
  [l \in Levels |-> [r \in Levels |-> [diff \in Int |->
     IF n = 0 THEN "overflow" ELSE LeqCall(f[n - 1], l, r, diff)]]]

LEMMA CoreTyped == ASSUME NEW n \in Nat, NEW f \in [Nat -> Orders] PROVE CoreAt(f, n) \in Orders
<1>1. n # 0 => f[n - 1] \in Orders
  OBVIOUS
<1>2. ASSUME NEW l \in Levels, NEW r \in Levels, NEW diff \in Int
      PROVE  (IF n = 0 THEN "overflow" ELSE LeqCall(f[n - 1], l, r, diff)) \in Answers
  BY <1>1, LeqCallTyped, AnswerIs
<1> QED  BY <1>2 DEF CoreAt, Orders

LEMMA CoreLocal ==
  ASSUME NEW n \in Nat, NEW g, NEW h, n # 0 => g[n - 1] = h[n - 1]
  PROVE  CoreAt(g, n) = CoreAt(h, n)
BY DEF CoreAt

\* LeqCore is such a function.
LEMMA LeqCoreIs ==
  /\ LeqCore \in [Nat -> Orders]
  /\ \A n \in Nat : LeqCore[n] = CoreAt(LeqCore, n)
<1> DEFINE S == Nat
           V == Orders
           H == [n \in Nat |-> n]
           step == [y \in S \X [S -> V] |-> CoreAt(y[2], y[1])]
<1>1. step \in [S \X [S -> V] -> V]
  <2>1. \A n \in S : \A g \in [S -> V] : CoreAt(g, n) \in V
    BY CoreTyped
  <2> QED  BY <2>1
<1>2. \A n \in S : \A g \in [S -> V] : step[<<n, g>>] = CoreAt(g, n)
  OBVIOUS
<1> HIDE DEF step, V
<1>3. ASSUME NEW n \in S, NEW g \in [S -> V], NEW h \in [S -> V],
             \A k \in S : H[k] < H[n] => g[k] = h[k]
      PROVE  step[<<n, g>>] = step[<<n, h>>]
  <2>1. n # 0 => n - 1 \in S /\ H[n - 1] < H[n]
    OBVIOUS
  <2>2. CoreAt(g, n) = CoreAt(h, n)
    BY <1>3, <2>1, CoreLocal
  <2>3. step[<<n, g>>] = CoreAt(g, n) /\ step[<<n, h>>] = CoreAt(h, n)
    BY <1>2
  <2> QED  BY ONLY <2>2, <2>3
<1>4. V # {}
  <2>1. [l \in Levels |-> [r \in Levels |-> [diff \in Int |-> "no"]]] \in V
    BY AnswerIs DEF V, Orders
  <2> QED  BY <2>1
<1>5. IsRecursion(S, V, H, step)
  <2>1. \A n \in S : H[n] \in Nat
    OBVIOUS
  <2> HIDE DEF H
  <2> QED  BY <1>1, <1>3, <2>1 DEF IsRecursion
<1>6. PICK f : Solves(f, S, V, step)
  <2> HIDE DEF H
  <2> QED  BY ONLY <1>4, <1>5, HeightRecursion
<1>7. f \in [S -> V] /\ \A n \in S : f[n] = CoreAt(f, n)
  BY <1>2, <1>6 DEF Solves
<1>8. f = [n \in S |-> CoreAt(f, n)]
  BY <1>7
<1> DEFINE chosen == CHOOSE g : g = [n \in S |-> CoreAt(g, n)]
<1>9. chosen = [n \in S |-> CoreAt(chosen, n)]
  BY <1>8
<1>10. LeqCore = chosen
  BY DEF LeqCore, CoreAt
<1> HIDE DEF chosen
<1>11. \A n \in S : chosen[n] = CoreAt(chosen, n)
  BY <1>9
<1> DEFINE T == {n \in S : chosen[n] = f[n]}
<1>12. 0 \in T
  <2>1. CoreAt(chosen, 0) = CoreAt(f, 0)
    BY CoreLocal
  <2> QED  BY <1>7, <1>11, <2>1
<1>13. ASSUME NEW n \in S, n \in T PROVE n + 1 \in T
  <2>1. n + 1 \in Nat /\ (n + 1) - 1 = n
    OBVIOUS
  <2>2. CoreAt(chosen, n + 1) = CoreAt(f, n + 1)
    BY <1>13, <2>1, CoreLocal
  <2> QED  BY <1>7, <1>11, <2>1, <2>2
<1>14. ASSUME NEW n \in S PROVE n \in T
  <2> HIDE DEF T
  <2>1. 0 .. n \subseteq T
    BY <1>12, <1>13, SetInduction
  <2> QED  BY <2>1
<1>15. chosen = f
  BY <1>7, <1>9, <1>14
<1> QED  BY <1>7, <1>10, <1>15 DEF V

\* The value of l is at most that of r and diff, whatever the parameters are.
BelowBy(l, r, diff) == \A e \in Valuations : Value(l, e) <= Value(r, e) + diff

\* What leq accepts is so.
Trusted(leq) == \A l, r \in Levels : \A diff \in Int : leq[l][r][diff] = "yes" => BelowBy(l, r, diff)

LEMMA BelowValues ==
  ASSUME NEW l \in Levels, NEW r \in Levels
  PROVE  \A e \in Valuations : Value(l, e) \in Nat /\ Value(r, e) \in Nat
BY ValuationsAssign, ValueNat

\* What is accepted with v for a parameter holds of the levels themselves where
\* the parameter has the value of v.
LEMMA LeqAtSound ==
  ASSUME NEW leq, Trusted(leq), NEW q \in Params, NEW v \in AllLevels,
         NEW l \in Levels, NEW r \in Levels, NEW diff \in Int,
         LeqAt(leq, Param(q), v, l, r, diff) = "yes",
         NEW e \in Valuations, NEW env \in Assignments,
         v \in Levels => env[q] = Value(v, e),
         \A p \in Params : p # q => env[p] = e[p]
  PROVE  Value(l, env) <= Value(r, env) + diff
<1> DEFINE kv == <<<<Param(q)>>, <<v>>>>
           x == SubstFn(kv)[l]
           y == SubstFn(kv)[r]
<1>1. /\ SubstLevel(l, <<Param(q)>>, <<v>>) = x /\ SubstLevel(r, <<Param(q)>>, <<v>>) = y
      /\ kv[1] = <<Param(q)>> /\ kv[2] = <<v>>
  BY SubstLevelIs
<1>2. GivesLevels(kv)
  <2>1. Param(q) \in AllLevels
    BY AllAre
  <2>2. <<Param(q)>> \in Seq(AllLevels) /\ <<v>> \in Seq(AllLevels)
    BY <2>1
  <2> QED  BY <2>2 DEF GivesLevels
<1>3. e \in Assignments
  BY ValuationsAssign
<1>4. Carries(env, e, kv)
  <2> SUFFICES ASSUME NEW p \in Params, SubstParam(Param(p), kv[1], kv[2]) \in Levels
               PROVE  env[p] = Value(SubstParam(Param(p), kv[1], kv[2]), e)
    BY DEF Carries
  <2>1. SubstParam(Param(p), kv[1], kv[2]) = IF p = q THEN v ELSE Param(p)
    BY <1>1, SubstOne
  <2>2. CASE p = q
    BY <2>1, <2>2
  <2>3. CASE p # q
    <3>1. Param(p) \in Levels
      BY LevelHas
    <3>2. Value(Param(p), e) = e[p]
      BY <1>3, <3>1, ValueOf, ShapeIs
    <3> QED  BY <2>1, <2>3, <3>2
  <2> QED  BY <2>2, <2>3
<1>5. /\ x \in Levels => Value(x, e) = Value(l, env)
      /\ y \in Levels => Value(y, e) = Value(r, env)
  <2> HIDE DEF kv
  <2> QED  BY <1>2, <1>3, <1>4, SubstValue
<1>6. {x, y} \subseteq Levels /\ leq[Simplify[x]][Simplify[y]][diff] = "yes"
  <2> HIDE DEF x, y
  <2>1. LeqAt(leq, Param(q), v, l, r, diff) =
          IF {x, y} \subseteq Levels THEN leq[Simplify[x]][Simplify[y]][diff] ELSE "overflow"
    BY <1>1 DEF LeqAt
  <2> QED  BY <2>1
<1> HIDE DEF x, y
<1>7. /\ Simplify[x] \in Levels /\ Value(Simplify[x], e) = Value(x, e)
      /\ Simplify[y] \in Levels /\ Value(Simplify[y], e) = Value(y, e)
  BY <1>3, <1>6, SimplifyMeans
<1>8. Value(Simplify[x], e) <= Value(Simplify[y], e) + diff
  BY <1>6, <1>7 DEF Trusted, BelowBy
<1> QED  BY <1>5, <1>6, <1>7, <1>8

LEMMA AnswerYes ==
  /\ \A a, b : And(a, b) = "yes" => a = "yes" /\ b = "yes"
  /\ \A a, b : Or(a, b) = "yes" => a = "yes" \/ b = "yes"
BY DEF And, Or

\* A parameter is zero or a successor.
LEMMA ByCasesSound ==
  ASSUME NEW leq, Trusted(leq), NEW q \in Params, NEW l \in Levels, NEW r \in Levels,
         NEW diff \in Int, LeqImaxByCases(leq, Param(q), l, r, diff) = "yes"
  PROVE  BelowBy(l, r, diff)
<1> SUFFICES ASSUME NEW e \in Valuations PROVE Value(l, e) <= Value(r, e) + diff
  BY DEF BelowBy
<1>1. /\ LeqAt(leq, Param(q), Zero, l, r, diff) = "yes"
      /\ LeqAt(leq, Param(q), Succ(Param(q)), l, r, diff) = "yes"
  BY AnswerYes DEF LeqImaxByCases
<1>2. /\ e \in Assignments /\ Zero \in AllLevels /\ Param(q) \in AllLevels /\ Succ(Param(q)) \in AllLevels
      /\ Zero \in Levels /\ Param(q) \in Levels
  BY ValuationsAssign, AllAre, LevelHas
<1>3. MaxValue \in Nat /\ e \in [Params -> 0 .. MaxValue]
  BY LevelsAssumption DEF Valuations
<1>4. CASE e[q] = 0
  <2>1. e[q] = Value(Zero, e)
    BY <1>2, <1>4, ValueOf, ShapeIs
  <2> QED  BY <1>1, <1>2, <2>1, LeqAtSound
<1>5. CASE e[q] # 0
  <2> DEFINE d == [e EXCEPT ![q] = e[q] - 1]
  <2>1. e[q] - 1 \in 0 .. MaxValue /\ e[q] = (e[q] - 1) + 1
    BY <1>3, <1>5
  <2>2. d \in Valuations /\ d[q] = e[q] - 1 /\ \A p \in Params : p # q => e[p] = d[p]
    BY <1>3, <2>1 DEF Valuations
  <2> HIDE DEF d
  <2>3. d \in Assignments
    BY <2>2, ValuationsAssign
  <2>4. Succ(Param(q)) \in Levels => e[q] = Value(Succ(Param(q)), d)
    <3> SUFFICES ASSUME Succ(Param(q)) \in Levels PROVE e[q] = Value(Succ(Param(q)), d)
      OBVIOUS
    <3>1. Value(Succ(Param(q)), d) = Value(Param(q), d) + 1
      BY <2>3, ValueOf, ShapeIs
    <3>2. Value(Param(q), d) = d[q]
      BY <1>2, <2>3, ValueOf, ShapeIs
    <3> QED  BY <2>1, <2>2, <3>1, <3>2
  <2> QED  BY <1>1, <1>2, <2>2, <2>4, LeqAtSound
<1> QED  BY <1>4, <1>5

\* An imax over an imax or a max is worth what it is taken apart to.
LEMMA DistributionMeans ==
  ASSUME NEW l \in Levels, Op(l) = "imax", IsAnyMax(l[3]), Distribution(l) \in Levels, NEW e \in Assignments
  PROVE  Distributed(l) \in Levels /\ Value(Distributed(l), e) = Value(l, e)
<1> DEFINE a == l[2]
           b == l[3]
<1>1. a \in Levels /\ b \in Levels
  BY LevelIs
<1>2. Op(b) \in {"max", "imax"}
  BY DEF IsAnyMax
<1>3. b[2] \in Levels /\ b[3] \in Levels
  BY <1>1, <1>2, LevelIs
<1> DEFINE A == Value(a, e)
           X == Value(b[2], e)
           Y == Value(b[3], e)
<1>4. A \in Nat /\ X \in Nat /\ Y \in Nat
  BY <1>1, <1>3, ValueNat
<1>5. Value(l, e) = IF Value(b, e) = 0 THEN 0 ELSE Greater(A, Value(b, e))
  BY ValueOf
<1>6. Value(Distribution(l), e) = Value(l, e)
  <2>1. CASE Op(b) = "imax"
    <3>1. Distribution(l) = Max(IMax(a, b[3]), IMax(b[2], b[3]))
      BY <2>1 DEF Distribution
    <3>2. IMax(a, b[3]) \in Levels /\ IMax(b[2], b[3]) \in Levels
      BY <3>1, LevelHas
    <3>3. /\ Value(IMax(a, b[3]), e) = IF Y = 0 THEN 0 ELSE Greater(A, Y)
          /\ Value(IMax(b[2], b[3]), e) = IF Y = 0 THEN 0 ELSE Greater(X, Y)
      BY <3>2, ValueOf, ShapeIs
    <3>4. Value(Distribution(l), e) = Greater(Value(IMax(a, b[3]), e), Value(IMax(b[2], b[3]), e))
      BY <3>1, ValueOf, ShapeIs
    <3>5. Value(b, e) = IF Y = 0 THEN 0 ELSE Greater(X, Y)
      BY <1>1, <2>1, ValueOf
    <3> HIDE DEF A, X, Y, a, b
    <3> QED  BY ONLY <1>4, <1>5, <3>3, <3>4, <3>5 DEF Greater
  <2>2. CASE Op(b) = "max"
    <3>1. Distribution(l) = Max(IMax(a, b[2]), IMax(a, b[3]))
      BY <2>2 DEF Distribution
    <3>2. IMax(a, b[2]) \in Levels /\ IMax(a, b[3]) \in Levels
      BY <3>1, LevelHas
    <3>3. /\ Value(IMax(a, b[2]), e) = IF X = 0 THEN 0 ELSE Greater(A, X)
          /\ Value(IMax(a, b[3]), e) = IF Y = 0 THEN 0 ELSE Greater(A, Y)
      BY <3>2, ValueOf, ShapeIs
    <3>4. Value(Distribution(l), e) = Greater(Value(IMax(a, b[2]), e), Value(IMax(a, b[3]), e))
      BY <3>1, ValueOf, ShapeIs
    <3>5. Value(b, e) = Greater(X, Y)
      BY <1>1, <2>2, ValueOf
    <3> HIDE DEF A, X, Y, a, b
    <3> QED  BY ONLY <1>4, <1>5, <3>3, <3>4, <3>5 DEF Greater
  <2> QED  BY <1>2, <2>1, <2>2
<1>7. Distributed(l) = Distribution(l) \/ Distributed(l) = Simplify[Distribution(l)]
  BY DEF Distributed
<1> QED  BY <1>6, <1>7, SimplifyMeans

\* A call that trusts those it makes is right to accept.
LEMMA LeqCallSound ==
  ASSUME NEW leq, Trusted(leq), NEW l \in Levels, NEW r \in Levels, NEW diff \in Int,
         LeqCall(leq, l, r, diff) = "yes"
  PROVE  BelowBy(l, r, diff)
<1>0. \A e \in Valuations : e \in Assignments /\ Value(l, e) \in Nat /\ Value(r, e) \in Nat
  BY BelowValues, ValuationsAssign
<1>1. ASSUME Op(l) = "zero", diff >= 0 PROVE BelowBy(l, r, diff)
  <2>1. \A e \in Valuations : Value(l, e) = 0
    BY <1>0, <1>1, ValueOf
  <2> QED  BY <1>0, <1>1, <2>1 DEF BelowBy
<1>2. ASSUME l = r, diff >= 0 PROVE BelowBy(l, r, diff)
  BY <1>0, <1>2 DEF BelowBy
<1>3. ASSUME Op(l) = "succ", leq[l[2]][r][diff - 1] = "yes" PROVE BelowBy(l, r, diff)
  <2>1. l[2] \in Levels /\ diff - 1 \in Int
    BY <1>3, LevelIs
  <2>2. BelowBy(l[2], r, diff - 1)
    BY <1>3, <2>1 DEF Trusted
  <2>3. \A e \in Valuations : Value(l, e) = Value(l[2], e) + 1 /\ Value(l[2], e) \in Nat
    BY <1>0, <1>3, <2>1, ValueOf, ValueNat
  <2> SUFFICES ASSUME NEW e \in Valuations PROVE Value(l, e) <= Value(r, e) + diff
    BY DEF BelowBy
  <2>4. Value(l[2], e) <= Value(r, e) + (diff - 1)
    BY <2>2 DEF BelowBy
  <2> QED  BY ONLY <1>0, <2>3, <2>4, e \in Valuations, diff \in Int
<1>4. ASSUME Op(r) = "succ", leq[l][r[2]][diff + 1] = "yes" PROVE BelowBy(l, r, diff)
  <2>1. r[2] \in Levels /\ diff + 1 \in Int
    BY <1>4, LevelIs
  <2>2. BelowBy(l, r[2], diff + 1)
    BY <1>4, <2>1 DEF Trusted
  <2>3. \A e \in Valuations : Value(r, e) = Value(r[2], e) + 1 /\ Value(r[2], e) \in Nat
    BY <1>0, <1>4, <2>1, ValueOf, ValueNat
  <2> SUFFICES ASSUME NEW e \in Valuations PROVE Value(l, e) <= Value(r, e) + diff
    BY DEF BelowBy
  <2>4. Value(l, e) <= Value(r[2], e) + (diff + 1)
    BY <2>2 DEF BelowBy
  <2> QED  BY ONLY <1>0, <2>3, <2>4, e \in Valuations, diff \in Int
<1>5. ASSUME Op(l) = "max", And(leq[l[2]][r][diff], leq[l[3]][r][diff]) = "yes" PROVE BelowBy(l, r, diff)
  <2>1. l[2] \in Levels /\ l[3] \in Levels
    BY <1>5, LevelIs
  <2>2. BelowBy(l[2], r, diff) /\ BelowBy(l[3], r, diff)
    BY <1>5, <2>1, AnswerYes DEF Trusted
  <2> SUFFICES ASSUME NEW e \in Valuations PROVE Value(l, e) <= Value(r, e) + diff
    BY DEF BelowBy
  <2>3. Value(l, e) = Greater(Value(l[2], e), Value(l[3], e))
    BY <1>0, <1>5, ValueOf
  <2>4. Value(l[2], e) <= Value(r, e) + diff /\ Value(l[3], e) <= Value(r, e) + diff
    BY <2>2 DEF BelowBy
  <2> QED  BY <2>3, <2>4 DEF Greater
<1>6. ASSUME Op(r) = "max", Or(leq[l][r[2]][diff], leq[l][r[3]][diff]) = "yes" PROVE BelowBy(l, r, diff)
  <2>1. r[2] \in Levels /\ r[3] \in Levels
    BY <1>6, LevelIs
  <2>2. BelowBy(l, r[2], diff) \/ BelowBy(l, r[3], diff)
    BY <1>6, <2>1, AnswerYes DEF Trusted
  <2> SUFFICES ASSUME NEW e \in Valuations PROVE Value(l, e) <= Value(r, e) + diff
    BY DEF BelowBy
  <2>3. /\ Value(r, e) = Greater(Value(r[2], e), Value(r[3], e))
        /\ Value(r[2], e) \in Nat /\ Value(r[3], e) \in Nat /\ Value(l, e) \in Nat
    BY <1>0, <1>6, <2>1, ValueOf, ValueNat
  <2>4. Value(l, e) <= Value(r[2], e) + diff \/ Value(l, e) <= Value(r[3], e) + diff
    BY <2>2 DEF BelowBy
  <2>5. Value(r[2], e) <= Value(r, e) /\ Value(r[3], e) <= Value(r, e) /\ Value(r, e) \in Nat
    BY ONLY <2>3 DEF Greater
  <2> QED  BY ONLY <2>3, <2>4, <2>5, diff \in Int
<1>7. ASSUME Op(l) = "imax", IsParam(l[3]), LeqImaxByCases(leq, l[3], l, r, diff) = "yes"
      PROVE  BelowBy(l, r, diff)
  <2>1. PICK q \in Params : l[3] = Param(q)
    BY <1>7, LevelIs DEF IsParam
  <2> QED  BY <1>7, <2>1, ByCasesSound
<1>8. ASSUME Op(r) = "imax", IsParam(r[3]), LeqImaxByCases(leq, r[3], l, r, diff) = "yes"
      PROVE  BelowBy(l, r, diff)
  <2>1. PICK q \in Params : r[3] = Param(q)
    BY <1>8, LevelIs DEF IsParam
  <2> QED  BY <1>8, <2>1, ByCasesSound
<1>9. ASSUME Op(l) = "imax", IsAnyMax(l[3]), Distribution(l) \in Levels,
             leq[Distributed(l)][r][diff] = "yes"
      PROVE  BelowBy(l, r, diff)
  <2>1. \A e \in Valuations : Distributed(l) \in Levels /\ Value(Distributed(l), e) = Value(l, e)
    BY <1>0, <1>9, DistributionMeans
  <2>2. Distributed(l) \in Levels
    BY <1>9, DistributedIs
  <2>3. BelowBy(Distributed(l), r, diff)
    BY <1>9, <2>2 DEF Trusted
  <2> QED  BY <2>1, <2>3 DEF BelowBy
<1>10. ASSUME Op(r) = "imax", IsAnyMax(r[3]), Distribution(r) \in Levels,
              leq[l][Distributed(r)][diff] = "yes"
       PROVE  BelowBy(l, r, diff)
  <2>1. \A e \in Valuations : Distributed(r) \in Levels /\ Value(Distributed(r), e) = Value(r, e)
    BY <1>0, <1>10, DistributionMeans
  <2>2. Distributed(r) \in Levels
    BY <1>10, DistributedIs
  <2>3. BelowBy(l, Distributed(r), diff)
    BY <1>10, <2>2 DEF Trusted
  <2> QED  BY <2>1, <2>3 DEF BelowBy
<1>11. \/ Op(l) = "zero" /\ diff >= 0
       \/ l = r /\ diff >= 0
       \/ Op(l) = "succ" /\ leq[l[2]][r][diff - 1] = "yes"
       \/ Op(r) = "succ" /\ leq[l][r[2]][diff + 1] = "yes"
       \/ Op(l) = "max" /\ And(leq[l[2]][r][diff], leq[l[3]][r][diff]) = "yes"
       \/ Op(r) = "max" /\ Or(leq[l][r[2]][diff], leq[l][r[3]][diff]) = "yes"
       \/ Op(l) = "imax" /\ IsParam(l[3]) /\ LeqImaxByCases(leq, l[3], l, r, diff) = "yes"
       \/ Op(r) = "imax" /\ IsParam(r[3]) /\ LeqImaxByCases(leq, r[3], l, r, diff) = "yes"
       \/ /\ Op(l) = "imax" /\ IsAnyMax(l[3]) /\ Distribution(l) \in Levels
          /\ leq[Distributed(l)][r][diff] = "yes"
       \/ /\ Op(r) = "imax" /\ IsAnyMax(r[3]) /\ Distribution(r) \in Levels
          /\ leq[l][Distributed(r)][diff] = "yes"
  <2>1. /\ Yes(l = r /\ diff >= 0) = "yes" => l = r /\ diff >= 0
        /\ Yes(diff >= 0) = "yes" => diff >= 0
    BY DEF Yes
  <2>2. LeqCall(leq, l, r, diff) = "yes"
    OBVIOUS
  <2> QED  BY ONLY <2>1, <2>2 DEF LeqCall
<1> QED  BY ONLY <1>1, <1>2, <1>3, <1>4, <1>5, <1>6, <1>7, <1>8, <1>9, <1>10, <1>11

LEMMA LeqCoreSound == \A n \in Nat : Trusted(LeqCore[n])
<1> DEFINE T == {n \in Nat : Trusted(LeqCore[n])}
<1>1. ASSUME NEW n \in Nat, NEW l \in Levels, NEW r \in Levels, NEW diff \in Int
      PROVE  LeqCore[n][l][r][diff] =
               IF n = 0 THEN "overflow" ELSE LeqCall(LeqCore[n - 1], l, r, diff)
  <2>1. LeqCore[n] = CoreAt(LeqCore, n)
    BY LeqCoreIs
  <2> QED  BY <2>1 DEF CoreAt
<1>2. 0 \in T
  BY <1>1 DEF Trusted
<1>3. ASSUME NEW n \in Nat, n \in T PROVE n + 1 \in T
  <2>1. n + 1 \in Nat /\ n + 1 # 0 /\ (n + 1) - 1 = n
    OBVIOUS
  <2>2. Trusted(LeqCore[n])
    BY <1>3
  <2>3. ASSUME NEW l \in Levels, NEW r \in Levels, NEW diff \in Int,
               LeqCore[n + 1][l][r][diff] = "yes"
        PROVE  BelowBy(l, r, diff)
    <3>1. LeqCall(LeqCore[n], l, r, diff) = "yes"
      BY <1>1, <2>1, <2>3
    <3> QED  BY <2>2, <3>1, LeqCallSound
  <2> QED  BY <2>1, <2>3 DEF Trusted
<1>4. ASSUME NEW n \in Nat PROVE n \in T
  <2> HIDE DEF T
  <2>1. 0 .. n \subseteq T
    BY <1>2, <1>3, SetInduction
  <2> QED  BY <2>1
<1> QED  BY <1>4

\* leq accepts only what holds, of any two levels.
LEMMA LeqIsSound ==
  ASSUME NEW l \in Levels, NEW r \in Levels, Leq(l, r) = "yes"
  PROVE  Below(l, r)
<1> SUFFICES ASSUME NEW e \in Valuations PROVE Value(l, e) <= Value(r, e)
  BY DEF Below
<1>1. e \in Assignments /\ Value(l, e) \in Nat /\ Value(r, e) \in Nat
  BY ValuationsAssign, ValueNat
<1>2. CASE l = r
  BY <1>1, <1>2
<1>3. CASE l # r
  <2>1. LeqCore[MaxCalls][Simplify[l]][Simplify[r]][0] = "yes"
    BY <1>3 DEF Leq
  <2>2. /\ Simplify[l] \in Levels /\ Value(Simplify[l], e) = Value(l, e)
        /\ Simplify[r] \in Levels /\ Value(Simplify[r], e) = Value(r, e)
    BY <1>1, SimplifyMeans
  <2>3. Trusted(LeqCore[MaxCalls])
    BY LeqCoreSound, LevelsAssumption
  <2>4. Value(Simplify[l], e) <= Value(Simplify[r], e) + 0
    BY <2>1, <2>2, <2>3 DEF Trusted, BelowBy
  <2> QED  BY ONLY <1>1, <2>2, <2>4
<1> QED  BY <1>2, <1>3

-----------------------------------------------------------------------------
(* What leq_core is called with: simplification leaves no imax over zero or  *)
(* a successor, which it has no case for.                                    *)

SolidAt(f, x) ==
  /\ Op(x) = "succ" => f[x[2]]
  /\ Op(x) \in {"max", "imax"} => f[x[2]] /\ f[x[3]]
  /\ Op(x) = "imax" => Op(x[3]) \notin {"zero", "succ"}

\* No imax in the level is over zero or a successor.
Solid == CHOOSE f : f = [x \in Levels |-> SolidAt(f, x)]

LEMMA SolidTyped ==
  ASSUME NEW x \in Levels, NEW f \in [Levels -> BOOLEAN]
  PROVE  SolidAt(f, x) \in BOOLEAN
BY DEF SolidAt

LEMMA SolidLocal ==
  ASSUME NEW x, NEW g, NEW h, \A k \in Kids(x) : g[k] = h[k]
  PROVE  SolidAt(g, x) = SolidAt(h, x)
<1>1. /\ Op(x) = "succ" => g[x[2]] = h[x[2]]
      /\ Op(x) \in {"max", "imax"} => g[x[2]] = h[x[2]] /\ g[x[3]] = h[x[3]]
  BY DEF Kids
<1> QED  BY <1>1 DEF SolidAt

\* Solid is such a function.
LEMMA SolidFn ==
  /\ Solid \in [Levels -> BOOLEAN]
  /\ \A x \in Levels : Solid[x] = SolidAt(Solid, x)
<1> DEFINE S == Levels
           V == BOOLEAN
           step == [y \in S \X [S -> V] |-> SolidAt(y[2], y[1])]
<1>1. step \in [S \X [S -> V] -> V]
  <2>1. \A x \in S : \A g \in [S -> V] : SolidAt(g, x) \in V
    BY SolidTyped
  <2> QED  BY <2>1
<1>2. \A x \in S : \A g \in [S -> V] : step[<<x, g>>] = SolidAt(g, x)
  OBVIOUS
<1> HIDE DEF step
<1>3. ASSUME NEW x \in S, NEW g \in [S -> V], NEW h \in [S -> V],
             \A k \in Kids(x) : g[k] = h[k]
      PROVE  step[<<x, g>>] = step[<<x, h>>]
  <2>1. SolidAt(g, x) = SolidAt(h, x)
    BY <1>3, SolidLocal
  <2>2. step[<<x, g>>] = SolidAt(g, x)
    BY <1>2
  <2>3. step[<<x, h>>] = SolidAt(h, x)
    BY <1>2
  <2> QED  BY ONLY <2>1, <2>2, <2>3
<1>4. V # {}
  <2>1. TRUE \in V
    OBVIOUS
  <2> QED  BY <2>1
<1>5. IsLevelStep(V, step)
  BY <1>1, <1>3 DEF IsLevelStep
<1>6. PICK f : Solves(f, S, V, step)
  <2> HIDE DEF V
  <2> QED  BY ONLY <1>4, <1>5, LevelRecursion
<1>7. f \in [S -> V] /\ \A x \in S : f[x] = SolidAt(f, x)
  BY <1>2, <1>6 DEF Solves
<1> HIDE DEF V
<1>8. f = [x \in S |-> SolidAt(f, x)]
  BY <1>7
<1> DEFINE chosen == CHOOSE g : g = [x \in S |-> SolidAt(g, x)]
<1>9. chosen = [x \in S |-> SolidAt(chosen, x)]
  BY <1>8
<1>10. Solid = chosen
  BY DEF Solid
<1> HIDE DEF chosen
<1>11. \A x \in S : chosen[x] = SolidAt(chosen, x)
  BY <1>9
<1> DEFINE T == {x \in S : chosen[x] = f[x]}
<1>12. ASSUME NEW x \in S, \A k \in Kids(x) : k \in T PROVE x \in T
  <2>1. \A k \in Kids(x) : chosen[k] = f[k]
    BY <1>12
  <2>2. SolidAt(chosen, x) = SolidAt(f, x)
    BY <2>1, SolidLocal
  <2> QED  BY <1>7, <1>11, <2>2
<1>13. S \subseteq T
  <2> HIDE DEF T
  <2> QED  BY <1>12, LevelInduction
<1>14. chosen = f
  BY <1>7, <1>9, <1>13
<1> QED  BY <1>7, <1>10, <1>14 DEF V

LEMMA SolidIs ==
  ASSUME NEW x \in Levels
  PROVE  Solid[x] <=> /\ Op(x) = "succ" => Solid[x[2]]
                      /\ Op(x) \in {"max", "imax"} => Solid[x[2]] /\ Solid[x[3]]
                      /\ Op(x) = "imax" => Op(x[3]) \notin {"zero", "succ"}
BY SolidFn DEF SolidAt

LEMMA CombiningSolid ==
  \A l \in Levels : Solid[l] =>
    \A r \in Levels : Solid[r] /\ Combining[l][r] \in Levels => Solid[Combining[l][r]]
<1> DEFINE Claim(x) == \A r \in Levels : Solid[r] /\ Combining[x][r] \in Levels => Solid[Combining[x][r]]
           T == {x \in Levels : Solid[x] => Claim(x)}
<1>1. ASSUME NEW x \in Levels, \A k \in Kids(x) : k \in T PROVE x \in T
  <2> SUFFICES ASSUME Solid[x], NEW r \in Levels, Solid[r], Combining[x][r] \in Levels
               PROVE  Solid[Combining[x][r]]
    OBVIOUS
  <2>1. CASE Op(x) = "zero"
    BY <2>1, CombiningZero
  <2>2. CASE Op(x) # "zero" /\ Op(r) = "zero"
    BY <2>2, CombiningRightZero
  <2>3. CASE Op(x) = "succ" /\ Op(r) = "succ"
    <3> DEFINE c == Combining[x[2]][r[2]]
    <3>1. x[2] \in Levels /\ r[2] \in Levels /\ Combining[x][r] = Succ(c)
      BY <2>3, CombiningSucc
    <3>2. c \in Levels
      BY <3>1, LevelHas
    <3>3. x[2] \in T /\ Solid[x[2]] /\ Solid[r[2]]
      BY <1>1, <2>3, SolidIs DEF Kids
    <3>4. Solid[c]
      BY <3>1, <3>2, <3>3
    <3> HIDE DEF c
    <3> QED  BY <3>1, <3>4, SolidIs, ShapeIs
  <2>4. CASE Op(x) # "zero" /\ Op(r) # "zero" /\ ~(Op(x) = "succ" /\ Op(r) = "succ")
    <3>1. Combining[x][r] = Max(x, r)
      BY <2>4, CombiningOther
    <3> QED  BY <3>1, SolidIs, ShapeIs
  <2> QED  BY <2>1, <2>2, <2>3, <2>4
<1>2. Levels \subseteq T
  <2> HIDE DEF T
  <2> QED  BY <1>1, LevelInduction
<1> QED  BY <1>2

LEMMA CollapseSolid ==
  ASSUME NEW l \in Levels, NEW r \in Levels, Solid[l], Solid[r], Collapse(l, r) \in Levels
  PROVE  Solid[Collapse(l, r)]
<1>1. CASE IsAlwaysZero[l] \/ IsAlwaysOne(l) \/ Op(r) = "zero"
  BY <1>1 DEF Collapse
<1>2. CASE ~(IsAlwaysZero[l] \/ IsAlwaysOne(l)) /\ Op(r) = "succ"
  <2>1. Collapse(l, r) = Combining[l][r]
    BY <1>2 DEF Collapse
  <2> QED  BY <2>1, CombiningSolid
<1>3. CASE ~(IsAlwaysZero[l] \/ IsAlwaysOne(l)) /\ Op(r) \notin {"zero", "succ"}
  <2>1. Collapse(l, r) = IMax(l, r)
    BY <1>3 DEF Collapse
  <2> QED  BY <1>3, <2>1, SolidIs, ShapeIs
<1> QED  BY <1>1, <1>2, <1>3

LEMMA SimplifySolid == \A l \in Levels : Simplify[l] \in Levels /\ Solid[Simplify[l]]
<1>0. \A x \in Levels : Simplify[x] \in Levels
  BY SimplifyIs
<1> DEFINE T == {x \in Levels : Solid[Simplify[x]]}
<1>1. ASSUME NEW x \in Levels, \A k \in Kids(x) : k \in T PROVE x \in T
  <2>1. Simplify[x] = SimplifyAt(Simplify, x) /\ Simplify[x] \in Levels
    BY SimplifyIs
  <2>2. CASE Op(x) = "succ"
    <3>1. Simplify[x] = Succ(Simplify[x[2]]) /\ x[2] \in T
      BY <1>1, <2>1, <2>2 DEF SimplifyAt, Kids
    <3>2. Solid[Simplify[x[2]]]
      BY <3>1
    <3> QED  BY <2>1, <3>1, <3>2, SolidIs, ShapeIs
  <2>3. CASE Op(x) = "max"
    <3>1. Simplify[x] = Combining[Simplify[x[2]]][Simplify[x[3]]] /\ x[2] \in T /\ x[3] \in T
      BY <1>1, <2>1, <2>3 DEF SimplifyAt, Kids
    <3>2. /\ Simplify[x[2]] \in Levels /\ Simplify[x[3]] \in Levels
          /\ Solid[Simplify[x[2]]] /\ Solid[Simplify[x[3]]]
      BY <1>0, <3>1
    <3> QED  BY <2>1, <3>1, <3>2, CombiningSolid
  <2>4. CASE Op(x) = "imax"
    <3>1. Simplify[x] = Collapse(Simplify[x[2]], Simplify[x[3]]) /\ x[2] \in T /\ x[3] \in T
      BY <1>1, <2>1, <2>4 DEF SimplifyAt, Kids
    <3>2. /\ Simplify[x[2]] \in Levels /\ Simplify[x[3]] \in Levels
          /\ Solid[Simplify[x[2]]] /\ Solid[Simplify[x[3]]]
      BY <1>0, <3>1
    <3> QED  BY <2>1, <3>1, <3>2, CollapseSolid
  <2>5. CASE Op(x) \notin {"succ", "max", "imax"}
    <3>1. Simplify[x] = x
      BY <2>1, <2>5 DEF SimplifyAt
    <3> QED  BY <2>5, <3>1, SolidIs
  <2> QED  BY <2>2, <2>3, <2>4, <2>5
<1>2. Levels \subseteq T
  <2> HIDE DEF T
  <2> QED  BY <1>1, LevelInduction
<1> QED  BY <1>0, <1>2

LEMMA DistributedSolid ==
  ASSUME NEW l \in Levels, Solid[l], Op(l) = "imax", IsAnyMax(l[3]), Distribution(l) \in Levels
  PROVE  Distributed(l) \in Levels /\ Solid[Distributed(l)]
<1> DEFINE a == l[2]
           b == l[3]
<1>1. a \in Levels /\ b \in Levels /\ Solid[a] /\ Solid[b] /\ Op(b) \in {"max", "imax"}
  BY LevelIs, SolidIs DEF IsAnyMax
<1>2. CASE Op(b) = "imax"
  <2>1. Distributed(l) = Max(IMax(a, b[3]), IMax(b[2], b[3])) /\ Distributed(l) \in Levels
    BY <1>2 DEF Distributed, Distribution
  <2>2. IMax(a, b[3]) \in Levels /\ IMax(b[2], b[3]) \in Levels
    BY <2>1, LevelHas
  <2>3. Solid[b[2]] /\ Solid[b[3]] /\ Op(b[3]) \notin {"zero", "succ"}
    BY <1>1, <1>2, SolidIs
  <2> HIDE DEF a, b
  <2>4. Solid[IMax(a, b[3])] /\ Solid[IMax(b[2], b[3])]
    BY <1>1, <2>2, <2>3, SolidIs, ShapeIs
  <2> QED  BY <2>1, <2>4, SolidIs, ShapeIs
<1>3. CASE Op(b) = "max"
  <2>1. Distributed(l) = Simplify[Distribution(l)]
    BY <1>3 DEF Distributed
  <2> QED  BY <2>1, SimplifySolid
<1> QED  BY <1>1, <1>2, <1>3

\* leq does not panic on solid levels.
Covered(leq) ==
  \A l, r \in Levels : \A diff \in Int : Solid[l] /\ Solid[r] => leq[l][r][diff] # "panic"

LEMMA LeqAtCovered ==
  ASSUME NEW leq, Covered(leq), NEW param, NEW v, NEW l, NEW r, NEW diff \in Int
  PROVE  LeqAt(leq, param, v, l, r, diff) # "panic"
<1> DEFINE x == SubstLevel(l, <<param>>, <<v>>)
           y == SubstLevel(r, <<param>>, <<v>>)
<1>1. LeqAt(leq, param, v, l, r, diff) =
        IF {x, y} \subseteq Levels THEN leq[Simplify[x]][Simplify[y]][diff] ELSE "overflow"
  BY DEF LeqAt
<1> HIDE DEF x, y
<1>2. {x, y} \subseteq Levels => leq[Simplify[x]][Simplify[y]][diff] # "panic"
  BY SimplifySolid DEF Covered
<1> QED  BY <1>1, <1>2

\* Neither does a call that makes none that does.
LEMMA LeqCallCovered ==
  ASSUME NEW leq, Covered(leq), NEW l \in Levels, NEW r \in Levels, NEW diff \in Int,
         Solid[l], Solid[r]
  PROVE  LeqCall(leq, l, r, diff) # "panic"
<1>1. \A p, a, b : LeqImaxByCases(leq, p, a, b, diff) # "panic"
  <2>1. \A p, v, a, b : LeqAt(leq, p, v, a, b, diff) # "panic"
    BY LeqAtCovered
  <2> QED  BY <2>1 DEF LeqImaxByCases, And
<1>2. diff - 1 \in Int /\ diff + 1 \in Int
  OBVIOUS
<1>3. Op(l) = "succ" => leq[l[2]][r][diff - 1] # "panic"
  BY <1>2, LevelIs, SolidIs DEF Covered
<1>4. Op(r) = "succ" => leq[l][r[2]][diff + 1] # "panic"
  BY <1>2, LevelIs, SolidIs DEF Covered
<1>5. Op(l) = "max" => And(leq[l[2]][r][diff], leq[l[3]][r][diff]) # "panic"
  <2>1. Op(l) = "max" => l[2] \in Levels /\ l[3] \in Levels /\ Solid[l[2]] /\ Solid[l[3]]
    BY LevelIs, SolidIs
  <2>2. Op(l) = "max" => leq[l[2]][r][diff] # "panic" /\ leq[l[3]][r][diff] # "panic"
    BY <2>1 DEF Covered
  <2> QED  BY <2>2 DEF And
<1>6. Op(r) = "max" => Or(leq[l][r[2]][diff], leq[l][r[3]][diff]) # "panic"
  <2>1. Op(r) = "max" => r[2] \in Levels /\ r[3] \in Levels /\ Solid[r[2]] /\ Solid[r[3]]
    BY LevelIs, SolidIs
  <2>2. Op(r) = "max" => leq[l][r[2]][diff] # "panic" /\ leq[l][r[3]][diff] # "panic"
    BY <2>1 DEF Covered
  <2> QED  BY <2>2 DEF Or
<1>7. Op(l) = "imax" /\ IsAnyMax(l[3]) /\ Distribution(l) \in Levels =>
        leq[Distributed(l)][r][diff] # "panic"
  BY DistributedSolid DEF Covered
<1>8. Op(r) = "imax" /\ IsAnyMax(r[3]) /\ Distribution(r) \in Levels =>
        leq[l][Distributed(r)][diff] # "panic"
  BY DistributedSolid DEF Covered
<1>9. \A b : Yes(b) # "panic"
  BY DEF Yes
\* What is under an imax, and that leaves no level out.
<1>10. /\ Op(l) \in {"zero", "param", "succ", "max", "imax"} /\ Op(r) \in {"zero", "param", "succ", "max", "imax"}
       /\ Op(l) = "imax" => IsParam(l[3]) \/ IsAnyMax(l[3])
       /\ Op(r) = "imax" => IsParam(r[3]) \/ IsAnyMax(r[3])
  <2>1. ASSUME NEW x \in Levels, Solid[x], Op(x) = "imax" PROVE IsParam(x[3]) \/ IsAnyMax(x[3])
    <3>1. Op(x[3]) \notin {"zero", "succ"} /\ x[3] \in Levels
      BY <2>1, SolidIs, LevelIs
    <3>2. Op(x[3]) \in {"zero", "param", "succ", "max", "imax"}
      BY <3>1, LevelIs
    <3> QED  BY <3>1, <3>2 DEF IsParam, IsAnyMax
  <2> QED  BY <2>1, LevelIs
<1>11. diff >= 0 \/ diff < 0
  OBVIOUS
<1> QED  BY ONLY <1>1, <1>3, <1>4, <1>5, <1>6, <1>7, <1>8, <1>9, <1>10, <1>11 DEF LeqCall, IsParam

LEMMA LeqCoreCovered == \A n \in Nat : Covered(LeqCore[n])
<1> DEFINE T == {n \in Nat : Covered(LeqCore[n])}
<1>1. ASSUME NEW n \in Nat, NEW l \in Levels, NEW r \in Levels, NEW diff \in Int
      PROVE  LeqCore[n][l][r][diff] =
               IF n = 0 THEN "overflow" ELSE LeqCall(LeqCore[n - 1], l, r, diff)
  <2>1. LeqCore[n] = CoreAt(LeqCore, n)
    BY LeqCoreIs
  <2> QED  BY <2>1 DEF CoreAt
<1>2. 0 \in T
  BY <1>1 DEF Covered
<1>3. ASSUME NEW n \in Nat, n \in T PROVE n + 1 \in T
  <2>1. n + 1 \in Nat /\ n + 1 # 0 /\ (n + 1) - 1 = n
    OBVIOUS
  <2>2. Covered(LeqCore[n])
    BY <1>3
  <2>3. ASSUME NEW l \in Levels, NEW r \in Levels, NEW diff \in Int, Solid[l], Solid[r]
        PROVE  LeqCore[n + 1][l][r][diff] # "panic"
    <3>1. LeqCall(LeqCore[n], l, r, diff) # "panic"
      BY <2>2, <2>3, LeqCallCovered
    <3> QED  BY <1>1, <2>1, <3>1
  <2> QED  BY <2>1, <2>3 DEF Covered
<1>4. ASSUME NEW n \in Nat PROVE n \in T
  <2> HIDE DEF T
  <2>1. 0 .. n \subseteq T
    BY <1>2, <1>3, SetInduction
  <2> QED  BY <2>1
<1> QED  BY <1>4

\* leq does not panic on any two levels.
LEMMA LeqNoPanic == ASSUME NEW l \in Levels, NEW r \in Levels PROVE Leq(l, r) # "panic"
<1>1. Covered(LeqCore[MaxCalls])
  BY LeqCoreCovered, LevelsAssumption
<1>2. LeqCore[MaxCalls][Simplify[l]][Simplify[r]][0] # "panic"
  BY <1>1, SimplifySolid DEF Covered
<1> QED  BY <1>2 DEF Leq

-----------------------------------------------------------------------------
(* The two levels of a declaration.                                          *)

\* The levels compared and the arguments are levels, and stay so.
LevelsInv == left \in Levels /\ right \in Levels /\ stage \in {"declared", "used", "simplified"}

LEMMA LevelsInvInit == LevelsInit => LevelsInv
BY LevelsAssumption DEF LevelsInit, LevelsInv

LEMMA LevelsInvNext == LevelsInv /\ [LevelsNext]_levelVars => LevelsInv'
<1> SUFFICES ASSUME LevelsInv, [LevelsNext]_levelVars PROVE LevelsInv'
  OBVIOUS
<1>1. ASSUME NEW vs \in [DOMAIN Uparams -> Args], Instantiate(vs) PROVE LevelsInv'
  BY <1>1 DEF Instantiate, LevelsInv
<1>2. CASE Simplified
  BY <1>2, SimplifyIs DEF Simplified, LevelsInv
<1>3. CASE UNCHANGED levelVars
  BY <1>3 DEF levelVars, LevelsInv
<1> QED  BY <1>1, <1>2, <1>3 DEF LevelsNext

\* The levels under comparison are levels, whatever is done to them: simplify
\* raises no height.
THEOREM LevelsInvariant == LevelsSpec => []LevelsInv
<1>1. LevelsInit => LevelsInv
  BY LevelsInvInit
<1>2. LevelsInv /\ [LevelsNext]_levelVars => LevelsInv'
  BY LevelsInvNext
<1> QED  BY <1>1, <1>2, PTL DEF LevelsSpec

\* leq accepts only what holds for every valuation, and does not panic: every
\* answer true of leq_core, with whatever stack, is right, and what it is called
\* with never falls through its cases.
THEOREM LeqSoundHolds == LevelsSpec => []LeqSound
<1>1. LevelsInv => LeqSound
  BY LeqIsSound, LeqNoPanic DEF LevelsInv, LeqSound
<1> QED  BY <1>1, LevelsInvariant, PTL

\* One where every parameter is 1.
LEMMA OnesAre ==
  \E e \in Valuations : \A p \in Params : e[p] # 0
<1>1. 1 \in 0 .. MaxValue
  BY LevelsAssumption
<1>2. [p \in Params |-> 1] \in Valuations
  BY <1>1 DEF Valuations
<1> QED  BY <1>2

LEMMA InstantiateMeans ==
  ASSUME LevelsInv, NEW vs \in [DOMAIN Uparams -> Args], Instantiate(vs)
  PROVE  /\ \A e \in Valuations :
              Value(left', e) =
                Value(left, [p \in Params |->
                  Value(args'[CHOOSE i \in DOMAIN Uparams : Uparams[i] = p], e)])
         /\ IsZeroUnder(left, Ks, args') <=> \A e \in Valuations : Value(left', e) = 0
<1> DEFINE kv == <<Ks, vs>>
<1>1. left \in Levels /\ left' \in Levels /\ args' = vs
  BY DEF LevelsInv, Instantiate
<1>2. /\ left' = SubstFn(kv)[left] /\ IsZeroUnder(left, Ks, args') = ZeroUnders(kv)[left]
      /\ kv[1] = Ks /\ kv[2] = vs
  BY <1>1, SubstLevelIs, IsZeroUnderIs DEF Instantiate
<1>3. /\ vs \in Seq(Levels) /\ DOMAIN vs = DOMAIN Uparams /\ \A i \in DOMAIN vs : vs[i] \in Levels
      /\ vs \in Seq(AllLevels)
  <2>1. Uparams \in Seq(Params) /\ Args \subseteq Levels
    BY LevelsAssumption
  <2>2. DOMAIN Uparams = 1 .. Len(Uparams) /\ Len(Uparams) \in Nat
    BY <2>1
  <2>3. vs \in [1 .. Len(Uparams) -> Levels] /\ vs \in [1 .. Len(Uparams) -> AllLevels]
    BY <2>1, <2>2, AllAre
  <2> QED  BY <2>2, <2>3
<1>4. GivesLevels(kv)
  <2>1. Ks \in Seq(AllLevels)
    <3>1. \A i \in DOMAIN Uparams : Param(Uparams[i]) \in AllLevels
      BY ParamsAre, AllAre
    <3>2. DOMAIN Uparams = 1 .. Len(Uparams) /\ Len(Uparams) \in Nat
      BY LevelsAssumption
    <3> QED  BY <3>1, <3>2 DEF Ks
  <2> QED  BY <1>3, <2>1 DEF GivesLevels
<1> HIDE DEF kv
<1>5. ASSUME NEW e \in Valuations
      PROVE  Value(left', e) =
               Value(left, [p \in Params |->
                 Value(args'[CHOOSE i \in DOMAIN Uparams : Uparams[i] = p], e)])
  <2> DEFINE env == [p \in Params |-> Value(vs[Place(p)], e)]
  <2>1. e \in Assignments
    BY ValuationsAssign
  <2>2. \A p \in Params : vs[Place(p)] \in Levels
    BY <1>3, PlaceIs
  <2>3. env \in Assignments
    BY <2>1, <2>2, ValueNat DEF Assignments
  <2>4. \A p \in Params : SubstParam(Param(p), kv[1], kv[2]) = vs[Place(p)]
    BY <1>2, <1>3, SubstAll
  <2>5. Carries(env, e, kv)
    BY <2>4 DEF Carries
  <2>6. env = [p \in Params |-> Value(args'[CHOOSE i \in DOMAIN Uparams : Uparams[i] = p], e)]
    BY <1>1 DEF Place
  <2> HIDE DEF env
  <2>7. Value(left', e) = Value(left, env)
    BY <1>1, <1>2, <1>4, <2>1, <2>3, <2>5, SubstValue
  <2> QED  BY <2>6, <2>7
<1>6. IsZeroUnder(left, Ks, args') <=> IsAlwaysZero[left']
  BY <1>1, <1>2, <1>3, <1>4, UnderMeans DEF kv
<1>7. IsAlwaysZero[left'] <=> \A e \in Valuations : Value(left', e) = 0
  <2>1. IsAlwaysZero[left'] => \A e \in Valuations : Value(left', e) = 0
    BY <1>1, ValuationsAssign, AlwaysZeroMeans
  <2>2. PICK e \in Valuations : \A p \in Params : e[p] # 0
    BY OnesAre
  <2>3. Value(left', e) = 0 => IsAlwaysZero[left']
    BY <1>1, <2>2, ValuationsAssign, AlwaysZeroMeans
  <2> QED  BY <2>1, <2>3
<1> QED  BY <1>5, <1>6, <1>7

\* Simplifying a level changes no value; a use means what the declaration means
\* where the parameters have the values of the arguments, all at once; and
\* is_zero_under tells exactly when a use is zero for every valuation.
THEOREM MeaningKeptHolds == LevelsSpec => MeaningKept
<1> DEFINE Kept ==
      /\ Simplified => \A e \in Valuations : Value(left', e) = Value(left, e)
      /\ stage' = "used" =>
           /\ \A e \in Valuations :
                Value(left', e) =
                  Value(left, [p \in Params |->
                    Value(args'[CHOOSE i \in DOMAIN Uparams : Uparams[i] = p], e)])
           /\ IsZeroUnder(left, Ks, args') <=> \A e \in Valuations : Value(left', e) = 0
<1>1. ASSUME LevelsInv, [LevelsNext]_levelVars PROVE [Kept]_levelVars
  <2>1. ASSUME NEW vs \in [DOMAIN Uparams -> Args], Instantiate(vs) PROVE Kept
    <3>1. ~Simplified
      BY <2>1 DEF Instantiate, Simplified
    <3> QED  BY <1>1, <2>1, <3>1, InstantiateMeans
  <2>2. CASE Simplified
    <3>1. stage' # "used" /\ left' = Simplify[left] /\ left \in Levels
      BY <1>1, <2>2 DEF Simplified, LevelsInv
    <3>2. \A e \in Valuations : Value(left', e) = Value(left, e)
      BY <3>1, ValuationsAssign, SimplifyMeans
    <3> QED  BY <3>1, <3>2
  <2>3. CASE UNCHANGED levelVars
    BY <2>3
  <2> QED  BY <1>1, <2>1, <2>2, <2>3 DEF LevelsNext
<1> QED  BY <1>1, LevelsInvariant, PTL DEF LevelsSpec, MeaningKept

-----------------------------------------------------------------------------
(* Expressions and their heights.                                          *)

\* The expressions whose children are in s.
Over(s) == {e \in [op : DOMAIN Scopes, idx : Nat, kids : Seq(s)] :
              Len(e.kids) = Len(Scopes[e.op])}

\* ExprsUpto as far as n.
IsPart(f, n) == f = [m \in 0 .. n |-> IF m = 0 THEN {} ELSE Over(f[m - 1])]

LEMMA PartIs ==
  ASSUME NEW f, NEW n \in Nat, IsPart(f, n)
  PROVE  \A m \in 0 .. n : f[m] = IF m = 0 THEN {} ELSE Over(f[m - 1])
BY DEF IsPart

\* ExprsUpto exists and satisfies its definition.
LEMMA UptoIs ==
  /\ ExprsUpto[0] = {}
  /\ \A n \in Nat : ExprsUpto[n + 1] = Over(ExprsUpto[n])
<1> DEFINE Parts == {n \in Nat : \E f : IsPart(f, n)}
<1>1. 0 \in Parts
  <2>1. IsPart([m \in 0 .. 0 |-> {}], 0)
    BY DEF IsPart
  <2> QED  BY <2>1
<1>2. ASSUME NEW n \in Nat, n \in Parts PROVE n + 1 \in Parts
  <2>1. PICK f : IsPart(f, n)
    BY <1>2
  <2> DEFINE h == [m \in 0 .. n + 1 |-> IF m = n + 1 THEN Over(f[n]) ELSE f[m]]
  <2>2. ASSUME NEW m \in 0 .. n + 1 PROVE h[m] = IF m = 0 THEN {} ELSE Over(h[m - 1])
    <3>1. CASE m = n + 1
      <4>1. m # 0 /\ m - 1 = n /\ n \in 0 .. n + 1 /\ n # n + 1
        BY <3>1
      <4>2. h[m] = Over(f[n]) /\ h[n] = f[n]
        BY <3>1, <4>1
      <4> HIDE DEF h
      <4> QED  BY <4>1, <4>2
    <3>2. CASE m # n + 1
      <4>1. m \in 0 .. n /\ m - 1 # n + 1 /\ (m # 0 => m - 1 \in 0 .. n + 1)
        BY <3>2
      <4>2. h[m] = f[m] /\ (m # 0 => h[m - 1] = f[m - 1])
        BY <3>2, <4>1
      <4>3. f[m] = IF m = 0 THEN {} ELSE Over(f[m - 1])
        BY <2>1, <4>1, PartIs
      <4> HIDE DEF h
      <4> QED  BY <4>2, <4>3
    <3> QED  BY <3>1, <3>2
  <2>3. DOMAIN h = 0 .. n + 1 /\ h = [m \in 0 .. n + 1 |-> h[m]]
    OBVIOUS
  <2> HIDE DEF h
  <2>4. IsPart(h, n + 1)
    BY <2>2, <2>3 DEF IsPart
  <2> QED  BY <2>4
<1>3. ASSUME NEW n \in Nat PROVE n \in Parts
  <2> HIDE DEF Parts
  <2>1. 0 .. n \subseteq Parts
    BY <1>1, <1>2, SetInduction
  <2> QED  BY <2>1
<1>4. ASSUME NEW n \in Nat, NEW f, IsPart(f, n), NEW k \in Nat, NEW g, IsPart(g, k), n <= k
      PROVE  f[n] = g[n]
  <2> DEFINE T == {m \in Nat : m <= n => f[m] = g[m]}
  <2>1. 0 \in T
    <3>1. f[0] = {} /\ g[0] = {}
      BY <1>4, PartIs
    <3> QED  BY <3>1
  <2>2. ASSUME NEW m \in Nat, m \in T, m + 1 <= n PROVE f[m + 1] = g[m + 1]
    <3>1. m + 1 \in 0 .. n /\ m + 1 \in 0 .. k /\ m + 1 # 0 /\ (m + 1) - 1 = m
      BY <2>2, <1>4
    <3>2. f[m + 1] = Over(f[m])
      BY <3>1, <1>4, PartIs
    <3>3. g[m + 1] = Over(g[m])
      BY <3>1, <1>4, PartIs
    <3>4. f[m] = g[m]
      BY <2>2
    <3> QED  BY <3>2, <3>3, <3>4
  <2>3. \A m \in Nat : m \in T => m + 1 \in T
    BY <2>2
  <2>4. 0 .. n \subseteq T
    <3> HIDE DEF T
    <3> QED  BY <2>1, <2>3, SetInduction
  <2> QED  BY <2>4
<1> DEFINE Part(n) == CHOOSE f : IsPart(f, n)
           upto == [n \in Nat |-> Part(n)[n]]
<1>5. \A n \in Nat : IsPart(Part(n), n)
  BY <1>3
<1> HIDE DEF Part
<1>6. \A n \in Nat : upto[n] = Part(n)[n]
  OBVIOUS
<1>7. ASSUME NEW n \in Nat PROVE upto[n] = IF n = 0 THEN {} ELSE Over(upto[n - 1])
  <2>1. n \in 0 .. n
    OBVIOUS
  <2>2. Part(n)[n] = IF n = 0 THEN {} ELSE Over(Part(n)[n - 1])
    BY <2>1, <1>5, PartIs
  <2>3. n # 0 => Part(n - 1)[n - 1] = Part(n)[n - 1]
    <3>1. SUFFICES ASSUME n # 0 PROVE Part(n - 1)[n - 1] = Part(n)[n - 1]
      OBVIOUS
    <3>2. n - 1 \in Nat /\ n - 1 <= n
      BY <3>1
    <3> QED  BY <3>2, <1>4, <1>5
  <2>4. n # 0 => n - 1 \in Nat
    OBVIOUS
  <2> HIDE DEF upto
  <2> QED  BY <1>6, <2>2, <2>3, <2>4
<1>8. upto = [n \in Nat |-> IF n = 0 THEN {} ELSE Over(upto[n - 1])]
  BY <1>7
<1> DEFINE chosen == CHOOSE u : u = [n \in Nat |-> IF n = 0 THEN {} ELSE Over(u[n - 1])]
<1>9. chosen = [n \in Nat |-> IF n = 0 THEN {} ELSE Over(chosen[n - 1])]
  <2> HIDE DEF upto
  <2> QED  BY <1>8
<1>10. ExprsUpto = chosen
  BY DEF ExprsUpto, Over
<1> HIDE DEF chosen
<1>11. \A n \in Nat : chosen[n] = IF n = 0 THEN {} ELSE Over(chosen[n - 1])
  BY <1>9
<1>12. chosen[0] = {}
  BY <1>11
<1>13. ASSUME NEW n \in Nat PROVE chosen[n + 1] = Over(chosen[n])
  <2>1. n + 1 \in Nat /\ n + 1 # 0 /\ (n + 1) - 1 = n
    OBVIOUS
  <2> QED  BY <1>11, <2>1
<1> QED  BY <1>10, <1>12, <1>13

\* The trees of any height.
Trees == UNION {ExprsUpto[n] : n \in Nat}

\* The four shapes an operator gives its children.
LEMMA ScopesIs ==
  /\ DOMAIN Scopes = {"leaf", "var", "app", "proj", "pi", "lambda", "let"}
  /\ Scopes["leaf"] = <<>> /\ Scopes["var"] = <<>>
  /\ Scopes["app"] = <<0, 0>> /\ Scopes["proj"] = <<0>>
  /\ Scopes["pi"] = <<0, 1>> /\ Scopes["lambda"] = <<0, 1>> /\ Scopes["let"] = <<0, 0, 1>>
BY DEF Scopes

LEMMA OverIs ==
  ASSUME NEW s, NEW e
  PROVE  e \in Over(s) <=>
           /\ e \in [op : DOMAIN Scopes, idx : Nat, kids : Seq(s)]
           /\ Len(e.kids) = Len(Scopes[e.op])
BY DEF Over

LEMMA OverGrows == ASSUME NEW s, NEW t, s \subseteq t PROVE Over(s) \subseteq Over(t)
<1>1. Seq(s) \subseteq Seq(t)
  OBVIOUS
<1> QED  BY <1>1 DEF Over

LEMMA UptoNext == \A n \in Nat : ExprsUpto[n] \subseteq ExprsUpto[n + 1]
<1> DEFINE T == {n \in Nat : ExprsUpto[n] \subseteq ExprsUpto[n + 1]}
<1>1. 0 \in T
  BY UptoIs
<1>2. ASSUME NEW n \in Nat, n \in T PROVE n + 1 \in T
  <2>1. n + 1 \in Nat
    OBVIOUS
  <2>2. ExprsUpto[n + 1] = Over(ExprsUpto[n]) /\ ExprsUpto[(n + 1) + 1] = Over(ExprsUpto[n + 1])
    BY <2>1, UptoIs
  <2> QED  BY <1>2, <2>1, <2>2, OverGrows
<1>3. ASSUME NEW n \in Nat PROVE n \in T
  <2> HIDE DEF T
  <2>1. 0 .. n \subseteq T
    BY <1>1, <1>2, SetInduction
  <2> QED  BY <2>1
<1> QED  BY <1>3

\* What has height n has every greater one.
LEMMA UptoGrows == \A m, n \in Nat : m <= n => ExprsUpto[m] \subseteq ExprsUpto[n]
<1> SUFFICES ASSUME NEW m \in Nat, NEW n \in Nat, m <= n PROVE ExprsUpto[m] \subseteq ExprsUpto[n]
  OBVIOUS
<1> DEFINE T == {k \in Nat : ExprsUpto[m] \subseteq ExprsUpto[m + k]}
<1>1. 0 \in T
  OBVIOUS
<1>2. ASSUME NEW k \in Nat, k \in T PROVE k + 1 \in T
  <2>1. m + k \in Nat /\ (m + k) + 1 = m + (k + 1)
    OBVIOUS
  <2>2. ExprsUpto[m + k] \subseteq ExprsUpto[(m + k) + 1]
    BY <2>1, UptoNext
  <2> QED  BY <1>2, <2>1, <2>2
<1>3. n - m \in Nat /\ m + (n - m) = n
  OBVIOUS
<1>4. n - m \in T
  <2> HIDE DEF T
  <2>1. 0 .. (n - m) \subseteq T
    BY <1>1, <1>2, <1>3, SetInduction
  <2> QED  BY <1>3, <2>1
<1> QED  BY <1>3, <1>4

\* A node of a tree, and the trees it has for children.
LEMMA NodeOf ==
  ASSUME NEW n \in Nat, NEW e, e \in ExprsUpto[n]
  PROVE  /\ n # 0 /\ n - 1 \in Nat
         /\ e \in [op : DOMAIN Scopes, idx : Nat, kids : Seq(ExprsUpto[n - 1])]
         /\ Len(e.kids) = Len(Scopes[e.op])
<1>1. n # 0
  BY UptoIs
<1>2. n - 1 \in Nat /\ (n - 1) + 1 = n
  BY <1>1
<1>3. e \in Over(ExprsUpto[n - 1])
  BY <1>2, UptoIs
<1> QED  BY <1>1, <1>2, <1>3, OverIs

LEMMA ExprIs ==
  ASSUME NEW e \in Expressions
  PROVE  /\ e.op \in DOMAIN Scopes /\ e.idx \in Nat /\ e.kids \in Seq(Expressions)
         /\ Len(e.kids) = Len(Scopes[e.op])
         /\ e = [op |-> e.op, idx |-> e.idx, kids |-> e.kids]
         /\ \A k \in DOMAIN e.kids : e.kids[k] \in Expressions
<1>1. MaxHeight \in Nat
  BY ExprsAssumption
<1>2. /\ MaxHeight - 1 \in Nat
      /\ e \in [op : DOMAIN Scopes, idx : Nat, kids : Seq(ExprsUpto[MaxHeight - 1])]
      /\ Len(e.kids) = Len(Scopes[e.op])
  BY <1>1, NodeOf DEF Expressions
<1>3. ExprsUpto[MaxHeight - 1] \subseteq Expressions
  <2>1. MaxHeight - 1 <= MaxHeight
    BY <1>1
  <2> QED  BY <1>1, <1>2, <2>1, UptoGrows DEF Expressions
<1>4. e.kids \in Seq(Expressions)
  BY <1>2, <1>3
<1>5. \A k \in DOMAIN e.kids : e.kids[k] \in Expressions
  BY <1>4
<1> QED  BY <1>2, <1>4, <1>5

LEMMA ExprsAreTrees == Expressions \subseteq Trees
BY ExprsAssumption DEF Expressions, Trees

\* A function on the numbers up to n is a sequence of length n.
LEMMA FunctionSeq ==
  ASSUME NEW S, NEW n \in Nat, NEW f \in [1 .. n -> S]
  PROVE  f \in Seq(S) /\ Len(f) = n
OBVIOUS

\* A node whose children are exchanged for trees is a tree.
LEMMA MapUpto ==
  ASSUME NEW n \in Nat, NEW e, e \in Expressions, NEW kids \in Seq(ExprsUpto[n]), Len(kids) = Len(e.kids)
  PROVE  MapChildren(e, kids) \in ExprsUpto[n + 1]
<1>1. MapChildren(e, kids) = [op |-> e.op, idx |-> e.idx, kids |-> kids]
  <2>1. e = [op |-> e.op, idx |-> e.idx, kids |-> e.kids]
    BY ExprIs
  <2>2. \A o, i, ks : LET r == [op |-> o, idx |-> i, kids |-> ks]
                      IN  [r EXCEPT !.kids = kids] = [op |-> o, idx |-> i, kids |-> kids]
    OBVIOUS
  <2>3. MapChildren([op |-> e.op, idx |-> e.idx, kids |-> e.kids], kids)
          = [op |-> e.op, idx |-> e.idx, kids |-> kids]
    BY <2>2 DEF MapChildren
  <2> QED  BY <2>1, <2>3
<1>2. [op |-> e.op, idx |-> e.idx, kids |-> kids] \in Over(ExprsUpto[n])
  BY ExprIs, OverIs
<1> QED  BY <1>1, <1>2, UptoIs

\* The height of an expression, which its children have less of.
Height == [e \in Expressions |->
             CHOOSE n \in Nat : e \in ExprsUpto[n] /\ \A m \in Nat : e \in ExprsUpto[m] => n <= m]

LEMMA HeightIs ==
  ASSUME NEW e \in Expressions
  PROVE  /\ Height[e] \in Nat /\ e \in ExprsUpto[Height[e]]
         /\ \A m \in Nat : e \in ExprsUpto[m] => Height[e] <= m
<1> DEFINE T == {n \in Nat : e \in ExprsUpto[n]}
<1>1. MaxHeight \in T
  BY ExprsAssumption DEF Expressions
<1>2. T \in SUBSET Nat /\ T # {}
  BY <1>1
<1>3. PICK n \in T : \A m \in T : n <= m
  <2> HIDE DEF T
  <2> QED  BY <1>2, LeastNat
<1>4. n \in Nat /\ e \in ExprsUpto[n] /\ \A m \in Nat : e \in ExprsUpto[m] => n <= m
  BY <1>3
<1> DEFINE h == CHOOSE k \in Nat : e \in ExprsUpto[k] /\ \A m \in Nat : e \in ExprsUpto[m] => k <= m
<1>5. h \in Nat /\ e \in ExprsUpto[h] /\ \A m \in Nat : e \in ExprsUpto[m] => h <= m
  BY <1>4
<1>6. Height[e] = h
  BY DEF Height
<1> HIDE DEF h
<1> QED  BY <1>5, <1>6

LEMMA HeightFalls ==
  ASSUME NEW e \in Expressions, NEW k \in DOMAIN e.kids
  PROVE  e.kids[k] \in Expressions /\ Height[e.kids[k]] < Height[e]
<1>1. Height[e] \in Nat /\ e \in ExprsUpto[Height[e]] /\ e.kids[k] \in Expressions
  BY HeightIs, ExprIs
<1>2. Height[e] - 1 \in Nat /\ e.kids \in Seq(ExprsUpto[Height[e] - 1])
  BY <1>1, NodeOf
<1>3. e.kids[k] \in ExprsUpto[Height[e] - 1]
  BY <1>2
<1>4. Height[e.kids[k]] \in Nat /\ Height[e.kids[k]] <= Height[e] - 1
  BY <1>1, <1>2, <1>3, HeightIs
<1> QED  BY <1>1, <1>4

\* A set that holds every expression whose children it holds, holds them all.
LEMMA ExprInduction ==
  ASSUME NEW T, \A e \in Expressions : (\A k \in DOMAIN e.kids : e.kids[k] \in T) => e \in T
  PROVE  Expressions \subseteq T
<1>1. \A e \in Expressions : Height[e] \in Nat
  BY HeightIs
<1>2. ASSUME NEW e \in Expressions, \A x \in Expressions : Height[x] < Height[e] => x \in T PROVE e \in T
  BY <1>2, HeightFalls
<1> QED  BY <1>1, <1>2, HeightInduction

\* step makes the value of an expression, and of the values of others looks at
\* those of its children only.
IsExprStep(V, step) ==
  /\ step \in [Expressions \X [Expressions -> V] -> V]
  /\ \A e \in Expressions : \A g, h \in [Expressions -> V] :
       (\A k \in DOMAIN e.kids : g[e.kids[k]] = h[e.kids[k]]) => step[<<e, g>>] = step[<<e, h>>]

\* A function defined by recursion along expressions exists.
LEMMA ExprRecursion ==
  ASSUME NEW V, V # {}, NEW step, IsExprStep(V, step)
  PROVE  \E f : Solves(f, Expressions, V, step)
<1>1. \A e \in Expressions : Height[e] \in Nat
  BY HeightIs
<1>2. ASSUME NEW e \in Expressions, NEW g \in [Expressions -> V], NEW h \in [Expressions -> V],
             \A x \in Expressions : Height[x] < Height[e] => g[x] = h[x]
      PROVE  step[<<e, g>>] = step[<<e, h>>]
  <2>1. \A k \in DOMAIN e.kids : g[e.kids[k]] = h[e.kids[k]]
    BY <1>2, HeightFalls
  <2> QED  BY <2>1 DEF IsExprStep
<1>3. IsRecursion(Expressions, V, Height, step)
  <2> QED  BY <1>1, <1>2 DEF IsRecursion, IsExprStep
<1> QED  BY <1>3, HeightRecursion

-----------------------------------------------------------------------------
(* The recursive functions of expressions exist and satisfy their            *)
(* definitions: each is given by its values for the children (At).           *)

LEMMA BindersIs ==
  ASSUME NEW e \in Expressions
  PROVE  \A k \in DOMAIN e.kids : Binders(e, k) \in {0, 1}
<1> SUFFICES ASSUME NEW k \in DOMAIN e.kids PROVE Binders(e, k) \in {0, 1}
  OBVIOUS
<1>1. /\ e.op \in {"leaf", "var", "app", "proj", "pi", "lambda", "let"}
      /\ k \in 1 .. Len(Scopes[e.op])
  BY ExprIs, ScopesIs
<1>2. CASE e.op = "leaf"
  BY <1>1, <1>2, ScopesIs DEF Binders
<1>3. CASE e.op = "var"
  BY <1>1, <1>3, ScopesIs DEF Binders
<1>4. CASE e.op = "app"
  BY <1>1, <1>4, ScopesIs DEF Binders
<1>5. CASE e.op = "proj"
  BY <1>1, <1>5, ScopesIs DEF Binders
<1>6. CASE e.op = "pi"
  BY <1>1, <1>6, ScopesIs DEF Binders
<1>7. CASE e.op = "lambda"
  BY <1>1, <1>7, ScopesIs DEF Binders
<1>8. CASE e.op = "let"
  BY <1>1, <1>8, ScopesIs DEF Binders
<1> QED  BY <1>1, <1>2, <1>3, <1>4, <1>5, <1>6, <1>7, <1>8

LEMMA KidCount ==
  ASSUME NEW e \in Expressions
  PROVE  /\ Len(e.kids) \in 0 .. 3 /\ DOMAIN e.kids = 1 .. Len(e.kids)
         /\ e.op \in {"lambda", "pi"} => 2 \in DOMAIN e.kids
<1>1. /\ e.op \in {"leaf", "var", "app", "proj", "pi", "lambda", "let"}
      /\ Len(e.kids) = Len(Scopes[e.op]) /\ DOMAIN e.kids = 1 .. Len(e.kids)
  BY ExprIs, ScopesIs
<1>2. /\ Len(Scopes["leaf"]) = 0 /\ Len(Scopes["var"]) = 0 /\ Len(Scopes["proj"]) = 1
      /\ Len(Scopes["app"]) = 2 /\ Len(Scopes["pi"]) = 2 /\ Len(Scopes["lambda"]) = 2
      /\ Len(Scopes["let"]) = 3
  BY ScopesIs
<1>3. \A op : op \in {"leaf", "var", "app", "proj", "pi", "lambda", "let"} =>
        Len(Scopes[op]) \in 0 .. 3 /\ (op \in {"lambda", "pi"} => Len(Scopes[op]) = 2)
  BY <1>2
<1> QED  BY <1>1, <1>3

LEMMA GreatestIs ==
  ASSUME NEW s \in SUBSET Int, NEW m \in s, \A n \in s : n <= m
  PROVE  Greatest(s) = m
<1>1. ASSUME NEW x \in s, \A n \in s : n <= x PROVE x = m
  <2>1. x <= m /\ m <= x /\ x \in Int /\ m \in Int
    BY <1>1
  <2> QED  BY <2>1
<1> DEFINE g == CHOOSE x \in s : \A n \in s : n <= x
<1>2. g \in s /\ \A n \in s : n <= g
  OBVIOUS
<1>3. g = m
  <2> HIDE DEF g
  <2> QED  BY <1>1, <1>2
<1> QED  BY <1>3 DEF Greatest

\* The greatest of 0 and some more numbers.
LEMMA GreatestOf ==
  ASSUME NEW n \in Nat, NEW v, \A k \in 1 .. n : v[k] \in Int
  PROVE  LET s == {0} \cup {v[k] : k \in 1 .. n}
         IN  Greatest(s) \in s /\ Greatest(s) \in Nat /\ \A x \in s : x <= Greatest(s)
<1> DEFINE Upto(m) == {0} \cup {v[k] : k \in 1 .. m}
           Has(m) == \E x \in Upto(m) : x \in Int /\ \A y \in Upto(m) : y <= x
           T == {m \in 0 .. n : Has(m)}
<1>1. 0 \in T
  <2>1. Upto(0) = {0}
    OBVIOUS
  <2>2. Has(0)
    BY <2>1
  <2> QED  BY <2>2
<1>2. ASSUME NEW m \in 0 .. n - 1, m \in T PROVE m + 1 \in T
  <2>1. PICK x \in Upto(m) : x \in Int /\ \A y \in Upto(m) : y <= x
    BY <1>2
  <2>2. m + 1 \in 1 .. n /\ m + 1 \in 0 .. n /\ v[m + 1] \in Int
    OBVIOUS
  <2>3. Upto(m + 1) = Upto(m) \cup {v[m + 1]}
    <3>1. 1 .. m + 1 = (1 .. m) \cup {m + 1}
      OBVIOUS
    <3> QED  BY <3>1
  <2> HIDE DEF Upto
  <2>4. CASE x <= v[m + 1]
    <3>1. \A y \in Upto(m + 1) : y <= v[m + 1]
      <4>1. ASSUME NEW y \in Upto(m) PROVE y <= v[m + 1]
        <5>1. y \in Int
          <6> USE DEF Upto
          <6>1. CASE y = 0
            BY <6>1
          <6>2. CASE \E k \in 1 .. m : y = v[k]
            <7>1. \A k \in 1 .. m : k \in 1 .. n
              OBVIOUS
            <7> QED  BY <6>2, <7>1
          <6> QED  BY <6>1, <6>2
        <5>2. y <= x /\ x \in Int
          BY <2>1
        <5> QED  BY <2>2, <2>4, <5>1, <5>2
      <4> QED  BY <2>2, <2>3, <4>1
    <3> QED  BY <2>2, <2>3, <3>1
  <2>5. CASE ~(x <= v[m + 1])
    <3>1. v[m + 1] <= x
      BY <2>1, <2>2, <2>5
    <3>2. \A y \in Upto(m + 1) : y <= x
      BY <2>1, <2>3, <3>1
    <3>3. x \in Upto(m + 1)
      BY <2>3
    <3> QED  BY <2>1, <2>2, <3>2, <3>3
  <2> QED  BY <2>4, <2>5
<1>3. n \in T
  <2> HIDE DEF T
  <2>1. 0 .. n \subseteq T
    BY <1>1, <1>2, SetInduction
  <2> QED  BY <2>1
<1>4. PICK x \in Upto(n) : x \in Int /\ \A y \in Upto(n) : y <= x
  BY <1>3
<1>5. Upto(n) \in SUBSET Int /\ 0 \in Upto(n)
  OBVIOUS
<1> HIDE DEF Upto
<1>6. Greatest(Upto(n)) = x
  BY <1>4, <1>5, GreatestIs
<1>7. 0 <= x
  BY <1>4, <1>5
<1>8. x \in Nat
  BY <1>4, <1>7
<1> QED  BY <1>4, <1>6, <1>8 DEF Upto

-----------------------------------------------------------------------------
(* loose *)

\* The numbers of which loose of a node that is not a variable is the greatest.
Reaches(f, e) == {0} \cup {f[e.kids[k]] - Binders(e, k) : k \in DOMAIN e.kids}
LooseAt(f, e) == IF e.op = "var" THEN e.idx + 1 ELSE Greatest(Reaches(f, e))

LEMMA ReachesIs ==
  ASSUME NEW e \in Expressions, NEW f, \A k \in DOMAIN e.kids : f[e.kids[k]] \in Nat
  PROVE  /\ Greatest(Reaches(f, e)) \in Reaches(f, e) /\ Greatest(Reaches(f, e)) \in Nat
         /\ \A x \in Reaches(f, e) : x <= Greatest(Reaches(f, e))
<1> DEFINE v == [k \in DOMAIN e.kids |-> f[e.kids[k]] - Binders(e, k)]
<1>1. Len(e.kids) \in Nat /\ DOMAIN e.kids = 1 .. Len(e.kids)
  BY KidCount
<1>2. \A k \in 1 .. Len(e.kids) : v[k] \in Int
  <2>1. \A k \in DOMAIN e.kids : f[e.kids[k]] - Binders(e, k) \in Int
    BY BindersIs
  <2> QED  BY <1>1, <2>1
<1>3. Reaches(f, e) = {0} \cup {v[k] : k \in 1 .. Len(e.kids)}
  BY <1>1 DEF Reaches
<1> HIDE DEF v
<1> QED  BY <1>1, <1>2, <1>3, GreatestOf

LEMMA LooseTyped ==
  ASSUME NEW e \in Expressions, NEW f \in [Expressions -> Nat]
  PROVE  LooseAt(f, e) \in Nat
<1>1. \A k \in DOMAIN e.kids : f[e.kids[k]] \in Nat
  BY ExprIs
<1> QED  BY <1>1, ExprIs, ReachesIs DEF LooseAt

LEMMA LooseLocal ==
  ASSUME NEW e \in Expressions, NEW g, NEW h, \A k \in DOMAIN e.kids : g[e.kids[k]] = h[e.kids[k]]
  PROVE  LooseAt(g, e) = LooseAt(h, e)
<1>1. Reaches(g, e) = Reaches(h, e)
  BY DEF Reaches
<1> QED  BY <1>1 DEF LooseAt

\* Loose is such a function.
LEMMA LooseIs ==
  /\ Loose \in [Expressions -> Nat]
  /\ \A e \in Expressions : Loose[e] = LooseAt(Loose, e)
<1> DEFINE S == Expressions
           V == Nat
           step == [y \in S \X [S -> V] |-> LooseAt(y[2], y[1])]
<1>1. step \in [S \X [S -> V] -> V]
  <2>1. \A e \in S : \A g \in [S -> V] : LooseAt(g, e) \in V
    BY LooseTyped
  <2> QED  BY <2>1
<1>2. \A e \in S : \A g \in [S -> V] : step[<<e, g>>] = LooseAt(g, e)
  OBVIOUS
<1> HIDE DEF step
<1>3. ASSUME NEW e \in S, NEW g \in [S -> V], NEW h \in [S -> V],
             \A k \in DOMAIN e.kids : g[e.kids[k]] = h[e.kids[k]]
      PROVE  step[<<e, g>>] = step[<<e, h>>]
  <2>1. LooseAt(g, e) = LooseAt(h, e)
    BY <1>3, LooseLocal
  <2>2. step[<<e, g>>] = LooseAt(g, e)
    BY <1>2
  <2>3. step[<<e, h>>] = LooseAt(h, e)
    BY <1>2
  <2> QED  BY ONLY <2>1, <2>2, <2>3
<1>4. V # {}
  <2>1. 0 \in V
    OBVIOUS
  <2> QED  BY <2>1
<1>5. IsExprStep(V, step)
  BY <1>1, <1>3 DEF IsExprStep
<1>6. PICK f : Solves(f, S, V, step)
  <2> HIDE DEF V
  <2> QED  BY ONLY <1>4, <1>5, ExprRecursion
<1>7. f \in [S -> V] /\ \A e \in S : f[e] = LooseAt(f, e)
  BY <1>2, <1>6 DEF Solves
<1> HIDE DEF V
<1>8. f = [e \in S |-> LooseAt(f, e)]
  BY <1>7
<1> DEFINE chosen == CHOOSE g : g = [e \in S |-> LooseAt(g, e)]
<1>9. chosen = [e \in S |-> LooseAt(chosen, e)]
  BY <1>8
<1>10. Loose = chosen
  BY DEF Loose, LooseAt, Reaches
<1> HIDE DEF chosen
<1>11. \A e \in S : chosen[e] = LooseAt(chosen, e)
  BY <1>9
<1> DEFINE T == {e \in S : chosen[e] = f[e]}
<1>12. ASSUME NEW e \in S, \A k \in DOMAIN e.kids : e.kids[k] \in T PROVE e \in T
  <2>1. \A k \in DOMAIN e.kids : chosen[e.kids[k]] = f[e.kids[k]]
    BY <1>12
  <2>2. LooseAt(chosen, e) = LooseAt(f, e)
    BY <2>1, LooseLocal
  <2> QED  BY <1>7, <1>11, <2>2
<1>13. S \subseteq T
  <2> HIDE DEF T
  <2> QED  BY <1>12, ExprInduction
<1>14. chosen = f
  BY <1>7, <1>9, <1>13
<1> QED  BY <1>7, <1>10, <1>14 DEF V

\* A node without children is a tree.
LEMMA LeafUpto ==
  ASSUME NEW op \in {"leaf", "var"}, NEW i \in Nat
  PROVE  [op |-> op, idx |-> i, kids |-> <<>>] \in ExprsUpto[1]
<1>1. Len(<<>>) = Len(Scopes[op]) /\ op \in DOMAIN Scopes
  BY ScopesIs
<1>2. <<>> \in Seq(ExprsUpto[0])
  OBVIOUS
<1>3. [op |-> op, idx |-> i, kids |-> <<>>] \in Over(ExprsUpto[0])
  BY <1>1, <1>2, OverIs
<1>4. ExprsUpto[0 + 1] = Over(ExprsUpto[0])
  BY UptoIs
<1> QED  BY <1>3, <1>4

LEMMA LeafTrees == Leaf \in Trees /\ \A i \in Nat : Var(i) \in Trees /\ Name(i) \in Trees
<1>1. ASSUME NEW i \in Nat PROVE Var(i) \in Trees /\ Name(i) \in Trees
  BY <1>1, LeafUpto DEF Trees, Var, Name
<1>2. Leaf \in Trees
  BY LeafUpto DEF Trees, Leaf
<1> QED  BY <1>1, <1>2

-----------------------------------------------------------------------------
(* mask *)

MaskAt(f, e) ==
  IF e.op = "var" THEN VarMask(e.idx)
  ELSE UNION {IF Binders(e, k) = 0 THEN f[e.kids[k]]
              ELSE UnderBinder(f[e.kids[k]], Loose[e.kids[k]]) : k \in DOMAIN e.kids}

LEMMA NearNat == NEAR \in Nat /\ NEAR >= 1 /\ FAR = NEAR
BY VarMasksAssumption DEF FAR

LEMMA MaskTyped ==
  ASSUME NEW e \in Expressions, NEW f \in [Expressions -> SUBSET (0 .. FAR)]
  PROVE  MaskAt(f, e) \in SUBSET (0 .. FAR)
<1>1. \A k \in DOMAIN e.kids : f[e.kids[k]] \subseteq 0 .. FAR
  BY ExprIs
<1>2. \A m, l : UnderBinder(m, l) \subseteq 0 .. FAR
  <2>1. FAR \in 0 .. FAR
    BY NearNat
  <2> QED  BY <2>1 DEF UnderBinder
<1>3. VarMask(e.idx) \subseteq 0 .. FAR
  <2>1. e.idx \in Nat
    BY ExprIs
  <2>2. Lesser(e.idx, NEAR) \in 0 .. FAR
    BY <2>1, NearNat DEF Lesser
  <2> QED  BY <2>2 DEF VarMask
<1> QED  BY <1>1, <1>2, <1>3 DEF MaskAt

LEMMA MaskLocal ==
  ASSUME NEW e \in Expressions, NEW g, NEW h, \A k \in DOMAIN e.kids : g[e.kids[k]] = h[e.kids[k]]
  PROVE  MaskAt(g, e) = MaskAt(h, e)
<1> DEFINE Part(f, k) == IF Binders(e, k) = 0 THEN f[e.kids[k]]
                         ELSE UnderBinder(f[e.kids[k]], Loose[e.kids[k]])
<1>1. \A k \in DOMAIN e.kids : Part(g, k) = Part(h, k)
  OBVIOUS
<1> HIDE DEF Part
<1>2. {Part(g, k) : k \in DOMAIN e.kids} = {Part(h, k) : k \in DOMAIN e.kids}
  BY <1>1
<1> QED  BY <1>2 DEF MaskAt, Part

\* Mask is such a function.
LEMMA MaskFn ==
  /\ Mask \in [Expressions -> SUBSET (0 .. FAR)]
  /\ \A e \in Expressions : Mask[e] = MaskAt(Mask, e)
<1> DEFINE S == Expressions
           V == SUBSET (0 .. FAR)
           step == [y \in S \X [S -> V] |-> MaskAt(y[2], y[1])]
<1>1. step \in [S \X [S -> V] -> V]
  <2>1. \A e \in S : \A g \in [S -> V] : MaskAt(g, e) \in V
    BY MaskTyped
  <2> QED  BY <2>1
<1>2. \A e \in S : \A g \in [S -> V] : step[<<e, g>>] = MaskAt(g, e)
  OBVIOUS
<1> HIDE DEF step
<1>3. ASSUME NEW e \in S, NEW g \in [S -> V], NEW h \in [S -> V],
             \A k \in DOMAIN e.kids : g[e.kids[k]] = h[e.kids[k]]
      PROVE  step[<<e, g>>] = step[<<e, h>>]
  <2>1. MaskAt(g, e) = MaskAt(h, e)
    BY <1>3, MaskLocal
  <2>2. step[<<e, g>>] = MaskAt(g, e)
    BY <1>2
  <2>3. step[<<e, h>>] = MaskAt(h, e)
    BY <1>2
  <2> QED  BY ONLY <2>1, <2>2, <2>3
<1>4. V # {}
  <2>1. {} \in V
    OBVIOUS
  <2> QED  BY <2>1
<1>5. IsExprStep(V, step)
  BY <1>1, <1>3 DEF IsExprStep
<1>6. PICK f : Solves(f, S, V, step)
  <2> HIDE DEF V
  <2> QED  BY ONLY <1>4, <1>5, ExprRecursion
<1>7. f \in [S -> V] /\ \A e \in S : f[e] = MaskAt(f, e)
  BY <1>2, <1>6 DEF Solves
<1> HIDE DEF V
<1>8. f = [e \in S |-> MaskAt(f, e)]
  BY <1>7
<1> DEFINE chosen == CHOOSE g : g = [e \in S |-> MaskAt(g, e)]
<1>9. chosen = [e \in S |-> MaskAt(chosen, e)]
  BY <1>8
<1>10. Mask = chosen
  BY DEF Mask, MaskAt
<1> HIDE DEF chosen
<1>11. \A e \in S : chosen[e] = MaskAt(chosen, e)
  BY <1>9
<1> DEFINE T == {e \in S : chosen[e] = f[e]}
<1>12. ASSUME NEW e \in S, \A k \in DOMAIN e.kids : e.kids[k] \in T PROVE e \in T
  <2>1. \A k \in DOMAIN e.kids : chosen[e.kids[k]] = f[e.kids[k]]
    BY <1>12
  <2>2. MaskAt(chosen, e) = MaskAt(f, e)
    BY <2>1, MaskLocal
  <2> QED  BY <1>7, <1>11, <2>2
<1>13. S \subseteq T
  <2> HIDE DEF T
  <2> QED  BY <1>12, ExprInduction
<1>14. chosen = f
  BY <1>7, <1>9, <1>13
<1> QED  BY <1>7, <1>10, <1>14 DEF V

-----------------------------------------------------------------------------
(* The free variables, and whether no subexpression reaches past FAR.        *)

FreeVarsAt(f, e) ==
  IF e.op = "var" THEN {e.idx}
  ELSE UNION {{i - Binders(e, k) : i \in f[e.kids[k]]} \ {-1} : k \in DOMAIN e.kids}

LEMMA FreeVarsTyped ==
  ASSUME NEW e \in Expressions, NEW f \in [Expressions -> SUBSET Nat]
  PROVE  FreeVarsAt(f, e) \in SUBSET Nat
<1>1. ASSUME NEW k \in DOMAIN e.kids, NEW i \in f[e.kids[k]], i - Binders(e, k) # -1
      PROVE  i - Binders(e, k) \in Nat
  <2>1. i \in Nat
    BY ExprIs
  <2>2. Binders(e, k) = 0 \/ Binders(e, k) = 1
    BY BindersIs
  <2>3. CASE Binders(e, k) = 0
    BY <2>1, <2>3
  <2>4. CASE Binders(e, k) = 1
    <3>1. i # 0
      BY <1>1, <2>4
    <3> QED  BY <2>1, <2>4, <3>1
  <2> QED  BY <2>2, <2>3, <2>4
<1> QED  BY <1>1, ExprIs DEF FreeVarsAt

LEMMA FreeVarsLocal ==
  ASSUME NEW e \in Expressions, NEW g, NEW h, \A k \in DOMAIN e.kids : g[e.kids[k]] = h[e.kids[k]]
  PROVE  FreeVarsAt(g, e) = FreeVarsAt(h, e)
<1> DEFINE Part(f, k) == {i - Binders(e, k) : i \in f[e.kids[k]]} \ {-1}
<1>1. \A k \in DOMAIN e.kids : Part(g, k) = Part(h, k)
  OBVIOUS
<1> HIDE DEF Part
<1>2. {Part(g, k) : k \in DOMAIN e.kids} = {Part(h, k) : k \in DOMAIN e.kids}
  BY <1>1
<1> QED  BY <1>2 DEF FreeVarsAt, Part

\* FreeVars is such a function.
LEMMA FreeVarsIs ==
  /\ FreeVars \in [Expressions -> SUBSET Nat]
  /\ \A e \in Expressions : FreeVars[e] = FreeVarsAt(FreeVars, e)
<1> DEFINE S == Expressions
           V == SUBSET Nat
           step == [y \in S \X [S -> V] |-> FreeVarsAt(y[2], y[1])]
<1>1. step \in [S \X [S -> V] -> V]
  <2>1. \A e \in S : \A g \in [S -> V] : FreeVarsAt(g, e) \in V
    BY FreeVarsTyped
  <2> QED  BY <2>1
<1>2. \A e \in S : \A g \in [S -> V] : step[<<e, g>>] = FreeVarsAt(g, e)
  OBVIOUS
<1> HIDE DEF step
<1>3. ASSUME NEW e \in S, NEW g \in [S -> V], NEW h \in [S -> V],
             \A k \in DOMAIN e.kids : g[e.kids[k]] = h[e.kids[k]]
      PROVE  step[<<e, g>>] = step[<<e, h>>]
  <2>1. FreeVarsAt(g, e) = FreeVarsAt(h, e)
    BY <1>3, FreeVarsLocal
  <2>2. step[<<e, g>>] = FreeVarsAt(g, e)
    BY <1>2
  <2>3. step[<<e, h>>] = FreeVarsAt(h, e)
    BY <1>2
  <2> QED  BY ONLY <2>1, <2>2, <2>3
<1>4. V # {}
  <2>1. {} \in V
    OBVIOUS
  <2> QED  BY <2>1
<1>5. IsExprStep(V, step)
  BY <1>1, <1>3 DEF IsExprStep
<1>6. PICK f : Solves(f, S, V, step)
  <2> HIDE DEF V
  <2> QED  BY ONLY <1>4, <1>5, ExprRecursion
<1>7. f \in [S -> V] /\ \A e \in S : f[e] = FreeVarsAt(f, e)
  BY <1>2, <1>6 DEF Solves
<1> HIDE DEF V
<1>8. f = [e \in S |-> FreeVarsAt(f, e)]
  BY <1>7
<1> DEFINE chosen == CHOOSE g : g = [e \in S |-> FreeVarsAt(g, e)]
<1>9. chosen = [e \in S |-> FreeVarsAt(chosen, e)]
  BY <1>8
<1>10. FreeVars = chosen
  BY DEF FreeVars, FreeVarsAt
<1> HIDE DEF chosen
<1>11. \A e \in S : chosen[e] = FreeVarsAt(chosen, e)
  BY <1>9
<1> DEFINE T == {e \in S : chosen[e] = f[e]}
<1>12. ASSUME NEW e \in S, \A k \in DOMAIN e.kids : e.kids[k] \in T PROVE e \in T
  <2>1. \A k \in DOMAIN e.kids : chosen[e.kids[k]] = f[e.kids[k]]
    BY <1>12
  <2>2. FreeVarsAt(chosen, e) = FreeVarsAt(f, e)
    BY <2>1, FreeVarsLocal
  <2> QED  BY <1>7, <1>11, <2>2
<1>13. S \subseteq T
  <2> HIDE DEF T
  <2> QED  BY <1>12, ExprInduction
<1>14. chosen = f
  BY <1>7, <1>9, <1>13
<1> QED  BY <1>7, <1>10, <1>14 DEF V

ShallowAt(f, e) == Loose[e] <= NEAR + 1 /\ \A k \in DOMAIN e.kids : f[e.kids[k]]

LEMMA ShallowTyped ==
  ASSUME NEW e \in Expressions, NEW f \in [Expressions -> BOOLEAN]
  PROVE  ShallowAt(f, e) \in BOOLEAN
BY DEF ShallowAt

LEMMA ShallowLocal ==
  ASSUME NEW e \in Expressions, NEW g, NEW h, \A k \in DOMAIN e.kids : g[e.kids[k]] = h[e.kids[k]]
  PROVE  ShallowAt(g, e) = ShallowAt(h, e)
BY DEF ShallowAt

\* Shallow is such a function.
LEMMA ShallowIs ==
  /\ Shallow \in [Expressions -> BOOLEAN]
  /\ \A e \in Expressions : Shallow[e] = ShallowAt(Shallow, e)
<1> DEFINE S == Expressions
           V == BOOLEAN
           step == [y \in S \X [S -> V] |-> ShallowAt(y[2], y[1])]
<1>1. step \in [S \X [S -> V] -> V]
  <2>1. \A e \in S : \A g \in [S -> V] : ShallowAt(g, e) \in V
    BY ShallowTyped
  <2> QED  BY <2>1
<1>2. \A e \in S : \A g \in [S -> V] : step[<<e, g>>] = ShallowAt(g, e)
  OBVIOUS
<1> HIDE DEF step
<1>3. ASSUME NEW e \in S, NEW g \in [S -> V], NEW h \in [S -> V],
             \A k \in DOMAIN e.kids : g[e.kids[k]] = h[e.kids[k]]
      PROVE  step[<<e, g>>] = step[<<e, h>>]
  <2>1. ShallowAt(g, e) = ShallowAt(h, e)
    BY <1>3, ShallowLocal
  <2>2. step[<<e, g>>] = ShallowAt(g, e)
    BY <1>2
  <2>3. step[<<e, h>>] = ShallowAt(h, e)
    BY <1>2
  <2> QED  BY ONLY <2>1, <2>2, <2>3
<1>4. V # {}
  <2>1. TRUE \in V
    OBVIOUS
  <2> QED  BY <2>1
<1>5. IsExprStep(V, step)
  BY <1>1, <1>3 DEF IsExprStep
<1>6. PICK f : Solves(f, S, V, step)
  <2> HIDE DEF V
  <2> QED  BY ONLY <1>4, <1>5, ExprRecursion
<1>7. f \in [S -> V] /\ \A e \in S : f[e] = ShallowAt(f, e)
  BY <1>2, <1>6 DEF Solves
<1> HIDE DEF V
<1>8. f = [e \in S |-> ShallowAt(f, e)]
  BY <1>7
<1> DEFINE chosen == CHOOSE g : g = [e \in S |-> ShallowAt(g, e)]
<1>9. chosen = [e \in S |-> ShallowAt(chosen, e)]
  BY <1>8
<1>10. Shallow = chosen
  BY DEF Shallow, ShallowAt
<1> HIDE DEF chosen
<1>11. \A e \in S : chosen[e] = ShallowAt(chosen, e)
  BY <1>9
<1> DEFINE T == {e \in S : chosen[e] = f[e]}
<1>12. ASSUME NEW e \in S, \A k \in DOMAIN e.kids : e.kids[k] \in T PROVE e \in T
  <2>1. \A k \in DOMAIN e.kids : chosen[e.kids[k]] = f[e.kids[k]]
    BY <1>12
  <2>2. ShallowAt(chosen, e) = ShallowAt(f, e)
    BY <2>1, ShallowLocal
  <2> QED  BY <1>7, <1>11, <2>2
<1>13. S \subseteq T
  <2> HIDE DEF T
  <2> QED  BY <1>12, ExprInduction
<1>14. chosen = f
  BY <1>7, <1>9, <1>13
<1> QED  BY <1>7, <1>10, <1>14 DEF V

-----------------------------------------------------------------------------
(* has_loose_bvar and has_loose_bvar_below                                   *)

HasLooseBvarAt(f, e) ==
  [i \in Nat |->
     /\ Loose[e] > i
     /\ IF e.op = "var" THEN e.idx = i
        ELSE \E k \in DOMAIN e.kids : f[e.kids[k]][i + Binders(e, k)]]

LEMMA HasLooseBvarTyped ==
  ASSUME NEW e \in Expressions, NEW f \in [Expressions -> [Nat -> BOOLEAN]]
  PROVE  HasLooseBvarAt(f, e) \in [Nat -> BOOLEAN]
BY DEF HasLooseBvarAt

LEMMA HasLooseBvarLocal ==
  ASSUME NEW e \in Expressions, NEW g, NEW h, \A k \in DOMAIN e.kids : g[e.kids[k]] = h[e.kids[k]]
  PROVE  HasLooseBvarAt(g, e) = HasLooseBvarAt(h, e)
BY DEF HasLooseBvarAt

\* HasLooseBvar is such a function.
LEMMA HasLooseBvarIs ==
  /\ HasLooseBvar \in [Expressions -> [Nat -> BOOLEAN]]
  /\ \A e \in Expressions : HasLooseBvar[e] = HasLooseBvarAt(HasLooseBvar, e)
<1> DEFINE S == Expressions
           V == [Nat -> BOOLEAN]
           step == [y \in S \X [S -> V] |-> HasLooseBvarAt(y[2], y[1])]
<1>1. step \in [S \X [S -> V] -> V]
  <2>1. \A e \in S : \A g \in [S -> V] : HasLooseBvarAt(g, e) \in V
    BY HasLooseBvarTyped
  <2> QED  BY <2>1
<1>2. \A e \in S : \A g \in [S -> V] : step[<<e, g>>] = HasLooseBvarAt(g, e)
  OBVIOUS
<1> HIDE DEF step
<1>3. ASSUME NEW e \in S, NEW g \in [S -> V], NEW h \in [S -> V],
             \A k \in DOMAIN e.kids : g[e.kids[k]] = h[e.kids[k]]
      PROVE  step[<<e, g>>] = step[<<e, h>>]
  <2>1. HasLooseBvarAt(g, e) = HasLooseBvarAt(h, e)
    BY <1>3, HasLooseBvarLocal
  <2>2. step[<<e, g>>] = HasLooseBvarAt(g, e)
    BY <1>2
  <2>3. step[<<e, h>>] = HasLooseBvarAt(h, e)
    BY <1>2
  <2> QED  BY ONLY <2>1, <2>2, <2>3
<1>4. V # {}
  <2>1. [i \in Nat |-> TRUE] \in V
    OBVIOUS
  <2> QED  BY <2>1
<1>5. IsExprStep(V, step)
  BY <1>1, <1>3 DEF IsExprStep
<1>6. PICK f : Solves(f, S, V, step)
  <2> HIDE DEF V
  <2> QED  BY ONLY <1>4, <1>5, ExprRecursion
<1>7. f \in [S -> V] /\ \A e \in S : f[e] = HasLooseBvarAt(f, e)
  BY <1>2, <1>6 DEF Solves
<1> HIDE DEF V
<1>8. f = [e \in S |-> HasLooseBvarAt(f, e)]
  BY <1>7
<1> DEFINE chosen == CHOOSE g : g = [e \in S |-> HasLooseBvarAt(g, e)]
<1>9. chosen = [e \in S |-> HasLooseBvarAt(chosen, e)]
  BY <1>8
<1>10. HasLooseBvar = chosen
  BY DEF HasLooseBvar, HasLooseBvarAt
<1> HIDE DEF chosen
<1>11. \A e \in S : chosen[e] = HasLooseBvarAt(chosen, e)
  BY <1>9
<1> DEFINE T == {e \in S : chosen[e] = f[e]}
<1>12. ASSUME NEW e \in S, \A k \in DOMAIN e.kids : e.kids[k] \in T PROVE e \in T
  <2>1. \A k \in DOMAIN e.kids : chosen[e.kids[k]] = f[e.kids[k]]
    BY <1>12
  <2>2. HasLooseBvarAt(chosen, e) = HasLooseBvarAt(f, e)
    BY <2>1, HasLooseBvarLocal
  <2> QED  BY <1>7, <1>11, <2>2
<1>13. S \subseteq T
  <2> HIDE DEF T
  <2> QED  BY <1>12, ExprInduction
<1>14. chosen = f
  BY <1>7, <1>9, <1>13
<1> QED  BY <1>7, <1>10, <1>14 DEF V

HasLooseBvarBelowAt(f, e) ==
  [cutoff \in Nat |->
     /\ cutoff # 0 /\ Loose[e] # 0
     /\ IF e.op = "var" THEN e.idx < cutoff
        ELSE \E k \in DOMAIN e.kids : f[e.kids[k]][cutoff + Binders(e, k)]]

LEMMA HasLooseBvarBelowTyped ==
  ASSUME NEW e \in Expressions, NEW f \in [Expressions -> [Nat -> BOOLEAN]]
  PROVE  HasLooseBvarBelowAt(f, e) \in [Nat -> BOOLEAN]
BY DEF HasLooseBvarBelowAt

LEMMA HasLooseBvarBelowLocal ==
  ASSUME NEW e \in Expressions, NEW g, NEW h, \A k \in DOMAIN e.kids : g[e.kids[k]] = h[e.kids[k]]
  PROVE  HasLooseBvarBelowAt(g, e) = HasLooseBvarBelowAt(h, e)
BY DEF HasLooseBvarBelowAt

\* HasLooseBvarBelow is such a function.
LEMMA HasLooseBvarBelowIs ==
  /\ HasLooseBvarBelow \in [Expressions -> [Nat -> BOOLEAN]]
  /\ \A e \in Expressions : HasLooseBvarBelow[e] = HasLooseBvarBelowAt(HasLooseBvarBelow, e)
<1> DEFINE S == Expressions
           V == [Nat -> BOOLEAN]
           step == [y \in S \X [S -> V] |-> HasLooseBvarBelowAt(y[2], y[1])]
<1>1. step \in [S \X [S -> V] -> V]
  <2>1. \A e \in S : \A g \in [S -> V] : HasLooseBvarBelowAt(g, e) \in V
    BY HasLooseBvarBelowTyped
  <2> QED  BY <2>1
<1>2. \A e \in S : \A g \in [S -> V] : step[<<e, g>>] = HasLooseBvarBelowAt(g, e)
  OBVIOUS
<1> HIDE DEF step
<1>3. ASSUME NEW e \in S, NEW g \in [S -> V], NEW h \in [S -> V],
             \A k \in DOMAIN e.kids : g[e.kids[k]] = h[e.kids[k]]
      PROVE  step[<<e, g>>] = step[<<e, h>>]
  <2>1. HasLooseBvarBelowAt(g, e) = HasLooseBvarBelowAt(h, e)
    BY <1>3, HasLooseBvarBelowLocal
  <2>2. step[<<e, g>>] = HasLooseBvarBelowAt(g, e)
    BY <1>2
  <2>3. step[<<e, h>>] = HasLooseBvarBelowAt(h, e)
    BY <1>2
  <2> QED  BY ONLY <2>1, <2>2, <2>3
<1>4. V # {}
  <2>1. [i \in Nat |-> TRUE] \in V
    OBVIOUS
  <2> QED  BY <2>1
<1>5. IsExprStep(V, step)
  BY <1>1, <1>3 DEF IsExprStep
<1>6. PICK f : Solves(f, S, V, step)
  <2> HIDE DEF V
  <2> QED  BY ONLY <1>4, <1>5, ExprRecursion
<1>7. f \in [S -> V] /\ \A e \in S : f[e] = HasLooseBvarBelowAt(f, e)
  BY <1>2, <1>6 DEF Solves
<1> HIDE DEF V
<1>8. f = [e \in S |-> HasLooseBvarBelowAt(f, e)]
  BY <1>7
<1> DEFINE chosen == CHOOSE g : g = [e \in S |-> HasLooseBvarBelowAt(g, e)]
<1>9. chosen = [e \in S |-> HasLooseBvarBelowAt(chosen, e)]
  BY <1>8
<1>10. HasLooseBvarBelow = chosen
  BY DEF HasLooseBvarBelow, HasLooseBvarBelowAt
<1> HIDE DEF chosen
<1>11. \A e \in S : chosen[e] = HasLooseBvarBelowAt(chosen, e)
  BY <1>9
<1> DEFINE T == {e \in S : chosen[e] = f[e]}
<1>12. ASSUME NEW e \in S, \A k \in DOMAIN e.kids : e.kids[k] \in T PROVE e \in T
  <2>1. \A k \in DOMAIN e.kids : chosen[e.kids[k]] = f[e.kids[k]]
    BY <1>12
  <2>2. HasLooseBvarBelowAt(chosen, e) = HasLooseBvarBelowAt(f, e)
    BY <2>1, HasLooseBvarBelowLocal
  <2> QED  BY <1>7, <1>11, <2>2
<1>13. S \subseteq T
  <2> HIDE DEF T
  <2> QED  BY <1>12, ExprInduction
<1>14. chosen = f
  BY <1>7, <1>9, <1>13
<1> QED  BY <1>7, <1>10, <1>14 DEF V

-----------------------------------------------------------------------------
(* What lambdas and pis are over, and how many there are.                    *)

ArityAt(f, e) == IF e.op = "lambda" THEN 1 + f[e.kids[2]] ELSE 0

LEMMA ArityTyped ==
  ASSUME NEW e \in Expressions, NEW f \in [Expressions -> Nat]
  PROVE  ArityAt(f, e) \in Nat
<1>1. e.op = "lambda" => f[e.kids[2]] \in Nat
  BY KidCount, ExprIs
<1> QED  BY <1>1 DEF ArityAt

LEMMA ArityLocal ==
  ASSUME NEW e \in Expressions, NEW g, NEW h, \A k \in DOMAIN e.kids : g[e.kids[k]] = h[e.kids[k]]
  PROVE  ArityAt(g, e) = ArityAt(h, e)
BY KidCount DEF ArityAt

\* Arity is such a function.
LEMMA ArityIs ==
  /\ Arity \in [Expressions -> Nat]
  /\ \A e \in Expressions : Arity[e] = ArityAt(Arity, e)
<1> DEFINE S == Expressions
           V == Nat
           step == [y \in S \X [S -> V] |-> ArityAt(y[2], y[1])]
<1>1. step \in [S \X [S -> V] -> V]
  <2>1. \A e \in S : \A g \in [S -> V] : ArityAt(g, e) \in V
    BY ArityTyped
  <2> QED  BY <2>1
<1>2. \A e \in S : \A g \in [S -> V] : step[<<e, g>>] = ArityAt(g, e)
  OBVIOUS
<1> HIDE DEF step
<1>3. ASSUME NEW e \in S, NEW g \in [S -> V], NEW h \in [S -> V],
             \A k \in DOMAIN e.kids : g[e.kids[k]] = h[e.kids[k]]
      PROVE  step[<<e, g>>] = step[<<e, h>>]
  <2>1. ArityAt(g, e) = ArityAt(h, e)
    BY <1>3, ArityLocal
  <2>2. step[<<e, g>>] = ArityAt(g, e)
    BY <1>2
  <2>3. step[<<e, h>>] = ArityAt(h, e)
    BY <1>2
  <2> QED  BY ONLY <2>1, <2>2, <2>3
<1>4. V # {}
  <2>1. 0 \in V
    OBVIOUS
  <2> QED  BY <2>1
<1>5. IsExprStep(V, step)
  BY <1>1, <1>3 DEF IsExprStep
<1>6. PICK f : Solves(f, S, V, step)
  <2> HIDE DEF V
  <2> QED  BY ONLY <1>4, <1>5, ExprRecursion
<1>7. f \in [S -> V] /\ \A e \in S : f[e] = ArityAt(f, e)
  BY <1>2, <1>6 DEF Solves
<1> HIDE DEF V
<1>8. f = [e \in S |-> ArityAt(f, e)]
  BY <1>7
<1> DEFINE chosen == CHOOSE g : g = [e \in S |-> ArityAt(g, e)]
<1>9. chosen = [e \in S |-> ArityAt(chosen, e)]
  BY <1>8
<1>10. Arity = chosen
  BY DEF Arity, ArityAt
<1> HIDE DEF chosen
<1>11. \A e \in S : chosen[e] = ArityAt(chosen, e)
  BY <1>9
<1> DEFINE T == {e \in S : chosen[e] = f[e]}
<1>12. ASSUME NEW e \in S, \A k \in DOMAIN e.kids : e.kids[k] \in T PROVE e \in T
  <2>1. \A k \in DOMAIN e.kids : chosen[e.kids[k]] = f[e.kids[k]]
    BY <1>12
  <2>2. ArityAt(chosen, e) = ArityAt(f, e)
    BY <2>1, ArityLocal
  <2> QED  BY <1>7, <1>11, <2>2
<1>13. S \subseteq T
  <2> HIDE DEF T
  <2> QED  BY <1>12, ExprInduction
<1>14. chosen = f
  BY <1>7, <1>9, <1>13
<1> QED  BY <1>7, <1>10, <1>14 DEF V

DomainsAt(f, e) == IF e.op = "pi" THEN 1 + f[e.kids[2]] ELSE 0

LEMMA DomainsTyped ==
  ASSUME NEW e \in Expressions, NEW f \in [Expressions -> Nat]
  PROVE  DomainsAt(f, e) \in Nat
<1>1. e.op = "pi" => f[e.kids[2]] \in Nat
  BY KidCount, ExprIs
<1> QED  BY <1>1 DEF DomainsAt

LEMMA DomainsLocal ==
  ASSUME NEW e \in Expressions, NEW g, NEW h, \A k \in DOMAIN e.kids : g[e.kids[k]] = h[e.kids[k]]
  PROVE  DomainsAt(g, e) = DomainsAt(h, e)
BY KidCount DEF DomainsAt

\* Domains is such a function.
LEMMA DomainsIs ==
  /\ Domains \in [Expressions -> Nat]
  /\ \A e \in Expressions : Domains[e] = DomainsAt(Domains, e)
<1> DEFINE S == Expressions
           V == Nat
           step == [y \in S \X [S -> V] |-> DomainsAt(y[2], y[1])]
<1>1. step \in [S \X [S -> V] -> V]
  <2>1. \A e \in S : \A g \in [S -> V] : DomainsAt(g, e) \in V
    BY DomainsTyped
  <2> QED  BY <2>1
<1>2. \A e \in S : \A g \in [S -> V] : step[<<e, g>>] = DomainsAt(g, e)
  OBVIOUS
<1> HIDE DEF step
<1>3. ASSUME NEW e \in S, NEW g \in [S -> V], NEW h \in [S -> V],
             \A k \in DOMAIN e.kids : g[e.kids[k]] = h[e.kids[k]]
      PROVE  step[<<e, g>>] = step[<<e, h>>]
  <2>1. DomainsAt(g, e) = DomainsAt(h, e)
    BY <1>3, DomainsLocal
  <2>2. step[<<e, g>>] = DomainsAt(g, e)
    BY <1>2
  <2>3. step[<<e, h>>] = DomainsAt(h, e)
    BY <1>2
  <2> QED  BY ONLY <2>1, <2>2, <2>3
<1>4. V # {}
  <2>1. 0 \in V
    OBVIOUS
  <2> QED  BY <2>1
<1>5. IsExprStep(V, step)
  BY <1>1, <1>3 DEF IsExprStep
<1>6. PICK f : Solves(f, S, V, step)
  <2> HIDE DEF V
  <2> QED  BY ONLY <1>4, <1>5, ExprRecursion
<1>7. f \in [S -> V] /\ \A e \in S : f[e] = DomainsAt(f, e)
  BY <1>2, <1>6 DEF Solves
<1> HIDE DEF V
<1>8. f = [e \in S |-> DomainsAt(f, e)]
  BY <1>7
<1> DEFINE chosen == CHOOSE g : g = [e \in S |-> DomainsAt(g, e)]
<1>9. chosen = [e \in S |-> DomainsAt(chosen, e)]
  BY <1>8
<1>10. Domains = chosen
  BY DEF Domains, DomainsAt
<1> HIDE DEF chosen
<1>11. \A e \in S : chosen[e] = DomainsAt(chosen, e)
  BY <1>9
<1> DEFINE T == {e \in S : chosen[e] = f[e]}
<1>12. ASSUME NEW e \in S, \A k \in DOMAIN e.kids : e.kids[k] \in T PROVE e \in T
  <2>1. \A k \in DOMAIN e.kids : chosen[e.kids[k]] = f[e.kids[k]]
    BY <1>12
  <2>2. DomainsAt(chosen, e) = DomainsAt(f, e)
    BY <2>1, DomainsLocal
  <2> QED  BY <1>7, <1>11, <2>2
<1>13. S \subseteq T
  <2> HIDE DEF T
  <2> QED  BY <1>12, ExprInduction
<1>14. chosen = f
  BY <1>7, <1>9, <1>13
<1> QED  BY <1>7, <1>10, <1>14 DEF V

BodyAt(f, e) ==
  [n \in Nat |-> IF n = 0 \/ e.op \notin {"lambda", "pi"} THEN e ELSE f[e.kids[2]][n - 1]]

LEMMA BodyTyped ==
  ASSUME NEW e \in Expressions, NEW f \in [Expressions -> [Nat -> Trees]]
  PROVE  BodyAt(f, e) \in [Nat -> Trees]
<1>1. ASSUME NEW n \in Nat, n # 0, e.op \in {"lambda", "pi"} PROVE f[e.kids[2]][n - 1] \in Trees
  <2>1. n - 1 \in Nat /\ f[e.kids[2]] \in [Nat -> Trees]
    BY <1>1, KidCount, ExprIs
  <2> QED  BY <2>1
<1> QED  BY <1>1, ExprsAreTrees DEF BodyAt

LEMMA BodyLocal ==
  ASSUME NEW e \in Expressions, NEW g, NEW h, \A k \in DOMAIN e.kids : g[e.kids[k]] = h[e.kids[k]]
  PROVE  BodyAt(g, e) = BodyAt(h, e)
<1>1. e.op \in {"lambda", "pi"} => g[e.kids[2]] = h[e.kids[2]]
  BY KidCount
<1> QED  BY <1>1 DEF BodyAt

\* Body is such a function.
LEMMA BodyIs ==
  /\ Body \in [Expressions -> [Nat -> Trees]]
  /\ \A e \in Expressions : Body[e] = BodyAt(Body, e)
<1> DEFINE S == Expressions
           V == [Nat -> Trees]
           step == [y \in S \X [S -> V] |-> BodyAt(y[2], y[1])]
<1>1. step \in [S \X [S -> V] -> V]
  <2>1. \A e \in S : \A g \in [S -> V] : BodyAt(g, e) \in V
    BY BodyTyped
  <2> QED  BY <2>1
<1>2. \A e \in S : \A g \in [S -> V] : step[<<e, g>>] = BodyAt(g, e)
  OBVIOUS
<1> HIDE DEF step
<1>3. ASSUME NEW e \in S, NEW g \in [S -> V], NEW h \in [S -> V],
             \A k \in DOMAIN e.kids : g[e.kids[k]] = h[e.kids[k]]
      PROVE  step[<<e, g>>] = step[<<e, h>>]
  <2>1. BodyAt(g, e) = BodyAt(h, e)
    BY <1>3, BodyLocal
  <2>2. step[<<e, g>>] = BodyAt(g, e)
    BY <1>2
  <2>3. step[<<e, h>>] = BodyAt(h, e)
    BY <1>2
  <2> QED  BY ONLY <2>1, <2>2, <2>3
<1>4. V # {}
  <2>1. [i \in Nat |-> Leaf] \in V
    BY LeafTrees
  <2> QED  BY <2>1
<1>5. IsExprStep(V, step)
  BY <1>1, <1>3 DEF IsExprStep
<1>6. PICK f : Solves(f, S, V, step)
  <2> HIDE DEF V
  <2> QED  BY ONLY <1>4, <1>5, ExprRecursion
<1>7. f \in [S -> V] /\ \A e \in S : f[e] = BodyAt(f, e)
  BY <1>2, <1>6 DEF Solves
<1> HIDE DEF V
<1>8. f = [e \in S |-> BodyAt(f, e)]
  BY <1>7
<1> DEFINE chosen == CHOOSE g : g = [e \in S |-> BodyAt(g, e)]
<1>9. chosen = [e \in S |-> BodyAt(chosen, e)]
  BY <1>8
<1>10. Body = chosen
  BY DEF Body, BodyAt
<1> HIDE DEF chosen
<1>11. \A e \in S : chosen[e] = BodyAt(chosen, e)
  BY <1>9
<1> DEFINE T == {e \in S : chosen[e] = f[e]}
<1>12. ASSUME NEW e \in S, \A k \in DOMAIN e.kids : e.kids[k] \in T PROVE e \in T
  <2>1. \A k \in DOMAIN e.kids : chosen[e.kids[k]] = f[e.kids[k]]
    BY <1>12
  <2>2. BodyAt(chosen, e) = BodyAt(f, e)
    BY <2>1, BodyLocal
  <2> QED  BY <1>7, <1>11, <2>2
<1>13. S \subseteq T
  <2> HIDE DEF T
  <2> QED  BY <1>12, ExprInduction
<1>14. chosen = f
  BY <1>7, <1>9, <1>13
<1> QED  BY <1>7, <1>10, <1>14 DEF V

\* What lies under the binders of an expression is one.
LEMMA BodyExpr == \A e \in Expressions, n \in Nat : Body[e][n] \in Expressions
<1> DEFINE T == {e \in Expressions : \A n \in Nat : Body[e][n] \in Expressions}
<1>1. ASSUME NEW e \in Expressions, \A k \in DOMAIN e.kids : e.kids[k] \in T PROVE e \in T
  <2>1. ASSUME NEW n \in Nat PROVE Body[e][n] \in Expressions
    <3>1. Body[e][n] = IF n = 0 \/ e.op \notin {"lambda", "pi"} THEN e ELSE Body[e.kids[2]][n - 1]
      BY BodyIs DEF BodyAt
    <3>2. CASE n = 0 \/ e.op \notin {"lambda", "pi"}
      BY <3>1, <3>2
    <3>3. CASE ~(n = 0 \/ e.op \notin {"lambda", "pi"})
      <4>1. n - 1 \in Nat /\ e.kids[2] \in T
        BY <1>1, <3>3, KidCount
      <4> QED  BY <3>1, <3>3, <4>1
    <3> QED  BY <3>2, <3>3
  <2> QED  BY <2>1
<1>2. Expressions \subseteq T
  <2> HIDE DEF T
  <2> QED  BY <1>1, ExprInduction
<1> QED  BY <1>2

-----------------------------------------------------------------------------
(* The summary of a node against its free variables.                         *)

LEMMA KidIs ==
  ASSUME NEW e \in Expressions
  PROVE  \A k \in DOMAIN e.kids :
           /\ e.kids[k] \in Expressions /\ Binders(e, k) \in Nat
           /\ Loose[e.kids[k]] \in Nat /\ FreeVars[e.kids[k]] \subseteq Nat
<1> SUFFICES ASSUME NEW k \in DOMAIN e.kids
             PROVE  /\ e.kids[k] \in Expressions /\ Binders(e, k) \in Nat
                    /\ Loose[e.kids[k]] \in Nat /\ FreeVars[e.kids[k]] \subseteq Nat
  OBVIOUS
<1>1. e.kids[k] \in Expressions
  BY ExprIs
<1>2. Binders(e, k) \in Nat
  <2>1. Binders(e, k) \in {0, 1}
    BY BindersIs
  <2> QED  BY <2>1
<1>3. Loose[e.kids[k]] \in Nat /\ FreeVars[e.kids[k]] \subseteq Nat
  BY <1>1, LooseIs, FreeVarsIs
<1> QED  BY <1>1, <1>2, <1>3

LEMMA FreeVar == \A e \in Expressions : e.op = "var" => FreeVars[e] = {e.idx}
BY FreeVarsIs DEF FreeVarsAt

\* The free variables of a node are those of its children, less its binders.
LEMMA FreeNode ==
  ASSUME NEW e \in Expressions, e.op # "var", NEW i \in Nat
  PROVE  i \in FreeVars[e] <=> \E k \in DOMAIN e.kids : i + Binders(e, k) \in FreeVars[e.kids[k]]
<1>1. FreeVars[e] = UNION {{j - Binders(e, k) : j \in FreeVars[e.kids[k]]} \ {-1} : k \in DOMAIN e.kids}
  BY FreeVarsIs DEF FreeVarsAt
<1>2. \A k \in DOMAIN e.kids : FreeVars[e.kids[k]] \subseteq Nat /\ Binders(e, k) \in Nat
  BY KidIs
<1>3. ASSUME NEW k \in DOMAIN e.kids
      PROVE  i \in {j - Binders(e, k) : j \in FreeVars[e.kids[k]]} \ {-1} <=>
               i + Binders(e, k) \in FreeVars[e.kids[k]]
  <2>1. \A j \in FreeVars[e.kids[k]] : i = j - Binders(e, k) <=> j = i + Binders(e, k)
    BY <1>2
  <2>2. i # -1
    OBVIOUS
  <2> QED  BY <2>1, <2>2
<1> QED  BY <1>1, <1>3

LEMMA LooseVar == \A e \in Expressions : e.op = "var" => Loose[e] = e.idx + 1
BY LooseIs DEF LooseAt

LEMMA LooseNode ==
  ASSUME NEW e \in Expressions, e.op # "var"
  PROVE  /\ \A k \in DOMAIN e.kids : Loose[e.kids[k]] - Binders(e, k) <= Loose[e]
         /\ Loose[e] # 0 => \E k \in DOMAIN e.kids : Loose[e] = Loose[e.kids[k]] - Binders(e, k)
<1>1. Loose[e] = Greatest(Reaches(Loose, e))
  BY LooseIs DEF LooseAt
<1>2. \A k \in DOMAIN e.kids : Loose[e.kids[k]] \in Nat
  BY LooseIs, ExprIs
<1>3. Loose[e] \in Reaches(Loose, e) /\ \A x \in Reaches(Loose, e) : x <= Loose[e]
  BY <1>1, <1>2, ReachesIs
<1> QED  BY <1>3 DEF Reaches

LEMMA LooseKid ==
  ASSUME NEW e \in Expressions, e.op # "var", NEW k \in DOMAIN e.kids, NEW i \in Nat, Loose[e] <= i
  PROVE  Loose[e.kids[k]] <= i + Binders(e, k)
<1>1. Loose[e] \in Nat /\ Loose[e.kids[k]] \in Nat /\ Binders(e, k) \in Nat
  BY LooseIs, KidIs
<1>2. Loose[e.kids[k]] - Binders(e, k) <= Loose[e]
  BY LooseNode
<1> QED  BY <1>1, <1>2

\* loose is one more than the greatest free variable.
LEMMA LooseExact ==
  \A e \in Expressions : /\ \A i \in FreeVars[e] : i < Loose[e]
                         /\ Loose[e] # 0 => Loose[e] - 1 \in FreeVars[e]
<1> DEFINE T == {e \in Expressions : /\ \A i \in FreeVars[e] : i < Loose[e]
                                     /\ Loose[e] # 0 => Loose[e] - 1 \in FreeVars[e]}
<1>1. ASSUME NEW e \in Expressions, \A k \in DOMAIN e.kids : e.kids[k] \in T PROVE e \in T
  <2>1. CASE e.op = "var"
    <3>1. e.idx \in Nat /\ FreeVars[e] = {e.idx} /\ Loose[e] = e.idx + 1
      BY <2>1, ExprIs, FreeVar, LooseVar
    <3>2. e.idx < Loose[e] /\ Loose[e] - 1 = e.idx
      BY <3>1
    <3> QED  BY <3>1, <3>2
  <2>2. CASE e.op # "var"
    <3>1. Loose[e] \in Nat /\ FreeVars[e] \subseteq Nat
      BY LooseIs, FreeVarsIs
    <3>2. \A k \in DOMAIN e.kids :
            /\ Loose[e.kids[k]] \in Nat /\ Binders(e, k) \in Nat
            /\ \A j \in FreeVars[e.kids[k]] : j < Loose[e.kids[k]]
            /\ Loose[e.kids[k]] # 0 => Loose[e.kids[k]] - 1 \in FreeVars[e.kids[k]]
      BY <1>1, KidIs
    <3>3. ASSUME NEW i \in FreeVars[e] PROVE i < Loose[e]
      <4>1. PICK k \in DOMAIN e.kids : i + Binders(e, k) \in FreeVars[e.kids[k]]
        BY <2>2, <3>1, FreeNode
      <4>2. i + Binders(e, k) < Loose[e.kids[k]]
        BY <3>2, <4>1
      <4>3. Loose[e.kids[k]] - Binders(e, k) <= Loose[e]
        BY <2>2, LooseNode
      <4>4. i \in Nat /\ Loose[e.kids[k]] \in Nat /\ Binders(e, k) \in Nat
        BY <3>1, <3>2
      <4> QED  BY <3>1, <4>2, <4>3, <4>4
    <3>4. ASSUME Loose[e] # 0 PROVE Loose[e] - 1 \in FreeVars[e]
      <4>1. PICK k \in DOMAIN e.kids : Loose[e] = Loose[e.kids[k]] - Binders(e, k)
        BY <2>2, <3>4, LooseNode
      <4>2. Loose[e.kids[k]] \in Nat /\ Binders(e, k) \in Nat
        BY <3>2
      <4>3. /\ Loose[e] - 1 \in Nat /\ Loose[e.kids[k]] # 0
            /\ (Loose[e] - 1) + Binders(e, k) = Loose[e.kids[k]] - 1
        BY <3>1, <3>4, <4>1, <4>2
      <4>4. (Loose[e] - 1) + Binders(e, k) \in FreeVars[e.kids[k]]
        BY <3>2, <4>3
      <4> QED  BY <2>2, <4>3, <4>4, FreeNode
    <3> QED  BY <3>3, <3>4
  <2> QED  BY <2>1, <2>2
<1>2. Expressions \subseteq T
  <2> HIDE DEF T
  <2> QED  BY <1>1, ExprInduction
<1> QED  BY <1>2

LEMMA LooseGreatest ==
  \A e \in Expressions : Loose[e] = Greatest({0} \cup {i + 1 : i \in FreeVars[e]})
<1> SUFFICES ASSUME NEW e \in Expressions
             PROVE  Loose[e] = Greatest({0} \cup {i + 1 : i \in FreeVars[e]})
  OBVIOUS
<1> DEFINE s == {0} \cup {i + 1 : i \in FreeVars[e]}
<1>1. Loose[e] \in Nat /\ FreeVars[e] \subseteq Nat
  BY LooseIs, FreeVarsIs
<1>2. s \in SUBSET Int
  BY <1>1
<1>3. Loose[e] \in s
  <2>1. CASE Loose[e] = 0
    BY <2>1
  <2>2. CASE Loose[e] # 0
    <3>1. Loose[e] - 1 \in FreeVars[e] /\ Loose[e] = (Loose[e] - 1) + 1
      BY <1>1, <2>2, LooseExact
    <3> QED  BY <3>1
  <2> QED  BY <2>1, <2>2
<1>4. ASSUME NEW n \in s PROVE n <= Loose[e]
  <2>1. CASE n = 0
    BY <1>1, <2>1
  <2>2. CASE \E i \in FreeVars[e] : n = i + 1
    <3>1. PICK i \in FreeVars[e] : n = i + 1
      BY <2>2
    <3>2. i \in Nat /\ i < Loose[e]
      BY <1>1, LooseExact
    <3> QED  BY <1>1, <3>1, <3>2
  <2> QED  BY <2>1, <2>2
<1> HIDE DEF s
<1>5. Greatest(s) = Loose[e]
  BY <1>2, <1>3, <1>4, GreatestIs
<1> QED  BY <1>5 DEF s

LEMMA MaskNode ==
  ASSUME NEW e \in Expressions, e.op # "var", NEW b
  PROVE  b \in Mask[e] <=>
           \E k \in DOMAIN e.kids :
             \/ Binders(e, k) = 0 /\ b \in Mask[e.kids[k]]
             \/ Binders(e, k) = 1 /\ b \in UnderBinder(Mask[e.kids[k]], Loose[e.kids[k]])
<1>1. Mask[e] = UNION {IF Binders(e, k) = 0 THEN Mask[e.kids[k]]
                       ELSE UnderBinder(Mask[e.kids[k]], Loose[e.kids[k]]) : k \in DOMAIN e.kids}
  BY MaskFn DEF MaskAt
<1>2. \A k \in DOMAIN e.kids : Binders(e, k) = 0 \/ Binders(e, k) = 1
  BY BindersIs
<1> QED  BY <1>1, <1>2

LEMMA UnderIs ==
  ASSUME NEW m, NEW l \in Nat, NEW i \in Nat
  PROVE  i \in UnderBinder(m, l) <=>
           \/ i <= NEAR /\ i + 1 \in m
           \/ i = NEAR /\ l > NEAR + 1
BY NearNat DEF UnderBinder, FAR

\* No free variable is missing from the mask.
LEMMA MaskHas == \A e \in Expressions : \A i \in FreeVars[e] : Lesser(i, NEAR) \in Mask[e]
<1> DEFINE T == {e \in Expressions : \A i \in FreeVars[e] : Lesser(i, NEAR) \in Mask[e]}
<1>1. ASSUME NEW e \in Expressions, \A k \in DOMAIN e.kids : e.kids[k] \in T PROVE e \in T
  <2>1. CASE e.op = "var"
    <3>1. FreeVars[e] = {e.idx} /\ Mask[e] = {Lesser(e.idx, NEAR)}
      BY <2>1, FreeVar, MaskFn DEF MaskAt, VarMask
    <3> QED  BY <3>1
  <2>2. CASE e.op # "var"
    <3>1. ASSUME NEW i \in FreeVars[e] PROVE Lesser(i, NEAR) \in Mask[e]
      <4>1. i \in Nat /\ Lesser(i, NEAR) \in Nat
        BY FreeVarsIs, NearNat DEF Lesser
      <4>2. PICK k \in DOMAIN e.kids : i + Binders(e, k) \in FreeVars[e.kids[k]]
        BY <2>2, <4>1, FreeNode
      <4> DEFINE j == i + Binders(e, k)
      <4>3. Lesser(j, NEAR) \in Mask[e.kids[k]]
        BY <1>1, <4>2
      <4>4. j < Loose[e.kids[k]] /\ Loose[e.kids[k]] \in Nat
        BY <4>2, ExprIs, LooseExact, LooseIs
      <4>5. CASE Binders(e, k) = 0
        <5>1. j = i
          BY <4>1, <4>5
        <5> QED  BY <2>2, <4>3, <4>5, <5>1, MaskNode
      <4>6. CASE Binders(e, k) = 1
        <5>1. j = i + 1
          BY <4>6
        <5>2. CASE i < NEAR
          <6>1. Lesser(i, NEAR) = i /\ Lesser(j, NEAR) = i + 1 /\ i <= NEAR
            BY <4>1, <5>1, <5>2, NearNat DEF Lesser
          <6>2. i \in UnderBinder(Mask[e.kids[k]], Loose[e.kids[k]])
            BY <4>1, <4>3, <4>4, <6>1, UnderIs
          <6> QED  BY <2>2, <4>6, <6>1, <6>2, MaskNode
        <5>3. CASE ~(i < NEAR)
          <6>1. Lesser(i, NEAR) = NEAR /\ Loose[e.kids[k]] > NEAR + 1
            BY <4>1, <4>4, <5>1, <5>3, NearNat DEF Lesser
          <6>2. NEAR \in UnderBinder(Mask[e.kids[k]], Loose[e.kids[k]])
            BY <4>4, <6>1, NearNat, UnderIs
          <6> QED  BY <2>2, <4>6, <6>1, <6>2, MaskNode
        <5> QED  BY <5>2, <5>3
      <4> QED  BY <4>5, <4>6, BindersIs
    <3> QED  BY <3>1
  <2> QED  BY <2>1, <2>2
<1>2. Expressions \subseteq T
  <2> HIDE DEF T
  <2> QED  BY <1>1, ExprInduction
<1> QED  BY <1>2

\* The mask is exact where nothing reaches past FAR.
LEMMA MaskExact == \A e \in Expressions : Shallow[e] => Mask[e] = FreeVars[e]
<1> DEFINE T == {e \in Expressions : Shallow[e] => Mask[e] = FreeVars[e]}
<1>1. ASSUME NEW e \in Expressions, \A k \in DOMAIN e.kids : e.kids[k] \in T PROVE e \in T
  <2>1. SUFFICES ASSUME Shallow[e] PROVE Mask[e] = FreeVars[e]
    OBVIOUS
  <2>2. Loose[e] <= NEAR + 1 /\ \A k \in DOMAIN e.kids : Shallow[e.kids[k]]
    BY <2>1, ShallowIs DEF ShallowAt
  <2>3. \A k \in DOMAIN e.kids : Mask[e.kids[k]] = FreeVars[e.kids[k]]
    BY <1>1, <2>2
  <2>4. Mask[e] \subseteq 0 .. FAR /\ FreeVars[e] \subseteq Nat
    BY MaskFn, FreeVarsIs
  <2>5. CASE e.op = "var"
    <3>1. FreeVars[e] = {e.idx} /\ Mask[e] = {Lesser(e.idx, NEAR)}
      BY <2>5, FreeVar, MaskFn DEF MaskAt, VarMask
    <3>2. e.idx \in Nat /\ Loose[e] = e.idx + 1
      BY <2>5, ExprIs, LooseVar
    <3>3. e.idx <= NEAR
      BY <2>2, <3>2, NearNat
    <3>4. Lesser(e.idx, NEAR) = e.idx
      BY <3>2, <3>3, NearNat DEF Lesser
    <3> QED  BY <3>1, <3>4
  <2>6. CASE e.op # "var"
    <3>1. ASSUME NEW i \in Nat PROVE i \in Mask[e] <=> i \in FreeVars[e]
      <4>1. ASSUME NEW k \in DOMAIN e.kids, Binders(e, k) = 1
            PROVE  i \in UnderBinder(Mask[e.kids[k]], Loose[e.kids[k]]) <=> i + 1 \in FreeVars[e.kids[k]]
        <5>1. Loose[e.kids[k]] \in Nat /\ Loose[e.kids[k]] <= NEAR + 1
          <6>1. e.kids[k] \in Expressions /\ Shallow[e.kids[k]]
            BY <2>2, ExprIs
          <6> QED  BY <6>1, ShallowIs, LooseIs DEF ShallowAt
        <5>2. i + 1 \in FreeVars[e.kids[k]] => i <= NEAR
          <6>1. i + 1 \in FreeVars[e.kids[k]] => i + 1 < Loose[e.kids[k]]
            BY ExprIs, LooseExact
          <6> QED  BY <5>1, <6>1, NearNat
        <5>3. ~(Loose[e.kids[k]] > NEAR + 1)
          BY <5>1, NearNat
        <5>4. i \in UnderBinder(Mask[e.kids[k]], Loose[e.kids[k]]) <=>
                i <= NEAR /\ i + 1 \in Mask[e.kids[k]]
          BY <5>1, <5>3, UnderIs
        <5> QED  BY <2>3, <5>2, <5>4
      <4>2. i \in Mask[e] <=>
              \E k \in DOMAIN e.kids :
                \/ Binders(e, k) = 0 /\ i \in Mask[e.kids[k]]
                \/ Binders(e, k) = 1 /\ i \in UnderBinder(Mask[e.kids[k]], Loose[e.kids[k]])
        BY <2>6, MaskNode
      <4>3. i \in FreeVars[e] <=>
              \E k \in DOMAIN e.kids :
                \/ Binders(e, k) = 0 /\ i \in FreeVars[e.kids[k]]
                \/ Binders(e, k) = 1 /\ i + 1 \in FreeVars[e.kids[k]]
        <5>1. i + 0 = i
          OBVIOUS
        <5> QED  BY <2>6, <5>1, FreeNode, BindersIs
      <4> QED  BY <2>3, <4>1, <4>2, <4>3
    <3>2. \A b \in Mask[e] : b \in Nat
      BY <2>4, NearNat
    <3> QED  BY <2>4, <3>1, <3>2
  <2> QED  BY <2>5, <2>6
<1>2. Expressions \subseteq T
  <2> HIDE DEF T
  <2> QED  BY <1>1, ExprInduction
<1> QED  BY <1>2

\* has_loose_bvar tells the free variables.
LEMMA HasLooseBvarExact ==
  \A e \in Expressions : \A i \in Nat : HasLooseBvar[e][i] <=> i \in FreeVars[e]
<1> DEFINE T == {e \in Expressions : \A i \in Nat : HasLooseBvar[e][i] <=> i \in FreeVars[e]}
<1>1. ASSUME NEW e \in Expressions, \A k \in DOMAIN e.kids : e.kids[k] \in T PROVE e \in T
  <2>1. ASSUME NEW i \in Nat PROVE HasLooseBvar[e][i] <=> i \in FreeVars[e]
    <3>1. HasLooseBvar[e][i] <=>
            /\ Loose[e] > i
            /\ IF e.op = "var" THEN e.idx = i
               ELSE \E k \in DOMAIN e.kids : HasLooseBvar[e.kids[k]][i + Binders(e, k)]
      <4>1. HasLooseBvar[e] = HasLooseBvarAt(HasLooseBvar, e)
        BY HasLooseBvarIs
      <4> QED  BY <4>1 DEF HasLooseBvarAt
    <3>2. i \in FreeVars[e] => Loose[e] > i
      <4>1. i \in FreeVars[e] => i < Loose[e]
        BY LooseExact
      <4>2. Loose[e] \in Nat
        BY LooseIs
      <4> QED  BY <4>1, <4>2
    <3>3. CASE e.op = "var"
      BY <3>1, <3>2, <3>3, FreeVar
    <3>4. CASE e.op # "var"
      <4>1. \A k \in DOMAIN e.kids : HasLooseBvar[e.kids[k]][i + Binders(e, k)] <=>
                                       i + Binders(e, k) \in FreeVars[e.kids[k]]
        <5>1. \A k \in DOMAIN e.kids : i + Binders(e, k) \in Nat
          BY BindersIs
        <5> QED  BY <1>1, <5>1
      <4> QED  BY <3>1, <3>2, <3>4, <4>1, FreeNode
    <3> QED  BY <3>3, <3>4
  <2> QED  BY <2>1
<1>2. Expressions \subseteq T
  <2> HIDE DEF T
  <2> QED  BY <1>1, ExprInduction
<1> QED  BY <1>2

-----------------------------------------------------------------------------
(* Trees of any height, which shifting and instantiation make.               *)

\* Finitely many trees have a height in common.
LEMMA CommonHeight ==
  ASSUME NEW n \in Nat, NEW ts \in [1 .. n -> Trees]
  PROVE  \E h \in Nat : \A k \in 1 .. n : ts[k] \in ExprsUpto[h]
<1> DEFINE T == {m \in 0 .. n : \E h \in Nat : \A k \in 1 .. m : ts[k] \in ExprsUpto[h]}
<1>1. 0 \in T
  OBVIOUS
<1>2. ASSUME NEW m \in 0 .. n - 1, m \in T PROVE m + 1 \in T
  <2>1. PICK h \in Nat : \A k \in 1 .. m : ts[k] \in ExprsUpto[h]
    BY <1>2
  <2>2. PICK i \in Nat : ts[m + 1] \in ExprsUpto[i]
    BY DEF Trees
  <2>3. h + i \in Nat /\ h <= h + i /\ i <= h + i
    OBVIOUS
  <2>4. ExprsUpto[h] \subseteq ExprsUpto[h + i] /\ ExprsUpto[i] \subseteq ExprsUpto[h + i]
    BY <2>3, UptoGrows
  <2>5. \A k \in 1 .. m + 1 : ts[k] \in ExprsUpto[h + i]
    BY <2>1, <2>2, <2>4
  <2> QED  BY <2>3, <2>5
<1>3. n \in T
  <2> HIDE DEF T
  <2>1. 0 .. n \subseteq T
    BY <1>1, <1>2, SetInduction
  <2> QED  BY <2>1
<1> QED  BY <1>3

LEMMA MapTrees ==
  ASSUME NEW e \in Expressions, NEW kids \in [DOMAIN e.kids -> Trees]
  PROVE  MapChildren(e, kids) \in Trees
<1>1. Len(e.kids) \in Nat /\ DOMAIN e.kids = 1 .. Len(e.kids)
  BY KidCount
<1>2. PICK h \in Nat : \A k \in 1 .. Len(e.kids) : kids[k] \in ExprsUpto[h]
  BY <1>1, CommonHeight
<1>3. kids \in Seq(ExprsUpto[h]) /\ Len(kids) = Len(e.kids)
  BY <1>1, <1>2
<1>4. MapChildren(e, kids) \in ExprsUpto[h + 1]
  BY <1>3, MapUpto
<1> QED  BY <1>4 DEF Trees

\* A node with other children, and its own children.
LEMMA MapIs ==
  ASSUME NEW e \in Expressions, NEW kids
  PROVE  /\ MapChildren(e, kids).op = e.op /\ MapChildren(e, kids).idx = e.idx
         /\ MapChildren(e, kids).kids = kids
         /\ MapChildren(e, kids) = [op |-> e.op, idx |-> e.idx, kids |-> kids]
<1>1. e = [op |-> e.op, idx |-> e.idx, kids |-> e.kids]
  BY ExprIs
<1>2. \A o, i, ks : LET r == [op |-> o, idx |-> i, kids |-> ks]
                    IN  [r EXCEPT !.kids = kids] = [op |-> o, idx |-> i, kids |-> kids]
  OBVIOUS
<1>3. MapChildren([op |-> e.op, idx |-> e.idx, kids |-> e.kids], kids)
        = [op |-> e.op, idx |-> e.idx, kids |-> kids]
  BY <1>2 DEF MapChildren
<1>4. MapChildren(e, kids) = [op |-> e.op, idx |-> e.idx, kids |-> kids]
  BY <1>1, <1>3
<1> QED  BY <1>4

LEMMA UnderNat ==
  ASSUME NEW e \in Expressions, NEW c \in Nat
  PROVE  \A k \in DOMAIN e.kids : c + Binders(e, k) \in Nat
BY KidIs

-----------------------------------------------------------------------------
(* lift                                                                      *)

LiftAt(f, x, n) ==
  [c \in Nat |->
     IF n = 0 \/ Loose[x] <= c THEN x
     ELSE IF x.op = "var" THEN Var(x.idx + n)
     ELSE MapChildren(x, [k \in DOMAIN x.kids |-> f[x.kids[k]][c + Binders(x, k)]])]

\* lift by n, as a function of an expression and a cutoff.
Lifts(n) == CHOOSE f : f = [x \in Expressions |-> LiftAt(f, x, n)]

LEMMA LiftTyped ==
  ASSUME NEW x \in Expressions, NEW f \in [Expressions -> [Nat -> Trees]], NEW n \in Nat
  PROVE  LiftAt(f, x, n) \in [Nat -> Trees]
<1>1. x \in Trees
  BY ExprsAreTrees
<1>2. x.op = "var" => Var(x.idx + n) \in Trees
  <2>1. x.idx + n \in Nat
    BY ExprIs
  <2> QED  BY <2>1, LeafTrees
<1>3. ASSUME NEW c \in Nat
      PROVE  MapChildren(x, [k \in DOMAIN x.kids |-> f[x.kids[k]][c + Binders(x, k)]]) \in Trees
  <2>1. [k \in DOMAIN x.kids |-> f[x.kids[k]][c + Binders(x, k)]] \in [DOMAIN x.kids -> Trees]
    BY KidIs, UnderNat
  <2> QED  BY <2>1, MapTrees
<1> QED  BY <1>1, <1>2, <1>3 DEF LiftAt

LEMMA LiftLocal ==
  ASSUME NEW x \in Expressions, NEW g, NEW h, \A k \in DOMAIN x.kids : g[x.kids[k]] = h[x.kids[k]],
         NEW n
  PROVE  LiftAt(g, x, n) = LiftAt(h, x, n)
<1>1. \A c : [k \in DOMAIN x.kids |-> g[x.kids[k]][c + Binders(x, k)]] =
             [k \in DOMAIN x.kids |-> h[x.kids[k]][c + Binders(x, k)]]
  OBVIOUS
<1> QED  BY <1>1 DEF LiftAt

\* Lifts(n) is such a function.
LEMMA LiftsIs ==
  ASSUME NEW n \in Nat
  PROVE  /\ Lifts(n) \in [Expressions -> [Nat -> Trees]]
         /\ \A e \in Expressions : Lifts(n)[e] = LiftAt(Lifts(n), e, n)
<1> DEFINE S == Expressions
           V == [Nat -> Trees]
           step == [y \in S \X [S -> V] |-> LiftAt(y[2], y[1], n)]
<1>1. step \in [S \X [S -> V] -> V]
  <2>1. \A e \in S : \A g \in [S -> V] : LiftAt(g, e, n) \in V
    BY LiftTyped
  <2> QED  BY <2>1
<1>2. \A e \in S : \A g \in [S -> V] : step[<<e, g>>] = LiftAt(g, e, n)
  OBVIOUS
<1> HIDE DEF step
<1>3. ASSUME NEW e \in S, NEW g \in [S -> V], NEW h \in [S -> V],
             \A k \in DOMAIN e.kids : g[e.kids[k]] = h[e.kids[k]]
      PROVE  step[<<e, g>>] = step[<<e, h>>]
  <2>1. LiftAt(g, e, n) = LiftAt(h, e, n)
    BY <1>3, LiftLocal
  <2>2. step[<<e, g>>] = LiftAt(g, e, n)
    BY <1>2
  <2>3. step[<<e, h>>] = LiftAt(h, e, n)
    BY <1>2
  <2> QED  BY ONLY <2>1, <2>2, <2>3
<1>4. V # {}
  <2>1. [i \in Nat |-> Leaf] \in V
    BY LeafTrees
  <2> QED  BY <2>1
<1>5. IsExprStep(V, step)
  BY <1>1, <1>3 DEF IsExprStep
<1>6. PICK f : Solves(f, S, V, step)
  <2> HIDE DEF V
  <2> QED  BY ONLY <1>4, <1>5, ExprRecursion
<1>7. f \in [S -> V] /\ \A e \in S : f[e] = LiftAt(f, e, n)
  BY <1>2, <1>6 DEF Solves
<1> HIDE DEF V
<1>8. f = [e \in S |-> LiftAt(f, e, n)]
  BY <1>7
<1> DEFINE chosen == CHOOSE g : g = [e \in S |-> LiftAt(g, e, n)]
<1>9. chosen = [e \in S |-> LiftAt(chosen, e, n)]
  BY <1>8
<1>10. Lifts(n) = chosen
  BY DEF Lifts
<1> HIDE DEF chosen
<1>11. \A e \in S : chosen[e] = LiftAt(chosen, e, n)
  BY <1>9
<1> DEFINE T == {e \in S : chosen[e] = f[e]}
<1>12. ASSUME NEW e \in S, \A k \in DOMAIN e.kids : e.kids[k] \in T PROVE e \in T
  <2>1. \A k \in DOMAIN e.kids : chosen[e.kids[k]] = f[e.kids[k]]
    BY <1>12
  <2>2. LiftAt(chosen, e, n) = LiftAt(f, e, n)
    BY <2>1, LiftLocal
  <2> QED  BY <1>7, <1>11, <2>2
<1>13. S \subseteq T
  <2> HIDE DEF T
  <2> QED  BY <1>12, ExprInduction
<1>14. chosen = f
  BY <1>7, <1>9, <1>13
<1> QED  BY <1>7, <1>10, <1>14 DEF V

LEMMA LiftIs ==
  ASSUME NEW e \in Expressions, NEW c \in Nat, NEW n \in Nat
  PROVE  Lift(e, c, n) = Lifts(n)[e][c]
BY DEF Lift, Lifts, LiftAt

LEMMA LiftSame ==
  ASSUME NEW e \in Expressions, NEW c \in Nat, NEW n \in Nat, n = 0 \/ Loose[e] <= c
  PROVE  Lifts(n)[e][c] = e
<1>1. Lifts(n)[e] = LiftAt(Lifts(n), e, n)
  BY LiftsIs
<1> QED  BY <1>1 DEF LiftAt

LEMMA LiftVar ==
  ASSUME NEW e \in Expressions, NEW c \in Nat, NEW n \in Nat, n # 0, ~(Loose[e] <= c), e.op = "var"
  PROVE  Lifts(n)[e][c] = Var(e.idx + n)
<1>1. Lifts(n)[e] = LiftAt(Lifts(n), e, n)
  BY LiftsIs
<1> QED  BY <1>1 DEF LiftAt

LEMMA LiftNode ==
  ASSUME NEW e \in Expressions, NEW c \in Nat, NEW n \in Nat, n # 0, ~(Loose[e] <= c), e.op # "var"
  PROVE  Lifts(n)[e][c] =
           MapChildren(e, [k \in DOMAIN e.kids |-> Lifts(n)[e.kids[k]][c + Binders(e, k)]])
<1>1. Lifts(n)[e] = LiftAt(Lifts(n), e, n)
  BY LiftsIs
<1> QED  BY <1>1 DEF LiftAt

-----------------------------------------------------------------------------
(* lower                                                                     *)

LowerAt(f, x, n) ==
  [c \in Nat |->
     IF n = 0 \/ Loose[x] <= c THEN x
     ELSE IF x.op = "var" THEN Var(x.idx - Lesser(n, x.idx))
     ELSE MapChildren(x, [k \in DOMAIN x.kids |-> f[x.kids[k]][c + Binders(x, k)]])]

\* lower by n, as a function of an expression and a cutoff.
Lowers(n) == CHOOSE f : f = [x \in Expressions |-> LowerAt(f, x, n)]

LEMMA LowerTyped ==
  ASSUME NEW x \in Expressions, NEW f \in [Expressions -> [Nat -> Trees]], NEW n \in Nat
  PROVE  LowerAt(f, x, n) \in [Nat -> Trees]
<1>1. x \in Trees
  BY ExprsAreTrees
<1>2. x.op = "var" => Var(x.idx - Lesser(n, x.idx)) \in Trees
  <2>1. x.idx \in Nat
    BY ExprIs
  <2>2. x.idx - Lesser(n, x.idx) \in Nat
    BY <2>1 DEF Lesser
  <2> QED  BY <2>2, LeafTrees
<1>3. ASSUME NEW c \in Nat
      PROVE  MapChildren(x, [k \in DOMAIN x.kids |-> f[x.kids[k]][c + Binders(x, k)]]) \in Trees
  <2>1. [k \in DOMAIN x.kids |-> f[x.kids[k]][c + Binders(x, k)]] \in [DOMAIN x.kids -> Trees]
    BY KidIs, UnderNat
  <2> QED  BY <2>1, MapTrees
<1> QED  BY <1>1, <1>2, <1>3 DEF LowerAt

LEMMA LowerLocal ==
  ASSUME NEW x \in Expressions, NEW g, NEW h, \A k \in DOMAIN x.kids : g[x.kids[k]] = h[x.kids[k]],
         NEW n
  PROVE  LowerAt(g, x, n) = LowerAt(h, x, n)
<1>1. \A c : [k \in DOMAIN x.kids |-> g[x.kids[k]][c + Binders(x, k)]] =
             [k \in DOMAIN x.kids |-> h[x.kids[k]][c + Binders(x, k)]]
  OBVIOUS
<1> QED  BY <1>1 DEF LowerAt

\* Lowers(n) is such a function.
LEMMA LowersIs ==
  ASSUME NEW n \in Nat
  PROVE  /\ Lowers(n) \in [Expressions -> [Nat -> Trees]]
         /\ \A e \in Expressions : Lowers(n)[e] = LowerAt(Lowers(n), e, n)
<1> DEFINE S == Expressions
           V == [Nat -> Trees]
           step == [y \in S \X [S -> V] |-> LowerAt(y[2], y[1], n)]
<1>1. step \in [S \X [S -> V] -> V]
  <2>1. \A e \in S : \A g \in [S -> V] : LowerAt(g, e, n) \in V
    BY LowerTyped
  <2> QED  BY <2>1
<1>2. \A e \in S : \A g \in [S -> V] : step[<<e, g>>] = LowerAt(g, e, n)
  OBVIOUS
<1> HIDE DEF step
<1>3. ASSUME NEW e \in S, NEW g \in [S -> V], NEW h \in [S -> V],
             \A k \in DOMAIN e.kids : g[e.kids[k]] = h[e.kids[k]]
      PROVE  step[<<e, g>>] = step[<<e, h>>]
  <2>1. LowerAt(g, e, n) = LowerAt(h, e, n)
    BY <1>3, LowerLocal
  <2>2. step[<<e, g>>] = LowerAt(g, e, n)
    BY <1>2
  <2>3. step[<<e, h>>] = LowerAt(h, e, n)
    BY <1>2
  <2> QED  BY ONLY <2>1, <2>2, <2>3
<1>4. V # {}
  <2>1. [i \in Nat |-> Leaf] \in V
    BY LeafTrees
  <2> QED  BY <2>1
<1>5. IsExprStep(V, step)
  BY <1>1, <1>3 DEF IsExprStep
<1>6. PICK f : Solves(f, S, V, step)
  <2> HIDE DEF V
  <2> QED  BY ONLY <1>4, <1>5, ExprRecursion
<1>7. f \in [S -> V] /\ \A e \in S : f[e] = LowerAt(f, e, n)
  BY <1>2, <1>6 DEF Solves
<1> HIDE DEF V
<1>8. f = [e \in S |-> LowerAt(f, e, n)]
  BY <1>7
<1> DEFINE chosen == CHOOSE g : g = [e \in S |-> LowerAt(g, e, n)]
<1>9. chosen = [e \in S |-> LowerAt(chosen, e, n)]
  BY <1>8
<1>10. Lowers(n) = chosen
  BY DEF Lowers
<1> HIDE DEF chosen
<1>11. \A e \in S : chosen[e] = LowerAt(chosen, e, n)
  BY <1>9
<1> DEFINE T == {e \in S : chosen[e] = f[e]}
<1>12. ASSUME NEW e \in S, \A k \in DOMAIN e.kids : e.kids[k] \in T PROVE e \in T
  <2>1. \A k \in DOMAIN e.kids : chosen[e.kids[k]] = f[e.kids[k]]
    BY <1>12
  <2>2. LowerAt(chosen, e, n) = LowerAt(f, e, n)
    BY <2>1, LowerLocal
  <2> QED  BY <1>7, <1>11, <2>2
<1>13. S \subseteq T
  <2> HIDE DEF T
  <2> QED  BY <1>12, ExprInduction
<1>14. chosen = f
  BY <1>7, <1>9, <1>13
<1> QED  BY <1>7, <1>10, <1>14 DEF V

LEMMA LowerIs ==
  ASSUME NEW e \in Expressions, NEW c \in Nat, NEW n \in Nat
  PROVE  Lower(e, c, n) = Lowers(n)[e][c]
BY DEF Lower, Lowers, LowerAt

LEMMA LowerSame ==
  ASSUME NEW e \in Expressions, NEW c \in Nat, NEW n \in Nat, n = 0 \/ Loose[e] <= c
  PROVE  Lowers(n)[e][c] = e
<1>1. Lowers(n)[e] = LowerAt(Lowers(n), e, n)
  BY LowersIs
<1> QED  BY <1>1 DEF LowerAt

LEMMA LowerVar ==
  ASSUME NEW e \in Expressions, NEW c \in Nat, NEW n \in Nat, n # 0, ~(Loose[e] <= c), e.op = "var"
  PROVE  Lowers(n)[e][c] = Var(e.idx - Lesser(n, e.idx))
<1>1. Lowers(n)[e] = LowerAt(Lowers(n), e, n)
  BY LowersIs
<1> QED  BY <1>1 DEF LowerAt

LEMMA LowerNode ==
  ASSUME NEW e \in Expressions, NEW c \in Nat, NEW n \in Nat, n # 0, ~(Loose[e] <= c), e.op # "var"
  PROVE  Lowers(n)[e][c] =
           MapChildren(e, [k \in DOMAIN e.kids |-> Lowers(n)[e.kids[k]][c + Binders(e, k)]])
<1>1. Lowers(n)[e] = LowerAt(Lowers(n), e, n)
  BY LowersIs
<1> QED  BY <1>1 DEF LowerAt

\* Whether lower by n panics.
PanicsAt(f, x, n) ==
  [c \in Nat |->
     /\ n # 0 /\ Loose[x] > c
     /\ IF x.op = "var" THEN x.idx < c + n
        ELSE \E k \in DOMAIN x.kids : f[x.kids[k]][c + Binders(x, k)]]

Panics(n) == CHOOSE f : f = [x \in Expressions |-> PanicsAt(f, x, n)]

LEMMA PanicsTyped ==
  ASSUME NEW x \in Expressions, NEW f \in [Expressions -> [Nat -> BOOLEAN]], NEW n \in Nat
  PROVE  PanicsAt(f, x, n) \in [Nat -> BOOLEAN]
BY DEF PanicsAt

LEMMA PanicsLocal ==
  ASSUME NEW x \in Expressions, NEW g, NEW h, \A k \in DOMAIN x.kids : g[x.kids[k]] = h[x.kids[k]],
         NEW n
  PROVE  PanicsAt(g, x, n) = PanicsAt(h, x, n)
BY DEF PanicsAt

\* Panics(n) is such a function.
LEMMA PanicsIs ==
  ASSUME NEW n \in Nat
  PROVE  /\ Panics(n) \in [Expressions -> [Nat -> BOOLEAN]]
         /\ \A e \in Expressions : Panics(n)[e] = PanicsAt(Panics(n), e, n)
<1> DEFINE S == Expressions
           V == [Nat -> BOOLEAN]
           step == [y \in S \X [S -> V] |-> PanicsAt(y[2], y[1], n)]
<1>1. step \in [S \X [S -> V] -> V]
  <2>1. \A e \in S : \A g \in [S -> V] : PanicsAt(g, e, n) \in V
    BY PanicsTyped
  <2> QED  BY <2>1
<1>2. \A e \in S : \A g \in [S -> V] : step[<<e, g>>] = PanicsAt(g, e, n)
  OBVIOUS
<1> HIDE DEF step
<1>3. ASSUME NEW e \in S, NEW g \in [S -> V], NEW h \in [S -> V],
             \A k \in DOMAIN e.kids : g[e.kids[k]] = h[e.kids[k]]
      PROVE  step[<<e, g>>] = step[<<e, h>>]
  <2>1. PanicsAt(g, e, n) = PanicsAt(h, e, n)
    BY <1>3, PanicsLocal
  <2>2. step[<<e, g>>] = PanicsAt(g, e, n)
    BY <1>2
  <2>3. step[<<e, h>>] = PanicsAt(h, e, n)
    BY <1>2
  <2> QED  BY ONLY <2>1, <2>2, <2>3
<1>4. V # {}
  <2>1. [i \in Nat |-> TRUE] \in V
    OBVIOUS
  <2> QED  BY <2>1
<1>5. IsExprStep(V, step)
  BY <1>1, <1>3 DEF IsExprStep
<1>6. PICK f : Solves(f, S, V, step)
  <2> HIDE DEF V
  <2> QED  BY ONLY <1>4, <1>5, ExprRecursion
<1>7. f \in [S -> V] /\ \A e \in S : f[e] = PanicsAt(f, e, n)
  BY <1>2, <1>6 DEF Solves
<1> HIDE DEF V
<1>8. f = [e \in S |-> PanicsAt(f, e, n)]
  BY <1>7
<1> DEFINE chosen == CHOOSE g : g = [e \in S |-> PanicsAt(g, e, n)]
<1>9. chosen = [e \in S |-> PanicsAt(chosen, e, n)]
  BY <1>8
<1>10. Panics(n) = chosen
  BY DEF Panics
<1> HIDE DEF chosen
<1>11. \A e \in S : chosen[e] = PanicsAt(chosen, e, n)
  BY <1>9
<1> DEFINE T == {e \in S : chosen[e] = f[e]}
<1>12. ASSUME NEW e \in S, \A k \in DOMAIN e.kids : e.kids[k] \in T PROVE e \in T
  <2>1. \A k \in DOMAIN e.kids : chosen[e.kids[k]] = f[e.kids[k]]
    BY <1>12
  <2>2. PanicsAt(chosen, e, n) = PanicsAt(f, e, n)
    BY <2>1, PanicsLocal
  <2> QED  BY <1>7, <1>11, <2>2
<1>13. S \subseteq T
  <2> HIDE DEF T
  <2> QED  BY <1>12, ExprInduction
<1>14. chosen = f
  BY <1>7, <1>9, <1>13
<1> QED  BY <1>7, <1>10, <1>14 DEF V

LEMMA LowerPanicsIs ==
  ASSUME NEW e \in Expressions, NEW c \in Nat, NEW n \in Nat
  PROVE  LowerPanics(e, c, n) <=> Panics(n)[e][c]
BY DEF LowerPanics, Panics, PanicsAt

LEMMA PanicsNode ==
  ASSUME NEW e \in Expressions, NEW c \in Nat, NEW n \in Nat
  PROVE  Panics(n)[e][c] <=>
           /\ n # 0 /\ Loose[e] > c
           /\ IF e.op = "var" THEN e.idx < c + n
              ELSE \E k \in DOMAIN e.kids : Panics(n)[e.kids[k]][c + Binders(e, k)]
<1>1. Panics(n)[e] = PanicsAt(Panics(n), e, n)
  BY PanicsIs
<1> QED  BY <1>1 DEF PanicsAt

-----------------------------------------------------------------------------
(* Instantiation.                                                            *)

\* substs and open of an instantiation.
IsSubst(p) == p \in Seq(Expressions) \X BOOLEAN

InstAt(f, x, p) ==
  [o \in Nat |->
     IF Loose[x] <= o THEN x
     ELSE IF x.op = "var"
     THEN IF x.idx - o < Len(p[1]) THEN Instantiated(p[1], x.idx - o, o, p[2]) ELSE x
     ELSE MapChildren(x, [k \in DOMAIN x.kids |-> f[x.kids[k]][o + Binders(x, k)]])]

\* An instantiation, as a function of an expression and an offset.
Insts(p) == CHOOSE f : f = [x \in Expressions |-> InstAt(f, x, p)]

LEMMA LiftTree ==
  ASSUME NEW e \in Expressions, NEW c \in Nat, NEW n \in Nat
  PROVE  Lift(e, c, n) \in Trees
BY LiftsIs, LiftIs

LEMMA InstantiatedTree ==
  ASSUME NEW p, IsSubst(p), NEW i \in Nat, i < Len(p[1]), NEW o \in Nat
  PROVE  p[1][Len(p[1]) - i] \in Expressions /\ Instantiated(p[1], i, o, p[2]) \in Trees
<1>1. p[1] \in Seq(Expressions) /\ Len(p[1]) \in Nat
  BY DEF IsSubst
<1>2. Len(p[1]) - i \in 1 .. Len(p[1])
  BY <1>1
<1>3. p[1][Len(p[1]) - i] \in Expressions
  BY <1>1, <1>2
<1>4. Lift(p[1][Len(p[1]) - i], 0, o) \in Trees
  BY <1>3, LiftTree
<1> QED  BY <1>3, <1>4, ExprsAreTrees DEF Instantiated

LEMMA InstTyped ==
  ASSUME NEW x \in Expressions, NEW f \in [Expressions -> [Nat -> Trees]], NEW p, IsSubst(p)
  PROVE  InstAt(f, x, p) \in [Nat -> Trees]
<1>1. x \in Trees
  BY ExprsAreTrees
<1>2. ASSUME NEW o \in Nat, ~(Loose[x] <= o), x.op = "var", x.idx - o < Len(p[1])
      PROVE  Instantiated(p[1], x.idx - o, o, p[2]) \in Trees
  <2>1. x.idx \in Nat /\ Loose[x] = x.idx + 1
    BY <1>2, ExprIs, LooseVar
  <2>2. x.idx - o \in Nat
    BY <1>2, <2>1
  <2> QED  BY <1>2, <2>2, InstantiatedTree
<1>3. ASSUME NEW c \in Nat
      PROVE  MapChildren(x, [k \in DOMAIN x.kids |-> f[x.kids[k]][c + Binders(x, k)]]) \in Trees
  <2>1. [k \in DOMAIN x.kids |-> f[x.kids[k]][c + Binders(x, k)]] \in [DOMAIN x.kids -> Trees]
    BY KidIs, UnderNat
  <2> QED  BY <2>1, MapTrees
<1> QED  BY <1>1, <1>2, <1>3 DEF InstAt

LEMMA InstLocal ==
  ASSUME NEW x \in Expressions, NEW g, NEW h, \A k \in DOMAIN x.kids : g[x.kids[k]] = h[x.kids[k]],
         NEW p
  PROVE  InstAt(g, x, p) = InstAt(h, x, p)
<1>1. \A c : [k \in DOMAIN x.kids |-> g[x.kids[k]][c + Binders(x, k)]] =
             [k \in DOMAIN x.kids |-> h[x.kids[k]][c + Binders(x, k)]]
  OBVIOUS
<1> QED  BY <1>1 DEF InstAt

\* Insts(p) is such a function.
LEMMA InstsIs ==
  ASSUME NEW p, IsSubst(p)
  PROVE  /\ Insts(p) \in [Expressions -> [Nat -> Trees]]
         /\ \A e \in Expressions : Insts(p)[e] = InstAt(Insts(p), e, p)
<1> DEFINE S == Expressions
           V == [Nat -> Trees]
           step == [y \in S \X [S -> V] |-> InstAt(y[2], y[1], p)]
<1>1. step \in [S \X [S -> V] -> V]
  <2>1. \A e \in S : \A g \in [S -> V] : InstAt(g, e, p) \in V
    BY InstTyped
  <2> QED  BY <2>1
<1>2. \A e \in S : \A g \in [S -> V] : step[<<e, g>>] = InstAt(g, e, p)
  OBVIOUS
<1> HIDE DEF step
<1>3. ASSUME NEW e \in S, NEW g \in [S -> V], NEW h \in [S -> V],
             \A k \in DOMAIN e.kids : g[e.kids[k]] = h[e.kids[k]]
      PROVE  step[<<e, g>>] = step[<<e, h>>]
  <2>1. InstAt(g, e, p) = InstAt(h, e, p)
    BY <1>3, InstLocal
  <2>2. step[<<e, g>>] = InstAt(g, e, p)
    BY <1>2
  <2>3. step[<<e, h>>] = InstAt(h, e, p)
    BY <1>2
  <2> QED  BY ONLY <2>1, <2>2, <2>3
<1>4. V # {}
  <2>1. [i \in Nat |-> Leaf] \in V
    BY LeafTrees
  <2> QED  BY <2>1
<1>5. IsExprStep(V, step)
  BY <1>1, <1>3 DEF IsExprStep
<1>6. PICK f : Solves(f, S, V, step)
  <2> HIDE DEF V
  <2> QED  BY ONLY <1>4, <1>5, ExprRecursion
<1>7. f \in [S -> V] /\ \A e \in S : f[e] = InstAt(f, e, p)
  BY <1>2, <1>6 DEF Solves
<1> HIDE DEF V
<1>8. f = [e \in S |-> InstAt(f, e, p)]
  BY <1>7
<1> DEFINE chosen == CHOOSE g : g = [e \in S |-> InstAt(g, e, p)]
<1>9. chosen = [e \in S |-> InstAt(chosen, e, p)]
  BY <1>8
<1>10. Insts(p) = chosen
  BY DEF Insts
<1> HIDE DEF chosen
<1>11. \A e \in S : chosen[e] = InstAt(chosen, e, p)
  BY <1>9
<1> DEFINE T == {e \in S : chosen[e] = f[e]}
<1>12. ASSUME NEW e \in S, \A k \in DOMAIN e.kids : e.kids[k] \in T PROVE e \in T
  <2>1. \A k \in DOMAIN e.kids : chosen[e.kids[k]] = f[e.kids[k]]
    BY <1>12
  <2>2. InstAt(chosen, e, p) = InstAt(f, e, p)
    BY <2>1, InstLocal
  <2> QED  BY <1>7, <1>11, <2>2
<1>13. S \subseteq T
  <2> HIDE DEF T
  <2> QED  BY <1>12, ExprInduction
<1>14. chosen = f
  BY <1>7, <1>9, <1>13
<1> QED  BY <1>7, <1>10, <1>14 DEF V

LEMMA InstAuxIs ==
  ASSUME NEW e \in Expressions, NEW substs, NEW o \in Nat, NEW open
  PROVE  InstAux(e, substs, o, open) = Insts(<<substs, open>>)[e][o]
BY DEF InstAux, Insts, InstAt

LEMMA InstSame ==
  ASSUME NEW e \in Expressions, NEW o \in Nat, NEW p, IsSubst(p), Loose[e] <= o
  PROVE  Insts(p)[e][o] = e
<1>1. Insts(p)[e] = InstAt(Insts(p), e, p)
  BY InstsIs
<1> QED  BY <1>1 DEF InstAt

LEMMA InstVar ==
  ASSUME NEW e \in Expressions, NEW o \in Nat, NEW p, IsSubst(p), ~(Loose[e] <= o), e.op = "var",
         e.idx - o < Len(p[1])
  PROVE  Insts(p)[e][o] = Instantiated(p[1], e.idx - o, o, p[2])
<1>1. Insts(p)[e] = InstAt(Insts(p), e, p)
  BY InstsIs
<1> QED  BY <1>1 DEF InstAt

LEMMA InstNode ==
  ASSUME NEW e \in Expressions, NEW o \in Nat, NEW p, IsSubst(p), ~(Loose[e] <= o), e.op # "var"
  PROVE  Insts(p)[e][o] =
           MapChildren(e, [k \in DOMAIN e.kids |-> Insts(p)[e.kids[k]][o + Binders(e, k)]])
<1>1. Insts(p)[e] = InstAt(Insts(p), e, p)
  BY InstsIs
<1> QED  BY <1>1 DEF InstAt

-----------------------------------------------------------------------------
(* What an expression means.                                                 *)

NamedAt(f, x, env) ==
  [d \in Nat |->
     IF x.op = "var" THEN IF x.idx < d THEN x ELSE env[x.idx - d]
     ELSE MapChildren(x, [k \in DOMAIN x.kids |-> f[x.kids[k]][d + Binders(x, k)]])]

\* NamedUnder, as a function of an expression and a depth.
Nameds(env) == CHOOSE f : f = [x \in Expressions |-> NamedAt(f, x, env)]

LEMMA NamedTyped ==
  ASSUME NEW x \in Expressions, NEW f \in [Expressions -> [Nat -> Trees]], NEW env \in [Nat -> Trees]
  PROVE  NamedAt(f, x, env) \in [Nat -> Trees]
<1>1. x \in Trees /\ x.idx \in Nat
  BY ExprsAreTrees, ExprIs
<1>2. \A d \in Nat : ~(x.idx < d) => env[x.idx - d] \in Trees
  <2>1. \A d \in Nat : ~(x.idx < d) => x.idx - d \in Nat
    BY <1>1
  <2> QED  BY <2>1
<1>3. ASSUME NEW c \in Nat
      PROVE  MapChildren(x, [k \in DOMAIN x.kids |-> f[x.kids[k]][c + Binders(x, k)]]) \in Trees
  <2>1. [k \in DOMAIN x.kids |-> f[x.kids[k]][c + Binders(x, k)]] \in [DOMAIN x.kids -> Trees]
    BY KidIs, UnderNat
  <2> QED  BY <2>1, MapTrees
<1> QED  BY <1>1, <1>2, <1>3 DEF NamedAt

LEMMA NamedLocal ==
  ASSUME NEW x \in Expressions, NEW g, NEW h, \A k \in DOMAIN x.kids : g[x.kids[k]] = h[x.kids[k]],
         NEW env
  PROVE  NamedAt(g, x, env) = NamedAt(h, x, env)
<1>1. \A c : [k \in DOMAIN x.kids |-> g[x.kids[k]][c + Binders(x, k)]] =
             [k \in DOMAIN x.kids |-> h[x.kids[k]][c + Binders(x, k)]]
  OBVIOUS
<1> QED  BY <1>1 DEF NamedAt

\* Nameds(env) is such a function.
LEMMA NamedsIs ==
  ASSUME NEW env \in [Nat -> Trees]
  PROVE  /\ Nameds(env) \in [Expressions -> [Nat -> Trees]]
         /\ \A e \in Expressions : Nameds(env)[e] = NamedAt(Nameds(env), e, env)
<1> DEFINE S == Expressions
           V == [Nat -> Trees]
           step == [y \in S \X [S -> V] |-> NamedAt(y[2], y[1], env)]
<1>1. step \in [S \X [S -> V] -> V]
  <2>1. \A e \in S : \A g \in [S -> V] : NamedAt(g, e, env) \in V
    BY NamedTyped
  <2> QED  BY <2>1
<1>2. \A e \in S : \A g \in [S -> V] : step[<<e, g>>] = NamedAt(g, e, env)
  OBVIOUS
<1> HIDE DEF step
<1>3. ASSUME NEW e \in S, NEW g \in [S -> V], NEW h \in [S -> V],
             \A k \in DOMAIN e.kids : g[e.kids[k]] = h[e.kids[k]]
      PROVE  step[<<e, g>>] = step[<<e, h>>]
  <2>1. NamedAt(g, e, env) = NamedAt(h, e, env)
    BY <1>3, NamedLocal
  <2>2. step[<<e, g>>] = NamedAt(g, e, env)
    BY <1>2
  <2>3. step[<<e, h>>] = NamedAt(h, e, env)
    BY <1>2
  <2> QED  BY ONLY <2>1, <2>2, <2>3
<1>4. V # {}
  <2>1. [i \in Nat |-> Leaf] \in V
    BY LeafTrees
  <2> QED  BY <2>1
<1>5. IsExprStep(V, step)
  BY <1>1, <1>3 DEF IsExprStep
<1>6. PICK f : Solves(f, S, V, step)
  <2> HIDE DEF V
  <2> QED  BY ONLY <1>4, <1>5, ExprRecursion
<1>7. f \in [S -> V] /\ \A e \in S : f[e] = NamedAt(f, e, env)
  BY <1>2, <1>6 DEF Solves
<1> HIDE DEF V
<1>8. f = [e \in S |-> NamedAt(f, e, env)]
  BY <1>7
<1> DEFINE chosen == CHOOSE g : g = [e \in S |-> NamedAt(g, e, env)]
<1>9. chosen = [e \in S |-> NamedAt(chosen, e, env)]
  BY <1>8
<1>10. Nameds(env) = chosen
  BY DEF Nameds
<1> HIDE DEF chosen
<1>11. \A e \in S : chosen[e] = NamedAt(chosen, e, env)
  BY <1>9
<1> DEFINE T == {e \in S : chosen[e] = f[e]}
<1>12. ASSUME NEW e \in S, \A k \in DOMAIN e.kids : e.kids[k] \in T PROVE e \in T
  <2>1. \A k \in DOMAIN e.kids : chosen[e.kids[k]] = f[e.kids[k]]
    BY <1>12
  <2>2. NamedAt(chosen, e, env) = NamedAt(f, e, env)
    BY <2>1, NamedLocal
  <2> QED  BY <1>7, <1>11, <2>2
<1>13. S \subseteq T
  <2> HIDE DEF T
  <2> QED  BY <1>12, ExprInduction
<1>14. chosen = f
  BY <1>7, <1>9, <1>13
<1> QED  BY <1>7, <1>10, <1>14 DEF V

LEMMA NamedUnderIs ==
  ASSUME NEW e \in Expressions, NEW env, NEW d \in Nat
  PROVE  NamedUnder(e, env, d) = Nameds(env)[e][d]
BY DEF NamedUnder, Nameds, NamedAt

LEMMA NamedVar ==
  ASSUME NEW e \in Expressions, NEW env \in [Nat -> Trees], NEW d \in Nat, e.op = "var"
  PROVE  Nameds(env)[e][d] = IF e.idx < d THEN e ELSE env[e.idx - d]
<1>1. Nameds(env)[e] = NamedAt(Nameds(env), e, env)
  BY NamedsIs
<1> QED  BY <1>1 DEF NamedAt

LEMMA NamedNode ==
  ASSUME NEW e \in Expressions, NEW env \in [Nat -> Trees], NEW d \in Nat, e.op # "var"
  PROVE  Nameds(env)[e][d] =
           MapChildren(e, [k \in DOMAIN e.kids |-> Nameds(env)[e.kids[k]][d + Binders(e, k)]])
<1>1. Nameds(env)[e] = NamedAt(Nameds(env), e, env)
  BY NamedsIs
<1> QED  BY <1>1 DEF NamedAt

-----------------------------------------------------------------------------
(* Meanings.                                                                 *)

\* Variable i, under d1 binders and then E1, means what j means under d2 binders
\* and then E2: the same binder, or the same thing.
Agree(E1, d1, i, E2, d2, j) ==
  \/ i < d1 /\ j < d2 /\ i = j
  \/ ~(i < d1) /\ ~(j < d2) /\ E1[i - d1] = E2[j - d2]

LEMMA AgreeUnder ==
  ASSUME NEW E1, NEW E2, NEW d1 \in Nat, NEW d2 \in Nat, NEW i \in Nat, NEW j \in Nat, NEW b \in Nat,
         Agree(E1, d1, i, E2, d2, j)
  PROVE  Agree(E1, d1 + b, i + b, E2, d2 + b, j + b)
<1>1. CASE i < d1 /\ j < d2 /\ i = j
  <2>1. i + b < d1 + b /\ j + b < d2 + b
    BY <1>1
  <2> QED  BY <1>1, <2>1 DEF Agree
<1>2. CASE ~(i < d1) /\ ~(j < d2) /\ E1[i - d1] = E2[j - d2]
  <2>1. ~(i + b < d1 + b) /\ ~(j + b < d2 + b)
    BY <1>2
  <2>2. (i + b) - (d1 + b) = i - d1 /\ (j + b) - (d2 + b) = j - d2
    OBVIOUS
  <2> QED  BY <1>2, <2>1, <2>2 DEF Agree
<1> QED  BY <1>1, <1>2 DEF Agree

LEMMA AgreeBound ==
  ASSUME NEW E1, NEW E2, NEW d1 \in Nat, NEW d2 \in Nat, NEW b \in Nat, NEW i \in Nat, i < b
  PROVE  Agree(E1, d1 + b, i, E2, d2 + b, i)
<1>1. i < d1 + b /\ i < d2 + b
  OBVIOUS
<1> QED  BY <1>1 DEF Agree

\* A free variable of a child is bound by the node or free in it.
LEMMA FreeKid ==
  ASSUME NEW e \in Expressions, e.op # "var", NEW k \in DOMAIN e.kids, NEW j \in FreeVars[e.kids[k]]
  PROVE  /\ j \in Nat
         /\ \/ j < Binders(e, k)
            \/ \E i \in FreeVars[e] : i \in Nat /\ j = i + Binders(e, k)
<1>1. j \in Nat /\ Binders(e, k) \in Nat
  BY KidIs
<1>2. CASE ~(j < Binders(e, k))
  <2>1. j - Binders(e, k) \in Nat /\ j = (j - Binders(e, k)) + Binders(e, k)
    BY <1>1, <1>2
  <2>2. j - Binders(e, k) \in FreeVars[e]
    BY <2>1, FreeNode
  <2> QED  BY <1>1, <2>1, <2>2
<1> QED  BY <1>1, <1>2

\* Expressions mean the same where their free variables do.
Alike(e, E1, d1, E2, d2) == \A j \in FreeVars[e] : Agree(E1, d1, j, E2, d2, j)

LEMMA AlikeKid ==
  ASSUME NEW e \in Expressions, e.op # "var", NEW E1, NEW E2, NEW d1 \in Nat, NEW d2 \in Nat,
         Alike(e, E1, d1, E2, d2), NEW k \in DOMAIN e.kids
  PROVE  Alike(e.kids[k], E1, d1 + Binders(e, k), E2, d2 + Binders(e, k))
<1> DEFINE b == Binders(e, k)
<1>1. b \in Nat
  BY KidIs
<1> HIDE DEF b
<1>2. ASSUME NEW j \in FreeVars[e.kids[k]] PROVE Agree(E1, d1 + b, j, E2, d2 + b, j)
  <2>1. j \in Nat /\ (j < b \/ \E i \in FreeVars[e] : i \in Nat /\ j = i + b)
    BY FreeKid DEF b
  <2>2. CASE j < b
    BY <1>1, <2>1, <2>2, AgreeBound
  <2>3. CASE \E i \in FreeVars[e] : i \in Nat /\ j = i + b
    <3>1. PICK i \in FreeVars[e] : i \in Nat /\ j = i + b
      BY <2>3
    <3>2. Agree(E1, d1, i, E2, d2, i)
      BY DEF Alike
    <3>3. Agree(E1, d1 + b, i + b, E2, d2 + b, i + b)
      BY <1>1, <3>1, <3>2, AgreeUnder
    <3> QED  BY <3>1, <3>3
  <2> QED  BY <2>1, <2>2, <2>3
<1> QED  BY <1>2 DEF Alike, b

LEMMA MeaningSame ==
  ASSUME NEW E1 \in [Nat -> Trees], NEW E2 \in [Nat -> Trees]
  PROVE  \A e \in Expressions : \A d1, d2 \in Nat :
           Alike(e, E1, d1, E2, d2) => Nameds(E1)[e][d1] = Nameds(E2)[e][d2]
<1> DEFINE T == {e \in Expressions : \A d1, d2 \in Nat :
                   Alike(e, E1, d1, E2, d2) => Nameds(E1)[e][d1] = Nameds(E2)[e][d2]}
<1>1. ASSUME NEW e \in Expressions, \A k \in DOMAIN e.kids : e.kids[k] \in T PROVE e \in T
  <2>1. ASSUME NEW d1 \in Nat, NEW d2 \in Nat, Alike(e, E1, d1, E2, d2)
        PROVE  Nameds(E1)[e][d1] = Nameds(E2)[e][d2]
    <3>1. CASE e.op = "var"
      <4>1. Agree(E1, d1, e.idx, E2, d2, e.idx)
        BY <2>1, <3>1, FreeVar DEF Alike
      <4>2. Nameds(E1)[e][d1] = IF e.idx < d1 THEN e ELSE E1[e.idx - d1]
        BY <3>1, NamedVar
      <4>3. Nameds(E2)[e][d2] = IF e.idx < d2 THEN e ELSE E2[e.idx - d2]
        BY <3>1, NamedVar
      <4> QED  BY <4>1, <4>2, <4>3 DEF Agree
    <3>2. CASE e.op # "var"
      <4>1. ASSUME NEW k \in DOMAIN e.kids
            PROVE  Nameds(E1)[e.kids[k]][d1 + Binders(e, k)] = Nameds(E2)[e.kids[k]][d2 + Binders(e, k)]
        <5>1. Alike(e.kids[k], E1, d1 + Binders(e, k), E2, d2 + Binders(e, k))
          BY <2>1, <3>2, AlikeKid
        <5>2. d1 + Binders(e, k) \in Nat /\ d2 + Binders(e, k) \in Nat
          BY UnderNat
        <5>3. e.kids[k] \in T
          BY <1>1
        <5> QED  BY <5>1, <5>2, <5>3
      <4>2. [k \in DOMAIN e.kids |-> Nameds(E1)[e.kids[k]][d1 + Binders(e, k)]] =
            [k \in DOMAIN e.kids |-> Nameds(E2)[e.kids[k]][d2 + Binders(e, k)]]
        BY <4>1
      <4>3. Nameds(E1)[e][d1] =
              MapChildren(e, [k \in DOMAIN e.kids |-> Nameds(E1)[e.kids[k]][d1 + Binders(e, k)]])
        BY <3>2, NamedNode
      <4>4. Nameds(E2)[e][d2] =
              MapChildren(e, [k \in DOMAIN e.kids |-> Nameds(E2)[e.kids[k]][d2 + Binders(e, k)]])
        BY <3>2, NamedNode
      <4> QED  BY <4>2, <4>3, <4>4
    <3> QED  BY <3>1, <3>2
  <2> QED  BY <2>1
<1>2. Expressions \subseteq T
  <2> HIDE DEF T
  <2> QED  BY <1>1, ExprInduction
<1> QED  BY <1>2

-----------------------------------------------------------------------------
(* Shifting makes no tree higher.                                            *)

LEMMA VarUpto == ASSUME NEW m \in Nat, NEW i \in Nat PROVE Var(i) \in ExprsUpto[m + 1]
<1>1. Var(i) \in ExprsUpto[1]
  BY LeafUpto DEF Var
<1>2. ExprsUpto[1] \subseteq ExprsUpto[m + 1]
  <2>1. 1 <= m + 1 /\ m + 1 \in Nat /\ 1 \in Nat
    OBVIOUS
  <2> QED  BY <2>1, UptoGrows
<1> QED  BY <1>1, <1>2

LEMMA LowExpr == ASSUME NEW m \in Nat, m <= MaxHeight PROVE ExprsUpto[m] \subseteq Expressions
BY UptoGrows, ExprsAssumption DEF Expressions


LEMMA LiftUpto ==
  ASSUME NEW n \in Nat
  PROVE  \A m \in Nat : m <= MaxHeight =>
           \A e \in ExprsUpto[m] : \A c \in Nat : Lifts(n)[e][c] \in ExprsUpto[m]
<1> DEFINE T == {m \in Nat : m <= MaxHeight =>
                   \A e \in ExprsUpto[m] : \A c \in Nat : Lifts(n)[e][c] \in ExprsUpto[m]}
<1>1. 0 \in T
  BY UptoIs
<1>2. ASSUME NEW m \in Nat, m \in T PROVE m + 1 \in T
  <2>1. ASSUME m + 1 <= MaxHeight, NEW e \in ExprsUpto[m + 1], NEW c \in Nat
        PROVE  Lifts(n)[e][c] \in ExprsUpto[m + 1]
    <3>1. m + 1 \in Nat /\ (m + 1) - 1 = m /\ m <= MaxHeight
      BY <2>1, ExprsAssumption
    <3>2. e \in Expressions
      BY <2>1, <3>1, LowExpr
    <3>3. e.kids \in Seq(ExprsUpto[m]) /\ DOMAIN e.kids = 1 .. Len(e.kids)
      <4>1. e \in [op : DOMAIN Scopes, idx : Nat, kids : Seq(ExprsUpto[(m + 1) - 1])]
        BY <2>1, <3>1, NodeOf
      <4> QED  BY <3>1, <4>1
    <3>4. CASE n = 0 \/ Loose[e] <= c
      BY <2>1, <3>2, <3>4, LiftSame
    <3>5. CASE ~(n = 0 \/ Loose[e] <= c) /\ e.op = "var"
      <4>1. Lifts(n)[e][c] = Var(e.idx + n)
        BY <3>2, <3>5, LiftVar
      <4>2. e.idx + n \in Nat
        <5>1. e.idx \in Nat
          BY <3>2, ExprIs
        <5> QED  BY <5>1
      <4> QED  BY <4>1, <4>2, VarUpto
    <3>6. CASE ~(n = 0 \/ Loose[e] <= c) /\ e.op # "var"
      <4> DEFINE kids == [k \in DOMAIN e.kids |-> Lifts(n)[e.kids[k]][c + Binders(e, k)]]
      <4>1. Lifts(n)[e][c] = MapChildren(e, kids)
        BY <3>2, <3>6, LiftNode
      <4>2. \A k \in DOMAIN e.kids : Lifts(n)[e.kids[k]][c + Binders(e, k)] \in ExprsUpto[m]
        <5>1. \A k \in DOMAIN e.kids : e.kids[k] \in ExprsUpto[m]
          BY <3>3
        <5>2. \A k \in DOMAIN e.kids : c + Binders(e, k) \in Nat
          BY <3>2, UnderNat
        <5> QED  BY <1>2, <3>1, <5>1, <5>2
      <4>3. kids \in Seq(ExprsUpto[m]) /\ Len(kids) = Len(e.kids)
        <5>1. Len(e.kids) \in Nat /\ DOMAIN e.kids = 1 .. Len(e.kids)
          BY <3>3
        <5>2. kids \in [1 .. Len(e.kids) -> ExprsUpto[m]]
          BY <4>2, <5>1
        <5> HIDE DEF kids
        <5> QED  BY ONLY <5>1, <5>2, FunctionSeq
      <4> HIDE DEF kids
      <4> QED  BY <3>2, <4>1, <4>3, MapUpto
    <3> QED  BY <3>4, <3>5, <3>6
  <2> QED  BY <2>1
<1>3. ASSUME NEW m \in Nat PROVE m \in T
  <2> HIDE DEF T
  <2>1. 0 .. m \subseteq T
    BY <1>1, <1>2, SetInduction
  <2> QED  BY <2>1
<1> QED  BY <1>3

LEMMA LiftExpr ==
  ASSUME NEW e \in Expressions, NEW c \in Nat, NEW n \in Nat
  PROVE  Lifts(n)[e][c] \in Expressions
<1>1. MaxHeight \in Nat /\ MaxHeight <= MaxHeight
  BY ExprsAssumption
<1> QED  BY <1>1, LiftUpto DEF Expressions

LEMMA LowerUpto ==
  ASSUME NEW n \in Nat
  PROVE  \A m \in Nat : m <= MaxHeight =>
           \A e \in ExprsUpto[m] : \A c \in Nat : Lowers(n)[e][c] \in ExprsUpto[m]
<1> DEFINE T == {m \in Nat : m <= MaxHeight =>
                   \A e \in ExprsUpto[m] : \A c \in Nat : Lowers(n)[e][c] \in ExprsUpto[m]}
<1>1. 0 \in T
  BY UptoIs
<1>2. ASSUME NEW m \in Nat, m \in T PROVE m + 1 \in T
  <2>1. ASSUME m + 1 <= MaxHeight, NEW e \in ExprsUpto[m + 1], NEW c \in Nat
        PROVE  Lowers(n)[e][c] \in ExprsUpto[m + 1]
    <3>1. m + 1 \in Nat /\ (m + 1) - 1 = m /\ m <= MaxHeight
      BY <2>1, ExprsAssumption
    <3>2. e \in Expressions
      BY <2>1, <3>1, LowExpr
    <3>3. e.kids \in Seq(ExprsUpto[m]) /\ DOMAIN e.kids = 1 .. Len(e.kids)
      <4>1. e \in [op : DOMAIN Scopes, idx : Nat, kids : Seq(ExprsUpto[(m + 1) - 1])]
        BY <2>1, <3>1, NodeOf
      <4> QED  BY <3>1, <4>1
    <3>4. CASE n = 0 \/ Loose[e] <= c
      BY <2>1, <3>2, <3>4, LowerSame
    <3>5. CASE ~(n = 0 \/ Loose[e] <= c) /\ e.op = "var"
      <4>1. Lowers(n)[e][c] = Var(e.idx - Lesser(n, e.idx))
        BY <3>2, <3>5, LowerVar
      <4>2. e.idx - Lesser(n, e.idx) \in Nat
        <5>1. e.idx \in Nat
          BY <3>2, ExprIs
        <5> QED  BY <5>1 DEF Lesser
      <4> QED  BY <4>1, <4>2, VarUpto
    <3>6. CASE ~(n = 0 \/ Loose[e] <= c) /\ e.op # "var"
      <4> DEFINE kids == [k \in DOMAIN e.kids |-> Lowers(n)[e.kids[k]][c + Binders(e, k)]]
      <4>1. Lowers(n)[e][c] = MapChildren(e, kids)
        BY <3>2, <3>6, LowerNode
      <4>2. \A k \in DOMAIN e.kids : Lowers(n)[e.kids[k]][c + Binders(e, k)] \in ExprsUpto[m]
        <5>1. \A k \in DOMAIN e.kids : e.kids[k] \in ExprsUpto[m]
          BY <3>3
        <5>2. \A k \in DOMAIN e.kids : c + Binders(e, k) \in Nat
          BY <3>2, UnderNat
        <5> QED  BY <1>2, <3>1, <5>1, <5>2
      <4>3. kids \in Seq(ExprsUpto[m]) /\ Len(kids) = Len(e.kids)
        <5>1. Len(e.kids) \in Nat /\ DOMAIN e.kids = 1 .. Len(e.kids)
          BY <3>3
        <5>2. kids \in [1 .. Len(e.kids) -> ExprsUpto[m]]
          BY <4>2, <5>1
        <5> HIDE DEF kids
        <5> QED  BY ONLY <5>1, <5>2, FunctionSeq
      <4> HIDE DEF kids
      <4> QED  BY <3>2, <4>1, <4>3, MapUpto
    <3> QED  BY <3>4, <3>5, <3>6
  <2> QED  BY <2>1
<1>3. ASSUME NEW m \in Nat PROVE m \in T
  <2> HIDE DEF T
  <2>1. 0 .. m \subseteq T
    BY <1>1, <1>2, SetInduction
  <2> QED  BY <2>1
<1> QED  BY <1>3

LEMMA LowerExpr ==
  ASSUME NEW e \in Expressions, NEW c \in Nat, NEW n \in Nat
  PROVE  Lowers(n)[e][c] \in Expressions
<1>1. MaxHeight \in Nat /\ MaxHeight <= MaxHeight
  BY ExprsAssumption
<1> QED  BY <1>1, LowerUpto DEF Expressions

-----------------------------------------------------------------------------
(* What shifting does to a meaning.                                          *)

\* The index that lift gives variable j, and that lower gives it.
LiftedIdx(j, c, n)  == IF j < c THEN j ELSE j + n
LoweredIdx(j, c, n) == IF j < c THEN j ELSE IF j < c + n THEN j ELSE j - n

\* The free variables of e mean the same once they are lifted, or lowered.
AlikeLifted(e, c, n, E1, d1, E2, d2) ==
  \A j \in FreeVars[e] : Agree(E1, d1, LiftedIdx(j, c, n), E2, d2, j)
AlikeLowered(e, c, n, E1, d1, E2, d2) ==
  \A j \in FreeVars[e] : Agree(E1, d1, LoweredIdx(j, c, n), E2, d2, j)

LEMMA AlikeLiftedKid ==
  ASSUME NEW e \in Expressions, e.op # "var", NEW E1, NEW E2, NEW c \in Nat, NEW n \in Nat,
         NEW d1 \in Nat, NEW d2 \in Nat, AlikeLifted(e, c, n, E1, d1, E2, d2), NEW k \in DOMAIN e.kids
  PROVE  AlikeLifted(e.kids[k], c + Binders(e, k), n, E1, d1 + Binders(e, k), E2, d2 + Binders(e, k))
<1> DEFINE b == Binders(e, k)
<1>1. b \in Nat
  BY KidIs
<1> HIDE DEF b
<1>2. ASSUME NEW j \in FreeVars[e.kids[k]] PROVE Agree(E1, d1 + b, LiftedIdx(j, c + b, n), E2, d2 + b, j)
  <2>1. j \in Nat /\ (j < b \/ \E i \in FreeVars[e] : i \in Nat /\ j = i + b)
    BY FreeKid DEF b
  <2>2. CASE j < b
    <3>1. LiftedIdx(j, c + b, n) = j
      BY <1>1, <2>1, <2>2 DEF LiftedIdx
    <3> QED  BY <1>1, <2>1, <2>2, <3>1, AgreeBound
  <2>3. CASE \E i \in FreeVars[e] : i \in Nat /\ j = i + b
    <3>1. PICK i \in FreeVars[e] : i \in Nat /\ j = i + b
      BY <2>3
    <3>2. Agree(E1, d1, LiftedIdx(i, c, n), E2, d2, i)
      BY DEF AlikeLifted
    <3>3. LiftedIdx(i, c, n) \in Nat /\ LiftedIdx(j, c + b, n) = LiftedIdx(i, c, n) + b
      BY <1>1, <3>1 DEF LiftedIdx
    <3>4. Agree(E1, d1 + b, LiftedIdx(i, c, n) + b, E2, d2 + b, i + b)
      BY <1>1, <3>1, <3>2, <3>3, AgreeUnder
    <3> QED  BY <3>1, <3>3, <3>4
  <2> QED  BY <2>1, <2>2, <2>3
<1> QED  BY <1>2 DEF AlikeLifted, b

LEMMA AlikeLoweredKid ==
  ASSUME NEW e \in Expressions, e.op # "var", NEW E1, NEW E2, NEW c \in Nat, NEW n \in Nat,
         NEW d1 \in Nat, NEW d2 \in Nat, AlikeLowered(e, c, n, E1, d1, E2, d2), NEW k \in DOMAIN e.kids
  PROVE  AlikeLowered(e.kids[k], c + Binders(e, k), n, E1, d1 + Binders(e, k), E2, d2 + Binders(e, k))
<1> DEFINE b == Binders(e, k)
<1>1. b \in Nat
  BY KidIs
<1> HIDE DEF b
<1>2. ASSUME NEW j \in FreeVars[e.kids[k]] PROVE Agree(E1, d1 + b, LoweredIdx(j, c + b, n), E2, d2 + b, j)
  <2>1. j \in Nat /\ (j < b \/ \E i \in FreeVars[e] : i \in Nat /\ j = i + b)
    BY FreeKid DEF b
  <2>2. CASE j < b
    <3>1. LoweredIdx(j, c + b, n) = j
      BY <1>1, <2>1, <2>2 DEF LoweredIdx
    <3> QED  BY <1>1, <2>1, <2>2, <3>1, AgreeBound
  <2>3. CASE \E i \in FreeVars[e] : i \in Nat /\ j = i + b
    <3>1. PICK i \in FreeVars[e] : i \in Nat /\ j = i + b
      BY <2>3
    <3>2. Agree(E1, d1, LoweredIdx(i, c, n), E2, d2, i)
      BY DEF AlikeLowered
    <3>3. LoweredIdx(i, c, n) \in Nat /\ LoweredIdx(j, c + b, n) = LoweredIdx(i, c, n) + b
      BY <1>1, <3>1 DEF LoweredIdx
    <3>4. Agree(E1, d1 + b, LoweredIdx(i, c, n) + b, E2, d2 + b, i + b)
      BY <1>1, <3>1, <3>2, <3>3, AgreeUnder
    <3> QED  BY <3>1, <3>3, <3>4
  <2> QED  BY <2>1, <2>2, <2>3
<1> QED  BY <1>2 DEF AlikeLowered, b

LEMMA VarIs ==
  ASSUME NEW e \in Expressions, e.op = "var"
  PROVE  e = [op |-> "var", idx |-> e.idx, kids |-> <<>>]
<1>1. e.kids \in Seq(Expressions) /\ Len(e.kids) = 0
  BY ExprIs, ScopesIs
<1>2. e.kids = <<>>
  BY <1>1
<1> QED  BY <1>2, ExprIs

\* What is lifted means what it did, where its free variables do.
LEMMA LiftMeans ==
  ASSUME NEW n \in Nat, NEW E1 \in [Nat -> Trees], NEW E2 \in [Nat -> Trees]
  PROVE  \A e \in Expressions : \A c, d1, d2 \in Nat :
           AlikeLifted(e, c, n, E1, d1, E2, d2) =>
             Nameds(E1)[Lifts(n)[e][c]][d1] = Nameds(E2)[e][d2]
<1> DEFINE T == {e \in Expressions : \A c, d1, d2 \in Nat :
                   AlikeLifted(e, c, n, E1, d1, E2, d2) =>
                     Nameds(E1)[Lifts(n)[e][c]][d1] = Nameds(E2)[e][d2]}
<1>1. ASSUME NEW e \in Expressions, \A k \in DOMAIN e.kids : e.kids[k] \in T PROVE e \in T
  <2>1. ASSUME NEW c \in Nat, NEW d1 \in Nat, NEW d2 \in Nat,
               AlikeLifted(e, c, n, E1, d1, E2, d2)
        PROVE  Nameds(E1)[Lifts(n)[e][c]][d1] = Nameds(E2)[e][d2]
    <3>1. CASE n = 0 \/ Loose[e] <= c
      <4>1. Lifts(n)[e][c] = e
        BY <3>1, LiftSame
      <4>2. \A j \in FreeVars[e] : LiftedIdx(j, c, n) = j
        BY <3>1, LooseExact, LooseIs, FreeVarsIs DEF LiftedIdx
      <4>3. Alike(e, E1, d1, E2, d2)
        BY <2>1, <4>2 DEF Alike, AlikeLifted
      <4>4. Nameds(E1)[e][d1] = Nameds(E2)[e][d2]
        BY <4>3, MeaningSame
      <4> QED  BY <4>1, <4>4
    <3>2. CASE ~(n = 0 \/ Loose[e] <= c) /\ e.op = "var"
      <4>1. e.idx \in Nat /\ Loose[e] = e.idx + 1 /\ FreeVars[e] = {e.idx}
        BY <3>2, ExprIs, LooseVar, FreeVar
      <4>2. n # 0 /\ ~(e.idx < c)
        BY <3>2, <4>1
      <4>4. Lifts(n)[e][c] = Var(e.idx + n) /\ e.idx + n = LiftedIdx(e.idx, c, n)
        BY <2>1, <3>2, <4>1, <4>2, LiftVar DEF LiftedIdx
      <4>5. Lifts(n)[e][c] \in Expressions
        BY LiftExpr
      <4> DEFINE new == Var(e.idx + n)
      <4>6. new.op = "var" /\ new.idx = LiftedIdx(e.idx, c, n) /\ new \in Expressions
        BY <4>4, <4>5 DEF Var
      <4>7. Nameds(E1)[new][d1] = IF new.idx < d1 THEN new ELSE E1[new.idx - d1]
        BY <4>6, NamedVar
      <4>8. Nameds(E2)[e][d2] = IF e.idx < d2 THEN e ELSE E2[e.idx - d2]
        BY <3>2, NamedVar
      <4>9. Agree(E1, d1, new.idx, E2, d2, e.idx)
        BY <2>1, <4>1, <4>6 DEF AlikeLifted
      <4>10. new.idx = e.idx => new = e
        <5>1. e = [op |-> "var", idx |-> e.idx, kids |-> <<>>]
          BY <3>2, VarIs
        <5> QED  BY <5>1 DEF Var
      <4> HIDE DEF new
      <4>11. Nameds(E1)[new][d1] = Nameds(E2)[e][d2]
        BY <4>7, <4>8, <4>9, <4>10 DEF Agree
      <4> QED  BY <4>4, <4>11 DEF new
    <3>3. CASE ~(n = 0 \/ Loose[e] <= c) /\ e.op # "var"
      <4> DEFINE kids == [k \in DOMAIN e.kids |-> Lifts(n)[e.kids[k]][c + Binders(e, k)]]
                 new  == MapChildren(e, kids)
      <4>1. Lifts(n)[e][c] = new
        BY <3>3, LiftNode
      <4>2. new \in Expressions
        BY <4>1, LiftExpr
      <4>3. new.op = e.op /\ new.kids = kids /\ DOMAIN new.kids = DOMAIN e.kids
        BY MapIs
      <4>4. \A k \in DOMAIN e.kids : Binders(new, k) = Binders(e, k)
        BY <4>3 DEF Binders
      <4>5. ASSUME NEW k \in DOMAIN e.kids
            PROVE  Nameds(E1)[new.kids[k]][d1 + Binders(new, k)] =
                     Nameds(E2)[e.kids[k]][d2 + Binders(e, k)]
        <5> DEFINE b == Binders(e, k)
        <5>1. c + b \in Nat /\ d1 + b \in Nat /\ d2 + b \in Nat
          BY UnderNat
        <5>2. AlikeLifted(e.kids[k], c + b, n, E1, d1 + b, E2, d2 + b)
          BY <2>1, <3>3, AlikeLiftedKid
        <5>4. e.kids[k] \in T
          BY <1>1
        <5> HIDE DEF b
        <5>5. Nameds(E1)[Lifts(n)[e.kids[k]][c + b]][d1 + b] = Nameds(E2)[e.kids[k]][d2 + b]
          BY <5>1, <5>2, <5>4
        <5>6. new.kids[k] = Lifts(n)[e.kids[k]][c + b]
          BY <4>3 DEF b
        <5> HIDE DEF new
        <5>7. Binders(new, k) = b
          BY <4>4 DEF b
        <5> QED  BY <5>5, <5>6, <5>7 DEF b
      <4> HIDE DEF new, kids
      <4>6. Nameds(E1)[new][d1] =
              MapChildren(new, [k \in DOMAIN new.kids |-> Nameds(E1)[new.kids[k]][d1 + Binders(new, k)]])
        BY <3>3, <4>2, <4>3, NamedNode
      <4>7. Nameds(E2)[e][d2] =
              MapChildren(e, [k \in DOMAIN e.kids |-> Nameds(E2)[e.kids[k]][d2 + Binders(e, k)]])
        BY <3>3, NamedNode
      <4>8. [k \in DOMAIN new.kids |-> Nameds(E1)[new.kids[k]][d1 + Binders(new, k)]] =
            [k \in DOMAIN e.kids |-> Nameds(E2)[e.kids[k]][d2 + Binders(e, k)]]
        BY <4>3, <4>5
      <4>9. \A ks : MapChildren(new, ks) = MapChildren(e, ks)
        <5>1. new.idx = e.idx
          BY MapIs DEF new
        <5> QED  BY <4>2, <4>3, <5>1, MapIs
      <4> QED  BY <4>1, <4>6, <4>7, <4>8, <4>9
    <3> QED  BY <3>1, <3>2, <3>3
  <2> QED  BY <2>1
<1>2. Expressions \subseteq T
  <2> HIDE DEF T
  <2> QED  BY <1>1, ExprInduction
<1> QED  BY <1>2

\* What is lowered, where lower does not panic, means what it did.
LEMMA LowerMeans ==
  ASSUME NEW n \in Nat, NEW E1 \in [Nat -> Trees], NEW E2 \in [Nat -> Trees]
  PROVE  \A e \in Expressions : \A c, d1, d2 \in Nat :
           ~Panics(n)[e][c] /\ AlikeLowered(e, c, n, E1, d1, E2, d2) =>
             Nameds(E1)[Lowers(n)[e][c]][d1] = Nameds(E2)[e][d2]
<1> DEFINE T == {e \in Expressions : \A c, d1, d2 \in Nat :
                   ~Panics(n)[e][c] /\ AlikeLowered(e, c, n, E1, d1, E2, d2) =>
                     Nameds(E1)[Lowers(n)[e][c]][d1] = Nameds(E2)[e][d2]}
<1>1. ASSUME NEW e \in Expressions, \A k \in DOMAIN e.kids : e.kids[k] \in T PROVE e \in T
  <2>1. ASSUME NEW c \in Nat, NEW d1 \in Nat, NEW d2 \in Nat,
               ~Panics(n)[e][c], AlikeLowered(e, c, n, E1, d1, E2, d2)
        PROVE  Nameds(E1)[Lowers(n)[e][c]][d1] = Nameds(E2)[e][d2]
    <3>1. CASE n = 0 \/ Loose[e] <= c
      <4>1. Lowers(n)[e][c] = e
        BY <3>1, LowerSame
      <4>2. \A j \in FreeVars[e] : LoweredIdx(j, c, n) = j
        BY <3>1, LooseExact, LooseIs, FreeVarsIs DEF LoweredIdx
      <4>3. Alike(e, E1, d1, E2, d2)
        BY <2>1, <4>2 DEF Alike, AlikeLowered
      <4>4. Nameds(E1)[e][d1] = Nameds(E2)[e][d2]
        BY <4>3, MeaningSame
      <4> QED  BY <4>1, <4>4
    <3>2. CASE ~(n = 0 \/ Loose[e] <= c) /\ e.op = "var"
      <4>1. e.idx \in Nat /\ Loose[e] = e.idx + 1 /\ FreeVars[e] = {e.idx}
        BY <3>2, ExprIs, LooseVar, FreeVar
      <4>2. n # 0 /\ ~(e.idx < c)
        BY <3>2, <4>1
      <4>3. ~(e.idx < c + n)
        <5>1. Loose[e] > c
          BY <4>1, <4>2
        <5> QED  BY <2>1, <3>2, <4>2, <5>1, PanicsNode
      <4>4. Lowers(n)[e][c] = Var(e.idx - Lesser(n, e.idx)) /\ e.idx - Lesser(n, e.idx) = LoweredIdx(e.idx, c, n)
        BY <2>1, <3>2, <4>1, <4>2, <4>3, LowerVar DEF LoweredIdx, Lesser
      <4>5. Lowers(n)[e][c] \in Expressions
        BY LowerExpr
      <4> DEFINE new == Var(e.idx - Lesser(n, e.idx))
      <4>6. new.op = "var" /\ new.idx = LoweredIdx(e.idx, c, n) /\ new \in Expressions
        BY <4>4, <4>5 DEF Var
      <4>7. Nameds(E1)[new][d1] = IF new.idx < d1 THEN new ELSE E1[new.idx - d1]
        BY <4>6, NamedVar
      <4>8. Nameds(E2)[e][d2] = IF e.idx < d2 THEN e ELSE E2[e.idx - d2]
        BY <3>2, NamedVar
      <4>9. Agree(E1, d1, new.idx, E2, d2, e.idx)
        BY <2>1, <4>1, <4>6 DEF AlikeLowered
      <4>10. new.idx = e.idx => new = e
        <5>1. e = [op |-> "var", idx |-> e.idx, kids |-> <<>>]
          BY <3>2, VarIs
        <5> QED  BY <5>1 DEF Var
      <4> HIDE DEF new
      <4>11. Nameds(E1)[new][d1] = Nameds(E2)[e][d2]
        BY <4>7, <4>8, <4>9, <4>10 DEF Agree
      <4> QED  BY <4>4, <4>11 DEF new
    <3>3. CASE ~(n = 0 \/ Loose[e] <= c) /\ e.op # "var"
      <4> DEFINE kids == [k \in DOMAIN e.kids |-> Lowers(n)[e.kids[k]][c + Binders(e, k)]]
                 new  == MapChildren(e, kids)
      <4>1. Lowers(n)[e][c] = new
        BY <3>3, LowerNode
      <4>2. new \in Expressions
        BY <4>1, LowerExpr
      <4>3. new.op = e.op /\ new.kids = kids /\ DOMAIN new.kids = DOMAIN e.kids
        BY MapIs
      <4>4. \A k \in DOMAIN e.kids : Binders(new, k) = Binders(e, k)
        BY <4>3 DEF Binders
      <4>5. ASSUME NEW k \in DOMAIN e.kids
            PROVE  Nameds(E1)[new.kids[k]][d1 + Binders(new, k)] =
                     Nameds(E2)[e.kids[k]][d2 + Binders(e, k)]
        <5> DEFINE b == Binders(e, k)
        <5>1. c + b \in Nat /\ d1 + b \in Nat /\ d2 + b \in Nat
          BY UnderNat
        <5>2. AlikeLowered(e.kids[k], c + b, n, E1, d1 + b, E2, d2 + b)
          BY <2>1, <3>3, AlikeLoweredKid
        <5>3. ~Panics(n)[e.kids[k]][c + b]
          <6>1. n # 0 /\ Loose[e] > c
            BY <3>3, LooseIs
          <6> QED  BY <2>1, <3>3, <6>1, PanicsNode
        <5>4. e.kids[k] \in T
          BY <1>1
        <5> HIDE DEF b
        <5>5. Nameds(E1)[Lowers(n)[e.kids[k]][c + b]][d1 + b] = Nameds(E2)[e.kids[k]][d2 + b]
          BY <5>1, <5>2, <5>3, <5>4
        <5>6. new.kids[k] = Lowers(n)[e.kids[k]][c + b]
          BY <4>3 DEF b
        <5> HIDE DEF new
        <5>7. Binders(new, k) = b
          BY <4>4 DEF b
        <5> QED  BY <5>5, <5>6, <5>7 DEF b
      <4> HIDE DEF new, kids
      <4>6. Nameds(E1)[new][d1] =
              MapChildren(new, [k \in DOMAIN new.kids |-> Nameds(E1)[new.kids[k]][d1 + Binders(new, k)]])
        BY <3>3, <4>2, <4>3, NamedNode
      <4>7. Nameds(E2)[e][d2] =
              MapChildren(e, [k \in DOMAIN e.kids |-> Nameds(E2)[e.kids[k]][d2 + Binders(e, k)]])
        BY <3>3, NamedNode
      <4>8. [k \in DOMAIN new.kids |-> Nameds(E1)[new.kids[k]][d1 + Binders(new, k)]] =
            [k \in DOMAIN e.kids |-> Nameds(E2)[e.kids[k]][d2 + Binders(e, k)]]
        BY <4>3, <4>5
      <4>9. \A ks : MapChildren(new, ks) = MapChildren(e, ks)
        <5>1. new.idx = e.idx
          BY MapIs DEF new
        <5> QED  BY <4>2, <4>3, <5>1, MapIs
      <4> QED  BY <4>1, <4>6, <4>7, <4>8, <4>9
    <3> QED  BY <3>1, <3>2, <3>3
  <2> QED  BY <2>1
<1>2. Expressions \subseteq T
  <2> HIDE DEF T
  <2> QED  BY <1>1, ExprInduction
<1> QED  BY <1>2

-----------------------------------------------------------------------------
(* What instantiation does to a meaning.                                     *)

LEMMA NamesAre == Names \in [Nat -> Trees] /\ \A i \in Nat : Names[i] = Name(i)
BY LeafTrees DEF Names

LEMMA WithoutIs ==
  ASSUME NEW c \in Nat, NEW n \in Nat
  PROVE  /\ Without(c, n) \in [Nat -> Trees]
         /\ \A i \in Nat : Without(c, n)[i] = Name(IF i < c THEN i ELSE i + n)
<1>1. \A i \in Nat : (IF i < c THEN i ELSE i + n) \in Nat
  OBVIOUS
<1> QED  BY <1>1, LeafTrees DEF Without

LEMMA OtherIs ==
  ASSUME NEW j \in Nat
  PROVE  Other(j) \in [Nat -> Trees] /\ \A i \in Nat : i # j => Other(j)[i] = Names[i]
BY NamesAre, LeafTrees DEF Other

\* open says rightly whether a substituted expression has free variables.
OpenRight(p) == IsSubst(p) /\ (~p[2] => \A k \in DOMAIN p[1] : Loose[p[1][k]] = 0)

LEMMA GivenIs ==
  ASSUME NEW p, IsSubst(p)
  PROVE  /\ Given(p[1]) \in [Nat -> Trees]
         /\ \A i \in Nat : i < Len(p[1]) =>
              Given(p[1])[i] = Nameds(Names)[p[1][Len(p[1]) - i]][0]
<1>1. \A i \in Nat : i < Len(p[1]) => p[1][Len(p[1]) - i] \in Expressions
  BY InstantiatedTree
<1>2. \A i \in Nat : i < Len(p[1]) =>
        Named(p[1][Len(p[1]) - i], Names) = Nameds(Names)[p[1][Len(p[1]) - i]][0]
  BY <1>1, NamedUnderIs DEF Named
<1>3. \A i \in Nat : i < Len(p[1]) => Nameds(Names)[p[1][Len(p[1]) - i]][0] \in Trees
  BY <1>1, NamesAre, NamedsIs
<1> QED  BY <1>2, <1>3, LeafTrees DEF Given

\* What stands for a variable means what is given for it, under any binders.
LEMMA InstantiatedMeans ==
  ASSUME NEW p, OpenRight(p), NEW i \in Nat, i < Len(p[1]), NEW d \in Nat
  PROVE  /\ Instantiated(p[1], i, d, p[2]) \in Expressions
         /\ Nameds(Names)[Instantiated(p[1], i, d, p[2])][d] = Given(p[1])[i]
<1> DEFINE s == p[1][Len(p[1]) - i]
<1>1. IsSubst(p) /\ s \in Expressions
  BY InstantiatedTree DEF OpenRight
<1>2. Given(p[1])[i] = Nameds(Names)[s][0]
  BY <1>1, GivenIs
<1>3. Len(p[1]) - i \in DOMAIN p[1]
  BY <1>1 DEF IsSubst
<1>4. CASE p[2]
  <2>1. Instantiated(p[1], i, d, p[2]) = Lifts(d)[s][0]
    BY <1>1, <1>4, LiftIs DEF Instantiated
  <2>2. Lifts(d)[s][0] \in Expressions
    BY <1>1, LiftExpr
  <2>3. AlikeLifted(s, 0, d, Names, d, Names, 0)
    <3>1. ASSUME NEW j \in FreeVars[s] PROVE Agree(Names, d, LiftedIdx(j, 0, d), Names, 0, j)
      <4>1. j \in Nat
        BY <1>1, FreeVarsIs
      <4>2. LiftedIdx(j, 0, d) = j + d /\ ~(j + d < d) /\ ~(j < 0) /\ (j + d) - d = j /\ j - 0 = j
        BY <4>1 DEF LiftedIdx
      <4> QED  BY <4>2 DEF Agree
    <3> QED  BY <3>1 DEF AlikeLifted
  <2>4. Nameds(Names)[Lifts(d)[s][0]][d] = Nameds(Names)[s][0]
    <3>1. s \in Expressions /\ d \in Nat /\ 0 \in Nat /\ Names \in [Nat -> Trees]
      BY <1>1, NamesAre
    <3>2. \A e \in Expressions : \A c, d1, d2 \in Nat :
            AlikeLifted(e, c, d, Names, d1, Names, d2) =>
              Nameds(Names)[Lifts(d)[e][c]][d1] = Nameds(Names)[e][d2]
      BY <3>1, LiftMeans
    <3> QED  BY ONLY <2>3, <3>1, <3>2
  <2> QED  BY <1>2, <2>1, <2>2, <2>4
<1>5. CASE ~p[2]
  <2>1. Instantiated(p[1], i, d, p[2]) = s
    BY <1>5 DEF Instantiated
  <2>2. Loose[s] = 0
    BY <1>3, <1>5 DEF OpenRight
  <2>3. Alike(s, Names, d, Names, 0)
    <3>1. ASSUME NEW j \in FreeVars[s] PROVE FALSE
      <4>1. j \in Nat /\ j < Loose[s]
        BY <1>1, FreeVarsIs, LooseExact
      <4> QED  BY <2>2, <4>1
    <3> QED  BY <3>1 DEF Alike
  <2>4. Nameds(Names)[s][d] = Nameds(Names)[s][0]
    BY <1>1, <2>3, NamesAre, MeaningSame
  <2> QED  BY <1>1, <1>2, <2>1, <2>4
<1> QED  BY <1>4, <1>5

\* Instantiation gives each variable what is put for it.
LEMMA InstMeans ==
  ASSUME NEW p, OpenRight(p)
  PROVE  \A e \in Expressions : \A d \in Nat :
           Loose[e] <= Len(p[1]) + d /\ Insts(p)[e][d] \in Expressions =>
             Nameds(Names)[Insts(p)[e][d]][d] = Nameds(Given(p[1]))[e][d]
<1> DEFINE E == Given(p[1])
           T == {e \in Expressions : \A d \in Nat :
                   Loose[e] <= Len(p[1]) + d /\ Insts(p)[e][d] \in Expressions =>
                     Nameds(Names)[Insts(p)[e][d]][d] = Nameds(E)[e][d]}
<1>0. IsSubst(p) /\ Len(p[1]) \in Nat /\ E \in [Nat -> Trees] /\ Names \in [Nat -> Trees]
  BY GivenIs, NamesAre DEF OpenRight, IsSubst
<1> HIDE DEF E
<1>1. ASSUME NEW e \in Expressions, \A k \in DOMAIN e.kids : e.kids[k] \in T PROVE e \in T
  <2>1. ASSUME NEW d \in Nat, Loose[e] <= Len(p[1]) + d, Insts(p)[e][d] \in Expressions
        PROVE  Nameds(Names)[Insts(p)[e][d]][d] = Nameds(E)[e][d]
    <3>1. CASE Loose[e] <= d
      <4>1. Insts(p)[e][d] = e
        BY <1>0, <3>1, InstSame
      <4>2. Alike(e, Names, d, E, d)
        <5>1. ASSUME NEW j \in FreeVars[e] PROVE j < d
          <6>1. j \in Nat /\ j < Loose[e] /\ Loose[e] \in Nat
            BY FreeVarsIs, LooseExact, LooseIs
          <6> QED  BY <3>1, <6>1
        <5> QED  BY <5>1 DEF Alike, Agree
      <4>3. Nameds(Names)[e][d] = Nameds(E)[e][d]
        BY <1>0, <4>2, MeaningSame
      <4> QED  BY <4>1, <4>3
    <3>2. CASE ~(Loose[e] <= d) /\ e.op = "var"
      <4>1. e.idx \in Nat /\ Loose[e] = e.idx + 1
        BY <3>2, ExprIs, LooseVar
      <4>2. e.idx - d \in Nat /\ e.idx - d < Len(p[1]) /\ ~(e.idx < d)
        BY <1>0, <2>1, <3>2, <4>1
      <4>3. Insts(p)[e][d] = Instantiated(p[1], e.idx - d, d, p[2])
        BY <1>0, <3>2, <4>2, InstVar
      <4>4. Nameds(Names)[Insts(p)[e][d]][d] = E[e.idx - d]
        BY <4>2, <4>3, InstantiatedMeans DEF E
      <4>5. Nameds(E)[e][d] = E[e.idx - d]
        BY <1>0, <3>2, <4>2, NamedVar
      <4> QED  BY <4>4, <4>5
    <3>3. CASE ~(Loose[e] <= d) /\ e.op # "var"
      <4> DEFINE kids == [k \in DOMAIN e.kids |-> Insts(p)[e.kids[k]][d + Binders(e, k)]]
                 new  == MapChildren(e, kids)
      <4>1. Insts(p)[e][d] = new
        BY <1>0, <3>3, InstNode
      <4>2. new \in Expressions
        BY <2>1, <4>1
      <4>3. new.op = e.op /\ new.kids = kids /\ DOMAIN new.kids = DOMAIN e.kids
        BY MapIs
      <4>4. \A k \in DOMAIN e.kids : Binders(new, k) = Binders(e, k)
        BY <4>3 DEF Binders
      <4>5. ASSUME NEW k \in DOMAIN e.kids
            PROVE  Nameds(Names)[new.kids[k]][d + Binders(new, k)] =
                     Nameds(E)[e.kids[k]][d + Binders(e, k)]
        <5> DEFINE b == Binders(e, k)
        <5>1. d + b \in Nat /\ b \in Nat /\ Loose[e.kids[k]] \in Nat
          BY KidIs
        <5>2. Loose[e.kids[k]] <= Len(p[1]) + (d + b)
          <6>1. Len(p[1]) + d \in Nat
            BY <1>0
          <6>2. Loose[e.kids[k]] <= (Len(p[1]) + d) + b
            BY <2>1, <3>3, <6>1, LooseKid
          <6> QED  BY <1>0, <5>1, <6>2
        <5>3. new.kids[k] = Insts(p)[e.kids[k]][d + b]
          BY <4>3
        <5>4. new.kids[k] \in Expressions
          <6> HIDE DEF new
          <6> QED  BY <4>2, <4>3, ExprIs
        <5>5. e.kids[k] \in T
          BY <1>1
        <5> HIDE DEF b, new
        <5>6. Nameds(Names)[Insts(p)[e.kids[k]][d + b]][d + b] = Nameds(E)[e.kids[k]][d + b]
          BY <5>1, <5>2, <5>3, <5>4, <5>5
        <5>7. Binders(new, k) = b
          BY <4>4 DEF b
        <5> QED  BY <5>3, <5>6, <5>7 DEF b
      <4>9. \A ks : MapChildren(new, ks) = MapChildren(e, ks)
        <5>1. new.idx = e.idx
          BY MapIs
        <5> HIDE DEF new
        <5> QED  BY <4>2, <4>3, <5>1, MapIs
      <4> HIDE DEF new, kids
      <4>6. Nameds(Names)[new][d] =
              MapChildren(new, [k \in DOMAIN new.kids |-> Nameds(Names)[new.kids[k]][d + Binders(new, k)]])
        BY <1>0, <3>3, <4>2, <4>3, NamedNode
      <4>7. Nameds(E)[e][d] =
              MapChildren(e, [k \in DOMAIN e.kids |-> Nameds(E)[e.kids[k]][d + Binders(e, k)]])
        BY <1>0, <3>3, NamedNode
      <4>8. [k \in DOMAIN new.kids |-> Nameds(Names)[new.kids[k]][d + Binders(new, k)]] =
            [k \in DOMAIN e.kids |-> Nameds(E)[e.kids[k]][d + Binders(e, k)]]
        BY <4>3, <4>5
      <4> QED  BY <4>1, <4>6, <4>7, <4>8, <4>9
    <3> QED  BY <3>1, <3>2, <3>3
  <2> QED  BY <2>1
<1>2. Expressions \subseteq T
  <2> HIDE DEF T
  <2> QED  BY <1>1, ExprInduction
<1> QED  BY <1>2 DEF E

-----------------------------------------------------------------------------
(* has_loose_bvar_below lets nothing through that lower would panic at.      *)

LEMMA BelowGuards ==
  ASSUME NEW n \in Nat
  PROVE  \A e \in Expressions : \A c \in Nat : Panics(n)[e][c] => HasLooseBvarBelow[e][c + n]
<1> DEFINE T == {e \in Expressions : \A c \in Nat : Panics(n)[e][c] => HasLooseBvarBelow[e][c + n]}
<1>1. ASSUME NEW e \in Expressions, \A k \in DOMAIN e.kids : e.kids[k] \in T PROVE e \in T
  <2>1. ASSUME NEW c \in Nat, Panics(n)[e][c] PROVE HasLooseBvarBelow[e][c + n]
    <3>1. /\ n # 0 /\ Loose[e] > c
          /\ IF e.op = "var" THEN e.idx < c + n
             ELSE \E k \in DOMAIN e.kids : Panics(n)[e.kids[k]][c + Binders(e, k)]
      BY <2>1, PanicsNode
    <3>2. c + n \in Nat /\ c + n # 0 /\ Loose[e] # 0
      BY <3>1, LooseIs
    <3>3. HasLooseBvarBelow[e][c + n] <=>
            IF e.op = "var" THEN e.idx < c + n
            ELSE \E k \in DOMAIN e.kids : HasLooseBvarBelow[e.kids[k]][(c + n) + Binders(e, k)]
      <4>1. HasLooseBvarBelow[e] = HasLooseBvarBelowAt(HasLooseBvarBelow, e)
        BY HasLooseBvarBelowIs
      <4> QED  BY <3>2, <4>1 DEF HasLooseBvarBelowAt
    <3>4. CASE e.op = "var"
      BY <3>1, <3>3, <3>4
    <3>5. CASE e.op # "var"
      <4>1. PICK k \in DOMAIN e.kids : Panics(n)[e.kids[k]][c + Binders(e, k)]
        BY <3>1, <3>5
      <4>2. c + Binders(e, k) \in Nat /\ e.kids[k] \in T
        BY <1>1, UnderNat
      <4>3. HasLooseBvarBelow[e.kids[k]][(c + Binders(e, k)) + n]
        BY <4>1, <4>2
      <4>4. (c + Binders(e, k)) + n = (c + n) + Binders(e, k)
        <5>1. Binders(e, k) \in Nat
          BY KidIs
        <5> QED  BY <5>1
      <4> QED  BY <3>3, <3>5, <4>3, <4>4
    <3> QED  BY <3>4, <3>5
  <2> QED  BY <2>1
<1>2. Expressions \subseteq T
  <2> HIDE DEF T
  <2> QED  BY <1>1, ExprInduction
<1> QED  BY <1>2

\* What lower does not panic at has no variable between.
LEMMA PanicFree ==
  ASSUME NEW n \in Nat
  PROVE  \A e \in Expressions : \A c \in Nat :
           n # 0 /\ ~Panics(n)[e][c] => \A j \in FreeVars[e] : ~(j < c) => ~(j < c + n)
<1> DEFINE T == {e \in Expressions : \A c \in Nat :
                   n # 0 /\ ~Panics(n)[e][c] => \A j \in FreeVars[e] : ~(j < c) => ~(j < c + n)}
<1>1. ASSUME NEW e \in Expressions, \A k \in DOMAIN e.kids : e.kids[k] \in T PROVE e \in T
  <2>1. ASSUME NEW c \in Nat, n # 0, ~Panics(n)[e][c], NEW j \in FreeVars[e], ~(j < c)
        PROVE  ~(j < c + n)
    <3>1. j \in Nat /\ j < Loose[e] /\ Loose[e] \in Nat
      BY FreeVarsIs, LooseExact, LooseIs
    <3>2. Loose[e] > c
      BY <2>1, <3>1
    <3>3. ~(IF e.op = "var" THEN e.idx < c + n
            ELSE \E k \in DOMAIN e.kids : Panics(n)[e.kids[k]][c + Binders(e, k)])
      BY <2>1, <3>2, PanicsNode
    <3>4. CASE e.op = "var"
      BY <3>3, <3>4, FreeVar
    <3>5. CASE e.op # "var"
      <4>1. PICK k \in DOMAIN e.kids : j + Binders(e, k) \in FreeVars[e.kids[k]]
        BY <3>1, <3>5, FreeNode
      <4> DEFINE b == Binders(e, k)
      <4>2. b \in Nat /\ c + b \in Nat /\ e.kids[k] \in T
        BY <1>1, KidIs, UnderNat
      <4>3. ~Panics(n)[e.kids[k]][c + b]
        BY <3>3, <3>5
      <4> HIDE DEF b
      <4>4. ~(j + b < c + b)
        BY <2>1, <3>1, <4>2
      <4>5. j + b \in FreeVars[e.kids[k]]
        BY <4>1 DEF b
      <4>6. ~(j + b < (c + b) + n)
        BY <2>1, <4>2, <4>3, <4>4, <4>5
      <4> QED  BY <3>1, <4>2, <4>6
    <3> QED  BY <3>4, <3>5
  <2> QED  BY <2>1
<1>2. Expressions \subseteq T
  <2> HIDE DEF T
  <2> QED  BY <1>1, ExprInduction
<1> QED  BY <1>2

-----------------------------------------------------------------------------
(* The invariant, which Exprs has with what its steps did.                   *)

ExprsInv ==
  /\ expr \in Expressions /\ was \in Expressions /\ steps \in 0 .. MaxSteps
  /\ SubstMeans /\ AbsentUnused

LEMMA SummaryHolds == expr \in Expressions => SummaryRight
<1> SUFFICES ASSUME expr \in Expressions PROVE SummaryRight
  OBVIOUS
<1>1. \A i \in FreeVars[expr] : Lesser(i, NEAR) \in Mask[expr]
  BY MaskHas
<1>2. Loose[expr] = Greatest({0} \cup {i + 1 : i \in FreeVars[expr]})
  BY LooseGreatest
<1>3. Shallow[expr] => Mask[expr] = FreeVars[expr]
  BY MaskExact
<1>4. ASSUME NEW c \in 0 .. 3
      PROVE  /\ HasLooseBvar[expr][c] <=> c \in FreeVars[expr]
             /\ LowerPanics(expr, 0, c) => HasLooseBvarBelow[expr][c]
  <2>1. c \in Nat /\ 0 \in Nat /\ 0 + c = c
    OBVIOUS
  <2>2. HasLooseBvar[expr][c] <=> c \in FreeVars[expr]
    BY <2>1, HasLooseBvarExact
  <2>3. LowerPanics(expr, 0, c) <=> Panics(c)[expr][0]
    BY <2>1, LowerPanicsIs
  <2>4. Panics(c)[expr][0] => HasLooseBvarBelow[expr][0 + c]
    BY <2>1, BelowGuards
  <2> QED  BY <2>1, <2>2, <2>3, <2>4
<1> QED  BY <1>1, <1>2, <1>3, <1>4 DEF SummaryRight

LEMMA LiftHolds ==
  ASSUME NEW c \in Nat, NEW n \in Nat, NEW e \in Expressions
  PROVE  Lift(e, c, n) \in Expressions /\ Named(Lift(e, c, n), Names) = Named(e, Without(c, n))
<1>1. Lift(e, c, n) = Lifts(n)[e][c] /\ Lifts(n)[e][c] \in Expressions
  BY LiftIs, LiftExpr
<1>2. AlikeLifted(e, c, n, Names, 0, Without(c, n), 0)
  <2>1. ASSUME NEW j \in FreeVars[e] PROVE Agree(Names, 0, LiftedIdx(j, c, n), Without(c, n), 0, j)
    <3>1. j \in Nat
      BY FreeVarsIs
    <3>2. LiftedIdx(j, c, n) \in Nat /\ LiftedIdx(j, c, n) = IF j < c THEN j ELSE j + n
      BY <3>1 DEF LiftedIdx
    <3>3. /\ ~(LiftedIdx(j, c, n) < 0) /\ LiftedIdx(j, c, n) - 0 = LiftedIdx(j, c, n)
          /\ ~(j < 0) /\ j - 0 = j
      BY <3>1, <3>2
    <3>4. Without(c, n)[j] = Name(LiftedIdx(j, c, n)) /\ Names[LiftedIdx(j, c, n)] = Name(LiftedIdx(j, c, n))
      BY <3>1, <3>2, NamesAre, WithoutIs
    <3> QED  BY <3>3, <3>4 DEF Agree
  <2> QED  BY <2>1 DEF AlikeLifted
<1>3. Names \in [Nat -> Trees] /\ Without(c, n) \in [Nat -> Trees]
  BY NamesAre, WithoutIs
<1>4. Nameds(Names)[Lifts(n)[e][c]][0] = Nameds(Without(c, n))[e][0]
  BY <1>2, <1>3, LiftMeans
<1> QED  BY <1>1, <1>4, NamedUnderIs DEF Named

LEMMA LowerHolds ==
  ASSUME NEW c \in Nat, NEW n \in Nat, NEW e \in Expressions, ~LowerPanics(e, c, n)
  PROVE  Lower(e, c, n) \in Expressions /\ Named(Lower(e, c, n), Without(c, n)) = Named(e, Names)
<1>1. Lower(e, c, n) = Lowers(n)[e][c] /\ Lowers(n)[e][c] \in Expressions
  BY LowerIs, LowerExpr
<1>2. ~Panics(n)[e][c]
  BY LowerPanicsIs
<1>0. Names \in [Nat -> Trees] /\ Without(c, n) \in [Nat -> Trees]
  BY NamesAre, WithoutIs
<1>3. CASE n = 0 \/ Loose[e] <= c
  <2>1. Lower(e, c, n) = e
    BY <1>1, <1>3, LowerSame
  <2>2. Alike(e, Without(c, n), 0, Names, 0)
    <3>1. ASSUME NEW j \in FreeVars[e] PROVE Agree(Without(c, n), 0, j, Names, 0, j)
      <4>1. j \in Nat /\ j < Loose[e] /\ Loose[e] \in Nat
        BY FreeVarsIs, LooseExact, LooseIs
      <4>2. (IF j < c THEN j ELSE j + n) = j
        BY <1>3, <4>1
      <4>3. ~(j < 0) /\ j - 0 = j
        BY <4>1
      <4>4. Without(c, n)[j] = Name(j)
        <5>1. Without(c, n)[j] = Name(IF j < c THEN j ELSE j + n)
          BY <4>1, WithoutIs
        <5> QED  BY ONLY <4>2, <5>1
      <4>5. Names[j] = Name(j)
        BY <4>1, NamesAre
      <4> QED  BY <4>3, <4>4, <4>5 DEF Agree
    <3> QED  BY <3>1 DEF Alike
  <2>3. Nameds(Without(c, n))[e][0] = Nameds(Names)[e][0]
    BY <1>0, <2>2, MeaningSame
  <2> QED  BY <1>1, <2>1, <2>3, NamedUnderIs DEF Named
<1>4. CASE ~(n = 0 \/ Loose[e] <= c)
  <2>1. \A j \in FreeVars[e] : ~(j < c) => ~(j < c + n)
    BY <1>2, <1>4, PanicFree
  <2>2. AlikeLowered(e, c, n, Without(c, n), 0, Names, 0)
    <3>1. ASSUME NEW j \in FreeVars[e] PROVE Agree(Without(c, n), 0, LoweredIdx(j, c, n), Names, 0, j)
      <4>1. j \in Nat /\ (~(j < c) => ~(j < c + n))
        BY <2>1, FreeVarsIs
      <4> DEFINE i == LoweredIdx(j, c, n)
      <4>2. i \in Nat /\ (IF i < c THEN i ELSE i + n) = j
        BY <4>1 DEF LoweredIdx
      <4>3. ~(i < 0) /\ i - 0 = i /\ ~(j < 0) /\ j - 0 = j
        BY <4>1, <4>2
      <4> HIDE DEF i
      <4>4. Without(c, n)[i] = Name(j) /\ Names[j] = Name(j)
        BY <4>1, <4>2, NamesAre, WithoutIs
      <4> QED  BY <4>3, <4>4 DEF Agree, i
    <3> QED  BY <3>1 DEF AlikeLowered
  <2>3. Nameds(Without(c, n))[Lowers(n)[e][c]][0] = Nameds(Names)[e][0]
    BY <1>0, <1>2, <2>2, LowerMeans
  <2> QED  BY <1>1, <2>3, NamedUnderIs DEF Named
<1> QED  BY <1>3, <1>4

LEMMA InstHolds ==
  ASSUME NEW e \in Expressions, NEW substs \in Seq(Expressions), Loose[e] <= Len(substs),
         InstOpen(e, substs) \in Expressions
  PROVE  Named(InstOpen(e, substs), Names) = Named(e, Given(substs))
<1> DEFINE open == \E k \in DOMAIN substs : Loose[substs[k]] # 0
           p    == <<substs, open>>
<1>1. OpenRight(p) /\ p[1] = substs
  BY DEF OpenRight, IsSubst
<1>2. InstOpen(e, substs) = Insts(p)[e][0]
  <2>1. InstAux(e, substs, 0, open) = Insts(p)[e][0]
    <3> HIDE DEF open
    <3> QED  BY InstAuxIs
  <2> QED  BY <2>1 DEF InstOpen
<1> HIDE DEF p
<1>3. Len(substs) \in Nat /\ Loose[e] <= Len(substs) + 0
  OBVIOUS
<1>4. Nameds(Names)[Insts(p)[e][0]][0] = Nameds(Given(p[1]))[e][0]
  BY <1>1, <1>2, <1>3, InstMeans
<1> QED  BY <1>1, <1>2, <1>4, NamedUnderIs DEF Named

\* A variable that an expression does not have may be anything.
LEMMA OtherSame ==
  ASSUME NEW e \in Expressions, NEW j \in Nat, j \notin FreeVars[e]
  PROVE  Named(e, Other(j)) = Named(e, Names)
<1>1. Alike(e, Other(j), 0, Names, 0)
  <2>1. ASSUME NEW i \in FreeVars[e] PROVE Agree(Other(j), 0, i, Names, 0, i)
    <3>1. i \in Nat /\ i # j
      BY FreeVarsIs
    <3>2. ~(i < 0) /\ i - 0 = i
      BY <3>1
    <3> QED  BY <3>1, <3>2, OtherIs DEF Agree
  <2> QED  BY <2>1 DEF Alike
<1>2. Nameds(Other(j))[e][0] = Nameds(Names)[e][0]
  <2>1. Other(j) \in [Nat -> Trees] /\ Names \in [Nat -> Trees]
    BY NamesAre, OtherIs
  <2> QED  BY <1>1, <2>1, MeaningSame
<1> QED  BY <1>2, NamedUnderIs DEF Named

LEMMA AbsentHolds ==
  ASSUME NEW ty \in Expressions, NEW val \in Expressions, NEW i \in AbsentArgs(ty, val)
  PROVE  LET arity == Lesser(Arity[val], MAX_TRACKED)
             body  == Body[val][arity]
             rest  == Body[ty][i + 1]
         IN  /\ Named(body, Other(arity - 1 - i)) = Named(body, Names)
             /\ Named(rest, Other(0)) = Named(rest, Names)
<1> DEFINE arity == Lesser(Arity[val], MAX_TRACKED)
           body  == Body[val][arity]
           rest  == Body[ty][i + 1]
           pis   == Lesser(arity, Domains[ty])
<1>1. arity \in Nat /\ arity <= NEAR + 1
  <2>1. Arity[val] \in Nat /\ MAX_TRACKED = NEAR + 1
    BY ArityIs DEF MAX_TRACKED
  <2> QED  BY <2>1, NearNat DEF Lesser
<1>2. /\ i \in 0 .. pis - 1
      /\ arity - 1 - i \notin Mask[body] /\ 0 \notin Mask[rest]
  BY DEF AbsentArgs, UnusedInValue, IgnoresBinder
<1>3. i \in Nat /\ i < arity
  <2>1. Domains[ty] \in Nat
    BY DomainsIs
  <2>2. pis \in Nat /\ pis <= arity
    BY <1>1, <2>1 DEF Lesser
  <2> HIDE DEF pis, arity
  <2> QED  BY <1>1, <1>2, <2>2
<1> HIDE DEF arity
<1>4. body \in Expressions /\ rest \in Expressions
  BY <1>1, <1>3, BodyExpr
<1> HIDE DEF body, rest
<1>5. arity - 1 - i \in Nat /\ arity - 1 - i <= NEAR
  BY <1>1, <1>3, NearNat
<1>6. arity - 1 - i \notin FreeVars[body]
  <2>1. Lesser(arity - 1 - i, NEAR) = arity - 1 - i
    BY <1>5, NearNat DEF Lesser
  <2> QED  BY <1>2, <1>4, <2>1, MaskHas
<1>7. 0 \notin FreeVars[rest]
  <2>1. Lesser(0, NEAR) = 0
    BY NearNat DEF Lesser
  <2> QED  BY <1>2, <1>4, <2>1, MaskHas
<1>8. Named(body, Other(arity - 1 - i)) = Named(body, Names)
  BY <1>4, <1>5, <1>6, OtherSame
<1>9. Named(rest, Other(0)) = Named(rest, Names)
  BY <1>4, <1>7, OtherSame
<1> QED  BY <1>8, <1>9 DEF arity, body, rest

LEMMA ExprsInvInit == ExprsInit => ExprsInv
<1> SUFFICES ASSUME ExprsInit PROVE ExprsInv
  OBVIOUS
<1>1. expr \in Expressions /\ was \in Expressions /\ steps \in 0 .. MaxSteps
  BY ExprsAssumption DEF ExprsInit
<1>2. did[1] = "nothing"
  BY DEF ExprsInit
<1> QED  BY <1>1, <1>2 DEF ExprsInv, SubstMeans, AbsentUnused

LEMMA LiftKeeps ==
  ASSUME expr \in Expressions, NEW s \in Shifts, LiftBy(s[1], s[2])
  PROVE  expr' \in Expressions /\ was' \in Expressions /\ SubstMeans' /\ AbsentUnused'
<1>1. s[1] \in Nat /\ s[2] \in Nat
  BY ExprsAssumption
<1>2. expr' = Lift(expr, s[1], s[2]) /\ was' = expr /\ did' = <<"lift", s[1], s[2]>>
  BY DEF LiftBy, Becomes
<1>3. did'[1] = "lift" /\ did'[2] = s[1] /\ did'[3] = s[2]
  BY <1>2
<1>4. expr' \in Expressions /\ Named(expr', Names) = Named(was', Without(s[1], s[2]))
  BY <1>1, <1>2, LiftHolds
<1> QED  BY <1>2, <1>3, <1>4 DEF SubstMeans, AbsentUnused

LEMMA LowerKeeps ==
  ASSUME expr \in Expressions, NEW s \in Shifts, LowerBy(s[1], s[2])
  PROVE  expr' \in Expressions /\ was' \in Expressions /\ SubstMeans' /\ AbsentUnused'
<1>1. s[1] \in Nat /\ s[2] \in Nat
  BY ExprsAssumption
<1>2. /\ ~LowerPanics(expr, s[1], s[2])
      /\ expr' = Lower(expr, s[1], s[2]) /\ was' = expr /\ did' = <<"lower", s[1], s[2]>>
  BY DEF LowerBy, Becomes
<1>3. did'[1] = "lower" /\ did'[2] = s[1] /\ did'[3] = s[2]
  BY <1>2
<1>4. expr' \in Expressions /\ Named(expr', Without(s[1], s[2])) = Named(was', Names)
  BY <1>1, <1>2, LowerHolds
<1> QED  BY <1>2, <1>3, <1>4 DEF SubstMeans, AbsentUnused

LEMMA InstKeeps ==
  ASSUME expr \in Expressions, NEW substs \in Substs, Inst(substs)
  PROVE  expr' \in Expressions /\ was' \in Expressions /\ SubstMeans' /\ AbsentUnused'
<1>1. substs \in Seq(Expressions)
  BY ExprsAssumption
<1>2. /\ Loose[expr] <= Len(substs) /\ InstOpen(expr, substs) \in Expressions
      /\ expr' = InstOpen(expr, substs) /\ was' = expr /\ did' = <<"inst", substs>>
  BY DEF Inst, Becomes
<1>3. did'[1] = "inst" /\ did'[2] = substs
  BY <1>2
<1>4. Named(expr', Names) = Named(was', Given(substs))
  BY <1>1, <1>2, InstHolds
<1> QED  BY <1>2, <1>3, <1>4 DEF SubstMeans, AbsentUnused

LEMMA SignKeeps ==
  ASSUME expr \in Expressions, NEW ty \in Types, Sign(ty)
  PROVE  expr' \in Expressions /\ was' \in Expressions /\ SubstMeans' /\ AbsentUnused'
<1>1. ty \in Expressions
  BY ExprsAssumption
<1>2. expr' = expr /\ was' = expr /\ did' = <<"sign", ty, AbsentArgs(ty, expr)>>
  BY DEF Sign, Becomes
<1>3. did'[1] = "sign" /\ did'[2] = ty /\ did'[3] = AbsentArgs(ty, expr')
  BY <1>2
<1>4. expr' \in Expressions
  BY <1>2
<1>5. AbsentUnused'
  BY <1>1, <1>3, <1>4, AbsentHolds DEF AbsentUnused
<1> QED  BY <1>2, <1>3, <1>4, <1>5 DEF SubstMeans

LEMMA ExprsInvNext ==
  ASSUME ExprsInv, [ExprsNext]_exprVars
  PROVE  ExprsInv'
<1>1. CASE UNCHANGED exprVars
  <2>1. expr' = expr /\ was' = was /\ did' = did /\ steps' = steps
    BY <1>1 DEF exprVars
  <2> QED  BY <2>1 DEF ExprsInv, SubstMeans, AbsentUnused
<1>2. CASE ExprsNext
  <2>1. expr \in Expressions
    BY DEF ExprsInv
  <2>2. steps' \in 0 .. MaxSteps
    BY <1>2, ExprsAssumption DEF ExprsNext, ExprsInv
  <2>3. CASE \E s \in Shifts : LiftBy(s[1], s[2])
    BY <2>1, <2>2, <2>3, LiftKeeps DEF ExprsInv
  <2>4. CASE \E s \in Shifts : LowerBy(s[1], s[2])
    BY <2>1, <2>2, <2>4, LowerKeeps DEF ExprsInv
  <2>5. CASE \E substs \in Substs : Inst(substs)
    BY <2>1, <2>2, <2>5, InstKeeps DEF ExprsInv
  <2>6. CASE \E ty \in Types : Sign(ty)
    BY <2>1, <2>2, <2>6, SignKeeps DEF ExprsInv
  <2> QED  BY <1>2, <2>3, <2>4, <2>5, <2>6 DEF ExprsNext
<1> QED  BY <1>1, <1>2

(* What is worked on stays an expression, and every step did to its meaning
   what the operation is for. *)
THEOREM ExprsInvariant == ExprsSpec => []ExprsInv
<1>1. ExprsInv /\ [ExprsNext]_exprVars => ExprsInv'
  BY ExprsInvNext
<1> QED  BY ExprsInvInit, <1>1, PTL DEF ExprsSpec

(* The summary that a node carries is right for every expression, however many
   variables a mask has bits for: no free variable is missing from it, loose is
   exact, and the mask is where nothing reaches past its last bit; has_loose_bvar
   tells exactly, and has_loose_bvar_below lets nothing through that lower
   panics at. *)
THEOREM SummaryRightHolds == ExprsSpec => []SummaryRight
<1>1. ExprsInv => SummaryRight
  BY SummaryHolds DEF ExprsInv
<1> QED  BY ExprsInvariant, <1>1, PTL

(* Shifting by any amount at any cutoff leaves every variable its binder, and
   instantiation by any expressions, with free variables or without, puts each
   for its variable and captures none of theirs. *)
THEOREM SubstMeansHolds == ExprsSpec => []SubstMeans
<1>1. ExprsInv => SubstMeans
  BY DEF ExprsInv
<1> QED  BY ExprsInvariant, <1>1, PTL

(* absent_args names only arguments that neither the value nor the rest of the
   type changes with, of any value and type. *)
THEOREM AbsentUnusedHolds == ExprsSpec => []AbsentUnused
<1>1. ExprsInv => AbsentUnused
  BY DEF ExprsInv
<1> QED  BY ExprsInvariant, <1>1, PTL

-----------------------------------------------------------------------------
(* Counting the bits of a mask.                                            *)

\* A finite set of bits.
BitSet(m) == IsFiniteSet(m) /\ m \subseteq Int

\* A part of a mask has no more bits than the mask.
LEMMA PartCounts ==
  ASSUME NEW m, BitSet(m), NEW t \in SUBSET m
  PROVE  BitSet(t) /\ Cardinality(t) \in Nat /\ Cardinality(t) <= Cardinality(m)
<1>1. IsFiniteSet(t) /\ Cardinality(t) <= Cardinality(m)
  BY FS_Subset DEF BitSet
<1> QED  BY <1>1, FS_CardinalityType DEF BitSet

LEMMA LowPart ==
  ASSUME NEW m, BitSet(m), NEW i \in Int
  PROVE  /\ LowBits(m, i) \in SUBSET m
         /\ BitSet(LowBits(m, i))
         /\ Cardinality(LowBits(m, i)) \in Nat
<1>1. LowBits(m, i) \in SUBSET m
  BY DEF LowBits
<1> QED  BY <1>1, PartCounts

\* A bit is counted below any that lies higher.
LEMMA BelowCounts ==
  ASSUME NEW m, BitSet(m), NEW i \in m, NEW j \in Int, i < j
  PROVE  Cardinality(LowBits(m, i)) < Cardinality(LowBits(m, j))
<1>1. i \in Int
  BY DEF BitSet
<1>2. BitSet(LowBits(m, i)) /\ BitSet(LowBits(m, j))
  BY <1>1, LowPart
<1>3. Cardinality(LowBits(m, i) \cup {i}) = Cardinality(LowBits(m, i)) + 1
  <2>1. i \notin LowBits(m, i)
    BY <1>1 DEF LowBits
  <2> QED  BY <1>2, <2>1, FS_AddElement DEF BitSet
<1>4. LowBits(m, i) \cup {i} \in SUBSET LowBits(m, j)
  <2> SUFFICES ASSUME NEW x \in LowBits(m, i) \cup {i} PROVE x \in m /\ x < j
    BY DEF LowBits
  <2>1. CASE x = i
    BY <2>1
  <2>2. CASE x \in m /\ x < i
    <3>1. x \in Int
      BY <2>2 DEF BitSet
    <3> QED  BY <1>1, <2>2, <3>1
  <2> QED  BY <2>1, <2>2 DEF LowBits
<1>5. Cardinality(LowBits(m, i) \cup {i}) <= Cardinality(LowBits(m, j))
  BY <1>2, <1>4, PartCounts
<1>6. Cardinality(LowBits(m, i)) \in Nat /\ Cardinality(LowBits(m, j)) \in Nat
  BY <1>1, LowPart
<1> QED  BY <1>3, <1>5, <1>6

\* A bit is counted in the whole.
LEMMA BitCounts ==
  ASSUME NEW m, BitSet(m), NEW i \in m
  PROVE  Cardinality(LowBits(m, i)) < Cardinality(m)
<1>1. i \in Int /\ i + 1 \in Int /\ i < i + 1
  BY DEF BitSet
<1>2. Cardinality(LowBits(m, i)) < Cardinality(LowBits(m, i + 1))
  BY <1>1, BelowCounts
<1>3. LowBits(m, i + 1) \in SUBSET m /\ Cardinality(LowBits(m, i + 1)) <= Cardinality(m)
  BY <1>1, LowPart, PartCounts
<1>4. /\ Cardinality(LowBits(m, i)) \in Nat /\ Cardinality(LowBits(m, i + 1)) \in Nat
      /\ Cardinality(m) \in Nat
  BY <1>1, LowPart, PartCounts
<1> QED  BY <1>2, <1>3, <1>4

\* Every place up to the number of bits is that of a bit, and of one bit only.
LEMMA PlaceIsBit ==
  ASSUME NEW m, BitSet(m)
  PROVE  /\ \A k \in 0 .. Cardinality(m) - 1 : \E i \in m : Cardinality(LowBits(m, i)) = k
         /\ \A i, j \in m :
              Cardinality(LowBits(m, i)) = Cardinality(LowBits(m, j)) => i = j
<1> DEFINE f == [i \in m |-> Cardinality(LowBits(m, i))]
           t == 0 .. Cardinality(m) - 1
<1>1. m \subseteq Int /\ Cardinality(m) \in Nat
  BY PartCounts DEF BitSet
<1>2. \A i \in m : f[i] \in t
  <2> SUFFICES ASSUME NEW i \in m PROVE f[i] \in t
    OBVIOUS
  <2>1. f[i] \in Nat /\ f[i] < Cardinality(m)
    BY <1>1, LowPart, BitCounts
  <2> QED  BY <1>1, <2>1
<1>3. \A i, j \in m : f[i] = f[j] => i = j
  <2> SUFFICES ASSUME NEW i \in m, NEW j \in m, i # j PROVE f[i] # f[j]
    OBVIOUS
  <2>1. i \in Int /\ j \in Int /\ f[i] \in Nat /\ f[j] \in Nat
    BY <1>1, <1>2
  <2>2. CASE i < j
    BY <2>1, <2>2, BelowCounts
  <2>3. CASE j < i
    BY <2>1, <2>3, BelowCounts
  <2> QED  BY <2>1, <2>2, <2>3
<1>4. f \in Injection(m, t)
  <2>1. f \in [m -> t]
    BY <1>2
  <2> QED  BY <1>3, <2>1 DEF Injection, IsInjective
<1>5. IsFiniteSet(t) /\ Cardinality(t) = Cardinality(m)
  BY <1>1, FS_Interval
<1>6. f \in Surjection(m, t)
  BY <1>4, <1>5, FS_Injection
<1>7. \A k \in t : \E i \in m : f[i] = k
  BY <1>6 DEF Surjection
<1> QED  BY <1>3, <1>7

\* Moving all bits leaves their number as it is.
LEMMA MovedCounts ==
  ASSUME NEW m, BitSet(m), NEW c \in Int
  PROVE  /\ BitSet({i + c : i \in m})
         /\ Cardinality({i + c : i \in m}) = Cardinality(m)
<1> DEFINE t == {i + c : i \in m}
           f == [i \in m |-> i + c]
<1>1. m \subseteq Int
  BY DEF BitSet
<1>2. f \in [m -> t] /\ \A x \in t : \E i \in m : f[i] = x
  OBVIOUS
<1>3. \A i, j \in m : f[i] = f[j] => i = j
  BY <1>1
<1>4. f \in Bijection(m, t)
  <2> HIDE DEF f, t
  <2> QED  BY <1>2, <1>3 DEF Bijection, Injection, Surjection, IsInjective
<1>5. ExistsBijection(m, t)
  BY <1>4 DEF ExistsBijection
<1> HIDE DEF t, f
<1>6. IsFiniteSet(t) /\ Cardinality(t) = Cardinality(m)
  BY <1>5, FS_Bijection DEF BitSet
<1>7. t \subseteq Int
  BY <1>1 DEF t
<1> QED  BY <1>6, <1>7 DEF t, BitSet

\* Bits below c and bits from c on.
LEMMA BothCount ==
  ASSUME NEW a, NEW b, BitSet(a), BitSet(b), NEW c \in Int,
         \A i \in a : i < c, \A i \in b : c <= i
  PROVE  /\ BitSet(a \cup b)
         /\ Cardinality(a \cup b) = Cardinality(a) + Cardinality(b)
         /\ \A j \in Int : j <= c => LowBits(a \cup b, j) = LowBits(a, j)
         /\ \A j \in Int : c <= j =>
              Cardinality(LowBits(a \cup b, j)) = Cardinality(a) + Cardinality(LowBits(b, j))
<1>1. \A s, t \in SUBSET Int :
        IsFiniteSet(s) /\ IsFiniteSet(t) /\ (\A i \in s : i < c) /\ (\A i \in t : c <= i) =>
          IsFiniteSet(s \cup t) /\ Cardinality(s \cup t) = Cardinality(s) + Cardinality(t)
  <2> SUFFICES ASSUME NEW s \in SUBSET Int, NEW t \in SUBSET Int, IsFiniteSet(s), IsFiniteSet(t),
                      \A i \in s : i < c, \A i \in t : c <= i
               PROVE  IsFiniteSet(s \cup t) /\ Cardinality(s \cup t) = Cardinality(s) + Cardinality(t)
    OBVIOUS
  <2>1. s \cap t = {}
    OBVIOUS
  <2>2. /\ IsFiniteSet(s \cup t)
        /\ Cardinality(s \cup t) = Cardinality(s) + Cardinality(t) - Cardinality(s \cap t)
    BY FS_Union
  <2>3. Cardinality(s \cap t) = 0 /\ Cardinality(s) \in Nat /\ Cardinality(t) \in Nat
    BY <2>1, FS_EmptySet, FS_CardinalityType
  <2> QED  BY <2>2, <2>3
<1>2. a \subseteq Int /\ b \subseteq Int
  BY DEF BitSet
<1>3. IsFiniteSet(a \cup b) /\ Cardinality(a \cup b) = Cardinality(a) + Cardinality(b)
  BY <1>1, <1>2 DEF BitSet
<1>4. ASSUME NEW j \in Int, j <= c PROVE LowBits(a \cup b, j) = LowBits(a, j)
  <2>1. ASSUME NEW i \in b PROVE ~(i < j)
    <3>1. i \in Int /\ c <= i
      BY <1>2
    <3> QED  BY <1>4, <3>1
  <2> QED  BY <2>1 DEF LowBits
<1>5. ASSUME NEW j \in Int, c <= j
      PROVE  Cardinality(LowBits(a \cup b, j)) = Cardinality(a) + Cardinality(LowBits(b, j))
  <2>1. LowBits(a \cup b, j) = a \cup LowBits(b, j)
    <3>1. ASSUME NEW i \in a PROVE i < j
      <4>1. i \in Int /\ i < c
        BY <1>2
      <4> QED  BY <1>5, <4>1
    <3> QED  BY <3>1 DEF LowBits
  <2>2. BitSet(LowBits(b, j)) /\ \A i \in LowBits(b, j) : c <= i
    BY LowPart DEF LowBits
  <2> QED  BY <1>1, <1>2, <2>1, <2>2 DEF BitSet
<1> QED  BY <1>2, <1>3, <1>4, <1>5 DEF BitSet

-----------------------------------------------------------------------------
(* The invariant.                                                          *)

Subs  == LevelSubs \cup {NoSub}
Nodes ==
  [tag : {"nil", "cons", "framed"}, mask : MaskSet, a : Nat, b : Nat, lsub : Subs,
   cut : 0 .. NEAR]

\* Whether a node gives a value to some index.
Holds(n) == n.tag = "cons" \/ (n.tag = "framed" /\ n.mask # {})

NilOK(n) == n.mask = {}

ConsOK(ns, n, e) ==
  /\ n.b \in 1 .. e - 1 /\ n.a # None
  /\ n.lsub = ns[n.b].lsub /\ n.mask = ConsMask(ns[n.b].mask)

\* The values of a frame from slot at on, num of them, are there.
ValuesAt(ss, at, num) ==
  /\ at \in Nat \ {0} /\ at + num <= Len(ss) + 1
  /\ \A k \in at .. at + num - 1 : ss[k] # None

FrameOK(ns, ss, n, e) ==
  /\ n.b \in 0 .. e - 1 /\ n.cut # 0
  /\ Near(n.mask) \subseteq 0 .. n.cut - 1
  /\ ValuesAt(ss, n.a, Cardinality(Near(n.mask)))
  /\ FAR \in n.mask <=> n.b # NO_ENV
  /\ n.b = NO_ENV => n.cut = NEAR
  /\ n.b # NO_ENV => n.lsub = ns[n.b].lsub /\ Holds(ns[n.b])

NodeOK(ns, ss, e) ==
  /\ ns[e].tag = "nil" => NilOK(ns[e])
  /\ ns[e].tag = "cons" => ConsOK(ns, ns[e], e)
  /\ ns[e].tag = "framed" => FrameOK(ns, ss, ns[e], e)

StoreOK(ns, ss) ==
  /\ ns \in Seq(Nodes) /\ ss \in Seq(Nat)
  /\ Len(ns) # 0 /\ ns[EMPTY_ENV] = Nil(NoSub)
  /\ \A e \in 1 .. Len(ns) : NodeOK(ns, ss, e)

-----------------------------------------------------------------------------
(* What an environment gives each index.                                   *)

\* Bit FAR, the last, stands for all that lies past the near variables.
LEMMA NearIs == NEAR \in Nat /\ NEAR # 0 /\ FAR = NEAR /\ FAR \in 0 .. FAR
  BY VarMasksAssumption DEF FAR

\* The near bits of a mask.
LEMMA MaskIs ==
  ASSUME NEW mask \in MaskSet
  PROVE  /\ BitSet(mask) /\ mask \subseteq 0 .. NEAR
         /\ BitSet(Near(mask)) /\ Near(mask) \in SUBSET mask /\ Near(mask) \subseteq 0 .. NEAR - 1
         /\ \A i \in Int : i <= NEAR => LowBits(mask, i) = LowBits(Near(mask), i)
<1>1. NEAR \in Nat /\ FAR = NEAR /\ mask \subseteq 0 .. NEAR
  BY NearIs DEF MaskSet
<1>2. IsFiniteSet(0 .. NEAR)
  BY <1>1, FS_Interval
<1>3. BitSet(mask)
  <2>1. mask \in SUBSET (0 .. NEAR)
    BY <1>1
  <2>2. IsFiniteSet(mask)
    BY <1>2, <2>1, FS_Subset
  <2> QED  BY <1>1, <2>2 DEF BitSet
<1>4. Near(mask) \in SUBSET mask /\ Near(mask) \subseteq 0 .. NEAR - 1
  BY <1>1 DEF Near
<1>5. BitSet(Near(mask))
  BY <1>3, <1>4, PartCounts
<1>6. \A i \in Int : i <= NEAR => LowBits(mask, i) = LowBits(Near(mask), i)
  BY <1>1 DEF LowBits, Near
<1> QED  BY <1>1, <1>3, <1>4, <1>5, <1>6

\* A node of the store refers to nodes before it.
LEMMA NodeIs ==
  ASSUME NEW ns, NEW ss, StoreOK(ns, ss), NEW e \in 1 .. Len(ns)
  PROVE  /\ ns[e] \in Nodes /\ e \in Nat \ {0} /\ Len(ns) \in Nat
         /\ ns[e].tag \in {"nil", "cons", "framed"} /\ ns[e].mask \in MaskSet
         /\ ns[e].a \in Nat /\ ns[e].b \in Nat /\ ns[e].lsub \in Subs /\ ns[e].cut \in 0 .. NEAR
         /\ ns[e].tag = "nil" => NilOK(ns[e])
         /\ ns[e].tag = "cons" => ConsOK(ns, ns[e], e)
         /\ ns[e].tag = "framed" => FrameOK(ns, ss, ns[e], e)
<1>1. ns \in Seq(Nodes) /\ NodeOK(ns, ss, e)
  BY DEF StoreOK
<1>2. ns[e] \in Nodes /\ Len(ns) \in Nat
  BY <1>1, ElementOfSeq, LenProperties
<1> QED  BY <1>1, <1>2 DEF NodeOK, Nodes

\* The slot of a bit of a frame is one of the frame's, and a bit's own.
LEMMA SlotIs ==
  ASSUME NEW ss \in Seq(Nat), NEW n \in Nodes, ValuesAt(ss, n.a, Cardinality(Near(n.mask))),
         NEW i \in Near(n.mask)
  PROVE  /\ SlotOf(n, i) = n.a + Cardinality(LowBits(Near(n.mask), i))
         /\ SlotOf(n, i) \in n.a .. n.a + Cardinality(Near(n.mask)) - 1
         /\ SlotOf(n, i) \in 1 .. Len(ss) /\ ss[SlotOf(n, i)] \in Nat \ {None}
<1> DEFINE num == Cardinality(Near(n.mask))
           below == Cardinality(LowBits(Near(n.mask), i))
<1>1. n.mask \in MaskSet /\ n.a \in Nat
  BY DEF Nodes
<1>2. BitSet(Near(n.mask)) /\ i \in 0 .. NEAR - 1 /\ NEAR \in Nat
  BY <1>1, MaskIs, NearIs
<1>3. LowBits(n.mask, i) = LowBits(Near(n.mask), i)
  <2>1. i \in Int /\ i <= NEAR
    BY <1>2
  <2> QED  BY <1>1, <2>1, MaskIs
<1>4. below \in Nat /\ num \in Nat /\ below < num
  <2>1. i \in Int
    BY <1>2
  <2> QED  BY <1>2, <2>1, LowPart, PartCounts, BitCounts
<1>5. SlotOf(n, i) = n.a + below
  BY <1>3 DEF SlotOf
<1>6. Len(ss) \in Nat
  BY LenProperties
<1>7. /\ n.a # 0 /\ n.a + num <= Len(ss) + 1
      /\ \A k \in n.a .. n.a + num - 1 : ss[k] # None
  BY DEF ValuesAt
<1> HIDE DEF below, num
<1>8. n.a + below \in n.a .. n.a + num - 1 /\ n.a + below \in 1 .. Len(ss)
  <2>1. n.a \in Nat /\ n.a # 0 /\ n.a + num <= Len(ss) + 1
    BY <1>1, <1>7
  <2> QED  BY ONLY <1>4, <1>6, <2>1
<1>9. ss[n.a + below] \in Nat \ {None}
  BY <1>7, <1>8, ElementOfSeq
<1> QED  BY <1>5, <1>8, <1>9 DEF below, num

\* Arithmetic of indices below and past a cut.
LEMMA Difference == \A i, c \in Nat : ~(i < c) => i - c \in Nat
  OBVIOUS

LEMMA Beyond == \A i, c \in Nat : \E j \in Nat : j = i + c /\ j >= c /\ ~(j < c) /\ j - c = i
<1> SUFFICES ASSUME NEW i \in Nat, NEW c \in Nat
             PROVE  \E j \in Nat : j = i + c /\ j >= c /\ ~(j < c) /\ j - c = i
  OBVIOUS
<1>1. i + c \in Nat
  OBVIOUS
<1>2. i + c >= c /\ ~(i + c < c)
  OBVIOUS
<1>3. (i + c) - c = i
  OBVIOUS
<1> QED  BY <1>1, <1>2, <1>3

\* What a node gives is a value or None, if those before it give such.
LEMMA LookTyped ==
  ASSUME NEW ns, NEW ss, StoreOK(ns, ss), NEW e \in 1 .. Len(ns), NEW i \in Nat,
         NEW g \in [1 .. Len(ns) -> [Nat -> Nat]]
  PROVE  LookAt(ns, ss, g, e, i) \in Nat
<1> DEFINE n == ns[e]
<1>1. /\ n \in Nodes /\ e \in Nat /\ Len(ns) \in Nat /\ n.a \in Nat /\ n.b \in Nat /\ n.cut \in Nat
      /\ n.tag \in {"nil", "cons", "framed"}
  <2>1. /\ n \in Nodes /\ e \in Nat /\ Len(ns) \in Nat /\ n.a \in Nat /\ n.b \in Nat
        /\ n.tag \in {"nil", "cons", "framed"}
    BY NodeIs
  <2>2. n.cut \in 0 .. NEAR
    BY NodeIs
  <2>3. NEAR \in Nat
    BY NearIs
  <2>4. n.cut \in Nat
    BY ONLY <2>2, <2>3
  <2> QED  BY ONLY <2>1, <2>4
<1>2. CASE n.tag = "nil"
  BY <1>2 DEF LookAt, None
<1>3. CASE n.tag = "cons"
  <2>1. n.b \in 1 .. Len(ns)
    <3>1. ConsOK(ns, n, e)
      BY <1>3, NodeIs
    <3>2. n.b \in 1 .. e - 1
      BY <3>1 DEF ConsOK
    <3>3. e \in 1 .. Len(ns)
      OBVIOUS
    <3> HIDE DEF n
    <3> QED  BY ONLY <1>1, <3>2, <3>3
  <2>2. i # 0 => g[n.b][i - 1] \in Nat
    <3>1. g[n.b] \in [Nat -> Nat]
      BY <2>1
    <3>2. i # 0 => i - 1 \in Nat
      OBVIOUS
    <3> HIDE DEF n
    <3> QED  BY ONLY <3>1, <3>2
  <2>3. LookAt(ns, ss, g, e, i) = IF i = 0 THEN n.a ELSE g[n.b][i - 1]
    BY <1>3 DEF LookAt
  <2>4. n.a \in Nat
    BY <1>1
  <2> HIDE DEF n
  <2> QED  BY ONLY <2>2, <2>3, <2>4
<1>4. CASE n.tag = "framed"
  <2>1. FrameOK(ns, ss, n, e)
    BY <1>4, NodeIs
  <2>2. ASSUME i < n.cut, i \in n.mask PROVE ss[SlotOf(n, i)] \in Nat
    <3>1. i \in Near(n.mask)
      <4>1. n.cut \in 0 .. NEAR /\ NEAR \in Nat
        BY NodeIs, NearIs
      <4>2. i # NEAR
        BY <2>2, <4>1
      <4> QED  BY <2>2, <4>2 DEF Near, FAR
    <3>2. ss \in Seq(Nat)
      BY DEF StoreOK
    <3> QED  BY <1>1, <2>1, <3>1, <3>2, SlotIs DEF FrameOK
  <2>3. ASSUME ~(i < n.cut), n.b # NO_ENV PROVE g[n.b][i - n.cut] \in Nat
    <3>1. n.b \in 0 .. e - 1 /\ n.b # 0
      BY <2>1, <2>3 DEF FrameOK, NO_ENV
    <3>2. e \in 1 .. Len(ns) /\ ~(i < n.cut) /\ i \in Nat
      BY <2>3
    <3>3. e \in Nat /\ Len(ns) \in Nat /\ n.cut \in Nat /\ n.b \in Nat
      BY <1>1
    <3>4. n.b \in 1 .. Len(ns)
      <4> HIDE DEF n
      <4> QED  BY ONLY <3>1, <3>2, <3>3
    <3>5. i - n.cut \in Nat
      BY <3>2, <3>3, Difference
    <3> QED  BY <3>4, <3>5
  <2>4. None \in Nat
    BY DEF None
  <2> QED  BY <1>4, <2>2, <2>3, <2>4 DEF LookAt
<1> QED  BY <1>1, <1>2, <1>3, <1>4

\* A node is looked up with those before it only.
LEMMA LookBelow ==
  ASSUME NEW ns, NEW ss, StoreOK(ns, ss), NEW e \in 1 .. Len(ns), NEW i \in Nat,
         NEW g, NEW h, \A k \in 1 .. Len(ns) : k < e => g[k] = h[k]
  PROVE  LookAt(ns, ss, g, e, i) = LookAt(ns, ss, h, e, i)
<1> DEFINE n == ns[e]
<1>1. /\ e \in Nat /\ Len(ns) \in Nat /\ n.b \in Nat
      /\ n.tag \in {"nil", "cons", "framed"}
  BY NodeIs
<1>2. CASE n.tag = "nil"
  BY <1>2 DEF LookAt
<1>3. CASE n.tag = "cons"
  <2>1. n.b \in 1 .. Len(ns) /\ n.b < e
    BY <1>1, <1>3, NodeIs DEF ConsOK
  <2>2. g[n.b] = h[n.b]
    BY <2>1
  <2> QED  BY <1>3, <2>2 DEF LookAt
<1>4. CASE n.tag = "framed"
  <2>1. n.b # NO_ENV => n.b \in 1 .. Len(ns) /\ n.b < e
    BY <1>1, <1>4, NodeIs DEF FrameOK, NO_ENV
  <2>2. n.b # NO_ENV => g[n.b] = h[n.b]
    BY <2>1
  <2> QED  BY <1>4, <2>2 DEF LookAt
<1> QED  BY <1>1, <1>2, <1>3, <1>4

\* Lookups exists and satisfies its definition: nodes give values through
\* nodes before them.
LEMMA LookupsIs ==
  ASSUME NEW ns, NEW ss, StoreOK(ns, ss)
  PROVE  /\ Lookups(ns, ss) \in [1 .. Len(ns) -> [Nat -> Nat]]
         /\ \A e \in 1 .. Len(ns), i \in Nat :
              Lookups(ns, ss)[e][i] = LookAt(ns, ss, Lookups(ns, ss), e, i)
<1> DEFINE S == 1 .. Len(ns)
           V == [Nat -> Nat]
           H == [e \in S |-> e]
           step == [y \in S \X [S -> V] |-> [i \in Nat |-> LookAt(ns, ss, y[2], y[1], i)]]
<1>1. step \in [S \X [S -> V] -> V]
  BY LookTyped
<1>2. \A e \in S : \A g \in [S -> V] : step[<<e, g>>] = [i \in Nat |-> LookAt(ns, ss, g, e, i)]
  OBVIOUS
<1> HIDE DEF step
<1>3. \A e \in S : \A g, h \in [S -> V] :
        (\A k \in S : H[k] < H[e] => g[k] = h[k]) => step[<<e, g>>] = step[<<e, h>>]
  <2> SUFFICES ASSUME NEW e \in S, NEW g \in [S -> V], NEW h \in [S -> V],
                      \A k \in S : k < e => g[k] = h[k]
               PROVE  step[<<e, g>>] = step[<<e, h>>]
    OBVIOUS
  <2>1. \A i \in Nat : LookAt(ns, ss, g, e, i) = LookAt(ns, ss, h, e, i)
    BY LookBelow
  <2>2. [i \in Nat |-> LookAt(ns, ss, g, e, i)] = [i \in Nat |-> LookAt(ns, ss, h, e, i)]
    BY <2>1
  <2>3. step[<<e, g>>] = [i \in Nat |-> LookAt(ns, ss, g, e, i)]
    BY <1>2
  <2>4. step[<<e, h>>] = [i \in Nat |-> LookAt(ns, ss, h, e, i)]
    BY <1>2
  <2> QED  BY ONLY <2>2, <2>3, <2>4
<1>4. V # {}
  <2>1. [i \in Nat |-> i] \in V
    OBVIOUS
  <2> QED  BY <2>1
<1>5. \A e \in S : H[e] \in Nat
  BY NodeIs
<1>6. IsRecursion(S, V, H, step)
  BY <1>1, <1>3, <1>5 DEF IsRecursion
<1>7. PICK f : Solves(f, S, V, step)
  <2> HIDE DEF S, V, H
  <2> QED  BY ONLY <1>4, <1>6, HeightRecursion
<1>8. f = [e \in S |-> [i \in Nat |-> LookAt(ns, ss, f, e, i)]]
  BY <1>2, <1>7 DEF Solves
<1> DEFINE chosen == CHOOSE g : g = [e \in S |-> [i \in Nat |-> LookAt(ns, ss, g, e, i)]]
<1>9. chosen = [e \in S |-> [i \in Nat |-> LookAt(ns, ss, chosen, e, i)]]
  BY <1>8
<1>10. Lookups(ns, ss) = chosen
  BY DEF Lookups, LookAt
<1> HIDE DEF chosen
<1>11. \A e \in S : chosen[e] = [i \in Nat |-> LookAt(ns, ss, chosen, e, i)]
  BY <1>9
<1> DEFINE T == {e \in S : chosen[e] \in V}
<1>12. ASSUME NEW e \in S, \A k \in S : H[k] < H[e] => k \in T PROVE e \in T
  <2> DEFINE h == [k \in S |-> IF chosen[k] \in V THEN chosen[k] ELSE [i \in Nat |-> i]]
  <2>1. h \in [S -> V]
    OBVIOUS
  <2>2. \A k \in S : k < e => chosen[k] = h[k]
    BY <1>12
  <2> HIDE DEF h
  <2>3. \A i \in Nat : LookAt(ns, ss, chosen, e, i) = LookAt(ns, ss, h, e, i)
    BY <2>2, LookBelow
  <2>4. \A i \in Nat : LookAt(ns, ss, chosen, e, i) \in Nat
    BY <2>1, <2>3, LookTyped
  <2>5. chosen[e] \in V
    BY <1>11, <2>4
  <2> QED  BY <2>5
<1>13. S \subseteq T
  <2> HIDE DEF T, S, H
  <2> QED  BY <1>5, <1>12, HeightInduction
<1>14. chosen \in [S -> V]
  BY <1>9, <1>13
<1>15. \A e \in S, i \in Nat : chosen[e][i] = LookAt(ns, ss, chosen, e, i)
  BY <1>11
<1> QED  BY <1>10, <1>14, <1>15

\* What each kind of node gives.
LEMMA LookNil ==
  ASSUME NEW ns, NEW ss, StoreOK(ns, ss), NEW e \in 1 .. Len(ns), ns[e].tag = "nil", NEW i \in Nat
  PROVE  Lookups(ns, ss)[e][i] = None
<1>1. Lookups(ns, ss)[e][i] = LookAt(ns, ss, Lookups(ns, ss), e, i)
  BY LookupsIs
<1> QED  BY <1>1 DEF LookAt

LEMMA LookCons ==
  ASSUME NEW ns, NEW ss, StoreOK(ns, ss), NEW e \in 1 .. Len(ns), ns[e].tag = "cons", NEW i \in Nat
  PROVE  Lookups(ns, ss)[e][i] = IF i = 0 THEN ns[e].a ELSE Lookups(ns, ss)[ns[e].b][i - 1]
<1>1. Lookups(ns, ss)[e][i] = LookAt(ns, ss, Lookups(ns, ss), e, i)
  BY LookupsIs
<1> QED  BY <1>1 DEF LookAt

LEMMA LookFramed ==
  ASSUME NEW ns, NEW ss, StoreOK(ns, ss), NEW e \in 1 .. Len(ns), ns[e].tag = "framed", NEW i \in Nat
  PROVE  Lookups(ns, ss)[e][i] =
           IF i < ns[e].cut THEN IF i \in Near(ns[e].mask) THEN ss[SlotOf(ns[e], i)] ELSE None
           ELSE IF ns[e].b = NO_ENV THEN None ELSE Lookups(ns, ss)[ns[e].b][i - ns[e].cut]
<1>1. ns[e].cut \in 0 .. NEAR /\ NEAR \in Nat
  BY NodeIs, NearIs
<1>2. i < ns[e].cut => (i \in Near(ns[e].mask) <=> i \in ns[e].mask)
  BY <1>1 DEF Near, FAR
<1>3. Lookups(ns, ss)[e][i] = LookAt(ns, ss, Lookups(ns, ss), e, i)
  BY LookupsIs
<1> QED  BY <1>2, <1>3 DEF LookAt

\* The values of the near bits of a frame, and of no others, are values.
LEMMA FrameValue ==
  ASSUME NEW ns, NEW ss, StoreOK(ns, ss), NEW e \in 1 .. Len(ns), ns[e].tag = "framed",
         NEW i \in Near(ns[e].mask)
  PROVE  /\ i \in Nat /\ i < ns[e].cut
         /\ SlotOf(ns[e], i) \in 1 .. Len(ss) /\ ss[SlotOf(ns[e], i)] \in Nat \ {None}
         /\ Lookups(ns, ss)[e][i] = ss[SlotOf(ns[e], i)]
<1>1. FrameOK(ns, ss, ns[e], e) /\ ns[e] \in Nodes /\ ss \in Seq(Nat)
  BY NodeIs DEF StoreOK
<1>2. SlotOf(ns[e], i) \in 1 .. Len(ss) /\ ss[SlotOf(ns[e], i)] \in Nat \ {None}
  BY <1>1, SlotIs DEF FrameOK
<1>3. i \in 0 .. ns[e].cut - 1 /\ ns[e].cut \in 0 .. NEAR /\ NEAR \in Nat
  BY <1>1, NodeIs, NearIs DEF FrameOK
<1>4. i \in Nat /\ i < ns[e].cut
  BY <1>3
<1> QED  BY <1>2, <1>4, LookFramed

\* The store ns2 with slots ss2 has all that ns with ss has, at the same places.
Grown(ns, ss, ns2, ss2) ==
  /\ Len(ns) <= Len(ns2) /\ \A e \in 1 .. Len(ns) : ns2[e] = ns[e]
  /\ Len(ss) <= Len(ss2) /\ \A k \in 1 .. Len(ss) : ss2[k] = ss[k]

\* An environment means the same when the store has grown.
LEMMA LookupsGrow ==
  ASSUME NEW ns, NEW ss, NEW ns2, NEW ss2, StoreOK(ns, ss), StoreOK(ns2, ss2),
         Grown(ns, ss, ns2, ss2)
  PROVE  \A e \in 1 .. Len(ns) : Lookups(ns2, ss2)[e] = Lookups(ns, ss)[e]
<1> DEFINE S == 1 .. Len(ns)
           H == [e \in S |-> e]
           T == {e \in S : Lookups(ns2, ss2)[e] = Lookups(ns, ss)[e]}
<1>1. \A e \in S : H[e] \in Nat
  BY NodeIs
<1>2. Len(ns) \in Nat /\ Len(ns2) \in Nat /\ Len(ns) <= Len(ns2)
  BY LenProperties DEF StoreOK, Grown
<1>3. S \subseteq 1 .. Len(ns2)
  BY <1>2
<1>4. ASSUME NEW e \in S, \A k \in S : H[k] < H[e] => k \in T PROVE e \in T
  <2>0. e \in 1 .. Len(ns2) /\ ns2[e] = ns[e]
    BY <1>3 DEF Grown
  <2>1. ASSUME NEW i \in Nat PROVE Lookups(ns2, ss2)[e][i] = Lookups(ns, ss)[e][i]
    <3> DEFINE n == ns[e]
    <3>1. n.tag \in {"nil", "cons", "framed"} /\ n.b \in Nat /\ e \in Nat /\ n.cut \in Nat
      <4>1. n.cut \in 0 .. NEAR /\ NEAR \in Nat
        BY NodeIs, NearIs
      <4> QED  BY <4>1, NodeIs
    <3>2. CASE n.tag = "nil"
      BY <2>0, <3>2, LookNil
    <3>3. CASE n.tag = "cons"
      <4>1. n.b \in S /\ n.b < e
        <5>1. n.b \in 1 .. e - 1
          BY <3>3, NodeIs DEF ConsOK
        <5> QED  BY <1>2, <3>1, <5>1
      <4>2. Lookups(ns2, ss2)[n.b] = Lookups(ns, ss)[n.b]
        BY <1>4, <4>1
      <4>3. Lookups(ns, ss)[e][i] = IF i = 0 THEN n.a ELSE Lookups(ns, ss)[n.b][i - 1]
        BY <3>3, LookCons
      <4>4. Lookups(ns2, ss2)[e][i] = IF i = 0 THEN n.a ELSE Lookups(ns2, ss2)[n.b][i - 1]
        BY <2>0, <3>3, LookCons
      <4> QED  BY <4>2, <4>3, <4>4
    <3>4. CASE n.tag = "framed"
      <4>1. n.b # NO_ENV => n.b \in S /\ n.b < e
        <5>1. n.b \in 0 .. e - 1
          BY <3>4, NodeIs DEF FrameOK
        <5> QED  BY <1>2, <3>1, <5>1 DEF NO_ENV
      <4>2. n.b # NO_ENV => Lookups(ns2, ss2)[n.b] = Lookups(ns, ss)[n.b]
        BY <1>4, <4>1
      <4>3. i \in Near(n.mask) => ss2[SlotOf(n, i)] = ss[SlotOf(n, i)]
        BY <3>4, FrameValue DEF Grown
      <4>4. Lookups(ns, ss)[e][i] =
              IF i < n.cut THEN IF i \in Near(n.mask) THEN ss[SlotOf(n, i)] ELSE None
              ELSE IF n.b = NO_ENV THEN None ELSE Lookups(ns, ss)[n.b][i - n.cut]
        BY <3>4, LookFramed
      <4>5. Lookups(ns2, ss2)[e][i] =
              IF i < n.cut THEN IF i \in Near(n.mask) THEN ss2[SlotOf(n, i)] ELSE None
              ELSE IF n.b = NO_ENV THEN None ELSE Lookups(ns2, ss2)[n.b][i - n.cut]
        BY <2>0, <3>4, LookFramed
      <4> HIDE DEF n
      <4> QED  BY <4>2, <4>3, <4>4, <4>5
    <3> QED  BY <3>1, <3>2, <3>3, <3>4
  <2>2. Lookups(ns2, ss2)[e] \in [Nat -> Nat] /\ Lookups(ns, ss)[e] \in [Nat -> Nat]
    <3>1. Lookups(ns2, ss2) \in [1 .. Len(ns2) -> [Nat -> Nat]]
      BY LookupsIs
    <3>2. Lookups(ns, ss) \in [1 .. Len(ns) -> [Nat -> Nat]]
      BY LookupsIs
    <3> QED  BY <2>0, <3>1, <3>2
  <2>3. Lookups(ns2, ss2)[e] = Lookups(ns, ss)[e]
    <3> DEFINE f == Lookups(ns2, ss2)[e]
               g == Lookups(ns, ss)[e]
    <3>1. f \in [Nat -> Nat] /\ g \in [Nat -> Nat] /\ \A i \in Nat : f[i] = g[i]
      BY <2>1, <2>2
    <3> HIDE DEF f, g
    <3>2. f = g
      BY <3>1
    <3> QED  BY <3>2 DEF f, g
  <2> QED  BY <2>3
<1>5. S \subseteq T
  <2> HIDE DEF S, H, T
  <2> QED  BY <1>1, <1>4, HeightInduction
<1> QED  BY <1>5

\* No environment gives a value past NEAR indices for each node.
LEMMA LookupBound ==
  ASSUME NEW ns, NEW ss, StoreOK(ns, ss)
  PROVE  \A e \in 1 .. Len(ns), i \in Nat : Lookups(ns, ss)[e][i] # None => i < e * NEAR
<1> DEFINE S == 1 .. Len(ns)
           H == [e \in S |-> e]
           T == {e \in S : \A i \in Nat : Lookups(ns, ss)[e][i] # None => i < e * NEAR}
<1>1. \A e \in S : H[e] \in Nat
  BY NodeIs
<1>2. Len(ns) \in Nat /\ NEAR \in Nat /\ NEAR # 0
  BY LenProperties, NearIs DEF StoreOK
<1>3. \A b, e, i, c \in Nat : b < e /\ i < b * NEAR /\ c <= NEAR => i + c < e * NEAR
  <2> SUFFICES ASSUME NEW b \in Nat, NEW e \in Nat, NEW i \in Nat, NEW c \in Nat,
                      b < e, i < b * NEAR, c <= NEAR
               PROVE  i + c < e * NEAR
    OBVIOUS
  <2>1. e - b - 1 \in Nat
    OBVIOUS
  <2>2. (e - b - 1) * NEAR \in Nat
    BY <1>2, <2>1
  <2>3. (e - b - 1) * NEAR = e * NEAR - b * NEAR - NEAR
    BY <1>2
  <2>4. e * NEAR \in Nat /\ b * NEAR \in Nat
    BY <1>2
  <2> QED  BY <1>2, <2>2, <2>3, <2>4
<1>4. \A e, i \in Nat : e # 0 /\ i < NEAR => i < e * NEAR
  <2> SUFFICES ASSUME NEW e \in Nat, NEW i \in Nat, e # 0, i < NEAR PROVE i < e * NEAR
    OBVIOUS
  <2>1. (e - 1) * NEAR \in Nat /\ (e - 1) * NEAR = e * NEAR - NEAR /\ e * NEAR \in Nat
    <3>1. e - 1 \in Nat
      OBVIOUS
    <3> QED  BY <1>2, <3>1
  <2> QED  BY <1>2, <2>1
<1>5. ASSUME NEW e \in S, \A k \in S : H[k] < H[e] => k \in T PROVE e \in T
  <2> SUFFICES ASSUME NEW i \in Nat, Lookups(ns, ss)[e][i] # None PROVE i < e * NEAR
    OBVIOUS
  <2> DEFINE n == ns[e]
  <2>1. n.tag \in {"nil", "cons", "framed"} /\ n.b \in Nat /\ e \in Nat \ {0} /\ n.cut \in 0 .. NEAR
    BY NodeIs
  <2>2. n.tag # "nil"
    BY LookNil
  <2>3. CASE n.tag = "cons"
    <3>1. n.b \in S /\ n.b < e
      <4>1. n.b \in 1 .. e - 1
        BY <2>3, NodeIs DEF ConsOK
      <4> QED  BY <1>2, <2>1, <4>1
    <3>2. CASE i = 0
      BY <1>2, <1>4, <2>1, <3>2
    <3>3. CASE i # 0
      <4>1. i - 1 \in Nat /\ Lookups(ns, ss)[n.b][i - 1] # None
        BY <2>3, <3>3, LookCons
      <4>2. n.b \in T
        BY <1>5, <3>1
      <4>3. i - 1 < n.b * NEAR
        BY <4>1, <4>2
      <4> DEFINE j == i - 1
      <4>4. j + 1 < e * NEAR
        <5> HIDE DEF j
        <5>1. j \in Nat /\ j < n.b * NEAR /\ 1 <= NEAR
          BY <1>2, <4>1, <4>3 DEF j
        <5> QED  BY <1>3, <2>1, <3>1, <5>1
      <4>5. j + 1 = i
        OBVIOUS
      <4> QED  BY <4>4, <4>5
    <3> QED  BY <3>2, <3>3
  <2>4. CASE n.tag = "framed"
    <3>0. Lookups(ns, ss)[e][i] =
            IF i < n.cut THEN IF i \in Near(n.mask) THEN ss[SlotOf(n, i)] ELSE None
            ELSE IF n.b = NO_ENV THEN None ELSE Lookups(ns, ss)[n.b][i - n.cut]
      BY <2>4, LookFramed
    <3>1. n.cut \in Nat /\ n.cut <= NEAR
      BY <1>2, <2>1
    <3>2. CASE i < n.cut
      <4>1. i < NEAR
        BY <1>2, <3>1, <3>2
      <4> QED  BY <1>4, <2>1, <4>1
    <3>3. CASE ~(i < n.cut)
      <4>1. n.b # NO_ENV /\ Lookups(ns, ss)[n.b][i - n.cut] # None
        BY <3>0, <3>3
      <4>2. n.b \in S /\ n.b < e
        <5>1. n.b \in 0 .. e - 1
          BY <2>4, NodeIs DEF FrameOK
        <5> QED  BY <1>2, <2>1, <4>1, <5>1 DEF NO_ENV
      <4>3. i - n.cut \in Nat
        BY <3>1, <3>3, Difference
      <4>4. n.b \in T
        BY <1>5, <4>2
      <4>5. i - n.cut < n.b * NEAR
        BY <4>1, <4>3, <4>4
      <4> DEFINE j == i - n.cut
      <4>6. j + n.cut < e * NEAR
        <5> HIDE DEF j
        <5>1. j \in Nat /\ j < n.b * NEAR
          BY <4>3, <4>5 DEF j
        <5> QED  BY <1>3, <2>1, <3>1, <4>2, <5>1
      <4>7. j + n.cut = i
        BY <3>1
      <4> QED  BY <4>6, <4>7
    <3> QED  BY <3>2, <3>3
  <2> QED  BY <2>1, <2>2, <2>3, <2>4
<1>6. S \subseteq T
  <2> HIDE DEF S, H, T
  <2> QED  BY <1>1, <1>5, HeightInduction
<1> QED  BY <1>6

\* A node that is not empty gives some index a value.
LEMMA HoldsValue ==
  ASSUME NEW ns, NEW ss, StoreOK(ns, ss)
  PROVE  \A e \in 1 .. Len(ns) : Holds(ns[e]) => \E i \in Nat : Lookups(ns, ss)[e][i] # None
<1> DEFINE S == 1 .. Len(ns)
           H == [e \in S |-> e]
           T == {e \in S : Holds(ns[e]) => \E i \in Nat : Lookups(ns, ss)[e][i] # None}
<1>1. \A e \in S : H[e] \in Nat
  BY NodeIs
<1>2. Len(ns) \in Nat
  BY LenProperties DEF StoreOK
<1>3. ASSUME NEW e \in S, \A k \in S : H[k] < H[e] => k \in T PROVE e \in T
  <2> SUFFICES ASSUME Holds(ns[e]) PROVE \E i \in Nat : Lookups(ns, ss)[e][i] # None
    OBVIOUS
  <2>1. ns[e].b \in Nat /\ e \in Nat /\ ns[e].cut \in 0 .. NEAR /\ NEAR \in Nat
    BY NodeIs, NearIs
  <2>2. CASE ns[e].tag = "cons"
    <3>1. ns[e].a # None
      BY <2>2, NodeIs DEF ConsOK
    <3>2. Lookups(ns, ss)[e][0] = ns[e].a
      BY <2>2, LookCons
    <3> QED  BY <3>1, <3>2
  <2>3. CASE ns[e].tag = "framed" /\ ns[e].mask # {}
    <3>1. CASE Near(ns[e].mask) # {}
      <4>1. PICK i \in Near(ns[e].mask) : TRUE
        BY <3>1
      <4>2. i \in Nat /\ Lookups(ns, ss)[e][i] = ss[SlotOf(ns[e], i)] /\ ss[SlotOf(ns[e], i)] # None
        BY <2>3, FrameValue
      <4> QED  BY <4>2
    <3>2. CASE Near(ns[e].mask) = {}
      <4>1. FAR \in ns[e].mask
        BY <2>3, <3>2 DEF Near
      <4>2. ns[e].b # NO_ENV /\ Holds(ns[ns[e].b]) /\ ns[e].b \in 0 .. e - 1
        BY <2>3, <4>1, NodeIs DEF FrameOK
      <4>3. ns[e].b \in S /\ ns[e].b < e
        BY <1>2, <2>1, <4>2 DEF NO_ENV
      <4>4. ns[e].b \in T
        BY <1>3, <4>3
      <4>5. PICK i \in Nat : Lookups(ns, ss)[ns[e].b][i] # None
        BY <4>2, <4>4
      <4>6. ns[e].cut \in Nat
        BY <2>1
      <4>7. PICK j \in Nat : ~(j < ns[e].cut) /\ j - ns[e].cut = i
        BY <4>6, Beyond
      <4>8. Lookups(ns, ss)[e][j] = Lookups(ns, ss)[ns[e].b][i]
        BY <2>3, <4>2, <4>7, LookFramed
      <4> QED  BY <4>5, <4>8
    <3> QED  BY <3>1, <3>2
  <2> QED  BY <2>2, <2>3 DEF Holds
<1>4. S \subseteq T
  <2> HIDE DEF S, H, T
  <2> QED  BY <1>1, <1>3, HeightInduction
<1> QED  BY <1>4

\* The mask of e says which near indices have values, and whether others do.
ExactIn(ns, ss, e) ==
  /\ \A i \in 0 .. NEAR - 1 : i \in ns[e].mask <=> Lookups(ns, ss)[e][i] # None
  /\ FAR \in ns[e].mask <=> \E i \in Nat : i >= NEAR /\ Lookups(ns, ss)[e][i] # None

\* A mask that is right stays right when the store grows.
LEMMA ExactGrows ==
  ASSUME NEW ns, NEW ss, NEW ns2, NEW ss2, StoreOK(ns, ss), StoreOK(ns2, ss2),
         Grown(ns, ss, ns2, ss2), NEW e \in 1 .. Len(ns), ExactIn(ns, ss, e)
  PROVE  ExactIn(ns2, ss2, e)
<1>1. Lookups(ns2, ss2)[e] = Lookups(ns, ss)[e] /\ ns2[e] = ns[e]
  BY LookupsGrow DEF Grown
<1> QED  BY <1>1 DEF ExactIn

\* The masks of env_nil, cons and of the frames of prune_env are right.
LEMMA NilExact ==
  ASSUME NEW ns, NEW ss, StoreOK(ns, ss), NEW e \in 1 .. Len(ns), ns[e].tag = "nil"
  PROVE  ExactIn(ns, ss, e)
<1>1. ns[e].mask = {}
  BY NodeIs DEF NilOK
<1>2. \A i \in Nat : Lookups(ns, ss)[e][i] = None
  BY LookNil
<1>3. \A i \in 0 .. NEAR - 1 : i \in Nat
  OBVIOUS
<1> QED  BY <1>1, <1>2, <1>3 DEF ExactIn

LEMMA ConsExact ==
  ASSUME NEW ns, NEW ss, StoreOK(ns, ss), NEW e \in 1 .. Len(ns), ns[e].tag = "cons",
         ExactIn(ns, ss, ns[e].b)
  PROVE  ExactIn(ns, ss, e)
<1> DEFINE p == ns[e].b
           mask == ns[p].mask
           look == Lookups(ns, ss)[e]
           past == Lookups(ns, ss)[p]
<1>1. ns[e].mask = ConsMask(mask) /\ ns[e].a # None
  BY NodeIs DEF ConsOK
<1>2. \A i \in Nat : look[i] = IF i = 0 THEN ns[e].a ELSE past[i - 1]
  BY LookCons
<1>3. NEAR \in Nat /\ NEAR # 0 /\ FAR = NEAR
  BY NearIs
<1>4. /\ \A i \in 0 .. NEAR - 1 : i \in mask <=> past[i] # None
      /\ NEAR \in mask <=> \E i \in Nat : i >= NEAR /\ past[i] # None
  BY <1>3 DEF ExactIn
<1> HIDE DEF look, past, mask, p
<1>5. ASSUME NEW i \in 0 .. NEAR - 1 PROVE i \in ConsMask(mask) <=> look[i] # None
  <2>1. CASE i = 0
    <3>1. i \in ConsMask(mask)
      BY <2>1 DEF ConsMask
    <3> QED  BY <1>1, <1>2, <2>1, <3>1
  <2>2. CASE i # 0
    <3>1. i \in Nat /\ i - 1 \in 0 .. NEAR - 1 /\ i \in 0 .. NEAR /\ i # NEAR
      BY <1>3, <2>2
    <3>2. i \in ConsMask(mask) <=> i - 1 \in mask
      BY <1>3, <2>2, <3>1 DEF ConsMask, Shl
    <3>3. look[i] = past[i - 1]
      BY <1>2, <2>2, <3>1
    <3> QED  BY <1>4, <3>1, <3>2, <3>3
  <2> QED  BY <2>1, <2>2
<1>6. NEAR \in ConsMask(mask) <=> NEAR - 1 \in mask \/ NEAR \in mask
  <2>1. NEAR \in 0 .. NEAR
    BY <1>3
  <2> QED  BY <1>3, <2>1 DEF ConsMask, Shl
<1>7. (NEAR - 1 \in mask \/ NEAR \in mask) <=> \E i \in Nat : i >= NEAR /\ look[i] # None
  <2>1. ASSUME NEAR - 1 \in mask PROVE \E i \in Nat : i >= NEAR /\ look[i] # None
    <3>1. NEAR - 1 \in 0 .. NEAR - 1
      BY <1>3
    <3>2. look[NEAR] # None
      BY <1>2, <1>3, <1>4, <2>1, <3>1
    <3> QED  BY <1>3, <3>2
  <2>2. ASSUME NEAR \in mask PROVE \E i \in Nat : i >= NEAR /\ look[i] # None
    <3>1. PICK i \in Nat : i >= NEAR /\ past[i] # None
      BY <1>4, <2>2
    <3>2. i + 1 \in Nat /\ i + 1 >= NEAR /\ i + 1 # 0 /\ i + 1 - 1 = i
      BY <1>3, <3>1
    <3>3. look[i + 1] # None
      BY <1>2, <3>1, <3>2
    <3> QED  BY <3>2, <3>3
  <2>3. ASSUME NEW i \in Nat, i >= NEAR, look[i] # None PROVE NEAR - 1 \in mask \/ NEAR \in mask
    <3>1. i # 0 /\ i - 1 \in Nat
      BY <1>3, <2>3
    <3>2. past[i - 1] # None
      BY <1>2, <2>3, <3>1
    <3>3. CASE i = NEAR
      <4>1. NEAR - 1 \in 0 .. NEAR - 1
        BY <1>3
      <4> QED  BY <1>4, <3>2, <3>3, <4>1
    <3>4. CASE i # NEAR
      <4>1. i - 1 >= NEAR
        BY <1>3, <2>3, <3>4
      <4> QED  BY <1>4, <3>1, <3>2, <4>1
    <3> QED  BY <3>3, <3>4
  <2> QED  BY <2>1, <2>2, <2>3
<1> QED  BY <1>1, <1>3, <1>5, <1>6, <1>7 DEF ExactIn, look

LEMMA FrameExact ==
  ASSUME NEW ns, NEW ss, StoreOK(ns, ss), NEW e \in 1 .. Len(ns), ns[e].tag = "framed",
         ns[e].cut = NEAR
  PROVE  ExactIn(ns, ss, e)
<1> DEFINE n == ns[e]
           look == Lookups(ns, ss)[e]
<1>1. NEAR \in Nat /\ NEAR # 0 /\ FAR = NEAR
  BY NearIs
<1>2. \A i \in Nat : look[i] = IF i < NEAR THEN IF i \in Near(n.mask) THEN ss[SlotOf(n, i)] ELSE None
                               ELSE IF n.b = NO_ENV THEN None ELSE Lookups(ns, ss)[n.b][i - NEAR]
  BY LookFramed
<1>3. \A i \in Near(n.mask) : ss[SlotOf(n, i)] # None
  <2>1. ASSUME NEW i \in Near(ns[e].mask) PROVE ss[SlotOf(ns[e], i)] # None
    <3> HIDE DEF n, look
    <3>1. ss[SlotOf(ns[e], i)] \in Nat \ {None}
      BY FrameValue
    <3> QED  BY ONLY <3>1
  <2> QED  BY <2>1
<1>4. FrameOK(ns, ss, n, e) /\ n.b \in Nat /\ e \in Nat /\ Len(ns) \in Nat
  BY NodeIs
<1>5. FAR \in n.mask <=> n.b # NO_ENV
  BY <1>4 DEF FrameOK
<1>6. n.b # NO_ENV => n.b \in 1 .. Len(ns) /\ Holds(ns[n.b])
  <2>1. n.b \in 0 .. e - 1 /\ (n.b # NO_ENV => Holds(ns[n.b]))
    BY <1>4 DEF FrameOK
  <2> QED  BY <1>4, <2>1 DEF NO_ENV
<1>7. n.b # NO_ENV => \E i \in Nat : Lookups(ns, ss)[n.b][i] # None
  BY <1>6, HoldsValue
<1> HIDE DEF n, look
<1>8. ASSUME NEW i \in 0 .. NEAR - 1 PROVE i \in n.mask <=> look[i] # None
  <2>1. i \in Nat /\ i < NEAR /\ (i \in Near(n.mask) <=> i \in n.mask)
    BY <1>1 DEF Near
  <2> QED  BY <1>2, <1>3, <2>1
<1>9. ASSUME n.b # NO_ENV PROVE \E i \in Nat : i >= NEAR /\ look[i] # None
  <2>1. PICK i \in Nat : Lookups(ns, ss)[n.b][i] # None
    BY <1>7, <1>9
  <2>2. PICK j \in Nat : j >= NEAR /\ ~(j < NEAR) /\ j - NEAR = i
    BY <1>1, Beyond
  <2>3. look[j] # None
    BY <1>2, <1>9, <2>1, <2>2
  <2> QED  BY <2>2, <2>3
<1>10. ASSUME NEW i \in Nat, i >= NEAR, look[i] # None PROVE n.b # NO_ENV
  <2>1. ~(i < NEAR)
    BY <1>1, <1>10
  <2> QED  BY <1>2, <1>10, <2>1
<1> QED  BY <1>1, <1>5, <1>8, <1>9, <1>10 DEF ExactIn, n, look

-----------------------------------------------------------------------------
(* How the store grows.                                                    *)

\* A sequence and one more.
LEMMA AppendIs ==
  ASSUME NEW S, NEW s \in Seq(S), NEW x \in S
  PROVE  /\ Append(s, x) \in Seq(S) /\ Len(s) \in Nat /\ Len(Append(s, x)) = Len(s) + 1
         /\ Append(s, x)[Len(s) + 1] = x
         /\ \A i \in 1 .. Len(s) : Append(s, x)[i] = s[i]
         /\ \A i \in 1 .. Len(s) + 1 : i \in 1 .. Len(s) \/ i = Len(s) + 1
OBVIOUS

\* A well-formed node may be appended to a store, with its values.
LEMMA StoreAppend ==
  ASSUME NEW ns, NEW ss, StoreOK(ns, ss), NEW n \in Nodes, NEW ss2 \in Seq(Nat),
         Len(ss) <= Len(ss2), \A k \in 1 .. Len(ss) : ss2[k] = ss[k],
         n.tag = "nil" => NilOK(n),
         n.tag = "cons" => ConsOK(ns, n, Len(ns) + 1),
         n.tag = "framed" => FrameOK(ns, ss2, n, Len(ns) + 1)
  PROVE  /\ StoreOK(Append(ns, n), ss2) /\ Grown(ns, ss, Append(ns, n), ss2)
         /\ Len(Append(ns, n)) = Len(ns) + 1 /\ Append(ns, n)[Len(ns) + 1] = n
         /\ Len(ns) + 1 \in 1 .. Len(ns) + 1 /\ 1 .. Len(ns) \subseteq 1 .. Len(ns) + 1
<1> DEFINE new == Append(ns, n)
<1>1. /\ ns \in Seq(Nodes) /\ ss \in Seq(Nat) /\ Len(ns) # 0 /\ ns[EMPTY_ENV] = Nil(NoSub)
      /\ \A e \in 1 .. Len(ns) : NodeOK(ns, ss, e)
  BY DEF StoreOK
<1>2. /\ new \in Seq(Nodes) /\ Len(ns) \in Nat /\ Len(new) = Len(ns) + 1
      /\ new[Len(ns) + 1] = n
      /\ \A i \in 1 .. Len(ns) : new[i] = ns[i]
      /\ \A i \in 1 .. Len(new) : i \in 1 .. Len(ns) \/ i = Len(ns) + 1
  BY <1>1, AppendIs
<1> HIDE DEF new
<1>3. Grown(ns, ss, new, ss2)
  BY <1>2 DEF Grown
<1>4. Len(ss) \in Nat /\ Len(ss2) \in Nat
  BY <1>1, LenProperties
<1>5. ASSUME NEW at, NEW num \in Nat, ValuesAt(ss, at, num) PROVE ValuesAt(ss2, at, num)
  <2>1. at \in Nat /\ at # 0 /\ at + num <= Len(ss) + 1 /\ \A k \in at .. at + num - 1 : ss[k] # None
    BY <1>5 DEF ValuesAt
  <2>2. at + num <= Len(ss2) + 1
    BY <1>4, <2>1
  <2>3. \A k \in at .. at + num - 1 : k \in 1 .. Len(ss)
    BY <1>4, <2>1
  <2>4. \A k \in at .. at + num - 1 : ss2[k] # None
    BY <2>1, <2>3
  <2> QED  BY <2>1, <2>2, <2>4 DEF ValuesAt
<1>6. ASSUME NEW m, NEW e \in 1 .. Len(ns) + 1, m.b \in Nat, ConsOK(ns, m, e) PROVE ConsOK(new, m, e)
  <2>1. m.b \in 1 .. e - 1
    BY <1>6 DEF ConsOK
  <2>2. m.b \in 1 .. Len(ns)
    BY <1>2, <1>6, <2>1
  <2>3. new[m.b] = ns[m.b]
    BY <1>2, <2>2
  <2> QED  BY <1>6, <2>3 DEF ConsOK
<1>7. ASSUME NEW m, NEW s, NEW e \in 1 .. Len(ns) + 1, m.b \in Nat, FrameOK(ns, s, m, e),
             ValuesAt(s, m.a, Cardinality(Near(m.mask))) => ValuesAt(ss2, m.a, Cardinality(Near(m.mask)))
      PROVE  FrameOK(new, ss2, m, e)
  <2>1. m.b \in 0 .. e - 1
    BY <1>7 DEF FrameOK
  <2>2. m.b # NO_ENV => m.b \in 1 .. Len(ns)
    BY <1>2, <1>7, <2>1 DEF NO_ENV
  <2>3. m.b # NO_ENV => new[m.b] = ns[m.b]
    BY <1>2, <2>2
  <2> QED  BY <1>7, <2>3 DEF FrameOK
<1>8. ASSUME NEW e \in 1 .. Len(new) PROVE NodeOK(new, ss2, e)
  <2>1. CASE e \in 1 .. Len(ns)
    <3>1. /\ NodeOK(ns, ss, e) /\ new[e] = ns[e] /\ ns[e].b \in Nat /\ e \in 1 .. Len(ns) + 1
          /\ ns[e].mask \in MaskSet
      BY <1>1, <1>2, <2>1, NodeIs
    <3>2. Cardinality(Near(ns[e].mask)) \in Nat
      BY <3>1, MaskIs, PartCounts
    <3>3. ns[e].tag = "cons" => ConsOK(new, ns[e], e)
      BY <1>6, <3>1 DEF NodeOK
    <3>4. ns[e].tag = "framed" => FrameOK(new, ss2, ns[e], e)
      BY <1>5, <1>7, <3>1, <3>2 DEF NodeOK
    <3> QED  BY <3>1, <3>3, <3>4 DEF NodeOK
  <2>2. CASE e = Len(ns) + 1
    <3>1. new[e] = n /\ n.b \in Nat /\ e \in 1 .. Len(ns) + 1
      BY <1>2, <2>2 DEF Nodes
    <3>2. n.tag = "cons" => ConsOK(new, n, e)
      BY <1>6, <2>2, <3>1
    <3>3. n.tag = "framed" => FrameOK(new, ss2, n, e)
      BY <1>7, <2>2, <3>1
    <3> QED  BY <3>1, <3>2, <3>3 DEF NodeOK
  <2> QED  BY <1>2, <2>1, <2>2
<1>9. Len(new) # 0 /\ new[EMPTY_ENV] = Nil(NoSub)
  <2>1. EMPTY_ENV \in 1 .. Len(ns)
    BY <1>1, <1>2 DEF EMPTY_ENV
  <2> QED  BY <1>1, <1>2, <2>1
<1>10. StoreOK(new, ss2)
  BY <1>2, <1>8, <1>9 DEF StoreOK
<1>11. Len(ns) + 1 \in 1 .. Len(ns) + 1 /\ 1 .. Len(ns) \subseteq 1 .. Len(ns) + 1
  BY <1>2
<1> QED  BY <1>2, <1>3, <1>10, <1>11 DEF new

LEMMA GrownSelf == ASSUME NEW ns, NEW ss, StoreOK(ns, ss) PROVE Grown(ns, ss, ns, ss)
<1>1. Len(ns) \in Nat /\ Len(ss) \in Nat
  BY LenProperties DEF StoreOK
<1> QED  BY <1>1 DEF Grown

\* Growing is transitive.
LEMMA GrownTwice ==
  ASSUME NEW ns, NEW ss, NEW ns2, NEW ss2, NEW ns3, NEW ss3,
         StoreOK(ns, ss), StoreOK(ns2, ss2), StoreOK(ns3, ss3),
         Grown(ns, ss, ns2, ss2), Grown(ns2, ss2, ns3, ss3)
  PROVE  Grown(ns, ss, ns3, ss3)
<1>1. /\ Len(ns) \in Nat /\ Len(ss) \in Nat /\ Len(ns2) \in Nat /\ Len(ss2) \in Nat
      /\ Len(ns3) \in Nat /\ Len(ss3) \in Nat
  BY LenProperties DEF StoreOK
<1>2. 1 .. Len(ns) \subseteq 1 .. Len(ns2) /\ 1 .. Len(ss) \subseteq 1 .. Len(ss2)
  BY <1>1 DEF Grown
<1>3. Len(ns) <= Len(ns3) /\ Len(ss) <= Len(ss3)
  BY <1>1 DEF Grown
<1>4. \A e \in 1 .. Len(ns) : ns3[e] = ns[e]
  BY <1>2 DEF Grown
<1>5. \A k \in 1 .. Len(ss) : ss3[k] = ss[k]
  BY <1>2 DEF Grown
<1> QED  BY <1>3, <1>4, <1>5 DEF Grown

LEMMA NilNode == ASSUME NEW l \in Subs PROVE Nil(l) \in Nodes /\ Nil(l).tag = "nil" /\ NilOK(Nil(l))
<1>1. {} \in MaskSet /\ 0 \in 0 .. NEAR
  BY NearIs DEF MaskSet
<1> QED  BY <1>1 DEF Nil, Nodes, NilOK, NO_ENV

\* What env_push appends is well-formed.
LEMMA ConsNode ==
  ASSUME NEW ns, NEW ss, StoreOK(ns, ss), NEW p \in 1 .. Len(ns), NEW v \in Nat, v # None
  PROVE  /\ Cons(p, v, ns) \in Nodes /\ Cons(p, v, ns).tag = "cons"
         /\ ConsOK(ns, Cons(p, v, ns), Len(ns) + 1)
<1>1. ns[p].mask \in MaskSet /\ ns[p].lsub \in Subs /\ p \in Nat /\ Len(ns) \in Nat
  BY NodeIs
<1>2. ConsMask(ns[p].mask) \in MaskSet
  BY <1>1, NearIs DEF ConsMask, Shl, MaskSet
<1>3. 0 \in 0 .. NEAR
  BY NearIs
<1>4. Cons(p, v, ns) \in Nodes
  BY <1>1, <1>2, <1>3 DEF Cons, Nodes
<1>5. p \in 1 .. Len(ns) + 1 - 1
  BY <1>1
<1> QED  BY <1>4, <1>5 DEF Cons, ConsOK

\* A store that goes on with one node over the same slots.
LEMMA NodeAppend ==
  ASSUME NEW ns, NEW ss, StoreOK(ns, ss), NEW n \in Nodes,
         \/ n.tag = "nil" /\ NilOK(n)
         \/ n.tag = "cons" /\ ConsOK(ns, n, Len(ns) + 1)
  PROVE  /\ StoreOK(Append(ns, n), ss) /\ Grown(ns, ss, Append(ns, n), ss)
         /\ Len(Append(ns, n)) = Len(ns) + 1 /\ Append(ns, n)[Len(ns) + 1] = n
         /\ Len(ns) + 1 \in 1 .. Len(ns) + 1 /\ 1 .. Len(ns) \subseteq 1 .. Len(ns) + 1
<1>1. ss \in Seq(Nat) /\ Len(ss) <= Len(ss) /\ \A k \in 1 .. Len(ss) : ss[k] = ss[k]
  <2>1. ss \in Seq(Nat)
    BY DEF StoreOK
  <2> QED  BY <2>1, LenProperties
<1>2. n.tag = "nil" => NilOK(n)
  OBVIOUS
<1>3. n.tag = "cons" => ConsOK(ns, n, Len(ns) + 1)
  OBVIOUS
<1>4. n.tag = "framed" => FrameOK(ns, ss, n, Len(ns) + 1)
  OBVIOUS
<1> QED  BY <1>1, <1>2, <1>3, <1>4, StoreAppend

-----------------------------------------------------------------------------
(* The context a declaration starts from.                                  *)

\* The store after k of the values vs.
Begun(ns, vs, k) ==
  /\ StoreOK(ns, <<>>) /\ Len(ns) = k + 1
  /\ \A i \in 1 .. k : ns[i + 1] = Cons(i, vs[i], ns)
  /\ ExactIn(ns, <<>>, k + 1)

LEMMA BegunEmpty == ASSUME NEW vs PROVE Begun(<<Nil(NoSub)>>, vs, 0)
<1> DEFINE ns == <<Nil(NoSub)>>
<1>1. Nil(NoSub) \in Nodes /\ Nil(NoSub).tag = "nil" /\ NilOK(Nil(NoSub))
  BY NilNode DEF Subs
<1>2. ns \in Seq(Nodes) /\ Len(ns) = 1 /\ ns[1] = Nil(NoSub)
  BY <1>1
<1>3. <<>> \in Seq(Nat)
  OBVIOUS
<1>4. 1 .. Len(ns) = {1}
  BY <1>2
<1> HIDE DEF ns
<1>5. StoreOK(ns, <<>>)
  <2>1. NodeOK(ns, <<>>, 1)
    BY <1>1, <1>2 DEF NodeOK
  <2> QED  BY <1>2, <1>3, <1>4, <2>1 DEF StoreOK, EMPTY_ENV
<1>6. ExactIn(ns, <<>>, 1)
  BY <1>1, <1>2, <1>4, <1>5, NilExact
<1> QED  BY <1>2, <1>5, <1>6 DEF Begun, ns

\* One more value of the context.
LEMMA BegunNext ==
  ASSUME NEW k \in Nat, NEW vs, vs[k + 1] \in Nat, vs[k + 1] # None, NEW ns, Begun(ns, vs, k)
  PROVE  Begun(Pushed(ns, vs[k + 1]), vs, k + 1)
<1> DEFINE v == vs[k + 1]
           n == Cons(Len(ns), v, ns)
           new == Pushed(ns, v)
<1>1. StoreOK(ns, <<>>) /\ Len(ns) = k + 1 /\ k + 1 \in 1 .. Len(ns) /\ ExactIn(ns, <<>>, k + 1)
  BY DEF Begun
<1>2. n \in Nodes /\ n.tag = "cons" /\ ConsOK(ns, n, Len(ns) + 1)
  BY <1>1, ConsNode
<1>3. /\ StoreOK(new, <<>>) /\ Grown(ns, <<>>, new, <<>>) /\ Len(new) = Len(ns) + 1
      /\ new[Len(ns) + 1] = n /\ Len(ns) + 1 \in 1 .. Len(new)
  <2> HIDE DEF n
  <2>1. /\ StoreOK(Append(ns, n), <<>>) /\ Grown(ns, <<>>, Append(ns, n), <<>>)
        /\ Len(Append(ns, n)) = Len(ns) + 1 /\ Append(ns, n)[Len(ns) + 1] = n
        /\ Len(ns) + 1 \in 1 .. Len(ns) + 1
    BY <1>1, <1>2, NodeAppend
  <2>2. new = Append(ns, n)
    BY DEF Pushed, n
  <2> HIDE DEF new
  <2> QED  BY <2>1, <2>2
<1>4. n.b = k + 1
  BY <1>1 DEF Cons
<1> HIDE DEF v, new
<1>5. ExactIn(new, <<>>, k + 1)
  BY <1>1, <1>3, ExactGrows
<1>6. ExactIn(new, <<>>, Len(ns) + 1)
  BY <1>2, <1>3, <1>4, <1>5, ConsExact
<1>7. ASSUME NEW i \in 1 .. k + 1 PROVE new[i + 1] = Cons(i, vs[i], new)
  <2>1. i \in 1 .. Len(ns)
    BY <1>1
  <2>2. new[i] = ns[i]
    BY <1>3, <2>1 DEF Grown
  <2>3. Cons(i, vs[i], new) = Cons(i, vs[i], ns)
    BY <2>2 DEF Cons
  <2>4. CASE i = k + 1
    BY <1>1, <1>3, <2>3, <2>4 DEF v
  <2>5. CASE i # k + 1
    <3>1. i \in 1 .. k /\ i + 1 \in 1 .. Len(ns)
      BY <1>1, <2>5
    <3>2. new[i + 1] = ns[i + 1] /\ ns[i + 1] = Cons(i, vs[i], ns)
      BY <1>3, <3>1 DEF Grown, Begun
    <3> QED  BY <2>3, <3>2
  <2> QED  BY <2>4, <2>5
<1> QED  BY <1>1, <1>3, <1>6, <1>7 DEF Begun, new, v

\* The store that a declaration starts from.
LEMMA ChainIs ==
  ASSUME NEW c \in Seq(Nat \ {None})
  PROVE  Begun(Chain(c), c, Len(c))
<1> DEFINE n == Len(c)
           base == <<Nil(NoSub)>>
           S == {ns \in Seq(Nodes) : StoreOK(ns, <<>>)}
           step == [x \in S \X (1 .. n) |-> Pushed(x[1], c[x[2]])]
           Table(t) == [k \in 0 .. n |-> IF k = 0 THEN base ELSE Pushed(t[k - 1], c[k])]
           chosen == CHOOSE t : t = Table(t)
<1>1. n \in Nat /\ \A k \in 1 .. n : c[k] \in Nat /\ c[k] # None
  <2>1. n \in Nat /\ \A k \in 1 .. n : c[k] \in Nat \ {None}
    BY LenProperties, ElementOfSeq
  <2> QED  BY <2>1
<1>2. base \in S
  BY BegunEmpty DEF Begun, StoreOK
<1>3. ASSUME NEW ns \in S, NEW k \in 1 .. n PROVE Pushed(ns, c[k]) \in S
  <2> DEFINE m == Cons(Len(ns), c[k], ns)
  <2>1. StoreOK(ns, <<>>) /\ Len(ns) \in 1 .. Len(ns)
    <3>1. StoreOK(ns, <<>>) /\ Len(ns) \in Nat /\ Len(ns) # 0
      BY LenProperties DEF StoreOK
    <3> QED  BY <3>1
  <2>2. m \in Nodes /\ m.tag = "cons" /\ ConsOK(ns, m, Len(ns) + 1)
    BY <1>1, <2>1, ConsNode
  <2> HIDE DEF m
  <2>3. StoreOK(Append(ns, m), <<>>)
    BY <2>1, <2>2, NodeAppend
  <2> QED  BY <2>3 DEF Pushed, StoreOK, m
<1>4. step \in [S \X (1 .. n) -> S]
  BY <1>3
<1>5. \A ns \in S : \A k \in 1 .. n : step[<<ns, k>>] = Pushed(ns, c[k])
  OBVIOUS
<1>6. Chain(c) = chosen[n]
  BY DEF Chain
<1> HIDE DEF step, S, n, base
<1>7. PICK f : IsRun(f, S, base, n, step)
  <2>1. n \in Nat
    BY <1>1
  <2> QED  BY ONLY <1>2, <1>4, <2>1, RecursionExists
<1>8. f \in [0 .. n -> S] /\ f[0] = base /\ \A k \in 1 .. n : f[k] = step[<<f[k - 1], k>>]
  BY <1>7 DEF IsRun
<1>9. \A k \in 1 .. n : k - 1 \in 0 .. n /\ k # 0 /\ k \in 0 .. n
  BY <1>1
<1>10. \A k \in 1 .. n : f[k] = Pushed(f[k - 1], c[k])
  BY <1>5, <1>8, <1>9
<1>11. f = Table(f)
  <2>1. \A k \in 0 .. n : f[k] = IF k = 0 THEN base ELSE Pushed(f[k - 1], c[k])
    <3>1. \A k \in 0 .. n : k = 0 \/ k \in 1 .. n
      BY <1>1
    <3> QED  BY <1>8, <1>9, <1>10, <3>1
  <2> QED  BY <1>8, <2>1
<1>12. chosen = Table(chosen)
  <2> HIDE DEF Table
  <2> QED  BY <1>11
<1> HIDE DEF chosen
<1>13. chosen[0] = base /\ \A k \in 1 .. n : chosen[k] = Pushed(chosen[k - 1], c[k])
  <2>1. 0 \in 0 .. n
    BY <1>1
  <2> QED  BY <1>9, <1>12, <2>1
<1> DEFINE T == {k \in 0 .. n : Begun(chosen[k], c, k)}
<1>14. 0 \in T
  <2>1. 0 \in 0 .. n
    BY <1>1
  <2> QED  BY <1>13, <2>1, BegunEmpty DEF base
<1>15. ASSUME NEW k \in 0 .. n - 1, k \in T PROVE k + 1 \in T
  <2>1. k \in Nat /\ k + 1 \in 1 .. n /\ k + 1 - 1 = k /\ k + 1 \in 0 .. n
    BY <1>1
  <2>2. chosen[k + 1] = Pushed(chosen[k], c[k + 1])
    BY <1>13, <2>1
  <2>3. c[k + 1] \in Nat /\ c[k + 1] # None
    BY <1>1, <2>1
  <2>4. Begun(chosen[k + 1], c, k + 1)
    BY <1>15, <2>1, <2>2, <2>3, BegunNext
  <2> QED  BY <2>1, <2>4
<1> HIDE DEF T
<1>16. 0 .. n \subseteq T
  BY <1>1, <1>14, <1>15, SetInduction
<1>17. n \in T
  BY <1>1, <1>16
<1> QED  BY <1>6, <1>17 DEF T, n

-----------------------------------------------------------------------------
(* What pruning gathers.                                                   *)

\* A node that holds nothing gives nothing: prune_env_cold may drop it.
LEMMA EmptyGives ==
  ASSUME NEW ns, NEW ss, StoreOK(ns, ss), NEW e \in 1 .. Len(ns), ~Holds(ns[e]), NEW i \in Nat
  PROVE  Lookups(ns, ss)[e][i] = None
<1>1. ns[e].tag \in {"nil", "cons", "framed"}
  BY NodeIs
<1>2. CASE ns[e].tag = "nil"
  BY <1>2, LookNil
<1>3. CASE ns[e].tag = "framed"
  <2>1. ns[e].mask = {}
    BY <1>3 DEF Holds
  <2>2. ns[e].b = NO_ENV
    BY <1>3, <2>1, NodeIs DEF FrameOK
  <2>3. i \notin Near(ns[e].mask)
    BY <2>1 DEF Near
  <2> QED  BY <1>3, <2>2, <2>3, LookFramed
<1> QED  BY <1>1, <1>2, <1>3 DEF Holds

\* The values of the bits m of a frame, each at the place of its bit.
LEMMA TakenIs ==
  ASSUME StoreOK(envs, slots), NEW e \in Ids, envs[e].tag = "framed",
         NEW m \in SUBSET Near(envs[e].mask)
  PROVE  /\ BitSet(m) /\ Taken(envs[e], m) \in Seq(Nat) /\ Len(Taken(envs[e], m)) = Cardinality(m)
         /\ \A i \in m :
              Taken(envs[e], m)[Cardinality(LowBits(m, i)) + 1] = Lookups(envs, slots)[e][i]
<1> DEFINE n == envs[e]
           num == Cardinality(m)
           at(k) == CHOOSE i \in m : Cardinality(LowBits(m, i)) = k - 1
<1>0. e \in 1 .. Len(envs)
  BY DEF Ids
<1>1. n.mask \in MaskSet
  BY <1>0, NodeIs
<1>2. BitSet(m) /\ num \in Nat
  BY <1>1, MaskIs, PartCounts
<1>3. \A i \in m : slots[SlotOf(n, i)] \in Nat /\ Lookups(envs, slots)[e][i] = slots[SlotOf(n, i)]
  BY <1>0, FrameValue
<1>4. ASSUME NEW k \in 1 .. num PROVE at(k) \in m /\ Cardinality(LowBits(m, at(k))) = k - 1
  <2>1. k - 1 \in 0 .. num - 1
    BY <1>2
  <2>2. \E i \in m : Cardinality(LowBits(m, i)) = k - 1
    BY <1>2, <2>1, PlaceIsBit
  <2> QED  BY <2>2
<1>5. Taken(n, m) = [k \in 1 .. num |-> slots[SlotOf(n, at(k))]]
  BY DEF Taken
<1> HIDE DEF at, n
<1>6. \A k \in 1 .. num : slots[SlotOf(n, at(k))] \in Nat
  BY <1>3, <1>4
<1>7. Taken(n, m) \in Seq(Nat) /\ Len(Taken(n, m)) = num
  <2> HIDE DEF num
  <2>1. Taken(n, m) \in [1 .. num -> Nat]
    BY <1>5, <1>6
  <2> QED  BY <1>2, <2>1 DEF num
<1>8. ASSUME NEW i \in m
      PROVE  Taken(n, m)[Cardinality(LowBits(m, i)) + 1] = Lookups(envs, slots)[e][i]
  <2> DEFINE k == Cardinality(LowBits(m, i)) + 1
  <2>1. k \in 1 .. num /\ k - 1 = Cardinality(LowBits(m, i))
    <3>1. i \in Int
      BY <1>2 DEF BitSet
    <3>2. Cardinality(LowBits(m, i)) \in Nat /\ Cardinality(LowBits(m, i)) < num
      BY <1>2, <3>1, LowPart, BitCounts
    <3> HIDE DEF num
    <3> QED  BY <1>2, <3>2
  <2>2. at(k) = i
    <3>1. at(k) \in m /\ Cardinality(LowBits(m, at(k))) = Cardinality(LowBits(m, i))
      BY <1>4, <2>1
    <3> QED  BY <1>2, <3>1, PlaceIsBit
  <2>3. Taken(n, m)[k] = slots[SlotOf(n, at(k))]
    BY <1>5, <2>1
  <2> QED  BY <1>3, <2>2, <2>3
<1> QED  BY <1>2, <1>7, <1>8 DEF n

\* h has of the variables of cur that rem asks for those with values, at the bits
\* from .. to - 1.
ValuesRight(cur, rem, from, to, h) ==
  /\ h.mask \subseteq from .. to - 1
  /\ h.vals \in Seq(Nat) /\ Len(h.vals) = Cardinality(h.mask)
  /\ \A x \in from .. to - 1 :
       x \in h.mask <=> x - from \in rem /\ Lookup(cur, x - from) # None
  /\ \A x \in h.mask : h.vals[Cardinality(LowBits(h.mask, x)) + 1] = Lookup(cur, x - from)

\* Nothing is right where nothing is asked for or held.
LEMMA NothingRight ==
  ASSUME NEW cur, NEW rem, NEW from, NEW to, NEW h, h.mask = {}, h.vals = <<>>,
         \A x \in from .. to - 1 : x - from \notin rem \/ Lookup(cur, x - from) = None
  PROVE  ValuesRight(cur, rem, from, to, h)
<1>1. <<>> \in Seq(Nat) /\ Len(<<>>) = 0
  OBVIOUS
<1> QED  BY <1>1, FS_EmptySet DEF ValuesRight

\* What a node has and what the nodes before it have, put together.
LEMMA ThenRight ==
  ASSUME NEW cur, NEW b, NEW rem \in MaskSet, NEW from \in Nat, NEW t \in Nat, from + t <= NEAR,
         NEW here, NEW next,
         ValuesRight(cur, rem, from, from + t, here),
         ValuesRight(b, Shr(rem, t), from + t, NEAR, next),
         \A i \in Nat : ~(i < t) => Lookup(cur, i) = Lookup(b, i - t)
  PROVE  ValuesRight(cur, rem, from, NEAR, Then(here, next))
<1> DEFINE all == Then(here, next)
           mid == from + t
           A == here.mask
           B == next.mask
<1>1. NEAR \in Nat /\ FAR = NEAR /\ mid \in Nat
  BY NearIs
<1>2. all.mask = A \cup B /\ all.vals = here.vals \o next.vals
  BY DEF Then
<1>3. /\ A \subseteq from .. mid - 1 /\ here.vals \in Seq(Nat) /\ Len(here.vals) = Cardinality(A)
      /\ \A x \in from .. mid - 1 : x \in A <=> x - from \in rem /\ Lookup(cur, x - from) # None
      /\ \A x \in A : here.vals[Cardinality(LowBits(A, x)) + 1] = Lookup(cur, x - from)
  BY DEF ValuesRight
<1>4. /\ B \subseteq mid .. NEAR - 1 /\ next.vals \in Seq(Nat) /\ Len(next.vals) = Cardinality(B)
      /\ \A x \in mid .. NEAR - 1 : x \in B <=> x - mid \in Shr(rem, t) /\ Lookup(b, x - mid) # None
      /\ \A x \in B : next.vals[Cardinality(LowBits(B, x)) + 1] = Lookup(b, x - mid)
  BY DEF ValuesRight
<1>5. mid <= NEAR /\ from <= mid
  BY <1>1
<1>6. \A x \in mid .. NEAR - 1 :
        /\ x - from \in Nat /\ ~(x - from < t) /\ x - from - t = x - mid
        /\ x - mid \in 0 .. NEAR /\ (x - mid) + t = x - from
  BY <1>1
<1> HIDE DEF all, mid, A, B
<1>7. A \subseteq Int /\ B \subseteq Int /\ IsFiniteSet(A) /\ IsFiniteSet(B)
  <2>1. from .. mid - 1 \subseteq Int /\ mid .. NEAR - 1 \subseteq Int
    BY <1>1
  <2>2. IsFiniteSet(from .. mid - 1) /\ IsFiniteSet(mid .. NEAR - 1)
    <3>1. from \in Int /\ mid - 1 \in Int /\ mid \in Int /\ NEAR - 1 \in Int
      BY <1>1
    <3> QED  BY <3>1, FS_Interval
  <2>3. IsFiniteSet(A)
    BY <1>3, <2>2, FS_Subset
  <2>4. IsFiniteSet(B)
    BY <1>4, <2>2, FS_Subset
  <2> QED  BY <1>3, <1>4, <2>1, <2>3, <2>4
<1>8. BitSet(A) /\ BitSet(B) /\ Cardinality(A) \in Nat /\ Cardinality(B) \in Nat
  BY <1>7, FS_CardinalityType DEF BitSet
<1>9. /\ Cardinality(A \cup B) = Cardinality(A) + Cardinality(B)
      /\ \A j \in Int : j <= mid => LowBits(A \cup B, j) = LowBits(A, j)
      /\ \A j \in Int : mid <= j =>
           Cardinality(LowBits(A \cup B, j)) = Cardinality(A) + Cardinality(LowBits(B, j))
  <2>1. (\A i \in A : i < mid) /\ (\A i \in B : mid <= i) /\ mid \in Int
    BY <1>1, <1>3, <1>4
  <2>2. BitSet(A) /\ BitSet(B)
    BY <1>8
  <2> HIDE DEF LowBits, BitSet
  <2>3. Cardinality(A \cup B) = Cardinality(A) + Cardinality(B)
    BY ONLY <2>1, <2>2, BothCount
  <2>4. ASSUME NEW j \in Int, j <= mid PROVE LowBits(A \cup B, j) = LowBits(A, j)
    BY ONLY <2>1, <2>2, <2>4, BothCount
  <2>5. ASSUME NEW j \in Int, mid <= j
        PROVE  Cardinality(LowBits(A \cup B, j)) = Cardinality(A) + Cardinality(LowBits(B, j))
    <3>1. \A i \in Int : mid <= i =>
            Cardinality(LowBits(A \cup B, i)) = Cardinality(A) + Cardinality(LowBits(B, i))
      <4> DEFINE P(u, w, c) == \A i \in Int : c <= i =>
                   Cardinality(LowBits(u \cup w, i)) = Cardinality(u) + Cardinality(LowBits(w, i))
      <4>1. ASSUME NEW u, NEW w, NEW c \in Int, BitSet(u), BitSet(w), \A i \in u : i < c, \A i \in w : c <= i
            PROVE  P(u, w, c)
        BY ONLY <4>1, BothCount
      <4> HIDE DEF P
      <4>2. P(A, B, mid)
        BY ONLY <2>1, <2>2, <4>1
      <4> QED  BY <4>2 DEF P
    <3> QED  BY ONLY <2>5, <3>1
  <2> QED  BY ONLY <2>3, <2>4, <2>5
<1>10. /\ all.vals \in Seq(Nat) /\ Len(all.vals) = Cardinality(A) + Cardinality(B)
       /\ \A i \in 1 .. Cardinality(A) + Cardinality(B) :
            all.vals[i] = IF i <= Cardinality(A) THEN here.vals[i] ELSE next.vals[i - Cardinality(A)]
  <2>1. \A p, q \in Seq(Nat) :
          /\ p \o q \in Seq(Nat) /\ Len(p \o q) = Len(p) + Len(q)
          /\ \A i \in 1 .. Len(p) + Len(q) :
               (p \o q)[i] = IF i <= Len(p) THEN p[i] ELSE q[i - Len(p)]
    BY ONLY ConcatProperties
  <2>2. here.vals \in Seq(Nat) /\ next.vals \in Seq(Nat)
    BY <1>3, <1>4
  <2> DEFINE p == here.vals
             q == next.vals
             ca == Cardinality(A)
             cb == Cardinality(B)
  <2>3. all.vals = p \o q /\ Len(p) = ca /\ Len(q) = cb /\ p \in Seq(Nat) /\ q \in Seq(Nat)
    BY <1>2, <1>3, <1>4, <2>2
  <2> HIDE DEF p, q, ca, cb
  <2>4. /\ all.vals \in Seq(Nat) /\ Len(all.vals) = ca + cb
        /\ \A i \in 1 .. ca + cb : all.vals[i] = IF i <= ca THEN p[i] ELSE q[i - ca]
    <3>1. /\ p \o q \in Seq(Nat) /\ Len(p \o q) = Len(p) + Len(q)
          /\ \A i \in 1 .. Len(p) + Len(q) :
               (p \o q)[i] = IF i <= Len(p) THEN p[i] ELSE q[i - Len(p)]
      BY ONLY <2>1, <2>3
    <3> QED  BY ONLY <2>3, <3>1
  <2> QED  BY <2>4 DEF p, q, ca, cb
<1>11. all.mask \subseteq from .. NEAR - 1
  <2>1. from .. mid - 1 \subseteq from .. NEAR - 1 /\ mid .. NEAR - 1 \subseteq from .. NEAR - 1
    BY <1>1, <1>5
  <2> QED  BY <1>2, <1>3, <1>4, <2>1
<1>12. ASSUME NEW x \in from .. NEAR - 1
       PROVE  x \in all.mask <=> x - from \in rem /\ Lookup(cur, x - from) # None
  <2>1. CASE x < mid
    <3>1. x \in from .. mid - 1 /\ x \notin mid .. NEAR - 1
      BY <1>1, <2>1
    <3> QED  BY <1>2, <1>3, <1>4, <3>1
  <2>2. CASE ~(x < mid)
    <3>1. x \in mid .. NEAR - 1 /\ x \notin from .. mid - 1
      BY <1>1, <2>2
    <3>2. x - mid \in Shr(rem, t) <=> x - from \in rem
      BY <1>1, <1>6, <3>1 DEF Shr
    <3>3. Lookup(b, x - mid) = Lookup(cur, x - from)
      BY <1>6, <3>1
    <3> QED  BY <1>2, <1>3, <1>4, <3>1, <3>2, <3>3
  <2> QED  BY <2>1, <2>2
<1>13. ASSUME NEW x \in all.mask
       PROVE  all.vals[Cardinality(LowBits(all.mask, x)) + 1] = Lookup(cur, x - from)
  <2>1. CASE x \in A
    <3>1. x \in Int /\ x <= mid
      BY <1>1, <1>3, <2>1
    <3>2. LowBits(all.mask, x) = LowBits(A, x)
      BY <1>2, <1>9, <3>1
    <3>3. Cardinality(LowBits(A, x)) \in Nat /\ Cardinality(LowBits(A, x)) < Cardinality(A)
      BY <1>8, <2>1, <3>1, LowPart, BitCounts
    <3> DEFINE k == Cardinality(LowBits(A, x)) + 1
    <3>4. k \in 1 .. Cardinality(A) + Cardinality(B) /\ k <= Cardinality(A)
      BY <1>8, <3>3
    <3>5. all.vals[k] = here.vals[k]
      BY <1>10, <3>4
    <3> QED  BY <1>3, <2>1, <3>2, <3>5
  <2>2. CASE x \in B
    <3>1. x \in Int /\ mid <= x /\ x \in mid .. NEAR - 1
      BY <1>1, <1>4, <2>2
    <3> DEFINE k == Cardinality(LowBits(B, x)) + 1
    <3>2. Cardinality(LowBits(all.mask, x)) = Cardinality(A) + Cardinality(LowBits(B, x))
      BY <1>2, <1>9, <3>1
    <3>3. Cardinality(LowBits(B, x)) \in Nat /\ Cardinality(LowBits(B, x)) < Cardinality(B)
      BY <1>8, <2>2, <3>1, LowPart, BitCounts
    <3> DEFINE j == Cardinality(A) + Cardinality(LowBits(B, x)) + 1
    <3>4. j \in 1 .. Cardinality(A) + Cardinality(B) /\ ~(j <= Cardinality(A)) /\ j - Cardinality(A) = k
      BY <1>8, <3>3
    <3>5. all.vals[j] = next.vals[k]
      <4> HIDE DEF j, k
      <4> QED  BY <1>10, <3>4
    <3>6. next.vals[k] = Lookup(b, x - mid)
      BY <1>4, <2>2
    <3>7. Lookup(b, x - mid) = Lookup(cur, x - from)
      BY <1>6, <3>1
    <3> QED  BY <3>2, <3>5, <3>6, <3>7
  <2> QED  BY <1>2, <2>1, <2>2
<1>14. Len(all.vals) = Cardinality(all.mask)
  BY <1>2, <1>9, <1>10
<1> QED  BY <1>10, <1>11, <1>12, <1>13, <1>14 DEF ValuesRight, all

\* The bits m of a frame, moved to where they lie for the one that asks.
LEMMA TakenRight ==
  ASSUME StoreOK(envs, slots), NEW cur \in Ids, envs[cur].tag = "framed",
         NEW rem \in MaskSet, NEW from \in Nat, NEW t \in Nat, t <= envs[cur].cut,
         NEW m, m = LowBits(rem \cap envs[cur].mask, t),
         NEW here, here.mask = {i + from : i \in m}, here.vals = Taken(envs[cur], m)
  PROVE  ValuesRight(cur, rem, from, from + t, here)
<1> DEFINE n == envs[cur]
<1>0. cur \in 1 .. Len(envs)
  BY DEF Ids
<1>1. n.cut \in 0 .. NEAR /\ NEAR \in Nat /\ FAR = NEAR /\ n.mask \in MaskSet
  BY <1>0, NodeIs, NearIs
<1>2. n.mask \subseteq 0 .. NEAR
  BY <1>1, MaskIs
<1>3. \A i : i \in m <=> i \in rem /\ i \in n.mask /\ i < t
  BY DEF LowBits
<1>4. \A i \in m : i \in Nat /\ i < t
  <2> SUFFICES ASSUME NEW i \in m PROVE i \in Nat /\ i < t
    OBVIOUS
  <2>1. i \in n.mask /\ i < t
    BY <1>3
  <2>2. i \in 0 .. NEAR
    BY <1>2, <2>1
  <2> QED  BY ONLY <2>1, <2>2
<1>5. \A i \in Nat : i < t => (i \in n.mask <=> i \in Near(n.mask))
  BY <1>1 DEF Near
<1>6. m \in SUBSET Near(n.mask)
  BY <1>3, <1>4, <1>5
<1>7. /\ BitSet(m) /\ Taken(n, m) \in Seq(Nat) /\ Len(Taken(n, m)) = Cardinality(m)
      /\ \A i \in m : Taken(n, m)[Cardinality(LowBits(m, i)) + 1] = Lookups(envs, slots)[cur][i]
  BY <1>6, TakenIs
<1>8. \A i \in Nat : i < t => (i \in n.mask <=> Lookup(cur, i) # None)
  <2> SUFFICES ASSUME NEW i \in Nat, i < t PROVE i \in n.mask <=> Lookup(cur, i) # None
    OBVIOUS
  <2>1. i < n.cut
    BY <1>1
  <2>2. i \in Near(n.mask) => Lookup(cur, i) # None
    BY <1>0, FrameValue DEF Lookup
  <2>3. i \notin Near(n.mask) => Lookup(cur, i) = None
    BY <1>0, <2>1, LookFramed DEF Lookup
  <2> QED  BY <1>5, <2>2, <2>3
<1> HIDE DEF n
<1>9. \A x \in here.mask : x \in Nat /\ x - from \in m /\ x >= from /\ x < from + t
  <2> SUFFICES ASSUME NEW x \in here.mask
               PROVE  x \in Nat /\ x - from \in m /\ x >= from /\ x < from + t
    OBVIOUS
  <2>1. PICK i \in m : x = i + from
    OBVIOUS
  <2>2. i \in Nat /\ i < t /\ from \in Nat /\ t \in Nat
    BY <1>4
  <2>3. x - from = i
    BY ONLY <2>1, <2>2
  <2>4. x \in Nat /\ x >= from /\ x < from + t
    BY ONLY <2>1, <2>2
  <2> QED  BY <2>3, <2>4
<1>10. here.mask \subseteq from .. from + t - 1
  <2> SUFFICES ASSUME NEW x \in here.mask PROVE x \in from .. from + t - 1
    OBVIOUS
  <2>1. x \in Nat /\ x >= from /\ x < from + t /\ from \in Nat /\ t \in Nat
    BY <1>9
  <2> QED  BY ONLY <2>1
<1>11. here.vals \in Seq(Nat) /\ Len(here.vals) = Cardinality(here.mask)
  <2>1. from \in Int
    OBVIOUS
  <2>2. Cardinality({i + from : i \in m}) = Cardinality(m)
    BY <1>7, <2>1, MovedCounts
  <2> QED  BY <1>7, <2>2 DEF n
<1>12. ASSUME NEW x \in from .. from + t - 1
       PROVE  x \in here.mask <=> x - from \in rem /\ Lookup(cur, x - from) # None
  <2>1. x - from \in Nat /\ x - from < t /\ x = (x - from) + from
    OBVIOUS
  <2>2. x \in here.mask <=> x - from \in m
    BY <1>9, <2>1
  <2> QED  BY <1>3, <1>8, <2>1, <2>2
<1>13. ASSUME NEW x \in here.mask
       PROVE  here.vals[Cardinality(LowBits(here.mask, x)) + 1] = Lookup(cur, x - from)
  <2> DEFINE i == x - from
             low == LowBits(m, i)
  <2>1. i \in m /\ i \in Nat
    BY <1>4, <1>9
  <2>2. LowBits(here.mask, x) = {k + from : k \in low}
    <3>1. \A k \in m : k + from < x <=> k < i
      <4> SUFFICES ASSUME NEW k \in m PROVE k + from < x <=> k < i
        OBVIOUS
      <4>1. k \in Nat /\ x \in Nat /\ from \in Nat /\ i = x - from
        BY <1>4, <1>9
      <4> QED  BY ONLY <4>1
    <3> HIDE DEF i
    <3>2. \A y : y \in LowBits(here.mask, x) <=> \E k \in m : y = k + from /\ k < i
      BY <3>1 DEF LowBits
    <3> QED  BY <3>2 DEF LowBits
  <2>3. BitSet(low) /\ from \in Int
    <3>1. i \in Int
      BY <2>1
    <3> QED  BY <1>7, <3>1, LowPart
  <2>4. Cardinality(LowBits(here.mask, x)) = Cardinality(low)
    BY <2>2, <2>3, MovedCounts
  <2> QED  BY <1>7, <2>1, <2>4 DEF Lookup, n
<1> QED  BY ONLY <1>10, <1>11, <1>12, <1>13 DEF ValuesRight

\* What lies past the nearest variables of an environment.
RestOK(cur, rest) ==
  \/ rest = <<"none">>
  \/ \E e \in Ids : /\ rest = <<"env", e>>
                    /\ Holds(envs[e]) /\ envs[e].lsub = envs[cur].lsub
  \/ \E e \in Ids, d \in Nat : /\ rest = <<"frame", e, d>>
                               /\ envs[e].tag = "framed" /\ envs[e].lsub = envs[cur].lsub
                               /\ d < envs[e].cut

RestGives(rest, j) ==
  CASE rest[1] = "none"  -> None
    [] rest[1] = "env"   -> Lookup(rest[2], j)
    [] rest[1] = "frame" -> Lookup(rest[2], rest[3] + j)

\* rest gives what cur gives NEAR - from indices on.
RestRight(cur, from, keepFar, rest) ==
  /\ RestOK(cur, rest)
  /\ \A j \in Nat : RestGives(rest, j) = IF keepFar THEN Lookup(cur, NEAR - from + j) ELSE None

\* What is past an environment's first t variables is past those of the next.
LEMMA RestShift ==
  ASSUME NEW cur, NEW b, NEW from \in Nat, NEW t \in Nat, from + t <= NEAR, NEW keepFar, NEW rest,
         envs[b].lsub = envs[cur].lsub,
         \A i \in Nat : ~(i < t) => Lookup(cur, i) = Lookup(b, i - t),
         RestRight(b, from + t, keepFar, rest)
  PROVE  RestRight(cur, from, keepFar, rest)
<1>1. NEAR \in Nat
  BY NearIs
<1>2. RestOK(cur, rest)
  <2>1. RestOK(b, rest)
    BY DEF RestRight
  <2> QED  BY <2>1 DEF RestOK
<1>3. ASSUME NEW j \in Nat PROVE Lookup(cur, NEAR - from + j) = Lookup(b, NEAR - (from + t) + j)
  <2> DEFINE i == NEAR - from + j
  <2>1. i \in Nat /\ ~(i < t) /\ i - t = NEAR - (from + t) + j
    BY <1>1
  <2>2. Lookup(cur, i) = Lookup(b, i - t)
    BY <2>1
  <2> QED  BY <2>1, <2>2
<1> QED  BY <1>2, <1>3 DEF RestRight

\* What the loop makes of a node depends on the case it is in.  A frame has
\* Share of its variables within reach, of which Bits are asked for.
Share(cur, from) == Lesser(envs[cur].cut, NEAR - from)
Bits(cur, rem, from) == LowBits(rem \cap envs[cur].mask, Share(cur, from))

FrameHas(cur, rem, from, keepFar) ==
  [mask |-> {i + from : i \in Bits(cur, rem, from)},
   vals |-> Taken(envs[cur], Bits(cur, rem, from)),
   rest |-> IF Share(cur, from) < envs[cur].cut /\ keepFar
            THEN <<"frame", cur, Share(cur, from)>> ELSE <<"none">>]
ConsHas(cur, rem, from) ==
  IF 0 \in rem THEN [mask |-> {from}, vals |-> <<envs[cur].a>>, rest |-> <<"none">>] ELSE Nothing
FarHas(cur, keepFar) ==
  [mask |-> {}, vals |-> <<>>, rest |-> IF keepFar THEN Rest(cur) ELSE <<"none">>]

LEMMA GatherFramed ==
  ASSUME NEW g, NEW cur, NEW rem, NEW from, NEW keepFar \in BOOLEAN,
         envs[cur].tag = "framed", from # NEAR, rem # {} \/ keepFar
  PROVE  GatherAt(g, cur, rem, from, keepFar) =
           IF Share(cur, from) < envs[cur].cut \/ envs[cur].b = NO_ENV
           THEN FrameHas(cur, rem, from, keepFar)
           ELSE Then(FrameHas(cur, rem, from, keepFar),
                     g[envs[cur].b][<<Shr(rem, Share(cur, from)), from + Share(cur, from)>>])
BY DEF GatherAt, FrameHas, Bits, Share

LEMMA GatherCons ==
  ASSUME NEW g, NEW cur, NEW rem, NEW from, NEW keepFar \in BOOLEAN,
         envs[cur].tag = "cons", from # NEAR, rem # {} \/ keepFar
  PROVE  GatherAt(g, cur, rem, from, keepFar) =
           Then(ConsHas(cur, rem, from), g[envs[cur].b][<<Shr(rem, 1), from + 1>>])
BY DEF GatherAt, ConsHas

LEMMA GatherFar ==
  ASSUME NEW g, NEW cur, NEW rem, NEW keepFar \in BOOLEAN
  PROVE  GatherAt(g, cur, rem, NEAR, keepFar) = FarHas(cur, keepFar)
BY DEF GatherAt, Nothing, FarHas

LEMMA GatherNothing ==
  ASSUME NEW g, NEW cur, NEW rem, NEW from, NEW keepFar \in BOOLEAN, from # NEAR,
         (rem = {} /\ ~keepFar) \/ envs[cur].tag = "nil"
  PROVE  GatherAt(g, cur, rem, from, keepFar) = Nothing
BY DEF GatherAt

RestKinds == {<<"none">>} \cup {<<"env", e>> : e \in Ids}
             \cup {<<"frame", e, d>> : e \in Ids, d \in Nat}
Parts == [mask: SUBSET Int, vals: Seq(Nat), rest: RestKinds]
Asks  == MaskSet \X (0 .. NEAR)

LEMMA ShrTyped == ASSUME NEW mask \in MaskSet, NEW k \in Nat PROVE Shr(mask, k) \in MaskSet
BY DEF Shr, MaskSet

LEMMA NothingTyped == Nothing \in Parts
<1>1. <<>> \in Seq(Nat) /\ {} \in SUBSET Int /\ <<"none">> \in RestKinds
  BY DEF RestKinds
<1> QED  BY <1>1 DEF Nothing, Parts

LEMMA ThenTyped == ASSUME NEW h \in Parts, NEW r \in Parts PROVE Then(h, r) \in Parts
<1>1. /\ h.mask \in SUBSET Int /\ r.mask \in SUBSET Int /\ r.rest \in RestKinds
      /\ h.vals \in Seq(Nat) /\ r.vals \in Seq(Nat)
  BY DEF Parts
<1>2. h.vals \o r.vals \in Seq(Nat)
  BY <1>1, ConcatProperties
<1>3. h.mask \cup r.mask \in SUBSET Int
  BY <1>1
<1> QED  BY <1>1, <1>2, <1>3 DEF Then, Parts

\* The node after an environment's own, for the nodes that have one.
LEMMA NextNode ==
  ASSUME StoreOK(envs, slots), NEW cur \in Ids,
         envs[cur].tag = "cons" \/ (envs[cur].tag = "framed" /\ envs[cur].b # NO_ENV)
  PROVE  /\ envs[cur].b \in Ids /\ envs[cur].b < cur /\ envs[envs[cur].b].lsub = envs[cur].lsub
         /\ envs[cur].tag = "framed" => Holds(envs[envs[cur].b])
<1>1. /\ cur \in Nat /\ Len(envs) \in Nat /\ envs[cur].b \in Nat /\ cur <= Len(envs)
      /\ envs[cur].tag = "cons" => ConsOK(envs, envs[cur], cur)
      /\ envs[cur].tag = "framed" => FrameOK(envs, slots, envs[cur], cur)
  <2>1. cur \in 1 .. Len(envs)
    BY DEF Ids
  <2>2. cur \in Nat /\ Len(envs) \in Nat /\ envs[cur].b \in Nat
    BY <2>1, NodeIs
  <2>3. cur <= Len(envs)
    BY <2>1, <2>2
  <2> QED  BY <2>1, <2>2, <2>3, NodeIs
<1> DEFINE b == envs[cur].b
<1>2. b \in 0 .. cur - 1 /\ b # 0 /\ envs[b].lsub = envs[cur].lsub
      /\ (envs[cur].tag = "framed" => Holds(envs[b]))
  <2>1. CASE envs[cur].tag = "cons"
    <3>1. b \in 1 .. cur - 1 /\ envs[cur].lsub = envs[b].lsub
      BY <1>1, <2>1 DEF ConsOK
    <3> HIDE DEF b
    <3> QED  BY <1>1, <2>1, <3>1
  <2>2. CASE envs[cur].tag = "framed" /\ envs[cur].b # NO_ENV
    BY <1>1, <2>2 DEF FrameOK, NO_ENV
  <2> QED  BY <2>1, <2>2
<1>3. b \in Nat /\ cur \in Nat /\ Len(envs) \in Nat
  BY <1>1
<1>4. b \in 1 .. Len(envs) /\ b < cur
  <2> HIDE DEF b
  <2> QED  BY <1>1, <1>2, <1>3
<1> QED  BY <1>2, <1>4 DEF Ids

\* The part a frame has to itself: t of its variables.
LEMMA FrameShare ==
  ASSUME StoreOK(envs, slots), NEW cur \in Ids, envs[cur].tag = "framed",
         NEW from \in 0 .. NEAR, from # NEAR
  PROVE  LET t == Share(cur, from)
         IN  /\ t \in Nat /\ t <= envs[cur].cut /\ from + t \in 0 .. NEAR /\ from + t <= NEAR
             /\ t < envs[cur].cut => from + t = NEAR
             /\ ~(t < envs[cur].cut) => t = envs[cur].cut
             /\ ~(t < envs[cur].cut) /\ envs[cur].b = NO_ENV => from = 0 /\ t = NEAR
<1> DEFINE c == envs[cur].cut
<1>1. c \in 0 .. NEAR /\ NEAR \in Nat /\ (envs[cur].b = NO_ENV => c = NEAR)
  <2>1. cur \in 1 .. Len(envs)
    BY DEF Ids
  <2> QED  BY <2>1, NodeIs, NearIs DEF FrameOK
<1> DEFINE none == envs[cur].b = NO_ENV
           t == Share(cur, from)
<1>2. none => c = NEAR
  BY <1>1
<1>3. t = IF c < NEAR - from THEN c ELSE NEAR - from
  BY DEF Lesser, Share
<1> HIDE DEF c, none, t
<1>4. /\ t \in Nat /\ t <= c /\ from + t \in 0 .. NEAR /\ from + t <= NEAR
      /\ t < c => from + t = NEAR
      /\ ~(t < c) => t = c
  BY <1>1, <1>3
<1>5. ~(t < c) /\ none => from = 0 /\ t = NEAR
  BY <1>1, <1>2, <1>3
<1> QED  BY <1>4, <1>5 DEF c, none, t

\* One turn of the loop gives a part, if the later turns do.
LEMMA GatherTyped ==
  ASSUME StoreOK(envs, slots), NEW cur \in Ids, NEW rem \in MaskSet, NEW from, from \in 0 .. NEAR,
         NEW keepFar \in BOOLEAN, NEW g, g \in [Ids -> [Asks -> Parts]]
  PROVE  GatherAt(g, cur, rem, from, keepFar) \in Parts
<1> DEFINE n == envs[cur]
<1>1. cur \in 1 .. Len(envs) /\ n.tag \in {"nil", "cons", "framed"} /\ n.a \in Nat
  <2>1. cur \in 1 .. Len(envs)
    BY DEF Ids
  <2> QED  BY <2>1, NodeIs
<1>2. <<>> \in Seq(Nat) /\ {} \in SUBSET Int /\ NEAR \in Nat
  BY NearIs
<1>3. CASE from = NEAR
  <2>1. (IF keepFar THEN Rest(cur) ELSE <<"none">>) \in RestKinds
    BY DEF Rest, RestKinds
  <2>2. FarHas(cur, keepFar) \in Parts
    BY <1>2, <2>1 DEF Parts, FarHas
  <2> QED  BY <1>3, <2>2, GatherFar
<1>4. CASE from # NEAR /\ ((rem = {} /\ ~keepFar) \/ n.tag = "nil")
  BY <1>4, GatherNothing, NothingTyped
<1>5. CASE from # NEAR /\ (rem # {} \/ keepFar) /\ n.tag = "cons"
  <2>1. <<n.a>> \in Seq(Nat) /\ {from} \in SUBSET Int /\ <<"none">> \in RestKinds
    BY <1>1 DEF RestKinds
  <2>2. ConsHas(cur, rem, from) \in Parts
    BY <2>1, NothingTyped DEF Parts, ConsHas
  <2>3. from + 1 \in 0 .. NEAR /\ Shr(rem, 1) \in MaskSet
    BY <1>2, <1>5, ShrTyped
  <2>4. <<Shr(rem, 1), from + 1>> \in Asks /\ n.b \in Ids
    BY <1>5, <2>3, NextNode DEF Asks
  <2>5. g[n.b][<<Shr(rem, 1), from + 1>>] \in Parts
    BY <2>4
  <2>6. from # NEAR /\ (rem # {} \/ keepFar) /\ envs[cur].tag = "cons" /\ keepFar \in BOOLEAN
    BY <1>5
  <2>7. GatherAt(g, cur, rem, from, keepFar) =
          Then(ConsHas(cur, rem, from), g[envs[cur].b][<<Shr(rem, 1), from + 1>>])
    BY ONLY <2>6, GatherCons
  <2> QED  BY <2>2, <2>5, <2>7, ThenTyped
<1>6. CASE from # NEAR /\ (rem # {} \/ keepFar) /\ n.tag = "framed"
  <2> DEFINE t == Share(cur, from)
             m == Bits(cur, rem, from)
             here == FrameHas(cur, rem, from, keepFar)
             next == g[n.b][<<Shr(rem, t), from + t>>]
  <2>1. GatherAt(g, cur, rem, from, keepFar) =
          IF t < n.cut \/ n.b = NO_ENV THEN here ELSE Then(here, next)
    <3>1. /\ from # NEAR /\ (rem # {} \/ keepFar) /\ envs[cur].tag = "framed"
          /\ keepFar \in BOOLEAN
      BY <1>6
    <3> QED  BY ONLY <3>1, GatherFramed
  <2>2. t \in Nat /\ t <= n.cut /\ from + t \in 0 .. NEAR
    BY <1>6, FrameShare
  <2>3. /\ here.mask = {i + from : i \in m} /\ here.vals = Taken(n, m)
        /\ m = LowBits(rem \cap n.mask, t)
    BY DEF FrameHas, Bits
  <2> HIDE DEF t, n
  <2>4. ValuesRight(cur, rem, from, from + t, here)
    <3>1. from \in Nat
      OBVIOUS
    <3> HIDE DEF here, m
    <3> QED  BY <1>6, <2>2, <2>3, <3>1, TakenRight DEF n
  <2>5. here.vals \in Seq(Nat) /\ here.mask \in SUBSET Int
    <3>1. from .. from + t - 1 \subseteq Int
      BY <2>2
    <3> HIDE DEF here, m
    <3> QED  BY <2>4, <3>1 DEF ValuesRight
  <2>6. here.rest \in RestKinds
    BY <2>2 DEF RestKinds, FrameHas, t
  <2>7. here \in Parts
    BY <2>5, <2>6 DEF Parts, FrameHas
  <2>8. n.b # NO_ENV => next \in Parts
    <3>1. Shr(rem, t) \in MaskSet
      BY <2>2, ShrTyped
    <3>2. <<Shr(rem, t), from + t>> \in Asks
      BY <2>2, <3>1 DEF Asks
    <3>3. n.b # NO_ENV => n.b \in Ids
      BY <1>6, NextNode DEF n
    <3> QED  BY <3>2, <3>3
  <2> HIDE DEF here, next
  <2> QED  BY <2>1, <2>7, <2>8, ThenTyped
<1> QED  BY <1>1, <1>3, <1>4, <1>5, <1>6

\* One turn of the loop looks at nodes before its own alone.
LEMMA GatherBelow ==
  ASSUME StoreOK(envs, slots), NEW cur \in Ids, NEW rem, NEW from, NEW keepFar \in BOOLEAN,
         NEW g, NEW h, \A k \in Ids : k < cur => g[k] = h[k]
  PROVE  GatherAt(g, cur, rem, from, keepFar) = GatherAt(h, cur, rem, from, keepFar)
<1> DEFINE n == envs[cur]
<1>1. n.tag \in {"nil", "cons", "framed"}
  <2>1. cur \in 1 .. Len(envs)
    BY DEF Ids
  <2> QED  BY <2>1, NodeIs
<1>2. n.tag = "cons" \/ (n.tag = "framed" /\ n.b # NO_ENV) => g[n.b] = h[n.b]
  BY NextNode
<1>3. CASE from = NEAR
  BY <1>3, GatherFar
<1>4. CASE from # NEAR /\ ((rem = {} /\ ~keepFar) \/ n.tag = "nil")
  BY <1>4, GatherNothing
<1>5. CASE from # NEAR /\ (rem # {} \/ keepFar) /\ n.tag = "cons"
  <2>1. from # NEAR /\ (rem # {} \/ keepFar) /\ envs[cur].tag = "cons" /\ keepFar \in BOOLEAN
    BY <1>5
  <2>2. GatherAt(g, cur, rem, from, keepFar) =
          Then(ConsHas(cur, rem, from), g[envs[cur].b][<<Shr(rem, 1), from + 1>>])
    BY ONLY <2>1, GatherCons
  <2>3. GatherAt(h, cur, rem, from, keepFar) =
          Then(ConsHas(cur, rem, from), h[envs[cur].b][<<Shr(rem, 1), from + 1>>])
    BY ONLY <2>1, GatherCons
  <2> QED  BY <1>2, <1>5, <2>2, <2>3
<1>6. CASE from # NEAR /\ (rem # {} \/ keepFar) /\ n.tag = "framed"
  <2> DEFINE t == Share(cur, from)
             here == FrameHas(cur, rem, from, keepFar)
  <2>0. from # NEAR /\ (rem # {} \/ keepFar) /\ envs[cur].tag = "framed" /\ keepFar \in BOOLEAN
    BY <1>6
  <2>1. GatherAt(g, cur, rem, from, keepFar) =
          IF t < n.cut \/ n.b = NO_ENV THEN here ELSE Then(here, g[n.b][<<Shr(rem, t), from + t>>])
    BY ONLY <2>0, GatherFramed
  <2>2. GatherAt(h, cur, rem, from, keepFar) =
          IF t < n.cut \/ n.b = NO_ENV THEN here ELSE Then(here, h[n.b][<<Shr(rem, t), from + t>>])
    BY ONLY <2>0, GatherFramed
  <2>3. n.b # NO_ENV => g[n.b] = h[n.b]
    BY <1>2, <1>6
  <2> HIDE DEF here, t, n
  <2> QED  BY <2>1, <2>2, <2>3
<1> QED  BY <1>1, <1>3, <1>4, <1>5, <1>6

Gathering(keepFar) ==
  CHOOSE g : g = [cur \in Ids |->
                   [q \in Asks |-> GatherAt(g, cur, q[1], q[2], keepFar)]]

\* Gather exists and satisfies its definition, as Lookups does.
LEMMA GatherIs ==
  ASSUME StoreOK(envs, slots), NEW keepFar \in BOOLEAN
  PROVE  /\ Gathering(keepFar) \in [Ids -> [Asks -> Parts]]
         /\ \A e, asks : Gather(e, asks, keepFar) = Gathering(keepFar)[e][<<asks, 0>>]
         /\ \A cur \in Ids, rem \in MaskSet, from \in 0 .. NEAR :
              Gathering(keepFar)[cur][<<rem, from>>] =
                GatherAt(Gathering(keepFar), cur, rem, from, keepFar)
<1> DEFINE S == Ids
           V == [Asks -> Parts]
           H == [e \in S |-> e]
           At(g, cur) == [q \in Asks |-> GatherAt(g, cur, q[1], q[2], keepFar)]
           step == [y \in S \X [S -> V] |-> At(y[2], y[1])]
           chosen == CHOOSE g : g = [cur \in S |-> At(g, cur)]
<1>0. Gathering(keepFar) = chosen
  BY DEF Gathering
<1>1. \A q \in Asks : q[1] \in MaskSet /\ q[2] \in 0 .. NEAR
  BY DEF Asks
<1>2. ASSUME NEW cur \in S, NEW g \in [S -> V] PROVE At(g, cur) \in V
  <2>1. \A q \in Asks : GatherAt(g, cur, q[1], q[2], keepFar) \in Parts
    BY <1>1, GatherTyped
  <2> QED  BY <2>1
<1>3. ASSUME NEW cur \in S, NEW g, NEW h, \A k \in S : k < cur => g[k] = h[k]
      PROVE  At(g, cur) = At(h, cur)
  <2>1. \A q \in Asks : GatherAt(g, cur, q[1], q[2], keepFar) = GatherAt(h, cur, q[1], q[2], keepFar)
    BY <1>3, GatherBelow
  <2> QED  BY <2>1
<1>4. \A e \in S : H[e] \in Nat
  BY NodeIs DEF Ids
<1>5. Gather(1, {}, keepFar) = chosen[1][<<{}, 0>>]
      /\ \A e, asks : Gather(e, asks, keepFar) = chosen[e][<<asks, 0>>]
  BY DEF Gather, Asks
<1>6. V # {}
  <2>1. [q \in Asks |-> Nothing] \in V
    BY NothingTyped
  <2> QED  BY <2>1
<1> HIDE DEF At, V, S
<1>7. step \in [S \X [S -> V] -> V]
  BY <1>2
<1>8. \A e \in S : \A g \in [S -> V] : step[<<e, g>>] = At(g, e)
  OBVIOUS
<1>9. \A e \in S : \A g, h \in [S -> V] :
        (\A k \in S : H[k] < H[e] => g[k] = h[k]) => step[<<e, g>>] = step[<<e, h>>]
  BY <1>3, <1>8
<1> HIDE DEF step
<1>10. IsRecursion(S, V, H, step)
  BY <1>4, <1>7, <1>9 DEF IsRecursion
<1>11. PICK f : Solves(f, S, V, step)
  <2> HIDE DEF H
  <2> QED  BY ONLY <1>6, <1>10, HeightRecursion
<1>12. f = [e \in S |-> At(f, e)]
  BY <1>8, <1>11 DEF Solves
<1>13. chosen = [e \in S |-> At(chosen, e)]
  BY <1>12
<1> HIDE DEF chosen
<1>14. \A e \in S : chosen[e] = At(chosen, e)
  BY <1>13
<1> DEFINE T == {e \in S : chosen[e] \in V}
<1>15. ASSUME NEW e \in S, \A k \in S : H[k] < H[e] => k \in T PROVE e \in T
  <2>1. PICK v \in V : TRUE
    BY <1>6
  <2> DEFINE h == [k \in S |-> IF chosen[k] \in V THEN chosen[k] ELSE v]
  <2>2. h \in [S -> V]
    OBVIOUS
  <2>3. \A k \in S : k < e => chosen[k] = h[k]
    BY <1>15
  <2> HIDE DEF h
  <2>4. At(chosen, e) = At(h, e) /\ At(h, e) \in V
    BY <1>2, <1>3, <2>2, <2>3
  <2> QED  BY <1>14, <2>4
<1>16. S \subseteq T
  <2> HIDE DEF T, H
  <2> QED  BY <1>4, <1>15, HeightInduction
<1>17. chosen \in [S -> V]
  BY <1>13, <1>16
<1>18. ASSUME NEW cur \in Ids, NEW rem \in MaskSet, NEW from \in 0 .. NEAR
       PROVE  chosen[cur][<<rem, from>>] = GatherAt(chosen, cur, rem, from, keepFar)
  <2>1. <<rem, from>> \in Asks
    BY DEF Asks
  <2>2. chosen[cur] = [q \in Asks |-> GatherAt(chosen, cur, q[1], q[2], keepFar)]
    BY <1>14 DEF At, S
  <2> QED  BY <2>1, <2>2
<1> QED  BY <1>0, <1>5, <1>17, <1>18 DEF V, S

\* What each kind of rest gives.
LEMMA NoneGives ==
  ASSUME NEW cur, NEW from, NEW keepFar \in BOOLEAN,
         keepFar => \A j \in Nat : Lookup(cur, NEAR - from + j) = None
  PROVE  RestRight(cur, from, keepFar, <<"none">>)
<1> DEFINE rest == <<"none">>
<1>1. rest[1] = "none" /\ RestOK(cur, rest)
  BY DEF RestOK
<1>2. \A j : RestGives(rest, j) = None
  <2> HIDE DEF rest
  <2> QED  BY <1>1 DEF RestGives
<1> HIDE DEF rest
<1>3. RestRight(cur, from, keepFar, rest)
  BY <1>1, <1>2 DEF RestRight
<1> QED  BY <1>3 DEF rest

LEMMA EnvGives ==
  ASSUME NEW e, NEW rest, rest = <<"env", e>>
  PROVE  \A j : RestGives(rest, j) = Lookup(e, j)
<1>1. rest[1] = "env" /\ rest[2] = e
  OBVIOUS
<1> QED  BY <1>1 DEF RestGives

LEMMA FrameGives ==
  ASSUME NEW e, NEW d, NEW rest, rest = <<"frame", e, d>>
  PROVE  \A j : RestGives(rest, j) = Lookup(e, d + j)
<1>1. rest[1] = "frame" /\ rest[2] = e /\ rest[3] = d
  OBVIOUS
<1> QED  BY <1>1 DEF RestGives

\* r has what is asked for of the variables of cur.
PartRight(cur, rem, from, keepFar, r) ==
  ValuesRight(cur, rem, from, NEAR, r) /\ RestRight(cur, from, keepFar, r.rest)

\* Each case of the loop is right.
LEMMA NilPart ==
  ASSUME StoreOK(envs, slots), NEW cur \in Ids, NEW rem \in MaskSet, NEW from \in 0 .. NEAR,
         NEW keepFar \in BOOLEAN, (rem = {} /\ ~keepFar) \/ envs[cur].tag = "nil"
  PROVE  PartRight(cur, rem, from, keepFar, Nothing)
<1>1. NEAR \in Nat
  BY NearIs
<1>2. envs[cur].tag = "nil" => \A i \in Nat : Lookup(cur, i) = None
  <2>1. cur \in 1 .. Len(envs)
    BY DEF Ids
  <2> QED  BY <2>1, LookNil DEF Lookup
<1>3. \A x \in from .. NEAR - 1 : x - from \in Nat
  BY <1>1
<1>4. \A x \in from .. NEAR - 1 : x - from \notin rem \/ Lookup(cur, x - from) = None
  BY <1>2, <1>3
<1>5. \A j \in Nat : NEAR - from + j \in Nat
  BY <1>1
<1>6. keepFar => \A j \in Nat : Lookup(cur, NEAR - from + j) = None
  BY <1>2, <1>5
<1>7. Nothing.mask = {} /\ Nothing.vals = <<>> /\ Nothing.rest = <<"none">>
  BY DEF Nothing
<1>8. ValuesRight(cur, rem, from, NEAR, Nothing)
  BY ONLY <1>4, <1>7, NothingRight
<1>9. RestRight(cur, from, keepFar, <<"none">>)
  BY <1>6, NoneGives
<1> QED  BY <1>7, <1>8, <1>9 DEF PartRight

\* Where the near variables are used up, the rest is the node itself.
LEMMA FarPart ==
  ASSUME StoreOK(envs, slots), NEW cur \in Ids, NEW rem \in MaskSet, NEW keepFar \in BOOLEAN
  PROVE  PartRight(cur, rem, NEAR, keepFar, FarHas(cur, keepFar))
<1>1. NEAR \in Nat /\ \A j \in Nat : NEAR - NEAR + j = j
  BY NearIs
<1>2. cur \in 1 .. Len(envs) /\ envs[cur].tag \in {"nil", "cons", "framed"}
  <2>1. cur \in 1 .. Len(envs)
    BY DEF Ids
  <2> QED  BY <2>1, NodeIs
<1> DEFINE r == FarHas(cur, keepFar)
<1>3. /\ r.mask = {} /\ r.vals = <<>>
      /\ r.rest = IF keepFar THEN Rest(cur) ELSE <<"none">>
  BY DEF FarHas
<1>4. Rest(cur) = IF Holds(envs[cur]) THEN <<"env", cur>> ELSE <<"none">>
  BY <1>2 DEF Rest, Holds
<1>5. \A x \in NEAR .. NEAR - 1 : x - NEAR \notin rem \/ Lookup(cur, x - NEAR) = None
  BY <1>1
<1> HIDE DEF r
<1>6. ValuesRight(cur, rem, NEAR, NEAR, r)
  BY ONLY <1>3, <1>5, NothingRight
<1>7. RestRight(cur, NEAR, keepFar, r.rest)
  <2>1. CASE keepFar /\ Holds(envs[cur])
    <3>1. r.rest = <<"env", cur>>
      BY <1>3, <1>4, <2>1
    <3>2. RestOK(cur, r.rest)
      BY <2>1, <3>1 DEF RestOK
    <3>3. \A j \in Nat : RestGives(r.rest, j) = Lookup(cur, j)
      BY <3>1, EnvGives
    <3>4. \A j \in Nat : RestGives(r.rest, j) = Lookup(cur, NEAR - NEAR + j)
      BY <1>1, <3>3
    <3> QED  BY <2>1, <3>2, <3>4 DEF RestRight
  <2>2. CASE ~(keepFar /\ Holds(envs[cur]))
    <3>1. r.rest = <<"none">>
      BY <1>3, <1>4, <2>2
    <3>2. keepFar => \A j \in Nat : Lookup(cur, j) = None
      BY <1>2, <2>2, EmptyGives DEF Lookup
    <3>3. keepFar => \A j \in Nat : Lookup(cur, NEAR - NEAR + j) = None
      BY <1>1, <3>2
    <3>4. RestRight(cur, NEAR, keepFar, <<"none">>)
      BY <3>3, NoneGives
    <3> QED  BY <3>1, <3>4
  <2> QED  BY <2>1, <2>2
<1> QED  BY <1>6, <1>7 DEF PartRight, r

\* b goes on where the first t variables of cur end.
Continues(cur, b, t) ==
  /\ envs[b].lsub = envs[cur].lsub
  /\ \A i \in Nat : ~(i < t) => Lookup(cur, i) = Lookup(b, i - t)

\* What a node has, together with what those after it have.
LEMMA ThenPart ==
  ASSUME NEW cur, NEW b, NEW rem \in MaskSet, NEW from \in Nat, NEW t \in Nat, from + t <= NEAR,
         NEW keepFar \in BOOLEAN, NEW here, NEW next, Continues(cur, b, t),
         ValuesRight(cur, rem, from, from + t, here),
         PartRight(b, Shr(rem, t), from + t, keepFar, next)
  PROVE  PartRight(cur, rem, from, keepFar, Then(here, next))
<1>1. ValuesRight(b, Shr(rem, t), from + t, NEAR, next) /\ RestRight(b, from + t, keepFar, next.rest)
  BY DEF PartRight
<1>0. envs[b].lsub = envs[cur].lsub /\ \A i \in Nat : ~(i < t) => Lookup(cur, i) = Lookup(b, i - t)
  BY DEF Continues
<1>2. ValuesRight(cur, rem, from, NEAR, Then(here, next))
  BY <1>0, <1>1, ThenRight
<1>3. RestRight(cur, from, keepFar, next.rest)
  BY <1>0, <1>1, RestShift
<1>4. Then(here, next).rest = next.rest
  BY DEF Then
<1> QED  BY <1>2, <1>3, <1>4 DEF PartRight

\* What an extension has of what is asked for.
LEMMA ConsPart ==
  ASSUME StoreOK(envs, slots), NEW cur \in Ids, envs[cur].tag = "cons", NEW rem, NEW from \in Nat
  PROVE  ValuesRight(cur, rem, from, from + 1, ConsHas(cur, rem, from))
<1> DEFINE h == ConsHas(cur, rem, from)
           v == envs[cur].a
<1>1. cur \in 1 .. Len(envs)
  BY DEF Ids
<1>2. v \in Nat /\ v # None
  BY <1>1, NodeIs DEF ConsOK
<1>3. Lookup(cur, 0) = v
  BY <1>1, LookCons DEF Lookup
<1>4. \A x \in from .. from + 1 - 1 : x = from /\ x - from = 0
  OBVIOUS
<1>5. CASE 0 \in rem
  <2>1. h.mask = {from} /\ h.vals = <<v>>
    BY <1>5 DEF ConsHas
  <2> HIDE DEF h, v
  <2>2. <<v>> \in Seq(Nat) /\ Len(<<v>>) = 1 /\ <<v>>[1] = v
    BY <1>2
  <2>3. Cardinality({from}) = 1
    BY FS_Singleton
  <2>4. LowBits({from}, from) = {}
    BY DEF LowBits
  <2>5. Cardinality(LowBits({from}, from)) = 0
    BY <2>4, FS_EmptySet
  <2>6. from - from = 0 /\ from \in from .. from + 1 - 1
    OBVIOUS
  <2>7. \A x \in h.mask : h.vals[Cardinality(LowBits(h.mask, x)) + 1] = Lookup(cur, x - from)
    <3> SUFFICES ASSUME NEW x \in h.mask
                 PROVE  h.vals[Cardinality(LowBits(h.mask, x)) + 1] = Lookup(cur, x - from)
      OBVIOUS
    <3>1. x = from
      BY <2>1
    <3>2. Cardinality(LowBits(h.mask, x)) + 1 = 1
      BY <2>1, <2>5, <3>1
    <3> QED  BY <1>3, <2>1, <2>2, <2>6, <3>1, <3>2
  <2>8. \A x \in from .. from + 1 - 1 : x \in h.mask <=> x - from \in rem /\ Lookup(cur, x - from) # None
    BY <1>2, <1>3, <1>4, <1>5, <2>1
  <2> QED  BY <2>1, <2>2, <2>3, <2>6, <2>7, <2>8 DEF ValuesRight, h
<1>6. CASE 0 \notin rem
  <2>1. h.mask = {} /\ h.vals = <<>>
    BY <1>6 DEF ConsHas, Nothing
  <2>2. \A x \in from .. from + 1 - 1 : x - from \notin rem \/ Lookup(cur, x - from) = None
    BY <1>4, <1>6
  <2> HIDE DEF h
  <2>3. ValuesRight(cur, rem, from, from + 1, h)
    BY ONLY <2>1, <2>2, NothingRight
  <2> QED  BY <2>3 DEF h
<1> QED  BY <1>5, <1>6

\* What a frame has of what is asked for, and its rest.
LEMMA FramePart ==
  ASSUME StoreOK(envs, slots), NEW cur \in Ids, envs[cur].tag = "framed", NEW rem \in MaskSet,
         NEW from \in 0 .. NEAR, from # NEAR, NEW keepFar \in BOOLEAN
  PROVE  /\ ValuesRight(cur, rem, from, from + Share(cur, from), FrameHas(cur, rem, from, keepFar))
         /\ Share(cur, from) < envs[cur].cut \/ envs[cur].b = NO_ENV =>
              PartRight(cur, rem, from, keepFar, FrameHas(cur, rem, from, keepFar))
<1> DEFINE t == Share(cur, from)
           h == FrameHas(cur, rem, from, keepFar)
           m == Bits(cur, rem, from)
<1>1. /\ h.mask = {i + from : i \in m} /\ h.vals = Taken(envs[cur], m)
      /\ h.rest = IF t < envs[cur].cut /\ keepFar THEN <<"frame", cur, t>> ELSE <<"none">>
      /\ m = LowBits(rem \cap envs[cur].mask, t)
  BY DEF FrameHas, Bits
<1>2. /\ t \in Nat /\ t <= envs[cur].cut /\ from + t \in 0 .. NEAR /\ from + t <= NEAR
      /\ t < envs[cur].cut => from + t = NEAR
      /\ ~(t < envs[cur].cut) => t = envs[cur].cut
      /\ ~(t < envs[cur].cut) /\ envs[cur].b = NO_ENV => from = 0 /\ t = NEAR
  BY FrameShare
<1>3. cur \in 1 .. Len(envs) /\ NEAR \in Nat
  BY NearIs DEF Ids
<1> HIDE DEF t, h, m
<1>4. ValuesRight(cur, rem, from, from + t, h)
  <2>1. from \in Nat
    OBVIOUS
  <2> QED  BY <1>1, <1>2, <2>1, TakenRight
<1>5. CASE t < envs[cur].cut
  <2>1. from + t = NEAR /\ NEAR - from = t
    <3>1. from \in Nat /\ t \in Nat /\ from + t = NEAR
      BY <1>2, <1>5
    <3> QED  BY ONLY <3>1
  <2>2. RestRight(cur, from, keepFar, h.rest)
    <3>1. CASE keepFar
      <4>1. h.rest = <<"frame", cur, t>>
        BY <1>1, <1>5, <3>1
      <4>2. RestOK(cur, h.rest)
        <5>1. \E e \in Ids, d \in Nat : /\ h.rest = <<"frame", e, d>>
                                        /\ envs[e].tag = "framed" /\ envs[e].lsub = envs[cur].lsub
                                        /\ d < envs[e].cut
          BY <1>2, <1>5, <4>1
        <5> QED  BY <5>1 DEF RestOK
      <4>3. \A j \in Nat : RestGives(h.rest, j) = Lookup(cur, NEAR - from + j)
        BY <2>1, <4>1, FrameGives
      <4> QED  BY <3>1, <4>2, <4>3 DEF RestRight
    <3>2. CASE ~keepFar
      BY <1>1, <3>2, NoneGives
    <3> QED  BY <3>1, <3>2
  <2> QED  BY <1>4, <2>1, <2>2 DEF PartRight, t, h
<1>6. CASE ~(t < envs[cur].cut) /\ envs[cur].b = NO_ENV
  <2>1. from = 0 /\ t = NEAR /\ from + t = NEAR /\ t = envs[cur].cut
    BY <1>2, <1>3, <1>6
  <2>2. \A j \in Nat : NEAR - from + j \in Nat /\ ~(NEAR - from + j < NEAR)
    BY <1>3, <2>1
  <2>3. \A j \in Nat : Lookup(cur, NEAR - from + j) = None
    <3> SUFFICES ASSUME NEW j \in Nat PROVE Lookup(cur, NEAR - from + j) = None
      OBVIOUS
    <3> DEFINE i == NEAR - from + j
    <3>1. i \in Nat /\ ~(i < envs[cur].cut)
      BY <2>1, <2>2
    <3> HIDE DEF i
    <3>2. Lookups(envs, slots)[cur][i] = None
      BY <1>3, <1>6, <3>1, LookFramed
    <3> QED  BY <3>2 DEF Lookup, i
  <2>4. h.rest = <<"none">>
    BY <1>1, <1>6
  <2>5. RestRight(cur, from, keepFar, h.rest)
    BY <2>3, <2>4, NoneGives
  <2> QED  BY <1>4, <2>1, <2>5 DEF PartRight, t, h
<1> QED  BY <1>4, <1>5, <1>6 DEF t, h

\* The loop gathers what is asked for, whichever nodes it comes from.
LEMMA GatherRight ==
  ASSUME StoreOK(envs, slots), NEW keepFar \in BOOLEAN
  PROVE  \A cur \in Ids, rem \in MaskSet, from \in 0 .. NEAR :
           PartRight(cur, rem, from, keepFar, Gathering(keepFar)[cur][<<rem, from>>])
<1> DEFINE S == Ids
           H == [e \in S |-> e]
           G == Gathering(keepFar)
           RightAt(cur) == \A rem \in MaskSet, from \in 0 .. NEAR :
                           PartRight(cur, rem, from, keepFar, G[cur][<<rem, from>>])
           T == {cur \in S : RightAt(cur)}
<1>1. \A e \in S : H[e] \in Nat
  BY NodeIs DEF Ids
<1>2. ASSUME NEW cur \in S, \A k \in S : H[k] < H[cur] => k \in T PROVE cur \in T
  <2> SUFFICES ASSUME NEW rem \in MaskSet, NEW from, from \in 0 .. NEAR
               PROVE  PartRight(cur, rem, from, keepFar, GatherAt(G, cur, rem, from, keepFar))
    BY GatherIs
  <2>0. cur \in 1 .. Len(envs)
    BY DEF Ids
  <2>1. envs[cur].tag \in {"nil", "cons", "framed"} /\ NEAR \in Nat
    BY <2>0, NodeIs, NearIs
  <2>2. ASSUME NEW b \in S, b < cur PROVE RightAt(b)
    BY <1>2, <2>2
  <2> HIDE DEF G, RightAt
  <2>3. CASE from = NEAR
    BY <2>3, GatherFar, FarPart
  <2>4. CASE from # NEAR /\ ((rem = {} /\ ~keepFar) \/ envs[cur].tag = "nil")
    <3>1. GatherAt(G, cur, rem, from, keepFar) = Nothing
      BY <2>4, GatherNothing
    <3> QED  BY <2>4, <3>1, NilPart
  <2>5. CASE from # NEAR /\ (rem # {} \/ keepFar) /\ envs[cur].tag = "cons"
    <3> DEFINE b == envs[cur].b
               next == G[b][<<Shr(rem, 1), from + 1>>]
    <3>1. GatherAt(G, cur, rem, from, keepFar) = Then(ConsHas(cur, rem, from), next)
      <4>1. from # NEAR /\ (rem # {} \/ keepFar) /\ envs[cur].tag = "cons" /\ keepFar \in BOOLEAN
        BY <2>5
      <4> QED  BY ONLY <4>1, GatherCons
    <3>2. b \in S /\ b < cur /\ envs[b].lsub = envs[cur].lsub
      BY <2>5, NextNode
    <3>3. from \in Nat /\ from + 1 \in 0 .. NEAR /\ from + 1 <= NEAR /\ 1 \in Nat /\ Shr(rem, 1) \in MaskSet
      BY <2>1, <2>5, ShrTyped
    <3>4. PartRight(b, Shr(rem, 1), from + 1, keepFar, next)
      BY <2>2, <3>2, <3>3 DEF RightAt
    <3>5. ValuesRight(cur, rem, from, from + 1, ConsHas(cur, rem, from))
      BY <2>5, <3>3, ConsPart
    <3>6. \A i \in Nat : ~(i < 1) => Lookup(cur, i) = Lookup(b, i - 1)
      <4>1. \A i \in Nat : ~(i < 1) => i # 0
        OBVIOUS
      <4> QED  BY <2>0, <2>5, <4>1, LookCons DEF Lookup
    <3>7. Continues(cur, b, 1) /\ rem \in MaskSet /\ keepFar \in BOOLEAN
      BY <3>2, <3>6 DEF Continues
    <3> HIDE DEF b, next
    <3>8. PartRight(cur, rem, from, keepFar, Then(ConsHas(cur, rem, from), next))
      BY ONLY <3>3, <3>4, <3>5, <3>7, ThenPart
    <3> QED  BY <3>1, <3>8
  <2>6. CASE from # NEAR /\ (rem # {} \/ keepFar) /\ envs[cur].tag = "framed"
    <3> DEFINE b == envs[cur].b
               t == Share(cur, from)
               here == FrameHas(cur, rem, from, keepFar)
               next == G[b][<<Shr(rem, t), from + t>>]
    <3>1. GatherAt(G, cur, rem, from, keepFar) =
            IF t < envs[cur].cut \/ b = NO_ENV THEN here ELSE Then(here, next)
      <4>1. from # NEAR /\ (rem # {} \/ keepFar) /\ envs[cur].tag = "framed" /\ keepFar \in BOOLEAN
        BY <2>6
      <4> QED  BY ONLY <4>1, GatherFramed
    <3>2. /\ ValuesRight(cur, rem, from, from + t, here)
          /\ t < envs[cur].cut \/ b = NO_ENV => PartRight(cur, rem, from, keepFar, here)
      BY <2>6, FramePart
    <3>3. CASE ~(t < envs[cur].cut \/ b = NO_ENV)
      <4>1. b \in S /\ b < cur /\ envs[b].lsub = envs[cur].lsub
        BY <2>6, <3>3, NextNode
      <4>2. t \in Nat /\ from \in Nat /\ from + t \in 0 .. NEAR /\ from + t <= NEAR /\ t = envs[cur].cut
        BY <2>6, <3>3, FrameShare
      <4>3. Shr(rem, t) \in MaskSet
        BY <4>2, ShrTyped
      <4>4. PartRight(b, Shr(rem, t), from + t, keepFar, next)
        BY <2>2, <4>1, <4>2, <4>3 DEF RightAt
      <4>5. \A i \in Nat : ~(i < t) => Lookup(cur, i) = Lookup(b, i - t)
        BY <2>0, <2>6, <3>3, <4>2, LookFramed DEF Lookup
      <4> HIDE DEF b, t, here, next
      <4>6. ValuesRight(cur, rem, from, from + t, here) /\ rem \in MaskSet /\ keepFar \in BOOLEAN
        BY <3>2
      <4>7. Continues(cur, b, t)
        BY <4>1, <4>5 DEF Continues
      <4>8. PartRight(cur, rem, from, keepFar, Then(here, next))
        BY ONLY <4>2, <4>4, <4>6, <4>7, ThenPart
      <4> QED  BY <3>1, <3>3, <4>8
    <3> QED  BY <3>1, <3>2, <3>3
  <2> QED  BY <2>1, <2>3, <2>4, <2>5, <2>6
<1>3. S \subseteq T
  <2> HIDE DEF T, H, S
  <2> QED  BY <1>1, <1>2, HeightInduction
<1> QED  BY <1>3 DEF G

-----------------------------------------------------------------------------
(* Frames are shared by what they hold.                                    *)

\* ss goes on from slots.
Extends(ss) ==
  ss \in Seq(Nat) /\ Len(slots) <= Len(ss) /\ \A k \in 1 .. Len(slots) : ss[k] = slots[k]

FramesOK(st) == \A h \in DOMAIN st.frames : st.frames[h] \in 1 .. Len(st.envs)

\* What intern_frame may be asked for.
FrameAsk(st, ss, near, at, cut, rest, lsub) ==
  /\ near \subseteq 0 .. cut - 1 /\ cut \in 1 .. NEAR /\ lsub \in Subs
  /\ ValuesAt(ss, at, Cardinality(near))
  /\ rest \in 0 .. Len(st.envs)
  /\ rest # NO_ENV => st.envs[rest].lsub = lsub /\ Holds(st.envs[rest])

\* The near bits of a frame are those it was made of.
LEMMA FrameBits ==
  ASSUME NEW near, near \subseteq 0 .. NEAR - 1, NEW rest
  PROVE  /\ FrameMask(near, rest) \in MaskSet /\ Near(FrameMask(near, rest)) = near
         /\ FAR \in FrameMask(near, rest) <=> rest # NO_ENV
<1>1. NEAR \in Nat /\ FAR = NEAR
  BY NearIs
<1>2. 0 .. NEAR - 1 \subseteq 0 .. NEAR /\ NEAR \in 0 .. NEAR /\ NEAR \notin 0 .. NEAR - 1
  BY <1>1
<1> QED  BY <1>1, <1>2 DEF FrameMask, Near, MaskSet

\* The values of two frames that are the same are the same, place by place.
LEMMA SameValues ==
  ASSUME NEW ss \in Seq(Nat), NEW a \in Nat \ {0}, NEW b \in Nat \ {0}, NEW num \in Nat,
         a + num <= Len(ss) + 1, b + num <= Len(ss) + 1,
         SubSeq(ss, a, a + num - 1) = SubSeq(ss, b, b + num - 1)
  PROVE  \A k \in 0 .. num - 1 : ss[a + k] = ss[b + k]
<1>0. Len(ss) \in Nat
  BY LenProperties
<1>1. \A m \in Nat \ {0} : m + num <= Len(ss) + 1 =>
        \A k \in 0 .. num - 1 : SubSeq(ss, m, m + num - 1)[k + 1] = ss[m + k]
  <2> SUFFICES ASSUME NEW m \in Nat \ {0}, m + num <= Len(ss) + 1, NEW k \in 0 .. num - 1
               PROVE  SubSeq(ss, m, m + num - 1)[k + 1] = ss[m + k]
    OBVIOUS
  <2> DEFINE n == m + num - 1
  <2>1. m \in 1 .. Len(ss) + 1 /\ n \in m - 1 .. Len(ss) /\ k + 1 \in 1 .. n - m + 1
        /\ m + (k + 1) - 1 = m + k
    BY <1>0
  <2> HIDE DEF n
  <2>2. SubSeq(ss, m, n)[k + 1] = ss[m + (k + 1) - 1]
    BY <2>1, SubSeqProperties
  <2> QED  BY <2>1, <2>2 DEF n
<1>2. \A k \in 0 .. num - 1 : SubSeq(ss, a, a + num - 1)[k + 1] = ss[a + k]
  BY <1>1
<1>3. \A k \in 0 .. num - 1 : SubSeq(ss, b, b + num - 1)[k + 1] = ss[b + k]
  BY <1>1
<1> QED  BY <1>2, <1>3

\* Node n is the frame asked for, with its values in the slots ss2.
FrameAsked(n, ss2, ss, near, at, cut, rest, lsub) ==
  /\ n.tag = "framed" /\ n.mask = FrameMask(near, rest) /\ n.b = rest /\ n.lsub = lsub
  /\ n.cut = FrameCut(cut, rest)
  /\ \A i \in near : ss2[SlotOf(n, i)] = ss[at + Cardinality(LowBits(near, i))]

\* intern_frame answers with a frame of what was asked, known or new, and the
\* store is well-formed with the slots it keeps.
LEMMA InternFrameNode ==
  ASSUME NEW st, StoreOK(st.envs, slots), FramesOK(st), NEW ss, Extends(ss),
         NEW near, NEW at, NEW cut, NEW rest, NEW lsub,
         FrameAsk(st, ss, near, at, cut, rest, lsub)
  PROVE  LET st2 == InternFrame(st, ss, near, at, cut, rest, lsub)
             ss2 == KeptSlots(st2, ss)
         IN  /\ StoreOK(st2.envs, ss2) /\ Grown(st.envs, slots, st2.envs, ss2)
             /\ FramesOK(st2) /\ st2.id \in 1 .. Len(st2.envs)
             /\ FrameAsked(st2.envs[st2.id], ss2, ss, near, at, cut, rest, lsub)
<1> DEFINE f == [tag |-> "framed", mask |-> FrameMask(near, rest), a |-> at,
                 b |-> rest, lsub |-> lsub, cut |-> FrameCut(cut, rest)]
           h == Hash(near, rest)
           ns == st.envs
           new == Len(ns) + 1
           st2 == InternFrame(st, ss, near, at, cut, rest, lsub)
           ss2 == KeptSlots(st2, ss)
           num == Cardinality(near)
           hit == h \in DOMAIN st.frames /\ SameFrame(ns[st.frames[h]], f, ss, at)
<1>1. /\ near \subseteq 0 .. cut - 1 /\ cut \in 1 .. NEAR /\ lsub \in Subs
      /\ ValuesAt(ss, at, num) /\ rest \in 0 .. Len(ns)
      /\ rest # NO_ENV => ns[rest].lsub = lsub /\ Holds(ns[rest])
  BY DEF FrameAsk
<1>2. NEAR \in Nat /\ near \subseteq 0 .. NEAR - 1 /\ cut \in Nat
  <2>1. NEAR \in Nat /\ NEAR # 0
    BY NearIs
  <2>2. 0 .. cut - 1 \subseteq 0 .. NEAR - 1 /\ cut \in Nat
    BY <1>1, <2>1
  <2> QED  BY <1>1, <2>1, <2>2
<1>3. /\ FrameMask(near, rest) \in MaskSet /\ Near(FrameMask(near, rest)) = near
      /\ FAR \in FrameMask(near, rest) <=> rest # NO_ENV
  BY <1>2, FrameBits
<1>4. FrameCut(cut, rest) = IF rest = NO_ENV THEN NEAR ELSE cut
  BY DEF FrameCut
<1>5. BitSet(near) /\ num \in Nat
  <2>1. BitSet(Near(FrameMask(near, rest)))
    BY <1>3, MaskIs
  <2> QED  BY <1>3, <2>1, PartCounts
<1>6. at \in Nat \ {0} /\ at + num <= Len(ss) + 1 /\ ss \in Seq(Nat) /\ slots \in Seq(Nat)
      /\ Len(ss) \in Nat /\ Len(slots) \in Nat /\ ns \in Seq(Nodes) /\ Len(ns) \in Nat
      /\ Len(slots) <= Len(ss) /\ \A k \in 1 .. Len(slots) : ss[k] = slots[k]
  <2>1. ss \in Seq(Nat) /\ slots \in Seq(Nat) /\ ns \in Seq(Nodes)
    BY DEF Extends, StoreOK
  <2> QED  BY <1>1, <2>1, LenProperties DEF ValuesAt, Extends
<1>7. /\ hit => st2 = [envs |-> ns, id |-> st.frames[h], fresh |-> FALSE, frames |-> st.frames]
      /\ ~hit => st2 = [envs |-> Append(ns, f), id |-> new, fresh |-> TRUE,
                        frames |-> IF h \in DOMAIN st.frames THEN st.frames
                                   ELSE [k \in DOMAIN st.frames \cup {h} |->
                                           IF k = h THEN new ELSE st.frames[k]]]
  BY DEF InternFrame
<1>8. \A i \in near : Cardinality(LowBits(near, i)) \in 0 .. num - 1
  <2> SUFFICES ASSUME NEW i \in near PROVE Cardinality(LowBits(near, i)) \in 0 .. num - 1
    OBVIOUS
  <2>1. i \in Int
    BY <1>5 DEF BitSet
  <2>2. Cardinality(LowBits(near, i)) \in Nat /\ Cardinality(LowBits(near, i)) < num
    BY <1>5, <2>1, LowPart, BitCounts
  <2> QED  BY <1>5, <2>2
<1>9. \A n : n.mask = FrameMask(near, rest) =>
        \A i \in near : SlotOf(n, i) = n.a + Cardinality(LowBits(near, i))
  <2> SUFFICES ASSUME NEW n, n.mask = FrameMask(near, rest), NEW i \in near
               PROVE  SlotOf(n, i) = n.a + Cardinality(LowBits(near, i))
    OBVIOUS
  <2>1. i \in Int /\ i <= NEAR
    BY <1>2
  <2>2. LowBits(n.mask, i) = LowBits(near, i)
    BY <1>3, <2>1, MaskIs
  <2> QED  BY <2>2 DEF SlotOf
<1>10. CASE hit
  <2> DEFINE id == st.frames[h]
             n == ns[id]
  <2>1. st2.envs = ns /\ st2.id = id /\ st2.frames = st.frames /\ ss2 = slots
    BY <1>7, <1>10 DEF KeptSlots
  <2>2. id \in 1 .. Len(ns)
    BY <1>10 DEF FramesOK
  <2>3. /\ n.tag = "framed" /\ n.mask = FrameMask(near, rest) /\ n.cut = FrameCut(cut, rest)
        /\ n.b = rest /\ n.lsub = lsub
        /\ SubSeq(ss, n.a, n.a + num - 1) = SubSeq(ss, at, at + num - 1)
    BY <1>3, <1>10 DEF SameFrame
  <2>4. n.a \in Nat \ {0} /\ n.a + num <= Len(slots) + 1
    <3>1. ValuesAt(slots, n.a, Cardinality(Near(n.mask)))
      BY <2>2, <2>3, NodeIs DEF FrameOK
    <3> QED  BY <1>3, <2>3, <3>1 DEF ValuesAt
  <2> HIDE DEF n, id, num, hit, st2, ss2
  <2>5. \A k \in 0 .. num - 1 : ss[n.a + k] = ss[at + k]
    <3>1. n.a + num <= Len(ss) + 1
      BY <1>5, <1>6, <2>4
    <3> QED  BY <1>5, <1>6, <2>3, <2>4, <3>1, SameValues
  <2>6. \A k \in 0 .. num - 1 : slots[n.a + k] = ss[at + k]
    <3>1. \A k \in 0 .. num - 1 : n.a + k \in 1 .. Len(slots)
      <4>1. \A a, c, l \in Nat : a # 0 /\ a + c <= l + 1 => \A k \in 0 .. c - 1 : a + k \in 1 .. l
        OBVIOUS
      <4>2. n.a \in Nat /\ n.a # 0 /\ num \in Nat /\ Len(slots) \in Nat
        BY <1>5, <1>6, <2>4
      <4> QED  BY ONLY <2>4, <4>1, <4>2
    <3> QED  BY <1>6, <2>5, <3>1
  <2>7. \A i \in near : slots[SlotOf(n, i)] = ss[at + Cardinality(LowBits(near, i))]
    BY <1>8, <1>9, <2>3, <2>6
  <2>8. FrameAsked(n, slots, ss, near, at, cut, rest, lsub)
    BY <2>3, <2>7 DEF FrameAsked
  <2>9. FramesOK(st2)
    BY <2>1 DEF FramesOK
  <2>10. StoreOK(st2.envs, ss2) /\ Grown(st.envs, slots, st2.envs, ss2)
    BY <2>1, GrownSelf
  <2>11. st2.id \in 1 .. Len(st2.envs) /\ st2.envs[st2.id] = n
    BY <2>1, <2>2 DEF n
  <2> QED  BY <2>1, <2>8, <2>9, <2>10, <2>11 DEF st2, ss2
<1>11. CASE ~hit
  <2>1. /\ st2.envs = Append(ns, f) /\ st2.id = new /\ ss2 = ss
        /\ st2.frames = IF h \in DOMAIN st.frames THEN st.frames
                        ELSE [k \in DOMAIN st.frames \cup {h} |->
                                IF k = h THEN new ELSE st.frames[k]]
    BY <1>7, <1>11 DEF KeptSlots
  <2>2. /\ f.tag = "framed" /\ f.mask = FrameMask(near, rest) /\ f.a = at /\ f.b = rest
        /\ f.lsub = lsub /\ f.cut = FrameCut(cut, rest)
    OBVIOUS
  <2>3. f \in Nodes
    <3>1. FrameCut(cut, rest) \in 0 .. NEAR
      BY <1>1, <1>2, <1>4
    <3>2. rest \in Nat /\ at \in Nat
      BY <1>1, <1>6
    <3> QED  BY <1>1, <1>3, <3>1, <3>2 DEF Nodes
  <2> HIDE DEF f, hit, st2, ss2, num, h
  <2>4. FrameOK(ns, ss, f, Len(ns) + 1)
    <3>1. rest \in 0 .. Len(ns) + 1 - 1
      BY <1>1, <1>6
    <3>2. FrameCut(cut, rest) # 0 /\ near \subseteq 0 .. FrameCut(cut, rest) - 1
      <4>1. NEAR # 0 /\ cut # 0
        BY <1>1, NearIs
      <4> QED  BY <1>1, <1>2, <1>4, <4>1
    <3>3. ValuesAt(ss, f.a, Cardinality(Near(f.mask)))
      BY <1>1, <1>3, <2>2 DEF num
    <3>4. f.b = NO_ENV => f.cut = NEAR
      BY <1>4, <2>2
    <3>5. f.b # NO_ENV => f.lsub = ns[f.b].lsub /\ Holds(ns[f.b])
      BY <1>1, <2>2
    <3>6. f.b \in 0 .. Len(ns) + 1 - 1 /\ f.cut # 0 /\ Near(f.mask) \subseteq 0 .. f.cut - 1
      BY <1>3, <2>2, <3>1, <3>2
    <3>7. FAR \in f.mask <=> f.b # NO_ENV
      BY <1>3, <2>2
    <3> QED  BY ONLY <3>3, <3>4, <3>5, <3>6, <3>7 DEF FrameOK
  <2>5. /\ StoreOK(Append(ns, f), ss) /\ Grown(ns, slots, Append(ns, f), ss)
        /\ Len(Append(ns, f)) = new /\ Append(ns, f)[new] = f
        /\ new \in 1 .. new /\ 1 .. Len(ns) \subseteq 1 .. new
    <3>1. f.tag # "nil" /\ f.tag # "cons"
      BY <2>2
    <3>2. ss \in Seq(Nat) /\ Len(slots) <= Len(ss) /\ \A k \in 1 .. Len(slots) : ss[k] = slots[k]
      BY <1>6
    <3>3. /\ f.tag = "nil" => NilOK(f)
          /\ f.tag = "cons" => ConsOK(ns, f, Len(ns) + 1)
          /\ f.tag = "framed" => FrameOK(ns, ss, f, Len(ns) + 1)
      BY <2>4, <3>1
    <3>4. StoreOK(ns, slots) /\ f \in Nodes
      BY <2>3
    <3> QED  BY ONLY <3>2, <3>3, <3>4, StoreAppend
  <2>6. FramesOK(st2)
    <3>1. \A k \in DOMAIN st.frames : st.frames[k] \in 1 .. new
      BY <2>5 DEF FramesOK
    <3>2. \A k \in DOMAIN st2.frames : st2.frames[k] \in 1 .. new
      <4> HIDE DEF new
      <4>1. CASE h \in DOMAIN st.frames
        BY <2>1, <3>1, <4>1
      <4>2. CASE h \notin DOMAIN st.frames
        BY <2>1, <2>5, <3>1, <4>2
      <4> QED  BY <4>1, <4>2
    <3> QED  BY <2>1, <2>5, <3>2 DEF FramesOK
  <2>7. FrameAsked(f, ss, ss, near, at, cut, rest, lsub)
    BY <1>9, <2>2 DEF FrameAsked
  <2> QED  BY <2>1, <2>5, <2>6, <2>7 DEF st2, ss2
<1> QED  BY <1>10, <1>11

\* What the frame that was asked for gives each index.
LooksFramed(ns, ss2, id, ss, near, at, cut, rest) ==
  \A i \in Nat :
    Lookups(ns, ss2)[id][i] =
      IF i < FrameCut(cut, rest)
      THEN IF i \in near THEN ss[at + Cardinality(LowBits(near, i))] ELSE None
      ELSE IF rest = NO_ENV THEN None ELSE Lookups(ns, ss2)[rest][i - FrameCut(cut, rest)]

\* What that frame gives.
LEMMA FrameLook ==
  ASSUME NEW ns, NEW ss2, StoreOK(ns, ss2), NEW id, id \in 1 .. Len(ns),
         NEW ss, NEW near, near \subseteq 0 .. NEAR - 1, NEW at, NEW cut, NEW rest, NEW lsub,
         FrameAsked(ns[id], ss2, ss, near, at, cut, rest, lsub)
  PROVE  LooksFramed(ns, ss2, id, ss, near, at, cut, rest)
<1> SUFFICES ASSUME NEW i \in Nat
             PROVE  Lookups(ns, ss2)[id][i] =
                      IF i < FrameCut(cut, rest)
                      THEN IF i \in near THEN ss[at + Cardinality(LowBits(near, i))] ELSE None
                      ELSE IF rest = NO_ENV THEN None ELSE Lookups(ns, ss2)[rest][i - FrameCut(cut, rest)]
  BY DEF LooksFramed
<1>1. /\ ns[id].tag = "framed" /\ ns[id].mask = FrameMask(near, rest) /\ ns[id].b = rest
      /\ ns[id].cut = FrameCut(cut, rest)
      /\ \A k \in near : ss2[SlotOf(ns[id], k)] = ss[at + Cardinality(LowBits(near, k))]
  BY DEF FrameAsked
<1>2. Near(ns[id].mask) = near
  BY <1>1, FrameBits
<1>3. Lookups(ns, ss2)[id][i] =
        IF i < ns[id].cut THEN IF i \in Near(ns[id].mask) THEN ss2[SlotOf(ns[id], i)] ELSE None
        ELSE IF ns[id].b = NO_ENV THEN None ELSE Lookups(ns, ss2)[ns[id].b][i - ns[id].cut]
  BY <1>1, LookFramed
<1> QED  BY <1>1, <1>2, <1>3

-----------------------------------------------------------------------------
(* A frame less its first variables.                                       *)

\* The bits of a mask from dropped on, and where their values lie.
LEMMA DroppedBits ==
  ASSUME NEW n \in Nodes, NEW dropped \in Nat, dropped <= NEAR
  PROVE  LET near == Shr(Near(n.mask), dropped)
             low  == Cardinality(LowBits(Near(n.mask), dropped))
         IN  /\ BitSet(near) /\ Cardinality(near) \in Nat /\ low \in Nat
             /\ Cardinality(Near(n.mask)) = low + Cardinality(near)
             /\ SlotOf(n, dropped) = n.a + low
             /\ \A j : j \in near <=> j \in Nat /\ j + dropped \in Near(n.mask)
             /\ \A j \in near :
                  SlotOf(n, j + dropped) = SlotOf(n, dropped) + Cardinality(LowBits(near, j))
<1> DEFINE M == Near(n.mask)
           near == Shr(M, dropped)
           A == LowBits(M, dropped)
           B == {j + dropped : j \in near}
<1>1. NEAR \in Nat /\ FAR = NEAR /\ n.mask \in MaskSet /\ n.a \in Nat
  BY NearIs DEF Nodes
<1>2. BitSet(M) /\ M \subseteq 0 .. NEAR - 1 /\ \A i \in Int : i <= NEAR => LowBits(n.mask, i) = LowBits(M, i)
  BY <1>1, MaskIs
<1> HIDE DEF M
<1>3. \A j : j \in near <=> j \in 0 .. NEAR /\ j + dropped \in M
  BY <1>1 DEF Shr
<1>4. \A j : j \in near <=> j \in Nat /\ j + dropped \in M
  <2>1. ASSUME NEW j \in Nat, j + dropped \in M PROVE j \in 0 .. NEAR
    <3>1. j + dropped \in 0 .. NEAR - 1
      BY <1>2, <2>1
    <3>2. j \in Nat /\ dropped \in Nat /\ NEAR \in Nat
      BY <1>1
    <3> QED  BY ONLY <3>1, <3>2
  <2>2. 0 .. NEAR \subseteq Nat
    OBVIOUS
  <2> QED  BY <1>3, <2>1, <2>2
<1> HIDE DEF near
<1>5. near \subseteq 0 .. NEAR /\ BitSet(near)
  <2>1. near \in SUBSET (0 .. NEAR)
    BY <1>3
  <2>2. near \in MaskSet
    BY <1>1, <2>1 DEF MaskSet
  <2> QED  BY <2>1, <2>2, MaskIs
<1>6. dropped \in Int
  OBVIOUS
<1>7. BitSet(B) /\ Cardinality(B) = Cardinality(near)
  BY <1>5, <1>6, MovedCounts
<1>8. BitSet(A) /\ Cardinality(A) \in Nat
  BY <1>2, <1>6, LowPart
<1>9. A \cup B = M
  <2>1. ASSUME NEW i \in M PROVE i \in A \cup B
    <3>1. i \in Nat
      BY <1>2
    <3>2. CASE i < dropped
      BY <3>2 DEF LowBits
    <3>3. CASE ~(i < dropped)
      <4>1. i - dropped \in Nat /\ (i - dropped) + dropped = i
        BY <3>1, <3>3
      <4>2. i - dropped \in near
        BY <1>4, <4>1
      <4> QED  BY <4>1, <4>2
    <3> QED  BY <3>2, <3>3
  <2>2. A \subseteq M /\ B \subseteq M
    BY <1>4 DEF LowBits
  <2> QED  BY <2>1, <2>2
<1>10. (\A i \in A : i < dropped) /\ (\A i \in B : dropped <= i)
  <2>1. \A i \in A : i < dropped
    BY DEF LowBits
  <2>2. \A j \in near : dropped <= j + dropped
    BY <1>4
  <2> QED  BY <2>1, <2>2
<1> HIDE DEF A
<1>11. B \subseteq Int
  BY <1>7 DEF BitSet
<1> DEFINE C == B
<1>12. C = B
  OBVIOUS
<1> HIDE DEF C
<1>13. BitSet(C) /\ \A i \in C : dropped <= i
  BY <1>7, <1>10, <1>12
<1>14. /\ Cardinality(A \cup C) = Cardinality(A) + Cardinality(C)
       /\ \A j \in Int : dropped <= j =>
            Cardinality(LowBits(A \cup C, j)) = Cardinality(A) + Cardinality(LowBits(C, j))
  <2>1. \A i \in A : i < dropped
    BY <1>10
  <2> DEFINE P(a, b, c) == /\ Cardinality(a \cup b) = Cardinality(a) + Cardinality(b)
                           /\ \A j \in Int : c <= j =>
                                Cardinality(LowBits(a \cup b, j)) = Cardinality(a) + Cardinality(LowBits(b, j))
  <2>2. ASSUME NEW a, NEW b, NEW c \in Int, BitSet(a), BitSet(b), \A i \in a : i < c, \A i \in b : c <= i
        PROVE  P(a, b, c)
    <3>1. Cardinality(a \cup b) = Cardinality(a) + Cardinality(b)
      BY ONLY <2>2, BothCount
    <3>2. \A j \in Int : c <= j =>
            Cardinality(LowBits(a \cup b, j)) = Cardinality(a) + Cardinality(LowBits(b, j))
      BY ONLY <2>2, BothCount
    <3> QED  BY <3>1, <3>2
  <2> HIDE DEF P
  <2>3. P(A, C, dropped)
    BY ONLY <1>6, <1>8, <1>13, <2>1, <2>2
  <2> QED  BY <2>3 DEF P
<1>15. Cardinality(M) = Cardinality(A) + Cardinality(near)
  BY <1>7, <1>9, <1>12, <1>14
<1>16. SlotOf(n, dropped) = n.a + Cardinality(A)
  BY <1>2, <1>6 DEF SlotOf, A
<1>17. ASSUME NEW j \in near
       PROVE  SlotOf(n, j + dropped) = SlotOf(n, dropped) + Cardinality(LowBits(near, j))
  <2> DEFINE i == j + dropped
  <2>1. j \in Nat /\ i \in M
    BY <1>4
  <2>2. i \in Int /\ i <= NEAR /\ dropped <= i /\ j \in Int
    BY <1>2, <1>1, <2>1
  <2>3. LowBits(C, i) = {k + dropped : k \in LowBits(near, j)}
    <3>1. \A k \in near : k + dropped < i <=> k < j
      <4> SUFFICES ASSUME NEW k \in near PROVE k + dropped < j + dropped <=> k < j
        OBVIOUS
      <4>1. k \in Nat /\ j \in Nat /\ dropped \in Nat
        BY <1>4
      <4> QED  BY ONLY <4>1
    <3> HIDE DEF i
    <3>2. \A y : y \in LowBits(C, i) <=> \E k \in near : y = k + dropped /\ k < j
      BY <1>12, <3>1 DEF LowBits
    <3> QED  BY <3>2 DEF LowBits
  <2>4. BitSet(LowBits(near, j)) /\ Cardinality(LowBits(near, j)) \in Nat
    BY <1>5, <2>2, LowPart
  <2>5. Cardinality(LowBits(C, i)) = Cardinality(LowBits(near, j))
    BY <1>6, <2>3, <2>4, MovedCounts
  <2> HIDE DEF i
  <2>6. Cardinality(LowBits(M, i)) = Cardinality(A) + Cardinality(LowBits(near, j))
    BY <1>9, <1>12, <1>14, <2>2, <2>5
  <2>7. SlotOf(n, i) = n.a + (Cardinality(A) + Cardinality(LowBits(near, j)))
    BY <1>2, <2>2, <2>6 DEF SlotOf
  <2>8. \A x, y, z \in Nat : x + (y + z) = (x + y) + z
    OBVIOUS
  <2>9. SlotOf(n, i) = (n.a + Cardinality(A)) + Cardinality(LowBits(near, j))
    BY <1>1, <1>8, <2>4, <2>7, <2>8
  <2> QED  BY <1>16, <2>9 DEF i
<1>18. Cardinality(near) \in Nat
  BY <1>5, PartCounts
<1> QED  BY <1>4, <1>5, <1>8, <1>15, <1>16, <1>17, <1>18 DEF M, A, near

\* What rest stands for, as a node of the store.
LEMMA FrameWithoutIs ==
  ASSUME StoreOK(envs, slots), FramesOK(Stored), NEW e \in Ids, envs[e].tag = "framed",
         NEW d \in Nat, d < envs[e].cut
  PROVE  LET st1 == FrameWithout(Stored, envs[e], d, envs[e].lsub)
         IN  /\ StoreOK(st1.envs, slots) /\ Grown(envs, slots, st1.envs, slots) /\ FramesOK(st1)
             /\ st1.id \in 0 .. Len(st1.envs)
             /\ st1.id # NO_ENV => st1.envs[st1.id].lsub = envs[e].lsub /\ Holds(st1.envs[st1.id])
             /\ \A j \in Nat : Lookup(e, d + j) = IF st1.id = NO_ENV THEN None
                                                   ELSE Lookups(st1.envs, slots)[st1.id][j]
<1> DEFINE n == envs[e]
           near == Shr(Near(n.mask), d)
           at == SlotOf(n, d)
           cut == n.cut - d
           rest == n.b
           lsub == n.lsub
           st1 == FrameWithout(Stored, n, d, lsub)
<1>0. e \in 1 .. Len(envs)
  BY DEF Ids
<1>1. /\ n \in Nodes /\ FrameOK(envs, slots, n, e) /\ n.cut \in 0 .. NEAR /\ NEAR \in Nat
      /\ lsub \in Subs /\ rest \in Nat /\ e \in Nat /\ Len(envs) \in Nat /\ n.a \in Nat
  BY <1>0, NodeIs, NearIs
<1>2. cut \in 1 .. NEAR /\ n.cut \in Nat /\ d <= NEAR /\ cut + d = n.cut
  <2> DEFINE c == n.cut
  <2>1. c \in 0 .. NEAR /\ NEAR \in Nat /\ d < c /\ d \in Nat
    BY <1>1
  <2> HIDE DEF c
  <2>2. c - d \in 1 .. NEAR /\ c \in Nat /\ d <= NEAR /\ c - d + d = c
    BY ONLY <2>1
  <2> QED  BY <2>2 DEF c
<1>3. Stored.envs = envs /\ Stored.frames = frames /\ Stored.fresh = FALSE
  BY DEF Stored
<1>4. /\ BitSet(near) /\ Cardinality(near) \in Nat
      /\ Cardinality(LowBits(Near(n.mask), d)) \in Nat
      /\ Cardinality(Near(n.mask)) = Cardinality(LowBits(Near(n.mask), d)) + Cardinality(near)
      /\ at = n.a + Cardinality(LowBits(Near(n.mask), d))
      /\ \A j : j \in near <=> j \in Nat /\ j + d \in Near(n.mask)
      /\ \A j \in near : SlotOf(n, j + d) = at + Cardinality(LowBits(near, j))
  BY <1>1, <1>2, DroppedBits
<1>5. near \subseteq 0 .. cut - 1
  <2> SUFFICES ASSUME NEW j \in near PROVE j \in 0 .. cut - 1
    OBVIOUS
  <2>1. j \in Nat /\ j + d \in Near(n.mask)
    BY <1>4
  <2>2. j + d \in 0 .. n.cut - 1
    BY <1>1, <2>1 DEF FrameOK
  <2> HIDE DEF near
  <2>3. \A c \in Nat : j + d \in 0 .. c - 1 => j \in 0 .. c - d - 1
    BY ONLY <2>1, d \in Nat
  <2> QED  BY <1>2, <2>2, <2>3
<1>6. near \subseteq 0 .. NEAR - 1
  <2> HIDE DEF near, cut
  <2>1. cut \in Nat /\ cut <= NEAR /\ NEAR \in Nat
    BY <1>1, <1>2
  <2>2. 0 .. cut - 1 \subseteq 0 .. NEAR - 1
    BY ONLY <2>1
  <2> QED  BY <1>5, <2>2
<1>7. /\ ValuesAt(slots, n.a, Cardinality(Near(n.mask))) /\ rest \in 0 .. e - 1
      /\ rest = NO_ENV => n.cut = NEAR
      /\ rest # NO_ENV => lsub = envs[rest].lsub /\ Holds(envs[rest])
  BY <1>1 DEF FrameOK
<1>8. ValuesAt(slots, at, Cardinality(near))
  <2> DEFINE k0 == Cardinality(LowBits(Near(n.mask), d))
             k1 == Cardinality(near)
             kn == Cardinality(Near(n.mask))
             a == n.a
  <2>1. /\ k0 \in Nat /\ k1 \in Nat /\ kn = k0 + k1 /\ at = a + k0
        /\ a \in Nat /\ a # 0 /\ a + kn <= Len(slots) + 1 /\ \A k \in a .. a + kn - 1 : slots[k] # None
        /\ Len(slots) \in Nat
    <3>1. Len(slots) \in Nat
      BY LenProperties DEF StoreOK
    <3> QED  BY <1>4, <1>7, <3>1 DEF ValuesAt
  <2> HIDE DEF k0, k1, kn, a, at
  <2>2. at \in Nat /\ at # 0 /\ at + k1 <= Len(slots) + 1
    BY ONLY <2>1
  <2>3. at .. at + k1 - 1 \subseteq a .. a + kn - 1
    BY ONLY <2>1
  <2>4. \A k \in at .. at + k1 - 1 : slots[k] # None
    BY ONLY <2>1, <2>3
  <2> QED  BY <2>2, <2>4 DEF ValuesAt, k1
<1> HIDE DEF near, at, cut
<1>9. ASSUME NEW j \in Nat
      PROVE  Lookup(e, d + j) = IF j < cut
                                THEN IF j \in near THEN slots[at + Cardinality(LowBits(near, j))] ELSE None
                                ELSE IF rest = NO_ENV THEN None ELSE Lookup(rest, j - cut)
  <2> DEFINE i == d + j
  <2>1. /\ i \in Nat /\ i = j + d /\ (i < n.cut <=> j < cut)
        /\ (~(j < cut) => i - n.cut = j - cut)
    <3> DEFINE c == n.cut
    <3>1. c \in Nat /\ cut + d = c /\ cut \in 1 .. NEAR /\ NEAR \in Nat
      BY <1>1, <1>2
    <3> HIDE DEF c
    <3>2. /\ i \in Nat /\ i = j + d /\ (i < c <=> j < cut)
          /\ (~(j < cut) => i - c = j - cut)
      BY <3>1
    <3> HIDE DEF i
    <3> QED  BY <3>2 DEF c
  <2> HIDE DEF i
  <2>2. i \in Near(n.mask) <=> j \in near
    BY <1>4, <2>1
  <2>3. j \in near => SlotOf(n, i) = at + Cardinality(LowBits(near, j))
    BY <1>4, <2>1
  <2>4. i \in Nat
    BY <2>1
  <2>5. Lookups(envs, slots)[e][i] =
          IF i < n.cut THEN IF i \in Near(n.mask) THEN slots[SlotOf(n, i)] ELSE None
          ELSE IF rest = NO_ENV THEN None ELSE Lookups(envs, slots)[rest][i - n.cut]
    BY <1>0, <2>4, LookFramed
  <2>6. Lookup(e, i) = Lookups(envs, slots)[e][i] /\ Lookup(rest, j - cut) = Lookups(envs, slots)[rest][j - cut]
    BY DEF Lookup
  <2>7. /\ i < n.cut <=> j < cut
        /\ ~(j < cut) => i - n.cut = j - cut
        /\ i \in Near(n.mask) <=> j \in near
        /\ j \in near => SlotOf(n, i) = at + Cardinality(LowBits(near, j))
    BY ONLY <2>1, <2>2, <2>3
  <2> HIDE DEF n, rest
  <2>8. Lookup(e, i) = IF j < cut
                       THEN IF j \in near THEN slots[at + Cardinality(LowBits(near, j))] ELSE None
                       ELSE IF rest = NO_ENV THEN None ELSE Lookup(rest, j - cut)
    <3>1. CASE j < cut
      BY ONLY <2>5, <2>6, <2>7, <3>1
    <3>2. CASE ~(j < cut)
      BY ONLY <2>5, <2>6, <2>7, <3>2
    <3> QED  BY <3>1, <3>2
  <2> QED  BY <2>8 DEF i
<1>10. CASE near = {} /\ rest = NO_ENV
  <2>1. st1 = [Stored EXCEPT !.id = NO_ENV]
    BY <1>10 DEF FrameWithout, near
  <2>2. st1.envs = envs /\ st1.frames = frames /\ st1.id = NO_ENV
    BY <2>1 DEF Stored
  <2> HIDE DEF st1
  <2>3. Grown(envs, slots, envs, slots)
    BY GrownSelf
  <2>4. FramesOK(st1) /\ st1.id \in 0 .. Len(st1.envs)
    BY <1>1, <1>3, <2>2 DEF FramesOK, NO_ENV
  <2>5. \A j \in Nat : Lookup(e, d + j) = None
    BY <1>9, <1>10
  <2> QED  BY <2>2, <2>3, <2>4, <2>5 DEF st1
<1>11. CASE ~(near = {} /\ rest = NO_ENV)
  <2> DEFINE st2 == InternFrame(Stored, slots, near, at, cut, rest, lsub)
             ss2 == KeptSlots(st2, slots)
  <2>1. st1 = st2 /\ ss2 = slots
    BY <1>11 DEF FrameWithout, near, at, cut, KeptSlots
  <2>2. StoreOK(Stored.envs, slots) /\ FramesOK(Stored) /\ Extends(slots)
    <3>1. slots \in Seq(Nat) /\ Len(slots) \in Nat
      BY LenProperties DEF StoreOK
    <3> QED  BY <1>3, <3>1 DEF Extends
  <2>3. FrameAsk(Stored, slots, near, at, cut, rest, lsub)
    <3>1. rest \in 0 .. Len(Stored.envs)
      <4>1. e <= Len(envs)
        BY <1>0, <1>1
      <4> QED  BY <1>1, <1>3, <1>7, <4>1
    <3> QED  BY <1>1, <1>2, <1>3, <1>5, <1>7, <1>8, <3>1 DEF FrameAsk
  <2>4. /\ StoreOK(st2.envs, ss2) /\ Grown(Stored.envs, slots, st2.envs, ss2)
        /\ FramesOK(st2) /\ st2.id \in 1 .. Len(st2.envs)
        /\ FrameAsked(st2.envs[st2.id], ss2, slots, near, at, cut, rest, lsub)
    BY <2>2, <2>3, InternFrameNode
  <2> HIDE DEF st1, st2, ss2, lsub, rest
  <2>5. /\ StoreOK(st2.envs, slots) /\ Grown(envs, slots, st2.envs, slots)
        /\ FramesOK(st2) /\ st2.id \in 1 .. Len(st2.envs)
        /\ FrameAsked(st2.envs[st2.id], slots, slots, near, at, cut, rest, lsub)
    BY <1>3, <2>1, <2>4
  <2>6. st2.id \in 0 .. Len(st2.envs) /\ st2.id # NO_ENV
    <3>1. st2.id \in Nat /\ Len(st2.envs) \in Nat
      BY <2>5, NodeIs
    <3> QED  BY <2>5, <3>1 DEF NO_ENV
  <2>7. st2.envs[st2.id].lsub = lsub /\ Holds(st2.envs[st2.id])
    <3>1. FrameMask(near, rest) # {}
      BY <1>11 DEF FrameMask
    <3> QED  BY <2>5, <3>1 DEF FrameAsked, Holds
  <2>8. rest # NO_ENV => Lookups(st2.envs, slots)[rest] = Lookups(envs, slots)[rest]
    <3>1. rest # NO_ENV => rest \in 1 .. Len(envs)
      <4>1. e <= Len(envs)
        BY <1>0, <1>1
      <4>2. rest \in Nat /\ e \in Nat /\ Len(envs) \in Nat
        BY <1>1 DEF rest
      <4>3. rest \in 0 .. e - 1
        BY <1>7 DEF rest
      <4> QED  BY <4>1, <4>2, <4>3 DEF NO_ENV
    <3> QED  BY <2>5, <3>1, LookupsGrow
  <2>9. ASSUME NEW j \in Nat PROVE Lookup(e, d + j) = Lookups(st2.envs, slots)[st2.id][j]
    <3>1. Lookups(st2.envs, slots)[st2.id][j] =
            IF j < FrameCut(cut, rest)
            THEN IF j \in near THEN slots[at + Cardinality(LowBits(near, j))] ELSE None
            ELSE IF rest = NO_ENV THEN None ELSE Lookups(st2.envs, slots)[rest][j - FrameCut(cut, rest)]
      <4>1. /\ StoreOK(st2.envs, slots) /\ st2.id \in 1 .. Len(st2.envs) /\ near \subseteq 0 .. NEAR - 1
            /\ FrameAsked(st2.envs[st2.id], slots, slots, near, at, cut, rest, lsub)
        BY <1>6, <2>5
      <4>2. LooksFramed(st2.envs, slots, st2.id, slots, near, at, cut, rest)
        BY ONLY <4>1, FrameLook
      <4> QED  BY <4>2 DEF LooksFramed
    <3>2. Lookup(e, d + j) = IF j < cut
                             THEN IF j \in near THEN slots[at + Cardinality(LowBits(near, j))] ELSE None
                             ELSE IF rest = NO_ENV THEN None ELSE Lookup(rest, j - cut)
      BY <1>9 DEF rest
    <3>3. CASE rest = NO_ENV
      <4>1. FrameCut(cut, rest) = NEAR
        BY <3>3 DEF FrameCut
      <4>2. j \in near => j < cut /\ j < NEAR
        <5>1. j \in near => j \in 0 .. cut - 1 /\ j \in 0 .. NEAR - 1
          BY <1>5, <1>6
        <5>2. cut \in Nat /\ NEAR \in Nat
          BY <1>1, <1>2
        <5> QED  BY <5>1, <5>2
      <4> QED  BY <3>1, <3>2, <3>3, <4>1, <4>2
    <3>4. CASE rest # NO_ENV
      <4>1. FrameCut(cut, rest) = cut
        BY <3>4 DEF FrameCut
      <4> QED  BY <2>8, <3>1, <3>2, <3>4, <4>1 DEF Lookup
    <3> QED  BY <3>3, <3>4
  <2> QED  BY <2>1, <2>5, <2>6, <2>7, <2>9 DEF st1, lsub
<1> QED  BY <1>10, <1>11

\* The environment that stands for the rest gives what the rest gives.
LEMMA WithRestIs ==
  ASSUME StoreOK(envs, slots), FramesOK(Stored), NEW cur \in Ids, NEW rest, RestOK(cur, rest)
  PROVE  LET st1 == WithRest(rest, envs[cur].lsub)
         IN  /\ StoreOK(st1.envs, slots) /\ Grown(envs, slots, st1.envs, slots) /\ FramesOK(st1)
             /\ st1.id \in 0 .. Len(st1.envs)
             /\ st1.id # NO_ENV => st1.envs[st1.id].lsub = envs[cur].lsub /\ Holds(st1.envs[st1.id])
             /\ \A j \in Nat : RestGives(rest, j) = IF st1.id = NO_ENV THEN None
                                                     ELSE Lookups(st1.envs, slots)[st1.id][j]
<1> DEFINE lsub == envs[cur].lsub
           st1 == WithRest(rest, lsub)
<1>1. Grown(envs, slots, envs, slots) /\ Len(envs) \in Nat
  BY GrownSelf, LenProperties DEF StoreOK
<1>2. Stored.envs = envs /\ Stored.frames = frames /\ Stored.id = NO_ENV
  BY DEF Stored
<1>3. CASE rest = <<"none">>
  <2>1. rest[1] = "none"
    BY <1>3
  <2>2. st1 = Stored /\ \A j : RestGives(rest, j) = None
    BY <2>1 DEF WithRest, RestGives
  <2> HIDE DEF st1
  <2> QED  BY <1>1, <1>2, <2>2 DEF NO_ENV, st1
<1>4. ASSUME NEW e \in Ids, rest = <<"env", e>>, Holds(envs[e]), envs[e].lsub = lsub
      PROVE  /\ StoreOK(st1.envs, slots) /\ Grown(envs, slots, st1.envs, slots) /\ FramesOK(st1)
             /\ st1.id \in 0 .. Len(st1.envs)
             /\ st1.id # NO_ENV => st1.envs[st1.id].lsub = lsub /\ Holds(st1.envs[st1.id])
             /\ \A j \in Nat : RestGives(rest, j) = IF st1.id = NO_ENV THEN None
                                                     ELSE Lookups(st1.envs, slots)[st1.id][j]
  <2>1. rest[1] = "env" /\ rest[2] = e
    BY <1>4
  <2>2. st1 = [Stored EXCEPT !.id = e]
    BY <2>1 DEF WithRest
  <2>3. st1.envs = envs /\ st1.frames = frames /\ st1.id = e
    BY <2>2 DEF Stored
  <2>4. \A j : RestGives(rest, j) = Lookup(e, j)
    BY <1>4, EnvGives
  <2>5. e \in 0 .. Len(envs) /\ e # NO_ENV
    BY <1>1 DEF Ids, NO_ENV
  <2> HIDE DEF st1
  <2>6. FramesOK(st1)
    BY <1>2, <2>3 DEF FramesOK
  <2> QED  BY <1>1, <1>4, <2>3, <2>4, <2>5, <2>6 DEF Lookup
<1>5. ASSUME NEW e \in Ids, NEW d \in Nat, rest = <<"frame", e, d>>, envs[e].tag = "framed",
             envs[e].lsub = lsub, d < envs[e].cut
      PROVE  /\ StoreOK(st1.envs, slots) /\ Grown(envs, slots, st1.envs, slots) /\ FramesOK(st1)
             /\ st1.id \in 0 .. Len(st1.envs)
             /\ st1.id # NO_ENV => st1.envs[st1.id].lsub = lsub /\ Holds(st1.envs[st1.id])
             /\ \A j \in Nat : RestGives(rest, j) = IF st1.id = NO_ENV THEN None
                                                     ELSE Lookups(st1.envs, slots)[st1.id][j]
  <2>1. rest[1] = "frame" /\ rest[2] = e /\ rest[3] = d
    BY <1>5
  <2>2. st1 = FrameWithout(Stored, envs[e], d, envs[e].lsub)
    BY <1>5, <2>1 DEF WithRest
  <2>3. \A j : RestGives(rest, j) = Lookup(e, d + j)
    BY <1>5, FrameGives
  <2> HIDE DEF st1
  <2>4. /\ StoreOK(st1.envs, slots) /\ Grown(envs, slots, st1.envs, slots) /\ FramesOK(st1)
        /\ st1.id \in 0 .. Len(st1.envs)
        /\ st1.id # NO_ENV => st1.envs[st1.id].lsub = envs[e].lsub /\ Holds(st1.envs[st1.id])
        /\ \A j \in Nat : Lookup(e, d + j) = IF st1.id = NO_ENV THEN None
                                              ELSE Lookups(st1.envs, slots)[st1.id][j]
    <3>1. e \in Ids /\ d \in Nat /\ envs[e].tag = "framed" /\ d < envs[e].cut
      BY <1>5
    <3> QED  BY ONLY StoreOK(envs, slots), FramesOK(Stored), <2>2, <3>1, FrameWithoutIs
  <2> QED  BY <1>5, <2>3, <2>4
<1> HIDE DEF st1, lsub
<1> QED  BY <1>3, <1>4, <1>5 DEF RestOK, st1, lsub

-----------------------------------------------------------------------------
(* What pruning answers.                                                   *)

\* r is e pruned to mask.
PrunedIn(ns, ss, e, mask, r) ==
  /\ ns[r].lsub = ns[e].lsub
  /\ \A i \in Nat : Lookups(ns, ss)[r][i] = IF Wanted(mask, i) THEN Lookups(ns, ss)[e][i] ELSE None
  /\ ExactIn(ns, ss, r)

\* An answer stays right when the store grows.
LEMMA PrunedGrows ==
  ASSUME NEW ns, NEW ss, NEW ns2, NEW ss2, StoreOK(ns, ss), StoreOK(ns2, ss2),
         Grown(ns, ss, ns2, ss2), NEW e \in 1 .. Len(ns), NEW r \in 1 .. Len(ns), NEW mask,
         PrunedIn(ns, ss, e, mask, r)
  PROVE  PrunedIn(ns2, ss2, e, mask, r)
<1>1. /\ Lookups(ns2, ss2)[e] = Lookups(ns, ss)[e] /\ ns2[e] = ns[e]
      /\ Lookups(ns2, ss2)[r] = Lookups(ns, ss)[r] /\ ns2[r] = ns[r]
  BY LookupsGrow DEF Grown
<1>2. ExactIn(ns2, ss2, r)
  BY ExactGrows DEF PrunedIn
<1> QED  BY <1>1, <1>2 DEF PrunedIn

\* An environment of which nothing is asked becomes the empty one.
LEMMA PrunedToNil ==
  ASSUME NEW ns, NEW ss, StoreOK(ns, ss), NEW e, NEW r \in 1 .. Len(ns), ns[r].tag = "nil",
         ns[r].lsub = ns[e].lsub
  PROVE  PrunedIn(ns, ss, e, {}, r)
<1>1. \A i \in Nat : Lookups(ns, ss)[r][i] = None /\ ~Wanted({}, i)
  BY LookNil DEF Wanted
<1>2. ExactIn(ns, ss, r)
  BY NilExact
<1> QED  BY <1>1, <1>2 DEF PrunedIn

\* One that has nothing but what is asked for stays as it is.
LEMMA PrunedToSelf ==
  ASSUME NEW ns, NEW ss, StoreOK(ns, ss), NEW e \in 1 .. Len(ns), ExactIn(ns, ss, e),
         NEW mask, ns[e].mask \subseteq mask
  PROVE  PrunedIn(ns, ss, e, mask, e)
<1>1. NEAR \in Nat /\ FAR = NEAR
  BY NearIs
<1>2. ASSUME NEW i \in Nat, ~Wanted(mask, i) PROVE Lookups(ns, ss)[e][i] = None
  <2>1. CASE i < NEAR
    <3>1. i \in 0 .. NEAR - 1 /\ i \notin ns[e].mask
      BY <1>1, <1>2, <2>1 DEF Wanted
    <3> QED  BY <3>1 DEF ExactIn
  <2>2. CASE ~(i < NEAR)
    <3>1. i >= NEAR /\ FAR \notin ns[e].mask
      BY <1>1, <1>2, <2>2 DEF Wanted
    <3> QED  BY <3>1 DEF ExactIn
  <2> QED  BY <2>1, <2>2
<1> QED  BY <1>2 DEF PrunedIn

\* The values gathered for a mask go to the slots after the others.
LEMMA GatheredSlots ==
  ASSUME StoreOK(envs, slots), NEW e \in Ids, NEW rem \in MaskSet, NEW got,
         ValuesRight(e, rem, 0, NEAR, got)
  PROVE  LET ss == slots \o got.vals
         IN  /\ Extends(ss) /\ ValuesAt(ss, Len(slots) + 1, Cardinality(got.mask))
             /\ \A i \in got.mask :
                  ss[Len(slots) + 1 + Cardinality(LowBits(got.mask, i))] = Lookup(e, i)
<1> DEFINE vals == got.vals
           m == got.mask
           ss == slots \o vals
           num == Cardinality(m)
           n == Len(slots)
<1>1. NEAR \in Nat
  BY NearIs
<1>2. /\ m \subseteq 0 .. NEAR - 1 /\ vals \in Seq(Nat) /\ Len(vals) = num
      /\ \A x \in 0 .. NEAR - 1 : x \in m <=> x - 0 \in rem /\ Lookup(e, x - 0) # None
      /\ \A x \in m : vals[Cardinality(LowBits(m, x)) + 1] = Lookup(e, x - 0)
  BY DEF ValuesRight
<1>3. \A x \in 0 .. NEAR - 1 : x - 0 = x
  BY <1>1
<1>4. \A x \in m : vals[Cardinality(LowBits(m, x)) + 1] = Lookup(e, x) /\ Lookup(e, x) # None
  BY <1>2, <1>3
<1> HIDE DEF vals, m
<1>5. BitSet(m) /\ num \in Nat
  <2>1. IsFiniteSet(0 .. NEAR - 1)
    BY <1>1, FS_Interval
  <2>2. IsFiniteSet(m)
    BY <1>2, <2>1, FS_Subset
  <2>3. BitSet(m)
    BY <1>1, <1>2, <2>2 DEF BitSet
  <2> QED  BY <2>3, PartCounts
<1>6. slots \in Seq(Nat) /\ n \in Nat
  BY LenProperties DEF StoreOK
<1>7. /\ ss \in Seq(Nat) /\ Len(ss) = n + num
      /\ \A i \in 1 .. n + num : ss[i] = IF i <= n THEN slots[i] ELSE vals[i - n]
  <2>1. \A s, t \in Seq(Nat) :
          /\ s \o t \in Seq(Nat) /\ Len(s \o t) = Len(s) + Len(t)
          /\ \A i \in 1 .. Len(s) + Len(t) :
               (s \o t)[i] = IF i <= Len(s) THEN s[i] ELSE t[i - Len(s)]
    BY ONLY ConcatProperties
  <2>2. Len(vals) = num /\ vals \in Seq(Nat)
    BY <1>2
  <2> HIDE DEF num
  <2>3. /\ slots \o vals \in Seq(Nat) /\ Len(slots \o vals) = Len(slots) + Len(vals)
        /\ \A i \in 1 .. Len(slots) + Len(vals) :
             (slots \o vals)[i] = IF i <= Len(slots) THEN slots[i] ELSE vals[i - Len(slots)]
    BY ONLY <1>6, <2>1, <2>2
  <2> QED  BY ONLY <2>2, <2>3 DEF ss, n
<1> HIDE DEF ss, num, n
<1>8. \A i \in 1 .. n : ss[i] = slots[i]
  BY <1>5, <1>6, <1>7
<1>9. Extends(ss)
  BY <1>5, <1>6, <1>7, <1>8 DEF Extends, n
<1>10. \A k \in 0 .. num - 1 : ss[n + 1 + k] = vals[k + 1]
  <2> SUFFICES ASSUME NEW k \in 0 .. num - 1 PROVE ss[n + 1 + k] = vals[k + 1]
    OBVIOUS
  <2> DEFINE i == n + 1 + k
  <2>1. i \in 1 .. n + num /\ ~(i <= n) /\ i - n = k + 1
    BY <1>5, <1>6
  <2> HIDE DEF i
  <2>2. ss[i] = vals[i - n]
    BY <1>7, <2>1
  <2> QED  BY <2>1, <2>2 DEF i
<1>11. \A x \in m : Cardinality(LowBits(m, x)) \in 0 .. num - 1
  <2> SUFFICES ASSUME NEW x \in m PROVE Cardinality(LowBits(m, x)) \in 0 .. num - 1
    OBVIOUS
  <2>1. x \in Int
    BY <1>5 DEF BitSet
  <2>2. Cardinality(LowBits(m, x)) \in Nat /\ Cardinality(LowBits(m, x)) < num
    BY <1>5, <2>1, LowPart, BitCounts DEF num
  <2> QED  BY <1>5, <2>2
<1>12. \A x \in m : ss[n + 1 + Cardinality(LowBits(m, x))] = Lookup(e, x)
  BY <1>4, <1>10, <1>11
<1>13. ASSUME NEW k \in n + 1 .. n + 1 + num - 1 PROVE ss[k] # None
  <2>1. k - (n + 1) \in 0 .. num - 1 /\ n + 1 + (k - (n + 1)) = k
    BY <1>5, <1>6
  <2>2. PICK x \in m : Cardinality(LowBits(m, x)) = k - (n + 1)
    BY <1>5, <2>1, PlaceIsBit DEF num
  <2> QED  BY <1>4, <1>12, <2>1, <2>2
<1>14. n + 1 \in Nat \ {0} /\ n + 1 + num <= Len(ss) + 1
  BY <1>5, <1>6, <1>7
<1>15. ValuesAt(ss, n + 1, num)
  BY <1>13, <1>14 DEF ValuesAt
<1> QED  BY <1>9, <1>12, <1>15 DEF ss, m, n, num, vals

\* prune_env, when neither the mask nor the memo has the answer.
LEMMA ColdRight ==
  ASSUME StoreOK(envs, slots), FramesOK(Stored), NEW e \in Ids, NEW mask \in MaskSet
  PROVE  LET got == Gather(e, Near(mask), FAR \in mask)
             ss   == slots \o got.vals
             st1  == WithRest(got.rest, envs[e].lsub)
             st   == InternFrame(st1, ss, got.mask, Len(slots) + 1, NEAR, st1.id, envs[e].lsub)
             ss2  == KeptSlots(st, ss)
         IN  /\ StoreOK(st.envs, ss2) /\ Grown(envs, slots, st.envs, ss2) /\ FramesOK(st)
             /\ st.id \in 1 .. Len(st.envs) /\ PrunedIn(st.envs, ss2, e, mask, st.id)
<1> DEFINE lsub == envs[e].lsub
           got == Gather(e, Near(mask), FAR \in mask)
           ss == slots \o got.vals
           st1 == WithRest(got.rest, lsub)
           at == Len(slots) + 1
           st == InternFrame(st1, ss, got.mask, at, NEAR, st1.id, lsub)
           ss2 == KeptSlots(st, ss)
<1>1. NEAR \in Nat /\ NEAR # 0 /\ FAR = NEAR /\ 0 \in 0 .. NEAR
  BY NearIs
<1>2. e \in 1 .. Len(envs) /\ lsub \in Subs
  <2>1. e \in 1 .. Len(envs)
    BY DEF Ids
  <2> QED  BY <2>1, NodeIs
<1>3. Near(mask) \in MaskSet
  BY DEF Near, MaskSet
<1>4. PICK keepFar \in BOOLEAN : keepFar = (FAR \in mask)
  <2>1. (FAR \in mask) \in BOOLEAN
    OBVIOUS
  <2> QED  BY ONLY <2>1, Zenon
<1>5. PartRight(e, Near(mask), 0, keepFar, got)
  <2>1. got = Gather(e, Near(mask), keepFar)
    BY <1>4
  <2>2. Gather(e, Near(mask), keepFar) = Gathering(keepFar)[e][<<Near(mask), 0>>]
    BY GatherIs
  <2>3. PartRight(e, Near(mask), 0, keepFar, Gathering(keepFar)[e][<<Near(mask), 0>>])
    BY <1>1, <1>3, GatherRight
  <2> QED  BY <2>1, <2>2, <2>3
<1> HIDE DEF got
<1>6. ValuesRight(e, Near(mask), 0, NEAR, got) /\ RestRight(e, 0, keepFar, got.rest)
  BY <1>5 DEF PartRight
<1>7. /\ got.mask \subseteq 0 .. NEAR - 1
      /\ \A x \in 0 .. NEAR - 1 : x \in got.mask <=> x \in mask /\ Lookup(e, x) # None
  <2>1. /\ got.mask \subseteq 0 .. NEAR - 1
        /\ \A x \in 0 .. NEAR - 1 : x \in got.mask <=> x - 0 \in Near(mask) /\ Lookup(e, x - 0) # None
    BY <1>6 DEF ValuesRight
  <2>2. \A x \in 0 .. NEAR - 1 : x - 0 = x /\ (x \in Near(mask) <=> x \in mask)
    BY <1>1 DEF Near
  <2> QED  BY <2>1, <2>2
<1>8. /\ Extends(ss) /\ ValuesAt(ss, at, Cardinality(got.mask))
      /\ \A i \in got.mask : ss[at + Cardinality(LowBits(got.mask, i))] = Lookup(e, i)
  BY <1>3, <1>6, GatheredSlots
<1>9. /\ StoreOK(st1.envs, slots) /\ Grown(envs, slots, st1.envs, slots) /\ FramesOK(st1)
      /\ st1.id \in 0 .. Len(st1.envs)
      /\ st1.id # NO_ENV => st1.envs[st1.id].lsub = lsub /\ Holds(st1.envs[st1.id])
      /\ \A j \in Nat : RestGives(got.rest, j) = IF st1.id = NO_ENV THEN None
                                                  ELSE Lookups(st1.envs, slots)[st1.id][j]
  <2>1. RestOK(e, got.rest)
    BY <1>6 DEF RestRight
  <2> QED  BY <2>1, WithRestIs
<1>10. \A j \in Nat : RestGives(got.rest, j) = IF keepFar THEN Lookup(e, NEAR - 0 + j) ELSE None
  BY <1>6 DEF RestRight
<1> HIDE DEF st1, ss, at
<1>11. FrameAsk(st1, ss, got.mask, at, NEAR, st1.id, lsub)
  <2>1. NEAR \in 1 .. NEAR
    BY <1>1
  <2> QED  BY <1>2, <1>7, <1>8, <1>9, <2>1 DEF FrameAsk
<1>12. /\ StoreOK(st.envs, ss2) /\ Grown(st1.envs, slots, st.envs, ss2)
       /\ FramesOK(st) /\ st.id \in 1 .. Len(st.envs)
       /\ FrameAsked(st.envs[st.id], ss2, ss, got.mask, at, NEAR, st1.id, lsub)
  BY <1>8, <1>9, <1>11, InternFrameNode
<1> HIDE DEF st, ss2
<1>13. Grown(envs, slots, st.envs, ss2)
  BY <1>9, <1>12, GrownTwice
<1>14. LooksFramed(st.envs, ss2, st.id, ss, got.mask, at, NEAR, st1.id)
  BY ONLY <1>7, <1>12, FrameLook
<1>15. FrameCut(NEAR, st1.id) = NEAR
  BY DEF FrameCut
<1>16. \A i \in Nat :
         Lookups(st.envs, ss2)[st.id][i] =
           IF i < NEAR
           THEN IF i \in got.mask THEN ss[at + Cardinality(LowBits(got.mask, i))] ELSE None
           ELSE IF st1.id = NO_ENV THEN None ELSE Lookups(st.envs, ss2)[st1.id][i - NEAR]
  BY <1>14, <1>15 DEF LooksFramed
<1>17. st1.id # NO_ENV => Lookups(st.envs, ss2)[st1.id] = Lookups(st1.envs, slots)[st1.id]
  <2>1. st1.id # NO_ENV => st1.id \in 1 .. Len(st1.envs)
    <3>1. Len(st1.envs) \in Nat
      BY <1>9, LenProperties DEF StoreOK
    <3> QED  BY <1>9, <3>1 DEF NO_ENV
  <2> QED  BY <1>9, <1>12, <2>1, LookupsGrow
<1>18. Lookups(st.envs, ss2)[e] = Lookups(envs, slots)[e] /\ st.envs[e] = envs[e]
  BY <1>2, <1>12, <1>13, LookupsGrow DEF Grown
<1>19. ASSUME NEW i \in Nat
       PROVE  Lookups(st.envs, ss2)[st.id][i] =
                IF Wanted(mask, i) THEN Lookups(st.envs, ss2)[e][i] ELSE None
  <2>0. Lookups(st.envs, ss2)[e][i] = Lookup(e, i)
    BY <1>18 DEF Lookup
  <2>1. CASE i < NEAR
    <3>1. i \in 0 .. NEAR - 1
      BY <1>1, <2>1
    <3>2. Wanted(mask, i) <=> i \in mask
      BY <2>1 DEF Wanted
    <3>3. Lookups(st.envs, ss2)[st.id][i] = IF i \in got.mask THEN Lookup(e, i) ELSE None
      BY <1>8, <1>16, <2>1
    <3> QED  BY <1>7, <2>0, <3>1, <3>2, <3>3
  <2>2. CASE ~(i < NEAR)
    <3> DEFINE j == i - NEAR
    <3>1. j \in Nat /\ NEAR - 0 + j = i
      BY <1>1, <2>2
    <3>2. Wanted(mask, i) <=> keepFar
      BY <1>4, <2>2 DEF Wanted
    <3>3. Lookups(st.envs, ss2)[st.id][i] =
            IF st1.id = NO_ENV THEN None ELSE Lookups(st1.envs, slots)[st1.id][j]
      BY <1>16, <1>17, <2>2
    <3>4. Lookups(st.envs, ss2)[st.id][i] = RestGives(got.rest, j)
      <4> HIDE DEF j
      <4> QED  BY <1>9, <3>1, <3>3
    <3>5. RestGives(got.rest, j) = IF keepFar THEN Lookup(e, i) ELSE None
      <4> HIDE DEF j
      <4>1. RestGives(got.rest, j) = IF keepFar THEN Lookup(e, NEAR - 0 + j) ELSE None
        BY <1>10, <3>1
      <4> QED  BY <3>1, <4>1
    <3> QED  BY <2>0, <3>2, <3>4, <3>5
  <2> QED  BY <2>1, <2>2
<1>20. ExactIn(st.envs, ss2, st.id) /\ st.envs[st.id].lsub = st.envs[e].lsub
  <2>1. st.envs[st.id].tag = "framed" /\ st.envs[st.id].cut = NEAR /\ st.envs[st.id].lsub = lsub
    BY <1>12, <1>15 DEF FrameAsked
  <2> QED  BY <1>12, <1>18, <2>1, FrameExact
<1>21. PrunedIn(st.envs, ss2, e, mask, st.id)
  BY <1>19, <1>20 DEF PrunedIn
<1> QED  BY <1>12, <1>13, <1>21 DEF got, ss, st1, st, ss2, at

-----------------------------------------------------------------------------
(* The invariant: what every table of the session says of the store.       *)

TableIn(ns, table) ==
  \A k \in DOMAIN table :
    /\ k[1] \in 1 .. Len(ns) /\ table[k] \in 1 .. Len(ns)
    /\ ns[table[k]] = Cons(k[1], k[2], ns)

NilsIn(ns, known) ==
  \A l \in DOMAIN known : known[l] \in 1 .. Len(ns) /\ ns[known[l]] = Nil(l)

\* An answer of prune_env on record, in the memo or as the last one given.
RightIn(ns, ss, entry) ==
  /\ entry.mask \in MaskSet /\ entry.env \in 1 .. Len(ns) /\ entry.gave \in 1 .. Len(ns)
  /\ PrunedIn(ns, ss, entry.env, entry.mask, entry.gave)

MemoIn(ns, ss, memo) ==
  /\ DOMAIN memo = 0 .. DmSize - 1
  /\ \A s \in 0 .. DmSize - 1 : RightIn(ns, ss, memo[s])

HeldIn(ns, ss, es) == \A e \in es : e \in 1 .. Len(ns) /\ ExactIn(ns, ss, e)

AskedIn(ns, ss, a) == a.op = "prune" => RightIn(ns, ss, a)

FramesIn(ns, known) == \A h \in DOMAIN known : known[h] \in 1 .. Len(ns)

EnvsInv ==
  /\ StoreOK(envs, slots)
  /\ TableIn(envs, env_table) /\ FramesIn(envs, frames) /\ NilsIn(envs, nils)
  /\ MemoIn(envs, slots, prune_dm) /\ DOMAIN prune_dm = 0 .. DmSize - 1
  /\ HeldIn(envs, slots, held) /\ AskedIn(envs, slots, asked)

\* All but the last answer stays true when the store has grown.
LEMMA TablesGrow ==
  ASSUME NEW ns, NEW ss, NEW ns2, NEW ss2, StoreOK(ns, ss), StoreOK(ns2, ss2),
         Grown(ns, ss, ns2, ss2)
  PROVE  /\ \A table : TableIn(ns, table) => TableIn(ns2, table)
         /\ \A known : FramesIn(ns, known) => FramesIn(ns2, known)
         /\ \A known : NilsIn(ns, known) => NilsIn(ns2, known)
         /\ \A entry : RightIn(ns, ss, entry) => RightIn(ns2, ss2, entry)
         /\ \A memo : MemoIn(ns, ss, memo) => MemoIn(ns2, ss2, memo)
         /\ \A es : HeldIn(ns, ss, es) => HeldIn(ns2, ss2, es)
<1>1. \A e \in 1 .. Len(ns) : e \in 1 .. Len(ns2) /\ ns2[e] = ns[e]
  <2>1. Len(ns) \in Nat /\ Len(ns2) \in Nat /\ Len(ns) <= Len(ns2)
    BY LenProperties DEF StoreOK, Grown
  <2> QED  BY <2>1 DEF Grown
<1>2. \A table : TableIn(ns, table) => TableIn(ns2, table)
  <2>1. \A e \in 1 .. Len(ns) : \A v : Cons(e, v, ns2) = Cons(e, v, ns)
    BY <1>1 DEF Cons
  <2> QED  BY <1>1, <2>1 DEF TableIn
<1>3. \A known : FramesIn(ns, known) => FramesIn(ns2, known)
  BY <1>1 DEF FramesIn
<1>4. \A known : NilsIn(ns, known) => NilsIn(ns2, known)
  BY <1>1 DEF NilsIn
<1>5. \A entry : RightIn(ns, ss, entry) => RightIn(ns2, ss2, entry)
  BY <1>1, PrunedGrows DEF RightIn
<1>6. \A memo : MemoIn(ns, ss, memo) => MemoIn(ns2, ss2, memo)
  BY <1>5 DEF MemoIn
<1>7. \A es : HeldIn(ns, ss, es) => HeldIn(ns2, ss2, es)
  BY <1>1, ExactGrows DEF HeldIn
<1> QED  BY ONLY <1>2, <1>3, <1>4, <1>5, <1>6, <1>7

\* What a step leaves of the store of before, and that it keeps the invariant.
Kept == EnvsInv' /\ Grown(envs, slots, envs', slots')

\* A step that answers r, and says nothing wrong of it.
LEMMA AnswerKeeps ==
  ASSUME EnvsInv, NEW op, NEW e, NEW mask, NEW r, Answer(op, e, mask, r),
         StoreOK(envs', slots'), Grown(envs, slots, envs', slots'),
         r \in 1 .. Len(envs'), ExactIn(envs', slots', r),
         op = "prune" => /\ mask \in MaskSet /\ e \in 1 .. Len(envs)
                         /\ PrunedIn(envs', slots', e, mask, r)
  PROVE  /\ HeldIn(envs', slots', held') /\ AskedIn(envs', slots', asked')
         /\ TableIn(envs', env_table) /\ FramesIn(envs', frames) /\ NilsIn(envs', nils)
         /\ MemoIn(envs', slots', prune_dm)
<1>1. /\ StoreOK(envs, slots) /\ HeldIn(envs, slots, held) /\ TableIn(envs, env_table)
      /\ FramesIn(envs, frames) /\ NilsIn(envs, nils) /\ MemoIn(envs, slots, prune_dm)
  BY DEF EnvsInv
<1>2. /\ HeldIn(envs', slots', held) /\ TableIn(envs', env_table) /\ FramesIn(envs', frames)
      /\ NilsIn(envs', nils) /\ MemoIn(envs', slots', prune_dm)
  BY <1>1, TablesGrow
<1>3. asked' = [op |-> op, env |-> e, mask |-> mask, gave |-> r] /\ held' = held \cup {r}
  BY DEF Answer
<1>4. HeldIn(envs', slots', held')
  BY <1>2, <1>3 DEF HeldIn
<1>5. AskedIn(envs', slots', asked')
  <2>1. asked'.op = op /\ asked'.env = e /\ asked'.mask = mask /\ asked'.gave = r
    BY <1>3
  <2>2. e \in 1 .. Len(envs) => e \in 1 .. Len(envs')
    <3>1. Len(envs) \in Nat /\ Len(envs') \in Nat /\ Len(envs) <= Len(envs')
      BY <1>1, LenProperties DEF StoreOK, Grown
    <3> QED  BY <3>1
  <2> QED  BY <2>1, <2>2 DEF AskedIn, RightIn
<1> QED  BY <1>2, <1>4, <1>5

\* Every operation keeps the invariant and only appends.
LEMMA PushKeeps ==
  ASSUME EnvsInv, NEW e \in held, NEW v \in Values, Push(e, v)
  PROVE  Kept
<1>1. StoreOK(envs, slots) /\ TableIn(envs, env_table) /\ e \in 1 .. Len(envs) /\ ExactIn(envs, slots, e)
  BY DEF EnvsInv, HeldIn
<1>2. v \in Nat /\ v # None
  BY EnvsAssumption
<1>3. slots' = slots /\ frames' = frames /\ nils' = nils /\ prune_dm' = prune_dm
  BY DEF Push
<1>4. CASE <<e, v>> \in DOMAIN env_table
  <2> DEFINE r == env_table[<<e, v>>]
  <2>1. envs' = envs /\ env_table' = env_table /\ Answer("push", e, {}, r)
    BY <1>4 DEF Push
  <2>2. r \in 1 .. Len(envs) /\ envs[r] = Cons(e, v, envs)
    <3> DEFINE k == <<e, v>>
    <3>1. k \in DOMAIN env_table /\ k[1] = e /\ k[2] = v
      BY <1>4
    <3> HIDE DEF k
    <3>2. env_table[k] \in 1 .. Len(envs) /\ envs[env_table[k]] = Cons(k[1], k[2], envs)
      BY <1>1, <3>1 DEF TableIn
    <3> QED  BY <3>1, <3>2 DEF k
  <2> HIDE DEF r
  <2>3. envs[r].tag = "cons" /\ envs[r].b = e
    BY <2>2 DEF Cons
  <2>4. ExactIn(envs, slots, r)
    BY <1>1, <2>2, <2>3, ConsExact
  <2>5. Grown(envs, slots, envs', slots')
    BY <1>1, <1>3, <2>1, GrownSelf
  <2>6. StoreOK(envs', slots') /\ r \in 1 .. Len(envs') /\ ExactIn(envs', slots', r)
    BY <1>1, <1>3, <2>1, <2>2, <2>4
  <2>7. /\ HeldIn(envs', slots', held') /\ AskedIn(envs', slots', asked')
        /\ TableIn(envs', env_table) /\ FramesIn(envs', frames) /\ NilsIn(envs', nils)
        /\ MemoIn(envs', slots', prune_dm)
    BY <2>1, <2>5, <2>6, AnswerKeeps
  <2> QED  BY <1>3, <2>1, <2>5, <2>6, <2>7 DEF Kept, EnvsInv, MemoIn
<1>5. CASE <<e, v>> \notin DOMAIN env_table
  <2> DEFINE new == Len(envs) + 1
             n == Cons(e, v, envs)
  <2>1. /\ envs' = Append(envs, n) /\ Answer("push", e, {}, new)
        /\ env_table' = [k \in DOMAIN env_table \cup {<<e, v>>} |->
                           IF k = <<e, v>> THEN new ELSE env_table[k]]
    BY <1>5 DEF Push
  <2>2. n \in Nodes /\ n.tag = "cons" /\ ConsOK(envs, n, new) /\ n.b = e
    BY <1>1, <1>2, ConsNode DEF Cons
  <2> HIDE DEF n
  <2>3. /\ StoreOK(Append(envs, n), slots) /\ Grown(envs, slots, Append(envs, n), slots)
        /\ Len(Append(envs, n)) = new /\ Append(envs, n)[new] = n
        /\ new \in 1 .. new /\ 1 .. Len(envs) \subseteq 1 .. new
    BY <1>1, <2>2, NodeAppend
  <2> HIDE DEF new
  <2>4. /\ StoreOK(envs', slots') /\ Grown(envs, slots, envs', slots')
        /\ Len(envs') = new /\ envs'[new] = n /\ new \in 1 .. Len(envs') /\ e \in 1 .. Len(envs')
    BY <1>1, <1>3, <2>1, <2>3
  <2>5. ExactIn(envs', slots', e)
    BY <1>1, <2>4, ExactGrows
  <2>6. ExactIn(envs', slots', new)
    BY <2>2, <2>4, <2>5, ConsExact
  <2>7. /\ HeldIn(envs', slots', held') /\ AskedIn(envs', slots', asked')
        /\ TableIn(envs', env_table) /\ FramesIn(envs', frames) /\ NilsIn(envs', nils)
        /\ MemoIn(envs', slots', prune_dm)
    BY <2>1, <2>4, <2>6, AnswerKeeps
  <2>8. TableIn(envs', env_table')
    <3> DEFINE k0 == <<e, v>>
    <3>1. k0[1] = e /\ k0[2] = v
      OBVIOUS
    <3>2. Cons(e, v, envs') = n
      <4>1. envs'[e] = envs[e]
        BY <1>1, <2>4 DEF Grown
      <4> QED  BY <4>1 DEF Cons, n
    <3>3. env_table' = [k \in DOMAIN env_table \cup {k0} |-> IF k = k0 THEN new ELSE env_table[k]]
      BY <2>1
    <3> HIDE DEF k0
    <3>4. ASSUME NEW k \in DOMAIN env_table'
          PROVE  /\ k[1] \in 1 .. Len(envs') /\ env_table'[k] \in 1 .. Len(envs')
                 /\ envs'[env_table'[k]] = Cons(k[1], k[2], envs')
      <4>1. CASE k = k0
        <5>1. env_table'[k] = new
          BY <3>3, <4>1
        <5> QED  BY <2>4, <3>1, <3>2, <4>1, <5>1
      <4>2. CASE k # k0
        <5>1. k \in DOMAIN env_table /\ env_table'[k] = env_table[k]
          BY <3>3, <4>2
        <5> QED  BY <2>7, <5>1 DEF TableIn
      <4> QED  BY <4>1, <4>2
    <3> QED  BY <3>4 DEF TableIn
  <2> QED  BY <1>3, <2>4, <2>7, <2>8 DEF Kept, EnvsInv, MemoIn
<1> QED  BY <1>4, <1>5

\* env_nil, when it is asked for the empty environment or for all of e to go.
LEMMA EnvNilKeeps ==
  ASSUME EnvsInv, NEW op, NEW e, NEW lsub \in Subs, EnvNil(op, e, lsub),
         op = "prune" => e \in 1 .. Len(envs) /\ lsub = envs[e].lsub,
         UNCHANGED <<slots, env_table, frames, prune_dm>>
  PROVE  Kept
<1>1. StoreOK(envs, slots) /\ NilsIn(envs, nils)
  BY DEF EnvsInv
<1>2. slots' = slots /\ env_table' = env_table /\ frames' = frames /\ prune_dm' = prune_dm
  OBVIOUS
<1>3. {} \in MaskSet
  BY DEF MaskSet
<1>4. ASSUME NEW r \in 1 .. Len(envs), envs[r] = Nil(lsub), Answer(op, e, {}, r), UNCHANGED <<envs, nils>>
      PROVE  Kept
  <2>1. envs' = envs /\ nils' = nils
    BY <1>4
  <2>2. envs[r].tag = "nil" /\ envs[r].lsub = lsub
    BY <1>4 DEF Nil
  <2>3. ExactIn(envs, slots, r) /\ (op = "prune" => PrunedIn(envs, slots, e, {}, r))
    BY <1>1, <2>2, NilExact, PrunedToNil
  <2>4. Grown(envs, slots, envs', slots')
    BY <1>1, <1>2, <2>1, GrownSelf
  <2>5. /\ StoreOK(envs', slots') /\ r \in 1 .. Len(envs') /\ ExactIn(envs', slots', r)
        /\ op = "prune" => {} \in MaskSet /\ e \in 1 .. Len(envs) /\ PrunedIn(envs', slots', e, {}, r)
    BY <1>1, <1>2, <1>3, <1>4, <2>1, <2>3
  <2>6. /\ HeldIn(envs', slots', held') /\ AskedIn(envs', slots', asked')
        /\ TableIn(envs', env_table) /\ FramesIn(envs', frames) /\ NilsIn(envs', nils)
        /\ MemoIn(envs', slots', prune_dm)
    BY <1>4, <2>4, <2>5, AnswerKeeps
  <2> QED  BY <1>2, <2>1, <2>4, <2>5, <2>6 DEF Kept, EnvsInv, MemoIn
<1>5. CASE lsub = NoSub
  <2>1. EMPTY_ENV \in 1 .. Len(envs) /\ envs[EMPTY_ENV] = Nil(lsub)
    <3>1. Len(envs) \in Nat /\ Len(envs) # 0 /\ envs[EMPTY_ENV] = Nil(NoSub)
      BY <1>1, LenProperties DEF StoreOK
    <3> QED  BY <1>5, <3>1 DEF EMPTY_ENV
  <2>2. Answer(op, e, {}, EMPTY_ENV) /\ UNCHANGED <<envs, nils>>
    BY <1>5 DEF EnvNil
  <2> QED  BY <1>4, <2>1, <2>2
<1>6. CASE lsub # NoSub /\ lsub \in DOMAIN nils
  <2>1. nils[lsub] \in 1 .. Len(envs) /\ envs[nils[lsub]] = Nil(lsub)
    BY <1>1, <1>6 DEF NilsIn
  <2>2. Answer(op, e, {}, nils[lsub]) /\ UNCHANGED <<envs, nils>>
    BY <1>6 DEF EnvNil
  <2> QED  BY <1>4, <2>1, <2>2
<1>7. CASE lsub # NoSub /\ lsub \notin DOMAIN nils
  <2> DEFINE n == Nil(lsub)
             new == Len(envs) + 1
  <2>1. /\ envs' = Append(envs, n) /\ Answer(op, e, {}, new)
        /\ nils' = [l \in DOMAIN nils \cup {lsub} |-> IF l = lsub THEN new ELSE nils[l]]
    BY <1>7 DEF EnvNil
  <2>2. n \in Nodes /\ n.tag = "nil" /\ NilOK(n) /\ n.lsub = lsub
    BY NilNode DEF Nil
  <2> HIDE DEF n
  <2>3. /\ StoreOK(Append(envs, n), slots) /\ Grown(envs, slots, Append(envs, n), slots)
        /\ Len(Append(envs, n)) = new /\ Append(envs, n)[new] = n /\ new \in 1 .. new
    BY <1>1, <2>2, NodeAppend
  <2> HIDE DEF new
  <2>4. /\ StoreOK(envs', slots') /\ Grown(envs, slots, envs', slots')
        /\ Len(envs') = new /\ envs'[new] = n /\ new \in 1 .. Len(envs')
    BY <1>2, <2>1, <2>3
  <2>5. ExactIn(envs', slots', new)
    BY <2>2, <2>4, NilExact
  <2>6. op = "prune" => PrunedIn(envs', slots', e, {}, new)
    <3>1. op = "prune" => envs'[e].lsub = lsub
      BY <2>4 DEF Grown
    <3> QED  BY <2>2, <2>4, <3>1, PrunedToNil
  <2>7. /\ HeldIn(envs', slots', held') /\ AskedIn(envs', slots', asked')
        /\ TableIn(envs', env_table) /\ FramesIn(envs', frames) /\ NilsIn(envs', nils)
        /\ MemoIn(envs', slots', prune_dm)
    BY <1>3, <2>1, <2>4, <2>5, <2>6, AnswerKeeps
  <2>8. NilsIn(envs', nils')
    <3>1. ASSUME NEW l \in DOMAIN nils'
          PROVE  nils'[l] \in 1 .. Len(envs') /\ envs'[nils'[l]] = Nil(l)
      <4>1. CASE l = lsub
        BY <2>1, <2>4, <4>1 DEF n
      <4>2. CASE l # lsub
        <5>1. l \in DOMAIN nils /\ nils'[l] = nils[l]
          BY <2>1, <4>2
        <5> QED  BY <1>1, <2>4, <5>1, TablesGrow DEF NilsIn
      <4> QED  BY <4>1, <4>2
    <3> QED  BY <3>1 DEF NilsIn
  <2> QED  BY <1>2, <2>4, <2>7, <2>8 DEF Kept, EnvsInv, MemoIn
<1> QED  BY <1>5, <1>6, <1>7

LEMMA ColdKeeps ==
  ASSUME EnvsInv, NEW e \in held, NEW mask \in MaskSet, PruneCold(e, mask)
  PROVE  Kept
<1> DEFINE lsub == envs[e].lsub
           got == Gather(e, Near(mask), FAR \in mask)
           ss == slots \o got.vals
           st1 == WithRest(got.rest, lsub)
           st == InternFrame(st1, ss, got.mask, Len(slots) + 1, NEAR, st1.id, lsub)
           ss2 == KeptSlots(st, ss)
           at == DmSlot(e, mask)
           entry == [mask |-> mask, env |-> e, gave |-> st.id]
<1>1. /\ envs' = st.envs /\ frames' = st.frames /\ slots' = ss2
      /\ prune_dm' = [prune_dm EXCEPT ![at] = entry]
      /\ Answer("prune", e, mask, st.id)
      /\ env_table' = env_table /\ nils' = nils
  BY DEF PruneCold
<1>2. /\ StoreOK(envs, slots) /\ FramesIn(envs, frames) /\ MemoIn(envs, slots, prune_dm)
      /\ DOMAIN prune_dm = 0 .. DmSize - 1 /\ e \in Ids
  BY DEF EnvsInv, HeldIn, Ids
<1>3. FramesOK(Stored)
  BY <1>2 DEF FramesOK, FramesIn, Stored
<1>4. /\ StoreOK(st.envs, ss2) /\ Grown(envs, slots, st.envs, ss2) /\ FramesOK(st)
      /\ st.id \in 1 .. Len(st.envs) /\ PrunedIn(st.envs, ss2, e, mask, st.id)
  BY <1>2, <1>3, ColdRight
<1> DEFINE r == st.id
<1> HIDE DEF st, ss2, at
<1>5. /\ StoreOK(envs', slots') /\ Grown(envs, slots, envs', slots')
      /\ r \in 1 .. Len(envs') /\ PrunedIn(envs', slots', e, mask, r) /\ ExactIn(envs', slots', r)
      /\ FramesIn(envs', frames')
  BY <1>1, <1>4 DEF FramesOK, FramesIn, PrunedIn
<1>6. /\ HeldIn(envs', slots', held') /\ AskedIn(envs', slots', asked')
      /\ TableIn(envs', env_table) /\ FramesIn(envs', frames) /\ NilsIn(envs', nils)
      /\ MemoIn(envs', slots', prune_dm)
  <2>1. e \in 1 .. Len(envs)
    BY <1>2 DEF Ids
  <2> QED  BY <1>1, <1>5, <2>1, AnswerKeeps
<1> HIDE DEF r
<1>7. MemoIn(envs', slots', prune_dm')
  <2>1. entry.mask = mask /\ entry.env = e /\ entry.gave = r
    BY DEF r
  <2>2. e \in 1 .. Len(envs')
    <3>1. Len(envs) \in Nat /\ Len(envs') \in Nat /\ Len(envs) <= Len(envs')
      BY <1>2, <1>5, LenProperties DEF StoreOK, Grown
    <3> QED  BY <1>2, <3>1 DEF Ids
  <2> HIDE DEF entry
  <2>3. RightIn(envs', slots', entry)
    BY <1>5, <2>1, <2>2 DEF RightIn
  <2>4. DOMAIN prune_dm' = 0 .. DmSize - 1
    BY <1>1, <1>2
  <2>5. \A s \in 0 .. DmSize - 1 : prune_dm'[s] = entry \/ prune_dm'[s] = prune_dm[s]
    BY <1>1, <1>2
  <2> QED  BY <1>6, <2>3, <2>4, <2>5 DEF MemoIn
<1> QED  BY <1>1, <1>5, <1>6, <1>7 DEF Kept, EnvsInv, MemoIn

\* prune_env, whichever of its four ways it takes.
LEMMA PruneKeeps ==
  ASSUME EnvsInv, NEW e \in held, NEW mask \in MaskSet, Prune(e, mask)
  PROVE  Kept
<1>1. /\ StoreOK(envs, slots) /\ MemoIn(envs, slots, prune_dm)
      /\ e \in 1 .. Len(envs) /\ ExactIn(envs, slots, e) /\ envs[e].lsub \in Subs
  <2>1. StoreOK(envs, slots) /\ MemoIn(envs, slots, prune_dm) /\ e \in 1 .. Len(envs) /\ ExactIn(envs, slots, e)
    BY DEF EnvsInv, HeldIn
  <2> QED  BY <2>1, NodeIs
<1>2. CASE mask = {}
  <2>1. EnvNil("prune", e, envs[e].lsub) /\ UNCHANGED <<slots, env_table, frames, prune_dm>>
    BY <1>2 DEF Prune
  <2> QED  BY <1>1, <2>1, EnvNilKeeps
<1>3. ASSUME NEW r \in 1 .. Len(envs), PrunedIn(envs, slots, e, mask, r), Answer("prune", e, mask, r),
             UNCHANGED <<envs, slots, env_table, frames, nils, prune_dm>>
      PROVE  Kept
  <2>1. /\ envs' = envs /\ slots' = slots /\ env_table' = env_table /\ frames' = frames
        /\ nils' = nils /\ prune_dm' = prune_dm
    BY <1>3
  <2>2. StoreOK(envs', slots') /\ Grown(envs, slots, envs', slots')
    BY <1>1, <2>1, GrownSelf
  <2>3. /\ r \in 1 .. Len(envs') /\ ExactIn(envs', slots', r) /\ PrunedIn(envs', slots', e, mask, r)
    BY <1>3, <2>1 DEF PrunedIn
  <2>4. /\ HeldIn(envs', slots', held') /\ AskedIn(envs', slots', asked')
        /\ TableIn(envs', env_table) /\ FramesIn(envs', frames) /\ NilsIn(envs', nils)
        /\ MemoIn(envs', slots', prune_dm)
    BY <1>1, <1>3, <2>2, <2>3, AnswerKeeps
  <2> QED  BY <2>1, <2>2, <2>4 DEF Kept, EnvsInv, MemoIn
<1>4. CASE mask # {} /\ IsPruned(e, mask)
  <2>1. /\ Answer("prune", e, mask, e)
        /\ UNCHANGED <<envs, slots, env_table, frames, nils, prune_dm>>
    BY <1>4 DEF Prune
  <2>2. PrunedIn(envs, slots, e, mask, e)
    BY <1>1, <1>4, PrunedToSelf DEF IsPruned
  <2> QED  BY <1>1, <1>3, <2>1, <2>2
<1>5. CASE mask # {} /\ ~IsPruned(e, mask) /\ DmHit(e, mask)
  <2> DEFINE s == DmSlot(e, mask)
             entry == prune_dm[s]
  <2>1. /\ Answer("prune", e, mask, entry.gave)
        /\ UNCHANGED <<envs, slots, env_table, frames, nils, prune_dm>>
    BY <1>5 DEF Prune
  <2>2. entry.env = e /\ entry.mask = mask
    BY <1>5 DEF DmHit
  <2>3. s \in 0 .. DmSize - 1
    <3>1. e \in Nat
      BY <1>1, NodeIs
    <3>2. Cardinality(mask) \in Nat
      BY MaskIs, PartCounts
    <3>3. DmSize \in Nat \ {0} /\ e + Cardinality(mask) \in Nat
      BY <3>1, <3>2, EnvsAssumption
    <3> QED  BY <3>3 DEF DmSlot
  <2> HIDE DEF s
  <2>4. RightIn(envs, slots, entry)
    BY <1>1, <2>3 DEF MemoIn
  <2> DEFINE r == entry.gave
  <2> HIDE DEF entry
  <2>5. r \in 1 .. Len(envs) /\ PrunedIn(envs, slots, e, mask, r)
    BY <2>2, <2>4 DEF RightIn
  <2> QED  BY <1>3, <2>1, <2>5
<1>6. CASE mask # {} /\ ~IsPruned(e, mask) /\ ~DmHit(e, mask)
  <2>1. PruneCold(e, mask)
    BY <1>6 DEF Prune
  <2> QED  BY <2>1, ColdKeeps
<1> QED  BY <1>2, <1>4, <1>5, <1>6

\* What a declaration starts from: its context, and nothing else on record.
LEMMA OpeningRight ==
  ASSUME NEW c \in Contexts
  PROVE  /\ StoreOK(Chain(c), <<>>) /\ TableIn(Chain(c), ChainTable(c))
         /\ FramesIn(Chain(c), <<>>) /\ NilsIn(Chain(c), <<>>)
         /\ MemoIn(Chain(c), <<>>, FreshDm) /\ HeldIn(Chain(c), <<>>, {ChainEnd(c)})
         /\ AskedIn(Chain(c), <<>>, Opening(c))
<1> DEFINE ns == Chain(c)
           n == Len(c)
<1>1. c \in Seq(Nat \ {None}) /\ n \in Nat
  <2>1. c \in Seq(Nat \ {None})
    BY EnvsAssumption
  <2> QED  BY <2>1, LenProperties
<1>2. Begun(ns, c, n)
  BY <1>1, ChainIs
<1> HIDE DEF ns
<1>3. /\ StoreOK(ns, <<>>) /\ Len(ns) = n + 1 /\ ExactIn(ns, <<>>, n + 1)
      /\ \A i \in 1 .. n : ns[i + 1] = Cons(i, c[i], ns)
  BY <1>2 DEF Begun
<1>4. TableIn(ns, ChainTable(c))
  <2>1. DOMAIN c = 1 .. n
    BY <1>1, LenProperties
  <2>2. ASSUME NEW k \in DOMAIN ChainTable(c)
        PROVE  /\ k[1] \in 1 .. Len(ns) /\ ChainTable(c)[k] \in 1 .. Len(ns)
               /\ ns[ChainTable(c)[k]] = Cons(k[1], k[2], ns)
    <3>1. ChainTable(c)[k] = k[1] + 1 /\ k \in {<<i, c[i]>> : i \in DOMAIN c}
      BY DEF ChainTable
    <3>2. PICK i \in 1 .. n : k = <<i, c[i]>>
      BY <2>1, <3>1
    <3>3. k[1] = i /\ k[2] = c[i]
      BY <3>2
    <3>4. i \in 1 .. n + 1 /\ i + 1 \in 1 .. n + 1
      BY <1>1
    <3> QED  BY <1>3, <3>1, <3>3, <3>4
  <2> QED  BY <2>2 DEF TableIn
<1>5. FramesIn(ns, <<>>) /\ NilsIn(ns, <<>>)
  <2>1. DOMAIN <<>> = {}
    OBVIOUS
  <2> QED  BY <2>1 DEF FramesIn, NilsIn
<1>6. MemoIn(ns, <<>>, FreshDm)
  <2> DEFINE entry == [mask |-> {}, env |-> EMPTY_ENV, gave |-> EMPTY_ENV]
  <2>1. EMPTY_ENV \in 1 .. Len(ns)
    BY <1>1, <1>3 DEF EMPTY_ENV
  <2>2. ns[EMPTY_ENV].tag = "nil"
    BY <1>3 DEF StoreOK, Nil
  <2>3. PrunedIn(ns, <<>>, EMPTY_ENV, {}, EMPTY_ENV)
    BY <1>3, <2>1, <2>2, PrunedToNil
  <2>4. RightIn(ns, <<>>, entry)
    <3>1. entry.mask = {} /\ entry.env = EMPTY_ENV /\ entry.gave = EMPTY_ENV /\ {} \in MaskSet
      BY DEF MaskSet
    <3> HIDE DEF entry
    <3> QED  BY <2>1, <2>3, <3>1 DEF RightIn
  <2>5. DOMAIN FreshDm = 0 .. DmSize - 1 /\ \A s \in 0 .. DmSize - 1 : FreshDm[s] = entry
    BY DEF FreshDm
  <2> HIDE DEF entry
  <2> QED  BY <2>4, <2>5 DEF MemoIn
<1>7. HeldIn(ns, <<>>, {ChainEnd(c)})
  <2>1. n + 1 \in 1 .. Len(ns)
    BY <1>1, <1>3
  <2> QED  BY <1>3, <2>1 DEF HeldIn, ChainEnd
<1>8. AskedIn(ns, <<>>, Opening(c))
  BY DEF AskedIn, Opening
<1> QED  BY <1>3, <1>4, <1>5, <1>6, <1>7, <1>8 DEF ns

\* A new session, with nothing of the old one.
LEMMA ClearSessionKeeps ==
  ASSUME NEW c \in Contexts, ClearSession(c)
  PROVE  EnvsInv' /\ asked'.op = "open"
<1>1. /\ envs' = Chain(c) /\ env_table' = ChainTable(c) /\ held' = {ChainEnd(c)}
      /\ asked' = Opening(c) /\ slots' = <<>> /\ frames' = <<>> /\ nils' = <<>>
      /\ prune_dm' = FreshDm
  BY DEF ClearSession
<1>2. EnvsInv'
  BY <1>1, OpeningRight DEF EnvsInv, MemoIn
<1> QED  BY <1>1, <1>2 DEF Opening

-----------------------------------------------------------------------------
(* The theorems.                                                           *)

LEMMA EnvsInvInit == EnvsInit => EnvsInv
<1> SUFFICES ASSUME EnvsInit PROVE EnvsInv
  OBVIOUS
<1>1. PICK c \in Contexts : envs = Chain(c) /\ env_table = ChainTable(c) /\ held = {ChainEnd(c)} /\ asked = Opening(c)
  BY DEF EnvsInit
<1>2. slots = <<>> /\ frames = <<>> /\ nils = <<>> /\ prune_dm = FreshDm
  BY DEF EnvsInit
<1> QED  BY <1>1, <1>2, OpeningRight DEF EnvsInv, MemoIn

\* Every step keeps the invariant, and all but the end of a session only add to
\* the store.
LEMMA EnvsInvNext ==
  ASSUME EnvsInv, [EnvsNext]_envVars
  PROVE  EnvsInv' /\ (asked'.op # "open" \/ UNCHANGED envVars => Grown(envs, slots, envs', slots'))
<1>1. CASE UNCHANGED envVars
  <2>1. /\ envs' = envs /\ slots' = slots /\ env_table' = env_table /\ frames' = frames /\ nils' = nils
        /\ prune_dm' = prune_dm /\ held' = held /\ asked' = asked
    BY <1>1 DEF envVars
  <2>2. Grown(envs, slots, envs', slots')
    BY <2>1, GrownSelf DEF EnvsInv
  <2>3. EnvsInv'
    BY <2>1 DEF EnvsInv, MemoIn
  <2> QED  BY <2>2, <2>3
<1>2. ASSUME Kept PROVE EnvsInv' /\ Grown(envs, slots, envs', slots')
  BY <1>2 DEF Kept
<1>3. ASSUME NEW e \in held, NEW v \in Values, Push(e, v) PROVE Kept
  BY <1>3, PushKeeps
<1>4. ASSUME NEW e \in held, NEW mask \in MaskSet, Prune(e, mask) PROVE Kept
  BY <1>4, PruneKeeps
<1>5. ASSUME NEW lsub \in LevelSubs, EvalInst(lsub) PROVE Kept
  <2>1. lsub \in Subs /\ "inst" # "prune"
    BY DEF Subs
  <2>2. EnvNil("inst", EMPTY_ENV, lsub) /\ UNCHANGED <<slots, env_table, frames, prune_dm>>
    BY <1>5 DEF EvalInst
  <2> QED  BY <2>1, <2>2, EnvNilKeeps
<1>6. ASSUME NEW c \in Contexts, ClearSession(c) PROVE EnvsInv' /\ asked'.op = "open"
  BY <1>6, ClearSessionKeeps
<1>7. CASE EnvsNext /\ ~UNCHANGED envVars
  BY <1>2, <1>3, <1>4, <1>5, <1>6, <1>7 DEF EnvsNext
<1> QED  BY <1>1, <1>7

(* The nodes of the store keep their shape, and every table of ids into it is
   right about it, from one declaration of a session to the next: the ids that
   env_table, frames, nils and prune_dm hold are live and denote what the entry
   says, through any extension, pruning, shared frame and clear_session. *)
THEOREM EnvsInvariant == EnvsSpec => []EnvsInv
<1>1. EnvsInv /\ [EnvsNext]_envVars => EnvsInv'
  BY EnvsInvNext
<1> QED  BY <1>1, EnvsInvInit, PTL DEF EnvsSpec

\* Indices has every index that an environment gives a value to.
LEMMA IndexIs ==
  ASSUME StoreOK(envs, slots)
  PROVE  /\ Indices \subseteq Nat
         /\ \A e \in Ids, i \in Nat : Lookup(e, i) # None => i \in Indices
<1>1. Len(envs) \in Nat /\ NEAR \in Nat
  BY NearIs, LenProperties DEF StoreOK
<1>2. Len(envs) * NEAR \in Nat
  BY <1>1
<1>3. Indices \subseteq Nat
  BY <1>2 DEF Indices
<1>4. ASSUME NEW e \in Ids, NEW i \in Nat, Lookup(e, i) # None PROVE i \in Indices
  <2>1. e \in 1 .. Len(envs)
    BY DEF Ids
  <2>2. i < e * NEAR
    BY <1>4, <2>1, LookupBound DEF Lookup
  <2>3. e \in Nat /\ e <= Len(envs) /\ Len(envs) - e \in Nat
    BY <1>1, <2>1
  <2>4. (Len(envs) - e) * NEAR \in Nat /\ (Len(envs) - e) * NEAR = Len(envs) * NEAR - e * NEAR
        /\ e * NEAR \in Nat
    BY <1>1, <2>3
  <2>5. i \in 0 .. Len(envs) * NEAR
    BY <1>2, <2>2, <2>4
  <2> QED  BY <2>5 DEF Indices
<1> QED  BY <1>3, <1>4

(* A pruned environment gives what was asked for the values it had and nothing
   else any, whether prune_env answers from its memo, with a frame known before
   or with a new one; and the mask of an environment in use says exactly what
   it holds, which is how prune_env tells that there is nothing to prune. *)
THEOREM PruneExactHolds == EnvsSpec => []PruneExact
<1>1. EnvsInv => PruneExact
  <2> SUFFICES ASSUME EnvsInv PROVE PruneExact
    OBVIOUS
  <2>1. StoreOK(envs, slots) /\ HeldIn(envs, slots, held) /\ AskedIn(envs, slots, asked)
    BY DEF EnvsInv
  <2>2. Indices \subseteq Nat /\ \A e \in Ids, i \in Nat : Lookup(e, i) # None => i \in Indices
    BY <2>1, IndexIs
  <2>3. ASSUME asked.op = "prune"
        PROVE  /\ envs[asked.gave].lsub = envs[asked.env].lsub
               /\ \A i \in Indices :
                    Lookup(asked.gave, i) = IF Wanted(asked.mask, i) THEN Lookup(asked.env, i) ELSE None
    <3>1. PrunedIn(envs, slots, asked.env, asked.mask, asked.gave)
      BY <2>1, <2>3 DEF AskedIn, RightIn
    <3> QED  BY <2>2, <3>1 DEF PrunedIn, Lookup
  <2>4. ASSUME NEW e \in held
        PROVE  /\ \A i \in 0 .. NEAR - 1 : i \in envs[e].mask <=> Lookup(e, i) # None
               /\ FAR \in envs[e].mask <=> \E i \in Indices : i >= NEAR /\ Lookup(e, i) # None
    <3>1. ExactIn(envs, slots, e) /\ e \in Ids
      BY <2>1 DEF HeldIn, Ids
    <3>2. (\E i \in Nat : i >= NEAR /\ Lookup(e, i) # None)
            <=> \E i \in Indices : i >= NEAR /\ Lookup(e, i) # None
      BY <2>2, <3>1
    <3> QED  BY <3>1, <3>2 DEF ExactIn, Lookup
  <2> QED  BY <2>3, <2>4 DEF PruneExact
<1> QED  BY <1>1, EnvsInvariant, PTL

(* No step changes what an environment in use gives any index, until the session
   ends: interning only appends, and the slots dropped when a frame turns out to
   be known belong to no node. *)
THEOREM EnvsStableHolds == EnvsSpec => EnvsStable
<1> DEFINE Stays == asked'.op # "open" =>
                      \A e \in held, i \in Indices : Lookup(e, i)' = Lookup(e, i)
<1>1. ASSUME EnvsInv, EnvsInv', [EnvsNext]_envVars PROVE [Stays]_envVars
  <2> SUFFICES ASSUME asked'.op # "open", NEW e \in held, NEW i \in Indices
               PROVE  Lookup(e, i)' = Lookup(e, i)
    OBVIOUS
  <2>1. Grown(envs, slots, envs', slots')
    BY <1>1, EnvsInvNext
  <2>2. StoreOK(envs, slots) /\ StoreOK(envs', slots') /\ e \in 1 .. Len(envs)
    BY <1>1 DEF EnvsInv, HeldIn
  <2>3. Lookups(envs', slots')[e] = Lookups(envs, slots)[e]
    BY <2>1, <2>2, LookupsGrow
  <2> QED  BY <2>3 DEF Lookup
<1>2. EnvsInv /\ EnvsInv' /\ [EnvsNext]_envVars => [Stays]_envVars
  BY <1>1
<1> QED  BY <1>2, EnvsInvariant, PTL DEF EnvsSpec, EnvsStable
=============================================================================
