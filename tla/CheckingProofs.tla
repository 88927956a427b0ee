--------------------------- MODULE CheckingProofs ---------------------------
(***************************************************************************)
(* Proofs about the checking of an export.  First Declars: blocks are      *)
(* derived against derived ones, and an export is accepted exactly if it   *)
(* is well founded.  Then Reporter: what the threads that check record, in *)
(* whatever order, is counted once and reads in order.                     *)
(*                                                                         *)
(* The table of declarations is what the items of the export declare, one  *)
(* after the other, and the table that replaces it is what their renewals  *)
(* are: the first part is about such tables, the second about items, the   *)
(* third has the invariant.  The parts on the reporter come after these.   *)
(***************************************************************************)
EXTENDS Declars, Reporter, LoopLemmas

-----------------------------------------------------------------------------
(* Tables made of pieces.                                                  *)

\* t[k] is the first k pieces of ss, one after the other.
IsTables(t, ss) ==
  /\ DOMAIN t = 0 .. Len(ss) /\ t[0] = <<>>
  /\ \A k \in 1 .. Len(ss) : t[k] = t[k - 1] \o ss[k]

Tables(ss) == CHOOSE t : IsTables(t, ss)

LEMMA SeqIs ==
  ASSUME NEW S, NEW f \in Seq(S)
  PROVE  Len(f) \in Nat /\ DOMAIN f = 1 .. Len(f) /\ \A i \in 1 .. Len(f) : f[i] \in S
OBVIOUS

LEMMA IsSeq ==
  ASSUME NEW S, NEW n \in Nat, NEW f, DOMAIN f = 1 .. n, f = [i \in 1 .. n |-> f[i]],
         \A i \in 1 .. n : f[i] \in S
  PROVE  f \in Seq(S) /\ Len(f) = n
OBVIOUS

LEMMA Concat ==
  ASSUME NEW S, NEW s \in Seq(S), NEW t \in Seq(S)
  PROVE  /\ s \o t \in Seq(S) /\ Len(s \o t) = Len(s) + Len(t)
         /\ \A i \in 1 .. Len(s) : (s \o t)[i] = s[i]
         /\ \A i \in 1 .. Len(t) : (s \o t)[Len(s) + i] = t[i]
OBVIOUS

\* The pieces of a table, and tables of the first ones.
LEMMA TablesAre ==
  ASSUME NEW S, NEW ss \in Seq(Seq(S))
  PROVE  IsTables(Tables(ss), ss) /\ \A k \in 0 .. Len(ss) : Tables(ss)[k] \in Seq(S)
<1> DEFINE n == Len(ss)
           step == [x \in Seq(S) \X (1 .. n) |-> x[1] \o ss[x[2]]]
<1>1. n \in Nat /\ \A k \in 1 .. n : ss[k] \in Seq(S)
  BY SeqIs
<1>2. step \in [Seq(S) \X (1 .. n) -> Seq(S)]
  BY <1>1
<1>3. \A s \in Seq(S) : \A k \in 1 .. n : step[<<s, k>>] = s \o ss[k]
  OBVIOUS
<1>4. <<>> \in Seq(S)
  OBVIOUS
<1> HIDE DEF step, n
<1>5. PICK f : IsRun(f, Seq(S), <<>>, n, step)
  BY ONLY <1>1, <1>2, <1>4, RecursionExists
<1>6. f \in [0 .. n -> Seq(S)] /\ f[0] = <<>> /\ \A i \in 1 .. n : f[i] = step[<<f[i - 1], i>>]
  BY <1>5 DEF IsRun
<1>7. \A i \in 1 .. n : i - 1 \in 0 .. n
  BY <1>1
<1>8. \A i \in 1 .. n : f[i] = f[i - 1] \o ss[i]
  BY <1>3, <1>6, <1>7
<1>9. IsTables(f, ss)
  BY <1>6, <1>8 DEF IsTables, n
<1>10. IsTables(Tables(ss), ss)
  <2> HIDE DEF IsTables
  <2> QED  BY <1>9 DEF Tables
<1> DEFINE t == Tables(ss)
           T == {k \in 0 .. n : t[k] \in Seq(S)}
<1> HIDE DEF t
<1>11. /\ t[0] = <<>>
       /\ \A k \in 1 .. n : t[k] = t[k - 1] \o ss[k]
  BY <1>10 DEF IsTables, n, t
<1>12. 0 \in T
  <2>1. t[0] \in Seq(S)
    BY ONLY <1>4, <1>11
  <2>2. 0 \in 0 .. n
    BY ONLY <1>1
  <2> QED  BY ONLY <2>1, <2>2
<1>13. ASSUME NEW k \in 0 .. n - 1, k \in T PROVE k + 1 \in T
  <2>1. k + 1 \in 1 .. n /\ (k + 1) - 1 = k /\ k + 1 \in 0 .. n
    BY <1>1
  <2>2. t[k + 1] = t[k] \o ss[k + 1]
    BY ONLY <1>11, <2>1
  <2>3. ss[k + 1] \in Seq(S) /\ t[k] \in Seq(S)
    BY ONLY <1>1, <1>13, <2>1
  <2>4. t[k + 1] \in Seq(S)
    BY ONLY <2>2, <2>3
  <2> QED  BY ONLY <2>1, <2>4
<1> HIDE DEF T
<1>14. 0 .. n \subseteq T
  BY <1>1, <1>12, <1>13, SetInduction
<1> QED  BY <1>10, <1>14 DEF T, n, t

\* FlattenSeq makes the table of all pieces.
LEMMA FlatTables ==
  ASSUME NEW S, NEW ss \in Seq(Seq(S))
  PROVE  FlattenSeq(ss) = Tables(ss)[Len(ss)]
<1> DEFINE n == Len(ss)
           t == Tables(ss)
           Table(u) == [i \in 1 .. n |-> IF i = 1 THEN ss[i] ELSE u[i - 1] \o ss[i]]
           chosen == CHOOSE u : u = Table(u)
<1>1. n \in Nat /\ \A k \in 1 .. n : ss[k] \in Seq(S)
  BY SeqIs
<1>2. /\ DOMAIN t = 0 .. n /\ t[0] = <<>>
      /\ \A k \in 1 .. n : t[k] = t[k - 1] \o ss[k]
      /\ \A k \in 0 .. n : t[k] \in Seq(S)
  BY TablesAre DEF IsTables
<1>3. CASE n = 0
  <2>1. ss = <<>>
    BY <1>3
  <2> QED  BY <1>2, <1>3, <2>1 DEF FlattenSeq
<1>4. CASE n # 0
  <2>1. FlattenSeq(ss) = chosen[n]
    BY <1>4 DEF FlattenSeq
  <2> HIDE DEF t, n
  <2>2. t[1] = ss[1]
    <3>1. 1 \in 1 .. n /\ 1 - 1 = 0
      BY <1>1, <1>4
    <3>2. t[1] = <<>> \o ss[1] /\ ss[1] \in Seq(S)
      BY <1>1, <1>2, <3>1
    <3> QED  BY <3>2
  <2> DEFINE f == [i \in 1 .. n |-> t[i]]
  <2>3. f = Table(f)
    <3>1. \A i \in 1 .. n : i # 1 => i - 1 \in 1 .. n
      BY <1>1
    <3>2. \A i \in 1 .. n : f[i] = IF i = 1 THEN ss[i] ELSE f[i - 1] \o ss[i]
      BY <1>2, <2>2, <3>1
    <3> QED  BY <3>2
  <2>4. chosen = Table(chosen)
    <3> HIDE DEF Table
    <3> QED  BY <2>3
  <2> HIDE DEF chosen
  <2>5. \A i \in 1 .. n : chosen[i] = IF i = 1 THEN ss[i] ELSE chosen[i - 1] \o ss[i]
    BY <2>4
  <2> DEFINE T == {i \in 0 .. n : i # 0 => chosen[i] = t[i]}
  <2>6. 0 \in T
    BY <1>1
  <2>7. ASSUME NEW i \in 0 .. n - 1, i \in T PROVE i + 1 \in T
    <3>1. i + 1 \in 1 .. n /\ (i + 1) - 1 = i /\ i + 1 \in 0 .. n
      BY <1>1
    <3>2. CASE i = 0
      BY <2>2, <2>5, <3>1, <3>2
    <3>3. CASE i # 0
      <4>1. i + 1 # 1
        BY <3>3
      <4>2. chosen[i + 1] = chosen[i] \o ss[i + 1] /\ chosen[i] = t[i]
        BY ONLY <2>5, <2>7, <3>1, <3>3, <4>1
      <4>3. t[i + 1] = t[i] \o ss[i + 1]
        BY ONLY <1>2, <3>1
      <4> QED  BY ONLY <3>1, <4>2, <4>3
    <3> QED  BY <3>2, <3>3
  <2> HIDE DEF T
  <2>8. 0 .. n \subseteq T
    BY <1>1, <2>6, <2>7, SetInduction
  <2>9. n \in T
    BY <1>1, <2>8
  <2>10. chosen[n] = t[n]
    BY <1>4, <2>9 DEF T
  <2> QED  BY <2>1, <2>10 DEF t, n
<1> QED  BY <1>3, <1>4

\* A table is a part of the later ones.
LEMMA TablesGrow ==
  ASSUME NEW S, NEW ss \in Seq(Seq(S)), NEW a \in 0 .. Len(ss), NEW b \in 0 .. Len(ss), a <= b
  PROVE  /\ Len(Tables(ss)[a]) \in Nat /\ Len(Tables(ss)[b]) \in Nat
         /\ Len(Tables(ss)[a]) <= Len(Tables(ss)[b])
         /\ \A i \in 1 .. Len(Tables(ss)[a]) : Tables(ss)[b][i] = Tables(ss)[a][i]
<1> DEFINE n == Len(ss)
           t == Tables(ss)
           T == {d \in 0 .. b - a : /\ Len(t[a]) <= Len(t[a + d])
                                    /\ \A i \in 1 .. Len(t[a]) : t[a + d][i] = t[a][i]}
<1>1. n \in Nat /\ \A k \in 1 .. n : ss[k] \in Seq(S)
  BY SeqIs
<1>2. /\ \A k \in 1 .. n : t[k] = t[k - 1] \o ss[k]
      /\ \A k \in 0 .. n : t[k] \in Seq(S)
  BY TablesAre DEF IsTables
<1> HIDE DEF n, t
<1>0. a \in 0 .. n /\ b \in 0 .. n /\ b - a \in Nat
  BY <1>1 DEF n
<1>3. t[a] \in Seq(S) /\ t[b] \in Seq(S) /\ Len(t[a]) \in Nat /\ Len(t[b]) \in Nat
  BY <1>0, <1>2
<1>4. 0 \in T
  BY <1>0, <1>3
<1>5. ASSUME NEW d \in 0 .. b - a - 1, d \in T PROVE d + 1 \in T
  <2>1. a + (d + 1) \in 1 .. n /\ (a + (d + 1)) - 1 = a + d /\ a + d \in 0 .. n /\ d + 1 \in 0 .. b - a
    BY <1>0, <1>1
  <2>2. t[a + (d + 1)] = t[a + d] \o ss[a + (d + 1)] /\ t[a + d] \in Seq(S) /\ ss[a + (d + 1)] \in Seq(S)
    BY <1>1, <1>2, <2>1
  <2> DEFINE u == t[a + d]
             v == ss[a + (d + 1)]
             w == t[a + (d + 1)]
  <2>3. w = u \o v /\ u \in Seq(S) /\ v \in Seq(S)
    BY <2>2
  <2>4. Len(t[a]) <= Len(u) /\ \A i \in 1 .. Len(t[a]) : u[i] = t[a][i]
    BY <1>5
  <2> HIDE DEF u, v, w
  <2>5. Len(w) = Len(u) + Len(v) /\ Len(u) \in Nat /\ Len(v) \in Nat /\ \A i \in 1 .. Len(u) : w[i] = u[i]
    BY <2>3
  <2>6. Len(t[a]) <= Len(w) /\ \A i \in 1 .. Len(t[a]) : w[i] = t[a][i]
    <3>1. Len(t[a]) \in Nat /\ Len(t[a]) <= Len(u)
      BY ONLY <1>3, <2>4
    <3>2. Len(t[a]) <= Len(w)
      BY ONLY <2>5, <3>1
    <3>3. ASSUME NEW i \in 1 .. Len(t[a]) PROVE w[i] = t[a][i]
      <4>1. i \in 1 .. Len(u)
        BY ONLY <2>5, <3>1
      <4> QED  BY ONLY <2>4, <2>5, <4>1
    <3> QED  BY ONLY <3>2, <3>3
  <2> QED  BY <2>1, <2>6 DEF w
<1> HIDE DEF T
<1>6. 0 .. b - a \subseteq T
  BY <1>0, <1>4, <1>5, SetInduction
<1>7. b - a \in T /\ a + (b - a) = b
  BY <1>0, <1>6
<1> QED  BY <1>3, <1>7 DEF T, t

\* Entry j of piece k is entry Len(Tables(ss)[k - 1]) + j of the tables that have
\* the piece.
LEMMA TablesPlace ==
  ASSUME NEW S, NEW ss \in Seq(Seq(S)), NEW k \in 1 .. Len(ss), NEW b \in k .. Len(ss)
  PROVE  LET at0 == Len(Tables(ss)[k - 1]) IN
         /\ at0 \in Nat /\ Len(Tables(ss)[k]) = at0 + Len(ss[k]) /\ Len(ss[k]) \in Nat
         /\ Len(Tables(ss)[b]) \in Nat /\ at0 + Len(ss[k]) <= Len(Tables(ss)[b])
         /\ \A j \in 1 .. Len(ss[k]) : Tables(ss)[b][at0 + j] = ss[k][j]
<1> DEFINE t == Tables(ss)
<1>1. k \in 0 .. Len(ss) /\ k - 1 \in 0 .. Len(ss) /\ b \in 0 .. Len(ss) /\ k <= b
  BY SeqIs
<1>2. t[k] = t[k - 1] \o ss[k] /\ t[k - 1] \in Seq(S) /\ t[k] \in Seq(S) /\ ss[k] \in Seq(S)
  BY <1>1, TablesAre, SeqIs DEF IsTables
<1>3. /\ Len(t[b]) \in Nat
      /\ Len(t[k]) <= Len(t[b])
      /\ \A i \in 1 .. Len(t[k]) : t[b][i] = t[k][i]
  BY <1>1, TablesGrow
<1> DEFINE u == t[k - 1]
           v == ss[k]
           w == t[k]
           x == t[b]
<1>4. w = u \o v /\ u \in Seq(S) /\ v \in Seq(S) /\ Len(x) \in Nat /\ Len(w) <= Len(x) /\ \A i \in 1 .. Len(w) : x[i] = w[i]
  BY <1>2, <1>3
<1> HIDE DEF u, v, w, x
<1>5. /\ Len(u) \in Nat /\ Len(w) = Len(u) + Len(v) /\ Len(v) \in Nat
      /\ Len(u) + Len(v) <= Len(x)
      /\ \A j \in 1 .. Len(v) : x[Len(u) + j] = v[j]
  <2>1. Len(u) \in Nat /\ Len(w) = Len(u) + Len(v) /\ Len(v) \in Nat
    BY <1>4, Concat
  <2>2. ASSUME NEW j \in 1 .. Len(v) PROVE x[Len(u) + j] = v[j]
    <3>1. Len(u) + j \in 1 .. Len(w)
      BY <2>1
    <3>2. w[Len(u) + j] = v[j]
      BY <1>4
    <3> QED  BY <1>4, <3>1, <3>2
  <2> QED  BY <1>4, <2>1, <2>2
<1> QED  BY <1>4, <1>5 DEF u, v, w, x

\* Entry i of the table of m pieces is in one of them.
InPiece(ss, m, i) ==
  \E k \in 1 .. m : \E j \in 1 .. Len(ss[k]) :
    i = Len(Tables(ss)[k - 1]) + j /\ Tables(ss)[m][i] = ss[k][j]

LEMMA TablesPiece ==
  ASSUME NEW S, NEW ss \in Seq(Seq(S)), NEW m \in 0 .. Len(ss), NEW i \in 1 .. Len(Tables(ss)[m])
  PROVE  InPiece(ss, m, i)
<1> DEFINE t == Tables(ss)
           T == {k \in Nat : k <= m /\ i <= Len(t[k])}
<1>1. Len(ss) \in Nat /\ m \in Nat /\ \A k \in 0 .. Len(ss) : t[k] \in Seq(S) /\ Len(t[k]) \in Nat
  BY SeqIs, TablesAre
<1>2. m \in T /\ i \in Nat
  BY <1>1
<1>3. PICK k \in T : \A l \in T : k <= l
  <2>1. T \in SUBSET Nat
    OBVIOUS
  <2> HIDE DEF T
  <2> QED  BY <1>2, <2>1, LeastNat
<1>4. k # 0
  <2>1. t[0] = <<>>
    BY TablesAre DEF IsTables
  <2> QED  BY <1>2, <2>1
<1>5. k \in 1 .. m /\ k \in 1 .. Len(ss) /\ m \in k .. Len(ss) /\ k - 1 \in 0 .. Len(ss) /\ k - 1 \in Nat /\ k - 1 <= m
  BY <1>1, <1>4
<1>6. ~(i <= Len(t[k - 1]))
  <2>1. ~(k <= k - 1)
    BY <1>5
  <2>2. k - 1 \notin T
    <3> HIDE DEF T
    <3> QED  BY <1>3, <2>1
  <2> QED  BY <1>5, <2>2
<1> DEFINE a == Len(t[k - 1])
           j == i - a
<1>7. /\ a \in Nat /\ Len(t[k]) = a + Len(ss[k]) /\ Len(ss[k]) \in Nat
      /\ \A l \in 1 .. Len(ss[k]) : t[m][a + l] = ss[k][l]
  BY <1>5, TablesPlace
<1>8. a + j = i /\ j \in 1 .. Len(ss[k])
  <2>1. i <= Len(t[k])
    OBVIOUS
  <2> HIDE DEF t, a
  <2>2. ~(i <= a)
    BY <1>6 DEF a
  <2> QED  BY <1>2, <1>7, <2>1, <2>2
<1>9. t[m][i] = ss[k][j]
  BY <1>7, <1>8
<1> HIDE DEF j
<1> QED  BY <1>5, <1>8, <1>9 DEF a, InPiece

\* What is in the first m pieces.
LEMMA TablesRange ==
  ASSUME NEW S, NEW ss \in Seq(Seq(S)), NEW m \in 0 .. Len(ss), NEW x
  PROVE  x \in ToSet(Tables(ss)[m]) <=> \E k \in 1 .. m : x \in ToSet(ss[k])
<1> DEFINE t == Tables(ss)
<1>1. Len(ss) \in Nat /\ m \in Nat /\ t[m] \in Seq(S)
  BY SeqIs, TablesAre
<1>2. DOMAIN t[m] = 1 .. Len(t[m]) /\ \A k \in 1 .. m : DOMAIN ss[k] = 1 .. Len(ss[k])
  <2>1. \A k \in 1 .. m : k \in 1 .. Len(ss)
    BY <1>1
  <2>2. \A k \in 1 .. m : ss[k] \in Seq(S)
    BY <2>1, SeqIs
  <2> QED  BY <1>1, <2>2, SeqIs
<1>3. ASSUME x \in ToSet(t[m]) PROVE \E k \in 1 .. m : x \in ToSet(ss[k])
  <2>1. PICK i \in 1 .. Len(t[m]) : x = t[m][i]
    BY <1>2, <1>3 DEF ToSet
  <2>2. InPiece(ss, m, i)
    BY TablesPiece
  <2>4. PICK k \in 1 .. m : \E j \in 1 .. Len(ss[k]) : t[m][i] = ss[k][j]
    BY <2>2 DEF InPiece
  <2>3. x \in ToSet(ss[k])
    BY <1>2, <2>1, <2>4 DEF ToSet
  <2> QED  BY <2>3
<1>4. ASSUME NEW k \in 1 .. m, x \in ToSet(ss[k]) PROVE x \in ToSet(t[m])
  <2>1. PICK j \in 1 .. Len(ss[k]) : x = ss[k][j]
    BY <1>2, <1>4 DEF ToSet
  <2>2. k \in 1 .. Len(ss) /\ m \in k .. Len(ss)
    BY <1>1
  <2> DEFINE a == Len(t[k - 1])
  <2>3. /\ a \in Nat /\ Len(ss[k]) \in Nat /\ Len(t[m]) \in Nat /\ a + Len(ss[k]) <= Len(t[m])
        /\ t[m][a + j] = ss[k][j]
    BY <2>2, TablesPlace
  <2>4. a + j \in 1 .. Len(t[m])
    <3> HIDE DEF a, t
    <3> QED  BY <2>3
  <2> HIDE DEF a
  <2> QED  BY <1>2, <2>1, <2>3, <2>4 DEF ToSet
<1> QED  BY <1>3, <1>4

\* Nothing is in the first m pieces twice exactly if no piece has anything twice
\* and no two of them share anything.
Apart(ss, m) ==
  /\ \A k \in 1 .. m : IsInjective(ss[k])
  /\ \A k, l \in 1 .. m : \A x : x \in ToSet(ss[k]) /\ x \in ToSet(ss[l]) => k = l

LEMMA TablesInjective ==
  ASSUME NEW S, NEW ss \in Seq(Seq(S)), NEW m \in 0 .. Len(ss)
  PROVE  IsInjective(Tables(ss)[m]) <=> Apart(ss, m)
<1> DEFINE t == Tables(ss)
           start(k) == Len(t[k - 1])
<1>1. Len(ss) \in Nat /\ m \in Nat /\ t[m] \in Seq(S) /\ DOMAIN t[m] = 1 .. Len(t[m])
  BY SeqIs, TablesAre
<1>2. ASSUME NEW k \in 1 .. m
      PROVE  /\ DOMAIN ss[k] = 1 .. Len(ss[k]) /\ start(k) \in Nat /\ Len(ss[k]) \in Nat
             /\ Len(t[k]) = start(k) + Len(ss[k]) /\ start(k) + Len(ss[k]) <= Len(t[m]) /\ Len(t[m]) \in Nat
             /\ \A j \in 1 .. Len(ss[k]) : t[m][start(k) + j] = ss[k][j]
  <2>1. k \in 1 .. Len(ss) /\ m \in k .. Len(ss)
    BY <1>1
  <2>2. ss[k] \in Seq(S)
    BY <2>1, SeqIs
  <2> QED  BY <2>1, <2>2, SeqIs, TablesPlace
<1>3. ASSUME NEW k \in 1 .. m, NEW l \in 1 .. m, k < l
      PROVE  start(k) + Len(ss[k]) <= start(l)
  <2>1. k \in 0 .. Len(ss) /\ l - 1 \in 0 .. Len(ss) /\ k <= l - 1
    BY <1>1, <1>3
  <2>2. Len(t[k]) <= Len(t[l - 1])
    BY <2>1, TablesGrow
  <2> QED  BY <1>2, <2>2
<1> HIDE DEF start, t
<1>4. ASSUME IsInjective(t[m]), NEW k \in 1 .. m, NEW l \in 1 .. m,
             NEW i \in 1 .. Len(ss[k]), NEW j \in 1 .. Len(ss[l]), ss[k][i] = ss[l][j]
      PROVE  k = l /\ i = j
  <2>1. start(k) + i \in DOMAIN t[m] /\ start(l) + j \in DOMAIN t[m]
    <3>1. /\ start(k) \in Nat /\ Len(ss[k]) \in Nat /\ start(k) + Len(ss[k]) <= Len(t[m]) /\ Len(t[m]) \in Nat
          /\ start(l) \in Nat /\ Len(ss[l]) \in Nat /\ start(l) + Len(ss[l]) <= Len(t[m])
      BY <1>2
    <3> DEFINE a == start(k)
               b == start(l)
               c == Len(ss[k])
               d == Len(ss[l])
               e == Len(t[m])
    <3>2. a \in Nat /\ b \in Nat /\ c \in Nat /\ d \in Nat /\ e \in Nat /\ a + c <= e /\ b + d <= e
          /\ i \in 1 .. c /\ j \in 1 .. d
      BY <3>1
    <3> HIDE DEF a, b, c, d
    <3>3. a + i \in 1 .. e /\ b + j \in 1 .. e
      <4> HIDE DEF e
      <4> QED  BY ONLY <3>2
    <3> QED  BY <1>1, <3>3 DEF a, b
  <2>2. t[m][start(k) + i] = t[m][start(l) + j]
    BY <1>2, <1>4
  <2>3. start(k) + i = start(l) + j
    BY ONLY <1>4, <2>1, <2>2 DEF IsInjective
  <2>4. ~(k < l) /\ ~(l < k)
    <3>1. /\ start(k) \in Nat /\ start(l) \in Nat /\ Len(ss[k]) \in Nat /\ Len(ss[l]) \in Nat
          /\ (k < l => start(k) + Len(ss[k]) <= start(l)) /\ (l < k => start(l) + Len(ss[l]) <= start(k))
      BY <1>2, <1>3
    <3> DEFINE a == start(k)
               b == start(l)
               c == Len(ss[k])
               d == Len(ss[l])
    <3>2. a \in Nat /\ b \in Nat /\ c \in Nat /\ d \in Nat /\ a + i = b + j /\ i \in 1 .. c /\ j \in 1 .. d
          /\ (k < l => a + c <= b) /\ (l < k => b + d <= a)
      BY <2>3, <3>1
    <3> HIDE DEF a, b, c, d
    <3> QED  BY ONLY <3>2
  <2>5. k = l
    BY <1>1, <2>4
  <2> QED  BY <1>2, <2>3, <2>5
<1>5. ASSUME IsInjective(t[m]) PROVE Apart(ss, m)
  <2>1. ASSUME NEW k \in 1 .. m PROVE IsInjective(ss[k])
    <3>1. DOMAIN ss[k] = 1 .. Len(ss[k])
      BY <1>2
    <3>2. \A i, j \in 1 .. Len(ss[k]) : ss[k][i] = ss[k][j] => i = j
      BY <1>4, <1>5
    <3> QED  BY ONLY <3>1, <3>2 DEF IsInjective
  <2>2. ASSUME NEW k \in 1 .. m, NEW l \in 1 .. m, NEW x, x \in ToSet(ss[k]), x \in ToSet(ss[l])
        PROVE  k = l
    <3>1. PICK i \in 1 .. Len(ss[k]) : x = ss[k][i]
      BY <1>2, <2>2 DEF ToSet
    <3>2. PICK j \in 1 .. Len(ss[l]) : x = ss[l][j]
      BY <1>2, <2>2 DEF ToSet
    <3> QED  BY <1>4, <1>5, <3>1, <3>2
  <2> QED  BY <2>1, <2>2 DEF Apart
<1>6. ASSUME Apart(ss, m) PROVE IsInjective(t[m])
  <2>1. SUFFICES ASSUME NEW a \in 1 .. Len(t[m]), NEW b \in 1 .. Len(t[m]), t[m][a] = t[m][b]
                 PROVE  a = b
    BY <1>1 DEF IsInjective
  <2>2. PICK k \in 1 .. m : \E j \in 1 .. Len(ss[k]) : a = start(k) + j /\ t[m][a] = ss[k][j]
    <3>1. InPiece(ss, m, a)
      BY TablesPiece DEF t
    <3> QED  BY ONLY <3>1 DEF InPiece, t, start
  <2>3. PICK i \in 1 .. Len(ss[k]) : a = start(k) + i /\ t[m][a] = ss[k][i]
    BY <2>2
  <2>4. PICK l \in 1 .. m : \E j \in 1 .. Len(ss[l]) : b = start(l) + j /\ t[m][b] = ss[l][j]
    <3>1. InPiece(ss, m, b)
      BY TablesPiece DEF t
    <3> QED  BY ONLY <3>1 DEF InPiece, t, start
  <2>5. PICK j \in 1 .. Len(ss[l]) : b = start(l) + j /\ t[m][b] = ss[l][j]
    BY <2>4
  <2>6. t[m][a] \in ToSet(ss[k]) /\ t[m][a] \in ToSet(ss[l])
    BY <1>2, <2>1, <2>3, <2>5 DEF ToSet
  <2>7. k = l
    BY <1>6, <2>6 DEF Apart
  <2>8. i = j
    <3>1. IsInjective(ss[k]) /\ DOMAIN ss[k] = 1 .. Len(ss[k]) /\ ss[k][i] = ss[k][j] /\ j \in 1 .. Len(ss[k])
      BY <1>2, <1>6, <2>1, <2>3, <2>5, <2>7 DEF Apart
    <3> QED  BY ONLY <3>1, i \in 1 .. Len(ss[k]) DEF IsInjective
  <2> QED  BY <2>3, <2>5, <2>7, <2>8
<1> QED  BY <1>5, <1>6 DEF t

\* Nothing is in a part of a table twice that the whole of it has once.
LEMMA TablesInjectiveBefore ==
  ASSUME NEW S, NEW ss \in Seq(Seq(S)), NEW m \in 0 .. Len(ss), IsInjective(Tables(ss)[Len(ss)])
  PROVE  IsInjective(Tables(ss)[m])
<1>1. Len(ss) \in Nat /\ Len(ss) \in 0 .. Len(ss) /\ \A k \in 1 .. m : k \in 1 .. Len(ss)
  BY SeqIs
<1>2. Apart(ss, Len(ss))
  BY <1>1, TablesInjective
<1>3. Apart(ss, m)
  BY <1>1, <1>2 DEF Apart
<1> QED  BY <1>3, TablesInjective

LEMMA ConcatInjective ==
  ASSUME NEW S, NEW s \in Seq(S), NEW t \in Seq(S)
  PROVE  /\ IsInjective(s \o t) <=> /\ IsInjective(s) /\ IsInjective(t)
                                    /\ \A x : ~(x \in ToSet(s) /\ x \in ToSet(t))
         /\ \A x : x \in ToSet(s \o t) <=> x \in ToSet(s) \/ x \in ToSet(t)
<1> DEFINE u == s \o t
           n == Len(s)
           k == Len(t)
<1>1. /\ n \in Nat /\ k \in Nat /\ DOMAIN s = 1 .. n /\ DOMAIN t = 1 .. k /\ DOMAIN u = 1 .. n + k
      /\ \A i \in 1 .. n : u[i] = s[i]
      /\ \A i \in 1 .. k : u[n + i] = t[i]
  BY Concat, SeqIs
<1> HIDE DEF u, n, k
<1>2. \A i \in 1 .. n + k : i \in 1 .. n \/ (i - n \in 1 .. k /\ n + (i - n) = i)
  BY <1>1
<1>3. \A i \in 1 .. n : i \in 1 .. n + k
  BY <1>1
<1>4. \A i \in 1 .. k : n + i \in 1 .. n + k
  BY <1>1
<1>5. ASSUME NEW x PROVE x \in ToSet(u) <=> x \in ToSet(s) \/ x \in ToSet(t)
  <2>1. ASSUME x \in ToSet(u) PROVE x \in ToSet(s) \/ x \in ToSet(t)
    <3>1. PICK i \in 1 .. n + k : x = u[i]
      BY <1>1, <2>1 DEF ToSet
    <3>2. CASE i \in 1 .. n
      BY <1>1, <3>1, <3>2 DEF ToSet
    <3>3. CASE i - n \in 1 .. k /\ n + (i - n) = i
      <4>1. u[i] = t[i - n]
        BY <1>1, <3>3
      <4> QED  BY <1>1, <3>1, <3>3, <4>1 DEF ToSet
    <3> QED  BY <1>2, <3>2, <3>3
  <2>2. ASSUME x \in ToSet(s) PROVE x \in ToSet(u)
    BY <1>1, <1>3, <2>2 DEF ToSet
  <2>3. ASSUME x \in ToSet(t) PROVE x \in ToSet(u)
    BY <1>1, <1>4, <2>3 DEF ToSet
  <2> QED  BY <2>1, <2>2, <2>3
<1>6. ASSUME IsInjective(u) PROVE IsInjective(s) /\ IsInjective(t) /\ \A x : ~(x \in ToSet(s) /\ x \in ToSet(t))
  <2>1. IsInjective(s)
    BY <1>1, <1>3, <1>6 DEF IsInjective
  <2>2. IsInjective(t)
    <3>1. ASSUME NEW i \in 1 .. k, NEW j \in 1 .. k, t[i] = t[j] PROVE i = j
      <4>1. n + i \in 1 .. n + k /\ n + j \in 1 .. n + k /\ u[n + i] = u[n + j]
        BY <1>1, <1>4, <3>1
      <4>2. n + i = n + j
        BY <1>1, <1>6, <4>1 DEF IsInjective
      <4> QED  BY <1>1, <4>2
    <3> QED  BY <1>1, <3>1 DEF IsInjective
  <2>3. ASSUME NEW x, x \in ToSet(s), x \in ToSet(t) PROVE FALSE
    <3>1. PICK i \in 1 .. n : x = s[i]
      BY <1>1, <2>3 DEF ToSet
    <3>2. PICK j \in 1 .. k : x = t[j]
      BY <1>1, <2>3 DEF ToSet
    <3>3. i \in 1 .. n + k /\ n + j \in 1 .. n + k /\ u[i] = u[n + j]
      BY <1>1, <1>3, <1>4, <3>1, <3>2
    <3>4. i = n + j
      BY <1>1, <1>6, <3>3 DEF IsInjective
    <3> QED  BY <1>1, <3>4
  <2> QED  BY <2>1, <2>2, <2>3
<1>7. ASSUME IsInjective(s), IsInjective(t), \A x : ~(x \in ToSet(s) /\ x \in ToSet(t)) PROVE IsInjective(u)
  <2>1. SUFFICES ASSUME NEW i \in 1 .. n + k, NEW j \in 1 .. n + k, u[i] = u[j] PROVE i = j
    BY <1>1 DEF IsInjective
  <2>2. \A e \in 1 .. n + k : (e \in 1 .. n => u[e] \in ToSet(s)) /\ (e - n \in 1 .. k => u[e] \in ToSet(t))
    <3> SUFFICES ASSUME NEW e \in 1 .. n + k
                 PROVE  (e \in 1 .. n => u[e] \in ToSet(s)) /\ (e - n \in 1 .. k => u[e] \in ToSet(t))
      OBVIOUS
    <3>1. CASE e \in 1 .. n
      <4>1. ~(e - n \in 1 .. k)
        BY <1>1, <3>1
      <4> QED  BY <1>1, <3>1, <4>1 DEF ToSet
    <3>2. CASE e - n \in 1 .. k /\ n + (e - n) = e
      <4>1. u[e] = t[e - n] /\ ~(e \in 1 .. n)
        BY <1>1, <3>2
      <4> QED  BY <1>1, <3>2, <4>1 DEF ToSet
    <3> QED  BY <1>2, <3>1, <3>2
  <2>3. CASE i \in 1 .. n /\ j \in 1 .. n
    BY <1>1, <1>7, <2>1, <2>3 DEF IsInjective
  <2>4. CASE i \in 1 .. n /\ j - n \in 1 .. k
    BY <1>7, <2>1, <2>2, <2>4
  <2>5. CASE i - n \in 1 .. k /\ j \in 1 .. n
    BY <1>7, <2>1, <2>2, <2>5
  <2>6. CASE i - n \in 1 .. k /\ j - n \in 1 .. k /\ n + (i - n) = i /\ n + (j - n) = j
    <3>1. t[i - n] = t[j - n]
      BY <1>1, <2>1, <2>6
    <3>2. i - n = j - n
      BY <1>1, <1>7, <2>6, <3>1 DEF IsInjective
    <3> QED  BY <2>6, <3>2
  <2> QED  BY <1>2, <2>3, <2>4, <2>5, <2>6
<1> QED  BY <1>5, <1>6, <1>7 DEF u

-----------------------------------------------------------------------------
(* What items declare, and what is derived of them.                        *)

Decls == [name : Names, kind : {"plain", "quot", "type", "ctor", "rec"}, refs : SUBSET Names,
          inds : Seq(Names), ctors : Seq(Names), derived : BOOLEAN]

NameLists(ss) == [k \in DOMAIN ss |-> NamesOf(ss[k])]

LEMMA NamesIs ==
  ASSUME NEW S, \A x \in S : x.name \in Names, NEW s \in Seq(S)
  PROVE  /\ NamesOf(s) \in Seq(Names) /\ Len(NamesOf(s)) = Len(s)
         /\ \A i \in 1 .. Len(s) : NamesOf(s)[i] = s[i].name
<1>1. Len(s) \in Nat /\ DOMAIN s = 1 .. Len(s) /\ \A i \in 1 .. Len(s) : s[i] \in S
  BY SeqIs
<1>2. NamesOf(s) = [i \in 1 .. Len(s) |-> s[i].name]
  BY <1>1 DEF NamesOf
<1>3. \A i \in 1 .. Len(s) : NamesOf(s)[i] = s[i].name /\ s[i].name \in Names
  BY <1>1, <1>2
<1> QED  BY <1>1, <1>2, <1>3, IsSeq

\* What is named n in s.
LEMMA NamesRange ==
  ASSUME NEW S, \A x \in S : x.name \in Names, NEW s \in Seq(S), NEW n
  PROVE  n \in ToSet(NamesOf(s)) <=> \E i \in 1 .. Len(s) : s[i].name = n
<1>1. /\ DOMAIN NamesOf(s) = 1 .. Len(s)
      /\ \A i \in 1 .. Len(s) : NamesOf(s)[i] = s[i].name
  BY NamesIs, SeqIs
<1> QED  BY <1>1 DEF ToSet

LEMMA UniqueNames ==
  ASSUME NEW S, \A x \in S : x.name \in Names, NEW s \in Seq(S)
  PROVE  Unique(s) <=> IsInjective(NamesOf(s))
<1>1. /\ DOMAIN s = 1 .. Len(s) /\ DOMAIN NamesOf(s) = 1 .. Len(s)
      /\ \A i \in 1 .. Len(s) : NamesOf(s)[i] = s[i].name
  BY NamesIs, SeqIs
<1> QED  BY <1>1 DEF Unique, IsInjective

LEMMA NamesConcat ==
  ASSUME NEW S, \A x \in S : x.name \in Names, NEW s \in Seq(S), NEW t \in Seq(S)
  PROVE  NamesOf(s \o t) = NamesOf(s) \o NamesOf(t)
<1> DEFINE u == s \o t
           n == NamesOf(s)
           k == NamesOf(t)
           w == NamesOf(u)
           x == n \o k
<1>1. u \in Seq(S) /\ Len(u) = Len(s) + Len(t) /\ Len(s) \in Nat /\ Len(t) \in Nat
      /\ (\A i \in 1 .. Len(s) : u[i] = s[i]) /\ (\A i \in 1 .. Len(t) : u[Len(s) + i] = t[i])
  BY Concat, SeqIs
<1>2. n \in Seq(Names) /\ Len(n) = Len(s) /\ \A i \in 1 .. Len(s) : n[i] = s[i].name
  BY NamesIs
<1>3. k \in Seq(Names) /\ Len(k) = Len(t) /\ \A i \in 1 .. Len(t) : k[i] = t[i].name
  BY NamesIs
<1>4. w \in Seq(Names) /\ Len(w) = Len(u) /\ \A i \in 1 .. Len(u) : w[i] = u[i].name
  <2> HIDE DEF u
  <2> QED  BY <1>1, NamesIs
<1>5. x \in Seq(Names) /\ Len(x) = Len(s) + Len(t)
      /\ (\A i \in 1 .. Len(s) : x[i] = n[i]) /\ (\A i \in 1 .. Len(t) : x[Len(s) + i] = k[i])
  <2> HIDE DEF n, k
  <2>1. x \in Seq(Names) /\ Len(x) = Len(n) + Len(k)
        /\ (\A i \in 1 .. Len(n) : x[i] = n[i]) /\ (\A i \in 1 .. Len(k) : x[Len(n) + i] = k[i])
    <3>1. n \in Seq(Names) /\ k \in Seq(Names)
      BY <1>2, <1>3
    <3> QED  BY ONLY <3>1, Concat
  <2> HIDE DEF x
  <2> QED  BY ONLY <1>2, <1>3, <2>1
<1> HIDE DEF u, n, k, w, x
<1>6. ASSUME NEW i \in 1 .. Len(s) + Len(t) PROVE w[i] = x[i]
  <2>1. CASE i \in 1 .. Len(s)
    BY <1>1, <1>2, <1>4, <1>5, <2>1
  <2>2. CASE ~(i \in 1 .. Len(s))
    <3>1. i - Len(s) \in 1 .. Len(t) /\ Len(s) + (i - Len(s)) = i
      BY <1>1, <2>2
    <3> DEFINE j == i - Len(s)
    <3>2. j \in 1 .. Len(t) /\ Len(s) + j = i
      BY <3>1
    <3> HIDE DEF j
    <3>3. u[i] = t[j] /\ x[i] = k[j]
      BY <1>1, <1>5, <3>2
    <3> QED  BY <1>1, <1>3, <1>4, <3>2, <3>3
  <2> QED  BY <2>1, <2>2
<1>7. w = x
  BY <1>1, <1>4, <1>5, <1>6
<1> QED  BY <1>7 DEF u, n, k, w, x

\* The names of a table are the table of the names.
LEMMA NamesTables ==
  ASSUME NEW S, \A x \in S : x.name \in Names, NEW ss \in Seq(Seq(S))
  PROVE  /\ NameLists(ss) \in Seq(Seq(Names)) /\ Len(NameLists(ss)) = Len(ss)
         /\ \A k \in 1 .. Len(ss) : NameLists(ss)[k] = NamesOf(ss[k])
         /\ \A m \in 0 .. Len(ss) : NamesOf(Tables(ss)[m]) = Tables(NameLists(ss))[m]
<1> DEFINE n == Len(ss)
           ns == NameLists(ss)
           t == Tables(ss)
           u == Tables(ns)
           T == {m \in 0 .. n : NamesOf(t[m]) = u[m]}
<1>1. n \in Nat /\ DOMAIN ss = 1 .. n /\ \A k \in 1 .. n : ss[k] \in Seq(S)
  BY SeqIs
<1>2. ns = [k \in 1 .. n |-> NamesOf(ss[k])]
  BY <1>1 DEF NameLists
<1>3. \A k \in 1 .. n : ns[k] = NamesOf(ss[k]) /\ ns[k] \in Seq(Names)
  BY <1>1, <1>2, NamesIs
<1>4. ns \in Seq(Seq(Names)) /\ Len(ns) = n
  <2> HIDE DEF ns, n
  <2>1. DOMAIN ns = 1 .. n /\ ns = [k \in 1 .. n |-> ns[k]]
    BY ONLY <1>2
  <2>2. \A k \in 1 .. n : ns[k] \in Seq(Names)
    BY ONLY <1>3
  <2> QED  BY ONLY <1>1, <2>1, <2>2, IsSeq
<1>5. /\ t[0] = <<>> /\ (\A k \in 1 .. n : t[k] = t[k - 1] \o ss[k])
      /\ \A k \in 0 .. n : t[k] \in Seq(S)
  BY TablesAre DEF IsTables
<1>6. u[0] = <<>> /\ \A k \in 1 .. n : u[k] = u[k - 1] \o ns[k]
  <2> HIDE DEF ns
  <2> QED  BY <1>4, TablesAre DEF IsTables
<1> HIDE DEF ns, n, t, u
<1>7. 0 \in T
  <2>1. NamesOf(<<>>) = <<>>
    BY DEF NamesOf
  <2> QED  BY <1>1, <1>5, <1>6, <2>1
<1>8. ASSUME NEW k \in 0 .. n - 1, k \in T PROVE k + 1 \in T
  <2>1. k + 1 \in 1 .. n /\ (k + 1) - 1 = k /\ k + 1 \in 0 .. n /\ k \in 0 .. n
    BY <1>1
  <2>2. t[k + 1] = t[k] \o ss[k + 1] /\ u[k + 1] = u[k] \o ns[k + 1]
    BY ONLY <1>5, <1>6, <2>1
  <2>3. t[k] \in Seq(S) /\ ss[k + 1] \in Seq(S) /\ ns[k + 1] = NamesOf(ss[k + 1]) /\ NamesOf(t[k]) = u[k]
    BY ONLY <1>1, <1>3, <1>5, <1>8, <2>1
  <2>4. NamesOf(t[k] \o ss[k + 1]) = NamesOf(t[k]) \o NamesOf(ss[k + 1])
    BY <2>3, NamesConcat
  <2>5. NamesOf(t[k + 1]) = u[k + 1]
    BY ONLY <2>2, <2>3, <2>4
  <2> QED  BY ONLY <2>1, <2>5
<1> HIDE DEF T
<1>9. 0 .. n \subseteq T
  BY <1>1, <1>7, <1>8, SetInduction
<1> QED  BY <1>3, <1>4, <1>9 DEF T, n, ns, t, u

TypeOf(types, i) ==
  Declar(types[i].name, "type", types[i].refs, NamesOf(types), NamesOf(types[i].ctors))
CtorOf(c)      == Declar(c.name, "ctor", c.refs, <<>>, <<>>)
AsDerived(d)   == [d EXCEPT !.derived = TRUE]
RecFor(n, ns)  == AsDerived(Declar(RecOf[n], "rec", ns, <<>>, <<>>))

Heads(types)     == [i \in DOMAIN types |-> TypeOf(types, i)]
Ctors(cs)        == [j \in DOMAIN cs |-> CtorOf(cs[j])]
DerivedCtors(cs) == [j \in DOMAIN cs |-> AsDerived(CtorOf(cs[j]))]
CtorLists(types) == [i \in DOMAIN types |-> Ctors(types[i].ctors)]
Groups(types)    ==
  [i \in DOMAIN types |-> <<AsDerived(TypeOf(types, i))>> \o DerivedCtors(types[i].ctors)]
Mine(types)      == FlattenSeq(Groups(types))
Recs(types)      ==
  [i \in DOMAIN types |-> RecFor(types[i].name, ToSet(NamesOf(Mine(types))))]

\* What takes the place of an item.
Renewal(item) ==
  IF item.kind = "block" THEN Mine(item.types) \o Recs(item.types)
  ELSE IF item.kind = "quot" THEN <<AsDerived(item)>> ELSE <<item>>

LEMMA AsDerivedIs ==
  ASSUME NEW d \in Decls
  PROVE  /\ AsDerived(d) \in Decls /\ AsDerived(d).derived = TRUE
         /\ AsDerived(d).name = d.name /\ AsDerived(d).kind = d.kind /\ AsDerived(d).refs = d.refs
<1>1. AsDerived(d) \in Decls
  BY DEF AsDerived, Decls
<1>2. AsDerived(d).derived = TRUE /\ AsDerived(d).name = d.name /\ AsDerived(d).kind = d.kind
      /\ AsDerived(d).refs = d.refs
  BY DEF AsDerived, Decls
<1> QED  BY <1>1, <1>2

LEMMA DeclarIs ==
  ASSUME NEW n \in Names, NEW k \in {"plain", "quot", "type", "ctor", "rec"}, NEW refs \in SUBSET Names,
         NEW inds \in Seq(Names), NEW ctors \in Seq(Names)
  PROVE  /\ Declar(n, k, refs, inds, ctors) \in Decls
         /\ Declar(n, k, refs, inds, ctors).name = n /\ Declar(n, k, refs, inds, ctors).kind = k
         /\ Declar(n, k, refs, inds, ctors).refs = refs /\ Declar(n, k, refs, inds, ctors).inds = inds
         /\ Declar(n, k, refs, inds, ctors).ctors = ctors
BY DEF Declar, Decls

LEMMA CtorsAre ==
  ASSUME NEW cs \in Seq(CtorSpecs)
  PROVE  /\ Len(cs) \in Nat /\ DOMAIN cs = 1 .. Len(cs)
         /\ \A j \in 1 .. Len(cs) : cs[j].name \in Names /\ cs[j].refs \subseteq Names
         /\ NamesOf(cs) \in Seq(Names) /\ Len(NamesOf(cs)) = Len(cs)
         /\ Ctors(cs) \in Seq(Decls) /\ Len(Ctors(cs)) = Len(cs)
         /\ DerivedCtors(cs) \in Seq(Decls) /\ Len(DerivedCtors(cs)) = Len(cs)
         /\ \A j \in 1 .. Len(cs) : /\ CtorOf(cs[j]) \in Decls
                                    /\ Ctors(cs)[j] = CtorOf(cs[j])
                                    /\ DerivedCtors(cs)[j] = AsDerived(CtorOf(cs[j]))
                                    /\ CtorOf(cs[j]).name = cs[j].name /\ CtorOf(cs[j]).kind = "ctor"
                                    /\ CtorOf(cs[j]).refs = cs[j].refs
         /\ NamesOf(Ctors(cs)) = NamesOf(cs) /\ NamesOf(DerivedCtors(cs)) = NamesOf(cs)
<1> DEFINE n == Len(cs)
<1>1. n \in Nat /\ DOMAIN cs = 1 .. n /\ \A j \in 1 .. n : cs[j] \in CtorSpecs
  BY SeqIs
<1>2. \A j \in 1 .. n : cs[j].name \in Names /\ cs[j].refs \subseteq Names
  BY <1>1 DEF CtorSpecs
<1>3. NamesOf(cs) \in Seq(Names) /\ Len(NamesOf(cs)) = n /\ \A j \in 1 .. n : NamesOf(cs)[j] = cs[j].name
  <2>1. \A x \in CtorSpecs : x.name \in Names
    BY DEF CtorSpecs
  <2> QED  BY <2>1, NamesIs
<1> HIDE DEF n
<1>4. <<>> \in Seq(Names)
  OBVIOUS
<1>5. ASSUME NEW j \in 1 .. n
      PROVE  /\ CtorOf(cs[j]) \in Decls /\ CtorOf(cs[j]).name = cs[j].name /\ CtorOf(cs[j]).kind = "ctor"
             /\ CtorOf(cs[j]).refs = cs[j].refs
             /\ AsDerived(CtorOf(cs[j])) \in Decls /\ AsDerived(CtorOf(cs[j])).name = cs[j].name
  <2>1. /\ CtorOf(cs[j]) \in Decls /\ CtorOf(cs[j]).name = cs[j].name /\ CtorOf(cs[j]).kind = "ctor"
        /\ CtorOf(cs[j]).refs = cs[j].refs
    <3> DEFINE m == cs[j].name
               f == cs[j].refs
               k == "ctor"
    <3>1. /\ m \in Names /\ f \in SUBSET Names /\ CtorOf(cs[j]) = Declar(m, k, f, <<>>, <<>>)
          /\ k \in {"plain", "quot", "type", "ctor", "rec"}
      BY <1>2 DEF CtorOf
    <3> HIDE DEF m, f, k
    <3>2. /\ Declar(m, k, f, <<>>, <<>>) \in Decls /\ Declar(m, k, f, <<>>, <<>>).name = m
          /\ Declar(m, k, f, <<>>, <<>>).kind = k /\ Declar(m, k, f, <<>>, <<>>).refs = f
      BY ONLY <1>4, <3>1 DEF Declar, Decls
    <3> QED  BY ONLY <3>1, <3>2 DEF m, f, k
  <2> QED  BY <2>1, AsDerivedIs
<1>6. /\ Ctors(cs) = [j \in 1 .. n |-> CtorOf(cs[j])]
      /\ DerivedCtors(cs) = [j \in 1 .. n |-> AsDerived(CtorOf(cs[j]))]
  BY <1>1 DEF Ctors, DerivedCtors
<1>7. Ctors(cs) \in Seq(Decls) /\ Len(Ctors(cs)) = n /\ \A j \in 1 .. n : Ctors(cs)[j] = CtorOf(cs[j])
  <2>1. /\ DOMAIN Ctors(cs) = 1 .. n /\ Ctors(cs) = [j \in 1 .. n |-> Ctors(cs)[j]]
        /\ \A j \in 1 .. n : Ctors(cs)[j] = CtorOf(cs[j])
    BY ONLY <1>6
  <2>2. \A j \in 1 .. n : Ctors(cs)[j] \in Decls
    BY <1>5, <2>1
  <2> QED  BY ONLY <1>1, <2>1, <2>2, IsSeq
<1>8. /\ DerivedCtors(cs) \in Seq(Decls) /\ Len(DerivedCtors(cs)) = n
      /\ \A j \in 1 .. n : DerivedCtors(cs)[j] = AsDerived(CtorOf(cs[j]))
  <2>1. /\ DOMAIN DerivedCtors(cs) = 1 .. n /\ DerivedCtors(cs) = [j \in 1 .. n |-> DerivedCtors(cs)[j]]
        /\ \A j \in 1 .. n : DerivedCtors(cs)[j] = AsDerived(CtorOf(cs[j]))
    BY ONLY <1>6
  <2>2. \A j \in 1 .. n : DerivedCtors(cs)[j] \in Decls
    BY <1>5, <2>1
  <2> QED  BY ONLY <1>1, <2>1, <2>2, IsSeq
<1>9. NamesOf(Ctors(cs)) = NamesOf(cs) /\ NamesOf(DerivedCtors(cs)) = NamesOf(cs)
  <2>1. /\ NamesOf(cs) = [j \in 1 .. n |-> cs[j].name]
        /\ NamesOf(Ctors(cs)) = [j \in 1 .. n |-> CtorOf(cs[j]).name]
        /\ NamesOf(DerivedCtors(cs)) = [j \in 1 .. n |-> AsDerived(CtorOf(cs[j])).name]
    BY <1>1, <1>6 DEF NamesOf
  <2> QED  BY ONLY <1>5, <2>1
<1> QED  BY <1>1, <1>2, <1>3, <1>5, <1>7, <1>8, <1>9 DEF n

\* The parts of a block of n types.
BlockIs(types, n) ==
  /\ n \in Nat /\ Len(types) = n /\ DOMAIN types = 1 .. n
  /\ \A i \in 1 .. n :
       /\ types[i].name \in DOMAIN RecOf /\ types[i].name \in Names /\ RecOf[types[i].name] \in Names
       /\ types[i].refs \subseteq Names /\ types[i].ctors \in Seq(CtorSpecs)
  /\ NamesOf(types) \in Seq(Names) /\ Len(NamesOf(types)) = n
  /\ \A i \in 1 .. n : NamesOf(types)[i] = types[i].name
  /\ \A i \in 1 .. n : /\ TypeOf(types, i) \in Decls /\ TypeOf(types, i).name = types[i].name
                       /\ TypeOf(types, i).kind = "type" /\ TypeOf(types, i).refs = types[i].refs
                       /\ TypeOf(types, i).inds = NamesOf(types)
                       /\ TypeOf(types, i).ctors = NamesOf(types[i].ctors)

LEMMA BlockParts ==
  ASSUME DeclarsAssumption, NEW types \in Seq(TypeSpecs)
  PROVE  BlockIs(types, Len(types))
<1> DEFINE n == Len(types)
<1>1. n \in Nat /\ DOMAIN types = 1 .. n /\ \A i \in 1 .. n : types[i] \in TypeSpecs
  BY SeqIs
<1>2. ASSUME NEW x \in TypeSpecs
      PROVE  /\ x.name \in DOMAIN RecOf /\ x.name \in Names /\ RecOf[x.name] \in Names
             /\ x.refs \subseteq Names /\ x.ctors \in Seq(CtorSpecs)
  BY DEF TypeSpecs, DeclarsAssumption
<1>3. NamesOf(types) \in Seq(Names) /\ Len(NamesOf(types)) = n /\ \A i \in 1 .. n : NamesOf(types)[i] = types[i].name
  BY <1>2, NamesIs
<1>4. ASSUME NEW i \in 1 .. n
      PROVE  /\ TypeOf(types, i) \in Decls /\ TypeOf(types, i).name = types[i].name
             /\ TypeOf(types, i).kind = "type" /\ TypeOf(types, i).refs = types[i].refs
             /\ TypeOf(types, i).inds = NamesOf(types)
             /\ TypeOf(types, i).ctors = NamesOf(types[i].ctors)
  <2> DEFINE m == types[i].name
             f == types[i].refs
             a == NamesOf(types)
             c == NamesOf(types[i].ctors)
             k == "type"
  <2>1. /\ m \in Names /\ f \in SUBSET Names /\ a \in Seq(Names)
        /\ TypeOf(types, i) = Declar(m, k, f, a, c) /\ k \in {"plain", "quot", "type", "ctor", "rec"}
    BY <1>1, <1>2, <1>3 DEF TypeOf
  <2>2. c \in Seq(Names)
    BY <1>1, <1>2, CtorsAre
  <2> HIDE DEF m, f, a, c, k
  <2>3. /\ Declar(m, k, f, a, c) \in Decls /\ Declar(m, k, f, a, c).name = m /\ Declar(m, k, f, a, c).kind = k
        /\ Declar(m, k, f, a, c).refs = f /\ Declar(m, k, f, a, c).inds = a /\ Declar(m, k, f, a, c).ctors = c
    BY ONLY <2>1, <2>2 DEF Declar, Decls
  <2> QED  BY ONLY <2>1, <2>3 DEF m, f, a, c, k
<1>5. \A i \in 1 .. n :
        /\ types[i].name \in DOMAIN RecOf /\ types[i].name \in Names /\ RecOf[types[i].name] \in Names
        /\ types[i].refs \subseteq Names /\ types[i].ctors \in Seq(CtorSpecs)
  BY <1>1, <1>2
<1> HIDE DEF n
<1> QED  BY <1>1, <1>3, <1>4, <1>5 DEF BlockIs, n

\* What a block declares.
LEMMA DeclaredIs ==
  ASSUME DeclarsAssumption, NEW types \in Seq(TypeSpecs)
  PROVE  /\ Declared(types) = Heads(types) \o FlattenSeq(CtorLists(types))
         /\ Heads(types) \in Seq(Decls) /\ Len(Heads(types)) = Len(types)
         /\ \A i \in 1 .. Len(types) : Heads(types)[i] = TypeOf(types, i)
         /\ NamesOf(Heads(types)) = NamesOf(types)
         /\ CtorLists(types) \in Seq(Seq(Decls)) /\ Len(CtorLists(types)) = Len(types)
         /\ \A i \in 1 .. Len(types) : CtorLists(types)[i] = Ctors(types[i].ctors)
         /\ FlattenSeq(CtorLists(types)) = Tables(CtorLists(types))[Len(types)]
         /\ FlattenSeq(CtorLists(types)) \in Seq(Decls)
         /\ Declared(types) \in Seq(Decls)
<1> DEFINE n == Len(types)
<1>1. BlockIs(types, n)
  BY BlockParts
<1>2. Declared(types) = Heads(types) \o FlattenSeq(CtorLists(types))
  BY DEF Declared, Heads, CtorLists, Ctors, TypeOf, CtorOf
<1>3. /\ Heads(types) = [i \in 1 .. n |-> TypeOf(types, i)]
      /\ CtorLists(types) = [i \in 1 .. n |-> Ctors(types[i].ctors)]
  BY <1>1 DEF Heads, CtorLists, BlockIs
<1> HIDE DEF n
<1>0. n \in Nat
  BY <1>1 DEF BlockIs
<1>4. /\ Heads(types) \in Seq(Decls) /\ Len(Heads(types)) = n
      /\ \A i \in 1 .. n : Heads(types)[i] = TypeOf(types, i)
  <2>1. /\ DOMAIN Heads(types) = 1 .. n /\ Heads(types) = [i \in 1 .. n |-> Heads(types)[i]]
        /\ \A i \in 1 .. n : Heads(types)[i] = TypeOf(types, i)
    BY ONLY <1>3
  <2>2. \A i \in 1 .. n : Heads(types)[i] \in Decls
    BY <1>1, <2>1 DEF BlockIs
  <2> QED  BY ONLY <1>0, <2>1, <2>2, IsSeq
<1>5. /\ CtorLists(types) \in Seq(Seq(Decls)) /\ Len(CtorLists(types)) = n
      /\ \A i \in 1 .. n : CtorLists(types)[i] = Ctors(types[i].ctors)
  <2>1. /\ DOMAIN CtorLists(types) = 1 .. n /\ CtorLists(types) = [i \in 1 .. n |-> CtorLists(types)[i]]
        /\ \A i \in 1 .. n : CtorLists(types)[i] = Ctors(types[i].ctors)
    BY ONLY <1>3
  <2>2. \A i \in 1 .. n : CtorLists(types)[i] \in Seq(Decls)
    BY <1>1, <2>1, CtorsAre DEF BlockIs
  <2> QED  BY ONLY <1>0, <2>1, <2>2, IsSeq
<1>6. NamesOf(Heads(types)) = NamesOf(types)
  <2>1. /\ NamesOf(types) = [i \in 1 .. n |-> types[i].name]
        /\ NamesOf(Heads(types)) = [i \in 1 .. n |-> TypeOf(types, i).name]
    BY <1>1, <1>3 DEF NamesOf, BlockIs
  <2> QED  BY ONLY <1>1, <2>1 DEF BlockIs
<1>7. FlattenSeq(CtorLists(types)) = Tables(CtorLists(types))[n]
  BY <1>5, FlatTables
<1>8. FlattenSeq(CtorLists(types)) \in Seq(Decls)
  BY <1>0, <1>5, <1>7, TablesAre
<1>9. Declared(types) \in Seq(Decls)
  BY <1>2, <1>4, <1>8
<1> QED  BY <1>2, <1>4, <1>5, <1>6, <1>7, <1>8, <1>9 DEF n

\* What is derived of it.
LEMMA MineIs ==
  ASSUME DeclarsAssumption, NEW types \in Seq(TypeSpecs)
  PROVE  /\ Groups(types) \in Seq(Seq(Decls)) /\ Len(Groups(types)) = Len(types)
         /\ \A i \in 1 .. Len(types) :
              Groups(types)[i] = <<AsDerived(TypeOf(types, i))>> \o DerivedCtors(types[i].ctors)
         /\ Mine(types) = Tables(Groups(types))[Len(types)]
         /\ Mine(types) \in Seq(Decls)
         /\ Recs(types) \in Seq(Decls) /\ Len(Recs(types)) = Len(types)
         /\ \A i \in 1 .. Len(types) : /\ Recs(types)[i].name = RecOf[types[i].name]
                                       /\ Recs(types)[i].kind = "rec" /\ Recs(types)[i].derived = TRUE
         /\ Mine(types) \o Recs(types) \in Seq(Decls)
<1> DEFINE n == Len(types)
           G(i) == <<AsDerived(TypeOf(types, i))>> \o DerivedCtors(types[i].ctors)
           ns == ToSet(NamesOf(Mine(types)))
           R(i) == RecFor(types[i].name, ns)
<1>1. BlockIs(types, n) /\ n \in Nat /\ DOMAIN types = 1 .. n
  BY BlockParts DEF BlockIs
<1>2. Groups(types) = [i \in 1 .. n |-> G(i)] /\ Recs(types) = [i \in 1 .. n |-> R(i)]
  BY <1>1 DEF Groups, Recs
<1>3. \A i \in 1 .. n : G(i) \in Seq(Decls)
  <2> SUFFICES ASSUME NEW i \in 1 .. n PROVE G(i) \in Seq(Decls)
    OBVIOUS
  <2>1. AsDerived(TypeOf(types, i)) \in Decls /\ DerivedCtors(types[i].ctors) \in Seq(Decls)
    BY <1>1, AsDerivedIs, CtorsAre DEF BlockIs
  <2> QED  BY <2>1
<1> HIDE DEF G, n, R
<1>4. Groups(types) \in Seq(Seq(Decls)) /\ Len(Groups(types)) = n /\ \A i \in 1 .. n : Groups(types)[i] = G(i)
  <2>1. /\ DOMAIN Groups(types) = 1 .. n /\ Groups(types) = [i \in 1 .. n |-> Groups(types)[i]]
        /\ \A i \in 1 .. n : Groups(types)[i] = G(i)
    BY ONLY <1>2
  <2>2. \A i \in 1 .. n : Groups(types)[i] \in Seq(Decls)
    BY ONLY <1>3, <2>1
  <2> QED  BY ONLY <1>1, <2>1, <2>2, IsSeq
<1>5. Mine(types) = Tables(Groups(types))[n]
  BY <1>4, FlatTables DEF Mine
<1>6. Mine(types) \in Seq(Decls)
  BY <1>1, <1>4, <1>5, TablesAre
<1>7. ns \in SUBSET Names
  <2>1. \A x \in Decls : x.name \in Names
    BY DEF Decls
  <2>2. NamesOf(Mine(types)) \in Seq(Names)
    BY <1>6, <2>1, NamesIs
  <2> QED  BY <2>2 DEF ToSet
<1> HIDE DEF ns
<1>8. ASSUME NEW i \in 1 .. n
      PROVE  R(i) \in Decls /\ R(i).name = RecOf[types[i].name] /\ R(i).kind = "rec" /\ R(i).derived = TRUE
  <2> DEFINE m == RecOf[types[i].name]
             k == "rec"
             d == Declar(m, k, ns, <<>>, <<>>)
  <2>1. m \in Names /\ k \in {"plain", "quot", "type", "ctor", "rec"}
    BY <1>1 DEF BlockIs
  <2> HIDE DEF m, k
  <2>2. d \in Decls /\ d.name = m /\ d.kind = k
    <3>1. <<>> \in Seq(Names)
      OBVIOUS
    <3> QED  BY ONLY <1>7, <2>1, <3>1 DEF Declar, Decls
  <2>3. R(i) = AsDerived(d)
    BY DEF R, RecFor, m, k
  <2> HIDE DEF d
  <2>4. R(i) \in Decls /\ R(i).name = m /\ R(i).kind = k /\ R(i).derived = TRUE
    BY <2>2, <2>3, AsDerivedIs
  <2> QED  BY ONLY <2>4 DEF m, k
<1>9. Recs(types) \in Seq(Decls) /\ Len(Recs(types)) = n /\ \A i \in 1 .. n : Recs(types)[i] = R(i)
  <2>1. /\ DOMAIN Recs(types) = 1 .. n /\ Recs(types) = [i \in 1 .. n |-> Recs(types)[i]]
        /\ \A i \in 1 .. n : Recs(types)[i] = R(i)
    BY ONLY <1>2
  <2>2. \A i \in 1 .. n : Recs(types)[i] \in Decls
    BY ONLY <1>8, <2>1
  <2> QED  BY ONLY <1>1, <2>1, <2>2, IsSeq
<1>10. Mine(types) \o Recs(types) \in Seq(Decls)
  BY <1>6, <1>9
<1>11. \A i \in 1 .. n : /\ Recs(types)[i].name = RecOf[types[i].name]
                         /\ Recs(types)[i].kind = "rec" /\ Recs(types)[i].derived = TRUE
  BY <1>8, <1>9
<1> QED  BY <1>4, <1>5, <1>6, <1>9, <1>10, <1>11 DEF n, G

LEMMA OneIs ==
  ASSUME NEW S, NEW a \in S
  PROVE  /\ <<a>> \in Seq(S) /\ Len(<<a>>) = 1 /\ <<a>>[1] = a /\ IsInjective(<<a>>)
         /\ \A x : x \in ToSet(<<a>>) <=> x = a
<1>1. <<a>> \in Seq(S) /\ Len(<<a>>) = 1 /\ <<a>>[1] = a /\ DOMAIN <<a>> = {1}
  OBVIOUS
<1> QED  BY <1>1 DEF IsInjective, ToSet

\* Each type with its constructors, or the types and then the constructors: the
\* names are the same, and either has one of them twice only if the other has.
LEMMA GroupNames ==
  ASSUME NEW S, NEW n \in Nat, NEW tn \in Seq(S), NEW cn \in Seq(Seq(S)), NEW gn \in Seq(Seq(S)),
         Len(tn) = n, Len(cn) = n, Len(gn) = n, \A i \in 1 .. n : gn[i] = <<tn[i]>> \o cn[i]
  PROVE  /\ \A x : x \in ToSet(tn \o Tables(cn)[n]) <=> x \in ToSet(Tables(gn)[n])
         /\ IsInjective(tn \o Tables(cn)[n]) <=> IsInjective(Tables(gn)[n])
<1> DEFINE c == Tables(cn)[n]
           g == Tables(gn)[n]
<1>1. n \in 0 .. Len(cn) /\ n \in 0 .. Len(gn)
  OBVIOUS
<1>2. DOMAIN tn = 1 .. n /\ \A i \in 1 .. n : tn[i] \in S /\ cn[i] \in Seq(S) /\ gn[i] \in Seq(S)
  BY SeqIs
<1>3. ASSUME NEW i \in 1 .. n
      PROVE  /\ IsInjective(gn[i]) <=> IsInjective(cn[i]) /\ tn[i] \notin ToSet(cn[i])
             /\ \A x : x \in ToSet(gn[i]) <=> x = tn[i] \/ x \in ToSet(cn[i])
  <2> DEFINE a == <<tn[i]>>
             b == cn[i]
  <2>1. a \in Seq(S) /\ IsInjective(a) /\ \A x : x \in ToSet(a) <=> x = tn[i]
    BY <1>2, OneIs
  <2>2. b \in Seq(S) /\ gn[i] = a \o b
    BY <1>2
  <2> HIDE DEF a
  <2>3. /\ IsInjective(a \o b) <=> /\ IsInjective(a) /\ IsInjective(b)
                                   /\ \A x : ~(x \in ToSet(a) /\ x \in ToSet(b))
        /\ \A x : x \in ToSet(a \o b) <=> x \in ToSet(a) \/ x \in ToSet(b)
    <3> HIDE DEF b
    <3> QED  BY <2>1, <2>2, ConcatInjective
  <2>4. (\A x : ~(x \in ToSet(a) /\ x \in ToSet(b))) <=> tn[i] \notin ToSet(b)
    BY ONLY <2>1
  <2>5. IsInjective(gn[i]) <=> IsInjective(b) /\ tn[i] \notin ToSet(b)
    BY ONLY <2>1, <2>2, <2>3, <2>4
  <2>6. \A x : x \in ToSet(gn[i]) <=> x = tn[i] \/ x \in ToSet(b)
    BY ONLY <2>1, <2>2, <2>3
  <2> QED  BY ONLY <2>5, <2>6
<1>4. \A x : x \in ToSet(tn) <=> \E i \in 1 .. n : x = tn[i]
  BY <1>2 DEF ToSet
<1>5. \A x : x \in ToSet(c) <=> \E k \in 1 .. n : x \in ToSet(cn[k])
  BY <1>1, TablesRange
<1>6. \A x : x \in ToSet(g) <=> \E k \in 1 .. n : x \in ToSet(gn[k])
  BY <1>1, TablesRange
<1>7. IsInjective(c) <=> Apart(cn, n)
  BY <1>1, TablesInjective
<1>8. IsInjective(g) <=> Apart(gn, n)
  BY <1>1, TablesInjective
<1>9. c \in Seq(S)
  BY <1>1, TablesAre
<1> HIDE DEF c, g
<1>10. /\ IsInjective(tn \o c) <=> /\ IsInjective(tn) /\ IsInjective(c)
                                   /\ \A x : ~(x \in ToSet(tn) /\ x \in ToSet(c))
       /\ \A x : x \in ToSet(tn \o c) <=> x \in ToSet(tn) \/ x \in ToSet(c)
  BY <1>9, ConcatInjective
<1>11. \A x : x \in ToSet(tn \o c) <=> x \in ToSet(g)
  BY ONLY <1>3, <1>4, <1>5, <1>6, <1>10
<1>12. ASSUME IsInjective(tn \o c) PROVE Apart(gn, n)
  <2>1. IsInjective(tn) /\ Apart(cn, n) /\ \A x : ~(x \in ToSet(tn) /\ x \in ToSet(c))
    BY <1>7, <1>10, <1>12
  <2>2. ASSUME NEW i \in 1 .. n PROVE IsInjective(gn[i])
    <3>1. IsInjective(cn[i])
      BY <2>1 DEF Apart
    <3>2. tn[i] \notin ToSet(cn[i])
      BY <1>4, <1>5, <2>1
    <3> QED  BY <1>3, <3>1, <3>2
  <2>3. ASSUME NEW k \in 1 .. n, NEW l \in 1 .. n, NEW x, x \in ToSet(gn[k]), x \in ToSet(gn[l]) PROVE k = l
    <3>1. (x = tn[k] \/ x \in ToSet(cn[k])) /\ (x = tn[l] \/ x \in ToSet(cn[l]))
      BY <1>3, <2>3
    <3>2. CASE x = tn[k] /\ x = tn[l]
      BY <1>2, <2>1, <3>2 DEF IsInjective
    <3>3. CASE x \in ToSet(cn[k]) /\ x \in ToSet(cn[l])
      BY <2>1, <3>3 DEF Apart
    <3>4. ~(x = tn[k] /\ x \in ToSet(cn[l])) /\ ~(x = tn[l] /\ x \in ToSet(cn[k]))
      BY <1>4, <1>5, <2>1
    <3> QED  BY <3>1, <3>2, <3>3, <3>4
  <2> QED  BY <2>2, <2>3 DEF Apart
<1>13. ASSUME Apart(gn, n) PROVE IsInjective(tn \o c)
  <2>1. ASSUME NEW i \in 1 .. n, NEW j \in 1 .. n, tn[i] = tn[j] PROVE i = j
    BY <1>3, <1>13, <2>1 DEF Apart
  <2>2. IsInjective(tn)
    BY <1>2, <2>1 DEF IsInjective
  <2>3. Apart(cn, n)
    BY <1>3, <1>13 DEF Apart
  <2>4. ASSUME NEW x, x \in ToSet(tn), x \in ToSet(c) PROVE FALSE
    <3>1. PICK i \in 1 .. n : x = tn[i]
      BY <1>4, <2>4
    <3>2. PICK k \in 1 .. n : x \in ToSet(cn[k])
      BY <1>5, <2>4
    <3>3. x \in ToSet(gn[i]) /\ x \in ToSet(gn[k])
      BY <1>3, <3>1, <3>2
    <3>4. i = k
      BY <1>13, <3>3 DEF Apart
    <3> QED  BY <1>3, <1>13, <3>1, <3>2, <3>4 DEF Apart
  <2> QED  BY <1>7, <1>10, <2>2, <2>3, <2>4
<1> QED  BY <1>8, <1>11, <1>12, <1>13 DEF c, g

RecNames(types) == [i \in DOMAIN types |-> RecOf[types[i].name]]

\* The names a block declares, gives and is replaced by.
LEMMA BlockNames ==
  ASSUME DeclarsAssumption, NEW types \in Seq(TypeSpecs)
  PROVE  LET d == NamesOf(Declared(types))
             m == NamesOf(Mine(types))
             r == NamesOf(Mine(types) \o Recs(types)) IN
         /\ d \in Seq(Names) /\ m \in Seq(Names) /\ RecNames(types) \in Seq(Names)
         /\ r = m \o RecNames(types)
         /\ \A x : x \in ToSet(d) <=> x \in ToSet(m)
         /\ IsInjective(d) <=> IsInjective(m)
<1> DEFINE n == Len(types)
           tn == NamesOf(types)
           cl == CtorLists(types)
           gl == Groups(types)
           cn == NameLists(cl)
           gn == NameLists(gl)
<1>0. \A x \in Decls : x.name \in Names
  BY DEF Decls
<1>1. BlockIs(types, n) /\ n \in Nat /\ DOMAIN types = 1 .. n /\ tn \in Seq(Names) /\ Len(tn) = n
  BY BlockParts DEF BlockIs
<1>2. /\ cl \in Seq(Seq(Decls)) /\ Len(cl) = n /\ \A i \in 1 .. n : cl[i] = Ctors(types[i].ctors)
  BY DeclaredIs
<1>3. /\ gl \in Seq(Seq(Decls)) /\ Len(gl) = n
      /\ \A i \in 1 .. n : gl[i] = <<AsDerived(TypeOf(types, i))>> \o DerivedCtors(types[i].ctors)
  BY MineIs
<1>4. /\ NamesOf(Declared(types)) = tn \o Tables(cn)[n]
  <2>1. /\ Declared(types) = Heads(types) \o FlattenSeq(cl)
        /\ Heads(types) \in Seq(Decls) /\ FlattenSeq(cl) \in Seq(Decls)
        /\ NamesOf(Heads(types)) = tn /\ FlattenSeq(cl) = Tables(cl)[n]
    BY DeclaredIs
  <2>2. NamesOf(Tables(cl)[n]) = Tables(cn)[n]
    <3>1. n \in 0 .. Len(cl)
      BY <1>1, <1>2
    <3> HIDE DEF cl, n
    <3> QED  BY <1>0, <1>2, <3>1, NamesTables
  <2>3. NamesOf(Heads(types) \o FlattenSeq(cl)) = NamesOf(Heads(types)) \o NamesOf(FlattenSeq(cl))
    <3> HIDE DEF cl
    <3> QED  BY <1>0, <2>1, NamesConcat
  <2> QED  BY ONLY <2>1, <2>2, <2>3
<1>5. NamesOf(Mine(types)) = Tables(gn)[n]
  <2>1. Mine(types) = Tables(gl)[n]
    BY MineIs
  <2>2. NamesOf(Tables(gl)[n]) = Tables(gn)[n]
    <3>1. n \in 0 .. Len(gl)
      BY <1>1, <1>3
    <3> HIDE DEF gl, n
    <3> QED  BY <1>0, <1>3, <3>1, NamesTables
  <2> QED  BY ONLY <2>1, <2>2
<1> HIDE DEF n, tn, cl, gl
<1>6. cn \in Seq(Seq(Names)) /\ Len(cn) = n /\ \A i \in 1 .. n : cn[i] = NamesOf(cl[i])
  BY <1>0, <1>2, NamesTables
<1>7. gn \in Seq(Seq(Names)) /\ Len(gn) = n /\ \A i \in 1 .. n : gn[i] = NamesOf(gl[i])
  BY <1>0, <1>3, NamesTables
<1>8. ASSUME NEW i \in 1 .. n PROVE gn[i] = <<tn[i]>> \o cn[i]
  <2> DEFINE h == AsDerived(TypeOf(types, i))
             cs == types[i].ctors
  <2>1. h \in Decls /\ h.name = types[i].name /\ types[i].name = tn[i] /\ cs \in Seq(CtorSpecs)
    BY <1>1, AsDerivedIs DEF BlockIs, tn
  <2> HIDE DEF h, cs
  <2>2. /\ DerivedCtors(cs) \in Seq(Decls) /\ NamesOf(DerivedCtors(cs)) = NamesOf(cs) /\ NamesOf(Ctors(cs)) = NamesOf(cs)
    BY <2>1, CtorsAre
  <2>3. <<h>> \in Seq(Decls) /\ NamesOf(<<h>>) = <<h.name>>
    BY <2>1 DEF NamesOf
  <2>4. NamesOf(<<h>> \o DerivedCtors(cs)) = NamesOf(<<h>>) \o NamesOf(DerivedCtors(cs))
    BY <1>0, <2>2, <2>3, NamesConcat
  <2>5. gl[i] = <<h>> \o DerivedCtors(cs) /\ cl[i] = Ctors(cs)
    BY <1>2, <1>3 DEF h, cs
  <2>6. gn[i] = NamesOf(gl[i]) /\ cn[i] = NamesOf(cl[i])
    BY <1>6, <1>7
  <2> QED  BY ONLY <2>1, <2>2, <2>3, <2>4, <2>5, <2>6
<1> HIDE DEF cn, gn
<1>9. /\ \A x : x \in ToSet(tn \o Tables(cn)[n]) <=> x \in ToSet(Tables(gn)[n])
      /\ IsInjective(tn \o Tables(cn)[n]) <=> IsInjective(Tables(gn)[n])
  BY ONLY <1>1, <1>6, <1>7, <1>8, GroupNames
<1>10. NamesOf(Mine(types) \o Recs(types)) = NamesOf(Mine(types)) \o RecNames(types)
  <2>1. Mine(types) \in Seq(Decls) /\ Recs(types) \in Seq(Decls) /\ Len(Recs(types)) = n
        /\ \A i \in 1 .. n : Recs(types)[i].name = RecOf[types[i].name]
    BY MineIs DEF n
  <2>2. DOMAIN Recs(types) = 1 .. n /\ DOMAIN types = 1 .. n
    BY <1>1, <2>1
  <2>3. NamesOf(Recs(types)) = RecNames(types)
    BY ONLY <2>1, <2>2 DEF NamesOf, RecNames
  <2>4. NamesOf(Mine(types) \o Recs(types)) = NamesOf(Mine(types)) \o NamesOf(Recs(types))
    BY <1>0, <2>1, NamesConcat
  <2> QED  BY ONLY <2>3, <2>4
<1>11. RecNames(types) \in Seq(Names)
  <2>1. RecNames(types) = [i \in 1 .. n |-> RecOf[types[i].name]]
    BY <1>1 DEF RecNames
  <2>2. \A i \in 1 .. n : RecOf[types[i].name] \in Names
    BY <1>1 DEF BlockIs
  <2> QED  BY ONLY <1>1, <2>1, <2>2
<1>12. NamesOf(Declared(types)) \in Seq(Names) /\ NamesOf(Mine(types)) \in Seq(Names)
  <2>1. Declared(types) \in Seq(Decls) /\ Mine(types) \in Seq(Decls)
    BY DeclaredIs, MineIs
  <2> QED  BY <1>0, <2>1, NamesIs
<1> QED  BY ONLY <1>4, <1>5, <1>9, <1>10, <1>11, <1>12

LEMMA DeclNames == \A x \in Decls : x.name \in Names
BY DEF Decls

LEMMA ItemKinds ==
  ASSUME NEW item \in Exportable
  PROVE  \/ item.kind \in {"plain", "quot"} /\ item \in Decls
         \/ item.kind = "block" /\ item.types \in Seq(TypeSpecs)
<1>1. CASE item \in [name : Names, kind : {"plain", "quot"}, refs : SUBSET Names,
                     inds : {<<>>}, ctors : {<<>>}, derived : {FALSE}]
  <2>1. <<>> \in Seq(Names)
    OBVIOUS
  <2> QED  BY <1>1, <2>1 DEF Decls
<1>2. CASE item \in [kind : {"block"}, types : Seq(TypeSpecs)]
  BY <1>2
<1> QED  BY <1>1, <1>2 DEF Exportable

\* What an item declares, gives and is replaced by.
NamesAgree(kind, d, g, r) ==
  /\ d \in Seq(Names) /\ g \in Seq(Names) /\ r \in Seq(Names)
  /\ \A x : x \in ToSet(r) <=> x \in ToSet(g)
  /\ IsInjective(r) <=> IsInjective(g)
  /\ \A x : x \in ToSet(d) => x \in ToSet(g)
  /\ IsInjective(g) => IsInjective(d)
  /\ kind = "plain" => \A x : x \in ToSet(d) <=> x \in ToSet(g)

ItemNames(item) ==
  /\ DeclarsOf(item) \in Seq(Decls) /\ Renewal(item) \in Seq(Decls)
  /\ NamesAgree(item.kind, NamesOf(DeclarsOf(item)), Gives(item), NamesOf(Renewal(item)))

LEMMA ItemIs ==
  ASSUME DeclarsAssumption, NEW item \in Exportable
  PROVE  ItemNames(item)
<1> DEFINE d == NamesOf(DeclarsOf(item))
           g == Gives(item)
           r == NamesOf(Renewal(item))
<1>1. CASE item.kind \in {"plain", "quot"} /\ item \in Decls
  <2>1. DeclarsOf(item) = <<item>> /\ DeclarsOf(item) \in Seq(Decls)
    BY <1>1 DEF DeclarsOf
  <2>2. PICK e \in Decls : Renewal(item) = <<e>> /\ e.name = item.name
    BY <1>1, AsDerivedIs DEF Renewal
  <2>3. item.name \in Names
    BY <1>1, DeclNames
  <2>4. d = <<item.name>> /\ r = <<item.name>>
    BY <2>1, <2>2 DEF NamesOf
  <2>5. g = d
    <3>1. g = NamesOf(DeclarsOf(item)) \o <<>>
      BY <1>1 DEF Gives
    <3>2. d \in Seq(Names)
      BY <2>3, <2>4
    <3> HIDE DEF d
    <3> QED  BY <3>1, <3>2 DEF d
  <2>6. d \in Seq(Names) /\ Renewal(item) \in Seq(Decls)
    BY <2>2, <2>3, <2>4
  <2>7. r = d
    BY <2>4
  <2> HIDE DEF d, g, r
  <2>8. NamesAgree(item.kind, d, g, r)
    BY ONLY <2>5, <2>6, <2>7 DEF NamesAgree
  <2> QED  BY <2>1, <2>6, <2>8 DEF ItemNames, d, g, r
<1>2. CASE item.kind = "block" /\ item.types \in Seq(TypeSpecs)
  <2> DEFINE types == item.types
             m == NamesOf(Mine(types))
             x == RecNames(types)
  <2>1. types \in Seq(TypeSpecs)
    BY <1>2
  <2>2. DeclarsOf(item) = Declared(types) /\ Renewal(item) = Mine(types) \o Recs(types)
        /\ g = NamesOf(Declared(types)) \o x
    BY <1>2 DEF DeclarsOf, Renewal, Gives, RecNames
  <2> HIDE DEF types
  <2>3. Declared(types) \in Seq(Decls) /\ Mine(types) \o Recs(types) \in Seq(Decls)
    BY <2>1, DeclaredIs, MineIs
  <2>4. /\ d \in Seq(Names) /\ m \in Seq(Names) /\ x \in Seq(Names)
        /\ r = m \o x /\ g = d \o x
        /\ \A y : y \in ToSet(d) <=> y \in ToSet(m)
        /\ IsInjective(d) <=> IsInjective(m)
    BY <2>1, <2>2, BlockNames
  <2> HIDE DEF m, x, d, g, r
  <2>5. /\ IsInjective(d \o x) <=> /\ IsInjective(d) /\ IsInjective(x)
                                   /\ \A y : ~(y \in ToSet(d) /\ y \in ToSet(x))
        /\ \A y : y \in ToSet(d \o x) <=> y \in ToSet(d) \/ y \in ToSet(x)
    BY ONLY <2>4, ConcatInjective
  <2>6. /\ IsInjective(m \o x) <=> /\ IsInjective(m) /\ IsInjective(x)
                                   /\ \A y : ~(y \in ToSet(m) /\ y \in ToSet(x))
        /\ \A y : y \in ToSet(m \o x) <=> y \in ToSet(m) \/ y \in ToSet(x)
    BY ONLY <2>4, ConcatInjective
  <2>7. g \in Seq(Names) /\ r \in Seq(Names)
    BY ONLY <2>4
  <2>8. \A y : y \in ToSet(r) <=> y \in ToSet(g)
    BY ONLY <2>4, <2>5, <2>6
  <2>9. IsInjective(r) <=> IsInjective(g)
    BY ONLY <2>4, <2>5, <2>6
  <2>10. (\A y : y \in ToSet(d) => y \in ToSet(g)) /\ (IsInjective(g) => IsInjective(d))
    BY ONLY <2>4, <2>5
  <2>11. DeclarsOf(item) \in Seq(Decls) /\ Renewal(item) \in Seq(Decls)
    BY <2>2, <2>3
  <2>12. item.kind # "plain"
    BY <1>2
  <2>13. NamesAgree(item.kind, d, g, r)
    BY ONLY <2>4, <2>7, <2>8, <2>9, <2>10, <2>12 DEF NamesAgree
  <2> QED  BY <2>11, <2>13 DEF ItemNames, d, g, r
<1> QED  BY <1>1, <1>2, ItemKinds

-----------------------------------------------------------------------------
(* The tables of an export.                                                *)

DeclaredLists(f) == [k \in DOMAIN f |-> DeclarsOf(f[k])]
RenewedLists(f)  == [k \in DOMAIN f |-> Renewal(f[k])]
GivenLists(f)    == [k \in DOMAIN f |-> Gives(f[k])]

\* What the first k items declare, where the next one starts, and what replaces
\* the first k.
Declaring(f, k) == Tables(DeclaredLists(f))[k]
Start(f, k)     == Len(Declaring(f, k))
Renewing(f, k)  == Tables(RenewedLists(f))[k]

Lists(f, n) ==
  /\ n \in Nat /\ Len(f) = n /\ DOMAIN f = 1 .. n
  /\ \A k \in 1 .. n : f[k] \in Exportable /\ ItemNames(f[k])
  /\ DeclaredLists(f) \in Seq(Seq(Decls)) /\ Len(DeclaredLists(f)) = n
  /\ RenewedLists(f) \in Seq(Seq(Decls)) /\ Len(RenewedLists(f)) = n
  /\ GivenLists(f) \in Seq(Seq(Names)) /\ Len(GivenLists(f)) = n
  /\ \A k \in 1 .. n : /\ DeclaredLists(f)[k] = DeclarsOf(f[k])
                       /\ RenewedLists(f)[k] = Renewal(f[k])
                       /\ GivenLists(f)[k] = Gives(f[k])

LEMMA ListsAre ==
  ASSUME DeclarsAssumption, NEW f \in Seq(Exportable)
  PROVE  Lists(f, Len(f))
<1> DEFINE n == Len(f)
<1>1. n \in Nat /\ DOMAIN f = 1 .. n /\ \A k \in 1 .. n : f[k] \in Exportable
  BY SeqIs
<1>2. \A k \in 1 .. n : ItemNames(f[k])
  BY <1>1, ItemIs
<1> HIDE DEF n
<1>3. \A k \in 1 .. n : DeclarsOf(f[k]) \in Seq(Decls) /\ Renewal(f[k]) \in Seq(Decls) /\ Gives(f[k]) \in Seq(Names)
  BY <1>2 DEF ItemNames, NamesAgree
<1>4. DeclaredLists(f) \in Seq(Seq(Decls)) /\ Len(DeclaredLists(f)) = n
      /\ \A k \in 1 .. n : DeclaredLists(f)[k] = DeclarsOf(f[k])
  <2> DEFINE l == DeclaredLists(f)
  <2>1. l = [k \in 1 .. n |-> DeclarsOf(f[k])]
    BY <1>1 DEF DeclaredLists
  <2> HIDE DEF l
  <2>2. DOMAIN l = 1 .. n /\ l = [k \in 1 .. n |-> l[k]] /\ \A k \in 1 .. n : l[k] = DeclarsOf(f[k])
    BY ONLY <2>1
  <2>3. \A k \in 1 .. n : l[k] \in Seq(Decls)
    BY ONLY <1>3, <2>2
  <2>4. l \in Seq(Seq(Decls)) /\ Len(l) = n
    BY ONLY <1>1, <2>2, <2>3, IsSeq
  <2> QED  BY <2>2, <2>4 DEF l
<1>5. RenewedLists(f) \in Seq(Seq(Decls)) /\ Len(RenewedLists(f)) = n
      /\ \A k \in 1 .. n : RenewedLists(f)[k] = Renewal(f[k])
  <2> DEFINE l == RenewedLists(f)
  <2>1. l = [k \in 1 .. n |-> Renewal(f[k])]
    BY <1>1 DEF RenewedLists
  <2> HIDE DEF l
  <2>2. DOMAIN l = 1 .. n /\ l = [k \in 1 .. n |-> l[k]] /\ \A k \in 1 .. n : l[k] = Renewal(f[k])
    BY ONLY <2>1
  <2>3. \A k \in 1 .. n : l[k] \in Seq(Decls)
    BY ONLY <1>3, <2>2
  <2>4. l \in Seq(Seq(Decls)) /\ Len(l) = n
    BY ONLY <1>1, <2>2, <2>3, IsSeq
  <2> QED  BY <2>2, <2>4 DEF l
<1>6. GivenLists(f) \in Seq(Seq(Names)) /\ Len(GivenLists(f)) = n
      /\ \A k \in 1 .. n : GivenLists(f)[k] = Gives(f[k])
  <2> DEFINE l == GivenLists(f)
  <2>1. l = [k \in 1 .. n |-> Gives(f[k])]
    BY <1>1 DEF GivenLists
  <2> HIDE DEF l
  <2>2. DOMAIN l = 1 .. n /\ l = [k \in 1 .. n |-> l[k]] /\ \A k \in 1 .. n : l[k] = Gives(f[k])
    BY ONLY <2>1
  <2>3. \A k \in 1 .. n : l[k] \in Seq(Names)
    BY ONLY <1>3, <2>2
  <2>4. l \in Seq(Seq(Names)) /\ Len(l) = n
    BY ONLY <1>1, <2>2, <2>3, IsSeq
  <2> QED  BY <2>2, <2>4 DEF l
<1> QED  BY <1>1, <1>2, <1>4, <1>5, <1>6 DEF Lists, n

\* Each table continues the one before it.
Continues(f, n) ==
  /\ Declaring(f, 0) = <<>> /\ Start(f, 0) = 0 /\ Renewing(f, 0) = <<>>
  /\ \A k \in 0 .. n : /\ Declaring(f, k) \in Seq(Decls) /\ Start(f, k) \in Nat
                       /\ Renewing(f, k) \in Seq(Decls)
  /\ \A k \in 1 .. n : /\ Declaring(f, k) = Declaring(f, k - 1) \o DeclarsOf(f[k])
                       /\ DeclarsOf(f[k]) \in Seq(Decls) /\ Len(DeclarsOf(f[k])) \in Nat
                       /\ Start(f, k) = Start(f, k - 1) + Len(DeclarsOf(f[k]))
                       /\ Renewing(f, k) = Renewing(f, k - 1) \o Renewal(f[k])
                       /\ Renewal(f[k]) \in Seq(Decls)
  /\ \A a, b \in 0 .. n : a <= b => Start(f, a) <= Start(f, b)

LEMMA TablesContinue ==
  ASSUME NEW f, NEW n, Lists(f, n)
  PROVE  Continues(f, n)
<1> DEFINE ds == DeclaredLists(f)
           rs == RenewedLists(f)
<1>1. n \in Nat /\ \A k \in 1 .. n : DeclarsOf(f[k]) \in Seq(Decls) /\ Renewal(f[k]) \in Seq(Decls)
  BY DEF Lists, ItemNames
<1>2. ds \in Seq(Seq(Decls)) /\ Len(ds) = n /\ \A k \in 1 .. n : ds[k] = DeclarsOf(f[k])
  BY DEF Lists
<1>3. rs \in Seq(Seq(Decls)) /\ Len(rs) = n /\ \A k \in 1 .. n : rs[k] = Renewal(f[k])
  BY DEF Lists
<1> HIDE DEF ds, rs
<1>4. IsTables(Tables(ds), ds) /\ \A k \in 0 .. n : Tables(ds)[k] \in Seq(Decls)
  BY <1>2, TablesAre
<1>5. IsTables(Tables(rs), rs) /\ \A k \in 0 .. n : Tables(rs)[k] \in Seq(Decls)
  BY <1>3, TablesAre
<1>6. \A k \in 0 .. n : Declaring(f, k) = Tables(ds)[k] /\ Renewing(f, k) = Tables(rs)[k]
  BY DEF Declaring, Renewing, ds, rs
<1>7. 0 \in 0 .. n /\ \A k \in 1 .. n : k - 1 \in 0 .. n /\ k \in 0 .. n
  BY <1>1
<1>8. /\ Declaring(f, 0) = <<>> /\ Renewing(f, 0) = <<>>
      /\ \A k \in 0 .. n : Declaring(f, k) \in Seq(Decls) /\ Renewing(f, k) \in Seq(Decls)
  BY <1>4, <1>5, <1>6, <1>7 DEF IsTables
<1>9. \A k \in 0 .. n : Start(f, k) = Len(Declaring(f, k)) /\ Start(f, k) \in Nat
  BY <1>8 DEF Start
<1>10. Start(f, 0) = 0
  BY <1>7, <1>8, <1>9
<1>11. ASSUME NEW k \in 1 .. n
       PROVE  /\ Declaring(f, k) = Declaring(f, k - 1) \o DeclarsOf(f[k])
              /\ DeclarsOf(f[k]) \in Seq(Decls) /\ Len(DeclarsOf(f[k])) \in Nat
              /\ Start(f, k) = Start(f, k - 1) + Len(DeclarsOf(f[k]))
              /\ Renewing(f, k) = Renewing(f, k - 1) \o Renewal(f[k])
              /\ Renewal(f[k]) \in Seq(Decls)
  <2>1. Tables(ds)[k] = Tables(ds)[k - 1] \o ds[k]
    BY <1>2, <1>4 DEF IsTables
  <2>2. Tables(rs)[k] = Tables(rs)[k - 1] \o rs[k]
    BY <1>3, <1>5 DEF IsTables
  <2>3. Declaring(f, k) = Declaring(f, k - 1) \o DeclarsOf(f[k])
    BY ONLY <1>2, <1>6, <1>7, <2>1, k \in 1 .. n
  <2>4. Renewing(f, k) = Renewing(f, k - 1) \o Renewal(f[k])
    BY ONLY <1>3, <1>6, <1>7, <2>2, k \in 1 .. n
  <2>5. DeclarsOf(f[k]) \in Seq(Decls) /\ Renewal(f[k]) \in Seq(Decls) /\ Declaring(f, k - 1) \in Seq(Decls)
    BY <1>1, <1>7, <1>8
  <2>6. Len(Declaring(f, k)) = Len(Declaring(f, k - 1)) + Len(DeclarsOf(f[k])) /\ Len(DeclarsOf(f[k])) \in Nat
    BY ONLY <2>3, <2>5
  <2>7. Start(f, k) = Start(f, k - 1) + Len(DeclarsOf(f[k]))
    BY ONLY <1>7, <1>9, <2>6, k \in 1 .. n
  <2> QED  BY <2>3, <2>4, <2>5, <2>6, <2>7
<1>12. ASSUME NEW a \in 0 .. n, NEW b \in 0 .. n, a <= b PROVE Start(f, a) <= Start(f, b)
  <2>1. Len(Tables(ds)[a]) <= Len(Tables(ds)[b])
    BY <1>2, <1>12, TablesGrow
  <2> QED  BY <1>6, <1>9, <2>1
<1> QED  BY <1>8, <1>9, <1>10, <1>11, <1>12 DEF Continues

\* What item k declares stands from its start on.
LEMMA DeclaringPlace ==
  ASSUME NEW f, NEW n, Lists(f, n), NEW k \in 1 .. n, NEW b \in k .. n
  PROVE  /\ Start(f, k) <= Start(f, b)
         /\ \A j \in 1 .. Len(DeclarsOf(f[k])) : Declaring(f, b)[Start(f, k - 1) + j] = DeclarsOf(f[k])[j]
<1> DEFINE ds == DeclaredLists(f)
<1>1. n \in Nat /\ ds \in Seq(Seq(Decls)) /\ Len(ds) = n /\ \A i \in 1 .. n : ds[i] = DeclarsOf(f[i])
  BY DEF Lists
<1>2. /\ Start(f, k - 1) = Len(Tables(ds)[k - 1]) /\ Start(f, b) = Len(Tables(ds)[b])
      /\ Declaring(f, b) = Tables(ds)[b] /\ Start(f, k) = Len(Tables(ds)[k])
  BY DEF Start, Declaring
<1> HIDE DEF ds
<1>3. /\ Len(Tables(ds)[k]) = Len(Tables(ds)[k - 1]) + Len(ds[k])
      /\ Len(Tables(ds)[k - 1]) + Len(ds[k]) <= Len(Tables(ds)[b])
      /\ \A j \in 1 .. Len(ds[k]) : Tables(ds)[b][Len(Tables(ds)[k - 1]) + j] = ds[k][j]
  <2>1. k \in 1 .. Len(ds) /\ b \in k .. Len(ds)
    BY <1>1
  <2> QED  BY <1>1, <2>1, TablesPlace
<1>4. ds[k] = DeclarsOf(f[k])
  BY <1>1
<1> QED  BY ONLY <1>2, <1>3, <1>4

\* Where an item starts that is not the end, the next item that declares anything
\* starts.
LEMMA NextItem ==
  ASSUME NEW f, NEW n, Lists(f, n), NEW k \in 0 .. n, Start(f, k) < Start(f, n)
  PROVE  \E m \in 1 .. n : Start(f, m - 1) = Start(f, k) /\ Start(f, k) < Start(f, m) /\ k < m
<1> DEFINE T == {m \in Nat : m <= n /\ Start(f, k) < Start(f, m)}
<1>1. Continues(f, n) /\ n \in Nat
  BY TablesContinue DEF Lists
<1>2. T \in SUBSET Nat /\ n \in T
  BY <1>1
<1>3. PICK m \in T : \A l \in T : m <= l
  <2> HIDE DEF T
  <2> QED  BY <1>2, LeastNat
<1>4. m \in Nat /\ m <= n /\ Start(f, k) < Start(f, m)
  OBVIOUS
<1>5. k < m
  <2>1. ASSUME m <= k PROVE FALSE
    <3>1. Start(f, m) <= Start(f, k) /\ Start(f, m) \in Nat /\ Start(f, k) \in Nat
      BY <1>1, <1>4, <2>1 DEF Continues
    <3> QED  BY <1>4, <3>1
  <2> QED  BY <1>4, <2>1
<1>6. m \in 1 .. n /\ m - 1 \in 0 .. n /\ m - 1 \in Nat /\ k <= m - 1 /\ m - 1 <= n /\ ~(m <= m - 1)
  BY <1>1, <1>4, <1>5
<1>7. m - 1 \notin T
  <2> HIDE DEF T
  <2> QED  BY <1>3, <1>6
<1>8. Start(f, k) <= Start(f, m - 1) /\ Start(f, k) \in Nat /\ Start(f, m - 1) \in Nat
  BY <1>1, <1>6 DEF Continues
<1>9. Start(f, m - 1) = Start(f, k)
  BY <1>6, <1>7, <1>8
<1> QED  BY <1>4, <1>5, <1>6, <1>9

\* What ends where item m starts is before it; what ends where it ends and is
\* after it declares nothing.
LEMMA EndsBefore ==
  ASSUME NEW f, NEW n, Lists(f, n), NEW m \in 1 .. n, Start(f, m - 1) < Start(f, m), NEW j \in 1 .. n
  PROVE  /\ Start(f, j) <= Start(f, m - 1) <=> j <= m - 1
         /\ Start(f, j) <= Start(f, m) => j <= m \/ Start(f, j - 1) = Start(f, j)
<1>1. Continues(f, n) /\ n \in Nat
  BY TablesContinue DEF Lists
<1>2. /\ Start(f, j) \in Nat /\ Start(f, m) \in Nat /\ Start(f, m - 1) \in Nat /\ Start(f, j - 1) \in Nat
      /\ (j <= m - 1 => Start(f, j) <= Start(f, m - 1))
      /\ (m <= j => Start(f, m) <= Start(f, j))
      /\ (m <= j - 1 => Start(f, m) <= Start(f, j - 1))
      /\ Start(f, j - 1) <= Start(f, j)
  <2>1. j \in 0 .. n /\ m \in 0 .. n /\ m - 1 \in 0 .. n /\ j - 1 \in 0 .. n /\ j - 1 <= j
    BY <1>1
  <2> QED  BY <1>1, <2>1 DEF Continues
<1> DEFINE a == Start(f, j)
           b == Start(f, m)
           c == Start(f, m - 1)
           d == Start(f, j - 1)
<1>3. /\ a \in Nat /\ b \in Nat /\ c \in Nat /\ d \in Nat /\ c < b
      /\ (j <= m - 1 => a <= c) /\ (m <= j => b <= a) /\ (m <= j - 1 => b <= d) /\ d <= a
  BY <1>2
<1>4. j \in Nat /\ m \in Nat
  BY <1>1
<1> HIDE DEF a, b, c, d
<1>5. a <= c <=> j <= m - 1
  BY ONLY <1>3, <1>4
<1>6. a <= b => j <= m \/ d = a
  BY ONLY <1>3, <1>4
<1> QED  BY ONLY <1>5, <1>6 DEF a, b, c, d

\* An item that declares nothing is an empty block: it refers to nothing, gives
\* nothing and nothing replaces it.
LEMMA EmptyItem ==
  ASSUME NEW item \in Exportable, Len(DeclarsOf(item)) = 0, DeclarsAssumption
  PROVE  /\ item.kind = "block" /\ item.types = <<>> /\ Renewal(item) = <<>>
         /\ \A before : RefersOnlyTo(item, before)
<1>1. item.kind = "block" /\ item.types \in Seq(TypeSpecs)
  <2>1. Len(<<item>>) # 0
    OBVIOUS
  <2> QED  BY <2>1, ItemKinds DEF DeclarsOf
<1>2. item.types = <<>>
  <2> DEFINE types == item.types
  <2>1. /\ DeclarsOf(item) = Heads(types) \o FlattenSeq(CtorLists(types))
        /\ Heads(types) \in Seq(Decls) /\ Len(Heads(types)) = Len(types) /\ FlattenSeq(CtorLists(types)) \in Seq(Decls)
    BY <1>1, DeclaredIs DEF DeclarsOf
  <2> HIDE DEF types
  <2>2. Len(types) = 0
    <3> DEFINE h == Heads(types)
               c == FlattenSeq(CtorLists(types))
    <3>1. h \in Seq(Decls) /\ c \in Seq(Decls) /\ Len(h \o c) = 0 /\ Len(h) = Len(types)
      BY <2>1
    <3> HIDE DEF h, c
    <3> QED  BY ONLY <3>1
  <2> QED  BY <1>1, <2>2 DEF types
<1>3. Renewal(item) = <<>>
  <2>1. Mine(<<>>) = <<>>
    BY DEF Mine, Groups, FlattenSeq
  <2>2. Recs(<<>>) = <<>>
    BY DEF Recs
  <2> QED  BY <1>1, <1>2, <2>1, <2>2 DEF Renewal
<1>4. \A before : RefersOnlyTo(item, before)
  BY <1>1, <1>2 DEF RefersOnlyTo
<1> QED  BY <1>1, <1>2, <1>3, <1>4

\* Nothing replaces what declares nothing.
LEMMA RenewingStays ==
  ASSUME NEW f, NEW n, Lists(f, n), DeclarsAssumption,
         NEW a \in 0 .. n, NEW b \in 0 .. n, a <= b, Start(f, a) = Start(f, b)
  PROVE  Renewing(f, a) = Renewing(f, b)
<1> DEFINE T == {d \in 0 .. b - a : Renewing(f, a + d) = Renewing(f, a)}
<1>1. Continues(f, n) /\ n \in Nat /\ \A k \in 1 .. n : f[k] \in Exportable
  BY TablesContinue DEF Lists
<1>2. b - a \in Nat /\ 0 \in 0 .. b - a /\ a + 0 = a
  BY <1>1
<1>3. 0 \in T
  BY <1>2
<1>4. ASSUME NEW d \in 0 .. b - a - 1, d \in T PROVE d + 1 \in T
  <2> DEFINE k == a + (d + 1)
  <2>1. k \in 1 .. n /\ k - 1 = a + d /\ k - 1 \in 0 .. n /\ k \in 0 .. n /\ k <= b /\ a <= k - 1 /\ d + 1 \in 0 .. b - a
    BY <1>1, <1>2
  <2> HIDE DEF k
  <2>2. Start(f, a) <= Start(f, k - 1) /\ Start(f, k) <= Start(f, b)
        /\ Start(f, k) = Start(f, k - 1) + Len(DeclarsOf(f[k])) /\ Len(DeclarsOf(f[k])) \in Nat
        /\ Start(f, k) \in Nat /\ Start(f, k - 1) \in Nat /\ Start(f, a) \in Nat
    BY <1>1, <2>1 DEF Continues
  <2>3. Len(DeclarsOf(f[k])) = 0
    <3> DEFINE l == Len(DeclarsOf(f[k]))
               x == Start(f, a)
               y == Start(f, k - 1)
               z == Start(f, k)
    <3>1. x <= y /\ z <= x /\ z = y + l /\ l \in Nat /\ x \in Nat /\ y \in Nat /\ z \in Nat
      BY <2>2
    <3> HIDE DEF l, x, y, z
    <3>2. l = 0
      BY ONLY <3>1
    <3> QED  BY <3>2 DEF l
  <2>4. Renewal(f[k]) = <<>>
    BY <1>1, <2>1, <2>3, EmptyItem
  <2>5. Renewing(f, k) = Renewing(f, k - 1) \o <<>> /\ Renewing(f, k - 1) \in Seq(Decls)
    BY <1>1, <2>1, <2>4 DEF Continues
  <2>6. Renewing(f, k) = Renewing(f, k - 1)
    BY ONLY <2>5
  <2>7. Renewing(f, a + d) = Renewing(f, a)
    BY <1>4
  <2>8. Renewing(f, a + (d + 1)) = Renewing(f, a)
    BY <2>1, <2>6, <2>7 DEF k
  <2> QED  BY <2>1, <2>8
<1> HIDE DEF T
<1>5. 0 .. b - a \subseteq T
  BY <1>2, <1>3, <1>4, SetInduction
<1>6. b - a \in T /\ a + (b - a) = b
  BY <1>1, <1>2, <1>5
<1> QED  BY <1>6 DEF T

\* The names of the first k items.
LEMMA NamesBefore ==
  ASSUME NEW f, NEW n, Lists(f, n), NEW k \in 0 .. n, NEW x
  PROVE  /\ (\E i \in 1 .. Start(f, k) : Declaring(f, k)[i].name = x)
              <=> \E j \in 1 .. k : x \in ToSet(NamesOf(DeclarsOf(f[j])))
         /\ (\E i \in 1 .. Len(Renewing(f, k)) : Renewing(f, k)[i].name = x)
              <=> \E j \in 1 .. k : x \in ToSet(Gives(f[j]))
<1> DEFINE ds == DeclaredLists(f)
           rs == RenewedLists(f)
<1>1. n \in Nat /\ \A j \in 1 .. n : ItemNames(f[j])
  BY DEF Lists
<1>2. ds \in Seq(Seq(Decls)) /\ Len(ds) = n /\ \A j \in 1 .. n : ds[j] = DeclarsOf(f[j])
  BY DEF Lists
<1>3. rs \in Seq(Seq(Decls)) /\ Len(rs) = n /\ \A j \in 1 .. n : rs[j] = Renewal(f[j])
  BY DEF Lists
<1>4. /\ Declaring(f, k) = Tables(ds)[k] /\ Start(f, k) = Len(Tables(ds)[k])
      /\ Renewing(f, k) = Tables(rs)[k]
  BY DEF Declaring, Start, Renewing
<1> HIDE DEF ds, rs
<1>5. Tables(ds)[k] \in Seq(Decls) /\ Tables(rs)[k] \in Seq(Decls)
  BY <1>2, <1>3, TablesAre
<1>6. \A j \in 1 .. k : j \in 1 .. n
  BY <1>1
<1>7. x \in ToSet(NamesOf(Tables(ds)[k])) <=> \E j \in 1 .. k : x \in ToSet(NamesOf(DeclarsOf(f[j])))
  <2>1. /\ NameLists(ds) \in Seq(Seq(Names)) /\ Len(NameLists(ds)) = n
        /\ \A j \in 1 .. n : NameLists(ds)[j] = NamesOf(ds[j])
        /\ NamesOf(Tables(ds)[k]) = Tables(NameLists(ds))[k]
    BY <1>2, DeclNames, NamesTables
  <2>2. x \in ToSet(Tables(NameLists(ds))[k]) <=> \E j \in 1 .. k : x \in ToSet(NameLists(ds)[j])
    BY <2>1, TablesRange
  <2>3. \A j \in 1 .. k : NameLists(ds)[j] = NamesOf(DeclarsOf(f[j]))
    BY <1>2, <1>6, <2>1
  <2> QED  BY ONLY <2>1, <2>2, <2>3
<1>8. x \in ToSet(NamesOf(Tables(rs)[k])) <=> \E j \in 1 .. k : x \in ToSet(Gives(f[j]))
  <2>1. /\ NameLists(rs) \in Seq(Seq(Names)) /\ Len(NameLists(rs)) = n
        /\ \A j \in 1 .. n : NameLists(rs)[j] = NamesOf(rs[j])
        /\ NamesOf(Tables(rs)[k]) = Tables(NameLists(rs))[k]
    BY <1>3, DeclNames, NamesTables
  <2>2. x \in ToSet(Tables(NameLists(rs))[k]) <=> \E j \in 1 .. k : x \in ToSet(NameLists(rs)[j])
    BY <2>1, TablesRange
  <2>3. \A j \in 1 .. k : x \in ToSet(NameLists(rs)[j]) <=> x \in ToSet(Gives(f[j]))
    <3>1. \A j \in 1 .. k : NameLists(rs)[j] = NamesOf(Renewal(f[j]))
      BY <1>3, <1>6, <2>1
    <3>2. \A j \in 1 .. k : x \in ToSet(NamesOf(Renewal(f[j]))) <=> x \in ToSet(Gives(f[j]))
      BY <1>1, <1>6 DEF ItemNames, NamesAgree
    <3> QED  BY ONLY <3>1, <3>2
  <2> QED  BY ONLY <2>1, <2>2, <2>3
<1>9. x \in ToSet(NamesOf(Tables(ds)[k])) <=> \E i \in 1 .. Len(Tables(ds)[k]) : Tables(ds)[k][i].name = x
  BY <1>5, DeclNames, NamesRange
<1>10. x \in ToSet(NamesOf(Tables(rs)[k])) <=> \E i \in 1 .. Len(Tables(rs)[k]) : Tables(rs)[k][i].name = x
  BY <1>5, DeclNames, NamesRange
<1> QED  BY ONLY <1>4, <1>7, <1>8, <1>9, <1>10

\* A name is given twice exactly if the table of what replaces the items has it
\* twice, and if the table of what they declare has.
GivenOnce(f) == IsInjective(FlattenSeq([i \in DOMAIN f |-> Gives(f[i])]))

LEMMA UniqueTables ==
  ASSUME NEW f, NEW n, Lists(f, n)
  PROVE  /\ GivenOnce(f) <=> Unique(Renewing(f, n))
         /\ GivenOnce(f) => \A k \in 0 .. n : Unique(Renewing(f, k)) /\ Unique(Declaring(f, k))
<1> DEFINE ds == DeclaredLists(f)
           rs == RenewedLists(f)
           gs == GivenLists(f)
           dn == NameLists(ds)
           rn == NameLists(rs)
<1>1. n \in Nat /\ n \in 0 .. n /\ \A j \in 1 .. n : ItemNames(f[j])
  BY DEF Lists
<1>2. ds \in Seq(Seq(Decls)) /\ Len(ds) = n /\ \A j \in 1 .. n : ds[j] = DeclarsOf(f[j])
  BY DEF Lists
<1>3. rs \in Seq(Seq(Decls)) /\ Len(rs) = n /\ \A j \in 1 .. n : rs[j] = Renewal(f[j])
  BY DEF Lists
<1>4. gs \in Seq(Seq(Names)) /\ Len(gs) = n /\ \A j \in 1 .. n : gs[j] = Gives(f[j])
  BY DEF Lists
<1>5. \A k \in 0 .. n : Declaring(f, k) = Tables(ds)[k] /\ Renewing(f, k) = Tables(rs)[k]
  BY DEF Declaring, Renewing
<1>6. GivenOnce(f) <=> IsInjective(FlattenSeq(gs))
  BY DEF GivenOnce, GivenLists
<1> HIDE DEF ds, rs, gs
<1>7. /\ dn \in Seq(Seq(Names)) /\ Len(dn) = n /\ \A j \in 1 .. n : dn[j] = NamesOf(ds[j])
      /\ \A k \in 0 .. n : NamesOf(Tables(ds)[k]) = Tables(dn)[k]
  BY <1>2, DeclNames, NamesTables
<1>8. /\ rn \in Seq(Seq(Names)) /\ Len(rn) = n /\ \A j \in 1 .. n : rn[j] = NamesOf(rs[j])
      /\ \A k \in 0 .. n : NamesOf(Tables(rs)[k]) = Tables(rn)[k]
  BY <1>3, DeclNames, NamesTables
<1> HIDE DEF dn, rn
<1>9. \A k \in 0 .. n : Unique(Declaring(f, k)) <=> IsInjective(Tables(dn)[k])
  <2>1. \A k \in 0 .. n : Tables(ds)[k] \in Seq(Decls)
    BY <1>2, TablesAre
  <2>2. \A k \in 0 .. n : Unique(Tables(ds)[k]) <=> IsInjective(NamesOf(Tables(ds)[k]))
    BY <2>1, DeclNames, UniqueNames
  <2> QED  BY ONLY <1>5, <1>7, <2>2
<1>10. \A k \in 0 .. n : Unique(Renewing(f, k)) <=> IsInjective(Tables(rn)[k])
  <2>1. \A k \in 0 .. n : Tables(rs)[k] \in Seq(Decls)
    BY <1>3, TablesAre
  <2>2. \A k \in 0 .. n : Unique(Tables(rs)[k]) <=> IsInjective(NamesOf(Tables(rs)[k]))
    BY <2>1, DeclNames, UniqueNames
  <2> QED  BY ONLY <1>5, <1>8, <2>2
<1>11. GivenOnce(f) <=> Apart(gs, n)
  <2>1. FlattenSeq(gs) = Tables(gs)[n]
    BY <1>4, FlatTables
  <2>2. IsInjective(Tables(gs)[n]) <=> Apart(gs, n)
    BY <1>1, <1>4, TablesInjective
  <2> QED  BY ONLY <1>6, <2>1, <2>2
<1>12. Apart(gs, n) <=> Apart(rn, n)
  <2>1. \A j \in 1 .. n : \A x : x \in ToSet(rn[j]) <=> x \in ToSet(gs[j])
    BY <1>1, <1>3, <1>4, <1>8 DEF ItemNames, NamesAgree
  <2>2. \A j \in 1 .. n : IsInjective(rn[j]) <=> IsInjective(gs[j])
    BY <1>1, <1>3, <1>4, <1>8 DEF ItemNames, NamesAgree
  <2> QED  BY ONLY <2>1, <2>2 DEF Apart
<1>13. Apart(gs, n) => Apart(dn, n)
  <2>1. \A j \in 1 .. n : \A x : x \in ToSet(dn[j]) => x \in ToSet(gs[j])
    BY <1>1, <1>2, <1>4, <1>7 DEF ItemNames, NamesAgree
  <2>2. \A j \in 1 .. n : IsInjective(gs[j]) => IsInjective(dn[j])
    BY <1>1, <1>2, <1>4, <1>7 DEF ItemNames, NamesAgree
  <2> QED  BY ONLY <2>1, <2>2 DEF Apart
<1>14. IsInjective(Tables(rn)[n]) <=> Apart(rn, n)
  BY <1>1, <1>8, TablesInjective
<1>15. IsInjective(Tables(dn)[n]) <=> Apart(dn, n)
  BY <1>1, <1>7, TablesInjective
<1>16. ASSUME GivenOnce(f), NEW k \in 0 .. n PROVE Unique(Renewing(f, k)) /\ Unique(Declaring(f, k))
  <2>1. IsInjective(Tables(rn)[n]) /\ IsInjective(Tables(dn)[n])
    BY <1>11, <1>12, <1>13, <1>14, <1>15, <1>16
  <2>2. IsInjective(Tables(rn)[k])
    BY <1>8, <2>1, TablesInjectiveBefore
  <2>3. IsInjective(Tables(dn)[k])
    BY <1>7, <2>1, TablesInjectiveBefore
  <2> QED  BY <1>9, <1>10, <2>2, <2>3
<1> QED  BY <1>1, <1>10, <1>11, <1>12, <1>14, <1>16

-----------------------------------------------------------------------------
(* The invariant.                                                          *)

Items == Len(file)

\* The table has each name once and decl_of has its index.
TableIs ==
  /\ declars \in Seq(Decls) /\ Unique(declars)
  /\ DOMAIN decl_of = {declars[i].name : i \in 1 .. Len(declars)}
  /\ \A i \in 1 .. Len(declars) : decl_of[declars[i].name] = i - 1

\* The blocks among the first k items are where block_sizes has them.
SizesIn(f, k, sizes, ns) ==
  /\ DOMAIN sizes \subseteq ns
  /\ \A j \in 1 .. k : f[j].kind = "block" =>
       \A i \in 1 .. Len(f[j].types) :
         /\ f[j].types[i].name \in DOMAIN sizes
         /\ sizes[f[j].types[i].name] = <<Start(f, j - 1), Len(DeclarsOf(f[j]))>>
Sizes(k) == SizesIn(file, k, block_sizes, DOMAIN decl_of)

\* The walk over the table is where an item starts.
AtItem == \E k \in 0 .. Items : at = Start(file, k)

\* The extension has what is derived of the items passed, and nothing else.
ExtensionIn(f, b, ext) ==
  /\ \A n : n \in DOMAIN ext <=>
       \E j \in 1 .. Len(f) : Start(f, j) <= b /\ f[j].kind # "plain" /\ n \in ToSet(Gives(f[j]))
  /\ \A n \in DOMAIN ext : ext[n] \in Decls /\ ext[n].derived = TRUE

\* What the items before k give, and that derived items refer to what they may.
GivenIn(f, k) == UNION {ToSet(Gives(f[j])) : j \in 1 .. k - 1}
RefersIn(f, b) ==
  \A j \in 1 .. Len(f) : Start(f, j) <= b /\ f[j].kind # "plain" => RefersOnlyTo(f[j], GivenIn(f, j))

\* The blocks that wait are the derived items that the walk has passed, or that
\* are still ahead of it, in order.
Derives(f, j) == f[j].kind # "plain" /\ Start(f, j - 1) < Start(f, j)
BlockOf(f, j) ==
  [start |-> Start(f, j - 1), size |-> Len(DeclarsOf(f[j])), declars |-> Renewal(f[j])]
Waiting      == Seq([start : Nat, size : Nat, declars : Seq(Decls)])
Passed(f, b) == {j \in 1 .. Len(f) : Derives(f, j) /\ Start(f, j) <= b}
Ahead(f, b)  == {j \in 1 .. Len(f) : Derives(f, j) /\ ~(Start(f, j) <= b)}
Wait(f, bs, which) ==
  /\ bs \in Waiting
  /\ \A i \in 1 .. Len(bs) : \E j \in which : bs[i] = BlockOf(f, j)
  /\ \A i, j \in 1 .. Len(bs) : i < j => bs[i].start < bs[j].start
  /\ \A j \in which : \E i \in 1 .. Len(bs) : bs[i] = BlockOf(f, j)

Parsing ==
  /\ at \in 0 .. Items /\ declars = Declaring(file, at) /\ Len(declars) <= NO_DECL
  /\ TableIs /\ Sizes(at) /\ DOMAIN env_ext = {} /\ blocks = <<>> /\ new_declars = <<>>

DerivingInv ==
  /\ declars = Declaring(file, Items) /\ Len(declars) <= NO_DECL
  /\ TableIs /\ Sizes(Items) /\ AtItem
  /\ ExtensionIn(file, at, env_ext) /\ RefersIn(file, at)
  /\ Wait(file, blocks, Passed(file, at)) /\ new_declars = <<>>

Replacing ==
  /\ declars = Declaring(file, Items) /\ AtItem
  /\ \A k \in 0 .. Items : at = Start(file, k) => new_declars = Renewing(file, k)
  /\ Unique(new_declars) /\ RefersIn(file, Start(file, Items)) /\ Wait(file, blocks, Ahead(file, at))

Checking ==
  /\ declars = Renewing(file, Items) /\ new_declars = declars /\ Len(declars) <= NO_DECL + 1
  /\ TableIs /\ DOMAIN env_ext = {} /\ RefersIn(file, Start(file, Items))
  /\ checked \subseteq Int
  /\ \A i \in 1 .. Len(declars) : declars[i].kind # "plain" => i - 1 \in checked
  /\ \A k \in 1 .. Items : file[k].kind = "plain" /\ Len(Renewing(file, k - 1)) \in checked =>
       file[k].refs \subseteq GivenIn(file, k)
  /\ reached \in [Threads -> Int]
  /\ DOMAIN known = Threads
  /\ \A t \in Threads : \A n \in known[t] : n \in DOMAIN decl_of /\ decl_of[n] < reached[t]

DInv ==
  /\ file \in Files
  /\ phase \in {"parse", "derive", "replace", "check", "done"}
  /\ phase = "parse" => Parsing
  /\ phase = "derive" => DerivingInv
  /\ phase = "replace" => Replacing
  /\ phase = "check" => Checking
  /\ phase \in {"parse", "derive", "replace"} =>
       reached = [t \in Threads |-> -1] /\ known = [t \in Threads |-> {}]
  /\ phase # "done" => verdict = "none"
  /\ AcceptsExactly

LEMMA FileIs ==
  ASSUME DeclarsAssumption, file \in Files
  PROVE  Lists(file, Items) /\ Continues(file, Items) /\ Items \in Nat
<1>1. file \in Seq(Exportable)
  BY DEF DeclarsAssumption
<1>2. Lists(file, Items)
  BY <1>1, ListsAre DEF Items
<1>3. Continues(file, Items)
  BY <1>2, TablesContinue
<1> QED  BY <1>2, <1>3 DEF Lists

LEMMA NumberedIs ==
  ASSUME NEW ds \in Seq(Decls), Unique(ds)
  PROVE  /\ DOMAIN Numbered(ds) = {ds[i].name : i \in 1 .. Len(ds)}
         /\ \A i \in 1 .. Len(ds) : Numbered(ds)[ds[i].name] = i - 1
<1>1. DOMAIN ds = 1 .. Len(ds)
  OBVIOUS
<1>2. DOMAIN Numbered(ds) = {ds[i].name : i \in 1 .. Len(ds)}
  BY <1>1 DEF Numbered
<1>3. ASSUME NEW i \in 1 .. Len(ds) PROVE Numbered(ds)[ds[i].name] = i - 1
  <2>1. Numbered(ds)[ds[i].name] = (CHOOSE j \in 1 .. Len(ds) : ds[j].name = ds[i].name) - 1
    BY <1>1 DEF Numbered
  <2>2. \A j \in 1 .. Len(ds) : ds[j].name = ds[i].name => j = i
    BY <1>1 DEF Unique
  <2>3. (CHOOSE j \in 1 .. Len(ds) : ds[j].name = ds[i].name) = i
    BY <2>2
  <2> QED  BY <2>1, <2>3
<1> QED  BY <1>2, <1>3

LEMMA InitInv == DeclarsAssumption /\ DeclarsInit => DInv
<1> SUFFICES ASSUME DeclarsAssumption, DeclarsInit PROVE DInv
  OBVIOUS
<1>1. file \in Files /\ phase = "parse" /\ at = 0 /\ declars = <<>> /\ decl_of = <<>> /\ block_sizes = <<>>
      /\ env_ext = <<>> /\ blocks = <<>> /\ new_declars = <<>> /\ verdict = "none"
      /\ reached = [t \in Threads |-> -1] /\ known = [t \in Threads |-> {}]
  BY DEF DeclarsInit
<1>2. Continues(file, Items) /\ Items \in Nat
  BY <1>1, FileIs
<1>3. declars = Declaring(file, at) /\ at \in 0 .. Items /\ Len(declars) <= NO_DECL
  BY <1>1, <1>2 DEF Continues, DeclarsAssumption
<1>4. TableIs
  BY <1>1 DEF TableIs, Unique
<1>5. Sizes(at) /\ DOMAIN env_ext = {}
  BY <1>1 DEF Sizes, SizesIn
<1>6. Parsing
  BY <1>1, <1>3, <1>4, <1>5 DEF Parsing
<1> QED  BY <1>1, <1>6 DEF DInv, AcceptsExactly

LEMMA GivenIs ==
  ASSUME NEW f, NEW k, NEW x
  PROVE  x \in GivenIn(f, k) <=> \E j \in 1 .. k - 1 : x \in ToSet(Gives(f[j]))
BY DEF GivenIn

\* Where a block has its types and constructors.
LEMMA BlockPlaces ==
  ASSUME DeclarsAssumption, NEW types \in Seq(TypeSpecs)
  PROVE  /\ Len(types) <= Len(Declared(types)) /\ Len(Declared(types)) \in Nat
         /\ \A i \in 1 .. Len(types) : Declared(types)[i] = TypeOf(types, i)
         /\ \A i \in 1 .. Len(types) : \A j \in 1 .. Len(types[i].ctors) :
              \E p \in 1 .. Len(Declared(types)) : Declared(types)[p] = CtorOf(types[i].ctors[j])
         /\ Len(types) = 0 => Len(Declared(types)) = 0
<1> DEFINE n == Len(types)
           h == Heads(types)
           cl == CtorLists(types)
           c == FlattenSeq(cl)
<1>1. /\ Declared(types) = h \o c /\ h \in Seq(Decls) /\ Len(h) = n
      /\ \A i \in 1 .. n : h[i] = TypeOf(types, i)
      /\ cl \in Seq(Seq(Decls)) /\ Len(cl) = n /\ c = Tables(cl)[n] /\ c \in Seq(Decls)
      /\ \A i \in 1 .. n : cl[i] = Ctors(types[i].ctors)
  BY DeclaredIs
<1>2. n \in Nat /\ \A i \in 1 .. n : types[i].ctors \in Seq(CtorSpecs)
  BY BlockParts DEF BlockIs
<1> HIDE DEF n, h, cl, c
<1>3. /\ Len(h \o c) = Len(h) + Len(c) /\ Len(c) \in Nat
      /\ \A i \in 1 .. Len(h) : (h \o c)[i] = h[i]
      /\ \A i \in 1 .. Len(c) : (h \o c)[Len(h) + i] = c[i]
  BY <1>1, Concat
<1>4. ASSUME NEW i \in 1 .. n, NEW j \in 1 .. Len(types[i].ctors)
      PROVE  \E p \in 1 .. Len(h \o c) : (h \o c)[p] = CtorOf(types[i].ctors[j])
  <2>1. Len(Ctors(types[i].ctors)) = Len(types[i].ctors) /\ Ctors(types[i].ctors)[j] = CtorOf(types[i].ctors[j])
    BY <1>2, CtorsAre
  <2>2. Len(cl[i]) = Len(types[i].ctors) /\ cl[i][j] = CtorOf(types[i].ctors[j])
    BY <1>1, <2>1
  <2>3. i \in 1 .. Len(cl) /\ n \in i .. Len(cl)
    BY <1>1, <1>2
  <2> DEFINE a == Len(Tables(cl)[i - 1])
  <2>4. /\ a \in Nat /\ a + Len(cl[i]) <= Len(Tables(cl)[n]) /\ Len(cl[i]) \in Nat
        /\ \A l \in 1 .. Len(cl[i]) : Tables(cl)[n][a + l] = cl[i][l]
    BY <1>1, <2>3, TablesPlace
  <2> HIDE DEF a
  <2>5. a + j \in 1 .. Len(c) /\ c[a + j] = CtorOf(types[i].ctors[j])
    <3>1. j \in 1 .. Len(cl[i]) /\ a + Len(cl[i]) <= Len(c) /\ c[a + j] = cl[i][j]
      BY <1>1, <2>2, <2>4
    <3> QED  BY <1>3, <2>2, <2>4, <3>1
  <2>6. (h \o c)[Len(h) + (a + j)] = CtorOf(types[i].ctors[j]) /\ Len(h) + (a + j) \in 1 .. Len(h \o c)
    <3>1. (h \o c)[Len(h) + (a + j)] = c[a + j]
      BY <1>3, <2>5
    <3>2. Len(h) + (a + j) \in 1 .. Len(h \o c)
      BY ONLY <1>1, <1>2, <1>3, <2>5
    <3> QED  BY <2>5, <3>1, <3>2
  <2> QED  BY <2>6
<1>5. ASSUME n = 0 PROVE Len(h \o c) = 0
  <2>1. c = <<>>
    BY <1>1, <1>5, TablesAre DEF IsTables
  <2> QED  BY <1>1, <1>3, <1>5, <2>1
<1>6. n <= Len(h \o c) /\ Len(h \o c) \in Nat /\ \A i \in 1 .. n : (h \o c)[i] = TypeOf(types, i)
  BY <1>1, <1>2, <1>3
<1> QED  BY <1>1, <1>4, <1>5, <1>6 DEF n

-----------------------------------------------------------------------------
(* Steps.                                                                  *)

\* What ends it all says nothing wrong.
LEMMA StopStep ==
  ASSUME DInv, NEW with, Stop(with), phase # "done", with \in {"accept", "reject", "decline", "internal"},
         with = "accept" => WellFounded, with = "reject" => ~WellFounded \/ Len(new_declars) = NO_DECL + 1
  PROVE  DInv'
<1>1. verdict' = with /\ phase' = "done" /\ file' = file /\ new_declars' = new_declars
  BY DEF Stop
<1>2. WellFounded' <=> WellFounded
  BY <1>1 DEF WellFounded, GivenBefore
<1>3. AcceptsExactly'
  BY <1>1, <1>2 DEF AcceptsExactly
<1> QED  BY <1>1, <1>3 DEF DInv

\* Nothing that the properties are about changed, but nothing ended either.
LEMMA GoesOn ==
  ASSUME DInv, file' = file, phase # "done", verdict' = verdict
  PROVE  file' \in Files /\ verdict' = "none" /\ AcceptsExactly'
BY DEF DInv, AcceptsExactly

LEMMA ParseItemStep == DeclarsAssumption /\ DInv /\ ParseItem => DInv'
<1> SUFFICES ASSUME DeclarsAssumption, DInv, ParseItem PROVE DInv'
  OBVIOUS
<1> DEFINE item == file[at + 1]
           here == DeclarsOf(item)
           all  == declars \o here
<1>0. PICK k : k = at + 1
  OBVIOUS
<1>1. phase = "parse" /\ at < Items /\ Parsing /\ file \in Files
  BY DEF ParseItem, DInv, Items
<1>2. Lists(file, Items) /\ Continues(file, Items) /\ Items \in Nat
  BY <1>1, FileIs
<1>3. /\ k \in 1 .. Items /\ k - 1 = at /\ at \in 0 .. Items /\ at \in Nat /\ at \in Int /\ k \in 0 .. Items
      /\ declars = Declaring(file, at) /\ at + 1 = k
  BY <1>0, <1>1, <1>2 DEF Parsing
<1>4. all = Declaring(file, k) /\ all \in Seq(Decls) /\ declars \in Seq(Decls) /\ here \in Seq(Decls)
      /\ Start(file, at) = Len(declars)
  BY <1>2, <1>3 DEF Continues, Start
<1> HIDE DEF all, here
<1>5. Len(all) \in Nat /\ DOMAIN all = 1 .. Len(all) /\ Len(declars) \in Nat /\ Len(here) \in Nat
      /\ Len(all) = Len(declars) + Len(here)
      /\ (\A i \in 1 .. Len(declars) : all[i] = declars[i])
      /\ \A i \in 1 .. Len(here) : all[Len(declars) + i] = here[i]
  <2>1. Len(all) \in Nat /\ DOMAIN all = 1 .. Len(all) /\ Len(declars) \in Nat /\ Len(here) \in Nat
    BY <1>4, SeqIs
  <2>2. /\ Len(all) = Len(declars) + Len(here)
        /\ (\A i \in 1 .. Len(declars) : all[i] = declars[i])
        /\ \A i \in 1 .. Len(here) : all[Len(declars) + i] = here[i]
    BY <1>4, Concat DEF all
  <2> QED  BY <2>1, <2>2
<1>6. NO_DECL \in Nat
  BY DEF DeclarsAssumption
<1>7. /\ Stop("reject") \/ Stop("decline") \/ (Unique(Numberable(all)) /\ ~(Len(all) > NO_DECL))
      /\ ~Unique(Numberable(all)) => Stop("reject")
      /\ Unique(Numberable(all)) /\ Len(all) > NO_DECL => Stop("decline")
      /\ Unique(Numberable(all)) /\ ~(Len(all) > NO_DECL) =>
           /\ declars' = all
           /\ decl_of' = Numbered(all)
           /\ block_sizes' =
                IF item.kind # "block" THEN block_sizes
                ELSE [n \in DOMAIN block_sizes \cup {item.types[i].name : i \in DOMAIN item.types} |->
                        IF n \in DOMAIN block_sizes THEN block_sizes[n]
                        ELSE <<Len(declars), Len(here)>>]
           /\ at' = at + 1
           /\ UNCHANGED <<file, phase, env_ext, blocks, new_declars, checked, reached, known, verdict>>
  BY DEF ParseItem, Reject, all, here
<1>8. ASSUME Unique(all) PROVE Unique(Numberable(all))
  <2> DEFINE l == IF Len(all) < NO_DECL THEN Len(all) ELSE NO_DECL
  <2>1. l \in Nat /\ l <= Len(all)
    BY <1>5, <1>6
  <2> HIDE DEF l, all
  <2>2. DOMAIN SubSeq(all, 1, l) = 1 .. l /\ \A i \in 1 .. l : SubSeq(all, 1, l)[i] = all[i]
    BY <1>4, <1>5, <2>1
  <2>3. \A i \in 1 .. l : i \in DOMAIN all
    BY <1>5, <2>1
  <2>4. Unique(SubSeq(all, 1, l))
    BY ONLY <1>8, <2>2, <2>3 DEF Unique
  <2> QED  BY <2>4 DEF Numberable, l
<1>9. CASE ~Unique(Numberable(all))
  <2>1. ~Unique(Declaring(file, k))
    BY <1>4, <1>8, <1>9
  <2>2. ~GivenOnce(file)
    BY <1>2, <1>3, <2>1, UniqueTables
  <2>3. ~WellFounded
    BY <2>2 DEF WellFounded, GivenOnce
  <2> QED  BY <1>1, <1>7, <1>9, <2>3, StopStep
<1>10. CASE Unique(Numberable(all)) /\ Len(all) > NO_DECL
  BY <1>1, <1>7, <1>10, StopStep
<1>11. CASE Unique(Numberable(all)) /\ ~(Len(all) > NO_DECL)
  <2>1. /\ declars' = all /\ decl_of' = Numbered(all) /\ at' = k
        /\ block_sizes' =
             IF item.kind # "block" THEN block_sizes
             ELSE [n \in DOMAIN block_sizes \cup {item.types[i].name : i \in DOMAIN item.types} |->
                     IF n \in DOMAIN block_sizes THEN block_sizes[n]
                     ELSE <<Len(declars), Len(here)>>]
        /\ file' = file /\ phase' = phase /\ env_ext' = env_ext /\ blocks' = blocks
        /\ new_declars' = new_declars /\ reached' = reached /\ known' = known /\ verdict' = verdict
    BY <1>0, <1>7, <1>11
  <2>2. Len(all) <= NO_DECL
    BY <1>5, <1>6, <1>11
  <2>3. Unique(all)
    <3>1. Numberable(all) = SubSeq(all, 1, Len(all))
      BY <1>5, <1>6, <2>2 DEF Numberable
    <3>2. SubSeq(all, 1, Len(all)) = all
      BY <1>4
    <3> QED  BY <1>11, <3>1, <3>2
  <2>4. TableIs'
    BY <1>4, <2>1, <2>3, NumberedIs DEF TableIs
  <2>5. TableIs /\ Sizes(at)
    BY <1>1 DEF Parsing
  <2>6. DOMAIN decl_of \subseteq DOMAIN decl_of'
    <3>1. \A i \in 1 .. Len(declars) : i \in 1 .. Len(all) /\ all[i] = declars[i]
      BY <1>5
    <3> QED  BY <2>1, <2>4, <2>5, <3>1 DEF TableIs
  <2>7. Sizes(k)'
    <3>1. CASE item.kind # "block"
      <4>1. block_sizes' = block_sizes
        BY <2>1, <3>1
      <4>2. \A j \in 1 .. k : file[j].kind = "block" => j \in 1 .. at
        BY <1>3, <3>1
      <4>3. \A j \in 1 .. k : file[j].kind = "block" =>
              \A i \in 1 .. Len(file[j].types) :
                /\ file[j].types[i].name \in DOMAIN block_sizes'
                /\ block_sizes'[file[j].types[i].name] = <<Start(file, j - 1), Len(DeclarsOf(file[j]))>>
        BY <2>5, <4>1, <4>2 DEF Sizes, SizesIn
      <4>4. DOMAIN block_sizes' \subseteq DOMAIN decl_of'
        BY <2>5, <2>6, <4>1 DEF Sizes, SizesIn
      <4>5. SizesIn(file, k, block_sizes', DOMAIN decl_of')
        BY ONLY <4>3, <4>4 DEF SizesIn
      <4> QED  BY ONLY <2>1, <4>5 DEF Sizes
    <3>2. CASE item.kind = "block"
      <4> DEFINE types == item.types
                 new == {types[i].name : i \in DOMAIN types}
      <4>1. types \in Seq(TypeSpecs) /\ here = Declared(types)
        <5>1. item \in Exportable
          BY <1>2, <1>3 DEF Lists
        <5> QED  BY <3>2, <5>1, ItemKinds DEF DeclarsOf, here
      <4>2. BlockIs(types, Len(types))
        BY <4>1, BlockParts
      <4>3. block_sizes' = [n \in DOMAIN block_sizes \cup new |->
                              IF n \in DOMAIN block_sizes THEN block_sizes[n] ELSE <<Len(declars), Len(here)>>]
        BY <2>1, <3>2
      <4> HIDE DEF types
      <4>4. \A i \in 1 .. Len(types) :
              /\ Len(declars) + i \in 1 .. Len(all) /\ all[Len(declars) + i].name = types[i].name
        <5> SUFFICES ASSUME NEW i \in 1 .. Len(types)
                     PROVE  /\ Len(declars) + i \in 1 .. Len(all) /\ all[Len(declars) + i].name = types[i].name
          OBVIOUS
        <5>1. Len(types) <= Len(here) /\ here[i] = TypeOf(types, i)
          BY <4>1, BlockPlaces
        <5>2. TypeOf(types, i).name = types[i].name /\ Len(types) \in Nat
          BY <4>2 DEF BlockIs
        <5>3. i \in 1 .. Len(here)
          BY <1>5, <5>1, <5>2
        <5>4. all[Len(declars) + i] = here[i]
          BY <1>5, <5>3
        <5>5. Len(declars) + i \in 1 .. Len(all)
          BY <1>5, <5>3
        <5> QED  BY <5>1, <5>2, <5>4, <5>5
      <4>5. ASSUME NEW i \in 1 .. Len(types) PROVE types[i].name \notin DOMAIN block_sizes
        <5>1. ASSUME types[i].name \in DOMAIN decl_of PROVE FALSE
          <6>1. PICK p \in 1 .. Len(declars) : declars[p].name = types[i].name
            BY <2>5, <5>1 DEF TableIs
          <6>2. p \in 1 .. Len(all) /\ all[p].name = all[Len(declars) + i].name /\ Len(declars) + i \in 1 .. Len(all)
            BY <1>5, <4>4, <6>1
          <6>3. p = Len(declars) + i
            BY <1>5, <2>3, <6>2 DEF Unique
          <6>4. i \in Nat \ {0}
            BY <4>2 DEF BlockIs
          <6> QED  BY <1>5, <6>3, <6>4
        <5> QED  BY <2>5, <5>1 DEF Sizes, SizesIn
      <4>6. DOMAIN block_sizes' \subseteq DOMAIN decl_of'
        <5>1. new \subseteq DOMAIN decl_of'
          <6>1. ASSUME NEW i \in DOMAIN types PROVE types[i].name \in DOMAIN decl_of'
            <7>1. i \in 1 .. Len(types)
              BY <4>2 DEF BlockIs
            <7> QED  BY <2>1, <2>4, <4>4, <7>1 DEF TableIs
          <6> QED  BY <6>1
        <5>2. DOMAIN block_sizes \subseteq DOMAIN decl_of'
          BY <2>5, <2>6 DEF Sizes, SizesIn
        <5> QED  BY <4>3, <5>1, <5>2
      <4>7. ASSUME NEW j \in 1 .. k, file[j].kind = "block", NEW i \in 1 .. Len(file[j].types)
            PROVE  /\ file[j].types[i].name \in DOMAIN block_sizes'
                   /\ block_sizes'[file[j].types[i].name] = <<Start(file, j - 1), Len(DeclarsOf(file[j]))>>
        <5>1. CASE j = k
          <6>1. file[j].types = types /\ Start(file, j - 1) = Len(declars) /\ here = DeclarsOf(file[j])
            BY <1>3, <1>4, <5>1 DEF types, here
          <6>2. i \in DOMAIN types /\ i \in 1 .. Len(types)
            BY <4>2, <6>1 DEF BlockIs
          <6>3. types[i].name \in new /\ types[i].name \notin DOMAIN block_sizes
            BY <4>5, <6>2
          <6> HIDE DEF new
          <6> QED  BY <4>3, <6>1, <6>3
        <5>2. CASE j # k
          <6>1. j \in 1 .. at
            BY <1>3, <5>2
          <6>2. /\ file[j].types[i].name \in DOMAIN block_sizes
                /\ block_sizes[file[j].types[i].name] = <<Start(file, j - 1), Len(DeclarsOf(file[j]))>>
            BY <2>5, <4>7, <6>1 DEF Sizes, SizesIn
          <6> HIDE DEF new
          <6> QED  BY <4>3, <6>2
        <5> QED  BY <5>1, <5>2
      <4>8. SizesIn(file, k, block_sizes', DOMAIN decl_of')
        BY ONLY <4>6, <4>7 DEF SizesIn
      <4> QED  BY ONLY <2>1, <4>8 DEF Sizes
    <3> QED  BY <3>1, <3>2
  <2>8. Parsing'
    <3>1. DOMAIN env_ext = {} /\ blocks = <<>> /\ new_declars = <<>>
      BY <1>1 DEF Parsing
    <3>2. at' \in 0 .. Items' /\ declars' = Declaring(file, at)' /\ Len(declars') <= NO_DECL /\ Sizes(at)'
      <4>1. Sizes(at)'
        BY <2>1, <2>7 DEF Sizes
      <4>2. Items' = Items /\ Declaring(file, at)' = Declaring(file, k)
        BY <2>1 DEF Items
      <4> QED  BY <1>3, <1>4, <2>1, <2>2, <4>1, <4>2
    <3> QED  BY <2>1, <2>4, <3>1, <3>2 DEF Parsing
  <2>9. file' \in Files /\ verdict' = "none" /\ AcceptsExactly'
    BY <1>1, <2>1, GoesOn
  <2> QED  BY <1>1, <2>1, <2>8, <2>9 DEF DInv
<1> QED  BY <1>9, <1>10, <1>11

\* What declares nothing gives nothing, and may stand anywhere.
LEMMA GivesNothing ==
  ASSUME DeclarsAssumption, NEW f, NEW n, Lists(f, n), NEW j \in 1 .. n, Start(f, j - 1) = Start(f, j)
  PROVE  /\ f[j].kind = "block" /\ f[j].types = <<>> /\ Renewal(f[j]) = <<>>
         /\ \A x : x \notin ToSet(Gives(f[j]))
         /\ \A before : RefersOnlyTo(f[j], before)
<1>1. Continues(f, n) /\ n \in Nat /\ f[j] \in Exportable /\ ItemNames(f[j])
  BY TablesContinue DEF Lists
<1>2. Start(f, j) = Start(f, j - 1) + Len(DeclarsOf(f[j])) /\ Len(DeclarsOf(f[j])) \in Nat
      /\ Start(f, j - 1) \in Nat
  BY <1>1 DEF Continues
<1>3. Len(DeclarsOf(f[j])) = 0
  BY <1>2
<1>4. /\ f[j].kind = "block" /\ f[j].types = <<>> /\ Renewal(f[j]) = <<>>
      /\ \A before : RefersOnlyTo(f[j], before)
  BY <1>1, <1>3, EmptyItem
<1>5. \A x : x \in ToSet(NamesOf(Renewal(f[j]))) <=> x \in ToSet(Gives(f[j]))
  BY <1>1 DEF ItemNames, NamesAgree
<1>6. ToSet(NamesOf(<<>>)) = {}
  BY DEF NamesOf, ToSet
<1> QED  BY <1>4, <1>5, <1>6

LEMMA ParseEndStep == DeclarsAssumption /\ DInv /\ ParseEnd => DInv'
<1> SUFFICES ASSUME DeclarsAssumption, DInv, ParseEnd PROVE DInv'
  OBVIOUS
<1>1. /\ phase = "parse" /\ at = Items /\ Parsing /\ file \in Files
      /\ reached = [t \in Threads |-> -1] /\ known = [t \in Threads |-> {}]
  BY DEF ParseEnd, DInv, Items
<1>2. /\ phase' = "derive" /\ at' = 0 /\ file' = file /\ declars' = declars /\ decl_of' = decl_of
      /\ block_sizes' = block_sizes /\ env_ext' = env_ext /\ blocks' = blocks /\ new_declars' = new_declars
      /\ reached' = reached /\ known' = known /\ verdict' = verdict
  BY DEF ParseEnd, tables
<1>3. Lists(file, Items) /\ Continues(file, Items) /\ Items \in Nat /\ Len(file) = Items
  BY <1>1, FileIs DEF Items
<1>4. ASSUME NEW j \in 1 .. Items, Start(file, j) <= 0
      PROVE  Start(file, j - 1) = Start(file, j)
  <2>1. /\ Start(file, j) = Start(file, j - 1) + Len(DeclarsOf(file[j])) /\ Len(DeclarsOf(file[j])) \in Nat
        /\ j - 1 \in 0 .. Items
    BY <1>3 DEF Continues
  <2>2. Start(file, j - 1) \in Nat
    BY <1>3, <2>1 DEF Continues
  <2> QED  BY <1>4, <2>1, <2>2
<1>5. \A j \in 1 .. Items : ~(Start(file, j) <= 0 /\ file[j].kind # "plain" /\ file[j].kind # "block")
  BY <1>3, <1>4, GivesNothing
<1>6. /\ \A j \in 1 .. Items : Start(file, j) <= 0 => \A x : x \notin ToSet(Gives(file[j]))
      /\ \A j \in 1 .. Items : Start(file, j) <= 0 => RefersOnlyTo(file[j], GivenIn(file, j))
  BY <1>3, <1>4, GivesNothing
<1>7. ExtensionIn(file, 0, env_ext) /\ RefersIn(file, 0)
  <2>1. DOMAIN env_ext = {}
    BY <1>1 DEF Parsing
  <2> QED  BY ONLY <1>3, <1>6, <2>1 DEF ExtensionIn, RefersIn
<1>8. Wait(file, <<>>, Passed(file, 0))
  <2>1. Passed(file, 0) = {}
    <3>1. \A j \in 1 .. Items : ~(Derives(file, j) /\ Start(file, j) <= 0)
      <4> SUFFICES ASSUME NEW j \in 1 .. Items, Derives(file, j), Start(file, j) <= 0 PROVE FALSE
        OBVIOUS
      <4>1. Start(file, j - 1) = Start(file, j)
        BY <1>4
      <4>2. Start(file, j) \in Nat
        BY <1>3 DEF Continues
      <4> QED  BY <4>1, <4>2 DEF Derives
    <3> QED  BY <1>3, <3>1 DEF Passed
  <2> QED  BY <2>1 DEF Wait, Waiting
<1>9. AtItem'
  <2>1. 0 \in 0 .. Items /\ Start(file, 0) = 0
    BY <1>3 DEF Continues
  <2>2. Items' = Items
    BY <1>2 DEF Items
  <2> QED  BY <1>2, <2>1, <2>2 DEF AtItem
<1>10. /\ declars = Declaring(file, Items) /\ Len(declars) <= NO_DECL /\ TableIs /\ Sizes(Items)
       /\ new_declars = <<>> /\ blocks = <<>>
  BY <1>1 DEF Parsing
<1>11. TableIs'
  BY <1>2, <1>10 DEF TableIs
<1>12. Items' = Items
  BY <1>2 DEF Items
<1>13. Sizes(Items)'
  BY <1>2, <1>10, <1>12 DEF Sizes
<1>14. DerivingInv'
  BY <1>2, <1>7, <1>8, <1>9, <1>10, <1>11, <1>12, <1>13 DEF DerivingInv
<1>15. file' \in Files /\ verdict' = "none" /\ AcceptsExactly'
  BY <1>1, <1>2, GoesOn
<1> QED  BY <1>1, <1>2, <1>14, <1>15 DEF DInv

\* The tables of the first items are parts of those of more.
LEMMA PartsStay ==
  ASSUME NEW f, NEW n, Lists(f, n), NEW a \in 0 .. n, NEW b \in 0 .. n, a <= b
  PROVE  /\ \A i \in 1 .. Start(f, a) : Declaring(f, b)[i] = Declaring(f, a)[i]
         /\ Len(Renewing(f, a)) \in Nat /\ Len(Renewing(f, b)) \in Nat
         /\ Len(Renewing(f, a)) <= Len(Renewing(f, b))
         /\ \A i \in 1 .. Len(Renewing(f, a)) : Renewing(f, b)[i] = Renewing(f, a)[i]
<1> DEFINE ds == DeclaredLists(f)
           rs == RenewedLists(f)
<1>1. ds \in Seq(Seq(Decls)) /\ Len(ds) = n /\ rs \in Seq(Seq(Decls)) /\ Len(rs) = n
  BY DEF Lists
<1>2. /\ \A k : Declaring(f, k) = Tables(ds)[k] /\ Start(f, k) = Len(Tables(ds)[k])
      /\ \A k : Renewing(f, k) = Tables(rs)[k]
  BY DEF Declaring, Start, Renewing
<1> HIDE DEF ds, rs
<1>5. a \in 0 .. Len(ds) /\ b \in 0 .. Len(ds) /\ a \in 0 .. Len(rs) /\ b \in 0 .. Len(rs)
  BY <1>1
<1>3. \A i \in 1 .. Len(Tables(ds)[a]) : Tables(ds)[b][i] = Tables(ds)[a][i]
  BY <1>1, <1>5, TablesGrow
<1>4. /\ Len(Tables(rs)[a]) \in Nat /\ Len(Tables(rs)[b]) \in Nat
      /\ Len(Tables(rs)[a]) <= Len(Tables(rs)[b])
      /\ \A i \in 1 .. Len(Tables(rs)[a]) : Tables(rs)[b][i] = Tables(rs)[a][i]
  BY <1>1, <1>5, TablesGrow
<1> QED  BY ONLY <1>2, <1>3, <1>4

\* Item m is the one that the walk finds at b.
ItemAt(f, n, b, m) ==
  /\ m \in 1 .. n /\ Start(f, m - 1) = b /\ Start(f, m - 1) < Start(f, m)
  /\ b \in Nat /\ Start(f, m) \in Nat /\ Start(f, m) <= Start(f, n) /\ Start(f, m) = b + Len(DeclarsOf(f[m]))
  /\ f[m].kind # "block" =>
       /\ Declaring(f, n)[b + 1] = f[m] /\ f[m] \in Decls /\ f[m].kind \in {"plain", "quot"}
       /\ Len(DeclarsOf(f[m])) = 1
  /\ f[m].kind = "block" =>
       /\ f[m].types \in Seq(TypeSpecs) /\ Len(f[m].types) \in Nat /\ 1 <= Len(f[m].types)
       /\ Declaring(f, n)[b + 1] = TypeOf(f[m].types, 1)

LEMMA ItemIsAt ==
  ASSUME DeclarsAssumption, NEW f, NEW n, Lists(f, n), NEW k \in 0 .. n, Start(f, k) < Start(f, n)
  PROVE  \E m \in 1 .. n : k < m /\ ItemAt(f, n, Start(f, k), m)
<1>1. PICK m \in 1 .. n : Start(f, m - 1) = Start(f, k) /\ Start(f, k) < Start(f, m) /\ k < m
  BY NextItem
<1>2. Continues(f, n) /\ n \in Nat /\ f[m] \in Exportable
  BY TablesContinue DEF Lists
<1> DEFINE b == Start(f, k)
           ds == DeclarsOf(f[m])
<1>3. /\ b \in Nat /\ Start(f, m) \in Nat /\ Start(f, m) = b + Len(ds) /\ Len(ds) \in Nat
      /\ Start(f, m) <= Start(f, n)
  <2>1. m \in 0 .. n /\ n \in 0 .. n /\ m <= n /\ k \in 0 .. n
    BY <1>2
  <2>2. Start(f, m) = Start(f, m - 1) + Len(ds)
    BY <1>2 DEF Continues
  <2> QED  BY <1>1, <1>2, <2>1, <2>2 DEF Continues
<1>4. \A j \in 1 .. Len(ds) : Declaring(f, n)[b + j] = ds[j]
  <2>1. n \in m .. n
    BY <1>2
  <2>2. \A j \in 1 .. Len(ds) : Declaring(f, n)[Start(f, m - 1) + j] = ds[j]
    BY <2>1, DeclaringPlace
  <2> QED  BY ONLY <1>1, <2>2
<1>5. 1 \in 1 .. Len(ds)
  BY <1>1, <1>3
<1>6. CASE f[m].kind # "block"
  <2>1. ds = <<f[m]>> /\ f[m] \in Decls /\ f[m].kind \in {"plain", "quot"}
    BY <1>2, <1>6, ItemKinds DEF DeclarsOf
  <2>2. Len(ds) = 1 /\ ds[1] = f[m]
    BY <2>1
  <2> HIDE DEF b, ds
  <2>3. Declaring(f, n)[b + 1] = f[m]
    BY <1>4, <1>5, <2>2
  <2>4. ItemAt(f, n, b, m)
    BY <1>1, <1>3, <1>6, <2>1, <2>2, <2>3 DEF ItemAt, b, ds
  <2> QED  BY <1>1, <2>4 DEF b
<1>7. CASE f[m].kind = "block"
  <2> DEFINE types == f[m].types
  <2>1. types \in Seq(TypeSpecs) /\ ds = Declared(types)
    BY <1>2, <1>7, ItemKinds DEF DeclarsOf
  <2> HIDE DEF b, ds, types
  <2>2. /\ Len(types) \in Nat /\ (Len(types) = 0 => Len(ds) = 0)
        /\ \A i \in 1 .. Len(types) : ds[i] = TypeOf(types, i)
    BY <2>1, BlockPlaces
  <2>3. 1 \in 1 .. Len(types) /\ 1 <= Len(types)
    BY <1>5, <2>2
  <2>4. Declaring(f, n)[b + 1] = TypeOf(types, 1)
    BY <1>4, <1>5, <2>2, <2>3
  <2>5. ItemAt(f, n, b, m)
    BY <1>1, <1>3, <1>7, <2>1, <2>2, <2>3, <2>4 DEF ItemAt, b, ds, types
  <2> QED  BY <1>1, <2>5 DEF b
<1> QED  BY <1>6, <1>7

\* An item sees what the items before it give.
LEMMA DeriveFinds ==
  ASSUME DeclarsAssumption, file \in Files, DerivingInv, NEW m, ItemAt(file, Items, at, m), NEW x, NEW temp
  PROVE  Sees(x, temp, at) <=> x \in temp \/ x \in GivenIn(file, m)
<1>1. Lists(file, Items) /\ Continues(file, Items) /\ Items \in Nat /\ Len(file) = Items
  BY FileIs DEF Items
<1>2. /\ m \in 1 .. Items /\ Start(file, m - 1) = at /\ Start(file, m - 1) < Start(file, m) /\ at \in Nat
      /\ Start(file, m) \in Nat /\ Start(file, m) <= Start(file, Items)
  BY DEF ItemAt
<1>3. /\ declars = Declaring(file, Items) /\ Len(declars) <= NO_DECL /\ TableIs /\ ExtensionIn(file, at, env_ext)
      /\ Start(file, Items) = Len(declars) /\ declars \in Seq(Decls) /\ Len(declars) \in Nat
  BY SeqIs DEF DerivingInv, Start, TableIs
<1>4. NO_DECL \in Nat /\ at <= NO_DECL /\ at <= Len(declars)
  BY <1>2, <1>3 DEF DeclarsAssumption
<1>5. m - 1 \in 0 .. Items /\ Items \in 0 .. Items /\ m - 1 <= Items /\ m - 1 \in Nat
  BY <1>1, <1>2
<1>6. \A i \in 1 .. at : i \in 1 .. Len(declars) /\ declars[i] = Declaring(file, m - 1)[i]
  <2>1. \A i \in 1 .. Start(file, m - 1) : Declaring(file, Items)[i] = Declaring(file, m - 1)[i]
    BY <1>1, <1>5, PartsStay
  <2> QED  BY <1>2, <1>3, <1>4, <2>1
<1>7. (\E i \in 1 .. at : declars[i].name = x) <=> \E j \in 1 .. m - 1 : x \in ToSet(NamesOf(DeclarsOf(file[j])))
  <2>1. (\E i \in 1 .. Start(file, m - 1) : Declaring(file, m - 1)[i].name = x)
              <=> \E j \in 1 .. m - 1 : x \in ToSet(NamesOf(DeclarsOf(file[j])))
    BY <1>1, <1>5, NamesBefore
  <2> QED  BY ONLY <1>2, <1>6, <2>1
<1>8. LookupIdx(x) < at <=> \E i \in 1 .. at : declars[i].name = x
  <2>1. ASSUME LookupIdx(x) < at PROVE \E i \in 1 .. at : declars[i].name = x
    <3>1. x \in DOMAIN decl_of /\ decl_of[x] < at
      BY <1>4, <2>1, <1>2 DEF LookupIdx
    <3>2. PICK i \in 1 .. Len(declars) : x = declars[i].name /\ decl_of[x] = i - 1
      BY <1>3, <3>1 DEF TableIs
    <3>3. i \in 1 .. at
      BY <1>2, <1>3, <3>1, <3>2
    <3> QED  BY <3>2, <3>3
  <2>2. ASSUME NEW i \in 1 .. at, declars[i].name = x PROVE LookupIdx(x) < at
    <3>1. i \in 1 .. Len(declars)
      BY <1>6
    <3>2. x \in DOMAIN decl_of /\ decl_of[x] = i - 1
      BY <1>3, <2>2, <3>1 DEF TableIs
    <3>3. i - 1 < at
      BY <1>2
    <3> QED  BY <3>2, <3>3 DEF LookupIdx
  <2> QED  BY <2>1, <2>2
<1>9. \A d \in Decls : d # NoDeclar
  <2>1. NoDeclar.kind = "none"
    BY DEF NoDeclar
  <2>2. \A d \in Decls : d.kind # "none"
    BY DEF Decls
  <2> QED  BY <2>1, <2>2
<1>10. GetOld(x, at) # NoDeclar <=> x \in DOMAIN env_ext \/ LookupIdx(x) < at
  <2>1. CASE x \in DOMAIN env_ext
    BY <1>3, <1>9, <2>1 DEF GetOld, ExtensionIn
  <2>2. CASE x \notin DOMAIN env_ext /\ LookupIdx(x) < at
    <3>1. x \in DOMAIN decl_of /\ LookupIdx(x) = decl_of[x]
      BY <1>2, <1>4, <2>2 DEF LookupIdx
    <3>2. PICK i \in 1 .. Len(declars) : x = declars[i].name /\ decl_of[x] = i - 1
      BY <1>3, <3>1 DEF TableIs
    <3>3. LookupIdx(x) + 1 = i /\ declars[i] \in Decls
      BY <1>3, <3>1, <3>2
    <3>4. GetOld(x, at) = declars[i]
      BY <2>2, <3>3 DEF GetOld
    <3> QED  BY <1>9, <2>2, <3>3, <3>4
  <2>3. CASE x \notin DOMAIN env_ext /\ ~(LookupIdx(x) < at)
    BY <2>3 DEF GetOld
  <2> QED  BY <2>1, <2>2, <2>3
<1>11. \A j \in 1 .. m - 1 : j \in 1 .. Items /\ Start(file, j) <= at
  BY <1>1, <1>2, <1>5, EndsBefore
<1>12. \A j \in 1 .. Items : Start(file, j) <= at => j \in 1 .. m - 1
  BY <1>1, <1>2, EndsBefore
<1>13. x \in DOMAIN env_ext <=> \E j \in 1 .. m - 1 : file[j].kind # "plain" /\ x \in ToSet(Gives(file[j]))
  BY ONLY <1>1, <1>3, <1>11, <1>12 DEF ExtensionIn
<1>14. \A j \in 1 .. m - 1 :
        /\ x \in ToSet(NamesOf(DeclarsOf(file[j]))) => x \in ToSet(Gives(file[j]))
        /\ file[j].kind = "plain" /\ x \in ToSet(Gives(file[j])) => x \in ToSet(NamesOf(DeclarsOf(file[j])))
  <2>1. \A j \in 1 .. m - 1 : ItemNames(file[j])
    BY <1>1, <1>11 DEF Lists
  <2> QED  BY <2>1 DEF ItemNames, NamesAgree
<1>15. x \in GivenIn(file, m) <=> \E j \in 1 .. m - 1 : x \in ToSet(Gives(file[j]))
  BY GivenIs
<1>16. GetOld(x, at) # NoDeclar <=> x \in GivenIn(file, m)
  <2> DEFINE Old == GetOld(x, at) # NoDeclar
             Low == LookupIdx(x) < at
             Given(j) == x \in ToSet(Gives(file[j]))
             Declares(j) == x \in ToSet(NamesOf(DeclarsOf(file[j])))
             Is(j) == file[j].kind = "plain"
  <2>1. Old <=> x \in DOMAIN env_ext \/ Low
    BY ONLY <1>10
  <2>2. Low <=> \E j \in 1 .. m - 1 : Declares(j)
    BY ONLY <1>7, <1>8
  <2>3. x \in DOMAIN env_ext <=> \E j \in 1 .. m - 1 : ~Is(j) /\ Given(j)
    BY ONLY <1>13
  <2>4. /\ \A j \in 1 .. m - 1 : Declares(j) => Given(j)
        /\ \A j \in 1 .. m - 1 : Is(j) /\ Given(j) => Declares(j)
    BY ONLY <1>14
  <2>5. x \in GivenIn(file, m) <=> \E j \in 1 .. m - 1 : Given(j)
    BY ONLY <1>15
  <2> HIDE DEF Old, Low, Given, Declares, Is
  <2>6. Old <=> x \in GivenIn(file, m)
    BY ONLY <2>1, <2>2, <2>3, <2>4, <2>5
  <2> QED  BY <2>6 DEF Old
<1> QED  BY <1>16 DEF Sees

\* What replaces an item that derives is derived.
Renewed(d) == d.derived = TRUE /\ d.kind # "plain"

LEMMA RenewalDerived ==
  ASSUME DeclarsAssumption, NEW item \in Exportable, item.kind # "plain"
  PROVE  \A i \in 1 .. Len(Renewal(item)) : Renewed(Renewal(item)[i])
<1>1. CASE item.kind = "quot"
  <2>1. item \in Decls
    BY <1>1, ItemKinds
  <2>2. Renewal(item) = <<AsDerived(item)>> /\ Renewed(AsDerived(item))
    BY <1>1, <2>1, AsDerivedIs DEF Renewal, Renewed
  <2> QED  BY <2>2
<1>2. CASE item.kind = "block"
  <2> DEFINE types == item.types
             gs == Groups(types)
             k == Len(types)
             mine == Mine(types)
             recs == Recs(types)
  <2>1. types \in Seq(TypeSpecs) /\ Renewal(item) = mine \o recs
    BY <1>2, ItemKinds DEF Renewal
  <2> HIDE DEF types
  <2>2. /\ gs \in Seq(Seq(Decls)) /\ Len(gs) = k
        /\ \A i \in 1 .. k : gs[i] = <<AsDerived(TypeOf(types, i))>> \o DerivedCtors(types[i].ctors)
        /\ mine = Tables(gs)[k] /\ mine \in Seq(Decls) /\ recs \in Seq(Decls) /\ Len(recs) = k
        /\ \A i \in 1 .. k : Renewed(recs[i])
    BY <2>1, MineIs DEF Renewed
  <2>3. BlockIs(types, k)
    BY <2>1, BlockParts
  <2>4. k \in Nat /\ \A i \in 1 .. k : /\ TypeOf(types, i) \in Decls /\ TypeOf(types, i).kind = "type"
                                       /\ types[i].ctors \in Seq(CtorSpecs)
    BY <2>3 DEF BlockIs
  <2> HIDE DEF gs, k, mine, recs
  <2>5. ASSUME NEW i \in 1 .. k, NEW j \in 1 .. Len(gs[i]) PROVE Renewed(gs[i][j])
    <3> DEFINE d == AsDerived(TypeOf(types, i))
               cs == types[i].ctors
               dc == DerivedCtors(cs)
    <3>1. d \in Decls /\ Renewed(d) /\ gs[i] = <<d>> \o dc
      BY <2>2, <2>4, AsDerivedIs DEF Renewed
    <3>2. /\ dc \in Seq(Decls) /\ Len(dc) = Len(cs)
          /\ \A l \in 1 .. Len(cs) : /\ CtorOf(cs[l]) \in Decls /\ CtorOf(cs[l]).kind = "ctor"
                                     /\ dc[l] = AsDerived(CtorOf(cs[l]))
      BY <2>4, CtorsAre
    <3> HIDE DEF d, cs, dc
    <3>3. \A l \in 1 .. Len(dc) : Renewed(dc[l])
      <4> SUFFICES ASSUME NEW l \in 1 .. Len(dc) PROVE Renewed(dc[l])
        OBVIOUS
      <4>1. CtorOf(cs[l]) \in Decls /\ CtorOf(cs[l]).kind = "ctor" /\ dc[l] = AsDerived(CtorOf(cs[l]))
        BY <3>2
      <4>2. Renewed(AsDerived(CtorOf(cs[l])))
        BY ONLY <4>1, AsDerivedIs DEF Renewed
      <4> QED  BY ONLY <4>1, <4>2
    <3>4. <<d>> \in Seq(Decls) /\ Len(<<d>>) = 1 /\ <<d>>[1] = d
      BY <3>1, OneIs
    <3>5. /\ Len(gs[i]) = 1 + Len(dc) /\ Len(dc) \in Nat /\ gs[i][1] = d
          /\ \A l \in 1 .. Len(dc) : gs[i][1 + l] = dc[l]
      BY <3>1, <3>2, <3>4, Concat
    <3>6. CASE j = 1
      BY <3>1, <3>5, <3>6
    <3>7. CASE j # 1
      <4>1. PICK l \in 1 .. Len(dc) : j = 1 + l
        <5>1. j - 1 \in 1 .. Len(dc) /\ j = 1 + (j - 1)
          BY <2>5, <3>5, <3>7
        <5> QED  BY <5>1
      <4>2. gs[i][j] = dc[l]
        BY <3>5, <4>1
      <4> QED  BY <3>3, <4>2
    <3> QED  BY <3>6, <3>7
  <2>6. \A i \in 1 .. Len(mine) : Renewed(mine[i])
    <3> SUFFICES ASSUME NEW i \in 1 .. Len(mine) PROVE Renewed(mine[i])
      OBVIOUS
    <3>1. k \in 0 .. Len(gs) /\ i \in 1 .. Len(Tables(gs)[k])
      BY <2>2, <2>4
    <3>2. InPiece(gs, k, i)
      BY <2>2, <3>1, TablesPiece
    <3>3. PICK a \in 1 .. k : \E j \in 1 .. Len(gs[a]) : Tables(gs)[k][i] = gs[a][j]
      BY <3>2 DEF InPiece
    <3> QED  BY <2>2, <2>5, <3>3
  <2>7. /\ Len(mine \o recs) = Len(mine) + Len(recs) /\ Len(mine) \in Nat /\ Len(recs) \in Nat
        /\ \A i \in 1 .. Len(mine) : (mine \o recs)[i] = mine[i]
        /\ \A i \in 1 .. Len(recs) : (mine \o recs)[Len(mine) + i] = recs[i]
    <3>1. mine \in Seq(Decls) /\ recs \in Seq(Decls)
      BY <2>2
    <3>2. Len(mine) \in Nat /\ Len(recs) \in Nat
      BY <3>1
    <3> QED  BY ONLY <3>1, <3>2, Concat
  <2>8. ASSUME NEW i \in 1 .. Len(mine \o recs) PROVE Renewed((mine \o recs)[i])
    <3>1. CASE i <= Len(mine)
      BY <2>6, <2>7, <3>1
    <3>2. CASE ~(i <= Len(mine))
      <4>1. i - Len(mine) \in 1 .. Len(recs) /\ Len(mine) + (i - Len(mine)) = i
        BY <2>7, <2>8, <3>2
      <4>2. (mine \o recs)[i] = recs[i - Len(mine)]
        BY <2>7, <4>1
      <4> QED  BY <2>2, <4>1, <4>2
    <3> QED  BY <3>1, <3>2
  <2> QED  BY <2>1, <2>8
<1>3. item.kind = "quot" \/ item.kind = "block"
  BY ItemKinds
<1> QED  BY <1>1, <1>2, <1>3

\* self.declars[name] of the types and constructors of a block.
LEMMA OriginalIs ==
  ASSUME TableIs, NEW p \in 1 .. Len(declars)
  PROVE  Original(declars[p].name) = declars[p]
BY DEF Original, TableIs

LEMMA BlockOriginals ==
  ASSUME DeclarsAssumption, file \in Files, DerivingInv, NEW m, ItemAt(file, Items, at, m),
         file[m].kind = "block"
  PROVE  LET types == file[m].types IN
         /\ \A i \in 1 .. Len(types) : Original(types[i].name) = TypeOf(types, i)
         /\ \A i \in 1 .. Len(types) : \A j \in 1 .. Len(types[i].ctors) :
              Original(types[i].ctors[j].name) = CtorOf(types[i].ctors[j])
<1> DEFINE types == file[m].types
           ds == DeclarsOf(file[m])
<1>1. Lists(file, Items) /\ Items \in Nat
  BY FileIs
<1>2. /\ m \in 1 .. Items /\ Start(file, m - 1) = at /\ at \in Nat /\ types \in Seq(TypeSpecs)
      /\ Start(file, m) = at + Len(ds) /\ ds = Declared(types) /\ Start(file, m) <= Start(file, Items)
  BY DEF ItemAt, DeclarsOf
<1>3. TableIs /\ declars = Declaring(file, Items) /\ Start(file, Items) = Len(declars) /\ Len(declars) \in Nat
  BY SeqIs DEF DerivingInv, Start, TableIs
<1>4. \A j \in 1 .. Len(ds) : declars[at + j] = ds[j]
  <2>1. Items \in m .. Items
    BY <1>1, <1>2
  <2>2. m \in 1 .. Items
    BY <1>2
  <2>3. \A j \in 1 .. Len(DeclarsOf(file[m])) :
          Declaring(file, Items)[Start(file, m - 1) + j] = DeclarsOf(file[m])[j]
    BY ONLY <1>1, <2>1, <2>2, DeclaringPlace
  <2> QED  BY ONLY <1>2, <1>3, <2>3
<1> HIDE DEF types, ds
<1>5. /\ Len(types) <= Len(ds) /\ Len(ds) \in Nat
      /\ \A i \in 1 .. Len(types) : ds[i] = TypeOf(types, i)
      /\ \A i \in 1 .. Len(types) : \A j \in 1 .. Len(types[i].ctors) :
           \E p \in 1 .. Len(ds) : ds[p] = CtorOf(types[i].ctors[j])
  BY <1>2, BlockPlaces
<1>6. ASSUME NEW p \in 1 .. Len(ds) PROVE Original(ds[p].name) = ds[p]
  <2>1. at \in Nat /\ Len(ds) \in Nat /\ Len(declars) \in Nat /\ at + Len(ds) <= Len(declars)
    BY <1>2, <1>3, <1>5
  <2>2. at + p \in 1 .. Len(declars)
    BY ONLY <2>1, p \in 1 .. Len(ds)
  <2> QED  BY <1>3, <1>4, <2>2, OriginalIs
<1>7. BlockIs(types, Len(types))
  BY <1>2, BlockParts
<1>8. ASSUME NEW i \in 1 .. Len(types) PROVE Original(types[i].name) = TypeOf(types, i)
  <2>1. i \in 1 .. Len(ds) /\ ds[i] = TypeOf(types, i) /\ TypeOf(types, i).name = types[i].name
    BY <1>5, <1>7 DEF BlockIs
  <2> QED  BY <1>6, <2>1
<1>9. ASSUME NEW i \in 1 .. Len(types), NEW j \in 1 .. Len(types[i].ctors)
      PROVE  Original(types[i].ctors[j].name) = CtorOf(types[i].ctors[j])
  <2>1. PICK p \in 1 .. Len(ds) : ds[p] = CtorOf(types[i].ctors[j])
    BY <1>5
  <2>2. CtorOf(types[i].ctors[j]).name = types[i].ctors[j].name
    BY DEF CtorOf, Declar
  <2> QED  BY <1>6, <2>1, <2>2
<1> QED  BY <1>8, <1>9 DEF types

\* A block's derivation finds what the block may refer to.
LEMMA BlockFinds ==
  ASSUME DeclarsAssumption, file \in Files, DerivingInv, NEW m, ItemAt(file, Items, at, m),
         file[m].kind = "block"
  PROVE  BlockSees(TypeOf(file[m].types, 1), at) <=> RefersOnlyTo(file[m], GivenIn(file, m))
<1> DEFINE types == file[m].types
           before == GivenIn(file, m)
           d == TypeOf(types, 1)
           ns == NamesOf(types)
<1>1. types \in Seq(TypeSpecs) /\ 1 \in 1 .. Len(types)
  <2>1. types \in Seq(TypeSpecs) /\ Len(types) \in Nat /\ 1 <= Len(types)
    BY DEF ItemAt
  <2> QED  BY ONLY <2>1
<1>2. BlockIs(types, Len(types))
  BY <1>1, BlockParts
<1>3. /\ d.inds = ns /\ ns \in Seq(Names) /\ Len(ns) = Len(types) /\ \A i \in 1 .. Len(types) : ns[i] = types[i].name
  BY <1>1, <1>2 DEF BlockIs
<1>4. DOMAIN ns = 1 .. Len(types) /\ DOMAIN types = 1 .. Len(types)
  BY <1>2, <1>3 DEF BlockIs
<1>5. \A n : \A temp : Sees(n, temp, at) <=> n \in temp \/ n \in before
  BY DeriveFinds
<1>6. ASSUME NEW i \in 1 .. Len(types)
      PROVE  LET ty == Original(ns[i]) IN
             /\ ty.refs = types[i].refs /\ ty.ctors = NamesOf(types[i].ctors)
             /\ DOMAIN ty.ctors = 1 .. Len(types[i].ctors) /\ DOMAIN types[i].ctors = 1 .. Len(types[i].ctors)
             /\ \A j \in 1 .. Len(types[i].ctors) : Original(ty.ctors[j]).refs = types[i].ctors[j].refs
  <2> DEFINE cs == types[i].ctors
  <2>1. ns[i] = types[i].name /\ Original(types[i].name) = TypeOf(types, i)
    BY <1>3, BlockOriginals
  <2>2. TypeOf(types, i).refs = types[i].refs /\ TypeOf(types, i).ctors = NamesOf(cs) /\ cs \in Seq(CtorSpecs)
    BY <1>2 DEF BlockIs
  <2>3. DOMAIN cs = 1 .. Len(cs) /\ NamesOf(cs) = [j \in DOMAIN cs |-> cs[j].name]
    BY <2>2, SeqIs DEF NamesOf
  <2>4. ASSUME NEW j \in 1 .. Len(cs) PROVE Original(NamesOf(cs)[j]).refs = cs[j].refs
    <3>1. Original(cs[j].name) = CtorOf(cs[j])
      BY BlockOriginals
    <3>2. CtorOf(cs[j]).refs = cs[j].refs
      BY DEF CtorOf, Declar
    <3>3. NamesOf(cs)[j] = cs[j].name
      BY ONLY <2>3, j \in 1 .. Len(cs)
    <3> QED  BY ONLY <3>1, <3>2, <3>3
  <2>5. DOMAIN NamesOf(cs) = 1 .. Len(cs)
    BY <2>3
  <2> HIDE DEF cs, ns, types
  <2>6. Original(ns[i]).refs = types[i].refs /\ Original(ns[i]).ctors = NamesOf(cs)
    BY ONLY <2>1, <2>2
  <2>7. \A j \in 1 .. Len(cs) : Original(Original(ns[i]).ctors[j]).refs = cs[j].refs
    BY ONLY <2>4, <2>6
  <2> QED  BY ONLY <2>3, <2>5, <2>6, <2>7 DEF cs
<1> HIDE DEF types, before, d, ns
<1>7. BlockSees(d, at) <=>
        \A i \in 1 .. Len(types) :
          /\ \A n \in types[i].refs : n \in before
          /\ \A j \in 1 .. Len(types[i].ctors) :
               \A n \in types[i].ctors[j].refs : n \in ToSet(ns) \/ n \in before
  <2> DEFINE A(i) == /\ \A n \in Original(ns[i]).refs : Sees(n, {}, at)
                     /\ \A j \in DOMAIN Original(ns[i]).ctors :
                          \A n \in Original(Original(ns[i]).ctors[j]).refs : Sees(n, ToSet(ns), at)
             B(i) == /\ \A n \in types[i].refs : n \in before
                     /\ \A j \in 1 .. Len(types[i].ctors) :
                          \A n \in types[i].ctors[j].refs : n \in ToSet(ns) \/ n \in before
  <2>1. BlockSees(d, at) <=> \A i \in 1 .. Len(types) : A(i)
    BY <1>3, <1>4 DEF BlockSees
  <2>2. ASSUME NEW i \in 1 .. Len(types) PROVE A(i) <=> B(i)
    <3>1. (\A n \in Original(ns[i]).refs : Sees(n, {}, at)) <=> \A n \in types[i].refs : n \in before
      BY <1>5, <1>6
    <3>2. (\A j \in DOMAIN Original(ns[i]).ctors :
             \A n \in Original(Original(ns[i]).ctors[j]).refs : Sees(n, ToSet(ns), at))
            <=> \A j \in 1 .. Len(types[i].ctors) :
                  \A n \in types[i].ctors[j].refs : n \in ToSet(ns) \/ n \in before
      <4> DEFINE cs == Original(ns[i]).ctors
                 given == types[i].ctors
      <4>1. DOMAIN cs = 1 .. Len(given)
        BY <1>6
      <4>2. \A j \in 1 .. Len(given) : Original(cs[j]).refs = given[j].refs
        BY <1>6
      <4> HIDE DEF cs, given
      <4>3. \A j \in 1 .. Len(given) :
              (\A n \in Original(cs[j]).refs : Sees(n, ToSet(ns), at))
                <=> \A n \in given[j].refs : n \in ToSet(ns) \/ n \in before
        BY ONLY <1>5, <4>2
      <4>4. (\A j \in DOMAIN cs : \A n \in Original(cs[j]).refs : Sees(n, ToSet(ns), at))
              <=> \A j \in 1 .. Len(given) : \A n \in given[j].refs : n \in ToSet(ns) \/ n \in before
        BY ONLY <4>1, <4>3
      <4> QED  BY <4>4 DEF cs, given
    <3> QED  BY ONLY <3>1, <3>2
  <2> HIDE DEF A
  <2> QED  BY <2>1, <2>2
<1>8. RefersOnlyTo(file[m], before) <=>
        \A i \in 1 .. Len(types) :
          /\ \A n \in types[i].refs : n \in before
          /\ \A j \in 1 .. Len(types[i].ctors) :
               \A n \in types[i].ctors[j].refs : n \in ToSet(ns) \/ n \in before
  <2>1. RefersOnlyTo(file[m], before) <=>
          \A i \in DOMAIN types :
            /\ types[i].refs \subseteq before
            /\ \A j \in DOMAIN types[i].ctors : types[i].ctors[j].refs \subseteq before \cup ToSet(ns)
    BY DEF RefersOnlyTo, types, ns
  <2>2. \A i \in 1 .. Len(types) : DOMAIN types[i].ctors = 1 .. Len(types[i].ctors)
    BY <1>6
  <2> QED  BY <1>4, <2>1, <2>2
<1> QED  BY <1>7, <1>8 DEF types, before, d

\* What is made of a block.
LEMMA DerivedIs ==
  ASSUME DeclarsAssumption, file \in Files, DerivingInv, NEW m, ItemAt(file, Items, at, m),
         file[m].kind = "block"
  PROVE  DerivedBlock(TypeOf(file[m].types, 1)) = Renewal(file[m])
<1> DEFINE types == file[m].types
           d == TypeOf(types, 1)
           ns == NamesOf(types)
           Group(i) == <<AsDerived(Original(ns[i]))>>
                         \o [j \in DOMAIN AsDerived(Original(ns[i])).ctors |->
                               AsDerived(Original(AsDerived(Original(ns[i])).ctors[j]))]
           group == [i \in DOMAIN ns |-> Group(i)]
           recs == [i \in DOMAIN ns |-> RecFor(ns[i], ToSet(NamesOf(FlattenSeq(group))))]
<1>1. types \in Seq(TypeSpecs) /\ 1 \in 1 .. Len(types)
  <2>1. types \in Seq(TypeSpecs) /\ Len(types) \in Nat /\ 1 <= Len(types)
    BY DEF ItemAt
  <2> QED  BY ONLY <2>1
<1>2. BlockIs(types, Len(types))
  BY <1>1, BlockParts
<1>3. /\ d.inds = ns /\ ns \in Seq(Names) /\ Len(ns) = Len(types) /\ \A i \in 1 .. Len(types) : ns[i] = types[i].name
  BY <1>1, <1>2 DEF BlockIs
<1>4. DOMAIN ns = 1 .. Len(types) /\ DOMAIN types = 1 .. Len(types)
  BY <1>2, <1>3 DEF BlockIs
<1>5. DerivedBlock(d) = FlattenSeq(group) \o recs
  <2> HIDE DEF d, ns
  <2> QED  BY <1>3 DEF DerivedBlock, AsDerived, RecFor
<1>6. ASSUME NEW i \in 1 .. Len(types)
      PROVE  Group(i) = <<AsDerived(TypeOf(types, i))>> \o DerivedCtors(types[i].ctors)
  <2> DEFINE cs == types[i].ctors
             ty == TypeOf(types, i)
  <2>1. ns[i] = types[i].name /\ Original(types[i].name) = ty
    BY <1>3, BlockOriginals
  <2>2. ty \in Decls /\ ty.ctors = NamesOf(cs) /\ cs \in Seq(CtorSpecs)
    BY <1>2 DEF BlockIs
  <2>3. AsDerived(ty).ctors = NamesOf(cs)
    BY <2>2 DEF AsDerived, Decls
  <2>4. DOMAIN cs = 1 .. Len(cs) /\ NamesOf(cs) = [j \in DOMAIN cs |-> cs[j].name]
    BY <2>2, SeqIs DEF NamesOf
  <2>5. \A j \in DOMAIN cs : Original(NamesOf(cs)[j]) = CtorOf(cs[j])
    BY <2>4, BlockOriginals
  <2>6. [j \in DOMAIN NamesOf(cs) |-> AsDerived(Original(NamesOf(cs)[j]))] = DerivedCtors(cs)
    <3>1. DOMAIN NamesOf(cs) = DOMAIN cs
      BY <2>4
    <3> QED  BY <2>5, <3>1 DEF DerivedCtors
  <2> HIDE DEF cs, ty, ns
  <2>7. Group(i) = <<AsDerived(ty)>> \o [j \in DOMAIN NamesOf(cs) |-> AsDerived(Original(NamesOf(cs)[j]))]
    BY ONLY <2>1, <2>3
  <2> HIDE DEF Group
  <2>8. Group(i) = <<AsDerived(ty)>> \o DerivedCtors(cs)
    BY ONLY <2>6, <2>7
  <2> QED  BY <2>8 DEF cs, ty
<1> HIDE DEF Group
<1>7. group = Groups(types)
  BY <1>4, <1>6 DEF Groups
<1>8. recs = Recs(types)
  <2>1. DOMAIN ns = DOMAIN types /\ \A i \in DOMAIN types : ns[i] = types[i].name
    BY <1>3, <1>4
  <2>2. FlattenSeq(group) = Mine(types)
    BY <1>7 DEF Mine
  <2> HIDE DEF group, types, ns
  <2> QED  BY ONLY <2>1, <2>2 DEF Recs, recs
<1> QED  BY ONLY <1>5, <1>7, <1>8, file[m].kind = "block" DEF Renewal, Mine

\* What a derivation adds to the extension.
Grown(ext, ds) ==
  [n \in DOMAIN ext \cup {ds[i].name : i \in DOMAIN ds} |->
     IF \E i \in DOMAIN ds : ds[i].name = n
     THEN ds[CHOOSE i \in DOMAIN ds : ds[i].name = n] ELSE ext[n]]

LEMMA ExtensionGrows ==
  ASSUME DeclarsAssumption, NEW f, NEW n, Lists(f, n), NEW b, NEW m, ItemAt(f, n, b, m), f[m].kind # "plain",
         NEW ext, ExtensionIn(f, b, ext)
  PROVE  ExtensionIn(f, Start(f, m), Grown(ext, Renewal(f[m])))
<1> DEFINE ds == Renewal(f[m])
           more == Grown(ext, ds)
<1>1. n \in Nat /\ Len(f) = n /\ m \in 1 .. n /\ f[m] \in Exportable /\ ItemNames(f[m]) /\ Continues(f, n)
  BY TablesContinue DEF Lists, ItemAt
<1>2. Start(f, m - 1) = b /\ Start(f, m - 1) < Start(f, m)
  BY DEF ItemAt
<1>3. ds \in Seq(Decls) /\ \A i \in 1 .. Len(ds) : ds[i].derived = TRUE
  BY <1>1, RenewalDerived DEF ItemNames, Renewed
<1>4. DOMAIN ds = 1 .. Len(ds) /\ \A i \in 1 .. Len(ds) : ds[i] \in Decls
  BY <1>3, SeqIs
<1>5. \A x : (\E i \in 1 .. Len(ds) : ds[i].name = x) <=> x \in ToSet(Gives(f[m]))
  <2>1. \A x : x \in ToSet(NamesOf(ds)) <=> x \in ToSet(Gives(f[m]))
    BY <1>1 DEF ItemNames, NamesAgree
  <2>2. \A x : x \in ToSet(NamesOf(ds)) <=> \E i \in 1 .. Len(ds) : ds[i].name = x
    BY <1>3, DeclNames, NamesRange
  <2> QED  BY <2>1, <2>2
<1> HIDE DEF ds
<1>6. /\ \A x : x \in DOMAIN more <=> x \in DOMAIN ext \/ \E i \in 1 .. Len(ds) : ds[i].name = x
      /\ \A x \in DOMAIN more :
           more[x] = IF \E i \in 1 .. Len(ds) : ds[i].name = x
                     THEN ds[CHOOSE i \in 1 .. Len(ds) : ds[i].name = x] ELSE ext[x]
  BY <1>4 DEF Grown
<1> HIDE DEF more
<1>7. ASSUME NEW x \in DOMAIN more PROVE more[x] \in Decls /\ more[x].derived = TRUE
  <2>1. CASE \E i \in 1 .. Len(ds) : ds[i].name = x
    <3> DEFINE i == CHOOSE i \in 1 .. Len(ds) : ds[i].name = x
    <3>1. i \in 1 .. Len(ds)
      BY <2>1
    <3>2. more[x] = ds[i]
      BY <1>6, <2>1
    <3> HIDE DEF i
    <3> QED  BY <1>3, <1>4, <3>1, <3>2
  <2>2. CASE ~\E i \in 1 .. Len(ds) : ds[i].name = x
    <3>1. x \in DOMAIN ext /\ more[x] = ext[x]
      BY <1>6, <2>2
    <3> QED  BY <3>1 DEF ExtensionIn
  <2> QED  BY <2>1, <2>2
<1>8. /\ \A j \in 1 .. n : Start(f, j) <= b => Start(f, j) <= Start(f, m)
      /\ \A j \in 1 .. n : Start(f, j) <= Start(f, m) =>
           Start(f, j) <= b \/ j = m \/ Start(f, j - 1) = Start(f, j)
  <2> SUFFICES ASSUME NEW j \in 1 .. n
               PROVE  /\ Start(f, j) <= b => Start(f, j) <= Start(f, m)
                      /\ Start(f, j) <= Start(f, m) => Start(f, j) <= b \/ j = m \/ Start(f, j - 1) = Start(f, j)
    OBVIOUS
  <2>1. /\ Start(f, j) <= b <=> j <= m - 1
        /\ Start(f, j) <= Start(f, m) => j <= m \/ Start(f, j - 1) = Start(f, j)
    BY <1>1, <1>2, EndsBefore
  <2>2. Start(f, j) \in Nat /\ Start(f, m) \in Nat /\ b \in Nat
    <3>1. j \in 0 .. n /\ m \in 0 .. n /\ m - 1 \in 0 .. n
      BY <1>1
    <3> QED  BY <1>1, <1>2, <3>1 DEF Continues
  <2>3. j <= m <=> j <= m - 1 \/ j = m
    BY <1>1
  <2> QED  BY <1>2, <2>1, <2>2, <2>3
<1>9. \A j \in 1 .. n : Start(f, j - 1) = Start(f, j) => \A x : x \notin ToSet(Gives(f[j]))
  BY <1>1, GivesNothing
<1>10. ASSUME NEW x
       PROVE  x \in DOMAIN more <=>
                \E j \in 1 .. n : Start(f, j) <= Start(f, m) /\ f[j].kind # "plain" /\ x \in ToSet(Gives(f[j]))
  <2>1. x \in DOMAIN more <=> x \in DOMAIN ext \/ x \in ToSet(Gives(f[m]))
    BY <1>5, <1>6
  <2>2. x \in DOMAIN ext <=>
          \E j \in 1 .. n : Start(f, j) <= b /\ f[j].kind # "plain" /\ x \in ToSet(Gives(f[j]))
    BY <1>1 DEF ExtensionIn
  <2>3. Start(f, m) <= Start(f, m)
    BY DEF ItemAt
  <2>4. ASSUME x \in DOMAIN more
        PROVE  \E j \in 1 .. n : Start(f, j) <= Start(f, m) /\ f[j].kind # "plain" /\ x \in ToSet(Gives(f[j]))
    <3>1. CASE x \in ToSet(Gives(f[m]))
      BY <1>1, <2>3, <3>1
    <3>2. CASE x \in DOMAIN ext
      BY <1>8, <2>2, <3>2
    <3> QED  BY <2>1, <2>4, <3>1, <3>2
  <2>5. ASSUME NEW j \in 1 .. n, Start(f, j) <= Start(f, m), f[j].kind # "plain", x \in ToSet(Gives(f[j]))
        PROVE  x \in DOMAIN more
    <3>1. CASE j = m
      BY <2>1, <2>5, <3>1
    <3>2. CASE j # m
      <4>1. Start(f, j) <= b
        BY <1>8, <1>9, <2>5, <3>2
      <4> QED  BY <2>1, <2>2, <2>5, <4>1
    <3> QED  BY <3>1, <3>2
  <2> QED  BY <2>4, <2>5
<1> QED  BY <1>1, <1>7, <1>10 DEF ExtensionIn, more, ds

\* What refers to what it may, with one item more; what waits, with one more.
LEMMA RefersGrows ==
  ASSUME DeclarsAssumption, NEW f, NEW n, Lists(f, n), NEW b, NEW m, ItemAt(f, n, b, m),
         f[m].kind # "plain" => RefersOnlyTo(f[m], GivenIn(f, m)), RefersIn(f, b)
  PROVE  RefersIn(f, Start(f, m))
<1>1. n \in Nat /\ Len(f) = n /\ m \in 1 .. n /\ Start(f, m - 1) = b /\ Start(f, m - 1) < Start(f, m)
  BY DEF Lists, ItemAt
<1>2. ASSUME NEW j \in 1 .. n, Start(f, j) <= Start(f, m), f[j].kind # "plain"
      PROVE  RefersOnlyTo(f[j], GivenIn(f, j))
  <2>1. (Start(f, j) <= b <=> j <= m - 1) /\ (j <= m \/ Start(f, j - 1) = Start(f, j))
    BY <1>1, <1>2, EndsBefore
  <2>2. CASE Start(f, j - 1) = Start(f, j)
    BY <1>1, <2>2, GivesNothing
  <2>3. CASE j = m
    BY <1>2, <2>3
  <2>4. CASE j <= m - 1
    BY <1>1, <1>2, <2>1, <2>4 DEF RefersIn
  <2> QED  BY <1>1, <2>1, <2>2, <2>3, <2>4
<1> QED  BY <1>1, <1>2 DEF RefersIn

LEMMA PassedGrows ==
  ASSUME NEW f, NEW n, Lists(f, n), NEW b, NEW m, ItemAt(f, n, b, m)
  PROVE  /\ Passed(f, Start(f, m)) = Passed(f, b) \cup (IF f[m].kind # "plain" THEN {m} ELSE {})
         /\ Ahead(f, b) = Ahead(f, Start(f, m)) \cup (IF f[m].kind # "plain" THEN {m} ELSE {})
         /\ m \notin Passed(f, b) /\ m \notin Ahead(f, Start(f, m))
         /\ \A j \in Passed(f, b) : Start(f, j - 1) < b
         /\ \A j \in Ahead(f, Start(f, m)) : b < Start(f, j - 1)
<1>1. n \in Nat /\ Len(f) = n /\ m \in 1 .. n /\ Start(f, m - 1) = b /\ Start(f, m - 1) < Start(f, m)
      /\ Continues(f, n) /\ b \in Nat /\ Start(f, m) \in Nat
  BY TablesContinue DEF Lists, ItemAt
<1>2. ASSUME NEW j \in 1 .. n
      PROVE  /\ Start(f, j) <= b <=> j <= m - 1
             /\ Start(f, j) <= Start(f, m) => j <= m \/ Start(f, j - 1) = Start(f, j)
             /\ j <= m => Start(f, j) <= Start(f, m)
             /\ m <= j - 1 => Start(f, m) <= Start(f, j - 1)
             /\ Start(f, j) \in Nat /\ Start(f, j - 1) \in Nat
  <2>1. j \in 0 .. n /\ j - 1 \in 0 .. n /\ m \in 0 .. n
    BY <1>1
  <2>2. /\ Start(f, j) <= b <=> j <= m - 1
        /\ Start(f, j) <= Start(f, m) => j <= m \/ Start(f, j - 1) = Start(f, j)
    BY <1>1, EndsBefore
  <2> QED  BY <1>1, <2>1, <2>2 DEF Continues
<1>3. ASSUME NEW j \in 1 .. n, Derives(f, j)
      PROVE  /\ Start(f, j) <= b <=> j < m
             /\ Start(f, j) <= Start(f, m) <=> j <= m
             /\ j < m => Start(f, j - 1) < b
             /\ m < j => b < Start(f, j - 1)
  <2>1. Start(f, j - 1) < Start(f, j)
    BY <1>3 DEF Derives
  <2>2. j \in Nat /\ m \in Nat
    BY <1>1
  <2> DEFINE s == Start(f, j)
             r == Start(f, j - 1)
             e == Start(f, m)
  <2>3. /\ s <= b <=> j <= m - 1
        /\ s <= e => j <= m \/ r = s
        /\ j <= m => s <= e
        /\ m <= j - 1 => e <= r
        /\ s \in Nat /\ r \in Nat /\ e \in Nat /\ b \in Nat /\ b < e /\ r < s
    BY <1>1, <1>2, <2>1
  <2> HIDE DEF s, r, e
  <2>4. /\ s <= b <=> j < m
        /\ s <= e <=> j <= m
        /\ j < m => r < b
        /\ m < j => b < r
    BY ONLY <2>2, <2>3
  <2> QED  BY <2>4 DEF s, r, e
<1>4. Derives(f, m) <=> f[m].kind # "plain"
  BY <1>1 DEF Derives
<1>5. /\ Passed(f, b) = {j \in 1 .. n : Derives(f, j) /\ j < m}
      /\ Passed(f, Start(f, m)) = {j \in 1 .. n : Derives(f, j) /\ j <= m}
      /\ Ahead(f, b) = {j \in 1 .. n : Derives(f, j) /\ ~(j < m)}
      /\ Ahead(f, Start(f, m)) = {j \in 1 .. n : Derives(f, j) /\ ~(j <= m)}
  BY <1>1, <1>3 DEF Passed, Ahead
<1>6. \A j \in 1 .. n : /\ j < m <=> j <= m /\ j # m
                        /\ j <= m <=> ~(m < j)
  BY <1>1
<1> QED  BY ONLY <1>1, <1>3, <1>4, <1>5, <1>6

\* One block more waits.
LEMMA WaitGrows ==
  ASSUME DeclarsAssumption, NEW f, NEW n, Lists(f, n), NEW b, NEW m, ItemAt(f, n, b, m), f[m].kind # "plain",
         NEW bs, Wait(f, bs, Passed(f, b))
  PROVE  Wait(f, Append(bs, BlockOf(f, m)), Passed(f, Start(f, m)))
<1> DEFINE last == BlockOf(f, m)
           more == Append(bs, last)
           k == Len(bs)
           Rec == [start : Nat, size : Nat, declars : Seq(Decls)]
<1>1. n \in Nat /\ Len(f) = n /\ m \in 1 .. n /\ Start(f, m - 1) = b /\ b \in Nat /\ ItemNames(f[m])
      /\ Continues(f, n)
  BY TablesContinue DEF Lists, ItemAt
<1>2. last \in Rec /\ last.start = b
  <2>1. Len(DeclarsOf(f[m])) \in Nat /\ Renewal(f[m]) \in Seq(Decls)
    BY <1>1 DEF Continues, ItemNames
  <2> QED  BY <1>1, <2>1 DEF BlockOf
<1>3. Passed(f, Start(f, m)) = Passed(f, b) \cup {m} /\ \A j \in Passed(f, b) : Start(f, j - 1) < b
  BY PassedGrows
<1>4. /\ bs \in Seq(Rec)
      /\ \A i \in 1 .. k : \E j \in Passed(f, b) : bs[i] = BlockOf(f, j)
      /\ \A i, j \in 1 .. k : i < j => bs[i].start < bs[j].start
      /\ \A j \in Passed(f, b) : \E i \in 1 .. k : bs[i] = BlockOf(f, j)
  BY DEF Wait, Waiting
<1>5. \A i \in 1 .. k : bs[i].start < b
  <2>1. \A j : BlockOf(f, j).start = Start(f, j - 1)
    BY DEF BlockOf
  <2> QED  BY ONLY <1>3, <1>4, <2>1
<1> HIDE DEF last, Rec
<1>6. /\ more \in Seq(Rec) /\ k \in Nat /\ Len(more) = k + 1 /\ more[k + 1] = last
      /\ \A i \in 1 .. k : more[i] = bs[i]
  BY <1>2, <1>4
<1> HIDE DEF more, k
<1>7. \A i \in 1 .. k + 1 : i \in 1 .. k \/ i = k + 1
  BY <1>6
<1>8. \A i \in 1 .. k + 1 : \E j \in Passed(f, Start(f, m)) : more[i] = BlockOf(f, j)
  BY ONLY <1>3, <1>4, <1>6, <1>7 DEF last
<1>9. \A i, j \in 1 .. k + 1 : i < j => more[i].start < more[j].start
  <2> SUFFICES ASSUME NEW i \in 1 .. k + 1, NEW j \in 1 .. k + 1, i < j PROVE more[i].start < more[j].start
    OBVIOUS
  <2>1. i \in 1 .. k
    BY <1>6
  <2>2. CASE j = k + 1
    BY <1>2, <1>5, <1>6, <2>1, <2>2
  <2>3. CASE j # k + 1
    <3>1. j \in 1 .. k
      BY <1>7, <2>3
    <3> QED  BY <1>4, <1>6, <2>1, <3>1
  <2> QED  BY <2>2, <2>3
<1>10. \A j \in Passed(f, Start(f, m)) : \E i \in 1 .. k + 1 : more[i] = BlockOf(f, j)
  <2> SUFFICES ASSUME NEW j \in Passed(f, Start(f, m)) PROVE \E i \in 1 .. k + 1 : more[i] = BlockOf(f, j)
    OBVIOUS
  <2>1. k + 1 \in 1 .. k + 1 /\ \A i \in 1 .. k : i \in 1 .. k + 1
    BY <1>6
  <2>2. CASE j = m
    BY <1>6, <2>1, <2>2 DEF last
  <2>3. CASE j \in Passed(f, b)
    BY <1>4, <1>6, <2>1, <2>3
  <2> QED  BY <1>3, <2>2, <2>3
<1> QED  BY ONLY <1>6, <1>8, <1>9, <1>10 DEF Wait, Waiting, Rec, more, last

\* The walk that derives goes on at the next item.
LEMMA DeriveGoesOn ==
  ASSUME DeclarsAssumption, DInv, phase = "derive", NEW m, ItemAt(file, Items, at, m),
         /\ file' = file /\ phase' = phase /\ declars' = declars /\ decl_of' = decl_of
         /\ block_sizes' = block_sizes /\ new_declars' = new_declars /\ reached' = reached /\ known' = known
         /\ verdict' = verdict,
         at' = Start(file, m), ExtensionIn(file, Start(file, m), env_ext'), RefersIn(file, Start(file, m)),
         Wait(file, blocks', Passed(file, Start(file, m)))
  PROVE  DInv'
<1>1. /\ file \in Files /\ DerivingInv /\ Items \in Nat
      /\ reached = [t \in Threads |-> -1] /\ known = [t \in Threads |-> {}]
  BY FileIs DEF DInv
<1>2. Items' = Items
  BY DEF Items
<1>3. AtItem'
  <2>1. m \in 0 .. Items
    BY <1>1 DEF ItemAt
  <2> QED  BY <1>2, <2>1 DEF AtItem
<1>4. TableIs'
  BY <1>1 DEF DerivingInv, TableIs
<1>5. Sizes(Items)'
  BY <1>1, <1>2 DEF DerivingInv, Sizes
<1>6. /\ declars = Declaring(file, Items) /\ Len(declars) <= NO_DECL /\ new_declars = <<>>
  BY <1>1 DEF DerivingInv
<1>7. /\ ExtensionIn(file', at', env_ext') /\ RefersIn(file', at') /\ Wait(file', blocks', Passed(file', at'))
      /\ declars' = Declaring(file', Items') /\ Len(declars') <= NO_DECL /\ new_declars' = <<>>
  BY <1>2, <1>6
<1>8. DerivingInv'
  BY <1>3, <1>4, <1>5, <1>7 DEF DerivingInv
<1>9. file' \in Files /\ verdict' = "none" /\ AcceptsExactly'
  BY <1>1, GoesOn
<1> QED  BY <1>1, <1>8, <1>9 DEF DInv

LEMMA DerivedStep ==
  ASSUME DeclarsAssumption, DInv, phase = "derive", NEW m, ItemAt(file, Items, at, m), file[m].kind # "plain",
         RefersOnlyTo(file[m], GivenIn(file, m)),
         Derived(at, Len(DeclarsOf(file[m])), Renewal(file[m]))
  PROVE  DInv'
<1> DEFINE ds == Renewal(file[m])
           size == Len(DeclarsOf(file[m]))
<1>1. file \in Files /\ DerivingInv /\ Lists(file, Items)
  BY FileIs DEF DInv
<1>2. ExtensionIn(file, at, env_ext) /\ RefersIn(file, at) /\ Wait(file, blocks, Passed(file, at))
  BY <1>1 DEF DerivingInv
<1>3. Start(file, m) = at + size /\ Start(file, m - 1) = at
  BY DEF ItemAt
<1>4. /\ env_ext' = Grown(env_ext, ds)
      /\ blocks' = Append(blocks, [start |-> at, size |-> size, declars |-> ds])
      /\ at' = at + size
      /\ file' = file /\ phase' = phase /\ declars' = declars /\ decl_of' = decl_of
      /\ block_sizes' = block_sizes /\ new_declars' = new_declars /\ reached' = reached /\ known' = known
      /\ verdict' = verdict
  BY DEF Derived, Grown, tables
<1>5. ExtensionIn(file, Start(file, m), env_ext')
  <2>1. ExtensionIn(file, Start(file, m), Grown(env_ext, Renewal(file[m])))
    BY <1>1, <1>2, ExtensionGrows
  <2> QED  BY <1>4, <2>1
<1>6. RefersIn(file, Start(file, m))
  BY <1>1, <1>2, RefersGrows
<1>7. Wait(file, blocks', Passed(file, Start(file, m)))
  <2>1. blocks' = Append(blocks, BlockOf(file, m))
    BY <1>3, <1>4 DEF BlockOf
  <2>2. Wait(file, Append(blocks, BlockOf(file, m)), Passed(file, Start(file, m)))
    BY <1>1, <1>2, WaitGrows
  <2> QED  BY ONLY <2>1, <2>2
<1> QED  BY <1>3, <1>4, <1>5, <1>6, <1>7, DeriveGoesOn

\* An item that refers to what it may not makes an export that is not well founded.
LEMMA NotFounded ==
  ASSUME file \in Files, NEW m \in 1 .. Items, ~RefersOnlyTo(file[m], GivenIn(file, m)), DeclarsAssumption
  PROVE  ~WellFounded
<1>1. m \in DOMAIN file
  BY FileIs DEF Lists
<1>2. GivenBefore(m) = GivenIn(file, m)
  BY DEF GivenBefore, GivenIn
<1> QED  BY <1>1, <1>2 DEF WellFounded

\* Where the walk is, an item starts.
LEMMA DeriveAt ==
  ASSUME DeclarsAssumption, DInv, Deriving
  PROVE  /\ file \in Files /\ DerivingInv /\ phase = "derive" /\ Lists(file, Items) /\ at \in Nat
         /\ \E m \in 1 .. Items : ItemAt(file, Items, at, m)
<1>1. file \in Files /\ DerivingInv /\ phase = "derive" /\ at < Len(declars)
  BY DEF DInv, Deriving
<1>2. Lists(file, Items) /\ Continues(file, Items) /\ Items \in Nat
  BY <1>1, FileIs
<1>3. PICK k \in 0 .. Items : at = Start(file, k)
  BY <1>1 DEF DerivingInv, AtItem
<1>4. Start(file, k) < Start(file, Items)
  BY <1>1, <1>3 DEF DerivingInv, Start
<1>5. \E m \in 1 .. Items : ItemAt(file, Items, Start(file, k), m)
  BY <1>2, <1>4, ItemIsAt
<1>6. at \in Nat
  BY <1>2, <1>3 DEF Continues
<1> QED  BY <1>1, <1>2, <1>3, <1>5, <1>6

LEMMA PassStep == DeclarsAssumption /\ DInv /\ Pass => DInv'
<1> SUFFICES ASSUME DeclarsAssumption, DInv, Pass PROVE DInv'
  OBVIOUS
<1>1. /\ Deriving /\ declars[at + 1].kind \notin {"quot", "type"} /\ at' = at + 1
      /\ file' = file /\ phase' = phase /\ declars' = declars /\ decl_of' = decl_of
      /\ block_sizes' = block_sizes /\ new_declars' = new_declars /\ reached' = reached /\ known' = known
      /\ verdict' = verdict /\ env_ext' = env_ext /\ blocks' = blocks
  BY DEF Pass, tables
<1>2. file \in Files /\ DerivingInv /\ phase = "derive" /\ Lists(file, Items) /\ Len(file) = Items
  BY <1>1, DeriveAt DEF Items
<1>3. PICK m \in 1 .. Items : ItemAt(file, Items, at, m)
  BY <1>1, DeriveAt
<1>4. declars = Declaring(file, Items)
  BY <1>2 DEF DerivingInv
<1>5. file[m].kind = "plain" /\ Start(file, m) = at + 1
  <2>1. CASE file[m].kind = "block"
    <3>1. declars[at + 1] = TypeOf(file[m].types, 1)
      BY <1>3, <1>4, <2>1 DEF ItemAt
    <3>2. TypeOf(file[m].types, 1).kind = "type"
      BY DEF TypeOf, Declar
    <3> QED  BY <1>1, <3>1, <3>2
  <2>2. CASE file[m].kind # "block"
    <3>1. declars[at + 1] = file[m] /\ file[m].kind \in {"plain", "quot"} /\ Start(file, m) = at + 1
      BY <1>3, <1>4, <2>2 DEF ItemAt
    <3> QED  BY <1>1, <3>1
  <2> QED  BY <2>1, <2>2
<1>6. ExtensionIn(file, at, env_ext) /\ RefersIn(file, at) /\ Wait(file, blocks, Passed(file, at))
  BY <1>2 DEF DerivingInv
<1>7. RefersIn(file, Start(file, m))
  BY <1>2, <1>3, <1>5, <1>6, RefersGrows
<1>8. Passed(file, Start(file, m)) = Passed(file, at)
  <2>1. Passed(file, Start(file, m)) = Passed(file, at) \cup (IF file[m].kind # "plain" THEN {m} ELSE {})
    BY <1>2, <1>3, PassedGrows
  <2> QED  BY <1>5, <2>1
<1>9. ExtensionIn(file, Start(file, m), env_ext')
  <2>1. Start(file, m - 1) = at /\ Start(file, m - 1) < Start(file, m) /\ Items \in Nat
    BY <1>2, <1>3 DEF ItemAt, Lists
  <2>2. ASSUME NEW j \in 1 .. Items, file[j].kind # "plain", NEW x \in ToSet(Gives(file[j]))
        PROVE  Start(file, j) <= Start(file, m) <=> Start(file, j) <= at
    <3>1. /\ Start(file, j) <= at <=> j <= m - 1
          /\ Start(file, j) <= Start(file, m) => j <= m \/ Start(file, j - 1) = Start(file, j)
      BY <1>2, <2>1, EndsBefore
    <3>2. Start(file, j - 1) # Start(file, j)
      BY <1>2, <2>2, GivesNothing
    <3>3. j # m
      BY <1>5, <2>2
    <3>4. j <= m => j <= m - 1
      BY <2>1, <3>3
    <3>5. Start(file, j) \in Nat /\ at \in Nat /\ Start(file, m) = at + 1
      <4>1. Continues(file, Items) /\ j \in 0 .. Items
        BY <1>2, <2>1, TablesContinue
      <4> QED  BY <1>1, <1>5, <4>1, DeriveAt DEF Continues
    <3> QED  BY <3>1, <3>2, <3>4, <3>5
  <2>3. \A x : (\E j \in 1 .. Items : Start(file, j) <= at /\ file[j].kind # "plain" /\ x \in ToSet(Gives(file[j])))
           <=> \E j \in 1 .. Items : Start(file, j) <= Start(file, m) /\ file[j].kind # "plain" /\ x \in ToSet(Gives(file[j]))
    BY <2>2
  <2> QED  BY ONLY <1>1, <1>2, <1>6, <2>3 DEF ExtensionIn
<1> QED  BY <1>1, <1>2, <1>3, <1>5, <1>6, <1>7, <1>8, <1>9, DeriveGoesOn

LEMMA DeriveQuotStep == DeclarsAssumption /\ DInv /\ DeriveQuot => DInv'
<1> SUFFICES ASSUME DeclarsAssumption, DInv, DeriveQuot PROVE DInv'
  OBVIOUS
<1> DEFINE d == declars[at + 1]
<1>1. Deriving /\ d.kind = "quot" /\ phase = "derive" /\ at < Len(declars)
  BY DEF DeriveQuot, Deriving
<1>2. file \in Files /\ DerivingInv /\ Lists(file, Items) /\ at \in Nat
  BY <1>1, DeriveAt
<1>3. PICK m \in 1 .. Items : ItemAt(file, Items, at, m)
  BY <1>1, DeriveAt
<1>4. declars = Declaring(file, Items) /\ TableIs /\ Len(declars) <= NO_DECL /\ Len(declars) \in Nat /\ NO_DECL \in Nat
  BY <1>2, SeqIs DEF DerivingInv, TableIs, DeclarsAssumption
<1>5. file[m].kind = "quot" /\ d = file[m] /\ Len(DeclarsOf(file[m])) = 1
  <2>1. CASE file[m].kind = "block"
    <3>1. d = TypeOf(file[m].types, 1)
      BY <1>3, <1>4, <2>1 DEF ItemAt
    <3>2. TypeOf(file[m].types, 1).kind = "type"
      BY DEF TypeOf, Declar
    <3> QED  BY <1>1, <3>1, <3>2
  <2>2. CASE file[m].kind # "block"
    <3>1. d = file[m] /\ file[m].kind \in {"plain", "quot"} /\ Len(DeclarsOf(file[m])) = 1
      BY <1>3, <1>4, <2>2 DEF ItemAt
    <3> QED  BY <1>1, <3>1
  <2> QED  BY <2>1, <2>2
<1>6. ByName(d.name) = at
  <2>1. at + 1 \in 1 .. Len(declars)
    BY <1>1, <1>2, <1>4
  <2>2. d.name \in DOMAIN decl_of /\ decl_of[d.name] = (at + 1) - 1
    BY <1>4, <2>1 DEF TableIs
  <2>3. LookupIdx(d.name) = at
    BY <1>2, <2>2 DEF LookupIdx
  <2> QED  BY <1>1, <1>2, <1>4, <2>3 DEF ByName
<1>7. (\A n \in d.refs : Sees(n, {}, ByName(d.name))) <=> RefersOnlyTo(file[m], GivenIn(file, m))
  <2>1. \A n : Sees(n, {}, at) <=> n \in GivenIn(file, m)
    <3>1. \A n : Sees(n, {}, at) <=> n \in {} \/ n \in GivenIn(file, m)
      BY <1>2, <1>3, DeriveFinds
    <3> QED  BY <3>1
  <2>2. RefersOnlyTo(file[m], GivenIn(file, m)) <=> file[m].refs \subseteq GivenIn(file, m)
    BY <1>5 DEF RefersOnlyTo
  <2>3. (\A n \in d.refs : Sees(n, {}, at)) <=> d.refs \subseteq GivenIn(file, m)
    BY ONLY <2>1
  <2> QED  BY ONLY <1>5, <1>6, <2>2, <2>3
<1>8. CASE \A n \in d.refs : Sees(n, {}, ByName(d.name))
  <2>1. Derived(at, 1, <<[d EXCEPT !.derived = TRUE]>>)
    BY <1>8 DEF DeriveQuot
  <2>2. Renewal(file[m]) = <<[d EXCEPT !.derived = TRUE]>>
    BY <1>5 DEF Renewal, AsDerived
  <2>3. Derived(at, Len(DeclarsOf(file[m])), Renewal(file[m]))
    BY ONLY <1>5, <2>1, <2>2
  <2> QED  BY <1>1, <1>3, <1>5, <1>7, <1>8, <2>3, DerivedStep
<1>9. CASE ~\A n \in d.refs : Sees(n, {}, ByName(d.name))
  <2>1. Stop("reject")
    BY <1>9 DEF DeriveQuot, Reject
  <2>2. ~WellFounded
    BY <1>2, <1>7, <1>9, NotFounded
  <2> QED  BY <1>1, <2>1, <2>2, StopStep
<1> QED  BY <1>8, <1>9

LEMMA DeriveBlockStep == DeclarsAssumption /\ DInv /\ DeriveBlock => DInv'
<1> SUFFICES ASSUME DeclarsAssumption, DInv, DeriveBlock PROVE DInv'
  OBVIOUS
<1> DEFINE d == declars[at + 1]
<1>1. Deriving /\ d.kind = "type" /\ phase = "derive"
  BY DEF DeriveBlock, Deriving
<1>2. file \in Files /\ DerivingInv /\ Lists(file, Items)
  BY <1>1, DeriveAt
<1>3. PICK m \in 1 .. Items : ItemAt(file, Items, at, m)
  BY <1>1, DeriveAt
<1>4. declars = Declaring(file, Items) /\ Sizes(Items)
  BY <1>2 DEF DerivingInv
<1>5. file[m].kind = "block" /\ d = TypeOf(file[m].types, 1)
  <2>1. CASE file[m].kind = "block"
    BY <1>3, <1>4, <2>1 DEF ItemAt
  <2>2. CASE file[m].kind # "block"
    <3>1. d = file[m] /\ file[m].kind \in {"plain", "quot"}
      BY <1>3, <1>4, <2>2 DEF ItemAt
    <3> QED  BY <1>1, <3>1
  <2> QED  BY <2>1, <2>2
<1> DEFINE size == Len(DeclarsOf(file[m]))
<1>6. block_sizes[d.name] = <<at, size>>
  <2>1. 1 \in 1 .. Len(file[m].types) /\ Start(file, m - 1) = at
    <3>1. Len(file[m].types) \in Nat /\ 1 <= Len(file[m].types) /\ Start(file, m - 1) = at
      BY <1>3, <1>5 DEF ItemAt
    <3> QED  BY ONLY <3>1
  <2>2. block_sizes[file[m].types[1].name] = <<Start(file, m - 1), size>>
    BY <1>4, <1>5, <2>1 DEF Sizes, SizesIn
  <2>3. d.name = file[m].types[1].name
    BY <1>5 DEF TypeOf, Declar
  <2> QED  BY ONLY <2>1, <2>2, <2>3
<1>7. block_sizes[d.name][1] = at /\ block_sizes[d.name][2] = size
  BY ONLY <1>6
<1>8. BlockSees(d, at) <=> RefersOnlyTo(file[m], GivenIn(file, m))
  BY <1>2, <1>3, <1>5, BlockFinds
<1>9. CASE BlockSees(d, at)
  <2>1. Derived(block_sizes[d.name][1], block_sizes[d.name][2], DerivedBlock(d))
    BY <1>7, <1>9 DEF DeriveBlock
  <2>2. DerivedBlock(d) = Renewal(file[m])
    BY <1>2, <1>3, <1>5, DerivedIs
  <2>3. Derived(at, Len(DeclarsOf(file[m])), Renewal(file[m]))
    BY ONLY <1>7, <2>1, <2>2
  <2>4. file[m].kind # "plain"
    BY <1>5
  <2> QED  BY <1>1, <1>3, <1>8, <1>9, <2>3, <2>4, DerivedStep
<1>10. CASE ~BlockSees(d, at)
  <2>1. Stop("reject")
    BY <1>7, <1>10 DEF DeriveBlock, Reject
  <2>2. ~WellFounded
    BY <1>2, <1>8, <1>10, NotFounded
  <2> QED  BY <1>1, <2>1, <2>2, StopStep
<1> QED  BY <1>9, <1>10

LEMMA DeriveEndStep == DeclarsAssumption /\ DInv /\ DeriveEnd => DInv'
<1> SUFFICES ASSUME DeclarsAssumption, DInv, DeriveEnd PROVE DInv'
  OBVIOUS
<1>1. /\ phase = "derive" /\ at = Len(declars) /\ phase' = "replace" /\ at' = 0 /\ file' = file
      /\ declars' = declars /\ blocks' = blocks /\ new_declars' = new_declars /\ reached' = reached
      /\ known' = known /\ verdict' = verdict
  BY DEF DeriveEnd
<1>2. /\ file \in Files /\ DerivingInv
      /\ reached = [t \in Threads |-> -1] /\ known = [t \in Threads |-> {}]
  BY <1>1 DEF DInv
<1>3. Lists(file, Items) /\ Continues(file, Items) /\ Items \in Nat /\ Len(file) = Items
  BY <1>2, FileIs DEF Items
<1>4. /\ declars = Declaring(file, Items) /\ at = Start(file, Items) /\ new_declars = <<>>
      /\ RefersIn(file, at) /\ Wait(file, blocks, Passed(file, at))
  BY <1>1, <1>2 DEF DerivingInv, Start
<1>5. Items' = Items
  BY <1>1 DEF Items
<1>6. 0 \in 0 .. Items /\ Start(file, 0) = 0 /\ Renewing(file, 0) = <<>>
  BY <1>3 DEF Continues
<1>7. AtItem'
  BY <1>1, <1>5, <1>6 DEF AtItem
<1>8. \A k \in 0 .. Items : 0 = Start(file, k) => new_declars = Renewing(file, k)
  <2> SUFFICES ASSUME NEW k \in 0 .. Items, 0 = Start(file, k) PROVE new_declars = Renewing(file, k)
    OBVIOUS
  <2>1. 0 <= k
    BY <1>3
  <2>2. Renewing(file, 0) = Renewing(file, k)
    BY <1>3, <1>6, <2>1, RenewingStays
  <2> QED  BY <1>4, <1>6, <2>2
<1>9. Passed(file, at) = Ahead(file, 0)
  <2>1. ASSUME NEW j \in 1 .. Items, Derives(file, j) PROVE Start(file, j) <= at /\ ~(Start(file, j) <= 0)
    <3>1. j \in 0 .. Items /\ j - 1 \in 0 .. Items /\ Items \in 0 .. Items /\ j <= Items
      BY <1>3
    <3>2. /\ Start(file, j) \in Nat /\ Start(file, j - 1) \in Nat /\ Start(file, j) <= Start(file, Items)
      BY <1>3, <3>1 DEF Continues
    <3>3. Start(file, j - 1) < Start(file, j)
      BY <2>1 DEF Derives
    <3> QED  BY <1>4, <3>2, <3>3
  <2> QED  BY <1>3, <2>1 DEF Passed, Ahead
<1>10. /\ declars' = Declaring(file', Items') /\ RefersIn(file', Start(file', Items'))
       /\ Wait(file', blocks', Ahead(file', at'))
       /\ \A k \in 0 .. Items' : at' = Start(file', k) => new_declars' = Renewing(file', k)
  BY <1>1, <1>4, <1>5, <1>8, <1>9
<1>11. Unique(new_declars)'
  BY <1>1, <1>4 DEF Unique
<1>12. Replacing'
  BY <1>7, <1>10, <1>11 DEF Replacing
<1>13. file' \in Files /\ verdict' = "none" /\ AcceptsExactly'
  BY <1>1, <1>2, GoesOn
<1> QED  BY <1>1, <1>2, <1>12, <1>13 DEF DInv

\* The block that an item derives to is the first that waits when the walk comes
\* to it.
LEMMA WaitShrinks ==
  ASSUME DeclarsAssumption, NEW f, NEW n, Lists(f, n), NEW b, NEW m, ItemAt(f, n, b, m),
         NEW bs, Wait(f, bs, Ahead(f, b))
  PROVE  /\ f[m].kind # "plain" => /\ bs # <<>> /\ bs[1] = BlockOf(f, m) /\ bs[1].start = b
                                   /\ Wait(f, Tail(bs), Ahead(f, Start(f, m)))
         /\ f[m].kind = "plain" => /\ ~(bs # <<>> /\ bs[1].start = b)
                                   /\ Wait(f, bs, Ahead(f, Start(f, m)))
<1> DEFINE k == Len(bs)
           Rec == [start : Nat, size : Nat, declars : Seq(Decls)]
           rest == Ahead(f, Start(f, m))
<1>1. Start(f, m - 1) = b /\ b \in Nat
  BY DEF ItemAt
<1>2. /\ Ahead(f, b) = rest \cup (IF f[m].kind # "plain" THEN {m} ELSE {})
      /\ m \notin rest /\ \A j \in rest : b < Start(f, j - 1)
  BY PassedGrows
<1>3. /\ bs \in Seq(Rec)
      /\ \A i \in 1 .. k : \E j \in Ahead(f, b) : bs[i] = BlockOf(f, j)
      /\ \A i, j \in 1 .. k : i < j => bs[i].start < bs[j].start
      /\ \A j \in Ahead(f, b) : \E i \in 1 .. k : bs[i] = BlockOf(f, j)
  BY DEF Wait, Waiting
<1>4. \A j : BlockOf(f, j).start = Start(f, j - 1)
  BY DEF BlockOf
<1>5. k \in Nat /\ (bs = <<>> <=> k = 0) /\ \A i \in 1 .. k : bs[i].start \in Nat
  <2>1. k \in Nat /\ (bs = <<>> <=> k = 0) /\ \A i \in 1 .. k : bs[i] \in Rec
    <3> HIDE DEF Rec
    <3> QED  BY <1>3
  <2> QED  BY <2>1
<1> HIDE DEF k, rest, Rec
<1>6. ASSUME f[m].kind # "plain"
      PROVE  /\ bs # <<>> /\ bs[1] = BlockOf(f, m) /\ bs[1].start = b
             /\ Wait(f, Tail(bs), rest)
  <2>1. Ahead(f, b) = rest \cup {m}
    BY <1>2, <1>6
  <2>2. PICK i \in 1 .. k : bs[i] = BlockOf(f, m)
    BY <1>3, <2>1
  <2>3. bs[i].start = b
    BY <1>1, <1>4, <2>2
  <2>4. 1 \in 1 .. k
    BY <1>5
  <2>5. PICK j \in Ahead(f, b) : bs[1] = BlockOf(f, j)
    BY <1>3, <2>4
  <2>6. bs[1].start >= b
    <3>1. bs[1].start = Start(f, j - 1) /\ bs[1].start \in Nat
      BY <1>4, <1>5, <2>4, <2>5
    <3>2. CASE j = m
      BY <1>1, <3>1, <3>2
    <3>3. CASE j \in rest
      BY <1>1, <1>2, <3>1, <3>3
    <3> QED  BY <2>1, <3>2, <3>3
  <2>7. i = 1
    <3>1. ASSUME i # 1 PROVE FALSE
      <4>1. 1 < i
        BY <1>5, <3>1
      <4>2. bs[1].start < bs[i].start
        BY <1>3, <2>4, <4>1
      <4>3. bs[1].start \in Nat
        BY <1>5, <2>4
      <4> QED  BY <1>1, <2>3, <2>6, <4>2, <4>3
    <3> QED  BY <3>1
  <2>8. bs # <<>> /\ bs[1] = BlockOf(f, m) /\ bs[1].start = b
    BY <1>5, <2>2, <2>3, <2>4, <2>7
  <2> DEFINE tl == Tail(bs)
  <2>9. /\ tl \in Seq(Rec) /\ Len(tl) = k - 1
        /\ \A l \in 1 .. k - 1 : tl[l] = bs[l + 1]
    BY <1>3, <2>8 DEF k
  <2> HIDE DEF tl
  <2>10. \A l \in 1 .. k - 1 : l + 1 \in 1 .. k /\ 1 < l + 1
    BY <1>5
  <2>11. \A l \in 1 .. k - 1 : bs[l + 1].start # b
    <3> SUFFICES ASSUME NEW l \in 1 .. k - 1 PROVE bs[l + 1].start # b
      OBVIOUS
    <3>1. bs[1].start < bs[l + 1].start
      BY <1>3, <2>4, <2>10
    <3>2. bs[l + 1].start \in Nat
      BY <1>5, <2>10
    <3> QED  BY <1>1, <2>8, <3>1, <3>2
  <2>12. \A l \in 1 .. k - 1 : \E q \in rest : tl[l] = BlockOf(f, q)
    <3> SUFFICES ASSUME NEW l \in 1 .. k - 1 PROVE \E q \in rest : tl[l] = BlockOf(f, q)
      OBVIOUS
    <3>1. PICK q \in Ahead(f, b) : bs[l + 1] = BlockOf(f, q)
      BY <1>3, <2>10
    <3>2. q # m
      BY <1>1, <1>4, <2>11, <3>1
    <3> QED  BY <2>1, <2>9, <3>1, <3>2
  <2>13. \A l, q \in 1 .. k - 1 : l < q => tl[l].start < tl[q].start
    <3> SUFFICES ASSUME NEW l \in 1 .. k - 1, NEW q \in 1 .. k - 1, l < q PROVE tl[l].start < tl[q].start
      OBVIOUS
    <3>1. l + 1 < q + 1
      BY <1>5
    <3>2. bs[l + 1].start < bs[q + 1].start
      BY <1>3, <2>10, <3>1
    <3> QED  BY <2>9, <3>2
  <2>14. \A q \in rest : \E l \in 1 .. k - 1 : tl[l] = BlockOf(f, q)
    <3> SUFFICES ASSUME NEW q \in rest PROVE \E l \in 1 .. k - 1 : tl[l] = BlockOf(f, q)
      OBVIOUS
    <3>1. PICK p \in 1 .. k : bs[p] = BlockOf(f, q)
      BY <1>3, <2>1
    <3>2. bs[p].start = Start(f, q - 1) /\ b < Start(f, q - 1)
      BY <1>2, <1>4, <3>1
    <3>3. p # 1
      BY <1>1, <2>8, <3>2
    <3>4. p - 1 \in 1 .. k - 1 /\ (p - 1) + 1 = p
      BY <1>5, <3>3
    <3>5. tl[p - 1] = bs[p]
      BY <2>9, <3>4
    <3> QED  BY <3>1, <3>4, <3>5
  <2>15. Wait(f, tl, rest)
    BY ONLY <2>9, <2>12, <2>13, <2>14 DEF Wait, Waiting, Rec
  <2> QED  BY <2>8, <2>15 DEF tl
<1>7. ASSUME f[m].kind = "plain"
      PROVE  ~(bs # <<>> /\ bs[1].start = b) /\ Wait(f, bs, rest)
  <2>1. Ahead(f, b) = rest
    BY <1>2, <1>7
  <2>2. ASSUME bs # <<>> PROVE bs[1].start # b
    <3>1. 1 \in 1 .. k
      BY <1>5, <2>2
    <3>2. PICK j \in rest : bs[1] = BlockOf(f, j)
      BY <1>3, <2>1, <3>1
    <3>3. bs[1].start = Start(f, j - 1) /\ b < Start(f, j - 1)
      BY <1>2, <1>4, <3>2
    <3> QED  BY <1>1, <3>3
  <2> QED  BY <2>1, <2>2
<1> QED  BY <1>6, <1>7 DEF rest

\* What item k is replaced by stands from where the first k - 1 end on.
LEMMA RenewingPlace ==
  ASSUME NEW f, NEW n, Lists(f, n), NEW k \in 1 .. n
  PROVE  /\ Len(Renewing(f, k - 1)) \in Nat /\ Len(Renewal(f[k])) \in Nat /\ Len(Renewing(f, n)) \in Nat
         /\ Len(Renewing(f, k - 1)) + Len(Renewal(f[k])) <= Len(Renewing(f, n))
         /\ \A j \in 1 .. Len(Renewal(f[k])) : Renewing(f, n)[Len(Renewing(f, k - 1)) + j] = Renewal(f[k])[j]
<1> DEFINE rs == RenewedLists(f)
<1>1. n \in Nat /\ rs \in Seq(Seq(Decls)) /\ Len(rs) = n /\ \A i \in 1 .. n : rs[i] = Renewal(f[i])
  BY DEF Lists
<1>2. \A i : Renewing(f, i) = Tables(rs)[i]
  BY DEF Renewing
<1> HIDE DEF rs
<1>3. /\ Len(Tables(rs)[k - 1]) \in Nat /\ Len(rs[k]) \in Nat /\ Len(Tables(rs)[n]) \in Nat
      /\ Len(Tables(rs)[k - 1]) + Len(rs[k]) <= Len(Tables(rs)[n])
      /\ \A j \in 1 .. Len(rs[k]) : Tables(rs)[n][Len(Tables(rs)[k - 1]) + j] = rs[k][j]
  <2>1. k \in 1 .. Len(rs) /\ n \in k .. Len(rs)
    BY <1>1
  <2> QED  BY <1>1, <2>1, TablesPlace
<1>4. rs[k] = Renewal(f[k])
  BY <1>1
<1> QED  BY ONLY <1>2, <1>3, <1>4

LEMMA ReplaceStep == DeclarsAssumption /\ DInv /\ Replace => DInv'
<1> SUFFICES ASSUME DeclarsAssumption, DInv, Replace PROVE DInv'
  OBVIOUS
<1> DEFINE here == IF Here THEN blocks[1].declars ELSE <<declars[at + 1]>>
           all == new_declars \o here
<1>1. /\ file \in Files /\ Replacing /\ phase = "replace" /\ at < Len(declars)
      /\ reached = [t \in Threads |-> -1] /\ known = [t \in Threads |-> {}]
  BY DEF DInv, Replace
<1>2. Lists(file, Items) /\ Continues(file, Items) /\ Items \in Nat
  BY <1>1, FileIs
<1>3. /\ declars = Declaring(file, Items) /\ AtItem
      /\ \A k \in 0 .. Items : at = Start(file, k) => new_declars = Renewing(file, k)
      /\ Unique(new_declars) /\ RefersIn(file, Start(file, Items)) /\ Wait(file, blocks, Ahead(file, at))
  BY <1>1 DEF Replacing
<1>4. PICK m \in 1 .. Items : ItemAt(file, Items, at, m)
  <2>1. PICK k \in 0 .. Items : at = Start(file, k)
    BY <1>3 DEF AtItem
  <2>2. Start(file, k) < Start(file, Items)
    BY <1>1, <1>3, <2>1 DEF Start
  <2>3. \E m \in 1 .. Items : ItemAt(file, Items, Start(file, k), m)
    BY <1>1, <1>2, <2>2, ItemIsAt
  <2> QED  BY <2>1, <2>3
<1>5. /\ Start(file, m - 1) = at /\ Start(file, m) = at + Len(DeclarsOf(file[m])) /\ at \in Nat
      /\ m - 1 \in 0 .. Items /\ m \in 0 .. Items
  <2>1. /\ Start(file, m - 1) = at /\ Start(file, m) = at + Len(DeclarsOf(file[m])) /\ at \in Nat
    BY <1>4 DEF ItemAt
  <2>2. m - 1 \in 0 .. Items /\ m \in 0 .. Items
    BY ONLY <1>2, m \in 1 .. Items
  <2> QED  BY <2>1, <2>2
<1>6. /\ file[m].kind # "plain" => /\ Here /\ blocks[1] = BlockOf(file, m)
                                   /\ Wait(file, Tail(blocks), Ahead(file, Start(file, m)))
      /\ file[m].kind = "plain" => ~Here /\ Wait(file, blocks, Ahead(file, Start(file, m)))
  BY <1>2, <1>3, <1>4, WaitShrinks DEF Here
<1>7. /\ here = Renewal(file[m])
      /\ at + (IF Here THEN Skipped(blocks[1]) ELSE 1) = Start(file, m)
      /\ Wait(file, IF Here THEN Tail(blocks) ELSE blocks, Ahead(file, Start(file, m)))
  <2>1. CASE file[m].kind # "plain"
    <3>1. blocks[1].declars = Renewal(file[m]) /\ blocks[1].size = Len(DeclarsOf(file[m]))
      BY <1>6, <2>1 DEF BlockOf
    <3> QED  BY <1>5, <1>6, <2>1, <3>1 DEF Skipped
  <2>2. CASE file[m].kind = "plain"
    <3>1. declars[at + 1] = file[m] /\ Len(DeclarsOf(file[m])) = 1
      BY <1>3, <1>4, <2>2 DEF ItemAt
    <3>2. Renewal(file[m]) = <<file[m]>>
      BY <2>2 DEF Renewal
    <3> QED  BY <1>5, <1>6, <2>2, <3>1, <3>2
  <2> QED  BY <2>1, <2>2
<1>8. all = Renewing(file, m)
  <2>1. new_declars = Renewing(file, m - 1)
    BY <1>3, <1>5
  <2>2. Renewing(file, m) = Renewing(file, m - 1) \o Renewal(file[m])
    BY <1>2, <1>4 DEF Continues
  <2> QED  BY <1>7, <2>1, <2>2
<1>9. /\ ~Unique(all) => Stop("reject")
      /\ Unique(all) =>
           /\ new_declars' = all
           /\ at' = at + (IF Here THEN Skipped(blocks[1]) ELSE 1)
           /\ blocks' = IF Here THEN Tail(blocks) ELSE blocks
           /\ file' = file /\ phase' = phase /\ declars' = declars /\ reached' = reached /\ known' = known
           /\ verdict' = verdict
  BY DEF Replace, Reject
<1> HIDE DEF all, here
<1>10. CASE ~Unique(all)
  <2>1. ~GivenOnce(file)
    BY <1>2, <1>5, <1>8, <1>10, UniqueTables
  <2>2. ~WellFounded
    BY <2>1 DEF WellFounded, GivenOnce
  <2> QED  BY <1>1, <1>9, <1>10, <2>2, StopStep
<1>11. CASE Unique(all)
  <2>1. /\ new_declars' = Renewing(file, m) /\ at' = Start(file, m)
        /\ Wait(file, blocks', Ahead(file, Start(file, m)))
        /\ file' = file /\ phase' = phase /\ declars' = declars /\ reached' = reached /\ known' = known
        /\ verdict' = verdict
    <3> DEFINE waiting == IF Here THEN Tail(blocks) ELSE blocks
               next == at + (IF Here THEN Skipped(blocks[1]) ELSE 1)
    <3>1. /\ new_declars' = all /\ at' = next /\ blocks' = waiting
          /\ file' = file /\ phase' = phase /\ declars' = declars /\ reached' = reached /\ known' = known
          /\ verdict' = verdict
      BY <1>9, <1>11
    <3>2. next = Start(file, m) /\ Wait(file, waiting, Ahead(file, Start(file, m)))
      BY <1>7
    <3> HIDE DEF waiting, next
    <3> QED  BY ONLY <1>8, <3>1, <3>2
  <2>2. Items' = Items
    BY <2>1 DEF Items
  <2>3. \A k \in 0 .. Items : Start(file, m) = Start(file, k) => Renewing(file, m) = Renewing(file, k)
    <3> SUFFICES ASSUME NEW k \in 0 .. Items, Start(file, m) = Start(file, k)
                 PROVE  Renewing(file, m) = Renewing(file, k)
      OBVIOUS
    <3>1. CASE m <= k
      BY <1>2, <1>5, <3>1, RenewingStays
    <3>2. CASE k <= m
      <4>1. Renewing(file, k) = Renewing(file, m)
        BY <1>2, <1>5, <3>2, RenewingStays
      <4> QED  BY <4>1
    <3> QED  BY <1>2, <1>5, <3>1, <3>2
  <2>4. AtItem'
    BY <1>5, <2>1, <2>2 DEF AtItem
  <2>5. /\ declars' = Declaring(file', Items') /\ RefersIn(file', Start(file', Items'))
        /\ Wait(file', blocks', Ahead(file', at'))
        /\ \A k \in 0 .. Items' : at' = Start(file', k) => new_declars' = Renewing(file', k)
    BY <1>3, <2>1, <2>2, <2>3
  <2>6. Unique(new_declars)'
    BY <1>8, <1>11, <2>1
  <2>7. Replacing'
    BY <2>4, <2>5, <2>6 DEF Replacing
  <2>8. file' \in Files /\ verdict' = "none" /\ AcceptsExactly'
    BY <1>1, <2>1, GoesOn
  <2> QED  BY <1>1, <2>1, <2>7, <2>8 DEF DInv
<1> QED  BY <1>10, <1>11

LEMMA ReplaceEndStep == DeclarsAssumption /\ DInv /\ ReplaceEnd => DInv'
<1> SUFFICES ASSUME DeclarsAssumption, DInv, ReplaceEnd PROVE DInv'
  OBVIOUS
<1>1. /\ file \in Files /\ Replacing /\ phase = "replace" /\ at >= Len(declars)
      /\ reached = [t \in Threads |-> -1] /\ known = [t \in Threads |-> {}]
  BY DEF DInv, ReplaceEnd
<1>2. Lists(file, Items) /\ Continues(file, Items) /\ Items \in Nat
  BY <1>1, FileIs
<1>3. /\ declars = Declaring(file, Items) /\ AtItem
      /\ \A k \in 0 .. Items : at = Start(file, k) => new_declars = Renewing(file, k)
      /\ Unique(new_declars) /\ RefersIn(file, Start(file, Items))
  BY <1>1 DEF Replacing
<1>4. new_declars = Renewing(file, Items)
  <2>1. PICK k \in 0 .. Items : at = Start(file, k)
    BY <1>3 DEF AtItem
  <2>2. Items \in 0 .. Items /\ k <= Items
    BY <1>2
  <2>3. Start(file, k) <= Start(file, Items) /\ Start(file, k) \in Nat /\ Start(file, Items) \in Nat
    BY <1>2, <2>2 DEF Continues
  <2>4. at >= Start(file, Items)
    BY <1>1, <1>3 DEF Start
  <2>5. at = Start(file, Items)
    BY <2>1, <2>3, <2>4
  <2> QED  BY <1>3, <2>2, <2>5
<1>5. /\ new_declars \in Seq(Decls) /\ Len(new_declars) \in Nat /\ DOMAIN new_declars = 1 .. Len(new_declars)
      /\ NO_DECL \in Nat
  <2>1. Items \in 0 .. Items
    BY <1>2
  <2>2. new_declars \in Seq(Decls)
    BY <1>2, <1>4, <2>1 DEF Continues
  <2> QED  BY <2>2, SeqIs DEF DeclarsAssumption
<1>6. CASE Len(new_declars) > NO_DECL + 1
  <2>1. Stop("internal")
    BY <1>6 DEF ReplaceEnd
  <2> QED  BY <1>1, <2>1, StopStep
<1>7. CASE ~(Len(new_declars) > NO_DECL + 1)
  <2>1. /\ declars' = new_declars /\ decl_of' = Numbered(new_declars) /\ env_ext' = <<>>
        /\ checked' = {i - 1 : i \in {j \in DOMAIN new_declars : new_declars[j].kind # "plain"}}
        /\ phase' = "check" /\ file' = file /\ new_declars' = new_declars /\ reached' = reached
        /\ known' = known /\ verdict' = verdict
    BY <1>7 DEF ReplaceEnd
  <2>2. Items' = Items
    BY <2>1 DEF Items
  <2>3. TableIs'
    BY <1>3, <1>5, <2>1, NumberedIs DEF TableIs
  <2>4. checked' = {i - 1 : i \in {j \in 1 .. Len(new_declars) : new_declars[j].kind # "plain"}}
    BY <1>5, <2>1
  <2>5. checked' \subseteq Int
    BY <2>4
  <2>6. \A i \in 1 .. Len(new_declars) : new_declars[i].kind # "plain" => i - 1 \in checked'
    BY <2>4
  <2>7. \A k \in 1 .. Items : ~(file[k].kind = "plain" /\ Len(Renewing(file, k - 1)) \in checked')
    <3> SUFFICES ASSUME NEW k \in 1 .. Items, file[k].kind = "plain", Len(Renewing(file, k - 1)) \in checked'
                 PROVE  FALSE
      OBVIOUS
    <3> DEFINE a == Len(Renewing(file, k - 1))
    <3>1. Renewal(file[k]) = <<file[k]>>
      BY DEF Renewal
    <3>2. 1 \in 1 .. Len(Renewal(file[k])) /\ Renewal(file[k])[1] = file[k]
      BY <3>1
    <3>3. a \in Nat /\ Renewing(file, Items)[a + 1] = file[k]
      <4>1. /\ Len(Renewing(file, k - 1)) \in Nat
            /\ \A j \in 1 .. Len(Renewal(file[k])) :
                 Renewing(file, Items)[Len(Renewing(file, k - 1)) + j] = Renewal(file[k])[j]
        BY <1>2, RenewingPlace
      <4>2. Renewing(file, Items)[Len(Renewing(file, k - 1)) + 1] = Renewal(file[k])[1]
        BY ONLY <3>2, <4>1
      <4> QED  BY ONLY <3>2, <4>1, <4>2
    <3>4. a \in checked'
      OBVIOUS
    <3> HIDE DEF a
    <3>5. PICK i \in 1 .. Len(new_declars) : a = i - 1 /\ new_declars[i].kind # "plain"
      BY <2>4, <3>4
    <3>6. i = a + 1
      BY <1>5, <3>5
    <3> QED  BY <1>4, <3>3, <3>5, <3>6
  <2>8. DOMAIN env_ext' = {}
    BY <2>1
  <2>9. /\ reached' \in [Threads -> Int] /\ DOMAIN known' = Threads
        /\ \A t \in Threads : \A n \in known'[t] : n \in DOMAIN decl_of' /\ decl_of'[n] < reached'[t]
    BY <1>1, <2>1
  <2>10. /\ declars' = Renewing(file', Items') /\ new_declars' = declars' /\ Len(declars') <= NO_DECL + 1
         /\ RefersIn(file', Start(file', Items'))
         /\ \A i \in 1 .. Len(declars') : declars'[i].kind # "plain" => i - 1 \in checked'
         /\ \A k \in 1 .. Items' : file'[k].kind = "plain" /\ Len(Renewing(file', k - 1)) \in checked' =>
              file'[k].refs \subseteq GivenIn(file', k)
    BY <1>3, <1>4, <1>5, <1>7, <2>1, <2>2, <2>6, <2>7
  <2>11. Checking'
    BY <2>3, <2>5, <2>8, <2>9, <2>10 DEF Checking
  <2>12. file' \in Files /\ verdict' = "none" /\ AcceptsExactly'
    BY <1>1, <2>1, GoesOn
  <2> QED  BY <2>1, <2>11, <2>12 DEF DInv
<1> QED  BY <1>6, <1>7

\* What a declaration that is checked stands next to, and what it finds.
Found(k) ==
  LET a == Len(Renewing(file, k - 1)) IN
  /\ a \in Nat /\ a < Len(declars) /\ declars[a + 1] = file[k] /\ a <= NO_DECL
  /\ \A n : n \in GivenIn(file, k) <=> n \in DOMAIN decl_of /\ decl_of[n] < a
  /\ \A n : Sees(n, {}, ByName(file[k].name)) => n \in GivenIn(file, k)
  /\ a # NO_DECL => \A n : n \in GivenIn(file, k) => Sees(n, {}, ByName(file[k].name))

LEMMA CheckFinds ==
  ASSUME DeclarsAssumption, file \in Files, Checking, NEW k \in 1 .. Items, file[k].kind = "plain"
  PROVE  Found(k)
<1> DEFINE a == Len(Renewing(file, k - 1))
           cutoff == ByName(file[k].name)
<1>1. Lists(file, Items) /\ Continues(file, Items) /\ Items \in Nat /\ NO_DECL \in Nat
  BY FileIs DEF DeclarsAssumption
<1>2. /\ declars = Renewing(file, Items) /\ Len(declars) <= NO_DECL + 1 /\ TableIs /\ DOMAIN env_ext = {}
      /\ declars \in Seq(Decls) /\ Len(declars) \in Nat
  BY SeqIs DEF Checking, TableIs
<1>3. a \in Nat /\ a + 1 <= Len(declars) /\ declars[a + 1] = file[k]
  <2>1. Renewal(file[k]) = <<file[k]>>
    BY DEF Renewal
  <2>2. Len(Renewal(file[k])) = 1 /\ 1 \in 1 .. Len(Renewal(file[k])) /\ Renewal(file[k])[1] = file[k]
    BY ONLY <2>1
  <2>3. /\ a \in Nat /\ a + Len(Renewal(file[k])) <= Len(Renewing(file, Items))
        /\ \A j \in 1 .. Len(Renewal(file[k])) : Renewing(file, Items)[a + j] = Renewal(file[k])[j]
    BY <1>1, RenewingPlace
  <2> HIDE DEF a
  <2> QED  BY ONLY <1>2, <2>2, <2>3
<1>4. \A i \in 1 .. a : declars[i] = Renewing(file, k - 1)[i]
  <2>1. k - 1 \in 0 .. Items /\ Items \in 0 .. Items /\ k - 1 <= Items
    BY <1>1
  <2>2. \A i \in 1 .. Len(Renewing(file, k - 1)) : Renewing(file, Items)[i] = Renewing(file, k - 1)[i]
    BY <1>1, <2>1, PartsStay
  <2> QED  BY <1>2, <2>2
<1>5. \A n : (\E i \in 1 .. a : declars[i].name = n) <=> n \in GivenIn(file, k)
  <2> SUFFICES ASSUME NEW n PROVE (\E i \in 1 .. a : declars[i].name = n) <=> n \in GivenIn(file, k)
    OBVIOUS
  <2>1. k - 1 \in 0 .. Items
    BY <1>1
  <2>2. (\E i \in 1 .. Len(Renewing(file, k - 1)) : Renewing(file, k - 1)[i].name = n)
          <=> \E j \in 1 .. k - 1 : n \in ToSet(Gives(file[j]))
    BY <1>1, <2>1, NamesBefore
  <2>3. n \in GivenIn(file, k) <=> \E j \in 1 .. k - 1 : n \in ToSet(Gives(file[j]))
    BY GivenIs
  <2>4. (\E i \in 1 .. a : declars[i].name = n) <=> (\E i \in 1 .. a : Renewing(file, k - 1)[i].name = n)
    BY <1>4
  <2> QED  BY <2>2, <2>3, <2>4
<1> HIDE DEF a
<1>6. a < Len(declars) /\ a <= NO_DECL /\ a + 1 \in 1 .. Len(declars)
  BY ONLY <1>1, <1>2, <1>3
<1>7. \A n : (\E i \in 1 .. a : declars[i].name = n) <=> n \in DOMAIN decl_of /\ decl_of[n] < a
  <2> SUFFICES ASSUME NEW n
               PROVE  (\E i \in 1 .. a : declars[i].name = n) <=> n \in DOMAIN decl_of /\ decl_of[n] < a
    OBVIOUS
  <2>1. ASSUME NEW i \in 1 .. a, declars[i].name = n PROVE n \in DOMAIN decl_of /\ decl_of[n] < a
    <3>1. i \in 1 .. Len(declars) /\ i - 1 < a
      BY <1>2, <1>3, <1>6
    <3> QED  BY <1>2, <2>1, <3>1 DEF TableIs
  <2>2. ASSUME n \in DOMAIN decl_of, decl_of[n] < a PROVE \E i \in 1 .. a : declars[i].name = n
    <3>1. PICK i \in 1 .. Len(declars) : n = declars[i].name /\ decl_of[n] = i - 1
      BY <1>2, <2>2 DEF TableIs
    <3>2. i \in 1 .. a
      BY <1>2, <1>3, <2>2, <3>1
    <3> QED  BY <3>1, <3>2
  <2> QED  BY <2>1, <2>2
<1>8. LookupIdx(file[k].name) = a
  <2>1. declars[a + 1].name \in DOMAIN decl_of /\ decl_of[declars[a + 1].name] = (a + 1) - 1
    BY <1>2, <1>6 DEF TableIs
  <2> QED  BY <1>3, <2>1 DEF LookupIdx
<1>9. cutoff \in Nat /\ cutoff <= a /\ (a # NO_DECL => cutoff = a)
  BY <1>3, <1>8 DEF ByName
<1> HIDE DEF cutoff
<1>10. \A n : Sees(n, {}, cutoff) <=> n \in DOMAIN decl_of /\ decl_of[n] < cutoff
  <2> SUFFICES ASSUME NEW n PROVE Sees(n, {}, cutoff) <=> n \in DOMAIN decl_of /\ decl_of[n] < cutoff
    OBVIOUS
  <2>1. Sees(n, {}, cutoff) <=> GetOld(n, cutoff) # NoDeclar
    BY DEF Sees
  <2>2. ASSUME ~(n \in DOMAIN decl_of /\ decl_of[n] < cutoff) PROVE GetOld(n, cutoff) = NoDeclar
    <3>1. ~(LookupIdx(n) < cutoff)
      BY <1>1, <1>3, <1>6, <1>9, <2>2 DEF LookupIdx
    <3> QED  BY <1>2, <3>1 DEF GetOld
  <2>3. ASSUME n \in DOMAIN decl_of, decl_of[n] < cutoff PROVE GetOld(n, cutoff) # NoDeclar
    <3>1. PICK i \in 1 .. Len(declars) : n = declars[i].name /\ decl_of[n] = i - 1
      BY <1>2, <2>3 DEF TableIs
    <3>2. LookupIdx(n) = i - 1 /\ LookupIdx(n) < cutoff /\ LookupIdx(n) + 1 = i
      BY <2>3, <3>1 DEF LookupIdx
    <3>3. GetOld(n, cutoff) = declars[i]
      BY <1>2, <3>2 DEF GetOld
    <3>4. declars[i] \in Decls
      BY <1>2
    <3>5. declars[i].kind # "none" /\ NoDeclar.kind = "none"
      BY <3>4 DEF Decls, NoDeclar
    <3> QED  BY <3>3, <3>5
  <2> QED  BY <2>1, <2>2, <2>3
<1>11. \A n : n \in GivenIn(file, k) <=> n \in DOMAIN decl_of /\ decl_of[n] < a
  BY ONLY <1>5, <1>7
<1>12. \A n \in DOMAIN decl_of : decl_of[n] \in Nat
  <2>1. \A n \in DOMAIN decl_of : \E i \in 1 .. Len(declars) : decl_of[n] = i - 1
    BY <1>2 DEF TableIs
  <2> QED  BY <1>2, <2>1
<1>13. /\ \A n : Sees(n, {}, cutoff) => n \in GivenIn(file, k)
       /\ a # NO_DECL => \A n : n \in GivenIn(file, k) => Sees(n, {}, cutoff)
  BY ONLY <1>3, <1>9, <1>10, <1>11, <1>12
<1> QED  BY <1>3, <1>6, <1>11, <1>13 DEF Found, a, cutoff

\* What is not derived by now is an item of its own.
LEMMA PlainIs ==
  ASSUME DeclarsAssumption, file \in Files, Checking, NEW p \in 1 .. Len(declars), declars[p].kind = "plain"
  PROVE  \E k \in 1 .. Items : file[k].kind = "plain" /\ Len(Renewing(file, k - 1)) = p - 1
<1> DEFINE rs == RenewedLists(file)
<1>1. Lists(file, Items) /\ Items \in Nat
  BY FileIs
<1>2. declars = Tables(rs)[Items]
  BY DEF Checking, Renewing
<1>3. rs \in Seq(Seq(Decls)) /\ Len(rs) = Items /\ \A k \in 1 .. Items : rs[k] = Renewal(file[k])
  BY <1>1 DEF Lists
<1> HIDE DEF rs
<1>4. InPiece(rs, Items, p)
  <2>1. Items \in 0 .. Len(rs) /\ p \in 1 .. Len(Tables(rs)[Items])
    BY <1>1, <1>2, <1>3
  <2> QED  BY <1>3, <2>1, TablesPiece
<1>5. PICK k \in 1 .. Items : \E j \in 1 .. Len(rs[k]) :
        p = Len(Tables(rs)[k - 1]) + j /\ Tables(rs)[Items][p] = rs[k][j]
  BY <1>4 DEF InPiece
<1>6. PICK j \in 1 .. Len(rs[k]) : p = Len(Tables(rs)[k - 1]) + j /\ Tables(rs)[Items][p] = rs[k][j]
  BY <1>5
<1>7. j \in 1 .. Len(Renewal(file[k])) /\ Renewal(file[k])[j].kind = "plain"
  BY <1>2, <1>3, <1>6
<1>8. file[k] \in Exportable
  BY <1>1 DEF Lists
<1>9. file[k].kind = "plain"
  <2>1. ASSUME file[k].kind # "plain" PROVE FALSE
    <3>1. Renewed(Renewal(file[k])[j])
      BY <1>7, <1>8, <2>1, RenewalDerived
    <3> QED  BY <1>7, <3>1 DEF Renewed
  <2> QED  BY <2>1
<1>10. j = 1
  <2>1. Renewal(file[k]) = <<file[k]>>
    BY <1>9 DEF Renewal
  <2> QED  BY <1>7, <2>1
<1>11. Len(Renewing(file, k - 1)) = p - 1
  <2>1. Renewing(file, k - 1) = Tables(rs)[k - 1]
    BY DEF Renewing, rs
  <2>2. Len(Renewing(file, k - 1)) \in Nat
    BY <1>1, RenewingPlace
  <2> QED  BY <1>6, <1>10, <2>1, <2>2
<1> QED  BY <1>9, <1>11

LEMMA CheckStep ==
  ASSUME DeclarsAssumption, DInv, phase = "check", NEW t \in Threads, NEW i \in Claimable(t), Check(t, i)
  PROVE  DInv'
<1> DEFINE d == declars[i + 1]
           cutoff == ByName(d.name)
<1>1. file \in Files /\ Checking /\ Items \in Nat /\ verdict = "none"
  BY FileIs DEF DInv
<1>2. /\ declars = Renewing(file, Items) /\ new_declars = declars /\ Len(declars) <= NO_DECL + 1
      /\ TableIs /\ DOMAIN env_ext = {} /\ RefersIn(file, Start(file, Items)) /\ checked \subseteq Int
      /\ \A p \in 1 .. Len(declars) : declars[p].kind # "plain" => p - 1 \in checked
      /\ \A k \in 1 .. Items : file[k].kind = "plain" /\ Len(Renewing(file, k - 1)) \in checked =>
           file[k].refs \subseteq GivenIn(file, k)
      /\ reached \in [Threads -> Int] /\ DOMAIN known = Threads
      /\ \A u \in Threads : \A n \in known[u] : n \in DOMAIN decl_of /\ decl_of[n] < reached[u]
  BY <1>1 DEF Checking
<1>3. i \in 0 .. Len(declars) - 1 /\ i \notin checked /\ i > reached[t] /\ Len(declars) \in Nat /\ NO_DECL \in Nat
  BY <1>2, SeqIs DEF Claimable, Unchecked, TableIs, DeclarsAssumption
<1>4. i \in Nat /\ i + 1 \in 1 .. Len(declars) /\ (i + 1) - 1 = i
  BY <1>3
<1>5. d.kind = "plain"
  BY <1>2, <1>3, <1>4
<1>6. PICK k \in 1 .. Items : file[k].kind = "plain" /\ Len(Renewing(file, k - 1)) = i
  <2>1. \E k \in 1 .. Items : file[k].kind = "plain" /\ Len(Renewing(file, k - 1)) = (i + 1) - 1
    BY <1>1, <1>4, <1>5, PlainIs
  <2> QED  BY <1>4, <2>1
<1>7. \A l \in 1 .. Items : file[l].kind = "plain" => Found(l)
  BY <1>1, CheckFinds
<1>8. \A l \in 1 .. Items : file[l].kind = "plain" /\ Len(Renewing(file, l - 1)) = i =>
        /\ d = file[l] /\ i <= NO_DECL
        /\ \A n : n \in GivenIn(file, l) <=> n \in DOMAIN decl_of /\ decl_of[n] < i
        /\ \A n : Sees(n, {}, cutoff) => n \in GivenIn(file, l)
        /\ i # NO_DECL => \A n : n \in GivenIn(file, l) => Sees(n, {}, cutoff)
  BY <1>7 DEF Found
<1> HIDE DEF d, cutoff
<1>9. reached[t] \in Int /\ \A n \in DOMAIN decl_of : decl_of[n] \in Int
  <2>1. \A n \in DOMAIN decl_of : \E p \in 1 .. Len(declars) : decl_of[n] = p - 1
    BY <1>2 DEF TableIs
  <2> QED  BY <1>2, <2>1
<1>10. \A n \in known[t] : n \in DOMAIN decl_of /\ decl_of[n] < i
  BY <1>2, <1>3, <1>4, <1>9
<1>11. PICK cached \in {{}, known[t]} :
         \/ /\ \A n \in d.refs \ cached : Sees(n, {}, cutoff)
            /\ checked' = checked \cup {i}
            /\ reached' = [reached EXCEPT ![t] = i]
            /\ known' = [known EXCEPT ![t] = @ \cup d.refs]
            /\ UNCHANGED <<file, phase, at, tables, env_ext, blocks, new_declars, verdict>>
         \/ /\ ~(\A n \in d.refs \ cached : Sees(n, {}, cutoff))
            /\ Stop("reject")
  BY DEF Check, Reject, d, cutoff
<1>12. CASE /\ \A n \in d.refs \ cached : Sees(n, {}, cutoff)
            /\ checked' = checked \cup {i}
            /\ reached' = [reached EXCEPT ![t] = i]
            /\ known' = [known EXCEPT ![t] = @ \cup d.refs]
            /\ UNCHANGED <<file, phase, at, tables, env_ext, blocks, new_declars, verdict>>
  <2>1. /\ file' = file /\ phase' = phase /\ declars' = declars /\ decl_of' = decl_of /\ env_ext' = env_ext
        /\ new_declars' = new_declars /\ verdict' = verdict
        /\ checked' = checked \cup {i} /\ reached' = [reached EXCEPT ![t] = i]
        /\ known' = [known EXCEPT ![t] = @ \cup d.refs]
    BY <1>12 DEF tables
  <2>2. \A n \in d.refs : n \in DOMAIN decl_of /\ decl_of[n] < i
    <3> SUFFICES ASSUME NEW n \in d.refs PROVE n \in DOMAIN decl_of /\ decl_of[n] < i
      OBVIOUS
    <3>1. CASE n \in cached
      BY <1>10, <3>1
    <3>2. CASE n \notin cached
      <4>1. Sees(n, {}, cutoff)
        BY <1>12, <3>2
      <4> QED  BY <1>6, <1>8, <4>1
    <3> QED  BY <3>1, <3>2
  <2>3. Items' = Items
    BY <2>1 DEF Items
  <2>4. \A l \in 1 .. Items : file[l].kind = "plain" /\ Len(Renewing(file, l - 1)) \in checked' =>
          file[l].refs \subseteq GivenIn(file, l)
    <3> SUFFICES ASSUME NEW l \in 1 .. Items, file[l].kind = "plain", Len(Renewing(file, l - 1)) \in checked'
                 PROVE  file[l].refs \subseteq GivenIn(file, l)
      OBVIOUS
    <3>1. CASE Len(Renewing(file, l - 1)) \in checked
      BY <1>2, <3>1
    <3>2. CASE Len(Renewing(file, l - 1)) = i
      BY <1>8, <2>2, <3>2
    <3> QED  BY <2>1, <3>1, <3>2
  <2>5. TableIs'
    BY <1>2, <2>1 DEF TableIs
  <2>6. /\ reached' \in [Threads -> Int] /\ DOMAIN known' = Threads
        /\ \A u \in Threads : \A n \in known'[u] : n \in DOMAIN decl_of' /\ decl_of'[n] < reached'[u]
    <3>1. reached' \in [Threads -> Int] /\ DOMAIN known' = Threads
      BY <1>2, <1>4, <2>1
    <3>2. ASSUME NEW u \in Threads, NEW n \in known'[u]
          PROVE  n \in DOMAIN decl_of /\ decl_of[n] < reached'[u]
      <4>1. CASE u = t
        <5>1. reached'[u] = i /\ (n \in known[t] \/ n \in d.refs)
          BY <1>2, <2>1, <3>2, <4>1
        <5> QED  BY <1>10, <2>2, <5>1
      <4>2. CASE u # t
        <5>1. reached'[u] = reached[u] /\ n \in known[u]
          BY <1>2, <2>1, <3>2, <4>2
        <5> QED  BY <1>2, <5>1
      <4> QED  BY <4>1, <4>2
    <3> QED  BY <2>1, <3>1, <3>2
  <2>7. checked' \subseteq Int /\ DOMAIN env_ext' = {}
    BY <1>2, <1>4, <2>1
  <2>8. \A p \in 1 .. Len(declars') : declars'[p].kind # "plain" => p - 1 \in checked'
    BY <1>2, <2>1
  <2>9. /\ declars' = Renewing(file', Items') /\ new_declars' = declars' /\ Len(declars') <= NO_DECL + 1
        /\ RefersIn(file', Start(file', Items'))
        /\ \A l \in 1 .. Items' : file'[l].kind = "plain" /\ Len(Renewing(file', l - 1)) \in checked' =>
             file'[l].refs \subseteq GivenIn(file', l)
    BY <1>2, <2>1, <2>3, <2>4
  <2>10. Checking'
    BY <2>5, <2>6, <2>7, <2>8, <2>9 DEF Checking
  <2>11. file' \in Files /\ verdict' = "none" /\ AcceptsExactly'
    BY <1>1, <2>1, GoesOn
  <2> QED  BY <2>1, <2>10, <2>11 DEF DInv
<1>13. CASE ~(\A n \in d.refs \ cached : Sees(n, {}, cutoff)) /\ Stop("reject")
  <2>1. PICK n \in d.refs : ~Sees(n, {}, cutoff)
    BY <1>13
  <2>2. CASE i = NO_DECL
    <3>1. Len(new_declars) = NO_DECL + 1
      BY <1>2, <1>3, <1>4, <2>2
    <3> QED  BY <1>13, <3>1, StopStep
  <2>3. CASE i # NO_DECL
    <3>1. n \in file[k].refs /\ n \notin GivenIn(file, k)
      BY <1>6, <1>8, <2>1, <2>3
    <3>2. ~RefersOnlyTo(file[k], GivenIn(file, k))
      BY <1>6, <3>1 DEF RefersOnlyTo
    <3>3. ~WellFounded
      BY <1>1, <3>2, NotFounded
    <3> QED  BY <1>13, <3>3, StopStep
  <2> QED  BY <2>2, <2>3
<1> QED  BY <1>11, <1>12, <1>13

LEMMA AcceptStep == DeclarsAssumption /\ DInv /\ Accept => DInv'
<1> SUFFICES ASSUME DeclarsAssumption, DInv, Accept PROVE DInv'
  OBVIOUS
<1>1. file \in Files /\ Checking /\ phase = "check" /\ Unchecked = {} /\ Stop("accept")
  BY DEF DInv, Accept, Stop
<1>2. Lists(file, Items) /\ Continues(file, Items) /\ Items \in Nat /\ DOMAIN file = 1 .. Items
  BY <1>1, FileIs DEF Lists
<1>3. /\ declars = Renewing(file, Items) /\ TableIs /\ RefersIn(file, Start(file, Items))
      /\ \A k \in 1 .. Items : file[k].kind = "plain" /\ Len(Renewing(file, k - 1)) \in checked =>
           file[k].refs \subseteq GivenIn(file, k)
      /\ Len(declars) \in Nat
  BY <1>1, SeqIs DEF Checking, TableIs
<1>4. GivenOnce(file)
  BY <1>2, <1>3, UniqueTables DEF TableIs
<1>5. ASSUME NEW k \in 1 .. Items PROVE RefersOnlyTo(file[k], GivenIn(file, k))
  <2>1. CASE file[k].kind # "plain"
    <3>1. k \in 0 .. Items /\ Items \in 0 .. Items /\ k <= Items /\ Len(file) = Items
      BY <1>2 DEF Items
    <3>2. Start(file, k) <= Start(file, Items)
      BY <1>2, <3>1 DEF Continues
    <3> QED  BY <1>3, <2>1, <3>1, <3>2 DEF RefersIn
  <2>2. CASE file[k].kind = "plain"
    <3>1. Found(k)
      BY <1>1, <2>2, CheckFinds
    <3> DEFINE a == Len(Renewing(file, k - 1))
    <3>2. a \in Nat /\ a < Len(declars)
      BY <3>1 DEF Found
    <3> HIDE DEF a
    <3>3. a \in 0 .. Len(declars) - 1
      BY <1>3, <3>2
    <3>4. a \in checked
      BY <1>1, <3>3 DEF Unchecked
    <3>5. file[k].refs \subseteq GivenIn(file, k)
      BY <1>3, <2>2, <3>4 DEF a
    <3> QED  BY <2>2, <3>5 DEF RefersOnlyTo
  <2> QED  BY <2>1, <2>2
<1>6. WellFounded
  <2>1. \A k : GivenBefore(k) = GivenIn(file, k)
    BY DEF GivenBefore, GivenIn
  <2>2. IsInjective(FlattenSeq([i \in DOMAIN file |-> Gives(file[i])]))
    BY <1>4 DEF GivenOnce
  <2>3. \A i \in DOMAIN file : RefersOnlyTo(file[i], GivenBefore(i))
    BY <1>2, <1>5, <2>1
  <2> QED  BY ONLY <2>2, <2>3 DEF WellFounded
<1> QED  BY <1>1, <1>6, StopStep

LEMMA Stays == DInv /\ UNCHANGED declarVars => DInv'
<1> SUFFICES ASSUME DInv, UNCHANGED declarVars PROVE DInv'
  OBVIOUS
<1>1. /\ file' = file /\ phase' = phase /\ at' = at /\ declars' = declars /\ decl_of' = decl_of
      /\ block_sizes' = block_sizes /\ env_ext' = env_ext /\ blocks' = blocks /\ new_declars' = new_declars
      /\ checked' = checked /\ reached' = reached /\ known' = known /\ verdict' = verdict
  BY DEF declarVars, tables
<1>2. Items' = Items /\ (TableIs' <=> TableIs) /\ (AtItem' <=> AtItem)
  BY <1>1 DEF Items, TableIs, AtItem
<1>3. Sizes(at)' <=> Sizes(at)
  BY <1>1 DEF Sizes
<1>4. Sizes(Items)' <=> Sizes(Items)
  BY <1>1, <1>2 DEF Sizes
<1>5. Parsing => Parsing'
  BY <1>1, <1>2, <1>3 DEF Parsing
<1>6. DerivingInv => DerivingInv'
  BY <1>1, <1>2, <1>4 DEF DerivingInv
<1>7. Replacing => Replacing'
  BY <1>1, <1>2 DEF Replacing, Unique
<1>8. Checking => Checking'
  BY <1>1, <1>2 DEF Checking
<1>9. AcceptsExactly => AcceptsExactly'
  BY <1>1 DEF AcceptsExactly, WellFounded, GivenBefore
<1> QED  BY <1>1, <1>5, <1>6, <1>7, <1>8, <1>9 DEF DInv

-----------------------------------------------------------------------------
(* Theorems.                                                               *)

\* The invariant: what each phase has of the items done so far, where the blocks
\* are that wait, and what the threads' caches can know.
THEOREM Invariance == DeclarsSpec => []DInv
<1>1. DeclarsInit => DInv
  BY DeclarsAssumption, InitInv
<1>2. DInv /\ [DeclarsNext]_declarVars => DInv'
  <2> SUFFICES ASSUME DInv, [DeclarsNext]_declarVars PROVE DInv'
    OBVIOUS
  <2> USE DeclarsAssumption
  <2>1. CASE ParseItem
    BY <2>1, ParseItemStep
  <2>2. CASE ParseEnd
    BY <2>2, ParseEndStep
  <2>3. CASE Pass
    BY <2>3, PassStep
  <2>4. CASE DeriveQuot
    BY <2>4, DeriveQuotStep
  <2>5. CASE DeriveBlock
    BY <2>5, DeriveBlockStep
  <2>6. CASE DeriveEnd
    BY <2>6, DeriveEndStep
  <2>7. CASE Replace
    BY <2>7, ReplaceStep
  <2>8. CASE ReplaceEnd
    BY <2>8, ReplaceEndStep
  <2>9. CASE CheckNext
    <3>1. phase = "check"
      BY <2>9 DEF CheckNext
    <3>2. PICK t \in Threads : \E i \in Claimable(t) : Check(t, i)
      BY <2>9 DEF CheckNext
    <3>3. PICK i \in Claimable(t) : Check(t, i)
      BY <3>2
    <3> QED  BY <3>1, <3>3, CheckStep
  <2>10. CASE Accept
    BY <2>10, AcceptStep
  <2>11. CASE Done
    BY <2>11, Stays DEF Done
  <2>12. CASE UNCHANGED declarVars
    BY <2>12, Stays
  <2> QED  BY <2>1, <2>2, <2>3, <2>4, <2>5, <2>6, <2>7, <2>8, <2>9, <2>10, <2>11, <2>12 DEF DeclarsNext
<1> QED  BY <1>1, <1>2, PTL DEF DeclarsSpec

\* What add_declar, check_inductives and check_simple_declar let pass together:
\* an export is accepted only if no name is given twice and every item refers only
\* to what comes before it, and rejected only if not, or if the table that replaces
\* the parsed one has a declaration without an index; for all exports and threads.
THEOREM Accepting == DeclarsSpec => []AcceptsExactly
<1>1. DInv => AcceptsExactly
  BY DEF DInv
<1> QED  BY <1>1, Invariance, PTL

\* While check_inductives derives blocks, what get_old_declar finds of the blocks
\* and the primitives before them is derived; for all exports.
THEOREM Derivation == DeclarsSpec => []DeriveSees
<1>1. DInv => DeriveSees
  <2> SUFFICES ASSUME DInv, phase = "derive", NEW n \in DOMAIN decl_of,
                      GetOld(n, at).kind \in {"type", "ctor", "quot"}
               PROVE  GetOld(n, at).derived = TRUE
    BY DEF DeriveSees
  <2>1. file \in Files /\ DerivingInv
    BY DEF DInv
  <2>2. Lists(file, Items) /\ Continues(file, Items) /\ Items \in Nat /\ Len(file) = Items
    BY DeclarsAssumption, <2>1, FileIs DEF Items
  <2>3. /\ declars = Declaring(file, Items) /\ TableIs /\ AtItem /\ ExtensionIn(file, at, env_ext)
        /\ Len(declars) \in Nat
    BY <2>1, SeqIs DEF DerivingInv, TableIs
  <2>4. CASE n \in DOMAIN env_ext
    BY <2>3, <2>4 DEF GetOld, ExtensionIn
  <2>5. CASE n \notin DOMAIN env_ext
    <3>1. PICK p \in 1 .. Len(declars) : n = declars[p].name /\ decl_of[n] = p - 1
      BY <2>3 DEF TableIs
    <3>2. LookupIdx(n) = p - 1 /\ LookupIdx(n) + 1 = p
      BY <3>1 DEF LookupIdx
    <3>3. LookupIdx(n) < at
      <4>1. ASSUME ~(LookupIdx(n) < at) PROVE FALSE
        <5>1. GetOld(n, at) = NoDeclar
          BY <2>5, <4>1 DEF GetOld
        <5> QED  BY <5>1 DEF NoDeclar
      <4> QED  BY <4>1
    <3>4. GetOld(n, at) = declars[p]
      BY <2>5, <3>2, <3>3 DEF GetOld
    <3>5. PICK k \in 0 .. Items : at = Start(file, k)
      BY <2>3 DEF AtItem
    <3>6. p \in 1 .. Start(file, k)
      <4>1. Start(file, k) \in Nat
        BY <2>2 DEF Continues
      <4> QED  BY <3>1, <3>2, <3>3, <3>5, <4>1
    <3> DEFINE ds == DeclaredLists(file)
    <3>7. ds \in Seq(Seq(Decls)) /\ Len(ds) = Items /\ \A j \in 1 .. Items : ds[j] = DeclarsOf(file[j])
      BY <2>2 DEF Lists
    <3>8. Declaring(file, k) = Tables(ds)[k] /\ Start(file, k) = Len(Tables(ds)[k])
      BY DEF Declaring, Start
    <3> HIDE DEF ds
    <3>9. declars[p] = Tables(ds)[k][p]
      <4>1. Items \in 0 .. Items /\ k <= Items
        BY <2>2
      <4>2. \A i \in 1 .. Start(file, k) : Declaring(file, Items)[i] = Declaring(file, k)[i]
        BY <2>2, <4>1, PartsStay
      <4> QED  BY <2>3, <3>6, <3>8, <4>2
    <3>10. InPiece(ds, k, p)
      <4>1. k \in 0 .. Len(ds) /\ p \in 1 .. Len(Tables(ds)[k])
        BY <3>6, <3>7, <3>8
      <4> QED  BY <3>7, <4>1, TablesPiece
    <3>11. PICK j \in 1 .. k : \E l \in 1 .. Len(ds[j]) : Tables(ds)[k][p] = ds[j][l]
      BY <3>10 DEF InPiece
    <3>12. j \in 1 .. Items /\ ds[j] = DeclarsOf(file[j])
      BY <2>2, <3>7
    <3>13. PICK l \in 1 .. Len(DeclarsOf(file[j])) : declars[p] = DeclarsOf(file[j])[l]
      BY <3>9, <3>11, <3>12
    <3>14. Start(file, j) <= at
      <4>1. j \in 0 .. Items /\ k \in 0 .. Items /\ j <= k
        BY <2>2, <3>12
      <4> QED  BY <2>2, <3>5, <4>1 DEF Continues
    <3>15. file[j].kind # "plain"
      <4>1. ASSUME file[j].kind = "plain" PROVE FALSE
        <5>1. DeclarsOf(file[j]) = <<file[j]>>
          BY <4>1 DEF DeclarsOf
        <5>2. declars[p] = file[j]
          BY <3>13, <5>1
        <5> QED  BY <3>4, <4>1, <5>2
      <4> QED  BY <4>1
    <3>16. n \in ToSet(Gives(file[j]))
      <4>1. DeclarsOf(file[j]) \in Seq(Decls) /\ \A x : x \in ToSet(NamesOf(DeclarsOf(file[j]))) => x \in ToSet(Gives(file[j]))
        BY <2>2, <3>12 DEF Lists, ItemNames, NamesAgree
      <4>2. n \in ToSet(NamesOf(DeclarsOf(file[j])))
        BY <3>1, <3>13, <4>1, DeclNames, NamesRange
      <4> QED  BY <4>1, <4>2
    <3>17. n \in DOMAIN env_ext
      BY <2>2, <2>3, <3>12, <3>14, <3>15, <3>16 DEF ExtensionIn
    <3> QED  BY <2>5, <3>17
  <2> QED  BY <2>4, <2>5
<1> QED  BY <1>1, Invariance, PTL

-----------------------------------------------------------------------------
(***************************************************************************)
(* Proofs about Reporter, for every set of threads, every number of        *)
(* declarations, every output mode and every order in which the threads    *)
(* record.                                                                 *)
(***************************************************************************)

\* The threads whose declaration is checked and not yet counted.
Uncounted == {t \in Checkers : pc[t] \in {"record", "count"}}

\* The declarations checked: the d[2]-th from the end of thread d[1].
CheckedDeclars == {d \in Checkers \X (1 .. PerThread) : left[d[1]] < d[2]}

(* The inductive invariant.  Exclusive is the lock's; Behind says that what a
   line shows was counted before what is still to be shown; Shown is what the
   screen knows of its live line; Counted balances the books. *)
Types ==
  /\ done \in Nat
  /\ lock \in Checkers \cup {"free"}
  /\ verbose \in BOOLEAN /\ live \in BOOLEAN /\ out \in BOOLEAN
  /\ live_shown \in BOOLEAN /\ live_at \in BOOLEAN
  /\ finished \in BOOLEAN /\ garbled \in BOOLEAN
  /\ pc \in [Checkers -> {"check", "record", "count", "show", "unwound"}]
  /\ left \in [Checkers -> 0 .. PerThread]
  /\ count \in [Checkers -> Nat]
  /\ bottom \in Nat
  /\ lines \in Seq(Nat)

Exclusive == \A t \in Checkers : pc[t] \in {"count", "show"} => lock = t

Behind ==
  /\ LinesAscend
  /\ \A i \in DOMAIN lines : lines[i] \in 1 .. done
  /\ bottom <= done
  /\ \A t \in Checkers :
       /\ count[t] <= done
       /\ pc[t] = "show" => \A i \in DOMAIN lines : lines[i] < count[t]
       /\ pc[t] = "show" => count[t] > 0

Shown ==
  /\ garbled = FALSE
  /\ out /\ bottom # 0 => live_shown

Counted == Cardinality(CheckedDeclars) = done + Cardinality(Uncounted)

AtEnd ==
  finished => /\ \A t \in Checkers : pc[t] = "unwound" \/ (pc[t] = "check" /\ left[t] = 0)
              /\ out => bottom = 0

ReporterInv == Types /\ Exclusive /\ Behind /\ Shown /\ Counted /\ AtEnd

-----------------------------------------------------------------------------
(* The parts of the invariant, step by step.                               *)

LEMMA InitIInv == ReporterInit => ReporterInv
<1> SUFFICES ASSUME ReporterInit PROVE ReporterInv
  OBVIOUS
<1> USE ReporterAssumption DEF ReporterAssumption, ReporterInit
<1>1. Types
  <2>1. left \in [Checkers -> 0 .. PerThread] /\ count \in [Checkers -> Nat]
    OBVIOUS
  <2>2. pc \in [Checkers -> {"check", "record", "count", "show", "unwound"}]
    OBVIOUS
  <2>3. done \in Nat /\ bottom \in Nat /\ lines \in Seq(Nat) /\ lock \in Checkers \cup {"free"}
    OBVIOUS
  <2> QED  BY <2>1, <2>2, <2>3, Zenon DEF Types
<1>2. Exclusive /\ Behind /\ Shown /\ AtEnd
  BY DEF Exclusive, Behind, LinesAscend, Shown, AtEnd
<1>3. Counted
  <2>1. CheckedDeclars = {} /\ Uncounted = {}
    BY DEF CheckedDeclars, Uncounted
  <2> QED  BY <2>1, FS_EmptySet DEF Counted
<1> QED  BY <1>1, <1>2, <1>3 DEF ReporterInv

\* What Emit does to the terminal, given that the live line is known.
LEMMA EmitShown ==
  ASSUME Types, Shown, NEW ls, NEW b, Emit(ls, b)
  PROVE  /\ garbled' = FALSE /\ out' \in BOOLEAN
         /\ out' => out
         /\ out' => lines' = ls /\ bottom' = b
         /\ lines' \in {lines, ls} /\ bottom' \in {bottom, b}
<1>1. CASE out /\ out' = out /\ lines' = ls /\ bottom' = b
           /\ garbled' = (garbled \/ Uncleared # 0)
  <2>1. Uncleared = 0
    BY <1>1 DEF Shown, Uncleared
  <2> QED  BY <1>1, <2>1, Zenon DEF Types, Shown
<1>2. CASE out /\ out' = FALSE /\ UNCHANGED display
  BY <1>2 DEF Types, Shown, display
<1>3. CASE ~out /\ UNCHANGED <<out, display>>
  BY <1>3 DEF Types, Shown, display
<1> QED  BY <1>1, <1>2, <1>3 DEF Emit

\* A step of thread t leaves the other threads where they are.
LEMMA OthersStay ==
  ASSUME Types, NEW t \in Checkers, Thread(t)
  PROVE  /\ \A u \in Checkers \ {t} : /\ pc'[u] = pc[u] /\ left'[u] = left[u]
                                      /\ count'[u] = count[u]
         /\ UNCHANGED <<verbose, live, finished>>
BY DEF Types, Thread, CheckOne, CountOnly, Lock, Count, Throttled, Keep, Show,
       Release, Move, After, tvars, screen, display

LEMMA ThreadTypes ==
  ASSUME Types, Shown, NEW t \in Checkers, Thread(t)
  PROVE  Types'
<1> USE DEF Types
<1>1. CASE CheckOne(t)
  <2>1. left' \in [Checkers -> 0 .. PerThread]
    BY <1>1, ReporterAssumption DEF CheckOne, ReporterAssumption
  <2> QED  BY <1>1, <2>1 DEF CheckOne, Move, screen, display
<1>2. CASE CountOnly(t)
  BY <1>2 DEF CountOnly, Move, After, screen, display
<1>3. CASE Lock(t)
  BY <1>3 DEF Lock, Move, screen, display
<1>4. CASE Count(t)
  BY <1>4 DEF Count, Move, screen, display
<1>5. CASE Throttled(t)
  BY <1>5 DEF Throttled, Release, Move, After, screen, display
<1>6. CASE Keep(t)
  <2>1. lines \in Seq(Nat) /\ Append(lines, count[t]) \in Seq(Nat) /\ bottom \in Nat
    OBVIOUS
  <2> HIDE DEF Types
  <2>2. /\ garbled' = FALSE /\ out' \in BOOLEAN
        /\ lines' \in {lines, Append(lines, count[t])} /\ bottom' \in {bottom, 0}
    BY <1>6, EmitShown DEF Keep
  <2>3. /\ lines' \in Seq(Nat) /\ bottom' \in Nat
        /\ pc' \in [Checkers -> {"check", "record", "count", "show", "unwound"}]
        /\ count' \in [Checkers -> Nat] /\ left' = left
    <3>1. lines' \in Seq(Nat) /\ bottom' \in Nat
      <4>1. lines' = lines \/ lines' = Append(lines, count[t])
        BY <2>2
      <4>2. bottom' = bottom \/ bottom' = 0
        BY <2>2
      <4>3. lines' \in Seq(Nat)
        BY ONLY <2>1, <4>1, Zenon
      <4>4. bottom' \in Nat
        BY ONLY <2>1, <4>2
      <4> QED  BY <4>3, <4>4
    <3> QED  BY <1>6, <3>1 DEF Types, Keep, Release, Move, After
  <2> QED  BY <1>6, <2>2, <2>3, Zenon DEF Types, Keep, Release
<1>7. CASE Show(t)
  <2> HIDE DEF Types
  <2>1. /\ garbled' = FALSE /\ out' \in BOOLEAN
        /\ lines' \in {lines} /\ bottom' \in {bottom, count[t]}
    BY <1>7, EmitShown DEF Show
  <2>2. /\ lines' \in Seq(Nat) /\ bottom' \in Nat
        /\ pc' \in [Checkers -> {"check", "record", "count", "show", "unwound"}]
        /\ count' \in [Checkers -> Nat] /\ left' = left
    BY <1>7, <2>1 DEF Types, Show, Release, Move, After
  <2> QED  BY <1>7, <2>1, <2>2, Zenon DEF Types, Show, Release
<1> QED  BY <1>1, <1>2, <1>3, <1>4, <1>5, <1>6, <1>7 DEF Thread

LEMMA ThreadExclusive ==
  ASSUME Types, Exclusive, NEW t \in Checkers, Thread(t)
  PROVE  Exclusive'
<1>1. /\ pc'[t] \in {"count", "show"} => lock' = t
      /\ lock' # lock => lock = "free" \/ pc[t] \in {"count", "show"}
  BY DEF Types, Exclusive, Thread, CheckOne, CountOnly, Lock, Count, Throttled,
         Keep, Show, Release, Move, After
<1>2. ASSUME NEW u \in Checkers \ {t}, pc'[u] \in {"count", "show"}
      PROVE  lock' = u
  BY <1>1, <1>2, OthersStay, ReporterAssumption DEF Exclusive, ReporterAssumption
<1> QED  BY <1>1, <1>2 DEF Exclusive

\* Only the holder of the lock adds a line, and it counted last.
LEMMA ThreadBehind ==
  ASSUME Types, Exclusive, Behind, Shown, NEW t \in Checkers, Thread(t)
  PROVE  Behind'
<1>1. ASSUME done' \in {done, done + 1}, lines' = lines, bottom' = bottom,
             \/ count'[t] \in {0, count[t]}
             \/ count'[t] = done + 1 /\ done' = done + 1,
             pc'[t] = "show" => count'[t] = done + 1
      PROVE  Behind'
  <2>1. \A i \in DOMAIN lines : lines[i] \in 1 .. done /\ lines[i] \in 1 .. done'
    BY <1>1 DEF Types, Behind
  <2>2. ASSUME NEW u \in Checkers
        PROVE  /\ count'[u] <= done'
               /\ pc'[u] = "show" => \A i \in DOMAIN lines : lines[i] < count'[u]
               /\ pc'[u] = "show" => count'[u] > 0
    <3>1. done \in Nat /\ done' \in Nat /\ done <= done' /\ count[u] \in Nat /\ count[u] <= done
      BY <1>1 DEF Types, Behind
    <3>2. CASE u = t
      <4>1. count'[t] \in {0, count[t]} \/ (count'[t] = done + 1 /\ done' = done + 1)
        BY <1>1
      <4>2. pc'[t] = "show" => count'[t] = done + 1
        BY <1>1
      <4> QED  BY ONLY <2>1, <3>1, <3>2, <4>1, <4>2
    <3>3. CASE u # t
      <4>1. count'[u] = count[u] /\ pc'[u] = pc[u]
        BY <3>3, OthersStay
      <4>2. pc[u] = "show" => (\A i \in DOMAIN lines : lines[i] < count[u]) /\ count[u] > 0
        BY DEF Behind
      <4> QED  BY ONLY <3>1, <4>1, <4>2
    <3> QED  BY <3>2, <3>3
  <2> QED  BY <1>1, <2>1, <2>2 DEF Types, Behind, LinesAscend
<1>2. ASSUME pc[t] = "show", done' = done, bottom' \in {bottom, 0, count[t]},
             lines' \in {lines, Append(lines, count[t])},
             pc'[t] # "show", count'[t] = 0
      PROVE  Behind'
  <2>1. \A u \in Checkers \ {t} : pc'[u] # "show" /\ count'[u] = count[u]
    BY <1>2, OthersStay DEF Exclusive
  <2>2. /\ \A i \in DOMAIN lines' : lines'[i] \in 1 .. done
        /\ \A i \in DOMAIN lines' : i > 1 => lines'[i - 1] < lines'[i]
    <3>1. CASE lines' = lines
      BY <3>1 DEF Behind, LinesAscend
    <3>2. CASE lines' = Append(lines, count[t])
      <4>1. /\ lines \in Seq(Nat) /\ done \in Nat
            /\ count[t] \in Nat /\ count[t] <= done /\ count[t] > 0
        BY <1>2 DEF Types, Behind
      <4>2. Len(lines) \in Nat /\ DOMAIN lines = 1 .. Len(lines)
        BY <4>1
      <4>3. /\ \A i \in 1 .. Len(lines) : lines[i] \in 1 .. done /\ lines[i] < count[t]
            /\ \A i \in 1 .. Len(lines) : i > 1 => lines[i - 1] < lines[i]
        BY <1>2, <4>2 DEF Behind, LinesAscend
      <4>4. /\ DOMAIN lines' = 1 .. Len(lines) + 1 /\ lines'[Len(lines) + 1] = count[t]
            /\ \A i \in 1 .. Len(lines) : lines'[i] = lines[i]
        BY ONLY <3>2, <4>1
      <4>5. ASSUME NEW i \in DOMAIN lines'
            PROVE  lines'[i] \in 1 .. done /\ (i > 1 => lines'[i - 1] < lines'[i])
        <5>1. CASE i \in 1 .. Len(lines)
          <6>1. i > 1 => i - 1 \in 1 .. Len(lines)
            BY ONLY <4>2, <5>1
          <6> QED  BY ONLY <4>3, <4>4, <5>1, <6>1
        <5>2. CASE i = Len(lines) + 1
          <6>1. i > 1 => i - 1 = Len(lines) /\ i - 1 \in 1 .. Len(lines)
            BY ONLY <4>2, <5>2
          <6>2. lines'[i] = count[t] /\ (i > 1 => lines'[i - 1] < count[t])
            BY ONLY <4>3, <4>4, <5>2, <6>1
          <6> QED  BY ONLY <4>1, <6>2
        <5>3. i \in 1 .. Len(lines) \/ i = Len(lines) + 1
          BY ONLY <4>2, <4>4, i \in DOMAIN lines'
        <5> QED  BY <5>1, <5>2, <5>3
      <4> QED  BY <4>5
    <3> QED  BY <1>2, <3>1, <3>2
  <2>3. bottom' <= done
    BY <1>2 DEF Behind, Types
  <2> QED  BY <1>2, <2>1, <2>2, <2>3 DEF Types, Behind, LinesAscend
<1>3. CASE CheckOne(t)
  BY <1>1, <1>3 DEF CheckOne, Move, display, Types
<1>4. CASE CountOnly(t)
  BY <1>1, <1>4 DEF CountOnly, Move, After, display, Types
<1>5. CASE Lock(t)
  BY <1>1, <1>5 DEF Lock, Move, display, Types
<1>6. CASE Count(t)
  BY <1>1, <1>6 DEF Count, Move, display, Types
<1>7. CASE Throttled(t)
  BY <1>2, <1>7 DEF Throttled, Release, Move, After, display, Types
<1>8. CASE Keep(t)
  BY <1>2, <1>8, EmitShown DEF Keep, Release, Move, After, Types
<1>9. CASE Show(t)
  BY <1>2, <1>9, EmitShown DEF Show, Release, Move, After, Types
<1> QED  BY <1>3, <1>4, <1>5, <1>6, <1>7, <1>8, <1>9 DEF Thread

LEMMA ThreadShown ==
  ASSUME Types, Shown, NEW t \in Checkers, Thread(t)
  PROVE  Shown'
<1>1. CASE Keep(t)
  BY <1>1, EmitShown DEF Shown, Keep
<1>2. CASE Show(t)
  BY <1>2, EmitShown DEF Shown, Show
<1>3. CASE UNCHANGED <<screen, display>>
  BY <1>3 DEF Shown, screen, display
<1> QED  BY <1>1, <1>2, <1>3 DEF Thread, CheckOne, CountOnly, Lock, Count, Throttled

LEMMA AllDeclars ==
  /\ IsFiniteSet(Checkers \X (1 .. PerThread))
  /\ Cardinality(Checkers \X (1 .. PerThread)) = Total
  /\ Total \in Nat
<1>1. IsFiniteSet(Checkers) /\ PerThread \in Nat
  BY ReporterAssumption DEF ReporterAssumption
<1>2. IsFiniteSet(1 .. PerThread) /\ Cardinality(1 .. PerThread) = PerThread
  BY <1>1, FS_Interval
<1>3. Cardinality(Checkers) \in Nat
  BY <1>1, FS_CardinalityType
<1>4. PerThread * Cardinality(Checkers) = Cardinality(Checkers) * PerThread
      /\ PerThread * Cardinality(Checkers) \in Nat
  BY <1>1, <1>3
<1>5. /\ IsFiniteSet(Checkers \X (1 .. PerThread))
      /\ Cardinality(Checkers \X (1 .. PerThread)) = Cardinality(Checkers) * Cardinality(1 .. PerThread)
  BY <1>1, <1>2, FS_Product
<1> QED  BY <1>2, <1>4, <1>5 DEF Total

LEMMA UncountedFinite ==
  ASSUME Types
  PROVE  /\ IsFiniteSet(Uncounted) /\ IsFiniteSet(Uncounted')
         /\ IsFiniteSet(CheckedDeclars)
<1>1. IsFiniteSet(Checkers)
  BY ReporterAssumption DEF ReporterAssumption
<1>2. IsFiniteSet(Uncounted) /\ IsFiniteSet(Uncounted')
  BY <1>1, FS_Subset DEF Uncounted
<1>3. CheckedDeclars \in SUBSET (Checkers \X (1 .. PerThread))
  BY DEF CheckedDeclars
<1> QED  BY <1>1, <1>2, <1>3, AllDeclars, FS_Subset

LEMMA ThreadCounted ==
  ASSUME Types, Counted, NEW t \in Checkers, Thread(t)
  PROVE  Counted'
<1> USE DEF Types
<1>1. CASE CheckOne(t)
  <2>1. CheckedDeclars' = CheckedDeclars \cup {<<t, left[t]>>} /\ <<t, left[t]>> \notin CheckedDeclars
    BY <1>1 DEF CheckOne, CheckedDeclars
  <2>2. Uncounted' = Uncounted \cup {t} /\ t \notin Uncounted
    BY <1>1 DEF CheckOne, Move, Uncounted
  <2>3. done' = done
    BY <1>1 DEF CheckOne
  <2>4. /\ Cardinality(CheckedDeclars') = Cardinality(CheckedDeclars) + 1
        /\ Cardinality(Uncounted') = Cardinality(Uncounted) + 1
    <3> HIDE DEF Types
    <3> QED  BY <2>1, <2>2, UncountedFinite, FS_AddElement
  <2>5. Cardinality(Uncounted) \in Nat
    BY UncountedFinite, FS_CardinalityType
  <2> QED  BY <2>3, <2>4, <2>5 DEF Counted
<1>2. CASE CountOnly(t) \/ Count(t)
  <2>1. Uncounted' = Uncounted \ {t} /\ t \in Uncounted
    BY <1>2 DEF CountOnly, Count, Move, After, Uncounted
  <2>2. done' = done + 1 /\ CheckedDeclars' = CheckedDeclars
    BY <1>2 DEF CountOnly, Count, CheckedDeclars
  <2>3. Cardinality(Uncounted') = Cardinality(Uncounted) - 1
    <3> HIDE DEF Types
    <3> QED  BY <2>1, UncountedFinite, FS_RemoveElement
  <2>4. Cardinality(Uncounted) \in Nat
    BY UncountedFinite, FS_CardinalityType
  <2> QED  BY <2>2, <2>3, <2>4 DEF Counted
<1>3. CASE Lock(t) \/ Throttled(t) \/ Keep(t) \/ Show(t)
  <2>1. Uncounted' = Uncounted
    BY <1>3 DEF Lock, Throttled, Keep, Show, Release, Move, After, Uncounted
  <2>2. done' = done /\ CheckedDeclars' = CheckedDeclars
    BY <1>3 DEF Lock, Throttled, Keep, Show, Release, CheckedDeclars
  <2> QED  BY <2>1, <2>2 DEF Counted
<1> QED  BY <1>1, <1>2, <1>3 DEF Thread

LEMMA ThreadIInv ==
  ASSUME ReporterInv, NEW t \in Checkers, Thread(t)
  PROVE  ReporterInv'
<1>1. ~finished /\ ~finished'
  <2>1. pc[t] # "unwound" /\ ~(pc[t] = "check" /\ left[t] = 0)
    BY DEF ReporterInv, Types, Thread, CheckOne, CountOnly, Lock, Count, Throttled, Keep, Show
  <2> QED  BY <2>1, OthersStay DEF ReporterInv, Types, AtEnd
<1> QED  BY <1>1, ThreadTypes, ThreadExclusive, ThreadBehind, ThreadShown, ThreadCounted
         DEF ReporterInv, AtEnd

LEMMA FinishIInv ==
  ASSUME ReporterInv, Finish
  PROVE  ReporterInv'
<1>0. /\ Types /\ Exclusive /\ Behind /\ Shown /\ Counted
      /\ lines \in Seq(Nat) /\ bottom \in Nat
  BY DEF ReporterInv, Types
<1>1. /\ garbled' = FALSE /\ out' \in BOOLEAN /\ lines' = lines
      /\ bottom' \in {bottom, 0} /\ (out' => bottom' = 0)
  <2>1. out => Uncleared = 0
    BY <1>0 DEF Shown, Uncleared
  <2>2. CASE out
    BY <1>0, <2>1, <2>2, EmitShown DEF Finish
  <2>3. CASE ~out
    BY <1>0, <2>3, EmitShown DEF Finish, Emit, display
  <2> QED  BY <2>2, <2>3
<1>2. UNCHANGED <<verbose, live, done, lock, live_at, pc, left, status, count>>
  BY DEF Finish, tvars
<1>3. Types'
  <2>1. lines' \in Seq(Nat) /\ bottom' \in Nat
    BY <1>0, <1>1
  <2> QED  BY <1>0, <1>1, <1>2, <2>1, Zenon DEF Types, Finish
<1>4. Exclusive' /\ Behind'
  <2>1. bottom' <= done
    BY <1>0, <1>1 DEF Types, Behind
  <2> QED  BY <1>0, <1>1, <1>2, <2>1 DEF Exclusive, Behind, LinesAscend
<1>5. Counted'
  BY <1>0, <1>2 DEF Counted, CheckedDeclars, Uncounted
<1>6. Shown'
  BY <1>1, Zenon DEF Shown
<1>7. AtEnd'
  BY <1>1, <1>2 DEF AtEnd, Finish
<1> QED  BY <1>3, <1>4, <1>5, <1>6, <1>7 DEF ReporterInv

-----------------------------------------------------------------------------
(* Theorems.                                                               *)

THEOREM ReporterInvariant == ReporterSpec => []ReporterInv
<1>1. ReporterInv /\ [ReporterNext]_reporterVars => ReporterInv'
  <2> SUFFICES ASSUME ReporterInv, [ReporterNext]_reporterVars PROVE ReporterInv'
    OBVIOUS
  <2>1. CASE UNCHANGED reporterVars
    BY <2>1 DEF reporterVars, screen, display, tvars, ReporterInv, Types, Exclusive,
                Behind, LinesAscend, Shown, Counted, CheckedDeclars, Uncounted, AtEnd
  <2>2. CASE \E t \in Checkers : Thread(t)
    BY <2>2, ThreadIInv
  <2>3. CASE Finish
    BY <2>3, FinishIInv
  <2> QED  BY <2>1, <2>2, <2>3 DEF ReporterNext, Ended
<1> QED  BY <1>1, InitIInv, PTL DEF ReporterSpec

(* The kept lines show counts that ascend, though the threads race to record
   and some count without the lock (Reporter::record). *)
THEOREM Ascending == ReporterSpec => []LinesAscend
<1>1. ReporterInv => LinesAscend
  BY DEF ReporterInv, Behind
<1> QED  BY <1>1, ReporterInvariant, PTL

(* No text is written after a live line that still shows; a run leaves none
   behind and has counted every declaration it checked (Reporter::finish). *)
THEOREM Readable == ReporterSpec => []Legible
<1>1. ReporterInv => Legible
  <2> SUFFICES ASSUME ReporterInv PROVE Legible
    OBVIOUS
  <2>1. ASSUME finished PROVE done = Checked
    <3>1. Uncounted = {}
      BY <2>1 DEF ReporterInv, AtEnd, Uncounted
    <3> QED  BY <3>1, FS_EmptySet DEF ReporterInv, Types, Counted, CheckedDeclars, Checked
  <2> QED  BY <2>1 DEF ReporterInv, Shown, AtEnd, Legible
<1> QED  BY <1>1, ReporterInvariant, PTL

(* The counts never pass the number of declarations given out. *)
THEOREM Typing == ReporterSpec => []TypeOK
<1>1. ReporterInv => TypeOK
  <2> SUFFICES ASSUME ReporterInv PROVE TypeOK
    OBVIOUS
  <2> USE DEF ReporterInv
  <2>1. done <= Total /\ Total \in Nat
    <3>2. CheckedDeclars \in SUBSET (Checkers \X (1 .. PerThread))
      BY DEF CheckedDeclars
    <3>3. Cardinality(CheckedDeclars) <= Total
      BY <3>2, AllDeclars, FS_Subset
    <3> QED  BY <3>3, AllDeclars, UncountedFinite, FS_CardinalityType DEF Counted, Types
  <2>2. {verbose, live, out, live_shown, live_at, finished, garbled} \subseteq BOOLEAN
    BY Zenon DEF Types
  <2>3. lock \in Checkers \cup {"free"}
    BY DEF Types
  <2> QED  BY <2>1, <2>2, <2>3 DEF Types, Behind, TypeOK
<1> QED  BY <1>1, ReporterInvariant, PTL
=============================================================================
