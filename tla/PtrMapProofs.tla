---------------------------- MODULE PtrMapProofs ----------------------------
(***************************************************************************)
(* Proofs about PtrMap, for every set of keys that fits the space of       *)
(* hashes, every hash and tag of theirs, every load, and computations      *)
(* nested to any depth.                                                    *)
(***************************************************************************)
EXTENDS PtrMap, LoopLemmas

-----------------------------------------------------------------------------
(* Arithmetic.                                                             *)

LEMMA ModRange ==
  ASSUME NEW x \in Nat, NEW n \in Nat, n > 0 PROVE x % n \in 0 .. n - 1
OBVIOUS

LEMMA DivMod ==
  ASSUME NEW x \in Nat, NEW n \in Nat, n > 0 PROVE x \div n \in Nat /\ x = (x \div n) * n + (x % n)
OBVIOUS

LEMMA ModOf ==
  ASSUME NEW q \in Nat, NEW r \in Nat, NEW n \in Nat, r < n PROVE (q * n + r) % n = r
OBVIOUS

\* Probing visits every slot: from wherever it starts, n steps of one.
LEMMA ModOnto ==
  ASSUME NEW h \in Nat, NEW n \in Nat, n > 0, NEW i \in 0 .. n - 1
  PROVE  \E d \in 0 .. n - 1 : (h + d) % n = i
<1> DEFINE q == h \div n
           r == h % n
<1>1. q \in Nat /\ r \in 0 .. n - 1 /\ h = q * n + r
  BY DivMod, ModRange
<1> HIDE DEF q, r
<1>2. CASE i >= r
  <2> DEFINE d == i - r
  <2>1. d \in 0 .. n - 1 /\ h + d = q * n + i
    BY <1>1, <1>2
  <2>2. (q * n + i) % n = i
    BY <1>1, ModOf
  <2> HIDE DEF d
  <2> QED  BY <2>1, <2>2
<1>3. CASE ~(i >= r)
  <2>1. (i - r) + n \in 0 .. n - 1
    BY <1>1, <1>3
  <2>2. h + ((i - r) + n) = (q + 1) * n + i
    BY <1>1
  <2>3. ((q + 1) * n + i) % n = i
    BY <1>1, ModOf
  <2> DEFINE d == (i - r) + n
  <2>4. (h + d) % n = i
    BY <2>2, <2>3
  <2> HIDE DEF d
  <2>5. d \in 0 .. n - 1
    BY <2>1 DEF d
  <2> QED  BY <2>4, <2>5
<1> QED  BY <1>2, <1>3

\* Epochs that wrap meet again only after EpochSize moves.
LEMMA ModAgain ==
  ASSUME NEW e \in Nat, NEW j \in Nat, NEW n \in Nat, e < n, j < n, (e + j) % n = e
  PROVE  j = 0
OBVIOUS

LEMMA ModNext ==
  ASSUME NEW e \in Nat, NEW j \in Nat, NEW n \in Nat, e < n, j + 1 < n
  PROVE  (((e + j) % n) + 1) % n = (e + (j + 1)) % n
<1>1. CASE e + j < n
  BY <1>1
<1>2. CASE e + j >= n
  <2>1. (e + j) % n = e + j - n
    BY <1>2
  <2>2. (e + (j + 1)) % n = e + j + 1 - n
    BY <1>2
  <2>3. (e + j - n + 1) % n = e + j - n + 1
    BY <1>2
  <2> QED  BY <2>1, <2>2, <2>3
<1> QED  BY <1>1, <1>2

-----------------------------------------------------------------------------
(* Tables.                                                                 *)

Marks == {VACANT} \cup {Tag[k] : k \in Keys}
Slot  == [key : Keys \cup {None}, val : Vals \cup {None}]
Entry == [key : Keys, val : Vals]

Tables(n) == [tags : [0 .. n - 1 -> Marks], slots : [0 .. n - 1 -> Slot]]

\* Where a table holds entries, and which.
Filled(t) == {i \in DOMAIN t.tags : t.tags[i] # VACANT}
Stored(t) == {t.slots[i] : i \in Filled(t)}

\* Slot i can be reached from k through slots that are taken.
Reached(t, n, k, i) ==
  \E d \in 0 .. n - 1 : At(k, d, n) = i /\ \A e \in 0 .. d - 1 : t.tags[At(k, e, n)] # VACANT

\* What makes a table of n slots one of linear probing.
Placed(t, n) ==
  /\ t \in Tables(n)
  /\ \A i \in Filled(t) : t.slots[i] \in Entry /\ t.tags[i] = Tag[t.slots[i].key]
  /\ \A i, j \in Filled(t) : t.slots[i].key = t.slots[j].key => i = j
  /\ \A i \in Filled(t) : Reached(t, n, t.slots[i].key, i)

\* The first vacant slot a key that is not stored meets.
Gap(t, n, k, i) ==
  /\ Reached(t, n, k, i)
  /\ \A s \in Stored(t) : s.key # k

LEMMA AtRange ==
  ASSUME NEW n \in 1 .. HashSize, NEW k \in Keys, NEW d \in Nat
  PROVE  At(k, d, n) \in 0 .. n - 1
<1>1. n \in Nat /\ n > 0 /\ HashSize \in Nat /\ Hash[k] \in Nat
  BY PtrMapAssumption
<1>2. HashSize \div n \in Nat /\ HashSize \div n > 0
  BY <1>1
<1>3. Hash[k] \div (HashSize \div n) \in Nat
  BY <1>1, <1>2, DivMod
<1>4. Hash[k] \div (HashSize \div n) + d \in Nat
  BY <1>3
<1> QED  BY <1>1, <1>4, ModRange DEF At

LEMMA AtOnto ==
  ASSUME NEW n \in 1 .. HashSize, NEW k \in Keys, NEW i \in 0 .. n - 1
  PROVE  \E d \in 0 .. n - 1 : At(k, d, n) = i
<1>1. n \in Nat /\ n > 0 /\ HashSize \in Nat /\ Hash[k] \in Nat
  BY PtrMapAssumption
<1>2. HashSize \div n \in Nat /\ HashSize \div n > 0
  BY <1>1
<1>3. Hash[k] \div (HashSize \div n) \in Nat
  BY <1>1, <1>2, DivMod
<1> QED  BY <1>1, <1>3, ModOnto DEF At

LEMMA LeastIs ==
  ASSUME NEW T \in SUBSET Nat, T # {}
  PROVE  Least(T) \in T /\ \A m \in T : Least(T) <= m
BY LeastNat DEF Least

LEMMA SizeIs ==
  ASSUME NEW n \in Nat, NEW S, NEW f \in [0 .. n - 1 -> S]
  PROVE  SizeOf(f) = n
<1>1. DOMAIN f = 0 .. n - 1
  OBVIOUS
<1>2. Cardinality(0 .. n - 1) = n
  <2>1. Cardinality(0 .. n - 1) = IF 0 > n - 1 THEN 0 ELSE n - 1 - 0 + 1
    BY FS_Interval
  <2> QED  BY <2>1
<1> QED  BY <1>1, <1>2 DEF SizeOf

LEMMA FilledFinite ==
  ASSUME NEW n \in Nat, NEW t \in Tables(n)
  PROVE  /\ Filled(t) \subseteq 0 .. n - 1 /\ IsFiniteSet(Filled(t))
         /\ Cardinality(Filled(t)) \in Nat /\ Cardinality(Filled(t)) <= n
<1>1. Filled(t) \subseteq 0 .. n - 1
  BY DEF Filled, Tables
<1>2. IsFiniteSet(0 .. n - 1) /\ Cardinality(0 .. n - 1) = n
  <2>1. /\ IsFiniteSet(0 .. n - 1)
        /\ Cardinality(0 .. n - 1) = IF 0 > n - 1 THEN 0 ELSE n - 1 - 0 + 1
    BY FS_Interval
  <2> QED  BY <2>1
<1>3. IsFiniteSet(Filled(t)) /\ Cardinality(Filled(t)) <= Cardinality(0 .. n - 1)
  BY <1>1, <1>2, FS_Subset
<1>4. Cardinality(Filled(t)) \in Nat
  BY <1>3, FS_CardinalityType
<1> QED  BY <1>1, <1>2, <1>3, <1>4

\* A table that is not full has a gap for every key.
LEMMA GapThere ==
  ASSUME NEW n \in 1 .. HashSize, NEW t \in Tables(n), Cardinality(Filled(t)) < n, NEW k \in Keys
  PROVE  \E d \in 0 .. n - 1 : t.tags[At(k, d, n)] = VACANT
<1>0. n \in Nat
  BY PtrMapAssumption
<1>1. SUFFICES ASSUME \A d \in 0 .. n - 1 : t.tags[At(k, d, n)] # VACANT
               PROVE  FALSE
  OBVIOUS
<1>2. \A i \in 0 .. n - 1 : i \in Filled(t)
  BY <1>1, AtOnto DEF Filled, Tables
<1>3. Filled(t) = 0 .. n - 1
  BY <1>0, <1>2, FilledFinite
<1>4. Cardinality(0 .. n - 1) = n
  <2>1. Cardinality(0 .. n - 1) = IF 0 > n - 1 THEN 0 ELSE n - 1 - 0 + 1
    BY FS_Interval
  <2> QED  BY <2>1, <1>0
<1> QED  BY <1>0, <1>3, <1>4

\* Filling the gap a key meets keeps the table one of linear probing and adds
\* its entry.
LEMMA FillKeeps ==
  ASSUME NEW n \in 1 .. HashSize, NEW t, Placed(t, n), NEW s \in Entry,
         NEW i, Gap(t, n, s.key, i), t.tags[i] = VACANT,
         NEW u, u = [tags |-> [t.tags EXCEPT ![i] = Tag[s.key]], slots |-> [t.slots EXCEPT ![i] = s]]
  PROVE  /\ Placed(u, n) /\ i \in 0 .. n - 1 /\ i \notin Filled(t)
         /\ Filled(u) = Filled(t) \cup {i} /\ Stored(u) = Stored(t) \cup {s}
<1>0. n \in Nat /\ s.key \in Keys /\ s.val \in Vals /\ Tag[s.key] # VACANT
  BY PtrMapAssumption DEF Entry, VACANT
<1>1. i \in 0 .. n - 1
  <2>1. PICK d \in 0 .. n - 1 : At(s.key, d, n) = i
    BY DEF Gap, Reached
  <2> QED  BY <2>1, <1>0, AtRange
<1>2. /\ t.tags \in [0 .. n - 1 -> Marks] /\ t.slots \in [0 .. n - 1 -> Slot]
      /\ DOMAIN u.tags = 0 .. n - 1 /\ DOMAIN t.tags = 0 .. n - 1
      /\ u.tags[i] = Tag[s.key] /\ u.slots[i] = s
      /\ \A j \in 0 .. n - 1 : j # i => u.tags[j] = t.tags[j] /\ u.slots[j] = t.slots[j]
  BY <1>1 DEF Placed, Tables
<1>3. u \in Tables(n)
  <2>1. Tag[s.key] \in Marks /\ s \in Slot
    BY <1>0 DEF Marks, Slot, Entry
  <2> QED  BY <2>1, <1>2 DEF Tables
<1>4. Filled(u) = Filled(t) \cup {i} /\ i \notin Filled(t)
  BY <1>0, <1>1, <1>2 DEF Filled
<1>5. \A j \in Filled(t) : u.slots[j] = t.slots[j] /\ u.tags[j] = t.tags[j] /\ j \in 0 .. n - 1
  BY <1>2, <1>4 DEF Filled
<1>6. Stored(u) = Stored(t) \cup {s}
  <2>1. \A j \in Filled(u) : j = i \/ j \in Filled(t)
    BY <1>4
  <2>2. Stored(u) \subseteq Stored(t) \cup {s}
    <3> SUFFICES ASSUME NEW j \in Filled(u) PROVE u.slots[j] \in Stored(t) \cup {s}
      BY DEF Stored
    <3> QED  BY <2>1, <1>2, <1>5 DEF Stored
  <2>3. Stored(t) \subseteq Stored(u)
    <3> SUFFICES ASSUME NEW j \in Filled(t) PROVE t.slots[j] \in Stored(u)
      BY DEF Stored
    <3>1. j \in Filled(u) /\ t.slots[j] = u.slots[j]
      BY <1>4, <1>5
    <3> QED  BY <3>1 DEF Stored
  <2>4. s \in Stored(u)
    <3>1. i \in Filled(u) /\ s = u.slots[i]
      BY <1>2, <1>4
    <3> QED  BY <3>1 DEF Stored
  <2> QED  BY <2>2, <2>3, <2>4
<1>7. \A j \in Filled(u) : u.slots[j] \in Entry /\ u.tags[j] = Tag[u.slots[j].key]
  BY <1>2, <1>4, <1>5 DEF Placed
<1>8. \A j, m \in Filled(u) : u.slots[j].key = u.slots[m].key => j = m
  <2>1. \A j \in Filled(t) : t.slots[j].key # s.key
    BY DEF Gap, Stored
  <2> QED  BY <2>1, <1>2, <1>4, <1>5 DEF Placed
<1>9. ASSUME NEW j \in Filled(u) PROVE Reached(u, n, u.slots[j].key, j)
  <2>1. PICK k \in Keys : k = u.slots[j].key
    BY <1>7, <1>9 DEF Entry
  <2>2. Reached(t, n, k, j)
    <3>1. CASE j = i
      <4>1. k = s.key
        BY <3>1, <2>1, <1>2
      <4> QED  BY <3>1, <4>1 DEF Gap
    <3>2. CASE j \in Filled(t)
      <4>1. k = t.slots[j].key
        BY <3>2, <2>1, <1>5
      <4> QED  BY <3>2, <4>1 DEF Placed
    <3> QED  BY <3>1, <3>2, <1>4
  <2>3. PICK d \in 0 .. n - 1 : At(k, d, n) = j /\ \A e \in 0 .. d - 1 : t.tags[At(k, e, n)] # VACANT
    BY <2>2 DEF Reached
  <2>4. \A e \in 0 .. d - 1 : At(k, e, n) \in 0 .. n - 1
    BY <1>0, AtRange
  <2>5. \A e \in 0 .. d - 1 : u.tags[At(k, e, n)] # VACANT
    BY <2>3, <2>4, <1>0, <1>2
  <2> QED  BY <2>1, <2>3, <2>5 DEF Reached
<1> QED  BY <1>1, <1>3, <1>4, <1>6, <1>7, <1>8, <1>9 DEF Placed

LEMMA FilledOne ==
  ASSUME NEW n \in 1 .. HashSize, NEW t, Placed(t, n), NEW i \in 0 .. n - 1, i \notin Filled(t),
         NEW u, Filled(u) = Filled(t) \cup {i}
  PROVE  Cardinality(Filled(u)) = Cardinality(Filled(t)) + 1
<1>1. n \in Nat /\ t \in Tables(n)
  BY PtrMapAssumption DEF Placed
<1>2. IsFiniteSet(Filled(t))
  BY <1>1, FilledFinite
<1> QED  BY <1>2, FS_AddElement

\* grow's inner loop, for one entry.
LEMMA SettledKeeps ==
  ASSUME NEW n \in 1 .. HashSize, NEW t, Placed(t, n), Cardinality(Filled(t)) < n,
         NEW s \in Entry, \A e \in Stored(t) : e.key # s.key
  PROVE  /\ Placed(Settled(t, s), n) /\ Stored(Settled(t, s)) = Stored(t) \cup {s}
         /\ Cardinality(Filled(Settled(t, s))) = Cardinality(Filled(t)) + 1
<1>0. n \in Nat /\ t \in Tables(n) /\ s.key \in Keys
  BY PtrMapAssumption DEF Placed, Entry
<1>1. SizeOf(t.tags) = n
  BY <1>0, SizeIs DEF Tables
<1> DEFINE gap == {d \in 0 .. n - 1 : t.tags[At(s.key, d, n)] = VACANT}
           i   == At(s.key, Least(gap), n)
<1>2. gap \in SUBSET Nat /\ gap # {}
  BY <1>0, GapThere
<1>3. Least(gap) \in gap /\ \A m \in gap : Least(gap) <= m
  <2> HIDE DEF gap
  <2> QED  BY <1>2, LeastIs
<1>4. Settled(t, s) = [tags |-> [t.tags EXCEPT ![i] = Tag[s.key]], slots |-> [t.slots EXCEPT ![i] = s]]
  BY <1>1 DEF Settled
<1>5. t.tags[i] = VACANT
  BY <1>3
<1>6. Gap(t, n, s.key, i)
  <2>1. Least(gap) \in 0 .. n - 1
    BY <1>3
  <2>2. ASSUME NEW e \in 0 .. Least(gap) - 1 PROVE t.tags[At(s.key, e, n)] # VACANT
    <3>1. e \in 0 .. n - 1 /\ ~(Least(gap) <= e)
      <4>1. Least(gap) \in Nat
        BY <2>1, <1>0
      <4> HIDE DEF gap
      <4> QED  BY <2>1, <4>1, <1>0
    <3>2. e \notin gap
      BY <3>1, <1>3
    <3> QED  BY <3>1, <3>2
  <2> HIDE DEF gap
  <2>3. Reached(t, n, s.key, i)
    BY <2>1, <2>2 DEF Reached
  <2> QED  BY <2>3 DEF Gap
<1> HIDE DEF i
<1>7. /\ Placed(Settled(t, s), n) /\ i \in 0 .. n - 1 /\ i \notin Filled(t)
      /\ Filled(Settled(t, s)) = Filled(t) \cup {i} /\ Stored(Settled(t, s)) = Stored(t) \cup {s}
  BY <1>4, <1>5, <1>6, FillKeeps
<1> QED  BY <1>7, FilledOne

LEMMA NewTable ==
  ASSUME NEW n \in Nat
  PROVE  LET t == [tags |-> Empty(n), slots |-> Fresh(n)]
         IN  t \in Tables(n) /\ Filled(t) = {} /\ Stored(t) = {} /\ Placed(t, n)
<1> DEFINE t == [tags |-> Empty(n), slots |-> Fresh(n)]
<1>1. t \in Tables(n)
  BY DEF Tables, Empty, Fresh, Uninit, Marks, Slot
<1>2. Filled(t) = {}
  BY DEF Filled, Empty
<1>3. Stored(t) = {}
  BY <1>2 DEF Stored
<1> HIDE DEF t
<1>4. Placed(t, n)
  BY <1>1, <1>2 DEF Placed
<1> QED  BY <1>1, <1>2, <1>3, <1>4 DEF t

LEMMA SettledTable ==
  ASSUME NEW n \in Nat, NEW t \in Tables(n), NEW s \in Entry
  PROVE  Settled(t, s) \in Tables(n)
<1>1. Tag[s.key] \in Marks /\ s \in Slot
  BY DEF Marks, Slot, Entry
<1>2. \A i : /\ [t.tags EXCEPT ![i] = Tag[s.key]] \in [0 .. n - 1 -> Marks]
             /\ [t.slots EXCEPT ![i] = s] \in [0 .. n - 1 -> Slot]
  BY <1>1 DEF Tables
<1> QED  BY <1>2 DEF Settled, Tables

\* grow: the table of twice the size holds the same entries.
LEMMA RehashedKeeps ==
  ASSUME NEW n \in 1 .. HashSize, 2 * n <= HashSize, NEW t, Placed(t, n)
  PROVE  LET u == Rehashed(t.tags, t.slots, n)
         IN  /\ Placed(u, 2 * n) /\ Stored(u) = Stored(t)
             /\ Cardinality(Filled(u)) = Cardinality(Filled(t))
<1> DEFINE base == [tags |-> Empty(2 * n), slots |-> Fresh(2 * n)]
           turn(f, i) == IF i = 0 THEN base
                         ELSE IF t.tags[i - 1] = VACANT THEN f[i - 1]
                         ELSE Settled(f[i - 1], t.slots[i - 1])
           M == CHOOSE f : f = [i \in 0 .. n |-> turn(f, i)]
           u == Rehashed(t.tags, t.slots, n)
<1>0. n \in Nat /\ n > 0 /\ 2 * n \in Nat /\ 2 * n \in 1 .. HashSize /\ t \in Tables(n)
      /\ DOMAIN t.tags = 0 .. n - 1 /\ Filled(t) \subseteq 0 .. n - 1 /\ IsFiniteSet(Filled(t))
  <2>1. n \in Nat /\ n > 0 /\ 2 * n \in Nat /\ 2 * n \in 1 .. HashSize
    BY PtrMapAssumption
  <2>2. t \in Tables(n)
    BY DEF Placed
  <2>3. DOMAIN t.tags = 0 .. n - 1
    BY <2>2 DEF Tables
  <2> QED  BY <2>1, <2>2, <2>3, FilledFinite
<1>1. u = M[n]
  BY DEF Rehashed
<1>2. M = [i \in 0 .. n |-> turn(M, i)]
  <2> DEFINE step == [p \in Tables(2 * n) \X (1 .. n) |->
                        IF t.tags[p[2] - 1] = VACANT THEN p[1]
                        ELSE Settled(p[1], t.slots[p[2] - 1])]
  <2>1. base \in Tables(2 * n)
    BY <1>0, NewTable
  <2>2. step \in [Tables(2 * n) \X (1 .. n) -> Tables(2 * n)]
    <3> SUFFICES ASSUME NEW p \in Tables(2 * n) \X (1 .. n), t.tags[p[2] - 1] # VACANT
                 PROVE  Settled(p[1], t.slots[p[2] - 1]) \in Tables(2 * n)
      OBVIOUS
    <3>1. p[2] - 1 \in Filled(t)
      BY <1>0 DEF Filled
    <3>2. t.slots[p[2] - 1] \in Entry
      BY <3>1 DEF Placed
    <3> QED  BY <3>2, <1>0, SettledTable
  <2> HIDE DEF base, step
  <2>3. PICK f \in [0 .. n -> Tables(2 * n)] :
          f[0] = base /\ \A i \in 1 .. n : f[i] = step[<<f[i - 1], i>>]
    <3>1. \E f : IsRun(f, Tables(2 * n), base, n, step)
      BY <1>0, <2>1, <2>2, RecursionExists
    <3> QED  BY <3>1 DEF IsRun
  <2>4. ASSUME NEW i \in 1 .. n
        PROVE  step[<<f[i - 1], i>>] = IF t.tags[i - 1] = VACANT THEN f[i - 1]
                                       ELSE Settled(f[i - 1], t.slots[i - 1])
    <3>1. f[i - 1] \in Tables(2 * n)
      BY <1>0
    <3> QED  BY <3>1 DEF step
  <2>5. \A i \in 0 .. n : f[i] = turn(f, i)
    <3>1. f[0] = turn(f, 0)
      BY <2>3
    <3>2. ASSUME NEW i \in 1 .. n PROVE f[i] = turn(f, i)
      <4>1. i # 0 /\ f[i] = step[<<f[i - 1], i>>]
        BY <2>3
      <4> QED  BY <2>4, <4>1
    <3> QED  BY <3>1, <3>2, <1>0
  <2>6. f = [i \in 0 .. n |-> turn(f, i)]
    BY <2>5
  <2> HIDE DEF turn
  <2> QED  BY <2>6
<1> DEFINE Done(m) == Filled(t) \cap (0 .. m - 1)
           Right == {m \in 0 .. n : /\ Placed(M[m], 2 * n)
                                    /\ Stored(M[m]) = {t.slots[j] : j \in Done(m)}
                                    /\ Cardinality(Filled(M[m])) = Cardinality(Done(m))}
<1> HIDE DEF M, u
<1>3. 0 \in Right
  <2>1. M[0] = base
    BY <1>0, <1>2
  <2>2. Placed(base, 2 * n) /\ Stored(base) = {} /\ Filled(base) = {}
    BY <1>0, NewTable
  <2>3. Done(0) = {}
    BY <1>0
  <2> HIDE DEF base, Done
  <2>4. {t.slots[j] : j \in Done(0)} = {}
    BY <2>3
  <2>5. 0 \in 0 .. n
    BY <1>0
  <2> QED  BY <2>1, <2>2, <2>3, <2>4, <2>5 DEF Stored
<1>4. ASSUME NEW m \in 0 .. n - 1, m \in Right PROVE m + 1 \in Right
  <2>0. m \in Nat /\ m + 1 \in 0 .. n /\ m + 1 # 0 /\ (m + 1) - 1 = m /\ m < n
    BY <1>0
  <2>1. M[m + 1] = IF t.tags[m] = VACANT THEN M[m] ELSE Settled(M[m], t.slots[m])
    <3>1. M[m + 1] = turn(M, m + 1)
      <4> HIDE DEF turn
      <4> QED  BY <2>0, <1>2
    <3> QED  BY <3>1, <2>0
  <2>2. /\ Placed(M[m], 2 * n) /\ Stored(M[m]) = {t.slots[j] : j \in Done(m)}
        /\ Cardinality(Filled(M[m])) = Cardinality(Done(m))
    BY <1>4
  <2>3. CASE t.tags[m] = VACANT
    <3>1. Done(m + 1) = Done(m)
      BY <2>0, <2>3, <1>0 DEF Filled
    <3> HIDE DEF Done
    <3> QED  BY <2>0, <2>1, <2>2, <2>3, <3>1
  <2>4. CASE t.tags[m] # VACANT
    <3>1. m \in Filled(t) /\ Done(m + 1) = Done(m) \cup {m} /\ m \notin Done(m)
      BY <2>0, <2>4, <1>0 DEF Filled
    <3>2. t.slots[m] \in Entry
      BY <3>1 DEF Placed
    <3>3. \A e \in Stored(M[m]) : e.key # t.slots[m].key
      BY <2>2, <3>1 DEF Placed
    <3>4. IsFiniteSet(Done(m)) /\ Cardinality(Done(m)) <= n /\ Cardinality(Done(m)) \in Nat
      <4>1. IsFiniteSet(Done(m)) /\ Cardinality(Done(m)) <= Cardinality(Filled(t))
        BY <1>0, FS_Subset
      <4>2. Cardinality(Filled(t)) <= n /\ Cardinality(Filled(t)) \in Nat /\ Cardinality(Done(m)) \in Nat
        BY <1>0, <4>1, FilledFinite, FS_CardinalityType
      <4> QED  BY <4>1, <4>2, <1>0
    <3>5. Cardinality(Filled(M[m])) < 2 * n
      BY <3>4, <2>2, <1>0
    <3>6. /\ Placed(M[m + 1], 2 * n) /\ Stored(M[m + 1]) = Stored(M[m]) \cup {t.slots[m]}
          /\ Cardinality(Filled(M[m + 1])) = Cardinality(Filled(M[m])) + 1
      BY <2>1, <2>2, <2>4, <3>2, <3>3, <3>5, <1>0, SettledKeeps
    <3>7. Cardinality(Done(m + 1)) = Cardinality(Done(m)) + 1
      BY <3>1, <3>4, FS_AddElement
    <3> HIDE DEF Done
    <3>8. {t.slots[j] : j \in Done(m + 1)} = {t.slots[j] : j \in Done(m)} \cup {t.slots[m]}
      BY <3>1
    <3> QED  BY <2>0, <2>2, <3>6, <3>7, <3>8
  <2> QED  BY <2>3, <2>4
<1>5. n \in Right
  <2> HIDE DEF Right
  <2>1. 0 .. n \subseteq Right
    BY <1>0, <1>3, <1>4, SetInduction
  <2> QED  BY <2>1, <1>0
<1>6. Done(n) = Filled(t)
  BY <1>0
<1> HIDE DEF Done
<1> QED  BY <1>1, <1>5, <1>6 DEF Stored, u

-----------------------------------------------------------------------------
(* Sizes and limits.                                                       *)

\* A table is never full, and one that has moved has room for more.
LEMMA LimitIs ==
  ASSUME NEW n \in Nat, n > 0
  PROVE  GrowLimit(n) \in Nat /\ GrowLimit(n) < n
<1> DEFINE q == n \div Unit
<1>0. Unit \in Nat /\ Unit > 0 /\ Fill \in Nat /\ Fill < Unit
  BY PtrMapAssumption
<1>1. q \in Nat /\ n % Unit \in Nat /\ n = q * Unit + (n % Unit)
  BY <1>0, DivMod, ModRange
<1> HIDE DEF q
<1>2. q * Fill \in Nat /\ q * Unit \in Nat
  BY <1>0, <1>1
<1>3. q * Fill <= q * Unit /\ (q # 0 => q * Fill < q * Unit)
  BY <1>0, <1>1
<1>4. q = 0 => q * Fill = 0
  BY <1>0
<1>5. q * Fill < n
  BY <1>1, <1>2, <1>3, <1>4
<1> QED  BY <1>2, <1>5 DEF GrowLimit, q

LEMMA LimitGrows ==
  ASSUME NEW n \in Nat, n >= Floor
  PROVE  GrowLimit(n) + 1 <= GrowLimit(2 * n)
<1> DEFINE q == n \div Unit
           p == (2 * n) \div Unit
<1>0. Unit \in Nat /\ Unit > 0 /\ Fill \in Nat /\ Fill >= 1 /\ Unit <= 2 * n
  BY PtrMapAssumption
<1>1. q \in Nat /\ p \in Nat
  BY <1>0, DivMod
<1>2. p >= 2 * q /\ p >= 1
  BY <1>0
<1>3. p >= q + 1
  BY <1>1, <1>2
<1> HIDE DEF p, q
<1>4. p * Fill >= (q + 1) * Fill
  BY <1>0, <1>1, <1>3
<1>5. (q + 1) * Fill = q * Fill + Fill /\ q * Fill \in Nat /\ p * Fill \in Nat
  BY <1>0, <1>1
<1>6. q * Fill + 1 <= p * Fill
  BY <1>0, <1>4, <1>5
<1> QED  BY <1>6 DEF GrowLimit, p, q

LEMMA DoubledIs ==
  /\ Doubled[0] = Floor
  /\ \A j \in 1 .. EpochSize : Doubled[j] = 2 * Doubled[j - 1]
  /\ \A j \in 0 .. EpochSize : Doubled[j] \in Nat
<1> DEFINE step == [p \in Nat \X (1 .. EpochSize) |-> 2 * p[1]]
<1>0. EpochSize \in Nat /\ Floor \in Nat
  BY PtrMapAssumption
<1>1. step \in [Nat \X (1 .. EpochSize) -> Nat]
  OBVIOUS
<1> HIDE DEF step
<1>2. PICK f : IsRun(f, Nat, Floor, EpochSize, step)
  BY <1>0, <1>1, RecursionExists
<1>3. f \in [0 .. EpochSize -> Nat] /\ f[0] = Floor /\ \A j \in 1 .. EpochSize : f[j] = 2 * f[j - 1]
  <2>1. ASSUME NEW j \in 1 .. EpochSize PROVE step[<<f[j - 1], j>>] = 2 * f[j - 1]
    <3>1. f[j - 1] \in Nat
      BY <1>0, <1>2 DEF IsRun
    <3> QED  BY <3>1 DEF step
  <2> QED  BY <1>2, <2>1 DEF IsRun
<1>4. f = [j \in 0 .. EpochSize |-> IF j = 0 THEN Floor ELSE 2 * f[j - 1]]
  <2>1. \A j \in 0 .. EpochSize : f[j] = IF j = 0 THEN Floor ELSE 2 * f[j - 1]
    BY <1>0, <1>3
  <2> QED  BY <1>3, <2>1
<1>5. Doubled = [j \in 0 .. EpochSize |-> IF j = 0 THEN Floor ELSE 2 * Doubled[j - 1]]
  BY <1>4 DEF Doubled
<1>6. Doubled[0] = Floor /\ \A j \in 1 .. EpochSize : Doubled[j] = 2 * Doubled[j - 1]
  <2>1. 0 \in 0 .. EpochSize /\ \A j \in 1 .. EpochSize : j \in 0 .. EpochSize /\ j # 0
    BY <1>0
  <2> QED  BY <1>5, <2>1
<1> DEFINE Good == {j \in 0 .. EpochSize : Doubled[j] \in Nat}
<1>7. 0 \in Good
  BY <1>0, <1>6
<1>8. ASSUME NEW j \in 0 .. EpochSize - 1, j \in Good PROVE j + 1 \in Good
  <2>1. j + 1 \in 1 .. EpochSize /\ (j + 1) - 1 = j
    BY <1>0
  <2>2. Doubled[j + 1] = 2 * Doubled[j]
    BY <1>6, <2>1
  <2> QED  BY <1>0, <1>8, <2>1, <2>2
<1>9. 0 .. EpochSize \subseteq Good
  <2> HIDE DEF Good
  <2> QED  BY <1>0, <1>7, <1>8, SetInduction
<1> QED  BY <1>6, <1>9

\* No table holds more entries than there are keys.
LEMMA KeysFit ==
  ASSUME NEW n \in Nat, NEW t, Placed(t, n)
  PROVE  Cardinality(Filled(t)) <= Cardinality(Keys)
<1> DEFINE f == [i \in Filled(t) |-> t.slots[i].key]
<1>1. f \in [Filled(t) -> Keys]
  BY DEF Placed, Entry
<1>2. f \in Injection(Filled(t), Keys)
  BY <1>1 DEF Placed, Injection, IsInjective
<1> QED  BY <1>2, PtrMapAssumption, FS_Injection

-----------------------------------------------------------------------------
(* The inductive invariant.  TableInv: the table is one of linear probing, *)
(* never full.  PlaceInv: since a find left place f the entries moved some *)
(* j times, too few for the epoch to come round, and a place no move has   *)
(* made stale is, while vacant, the first gap of its key.                  *)

Table == [tags |-> tags, slots |-> slots]
Size  == SizeOf(tags)

TableInv ==
  /\ Size \in Floor .. HashSize
  /\ Placed(Table, Size)
  /\ len = Cardinality(Filled(Table)) /\ limit = GrowLimit(Size) /\ len <= limit
  /\ epoch \in 0 .. EpochSize - 1

Place == [key : Keys, at : Nat, epoch : 0 .. EpochSize - 1]

PlaceInv(f) ==
  \E j \in 0 .. EpochSize - 1 :
    /\ Doubled[j] <= Size
    /\ epoch = (f.epoch + j) % EpochSize
    /\ j = 0 => f.at \in DOMAIN tags /\ (tags[f.at] = VACANT => Gap(Table, Size, f.key, f.at))

IInv ==
  /\ TableInv
  /\ frames \in Seq(Place) /\ \A j \in DOMAIN frames : PlaceInv(frames[j])
  /\ got \in Vals \cup {None}

LEMMA TableIs ==
  ASSUME TableInv
  PROVE  /\ Size \in Nat /\ Size > 0 /\ Size \in 1 .. HashSize /\ Size >= Floor
         /\ DOMAIN tags = 0 .. Size - 1 /\ DOMAIN slots = 0 .. Size - 1
         /\ Table \in Tables(Size) /\ Table.tags = tags /\ Table.slots = slots
         /\ Filled(Table) = Occupied /\ Stored(Table) = Entries
         /\ len \in Nat /\ limit \in Nat /\ len <= limit /\ limit < Size
         /\ Cardinality(Filled(Table)) < Size
<1>1. Size \in Nat /\ Size > 0 /\ Size \in 1 .. HashSize /\ Size >= Floor
  BY PtrMapAssumption DEF TableInv
<1>2. Table \in Tables(Size) /\ Table.tags = tags /\ Table.slots = slots
  BY DEF TableInv, Placed, Table
<1>3. DOMAIN tags = 0 .. Size - 1 /\ DOMAIN slots = 0 .. Size - 1
  BY <1>2 DEF Tables
<1>4. Filled(Table) = Occupied /\ Stored(Table) = Entries
  BY <1>2 DEF Filled, Stored, Occupied, Entries
<1>5. len \in Nat /\ limit \in Nat /\ len <= limit /\ limit < Size
  BY <1>1, <1>2, FilledFinite, LimitIs DEF TableInv
<1>6. Cardinality(Filled(Table)) < Size
  BY <1>1, <1>5 DEF TableInv
<1> QED  BY <1>1, <1>2, <1>3, <1>4, <1>5, <1>6

\* The loop of find and insert ends, at the key or at its gap.
LEMMA ProbeIs ==
  ASSUME TableInv, NEW k \in Keys
  PROVE  /\ Probe(k) \in 0 .. Size - 1
         /\ tags[Probe(k)] = VACANT => Gap(Table, Size, k, Probe(k))
         /\ tags[Probe(k)] # VACANT => slots[Probe(k)].key = k
<1> DEFINE n == Size
           d == Least(Stops(k))
<1>1. Stops(k) = {e \in 0 .. n - 1 : tags[At(k, e, n)] = VACANT \/ Holds(At(k, e, n), k)}
  BY DEF Stops, Size
<1>2. Stops(k) \in SUBSET Nat /\ Stops(k) # {}
  BY <1>1, TableIs, GapThere
<1>3. d \in Stops(k) /\ \A e \in Stops(k) : d <= e
  BY <1>2, LeastIs
<1>4. Probe(k) = At(k, d, n) /\ d \in 0 .. n - 1 /\ n \in Nat
  BY <1>1, <1>3, TableIs DEF Probe, Size
<1> HIDE DEF d, n
<1>5. Probe(k) \in 0 .. n - 1
  BY <1>4, TableIs, AtRange DEF n
<1>6. ASSUME NEW e \in 0 .. d - 1
      PROVE  tags[At(k, e, n)] # VACANT /\ ~Holds(At(k, e, n), k)
  <2>1. e \in 0 .. n - 1 /\ ~(d <= e)
    BY <1>4
  <2> QED  BY <2>1, <1>1, <1>3
<1>7. ASSUME tags[Probe(k)] = VACANT PROVE Gap(Table, Size, k, Probe(k))
  <2>1. Reached(Table, n, k, Probe(k))
    BY <1>4, <1>6, TableIs DEF Reached
  <2>2. ASSUME NEW i \in Filled(Table), slots[i].key = k PROVE FALSE
    <3>1. i \in Occupied /\ tags[i] = Tag[k]
      BY <2>2, TableIs DEF TableInv, Placed
    <3>2. PICK c \in 0 .. n - 1 : At(k, c, n) = i /\ \A e \in 0 .. c - 1 : tags[At(k, e, n)] # VACANT
      <4>1. Reached(Table, Size, Table.slots[i].key, i) /\ Table.slots = slots /\ Table.tags = tags
        BY <2>2, TableIs DEF TableInv, Placed
      <4>2. Reached(Table, n, k, i)
        BY <2>2, <4>1 DEF n
      <4> QED  BY ONLY <4>1, <4>2 DEF Reached
    <3>3. c \in Stops(k)
      BY <1>1, <2>2, <3>1, <3>2 DEF Holds
    <3>4. d <= c
      BY <1>3, <3>3
    <3>5. CASE d = c
      BY <3>1, <3>2, <3>5, <1>4, <1>7 DEF Occupied
    <3>6. CASE d # c
      <4>1. d \in 0 .. c - 1
        BY <3>4, <3>6, <1>4
      <4> QED  BY <4>1, <3>2, <1>4, <1>7
    <3> QED  BY <3>5, <3>6
  <2>3. \A s \in Stored(Table) : s.key # k
    BY <2>2, TableIs DEF Stored
  <2> QED  BY <2>1, <2>3 DEF Gap, n
<1>8. ASSUME tags[Probe(k)] # VACANT PROVE slots[Probe(k)].key = k
  BY <1>1, <1>3, <1>4, <1>8 DEF Holds
<1> QED  BY <1>5, <1>7, <1>8 DEF n

LEMMA GapIs ==
  ASSUME TableInv, NEW k \in Keys, NEW i, Gap(Table, Size, k, i), tags[i] = VACANT
  PROVE  i = Probe(k)
<1> DEFINE n == Size
           d == Least(Stops(k))
<1>1. Stops(k) = {e \in 0 .. n - 1 : tags[At(k, e, n)] = VACANT \/ Holds(At(k, e, n), k)}
  BY DEF Stops, Size
<1>2. PICK c \in 0 .. n - 1 : At(k, c, n) = i /\ \A e \in 0 .. c - 1 : tags[At(k, e, n)] # VACANT
  BY TableIs DEF Gap, Reached
<1>3. c \in Stops(k) /\ Stops(k) \in SUBSET Nat
  BY <1>1, <1>2, TableIs
<1>4. d \in Stops(k) /\ d <= c
  BY <1>3, LeastIs
<1>5. Probe(k) = At(k, d, n) /\ d \in 0 .. n - 1 /\ n \in Nat
  BY <1>1, <1>4, TableIs DEF Probe, Size
<1> HIDE DEF d, n
<1>6. CASE d = c
  BY <1>2, <1>5, <1>6
<1>7. CASE d # c
  <2>1. d \in 0 .. c - 1
    BY <1>4, <1>5, <1>7
  <2>2. Holds(At(k, d, n), k) /\ tags[At(k, d, n)] # VACANT
    BY <1>1, <1>2, <1>4, <2>1
  <2>3. At(k, d, n) \in DOMAIN tags
    BY <1>5, TableIs, AtRange DEF n
  <2>4. slots[At(k, d, n)] \in Stored(Table) /\ slots[At(k, d, n)].key = k
    BY <2>2, <2>3, TableIs DEF Entries, Occupied, Holds
  <2> QED  BY <2>4 DEF Gap
<1> QED  BY <1>6, <1>7

-----------------------------------------------------------------------------
(* What the operations do to the table.                                    *)

\* A vacant slot was filled; all entries moved to a larger table.
FillsSlot(i, s) ==
  /\ tags' = [tags EXCEPT ![i] = Tag[s.key]] /\ slots' = [slots EXCEPT ![i] = s]
  /\ Size' = Size /\ epoch' = epoch

Moves == Size' = 2 * Size /\ epoch' = Bumped(epoch)

\* What a store does to the entries.
StoresEntry(s) == Stored(Table)' = {e \in Stored(Table) : e.key # s.key} \cup {s}

LEMMA BumpedRange == ASSUME epoch \in 0 .. EpochSize - 1 PROVE Bumped(epoch) \in 0 .. EpochSize - 1
<1>1. epoch + 1 \in Nat /\ EpochSize \in Nat /\ EpochSize > 0
  BY PtrMapAssumption
<1> QED  BY <1>1, ModRange DEF Bumped

LEMMA InsertAtStep ==
  ASSUME TableInv, NEW k \in Keys, NEW v \in Vals, NEW i, Gap(Table, Size, k, i), tags[i] = VACANT,
         InsertAt(i, k, v), NEW s, s = [key |-> k, val |-> v]
  PROVE  TableInv' /\ StoresEntry(s) /\ (FillsSlot(i, s) \/ Moves)
<1> DEFINE n  == Size
           tg == [tags EXCEPT ![i] = Tag[k]]
           sl == [slots EXCEPT ![i] = s]
           u  == [tags |-> tg, slots |-> sl]
<1>0. /\ n \in Nat /\ n > 0 /\ n \in 1 .. HashSize /\ n >= Floor /\ Placed(Table, n)
      /\ Table.tags = tags /\ Table.slots = slots /\ HashSize \in Nat /\ Floor \in Nat
      /\ len \in Nat /\ limit \in Nat /\ limit = GrowLimit(n) /\ len = Cardinality(Filled(Table))
      /\ epoch \in 0 .. EpochSize - 1
  BY TableIs, PtrMapAssumption DEF TableInv
<1>1. s \in Entry /\ s.key = k
  BY DEF Entry
<1>2. /\ Placed(u, n) /\ i \in 0 .. n - 1 /\ i \notin Filled(Table)
      /\ Filled(u) = Filled(Table) \cup {i} /\ Stored(u) = Stored(Table) \cup {s}
  <2> HIDE DEF n
  <2> QED  BY <1>0, <1>1, FillKeeps DEF n
<1>3. Cardinality(Filled(u)) = len + 1
  <2> HIDE DEF n, u
  <2> QED  BY <1>0, <1>2, FilledOne
<1>4. Stored(u) = {e \in Stored(Table) : e.key # k} \cup {s}
  BY <1>2 DEF Gap
<1>5. u.tags = tg /\ u.slots = sl /\ len' = len + 1
  BY DEF InsertAt
<1>6. CASE len + 1 > limit
  <2> DEFINE g == Rehashed(tg, sl, n)
  <2>1. limit < Cardinality(Keys)
    <3>1. len + 1 <= Cardinality(Keys)
      <4> HIDE DEF u, n
      <4> QED  BY <1>0, <1>2, <1>3, KeysFit
    <3>2. Cardinality(Keys) \in Nat
      BY PtrMapAssumption, FS_CardinalityType
    <3> QED  BY <3>1, <3>2, <1>0, <1>6
  <2>2. 2 * n <= HashSize /\ 2 * n \in Nat /\ 2 * n \in Floor .. HashSize
    <3>1. n \in Floor .. HashSize
      BY DEF TableInv
    <3>2. 2 * n <= HashSize
      BY <2>1, <3>1, <1>0, PtrMapAssumption
    <3> QED  BY <3>2, <1>0
  <2>3. /\ Placed(g, 2 * n) /\ Stored(g) = Stored(u) /\ Cardinality(Filled(g)) = len + 1
    <3> HIDE DEF n, tg, sl
    <3>1. u.tags = tg /\ u.slots = sl
      OBVIOUS
    <3> HIDE DEF u
    <3> QED  BY <1>0, <1>2, <1>3, <2>2, <3>1, RehashedKeeps
  <2>4. SizeOf(tg) = n
    <3>1. u.tags \in [0 .. n - 1 -> Marks]
      BY <1>2 DEF Placed, Tables
    <3> HIDE DEF n
    <3> QED  BY <1>0, <1>5, <3>1, SizeIs
  <2>5. tags' = g.tags /\ slots' = g.slots /\ limit' = GrowLimit(2 * n) /\ epoch' = Bumped(epoch)
    BY <2>4, <1>6 DEF InsertAt, Grow
  <2> HIDE DEF g
  <2>6. g \in Tables(2 * n) /\ Table' = g
    <3>1. g \in Tables(2 * n)
      BY <2>3 DEF Placed
    <3>2. g = [tags |-> g.tags, slots |-> g.slots]
      BY <3>1 DEF Tables
    <3> QED  BY <2>5, <3>1, <3>2 DEF Table
  <2>7. Size' = 2 * n
    <3>1. g.tags \in [0 .. 2 * n - 1 -> Marks]
      BY <2>6 DEF Tables
    <3> QED  BY <2>2, <2>5, <3>1, SizeIs DEF Size
  <2>8. len + 1 <= GrowLimit(2 * n)
    <3>1. GrowLimit(n) + 1 <= GrowLimit(2 * n) /\ GrowLimit(2 * n) \in Nat
      BY <1>0, <2>2, LimitGrows, LimitIs
    <3> QED  BY <3>1, <1>0 DEF TableInv
  <2>9. TableInv'
    <3>2. Placed(Table, Size)'
      BY <2>3, <2>6, <2>7
    <3>3. epoch' \in 0 .. EpochSize - 1
      BY <2>5, <1>0, BumpedRange
    <3> QED  BY <2>2, <2>3, <2>5, <2>6, <2>7, <2>8, <3>2, <3>3, <1>5 DEF TableInv
  <2>10. StoresEntry(s)
    BY <2>3, <2>6, <1>1, <1>4 DEF StoresEntry
  <2>11. Moves
    BY <2>5, <2>7 DEF Moves
  <2> QED  BY <2>9, <2>10, <2>11
<1>7. CASE ~(len + 1 > limit)
  <2>1. tags' = tg /\ slots' = sl /\ epoch' = epoch /\ limit' = limit
    BY <1>7 DEF InsertAt
  <2>2. Table' = u
    BY <2>1 DEF Table
  <2>3. Size' = n
    <3>1. u.tags \in [0 .. n - 1 -> Marks]
      BY <1>2 DEF Placed, Tables
    <3>2. SizeOf(u.tags) = n
      <4> HIDE DEF n, u
      <4> QED  BY <1>0, <3>1, SizeIs
    <3> QED  BY <3>2, <2>1, <1>5 DEF Size
  <2>4. TableInv'
    <3>1. n \in Floor .. HashSize
      BY DEF TableInv
    <3>2. len + 1 <= limit
      BY <1>0, <1>7
    <3> HIDE DEF n, u
    <3> QED  BY <2>1, <2>2, <2>3, <3>1, <3>2, <1>0, <1>2, <1>3, <1>5 DEF TableInv
  <2>5. StoresEntry(s)
    BY <2>2, <1>1, <1>4 DEF StoresEntry
  <2>6. FillsSlot(i, s)
    BY <2>1, <2>3, <1>1 DEF FillsSlot
  <2> QED  BY <2>4, <2>5, <2>6
<1> QED  BY <1>6, <1>7

\* A value stored over another.
LEMMA OverwriteStep ==
  ASSUME TableInv, NEW v \in Vals, NEW i \in Occupied, NEW k, slots[i].key = k,
         slots' = [slots EXCEPT ![i].val = v], UNCHANGED <<tags, epoch, len, limit>>,
         NEW s, s = [key |-> k, val |-> v]
  PROVE  /\ TableInv' /\ StoresEntry(s) /\ Size' = Size /\ Filled(Table)' = Filled(Table)
         /\ \A j \in Filled(Table) : slots'[j].key = slots[j].key
<1>0. /\ Table \in Tables(Size) /\ Table.tags = tags /\ Table.slots = slots /\ i \in Filled(Table)
      /\ tags' = tags /\ Size' = Size /\ DOMAIN slots = 0 .. Size - 1 /\ DOMAIN tags = 0 .. Size - 1
      /\ Placed(Table, Size)
  BY TableIs DEF Size, TableInv
<1>1. slots[i] \in Entry /\ i \in 0 .. Size - 1 /\ Filled(Table) \subseteq 0 .. Size - 1
  BY <1>0 DEF Placed, Filled
<1>2. slots' = [slots EXCEPT ![i] = s] /\ s \in Entry
  <2>1. [slots[i] EXCEPT !.val = v] = s /\ s \in Entry
    BY <1>1 DEF Entry
  <2> QED  BY <2>1
<1>3. slots'[i] = s /\ \A j \in 0 .. Size - 1 : j # i => slots'[j] = slots[j]
  BY <1>0, <1>1, <1>2
<1> DEFINE u == [tags |-> tags, slots |-> slots']
<1>4. Table' = u /\ u.tags = tags /\ u.slots = slots'
  BY <1>0 DEF Table
<1>5. u \in Tables(Size) /\ Filled(u) = Filled(Table)
  <2>1. s \in Slot
    BY <1>2 DEF Slot, Entry
  <2>2. tags \in [0 .. Size - 1 -> Marks] /\ slots \in [0 .. Size - 1 -> Slot]
    BY <1>0 DEF Tables
  <2>3. slots' \in [0 .. Size - 1 -> Slot]
    BY <2>1, <2>2, <1>2
  <2>4. u \in Tables(Size)
    BY <2>2, <2>3 DEF Tables
  <2>5. Filled(u) = Filled(Table)
    BY <1>0, <1>4 DEF Filled
  <2> QED  BY <2>4, <2>5
<1> HIDE DEF u
<1>6. \A j \in Filled(Table) : u.slots[j].key = slots[j].key /\ u.slots[j] \in Entry
  BY <1>0, <1>1, <1>2, <1>3, <1>4 DEF Placed
<1>7. Placed(u, Size)
  <2>1. \A j \in Filled(u) : u.slots[j] \in Entry /\ u.tags[j] = Tag[u.slots[j].key]
    BY <1>0, <1>4, <1>5, <1>6 DEF Placed
  <2>2. \A j, m \in Filled(u) : u.slots[j].key = u.slots[m].key => j = m
    BY <1>0, <1>5, <1>6 DEF Placed
  <2>3. \A j \in Filled(u) : Reached(u, Size, u.slots[j].key, j)
    BY <1>0, <1>4, <1>5, <1>6 DEF Placed, Reached
  <2> QED  BY <2>1, <2>2, <2>3, <1>5 DEF Placed
<1>8. Stored(u) = {e \in Stored(Table) : e.key # k} \cup {s}
  <2>1. ASSUME NEW j \in Filled(u) PROVE u.slots[j] \in {e \in Stored(Table) : e.key # k} \cup {s}
    <3>1. CASE j = i
      BY <3>1, <1>3, <1>4
    <3>2. CASE j # i
      <4>1. u.slots[j] = slots[j] /\ slots[j].key # slots[i].key /\ slots[j] \in Stored(Table)
        BY <3>2, <1>0, <1>1, <1>3, <1>4, <1>5 DEF Placed, Stored
      <4> QED  BY <4>1
    <3> QED  BY <3>1, <3>2
  <2>2. s \in Stored(u)
    BY <1>0, <1>3, <1>4, <1>5 DEF Stored
  <2>3. ASSUME NEW j \in Filled(Table), slots[j].key # k PROVE slots[j] \in Stored(u)
    <3>1. u.slots[j] = slots[j] /\ j \in Filled(u)
      BY <2>3, <1>1, <1>3, <1>4, <1>5
    <3> QED  BY <3>1 DEF Stored
  <2>4. \A e \in Stored(Table) : \E j \in Filled(Table) : e = slots[j]
    BY <1>0 DEF Stored
  <2>5. \A e \in Stored(u) : \E j \in Filled(u) : e = u.slots[j]
    BY DEF Stored
  <2> QED  BY <2>1, <2>2, <2>3, <2>4, <2>5
<1>9. TableInv'
  <2>1. Placed(Table, Size)'
    BY <1>0, <1>4, <1>7
  <2>2. len' = Cardinality(Filled(Table'))
    BY <1>4, <1>5 DEF TableInv
  <2> QED  BY <2>1, <2>2, <1>0 DEF TableInv
<1>10. StoresEntry(s)
  BY <1>4, <1>8 DEF StoresEntry
<1> QED  BY <1>0, <1>4, <1>5, <1>6, <1>9, <1>10

\* A table emptied, of the same size or another.
LEMMA EmptyTable ==
  ASSUME NEW n \in Floor .. HashSize, NEW tg, tg = Empty(n), NEW sl \in [0 .. n - 1 -> Slot],
         NEW t, t = [tags |-> tg, slots |-> sl]
  PROVE  /\ SizeOf(tg) = n /\ Placed(t, n) /\ Stored(t) = {} /\ Cardinality(Filled(t)) = 0
         /\ 0 <= GrowLimit(n)
<1>0. n \in Nat /\ n > 0
  BY PtrMapAssumption
<1>1. tg \in [0 .. n - 1 -> Marks] /\ \A i \in 0 .. n - 1 : tg[i] = VACANT
  BY DEF Empty, Marks
<1>2. Filled(t) = {} /\ t \in Tables(n)
  BY <1>1 DEF Filled, Tables
<1>3. Placed(t, n) /\ Stored(t) = {}
  BY <1>2 DEF Placed, Stored
<1>4. SizeOf(tg) = n
  BY <1>0, <1>1, SizeIs
<1>5. Cardinality(Filled(t)) = 0
  BY <1>2, FS_EmptySet
<1>6. 0 <= GrowLimit(n)
  BY <1>0, LimitIs
<1> QED  BY <1>3, <1>4, <1>5, <1>6

LEMMA EmptyStep ==
  ASSUME NEW n \in Floor .. HashSize, tags' = Empty(n), slots' \in [0 .. n - 1 -> Slot],
         len' = 0, limit' = GrowLimit(n), epoch' \in 0 .. EpochSize - 1
  PROVE  TableInv' /\ Stored(Table)' = {}
<1>1. Table' = [tags |-> tags', slots |-> slots']
  BY DEF Table
<1>2. /\ Size' = n /\ Placed(Table', n) /\ Stored(Table') = {} /\ Cardinality(Filled(Table')) = 0
      /\ 0 <= GrowLimit(n)
  BY <1>1, EmptyTable DEF Size
<1> QED  BY <1>2 DEF TableInv

\* reset.
LEMMA ResetStep ==
  ASSUME TableInv, ResetTags
  PROVE  TableInv' /\ Stored(Table)' = {}
<1>1. CASE len # 0
  <2>1. /\ tags' = Empty(Size) /\ len' = 0 /\ epoch' = Bumped(epoch) /\ slots' = slots
        /\ limit' = GrowLimit(Size) /\ Size \in Floor .. HashSize
    BY <1>1 DEF ResetTags, Size, TableInv
  <2>2. slots' \in [0 .. Size - 1 -> Slot]
    BY <2>1, TableIs DEF Tables
  <2>3. epoch' \in 0 .. EpochSize - 1
    BY <2>1, BumpedRange DEF TableInv
  <2>4. PICK n \in Floor .. HashSize : n = Size
    BY <2>1
  <2> QED  BY <2>1, <2>2, <2>3, <2>4, EmptyStep
<1>2. CASE len = 0
  <2>1. /\ tags' = tags /\ slots' = slots /\ epoch' = epoch /\ len' = len /\ limit' = limit
    BY <1>2 DEF ResetTags, table
  <2>2. Table' = Table /\ Size' = Size
    BY <2>1 DEF Table, Size
  <2>3. Filled(Table) = {}
    <3>1. Cardinality(Filled(Table)) = 0
      BY <1>2 DEF TableInv
    <3>2. IsFiniteSet(Filled(Table))
      BY TableIs, FilledFinite
    <3> QED  BY <3>1, <3>2, FS_EmptySet
  <2>4. Stored(Table) = {}
    BY <2>3 DEF Stored
  <2> QED  BY <2>1, <2>2, <2>4 DEF TableInv
<1> QED  BY <1>1, <1>2

\* The size reset_shrink wants is one a table may have.
LEMMA WantIs ==
  ASSUME TableInv
  PROVE  Want \in Nat /\ Want >= Floor
<1> DEFINE n == 4 * len
           pow == CHOOSE p : p = [e \in 0 .. n |-> IF e = 0 THEN 1 ELSE 2 * p[e - 1]]
           fit == Least({p \in {pow[e] : e \in DOMAIN pow} : p >= n})
           step == [p \in Nat \X (1 .. n) |-> 2 * p[1]]
<1>0. n \in Nat /\ Floor \in Nat
  BY TableIs, PtrMapAssumption
<1>1. Want = IF fit < Floor THEN Floor ELSE fit
  BY DEF Want
<1> HIDE DEF n
<1>2. step \in [Nat \X (1 .. n) -> Nat]
  OBVIOUS
<1> HIDE DEF step
<1>3. PICK f : IsRun(f, Nat, 1, n, step)
  BY <1>0, <1>2, RecursionExists
<1>4. f \in [0 .. n -> Nat] /\ f[0] = 1 /\ \A e \in 1 .. n : f[e] = 2 * f[e - 1]
  <2>1. ASSUME NEW e \in 1 .. n PROVE step[<<f[e - 1], e>>] = 2 * f[e - 1]
    <3>1. f[e - 1] \in Nat
      BY <1>0, <1>3 DEF IsRun
    <3> QED  BY <3>1 DEF step
  <2> QED  BY <1>3, <2>1 DEF IsRun
<1>5. f = [e \in 0 .. n |-> IF e = 0 THEN 1 ELSE 2 * f[e - 1]]
  <2>1. \A e \in 0 .. n : f[e] = IF e = 0 THEN 1 ELSE 2 * f[e - 1]
    BY <1>0, <1>4
  <2> QED  BY <1>4, <2>1
<1>6. pow = [e \in 0 .. n |-> IF e = 0 THEN 1 ELSE 2 * pow[e - 1]]
  BY <1>5
<1> HIDE DEF pow
<1>7. DOMAIN pow = 0 .. n /\ pow[0] = 1 /\ \A e \in 1 .. n : pow[e] = 2 * pow[e - 1]
  <2>1. 0 \in 0 .. n /\ \A e \in 1 .. n : e \in 0 .. n /\ e # 0
    BY <1>0
  <2> QED  BY <1>6, <2>1
<1> DEFINE Good == {e \in 0 .. n : pow[e] \in Nat /\ pow[e] >= e + 1}
<1>8. 0 \in Good
  BY <1>0, <1>7
<1>9. ASSUME NEW e \in 0 .. n - 1, e \in Good PROVE e + 1 \in Good
  <2>1. e + 1 \in 1 .. n /\ (e + 1) - 1 = e /\ e \in Nat
    BY <1>0
  <2>2. pow[e + 1] = 2 * pow[e] /\ pow[e] \in Nat /\ pow[e] >= e + 1
    BY <1>7, <1>9, <2>1
  <2> QED  BY <1>0, <2>1, <2>2
<1>10. 0 .. n \subseteq Good
  <2> HIDE DEF Good
  <2> QED  BY <1>0, <1>8, <1>9, SetInduction
<1> DEFINE big == {p \in {pow[e] : e \in DOMAIN pow} : p >= n}
<1>11. big \in SUBSET Nat /\ pow[n] \in big
  BY <1>0, <1>7, <1>10
<1>12. fit \in Nat
  <2>1. Least(big) \in big
    <3> HIDE DEF big
    <3> QED  BY <1>11, LeastIs
  <2> QED  BY <2>1, <1>11
<1> HIDE DEF fit
<1> QED  BY <1>0, <1>1, <1>12

\* reset_shrink.
LEMMA ClearSessionStep ==
  ASSUME TableInv, ClearSession
  PROVE  TableInv' /\ Stored(Table)' = {}
<1>1. CASE SizeOf(tags) >= 4 * Want
  <2>1. PICK n : n = Want
    OBVIOUS
  <2>2. n \in Floor .. HashSize /\ n \in Nat
    BY <2>1, <1>1, WantIs, TableIs, PtrMapAssumption DEF Size
  <2>3. /\ tags' = Empty(n) /\ slots' = Fresh(n) /\ epoch' = Bumped(epoch) /\ len' = 0
        /\ limit' = GrowLimit(n)
    BY <2>1, <1>1 DEF ClearSession, ResizeEmpty
  <2>4. Fresh(n) \in [0 .. n - 1 -> Slot]
    BY DEF Fresh, Uninit, Slot
  <2>5. epoch' \in 0 .. EpochSize - 1
    BY <2>3, BumpedRange DEF TableInv
  <2> QED  BY <2>2, <2>3, <2>4, <2>5, EmptyStep
<1>2. CASE ~(SizeOf(tags) >= 4 * Want)
  BY <1>2, ResetStep DEF ClearSession
<1> QED  BY <1>1, <1>2

\* insert.
LEMMA InsertStep ==
  ASSUME TableInv, NEW k \in Keys, NEW v \in Vals, Insert(k, v), NEW s, s = [key |-> k, val |-> v]
  PROVE  /\ TableInv' /\ StoresEntry(s)
         /\ \/ \E i : Gap(Table, Size, k, i) /\ tags[i] = VACANT /\ FillsSlot(i, s)
            \/ Moves
            \/ /\ Size' = Size /\ epoch' = epoch /\ tags' = tags /\ Filled(Table)' = Filled(Table)
               /\ \A j \in Filled(Table) : slots'[j].key = slots[j].key
<1>1. PICK i : i = Probe(k)
  OBVIOUS
<1>2. CASE tags[i] = VACANT
  <2>1. Gap(Table, Size, k, i) /\ InsertAt(i, k, v)
    BY <1>1, <1>2, ProbeIs DEF Insert
  <2> QED  BY <1>2, <2>1, InsertAtStep
<1>3. CASE tags[i] # VACANT
  <2>1. /\ slots' = [slots EXCEPT ![i].val = v] /\ UNCHANGED <<tags, epoch, len, limit>>
        /\ slots[i].key = k /\ i \in Occupied
    BY <1>1, <1>3, ProbeIs, TableIs DEF Insert, Occupied
  <2> QED  BY <2>1, OverwriteStep
<1> QED  BY <1>2, <1>3

-----------------------------------------------------------------------------
(* What they do to the places found before.                                *)

LEMMA PlaceFills ==
  ASSUME TableInv, NEW f \in Place, PlaceInv(f), NEW k \in Keys, NEW i, Gap(Table, Size, k, i),
         tags[i] = VACANT, NEW s, s.key = k, FillsSlot(i, s)
  PROVE  PlaceInv(f)'
<1>0. /\ DOMAIN tags = 0 .. Size - 1 /\ DOMAIN slots = 0 .. Size - 1 /\ Size' = Size /\ epoch' = epoch
      /\ f.key \in Keys /\ Size \in 1 .. HashSize /\ Tag[k] # VACANT
      /\ Table.tags = tags /\ Table.slots = slots /\ Table'.tags = tags' /\ Table'.slots = slots'
  BY TableIs, PtrMapAssumption DEF FillsSlot, Place, VACANT, Table
<1>1. i \in 0 .. Size - 1
  <2>1. PICK d \in 0 .. Size - 1 : At(k, d, Size) = i
    BY DEF Gap, Reached
  <2> QED  BY <2>1, <1>0, AtRange
<1>2. /\ DOMAIN tags' = DOMAIN tags /\ tags'[i] # VACANT /\ slots'[i].key = k
      /\ \A j \in DOMAIN tags : j # i => tags'[j] = tags[j] /\ slots'[j] = slots[j]
  BY <1>0, <1>1 DEF FillsSlot
<1>3. PICK j \in 0 .. EpochSize - 1 :
        /\ Doubled[j] <= Size
        /\ epoch = (f.epoch + j) % EpochSize
        /\ j = 0 => f.at \in DOMAIN tags /\ (tags[f.at] = VACANT => Gap(Table, Size, f.key, f.at))
  BY DEF PlaceInv
<1>4. ASSUME j = 0, tags'[f.at] = VACANT PROVE Gap(Table, Size, f.key, f.at)'
  <2>1. f.at # i /\ tags[f.at] = VACANT /\ Gap(Table, Size, f.key, f.at)
    BY <1>2, <1>3, <1>4
  <2>2. f.key # k
    BY <2>1, <1>0, GapIs
  <2>3. PICK d \in 0 .. Size - 1 :
          At(f.key, d, Size) = f.at /\ \A e \in 0 .. d - 1 : tags[At(f.key, e, Size)] # VACANT
    BY <2>1, <1>0 DEF Gap, Reached
  <2>4. ASSUME NEW e \in 0 .. d - 1 PROVE At(f.key, e, Size) \in DOMAIN tags
    <3>1. e \in Nat
      OBVIOUS
    <3> QED  BY <3>1, <1>0, AtRange
  <2>5. \A e \in 0 .. d - 1 : tags'[At(f.key, e, Size)] # VACANT
    BY <2>3, <2>4, <1>2
  <2>6. \A e \in Stored(Table)' : e.key # f.key
    <3> SUFFICES ASSUME NEW m \in DOMAIN tags, tags'[m] # VACANT PROVE slots'[m].key # f.key
      BY <1>0, <1>2 DEF Stored, Filled
    <3>1. CASE m = i
      BY <3>1, <2>2, <1>2
    <3>2. CASE m # i
      <4>1. slots'[m] = slots[m] /\ slots[m] \in Stored(Table)
        BY <3>2, <1>0, <1>2 DEF Stored, Filled
      <4> QED  BY <4>1, <2>1 DEF Gap
    <3> QED  BY <3>1, <3>2
  <2>7. Reached(Table, Size, f.key, f.at)'
    BY <2>3, <2>5, <1>0 DEF Reached
  <2> QED  BY <2>6, <2>7 DEF Gap
<1> QED  BY <1>0, <1>2, <1>3, <1>4 DEF PlaceInv

LEMMA PlaceMoves ==
  ASSUME TableInv, TableInv', NEW f \in Place, PlaceInv(f), Moves
  PROVE  PlaceInv(f)'
<1>1. PICK j \in 0 .. EpochSize - 1 : Doubled[j] <= Size /\ epoch = (f.epoch + j) % EpochSize
  BY DEF PlaceInv
<1>2. /\ EpochSize \in Nat /\ j \in Nat /\ j + 1 \in 1 .. EpochSize /\ (j + 1) - 1 = j /\ Size \in Nat
      /\ f.epoch \in Nat /\ f.epoch < EpochSize /\ HashSize \in Nat
  BY TableIs, PtrMapAssumption DEF Place
<1>3. Doubled[j + 1] = 2 * Doubled[j] /\ Doubled[j] \in Nat /\ Doubled[EpochSize] \in Nat
  BY <1>2, DoubledIs
<1>4. Doubled[j + 1] <= Size' /\ Size' = 2 * Size /\ Size' <= HashSize
  <2>1. Size' = 2 * Size /\ Size' <= HashSize
    BY <1>2 DEF Moves, TableInv
  <2> QED  BY <2>1, <1>1, <1>2, <1>3
<1>5. j + 1 # EpochSize
  BY <1>2, <1>3, <1>4, PtrMapAssumption
<1>6. j + 1 \in 0 .. EpochSize - 1 /\ j + 1 < EpochSize /\ j + 1 # 0
  BY <1>2, <1>5
<1>7. epoch' = (f.epoch + (j + 1)) % EpochSize
  BY <1>1, <1>2, <1>6, ModNext DEF Moves, Bumped
<1> QED  BY <1>4, <1>6, <1>7 DEF PlaceInv

LEMMA PlaceOverwrites ==
  ASSUME TableInv, NEW f \in Place, PlaceInv(f), Size' = Size, epoch' = epoch, tags' = tags,
         Filled(Table)' = Filled(Table), \A j \in Filled(Table) : slots'[j].key = slots[j].key
  PROVE  PlaceInv(f)'
<1>1. Table.tags = tags /\ Table.slots = slots /\ Table'.tags = tags' /\ Table'.slots = slots'
  BY DEF Table
<1>2. ASSUME Gap(Table, Size, f.key, f.at) PROVE Gap(Table, Size, f.key, f.at)'
  <2>1. \A e \in Stored(Table)' : e.key # f.key
    BY <1>1, <1>2 DEF Gap, Stored
  <2>2. Reached(Table, Size, f.key, f.at)'
    BY <1>1, <1>2 DEF Gap, Reached
  <2> QED  BY <2>1, <2>2 DEF Gap
<1> QED  BY <1>1, <1>2 DEF PlaceInv

\* No store spoils a place.
LEMMA InsertPlaces ==
  ASSUME TableInv, NEW k \in Keys, NEW v \in Vals, Insert(k, v), NEW f \in Place, PlaceInv(f)
  PROVE  PlaceInv(f)'
<1> DEFINE s == [key |-> k, val |-> v]
<1>1. /\ TableInv'
      /\ \/ \E i : Gap(Table, Size, k, i) /\ tags[i] = VACANT /\ FillsSlot(i, s)
         \/ Moves
         \/ /\ Size' = Size /\ epoch' = epoch /\ tags' = tags /\ Filled(Table)' = Filled(Table)
            /\ \A j \in Filled(Table) : slots'[j].key = slots[j].key
  BY InsertStep
<1>2. s.key = k
  OBVIOUS
<1> HIDE DEF s
<1> QED  BY <1>1, <1>2, PlaceFills, PlaceMoves, PlaceOverwrites

\* A place whose epoch is that of the table, and which is vacant, is the gap
\* of its key.
LEMMA PlaceIsGap ==
  ASSUME TableInv, NEW f \in Place, PlaceInv(f), f.epoch = epoch, tags[f.at] = VACANT
  PROVE  f.key \in Keys /\ Gap(Table, Size, f.key, f.at)
<1>1. PICK j \in 0 .. EpochSize - 1 :
        /\ epoch = (f.epoch + j) % EpochSize
        /\ j = 0 => f.at \in DOMAIN tags /\ (tags[f.at] = VACANT => Gap(Table, Size, f.key, f.at))
  BY DEF PlaceInv
<1>2. EpochSize \in Nat /\ j \in Nat /\ j < EpochSize /\ f.epoch \in Nat /\ f.epoch < EpochSize
  BY PtrMapAssumption DEF Place
<1>3. j = 0
  BY <1>1, <1>2, ModAgain
<1> QED  BY <1>1, <1>3 DEF Place

LEMMA InsertFoundStep ==
  ASSUME TableInv, NEW f \in Place, PlaceInv(f), NEW v \in Vals, InsertFound(f, v)
  PROVE  /\ TableInv' /\ StoresEntry([key |-> f.key, val |-> v])
         /\ \A g \in Place : PlaceInv(g) => PlaceInv(g)'
<1>0. f.key \in Keys
  BY DEF Place
<1>1. CASE f.epoch = epoch /\ tags[f.at] = VACANT
  <2>1. InsertAt(f.at, f.key, v) /\ Gap(Table, Size, f.key, f.at)
    BY <1>1, PlaceIsGap DEF InsertFound
  <2> DEFINE s == [key |-> f.key, val |-> v]
  <2>2. s.key = f.key /\ s = [key |-> f.key, val |-> v]
    OBVIOUS
  <2> HIDE DEF s
  <2>3. TableInv' /\ StoresEntry(s) /\ (FillsSlot(f.at, s) \/ Moves)
    BY <1>0, <1>1, <2>1, <2>2, InsertAtStep
  <2> QED  BY <1>0, <1>1, <2>1, <2>2, <2>3, PlaceFills, PlaceMoves
<1>2. CASE ~(f.epoch = epoch /\ tags[f.at] = VACANT)
  <2>1. Insert(f.key, v)
    BY <1>2 DEF InsertFound
  <2> QED  BY <1>0, <2>1, InsertStep, InsertPlaces
<1> QED  BY <1>1, <1>2

-----------------------------------------------------------------------------
(* Every state is one of the invariant.                                    *)

LEMMA InitIInv == Init => IInv
<1> SUFFICES ASSUME Init PROVE IInv
  OBVIOUS
<1>1. Fresh(Floor) \in [0 .. Floor - 1 -> Slot] /\ Floor \in Floor .. HashSize
  BY PtrMapAssumption DEF Fresh, Uninit, Slot
<1>2. /\ Size = Floor /\ Placed(Table, Floor) /\ Cardinality(Filled(Table)) = 0 /\ 0 <= GrowLimit(Floor)
  BY <1>1, EmptyTable DEF Init, Table, Size
<1>3. TableInv
  BY <1>1, <1>2, PtrMapAssumption DEF Init, TableInv
<1> QED  BY <1>3 DEF Init, IInv

\* What is found for a key is what the table holds under it.
LEMMA FindStep ==
  ASSUME IInv, NEW k \in Keys, Find(k)
  PROVE  IInv'
<1>1. PICK i : i = Probe(k)
  OBVIOUS
<1>2. /\ TableInv /\ frames \in Seq(Place) /\ tags' = tags /\ slots' = slots /\ epoch' = epoch /\ len' = len
      /\ limit' = limit /\ \A j \in DOMAIN frames : PlaceInv(frames[j])
  BY DEF Find, IInv, table
<1>3. TableInv'
  BY <1>2 DEF TableInv, Table, Size
<1>4. \A f : PlaceInv(f)' = PlaceInv(f)
  BY <1>2 DEF PlaceInv, Table, Size
<1>5. CASE tags[i] # VACANT
  <2>1. got' = slots[i].val /\ frames' = frames
    BY <1>1, <1>5 DEF Find
  <2>2. slots[i].val \in Vals
    <3>1. i \in Filled(Table)
      BY <1>1, <1>2, <1>5, ProbeIs, TableIs DEF Occupied
    <3> QED  BY <3>1, <1>2, TableIs DEF TableInv, Placed, Entry
  <2> QED  BY <1>2, <1>3, <1>4, <2>1, <2>2 DEF IInv
<1>6. CASE tags[i] = VACANT
  <2> DEFINE f == [key |-> k, at |-> i, epoch |-> epoch]
  <2>1. got' = None /\ frames' = Append(frames, f)
    BY <1>1, <1>6 DEF Find
  <2>2. i \in 0 .. Size - 1 /\ Gap(Table, Size, k, i) /\ Size \in Nat /\ DOMAIN tags = 0 .. Size - 1
        /\ Size >= Floor
    BY <1>1, <1>2, <1>6, ProbeIs, TableIs
  <2>3. f \in Place /\ f.key = k /\ f.at = i /\ f.epoch = epoch
    BY <1>2, <2>2 DEF Place, TableInv
  <2> HIDE DEF f
  <2>4. PlaceInv(f)
    <3>1. EpochSize \in Nat /\ EpochSize > 0 /\ 0 \in 0 .. EpochSize - 1
      BY PtrMapAssumption
    <3>2. epoch \in Nat /\ epoch < EpochSize
      BY <1>2, <3>1 DEF TableInv
    <3>3. (epoch + 0) % EpochSize = epoch
      BY <3>1, <3>2
    <3> QED  BY <2>2, <2>3, <3>1, <3>3, DoubledIs DEF PlaceInv
  <2>5. frames' \in Seq(Place) /\ \A j \in DOMAIN frames' : frames'[j] = f \/ \E m \in DOMAIN frames : frames'[j] = frames[m]
    BY <1>2, <2>1, <2>3
  <2>6. ASSUME NEW j \in DOMAIN frames' PROVE PlaceInv(frames[j])'
    <3>1. PICK g : g = frames'[j]
      OBVIOUS
    <3>2. PlaceInv(g)
      BY <1>2, <2>4, <2>5, <3>1
    <3>3. PlaceInv(g)'
      BY <3>2, <1>4
    <3> QED  BY <3>1, <3>3 DEF PlaceInv
  <2> QED  BY <1>3, <2>1, <2>5, <2>6 DEF IInv
<1> QED  BY <1>5, <1>6

\* The invariant is kept when every place in the frames that remain is.
LEMMA FramesKeep ==
  ASSUME IInv, TableInv', frames' \in Seq(Place), got' = got,
         \A j \in DOMAIN frames' : \E m \in DOMAIN frames : frames'[j] = frames[m],
         \A g \in Place : PlaceInv(g) => PlaceInv(g)'
  PROVE  IInv'
<1>1. ASSUME NEW j \in DOMAIN frames' PROVE PlaceInv(frames[j])'
  <2>1. PICK g : g = frames'[j]
    OBVIOUS
  <2>2. g \in Place /\ PlaceInv(g)
    BY <2>1 DEF IInv
  <2>3. PlaceInv(g)'
    BY <2>2
  <2> QED  BY <2>1, <2>3 DEF PlaceInv
<1> QED  BY <1>1 DEF IInv

LEMMA StoreStep ==
  ASSUME IInv, NEW k \in Keys, NEW v \in Vals, Store(k, v)
  PROVE  IInv'
<1>1. TableInv /\ Insert(k, v) /\ frames' = frames /\ got' = got /\ frames \in Seq(Place)
  BY DEF Store, IInv
<1>2. TableInv'
  BY <1>1, InsertStep
<1>3. \A g \in Place : PlaceInv(g) => PlaceInv(g)'
  BY <1>1, InsertPlaces
<1> QED  BY <1>1, <1>2, <1>3, FramesKeep

LEMMA ComputedStep ==
  ASSUME IInv, NEW v \in Vals, Computed(v)
  PROVE  /\ IInv' /\ frames[Len(frames)] \in Place
         /\ StoresEntry([key |-> frames[Len(frames)].key, val |-> v])
<1>1. /\ TableInv /\ frames \in Seq(Place) /\ frames # <<>> /\ got' = got
      /\ frames' = SubSeq(frames, 1, Len(frames) - 1) /\ InsertFound(frames[Len(frames)], v)
      /\ \A j \in DOMAIN frames : PlaceInv(frames[j])
  BY DEF Computed, IInv
<1>2. Len(frames) \in DOMAIN frames /\ Len(frames) \in Nat /\ Len(frames) > 0
  BY <1>1
<1>3. PICK f : f = frames[Len(frames)]
  OBVIOUS
<1>4. f \in Place /\ PlaceInv(f) /\ InsertFound(f, v)
  BY <1>1, <1>2, <1>3
<1>5. /\ TableInv' /\ StoresEntry([key |-> f.key, val |-> v])
      /\ \A g \in Place : PlaceInv(g) => PlaceInv(g)'
  BY <1>1, <1>4, InsertFoundStep
<1>6. /\ frames' \in Seq(Place)
      /\ \A j \in DOMAIN frames' : \E m \in DOMAIN frames : frames'[j] = frames[m]
  BY <1>1, <1>2
<1>7. IInv'
  BY <1>1, <1>5, <1>6, FramesKeep
<1> QED  BY <1>3, <1>4, <1>5, <1>7

LEMMA ClearStep ==
  ASSUME IInv, Clear \/ ClearSession
  PROVE  IInv' /\ Stored(Table)' = {} /\ got' = got
<1>1. TableInv /\ frames = <<>> /\ frames' = frames /\ got' = got /\ (ResetTags \/ ClearSession)
  BY DEF Clear, ClearSession, IInv
<1>2. TableInv' /\ Stored(Table)' = {}
  BY <1>1, ResetStep, ClearSessionStep
<1> QED  BY <1>1, <1>2 DEF IInv

LEMMA StutterStep == IInv /\ UNCHANGED vars => IInv'
<1> SUFFICES ASSUME IInv, UNCHANGED vars PROVE IInv'
  OBVIOUS
<1>1. /\ tags' = tags /\ slots' = slots /\ epoch' = epoch /\ len' = len /\ limit' = limit /\ frames' = frames
      /\ got' = got
  BY DEF vars, table
<1> QED  BY <1>1 DEF IInv, TableInv, PlaceInv, Table, Size

\* The invariant holds of every state the table reaches.
THEOREM Invariance == Spec => []IInv
<1>1. IInv /\ [Next]_vars => IInv'
  BY FindStep, StoreStep, ComputedStep, ClearStep, StutterStep DEF Next
<1> QED  BY InitIInv, <1>1, PTL DEF Spec

\* The loops of find, insert and grow end: the table is never full, and len
\* counts its entries.
THEOREM NeverFull == Spec => []Roomy
<1>1. IInv => Roomy
  <2> SUFFICES ASSUME IInv PROVE Roomy
    OBVIOUS
  <2>1. TableInv
    BY DEF IInv
  <2> QED  BY <2>1, TableIs DEF TableInv, Roomy, Size
<1> QED  BY <1>1, Invariance, PTL

\* No slot is read before it is written: what assume_init takes for an entry
\* is one.
THEOREM WrittenFirst == Spec => []Initialised
<1>1. IInv => Initialised
  <2> SUFFICES ASSUME IInv, NEW i \in Occupied
               PROVE  slots[i].key \in Keys /\ slots[i].val \in Vals /\ tags[i] = Tag[slots[i].key]
    BY DEF Initialised
  <2>1. TableInv
    BY DEF IInv
  <2> QED  BY <2>1, TableIs DEF TableInv, Placed, Entry
<1> QED  BY <1>1, Invariance, PTL

\* Where a find left a memo! computation is where a find would still stop,
\* unless the entries moved or the slot was filled since; epochs wrap too late
\* to mistake a moved table for the one the place was found in.
THEOREM PlacesStand == Spec => []PlaceStands
<1>1. IInv => PlaceStands
  <2> SUFFICES ASSUME IInv, NEW j \in DOMAIN frames, frames[j].epoch = epoch, tags[frames[j].at] = VACANT
               PROVE  frames[j].at = Probe(frames[j].key)
    BY DEF PlaceStands
  <2>1. TableInv /\ frames[j] \in Place /\ PlaceInv(frames[j])
    BY DEF IInv
  <2>2. frames[j].key \in Keys /\ Gap(Table, Size, frames[j].key, frames[j].at)
    BY <2>1, PlaceIsGap
  <2> QED  BY <2>1, <2>2, GapIs
<1> QED  BY <1>1, Invariance, PTL

\* A key has at most one entry, so no find can answer with an older value.
THEOREM OnlyOnce == Spec => []Unique
<1>1. IInv => Unique
  <2> SUFFICES ASSUME IInv PROVE Unique
    OBVIOUS
  <2>1. TableInv
    BY DEF IInv
  <2> QED  BY <2>1, TableIs DEF TableInv, Placed, Unique
<1> QED  BY <1>1, Invariance, PTL

-----------------------------------------------------------------------------
(* The refinement: what the entries are as a partial function.             *)

ContentOf(E) == [k \in {s.key : s \in E} |-> (CHOOSE s \in E : s.key = k).val]

OnePerKey(E) == \A s, t \in E : s.key = t.key => s = t

LEMMA ContentIs ==
  ASSUME NEW E, OnePerKey(E)
  PROVE  /\ ContentOf(E) = [k \in DOMAIN ContentOf(E) |-> ContentOf(E)[k]]
         /\ \A s \in E : s.key \in DOMAIN ContentOf(E) /\ ContentOf(E)[s.key] = s.val
         /\ \A k \in DOMAIN ContentOf(E) : \E s \in E : s.key = k
<1> DEFINE ks == {s.key : s \in E}
           val(k) == (CHOOSE s \in E : s.key = k).val
<1>1. ContentOf(E) = [k \in ks |-> val(k)]
  BY DEF ContentOf
<1>2. ASSUME NEW s \in E PROVE val(s.key) = s.val
  <2>1. (CHOOSE t \in E : t.key = s.key) = s
    BY <1>2 DEF OnePerKey
  <2> QED  BY <2>1
<1>3. (\A s \in E : s.key \in ks) /\ \A k \in ks : \E s \in E : s.key = k
  OBVIOUS
<1> HIDE DEF ks, val
<1> QED  BY <1>1, <1>2, <1>3

LEMMA ContentStores ==
  ASSUME NEW E, OnePerKey(E), NEW k, NEW v, NEW s, s = [key |-> k, val |-> v],
         NEW F, F = {e \in E : e.key # k} \cup {s}
  PROVE  ContentOf(F) = [x \in DOMAIN ContentOf(E) \cup {k} |-> IF x = k THEN v ELSE ContentOf(E)[x]]
<1> DEFINE G == [x \in DOMAIN ContentOf(E) \cup {k} |-> IF x = k THEN v ELSE ContentOf(E)[x]]
<1>1. OnePerKey(F) /\ s.key = k /\ s.val = v
  BY DEF OnePerKey
<1>2. DOMAIN ContentOf(F) = DOMAIN ContentOf(E) \cup {k}
  <2>1. s \in F /\ \A e \in F : e.key = k \/ e \in E
    BY <1>1
  <2>2. \A e \in E : e.key = k \/ e \in F
    OBVIOUS
  <2>3. \A x \in DOMAIN ContentOf(F) : x \in DOMAIN ContentOf(E) \cup {k}
    BY <2>1, <1>1, ContentIs
  <2>4. \A x \in DOMAIN ContentOf(E) \cup {k} : x \in DOMAIN ContentOf(F)
    BY <2>1, <2>2, <1>1, ContentIs
  <2> QED  BY <2>3, <2>4
<1>3. ASSUME NEW x \in DOMAIN ContentOf(F) PROVE ContentOf(F)[x] = G[x]
  <2>1. CASE x = k
    <3>1. s \in F
      OBVIOUS
    <3>2. ContentOf(F)[s.key] = s.val
      BY <3>1, <1>1, ContentIs
    <3> QED  BY <2>1, <3>2, <1>1, <1>2
  <2>2. CASE x # k
    <3>1. PICK e \in F : e.key = x
      BY <1>1, <1>3, ContentIs
    <3>2. e \in E
      BY <2>2, <3>1, <1>1
    <3>3. ContentOf(F)[e.key] = e.val /\ ContentOf(E)[e.key] = e.val
      BY <3>1, <3>2, <1>1, ContentIs
    <3> QED  BY <2>2, <3>1, <3>3, <1>2
  <2> QED  BY <2>1, <2>2
<1>4. ContentOf(F) = [x \in DOMAIN ContentOf(F) |-> ContentOf(F)[x]]
  BY <1>1, ContentIs
<1> QED  BY <1>2, <1>3, <1>4

LEMMA TableContent ==
  TableInv => Content = ContentOf(Stored(Table)) /\ OnePerKey(Stored(Table))
<1> SUFFICES ASSUME TableInv PROVE Content = ContentOf(Stored(Table)) /\ OnePerKey(Stored(Table))
  OBVIOUS
<1>1. Content = ContentOf(Stored(Table))
  BY TableIs DEF Content, ContentOf
<1>2. OnePerKey(Stored(Table))
  BY DEF TableInv, Placed, Stored, OnePerKey
<1> QED  BY <1>1, <1>2

LEMMA NextContent ==
  TableInv' => Content' = ContentOf(Stored(Table)')
<1>1. (TableInv => Content = ContentOf(Stored(Table)))'
  BY TableContent, PTL
<1>2. ContentOf(Stored(Table))' = ContentOf(Stored(Table)')
  BY DEF ContentOf
<1> QED  BY <1>1, <1>2

LEMMA NoContent ==
  ASSUME NEW E, E = {} PROVE ContentOf(E) = <<>>
BY DEF ContentOf

LEMMA StoreMaps ==
  ASSUME TableInv, TableInv', NEW k \in Keys, NEW v \in Vals, StoresEntry([key |-> k, val |-> v]), got' = got
  PROVE  Abs!Store(k, v)
<1> DEFINE s == [key |-> k, val |-> v]
<1>1. /\ Content = ContentOf(Stored(Table)) /\ OnePerKey(Stored(Table))
      /\ Content' = ContentOf(Stored(Table)')
  BY TableContent, NextContent
<1>2. Stored(Table)' = {e \in Stored(Table) : e.key # k} \cup {s}
  BY DEF StoresEntry
<1> HIDE DEF s
<1>3. s = [key |-> k, val |-> v]
  BY DEF s
<1>4. PICK E, F : E = Stored(Table) /\ F = Stored(Table)'
  OBVIOUS
<1>5. ContentOf(F) = [x \in DOMAIN ContentOf(E) \cup {k} |-> IF x = k THEN v ELSE ContentOf(E)[x]]
  BY <1>1, <1>2, <1>3, <1>4, ContentStores
<1> QED  BY <1>1, <1>4, <1>5 DEF Abs!Store

LEMMA LookupMaps ==
  ASSUME TableInv, TableInv', NEW k \in Keys, Find(k)
  PROVE  Abs!Lookup(k)
<1>1. PICK i : i = Probe(k)
  OBVIOUS
<1>2. /\ Content = ContentOf(Stored(Table)) /\ OnePerKey(Stored(Table))
      /\ Content' = ContentOf(Stored(Table)')
  BY TableContent, NextContent
<1>3. Content' = Content
  BY <1>2 DEF Find, table, Table, Stored, Filled
<1>4. CASE tags[i] # VACANT
  <2>1. got' = slots[i].val /\ slots[i].key = k /\ slots[i] \in Stored(Table)
    BY <1>1, <1>4, ProbeIs, TableIs DEF Find, Stored, Occupied
  <2>2. k \in DOMAIN Content /\ Content[k] = slots[i].val
    BY <1>2, <2>1, ContentIs
  <2> QED  BY <1>3, <2>1, <2>2 DEF Abs!Lookup
<1>5. CASE tags[i] = VACANT
  <2>1. got' = None /\ Gap(Table, Size, k, i)
    BY <1>1, <1>5, ProbeIs DEF Find
  <2>2. k \notin DOMAIN Content
    BY <1>2, <2>1, ContentIs DEF Gap
  <2> QED  BY <1>3, <2>1, <2>2 DEF Abs!Lookup
<1> QED  BY <1>4, <1>5

LEMMA ClearMaps ==
  ASSUME TableInv', Stored(Table)' = {}, got' = got
  PROVE  Abs!Clear
BY NextContent, NoContent DEF Abs!Clear

\* The table does to its entries what each operation does to a partial
\* function: no find misses or mistakes an entry, however probes collide and
\* whenever a nested computation makes the table grow, and only a clear
\* forgets one.
THEOREM Refinement == Spec => Promise
<1>1. Init => Abs!Init
  <2> SUFFICES ASSUME Init PROVE Content = <<>> /\ got = None
    BY DEF Abs!Init
  <2>1. Occupied = {}
    BY DEF Init, Occupied, Empty
  <2>2. Entries = {}
    BY <2>1 DEF Entries
  <2> QED  BY <2>2 DEF Content, Init
<1>2. IInv /\ IInv' /\ [Next]_vars => [Abs!Next]_Abs!vars
  <2> SUFFICES ASSUME IInv, IInv', [Next]_vars PROVE [Abs!Next]_Abs!vars
    OBVIOUS
  <2>0. TableInv /\ TableInv'
    BY DEF IInv
  <2>1. ASSUME NEW k \in Keys, Find(k) PROVE Abs!Next
    BY <2>0, <2>1, LookupMaps DEF Abs!Next
  <2>2. ASSUME NEW k \in Keys, NEW v \in Vals, Store(k, v) PROVE Abs!Next
    <3>1. StoresEntry([key |-> k, val |-> v]) /\ got' = got
      BY <2>0, <2>2, InsertStep DEF Store
    <3> QED  BY <2>0, <3>1, StoreMaps DEF Abs!Next
  <2>3. ASSUME NEW v \in Vals, Computed(v) PROVE Abs!Next
    <3>1. PICK k : k = frames[Len(frames)].key
      OBVIOUS
    <3>2. k \in Keys /\ StoresEntry([key |-> k, val |-> v]) /\ got' = got
      BY <2>3, <3>1, ComputedStep DEF Place, Computed
    <3> QED  BY <2>0, <3>2, StoreMaps DEF Abs!Next
  <2>4. CASE Clear \/ ClearSession
    BY <2>0, <2>4, ClearStep, ClearMaps DEF Abs!Next
  <2>5. CASE UNCHANGED vars
    <3>1. tags' = tags /\ slots' = slots /\ got' = got
      BY <2>5 DEF vars, table
    <3>2. Content' = Content
      BY <3>1 DEF Content, Entries, Occupied
    <3> QED  BY <3>1, <3>2 DEF Abs!vars
  <2> QED  BY <2>1, <2>2, <2>3, <2>4, <2>5 DEF Next
<1> QED  BY <1>1, <1>2, Invariance, PTL DEF Spec, Promise, Abs!Spec
=============================================================================
