-------------------------- MODULE ConvProbeProofs --------------------------
(***************************************************************************)
(* Proofs about ConvProbe, for every set of terms, however large, every    *)
(* budget and every order of questions: what is accepted is convertible,   *)
(* what is refused is not, and budgets nest.                               *)
(***************************************************************************)
EXTENDS ConvProbe, LoopLemmas, SequenceTheorems, TLAPS

\* The calls that wait.
TypesFrame  == [op : {"types"}, p : Pairs, then : {"idle", "unfold", "fail"},
                saved : [depth : {0, 1}, budget : 0 .. Cap, exhausted : BOOLEAN]]
CacheFrame  == [op : {"cache"}, p : Pairs, outer : BOOLEAN]
SpineFrame  == [op : {"spine"}, p : Pairs, i : Nat, then : {"irrel", "cold"}]
ProbeFrame  == [op : {"probe"}, p : Pairs, i : Nat, outer : BOOLEAN, decided : BOOLEAN]
UnfoldFrame == [op : {"unfold"}, p : Pairs]
Frame == UNION {TypesFrame, CacheFrame, SpineFrame, ProbeFrame, UnfoldFrame}
Stack == Seq(Frame)

\* A probe is the innermost of what sets or suspends a budget.
Budgeted(st) ==
  \E i \in 1 .. Len(st) : st[i].op = "probe" /\ \A j \in i + 1 .. Len(st) : st[j].op # "types"

Prefix(st, n) == SubSeq(st, 1, n)

(* Budgets nest: d is the depth in force above the calls of st, and what a
   question on types suspended, or a probe began with, is the depth that was
   in force below it. *)
Depths(st, d) ==
  /\ d = 1 <=> Budgeted(st)
  /\ \A i \in 1 .. Len(st) :
       /\ st[i].op = "types" => (st[i].saved.depth = 1 <=> Budgeted(Prefix(st, i - 1)))
       /\ st[i].op = "probe" => ~Budgeted(Prefix(st, i - 1))

\* The flag that call i keeps of the comparison below it says that a budget ran
\* out; i after the last call stands for the flag x in force.
Flag(st, x, i) ==
  IF i = Len(st) + 1 THEN x = TRUE
  ELSE \/ st[i].op = "types" /\ st[i].saved.exhausted = TRUE
       \/ st[i].op \in {"cache", "probe"} /\ st[i].outer = TRUE

\* No probe is among the calls from i up to j.
NoProbe(st, i, j) == \A n \in i .. j : st[n].op # "probe"

(* Only a probe raises the flag, and only within itself: not while a question
   on types suspends it. *)
Flags(st, x) ==
  \A j \in 1 .. Len(st) + 1 : Flag(st, x, j) =>
    /\ ~NoProbe(st, 1, j - 1)
    /\ \A i \in 1 .. j - 1 :
         st[i].op = "types" /\ NoProbe(st, i + 1, j - 1) => Flag(st, x, i)

\* Some flag is up.
Flagged(st, x) == \E i \in 1 .. Len(st) + 1 : Flag(st, x, i)

-----------------------------------------------------------------------------
(* Stacks.                                                                 *)

LEMMA Pushed ==
  ASSUME NEW st \in Stack, NEW f \in Frame
  PROVE  /\ Append(st, f) \in Stack
         /\ Len(Append(st, f)) = Len(st) + 1
         /\ \A i \in 1 .. Len(st) : Append(st, f)[i] = st[i]
         /\ Append(st, f)[Len(st) + 1] = f
         /\ \A i \in 0 .. Len(st) : Prefix(Append(st, f), i) = Prefix(st, i)
BY DEF Stack, Prefix

LEMMA Popped ==
  ASSUME NEW st \in Stack, st # <<>>
  PROVE  /\ Len(st) \in Nat \ {0} /\ st[Len(st)] \in Frame
         /\ Prefix(st, Len(st) - 1) \in Stack
         /\ Len(Prefix(st, Len(st) - 1)) = Len(st) - 1
         /\ \A i \in 1 .. Len(st) - 1 : Prefix(st, Len(st) - 1)[i] = st[i]
         /\ \A i \in 0 .. Len(st) - 1 : Prefix(Prefix(st, Len(st) - 1), i) = Prefix(st, i)
<1>1. Len(st) \in Nat \ {0} /\ st[Len(st)] \in Frame
  BY DEF Stack
<1> DEFINE n == Len(st)
           t == Prefix(st, n - 1)
<1>2. t \in Stack /\ Len(t) = n - 1 /\ \A i \in 1 .. n - 1 : t[i] = st[i]
  <2>1. n - 1 \in Nat /\ 1 \in Int /\ n - 1 \in Int
    BY <1>1
  <2>2. \A i \in 1 .. n - 1 : st[i] \in Frame
    BY <1>1 DEF Stack
  <2> DEFINE m == n - 1
             sub == SubSeq(st, 1, m)
  <2> HIDE DEF m
  <2>3. sub \in Seq(Frame) /\ Len(sub) = (IF 1 <= m THEN m - 1 + 1 ELSE 0)
    BY <2>1, <2>2, SubSeqProperties DEF m
  <2>4. \A i \in 1 .. m - 1 + 1 : sub[i] = st[1 + i - 1]
    BY <2>1, <2>2, SubSeqProperties DEF m
  <2>5. m - 1 + 1 = m /\ m \in Nat /\ \A i \in 1 .. m : 1 + i - 1 = i
    BY <2>1 DEF m
  <2>6. sub \in Seq(Frame) /\ Len(sub) = m /\ \A i \in 1 .. m : sub[i] = st[i]
    <3> HIDE DEF sub
    <3>1. Len(sub) = m
      BY <2>3, <2>5
    <3>2. \A i \in 1 .. m : sub[i] = st[i]
      BY <2>4, <2>5
    <3> QED  BY <2>3, <3>1, <3>2
  <2>7. t = sub
    BY DEF m, Prefix
  <2> HIDE DEF t, sub
  <2> QED  BY <2>6, <2>7 DEF m, Stack
<1>3. ASSUME NEW i \in 0 .. n - 1 PROVE Prefix(t, i) = Prefix(st, i)
  <2>1. /\ Prefix(st, i) \in Stack /\ Len(Prefix(st, i)) = i
        /\ \A k \in 1 .. i : Prefix(st, i)[k] = st[k]
    BY <1>1 DEF Stack, Prefix
  <2>2. /\ Prefix(t, i) \in Stack /\ Len(Prefix(t, i)) = i
        /\ \A k \in 1 .. i : Prefix(t, i)[k] = t[k]
    <3> HIDE DEF t
    <3> QED  BY <1>1, <1>2 DEF Stack, Prefix
  <2>3. \A k \in 1 .. i : t[k] = st[k]
    <3> HIDE DEF t
    <3> QED  BY <1>1, <1>2
  <2> HIDE DEF t
  <2> QED  BY <2>1, <2>2, <2>3 DEF Stack
<1> QED  BY <1>1, <1>2, <1>3

\* Only probes and questions on types change whether a budget is in force.
LEMMA BudgetPushed ==
  ASSUME NEW st \in Stack, NEW f \in Frame
  PROVE  Budgeted(Append(st, f)) <=> f.op = "probe" \/ (f.op # "types" /\ Budgeted(st))
<1> DEFINE t == Append(st, f)
           n == Len(st)
<1>1. /\ n \in Nat /\ Len(t) = n + 1 /\ t[n + 1] = f
      /\ \A i \in 1 .. n : t[i] = st[i]
  BY Pushed DEF Stack
<1> HIDE DEF t
<1>2. CASE f.op = "probe"
  <2>1. n + 1 \in 1 .. Len(t) /\ t[n + 1].op = "probe" /\ (n + 1) + 1 .. Len(t) = {}
    BY <1>1, <1>2
  <2> QED  BY <2>1, <1>2 DEF Budgeted, t
<1>3. CASE f.op = "types"
  <2>1. ASSUME Budgeted(t) PROVE FALSE
    <3>1. PICK i \in 1 .. Len(t) : t[i].op = "probe" /\ \A j \in i + 1 .. Len(t) : t[j].op # "types"
      BY <2>1 DEF Budgeted
    <3>2. i # n + 1
      BY <1>1, <1>3, <3>1
    <3>3. n + 1 \in i + 1 .. Len(t)
      BY <1>1, <3>1, <3>2
    <3> QED  BY <1>1, <1>3, <3>1, <3>3
  <2> QED  BY <2>1, <1>3 DEF t
<1>4. CASE f.op \notin {"probe", "types"}
  <2>1. ASSUME Budgeted(st) PROVE Budgeted(t)
    <3>1. PICK i \in 1 .. n : st[i].op = "probe" /\ \A j \in i + 1 .. n : st[j].op # "types"
      BY <2>1 DEF Budgeted
    <3>2. i \in 1 .. Len(t) /\ t[i].op = "probe"
      BY <1>1, <3>1
    <3>3. \A j \in i + 1 .. Len(t) : t[j].op # "types"
      <4>1. ASSUME NEW j \in i + 1 .. Len(t) PROVE t[j].op # "types"
        <5>1. j = n + 1 \/ (j \in 1 .. n /\ j \in i + 1 .. n)
          BY <1>1, <3>1
        <5> QED  BY <5>1, <1>1, <1>4, <3>1
      <4> QED  BY <4>1
    <3> QED  BY <3>2, <3>3 DEF Budgeted
  <2>2. ASSUME Budgeted(t) PROVE Budgeted(st)
    <3>1. PICK i \in 1 .. Len(t) : t[i].op = "probe" /\ \A j \in i + 1 .. Len(t) : t[j].op # "types"
      BY <2>2 DEF Budgeted
    <3>2. i \in 1 .. n
      BY <1>1, <1>4, <3>1
    <3>3. \A j \in i + 1 .. n : j \in i + 1 .. Len(t) /\ j \in 1 .. n
      BY <1>1, <3>2
    <3>4. st[i].op = "probe" /\ \A j \in i + 1 .. n : st[j].op # "types"
      BY <1>1, <3>1, <3>2, <3>3
    <3> QED  BY <3>2, <3>4 DEF Budgeted
  <2> QED  BY <2>1, <2>2, <1>4 DEF t
<1> QED  BY <1>2, <1>3, <1>4

LEMMA DepthsPushed ==
  ASSUME NEW st \in Stack, NEW f \in Frame, NEW d \in {0, 1}, NEW e \in {0, 1}, Depths(st, d),
         f.op = "types" => f.saved.depth = d /\ e = 0,
         f.op = "probe" => d = 0 /\ e = 1,
         f.op \notin {"types", "probe"} => e = d
  PROVE  Depths(Append(st, f), e)
<1> DEFINE t == Append(st, f)
           n == Len(st)
<1>1. /\ n \in Nat /\ Len(t) = n + 1 /\ t[n + 1] = f
      /\ \A i \in 1 .. n : t[i] = st[i]
      /\ \A i \in 0 .. n : Prefix(t, i) = Prefix(st, i)
  BY Pushed DEF Stack
<1>2. Prefix(st, n) = st
  BY DEF Prefix, Stack
<1>3. Budgeted(t) <=> f.op = "probe" \/ (f.op # "types" /\ Budgeted(st))
  BY BudgetPushed
<1>4. d = 1 <=> Budgeted(st)
  BY DEF Depths
<1> HIDE DEF t
<1>5. e = 1 <=> Budgeted(t)
  BY <1>3, <1>4
<1>6. ASSUME NEW i \in 1 .. Len(t)
      PROVE  /\ t[i].op = "types" => (t[i].saved.depth = 1 <=> Budgeted(Prefix(t, i - 1)))
             /\ t[i].op = "probe" => ~Budgeted(Prefix(t, i - 1))
  <2>1. CASE i = n + 1
    <3>1. t[i] = f /\ i - 1 = n /\ Prefix(t, i - 1) = st
      BY <1>1, <1>2, <2>1
    <3> QED  BY <3>1, <1>4
  <2>2. CASE i # n + 1
    <3>1. i \in 1 .. n /\ i - 1 \in 0 .. n
      BY <1>1, <2>2
    <3>2. t[i] = st[i] /\ Prefix(t, i - 1) = Prefix(st, i - 1)
      BY <1>1, <3>1
    <3> QED  BY <3>1, <3>2 DEF Depths
  <2> QED  BY <2>1, <2>2
<1> QED  BY <1>5, <1>6 DEF Depths, t

LEMMA DepthsPopped ==
  ASSUME NEW st \in Stack, st # <<>>, NEW d \in {0, 1}, NEW e \in {0, 1}, Depths(st, d),
         st[Len(st)].op = "types" => e = st[Len(st)].saved.depth,
         st[Len(st)].op = "probe" => e = 0,
         st[Len(st)].op \notin {"types", "probe"} => e = d
  PROVE  Depths(Prefix(st, Len(st) - 1), e)
<1> DEFINE t == Prefix(st, Len(st) - 1)
           n == Len(st)
           f == st[n]
<1>1. /\ n \in Nat \ {0} /\ f \in Frame /\ t \in Stack /\ Len(t) = n - 1
      /\ \A i \in 1 .. n - 1 : t[i] = st[i]
      /\ \A i \in 0 .. n - 1 : Prefix(t, i) = Prefix(st, i)
  BY Popped
<1>2. Append(t, f) = st
  BY <1>1 DEF Stack, Prefix
<1>3. Budgeted(st) <=> f.op = "probe" \/ (f.op # "types" /\ Budgeted(t))
  <2> HIDE DEF t, f
  <2> QED  BY <1>1, <1>2, BudgetPushed
<1>4. d = 1 <=> Budgeted(st)
  BY DEF Depths
<1>5. n \in 1 .. Len(st)
  BY <1>1
<1>6. /\ f.op = "types" => (f.saved.depth = 1 <=> Budgeted(t))
      /\ f.op = "probe" => ~Budgeted(t)
  BY <1>5 DEF Depths
<1>7. ASSUME NEW i \in 1 .. Len(t)
      PROVE  /\ t[i].op = "types" => (t[i].saved.depth = 1 <=> Budgeted(Prefix(t, i - 1)))
             /\ t[i].op = "probe" => ~Budgeted(Prefix(t, i - 1))
  <2> HIDE DEF t
  <2>1. i \in 1 .. n - 1 /\ i \in 1 .. Len(st) /\ i - 1 \in 0 .. n - 1
    BY <1>1
  <2>2. t[i] = st[i] /\ Prefix(t, i - 1) = Prefix(st, i - 1)
    BY <1>1, <2>1
  <2> QED  BY <2>1, <2>2 DEF Depths
<1>8. e = 1 <=> Budgeted(t)
  <2> HIDE DEF t
  <2> QED  BY <1>3, <1>4, <1>6
<1> HIDE DEF t
<1> QED  BY <1>7, <1>8 DEF Depths, t

LEMMA FlagsPushed ==
  ASSUME NEW st \in Stack, NEW f \in Frame, NEW x \in BOOLEAN, NEW y \in BOOLEAN, Flags(st, x),
         f.op = "types" => f.saved.exhausted = x /\ y = x,
         f.op \in {"cache", "probe"} => f.outer = x /\ y = FALSE,
         f.op \in {"spine", "unfold"} => y = x
  PROVE  Flags(Append(st, f), y) /\ (Flagged(st, x) => Flagged(Append(st, f), y))
<1> DEFINE t == Append(st, f)
           n == Len(st)
<1>1. /\ n \in Nat /\ Len(t) = n + 1 /\ t[n + 1] = f
      /\ \A i \in 1 .. n : t[i] = st[i]
  BY Pushed DEF Stack
<1>2. f.op \in {"types", "cache", "probe", "spine", "unfold"}
  BY DEF Frame, TypesFrame, CacheFrame, ProbeFrame, SpineFrame, UnfoldFrame
<1> HIDE DEF t
<1>3. \A i \in 1 .. n : Flag(t, y, i) <=> Flag(st, x, i)
  BY <1>1 DEF Flag
<1>4. Flag(st, x, n + 1) <=> x = TRUE
  BY <1>1 DEF Flag
<1>5. Flag(t, y, n + 2) <=> y = TRUE
  BY <1>1 DEF Flag
<1>6. Flag(t, y, n + 1) <=> f.op \in {"types", "cache", "probe"} /\ x = TRUE
  BY <1>1, <1>2 DEF Flag
<1>7. ASSUME NEW i \in 1 .. n + 1, NEW j \in 0 .. n PROVE NoProbe(t, i, j) <=> NoProbe(st, i, j)
  BY <1>1 DEF NoProbe
<1>8. ASSUME NEW i \in 1 .. n + 1, NoProbe(t, i, n + 1) PROVE NoProbe(st, i, n)
  BY <1>1, <1>8 DEF NoProbe
<1>9. ASSUME NEW j \in 1 .. n + 1, Flag(t, y, j)
      PROVE  /\ ~NoProbe(t, 1, j - 1)
             /\ \A i \in 1 .. j - 1 : t[i].op = "types" /\ NoProbe(t, i + 1, j - 1) => Flag(t, y, i)
  <2>1. Flag(st, x, j)
    BY <1>1, <1>3, <1>4, <1>6, <1>9
  <2>2. /\ ~NoProbe(st, 1, j - 1)
        /\ \A i \in 1 .. j - 1 : st[i].op = "types" /\ NoProbe(st, i + 1, j - 1) => Flag(st, x, i)
    BY <2>1, <1>1 DEF Flags
  <2>3. j - 1 \in 0 .. n /\ \A i \in 1 .. j - 1 : i \in 1 .. n /\ i + 1 \in 1 .. n + 1
    BY <1>1
  <2>4. ~NoProbe(t, 1, j - 1)
    BY <1>1, <1>7, <2>2, <2>3
  <2>5. ASSUME NEW i \in 1 .. j - 1, t[i].op = "types", NoProbe(t, i + 1, j - 1) PROVE Flag(t, y, i)
    BY <1>1, <1>3, <1>7, <2>2, <2>3, <2>5
  <2> QED  BY <2>4, <2>5
<1>10. ASSUME Flag(t, y, n + 2)
       PROVE  /\ ~NoProbe(t, 1, n + 1)
              /\ \A i \in 1 .. n + 1 : t[i].op = "types" /\ NoProbe(t, i + 1, n + 1) => Flag(t, y, i)
  <2>1. x = TRUE /\ f.op \notin {"cache", "probe"}
    BY <1>2, <1>5, <1>10
  <2>2. /\ ~NoProbe(st, 1, n)
        /\ \A i \in 1 .. n : st[i].op = "types" /\ NoProbe(st, i + 1, n) => Flag(st, x, i)
    <3>1. n + 1 \in 1 .. Len(st) + 1 /\ (n + 1) - 1 = n
      BY <1>1
    <3>2. Flag(st, x, n + 1)
      BY <1>4, <2>1
    <3>3. /\ ~NoProbe(st, 1, (n + 1) - 1)
          /\ \A i \in 1 .. (n + 1) - 1 :
               st[i].op = "types" /\ NoProbe(st, i + 1, (n + 1) - 1) => Flag(st, x, i)
      BY <3>1, <3>2 DEF Flags
    <3> QED  BY <3>1, <3>3
  <2>3. ~NoProbe(t, 1, n + 1)
    BY <1>1, <1>8, <2>2
  <2>4. ASSUME NEW i \in 1 .. n + 1, t[i].op = "types", NoProbe(t, i + 1, n + 1) PROVE Flag(t, y, i)
    <3>1. CASE i = n + 1
      BY <1>1, <1>6, <2>1, <2>4, <3>1
    <3>2. CASE i # n + 1
      <4>1. i \in 1 .. n /\ i + 1 \in 1 .. n + 1
        BY <1>1, <3>2
      <4> QED  BY <1>1, <1>3, <1>8, <2>2, <2>4, <4>1
    <3> QED  BY <3>1, <3>2
  <2> QED  BY <2>3, <2>4
<1>11. Flags(t, y)
  <2>1. ASSUME NEW j \in 1 .. Len(t) + 1, Flag(t, y, j)
        PROVE  /\ ~NoProbe(t, 1, j - 1)
               /\ \A i \in 1 .. j - 1 : t[i].op = "types" /\ NoProbe(t, i + 1, j - 1) => Flag(t, y, i)
    <3>1. CASE j \in 1 .. n + 1
      BY <1>9, <2>1, <3>1
    <3>2. CASE j \notin 1 .. n + 1
      <4>1. j = n + 2 /\ j - 1 = n + 1
        BY <1>1, <3>2
      <4> QED  BY <1>10, <2>1, <4>1
    <3> QED  BY <3>1, <3>2
  <2> QED  BY <2>1 DEF Flags
<1>12. ASSUME Flagged(st, x) PROVE Flagged(t, y)
  <2>1. PICK i \in 1 .. n + 1 : Flag(st, x, i)
    BY <1>12 DEF Flagged
  <2>2. CASE i # n + 1
    <3>1. i \in 1 .. n /\ i \in 1 .. Len(t) + 1
      BY <1>1, <2>2
    <3> QED  BY <1>3, <2>1, <3>1 DEF Flagged
  <2>3. CASE i = n + 1
    <3>1. x = TRUE
      BY <1>4, <2>1, <2>3
    <3>2. n + 1 \in 1 .. Len(t) + 1 /\ n + 2 \in 1 .. Len(t) + 1
      BY <1>1
    <3>3. Flag(t, y, n + 1) \/ Flag(t, y, n + 2)
      BY <1>2, <1>5, <1>6, <3>1
    <3> QED  BY <3>2, <3>3 DEF Flagged
  <2> QED  BY <2>2, <2>3
<1> QED  BY <1>11, <1>12 DEF t

LEMMA FlagsPopped ==
  ASSUME NEW st \in Stack, st # <<>>, NEW x \in BOOLEAN, NEW y \in BOOLEAN, Flags(st, x),
         st[Len(st)].op = "types" => y = st[Len(st)].saved.exhausted,
         st[Len(st)].op = "probe" => y = st[Len(st)].outer,
         st[Len(st)].op = "cache" => (y = TRUE <=> st[Len(st)].outer = TRUE \/ x = TRUE),
         st[Len(st)].op \in {"spine", "unfold"} => y = x
  PROVE  /\ Flags(Prefix(st, Len(st) - 1), y)
         /\ st[Len(st)].op = "types" /\ x = TRUE => y = TRUE
         /\ Flagged(st, x) /\ (st[Len(st)].op = "probe" => x = FALSE)
              => Flagged(Prefix(st, Len(st) - 1), y)
<1> DEFINE n == Len(st)
           t == Prefix(st, n - 1)
           f == st[n]
<1>1. /\ n \in Nat \ {0} /\ f \in Frame /\ Len(t) = n - 1
      /\ \A i \in 1 .. n - 1 : t[i] = st[i]
  BY Popped
<1>2. f.op \in {"types", "cache", "probe", "spine", "unfold"}
  <2> HIDE DEF f
  <2> QED  BY <1>1 DEF Frame, TypesFrame, CacheFrame, ProbeFrame, SpineFrame, UnfoldFrame
<1> HIDE DEF t
<1>3. \A i \in 1 .. n - 1 : Flag(t, y, i) <=> Flag(st, x, i)
  BY <1>1 DEF Flag
<1>4. Flag(st, x, n + 1) <=> x = TRUE
  BY <1>1 DEF Flag
<1>5. Flag(t, y, n) <=> y = TRUE
  BY <1>1 DEF Flag
<1>6. Flag(st, x, n) <=> \/ f.op = "types" /\ f.saved.exhausted = TRUE
                         \/ f.op \in {"cache", "probe"} /\ f.outer = TRUE
  BY <1>1 DEF Flag
<1>7. y = TRUE => Flag(st, x, n) \/ (f.op # "probe" /\ Flag(st, x, n + 1))
  BY <1>2, <1>4, <1>6
<1>8. \A i \in 1 .. n, j \in 0 .. n - 1 : NoProbe(t, i, j) <=> NoProbe(st, i, j)
  BY <1>1 DEF NoProbe
<1>9. ASSUME NEW i \in 1 .. n, f.op # "probe", NoProbe(st, i, n - 1) PROVE NoProbe(st, i, n)
  BY <1>1, <1>9 DEF NoProbe
<1>10. ASSUME NEW j \in 1 .. n + 1, Flag(st, x, j)
       PROVE  /\ ~NoProbe(st, 1, j - 1)
              /\ \A i \in 1 .. j - 1 : st[i].op = "types" /\ NoProbe(st, i + 1, j - 1) => Flag(st, x, i)
  BY <1>10 DEF Flags
<1>11. ASSUME NEW j \in 1 .. n, Flag(t, y, j)
       PROVE  /\ ~NoProbe(t, 1, j - 1)
              /\ \A i \in 1 .. j - 1 : t[i].op = "types" /\ NoProbe(t, i + 1, j - 1) => Flag(t, y, i)
  <2>0. j - 1 \in 0 .. n - 1 /\ \A i \in 1 .. j - 1 : i \in 1 .. n - 1 /\ i + 1 \in 1 .. n
    BY <1>1
  <2>1. CASE Flag(st, x, j)
    <3>1. j \in 1 .. n + 1
      BY <1>1
    <3>2. /\ ~NoProbe(st, 1, j - 1)
          /\ \A i \in 1 .. j - 1 : st[i].op = "types" /\ NoProbe(st, i + 1, j - 1) => Flag(st, x, i)
      BY <1>10, <2>1, <3>1
    <3>3. ~NoProbe(t, 1, j - 1)
      BY <1>1, <1>8, <2>0, <3>2
    <3>4. ASSUME NEW i \in 1 .. j - 1, t[i].op = "types", NoProbe(t, i + 1, j - 1) PROVE Flag(t, y, i)
      BY <1>1, <1>3, <1>8, <2>0, <3>2, <3>4
    <3> QED  BY <3>3, <3>4
  <2>2. CASE ~Flag(st, x, j)
    <3>1. j = n /\ f.op # "probe" /\ Flag(st, x, n + 1)
      <4>1. j = n
        BY <1>1, <1>3, <1>11, <2>2
      <4> QED  BY <4>1, <1>5, <1>7, <1>11, <2>2
    <3>2. n + 1 \in 1 .. n + 1 /\ (n + 1) - 1 = n
      BY <1>1
    <3>3. /\ ~NoProbe(st, 1, n)
          /\ \A i \in 1 .. n : st[i].op = "types" /\ NoProbe(st, i + 1, n) => Flag(st, x, i)
      <4>1. /\ ~NoProbe(st, 1, (n + 1) - 1)
            /\ \A i \in 1 .. (n + 1) - 1 :
                 st[i].op = "types" /\ NoProbe(st, i + 1, (n + 1) - 1) => Flag(st, x, i)
        BY <1>10, <3>1, <3>2
      <4> QED  BY <4>1, <3>2
    <3>4. ~NoProbe(t, 1, j - 1)
      <4>1. 1 \in 1 .. n /\ ~NoProbe(st, 1, n - 1)
        BY <1>1, <1>9, <3>1, <3>3
      <4> QED  BY <4>1, <1>8, <2>0, <3>1
    <3>5. ASSUME NEW i \in 1 .. j - 1, t[i].op = "types", NoProbe(t, i + 1, j - 1) PROVE Flag(t, y, i)
      <4>1. i \in 1 .. n - 1 /\ i + 1 \in 1 .. n /\ i \in 1 .. n
        BY <1>1, <3>1
      <4>2. NoProbe(st, i + 1, n)
        BY <1>8, <1>9, <2>0, <3>1, <3>5, <4>1
      <4> QED  BY <1>1, <1>3, <3>3, <3>5, <4>1, <4>2
    <3> QED  BY <3>4, <3>5
  <2> QED  BY <2>1, <2>2
<1>12. Flags(t, y)
  BY <1>1, <1>11 DEF Flags
<1>13. ASSUME f.op = "types", x = TRUE PROVE y = TRUE
  <2>0. Flag(st, x, n + 1)
    BY <1>4, <1>13
  <2>1. n + 1 \in 1 .. n + 1 /\ n \in 1 .. (n + 1) - 1
    BY <1>1
  <2>2. NoProbe(st, n + 1, (n + 1) - 1)
    BY <1>1 DEF NoProbe
  <2>3. Flag(st, x, n)
    BY <1>10, <1>13, <2>0, <2>1, <2>2
  <2> QED  BY <1>6, <1>13, <2>3
<1>14. ASSUME Flagged(st, x), f.op = "probe" => x = FALSE PROVE Flagged(t, y)
  <2>1. PICK i \in 1 .. n + 1 : Flag(st, x, i)
    BY <1>14 DEF Flagged
  <2>2. CASE i \in 1 .. n - 1
    <3>1. i \in 1 .. Len(t) + 1
      BY <1>1, <2>2
    <3> QED  BY <1>3, <2>1, <2>2, <3>1 DEF Flagged
  <2>3. CASE i \notin 1 .. n - 1
    <3>1. i = n \/ i = n + 1
      BY <1>1, <2>3
    <3>2. y = TRUE
      BY <1>2, <1>4, <1>6, <1>13, <1>14, <2>1, <3>1
    <3>3. n \in 1 .. Len(t) + 1
      BY <1>1
    <3> QED  BY <1>5, <3>2, <3>3 DEF Flagged
  <2> QED  BY <2>2, <2>3
<1> QED  BY <1>12, <1>13, <1>14 DEF t

\* A budget that runs out raises the flag.
LEMMA FlagsRaised ==
  ASSUME NEW st \in Stack, NEW x \in BOOLEAN, Flags(st, x), Depths(st, 1)
  PROVE  Flags(st, TRUE) /\ Flagged(st, TRUE)
<1> DEFINE n == Len(st)
<1>1. n \in Nat /\ n + 1 \in 1 .. Len(st) + 1
  BY DEF Stack
<1>2. PICK p \in 1 .. n : st[p].op = "probe" /\ \A j \in p + 1 .. n : st[j].op # "types"
  BY DEF Depths, Budgeted
<1>3. \A i \in 1 .. n : Flag(st, TRUE, i) <=> Flag(st, x, i)
  BY <1>1 DEF Flag
<1>4. ASSUME NEW j \in 1 .. Len(st) + 1, Flag(st, TRUE, j)
      PROVE  /\ ~NoProbe(st, 1, j - 1)
             /\ \A i \in 1 .. j - 1 : st[i].op = "types" /\ NoProbe(st, i + 1, j - 1) => Flag(st, TRUE, i)
  <2>1. CASE j \in 1 .. n
    <3>1. \A i \in 1 .. j - 1 : i \in 1 .. n
      BY <1>1, <2>1
    <3>2. Flag(st, x, j)
      BY <1>3, <1>4, <2>1
    <3>3. /\ ~NoProbe(st, 1, j - 1)
          /\ \A i \in 1 .. j - 1 : st[i].op = "types" /\ NoProbe(st, i + 1, j - 1) => Flag(st, x, i)
      BY <3>2 DEF Flags
    <3> QED  BY <1>3, <3>1, <3>3
  <2>2. CASE j \notin 1 .. n
    <3>1. j - 1 = n
      BY <1>1, <2>2
    <3>2. ~NoProbe(st, 1, n)
      BY <1>1, <1>2 DEF NoProbe
    <3>3. ASSUME NEW i \in 1 .. n, st[i].op = "types" PROVE ~NoProbe(st, i + 1, n)
      <4>1. p \in i + 1 .. n
        BY <1>1, <1>2, <3>3
      <4> QED  BY <1>2, <4>1 DEF NoProbe
    <3> QED  BY <3>1, <3>2, <3>3
  <2> QED  BY <2>1, <2>2
<1>5. Flags(st, TRUE)
  BY <1>4 DEF Flags
<1>6. Flagged(st, TRUE)
  BY <1>1 DEF Flagged, Flag
<1> QED  BY <1>5, <1>6

\* Below a question of the checker no flag is up.
LEMMA FlagsAtBottom ==
  ASSUME NEW st \in Stack, NEW x \in BOOLEAN, Flags(st, x), Len(st) = 1, st[1].op = "types"
  PROVE  x = FALSE /\ st[1].saved.exhausted # TRUE
<1>1. 1 \in 1 .. Len(st) + 1 /\ 2 \in 1 .. Len(st) + 1
  OBVIOUS
<1>2. NoProbe(st, 1, 1 - 1) /\ NoProbe(st, 1, 2 - 1)
  BY DEF NoProbe
<1>3. ~Flag(st, x, 1) /\ ~Flag(st, x, 2)
  BY <1>1, <1>2 DEF Flags
<1>4. Flag(st, x, 2) <=> x = TRUE
  BY DEF Flag
<1>5. Flag(st, x, 1) <=> st[1].saved.exhausted = TRUE
  BY DEF Flag
<1>6. ~(x = TRUE)
  BY <1>3, <1>4
<1> QED  BY <1>3, <1>5, <1>6

-----------------------------------------------------------------------------
(* The pairs that are convertible.                                         *)

\* Why pair p is, if t tells which of the pairs after it are.
Ways(g, force, t, p) ==
  \/ g[p].kind = "yes"
  \/ g[p].kind \in {"spine", "delta", "iota"} /\ \A i \in DOMAIN g[p].args : t[g[p].args[i]]
  \/ g[p].ty # 0 /\ t[g[p].ty]
  \/ /\ g[p].kind \in {"delta", "iota", "step"} /\ g[p].next # 0
     /\ g[p].forced => force
     /\ t[g[p].next]

LEMMA GraphShape ==
  ASSUME NEW g \in Graphs, NEW p \in Pairs
  PROVE  /\ g[p].kind \in {"yes", "no", "spine", "delta", "iota", "step"}
         /\ g[p].args \in Seq(Pairs) /\ \A i \in DOMAIN g[p].args : g[p].args[i] > p
         /\ g[p].ty \in Pairs \cup {0} /\ g[p].next \in Pairs \cup {0}
         /\ g[p].ty # 0 => g[p].ty > p
         /\ g[p].next # 0 => g[p].next > p
         /\ g[p].kind = "delta" => g[p].next # 0
         /\ g[p].forced \in BOOLEAN /\ (g[p].kind = "iota" => ~g[p].forced)
         /\ g[p].cache \in {"no", "pos", "both"}
<1>1. IsShape(g[p])
  BY ConvAssumption DEF IsGraph
<1>2. \A i \in DOMAIN g[p].args : g[p].args[i] > p
  BY ConvAssumption DEF IsGraph
<1>3. {g[p].ty, g[p].next} \subseteq {0} \cup p + 1 .. Last
  BY ConvAssumption DEF IsGraph
<1>4. p \in Nat
  BY DEF Pairs
<1>5. (g[p].ty # 0 => g[p].ty > p) /\ (g[p].next # 0 => g[p].next > p)
  BY <1>3, <1>4, ConvAssumption
<1> QED  BY <1>1, <1>2, <1>5 DEF IsShape

LEMMA WaysAhead ==
  ASSUME NEW g \in Graphs, NEW force \in BOOLEAN, NEW p \in Pairs,
         NEW t \in [Pairs -> BOOLEAN], NEW u \in [Pairs -> BOOLEAN],
         \A q \in Pairs : q > p => t[q] = u[q]
  PROVE  Ways(g, force, t, p) <=> Ways(g, force, u, p)
<1>1. \A i \in DOMAIN g[p].args : t[g[p].args[i]] = u[g[p].args[i]]
  BY GraphShape
<1>2. g[p].ty # 0 => t[g[p].ty] = u[g[p].ty]
  BY GraphShape
<1>3. g[p].next # 0 => t[g[p].next] = u[g[p].next]
  BY GraphShape
<1>4. (\A i \in DOMAIN g[p].args : t[g[p].args[i]]) <=> (\A i \in DOMAIN g[p].args : u[g[p].args[i]])
  BY <1>1
<1> QED  BY <1>2, <1>3, <1>4 DEF Ways

LEMMA TruthExists ==
  ASSUME NEW g \in Graphs, NEW force \in BOOLEAN
  PROVE  \E t \in [Pairs -> BOOLEAN] : t = [p \in Pairs |-> Ways(g, force, t, p)]
<1> DEFINE Upto(n) == {t \in [Pairs -> BOOLEAN] :
                         \A p \in Pairs : p > Last - n => t[p] = Ways(g, force, t, p)}
           Done == {n \in 0 .. Last : Upto(n) # {}}
<1>0. Last \in Nat
  BY ConvAssumption
<1>1. 0 \in Done
  <2>1. \A p \in Pairs : ~(p > Last - 0)
    BY <1>0 DEF Pairs
  <2>2. [p \in Pairs |-> FALSE] \in Upto(0)
    BY <2>1
  <2> HIDE DEF Upto
  <2> QED  BY <1>0, <2>2
<1>2. ASSUME NEW n \in 0 .. Last - 1, n \in Done PROVE n + 1 \in Done
  <2>1. PICK t \in [Pairs -> BOOLEAN] : \A p \in Pairs : p > Last - n => t[p] = Ways(g, force, t, p)
    BY <1>2
  <2> DEFINE r == Last - n
             u == [t EXCEPT ![r] = Ways(g, force, t, r)]
  <2>2. r \in Pairs
    BY <1>0 DEF Pairs
  <2>3. Ways(g, force, t, r) \in BOOLEAN
    BY DEF Ways
  <2>4. u \in [Pairs -> BOOLEAN] /\ u[r] = Ways(g, force, t, r) /\ \A q \in Pairs : q # r => u[q] = t[q]
    BY <2>2, <2>3
  <2>5. ASSUME NEW p \in Pairs, p > Last - (n + 1) PROVE u[p] = Ways(g, force, u, p)
    <3>1. p \in Nat /\ p >= r /\ (p # r => p > Last - n)
      BY <1>0, <2>5 DEF Pairs
    <3> HIDE DEF u
    <3>2. \A q \in Pairs : q > p => q # r
      BY <1>0, <3>1 DEF Pairs
    <3>3. \A q \in Pairs : q > p => u[q] = t[q]
      BY <2>4, <3>2
    <3>4. Ways(g, force, u, p) <=> Ways(g, force, t, p)
      BY <2>4, <3>3, WaysAhead
    <3>5. u[p] = Ways(g, force, t, p)
      BY <2>1, <2>4, <3>1
    <3>6. Ways(g, force, u, p) \in BOOLEAN /\ Ways(g, force, t, p) \in BOOLEAN
      BY DEF Ways
    <3> QED  BY <3>4, <3>5, <3>6
  <2>6. u \in Upto(n + 1)
    <3> HIDE DEF u
    <3> QED  BY <2>4, <2>5
  <2>7. n + 1 \in 0 .. Last
    BY <1>0
  <2> HIDE DEF Upto
  <2> QED  BY <2>6, <2>7
<1>3. 0 .. Last \subseteq Done
  <2> HIDE DEF Done
  <2> QED  BY <1>0, <1>1, <1>2, SetInduction
<1>4. PICK t \in [Pairs -> BOOLEAN] : \A p \in Pairs : p > Last - Last => t[p] = Ways(g, force, t, p)
  <2>1. Last \in Done
    BY <1>0, <1>3
  <2> QED  BY <2>1
<1>5. \A p \in Pairs : p > Last - Last
  BY <1>0 DEF Pairs
<1>6. t = [p \in Pairs |-> Ways(g, force, t, p)]
  BY <1>4, <1>5
<1> QED  BY <1>6

\* The recursion of Truth is well founded: a pair is convertible for one of
\* these reasons.
LEMMA TruthMeans ==
  ASSUME NEW g \in Graphs, NEW force \in BOOLEAN
  PROVE  /\ Truth(g, force) \in [Pairs -> BOOLEAN]
         /\ \A p \in Pairs : Truth(g, force)[p] <=> Ways(g, force, Truth(g, force), p)
<1> DEFINE t == CHOOSE t : t = [p \in Pairs |-> Ways(g, force, t, p)]
<1>1. t = [p \in Pairs |-> Ways(g, force, t, p)]
  BY TruthExists
<1>2. Truth(g, force) = t
  BY DEF Truth, Ways
<1> HIDE DEF t
<1>3. \A p \in Pairs : Ways(g, force, t, p) \in BOOLEAN
  BY DEF Ways
<1>4. t \in [Pairs -> BOOLEAN] /\ \A p \in Pairs : t[p] <=> Ways(g, force, t, p)
  BY <1>1, <1>3
<1> QED  BY <1>2, <1>4

-----------------------------------------------------------------------------
(* What the calls that wait know.                                          *)

T0(g) == Truth(g, FALSE)
T1(g) == Truth(g, TRUE)

\* The pair a call waits for.
Question(g, f) ==
  IF f.op = "types" THEN (IF f.then = "idle" THEN f.p ELSE g[f.p].ty)
  ELSE IF f.op \in {"spine", "probe"} THEN g[f.p].args[f.i]
  ELSE IF f.op = "unfold" THEN g[f.p].next
  ELSE f.p

\* Before the last resort, which asks for the types: nothing else makes pair p
\* convertible, or a budget ran out.
LastResort(g, p, x) == T0(g)[p] => x = TRUE \/ (g[p].ty # 0 /\ T0(g)[g[p].ty])

\* Before pair p is unfolded: its arguments were no reason to accept it, unless
\* they count again once it is unfolded, or a budget ran out.
ToUnfold(g, p, d, x) ==
  /\ g[p].kind \in {"delta", "iota", "step"}
  /\ g[p].kind = "iota" => g[p].args # <<>>
  /\ /\ g[p].kind = "delta" /\ g[p].forced /\ d = 1
     /\ \A i \in DOMAIN g[p].args : T0(g)[g[p].args[i]]
     => x = TRUE

\* The arguments before the i-th agree.
AgreeBefore(g, p, i) == \A j \in 1 .. i - 1 : T1(g)[g[p].args[j]]

CallOK(g, f) ==
  /\ f.op = "types" =>
       /\ f.then # "idle" => g[f.p].ty # 0
       /\ f.then = "unfold" => ToUnfold(g, f.p, f.saved.depth, f.saved.exhausted)
       /\ f.then = "fail" => LastResort(g, f.p, f.saved.exhausted)
  /\ f.op = "spine" =>
       /\ f.i \in DOMAIN g[f.p].args /\ AgreeBefore(g, f.p, f.i)
       /\ f.then = "irrel" => g[f.p].kind \in {"delta", "iota"}
       /\ f.then = "cold" => g[f.p].kind = "spine" \/ (g[f.p].kind = "iota" /\ g[f.p].next = 0)
  /\ f.op = "probe" =>
       /\ f.i \in DOMAIN g[f.p].args
       /\ f.decided = TRUE => AgreeBefore(g, f.p, f.i)
       /\ g[f.p].kind \in {"delta", "iota"}
  /\ f.op = "unfold" => g[f.p].next # 0 /\ g[f.p].kind \in {"delta", "iota", "step"}

IsFirst(f) == f.op = "types" /\ f.then = "idle"

Calls(g, st) ==
  \A i \in 1 .. Len(st) :
    /\ CallOK(g, st[i])
    /\ i > 1 => st[i].p = Question(g, st[i - 1])
    /\ IsFirst(st[i]) <=> i = 1

\* All that holds of the calls of st, with depth d and flag x in force.
Held(g, st, d, x) == st \in Stack /\ Depths(st, d) /\ Flags(st, x) /\ Calls(g, st)

\* What the call f does to depth and flag when it begins, and when it ends.
Suspends(f, d, x, e, y) ==
  /\ f.op = "types" => f.saved.depth = d /\ f.saved.exhausted = x /\ e = 0 /\ y = x
  /\ f.op = "cache" => f.outer = x /\ e = d /\ y = FALSE
  /\ f.op = "probe" => d = 0 /\ f.outer = x /\ e = 1 /\ y = FALSE
  /\ f.op \in {"spine", "unfold"} => e = d /\ y = x

Resumes(f, d, x, e, y) ==
  /\ f.op = "types" => e = f.saved.depth /\ y = f.saved.exhausted
  /\ f.op = "cache" => e = d /\ (y = TRUE <=> f.outer = TRUE \/ x = TRUE)
  /\ f.op = "probe" => e = 0 /\ y = f.outer
  /\ f.op \in {"spine", "unfold"} => e = d /\ y = x

LastCall(st) == st[Len(st)]
Beneath(st)  == Prefix(st, Len(st) - 1)

LEMMA FrameOps ==
  ASSUME NEW f \in Frame
  PROVE  /\ f.op \in {"types", "cache", "spine", "probe", "unfold"} /\ f.p \in Pairs
         /\ f.op = "types" => f \in TypesFrame
         /\ f.op = "cache" => f \in CacheFrame
         /\ f.op = "spine" => f \in SpineFrame
         /\ f.op = "probe" => f \in ProbeFrame
BY DEF Frame, TypesFrame, CacheFrame, ProbeFrame, SpineFrame, UnfoldFrame

LEMMA QuestionPair ==
  ASSUME NEW g \in Graphs, NEW f \in Frame, CallOK(g, f)
  PROVE  Question(g, f) \in Pairs
<1>1. f.p \in Pairs
  BY FrameOps
<1>2. g[f.p].args \in Seq(Pairs) /\ g[f.p].ty \in Pairs \cup {0} /\ g[f.p].next \in Pairs \cup {0}
  BY <1>1, GraphShape
<1>3. \A i \in DOMAIN g[f.p].args : g[f.p].args[i] \in Pairs
  BY <1>2
<1> QED  BY <1>1, <1>2, <1>3 DEF CallOK, Question

LEMMA HeldPushed ==
  ASSUME NEW g \in Graphs, NEW st, NEW f \in Frame,
         NEW d \in {0, 1}, NEW x \in BOOLEAN, NEW e \in {0, 1}, NEW y \in BOOLEAN,
         Held(g, st, d, x), Suspends(f, d, x, e, y), CallOK(g, f),
         st # <<>> => f.p = Question(g, LastCall(st)),
         IsFirst(f) <=> st = <<>>
  PROVE  /\ Held(g, Append(st, f), e, y) /\ LastCall(Append(st, f)) = f /\ Append(st, f) # <<>>
         /\ Flagged(st, x) => Flagged(Append(st, f), y)
<1> DEFINE t == Append(st, f)
           n == Len(st)
<1>0. st \in Stack
  BY DEF Held
<1>1. /\ n \in Nat /\ t \in Stack /\ Len(t) = n + 1 /\ t[n + 1] = f
      /\ \A i \in 1 .. n : t[i] = st[i]
  BY <1>0, Pushed DEF Stack
<1>2. f.op \in {"types", "cache", "spine", "probe", "unfold"}
  BY FrameOps
<1>3. Depths(t, e)
  BY <1>0, <1>2, DepthsPushed DEF Held, Suspends
<1>4. Flags(t, y) /\ (Flagged(st, x) => Flagged(t, y))
  BY <1>0, <1>2, FlagsPushed DEF Held, Suspends
<1>5. st = <<>> <=> n = 0
  BY <1>0 DEF Stack
<1> HIDE DEF t
<1>6. ASSUME NEW i \in 1 .. Len(t)
      PROVE  /\ CallOK(g, t[i])
             /\ i > 1 => t[i].p = Question(g, t[i - 1])
             /\ IsFirst(t[i]) <=> i = 1
  <2>1. CASE i = n + 1
    <3>1. t[i] = f /\ i - 1 = n /\ (i > 1 <=> st # <<>>) /\ (i = 1 <=> st = <<>>)
      BY <1>1, <1>5, <2>1
    <3>2. i > 1 => t[i - 1] = LastCall(st)
      BY <1>1, <3>1 DEF LastCall
    <3> QED  BY <3>1, <3>2
  <2>2. CASE i # n + 1
    <3>1. i \in 1 .. n /\ (i > 1 => i - 1 \in 1 .. n)
      BY <1>1, <2>2
    <3>2. t[i] = st[i] /\ (i > 1 => t[i - 1] = st[i - 1])
      BY <1>1, <3>1
    <3>3. /\ CallOK(g, st[i])
          /\ i > 1 => st[i].p = Question(g, st[i - 1])
          /\ IsFirst(st[i]) <=> i = 1
      BY <3>1 DEF Held, Calls
    <3> QED  BY <3>2, <3>3
  <2> QED  BY <2>1, <2>2
<1>7. Calls(g, t)
  BY <1>6 DEF Calls
<1>8. LastCall(t) = f /\ t # <<>>
  BY <1>1 DEF LastCall
<1> QED  BY <1>1, <1>3, <1>4, <1>7, <1>8 DEF Held, t

LEMMA HeldPopped ==
  ASSUME NEW g \in Graphs, NEW st, st # <<>>,
         NEW d \in {0, 1}, NEW x \in BOOLEAN, NEW e \in {0, 1}, NEW y \in BOOLEAN,
         Held(g, st, d, x), Resumes(LastCall(st), d, x, e, y)
  PROVE  /\ Held(g, Beneath(st), e, y)
         /\ Beneath(st) # <<>> => LastCall(st).p = Question(g, LastCall(Beneath(st)))
         /\ IsFirst(LastCall(st)) <=> Beneath(st) = <<>>
         /\ LastCall(st).op = "types" /\ x = TRUE => y = TRUE
         /\ Flagged(st, x) /\ (LastCall(st).op = "probe" => x = FALSE) => Flagged(Beneath(st), y)
<1> DEFINE t == Beneath(st)
           n == Len(st)
<1>0. st \in Stack
  BY DEF Held
<1>1. /\ n \in Nat \ {0} /\ st[n] \in Frame /\ t \in Stack /\ Len(t) = n - 1
      /\ \A i \in 1 .. n - 1 : t[i] = st[i]
  BY <1>0, Popped DEF Beneath
<1> USE DEF Beneath
<1>2. st[n].op \in {"types", "cache", "spine", "probe", "unfold"}
  BY <1>1, FrameOps
<1>3. Depths(t, e)
  BY <1>0, <1>2, DepthsPopped DEF Held, Resumes, LastCall
<1>4. /\ Flags(t, y)
      /\ st[n].op = "types" /\ x = TRUE => y = TRUE
      /\ Flagged(st, x) /\ (st[n].op = "probe" => x = FALSE) => Flagged(t, y)
  <2>1. Flags(st, x)
    BY DEF Held
  <2>2. /\ st[n].op = "types" => y = st[n].saved.exhausted
        /\ st[n].op = "probe" => y = st[n].outer
        /\ st[n].op = "cache" => (y = TRUE <=> st[n].outer = TRUE \/ x = TRUE)
        /\ st[n].op \in {"spine", "unfold"} => y = x
    BY DEF Resumes, LastCall
  <2> QED  BY <1>0, <2>1, <2>2, FlagsPopped
<1>5. ASSUME NEW i \in 1 .. n
      PROVE  /\ CallOK(g, st[i])
             /\ i > 1 => st[i].p = Question(g, st[i - 1])
             /\ IsFirst(st[i]) <=> i = 1
  BY <1>5 DEF Held, Calls
<1> HIDE DEF t
<1>6. Calls(g, t)
  <2>1. ASSUME NEW i \in 1 .. Len(t)
        PROVE  /\ CallOK(g, t[i])
               /\ i > 1 => t[i].p = Question(g, t[i - 1])
               /\ IsFirst(t[i]) <=> i = 1
    <3>1. i \in 1 .. n /\ t[i] = st[i] /\ (i > 1 => t[i - 1] = st[i - 1])
      BY <1>1
    <3> QED  BY <1>5, <3>1
  <2> QED  BY <2>1 DEF Calls
<1>7. t # <<>> => st[n].p = Question(g, LastCall(t))
  <2>1. ASSUME t # <<>> PROVE st[n].p = Question(g, LastCall(t))
    <3>1. n > 1 /\ n \in 1 .. n
      BY <1>1, <2>1 DEF Stack
    <3>2. LastCall(t) = st[n - 1]
      BY <1>1, <3>1 DEF LastCall
    <3> QED  BY <1>5, <3>1, <3>2
  <2> QED  BY <2>1
<1>8. IsFirst(st[n]) <=> t = <<>>
  <2>1. t = <<>> <=> n = 1
    BY <1>1 DEF Stack
  <2>2. n \in 1 .. n
    BY <1>1
  <2> QED  BY <1>5, <2>1, <2>2
<1> QED  BY <1>1, <1>3, <1>4, <1>6, <1>7, <1>8 DEF Held, LastCall, t

-----------------------------------------------------------------------------
(* What follows from the terms.                                            *)

LEMMA Accepted ==
  ASSUME NEW g \in Graphs, NEW p \in Pairs
  PROVE  /\ g[p].kind = "yes" => T1(g)[p]
         /\ g[p].kind \in {"spine", "delta", "iota"} /\ AgreeBefore(g, p, Len(g[p].args) + 1) => T1(g)[p]
         /\ g[p].ty # 0 /\ T1(g)[g[p].ty] => T1(g)[p]
         /\ g[p].kind \in {"delta", "iota", "step"} /\ g[p].next # 0 /\ T1(g)[g[p].next] => T1(g)[p]
<1>1. T1(g)[p] <=> Ways(g, TRUE, T1(g), p)
  BY TruthMeans DEF T1
<1>2. AgreeBefore(g, p, Len(g[p].args) + 1) => \A i \in DOMAIN g[p].args : T1(g)[g[p].args[i]]
  <2>1. g[p].args \in Seq(Pairs)
    BY GraphShape
  <2>2. DOMAIN g[p].args = 1 .. (Len(g[p].args) + 1) - 1
    BY <2>1
  <2> QED  BY <2>2 DEF AgreeBefore
<1> QED  BY <1>1, <1>2 DEF Ways

\* The ways that are left when the arguments are no reason.
LEMMA Refuted ==
  ASSUME NEW g \in Graphs, NEW p \in Pairs, T0(g)[p]
  PROVE  \/ g[p].kind = "yes"
         \/ g[p].kind \in {"spine", "delta", "iota"} /\ \A i \in DOMAIN g[p].args : T0(g)[g[p].args[i]]
         \/ g[p].ty # 0 /\ T0(g)[g[p].ty]
         \/ /\ g[p].kind \in {"delta", "iota", "step"} /\ g[p].next # 0
            /\ ~g[p].forced /\ T0(g)[g[p].next]
<1>1. Ways(g, FALSE, T0(g), p)
  BY TruthMeans DEF T0
<1> QED  BY <1>1 DEF Ways

LEMMA Congruence ==
  ASSUME NEW g \in Graphs, NEW p \in Pairs, g[p].kind \in {"delta", "iota"}, g[p].next # 0,
         \A i \in DOMAIN g[p].args : T0(g)[g[p].args[i]]
  PROVE  T0(g)[g[p].next]
BY ConvAssumption DEF Congruent, T0

LEMMA LastAfterNo ==
  ASSUME NEW g \in Graphs, NEW p \in Pairs, NEW x \in BOOLEAN, g[p].kind = "no"
  PROVE  LastResort(g, p, x)
BY Refuted DEF LastResort

LEMMA LastAfterSpine ==
  ASSUME NEW g \in Graphs, NEW p \in Pairs, NEW x \in BOOLEAN, NEW i \in DOMAIN g[p].args,
         g[p].kind = "spine" \/ (g[p].kind = "iota" /\ g[p].next = 0),
         T0(g)[g[p].args[i]] => x = TRUE
  PROVE  LastResort(g, p, x)
BY Refuted DEF LastResort

LEMMA LastUnopened ==
  ASSUME NEW g \in Graphs, NEW p \in Pairs, NEW x \in BOOLEAN, NEW d \in {0, 1},
         ToUnfold(g, p, d, x), g[p].kind # "iota", g[p].next = 0 \/ (g[p].forced /\ d = 1)
  PROVE  LastResort(g, p, x)
<1>1. SUFFICES ASSUME T0(g)[p], ~(x = TRUE) PROVE g[p].ty # 0 /\ T0(g)[g[p].ty]
  BY DEF LastResort
<1>2. g[p].kind \in {"delta", "step"} /\ (g[p].kind = "delta" => g[p].next # 0)
  BY GraphShape DEF ToUnfold
<1>3. ~(g[p].kind = "delta" /\ \A i \in DOMAIN g[p].args : T0(g)[g[p].args[i]])
  BY <1>1, <1>2 DEF ToUnfold
<1> QED  BY <1>1, <1>2, <1>3, Refuted

LEMMA LastAfterUnfold ==
  ASSUME NEW g \in Graphs, NEW p \in Pairs, NEW x \in BOOLEAN,
         g[p].kind \in {"delta", "iota", "step"}, g[p].next # 0, T0(g)[g[p].next] => x = TRUE
  PROVE  LastResort(g, p, x)
BY Refuted, Congruence DEF LastResort

LEMMA UnfoldAfterSpine ==
  ASSUME NEW g \in Graphs, NEW p \in Pairs, NEW x \in BOOLEAN, NEW d \in {0, 1},
         NEW i \in DOMAIN g[p].args, g[p].kind \in {"delta", "iota"},
         T0(g)[g[p].args[i]] => x = TRUE
  PROVE  ToUnfold(g, p, d, x)
<1>1. g[p].args # <<>>
  OBVIOUS
<1> QED  BY <1>1 DEF ToUnfold

-----------------------------------------------------------------------------
(* The inductive invariant.  Data is its types; Calling is about the calls *)
(* that wait; Answering about the pair they wait for; Kept about the       *)
(* caches, and the answer the checker got.                                 *)

Data ==
  /\ shape \in Graphs
  /\ pos \subseteq Pairs /\ neg \subseteq Pairs /\ probed \subseteq Pairs
  /\ probe_depth \in {0, 1} /\ probe_budget \in 0 .. Cap
  /\ probe_exhausted \in BOOLEAN
  /\ ctl \in {"idle", "unify", "decide", "irrel", "unfold", "cold", "return"}
  /\ at \in Pairs \cup {0} /\ (ctl # "idle" => at \in Pairs)
  /\ res \in BOOLEAN

Calling ==
  /\ Held(shape, stack, probe_depth, probe_exhausted)
  /\ ctl = "idle" <=> stack = <<>>
  /\ probed # {} => Flagged(stack, probe_exhausted)

Answering ==
  /\ ctl \notin {"idle", "return"} => at = Question(shape, Top)
  /\ ctl = "return" =>
       /\ res = TRUE => T1(shape)[Question(shape, Top)]
       /\ res = FALSE => (T0(shape)[Question(shape, Top)] => probe_exhausted = TRUE)
  /\ ctl \in {"irrel", "unfold"} => ToUnfold(shape, at, probe_depth, probe_exhausted)
  /\ ctl = "cold" => LastResort(shape, at, probe_exhausted)

Kept ==
  /\ \A p \in pos : T1(shape)[p]
  /\ \A p \in neg : ~T0(shape)[p]
  /\ ctl = "idle" =>
       /\ at = 0 => res = FALSE
       /\ at # 0 => (res = TRUE => T1(shape)[at]) /\ (res = FALSE => ~T0(shape)[at])

IInv == Data /\ Calling /\ Answering /\ Kept

LEMMA TopCall ==
  ASSUME IInv, ctl # "idle"
  PROVE  /\ stack # <<>> /\ Top \in Frame /\ Top = LastCall(stack) /\ CallOK(shape, Top)
         /\ at \in Pairs /\ Top.p \in Pairs /\ Question(shape, Top) \in Pairs
         /\ Pop = Beneath(stack)
<1>1. stack # <<>> /\ stack \in Stack
  BY DEF IInv, Calling, Held
<1>2. Len(stack) \in Nat \ {0} /\ Top \in Frame
  BY <1>1, Popped DEF Top
<1>3. Len(stack) \in 1 .. Len(stack)
  BY <1>2
<1>4. CallOK(shape, Top)
  BY <1>3 DEF IInv, Calling, Held, Calls, Top
<1>5. Question(shape, Top) \in Pairs
  BY <1>2, <1>4, QuestionPair DEF IInv, Data
<1>6. at \in Pairs
  BY DEF IInv, Data
<1> QED  BY <1>1, <1>2, <1>4, <1>5, <1>6, FrameOps DEF LastCall, Top, Pop, Beneath, Prefix

LEMMA InitInv ==
  ASSUME Init
  PROVE  IInv
<1>1. <<>> \in Stack /\ Len(<<>>) = 0
  BY DEF Stack
<1>2. Depths(<<>>, 0)
  BY <1>1 DEF Depths, Budgeted
<1>3. Flags(<<>>, FALSE)
  <2>1. \A j \in 1 .. Len(<<>>) + 1 : j = Len(<<>>) + 1
    BY <1>1
  <2>2. \A j \in 1 .. Len(<<>>) + 1 : ~Flag(<<>>, FALSE, j)
    BY <2>1 DEF Flag
  <2> QED  BY <2>2 DEF Flags
<1>4. Calls(shape, <<>>)
  BY <1>1 DEF Calls
<1>5. Calling
  BY <1>1, <1>2, <1>3, <1>4 DEF Init, Calling, Held
<1>6. Data
  <2>1. 0 \in 0 .. Cap
    BY ConvAssumption
  <2> QED  BY <2>1 DEF Init, Data
<1>7. Answering /\ Kept
  BY DEF Init, Answering, Kept
<1> QED  BY <1>5, <1>6, <1>7 DEF IInv

\* A call of unify on the pair a frame waits for.
LEMMA Begun ==
  ASSUME IInv, NEW f \in Frame, NEW e \in {0, 1}, NEW y \in BOOLEAN, NEW q, NEW where \in {"unify", "decide"},
         Suspends(f, probe_depth, probe_exhausted, e, y), CallOK(shape, f), q = Question(shape, f),
         stack # <<>> => f.p = Question(shape, Top),
         IsFirst(f) <=> stack = <<>>,
         UNCHANGED <<shape, caches>>, probe_depth' = e, probe_exhausted' = y, probe_budget' \in 0 .. Cap,
         stack' = Append(stack, f), Goto(where, q)
  PROVE  IInv'
<1>1. shape \in Graphs /\ probe_depth \in {0, 1} /\ probe_exhausted \in BOOLEAN
  BY DEF IInv, Data
<1>2. Held(shape, stack, probe_depth, probe_exhausted)
  BY DEF IInv, Calling
<1>3. Top = LastCall(stack)
  BY DEF Top, LastCall
<1>4. /\ Held(shape, stack', e, y) /\ LastCall(stack') = f /\ stack' # <<>>
      /\ Flagged(stack, probe_exhausted) => Flagged(stack', y)
  BY <1>1, <1>2, <1>3, HeldPushed
<1>5. q \in Pairs
  BY <1>1, QuestionPair
<1>6. Top' = f
  BY <1>4 DEF Top, LastCall
<1>7. Data'
  BY <1>5 DEF IInv, Data, caches, Goto
<1>8. Calling'
  BY <1>4 DEF IInv, Calling, caches, Goto
<1>9. Answering'
  BY <1>6 DEF Answering, Goto
<1>10. Kept'
  BY DEF IInv, Kept, caches, Goto
<1> QED  BY <1>7, <1>8, <1>9, <1>10 DEF IInv

-----------------------------------------------------------------------------
(* The steps that leave the calls as they are.                             *)

\* In a probe, x = TRUE says that its budget ran out.
LEMMA Stays ==
  ASSUME IInv, NEW y \in BOOLEAN, ctl # "idle",
         y = probe_exhausted \/ (y = TRUE /\ probe_depth = 1),
         shape' = shape, probe_depth' = probe_depth, probe_exhausted' = y, stack' = stack,
         probed' = probed, ctl' # "idle"
  PROVE  Calling'
<1>1. probe_depth \in {0, 1} /\ probe_exhausted \in BOOLEAN
  BY DEF IInv, Data
<1>2. /\ Held(shape, stack, probe_depth, probe_exhausted)
      /\ stack # <<>>
      /\ probed # {} => Flagged(stack, probe_exhausted)
  BY DEF IInv, Calling
<1>3. Held(shape, stack, probe_depth, y) /\ (probed # {} => Flagged(stack, y))
  <2>1. CASE y = probe_exhausted
    BY <1>2, <2>1
  <2>2. CASE y = TRUE /\ probe_depth = 1
    <3>1. Flags(stack, TRUE) /\ Flagged(stack, TRUE)
      BY <1>1, <1>2, <2>2, FlagsRaised DEF Held
    <3> QED  BY <1>2, <2>2, <3>1 DEF Held
  <2> QED  BY <2>1, <2>2
<1> QED  BY <1>2, <1>3 DEF Calling

LEMMA ExhaustInv ==
  ASSUME IInv, Exhaust
  PROVE  IInv'
<1>1. probe_depth = 1 /\ ctl = "decide" /\ probe_exhausted' = TRUE /\ res' = FALSE /\ ctl' = "return"
      /\ UNCHANGED <<shape, caches, probe_depth, probe_budget, stack, at>>
  <2>1. probe_depth \in {0, 1}
    BY DEF IInv, Data
  <2> QED  BY <2>1 DEF Exhaust, OutOfBudget, Answer
<1>2. Calling'
  <2> DEFINE y == TRUE
  <2>1. y \in BOOLEAN /\ y = TRUE /\ probe_exhausted' = y
    BY <1>1
  <2> HIDE DEF y
  <2> QED  BY <1>1, <2>1, Stays DEF caches
<1>3. Data' /\ Kept'
  BY <1>1 DEF IInv, Data, Kept, caches
<1>4. Answering'
  BY <1>1 DEF Answering
<1> QED  BY <1>2, <1>3, <1>4 DEF IInv

\* General, when a cache answers or none is asked.
LEMMA GeneralStays ==
  ASSUME IInv, General, stack' = stack
  PROVE  IInv'
<1>1. /\ ctl = "unify" /\ UNCHANGED <<shape, caches, probe_depth, probe_budget>>
      /\ probe_exhausted \in BOOLEAN /\ probe_depth \in {0, 1} /\ stack \in Stack
  BY DEF General, IInv, Data, Calling, Held
<1>2. Top' = Top /\ Question(shape, Top)' = Question(shape, Top) /\ at = Question(shape, Top)
  BY <1>1 DEF Top, IInv, Answering
<1>3. Append(stack, [op |-> "cache", p |-> at, outer |-> probe_exhausted]) # stack
  <2>1. Len(Append(stack, [op |-> "cache", p |-> at, outer |-> probe_exhausted])) = Len(stack) + 1
    BY <1>1 DEF Stack
  <2> QED  BY <1>1, <2>1 DEF Stack
<1>4. \/ /\ at \in pos /\ ctl' = "return" /\ res' = TRUE /\ at' = at
         /\ probe_exhausted' = probe_exhausted
      \/ /\ at \in neg /\ ctl' = "return" /\ res' = FALSE /\ at' = at
         /\ probe_exhausted' = probe_exhausted
      \/ /\ probe_depth = 1 /\ ctl' = "return" /\ res' = FALSE /\ at' = at
         /\ probe_exhausted' = TRUE
      \/ /\ ctl' = "decide" /\ res' = res /\ at' = at
         /\ probe_exhausted' = probe_exhausted
  BY <1>1, <1>3 DEF General, Answer, Goto
<1>5. ctl' # "idle" /\ at' = at /\ res' \in BOOLEAN /\ ctl' \in {"return", "decide"}
  BY <1>4 DEF IInv, Data
<1>6. PICK y \in BOOLEAN : probe_exhausted' = y /\ (y = probe_exhausted \/ (y = TRUE /\ probe_depth = 1))
  BY <1>1, <1>4
<1>7. Calling'
  BY <1>1, <1>5, <1>6, Stays DEF caches
<1>8. Data'
  BY <1>1, <1>5, <1>6 DEF IInv, Data, caches
<1>9. Kept'
  BY <1>1, <1>5 DEF IInv, Kept, caches
<1>10. Answering'
  BY <1>1, <1>2, <1>4 DEF IInv, Kept, Answering
<1> QED  BY <1>7, <1>8, <1>9, <1>10 DEF IInv

LEMMA GeneralInv ==
  ASSUME IInv, General
  PROVE  IInv'
<1> DEFINE f == [op |-> "cache", p |-> at, outer |-> probe_exhausted]
<1>1. CASE stack' = stack
  BY <1>1, GeneralStays
<1>2. CASE stack' # stack
  <2>1. /\ ctl = "unify" /\ UNCHANGED <<shape, caches, probe_depth, probe_budget>>
        /\ stack' = Append(stack, f) /\ probe_exhausted' = FALSE /\ Goto("decide", at)
    BY <1>2 DEF General
  <2>2. /\ at \in Pairs /\ probe_exhausted \in BOOLEAN /\ probe_depth \in {0, 1}
        /\ probe_budget \in 0 .. Cap
    BY <2>1 DEF IInv, Data
  <2>3. f \in Frame /\ f.op = "cache" /\ f.p = at /\ f.outer = probe_exhausted
    BY <2>2 DEF Frame, CacheFrame
  <2>4. at = Question(shape, Top) /\ stack # <<>>
    BY <2>1 DEF IInv, Answering, Calling
  <2> DEFINE y == FALSE
  <2>5. y \in BOOLEAN /\ y = FALSE /\ probe_exhausted' = y
    BY <2>1
  <2> HIDE DEF f, y
  <2>6. CallOK(shape, f) /\ Question(shape, f) = at /\ ~IsFirst(f)
    BY <2>3 DEF CallOK, Question, IsFirst
  <2>7. Suspends(f, probe_depth, probe_exhausted, probe_depth, y)
    BY <2>3, <2>5 DEF Suspends
  <2> QED  BY <2>1, <2>2, <2>3, <2>4, <2>5, <2>6, <2>7, Begun
<1> QED  BY <1>1, <1>2

-----------------------------------------------------------------------------
(* The steps that begin a call.                                            *)

\* What the steps before an answer find.
LEMMA AtWork ==
  ASSUME IInv, ctl # "idle", ctl # "return"
  PROVE  /\ shape \in Graphs /\ at \in Pairs /\ at = Question(shape, Top)
         /\ probe_exhausted \in BOOLEAN /\ probe_depth \in {0, 1} /\ probe_budget \in 0 .. Cap
         /\ stack # <<>> /\ Cap \in Nat \ {0} /\ Cap \in 0 .. Cap
         /\ Saved \in [depth : {0, 1}, budget : 0 .. Cap, exhausted : BOOLEAN]
         /\ Saved.depth = probe_depth /\ Saved.exhausted = probe_exhausted
<1>1. Cap \in Nat \ {0}
  BY ConvAssumption
<1>2. Cap \in 0 .. Cap
  BY <1>1
<1>3. /\ shape \in Graphs /\ at \in Pairs /\ at = Question(shape, Top) /\ stack # <<>>
      /\ probe_exhausted \in BOOLEAN /\ probe_depth \in {0, 1} /\ probe_budget \in 0 .. Cap
  BY DEF IInv, Data, Answering, Calling
<1>4. /\ Saved \in [depth : {0, 1}, budget : 0 .. Cap, exhausted : BOOLEAN]
      /\ Saved.depth = probe_depth /\ Saved.exhausted = probe_exhausted
  BY <1>3 DEF Saved
<1> QED  BY <1>1, <1>2, <1>3, <1>4

LEMMA QueryInv ==
  ASSUME IInv, Query
  PROVE  IInv'
<1>1. PICK p \in Pairs : Call(Asked(p, "idle"), p)
  BY DEF Query
<1> DEFINE f == Asked(p, "idle")
<1>2. /\ ctl = "idle" /\ stack' = Append(stack, f) /\ Goto("unify", p)
      /\ UNCHANGED <<shape, caches>> /\ probe_depth' = 0
      /\ probe_exhausted' = probe_exhausted /\ probe_budget' = probe_budget
  BY <1>1 DEF Query, Call
<1>3. /\ probe_exhausted \in BOOLEAN /\ probe_depth \in {0, 1} /\ probe_budget \in 0 .. Cap
  BY DEF IInv, Data
<1>4. /\ f \in Frame /\ f.op = "types" /\ f.p = p /\ f.then = "idle"
      /\ f.saved.depth = probe_depth /\ f.saved.exhausted = probe_exhausted
  BY <1>3 DEF Asked, Saved, Frame, TypesFrame
<1>5. stack = <<>>
  BY <1>2 DEF IInv, Calling
<1> HIDE DEF f
<1>6. CallOK(shape, f) /\ Question(shape, f) = p /\ IsFirst(f)
  BY <1>4 DEF CallOK, Question, IsFirst
<1>7. Suspends(f, probe_depth, probe_exhausted, 0, probe_exhausted)
  BY <1>4 DEF Suspends
<1> QED  BY <1>2, <1>3, <1>4, <1>5, <1>6, <1>7, Begun

LEMMA IrrelevantInv ==
  ASSUME IInv, NEW where \in {"irrel", "cold"}, NEW then \in {"unfold", "fail"},
         where = "irrel" <=> then = "unfold", Irrelevant(where, then)
  PROVE  IInv'
<1>1. ctl = where /\ UNCHANGED <<shape, caches, probe_budget, probe_exhausted>>
  BY DEF Irrelevant
<1>2. /\ shape \in Graphs /\ at \in Pairs /\ at = Question(shape, Top)
      /\ probe_exhausted \in BOOLEAN /\ probe_depth \in {0, 1} /\ probe_budget \in 0 .. Cap
      /\ stack # <<>>
      /\ Saved \in [depth : {0, 1}, budget : 0 .. Cap, exhausted : BOOLEAN]
      /\ Saved.depth = probe_depth /\ Saved.exhausted = probe_exhausted
  BY <1>1, AtWork
<1>3. /\ then = "unfold" => ToUnfold(shape, at, probe_depth, probe_exhausted)
      /\ then = "fail" => LastResort(shape, at, probe_exhausted)
  BY <1>1 DEF IInv, Answering
<1>4. CASE shape[at].ty = 0
  <2>1. UNCHANGED <<stack, probe_depth>>
    BY <1>4 DEF Irrelevant
  <2>2. /\ ctl' = IF then = "fail" THEN "return" ELSE "unfold"
        /\ at' = at
        /\ res' = IF then = "fail" THEN FALSE ELSE res
    BY <1>4 DEF Irrelevant, Answer, Goto
  <2>3. Calling'
    BY <1>1, <1>2, <2>1, <2>2, Stays DEF caches
  <2>4. Data' /\ Kept'
    BY <1>1, <2>1, <2>2 DEF IInv, Data, Kept, caches
  <2>5. Top' = Top
    BY <2>1 DEF Top
  <2>6. Answering'
    <3>1. CASE then = "unfold"
      <4>1. ctl' = "unfold" /\ at' = at
        BY <2>2, <3>1
      <4> QED  BY <1>1, <1>2, <1>3, <2>1, <2>5, <3>1, <4>1 DEF Answering
    <3>2. CASE then = "fail"
      <4>1. ctl' = "return" /\ res' = FALSE
        BY <2>2, <3>2
      <4>2. T0(shape)[at] => probe_exhausted = TRUE
        BY <1>3, <1>4, <3>2 DEF LastResort
      <4>3. Question(shape', Top') = at /\ T0(shape') = T0(shape) /\ probe_exhausted' = probe_exhausted
        BY <1>1, <1>2, <2>5
      <4> QED  BY <4>1, <4>2, <4>3 DEF Answering
    <3> QED  BY <3>1, <3>2
  <2> QED  BY <2>3, <2>4, <2>6 DEF IInv
<1>5. CASE shape[at].ty # 0
  <2> DEFINE f == Asked(at, then)
  <2>1. stack' = Append(stack, f) /\ Goto("unify", shape[at].ty) /\ probe_depth' = 0
    BY <1>5 DEF Irrelevant, Call
  <2>2. /\ f \in Frame /\ f.op = "types" /\ f.p = at /\ f.then = then
        /\ f.saved.depth = probe_depth /\ f.saved.exhausted = probe_exhausted
    BY <1>2 DEF Asked, Frame, TypesFrame
  <2> HIDE DEF f
  <2>3. CallOK(shape, f)
    BY <1>3, <1>5, <2>2 DEF CallOK
  <2>4. Question(shape, f) = shape[at].ty /\ ~IsFirst(f)
    BY <2>2 DEF Question, IsFirst
  <2>5. Suspends(f, probe_depth, probe_exhausted, 0, probe_exhausted)
    BY <2>2 DEF Suspends
  <2>6. probe_exhausted' = probe_exhausted /\ probe_budget' \in 0 .. Cap /\ UNCHANGED <<shape, caches>>
    BY <1>1, <1>2
  <2> QED  BY <1>2, <2>1, <2>2, <2>3, <2>4, <2>5, <2>6, Begun
<1> QED  BY <1>4, <1>5

\* A comparison of arguments begins with the first.
LEMMA SpineBegins ==
  ASSUME IInv, NEW then \in {"irrel", "cold"}, ctl # "idle", ctl # "return", shape[at].args # <<>>,
         then = "irrel" => shape[at].kind \in {"delta", "iota"},
         then = "cold" => shape[at].kind = "spine" \/ (shape[at].kind = "iota" /\ shape[at].next = 0),
         Call([op |-> "spine", p |-> at, i |-> 1, then |-> then], shape[at].args[1]),
         UNCHANGED <<shape, caches, probe_depth, probe_exhausted>>, probe_budget' \in 0 .. Cap
  PROVE  IInv'
<1> DEFINE f == [op |-> "spine", p |-> at, i |-> 1, then |-> then]
<1>1. /\ shape \in Graphs /\ at \in Pairs /\ at = Question(shape, Top)
      /\ probe_exhausted \in BOOLEAN /\ probe_depth \in {0, 1} /\ stack # <<>>
  BY AtWork
<1>2. 1 \in DOMAIN shape[at].args /\ AgreeBefore(shape, at, 1)
  <2>1. shape[at].args \in Seq(Pairs)
    BY <1>1, GraphShape
  <2>2. 1 \in DOMAIN shape[at].args
    BY <2>1
  <2> QED  BY <2>2 DEF AgreeBefore
<1>3. f \in Frame /\ f.op = "spine" /\ f.p = at /\ f.i = 1 /\ f.then = then
  BY <1>1 DEF Frame, SpineFrame
<1>4. stack' = Append(stack, f) /\ Goto("unify", shape[at].args[1])
  BY DEF Call
<1> HIDE DEF f
<1>5. CallOK(shape, f)
  BY <1>2, <1>3 DEF CallOK
<1>6. Question(shape, f) = shape[at].args[1] /\ ~IsFirst(f)
  BY <1>3 DEF Question, IsFirst
<1>7. Suspends(f, probe_depth, probe_exhausted, probe_depth, probe_exhausted)
  BY <1>3 DEF Suspends
<1> QED  BY <1>1, <1>3, <1>4, <1>5, <1>6, <1>7, Begun

LEMMA StartProbeInv ==
  ASSUME IInv, ctl = "decide", StartProbe(shape[at]), UNCHANGED <<shape, caches>>
  PROVE  IInv'
<1> DEFINE f == [op |-> "probe", p |-> at, i |-> 1, outer |-> probe_exhausted, decided |-> TRUE]
<1>1. /\ shape \in Graphs /\ at \in Pairs /\ at = Question(shape, Top)
      /\ probe_exhausted \in BOOLEAN /\ probe_depth \in {0, 1} /\ stack # <<>> /\ Cap \in 0 .. Cap
  BY AtWork
<1>2. /\ shape[at].args # <<>> /\ shape[at].kind \in {"delta", "iota"} /\ probe_depth = 0
      /\ stack' = Append(stack, f) /\ Goto("unify", shape[at].args[1])
      /\ probe_budget' = Cap /\ probe_exhausted' = FALSE /\ probe_depth' = 1
  BY DEF StartProbe, Probed, Call
<1>3. 1 \in DOMAIN shape[at].args /\ AgreeBefore(shape, at, 1)
  <2>1. shape[at].args \in Seq(Pairs)
    BY <1>1, GraphShape
  <2>2. 1 \in DOMAIN shape[at].args
    BY <1>2, <2>1
  <2> QED  BY <2>2 DEF AgreeBefore
<1>4. f \in Frame /\ f.op = "probe" /\ f.p = at /\ f.i = 1 /\ f.outer = probe_exhausted
  BY <1>1 DEF Frame, ProbeFrame
<1> HIDE DEF f
<1>5. CallOK(shape, f)
  BY <1>2, <1>3, <1>4 DEF CallOK
<1>6. Question(shape, f) = shape[at].args[1] /\ ~IsFirst(f)
  BY <1>4 DEF Question, IsFirst
<1> DEFINE y == FALSE
<1>7. y \in BOOLEAN /\ y = FALSE /\ probe_exhausted' = y
  BY <1>2
<1> HIDE DEF y
<1>8. Suspends(f, probe_depth, probe_exhausted, 1, y)
  BY <1>2, <1>4, <1>7 DEF Suspends
<1> QED  BY <1>1, <1>2, <1>4, <1>5, <1>6, <1>7, <1>8, Begun

\* A step within the decision of a pair.
LEMMA Moves ==
  ASSUME IInv, ctl # "idle", ctl # "return", UNCHANGED <<shape, caches, probe_depth, probe_exhausted, stack>>,
         probe_budget' \in 0 .. Cap,
         \/ Answer(TRUE) /\ T1(shape)[at]
         \/ Goto("cold", at) /\ LastResort(shape, at, probe_exhausted)
         \/ Goto("irrel", at) /\ ToUnfold(shape, at, probe_depth, probe_exhausted)
  PROVE  IInv'
<1>1. /\ at \in Pairs /\ at = Question(shape, Top)
      /\ probe_exhausted \in BOOLEAN /\ probe_depth \in {0, 1}
  BY AtWork
<1>2. at' = at /\ ctl' \in {"return", "cold", "irrel"} /\ res' \in BOOLEAN
  BY DEF Answer, Goto, IInv, Data
<1>3. Calling'
  BY <1>1, <1>2, Stays DEF caches
<1>4. Data' /\ Kept'
  BY <1>1, <1>2 DEF IInv, Data, Kept, caches
<1>5. Top' = Top
  BY DEF Top
<1>6. Answering'
  BY <1>1, <1>5 DEF Answering, Answer, Goto
<1> QED  BY <1>3, <1>4, <1>6 DEF IInv

LEMMA DecideInv ==
  ASSUME IInv, Decide
  PROVE  IInv'
<1> DEFINE s == shape[at]
<1>1. ctl = "decide" /\ ~OutOfBudget /\ UNCHANGED <<shape, caches>> /\ (Direct(s) \/ Spine(s) \/ StartProbe(s))
  BY DEF Decide
<1>2. /\ shape \in Graphs /\ at \in Pairs
      /\ probe_exhausted \in BOOLEAN /\ probe_depth \in {0, 1} /\ probe_budget \in 0 .. Cap
  BY <1>1, AtWork
<1>3. Spent \in 0 .. Cap
  <2>1. Cap \in Nat
    BY ConvAssumption
  <2> QED  BY <1>1, <1>2, <2>1 DEF Spent, OutOfBudget
<1>4. CASE Direct(s)
  <2>1. UNCHANGED <<shape, caches, probe_depth, probe_exhausted, stack>> /\ probe_budget' \in 0 .. Cap
    BY <1>1, <1>3, <1>4 DEF Direct
  <2>2. \/ s.kind = "yes" /\ Answer(TRUE)
        \/ s.kind = "no" /\ Goto("cold", at)
        \/ s.kind = "step" /\ Goto("irrel", at)
        \/ s.kind \in {"spine", "delta", "iota"} /\ s.args = <<>> /\ Answer(TRUE)
    BY <1>4 DEF Direct, Probed
  <2>3. s.kind = "yes" => T1(shape)[at]
    BY <1>2, Accepted
  <2>4. s.kind = "no" => LastResort(shape, at, probe_exhausted)
    BY <1>2, LastAfterNo
  <2>5. s.kind = "step" => ToUnfold(shape, at, probe_depth, probe_exhausted)
    BY DEF ToUnfold
  <2>6. s.kind \in {"spine", "delta", "iota"} /\ s.args = <<>> => T1(shape)[at]
    <3>1. s.args = <<>> => AgreeBefore(shape, at, Len(s.args) + 1)
      BY DEF AgreeBefore
    <3> QED  BY <3>1, <1>2, Accepted
  <2> QED  BY <1>1, <2>1, <2>2, <2>3, <2>4, <2>5, <2>6, Moves
<1>5. CASE Spine(s)
  <2> DEFINE then == IF Probed(s) THEN "irrel" ELSE "cold"
  <2>1. /\ s.args # <<>> /\ probe_budget' \in 0 .. Cap
        /\ UNCHANGED <<shape, caches, probe_depth, probe_exhausted>>
        /\ Call([op |-> "spine", p |-> at, i |-> 1, then |-> then], s.args[1])
        /\ then \in {"irrel", "cold"}
        /\ then = "irrel" => s.kind \in {"delta", "iota"}
        /\ then = "cold" => s.kind = "spine"
    BY <1>1, <1>3, <1>5 DEF Spine, Probed
  <2> HIDE DEF then
  <2> QED  BY <1>1, <2>1, SpineBegins
<1>6. CASE StartProbe(s)
  BY <1>1, <1>6, StartProbeInv
<1> QED  BY <1>1, <1>4, <1>5, <1>6

LEMMA UnfoldInv ==
  ASSUME IInv, Unfold
  PROVE  IInv'
<1>1. ctl = "unfold" /\ UNCHANGED <<shape, caches, probe_depth, probe_budget, probe_exhausted>>
  BY DEF Unfold, probe
<1>2. /\ shape \in Graphs /\ at \in Pairs /\ at = Question(shape, Top) /\ stack # <<>>
      /\ probe_exhausted \in BOOLEAN /\ probe_depth \in {0, 1} /\ probe_budget \in 0 .. Cap
  BY <1>1, AtWork
<1>3. ToUnfold(shape, at, probe_depth, probe_exhausted)
  BY <1>1 DEF IInv, Answering
<1>4. CASE /\ shape[at].next # 0
           /\ Call([op |-> "unfold", p |-> at], shape[at].next)
  <2> DEFINE f == [op |-> "unfold", p |-> at]
  <2>1. stack' = Append(stack, f) /\ Goto("unify", shape[at].next)
    BY <1>4 DEF Call
  <2>2. f \in Frame /\ f.op = "unfold" /\ f.p = at
    BY <1>2 DEF Frame, UnfoldFrame
  <2> HIDE DEF f
  <2>3. CallOK(shape, f)
    BY <1>3, <1>4, <2>2 DEF CallOK, ToUnfold
  <2>4. Question(shape, f) = shape[at].next /\ ~IsFirst(f)
    BY <2>2 DEF Question, IsFirst
  <2>5. Suspends(f, probe_depth, probe_exhausted, probe_depth, probe_exhausted)
    BY <2>2 DEF Suspends
  <2> QED  BY <1>1, <1>2, <2>1, <2>2, <2>3, <2>4, <2>5, Begun
<1>5. CASE /\ shape[at].kind = "iota" /\ shape[at].next = 0
           /\ Call([op |-> "spine", p |-> at, i |-> 1, then |-> "cold"], shape[at].args[1])
  <2>1. shape[at].args # <<>>
    BY <1>3, <1>5 DEF ToUnfold
  <2> QED  BY <1>1, <1>2, <1>5, <2>1, SpineBegins
<1>6. CASE /\ shape[at].kind # "iota"
           /\ shape[at].next = 0 \/ (shape[at].forced /\ probe_depth > 0)
           /\ Goto("cold", at) /\ UNCHANGED stack
  <2>1. shape[at].next = 0 \/ (shape[at].forced /\ probe_depth = 1)
    BY <1>2, <1>6
  <2>2. LastResort(shape, at, probe_exhausted)
    BY <1>2, <1>3, <1>6, <2>1, LastUnopened
  <2> QED  BY <1>1, <1>2, <1>6, <2>2, Moves
<1> QED  BY <1>4, <1>5, <1>6 DEF Unfold

-----------------------------------------------------------------------------
(* The steps that end a call.                                              *)

\* What a call that waited finds.
LEMMA AtReturn ==
  ASSUME IInv, ctl = "return"
  PROVE  /\ shape \in Graphs /\ Top \in Frame /\ Top = LastCall(stack) /\ CallOK(shape, Top)
         /\ Top.p \in Pairs /\ at \in Pairs /\ Question(shape, Top) \in Pairs
         /\ probe_exhausted \in BOOLEAN /\ probe_depth \in {0, 1} /\ probe_budget \in 0 .. Cap
         /\ res \in BOOLEAN
         /\ res = TRUE => T1(shape)[Question(shape, Top)]
         /\ res = FALSE => (T0(shape)[Question(shape, Top)] => probe_exhausted = TRUE)
<1>1. ctl # "idle"
  OBVIOUS
<1>2. /\ shape \in Graphs /\ res \in BOOLEAN
      /\ probe_exhausted \in BOOLEAN /\ probe_depth \in {0, 1} /\ probe_budget \in 0 .. Cap
  BY DEF IInv, Data
<1>3. /\ res = TRUE => T1(shape)[Question(shape, Top)]
      /\ res = FALSE => (T0(shape)[Question(shape, Top)] => probe_exhausted = TRUE)
  BY DEF IInv, Answering
<1> QED  BY <1>1, <1>2, <1>3, TopCall

LEMMA Ended ==
  ASSUME IInv, ctl = "return", NEW e \in {0, 1}, NEW y \in BOOLEAN,
         Resumes(Top, probe_depth, probe_exhausted, e, y),
         shape' = shape, probe_depth' = e, probe_exhausted' = y, stack' = Pop,
         probed' # {} => Flagged(stack, probe_exhausted) /\ (Top.op = "probe" => probe_exhausted = FALSE),
         ctl' = "idle" <=> IsFirst(Top)
  PROVE  /\ Calling'
         /\ ~IsFirst(Top) => Top.p = Question(shape', Top')
         /\ Top.op = "types" /\ probe_exhausted = TRUE => y = TRUE
<1>1. /\ shape \in Graphs /\ Top = LastCall(stack) /\ stack # <<>> /\ Pop = Beneath(stack)
      /\ probe_exhausted \in BOOLEAN /\ probe_depth \in {0, 1}
  BY AtReturn, TopCall
<1>2. Held(shape, stack, probe_depth, probe_exhausted)
  BY DEF IInv, Calling
<1>3. /\ Held(shape, Pop, e, y)
      /\ Pop # <<>> => Top.p = Question(shape, LastCall(Pop))
      /\ IsFirst(Top) <=> Pop = <<>>
      /\ Top.op = "types" /\ probe_exhausted = TRUE => y = TRUE
      /\ Flagged(stack, probe_exhausted) /\ (Top.op = "probe" => probe_exhausted = FALSE) => Flagged(Pop, y)
  <2>1. Resumes(LastCall(stack), probe_depth, probe_exhausted, e, y)
    BY <1>1
  <2>2. e \in {0, 1} /\ y \in BOOLEAN
    OBVIOUS
  <2>3. /\ Held(shape, Beneath(stack), e, y)
        /\ Beneath(stack) # <<>> => LastCall(stack).p = Question(shape, LastCall(Beneath(stack)))
        /\ IsFirst(LastCall(stack)) <=> Beneath(stack) = <<>>
        /\ LastCall(stack).op = "types" /\ probe_exhausted = TRUE => y = TRUE
        /\ Flagged(stack, probe_exhausted) /\ (LastCall(stack).op = "probe" => probe_exhausted = FALSE)
             => Flagged(Beneath(stack), y)
    BY ONLY <1>1, <1>2, <2>1, <2>2, HeldPopped
  <2> QED  BY <1>1, <2>3
<1>4. Calling'
  BY <1>3 DEF Calling
<1>5. Top' = LastCall(Pop)
  BY DEF Top, LastCall
<1> QED  BY <1>3, <1>4, <1>5

\* The flag in force is one of those that are up.
LEMMA FlagInForce ==
  ASSUME NEW st \in Stack, NEW x \in BOOLEAN, x = TRUE
  PROVE  Flagged(st, x)
<1>1. Len(st) + 1 \in 1 .. Len(st) + 1
  BY DEF Stack
<1>2. Flag(st, x, Len(st) + 1)
  BY DEF Flag
<1> QED  BY <1>1, <1>2 DEF Flagged

LEMMA CachedInv ==
  ASSUME IInv, Cached
  PROVE  IInv'
<1> DEFINE y == Merged(Top.outer)
<1>1. /\ ctl = "return" /\ Top.op = "cache" /\ stack' = Pop /\ probe_exhausted' = y
      /\ UNCHANGED <<shape, probe_depth, probe_budget, ctl, at, res>>
  BY DEF Cached
<1>2. /\ shape \in Graphs /\ Top \in Frame /\ CallOK(shape, Top)
      /\ Top.p \in Pairs /\ at \in Pairs
      /\ probe_exhausted \in BOOLEAN /\ probe_depth \in {0, 1} /\ probe_budget \in 0 .. Cap
      /\ res \in BOOLEAN
      /\ res = TRUE => T1(shape)[Question(shape, Top)]
      /\ res = FALSE => (T0(shape)[Question(shape, Top)] => probe_exhausted = TRUE)
  BY <1>1, AtReturn
<1>3. Question(shape, Top) = Top.p /\ ~IsFirst(Top)
  BY <1>1 DEF Question, IsFirst
<1>4. Top.outer \in BOOLEAN
  BY <1>1, <1>2, FrameOps DEF CacheFrame
<1>5. y \in BOOLEAN /\ (y = TRUE <=> Top.outer = TRUE \/ probe_exhausted = TRUE)
  BY <1>2, <1>4 DEF Merged
<1> HIDE DEF y
<1>6. Resumes(Top, probe_depth, probe_exhausted, probe_depth, y)
  BY <1>1, <1>5 DEF Resumes
<1>7. \/ res = TRUE /\ pos' = pos \cup {Top.p} /\ UNCHANGED <<neg, probed>>
      \/ res = FALSE /\ probe_exhausted = TRUE /\ UNCHANGED <<pos, neg>> /\ probed' \subseteq probed \cup {Top.p}
      \/ res = FALSE /\ probe_exhausted = FALSE /\ UNCHANGED <<pos, probed>> /\ neg' \subseteq neg \cup {Top.p}
  <2>1. CASE res = TRUE
    <3>1. res
      BY <2>1
    <3>2. pos' = pos \cup {Top.p} /\ UNCHANGED <<neg, probed>>
      BY <3>1 DEF Cached
    <3> QED  BY <2>1, <3>2
  <2>2. CASE res = FALSE
    <3>1. ~res
      BY <2>2
    <3>2. Keep(Top.p, probe_exhausted) /\ UNCHANGED pos
      BY <3>1 DEF Cached
    <3>3. CASE probe_exhausted = TRUE
      <4>1. probe_exhausted
        BY <3>3
      <4>2. neg' = neg /\ probed' \subseteq probed \cup {Top.p}
        BY <3>2, <4>1 DEF Keep
      <4> QED  BY <2>2, <3>2, <3>3, <4>2
    <3>4. CASE probe_exhausted = FALSE
      <4>1. ~probe_exhausted
        BY <3>4
      <4>2. probed' = probed /\ neg' \subseteq neg \cup {Top.p}
        BY <3>2, <4>1 DEF Keep
      <4> QED  BY <2>2, <3>2, <3>4, <4>2
    <3> QED  BY <1>2, <3>3, <3>4
  <2> QED  BY <1>2, <2>1, <2>2
<1>8. probed' # {} => Flagged(stack, probe_exhausted)
  <2>1. stack \in Stack /\ (probed # {} => Flagged(stack, probe_exhausted))
    BY DEF IInv, Calling, Held
  <2>2. CASE probe_exhausted = TRUE
    BY <1>2, <2>1, <2>2, FlagInForce
  <2>3. CASE probed' = probed
    BY <2>1, <2>3
  <2> QED  BY <1>7, <2>2, <2>3
<1>9. Calling' /\ Top.p = Question(shape', Top')
  BY <1>1, <1>2, <1>3, <1>5, <1>6, <1>8, Ended
<1>10. Data'
  BY <1>1, <1>2, <1>5, <1>7 DEF IInv, Data
<1>11. Kept'
  <2>1. (\A p \in pos' : T1(shape)[p]) /\ (\A p \in neg' : ~T0(shape)[p])
    BY <1>2, <1>3, <1>7 DEF IInv, Kept
  <2> QED  BY <1>1, <2>1 DEF Kept
<1>12. Answering'
  <2>1. res' = TRUE => T1(shape')[Question(shape', Top')]
    BY <1>1, <1>2, <1>3, <1>9
  <2>2. res' = FALSE => (T0(shape')[Question(shape', Top')] => probe_exhausted' = TRUE)
    BY <1>1, <1>2, <1>3, <1>5, <1>9
  <2> QED  BY <1>1, <2>1, <2>2 DEF Answering
<1> QED  BY <1>9, <1>10, <1>11, <1>12 DEF IInv

\* A call that ends with an answer, or goes on with the pair it compares.
LEMMA Continues ==
  ASSUME IInv, ctl = "return", ~IsFirst(Top), NEW e \in {0, 1}, NEW y \in BOOLEAN,
         Resumes(Top, probe_depth, probe_exhausted, e, y),
         UNCHANGED <<shape, pos, neg>>, probe_depth' = e, probe_exhausted' = y, stack' = Pop,
         probe_budget' \in 0 .. Cap,
         probed' = {} \/ (probed' = probed /\ (Top.op = "probe" => probe_exhausted = FALSE)),
         \/ Answer(TRUE) /\ T1(shape)[Top.p]
         \/ Answer(FALSE) /\ (T0(shape)[Top.p] => y = TRUE)
         \/ Goto("cold", Top.p) /\ LastResort(shape, Top.p, y)
         \/ Goto("irrel", Top.p) /\ ToUnfold(shape, Top.p, e, y)
         \/ Goto("unfold", Top.p) /\ ToUnfold(shape, Top.p, e, y)
  PROVE  IInv'
<1>1. /\ Top.p \in Pairs /\ at \in Pairs /\ res \in BOOLEAN
  BY AtReturn
<1>2. ctl' \in {"return", "cold", "irrel", "unfold"} /\ res' \in BOOLEAN /\ at' \in Pairs
  BY <1>1 DEF Answer, Goto
<1>3. probed' # {} => Flagged(stack, probe_exhausted) /\ (Top.op = "probe" => probe_exhausted = FALSE)
  BY DEF IInv, Calling
<1>4. ctl' # "idle"
  BY <1>2
<1>5. Calling' /\ Top.p = Question(shape', Top')
  BY <1>3, <1>4, Ended
<1>6. Data'
  BY <1>2 DEF IInv, Data
<1>7. Kept'
  BY <1>4 DEF IInv, Kept
<1>8. Answering'
  BY <1>5 DEF Answering, Answer, Goto
<1> QED  BY <1>5, <1>6, <1>7, <1>8 DEF IInv

\* A call that goes on with its next pair of arguments.
LEMMA NextArgument ==
  ASSUME IInv, ctl = "return", Top.op \in {"spine", "probe"}, NEW f \in Frame, CallOK(shape, f),
         f.op = Top.op, f.p = Top.p, NEW e \in {0, 1}, NEW y \in BOOLEAN,
         f.op = "spine" => e = probe_depth /\ y = probe_exhausted,
         f.op = "probe" => f.outer = Top.outer /\ e = 1 /\ y = FALSE,
         UNCHANGED <<shape, pos, neg>>, probe_depth' = e, probe_exhausted' = y,
         probe_budget' \in 0 .. Cap,
         probed' = {} \/ (probed' = probed /\ (Top.op = "probe" => probe_exhausted = FALSE)),
         stack' = Append(Pop, f), Goto("unify", Question(shape, f))
  PROVE  IInv'
<1>1. /\ shape \in Graphs /\ Top \in Frame /\ Top = LastCall(stack) /\ stack # <<>>
      /\ Pop = Beneath(stack) /\ Question(shape, f) \in Pairs
      /\ probe_exhausted \in BOOLEAN /\ probe_depth \in {0, 1}
  BY AtReturn, TopCall, QuestionPair
<1>2. Held(shape, stack, probe_depth, probe_exhausted)
  BY DEF IInv, Calling
<1> DEFINE d == IF Top.op = "spine" THEN probe_depth ELSE 0
           x == IF Top.op = "spine" THEN probe_exhausted ELSE Top.outer
<1>3. d \in {0, 1} /\ x \in BOOLEAN
  BY <1>1, FrameOps DEF ProbeFrame
<1>4. Resumes(Top, probe_depth, probe_exhausted, d, x)
  BY DEF Resumes
<1>5. Suspends(f, d, x, e, y)
  BY DEF Suspends
<1> HIDE DEF d, x
<1>6. ~IsFirst(Top) /\ ~IsFirst(f)
  BY DEF IsFirst
<1>7. /\ Held(shape, Pop, d, x)
      /\ Pop # <<>> => Top.p = Question(shape, LastCall(Pop))
      /\ IsFirst(Top) <=> Pop = <<>>
      /\ Flagged(stack, probe_exhausted) /\ (Top.op = "probe" => probe_exhausted = FALSE) => Flagged(Pop, x)
  BY <1>1, <1>2, <1>3, <1>4, HeldPopped
<1>8. /\ Held(shape, stack', e, y) /\ LastCall(stack') = f /\ stack' # <<>>
      /\ Flagged(Pop, x) => Flagged(stack', y)
  BY <1>1, <1>3, <1>5, <1>6, <1>7, HeldPushed
<1>9. Top' = f
  BY <1>8 DEF Top, LastCall
<1>10. Calling'
  BY <1>7, <1>8 DEF IInv, Calling, Goto
<1>11. Data'
  BY <1>1 DEF IInv, Data, Goto
<1>12. Answering'
  BY <1>9 DEF Answering, Goto
<1>13. Kept'
  BY DEF IInv, Kept, Goto
<1> QED  BY <1>10, <1>11, <1>12, <1>13 DEF IInv

LEMMA SpineReturnInv ==
  ASSUME IInv, SpineReturn
  PROVE  IInv'
<1> DEFINE g == shape
           p == Top.p
           q == Question(shape, Top)
<1>1. /\ ctl = "return" /\ Top.op = "spine"
      /\ UNCHANGED <<shape, pos, neg, probed, probe_depth, probe_budget, probe_exhausted>>
  BY DEF SpineReturn, caches, probe
<1>2. /\ shape \in Graphs /\ Top \in Frame /\ CallOK(shape, Top) /\ p \in Pairs
      /\ probe_exhausted \in BOOLEAN /\ probe_depth \in {0, 1} /\ probe_budget \in 0 .. Cap
      /\ res \in BOOLEAN
      /\ res = TRUE => T1(shape)[q]
      /\ res = FALSE => (T0(shape)[q] => probe_exhausted = TRUE)
  BY <1>1, AtReturn
<1>3. /\ q = shape[p].args[Top.i] /\ ~IsFirst(Top) /\ Top \in SpineFrame
      /\ Top.i \in DOMAIN shape[p].args /\ AgreeBefore(shape, p, Top.i)
      /\ Top.then = "irrel" => shape[p].kind \in {"delta", "iota"}
      /\ Top.then = "cold" => shape[p].kind = "spine" \/ (shape[p].kind = "iota" /\ shape[p].next = 0)
  BY <1>1, <1>2, FrameOps DEF Question, IsFirst, CallOK
<1>4. Top.then \in {"irrel", "cold"} /\ Top.i \in Nat
  BY <1>3 DEF SpineFrame
<1>5. /\ shape[p].args \in Seq(Pairs) /\ DOMAIN shape[p].args = 1 .. Len(shape[p].args)
  BY <1>2, GraphShape
<1>6. Resumes(Top, probe_depth, probe_exhausted, probe_depth, probe_exhausted)
  BY <1>1 DEF Resumes
<1>7. \/ res = FALSE /\ Goto(Top.then, p) /\ stack' = Pop
      \/ /\ res = TRUE /\ Top.i < Len(shape[p].args)
         /\ stack' = Append(Pop, [Top EXCEPT !.i = @ + 1])
         /\ Goto("unify", shape[p].args[Top.i + 1])
      \/ res = TRUE /\ Top.i = Len(shape[p].args) /\ stack' = Pop /\ Answer(TRUE)
  <2>1. CASE res = TRUE
    <3>1. res
      BY <2>1
    <3> QED  BY <2>1, <3>1 DEF SpineReturn
  <2>2. CASE res = FALSE
    <3>1. ~res
      BY <2>2
    <3> QED  BY <2>2, <3>1 DEF SpineReturn
  <2> QED  BY <1>2, <2>1, <2>2
<1>8. res = TRUE => AgreeBefore(shape, p, Top.i + 1)
  BY <1>2, <1>3, <1>4 DEF AgreeBefore
<1>9. CASE res = FALSE /\ Goto(Top.then, p) /\ stack' = Pop
  <2>1. T0(shape)[shape[p].args[Top.i]] => probe_exhausted = TRUE
    BY <1>2, <1>3, <1>9
  <2>2. CASE Top.then = "cold"
    <3>1. LastResort(shape, p, probe_exhausted)
      BY <1>2, <1>3, <2>1, <2>2, LastAfterSpine
    <3> QED  BY <1>1, <1>2, <1>3, <1>6, <1>9, <2>2, <3>1, Continues
  <2>3. CASE Top.then = "irrel"
    <3>1. ToUnfold(shape, p, probe_depth, probe_exhausted)
      BY <1>2, <1>3, <2>1, <2>3, UnfoldAfterSpine
    <3> QED  BY <1>1, <1>2, <1>3, <1>6, <1>9, <2>3, <3>1, Continues
  <2> QED  BY <1>4, <2>2, <2>3
<1>10. CASE /\ res = TRUE /\ Top.i < Len(shape[p].args)
            /\ stack' = Append(Pop, [Top EXCEPT !.i = @ + 1])
            /\ Goto("unify", shape[p].args[Top.i + 1])
  <2> DEFINE f == [Top EXCEPT !.i = @ + 1]
  <2>1. /\ f \in SpineFrame /\ f.op = "spine" /\ f.p = p /\ f.i = Top.i + 1 /\ f.then = Top.then
    BY <1>3 DEF SpineFrame
  <2>2. f \in Frame
    BY <2>1 DEF Frame
  <2>3. Top.i + 1 \in DOMAIN shape[p].args
    BY <1>4, <1>5, <1>10
  <2>4. stack' = Append(Pop, f)
    BY <1>10
  <2> HIDE DEF f
  <2>5. CallOK(shape, f)
    BY <1>3, <1>8, <1>10, <2>1, <2>3 DEF CallOK
  <2>6. Question(shape, f) = shape[p].args[Top.i + 1]
    BY <2>1 DEF Question
  <2>7. Goto("unify", Question(shape, f))
    BY <1>10, <2>6
  <2> QED  BY <1>1, <1>2, <2>1, <2>2, <2>4, <2>5, <2>7, NextArgument
<1>11. CASE res = TRUE /\ Top.i = Len(shape[p].args) /\ stack' = Pop /\ Answer(TRUE)
  <2>1. shape[p].kind \in {"spine", "delta", "iota"}
    BY <1>3, <1>4
  <2>2. T1(shape)[p]
    BY <1>2, <1>8, <1>11, <2>1, Accepted
  <2> QED  BY <1>1, <1>2, <1>3, <1>6, <1>11, <2>2, Continues
<1> QED  BY <1>7, <1>9, <1>10, <1>11

LEMMA UnfoldReturnInv ==
  ASSUME IInv, UnfoldReturn
  PROVE  IInv'
<1> DEFINE p == Top.p
           q == Question(shape, Top)
<1>1. /\ ctl = "return" /\ Top.op = "unfold" /\ stack' = Pop
      /\ UNCHANGED <<shape, pos, neg, probed, probe_depth, probe_budget, probe_exhausted>>
  BY DEF UnfoldReturn, caches, probe
<1>2. /\ shape \in Graphs /\ Top \in Frame /\ CallOK(shape, Top) /\ p \in Pairs
      /\ probe_exhausted \in BOOLEAN /\ probe_depth \in {0, 1} /\ probe_budget \in 0 .. Cap
      /\ res \in BOOLEAN
      /\ res = TRUE => T1(shape)[q]
      /\ res = FALSE => (T0(shape)[q] => probe_exhausted = TRUE)
  BY <1>1, AtReturn
<1>3. /\ q = shape[p].next /\ ~IsFirst(Top)
      /\ shape[p].next # 0 /\ shape[p].kind \in {"delta", "iota", "step"}
  BY <1>1, <1>2 DEF Question, IsFirst, CallOK
<1>4. Resumes(Top, probe_depth, probe_exhausted, probe_depth, probe_exhausted)
  BY <1>1 DEF Resumes
<1>5. CASE res = TRUE
  <2>1. res
    BY <1>5
  <2>2. Answer(TRUE)
    BY <2>1 DEF UnfoldReturn
  <2>3. T1(shape)[p]
    BY <1>2, <1>3, <1>5, Accepted
  <2> QED  BY <1>1, <1>2, <1>3, <1>4, <2>2, <2>3, Continues
<1>6. CASE res = FALSE
  <2>1. ~res
    BY <1>6
  <2>2. Goto("cold", p)
    BY <2>1 DEF UnfoldReturn
  <2>3. LastResort(shape, p, probe_exhausted)
    BY <1>2, <1>3, <1>6, LastAfterUnfold
  <2> QED  BY <1>1, <1>2, <1>3, <1>4, <2>2, <2>3, Continues
<1> QED  BY <1>2, <1>5, <1>6

LEMMA TypesReturnInv ==
  ASSUME IInv, TypesReturn
  PROVE  IInv'
<1> DEFINE p == Top.p
           q == Question(shape, Top)
           e == Top.saved.depth
           y == Top.saved.exhausted
<1>1. /\ ctl = "return" /\ Top.op = "types" /\ stack' = Pop
      /\ UNCHANGED <<shape, pos, neg, probed>>
      /\ probe_depth' = e /\ probe_exhausted' = y /\ probe_budget' = Top.saved.budget
  BY DEF TypesReturn, Restore, caches
<1>2. /\ shape \in Graphs /\ Top \in Frame /\ CallOK(shape, Top) /\ p \in Pairs /\ Top = LastCall(stack)
      /\ probe_exhausted \in BOOLEAN /\ probe_depth \in {0, 1} /\ res \in BOOLEAN
      /\ res = TRUE => T1(shape)[q]
      /\ res = FALSE => (T0(shape)[q] => probe_exhausted = TRUE)
  BY <1>1, AtReturn
<1>3. Top \in TypesFrame
  BY <1>1, <1>2, FrameOps
<1>4. e \in {0, 1} /\ y \in BOOLEAN /\ Top.saved.budget \in 0 .. Cap /\ Top.then \in {"idle", "unfold", "fail"}
  BY <1>3 DEF TypesFrame
<1>5. Resumes(Top, probe_depth, probe_exhausted, e, y)
  BY <1>1 DEF Resumes
<1>6. /\ Top.then # "idle" => shape[p].ty # 0 /\ q = shape[p].ty
      /\ Top.then = "idle" => q = p
      /\ Top.then = "unfold" => ToUnfold(shape, p, e, y)
      /\ Top.then = "fail" => LastResort(shape, p, y)
      /\ IsFirst(Top) <=> Top.then = "idle"
  BY <1>1, <1>2 DEF CallOK, Question, IsFirst
<1>7. /\ Top.then = "idle" => Goto("idle", p)
      /\ Top.then # "idle" /\ res = TRUE => Answer(TRUE)
      /\ Top.then = "fail" /\ res = FALSE => Answer(FALSE)
      /\ Top.then = "unfold" /\ res = FALSE => Goto("unfold", p)
  <2>1. CASE res = TRUE
    <3>1. res
      BY <2>1
    <3> QED  BY <2>1, <3>1 DEF TypesReturn
  <2>2. CASE res = FALSE
    <3>1. ~res
      BY <2>2
    <3> QED  BY <2>2, <3>1 DEF TypesReturn
  <2> QED  BY <1>2, <2>1, <2>2
<1> HIDE DEF e, y, p, q
<1>8. ctl' = "idle" <=> IsFirst(Top)
  BY <1>2, <1>4, <1>6, <1>7 DEF Answer, Goto
<1>9. probed' # {} => Flagged(stack, probe_exhausted)
  BY <1>1 DEF IInv, Calling
<1>10. Calling' /\ (Top.op = "types" /\ probe_exhausted = TRUE => y = TRUE)
  <2>1. Top.op # "probe"
    BY <1>1
  <2> QED  BY <1>1, <1>4, <1>5, <1>8, <1>9, <2>1, Ended
<1>11. CASE Top.then = "idle"
  <2>1. ctl' = "idle" /\ at' = p /\ res' = res
    BY <1>7, <1>11 DEF Goto
  <2>2. Data'
    BY <1>1, <1>2, <1>4, <2>1 DEF IInv, Data
  <2>3. stack \in Stack /\ Flags(stack, probe_exhausted) /\ Pop = Beneath(stack) /\ stack # <<>>
    BY <1>1, TopCall DEF IInv, Calling, Held
  <2>4. Len(stack) = 1 /\ stack[1].op = "types"
    <3>1. Len(stack) \in 1 .. Len(stack)
      BY <2>3, Popped
    <3>2. IsFirst(stack[Len(stack)]) <=> Len(stack) = 1
      BY <3>1 DEF IInv, Calling, Held, Calls
    <3>3. IsFirst(stack[Len(stack)]) /\ stack[Len(stack)].op = "types"
      BY <1>1, <1>2, <1>6, <1>11 DEF LastCall
    <3> QED  BY <3>2, <3>3
  <2>5. probe_exhausted = FALSE
    BY <1>2, <2>3, <2>4, FlagsAtBottom
  <2>6. /\ res' = TRUE => T1(shape)[p]
        /\ res' = FALSE => ~T0(shape)[p]
    BY <1>2, <1>6, <1>11, <2>1, <2>5
  <2>7. p # 0
    <3>1. \A n \in Pairs : n # 0
      BY DEF Pairs
    <3> QED  BY <1>2, <3>1
  <2>8. Kept'
    BY <1>1, <2>1, <2>6, <2>7 DEF IInv, Kept
  <2>9. Answering'
    BY <2>1 DEF Answering
  <2> QED  BY <1>10, <2>2, <2>8, <2>9 DEF IInv
<1>12. CASE Top.then # "idle"
  <2>1. ~IsFirst(Top)
    BY <1>6, <1>12
  <2>2. res = TRUE => T1(shape)[p]
    BY <1>2, <1>6, <1>12, Accepted DEF p
  <2>3. res = FALSE => (T0(shape)[q] => y = TRUE)
    BY <1>1, <1>2, <1>10
  <2>4. Top.then = "fail" /\ res = FALSE => (T0(shape)[p] => y = TRUE)
    BY <1>6, <2>3 DEF LastResort
  <2>5. \/ Answer(TRUE) /\ T1(shape)[p]
        \/ Answer(FALSE) /\ (T0(shape)[p] => y = TRUE)
        \/ Goto("unfold", p) /\ ToUnfold(shape, p, e, y)
    BY <1>2, <1>4, <1>6, <1>7, <1>12, <2>2, <2>4
  <2>6. probe_budget' \in 0 .. Cap
    BY <1>1, <1>4
  <2> QED  BY <1>1, <1>4, <1>5, <2>1, <2>5, <2>6, Continues DEF p
<1> QED  BY <1>11, <1>12

LEMMA ProbeReturnInv ==
  ASSUME IInv, ProbeReturn
  PROVE  IInv'
<1> DEFINE p == Top.p
           q == Question(shape, Top)
           n == Len(shape[p].args)
           decided == StillDecided(Top.decided)
<1>1. ctl = "return" /\ Top.op = "probe" /\ UNCHANGED <<shape, pos, neg>>
  BY DEF ProbeReturn
<1>2. /\ shape \in Graphs /\ Top \in Frame /\ CallOK(shape, Top) /\ p \in Pairs
      /\ probe_exhausted \in BOOLEAN /\ probe_depth \in {0, 1} /\ probe_budget \in 0 .. Cap
      /\ res \in BOOLEAN /\ (res = TRUE => T1(shape)[q])
  BY <1>1, AtReturn
<1>3. Top \in ProbeFrame
  BY <1>1, <1>2, FrameOps
<1>4. Top.i \in Nat /\ Top.outer \in BOOLEAN /\ Top.decided \in BOOLEAN
  BY <1>3 DEF ProbeFrame
<1>5. /\ q = shape[p].args[Top.i] /\ ~IsFirst(Top) /\ Top.i \in DOMAIN shape[p].args
      /\ Top.decided = TRUE => AgreeBefore(shape, p, Top.i)
      /\ shape[p].kind \in {"delta", "iota"}
  BY <1>1, <1>2 DEF Question, IsFirst, CallOK
<1>6. shape[p].args \in Seq(Pairs) /\ DOMAIN shape[p].args = 1 .. n
  BY <1>2, GraphShape
<1>7. Resumes(Top, probe_depth, probe_exhausted, 0, Top.outer)
  BY <1>1 DEF Resumes
<1>8. /\ decided \in BOOLEAN
      /\ decided = TRUE => Top.decided = TRUE /\ probe_exhausted = FALSE
  BY <1>2, <1>4 DEF StillDecided
<1>9. probed' = {} \/ (probed' = probed /\ probe_exhausted = FALSE)
  <2>1. CASE probe_exhausted = TRUE
    <3>1. probe_exhausted
      BY <2>1
    <3> QED  BY <3>1 DEF ProbeReturn, Forget
  <2>2. CASE probe_exhausted = FALSE
    <3>1. ~probe_exhausted
      BY <2>2
    <3> QED  BY <2>2, <3>1 DEF ProbeReturn
  <2> QED  BY <1>2, <2>1, <2>2
<1>10. \/ ProbeEnds(FALSE)
       \/ Top.i = n /\ ProbeEnds(decided) /\ (probe_exhausted = FALSE => res = TRUE)
       \/ Top.i # n /\ ProbeNext(decided) /\ (probe_exhausted = FALSE => res = TRUE)
  <2>1. CASE probe_exhausted = FALSE /\ res = FALSE
    <3>1. ~probe_exhausted /\ ~res
      BY <2>1
    <3> QED  BY <3>1 DEF ProbeReturn
  <2>2. CASE probe_exhausted = TRUE \/ res = TRUE
    <3>1. ~(~probe_exhausted /\ ~res)
      BY <2>2
    <3>2. (Top.i = n /\ ProbeEnds(decided)) \/ (Top.i # n /\ ProbeNext(decided))
      BY <3>1 DEF ProbeReturn
    <3>3. probe_exhausted = FALSE => res = TRUE
      BY <2>2
    <3> QED  BY <3>2, <3>3
  <2> QED  BY <1>2, <2>1, <2>2
<1> HIDE DEF decided
<1>11. decided = TRUE /\ (probe_exhausted = FALSE => res = TRUE) => AgreeBefore(shape, p, Top.i + 1)
  <2>1. SUFFICES ASSUME decided = TRUE, probe_exhausted = FALSE => res = TRUE
                 PROVE  AgreeBefore(shape, p, Top.i + 1)
    OBVIOUS
  <2>2. T1(shape)[shape[p].args[Top.i]] /\ AgreeBefore(shape, p, Top.i)
    BY <1>2, <1>5, <1>8, <2>1
  <2> QED  BY <1>4, <2>2 DEF AgreeBefore
<1>12. ToUnfold(shape, p, 0, Top.outer)
  <2>1. shape[p].args # <<>>
    BY <1>5
  <2> QED  BY <1>5, <2>1 DEF ToUnfold
<1>13. ASSUME NEW b \in BOOLEAN, ProbeEnds(b), b = TRUE => T1(shape)[p]
       PROVE  IInv'
  <2>1. /\ probe_depth' = 0 /\ probe_exhausted' = Top.outer /\ stack' = Pop /\ probe_budget' = probe_budget
    BY <1>13 DEF ProbeEnds
  <2>2. (Answer(TRUE) /\ T1(shape)[p]) \/ Goto("irrel", p)
    BY <1>13 DEF ProbeEnds
  <2>3. probe_budget' \in 0 .. Cap
    BY <1>2, <2>1
  <2> QED  BY <1>1, <1>4, <1>5, <1>7, <1>9, <1>12, <2>1, <2>2, <2>3, Continues
<1>14. CASE ProbeEnds(FALSE)
  <2> DEFINE b == FALSE
  <2>1. b \in BOOLEAN /\ b = FALSE /\ ProbeEnds(b)
    BY <1>14
  <2> HIDE DEF b
  <2>2. ~(b = TRUE)
    BY <2>1
  <2> QED  BY <1>13, <2>1, <2>2
<1>15. CASE Top.i = n /\ ProbeEnds(decided) /\ (probe_exhausted = FALSE => res = TRUE)
  <2>1. decided = TRUE => T1(shape)[p]
    BY <1>2, <1>5, <1>11, <1>15, Accepted
  <2> QED  BY <1>8, <1>13, <1>15, <2>1
<1>16. CASE Top.i # n /\ ProbeNext(decided) /\ (probe_exhausted = FALSE => res = TRUE)
  <2> DEFINE f == [Top EXCEPT !.i = @ + 1, !.decided = decided]
  <2>1. /\ stack' = Append(Pop, f) /\ Goto("unify", shape[p].args[Top.i + 1])
        /\ probe_budget' = Cap /\ probe_exhausted' = FALSE /\ probe_depth' = 1
    BY <1>16 DEF ProbeNext
  <2>2. /\ f \in ProbeFrame /\ f.op = "probe" /\ f.p = p /\ f.i = Top.i + 1 /\ f.decided = decided
        /\ f.outer = Top.outer
    <3> DEFINE c == decided
    <3>1. c \in BOOLEAN /\ f = [Top EXCEPT !.i = @ + 1, !.decided = c]
      BY <1>8
    <3> HIDE DEF c, f
    <3>2. DOMAIN Top = {"op", "p", "i", "outer", "decided"}
      BY <1>3 DEF ProbeFrame
    <3>3. /\ f.op = Top.op /\ f.p = Top.p /\ f.i = Top.i + 1 /\ f.outer = Top.outer
          /\ DOMAIN f = {"op", "p", "i", "outer", "decided"}
      BY <3>1, <3>2
    <3>4. f.decided = c
      BY <3>1, <3>2, Zenon
    <3>5. f = [op |-> f.op, p |-> f.p, i |-> f.i, outer |-> f.outer, decided |-> f.decided]
      BY <3>1, <3>3
    <3>6. f \in ProbeFrame
      BY <1>1, <1>2, <1>4, <3>1, <3>3, <3>4, <3>5 DEF ProbeFrame
    <3> QED  BY <1>1, <3>3, <3>4, <3>6 DEF c
  <2>3. f \in Frame
    BY <2>2 DEF Frame
  <2>4. Top.i + 1 \in DOMAIN shape[p].args
    BY <1>4, <1>5, <1>6, <1>16
  <2> HIDE DEF f
  <2>5. CallOK(shape, f)
    BY <1>5, <1>11, <1>16, <2>2, <2>4 DEF CallOK
  <2>6. Question(shape, f) = shape[p].args[Top.i + 1]
    BY <2>2 DEF Question
  <2>7. Goto("unify", Question(shape, f))
    BY <2>1, <2>6
  <2>8. probe_budget' \in 0 .. Cap
    BY <2>1, ConvAssumption
  <2> DEFINE y == FALSE
  <2>9. y \in BOOLEAN /\ y = FALSE /\ probe_exhausted' = y
    BY <2>1
  <2> HIDE DEF y
  <2> QED  BY <1>1, <1>9, <2>1, <2>2, <2>3, <2>5, <2>7, <2>8, <2>9, NextArgument
<1> QED  BY <1>10, <1>14, <1>15, <1>16

LEMMA ClearSessionInv ==
  ASSUME IInv, ClearSession
  PROVE  IInv'
<1>1. stack = <<>> /\ stack' = <<>> /\ ctl = "idle" /\ ctl' = "idle" /\ shape' = shape
      /\ probe_depth' = 0 /\ probe_exhausted' = FALSE /\ probed' = {}
  BY DEF IInv, Calling, ClearSession
<1>2. Depths(<<>>, probe_depth) /\ Flags(<<>>, probe_exhausted) /\ Calls(shape, <<>>) /\ <<>> \in Stack
  BY <1>1 DEF IInv, Calling, Held
<1>3. Len(<<>>) = 0
  OBVIOUS
<1>4. Depths(<<>>, 0)
  BY <1>3 DEF Depths, Budgeted
<1>5. Flags(<<>>, FALSE)
  <2>1. \A j \in 1 .. Len(<<>>) + 1 : j = Len(<<>>) + 1
    BY <1>3
  <2>2. \A j \in 1 .. Len(<<>>) + 1 : ~Flag(<<>>, FALSE, j)
    BY <2>1 DEF Flag
  <2> QED  BY <2>2 DEF Flags
<1>6. Calling'
  BY <1>1, <1>2, <1>4, <1>5 DEF Calling, Held
<1>7. Data'
  <2>1. 0 \in 0 .. Cap
    BY ConvAssumption
  <2> QED  BY <2>1 DEF ClearSession, IInv, Data
<1>8. Kept'
  BY DEF ClearSession, IInv, Kept
<1>9. Answering'
  BY <1>1 DEF Answering
<1> QED  BY <1>6, <1>7, <1>8, <1>9 DEF IInv

-----------------------------------------------------------------------------
(* The theorems.                                                           *)

LEMMA StepInv ==
  ASSUME IInv, [Next]_vars
  PROVE  IInv'
<1>1. CASE Step
  <2>1. CASE Irrel
    <3>1. Irrelevant("irrel", "unfold")
      BY <2>1 DEF Irrel
    <3> QED  BY <3>1, IrrelevantInv
  <2>2. CASE Cold
    <3>1. Irrelevant("cold", "fail")
      BY <2>2 DEF Cold
    <3> QED  BY <3>1, IrrelevantInv
  <2> QED  BY <1>1, <2>1, <2>2, GeneralInv, CachedInv, ExhaustInv, DecideInv, SpineReturnInv,
              ProbeReturnInv, TypesReturnInv, UnfoldInv, UnfoldReturnInv DEF Step
<1>2. CASE Query
  BY <1>2, QueryInv
<1>3. CASE ClearSession
  BY <1>3, ClearSessionInv
<1>4. CASE UNCHANGED vars
  BY <1>4 DEF vars, caches, probe, IInv, Data, Calling, Answering, Kept, Top
<1> QED  BY <1>1, <1>2, <1>3, <1>4 DEF Next

(* The calls that wait, the budget and the flag in force, and what the caches
   hold fit together in every reachable state of the conversion
   (checker/conv.rs). *)
THEOREM Invariance == Spec => []IInv
<1>1. Init => IInv
  BY InitInv
<1>2. IInv /\ [Next]_vars => IInv'
  BY StepInv
<1> QED  BY <1>1, <1>2, PTL DEF Spec

(* What the cache of successes keeps, and what the checker is told, is
   convertible: no probe that ran out, and no order of questions, makes the
   conversion accept two values that are not (spine_probe, conv_cache_pos). *)
THEOREM Soundness == Spec => []AcceptsSoundly
<1>1. IInv => AcceptsSoundly
  <2> SUFFICES ASSUME IInv PROVE AcceptsSoundly
    OBVIOUS
  <2>1. \A p \in pos : T1(shape)[p]
    BY DEF IInv, Kept
  <2>2. ASSUME ctl = "idle", res PROVE T1(shape)[at]
    <3>1. res = TRUE
      BY <2>2 DEF IInv, Data
    <3>2. at # 0
      BY <2>2, <3>1 DEF IInv, Kept
    <3> QED  BY <2>2, <3>1, <3>2 DEF IInv, Kept
  <2> QED  BY <2>1, <2>2 DEF AcceptsSoundly, T1
<1> QED  BY <1>1, Invariance, PTL

(* What the cache of failures keeps, and what the checker is refused, is not
   convertible even without budgets: a failure that comes of a budget that ran
   out is seen by every comparison it could mislead (unify_general,
   unbudgeted). *)
THEOREM Honesty == Spec => []RefutesHonestly
<1>1. IInv => RefutesHonestly
  <2> SUFFICES ASSUME IInv PROVE RefutesHonestly
    OBVIOUS
  <2>1. \A p \in neg : ~T0(shape)[p]
    BY DEF IInv, Kept
  <2>2. ASSUME ctl = "idle", at # 0, ~res PROVE ~T0(shape)[at]
    <3>1. res = FALSE
      BY <2>2 DEF IInv, Data
    <3> QED  BY <2>2, <3>1 DEF IInv, Kept
  <2> QED  BY <2>1, <2>2 DEF RefutesHonestly, T0
<1> QED  BY <1>1, Invariance, PTL

(* A budget is in force just within a probe that no question on types
   suspends, and what a probe found out on its budget is forgotten when the
   outermost one ends (probe_pass, unbudgeted). *)
THEOREM Nesting == Spec => []ProbesNest
<1>1. IInv => ProbesNest
  <2> SUFFICES ASSUME IInv PROVE ProbesNest
    OBVIOUS
  <2>1. /\ stack \in Stack /\ Depths(stack, probe_depth) /\ Flags(stack, probe_exhausted)
        /\ probed # {} => Flagged(stack, probe_exhausted)
    BY DEF IInv, Calling, Held
  <2>2. DOMAIN stack = 1 .. Len(stack) /\ Len(stack) \in Nat
    BY <2>1 DEF Stack
  <2>3. probe_depth = 1 <=> \E i \in DOMAIN stack :
                              Is(i, "probe") /\ \A j \in i + 1 .. Len(stack) : ~Is(j, "types")
    BY <2>1, <2>2 DEF Depths, Budgeted, Is
  <2>4. ASSUME \A i \in DOMAIN stack : ~Is(i, "probe"), probed # {} PROVE FALSE
    <3>1. PICK j \in 1 .. Len(stack) + 1 : Flag(stack, probe_exhausted, j)
      BY <2>1, <2>4 DEF Flagged
    <3>2. ~NoProbe(stack, 1, j - 1)
      BY <2>1, <3>1 DEF Flags
    <3>3. 1 .. j - 1 \subseteq DOMAIN stack
      BY <2>2
    <3> QED  BY <2>4, <3>2, <3>3 DEF NoProbe, Is
  <2> QED  BY <2>3, <2>4 DEF ProbesNest
<1> QED  BY <1>1, Invariance, PTL

\* Type correctness of the conversion; a call waits for every answer.
THEOREM Typing == Spec => []TypeOK
<1>1. IInv => TypeOK
  <2> SUFFICES ASSUME IInv PROVE TypeOK
    OBVIOUS
  <2>1. stack \in Stack /\ (ctl # "idle" => stack # <<>>)
    BY DEF IInv, Calling, Held
  <2>2. \A i \in DOMAIN stack : stack[i].op \in {"types", "cache", "spine", "probe", "unfold"}
    <3>1. \A i \in DOMAIN stack : stack[i] \in Frame
      BY <2>1 DEF Stack
    <3> QED  BY <3>1, FrameOps
  <2> QED  BY <2>1, <2>2 DEF IInv, Data, TypeOK
<1> QED  BY <1>1, Invariance, PTL
=============================================================================
