---------------------------- MODULE SessionsProofs ----------------------------
(***************************************************************************)
(* Proofs about Sessions: a thread that checks declarations and forces     *)
(* values, for all expressions, declarations and values, whichever share   *)
(* slots, digests and full keys, in sessions without bound.                *)
(***************************************************************************)
EXTENDS Sessions, LoopLemmas

-----------------------------------------------------------------------------
(* Expressions and their environments.                                     *)

LEMMA NodeShape ==
  ASSUME NEW e \in Exprs
  PROVE  /\ Node[e].op \in Ops /\ Slot(e) \in Slots /\ Height[e] \in Nat
         /\ Node[e].kids \in Seq(Exprs) /\ Node[e].asks \in Seq(Exprs)
         /\ Node[e].op \notin Atoms => Node[e].kids # <<>>
         /\ \A i \in DOMAIN Node[e].kids :
              /\ Node[e].kids[i] \in Exprs /\ Height[Node[e].kids[i]] < Height[e]
         /\ \A i \in DOMAIN Node[e].asks :
              /\ Node[e].asks[i] \in Exprs /\ Height[Node[e].asks[i]] < Height[e]
<1>1. Node[e].kids \in Seq(Exprs) /\ Node[e].asks \in Seq(Exprs)
  BY ChecksAssumption
<1>2. \A k \in Range(Node[e].kids) \cup Range(Node[e].asks) : Height[k] < Height[e]
  BY ChecksAssumption
<1>3. /\ \A i \in DOMAIN Node[e].kids : Node[e].kids[i] \in Range(Node[e].kids) /\ Node[e].kids[i] \in Exprs
      /\ \A i \in DOMAIN Node[e].asks : Node[e].asks[i] \in Range(Node[e].asks) /\ Node[e].asks[i] \in Exprs
  BY <1>1 DEF Range
<1> QED  BY <1>1, <1>2, <1>3, ChecksAssumption

LEMMA InnerIs ==
  ASSUME NEW e \in Exprs, NEW m \in Seq(Domains), NEW i
  PROVE  /\ Inner(m, e, i) \in Seq(Domains)
         /\ ~Binds(e, i) => Inner(m, e, i) = m
         /\ Binds(e, i) => /\ Domain(Inner(m, e, i), 0) = Node[e].dom
                           /\ \A u \in Nat \ {0} : Domain(Inner(m, e, i), u) = Domain(m, u - 1)
<1>1. CASE ~Binds(e, i)
  BY <1>1 DEF Inner
<1>2. CASE Binds(e, i)
  <2> DEFINE d == Node[e].dom
             n == <<d>> \o m
  <2>1. Inner(m, e, i) = n
    BY <1>2 DEF Inner
  <2>2. d \in Domains
    BY DEF Domains
  <2> HIDE DEF d
  <2>3. /\ n \in Seq(Domains) /\ Len(n) = Len(m) + 1 /\ Len(m) \in Nat /\ n[1] = d
        /\ \A u \in 1 .. Len(m) : n[u + 1] = m[u]
    BY <2>2
  <2> HIDE DEF n
  <2>4. Domain(n, 0) = d
    BY <2>3 DEF Domain
  <2>5. \A u \in Nat \ {0} : Domain(n, u) = Domain(m, u - 1)
    <3>1. ASSUME NEW u \in Nat \ {0} PROVE Domain(n, u) = Domain(m, u - 1)
      <4>1. CASE u < Len(n)
        <5>1. u - 1 < Len(m) /\ u \in 1 .. Len(m) /\ u - 1 + 1 = u
          BY <2>3, <4>1
        <5> QED  BY <2>3, <4>1, <5>1 DEF Domain
      <4>2. CASE ~(u < Len(n))
        <5>1. ~(u - 1 < Len(m))
          BY <2>3, <4>2
        <5> QED  BY <4>2, <5>1 DEF Domain
      <4> QED  BY <4>1, <4>2
    <3> QED  BY <3>1
  <2> QED  BY <1>2, <2>1, <2>3, <2>4, <2>5 DEF d
<1> QED  BY <1>1, <1>2

\* m and n give the variables of e the same domains.
Agree(m, n, e) == \A u \in Node[e].uses : Domain(m, u) = Domain(n, u)

LEMMA InnerAgrees ==
  ASSUME NEW e \in Exprs, NEW m \in Seq(Domains), NEW n \in Seq(Domains), Agree(m, n, e),
         NEW i \in DOMAIN Node[e].kids
  PROVE  Agree(Inner(m, e, i), Inner(n, e, i), Node[e].kids[i])
<1> DEFINE k == Node[e].kids[i]
<1>1. \A u \in Node[k].uses :
        IF Binds(e, i) THEN u = 0 \/ u - 1 \in Node[e].uses ELSE u \in Node[e].uses
  BY ChecksAssumption
<1>2. \A u \in Node[k].uses : u \in Nat
  BY NodeShape, ChecksAssumption
<1>3. ASSUME NEW u \in Node[k].uses
      PROVE  Domain(Inner(m, e, i), u) = Domain(Inner(n, e, i), u)
  <2>1. CASE ~Binds(e, i)
    BY <1>1, <2>1, InnerIs DEF Agree
  <2>2. CASE Binds(e, i) /\ u = 0
    BY <2>2, InnerIs
  <2>3. CASE Binds(e, i) /\ u # 0
    <3>1. u - 1 \in Node[e].uses /\ u \in Nat \ {0}
      BY <1>1, <1>2, <2>3
    <3>2. Domain(Inner(m, e, i), u) = Domain(m, u - 1) /\ Domain(Inner(n, e, i), u) = Domain(n, u - 1)
      BY <2>3, <3>1, InnerIs
    <3> QED  BY <3>1, <3>2 DEF Agree
  <2> QED  BY <2>1, <2>2, <2>3
<1> QED  BY <1>3 DEF Agree

LEMMA FitsAgrees ==
  ASSUME NEW e \in Exprs, NEW m, NEW n, Agree(m, n, e), Fits(m, e)
  PROVE  Fits(n, e)
<1>1. DOMAIN Node[e].needs \subseteq Node[e].uses
  BY ChecksAssumption
<1> QED  BY <1>1 DEF Fits, Agree

LEMMA PrunedIs ==
  ASSUME NEW e \in Exprs, NEW m \in Seq(Domains)
  PROVE  /\ Pruned(m, e) \in Environments
         /\ Meaning(Pruned(m, e)) \in Seq(Domains)
         /\ Agree(Meaning(Pruned(m, e)), m, e)
<1> DEFINE p == Pruned(m, e)
           n == Meaning(p)
<1>1. Len(m) \in Nat /\ \A u \in Nat : Domain(m, u) \in Domains
  <2>1. Len(m) \in Nat /\ \A j \in 1 .. Len(m) : m[j] \in Domains
    OBVIOUS
  <2>2. \A u \in Nat : u < Len(m) => u + 1 \in 1 .. Len(m)
    BY <2>1
  <2>3. Unused \in Domains
    BY DEF Domains
  <2> QED  BY <2>1, <2>2, <2>3 DEF Domain
<1>2. Node[e].uses \subseteq Nat /\ \A u \in Node[e].uses : u < MaxDepth /\ u + 1 \in 1 .. MaxDepth
  <2>1. Node[e].uses \subseteq 0 .. MaxDepth - 1 /\ MaxDepth \in Nat
    BY ChecksAssumption
  <2> QED  BY <2>1
<1>3. p = [u \in Node[e].uses |-> Domain(m, u)]
  BY DEF Pruned
<1>4. p \in [Node[e].uses -> Domains]
  BY <1>1, <1>2, <1>3
<1>5. p \in Environments
  BY <1>4 DEF Environments
<1>6. n = [i \in 1 .. MaxDepth |-> IF i - 1 \in DOMAIN p THEN p[i - 1] ELSE Unused]
  BY DEF Meaning
<1>7. DOMAIN p = Node[e].uses /\ \A u \in Node[e].uses : p[u] = Domain(m, u) /\ p[u] \in Domains
  BY <1>3, <1>4
<1> HIDE DEF p
<1>8. MaxDepth \in Nat /\ Unused \in Domains
  BY ChecksAssumption DEF Domains
<1>9. n \in [1 .. MaxDepth -> Domains]
  BY <1>6, <1>7, <1>8
<1>10. n \in Seq(Domains) /\ Len(n) = MaxDepth
  BY <1>8, <1>9
<1>11. ASSUME NEW u \in Node[e].uses PROVE Domain(n, u) = Domain(m, u)
  <2>1. u \in Nat /\ u < MaxDepth /\ u + 1 \in 1 .. MaxDepth /\ u + 1 - 1 = u
    BY <1>2
  <2>2. n[u + 1] = p[u]
    BY <1>6, <1>7, <2>1
  <2> HIDE DEF n
  <2> QED  BY <1>7, <1>10, <2>1, <2>2 DEF Domain
<1> HIDE DEF n
<1> QED  BY <1>5, <1>10, <1>11 DEF Agree, n, p

-----------------------------------------------------------------------------
(* What is well formed, by recursion over expressions.                     *)

Answers == [Infos \X Seq(Domains) -> BOOLEAN]

SoundAt(sound, e, info, m) ==
  CASE Node[e].op = "var"  -> TRUE
    [] Node[e].op = "leaf" -> info = NoInfo \/ Node[e].params \subseteq Range(Params[info])
    [] OTHER -> /\ Fits(m, e)
                /\ \A i \in DOMAIN Node[e].kids : sound[Node[e].kids[i]][<<info, Inner(m, e, i)>>]

SoundStep(sound, e) == [x \in Infos \X Seq(Domains) |-> SoundAt(sound, e, x[1], x[2])]

LEMMA SoundTyped ==
  ASSUME NEW sound, NEW e \in Exprs
  PROVE  SoundStep(sound, e) \in Answers
<1>1. \A info, m : SoundAt(sound, e, info, m) \in BOOLEAN
  BY DEF SoundAt
<1> QED  BY <1>1 DEF SoundStep, Answers

LEMMA SoundBelow ==
  ASSUME NEW e \in Exprs, NEW g, NEW h, \A k \in Exprs : Height[k] < Height[e] => g[k] = h[k]
  PROVE  SoundStep(g, e) = SoundStep(h, e)
<1>1. \A i \in DOMAIN Node[e].kids : g[Node[e].kids[i]] = h[Node[e].kids[i]]
  BY NodeShape
<1>2. ASSUME NEW x \in Infos \X Seq(Domains) PROVE SoundAt(g, e, x[1], x[2]) = SoundAt(h, e, x[1], x[2])
  BY <1>1 DEF SoundAt
<1> QED  BY <1>2 DEF SoundStep

LEMMA SoundIs ==
  /\ Sound \in [Exprs -> Answers]
  /\ \A e \in Exprs : Sound[e] = SoundStep(Sound, e)
<1> DEFINE step == [y \in Exprs \X [Exprs -> Answers] |-> SoundStep(y[2], y[1])]
<1>1. step \in [Exprs \X [Exprs -> Answers] -> Answers]
  BY SoundTyped
<1>2. \A e \in Exprs : \A g \in [Exprs -> Answers] : step[<<e, g>>] = SoundStep(g, e)
  OBVIOUS
<1> HIDE DEF step
<1>3. \A e \in Exprs : \A g, h \in [Exprs -> Answers] :
        (\A k \in Exprs : Height[k] < Height[e] => g[k] = h[k]) => step[<<e, g>>] = step[<<e, h>>]
  BY <1>2, SoundBelow
<1>4. Answers # {}
  <2>1. [x \in Infos \X Seq(Domains) |-> TRUE] \in Answers
    BY DEF Answers
  <2> QED  BY <2>1
<1>5. IsRecursion(Exprs, Answers, Height, step)
  BY <1>1, <1>3, NodeShape DEF IsRecursion
<1>6. PICK f : Solves(f, Exprs, Answers, step)
  BY ONLY <1>4, <1>5, HeightRecursion
<1>7. f = [e \in Exprs |-> SoundStep(f, e)]
  BY <1>2, <1>6 DEF Solves
<1> DEFINE chosen == CHOOSE g : g = [e \in Exprs |-> SoundStep(g, e)]
<1>8. chosen = [e \in Exprs |-> SoundStep(chosen, e)]
  BY <1>7
<1>9. Sound = chosen
  BY DEF Sound, SoundStep, SoundAt
<1> HIDE DEF chosen
<1>10. \A e \in Exprs : chosen[e] = SoundStep(chosen, e) /\ chosen[e] \in Answers
  BY <1>8, SoundTyped
<1>11. chosen \in [Exprs -> Answers]
  BY <1>8, <1>10
<1> QED  BY <1>9, <1>10, <1>11

LEMMA WellFormedIs ==
  ASSUME NEW e \in Exprs, NEW info \in Infos, NEW m \in Seq(Domains)
  PROVE  /\ WellFormed(info, m, e) \in BOOLEAN
         /\ Node[e].op = "var" => WellFormed(info, m, e)
         /\ Node[e].op = "leaf" =>
              (WellFormed(info, m, e) <=> info = NoInfo \/ Node[e].params \subseteq Range(Params[info]))
         /\ Node[e].op \notin Atoms =>
              (WellFormed(info, m, e) <=>
                 /\ Fits(m, e)
                 /\ \A i \in DOMAIN Node[e].kids : WellFormed(info, Inner(m, e, i), Node[e].kids[i]))
<1>1. Sound[e][<<info, m>>] = SoundAt(Sound, e, info, m)
  BY SoundIs DEF SoundStep
<1>2. WellFormed(info, m, e) = SoundAt(Sound, e, info, m)
  BY <1>1 DEF WellFormed
<1> QED  BY <1>2 DEF SoundAt, Atoms, WellFormed

\* That depends on no more of the environment than the expression's variables.
LEMMA WellFormedAgrees ==
  \A e \in Exprs : \A info \in Infos, m, n \in Seq(Domains) :
    Agree(m, n, e) => (WellFormed(info, m, e) <=> WellFormed(info, n, e))
<1> DEFINE T == {e \in Exprs : \A info \in Infos, m, n \in Seq(Domains) :
                   Agree(m, n, e) => (WellFormed(info, m, e) <=> WellFormed(info, n, e))}
<1>1. ASSUME NEW e \in Exprs, \A k \in Exprs : Height[k] < Height[e] => k \in T
      PROVE  e \in T
  <2>1. ASSUME NEW info \in Infos, NEW m \in Seq(Domains), NEW n \in Seq(Domains), Agree(m, n, e)
        PROVE  WellFormed(info, m, e) <=> WellFormed(info, n, e)
    <3>1. CASE Node[e].op \in Atoms
      BY <3>1, WellFormedIs DEF Atoms
    <3>2. CASE Node[e].op \notin Atoms
      <4>1. Fits(m, e) <=> Fits(n, e)
        <5>1. Agree(n, m, e)
          BY <2>1 DEF Agree
        <5> QED  BY <2>1, <5>1, FitsAgrees
      <4>2. ASSUME NEW i \in DOMAIN Node[e].kids
            PROVE  WellFormed(info, Inner(m, e, i), Node[e].kids[i])
                   <=> WellFormed(info, Inner(n, e, i), Node[e].kids[i])
        <5>1. Node[e].kids[i] \in T
          BY <1>1, NodeShape
        <5>2. Inner(m, e, i) \in Seq(Domains) /\ Inner(n, e, i) \in Seq(Domains)
          BY InnerIs
        <5>3. Agree(Inner(m, e, i), Inner(n, e, i), Node[e].kids[i])
          BY <2>1, InnerAgrees
        <5> QED  BY <5>1, <5>2, <5>3
      <4> HIDE DEF T
      <4> QED  BY <3>2, <4>1, <4>2, WellFormedIs
    <3> QED  BY <3>1, <3>2
  <2> QED  BY <2>1
<1>2. \A e \in Exprs : Height[e] \in Nat
  BY NodeShape
<1> HIDE DEF T
<1>3. Exprs \subseteq T
  BY <1>1, <1>2, HeightInduction
<1> USE DEF T
<1> QED  BY <1>3

-----------------------------------------------------------------------------
(* Inference, by recursion over expressions.                               *)

Runs       == [Questions \X Seq(Domains) \X States -> States]
Inferences == [Exprs -> Runs]
JobLists   == Seq(Seq(Domains) \X Exprs)

LEMMA RunTyped ==
  ASSUME NEW infer \in Inferences, NEW e \in Exprs, NEW q \in Questions, NEW m \in Seq(Domains),
         NEW st \in States
  PROVE  infer[e][<<q, m, st>>] \in States
BY DEF Inferences, Runs

TurnOf(infer, q, jobs, before, j) ==
  IF before.outcome = "ok" THEN infer[jobs[j][2]][<<q, jobs[j][1], before>>] ELSE before

\* turn holds the states between the jobs.
Follows(turn, infer, q, jobs, st) ==
  /\ turn \in [0 .. Len(jobs) -> States] /\ turn[0] = st
  /\ \A j \in 1 .. Len(jobs) : turn[j] = TurnOf(infer, q, jobs, turn[j - 1], j)

LEMMA JobIs ==
  ASSUME NEW jobs \in JobLists
  PROVE  /\ Len(jobs) \in Nat /\ DOMAIN jobs = 1 .. Len(jobs)
         /\ \A j \in 1 .. Len(jobs) : jobs[j][1] \in Seq(Domains) /\ jobs[j][2] \in Exprs
<1> DEFINE J == Seq(Domains) \X Exprs
<1>1. jobs \in Seq(J)
  BY DEF JobLists
<1>2. \A x \in J : x[1] \in Seq(Domains) /\ x[2] \in Exprs
  OBVIOUS
<1> HIDE DEF J
<1>3. Len(jobs) \in Nat /\ DOMAIN jobs = 1 .. Len(jobs) /\ \A j \in 1 .. Len(jobs) : jobs[j] \in J
  BY <1>1
<1> QED  BY <1>2, <1>3

LEMMA TurnTyped ==
  ASSUME NEW infer \in Inferences, NEW q \in Questions, NEW jobs \in JobLists,
         NEW before \in States, NEW j \in 1 .. Len(jobs)
  PROVE  TurnOf(infer, q, jobs, before, j) \in States
BY RunTyped, JobIs DEF TurnOf

\* Only the expressions of the jobs are looked at.
LEMMA EachLike ==
  ASSUME NEW g, NEW infer \in Inferences, NEW q \in Questions, NEW jobs \in JobLists, NEW st \in States,
         \A j \in 1 .. Len(jobs) : g[jobs[j][2]] = infer[jobs[j][2]]
  PROVE  \E turn : Follows(turn, infer, q, jobs, st) /\ Each(g, q, jobs, st) = turn[Len(jobs)]
<1> DEFINE n == Len(jobs)
           Table(t) == [j \in 0 .. n |-> IF j = 0 THEN st ELSE TurnOf(g, q, jobs, t[j - 1], j)]
           step == [x \in States \X (1 .. n) |-> TurnOf(infer, q, jobs, x[1], x[2])]
           chosen == CHOOSE t : t = Table(t)
<1>1. n \in Nat
  BY JobIs
<1>2. step \in [States \X (1 .. n) -> States]
  BY TurnTyped
<1>3. \A b \in States : \A j \in 1 .. n : step[<<b, j>>] = TurnOf(infer, q, jobs, b, j)
  OBVIOUS
<1>4. Each(g, q, jobs, st) = chosen[n]
  BY DEF Each, TurnOf
<1> HIDE DEF step, n
<1>5. PICK f : IsRun(f, States, st, n, step)
  BY ONLY <1>1, <1>2, st \in States, RecursionExists
<1>6. f \in [0 .. n -> States] /\ f[0] = st /\ \A i \in 1 .. n : f[i] = step[<<f[i - 1], i>>]
  BY <1>5 DEF IsRun
<1>7. \A i \in 1 .. n : i - 1 \in 0 .. n /\ i # 0 /\ i \in 0 .. n
  BY <1>1
<1>8. \A i \in 1 .. n : f[i] = TurnOf(infer, q, jobs, f[i - 1], i)
  BY <1>3, <1>6, <1>7
<1>0. \A j \in 1 .. n : \A b : TurnOf(g, q, jobs, b, j) = TurnOf(infer, q, jobs, b, j)
  BY DEF TurnOf, n
<1>9. f = Table(f)
  <2>1. \A j \in 0 .. n : f[j] = IF j = 0 THEN st ELSE TurnOf(g, q, jobs, f[j - 1], j)
    <3>1. \A j \in 0 .. n : j = 0 \/ j \in 1 .. n
      BY <1>1
    <3> QED  BY <1>0, <1>6, <1>7, <1>8, <3>1
  <2> QED  BY <1>6, <2>1
<1>10. chosen = Table(chosen)
  <2> HIDE DEF Table
  <2> QED  BY <1>9
<1> HIDE DEF chosen
<1>11. DOMAIN chosen = 0 .. n /\ chosen = [j \in 0 .. n |-> chosen[j]]
  BY <1>10
<1>12. chosen[0] = st /\ \A j \in 1 .. n : chosen[j] = TurnOf(infer, q, jobs, chosen[j - 1], j)
  <2>1. 0 \in 0 .. n
    BY <1>1
  <2> QED  BY <1>0, <1>7, <1>10, <2>1
<1>13. \A j \in 0 .. n : chosen[j] \in States
  <2> DEFINE T == {j \in 0 .. n : chosen[j] \in States}
  <2>1. 0 \in T
    BY <1>1, <1>12
  <2>2. ASSUME NEW j \in 0 .. n - 1, j \in T PROVE j + 1 \in T
    <3>1. j + 1 \in 1 .. n /\ j + 1 - 1 = j /\ j + 1 \in 0 .. n
      BY <1>1
    <3>2. chosen[j + 1] = TurnOf(infer, q, jobs, chosen[j], j + 1)
      BY <1>12, <3>1
    <3> QED  BY <2>2, <3>1, <3>2, TurnTyped DEF n
  <2> HIDE DEF T
  <2>3. 0 .. n \subseteq T
    BY <1>1, <2>1, <2>2, SetInduction
  <2> QED  BY <2>3 DEF T
<1>14. chosen \in [0 .. n -> States]
  BY <1>11, <1>13
<1>15. Follows(chosen, infer, q, jobs, st)
  BY <1>12, <1>14 DEF Follows, n
<1> QED  BY <1>4, <1>15 DEF n

LEMMA EachIs ==
  ASSUME NEW infer \in Inferences, NEW q \in Questions, NEW jobs \in JobLists, NEW st \in States
  PROVE  \E turn : Follows(turn, infer, q, jobs, st) /\ Each(infer, q, jobs, st) = turn[Len(jobs)]
BY EachLike

LEMMA EachTyped ==
  ASSUME NEW infer \in Inferences, NEW q \in Questions, NEW jobs \in JobLists, NEW st \in States
  PROVE  Each(infer, q, jobs, st) \in States
<1>1. PICK turn : Follows(turn, infer, q, jobs, st) /\ Each(infer, q, jobs, st) = turn[Len(jobs)]
  BY EachIs
<1>2. Len(jobs) \in 0 .. Len(jobs)
  BY JobIs
<1> QED  BY <1>1, <1>2 DEF Follows

\* Nothing is done for a check that was rejected.
LEMMA EachStops ==
  ASSUME NEW infer \in Inferences, NEW q \in Questions, NEW jobs \in JobLists, NEW st \in States,
         st.outcome # "ok"
  PROVE  Each(infer, q, jobs, st) = st
<1>1. PICK turn : Follows(turn, infer, q, jobs, st) /\ Each(infer, q, jobs, st) = turn[Len(jobs)]
  BY EachIs
<1> DEFINE n == Len(jobs)
           T == {j \in 0 .. n : turn[j] = st}
<1>2. n \in Nat
  BY JobIs
<1>3. 0 \in T
  BY <1>1, <1>2 DEF Follows
<1>4. ASSUME NEW j \in 0 .. n - 1, j \in T PROVE j + 1 \in T
  <2>1. j + 1 \in 1 .. n /\ j + 1 - 1 = j /\ j + 1 \in 0 .. n
    BY <1>2
  <2>2. turn[j + 1] = TurnOf(infer, q, jobs, turn[j], j + 1)
    BY <1>1, <2>1 DEF Follows
  <2> QED  BY <1>4, <2>1, <2>2 DEF TurnOf
<1> HIDE DEF T, n
<1>5. 0 .. n \subseteq T
  BY <1>2, <1>3, <1>4, SetInduction
<1>6. n \in T
  BY <1>2, <1>5
<1> QED  BY <1>1, <1>6 DEF T, n

LEMMA EachBelow ==
  ASSUME NEW g, NEW h \in Inferences, NEW q \in Questions, NEW jobs \in JobLists,
         NEW st \in States, \A j \in 1 .. Len(jobs) : g[jobs[j][2]] = h[jobs[j][2]]
  PROVE  Each(g, q, jobs, st) = Each(h, q, jobs, st)
<1>1. PICK t : Follows(t, h, q, jobs, st) /\ Each(g, q, jobs, st) = t[Len(jobs)]
  BY EachLike
<1>2. PICK u : Follows(u, h, q, jobs, st) /\ Each(h, q, jobs, st) = u[Len(jobs)]
  BY EachIs
<1> DEFINE n == Len(jobs)
           T == {j \in 0 .. n : t[j] = u[j]}
<1>3. n \in Nat
  BY JobIs
<1>4. 0 \in T
  BY <1>1, <1>2, <1>3 DEF Follows
<1>5. ASSUME NEW j \in 0 .. n - 1, j \in T PROVE j + 1 \in T
  <2>1. j + 1 \in 1 .. n /\ j + 1 - 1 = j /\ j + 1 \in 0 .. n
    BY <1>3
  <2>2. t[j + 1] = TurnOf(h, q, jobs, t[j], j + 1) /\ u[j + 1] = TurnOf(h, q, jobs, u[j], j + 1)
    BY <1>1, <1>2, <2>1 DEF Follows
  <2> QED  BY <1>5, <2>1, <2>2
<1> HIDE DEF T, n
<1>6. 0 .. n \subseteq T
  BY <1>3, <1>4, <1>5, SetInduction
<1>7. n \in T
  BY <1>3, <1>6
<1> QED  BY <1>1, <1>2, <1>7 DEF T, n

LEMMA SeqIs ==
  ASSUME NEW S, NEW f \in Seq(S)
  PROVE  Len(f) \in Nat /\ DOMAIN f = 1 .. Len(f) /\ \A i \in 1 .. Len(f) : f[i] \in S
OBVIOUS

LEMMA IsSeq ==
  ASSUME NEW S, NEW n \in Nat, NEW f, f = [i \in 1 .. n |-> f[i]], \A i \in 1 .. n : f[i] \in S
  PROVE  f \in Seq(S) /\ Len(f) = n
<1>1. f \in [1 .. n -> S]
  OBVIOUS
<1> QED  BY <1>1

LEMMA VisitedIs ==
  ASSUME NEW e \in Exprs, Node[e].op \notin Atoms, NEW flag
  PROVE  /\ Visited(flag, e) \in Seq(DOMAIN Node[e].kids)
         /\ flag = "Check" => /\ Len(Visited(flag, e)) = Len(Node[e].kids)
                              /\ \A i \in DOMAIN Node[e].kids : Visited(flag, e)[i] = i
<1> DEFINE kids == Node[e].kids
           all == [i \in DOMAIN kids |-> i]
<1>1. Len(kids) \in Nat \ {0} /\ DOMAIN kids = 1 .. Len(kids)
  <2>1. kids \in Seq(Exprs) /\ kids # <<>>
    BY NodeShape
  <2> QED  BY <2>1
<1> HIDE DEF kids
<1>2. all \in Seq(DOMAIN kids) /\ Len(all) = Len(kids) /\ \A i \in DOMAIN kids : all[i] = i
  <2>1. all \in [1 .. Len(kids) -> DOMAIN kids]
    BY <1>1
  <2> QED  BY <1>1, <2>1
<1>3. <<1>> \in Seq(DOMAIN kids) /\ <<>> \in Seq(DOMAIN kids) /\ <<Len(kids)>> \in Seq(DOMAIN kids)
  BY <1>1
<1>4. Visited(flag, e) \in {all, <<1>>, <<>>, <<Len(kids)>>} /\ (flag = "Check" => Visited(flag, e) = all)
  BY DEF Visited, kids
<1> HIDE DEF all
<1> QED  BY <1>2, <1>3, <1>4 DEF kids

LEMMA JobsTyped ==
  ASSUME NEW e \in Exprs, NEW m \in Seq(Domains), NEW places \in Seq(DOMAIN Node[e].kids)
  PROVE  /\ Jobs(m, e, places) \in JobLists /\ Len(Jobs(m, e, places)) = Len(places)
         /\ \A j \in 1 .. Len(places) :
              Jobs(m, e, places)[j] = <<Inner(m, e, places[j]), Node[e].kids[places[j]]>>
<1> DEFINE jobs == Jobs(m, e, places)
<1>1. Len(places) \in Nat /\ DOMAIN places = 1 .. Len(places)
      /\ \A j \in 1 .. Len(places) : places[j] \in DOMAIN Node[e].kids
  BY SeqIs
<1>2. jobs = [j \in 1 .. Len(places) |-> <<Inner(m, e, places[j]), Node[e].kids[places[j]]>>]
  BY <1>1 DEF Jobs
<1>3. \A j \in 1 .. Len(places) : /\ jobs[j] = <<Inner(m, e, places[j]), Node[e].kids[places[j]]>>
                                  /\ jobs[j] \in Seq(Domains) \X Exprs
  BY <1>1, <1>2, InnerIs, NodeShape
<1>4. jobs = [j \in 1 .. Len(places) |-> jobs[j]]
  BY <1>2
<1> HIDE DEF jobs
<1>5. jobs \in Seq(Seq(Domains) \X Exprs) /\ Len(jobs) = Len(places)
  BY <1>1, <1>3, <1>4, IsSeq
<1> QED  BY <1>3, <1>5 DEF JobLists, jobs

LEMMA AlikeTyped ==
  ASSUME NEW m \in Seq(Domains), NEW es \in Seq(Exprs)
  PROVE  /\ Alike(m, es) \in JobLists /\ Len(Alike(m, es)) = Len(es)
         /\ \A j \in 1 .. Len(es) : Alike(m, es)[j] = <<m, es[j]>>
<1> DEFINE jobs == Alike(m, es)
<1>1. Len(es) \in Nat /\ DOMAIN es = 1 .. Len(es) /\ \A j \in 1 .. Len(es) : es[j] \in Exprs
  BY SeqIs
<1>2. jobs = [j \in 1 .. Len(es) |-> <<m, es[j]>>]
  BY <1>1 DEF Alike
<1>3. \A j \in 1 .. Len(es) : jobs[j] = <<m, es[j]>> /\ jobs[j] \in Seq(Domains) \X Exprs
  BY <1>1, <1>2
<1>4. jobs = [j \in 1 .. Len(es) |-> jobs[j]]
  BY <1>2
<1> HIDE DEF jobs
<1>5. jobs \in Seq(Seq(Domains) \X Exprs) /\ Len(jobs) = Len(es)
  BY <1>1, <1>3, <1>4, IsSeq
<1> QED  BY <1>3, <1>5 DEF JobLists, jobs

LEMMA StateIs ==
  ASSUME NEW st \in States
  PROVE  /\ st.outcome \in {"ok", "reject"} /\ st.envs \in Seq(Environments)
         /\ st.types \subseteq CachedTypes /\ st.closed \subseteq Exprs \X Infos
         /\ st.leaves \in LeafTables /\ st.stamp \in Nat
BY DEF States

LEMMA Rejecting ==
  ASSUME NEW st \in States
  PROVE  /\ [st EXCEPT !.outcome = "reject"] \in States
         /\ [st EXCEPT !.outcome = "reject"].outcome = "reject"
         /\ [st EXCEPT !.outcome = "reject"].envs = st.envs
         /\ [st EXCEPT !.outcome = "reject"].types = st.types
         /\ [st EXCEPT !.outcome = "reject"].closed = st.closed
         /\ [st EXCEPT !.outcome = "reject"].leaves = st.leaves
         /\ [st EXCEPT !.outcome = "reject"].stamp = st.stamp
BY DEF States

Filled(st, c, t, r) ==
  /\ r \in States /\ r.outcome = st.outcome /\ r.envs = st.envs /\ r.types = t
  /\ r.closed = c /\ r.leaves = st.leaves /\ r.stamp = st.stamp

LEMMA Filling ==
  ASSUME NEW st \in States, NEW c \in SUBSET (Exprs \X Infos), NEW t \in SUBSET CachedTypes,
         NEW r, r = [st EXCEPT !.closed = c, !.types = t]
  PROVE  Filled(st, c, t, r)
<1> DEFINE x == [st EXCEPT !.closed = c]
<1>1. /\ x \in States /\ x.outcome = st.outcome /\ x.envs = st.envs /\ x.types = st.types
      /\ x.closed = c /\ x.leaves = st.leaves /\ x.stamp = st.stamp
  BY DEF States
<1>2. r = [x EXCEPT !.types = t]
  OBVIOUS
<1> HIDE DEF x
<1> QED  BY <1>1, <1>2 DEF States, Filled

Noted(st, e, L) ==
  \A s \in Slots : L[s] = IF s = Slot(e) THEN <<e, st.stamp>> ELSE st.leaves[s]

\* A leaf is written to its slot.
LEMMA Noting ==
  ASSUME NEW st \in States, NEW e \in Exprs,
         NEW L, L = [st.leaves EXCEPT ![Slot(e)] = <<e, st.stamp>>]
  PROVE  /\ L \in LeafTables
         /\ Noted(st, e, L)
         /\ [st EXCEPT !.leaves[Slot(e)] = <<e, st.stamp>>] = [st EXCEPT !.leaves = L]
<1>1. Slot(e) \in Slots /\ st.leaves \in LeafTables /\ st.stamp \in Nat
  BY NodeShape, StateIs
<1>2. L \in LeafTables
  BY <1>1 DEF LeafTables
<1>3. Noted(st, e, L)
  BY <1>1 DEF LeafTables, Noted
<1> QED  BY <1>2, <1>3

LEMMA Leafing ==
  ASSUME NEW st \in States, NEW L \in LeafTables, NEW r, r = [st EXCEPT !.leaves = L]
  PROVE  /\ r \in States /\ r.outcome = st.outcome /\ r.envs = st.envs /\ r.types = st.types
         /\ r.closed = st.closed /\ r.leaves = L /\ r.stamp = st.stamp
BY DEF States

LEMMA WithEnvIs ==
  ASSUME NEW st \in States, NEW p \in Environments
  PROVE  /\ WithEnv(st, p) \in States
         /\ WithEnv(st, p).outcome = st.outcome /\ WithEnv(st, p).types = st.types
         /\ WithEnv(st, p).closed = st.closed /\ WithEnv(st, p).leaves = st.leaves
         /\ WithEnv(st, p).stamp = st.stamp
         /\ Len(st.envs) <= Len(WithEnv(st, p).envs)
         /\ \A i \in DOMAIN st.envs : i \in DOMAIN WithEnv(st, p).envs /\ WithEnv(st, p).envs[i] = st.envs[i]
         /\ EnvId(WithEnv(st, p), p) \in DOMAIN WithEnv(st, p).envs
         /\ WithEnv(st, p).envs[EnvId(WithEnv(st, p), p)] = p
<1> DEFINE w == WithEnv(st, p)
<1>1. st.envs \in Seq(Environments) /\ Len(st.envs) \in Nat /\ DOMAIN st.envs = 1 .. Len(st.envs)
  BY StateIs, SeqIs
<1>2. CASE p \in Range(st.envs)
  <2>1. w = st
    BY <1>2 DEF WithEnv
  <2>2. \E i \in DOMAIN st.envs : st.envs[i] = p
    BY <1>2 DEF Range
  <2>3. EnvId(w, p) \in DOMAIN w.envs /\ w.envs[EnvId(w, p)] = p
    BY <2>1, <2>2 DEF EnvId
  <2> HIDE DEF w
  <2>4. w \in States /\ Len(st.envs) <= Len(w.envs)
    BY <1>1, <2>1
  <2> QED  BY <2>1, <2>3, <2>4 DEF w
<1>3. CASE p \notin Range(st.envs)
  <2> DEFINE es == Append(st.envs, p)
  <2>1. w = [st EXCEPT !.envs = es]
    BY <1>3 DEF WithEnv
  <2>2. /\ es \in Seq(Environments) /\ Len(es) = Len(st.envs) + 1 /\ DOMAIN es = 1 .. Len(st.envs) + 1
        /\ es[Len(st.envs) + 1] = p /\ \A i \in 1 .. Len(st.envs) : es[i] = st.envs[i]
    BY <1>1
  <2> HIDE DEF es, w
  <2>3. /\ w \in States /\ w.envs = es /\ w.outcome = st.outcome /\ w.types = st.types
        /\ w.closed = st.closed /\ w.leaves = st.leaves /\ w.stamp = st.stamp
    BY <2>1, <2>2 DEF States
  <2>4. \E i \in DOMAIN w.envs : w.envs[i] = p
    BY <1>1, <2>2, <2>3
  <2>5. EnvId(w, p) \in DOMAIN w.envs /\ w.envs[EnvId(w, p)] = p
    BY <2>4 DEF EnvId
  <2>6. Len(st.envs) <= Len(w.envs) /\ \A i \in DOMAIN st.envs : i \in DOMAIN w.envs /\ w.envs[i] = st.envs[i]
    BY <1>1, <2>2, <2>3
  <2> QED  BY <2>3, <2>5, <2>6 DEF w
<1> QED  BY <1>2, <1>3

\* The parts of InferNode.
Passed(q, e, w)  == Reusable(q, e) /\ <<e, q.info>> \in w.closed
FlagOf(q, e, w)  == IF Passed(q, e, w) THEN "InferOnly" ELSE q.flag
With(q, flag)    == [q EXCEPT !.flag = flag]
KidJobs(q, m, e, w) == Jobs(m, e, Visited(FlagOf(q, e, w), e))
AskJobs(q, m, e, w) == Alike(m, IF FlagOf(q, e, w) = "Check" THEN Node[e].asks ELSE <<>>)

KidsDone(infer, q, m, e, w) == Each(infer, With(q, FlagOf(q, e, w)), KidJobs(q, m, e, w), w)
AsksDone(infer, q, m, e, w) ==
  Each(infer, With(q, "InferOnly"), AskJobs(q, m, e, w), KidsDone(infer, q, m, e, w))

Hit(q, m, e, w) == \E c \in w.types : c.env = EnvId(w, Pruned(m, e)) /\ c.expr = e /\ Hits(q, c)

EntryFor(q, m, e, w) ==
  [env |-> EnvId(w, Pruned(m, e)), expr |-> e, result |-> <<e, Pruned(m, e)>>,
   under |-> IF q.flag = "Check" THEN q.info ELSE Unchecked]

ClosedAfter(q, e, w, st) ==
  IF Reusable(q, e) /\ ~Passed(q, e, w) THEN st.closed \cup {<<e, q.info>>} ELSE st.closed

TypesAfter(q, m, e, w, st) ==
  {c \in st.types : ~(c.env = EnvId(w, Pruned(m, e)) /\ c.expr = e)} \cup {EntryFor(q, m, e, w)}

Fails(q, m, e, w, st) == st.outcome = "reject" \/ (FlagOf(q, e, w) = "Check" /\ ~Fits(m, e))

NodeDone(q, m, e, w, st) ==
  IF Fails(q, m, e, w, st) THEN [st EXCEPT !.outcome = "reject"]
  ELSE [st EXCEPT !.closed = ClosedAfter(q, e, w, st), !.types = TypesAfter(q, m, e, w, st)]

LEMMA InferNodeIs ==
  ASSUME NEW infer, NEW q, NEW m, NEW e, NEW w
  PROVE  InferNode(infer, q, m, e, w)
           = IF Hit(q, m, e, w) THEN w ELSE NodeDone(q, m, e, w, AsksDone(infer, q, m, e, w))
<1> DEFINE a == AsksDone(infer, q, m, e, w)
<1>1. NodeDone(q, m, e, w, a)
        = IF Fails(q, m, e, w, a) THEN [a EXCEPT !.outcome = "reject"]
          ELSE [a EXCEPT !.closed = IF Reusable(q, e) /\ ~Passed(q, e, w) THEN @ \cup {<<e, q.info>>} ELSE @,
                         !.types = {c \in @ : ~(c.env = EnvId(w, Pruned(m, e)) /\ c.expr = e)}
                                     \cup {EntryFor(q, m, e, w)}]
  BY DEF NodeDone, ClosedAfter, TypesAfter
<1> QED  BY <1>1 DEF InferNode, Hit, Fails, Passed, FlagOf, With, KidJobs, AskJobs, KidsDone, AsksDone, EntryFor

LEMMA WithIs ==
  ASSUME NEW q \in Questions, NEW flag \in {"Check", "InferOnly"}
  PROVE  With(q, flag) \in Questions /\ With(q, flag).flag = flag /\ With(q, flag).info = q.info
         /\ q.flag \in {"Check", "InferOnly"} /\ q.info \in Infos
BY DEF Questions, With

LEMMA FlagTyped ==
  ASSUME NEW q \in Questions, NEW e, NEW w
  PROVE  FlagOf(q, e, w) \in {"Check", "InferOnly"}
BY WithIs DEF FlagOf

LEMMA NodeJobs ==
  ASSUME NEW e \in Exprs, Node[e].op \notin Atoms, NEW q \in Questions, NEW m \in Seq(Domains), NEW w
  PROVE  /\ KidJobs(q, m, e, w) \in JobLists /\ AskJobs(q, m, e, w) \in JobLists
         /\ \A j \in 1 .. Len(KidJobs(q, m, e, w)) :
              KidJobs(q, m, e, w)[j][2] \in Exprs /\ Height[KidJobs(q, m, e, w)[j][2]] < Height[e]
         /\ \A j \in 1 .. Len(AskJobs(q, m, e, w)) :
              AskJobs(q, m, e, w)[j][2] \in Exprs /\ Height[AskJobs(q, m, e, w)[j][2]] < Height[e]
<1> DEFINE places == Visited(FlagOf(q, e, w), e)
           es == IF FlagOf(q, e, w) = "Check" THEN Node[e].asks ELSE <<>>
<1>1. /\ Len(places) \in Nat /\ places \in Seq(DOMAIN Node[e].kids)
      /\ \A j \in 1 .. Len(places) : places[j] \in DOMAIN Node[e].kids
  BY VisitedIs, SeqIs
<1>2. /\ es \in Seq(Exprs) /\ Len(es) \in Nat
      /\ \A j \in 1 .. Len(es) : es[j] \in Exprs /\ Height[es[j]] < Height[e]
  <2>1. Node[e].asks \in Seq(Exprs) /\ <<>> \in Seq(Exprs)
    BY NodeShape
  <2>2. \A j \in 1 .. Len(Node[e].asks) : Node[e].asks[j] \in Exprs /\ Height[Node[e].asks[j]] < Height[e]
    BY <2>1, SeqIs, NodeShape
  <2>3. Len(<<>>) = 0
    OBVIOUS
  <2>4. CASE FlagOf(q, e, w) = "Check"
    BY <2>1, <2>2, <2>4, SeqIs
  <2>5. CASE FlagOf(q, e, w) # "Check"
    BY <2>1, <2>3, <2>5
  <2> QED  BY <2>4, <2>5
<1>3. KidJobs(q, m, e, w) = Jobs(m, e, places) /\ AskJobs(q, m, e, w) = Alike(m, es)
  BY DEF KidJobs, AskJobs
<1> HIDE DEF places, es
<1>4. /\ Jobs(m, e, places) \in JobLists /\ Len(Jobs(m, e, places)) = Len(places)
      /\ \A j \in 1 .. Len(places) : Jobs(m, e, places)[j][2] = Node[e].kids[places[j]]
  BY <1>1, JobsTyped
<1>5. /\ Alike(m, es) \in JobLists /\ Len(Alike(m, es)) = Len(es)
      /\ \A j \in 1 .. Len(es) : Alike(m, es)[j][2] = es[j]
  BY <1>2, AlikeTyped
<1> QED  BY <1>1, <1>2, <1>3, <1>4, <1>5, NodeShape

LEMMA LeafTyped ==
  ASSUME NEW e \in Exprs, NEW q \in Questions, NEW st \in States
  PROVE  Leaf(q, e, st) \in States
<1> DEFINE L == [st.leaves EXCEPT ![Slot(e)] = <<e, st.stamp>>]
<1>1. L \in LeafTables /\ [st EXCEPT !.leaves[Slot(e)] = <<e, st.stamp>>] = [st EXCEPT !.leaves = L]
  BY Noting
<1> HIDE DEF L
<1>2. [st EXCEPT !.leaves = L] \in States
  BY <1>1, Leafing
<1> QED  BY <1>1, <1>2, Rejecting DEF Leaf

LEMMA EntryTyped ==
  ASSUME NEW e \in Exprs, NEW q \in Questions, NEW m \in Seq(Domains), NEW w \in States,
         EnvId(w, Pruned(m, e)) \in DOMAIN w.envs
  PROVE  EntryFor(q, m, e, w) \in CachedTypes
<1>1. EnvId(w, Pruned(m, e)) \in Nat
  <2>1. w.envs \in Seq(Environments)
    BY StateIs
  <2>2. Len(w.envs) \in Nat /\ DOMAIN w.envs = 1 .. Len(w.envs)
    BY <2>1, SeqIs
  <2> QED  BY <2>2
<1>2. Pruned(m, e) \in Environments /\ q.info \in Infos
  BY PrunedIs, WithIs
<1> QED  BY <1>1, <1>2 DEF EntryFor, CachedTypes

LEMMA NodeDoneTyped ==
  ASSUME NEW e \in Exprs, NEW q \in Questions, NEW m \in Seq(Domains), NEW w \in States,
         EnvId(w, Pruned(m, e)) \in DOMAIN w.envs, NEW st \in States
  PROVE  /\ ClosedAfter(q, e, w, st) \in SUBSET (Exprs \X Infos)
         /\ TypesAfter(q, m, e, w, st) \in SUBSET CachedTypes
         /\ NodeDone(q, m, e, w, st) \in States
<1>1. ClosedAfter(q, e, w, st) \in SUBSET (Exprs \X Infos)
  <2>1. st.closed \subseteq Exprs \X Infos /\ q.info \in Infos
    BY StateIs, WithIs
  <2> QED  BY <2>1 DEF ClosedAfter
<1>2. TypesAfter(q, m, e, w, st) \in SUBSET CachedTypes
  <2>1. st.types \subseteq CachedTypes /\ EntryFor(q, m, e, w) \in CachedTypes
    BY StateIs, EntryTyped
  <2> QED  BY <2>1 DEF TypesAfter
<1>3. NodeDone(q, m, e, w, st) \in States
  <2> DEFINE c == ClosedAfter(q, e, w, st)
             t == TypesAfter(q, m, e, w, st)
             r == [st EXCEPT !.closed = c, !.types = t]
  <2>1. NodeDone(q, m, e, w, st) = IF Fails(q, m, e, w, st) THEN [st EXCEPT !.outcome = "reject"] ELSE r
    BY DEF NodeDone
  <2> HIDE DEF c, t
  <2>2. c \in SUBSET (Exprs \X Infos) /\ t \in SUBSET CachedTypes
    BY <1>1, <1>2 DEF c, t
  <2>3. r = [st EXCEPT !.closed = c, !.types = t]
    OBVIOUS
  <2> HIDE DEF r
  <2>4. r \in States
    BY ONLY <2>2, <2>3, st \in States, Filling DEF Filled
  <2> QED  BY <2>1, <2>4, Rejecting
<1> QED  BY <1>1, <1>2, <1>3

LEMMA DoneTyped ==
  ASSUME NEW e \in Exprs, Node[e].op \notin Atoms, NEW q \in Questions, NEW m \in Seq(Domains),
         NEW w \in States, NEW infer \in Inferences
  PROVE  KidsDone(infer, q, m, e, w) \in States /\ AsksDone(infer, q, m, e, w) \in States
<1>1. KidsDone(infer, q, m, e, w) \in States
  BY NodeJobs, FlagTyped, WithIs, EachTyped DEF KidsDone
<1> QED  BY <1>1, NodeJobs, WithIs, EachTyped DEF AsksDone

InferAt(infer, e, q, m, st) ==
  CASE Node[e].op = "var"  -> st
    [] Node[e].op = "leaf" -> Leaf(q, e, st)
    [] OTHER               -> InferNode(infer, q, m, e, WithEnv(st, Pruned(m, e)))

InferStep(infer, e) ==
  [x \in Questions \X Seq(Domains) \X States |-> InferAt(infer, e, x[1], x[2], x[3])]

LEMMA InferTyped ==
  ASSUME NEW e \in Exprs, NEW infer \in Inferences
  PROVE  InferStep(infer, e) \in Runs
<1>1. ASSUME NEW q \in Questions, NEW m \in Seq(Domains), NEW st \in States
      PROVE  InferAt(infer, e, q, m, st) \in States
  <2>1. CASE Node[e].op \in Atoms
    BY <2>1, LeafTyped DEF InferAt, Atoms
  <2>2. CASE Node[e].op \notin Atoms
    <3> DEFINE w == WithEnv(st, Pruned(m, e))
    <3>1. w \in States /\ EnvId(w, Pruned(m, e)) \in DOMAIN w.envs
      BY PrunedIs, WithEnvIs
    <3>2. InferAt(infer, e, q, m, st) = InferNode(infer, q, m, e, w)
      BY <2>2 DEF InferAt, Atoms
    <3> HIDE DEF w
    <3>3. AsksDone(infer, q, m, e, w) \in States
      BY <2>2, <3>1, DoneTyped
    <3> QED  BY <3>1, <3>2, <3>3, InferNodeIs, NodeDoneTyped
  <2> QED  BY <2>1, <2>2
<1>2. \A x \in Questions \X Seq(Domains) \X States : InferAt(infer, e, x[1], x[2], x[3]) \in States
  BY <1>1
<1> QED  BY <1>2 DEF InferStep, Runs

LEMMA InferBelow ==
  ASSUME NEW e \in Exprs, NEW g, NEW h \in Inferences,
         \A k \in Exprs : Height[k] < Height[e] => g[k] = h[k]
  PROVE  InferStep(g, e) = InferStep(h, e)
<1>1. ASSUME NEW q \in Questions, NEW m \in Seq(Domains), NEW st \in States
      PROVE  InferAt(g, e, q, m, st) = InferAt(h, e, q, m, st)
  <2>1. CASE Node[e].op \in Atoms
    BY <2>1 DEF InferAt, Atoms
  <2>2. CASE Node[e].op \notin Atoms
    <3> DEFINE w == WithEnv(st, Pruned(m, e))
    <3>1. w \in States
      BY PrunedIs, WithEnvIs
    <3>2. \A f : InferAt(f, e, q, m, st) = InferNode(f, q, m, e, w)
      BY <2>2 DEF InferAt, Atoms
    <3> HIDE DEF w
    <3>3. KidsDone(g, q, m, e, w) = KidsDone(h, q, m, e, w)
      <4>1. KidJobs(q, m, e, w) \in JobLists /\ With(q, FlagOf(q, e, w)) \in Questions
        BY <2>2, NodeJobs, FlagTyped, WithIs
      <4>2. \A j \in 1 .. Len(KidJobs(q, m, e, w)) :
              g[KidJobs(q, m, e, w)[j][2]] = h[KidJobs(q, m, e, w)[j][2]]
        BY <2>2, NodeJobs
      <4> QED  BY <3>1, <4>1, <4>2, EachBelow DEF KidsDone
    <3>4. AsksDone(g, q, m, e, w) = AsksDone(h, q, m, e, w)
      <4>1. AskJobs(q, m, e, w) \in JobLists /\ With(q, "InferOnly") \in Questions
        BY <2>2, NodeJobs, WithIs
      <4>2. \A j \in 1 .. Len(AskJobs(q, m, e, w)) :
              g[AskJobs(q, m, e, w)[j][2]] = h[AskJobs(q, m, e, w)[j][2]]
        BY <2>2, NodeJobs
      <4>3. KidsDone(h, q, m, e, w) \in States
        BY <2>2, <3>1, DoneTyped
      <4> DEFINE k == KidsDone(h, q, m, e, w)
                 p == With(q, "InferOnly")
                 jobs == AskJobs(q, m, e, w)
      <4>4. AsksDone(g, q, m, e, w) = Each(g, p, jobs, k) /\ AsksDone(h, q, m, e, w) = Each(h, p, jobs, k)
        BY <3>3 DEF AsksDone
      <4> HIDE DEF k, p, jobs
      <4>5. Each(g, p, jobs, k) = Each(h, p, jobs, k)
        BY <4>1, <4>2, <4>3, EachBelow DEF k, p, jobs
      <4> QED  BY <4>4, <4>5
    <3> QED  BY <3>2, <3>4, InferNodeIs
  <2> QED  BY <2>1, <2>2
<1>2. \A x \in Questions \X Seq(Domains) \X States :
        InferAt(g, e, x[1], x[2], x[3]) = InferAt(h, e, x[1], x[2], x[3])
  BY <1>1
<1> QED  BY <1>2 DEF InferStep

LEMMA InferIs ==
  /\ Infer \in Inferences
  /\ \A e \in Exprs : Infer[e] = InferStep(Infer, e)
<1> DEFINE step == [y \in Exprs \X [Exprs -> Runs] |-> InferStep(y[2], y[1])]
<1>1. step \in [Exprs \X [Exprs -> Runs] -> Runs]
  BY InferTyped DEF Inferences
<1>2. \A e \in Exprs : \A g \in [Exprs -> Runs] : step[<<e, g>>] = InferStep(g, e)
  OBVIOUS
<1> HIDE DEF step
<1>3. \A e \in Exprs : \A g, h \in [Exprs -> Runs] :
        (\A k \in Exprs : Height[k] < Height[e] => g[k] = h[k]) => step[<<e, g>>] = step[<<e, h>>]
  BY <1>2, InferBelow DEF Inferences
<1>4. Runs # {}
  <2>1. [x \in Questions \X Seq(Domains) \X States |-> x[3]] \in Runs
    BY DEF Runs
  <2> QED  BY <2>1
<1>5. IsRecursion(Exprs, Runs, Height, step)
  BY <1>1, <1>3, NodeShape DEF IsRecursion
<1>6. PICK f : Solves(f, Exprs, Runs, step)
  BY ONLY <1>4, <1>5, HeightRecursion
<1>7. f = [e \in Exprs |-> InferStep(f, e)]
  BY <1>2, <1>6 DEF Solves
<1> DEFINE chosen == CHOOSE g : g = [e \in Exprs |-> InferStep(g, e)]
<1>8. chosen = [e \in Exprs |-> InferStep(chosen, e)]
  BY <1>7
<1>9. Infer = chosen
  BY DEF Infer, InferStep, InferAt
<1> HIDE DEF chosen
<1>10. \A e \in Exprs : chosen[e] = InferStep(chosen, e)
  BY <1>8
<1>11. PICK r \in Runs : TRUE
  BY <1>4
<1> DEFINE T == {e \in Exprs : chosen[e] \in Runs}
<1>12. ASSUME NEW e \in Exprs, \A k \in Exprs : Height[k] < Height[e] => k \in T
       PROVE  e \in T
  <2> DEFINE h == [k \in Exprs |-> IF chosen[k] \in Runs THEN chosen[k] ELSE r]
  <2>1. h \in Inferences
    BY <1>11 DEF Inferences
  <2>2. \A k \in Exprs : Height[k] < Height[e] => chosen[k] = h[k]
    BY <1>12
  <2> HIDE DEF h
  <2>3. InferStep(chosen, e) = InferStep(h, e)
    BY <2>1, <2>2, InferBelow
  <2> QED  BY <1>10, <2>1, <2>3, InferTyped
<1>13. \A e \in Exprs : Height[e] \in Nat
  BY NodeShape
<1> HIDE DEF T
<1>14. Exprs \subseteq T
  BY <1>12, <1>13, HeightInduction
<1>15. \A e \in Exprs : chosen[e] \in Runs
  BY <1>14 DEF T
<1>16. chosen \in Inferences
  BY <1>8, <1>10, <1>15 DEF Inferences
<1> QED  BY <1>9, <1>10, <1>16

-----------------------------------------------------------------------------
(* What inference answers, and leaves in the tables.                       *)

TypesTrue(types, es) ==
  \A c \in types :
    /\ c.env \in DOMAIN es /\ c.result = <<c.expr, es[c.env]>>
    /\ c.under \in Infos => WellFormed(c.under, Meaning(es[c.env]), c.expr)

ClosedTrue(closed) == \A x \in closed : Node[x[1]].uses = {} /\ WellFormed(x[2], <<>>, x[1])

LeavesTrue(leaves, stamp, info) ==
  \A s \in Slots :
    /\ leaves[s][2] <= stamp
    /\ leaves[s][2] = stamp /\ info \in DOMAIN Params =>
         Node[leaves[s][1]].params \subseteq Range(Params[info])

Good(info, st) ==
  /\ st \in States /\ st.stamp > 0
  /\ TypesTrue(st.types, st.envs)
  /\ ClosedTrue(st.closed)
  /\ LeavesTrue(st.leaves, st.stamp, info)

Grows(st, r) ==
  /\ r.stamp = st.stamp /\ Len(st.envs) <= Len(r.envs)
  /\ \A i \in DOMAIN st.envs : i \in DOMAIN r.envs /\ r.envs[i] = st.envs[i]

Right(q, m, e, st, r) ==
  /\ Good(q.info, r) /\ Grows(st, r)
  /\ q.flag = "InferOnly" => r.outcome = "ok"
  /\ q.flag = "Check" => (r.outcome = "ok" <=> WellFormed(q.info, m, e))

InfersRightly(e) ==
  \A q \in Questions, m \in Seq(Domains), st \in States :
    Good(q.info, st) /\ st.outcome = "ok" => Right(q, m, e, st, Infer[e][<<q, m, st>>])

JobsTrue(q, jobs, n) == \A j \in 1 .. n : WellFormed(q.info, jobs[j][1], jobs[j][2])

AllRight(q, jobs, st, n, r) ==
  /\ Good(q.info, r) /\ Grows(st, r)
  /\ q.flag = "InferOnly" => r.outcome = "ok"
  /\ q.flag = "Check" => (r.outcome = "ok" <=> JobsTrue(q, jobs, n))

LEMMA EachRight ==
  ASSUME NEW q \in Questions, NEW jobs \in JobLists, NEW st \in States,
         Good(q.info, st), st.outcome = "ok",
         \A j \in 1 .. Len(jobs) : InfersRightly(jobs[j][2])
  PROVE  AllRight(q, jobs, st, Len(jobs), Each(Infer, q, jobs, st))
<1>0. Infer \in Inferences
  BY InferIs
<1>1. PICK turn : Follows(turn, Infer, q, jobs, st) /\ Each(Infer, q, jobs, st) = turn[Len(jobs)]
  BY <1>0, EachIs
<1> DEFINE n == Len(jobs)
           T == {j \in 0 .. n : AllRight(q, jobs, st, j, turn[j])}
<1>2. /\ n \in Nat /\ turn[0] = st
      /\ \A j \in 1 .. n : turn[j] = TurnOf(Infer, q, jobs, turn[j - 1], j)
      /\ \A j \in 0 .. n : turn[j] \in States
  BY <1>1, JobIs DEF Follows
<1>3. 0 \in T
  <2>1. Grows(st, st)
    <3>1. Len(st.envs) \in Nat
      BY StateIs, SeqIs
    <3> QED  BY <3>1 DEF Grows
  <2>2. JobsTrue(q, jobs, 0)
    BY DEF JobsTrue
  <2>3. 0 \in 0 .. n
    BY <1>2
  <2> QED  BY <1>2, <2>1, <2>2, <2>3 DEF AllRight
<1>4. ASSUME NEW j \in 0 .. n - 1, j \in T PROVE j + 1 \in T
  <2>1. j + 1 \in 1 .. n /\ j + 1 - 1 = j /\ j + 1 \in 0 .. n /\ j \in 0 .. n /\ j \in Nat
    BY <1>2
  <2> DEFINE b == turn[j]
             r == turn[j + 1]
             m == jobs[j + 1][1]
             e == jobs[j + 1][2]
  <2>2. r = TurnOf(Infer, q, jobs, b, j + 1) /\ b \in States
    BY <1>2, <2>1
  <2>3. AllRight(q, jobs, st, j, b)
    BY <1>4
  <2>4. JobsTrue(q, jobs, j + 1) <=> JobsTrue(q, jobs, j) /\ WellFormed(q.info, m, e)
    <3>1. \A i \in 1 .. j + 1 : i \in 1 .. j \/ i = j + 1
      BY <2>1
    <3>2. \A i \in 1 .. j : i \in 1 .. j + 1
      BY <2>1
    <3>3. j + 1 \in 1 .. j + 1
      BY <2>1
    <3> QED  BY <3>1, <3>2, <3>3 DEF JobsTrue
  <2>5. InfersRightly(e) /\ m \in Seq(Domains)
    BY <2>1, JobIs
  <2>6. q.flag \in {"Check", "InferOnly"}
    BY WithIs
  <2> HIDE DEF b, r, m, e
  <2>7. CASE b.outcome = "ok"
    <3>1. r = Infer[e][<<q, m, b>>]
      BY <2>2, <2>7 DEF TurnOf, m, e
    <3>2. Right(q, m, e, b, r)
      BY <2>2, <2>3, <2>5, <2>7, <3>1 DEF InfersRightly, AllRight
    <3>3. Grows(st, r)
      <4>1. Len(st.envs) \in Nat /\ Len(b.envs) \in Nat /\ Len(r.envs) \in Nat
        <5>1. r \in States
          BY <3>2 DEF Right, Good
        <5> QED  BY <2>2, <5>1, StateIs, SeqIs
      <4> QED  BY <2>3, <3>2, <4>1 DEF Right, AllRight, Grows
    <3>4. AllRight(q, jobs, st, j + 1, r)
      BY <2>3, <2>4, <2>7, <3>2, <3>3 DEF Right, AllRight
    <3> QED  BY <2>1, <3>4 DEF r
  <2>8. CASE b.outcome # "ok"
    <3>1. r = b
      BY <2>2, <2>8 DEF TurnOf
    <3>2. AllRight(q, jobs, st, j + 1, r)
      BY <2>3, <2>4, <2>8, <3>1 DEF AllRight
    <3> QED  BY <2>1, <3>2 DEF r
  <2> QED  BY <2>7, <2>8
<1> HIDE DEF T, n
<1>5. 0 .. n \subseteq T
  BY <1>2, <1>3, <1>4, SetInduction
<1>6. n \in T
  BY <1>2, <1>5
<1> QED  BY <1>1, <1>6 DEF T, n

LEMMA LeafRight ==
  ASSUME NEW e \in Exprs, Node[e].op = "leaf", NEW q \in Questions, NEW m \in Seq(Domains),
         NEW st \in States, Good(q.info, st), st.outcome = "ok"
  PROVE  Right(q, m, e, st, Leaf(q, e, st))
<1> DEFINE fits == Node[e].params \subseteq Range(Params[q.info])
           L == [st.leaves EXCEPT ![Slot(e)] = <<e, st.stamp>>]
<1>1. /\ Slot(e) \in Slots /\ q.flag \in {"Check", "InferOnly"} /\ q.info \in Infos
      /\ st.leaves \in LeafTables /\ st.stamp \in Nat
  BY NodeShape, WithIs, StateIs
<1>2. Grows(st, st)
  <2>1. Len(st.envs) \in Nat
    BY StateIs, SeqIs
  <2> QED  BY <2>1 DEF Grows
<1>3. WellFormed(q.info, m, e) <=> q.info = NoInfo \/ fits
  BY <1>1, WellFormedIs
<1>4. CASE q.flag = "InferOnly" \/ q.info = NoInfo
  BY <1>2, <1>3, <1>4 DEF Leaf, Right
<1>5. CASE q.flag = "Check" /\ q.info # NoInfo
  <2>0. q.info \in DOMAIN Params
    BY <1>1, <1>5 DEF Infos
  <2>1. CASE LeafChecked(st, e)
    <3>1. st.leaves[Slot(e)][1] = e /\ st.leaves[Slot(e)][2] = st.stamp
      BY <2>1 DEF LeafChecked
    <3>2. fits
      BY <1>1, <2>0, <3>1 DEF Good, LeavesTrue
    <3>3. Leaf(q, e, st) = st
      BY <2>1 DEF Leaf
    <3> QED  BY <1>2, <1>3, <3>2, <3>3, <1>5 DEF Right
  <2>2. CASE ~LeafChecked(st, e) /\ ~fits
    <3>1. Leaf(q, e, st) = [st EXCEPT !.outcome = "reject"]
      BY <1>5, <2>2 DEF Leaf
    <3> DEFINE r == [st EXCEPT !.outcome = "reject"]
    <3>2. /\ r \in States /\ r.outcome = "reject" /\ r.envs = st.envs /\ r.types = st.types
          /\ r.closed = st.closed /\ r.leaves = st.leaves /\ r.stamp = st.stamp
      BY Rejecting
    <3> HIDE DEF r
    <3>3. Good(q.info, r) /\ Grows(st, r)
      BY <1>2, <3>2 DEF Good, Grows
    <3> QED  BY <1>3, <1>5, <2>2, <3>1, <3>2, <3>3 DEF Right, r
  <2>3. CASE ~LeafChecked(st, e) /\ fits
    <3> DEFINE r == [st EXCEPT !.leaves = L]
    <3>1. Leaf(q, e, st) = r
      <4>1. Leaf(q, e, st) = [st EXCEPT !.leaves[Slot(e)] = <<e, st.stamp>>]
        BY <1>5, <2>3 DEF Leaf
      <4> QED  BY <4>1
    <3>2. L = [st.leaves EXCEPT ![Slot(e)] = <<e, st.stamp>>]
      OBVIOUS
    <3> HIDE DEF L
    <3>3. L \in LeafTables
      BY ONLY <3>2, st \in States, e \in Exprs, Noting
    <3>5. Noted(st, e, L)
      BY ONLY <3>2, st \in States, e \in Exprs, Noting
    <3>4. /\ r \in States /\ r.outcome = st.outcome /\ r.envs = st.envs /\ r.types = st.types
          /\ r.closed = st.closed /\ r.leaves = L /\ r.stamp = st.stamp
      BY <3>3, Leafing
    <3> HIDE DEF r
    <3>6. LeavesTrue(L, st.stamp, q.info)
      <4>1. ASSUME NEW s \in Slots
            PROVE  /\ L[s][2] <= st.stamp
                   /\ L[s][2] = st.stamp /\ q.info \in DOMAIN Params =>
                        Node[L[s][1]].params \subseteq Range(Params[q.info])
        <5>1. CASE s = Slot(e)
          <6>1. L[s][1] = e /\ L[s][2] = st.stamp
            BY <3>5, <5>1 DEF Noted
          <6>2. Node[L[s][1]].params \subseteq Range(Params[q.info])
            BY <2>3, <6>1
          <6>3. L[s][2] <= st.stamp
            <7> DEFINE n == st.stamp
            <7>1. n \in Nat
              BY <1>1
            <7>2. L[s][2] = n
              BY <6>1
            <7> HIDE DEF n
            <7>3. n <= n
              BY <7>1
            <7> QED  BY <7>2, <7>3 DEF n
          <6> QED  BY <6>2, <6>3
        <5>2. CASE s # Slot(e)
          BY <3>5, <5>2 DEF Good, LeavesTrue, Noted
        <5> QED  BY <5>1, <5>2
      <4> QED  BY <4>1 DEF LeavesTrue
    <3>7. Good(q.info, r) /\ Grows(st, r)
      BY <1>2, <3>4, <3>6 DEF Good, Grows
    <3> QED  BY <1>3, <1>5, <2>3, <3>1, <3>4, <3>7 DEF Right
  <2> QED  BY <2>1, <2>2, <2>3
<1> QED  BY <1>1, <1>4, <1>5

LEMMA WithEnvGood ==
  ASSUME NEW info, NEW st \in States, NEW p \in Environments, Good(info, st)
  PROVE  Good(info, WithEnv(st, p)) /\ Grows(st, WithEnv(st, p))
<1> DEFINE w == WithEnv(st, p)
<1>1. /\ w \in States /\ w.types = st.types /\ w.closed = st.closed /\ w.leaves = st.leaves
      /\ w.stamp = st.stamp /\ Len(st.envs) <= Len(w.envs)
      /\ \A i \in DOMAIN st.envs : i \in DOMAIN w.envs /\ w.envs[i] = st.envs[i]
  BY WithEnvIs
<1> HIDE DEF w
<1>2. TypesTrue(w.types, w.envs)
  BY <1>1 DEF Good, TypesTrue
<1>3. Good(info, w) /\ Grows(st, w)
  BY <1>1, <1>2 DEF Good, Grows
<1> QED  BY <1>3 DEF w

LEMMA GrowsTwice ==
  ASSUME NEW s \in States, NEW t \in States, NEW u \in States, Grows(s, t), Grows(t, u)
  PROVE  Grows(s, u)
<1>1. Len(s.envs) \in Nat /\ Len(t.envs) \in Nat /\ Len(u.envs) \in Nat
  BY StateIs, SeqIs
<1> QED  BY <1>1 DEF Grows

\* The parts of e, and what is asked about it.
LEMMA DoneRight ==
  ASSUME NEW e \in Exprs, Node[e].op \notin Atoms, NEW q \in Questions, NEW m \in Seq(Domains),
         NEW w \in States, Good(q.info, w), w.outcome = "ok",
         \A k \in Exprs : Height[k] < Height[e] => InfersRightly(k)
  PROVE  LET a == AsksDone(Infer, q, m, e, w)
         IN  /\ Good(q.info, a) /\ Grows(w, a)
             /\ FlagOf(q, e, w) = "InferOnly" => a.outcome = "ok"
             /\ FlagOf(q, e, w) = "Check" =>
                  (a.outcome = "ok" <=>
                     \A i \in DOMAIN Node[e].kids : WellFormed(q.info, Inner(m, e, i), Node[e].kids[i]))
<1> DEFINE flag == FlagOf(q, e, w)
           p == With(q, flag)
           p2 == With(q, "InferOnly")
           jobs == KidJobs(q, m, e, w)
           asks == AskJobs(q, m, e, w)
           k == KidsDone(Infer, q, m, e, w)
           a == AsksDone(Infer, q, m, e, w)
           KidsFine == \A i \in DOMAIN Node[e].kids : WellFormed(q.info, Inner(m, e, i), Node[e].kids[i])
<1>1. /\ flag \in {"Check", "InferOnly"}
      /\ p \in Questions /\ p.flag = flag /\ p.info = q.info
      /\ p2 \in Questions /\ p2.flag = "InferOnly" /\ p2.info = q.info
  BY FlagTyped, WithIs
<1>2. /\ jobs \in JobLists /\ asks \in JobLists
      /\ \A j \in 1 .. Len(jobs) : InfersRightly(jobs[j][2])
      /\ \A j \in 1 .. Len(asks) : InfersRightly(asks[j][2])
  BY NodeJobs
<1>3. k = Each(Infer, p, jobs, w) /\ a = Each(Infer, p2, asks, k) /\ k \in States /\ a \in States
  BY InferIs, DoneTyped DEF KidsDone, AsksDone
<1>4. flag = "Check" => (JobsTrue(p, jobs, Len(jobs)) <=> KidsFine)
  <2>1. SUFFICES ASSUME flag = "Check" PROVE JobsTrue(p, jobs, Len(jobs)) <=> KidsFine
    OBVIOUS
  <2> DEFINE places == Visited(flag, e)
  <2>2. /\ places \in Seq(DOMAIN Node[e].kids) /\ Len(places) = Len(Node[e].kids)
        /\ \A i \in DOMAIN Node[e].kids : places[i] = i
    BY <2>1, VisitedIs
  <2>3. DOMAIN Node[e].kids = 1 .. Len(Node[e].kids)
    BY NodeShape, SeqIs
  <2>4. jobs = Jobs(m, e, places)
    BY DEF KidJobs
  <2> HIDE DEF places
  <2>5. /\ Len(jobs) = Len(Node[e].kids)
        /\ \A j \in 1 .. Len(Node[e].kids) : jobs[j] = <<Inner(m, e, places[j]), Node[e].kids[places[j]]>>
    BY <2>2, <2>4, JobsTyped
  <2>6. \A j \in 1 .. Len(Node[e].kids) : jobs[j][1] = Inner(m, e, j) /\ jobs[j][2] = Node[e].kids[j]
    BY <2>2, <2>3, <2>5
  <2> HIDE DEF jobs, p, flag
  <2> QED  BY <1>1, <2>3, <2>5, <2>6 DEF JobsTrue
<1> HIDE DEF flag, p, p2, jobs, asks, k, a, KidsFine
<1>5. AllRight(p, jobs, w, Len(jobs), k)
  BY <1>1, <1>2, <1>3, EachRight
<1>6. CASE k.outcome = "ok"
  <2>1. AllRight(p2, asks, k, Len(asks), a)
    <3>1. Good(p2.info, k)
      BY <1>1, <1>5 DEF AllRight
    <3> QED  BY <1>1, <1>2, <1>3, <1>6, <3>1, EachRight
  <2>2. Good(q.info, a) /\ Grows(k, a) /\ a.outcome = "ok"
    BY <1>1, <2>1 DEF AllRight
  <2>3. Grows(w, a)
    BY <1>3, <1>5, <2>2, GrowsTwice DEF AllRight
  <2>4. flag = "Check" => KidsFine
    BY <1>1, <1>4, <1>5, <1>6 DEF AllRight
  <2> QED  BY <2>2, <2>3, <2>4 DEF flag, a, KidsFine
<1>7. CASE k.outcome # "ok"
  <2>1. a = k
    BY <1>1, <1>2, <1>3, <1>7, InferIs, EachStops
  <2>2. flag = "Check" /\ ~KidsFine
    BY <1>1, <1>4, <1>5, <1>7 DEF AllRight
  <2>3. Good(q.info, a) /\ Grows(w, a)
    BY <1>1, <1>5, <2>1 DEF AllRight
  <2> QED  BY <1>7, <2>1, <2>2, <2>3 DEF flag, a, KidsFine
<1> QED  BY <1>6, <1>7

LEMMA NodeRight ==
  ASSUME NEW e \in Exprs, Node[e].op \notin Atoms, NEW q \in Questions, NEW m \in Seq(Domains),
         NEW st \in States, Good(q.info, st), st.outcome = "ok",
         \A k \in Exprs : Height[k] < Height[e] => InfersRightly(k)
  PROVE  Right(q, m, e, st, InferNode(Infer, q, m, e, WithEnv(st, Pruned(m, e))))
<1> DEFINE p == Pruned(m, e)
           w == WithEnv(st, p)
           id == EnvId(w, p)
           a == AsksDone(Infer, q, m, e, w)
           flag == FlagOf(q, e, w)
           fine == WellFormed(q.info, m, e)
           KidsFine == \A i \in DOMAIN Node[e].kids : WellFormed(q.info, Inner(m, e, i), Node[e].kids[i])
<1>1. p \in Environments /\ Meaning(p) \in Seq(Domains) /\ Agree(Meaning(p), m, e)
  BY PrunedIs
<1>2. /\ w \in States /\ w.outcome = "ok" /\ id \in DOMAIN w.envs /\ w.envs[id] = p
      /\ Good(q.info, w) /\ Grows(st, w)
  BY <1>1, WithEnvIs, WithEnvGood
<1>3. /\ q.flag \in {"Check", "InferOnly"} /\ q.info \in Infos
      /\ flag \in {"Check", "InferOnly"} /\ (q.flag = "InferOnly" => flag = "InferOnly")
  BY WithIs, FlagTyped DEF FlagOf
<1>4. WellFormed(q.info, Meaning(p), e) <=> fine
  BY <1>1, <1>3, WellFormedAgrees
<1>5. Node[e].uses = {} => (WellFormed(q.info, <<>>, e) <=> fine)
  <2>1. ASSUME Node[e].uses = {} PROVE Agree(<<>>, m, e)
    BY <2>1 DEF Agree
  <2>2. <<>> \in Seq(Domains)
    OBVIOUS
  <2> QED  BY <1>3, <2>1, <2>2, WellFormedAgrees
<1>6. fine <=> Fits(m, e) /\ KidsFine
  BY <1>3, WellFormedIs
<1>7. a \in States
  BY <1>2, InferIs, DoneTyped
<1>8. /\ Good(q.info, a) /\ Grows(w, a)
      /\ flag = "InferOnly" => a.outcome = "ok"
      /\ flag = "Check" => (a.outcome = "ok" <=> KidsFine)
  BY <1>2, DoneRight
<1>9. Reusable(q, e) => q.flag = "Check" /\ Node[e].uses = {}
  BY DEF Reusable
<1>10. Passed(q, e, w) => fine /\ q.flag = "Check"
  <2>1. ASSUME Passed(q, e, w) PROVE WellFormed(q.info, <<>>, e) /\ Reusable(q, e)
    <3>1. <<e, q.info>> \in w.closed /\ Reusable(q, e)
      BY <2>1 DEF Passed
    <3>2. ClosedTrue(w.closed)
      BY <1>2 DEF Good
    <3>3. WellFormed(<<e, q.info>>[2], <<>>, <<e, q.info>>[1])
      BY <3>1, <3>2 DEF ClosedTrue
    <3> QED  BY <3>1, <3>3
  <2> QED  BY <1>5, <1>9, <2>1
<1>11. flag = "InferOnly" /\ q.flag = "Check" => Passed(q, e, w)
  BY DEF FlagOf
<1>12. InferNode(Infer, q, m, e, w) = IF Hit(q, m, e, w) THEN w ELSE NodeDone(q, m, e, w, a)
  BY InferNodeIs
<1>13. EntryFor(q, m, e, w) = [env |-> id, expr |-> e, result |-> <<e, p>>,
                               under |-> IF q.flag = "Check" THEN q.info ELSE Unchecked]
  BY DEF EntryFor
<1>14. Fails(q, m, e, w, a) <=> a.outcome = "reject" \/ (flag = "Check" /\ ~Fits(m, e))
  BY DEF Fails
<1>15. Hit(q, m, e, w) <=> \E c \in w.types : c.env = id /\ c.expr = e /\ Hits(q, c)
  BY DEF Hit
<1>16. ClosedAfter(q, e, w, a) = a.closed \/ (Reusable(q, e) /\ ClosedAfter(q, e, w, a) = a.closed \cup {<<e, q.info>>})
  BY DEF ClosedAfter
<1>17. TypesAfter(q, m, e, w, a)
         = {c \in a.types : ~(c.env = id /\ c.expr = e)} \cup {EntryFor(q, m, e, w)}
  BY DEF TypesAfter
<1>18. ClosedAfter(q, e, w, a) \in SUBSET (Exprs \X Infos) /\ TypesAfter(q, m, e, w, a) \in SUBSET CachedTypes
  BY <1>2, <1>7, NodeDoneTyped
<1>19. a.outcome \in {"ok", "reject"}
  BY <1>7, StateIs
<1> SUFFICES Right(q, m, e, st, InferNode(Infer, q, m, e, w))
  OBVIOUS
<1> HIDE DEF p, w, id, a, flag, fine, KidsFine
<1>20. CASE Hit(q, m, e, w)
  <2>1. PICK c \in w.types : c.env = id /\ c.expr = e /\ Hits(q, c)
    BY <1>15, <1>20
  <2>2. q.flag = "Check" => fine
    <3>1. SUFFICES ASSUME q.flag = "Check" PROVE fine
      OBVIOUS
    <3>2. c.under = q.info
      BY <2>1, <3>1 DEF Hits
    <3>3. TypesTrue(w.types, w.envs)
      BY <1>2 DEF Good
    <3>4. WellFormed(q.info, Meaning(w.envs[id]), e)
      BY <1>3, <2>1, <3>2, <3>3 DEF TypesTrue
    <3> QED  BY <1>2, <1>4, <3>4
  <2> QED  BY <1>2, <1>12, <1>20, <2>2 DEF Right, fine
<1>21. CASE ~Hit(q, m, e, w) /\ Fails(q, m, e, w, a)
  <2> DEFINE r == [a EXCEPT !.outcome = "reject"]
  <2>1. InferNode(Infer, q, m, e, w) = r
    BY <1>12, <1>21 DEF NodeDone
  <2>2. /\ r \in States /\ r.outcome = "reject" /\ r.envs = a.envs /\ r.types = a.types
        /\ r.closed = a.closed /\ r.leaves = a.leaves /\ r.stamp = a.stamp
    BY <1>7, Rejecting
  <2> HIDE DEF r
  <2>3. Good(q.info, r) /\ Grows(a, r)
    <3>1. Len(a.envs) \in Nat
      BY <1>7, StateIs, SeqIs
    <3> QED  BY <1>8, <2>2, <3>1 DEF Good, Grows
  <2>4. Grows(st, r)
    BY <1>2, <1>7, <1>8, <2>2, <2>3, GrowsTwice
  <2>5. flag = "Check" /\ ~fine
    BY <1>3, <1>6, <1>8, <1>14, <1>19, <1>21
  <2>6. q.flag = "Check"
    BY <1>3, <2>5
  <2> QED  BY <2>1, <2>2, <2>3, <2>4, <2>5, <2>6 DEF Right, fine
<1>22. CASE ~Hit(q, m, e, w) /\ ~Fails(q, m, e, w, a)
  <2> DEFINE c == ClosedAfter(q, e, w, a)
             t == TypesAfter(q, m, e, w, a)
             r == [a EXCEPT !.closed = c, !.types = t]
  <2>1. InferNode(Infer, q, m, e, w) = r
    BY <1>12, <1>22 DEF NodeDone
  <2>2. /\ r \in States /\ r.outcome = a.outcome /\ r.envs = a.envs /\ r.types = t
        /\ r.closed = c /\ r.leaves = a.leaves /\ r.stamp = a.stamp
    <3>1. a \in States /\ c \in SUBSET (Exprs \X Infos) /\ t \in SUBSET CachedTypes
      BY <1>7, <1>18
    <3> HIDE DEF c, t
    <3>2. r = [a EXCEPT !.closed = c, !.types = t]
      OBVIOUS
    <3> HIDE DEF r
    <3>3. Filled(a, c, t, r)
      BY ONLY <3>1, <3>2, Filling
    <3> QED  BY ONLY <3>3 DEF Filled
  <2>3. a.outcome = "ok" /\ (q.flag = "Check" => fine)
    <3>1. a.outcome = "ok" /\ (flag = "Check" => Fits(m, e))
      BY <1>14, <1>19, <1>22
    <3>2. flag = "Check" => fine
      BY <1>6, <1>8, <3>1
    <3>3. flag = "InferOnly" /\ q.flag = "Check" => fine
      BY <1>10, <1>11
    <3> QED  BY <1>3, <3>1, <3>2, <3>3
  <2>4. ClosedTrue(c)
    <3>1. ClosedTrue(a.closed)
      BY <1>8 DEF Good
    <3>2. CASE c = a.closed
      BY <3>1, <3>2
    <3>3. CASE Reusable(q, e) /\ c = a.closed \cup {<<e, q.info>>}
      <4>1. Node[e].uses = {} /\ WellFormed(q.info, <<>>, e)
        BY <1>5, <1>9, <2>3, <3>3
      <4>2. \A x \in c : x \in a.closed \/ x = <<e, q.info>>
        BY <3>3
      <4> HIDE DEF c
      <4> QED  BY <3>1, <4>1, <4>2 DEF ClosedTrue
    <3> QED  BY <1>16, <3>2, <3>3
  <2>5. TypesTrue(t, a.envs)
    <3>1. TypesTrue(a.types, a.envs) /\ id \in DOMAIN a.envs /\ a.envs[id] = p
      BY <1>2, <1>8 DEF Good, Grows
    <3> DEFINE n == EntryFor(q, m, e, w)
    <3>2. n.env = id /\ n.expr = e /\ n.result = <<e, p>> /\ n.under = IF q.flag = "Check" THEN q.info ELSE Unchecked
      BY <1>13
    <3>3. n.under \in Infos => q.flag = "Check" /\ n.under = q.info
      <4>1. Unchecked \notin Infos
        BY ChecksAssumption DEF Infos, NoInfo, Unchecked
      <4> QED  BY <3>2, <4>1
    <3>4. n.under \in Infos => WellFormed(n.under, Meaning(a.envs[n.env]), n.expr)
      BY <1>4, <2>3, <3>1, <3>2, <3>3
    <3> HIDE DEF n
    <3>5. \A x \in t : x \in a.types \/ x = n
      BY <1>17 DEF n
    <3> HIDE DEF t
    <3> QED  BY <3>1, <3>2, <3>4, <3>5 DEF TypesTrue
  <2> HIDE DEF r, c, t
  <2>6. Good(q.info, r) /\ Grows(a, r)
    <3>1. Len(a.envs) \in Nat
      BY <1>7, StateIs, SeqIs
    <3> QED  BY <1>8, <2>2, <2>4, <2>5, <3>1 DEF Good, Grows
  <2>7. Grows(st, r)
    BY <1>2, <1>7, <1>8, <2>2, <2>6, GrowsTwice
  <2> QED  BY <2>1, <2>2, <2>3, <2>6, <2>7 DEF Right, fine
<1> QED  BY <1>20, <1>21, <1>22

\* Inference answers what it would without any table, and keeps the tables true.
LEMMA Inferred ==
  \A e \in Exprs : InfersRightly(e)
<1> DEFINE T == {e \in Exprs : InfersRightly(e)}
<1>1. ASSUME NEW e \in Exprs, \A k \in Exprs : Height[k] < Height[e] => k \in T
      PROVE  e \in T
  <2>1. ASSUME NEW q \in Questions, NEW m \in Seq(Domains), NEW st \in States,
               Good(q.info, st), st.outcome = "ok"
        PROVE  Right(q, m, e, st, Infer[e][<<q, m, st>>])
    <3>1. Infer[e][<<q, m, st>>] = InferAt(Infer, e, q, m, st)
      BY InferIs DEF InferStep
    <3>2. CASE Node[e].op = "var"
      <4>1. InferAt(Infer, e, q, m, st) = st
        BY <3>2 DEF InferAt
      <4>2. Grows(st, st)
        <5>1. Len(st.envs) \in Nat
          BY StateIs, SeqIs
        <5> QED  BY <5>1 DEF Grows
      <4>3. WellFormed(q.info, m, e)
        BY <3>2, WithIs, WellFormedIs
      <4> QED  BY <2>1, <3>1, <4>1, <4>2, <4>3 DEF Right
    <3>3. CASE Node[e].op = "leaf"
      BY <2>1, <3>1, <3>3, LeafRight DEF InferAt
    <3>4. CASE Node[e].op \notin Atoms
      <4>1. InferAt(Infer, e, q, m, st) = InferNode(Infer, q, m, e, WithEnv(st, Pruned(m, e)))
        BY <3>4 DEF InferAt, Atoms
      <4> QED  BY <1>1, <2>1, <3>1, <3>4, <4>1, NodeRight
    <3> QED  BY <3>2, <3>3, <3>4 DEF Atoms
  <2> QED  BY <2>1 DEF InfersRightly
<1>2. \A e \in Exprs : Height[e] \in Nat
  BY NodeShape
<1> HIDE DEF T
<1>3. Exprs \subseteq T
  BY <1>1, <1>2, HeightInduction
<1> QED  BY <1>3 DEF T

-----------------------------------------------------------------------------
(* The checks of a thread.                                                 *)

\* The invariant of the checks.  What EntriesTrue says of the tables is not
\* enough: an entry for no declaration's parameters was checked too, a closed
\* expression is closed, and no leaf has a stamp that is still to come.
ChecksInv ==
  /\ ordered \in BOOLEAN
  /\ envs \in Seq(Environments) /\ type_cache \subseteq CachedTypes
  /\ checked_closed \subseteq Exprs \X Infos
  /\ leaf_checked \in LeafTables /\ leaf_stamp \in 1 .. Stamps - 1
  /\ TypesTrue(type_cache, envs)
  /\ ClosedTrue(checked_closed)
  /\ LeavesTrue(leaf_checked, leaf_stamp, verdict.info)
  /\ AcceptsTruly

\* Under a new stamp no leaf is current, whatever the next declaration is.
LEMMA NextStampTrue ==
  ASSUME NEW leaves \in LeafTables, NEW stamp \in 1 .. Stamps - 1, NEW old,
         LeavesTrue(leaves, stamp, old)
  PROVE  /\ NextStamp(stamp, leaves)[1] \in 1 .. Stamps - 1
         /\ NextStamp(stamp, leaves)[2] \in LeafTables
         /\ \A info : LeavesTrue(NextStamp(stamp, leaves)[2], NextStamp(stamp, leaves)[1], info)
<1>1. Stamps \in Nat /\ Stamps > 1
  BY ChecksAssumption
<1>2. leaves \in [Slots -> (Exprs \cup {NoExpr}) \X Nat]
  BY DEF LeafTables
<1>3. \A s \in Slots : leaves[s][2] <= stamp /\ leaves[s][2] \in Nat
  BY <1>2 DEF LeavesTrue
<1>4. (stamp + 1) % Stamps = IF stamp + 1 = Stamps THEN 0 ELSE stamp + 1
  <2>1. CASE stamp + 1 = Stamps
    BY <1>1, <2>1
  <2>2. CASE stamp + 1 < Stamps
    BY <1>1, <2>2
  <2> QED  BY <1>1, <2>1, <2>2
<1>5. CASE stamp + 1 = Stamps
  <2> DEFINE blank == Refill(leaves)
  <2>1. NextStamp(stamp, leaves) = <<1, blank>>
    BY <1>4, <1>5 DEF NextStamp
  <2>2. blank \in LeafTables /\ \A s \in Slots : blank[s][2] = 0
    BY <1>2 DEF Refill, LeafTables
  <2> HIDE DEF blank
  <2>3. \A info : LeavesTrue(blank, 1, info)
    BY <2>2 DEF LeavesTrue
  <2> QED  BY <1>1, <2>1, <2>2, <2>3
<1>6. CASE stamp + 1 # Stamps
  <2>1. NextStamp(stamp, leaves) = <<stamp + 1, leaves>>
    BY <1>4, <1>6 DEF NextStamp
  <2>2. \A s \in Slots : leaves[s][2] <= stamp + 1 /\ leaves[s][2] # stamp + 1
    BY <1>3
  <2>3. \A info : LeavesTrue(leaves, stamp + 1, info)
    BY <2>2 DEF LeavesTrue
  <2>4. stamp + 1 \in 1 .. Stamps - 1
    BY <1>1, <1>6
  <2> QED  BY <2>1, <2>3, <2>4
<1> QED  BY <1>5, <1>6

LEMMA ChecksInitInv ==
  ASSUME ChecksInit
  PROVE  ChecksInv
<1>1. /\ ordered \in BOOLEAN /\ envs = <<>> /\ type_cache = {} /\ checked_closed = {}
      /\ leaf_checked = [s \in Slots |-> <<NoExpr, 0>>] /\ leaf_stamp = 1
      /\ verdict = NoQuestion
  BY DEF ChecksInit
<1>2. leaf_checked \in LeafTables /\ \A s \in Slots : leaf_checked[s][2] = 0
  BY <1>1 DEF LeafTables
<1>3. leaf_stamp \in 1 .. Stamps - 1
  BY <1>1, ChecksAssumption
<1>4. LeavesTrue(leaf_checked, leaf_stamp, verdict.info)
  BY <1>1, <1>2 DEF LeavesTrue
<1>5. AcceptsTruly
  <2>1. verdict.info = NoInfo /\ verdict.asked = <<>> /\ verdict.accepted = TRUE
    BY <1>1 DEF NoQuestion
  <2>2. Range(verdict.asked) = {}
    BY <2>1 DEF Range
  <2> QED  BY <2>1, <2>2 DEF AcceptsTruly
<1>6. envs \in Seq(Environments) /\ TypesTrue(type_cache, envs) /\ ClosedTrue(checked_closed)
  BY <1>1 DEF TypesTrue, ClosedTrue
<1> QED  BY <1>1, <1>2, <1>3, <1>4, <1>5, <1>6 DEF ChecksInv

\* A question, from tables that are true and a stamp of its own.
LEMMA AskedInv ==
  ASSUME ChecksInv, NEW info \in Infos, NEW es \in Seq(Exprs),
         info # NoInfo => NoDuplicates(info),
         NEW types, types = type_cache \/ types = {},
         NEW stamped, stamped[1] \in 1 .. Stamps - 1, stamped[2] \in LeafTables,
         LeavesTrue(stamped[2], stamped[1], info),
         Asked(info, es, types, stamped), UNCHANGED ordered
  PROVE  ChecksInv'
<1> DEFINE q   == [flag |-> "Check", info |-> info, ordered |-> ordered]
           st  == [outcome |-> "ok", envs |-> envs, types |-> types, closed |-> checked_closed,
                   leaves |-> stamped[2], stamp |-> stamped[1]]
           jobs == Alike(<<>>, es)
           end == Each(Infer, q, jobs, st)
<1>1. q \in Questions /\ q.flag = "Check" /\ q.info = info
  BY DEF Questions, ChecksInv
<1>2. /\ st.outcome = "ok" /\ st.envs = envs /\ st.types = types /\ st.closed = checked_closed
      /\ st.leaves = stamped[2] /\ st.stamp = stamped[1]
  OBVIOUS
<1>3. types \subseteq CachedTypes /\ TypesTrue(types, envs)
  BY DEF ChecksInv, TypesTrue
<1>4. stamped[1] \in Nat /\ stamped[1] > 0
  OBVIOUS
<1>5. st \in States
  BY <1>3, <1>4 DEF States, ChecksInv
<1>6. /\ envs' = end.envs /\ type_cache' = end.types /\ checked_closed' = end.closed
      /\ leaf_checked' = end.leaves /\ leaf_stamp' = end.stamp
      /\ verdict' = [info |-> info, asked |-> es, accepted |-> end.outcome = "ok"]
  BY DEF Asked
<1> HIDE DEF st, q
<1>7. Good(info, st)
  BY <1>2, <1>3, <1>4, <1>5 DEF Good, ChecksInv
<1>8. jobs \in JobLists /\ Len(jobs) = Len(es) /\ \A j \in 1 .. Len(es) : jobs[j] = <<<<>>, es[j]>>
  <2>1. <<>> \in Seq(Domains)
    OBVIOUS
  <2> QED  BY <2>1, AlikeTyped
<1>9. Len(es) \in Nat /\ DOMAIN es = 1 .. Len(es) /\ \A j \in 1 .. Len(es) : es[j] \in Exprs
  BY SeqIs
<1> HIDE DEF jobs
<1>10. \A j \in 1 .. Len(jobs) : InfersRightly(jobs[j][2])
  BY <1>8, <1>9, Inferred
<1>11. AllRight(q, jobs, st, Len(jobs), end)
  BY <1>1, <1>2, <1>5, <1>7, <1>8, <1>10, EachRight
<1> HIDE DEF end
<1>12. Good(info, end) /\ Grows(st, end) /\ (end.outcome = "ok" <=> JobsTrue(q, jobs, Len(jobs)))
  BY <1>1, <1>11 DEF AllRight
<1>13. end.outcome = "ok" <=> \A e \in Range(es) : WellFormed(info, <<>>, e)
  <2>1. JobsTrue(q, jobs, Len(jobs)) <=> \A j \in 1 .. Len(es) : WellFormed(info, <<>>, es[j])
    BY <1>1, <1>8 DEF JobsTrue
  <2>2. Range(es) = {es[j] : j \in 1 .. Len(es)}
    BY <1>9 DEF Range
  <2> QED  BY <1>12, <2>1, <2>2
<1>14. verdict'.info = info /\ verdict'.asked = es /\ verdict'.accepted = (end.outcome = "ok")
  BY <1>6
<1>15. AcceptsTruly'
  <2>1. AcceptsTruly' = (verdict'.accepted <=>
          /\ verdict'.info # NoInfo => NoDuplicates(verdict'.info)
          /\ \A e \in Range(verdict'.asked) : WellFormed(verdict'.info, <<>>, e))
    BY DEF AcceptsTruly
  <2> QED  BY <1>13, <1>14, <2>1
<1>16. /\ end.envs \in Seq(Environments) /\ end.types \subseteq CachedTypes
       /\ end.closed \subseteq Exprs \X Infos /\ end.leaves \in LeafTables
       /\ end.stamp = stamped[1]
       /\ TypesTrue(end.types, end.envs) /\ ClosedTrue(end.closed)
       /\ LeavesTrue(end.leaves, end.stamp, info)
  BY <1>2, <1>12, StateIs DEF Good, Grows
<1>17. TypesTrue(type_cache, envs)' /\ ClosedTrue(checked_closed)'
  BY <1>6, <1>16 DEF TypesTrue, ClosedTrue
<1>18. LeavesTrue(leaf_checked, leaf_stamp, verdict.info)'
  BY <1>6, <1>14, <1>16 DEF LeavesTrue
<1> QED  BY <1>6, <1>15, <1>16, <1>17, <1>18 DEF ChecksInv

\* Parameters that are refused: only the stamp moves.
LEMMA RefusedInv ==
  ASSUME ChecksInv, NEW info \in DOMAIN Params, NEW es, ~NoDuplicates(info),
         NEW types, types = type_cache \/ types = {},
         Refused(info, es, types), UNCHANGED ordered
  PROVE  ChecksInv'
<1> DEFINE stamped == NextStamp(leaf_stamp, leaf_checked)
<1>1. /\ leaf_stamp' = stamped[1] /\ leaf_checked' = stamped[2] /\ type_cache' = types
      /\ verdict' = [info |-> info, asked |-> es, accepted |-> FALSE]
      /\ envs' = envs /\ checked_closed' = checked_closed
  BY DEF Refused
<1>2. stamped[1] \in 1 .. Stamps - 1 /\ stamped[2] \in LeafTables
      /\ \A i : LeavesTrue(stamped[2], stamped[1], i)
  BY NextStampTrue DEF ChecksInv
<1> HIDE DEF stamped
<1>3. verdict'.info = info /\ verdict'.accepted = FALSE
  BY <1>1
<1>4. AcceptsTruly'
  <2>1. info # NoInfo
    BY ChecksAssumption
  <2> QED  BY <1>3, <2>1 DEF AcceptsTruly
<1>5. TypesTrue(type_cache, envs)' /\ ClosedTrue(checked_closed)' /\ type_cache' \subseteq CachedTypes
  BY <1>1 DEF ChecksInv, TypesTrue, ClosedTrue
<1>6. LeavesTrue(leaf_checked, leaf_stamp, verdict.info)'
  BY <1>1, <1>2 DEF LeavesTrue
<1> QED  BY <1>1, <1>2, <1>4, <1>5, <1>6 DEF ChecksInv

LEMMA ChecksNextInv ==
  ASSUME ChecksInv, ChecksNext
  PROVE  ChecksInv'
<1> DEFINE stamped == NextStamp(leaf_stamp, leaf_checked)
<1>1. PICK d \in Decls : CheckDeclar(d) \/ CheckHeader(d) \/ CheckRule(d)
  BY DEF ChecksNext
<1>2. d.uparams \in DOMAIN Params /\ d.parts \in Seq(Exprs) /\ d.parts # <<>>
  BY ChecksAssumption
<1>3. d.uparams \in Infos /\ NoInfo \in Infos /\ <<Head(d.parts)>> \in Seq(Exprs)
  BY <1>2 DEF Infos
<1>4. stamped[1] \in 1 .. Stamps - 1 /\ stamped[2] \in LeafTables
      /\ \A i : LeavesTrue(stamped[2], stamped[1], i)
  BY NextStampTrue DEF ChecksInv
<1>5. CASE CheckDeclar(d)
  <2>1. CASE NoDuplicates(d.uparams)
    <3>1. Asked(d.uparams, d.parts, type_cache, stamped) /\ UNCHANGED ordered
      BY <1>5, <2>1 DEF CheckDeclar
    <3> HIDE DEF stamped
    <3> QED  BY <1>2, <1>3, <1>4, <2>1, <3>1, AskedInv
  <2>2. CASE ~NoDuplicates(d.uparams)
    <3>1. Refused(d.uparams, d.parts, type_cache) /\ UNCHANGED ordered
      BY <1>5, <2>2 DEF CheckDeclar
    <3> QED  BY <1>2, <2>2, <3>1, RefusedInv
  <2> QED  BY <2>1, <2>2
<1>6. CASE CheckHeader(d)
  <2>1. CASE NoDuplicates(d.uparams)
    <3>1. Asked(d.uparams, <<Head(d.parts)>>, {}, stamped) /\ UNCHANGED ordered
      BY <1>6, <2>1 DEF CheckHeader
    <3> HIDE DEF stamped
    <3> QED  BY <1>3, <1>4, <2>1, <3>1, AskedInv
  <2>2. CASE ~NoDuplicates(d.uparams)
    <3>1. Refused(d.uparams, <<Head(d.parts)>>, {}) /\ UNCHANGED ordered
      BY <1>6, <2>2 DEF CheckHeader
    <3> QED  BY <1>2, <2>2, <3>1, RefusedInv
  <2> QED  BY <2>1, <2>2
<1>7. CASE CheckRule(d)
  <2> DEFINE same == <<leaf_stamp, leaf_checked>>
  <2>1. Asked(NoInfo, d.parts, {}, same) /\ UNCHANGED ordered
    BY <1>7 DEF CheckRule
  <2>2. NoInfo \notin DOMAIN Params
    BY ChecksAssumption
  <2>3. same[1] \in 1 .. Stamps - 1 /\ same[2] \in LeafTables /\ LeavesTrue(same[2], same[1], NoInfo)
    BY <2>2 DEF ChecksInv, LeavesTrue
  <2> HIDE DEF same
  <2> QED  BY <1>2, <1>3, <2>1, <2>3, AskedInv
<1> QED  BY <1>1, <1>5, <1>6, <1>7

\* Types may be forgotten, and environments with them.
LEMMA ForgettingInv ==
  ASSUME ChecksInv, type_cache' = {}, envs' = envs \/ envs' = <<>>,
         UNCHANGED <<ordered, checked_closed, leaf_checked, leaf_stamp, verdict>>
  PROVE  ChecksInv'
<1>0. <<>> \in Seq(Environments)
  OBVIOUS
<1>1. TypesTrue(type_cache, envs)' /\ envs' \in Seq(Environments)
  BY <1>0 DEF TypesTrue, ChecksInv
<1>2. AcceptsTruly' /\ ClosedTrue(checked_closed)' /\ LeavesTrue(leaf_checked, leaf_stamp, verdict.info)'
  BY DEF AcceptsTruly, ChecksInv, ClosedTrue, LeavesTrue
<1> QED  BY <1>1, <1>2 DEF ChecksInv

-----------------------------------------------------------------------------
(* The values of a thread.                                                 *)

\* The invariant of the values: the ids and what is kept by them, and the entries of
\* the store, which tell for some value what it is forced to.
Nodes == nodes \in Seq([is : Values, whnf : Nat])

Memos ==
  \A i \in Ids : nodes[i].whnf # 0 =>
    nodes[i].whnf \in Ids /\ nodes[nodes[i].whnf].is = Value[nodes[i].is].whnf

Keys == \A i \in DOMAIN global_keys : i \in Ids /\ global_keys[i] = Value[nodes[i].is].full

Held == placeholder # 0 => placeholder \in Ids /\ nodes[placeholder].is = Sort0

Entries ==
  \A k \in DOMAIN whnf_store : \E v \in Values :
    whnf_store[k].source = Value[v].source /\ whnf_store[k].result = Value[Value[v].whnf].source

Answered == answer[1] \in Values /\ answer[2] = Value[answer[1]].whnf

StoreInv == Nodes /\ Memos /\ Keys /\ Held /\ Entries /\ Answered

-----------------------------------------------------------------------------
(* Ids, and what is remembered of a value.                                 *)

\* An id once given stands, and names its value.
LEMMA InternedKeeps ==
  ASSUME NEW ns \in Seq([is : Values, whnf : Nat]), NEW v \in Values
  PROVE  /\ Interned(ns, v) \in Seq([is : Values, whnf : Nat])
         /\ Len(ns) <= Len(Interned(ns, v))
         /\ \A i \in DOMAIN ns : i \in DOMAIN Interned(ns, v) /\ Interned(ns, v)[i] = ns[i]
         /\ \A i \in DOMAIN Interned(ns, v) : i \notin DOMAIN ns => Interned(ns, v)[i].whnf = 0
         /\ Known(Interned(ns, v), v)
<1>1. CASE Known(ns, v)
  BY <1>1 DEF Interned
<1>2. CASE ~Known(ns, v)
  <2> DEFINE n == [is |-> v, whnf |-> 0]
             ms == Append(ns, n)
  <2>1. Interned(ns, v) = ms
    BY <1>2 DEF Interned
  <2>2. n \in [is : Values, whnf : Nat] /\ n.is = v /\ n.whnf = 0
    OBVIOUS
  <2> HIDE DEF n
  <2>3. /\ ms \in Seq([is : Values, whnf : Nat]) /\ Len(ms) = Len(ns) + 1
        /\ \A i \in 1 .. Len(ns) : ms[i] = ns[i]
        /\ ms[Len(ns) + 1] = n
        /\ DOMAIN ns = 1 .. Len(ns) /\ DOMAIN ms = 1 .. Len(ns) + 1 /\ Len(ns) \in Nat
    BY <2>2
  <2> HIDE DEF ms
  <2>4. Known(ms, v)
    BY <2>2, <2>3 DEF Known
  <2>5. \A i \in DOMAIN ms : i \notin DOMAIN ns => ms[i].whnf = 0
    BY <2>2, <2>3
  <2> QED  BY <2>1, <2>3, <2>4, <2>5
<1> QED  BY <1>1, <1>2

LEMMA IdNames ==
  ASSUME NEW ns \in Seq([is : Values, whnf : Nat]), NEW v \in Values, Known(ns, v)
  PROVE  IdIn(ns, v) \in DOMAIN ns /\ ns[IdIn(ns, v)].is = v /\ IdIn(ns, v) # 0
<1>1. IdIn(ns, v) \in DOMAIN ns /\ ns[IdIn(ns, v)].is = v
  BY DEF Known, IdIn
<1> QED  BY <1>1

LEMMA KeyRight ==
  ASSUME StoreInv, NEW v \in Values
  PROVE  FullKey(v) = Value[v].full
BY IdNames DEF StoreInv, Nodes, Keys, FullKey

\* What the value forced is remembered as.
LEMMA RememberRight ==
  ASSUME StoreInv, NEW v \in Values, NEW keyed, Remember(v, Value[v].whnf, keyed), placeholder' = placeholder
  PROVE  Nodes' /\ Memos' /\ Keys' /\ Held'
<1> DEFINE w  == Value[v].whnf
           one == Interned(nodes, v)
           ns == Interned(one, w)
           id == IdIn(ns, v)
           to == IdIn(ns, w)
<1>1. w \in Values
  BY StoreAssumption
<1>2. nodes \in Seq([is : Values, whnf : Nat])
  BY DEF StoreInv, Nodes
<1>3. /\ one \in Seq([is : Values, whnf : Nat])
      /\ \A i \in DOMAIN nodes : i \in DOMAIN one /\ one[i] = nodes[i]
      /\ \A i \in DOMAIN one : i \notin DOMAIN nodes => one[i].whnf = 0
      /\ Known(one, v)
  BY <1>2, InternedKeeps
<1>4. nodes' = [ns EXCEPT ![id].whnf = to]
  BY DEF Remember
<1>5. DOMAIN global_keys' \subseteq DOMAIN global_keys \cup {id}
      /\ \A i \in DOMAIN global_keys' :
           global_keys'[i] = (IF i = id /\ keyed THEN FullKey(v) ELSE global_keys[i])
      /\ (id \in DOMAIN global_keys' => keyed \/ id \in DOMAIN global_keys)
  BY DEF Remember
<1> HIDE DEF one
<1>6. /\ ns \in Seq([is : Values, whnf : Nat])
      /\ \A i \in DOMAIN one : i \in DOMAIN ns /\ ns[i] = one[i]
      /\ \A i \in DOMAIN ns : i \notin DOMAIN one => ns[i].whnf = 0
      /\ Known(ns, w)
  BY <1>1, <1>3, InternedKeeps
<1> HIDE DEF ns, w
<1>7. Known(ns, v)
  <2>1. PICK i \in DOMAIN one : one[i].is = v
    BY <1>3 DEF Known
  <2> QED  BY <1>6, <2>1 DEF Known
<1>8. /\ id \in DOMAIN ns /\ ns[id].is = v /\ id # 0
      /\ to \in DOMAIN ns /\ ns[to].is = w /\ to # 0 /\ to \in Nat
  <2>1. id \in DOMAIN ns /\ ns[id].is = v /\ id # 0
    BY <1>6, <1>7, IdNames
  <2>2. to \in DOMAIN ns /\ ns[to].is = w /\ to # 0
    BY <1>1, <1>6, IdNames
  <2>3. DOMAIN ns \subseteq Nat
    BY <1>6
  <2> QED  BY <2>1, <2>2, <2>3
<1>9. /\ nodes' \in Seq([is : Values, whnf : Nat]) /\ DOMAIN nodes' = DOMAIN ns
      /\ \A i \in DOMAIN ns : /\ nodes'[i].is = ns[i].is
                              /\ nodes'[i].whnf = IF i = id THEN to ELSE ns[i].whnf
  <2> DEFINE n == [ns[id] EXCEPT !.whnf = to]
  <2>1. nodes' = [ns EXCEPT ![id] = n]
    BY <1>4
  <2>2. ns[id] \in [is : Values, whnf : Nat]
    BY <1>6, <1>8, SeqIs
  <2>3. n \in [is : Values, whnf : Nat] /\ n.is = ns[id].is /\ n.whnf = to
    BY <1>8, <2>2
  <2> HIDE DEF n, id, to
  <2>4. /\ DOMAIN nodes' = DOMAIN ns /\ nodes' = [i \in DOMAIN ns |-> nodes'[i]]
        /\ \A i \in DOMAIN ns : nodes'[i] = IF i = id THEN n ELSE ns[i]
    BY <2>1
  <2>5. /\ Len(ns) \in Nat /\ DOMAIN ns = 1 .. Len(ns)
        /\ \A i \in DOMAIN ns : ns[i] \in [is : Values, whnf : Nat]
    BY <1>6, SeqIs
  <2>6. \A i \in 1 .. Len(ns) : nodes'[i] \in [is : Values, whnf : Nat]
    BY <2>3, <2>4, <2>5
  <2>7. nodes' = [i \in 1 .. Len(ns) |-> nodes'[i]]
    BY <2>4, <2>5
  <2>8. nodes' \in Seq([is : Values, whnf : Nat])
    BY <2>5, <2>6, <2>7, IsSeq
  <2> QED  BY <2>3, <2>4, <2>8
<1>10. \A i \in DOMAIN nodes : i \in DOMAIN ns /\ ns[i] = nodes[i]
  BY <1>3, <1>6
<1>11. ASSUME NEW i \in DOMAIN ns, ns[i].whnf # 0 PROVE i \in DOMAIN nodes /\ ns[i] = nodes[i]
  BY <1>3, <1>6, <1>11
<1>12. Nodes'
  BY <1>9 DEF Nodes
<1>13. Memos'
  <2>1. ASSUME NEW i \in DOMAIN nodes', nodes'[i].whnf # 0
        PROVE  nodes'[i].whnf \in DOMAIN nodes' /\ nodes'[nodes'[i].whnf].is = Value[nodes'[i].is].whnf
    <3>1. CASE i = id
      BY <1>8, <1>9, <3>1 DEF w
    <3>2. CASE i # id
      <4>1. i \in DOMAIN nodes /\ ns[i] = nodes[i] /\ nodes[i].whnf # 0 /\ nodes'[i].whnf = nodes[i].whnf
        BY <1>9, <1>11, <2>1, <3>2
      <4>2. nodes[i].whnf \in DOMAIN nodes /\ nodes[nodes[i].whnf].is = Value[nodes[i].is].whnf
        BY <4>1 DEF StoreInv, Memos, Ids
      <4> QED  BY <1>9, <1>10, <4>1, <4>2
    <3> QED  BY <3>1, <3>2
  <2> QED  BY <2>1 DEF Memos, Ids
<1>14. Keys'
  <2>1. ASSUME NEW i \in DOMAIN global_keys'
        PROVE  i \in DOMAIN nodes' /\ global_keys'[i] = Value[nodes'[i].is].full
    <3>1. CASE i = id /\ keyed
      BY <1>5, <1>8, <1>9, <3>1, KeyRight
    <3>2. CASE ~(i = id /\ keyed)
      <4>1. i \in DOMAIN global_keys /\ global_keys'[i] = global_keys[i]
        BY <1>5, <2>1, <3>2
      <4>2. i \in DOMAIN nodes /\ global_keys[i] = Value[nodes[i].is].full
        BY <4>1 DEF StoreInv, Keys, Ids
      <4> QED  BY <1>9, <1>10, <4>1, <4>2
    <3> QED  BY <3>1, <3>2
  <2> QED  BY <2>1 DEF Keys, Ids
<1>15. Held'
  BY <1>9, <1>10 DEF StoreInv, Held, Ids
<1> QED  BY <1>12, <1>13, <1>14, <1>15

LEMMA StoreInitInv ==
  ASSUME StoreInit
  PROVE  StoreInv
<1>1. nodes = <<>> /\ global_keys = <<>> /\ whnf_store = <<>> /\ placeholder = 0 /\ answer = <<Sort0, Sort0>>
  BY DEF StoreInit
<1>2. <<>> \in Seq([is : Values, whnf : Nat]) /\ DOMAIN <<>> = {}
  OBVIOUS
<1>3. Answered
  BY <1>1, StoreAssumption DEF Answered
<1> QED  BY <1>1, <1>2, <1>3 DEF StoreInv, Nodes, Memos, Keys, Held, Entries, Ids

LEMMA ForceMemoInv ==
  ASSUME StoreInv, NEW v \in Values, ForceMemo(v)
  PROVE  StoreInv'
<1> DEFINE id == IdIn(nodes, v)
<1>1. nodes \in Seq([is : Values, whnf : Nat]) /\ Known(nodes, v)
  BY DEF StoreInv, Nodes, ForceMemo
<1>2. id \in DOMAIN nodes /\ nodes[id].is = v
  BY <1>1, IdNames
<1>3. nodes[id].whnf # 0 /\ answer' = <<v, nodes[nodes[id].whnf].is>>
  BY DEF ForceMemo
<1> HIDE DEF id
<1>4. nodes[nodes[id].whnf].is = Value[v].whnf
  BY <1>2, <1>3 DEF StoreInv, Memos, Ids
<1>5. Answered'
  BY <1>3, <1>4 DEF Answered
<1>6. UNCHANGED <<nodes, placeholder, global_keys, whnf_store>>
  BY DEF ForceMemo
<1> QED  BY <1>5, <1>6 DEF StoreInv, Nodes, Memos, Keys, Held, Entries, Ids

\* A hit of the store is the value's own.
LEMMA FoundRight ==
  ASSUME StoreInv, NEW v \in Values, Found(v)
  PROVE  Evaluated(whnf_store[Value[v].digest].result) = Value[v].whnf
<1> DEFINE k == Value[v].digest
<1>1. k \in DOMAIN whnf_store /\ whnf_store[k].source = Value[v].source
  BY DEF Found, Matches
<1>2. PICK u \in Values : /\ whnf_store[k].source = Value[u].source
                          /\ whnf_store[k].result = Value[Value[u].whnf].source
  BY <1>1 DEF StoreInv, Entries
<1>3. u = v
  BY <1>1, <1>2, StoreAssumption
<1>4. Value[v].whnf \in Values
  BY StoreAssumption
<1>5. Evaluated(whnf_store[k].result) \in Values
      /\ Value[Evaluated(whnf_store[k].result)].source = Value[Value[v].whnf].source
  BY <1>2, <1>3, <1>4 DEF Evaluated
<1> QED  BY <1>4, <1>5, StoreAssumption

LEMMA ForceStoredInv ==
  ASSUME StoreInv, NEW v \in Values, ForceStored(v)
  PROVE  StoreInv'
<1>1. /\ Found(v) /\ answer' = <<v, Evaluated(whnf_store[Value[v].digest].result)>>
      /\ Remember(v, Evaluated(whnf_store[Value[v].digest].result), TRUE)
      /\ UNCHANGED <<placeholder, whnf_store>>
  BY DEF ForceStored
<1>2. answer' = <<v, Value[v].whnf>> /\ Remember(v, Value[v].whnf, TRUE)
  BY <1>1, FoundRight
<1>3. Nodes' /\ Memos' /\ Keys' /\ Held'
  BY <1>1, <1>2, RememberRight
<1>4. Answered'
  BY <1>2 DEF Answered
<1>5. Entries'
  BY <1>1 DEF StoreInv, Entries
<1> QED  BY <1>3, <1>4, <1>5 DEF StoreInv

LEMMA ForceWorkInv ==
  ASSUME StoreInv, NEW v \in Values, ForceWork(v)
  PROVE  StoreInv'
<1> DEFINE keyed == Value[v].closed /\ v # Value[v].whnf /\ ~Young(v)
<1>1. /\ answer' = <<v, Value[v].whnf>> /\ Note(v, Value[v].whnf)
      /\ Remember(v, Value[v].whnf, keyed) /\ placeholder' = placeholder
  BY DEF ForceWork
<1> HIDE DEF keyed
<1>2. Nodes' /\ Memos' /\ Keys' /\ Held'
  BY <1>1, RememberRight
<1>3. Answered'
  BY <1>1 DEF Answered
<1>4. Entries'
  <2> DEFINE k == Value[v].digest
             stored == [full |-> FullKey(v), source |-> Value[v].source, result |-> Value[Value[v].whnf].source]
  <2>1. \/ whnf_store' = whnf_store
        \/ whnf_store' = [d \in DOMAIN whnf_store \cup {k} |-> IF d = k THEN stored ELSE whnf_store[d]]
    BY <1>1 DEF Note
  <2>2. stored.source = Value[v].source /\ stored.result = Value[Value[v].whnf].source
    OBVIOUS
  <2> HIDE DEF stored, k
  <2>3. ASSUME NEW d \in DOMAIN whnf_store'
        PROVE  \E u \in Values : /\ whnf_store'[d].source = Value[u].source
                                 /\ whnf_store'[d].result = Value[Value[u].whnf].source
    <3>1. CASE whnf_store'[d] = stored
      BY <2>2, <3>1
    <3>2. CASE d \in DOMAIN whnf_store /\ whnf_store'[d] = whnf_store[d]
      BY <3>2 DEF StoreInv, Entries
    <3> QED  BY <2>1, <2>3, <3>1, <3>2
  <2> QED  BY <2>3 DEF Entries
<1> QED  BY <1>2, <1>3, <1>4 DEF StoreInv

LEMMA PlaceholderInv ==
  ASSUME StoreInv, Placeholder
  PROVE  StoreInv'
<1>0. /\ UNCHANGED <<global_keys, whnf_store>> /\ answer' = <<Sort0, nodes'[placeholder'].is>>
      /\ Sort0 \in Values /\ Value[Sort0].whnf = Sort0
      /\ nodes \in Seq([is : Values, whnf : Nat])
  BY StoreAssumption DEF Placeholder, StoreInv, Nodes
<1>1. CASE placeholder # 0
  <2>1. UNCHANGED <<nodes, placeholder>>
    BY <1>1 DEF Placeholder
  <2>2. nodes[placeholder].is = Sort0
    BY <1>1 DEF StoreInv, Held
  <2>3. Answered'
    BY <1>0, <2>1, <2>2 DEF Answered
  <2> QED  BY <1>0, <2>1, <2>3 DEF StoreInv, Nodes, Memos, Keys, Held, Entries, Ids
<1>2. CASE placeholder = 0
  <2>1. nodes' = Interned(nodes, Sort0) /\ placeholder' = IdIn(nodes', Sort0)
    BY <1>2 DEF Placeholder
  <2>2. /\ nodes' \in Seq([is : Values, whnf : Nat])
        /\ \A i \in DOMAIN nodes : i \in DOMAIN nodes' /\ nodes'[i] = nodes[i]
        /\ \A i \in DOMAIN nodes' : i \notin DOMAIN nodes => nodes'[i].whnf = 0
        /\ Known(nodes', Sort0)
    BY <1>0, <2>1, InternedKeeps
  <2>3. placeholder' \in DOMAIN nodes' /\ nodes'[placeholder'].is = Sort0
    BY <1>0, <2>1, <2>2, IdNames
  <2>4. Answered'
    BY <1>0, <2>3 DEF Answered
  <2>5. Memos'
    <3>1. ASSUME NEW i \in DOMAIN nodes', nodes'[i].whnf # 0
          PROVE  nodes'[i].whnf \in DOMAIN nodes' /\ nodes'[nodes'[i].whnf].is = Value[nodes'[i].is].whnf
      <4>1. i \in DOMAIN nodes /\ nodes'[i] = nodes[i]
        BY <2>2, <3>1
      <4>2. nodes[i].whnf \in DOMAIN nodes /\ nodes[nodes[i].whnf].is = Value[nodes[i].is].whnf
        BY <3>1, <4>1 DEF StoreInv, Memos, Ids
      <4> QED  BY <2>2, <4>1, <4>2
    <3> QED  BY <3>1 DEF Memos, Ids
  <2>6. Keys'
    BY <1>0, <2>2 DEF StoreInv, Keys, Ids
  <2> QED  BY <1>0, <2>2, <2>3, <2>4, <2>5, <2>6 DEF StoreInv, Nodes, Held, Entries, Ids
<1> QED  BY <1>1, <1>2

LEMMA ClearInv ==
  ASSUME StoreInv, Clear
  PROVE  StoreInv'
<1>1. /\ nodes' = [i \in DOMAIN nodes |-> [nodes[i] EXCEPT !.whnf = 0]]
      /\ global_keys' = <<>> /\ UNCHANGED <<placeholder, whnf_store, answer>>
  BY DEF Clear, Ids
<1>2. nodes \in Seq([is : Values, whnf : Nat])
  BY DEF StoreInv, Nodes
<1>3. /\ nodes' \in Seq([is : Values, whnf : Nat]) /\ DOMAIN nodes' = DOMAIN nodes
      /\ \A i \in DOMAIN nodes : nodes'[i].is = nodes[i].is /\ nodes'[i].whnf = 0
  <2>1. Len(nodes) \in Nat /\ DOMAIN nodes = 1 .. Len(nodes)
        /\ \A i \in DOMAIN nodes : nodes[i] \in [is : Values, whnf : Nat]
    BY <1>2, SeqIs
  <2>2. ASSUME NEW i \in DOMAIN nodes
        PROVE  /\ [nodes[i] EXCEPT !.whnf = 0] \in [is : Values, whnf : Nat]
               /\ [nodes[i] EXCEPT !.whnf = 0].is = nodes[i].is
               /\ [nodes[i] EXCEPT !.whnf = 0].whnf = 0
    BY <2>1
  <2>3. DOMAIN nodes' = 1 .. Len(nodes) /\ \A i \in 1 .. Len(nodes) : nodes'[i] = [nodes[i] EXCEPT !.whnf = 0]
    BY <1>1, <2>1
  <2>4. nodes' = [i \in 1 .. Len(nodes) |-> nodes'[i]]
    BY <1>1, <2>1
  <2>5. \A i \in 1 .. Len(nodes) : nodes'[i] \in [is : Values, whnf : Nat]
    BY <2>1, <2>2, <2>3
  <2>6. nodes' \in Seq([is : Values, whnf : Nat])
    BY <2>1, <2>4, <2>5, IsSeq
  <2> QED  BY <2>1, <2>2, <2>3, <2>6
<1>4. DOMAIN global_keys' = {}
  BY <1>1
<1> QED  BY <1>1, <1>3, <1>4 DEF StoreInv, Nodes, Memos, Keys, Held, Entries, Answered, Ids

LEMMA ForgetValuesInv ==
  ASSUME StoreInv, ForgetValues
  PROVE  StoreInv'
<1>1. /\ nodes' = <<>> /\ global_keys' = <<>> /\ placeholder' = 0 /\ UNCHANGED <<whnf_store, answer>>
  BY DEF ForgetValues, NoPlaceholder
<1>2. nodes' \in Seq([is : Values, whnf : Nat]) /\ DOMAIN nodes' = {} /\ DOMAIN global_keys' = {}
  BY <1>1
<1>3. Entries' /\ Answered'
  BY <1>1 DEF StoreInv, Entries, Answered
<1>4. Nodes'
  BY <1>2 DEF Nodes
<1>5. Memos' /\ Keys' /\ Held'
  BY <1>1, <1>2 DEF Memos, Keys, Held, Ids
<1> QED  BY <1>3, <1>4, <1>5 DEF StoreInv

StoreStep == ForceAny \/ Clear \/ ForgetValues \/ UNCHANGED storeVars

LEMMA StoreStepInv ==
  ASSUME StoreInv, StoreStep
  PROVE  StoreInv'
<1>1. CASE UNCHANGED storeVars
  BY <1>1 DEF storeVars, StoreInv, Nodes, Memos, Keys, Held, Entries, Answered, Ids
<1> QED  BY <1>1, ForceMemoInv, ForceStoredInv, ForceWorkInv, PlaceholderInv, ClearInv, ForgetValuesInv
         DEF StoreStep, ForceAny, ForceValue

-----------------------------------------------------------------------------
(* The theorems.                                                           *)

\* Every step of the thread is one of the values, or leaves them as they are.
LEMMA ThreadStep ==
  ASSUME [Next]_vars
  PROVE  /\ StoreStep
         /\ \/ ChecksNext
            \/ UNCHANGED checkVars
            \/ /\ type_cache' = {} /\ (envs' = envs \/ envs' = <<>>)
               /\ UNCHANGED <<ordered, checked_closed, leaf_checked, leaf_stamp, verdict>>
<1>1. CASE CheckOne
  BY <1>1 DEF CheckOne, StoreStep
<1>2. CASE ForceOne
  BY <1>2 DEF ForceOne, StoreStep
<1>3. CASE ClearCaches
  BY <1>3 DEF ClearCaches, StoreStep
<1>4. CASE ClearSession
  BY <1>4 DEF ClearSession, StoreStep, ForgetTypeChecks, ForgetTypes
<1>5. CASE UNCHANGED vars
  BY <1>5 DEF vars, StoreStep
<1> QED  BY <1>1, <1>2, <1>3, <1>4, <1>5 DEF Next

LEMMA ChecksStepInv ==
  ASSUME ChecksInv, [Next]_vars
  PROVE  ChecksInv'
<1>1. CASE UNCHANGED checkVars
  <2>1. UNCHANGED <<ordered, envs, type_cache, checked_closed, leaf_checked, leaf_stamp, verdict>>
    BY <1>1 DEF checkVars
  <2>2. AcceptsTruly' /\ TypesTrue(type_cache, envs)' /\ ClosedTrue(checked_closed)'
        /\ LeavesTrue(leaf_checked, leaf_stamp, verdict.info)'
    BY <2>1 DEF ChecksInv, AcceptsTruly, TypesTrue, ClosedTrue, LeavesTrue
  <2> QED  BY <2>1, <2>2 DEF ChecksInv
<1> QED  BY <1>1, ThreadStep, ChecksNextInv, ForgettingInv

\* What the thread's tables hold is true, in whatever order it checks
\* declarations, forces values and ends sessions.
THEOREM Invariance == Spec => [](ChecksInv /\ StoreInv)
<1>1. Init => ChecksInv /\ StoreInv
  BY ChecksInitInv, StoreInitInv DEF Init
<1>2. ChecksInv /\ StoreInv /\ [Next]_vars => ChecksInv' /\ StoreInv'
  BY ThreadStep, ChecksStepInv, StoreStepInv
<1> QED  BY <1>1, <1>2, PTL DEF Spec

(* A declaration is accepted exactly when every part of it is well formed
   under its own universe parameters: no cached type, no closed expression, no
   leaf checked for another declaration or before the stamp wrapped round, and
   no order of declarations changes a verdict (infer_value, next_declaration,
   check_inductive_declar, run_session_inner). *)
THEOREM VerdictsTrue == Spec => []AcceptsTruly
<1>1. ChecksInv => AcceptsTruly
  BY DEF ChecksInv
<1> QED  BY <1>1, Invariance, PTL

(* Every entry says what its readers take from it: the type cache of the
   environments its ids name now, and under the parameters it was checked with;
   checked_closed for as long as the thread lives; the leaf table under the
   stamp of the present declaration (clear_session, insert_checked_leaf). *)
THEOREM TablesTrue == Spec => []EntriesTrue
<1>1. ASSUME ChecksInv PROVE EntriesTrue
  <2>1. DOMAIN Params \subseteq Infos
    BY DEF Infos
  <2>2. \A c \in type_cache : /\ c.env \in DOMAIN envs /\ c.result = <<c.expr, envs[c.env]>>
                              /\ c.under \in DOMAIN Params => WellFormed(c.under, Meaning(envs[c.env]), c.expr)
    BY <1>1, <2>1 DEF ChecksInv, TypesTrue
  <2>3. \A x \in checked_closed : WellFormed(x[2], <<>>, x[1])
    BY <1>1 DEF ChecksInv, ClosedTrue
  <2>4. \A s \in Slots : leaf_checked[s][2] = leaf_stamp /\ verdict.info \in DOMAIN Params =>
          Node[leaf_checked[s][1]].params \subseteq Range(Params[verdict.info])
    BY <1>1 DEF ChecksInv, LeavesTrue
  <2> QED  BY <2>2, <2>3, <2>4 DEF EntriesTrue
<1> QED  BY <1>1, Invariance, PTL

(* A value is forced to its own weak head normal form, by its memo, by the
   store or by work, whoever shares its digest, its filter bits, its slot of
   the admission counts or its full key (force_all, store_lookup, note_whnf). *)
THEOREM ForcedRight == Spec => []ForceRight
<1>1. StoreInv => ForceRight
  BY DEF StoreInv, Answered, ForceRight
<1> QED  BY <1>1, Invariance, PTL

(* No memo, key or placeholder names an id of a session that has ended, or a
   value other than its own (clear_session, clear_memos). *)
THEOREM LiveIds == Spec => []IdsLive
<1>1. StoreInv => IdsLive
  BY DEF StoreInv, Memos, Keys, Held, IdsLive
<1> QED  BY <1>1, Invariance, PTL
=============================================================================
