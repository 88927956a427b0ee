-------------------------- MODULE SchedulerProofs --------------------------
(***************************************************************************)
(* Proofs about Scheduler, for every number of declarations and threads,   *)
(* every chunk size, budget and schedule, with and without failing spawns  *)
(* and stale reads of the stop flag.                                       *)
(***************************************************************************)
EXTENDS Scheduler, TLAPS

Failing(t) == pc[t] \in {"stop", "panicked"}

\* A chunk that contains d was claimed (the serial thread is born with all).
Taken(d) == IF NumThreads = 1 THEN pc[0] # "unborn" ELSE d < task_num

\* A failed declaration that was run and whose fate is f.
Witnessed(f) == \E d \in Declars : runs[d] = 1 /\ fate[d] = f /\ f # "ok"

(* The inductive invariant.  Ranges, Partition and Accounted follow the
   declarations; Causes says why flags and payloads are set; MainKnows is
   what the main thread may rely on at each of its steps. *)
Ranges ==
  \A t \in Threads :
    /\ pc[t] = "test" => /\ NumThreads > 1
                         /\ lo[t] < task_num
                         /\ hi[t] <= task_num
                         /\ lo[t] < Total => lo[t] < hi[t]
    /\ pc[t] = "check" => lo[t] < hi[t]
    /\ pc[t] = "unborn" => lo[t] = 0
    /\ NumThreads > 1 => hi[t] <= task_num

Partition ==
  /\ \A d \in Declars : runs[d] \in {0, 1}
  /\ HeldOnce
  /\ \A t \in Threads : \A d \in Held(t) : Taken(d)
  /\ mpc \in {"spawn", "join", "leave"} =>
       \A d \in Declars : runs[d] = 1 => Taken(d)

Accounted ==
  /\ \A d \in Declars : Taken(d) /\ runs[d] = 0 =>
       \E t \in Threads : d \in Held(t) \/ Failing(t)
  /\ \A t \in Threads : pc[t] = "done" =>
       (\A d \in Declars : Taken(d)) \/ \E u \in Threads : pc[u] = "panicked"

Causes ==
  /\ stopped => \E t \in Threads : pc[t] = "panicked"
  /\ \A t \in Threads : Failing(t) => Witnessed(payload[t])
  /\ \A d \in Declars : runs[d] = 1 /\ fate[d] # "ok" =>
       \E t \in Threads : Failing(t)
  /\ thrown # "none" => (thrown = "internal" /\ SpawnMayFail) \/ Witnessed(thrown)

MainKnows ==
  /\ mpc = "parse" => /\ \A t \in Threads : pc[t] = "unborn"
                      /\ \A d \in Declars : fate[d] = "ok"
                      /\ \A d \in Declars : runs[d] = IF d < mi THEN 1 ELSE 0
  /\ mpc = "spawn" => \A t \in Threads : pc[t] = "unborn" <=> mi <= t
  /\ mpc = "join" => /\ \A t \in Threads : pc[t] # "unborn"
                     /\ \A t \in Threads : t < mi => pc[t] = "done"
  /\ mpc \in {"parse", "spawn", "join"} => thrown = "none"
  /\ mpc = "leave" /\ thrown = "none" => \A t \in Threads : pc[t] = "done"
  /\ mpc \in {"finish", "exited"} =>
       /\ \A t \in Threads : Ended(t)
       /\ thrown = "none" => \A d \in Declars : runs[d] = 1 /\ fate[d] = "ok"
  /\ verdict = IF mpc = "exited" THEN FromPanic(thrown) ELSE "none"

IInv == TypeOK /\ Ranges /\ Partition /\ Accounted /\ Causes /\ MainKnows

-----------------------------------------------------------------------------
(* Type correctness.                                                       *)

PCs == {"unborn", "claim", "test", "check", "clear", "stop", "done", "panicked"}

\* The declaration a checking thread is at.
LEMMA AtDeclar ==
  ASSUME TypeOK, Ranges, NEW t \in Threads, pc[t] = "check"
  PROVE  lo[t] \in Declars /\ lo[t] \in Nat /\ lo[t] < hi[t]
BY SchedulerAssumption DEF SchedulerAssumption, TypeOK, Ranges, Declars

LEMMA ThreadType ==
  ASSUME TypeOK, Ranges, NEW t \in Threads, Thread(t)
  PROVE  TypeOK'
<1> USE DEF TypeOK
<1>1. CASE FetchAdd(t)
  <2>1. ChunkEnd(task_num) \in 0 .. Total
    BY SchedulerAssumption DEF SchedulerAssumption, ChunkEnd
  <2>2. task_num' \in Nat
    BY <1>1, SchedulerAssumption DEF SchedulerAssumption, FetchAdd
  <2> QED  BY <1>1, <2>1, <2>2 DEF FetchAdd, mvars
<1>2. CASE Test(t)
  BY <1>2 DEF Test, Finish, shared, mvars
<1>3. CASE SerialEnd(t)
  BY <1>3 DEF SerialEnd, Finish, shared, mvars
<1>4. CASE CheckPasses(t)
  <2>1. PICK b \in Sizes :
          /\ used' = [used EXCEPT ![t] = @ + b]
          /\ pc' = [pc EXCEPT ![t] = IF Over(used[t] + b) THEN "clear"
                                     ELSE Resume(lo[t] + 1, hi[t])]
    BY <1>4 DEF CheckPasses
  <2>2. used' \in [Threads -> Nat]
    BY <2>1, SchedulerAssumption DEF SchedulerAssumption
  <2>3. pc' \in [Threads -> PCs]
    BY <2>1 DEF Resume, PCs
  <2>4. runs' \in [Declars -> Nat]
    BY <1>4, AtDeclar DEF CheckPasses
  <2>5. lo' \in [Threads -> Nat] /\ done' \in Nat
    BY <1>4 DEF CheckPasses
  <2> QED  BY <1>4, <2>2, <2>3, <2>4, <2>5 DEF CheckPasses, PCs, mvars
<1>5. CASE CheckFails(t)
  <2>1. runs' \in [Declars -> Nat]
    BY <1>5, AtDeclar DEF CheckFails
  <2>2. lo' \in [Threads -> Nat] /\ done' \in Nat
    BY <1>5 DEF CheckFails
  <2>3. payload' \in [Threads -> {"none"} \cup Failures]
    <3>1. fate[lo[t]] \in Failures
      BY <1>5, AtDeclar, SchedulerAssumption DEF CheckFails, SchedulerAssumption
    <3> QED  BY <1>5, <3>1 DEF CheckFails
  <2> QED  BY <1>5, <2>1, <2>2, <2>3 DEF CheckFails, mvars
<1>6. CASE Stop(t)
  BY <1>6 DEF Stop, mvars
<1>7. CASE ClearSession(t)
  BY <1>7 DEF ClearSession, Resume, shared, mvars
<1> QED  BY <1>1, <1>2, <1>3, <1>4, <1>5, <1>6, <1>7 DEF Thread

LEMMA LoopType ==
  ASSUME NEW i \in Threads, NEW a, NEW b, Loop(i, a, b)
  PROVE  mpc' \in {a, b} /\ mi' \in Threads
BY SchedulerAssumption DEF SchedulerAssumption, Loop, Threads

LEMMA MainType ==
  ASSUME TypeOK, Main
  PROVE  TypeOK'
<1> USE DEF TypeOK
<1>1. CASE ParseStep
  <2>1. runs' \in [Declars -> Nat]
    BY <1>1 DEF ParseStep
  <2> QED  BY <1>1, <2>1 DEF ParseStep, tvars
<1>2. CASE Spawn
  <2>1. mi \in Threads /\ Total \in 0 .. Total
    BY <1>2, SchedulerAssumption DEF Spawn, SchedulerAssumption
  <2>2. pc' \in [Threads -> PCs]
    BY <1>2, <2>1 DEF Spawn, Resume, PCs
  <2>3. hi' \in [Threads -> 0 .. Total]
    BY <1>2, <2>1 DEF Spawn
  <2>4. mpc' \in {"spawn", "join"} /\ mi' \in Threads /\ mi' \in Nat
    <3>1. Loop(mi, "spawn", "join")
      BY <1>2 DEF Spawn
    <3> HIDE DEF TypeOK
    <3> QED  BY <2>1, <3>1, LoopType DEF Threads
  <2> QED  BY <1>2, <2>2, <2>3, <2>4 DEF Spawn, PCs, shared
<1>3. CASE SpawnFails
  BY <1>3 DEF SpawnFails, Failures, shared, tvars
<1>4. CASE Join
  <2>1. mi \in Threads
    BY <1>4 DEF Join
  <2>2. /\ mpc' \in {"join", "leave"}
        /\ mpc' = "join" => mi' \in Threads
        /\ mi' \in Nat
    <3>1. CASE Loop(mi, "join", "leave")
      <4> HIDE DEF TypeOK
      <4> QED  BY <2>1, <3>1, LoopType DEF Threads
    <3>2. CASE mpc' = "leave" /\ mi' = mi
      <4> HIDE DEF TypeOK
      <4> QED  BY <2>1, <3>2 DEF Threads
    <3> QED  BY <1>4, <3>1, <3>2 DEF Join
  <2>3. thrown' \in {"none"} \cup Failures
    BY <1>4, <2>1 DEF Join
  <2> QED  BY <1>4, <2>2, <2>3 DEF Join, shared, tvars
<1>5. CASE LeaveScope
  BY <1>5 DEF LeaveScope, shared, tvars
<1>6. CASE Conclude
  <2>1. verdict' \in {"none", "accept"} \cup Failures
    BY <1>6 DEF Conclude, FromPanic
  <2> QED  BY <1>6, <2>1 DEF Conclude, shared, tvars
<1> QED  BY <1>1, <1>2, <1>3, <1>4, <1>5, <1>6 DEF Main

LEMMA InitType == Init => TypeOK
<1>1. 0 \in Threads /\ 0 \in 0 .. Total
  BY SchedulerAssumption DEF SchedulerAssumption, Threads
<1> SUFFICES ASSUME Init PROVE TypeOK
  OBVIOUS
<1>2. /\ fate \in [Declars -> Fates] /\ runs \in [Declars -> Nat]
      /\ mpc \in {"parse", "spawn", "join", "leave", "finish", "exited"}
  BY DEF Init
<1>3. /\ pc \in [Threads -> PCs] /\ lo \in [Threads -> Nat]
      /\ hi \in [Threads -> 0 .. Total] /\ used \in [Threads -> Nat]
      /\ payload \in [Threads -> {"none"} \cup Failures]
  BY <1>1 DEF Init, PCs
<1> QED  BY <1>1, <1>2, <1>3 DEF Init, TypeOK, PCs

-----------------------------------------------------------------------------
(* What one step of a thread does to the ranges held.                      *)

\* A step of thread t leaves the other threads where they are.
LEMMA OthersStay ==
  ASSUME TypeOK, NEW t \in Threads, Thread(t), NEW u \in Threads, u # t
  PROVE  /\ pc'[u] = pc[u] /\ lo'[u] = lo[u] /\ hi'[u] = hi[u]
         /\ payload'[u] = payload[u]
         /\ Held(u)' = Held(u)
         /\ Failing(u)' <=> Failing(u)
<1>1. pc'[u] = pc[u] /\ lo'[u] = lo[u] /\ hi'[u] = hi[u] /\ payload'[u] = payload[u]
  BY DEF TypeOK, Thread, FetchAdd, Test, Finish, SerialEnd, CheckPasses,
         CheckFails, Stop, ClearSession, shared, mvars
<1> QED  BY <1>1 DEF Held, Failing

\* Threads of the main loop and the verdict are not touched by a thread.
LEMMA MainStays ==
  ASSUME NEW t \in Threads, Thread(t)
  PROVE  UNCHANGED <<fate, mpc, mi, thrown, verdict>>
BY DEF Thread, FetchAdd, Test, Finish, SerialEnd, CheckPasses,
       CheckFails, Stop, ClearSession, shared, mvars

\* While a thread runs, the main thread is spawning, joining or waiting to
\* leave the scope with a payload.
LEMMA Running ==
  ASSUME MainKnows, TypeOK, NEW t \in Threads, Thread(t)
  PROVE  /\ mpc \in {"spawn", "join", "leave"}
         /\ mpc = "spawn" => ~(mi <= t)
         /\ mpc = "join" => ~(t < mi)
         /\ mpc = "leave" => thrown # "none"
         /\ verdict = "none"
         /\ pc[t] \notin {"unborn", "done", "panicked"}
         /\ pc'[t] # "unborn"
<1>1. pc[t] \notin {"unborn", "done", "panicked"} /\ pc'[t] # "unborn"
  BY DEF Thread, FetchAdd, Test, Finish, SerialEnd, CheckPasses,
         CheckFails, Stop, ClearSession, Resume, TypeOK
<1> QED  BY <1>1 DEF MainKnows, Ended, TypeOK

\* So the main thread keeps knowing what it knew.
LEMMA ThreadMainKnows ==
  ASSUME MainKnows, TypeOK, NEW t \in Threads, Thread(t)
  PROVE  MainKnows'
<1>1. \A u \in Threads : u # t => pc'[u] = pc[u]
  BY OthersStay
<1> QED  BY <1>1, MainStays, Running DEF MainKnows

LEMMA TakenKept ==
  ASSUME TypeOK, MainKnows, NEW t \in Threads, Thread(t), task_num' = task_num
  PROVE  \A d : Taken(d)' <=> Taken(d)
<1>1. 0 \in Threads
  BY SchedulerAssumption DEF SchedulerAssumption, Threads
<1>2. (pc'[0] = "unborn") <=> (pc[0] = "unborn")
  BY <1>1, OthersStay, Running
<1> QED  BY <1>2 DEF Taken

\* A step that claims nothing keeps the partition if it gives up only what it
\* has run, or runs nothing.
LEMMA PartitionKept ==
  ASSUME TypeOK, Partition, MainKnows, NEW t \in Threads, Thread(t),
         task_num' = task_num,
         Held(t)' \subseteq Held(t),
         \A d \in Declars : \/ runs'[d] = runs[d]
                            \/ runs'[d] = 1 /\ d \in Held(t) /\ d \notin Held(t)'
  PROVE  Partition'
<1>1. \A u \in Threads : u # t => Held(u)' = Held(u)
  BY OthersStay
<1>2. \A d : Taken(d)' <=> Taken(d)
  BY TakenKept
<1>3. \A u \in Threads : Held(u)' \subseteq Held(u)
  BY <1>1
<1>4. \A u \in Threads : \A d \in Held(u) : d \in Declars
  BY SchedulerAssumption DEF Held, Declars, TypeOK, SchedulerAssumption
<1>5. ASSUME NEW u \in Threads, NEW d \in Held(u)'
      PROVE  runs'[d] = 0
  BY <1>1, <1>3, <1>4, <1>5 DEF Partition, HeldOnce
<1>6. HeldOnce'
  BY <1>3, <1>5 DEF Partition, HeldOnce
<1>7. mpc' = mpc
  BY MainStays
<1> QED  BY <1>2, <1>3, <1>6, <1>7 DEF Partition

LEMMA AccountedKept ==
  ASSUME TypeOK, Accounted, MainKnows, NEW t \in Threads, Thread(t),
         task_num' = task_num,
         \A d \in Declars : runs'[d] = 0 => runs[d] = 0,
         Failing(t) => Failing(t)',
         \/ \A d \in Held(t) : d \in Held(t)' \/ runs'[d] # 0
         \/ \E u \in Threads : Failing(u)',
         pc'[t] = "done" => \/ \A d \in Declars : Taken(d)
                            \/ \E u \in Threads : pc[u] = "panicked"
  PROVE  Accounted'
<1>1. \A u \in Threads : u # t => /\ Held(u)' = Held(u) /\ pc'[u] = pc[u]
                                  /\ Failing(u)' <=> Failing(u)
  BY OthersStay
<1>2. \A d : Taken(d)' <=> Taken(d)
  BY TakenKept
<1>3. pc[t] # "panicked"
  BY Running
<1>4. \A u \in Threads : Failing(u) => Failing(u)'
  BY <1>1
<1>5. \A d \in Declars : Taken(d)' /\ runs'[d] = 0 =>
        \E u \in Threads : d \in Held(u)' \/ Failing(u)'
  BY <1>1, <1>2, <1>4 DEF Accounted
<1>6. \A u \in Threads : pc'[u] = "done" =>
        (\A d \in Declars : Taken(d)') \/ \E v \in Threads : pc'[v] = "panicked"
  BY <1>1, <1>2, <1>3 DEF Accounted
<1> QED  BY <1>5, <1>6 DEF Accounted

\* Ranges is about each thread alone and a counter that only grows.
LEMMA RangesKept ==
  ASSUME TypeOK, Ranges, NEW t \in Threads, Thread(t)
  PROVE  Ranges'
<1>1. task_num \in Nat /\ task_num' \in Nat /\ task_num <= task_num'
  BY SchedulerAssumption, ThreadType
     DEF SchedulerAssumption, TypeOK, Thread, FetchAdd, Test, Finish, SerialEnd,
         CheckPasses, CheckFails, Stop, ClearSession, shared
<1>2. TypeOK'
  BY ThreadType
<1>3. ASSUME NEW u \in Threads, u # t
      PROVE  /\ pc'[u] = "test" => /\ NumThreads > 1
                                   /\ lo'[u] < task_num'
                                   /\ hi'[u] <= task_num'
                                   /\ lo'[u] < Total => lo'[u] < hi'[u]
             /\ pc'[u] = "check" => lo'[u] < hi'[u]
             /\ pc'[u] = "unborn" => lo'[u] = 0
             /\ NumThreads > 1 => hi'[u] <= task_num'
  BY <1>1, <1>3, OthersStay, SchedulerAssumption DEF Ranges, TypeOK, SchedulerAssumption
<1>4. /\ pc'[t] = "test" => /\ NumThreads > 1
                            /\ lo'[t] < task_num'
                            /\ hi'[t] <= task_num'
                            /\ lo'[t] < Total => lo'[t] < hi'[t]
      /\ pc'[t] = "check" => lo'[t] < hi'[t]
      /\ pc'[t] = "unborn" => lo'[t] = 0
      /\ NumThreads > 1 => hi'[t] <= task_num'
  <2> USE SchedulerAssumption DEF SchedulerAssumption, TypeOK
  <2>1. CASE FetchAdd(t)
    BY <2>1 DEF FetchAdd, ChunkEnd
  <2>2. CASE Test(t)
    BY <2>2 DEF Test, Finish, Refused, Ranges, shared
  <2>3. CASE SerialEnd(t)
    BY <2>3 DEF SerialEnd, Finish, Ranges, shared
  <2>4. CASE CheckPasses(t)
    BY <2>4 DEF CheckPasses, Resume, Ranges
  <2>5. CASE CheckFails(t)
    BY <2>5 DEF CheckFails, Ranges
  <2>6. CASE Stop(t)
    BY <2>6 DEF Stop, Ranges
  <2>7. CASE ClearSession(t)
    BY <2>7 DEF ClearSession, Resume, Ranges, shared
  <2> QED  BY <2>1, <2>2, <2>3, <2>4, <2>5, <2>6, <2>7 DEF Thread
<1> QED  BY <1>3, <1>4 DEF Ranges

\* What a check does to the range held: only the declaration it ran leaves it.
LEMMA CheckHeld ==
  ASSUME TypeOK, Ranges, NEW t \in Threads, CheckPasses(t)
  PROVE  lo[t] \in Held(t) /\ Held(t)' = Held(t) \ {lo[t]}
<1>1. /\ lo[t] \in Nat /\ hi[t] \in Nat /\ lo[t] < hi[t]
      /\ pc[t] = "check" /\ lo'[t] = lo[t] + 1 /\ hi'[t] = hi[t]
      /\ pc'[t] \in {"clear", Resume(lo[t] + 1, hi[t])}
  BY SchedulerAssumption DEF SchedulerAssumption, TypeOK, Ranges, CheckPasses
<1>2. Held(t) = lo[t] .. hi[t] - 1
  BY <1>1 DEF Held
<1>3. Held(t)' = (lo[t] + 1) .. hi[t] - 1
  BY <1>1 DEF Held, Resume
<1> QED  BY <1>1, <1>2, <1>3

\* Clearing a session gives up nothing.
LEMMA ClearHeld ==
  ASSUME TypeOK, NEW t \in Threads, ClearSession(t)
  PROVE  Held(t)' = Held(t)
<1>1. /\ lo[t] \in Nat /\ hi[t] \in Nat
      /\ pc[t] = "clear" /\ lo'[t] = lo[t] /\ hi'[t] = hi[t]
      /\ pc'[t] = Resume(lo[t], hi[t])
  BY SchedulerAssumption DEF SchedulerAssumption, TypeOK, ClearSession
<1> QED  BY <1>1 DEF Held, Resume

\* A fetched chunk is new: what it holds was not taken before, and all of
\* what the counter passed is held.
LEMMA FetchHeld ==
  ASSUME TypeOK, NEW t \in Threads, FetchAdd(t)
  PROVE  /\ NumThreads > 1
         /\ \A d \in Held(t)' : d \in Declars /\ ~Taken(d) /\ Taken(d)'
         /\ \A d \in Declars : Taken(d) => Taken(d)'
         /\ \A d \in Declars : Taken(d)' => Taken(d) \/ d \in Held(t)'
<1> USE SchedulerAssumption DEF SchedulerAssumption, TypeOK
<1>1. /\ NumThreads > 1 /\ NumThreads # 1
      /\ task_num \in Nat /\ task_num' = task_num + ChunkSize
      /\ lo'[t] = task_num /\ hi'[t] = ChunkEnd(task_num) /\ pc'[t] = "test"
  BY DEF FetchAdd
<1>2. Held(t)' = task_num .. ChunkEnd(task_num) - 1
  BY <1>1 DEF Held
<1> QED  BY <1>1, <1>2 DEF Taken, ChunkEnd, Declars

LEMMA ThreadPartition ==
  ASSUME TypeOK, Ranges, Partition, MainKnows, NEW t \in Threads, Thread(t)
  PROVE  Partition'
<1>1. CASE FetchAdd(t)
  <2>1. \A u \in Threads : u # t => Held(u)' = Held(u)
    BY OthersStay
  <2>2. runs' = runs /\ mpc' = mpc
    BY <1>1 DEF FetchAdd, mvars
  <2>3. mpc \in {"spawn", "join", "leave"}
    BY Running
  <2>4. \A u \in Threads : \A d \in Held(u) : d \in Declars /\ Taken(d)
    BY SchedulerAssumption
       DEF Held, Declars, TypeOK, SchedulerAssumption, Partition
  <2>5. \A d \in Held(t)' : d \in Declars /\ runs[d] = 0
    BY <1>1, <2>3, FetchHeld DEF Partition
  <2>6. \A u \in Threads : u # t => \A d \in Held(u)' : d \notin Held(t)'
    BY <1>1, <2>1, <2>4, FetchHeld
  <2>7. HeldOnce'
    <3> SUFFICES ASSUME NEW u \in Threads, NEW d \in Held(u)',
                        NEW v \in Threads \ {u}
                 PROVE  runs'[d] = 0 /\ d \notin Held(v)'
      BY <2>2, <2>5, <2>1 DEF HeldOnce, Partition
    <3>1. CASE u = t
      BY <3>1, <2>2, <2>5, <2>6
    <3>2. CASE u # t
      BY <3>2, <2>1, <2>2, <2>6 DEF Partition, HeldOnce
    <3> QED  BY <3>1, <3>2
  <2>8. \A u \in Threads : \A d \in Held(u)' : Taken(d)'
    BY <1>1, <2>1, <2>4, FetchHeld
  <2>9. \A d \in Declars : runs'[d] = 1 => Taken(d)'
    BY <1>1, <2>2, <2>3, FetchHeld DEF Partition
  <2> QED  BY <2>2, <2>7, <2>8, <2>9 DEF Partition
<1>2. CASE Test(t)
  BY <1>2, PartitionKept DEF Test, Finish, Held, shared, TypeOK
<1>3. CASE SerialEnd(t)
  BY <1>3, PartitionKept DEF SerialEnd, Finish, Held, shared, TypeOK
<1>4. CASE CheckPasses(t)
  <2>1. lo[t] \in Held(t) /\ Held(t)' = Held(t) \ {lo[t]}
    BY <1>4, CheckHeld
  <2>2. lo[t] \in Declars /\ runs[lo[t]] = 0
    BY <1>4, <2>1, AtDeclar DEF CheckPasses, Partition, HeldOnce
  <2>3. runs' = [runs EXCEPT ![lo[t]] = @ + 1] /\ task_num' = task_num
    BY <1>4 DEF CheckPasses
  <2> QED  BY <2>1, <2>2, <2>3, PartitionKept DEF TypeOK
<1>5. CASE CheckFails(t)
  <2>1. lo[t] \in Declars /\ lo[t] \in Nat /\ lo[t] < hi[t] /\ hi[t] \in Nat
    BY <1>5, AtDeclar, SchedulerAssumption
       DEF CheckFails, TypeOK, SchedulerAssumption
  <2>2. lo[t] \in Held(t) /\ Held(t)' = {}
    BY <1>5, <2>1 DEF CheckFails, Held, TypeOK
  <2>3. runs[lo[t]] = 0
    BY <2>2 DEF Partition, HeldOnce
  <2>4. runs' = [runs EXCEPT ![lo[t]] = @ + 1] /\ task_num' = task_num
    BY <1>5 DEF CheckFails
  <2> QED  BY <2>1, <2>2, <2>3, <2>4, PartitionKept DEF TypeOK
<1>6. CASE Stop(t)
  BY <1>6, PartitionKept DEF Stop, Held, TypeOK
<1>7. CASE ClearSession(t)
  BY <1>7, ClearHeld, PartitionKept DEF ClearSession, shared
<1> QED  BY <1>1, <1>2, <1>3, <1>4, <1>5, <1>6, <1>7 DEF Thread

LEMMA ThreadAccounted ==
  ASSUME TypeOK, Ranges, Partition, Accounted, Causes, MainKnows,
         NEW t \in Threads, Thread(t)
  PROVE  Accounted'
<1>1. CASE FetchAdd(t)
  <2>1. \A u \in Threads : u # t => /\ Held(u)' = Held(u) /\ pc'[u] = pc[u]
                                    /\ Failing(u)' <=> Failing(u)
    BY OthersStay
  <2>2. runs' = runs /\ Held(t) = {} /\ ~Failing(t) /\ pc'[t] = "test"
        /\ pc[t] = "claim"
    BY <1>1 DEF FetchAdd, Held, Failing, TypeOK
  <2>3. \A d \in Declars : Taken(d)' /\ runs'[d] = 0 =>
          \E u \in Threads : d \in Held(u)' \/ Failing(u)'
    BY <1>1, <2>1, <2>2, FetchHeld DEF Accounted
  <2>4. \A u \in Threads : pc'[u] = "done" =>
          (\A d \in Declars : Taken(d)') \/ \E v \in Threads : pc'[v] = "panicked"
    BY <1>1, <2>1, <2>2, FetchHeld DEF Accounted
  <2> QED  BY <2>3, <2>4 DEF Accounted
<1>2. CASE Test(t)
  <2>1. /\ runs' = runs /\ task_num' = task_num /\ ~Failing(t)
        /\ pc[t] = "test" /\ lo[t] \in Nat /\ hi[t] \in 0 .. Total
    BY <1>2 DEF Test, Finish, Failing, TypeOK, shared
  <2>2. CASE pc'[t] = "check"
    <3>1. Held(t)' = Held(t)
      BY <1>2, <2>1, <2>2 DEF Test, Finish, Held, TypeOK
    <3> QED  BY <2>1, <2>2, <3>1, AccountedKept
  <2>3. CASE pc'[t] = "done"
    <3>1. lo[t] >= Total \/ stopped
      <4>1. PICK seen \in SeenStopped(t) :
              Refused(t, seen) \/ pc' = [pc EXCEPT ![t] = "check"]
        BY <1>2 DEF Test
      <4>2. Refused(t, seen)
        BY <2>3, <4>1 DEF TypeOK
      <4>3. seen = TRUE => stopped
        BY <4>1 DEF SeenStopped
      <4> QED  BY <4>2, <4>3 DEF Refused, SeenStopped, TypeOK
    <3>2. CASE lo[t] >= Total
      <4>1. \A d \in Declars : Taken(d)
        BY <2>1, <3>2, SchedulerAssumption
           DEF Ranges, Taken, Declars, SchedulerAssumption, TypeOK
      <4>2. Held(t) = {}
        BY <2>1, <3>2, SchedulerAssumption DEF Held, SchedulerAssumption
      <4> QED  BY <2>1, <2>3, <4>1, <4>2, AccountedKept
    <3>3. CASE stopped
      <4>1. PICK u \in Threads : pc[u] = "panicked"
        BY <3>3 DEF Causes
      <4>2. Failing(u)'
        BY <2>1, <4>1, OthersStay DEF Failing
      <4> QED  BY <2>1, <4>1, <4>2, AccountedKept
    <3> QED  BY <3>1, <3>2, <3>3
  <2> QED  BY <1>2, <2>2, <2>3 DEF Test, Finish, TypeOK
<1>3. CASE SerialEnd(t)
  <2>1. /\ runs' = runs /\ task_num' = task_num /\ ~Failing(t)
        /\ Held(t) = {} /\ t = 0 /\ NumThreads = 1 /\ pc[t] = "claim"
    BY <1>3 DEF SerialEnd, Finish, Failing, Held, TypeOK, shared, Threads
  <2>2. \A d \in Declars : Taken(d)
    BY <2>1 DEF Taken
  <2> QED  BY <2>1, <2>2, AccountedKept
<1>4. CASE CheckPasses(t)
  <2>1. lo[t] \in Held(t) /\ Held(t)' = Held(t) \ {lo[t]} /\ lo[t] \in Declars
    BY <1>4, CheckHeld, AtDeclar DEF CheckPasses
  <2>2. /\ runs' = [runs EXCEPT ![lo[t]] = @ + 1] /\ task_num' = task_num
        /\ pc[t] = "check" /\ pc'[t] # "done" /\ ~Failing(t)
    BY <1>4 DEF CheckPasses, Failing, Resume, TypeOK
  <2>3. \A d \in Declars : runs'[d] = 0 => runs[d] = 0
    BY <2>1, <2>2 DEF TypeOK
  <2>4. runs'[lo[t]] # 0
    BY <2>1, <2>2 DEF TypeOK
  <2> QED  BY <2>1, <2>2, <2>3, <2>4, AccountedKept
<1>5. CASE CheckFails(t)
  <2>1. lo[t] \in Declars
    BY <1>5, AtDeclar DEF CheckFails
  <2>2. /\ runs' = [runs EXCEPT ![lo[t]] = @ + 1] /\ task_num' = task_num
        /\ pc'[t] = "stop" /\ Failing(t)'
    BY <1>5 DEF CheckFails, Failing, TypeOK
  <2>3. \A d \in Declars : runs'[d] = 0 => runs[d] = 0
    BY <2>1, <2>2 DEF TypeOK
  <2> QED  BY <2>2, <2>3, AccountedKept
<1>6. CASE Stop(t)
  <2>1. /\ runs' = runs /\ task_num' = task_num
        /\ pc'[t] = "panicked" /\ Failing(t)'
    BY <1>6 DEF Stop, Failing, TypeOK
  <2> QED  BY <2>1, AccountedKept
<1>7. CASE ClearSession(t)
  <2>1. /\ runs' = runs /\ task_num' = task_num
        /\ pc'[t] # "done" /\ ~Failing(t)
    BY <1>7 DEF ClearSession, Failing, Resume, TypeOK, shared
  <2> QED  BY <1>7, <2>1, ClearHeld, AccountedKept
<1> QED  BY <1>1, <1>2, <1>3, <1>4, <1>5, <1>6, <1>7 DEF Thread

LEMMA ThreadCauses ==
  ASSUME TypeOK, Ranges, Partition, Causes, MainKnows,
         NEW t \in Threads, Thread(t)
  PROVE  Causes'
<1>1. \A u \in Threads : u # t => /\ pc'[u] = pc[u] /\ payload'[u] = payload[u]
                                  /\ Failing(u)' <=> Failing(u)
  BY OthersStay
<1>2. fate' = fate /\ thrown' = thrown
  BY MainStays
<1>3. CASE CheckPasses(t)
  <2>1. lo[t] \in Declars /\ lo[t] \in Held(t)
    BY <1>3, AtDeclar, CheckHeld DEF CheckPasses
  <2>2. /\ runs' = [runs EXCEPT ![lo[t]] = @ + 1] /\ fate[lo[t]] = "ok"
        /\ stopped' = stopped /\ payload' = payload
        /\ pc[t] = "check" /\ ~Failing(t) /\ ~Failing(t)' /\ pc'[t] # "panicked"
    BY <1>3 DEF CheckPasses, Failing, Resume, TypeOK
  <2>3. \A f : Witnessed(f)' <=> Witnessed(f)
    BY <1>2, <2>1, <2>2 DEF Witnessed, TypeOK
  <2>4. \A d \in Declars : runs'[d] = 1 /\ fate[d] # "ok" => runs[d] = 1
    BY <2>1, <2>2 DEF TypeOK
  <2> QED  BY <1>1, <1>2, <2>2, <2>3, <2>4 DEF Causes
<1>4. CASE CheckFails(t)
  <2>1. lo[t] \in Declars /\ lo[t] \in Nat /\ lo[t] < hi[t] /\ hi[t] \in Nat
    BY <1>4, AtDeclar, SchedulerAssumption
       DEF CheckFails, TypeOK, SchedulerAssumption
  <2>2. /\ runs' = [runs EXCEPT ![lo[t]] = @ + 1] /\ fate[lo[t]] # "ok"
        /\ stopped' = stopped /\ payload'[t] = fate[lo[t]]
        /\ pc[t] = "check" /\ pc'[t] = "stop" /\ Failing(t)'
    BY <1>4 DEF CheckFails, Failing, TypeOK
  <2>3. runs[lo[t]] = 0
    BY <2>1, <2>2 DEF Partition, HeldOnce, Held
  <2>4. runs'[lo[t]] = 1 /\ \A d \in Declars : runs[d] = 1 => runs'[d] = 1
    BY <2>1, <2>2, <2>3 DEF TypeOK
  <2>5. \A f : Witnessed(f) => Witnessed(f)'
    BY <1>2, <2>4 DEF Witnessed
  <2>6. Witnessed(payload[t])'
    BY <1>2, <2>1, <2>2, <2>4 DEF Witnessed
  <2>7. \A u \in Threads : Failing(u)' => Witnessed(payload[u])'
    BY <1>1, <2>5, <2>6 DEF Causes
  <2>8. stopped => \E u \in Threads : pc'[u] = "panicked"
    BY <1>1, <2>2 DEF Causes
  <2>9. thrown # "none" => (thrown = "internal" /\ SpawnMayFail) \/ Witnessed(thrown)'
    BY <1>2, <2>5 DEF Causes
  <2> QED  BY <1>2, <2>2, <2>7, <2>8, <2>9 DEF Causes
<1>5. CASE ~CheckPasses(t) /\ ~CheckFails(t)
  <2>1. runs' = runs /\ payload' = payload
    BY <1>5 DEF Thread, FetchAdd, Test, Finish, SerialEnd, Stop, ClearSession,
                shared
  <2>2. Failing(t)' <=> Failing(t)
    BY <1>5 DEF Thread, FetchAdd, Test, Finish, SerialEnd, Stop, ClearSession,
                Resume, Failing, TypeOK
  <2>3. pc[t] # "panicked"
    BY Running
  <2>4. stopped' => \E u \in Threads : pc'[u] = "panicked"
    <3>1. CASE Stop(t)
      BY <3>1 DEF Stop, TypeOK
    <3>2. CASE ~Stop(t)
      <4>1. stopped' = stopped
        BY <1>5, <3>2 DEF Thread, FetchAdd, Test, Finish, SerialEnd,
                          ClearSession, shared
      <4> QED  BY <1>1, <2>3, <4>1 DEF Causes
    <3> QED  BY <3>1, <3>2
  <2>5. \A f : Witnessed(f)' <=> Witnessed(f)
    BY <1>2, <2>1 DEF Witnessed
  <2> QED  BY <1>1, <1>2, <2>1, <2>2, <2>4, <2>5 DEF Causes
<1> QED  BY <1>3, <1>4, <1>5

LEMMA ThreadStep ==
  ASSUME IInv, NEW t \in Threads, Thread(t)
  PROVE  IInv'
BY ThreadType, RangesKept, ThreadPartition, ThreadAccounted, ThreadCauses,
   ThreadMainKnows DEF IInv

-----------------------------------------------------------------------------
(* The steps of the main thread.                                           *)

\* All steps of the main thread but two leave the threads and their work alone.
LEMMA MainQuiet ==
  ASSUME IInv, SpawnFails \/ Join \/ LeaveScope \/ Conclude
  PROVE  Ranges' /\ Partition' /\ Accounted'
<1>1. UNCHANGED <<shared, tvars>>
  BY DEF SpawnFails, Join, LeaveScope, Conclude
<1>2. /\ \A t : Held(t)' = Held(t) /\ (Failing(t)' <=> Failing(t))
      /\ \A d : Taken(d)' <=> Taken(d)
  BY <1>1 DEF shared, tvars, Held, Failing, Taken
<1>3. Ranges'
  BY <1>1 DEF IInv, Ranges, shared, tvars
<1>4. mpc' \in {"spawn", "join", "leave"} => mpc \in {"spawn", "join", "leave"}
  BY DEF IInv, TypeOK, SpawnFails, Join, LeaveScope, Conclude
<1>5. Partition'
  BY <1>1, <1>2, <1>4 DEF IInv, Partition, HeldOnce, shared, tvars
<1>6. Accounted'
  BY <1>1, <1>2 DEF IInv, Accounted, shared, tvars
<1> QED  BY <1>3, <1>5, <1>6

LEMMA MainStep ==
  ASSUME IInv, Main
  PROVE  IInv'
<1>0. TypeOK'
  BY MainType DEF IInv
<1>1. CASE ParseStep
  <2> USE <1>1 DEF IInv
  <2>1. /\ UNCHANGED <<fate, task_num, stopped, tvars, thrown, verdict>>
        /\ mpc = "parse"
        /\ \A t \in Threads : pc[t] = "unborn"
    BY DEF ParseStep, MainKnows
  <2>2. /\ \A t \in Threads : Held(t) = {} /\ Held(t)' = {}
                              /\ ~Failing(t) /\ ~Failing(t)'
        /\ \A d : Taken(d)' <=> Taken(d)
    BY <2>1 DEF tvars, Held, Failing, Taken
  <2>3. Ranges'
    BY <2>1 DEF Ranges, tvars
  <2>4. /\ mpc' \in {"parse", "finish"}
        /\ mpc' = "parse" => \A d \in Declars : runs'[d] = IF d < mi' THEN 1 ELSE 0
        /\ mpc' = "finish" => \A d \in Declars : runs'[d] = 1
        /\ \A d \in Declars : runs'[d] \in {0, 1}
        /\ \A d \in Declars : runs'[d] = 0 => runs[d] = 0
    <3>1. CASE mi < Total
      <4>1. mi \in Declars /\ mi \in Nat
        BY <3>1, SchedulerAssumption DEF SchedulerAssumption, TypeOK, Declars
      <4>2. \A d \in Declars : runs[d] = IF d < mi THEN 1 ELSE 0
        BY DEF MainKnows, ParseStep
      <4>3. mpc' = "parse" /\ mi' = mi + 1 /\ runs' = [runs EXCEPT ![mi] = @ + 1]
        BY <2>1, <3>1 DEF ParseStep
      <4> QED  BY <4>1, <4>2, <4>3 DEF TypeOK, Declars
    <3>2. CASE ~(mi < Total)
      <4>1. \A d \in Declars : d < mi
        BY <3>2, SchedulerAssumption DEF SchedulerAssumption, TypeOK, Declars
      <4> QED  BY <3>2, <4>1 DEF ParseStep, MainKnows
    <3> QED  BY <3>1, <3>2
  <2>5. Partition'
    BY <2>2, <2>4 DEF Partition, HeldOnce
  <2>6. Accounted'
    BY <2>1, <2>2, <2>4 DEF Accounted, tvars
  <2>7. fate' = fate /\ thrown' = "none" /\ verdict' = "none"
        /\ (\A d \in Declars : fate[d] = "ok")
    BY <2>1 DEF MainKnows
  <2>8. ~stopped'
    BY <2>1 DEF Causes
  <2>9. Causes'
    BY <2>2, <2>7, <2>8 DEF Causes
  <2>10. MainKnows'
    BY <2>1, <2>4, <2>7 DEF MainKnows, Ended, tvars
  <2> QED  BY <1>0, <2>3, <2>5, <2>6, <2>9, <2>10
<1>2. CASE Spawn
  <2> USE <1>2 DEF IInv
  <2>1. /\ mi \in Threads /\ pc[mi] = "unborn" /\ mpc = "spawn"
        /\ UNCHANGED <<shared, lo, used, payload, thrown, verdict>>
    BY DEF Spawn, MainKnows, TypeOK
  <2>0. PICK m \in Threads : m = mi
    BY <2>1
  <2>2. \A u \in Threads : u # m => pc'[u] = pc[u] /\ hi'[u] = hi[u]
    BY <2>0, <2>1 DEF Spawn, TypeOK
  <2>4. /\ pc[m] = "unborn"
        /\ pc'[m] \in {"claim", "check"}
        /\ NumThreads > 1 => pc'[m] = "claim"
    BY <2>0, <2>1 DEF Spawn, Resume, TypeOK
  <2>5. \A u \in Threads : Failing(u)' <=> Failing(u)
    BY <2>2, <2>4 DEF Failing
  <2>6. Ranges'
    BY <2>0, <2>1, <2>2, SchedulerAssumption
       DEF Ranges, Spawn, Resume, TypeOK, SchedulerAssumption, shared
  <2>7. runs' = runs /\ fate' = fate /\ stopped' = stopped /\ payload' = payload
        /\ thrown' = thrown
    BY <2>0, <2>1 DEF shared
  <2>8. \A f : Witnessed(f)' <=> Witnessed(f)
    BY <2>7 DEF Witnessed
  <2>9. Causes'
    <3>1. stopped' => \E u \in Threads : pc'[u] = "panicked"
      BY <2>0, <2>1, <2>2, <2>7 DEF Causes
    <3> QED  BY <2>5, <2>7, <2>8, <3>1 DEF Causes
  <2>10. mpc' \in {"spawn", "join"}
    BY <2>0, <2>1 DEF Spawn, Loop
  <2>11. ASSUME NumThreads > 1 PROVE Partition' /\ Accounted'
    <3>2. \A d : Taken(d)' <=> Taken(d)
      BY <2>0, <2>1, <2>11 DEF Taken, shared
    <3>3. \A u \in Threads : Held(u)' = Held(u)
      BY <2>1, <2>2, <2>4, <2>11 DEF Held
    <3>4. Partition'
      BY <2>0, <2>1, <2>7, <3>2, <3>3 DEF Partition, HeldOnce
    <3>6. Accounted'
      BY <2>0, <2>1, <2>2, <2>4, <2>7, <2>5, <2>11, <3>2, <3>3 DEF Accounted
    <3> QED  BY <3>4, <3>6
  <2>12. ASSUME NumThreads = 1 PROVE Partition' /\ Accounted'
    <3>1. m = 0 /\ \A u \in Threads : u = m
      BY <2>0, <2>1, <2>12 DEF Threads
    <3>2. \A d : ~Taken(d) /\ Taken(d)'
      BY <2>0, <2>1, <2>4, <2>12, <3>1 DEF Taken
    <3>3. Held(m)' = Declars
      <4>1. lo'[m] = 0 /\ hi'[m] = Total /\ pc'[m] = Resume(0, Total)
        BY <2>0, <2>1, <2>12 DEF Spawn, Ranges, TypeOK
      <4> QED  BY <4>1, SchedulerAssumption
               DEF Held, Resume, Declars, SchedulerAssumption
    <3>4. \A d \in Declars : runs'[d] = 0
      BY <2>0, <2>1, <2>7, <3>2 DEF Partition
    <3>5. Partition'
      BY <3>1, <3>2, <3>3, <3>4 DEF Partition, HeldOnce
    <3>6. Accounted'
      BY <2>0, <2>1, <2>4, <3>1, <3>2, <3>3 DEF Accounted
    <3> QED  BY <3>5, <3>6
  <2>13. MainKnows'
    <3>1. NumThreads \in Nat /\ mi \in Nat /\ mi < NumThreads
      BY <2>0, <2>1, SchedulerAssumption DEF SchedulerAssumption, Threads
    <3>2. \A t \in Threads : pc'[t] = "unborn" <=> mi + 1 <= t
      BY <2>0, <2>1, <2>2, <2>4, <3>1 DEF MainKnows, Threads
    <3>3. CASE mi + 1 < NumThreads
      BY <2>0, <2>1, <3>1, <3>2, <3>3 DEF Spawn, Loop, MainKnows
    <3>4. CASE ~(mi + 1 < NumThreads)
      <4>1. \A t \in Threads : pc'[t] # "unborn"
        BY <3>1, <3>2, <3>4 DEF Threads
      <4>2. mpc' = "join" /\ mi' = 0
        BY <3>4 DEF Spawn, Loop
      <4>3. \A t \in Threads : ~(t < 0)
        BY DEF Threads
      <4> QED  BY <2>1, <4>1, <4>2, <4>3 DEF MainKnows
    <3> QED  BY <3>3, <3>4
  <2> QED  BY <1>0, <2>6, <2>9, <2>11, <2>12, <2>13, SchedulerAssumption
           DEF SchedulerAssumption
<1>3. CASE SpawnFails
  <2>1. UNCHANGED <<shared, tvars, verdict>> /\ mpc = "spawn" /\ mpc' = "leave"
        /\ thrown' = "internal" /\ SpawnMayFail
    BY <1>3 DEF SpawnFails
  <2>2. Causes'
    BY <2>1 DEF IInv, Causes, Witnessed, Failing, shared, tvars
  <2>3. MainKnows'
    BY <2>1 DEF IInv, MainKnows
  <2> QED  BY <1>0, <1>3, <2>2, <2>3, MainQuiet DEF IInv
<1>4. CASE Join
  <2>1. UNCHANGED <<shared, tvars, verdict>> /\ mpc = "join" /\ mi \in Threads
        /\ thrown = "none" /\ verdict = "none"
    BY <1>4 DEF Join, IInv, TypeOK, MainKnows
  <2>2. \A t \in Threads : (t < mi => pc[t] = "done") /\ pc[t] # "unborn"
    BY <2>1 DEF IInv, MainKnows
  <2>3. \A f : Witnessed(f)' <=> Witnessed(f)
    BY <2>1 DEF Witnessed, shared
  <2>4. CASE pc[mi] = "done" /\ Loop(mi, "join", "leave") /\ thrown' = thrown
    <3>1. \A t \in Threads : t < mi + 1 => pc[t] = "done"
      BY <2>1, <2>2, <2>4 DEF Threads
    <3>2. Causes'
      BY <2>1, <2>3, <2>4 DEF IInv, Causes, Failing, shared, tvars
    <3>3. CASE mi + 1 < NumThreads
      <4>1. mpc' = "join" /\ mi' = mi + 1
        BY <2>4, <3>3 DEF Loop
      <4>2. MainKnows'
        BY <2>1, <2>2, <2>4, <3>1, <4>1 DEF MainKnows, tvars
      <4> QED  BY <1>0, <1>4, <3>2, <4>2, MainQuiet DEF IInv
    <3>4. CASE ~(mi + 1 < NumThreads)
      <4>1. mpc' = "leave"
        BY <2>4, <3>4 DEF Loop
      <4>2. \A t \in Threads : pc[t] = "done"
        BY <2>1, <3>1, <3>4, SchedulerAssumption DEF Threads, SchedulerAssumption
      <4>3. MainKnows'
        BY <2>1, <2>4, <4>1, <4>2 DEF MainKnows, tvars
      <4> QED  BY <1>0, <1>4, <3>2, <4>3, MainQuiet DEF IInv
    <3> QED  BY <3>3, <3>4
  <2>5. CASE pc[mi] = "panicked" /\ thrown' = payload[mi] /\ mpc' = "leave"
    <3>1. Witnessed(payload[mi])
      BY <2>1, <2>5 DEF IInv, Causes, Failing
    <3>2. payload[mi] # "none"
      <4>1. PICK d \in Declars : fate[d] = payload[mi]
        BY <3>1 DEF Witnessed
      <4>2. fate[d] \in Fates
        BY DEF IInv, TypeOK
      <4> QED  BY <4>1, <4>2, SchedulerAssumption DEF SchedulerAssumption, Failures
    <3>3. Causes'
      BY <2>1, <2>3, <2>5, <3>1 DEF IInv, Causes, Failing, shared, tvars
    <3>4. MainKnows'
      BY <2>1, <2>5, <3>2 DEF MainKnows
    <3> QED  BY <1>0, <1>4, <3>3, <3>4, MainQuiet DEF IInv
  <2> QED  BY <1>4, <2>4, <2>5 DEF Join
<1>5. CASE LeaveScope
  <2>1. UNCHANGED <<shared, tvars, thrown, verdict>> /\ mpc = "leave"
        /\ mpc' = "finish" /\ \A t \in Threads : Ended(t)
    BY <1>5 DEF LeaveScope
  <2>2. Causes'
    BY <2>1 DEF IInv, Causes, Witnessed, Failing, shared, tvars
  <2>3. thrown = "none" => \A d \in Declars : runs[d] = 1 /\ fate[d] = "ok"
    <3> SUFFICES ASSUME thrown = "none", NEW d \in Declars
                 PROVE  runs[d] = 1 /\ fate[d] = "ok"
      OBVIOUS
    <3>1. \A t \in Threads : pc[t] = "done"
      BY <2>1 DEF IInv, MainKnows
    <3>2. 0 \in Threads
      BY SchedulerAssumption DEF Threads, SchedulerAssumption
    <3>3. Taken(d)
      BY <3>1, <3>2 DEF IInv, Accounted
    <3>4. \A t \in Threads : d \notin Held(t) /\ ~Failing(t)
      BY <3>1 DEF Held, Failing
    <3>5. runs[d] = 1
      BY <3>3, <3>4 DEF IInv, Accounted, Partition
    <3> QED  BY <3>4, <3>5 DEF IInv, Causes
  <2>4. MainKnows'
    <3>1. \A t \in Threads : Ended(t)'
      BY <2>1 DEF Ended, tvars
    <3> QED  BY <2>1, <2>3, <3>1 DEF IInv, MainKnows, shared
  <2> QED  BY <1>0, <1>5, <2>2, <2>4, MainQuiet DEF IInv
<1>6. CASE Conclude
  <2>1. UNCHANGED <<shared, tvars, thrown>> /\ mpc = "finish" /\ mpc' = "exited"
        /\ verdict' = FromPanic(thrown)
    BY <1>6 DEF Conclude
  <2>2. Causes'
    BY <2>1 DEF IInv, Causes, Witnessed, Failing, shared, tvars
  <2>3. MainKnows'
    BY <2>1 DEF IInv, MainKnows, Ended, FromPanic, shared, tvars
  <2> QED  BY <1>0, <1>6, <2>2, <2>3, MainQuiet DEF IInv
<1> QED  BY <1>1, <1>2, <1>3, <1>4, <1>5, <1>6 DEF Main

LEMMA InitInv == Init => IInv
<1> SUFFICES ASSUME Init PROVE IInv
  OBVIOUS
<1>1. TypeOK
  BY InitType
<1>2. /\ \A t \in Threads : /\ pc[t] = "unborn" /\ Held(t) = {} /\ ~Failing(t)
                            /\ lo[t] = 0 /\ hi[t] = 0
      /\ \A d \in Declars : runs[d] = 0 /\ ~Taken(d)
  BY SchedulerAssumption
     DEF Init, Held, Failing, Taken, Declars, Threads, SchedulerAssumption
<1>3. Ranges
  BY <1>2 DEF Init, Ranges
<1>4. Partition /\ Accounted /\ Causes
  BY <1>2 DEF Init, Partition, HeldOnce, Accounted, Causes
<1>5. MainKnows
  BY <1>2 DEF Init, MainKnows, Threads, Declars
<1> QED  BY <1>1, <1>3, <1>4, <1>5 DEF IInv

(* The inductive invariant: what the proofs below rest on. *)
THEOREM Invariance == Spec => []IInv
<1>1. IInv /\ [Next]_vars => IInv'
  <2> SUFFICES ASSUME IInv, [Next]_vars PROVE IInv'
    OBVIOUS
  <2>1. CASE UNCHANGED vars
    BY <2>1 DEF vars, shared, tvars, mvars, IInv, TypeOK, Ranges, Partition,
       HeldOnce, Held, Taken, Accounted, Failing, Causes, Witnessed, MainKnows,
       Ended
  <2> QED  BY <2>1, ThreadStep, MainStep DEF Next, Exited
<1> QED  BY <1>1, InitInv, PTL DEF Spec

-----------------------------------------------------------------------------
(* What the invariant gives.                                               *)

(* Every variable of Scheduler keeps its type: in particular a chunk never
   ends past the last declaration, whatever ChunkSize divides. *)
THEOREM Typing == Spec => []TypeOK
<1>1. IInv => TypeOK
  BY DEF IInv
<1> QED  BY <1>1, Invariance, PTL

(* No declaration is checked by two threads, nor twice by one: chunks and
   the ranges sessions leave over never overlap. *)
THEOREM ClaimsAreDisjoint == Spec => []HeldOnce
<1>1. IInv => HeldOnce
  BY DEF IInv, Partition
<1> QED  BY <1>1, Invariance, PTL

(* When all threads returned normally, every declaration was checked. *)
THEOREM NoneIsLost == Spec => []NothingLost
<1>1. IInv => NothingLost
  <2> SUFFICES ASSUME IInv, \A t \in Threads : pc[t] = "done",
                      NEW d \in Declars
               PROVE  runs[d] = 1
    BY DEF NothingLost
  <2>1. 0 \in Threads
    BY SchedulerAssumption DEF Threads, SchedulerAssumption
  <2>2. Taken(d)
    BY <2>1 DEF IInv, Accounted
  <2>3. \A t \in Threads : d \notin Held(t) /\ ~Failing(t)
    BY DEF Held, Failing
  <2> QED  BY <2>2, <2>3 DEF IInv, Accounted, Partition
<1> QED  BY <1>1, Invariance, PTL

-----------------------------------------------------------------------------
(* Sessions.                                                               *)

\* Only a thread that is about to end its session is over its budget, and by
\* no more than the declaration it checked last.
Metered ==
  \A t \in Threads :
    \/ used[t] <= Budget
    \/ pc[t] = "clear" /\ \E b \in Sizes : used[t] <= Budget + b

LEMMA MeteredKept ==
  ASSUME TypeOK, MainKnows, Metered, [Next]_vars
  PROVE  Metered'
<1> USE SchedulerAssumption DEF SchedulerAssumption, TypeOK
<1>1. ASSUME NEW t \in Threads, Thread(t), NEW u \in Threads \ {t}
      PROVE  used'[u] = used[u] /\ pc'[u] = pc[u]
  BY <1>1 DEF Thread, FetchAdd, Test, Finish, SerialEnd, CheckPasses,
              CheckFails, Stop, ClearSession, shared, mvars
<1>2. ASSUME NEW t \in Threads, Thread(t)
      PROVE  \/ used'[t] <= Budget
             \/ pc'[t] = "clear" /\ \E b \in Sizes : used'[t] <= Budget + b
  <2>1. CASE CheckPasses(t)
    <3>1. used[t] <= Budget
      BY <2>1 DEF CheckPasses, Metered
    <3>2. PICK b \in Sizes :
            /\ used' = [used EXCEPT ![t] = @ + b]
            /\ pc' = [pc EXCEPT ![t] = IF Over(used[t] + b) THEN "clear"
                                       ELSE Resume(lo[t] + 1, hi[t])]
      BY <2>1 DEF CheckPasses
    <3>3. used'[t] = used[t] + b /\ b \in Nat /\ used[t] \in Nat
      BY <3>2
    <3> QED  BY <3>1, <3>2, <3>3 DEF Over
  <2>2. CASE ClearSession(t) \/ Test(t) \/ SerialEnd(t)
    BY <2>2 DEF ClearSession, Test, SerialEnd, Finish, Metered, shared, mvars
  <2>3. CASE FetchAdd(t) \/ CheckFails(t) \/ Stop(t)
    BY <2>3 DEF FetchAdd, CheckFails, Stop, Metered
  <2> QED  BY <1>2, <2>1, <2>2, <2>3 DEF Thread
<1>3. ASSUME NEW t \in Threads, Thread(t)
      PROVE  Metered'
  BY <1>1, <1>2, <1>3 DEF Metered
<1>4. CASE Main
  <2>1. used' = used /\ \A t \in Threads : pc[t] = "clear" => pc'[t] = "clear"
    <3>1. CASE Spawn
      BY <3>1 DEF Spawn, MainKnows
    <3>2. CASE ParseStep \/ SpawnFails \/ Join \/ LeaveScope \/ Conclude
      BY <3>2 DEF ParseStep, SpawnFails, Join, LeaveScope, Conclude, tvars
    <3> QED  BY <1>4, <3>1, <3>2 DEF Main
  <2> QED  BY <2>1 DEF Metered
<1>5. CASE UNCHANGED vars
  BY <1>5 DEF vars, tvars, Metered
<1> QED  BY <1>3, <1>4, <1>5 DEF Next, Exited

(* A thread's value arena is never over SESSION_BUDGET by more than one
   declaration, however a session's work is cut and taken up again
   (run_session_inner). *)
THEOREM ArenaBounded == Spec => []SessionBounded
<1>1. Init => Metered
  BY SchedulerAssumption DEF Init, Metered, SchedulerAssumption
<1>2. TypeOK /\ Metered => SessionBounded
  <2> SUFFICES ASSUME TypeOK, Metered, NEW t \in Threads
               PROVE  \E b \in Sizes \cup {0} : used[t] <= Budget + b
    BY DEF SessionBounded
  <2>1. Budget + 0 = Budget
    BY SchedulerAssumption DEF SchedulerAssumption
  <2> QED  BY <2>1 DEF Metered
<1>3. IInv => TypeOK /\ MainKnows
  BY DEF IInv
<1> QED  BY <1>1, <1>2, <1>3, MeteredKept, Invariance, PTL DEF Spec

-----------------------------------------------------------------------------
(* The stop flag.                                                          *)

\* What one step grants a thread that sees the flag.
LEMMA NoGrant ==
  ASSUME IInv, [Next]_vars, stopped, NEW t \in Threads \ Laggards
  PROVE  Granted(t)' \subseteq Granted(t)
<1> USE SchedulerAssumption DEF SchedulerAssumption, Granted, Held, IInv, TypeOK
<1>1. CASE Thread(t)
  <2>1. CASE FetchAdd(t) \/ SerialEnd(t) \/ CheckFails(t) \/ Stop(t)
    BY <2>1 DEF FetchAdd, SerialEnd, Finish, CheckFails, Stop
  <2>2. CASE Test(t)
    BY <2>2 DEF Test, SeenStopped, Refused, Finish
  <2>3. CASE CheckPasses(t)
    <3>1. /\ pc[t] = "check" /\ hi'[t] = hi[t] /\ lo'[t] = lo[t] + 1
          /\ lo[t] \in Nat /\ hi[t] \in Nat
      BY <2>3 DEF CheckPasses
    <3> QED  BY <3>1
  <2>4. CASE ClearSession(t)
    BY <2>4 DEF ClearSession, Resume
  <2> QED  BY <1>1, <2>1, <2>2, <2>3, <2>4 DEF Thread
<1>2. ASSUME NEW u \in Threads \ {t}, Thread(u)
      PROVE  Granted(t)' \subseteq Granted(t)
  BY <1>2, OthersStay
<1>3. CASE Spawn
  <2>1. PICK u \in Threads : pc[u] = "panicked"
    BY DEF Causes
  <2>2. NumThreads > 1
    <3>1. SUFFICES ASSUME NumThreads = 1 PROVE FALSE
      OBVIOUS
    <3>2. \A v \in Threads : v = 0
      BY <3>1 DEF Threads
    <3> QED  BY <1>3, <2>1, <3>2 DEF Spawn, MainKnows
  <2> QED  BY <1>3, <2>2 DEF Spawn
<1>4. CASE ParseStep \/ SpawnFails \/ Join \/ LeaveScope \/ Conclude
  BY <1>4 DEF ParseStep, SpawnFails, Join, LeaveScope, Conclude, tvars
<1>5. CASE UNCHANGED vars
  BY <1>5 DEF vars, tvars
<1> QED  BY <1>1, <1>2, <1>3, <1>4, <1>5 DEF Next, Main, Exited

(* Once a failure was flagged, a thread whose load of the flag is coherent is
   given nothing more to check, be it by a chunk another thread missed
   (claim). *)
THEOREM StopIsHeeded == Spec => NoWorkAfterStop
<1>1. IInv /\ [Next]_vars =>
        [stopped => \A t \in Threads \ Laggards : Granted(t)' \subseteq Granted(t)]_vars
  BY NoGrant
<1> QED  BY <1>1, Invariance, PTL DEF Spec, NoWorkAfterStop

-----------------------------------------------------------------------------
(* Refinement: every step is a step of CheckAll or leaves it alone.        *)

LEMMA InitRefines == Init => Abs!Init
BY SchedulerAssumption
   DEF Init, Abs!Init, Abs!Outcomes, Abs!Failures, Failures, SchedulerAssumption

\* A declaration is run once, before the verdict.
LEMMA CheckRefines ==
  ASSUME IInv, NEW t \in Threads, CheckPasses(t) \/ CheckFails(t)
  PROVE  Abs!Run(lo[t]) /\ lo[t] \in Declars
<1>1. /\ lo[t] \in Declars /\ lo[t] \in Nat /\ lo[t] < hi[t] /\ hi[t] \in Nat
      /\ pc[t] = "check"
  BY AtDeclar, SchedulerAssumption
     DEF CheckPasses, CheckFails, IInv, TypeOK, SchedulerAssumption
<1>2. runs[lo[t]] = 0
  BY <1>1 DEF IInv, Partition, HeldOnce, Held
<1>3. verdict = "none" /\ UNCHANGED <<fate, verdict>>
  BY Running, MainStays DEF IInv, Thread
<1>4. runs' = [runs EXCEPT ![lo[t]] = 1]
  BY <1>1, <1>2 DEF CheckPasses, CheckFails, IInv, TypeOK
<1> QED  BY <1>1, <1>2, <1>3, <1>4 DEF Abs!Run

LEMMA StepRefines ==
  ASSUME IInv, Next
  PROVE  [Abs!Next]_(Abs!vars)
<1> USE DEF Abs!Next, Abs!vars
<1>1. ASSUME NEW t \in Threads, Thread(t)
      PROVE  [Abs!Next]_(Abs!vars)
  <2>1. CASE CheckPasses(t) \/ CheckFails(t)
    BY <1>1, <2>1, CheckRefines
  <2>2. CASE ~(CheckPasses(t) \/ CheckFails(t))
    BY <1>1, <2>2 DEF Thread, FetchAdd, Test, Finish, SerialEnd, Stop,
                      ClearSession, shared, mvars
  <2> QED  BY <2>1, <2>2
<1>2. CASE ParseStep
  <2>1. CASE mi < Total
    <3>1. mi \in Declars
      BY <2>1, SchedulerAssumption DEF IInv, TypeOK, Declars, SchedulerAssumption
    <3>2. runs[mi] = 0 /\ verdict = "none"
      BY <1>2, <3>1 DEF IInv, MainKnows, ParseStep, Declars
    <3>3. runs' = [runs EXCEPT ![mi] = 1] /\ UNCHANGED <<fate, verdict>>
      BY <1>2, <2>1, <3>1, <3>2 DEF ParseStep, IInv, TypeOK
    <3> QED  BY <3>1, <3>2, <3>3 DEF Abs!Run
  <2> QED  BY <1>2, <2>1 DEF ParseStep
<1>3. CASE Conclude
  <2>1. /\ mpc = "finish" /\ verdict' = FromPanic(thrown) /\ verdict = "none"
        /\ fate' = fate /\ runs' = runs
    BY <1>3 DEF Conclude, IInv, MainKnows, shared
  <2>2. CASE thrown = "none"
    BY <2>1, <2>2 DEF IInv, MainKnows, FromPanic, Abs!Accept
  <2>3. CASE thrown = "internal" /\ SpawnMayFail
    BY <2>1, <2>3 DEF FromPanic, Abs!Break
  <2>4. CASE thrown # "none" /\ Witnessed(thrown)
    <3>1. PICK d \in Declars : runs[d] = 1 /\ fate[d] = thrown /\ thrown # "ok"
      BY <2>4 DEF Witnessed
    <3> QED  BY <2>1, <2>4, <3>1 DEF FromPanic, Abs!Fail
  <2> QED  BY <2>2, <2>3, <2>4 DEF IInv, Causes
<1>4. CASE Spawn \/ SpawnFails \/ Join \/ LeaveScope \/ Exited
  BY <1>4 DEF Spawn, SpawnFails, Join, LeaveScope, Exited, vars, shared, mvars
<1> QED  BY <1>1, <1>2, <1>3, <1>4 DEF Next, Main

(* Whatever the number of threads, the chunk size and the schedule,
   check_all_declars accepts only when every declaration was checked exactly
   once and passed, and otherwise reports a failure that happened. *)
THEOREM Implements == Spec => Promise
<1>1. IInv /\ [Next]_vars => [Abs!Next]_(Abs!vars)
  <2> SUFFICES ASSUME IInv, [Next]_vars PROVE [Abs!Next]_(Abs!vars)
    OBVIOUS
  <2>1. CASE UNCHANGED vars
    BY <2>1 DEF vars, shared, mvars, Abs!vars
  <2> QED  BY <2>1, StepRefines
<1> QED  BY <1>1, InitRefines, Invariance, PTL DEF Spec, Promise, Abs!Spec
=============================================================================
